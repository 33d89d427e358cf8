----------------------------- MODULE MCAnswerRequest -----------------------------
(***************************************************************************)
(* Instances of AnswerRequest for TLC.                                     *)
(***************************************************************************)
EXTENDS AnswerRequest

\* The planner's plans are acyclic: the validator rejects the others.
AcyclicPlans == {p \in PlanType : Acyclic(p.deps)}

\* Without LLMs, with a parser that cannot repair, and with everything.
Deployments ==
  { [parser |-> FALSE, repair |-> FALSE, writer |-> FALSE],
    [parser |-> TRUE,  repair |-> FALSE, writer |-> FALSE],
    [parser |-> TRUE,  repair |-> TRUE,  writer |-> TRUE] }

=============================================================================
