----------------------------- MODULE MCQueryExecutor -----------------------------
(***************************************************************************)
(* Instances of QueryExecutor for TLC.                                     *)
(***************************************************************************)
EXTENDS QueryExecutor

\* Every dependency graph over N steps, self-dependencies and cycles included,
\* with every choice of INTERNAL steps: what the executor's own interface
\* accepts.
AllPlans == PlanType

=============================================================================
