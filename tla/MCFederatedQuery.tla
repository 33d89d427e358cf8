---------------------------- MODULE MCFederatedQuery ----------------------------
(***************************************************************************)
(* Instances of FederatedQuery for TLC.                                    *)
(***************************************************************************)
EXTENDS FederatedQuery

CONSTANTS K, MaxConstraints

Shapes ==
  {q \in [asks : SUBSET Columns, mention : Mentions, unresolved : BOOLEAN,
          semantic : {"none", "bm25", "vector"},
          relations : {"none", "unlisted", "one", "two"},
          anchors : {"none", "some", "all"}, incoming : BOOLEAN,
          bond : BOOLEAN, limit : {NoLimit, K}] :
     /\ WellFormed(q)
     /\ q.incoming => q.mention # "none"
     /\ Cardinality(Material(q)) <= MaxConstraints}

\* Every shape whose mention, where there is one, the plan applies.
BoundQueries ==
  {q \in Shapes : MentionApplied(q) /\ (q.unresolved => q.mention = "none")}

\* A management company named beside column constraints, without a relation.
ManagerQueries == {q \in Shapes : RuleRoute(q) /\ q.mention = "organization"}

=============================================================================
