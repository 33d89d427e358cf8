\* Every plan of three steps, cyclic ones included, with the event loop's
\* fairness.
CONSTANTS
  N = 3
  Plans <- AllPlans
SPECIFICATION FairSpec
INVARIANTS
  SkippedIffUpstreamFailed
  NoTaskOutlivesExecution
  FaultsAreNotHidden
  SuccessesAreRepresented
PROPERTIES
  ImplementsPlanExecution
  Termination
