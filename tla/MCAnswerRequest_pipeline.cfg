\* Every deployment, every acyclic plan of two steps, fairness of the timer and
\* of unwinding only.
CONSTANTS
  N = 2
  Plans <- AcyclicPlans
  Configs <- Deployments
SPECIFICATION FairRequestSpec
INVARIANTS
  AnswersAreBacked
  NoTaskOutlivesRequest
  FaultsReachTheClient
  ReportedCallsAreReal
PROPERTIES
  EveryRequestEnds
