\* Every query shape with at most three constraints, over stores of two
\* products: with a limit of one, each window can be too small.
CONSTANTS
  Entities = {1, 2}
  Queries <- BoundQueries
  K = 1
  MaxConstraints = 3
  CandidateLimit = 2
  RdbDefault = 1
  RdbMax = 2
  BM25TopK = 1
  BM25Candidates = 1
  VectorTopK = 1
  GraphWindow = 2
SPECIFICATION Spec
INVARIANTS
  AnswersMeetEveryConstraint
  AnswersWithinLimit
  ZeroMatchIsTrue
  RankedAnswersAreGlobal
