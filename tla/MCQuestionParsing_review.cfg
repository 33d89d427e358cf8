SPECIFICATION Spec
CONSTANTS
  Questions <- MCQuestions
  Candidates <- MCCandidates
  Configured = {TRUE, FALSE}
INVARIANTS
  
  TrustedMaterialSurvives
  UnexecutableIsKept
