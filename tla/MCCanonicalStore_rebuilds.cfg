SPECIFICATION Spec
CONSTANTS
  Is <- MCIs
  Dates <- MCDates
  Numbers <- MCNumbers
  Concepts <- MCConcepts
  Codes <- MCCodes
  Fold <- MCFold
  Today <- MCToday
  Materials <- MCMaterials
  Holdings <- MCHoldings
  Issuers <- MCIssuers
  Returns <- MCReturns
  Legal <- MCLegal
  Space <- MCSpace
INVARIANTS
  DisputedColumnsStayOpen
  RebuildIsAccepted
  ActivationIsStable
  OneIssuerPerTicker
  ReadyRowsAreTraced
