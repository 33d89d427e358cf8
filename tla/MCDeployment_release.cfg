\* A host with one release, combined or split, or with none.
CONSTANTS
  combined = combined
  code1 = code1
  code2 = code2
  art1 = art1
  art2 = art2
  Code = {combined, code1, code2}
  Artifact = {art1, art2}
  None = None
  PreSplit = {combined}
  Works <- WorkingReleases
  SameCode = FALSE
  MaxIgnored = 1
SPECIFICATION DeploymentSpec
INVARIANTS
  ServesCurrent
  RollbackIsPossible
PROPERTIES
  CurrentIsGated
