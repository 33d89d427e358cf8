\* Jobs fail and are killed anywhere; the second of three releases derives
\* more than the first, the third what the first does.
CONSTANTS
  fund1 = fund1
  fund2 = fund2
  org = org
  security = security
  managed1 = managed1
  managed2 = managed2
  corrected1 = corrected1
  holds1 = holds1
  holds2 = holds2
  Entity <- Entities
  Product <- Products
  Fact <- Facts
  Holds <- HoldsFacts
  Subject <- Subjects
  Object <- Objects
  Releases = 3
  Yield <- Varying
  Holdings = TRUE
  ReadsOverlap = FALSE
  MaxFaults = 2
  Withdrawn = Withdrawn
SPECIFICATION PublicationSpec
INVARIANTS
  ReadySnapshotIsLoaded
  ReadsAreWhole
  BundleIsCoherent
  ServiceStartsCurrent
PROPERTIES
  GraphIsDerivedStore
  IndexIsDerivedStore
