\* A graph job proceeds between the queries of one read.
CONSTANTS
  fund1 = fund1
  fund2 = fund2
  org = org
  security = security
  managed1 = managed1
  managed2 = managed2
  corrected1 = corrected1
  holds1 = holds1
  holds2 = holds2
  Entity <- Entities
  Product <- Products
  Fact <- Facts
  Holds <- HoldsFacts
  Subject <- Subjects
  Object <- Objects
  Releases = 2
  Yield <- Additive
  Holdings = FALSE
  ReadsOverlap = TRUE
  MaxFaults = 0
  Withdrawn = Withdrawn
SPECIFICATION PublicationSpec
INVARIANTS
  ReadsAreWhole
