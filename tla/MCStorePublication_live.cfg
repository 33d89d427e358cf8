\* One release; jobs go on beside the service.
CONSTANTS
  fund1 = fund1
  fund2 = fund2
  org = org
  security = security
  managed1 = managed1
  managed2 = managed2
  corrected1 = corrected1
  holds1 = holds1
  holds2 = holds2
  Entity <- Entities
  Product <- Products
  Fact <- Facts
  Holds <- HoldsFacts
  Subject <- Subjects
  Object <- Objects
  Releases = 1
  Yield <- Single
  Holdings = TRUE
  ReadsOverlap = TRUE
  MaxFaults = 1
  Withdrawn = Withdrawn
SPECIFICATION FairPublicationSpec
PROPERTIES
  StoresRecover
