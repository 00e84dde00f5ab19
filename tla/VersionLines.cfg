SPECIFICATION FairSpec
CONSTANTS
  Upstream <- SomeVersions
  FirstLines <- SomeLines
  MoreLines <- OtherLines
  Window = 2
INVARIANTS
  TypeOK
  OneLinePerVersion
PROPERTIES
  ReportedInOrder
  EveryVersionIsNoticed
