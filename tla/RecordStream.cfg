SPECIFICATION Spec
CONSTANTS
  Units <- MCUnits
  InitialCapacity = 1
  MaxCapacity = 2
INVARIANTS
  TypeOK
  RecordsNameTheirScope
  CallsAreJudged
  CandidatesAreDistinct
  PredicatesAreSwapped
PROPERTIES
  KeepsContract
CHECK_DEADLOCK FALSE
