SPECIFICATION Spec
CONSTANTS
  Path <- MCPath
  NoPath = "none"
  Dir <- MCDir
  Name <- MCName
  Unresolved = "unresolved"
  RealPath <- MCRealPath
  Roots <- ProjectRoot
  Hash <- MCHash
  InitialCapacity = 2
PROPERTY AnswerIsCurrent
CHECK_DEADLOCK FALSE
