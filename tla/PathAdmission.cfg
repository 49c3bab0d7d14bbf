SPECIFICATION FairSpec
CONSTANTS
  Path <- MCPath
  NoPath = "none"
  Dir <- MCDir
  Name <- MCName
  Unresolved = "unresolved"
  RealPath <- MCRealPath
  Roots <- ProjectRoot
  Hash <- MCHash
  InitialCapacity = 2
INVARIANTS
  TypeOK
  IInv
PROPERTIES
  VerdictsKept
  ImplementsMemo
  CallsReturn
CHECK_DEADLOCK FALSE
