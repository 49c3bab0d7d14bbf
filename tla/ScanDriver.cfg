SPECIFICATION ScanSpec
CONSTANTS
  Node <- MCNode
  Kind <- MCKind
  Trees <- MCTrees
  Skipped <- MCSkipped
  Paths <- MCPaths
  Commands <- MCCommands
  BuildDir <- MCBuildDir
  Admitted <- MCAdmitted
  Home = "home"
  NoDirectory = ""
  MaxDepth = 4
  MaxRecords = 2
  MaxPlaces = 2
INVARIANTS
  TypeOK
  HomeBetweenUnits
  StreamsBelongToCalls
PROPERTIES
  KeepsContract
  Terminates
