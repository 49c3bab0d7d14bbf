SPECIFICATION Spec
CONSTANTS
  MaxCommands = 3
  MaxArguments = 2
INVARIANTS
  TypeOK
  NothingIsLeaked
  OneCommandIsShown
  FailureIsExplained
CHECK_DEADLOCK FALSE
