SPECIFICATION Spec
INVARIANT FoundPathsFit
CHECK_DEADLOCK FALSE
