SPECIFICATION Spec
CONSTANTS
  MaxFields = 16
  MaxFlaws = 1
INVARIANTS
  TypeOK
  ReadsGivenFields
  FactsMatchTheTable
CHECK_DEADLOCK FALSE
