SPECIFICATION Spec
INVARIANTS
  TypeOK
  AnswerIsInTheBuffer
  ErrorsEndTheSearch
CHECK_DEADLOCK FALSE
