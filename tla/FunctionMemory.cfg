SPECIFICATION Spec
CONSTANTS
  Owner = {action, other_action, third_action}
  Handler = {handler, other_handler}
  Var = {home, path, lang}
  Path = {file, other_file}
  Callee = {send, commit}
  Operation = {request, reply}
  None = none
  Capacity = 2
  MaxNesting <- MCMaxNesting
  Programs <- MCPrograms
SYMMETRY Renamings
INVARIANTS
  TypeOK
  HandlersAreCurrent
  SpentBorrowsAreReported
  PathsWereChecked
  RetriesAreUnresolved
CHECK_DEADLOCK FALSE
