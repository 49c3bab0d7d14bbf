SPECIFICATION Spec
CONSTANTS
  Error = {err, other}
  Var = {fd}
  None = none
  MaxNesting <- MCMaxNesting
INVARIANTS
  TypeOK
  ScopeMatchesAncestry
  ChainsAreUnchecked
  ChainsAreFound
  OutputsAreUnchecked
CHECK_DEADLOCK FALSE
SYMMETRY Symmetric
