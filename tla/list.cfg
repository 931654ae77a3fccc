CONSTANTS
  v1 = v1
  v2 = v2
  Addr = {a1, a2, a3, a4}
  NULL = NULL
  Values = {v1, v2}
  MatchOf <- MCMatchOf
  Lists = {orig, copy}
  Made = {orig}
  Methods <- MCMethods
SYMMETRY Symmetry
SPECIFICATION Spec
INVARIANTS ListTypeOK Linked NodesOwned ValuesOwned VisitsAll LookupAgrees
