CONSTANTS
  Directives <- MCDirectives
  Fold <- MCFold
  Index <- MCIndex
  Wanted = {Nil, "dev"}
  Nil = Nil
  MaxLines = 1
  Keys <- MCNames
  Deepest = 4
  RemoveCalls <- MCRemoveCalls
  RandCalls <- MCRandCalls
  Looks <- MCLooks
  RandRange = 4
  Absent = Absent
  Lengths <- MCLengths
  Packed <- MCPacked
  Passwords <- MCPasswords
  KeySize = 2
  Garbage <- MCGarbage
  Shown = 4
  NULL = NULL
SPECIFICATION Spec
INVARIANTS RemovesAll
CHECK_DEADLOCK FALSE
