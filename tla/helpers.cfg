CONSTANTS
  Directives <- MCDirectives
  Fold <- MCFold
  Index <- MCIndex
  Wanted = {Nil, "dev"}
  Nil = Nil
  MaxLines = 5
  Keys <- MCNames
  Deepest = 4
  RemoveCalls <- MCRemoveCalls
  RandCalls <- MCRandCalls
  Looks <- MCLooks
  RandRange = 4
  Absent = Absent
  Lengths <- MCLengths
  Packed <- MCPacked
  Passwords <- MCPasswords
  KeySize = 2
  Garbage <- MCGarbage
  Shown = 4
  NULL = NULL
SPECIFICATION Spec
INVARIANTS IniTypeOK SectionsAsWritten WantedGiven RemovedAsAsked RandExact RoundTrip BuffersHold
PROPERTIES ParentsKept
CHECK_DEADLOCK FALSE
