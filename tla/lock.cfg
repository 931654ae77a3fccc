CONSTANTS
  p1 = p1
  p2 = p2
  p3 = p3
  Procs = {p1, p2, p3}
  Together = FALSE
  Careless = {}
  Killable = {p1, p2, p3}
  SemMax = 2
SPECIFICATION LockSpec
INVARIANTS LockTypeOK OneHolder LockConserved OneInside
