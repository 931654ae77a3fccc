CONSTANTS
  t1 = t1
  t2 = t2
  t3 = t3
  w1 = w1
  w2 = w2
  c1 = c1
  Procs = {w1, w2, c1}
  Workers = {w1, w2}
  Clients = {c1, w2}
  Callbacks = {"clear", "exit"}
  Signalled = {}
  Removers <- WithRoot
  Killable = {w1}
  Tasks = {t1}
  Garbled = {}
  UuidOf <- MCUuidOf
  Uuids <- MCUuids
  NoTask = NoTask
  Stamps = {}
  FreedNext = {"intact"}
  MsgExcept = FALSE
  QueueCap = 2
  MaxTime = 2
  MaxQueues = 2
  MaxRunning = 2
  MaxClears = 1
  MaxDeletes = 0
SPECIFICATION Spec
INVARIANTS TypeOK MutualExclusion LockCounted RunningNotNegative
PROPERTIES LostWithItsHolder
CHECK_DEADLOCK FALSE
