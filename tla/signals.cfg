CONSTANTS
  t1 = t1
  t2 = t2
  t3 = t3
  w1 = w1
  w2 = w2
  c1 = c1
  Procs = {w1, w2}
  Workers = {w1, w2}
  Clients = {w2}
  Callbacks = {"post"}
  Signalled = {w1}
  Removers <- WithRoot
  Killable = {}
  Tasks = {t1, t2}
  Garbled = {}
  UuidOf <- MCUuidOf
  Uuids <- MCUuids
  NoTask = NoTask
  Stamps = {}
  FreedNext = {"intact", "null", "wild"}
  MsgExcept = FALSE
  QueueCap = 1
  MaxTime = 2
  MaxQueues = 2
  MaxRunning = 2
  MaxClears = 0
  MaxDeletes = 1
SPECIFICATION Spec
INVARIANTS AtMostOnce
CHECK_DEADLOCK FALSE
