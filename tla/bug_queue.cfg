CONSTANTS
  t1 = t1
  t2 = t2
  t3 = t3
  w1 = w1
  w2 = w2
  c1 = c1
  Procs = {w1, w2, c1}
  Workers = {w1, w2}
  Clients = {c1}
  Callbacks = {}
  Signalled = {w1}
  Removers <- OneUser
  Killable = {}
  Tasks = {t1}
  Garbled = {}
  UuidOf <- MCUuidOf
  Uuids <- MCUuids
  NoTask = NoTask
  Stamps = {}
  FreedNext = {"intact"}
  MsgExcept = FALSE
  QueueCap = 2
  MaxTime = 0
  MaxQueues = 1
  MaxRunning = 2
  MaxClears = 0
  MaxDeletes = 0
SPECIFICATION Spec
PROPERTIES QueueKeptForWorkers
CHECK_DEADLOCK FALSE
