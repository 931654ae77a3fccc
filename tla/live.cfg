CONSTANTS
  t1 = t1
  t2 = t2
  t3 = t3
  w1 = w1
  w2 = w2
  c1 = c1
  Procs = {w1, c1}
  Workers = {w1}
  Clients = {c1}
  Callbacks = {"post", "throw"}
  Signalled = {}
  Removers <- OneUser
  Killable = {}
  Tasks = {t1, t2}
  Garbled = {}
  UuidOf <- MCUuidOf
  Uuids <- MCUuids
  NoTask = NoTask
  Stamps = {1}
  FreedNext = {"intact"}
  MsgExcept = FALSE
  QueueCap = 2
  MaxTime = 2
  MaxQueues = 2
  MaxRunning = 2
  MaxClears = 1
  MaxDeletes = 0
SPECIFICATION FairSpec
PROPERTIES Served LockGranted StopsOnlyWhenTold KeepsThePromise
