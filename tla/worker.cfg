CONSTANTS
  t1 = t1
  t2 = t2
  t3 = t3
  w1 = w1
  w2 = w2
  c1 = c1
  Procs = {w1, c1}
  Workers = {w1}
  Clients = {c1}
  Callbacks = {"throw"}
  Signalled = {}
  Removers <- OneUser
  Killable = {w1}
  Tasks = {t1, t2, t3}
  Garbled = {t3}
  UuidOf <- MCUuidOf
  Uuids <- MCUuids
  NoTask = NoTask
  Stamps = {1, 2}
  FreedNext = {"intact", "wild"}
  MsgExcept = FALSE
  QueueCap = 1
  MaxTime = 2
  MaxQueues = 1
  MaxRunning = 2
  MaxClears = 0
  MaxDeletes = 1
SPECIFICATION Spec
INVARIANTS DeletedNeverRuns CrontabSorted NothingOverdue
PROPERTIES NotEarly KeepsThePromise
