------------------------------ MODULE WcxTaskProps -----------------------------
(***************************************************************************)
(* What must hold of the task queue.                                       *)
(***************************************************************************)
EXTENDS WcxTask, FiniteSets

\* Tasks posted, accepted by msgsnd, and void since a delete; the uuids of the
\* deletes accepted; the calls made; each task's time and number of runs.
History ==
  [posted : SUBSET Tasks, accepted : SUBSET Tasks, asked : SUBSET Seq(STRING),
   void : SUBSET Tasks, deletes : Nat, clears : Nat,
   at : [Tasks -> Nat], runs : [Tasks -> Nat]]

\* Every variable has its type.
TypeOK ==
  /\ running \in Int /\ qnum \in Nat /\ slock \in Nat
  /\ mq \in [id : Nat, live : BOOLEAN, may : SUBSET Procs, msgs : Seq(Message)]
  /\ now \in Nat
  /\ pc \in [Procs -> Labels]
  /\ caller \in [Procs -> {"idle"} \cup Callback]
  /\ loc \in [Procs -> Locals]
  /\ held \in [Procs -> BOOLEAN]
  /\ eintr \in BOOLEAN
  /\ hist \in History

\* Between sem_wait and sem_post, calls made by a callback included.
Inside ==
  Callback \cup UnlockLabels \cup
  {"time", "recv", "got", "del", "delEnd", "count", "cron", "clear", "relR", "relW", "relZ"}

InCS(p) ==
  \/ pc[p] \in Inside
  \/ pc[p] \in {"send", "clearLock"} /\ caller[p] \in Callback

\* p is inside WcxTask::run.
Looping(p) == Alive(p) /\ loc[p].mine /\ ~loc[p].freed

\* Tasks in the queue, in the hands of a process that has just received them, or
\* in a crontab and not just executed from it.
Waiting ==
  (IF mq.live THEN InQueue ELSE {}) \cup
  {loc[p].msg.task : p \in {q \in Procs : Received(q, "add")}} \cup
  {t \in Tasks : \E p \in Procs : Alive(p) /\
     \E i \in DOMAIN loc[p].list :
        loc[p].list[i].task = t /\ ~(pc[p] = "cronExec" /\ i = 1)}

\* At most one process is in a critical section of slock, whatever the others
\* do, die of or are told, as long as no sem_wait has failed with EINTR.
MutualExclusion == ~eintr => \A p, q \in Procs : InCS(p) /\ InCS(q) => p = q

\* Unless a sem_wait has failed, the semaphore is 1 and nobody has it, or 0 and
\* exactly one process has it, possibly a dead one.
LockCounted ==
  ~eintr => \/ slock = 1 /\ \A p \in Procs : ~held[p]
            \/ slock = 0 /\ \E p \in Procs : \A q \in Procs : held[q] <=> q = p

\* `running` is negative only inside the release that is about to zero it:
\* no stale decrement is left behind for the next worker to start on.
RunningNotNegative == ~eintr /\ slock > 0 => running >= 0

\* The crontab of every worker is in order of time, so that its head is due
\* before every other node is.
CrontabSorted == \A p \in Procs : Sorted(loc[p].list)

\* When a worker leaves the crontab nothing in it is overdue at the time it
\* read: the scan that stops at the first task not due misses none.
NothingOverdue ==
  \A p \in Procs : pc[p] = "unlock" =>
    \A i \in DOMAIN loc[p].list : ~Due(loc[p].list[i], loc[p].ts)

\* No task runs twice: not through a second worker, a crash, a signal, or the
\* reading of a freed node.
AtMostOnce == \A t \in Tasks : hist.runs[t] <= 1

\* A task that had left the queue, and had not run, when a worker carried out a
\* delete that names it never runs.
DeletedNeverRuns == \A t \in hist.void : hist.runs[t] = 0

\* The tasks p has in its crontab, or has just received.
Hands(p) ==
  {loc[p].list[i].task : i \in DOMAIN loc[p].list} \cup
  IF Received(p, "add") THEN {loc[p].msg.task} ELSE {}

\* p ends, or its loop does.
Ends(p) == (Alive(p) /\ ~Alive(p)') \/ (pc[p] = "stop" /\ pc'[p] = "idle")

\* A task that waits is lost only with its holder: with the process that has it in
\* its hands, or with the queue, which goes only when a process attached to that
\* very queue ends its loop and may remove it.  A worker of an earlier queue, or of
\* another user, takes nothing away with it.  A task also leaves by running, by a
\* delete that names it, unread, or while its worker has an exception pending.
LostWithItsHolder ==
  [][\A t \in {x \in Waiting : hist.runs[x] = 0} \ Waiting' :
       \/ hist'.runs[t] > 0 \/ t \in Garbled
       \/ \E u \in hist.asked : IsPrefix(u, UuidOf[t])
       \/ \E p \in Procs : t \in Hands(p) /\ (loc[p].thrown \/ Ends(p))
       \/ \E p \in mq.may : t \in InQueue /\ loc[p].mid = mq.id /\ Ends(p)]_vars

\* A task is never run before the time asked for, though the worker's clock is
\* the one it read before it received the message.
NotEarly ==
  [][\A t \in Tasks : hist'.runs[t] > hist.runs[t] => hist.at[t] <= now]_vars

\* A worker leaves its loop only after a clear or its own SIGINT.
StopsOnlyWhenTold ==
  [][\A p \in Procs : pc[p] = "check" /\ pc'[p] = "stop" =>
       hist.clears > 0 \/ ~loc[p].go]_vars

--------------------------------------------------------------------------------
(* What the documentation or a message of the code says, and the code does  *)
(* not keep.                                                               *)

\* wcx_task.c:212: "task queue to locked".  A worker that has passed the lock
\* at the head of its loop holds it.
LockedMeansHeld == \A p \in Procs : pc[p] = "time" => held[p]

\* README.md:53: the queue is scanned again and again while a worker runs.  A
\* task in the queue leaves it only to be run or to enter a crontab, as long as
\* some worker is left to scan the queue.
QueueKeptForWorkers ==
  [][(\E p \in Procs : Looping(p)') =>
       \A t \in InQueue :
         t \in InQueue' \/ hist'.runs[t] > hist.runs[t] \/ t \in Waiting']_vars

--------------------------------------------------------------------------------
(* The promise of TaskLife, read off the state of the queue.               *)

LifeOf == [t \in Tasks |->
  IF hist.runs[t] > 1 THEN "twice"
  ELSE IF hist.runs[t] = 1 THEN "ran"
  ELSE IF t \notin hist.accepted THEN "fresh"
  ELSE IF t \in Waiting THEN "waiting" ELSE "dropped"]

DueOf == [t \in Tasks |-> IF t \in hist.accepted THEN hist.at[t] ELSE 0]

Told == hist.clears > 0 \/ \E p \in Procs : ~loc[p].go

\* A worker loops with an exception pending.
Thrown == \E p \in Procs : loc[p].thrown

\* p has a message in hand whose callback has not been entered, and could be.
Owes(p) ==
  loc[p].msg.op = "add" /\ loc[p].msg.task \notin Garbled /\ hist.runs[loc[p].msg.task] = 0

\* A worker died with tasks in its crontab, or with one it had just received.
Died == \E p \in Procs : pc[p] = "dead" /\ (loc[p].list # <<>> \/ Owes(p))

Life == INSTANCE TaskLife WITH
  life <- LifeOf, due <- DueOf, asked <- hist.asked, told <- Told \/ Thrown \/ Died

\* One worker and its clients keep the promise: no task is run twice, run early,
\* or lost without a delete or a stop that allows it, a message that cannot be
\* read, an exception that a callback has thrown and nobody sees, or the death of
\* the worker that had received it, whether the crontab has it yet or not.
KeepsThePromise == Life!LifeSpec

\* A task the queue accepted is run in the end if some worker is there, unless a
\* delete removed it, the workers were told to stop, or an exception is pending; it
\* must unserialize, and its time must come before the bound on time.
Served ==
  \A t \in Tasks :
    (t \in hist.accepted \ Garbled /\ hist.at[t] < MaxTime /\ \E p \in Procs : Looping(p))
      ~> (hist.runs[t] > 0 \/ t \in hist.void \/ Told \/ Thrown)

\* Whoever waits for the lock gets it, as long as no process dies: no call of
\* wcx_task_clear and no exit of a worker is kept out by the others.
LockGranted ==
  \A p \in Procs : (pc[p] \in LockLabels) ~>
    (pc[p] \notin LockLabels \/ \E q \in Procs : pc[q] = "dead")

================================================================================
