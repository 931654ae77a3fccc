-------------------------------- MODULE WcxTask --------------------------------
(***************************************************************************)
(* The task queue of the wcx extension (wcx_task.c): PHP processes that    *)
(* share a System V message queue and a shared memory segment.  Any        *)
(* process posts tasks and deletes, or clears the queue; a process that    *)
(* calls WcxTask::run becomes a worker that receives messages, runs the    *)
(* callback of each task and keeps later tasks in a crontab of its own.    *)
(*                                                                         *)
(* The segment is taken as initialised (wcx_task.c:571 already true).      *)
(***************************************************************************)
EXTENDS Crontab

CONSTANTS
  Procs,        \* processes that load the extension with wcx.task_enabled=1
  Workers,      \* those of them that call WcxTask::run
  Clients,      \* those that post, delete and clear outside a callback
  Callbacks,    \* what a callback may do: "post", "delete", "clear", "exit", "throw"
  Signalled,    \* processes that may receive SIGINT
  Removers,     \* those that the system lets remove the queue each process creates
  Killable,     \* processes that may die without running MSHUTDOWN
  Tasks,        \* the tasks that may be posted, each once
  Garbled,      \* those whose message does not unserialize
  UuidOf,       \* the uuid of each task
  Uuids,        \* the uuids that may be passed to wcx_task_delete
  NoTask,       \* the task of a message that is not an ADD
  Stamps,       \* explicit times that may be passed to wcx_task_post
  FreedNext,    \* what reading node->next of a freed node may give
  MsgExcept,    \* whether the build defines MSG_EXCEPT (wcx_task.c:215)
  QueueCap,     \* messages that fit in msg_qbytes
  MaxTime, MaxQueues, MaxRunning, MaxClears, MaxDeletes   \* bounds

ASSUME RolesAssumption ==
  /\ Workers \subseteq Procs /\ Clients \subseteq Procs
  /\ Signalled \subseteq Workers /\ Killable \subseteq Procs
  /\ Removers \in [Procs -> SUBSET Procs]
  /\ Callbacks \subseteq {"post", "delete", "clear", "exit", "throw"}

ASSUME DataAssumption ==
  /\ NoTask \notin Tasks /\ Garbled \subseteq Tasks
  /\ Uuids \subseteq Seq(STRING) \ {<<>>}           \* wcx_task.c:475
  /\ UuidOf \in [Tasks -> Seq(STRING) \ {<<>>}]      \* wcx_task.c:354
  /\ Stamps \subseteq Nat
  /\ FreedNext \subseteq {"intact", "null", "wild"}
  /\ MsgExcept \in BOOLEAN

ASSUME BoundsAssumption ==
  /\ QueueCap \in Nat /\ MaxTime \in Nat /\ MaxQueues \in Nat
  /\ MaxRunning \in Nat /\ MaxClears \in Nat /\ MaxDeletes \in Nat

VARIABLES
  running, qnum, slock,   \* the shared memory segment
  mq,                     \* the message queue behind the key: id, live, may, msgs
  now,                    \* time(NULL)
  pc, caller, loc,        \* each process: where it is, who called, its locals
  held, eintr, hist       \* history: lock holders, a failed sem_wait, the tasks

shm   == <<running, qnum, slock>>
vars  == <<running, qnum, slock, mq, now, pc, caller, loc, held, eintr, hist>>

--------------------------------------------------------------------------------
(* Messages and processes.                                                 *)

Message ==
  [op : {"add", "delete", "none"}, task : Tasks \cup {NoTask},
   uuid : Seq(STRING), mtime : Nat]

NoMessage == [op |-> "none", task |-> NoTask, uuid |-> <<>>, mtime |-> 0]

AddMessage(t, m) == [op |-> "add", task |-> t, uuid |-> UuidOf[t], mtime |-> m]

DeleteMessage(u) == [op |-> "delete", task |-> NoTask, uuid |-> u, mtime |-> now]

Node == Nodes(Tasks \cup {NoTask}, Seq(STRING), Nat)

NodeOf(m) == [task |-> m.task, uuid |-> m.uuid, mtime |-> m.mtime]

\* mid: the queue attached at boot; list: tpr->task, freed once run returned;
\* mine: wcx_task_running; go: task_process_running; armed: SIGINT handler set;
\* ts: timestamp; msg: queue_message; out: the message of a call; reg: a register;
\* thrown: an exception is pending, which only the return of run lets a script see.
Locals ==
  [mid : Nat, list : Seq(Node), freed : BOOLEAN,
   mine : BOOLEAN, go : BOOLEAN, armed : BOOLEAN, ts : Nat,
   msg : Message, out : Message, reg : Int, thrown : BOOLEAN]

Unloaded ==
  [mid |-> 0, list |-> <<>>, freed |-> FALSE, mine |-> FALSE, go |-> TRUE,
   armed |-> FALSE, ts |-> 0, msg |-> NoMessage, out |-> NoMessage, reg |-> 0, thrown |-> FALSE]

\* Where the lock is taken and where it is given back, with what comes next.
LockLabels   == {"lock", "clearLock", "relLock"}
UnlockLabels == {"unlock", "clearUnlock", "relUnlock"}
Callback     == {"exec", "cronExec"}
Labels ==
  LockLabels \cup UnlockLabels \cup Callback \cup
  {"off", "idle", "inc", "check", "time", "recv", "got", "del", "delEnd", "count", "cron",
   "stop", "send", "clear", "relR", "relW", "relZ", "gone", "dead"}

AfterLock(p) ==
  CASE pc[p] = "lock" -> "time"
    [] pc[p] = "clearLock" -> "clear"
    [] pc[p] = "relLock" -> "relR"

AfterUnlock(p) ==
  CASE pc[p] = "unlock" -> "check"
    [] pc[p] = "clearUnlock" -> caller[p]
    [] pc[p] = "relUnlock" -> "gone"

Goto(p, label) == pc' = [pc EXCEPT ![p] = label]

Alive(p) == pc[p] \notin {"off", "gone", "dead"}

\* MUTANT: the key is looked up again, and any queue behind it will do.
SameKey(p) == mq.live

\* The queue a process attached to may have been removed, or replaced.
Valid(p) == mq.live /\ loc[p].mid = mq.id

\* Reading ->next of the node just deleted: where the loop goes from there.
AfterFree(p, again, done) ==
  \E next \in FreedNext :
    Goto(p, CASE next = "intact" -> again [] next = "null" -> done [] next = "wild" -> "dead")

--------------------------------------------------------------------------------
Init ==
  /\ running = 0 /\ qnum = 0 /\ slock = 1
  /\ mq = [id |-> 0, live |-> FALSE, may |-> {}, msgs |-> <<>>]
  /\ now = 0
  /\ pc = [p \in Procs |-> "off"]
  /\ caller = [p \in Procs |-> "idle"]
  /\ loc = [p \in Procs |-> Unloaded]
  /\ held = [p \in Procs |-> FALSE]
  /\ eintr = FALSE
  /\ hist = [posted |-> {}, accepted |-> {}, asked |-> {}, void |-> {},
             deletes |-> 0, clears |-> 0,
             at |-> [t \in Tasks |-> 0], runs |-> [t \in Tasks |-> 0]]

\* MINIT: attach to the queue behind the key, or create one.  It is 0666: whoever
\* attaches may send and receive, but only its owner's processes may remove it.
Boot(p) ==
  /\ pc[p] = "off"
  /\ \/ mq.live /\ UNCHANGED mq
     \/ /\ ~mq.live /\ mq.id < MaxQueues
        /\ mq' = [id |-> mq.id + 1, live |-> TRUE, may |-> Removers[p], msgs |-> <<>>]
  /\ loc' = [loc EXCEPT ![p].mid = mq'.id]
  /\ Goto(p, "idle")
  /\ UNCHANGED <<shm, now, caller, held, eintr, hist>>

--------------------------------------------------------------------------------
(* WcxTask::run.                                                           *)

\* The handler is set, the process marked, and `running` read for its += 1.
Run(p) ==
  /\ p \in Workers /\ pc[p] = "idle" /\ running < MaxRunning
  /\ loc' = [loc EXCEPT ![p].armed = TRUE, ![p].mine = TRUE, ![p].reg = running]
  /\ Goto(p, "inc")
  /\ UNCHANGED <<shm, mq, now, caller, held, eintr, hist>>

\* MUTANT: the increment is lost.
NotRaised(p) == loc[p].reg

\* What `running += 1` writes: one more than what was read, without the lock.
Raised(p) == loc[p].reg + 1

Inc(p) ==
  /\ pc[p] = "inc"
  /\ running' = Raised(p)
  /\ loc' = [loc EXCEPT ![p].reg = 0]
  /\ Goto(p, "check")
  /\ UNCHANGED <<qnum, slock, mq, now, caller, held, eintr, hist>>

\* The condition of the worker's loop.
KeepsGoing(p) == running > 0 /\ loc[p].go

Check(p) ==
  /\ pc[p] = "check"
  /\ Goto(p, IF KeepsGoing(p) THEN "lock" ELSE "stop")
  /\ UNCHANGED <<shm, mq, now, caller, loc, held, eintr, hist>>

\* MUTANT: the lock does not exclude.
LockFreeAlways == TRUE

LockFree == slock > 0

\* sem_wait succeeds, at any of the three places that call it.
Lock(p) ==
  /\ pc[p] \in LockLabels
  /\ LockFree
  /\ slock' = slock - 1
  /\ held' = [held EXCEPT ![p] = TRUE]
  /\ Goto(p, AfterLock(p))
  /\ UNCHANGED <<running, qnum, mq, now, caller, loc, eintr, hist>>

\* MUTANT: sem_post is called twice.
UnlockedTwice == slock + 2

\* MUTANT: sem_post is forgotten.
NeverUnlocked == slock

Unlocked == slock + 1

\* sem_post.  The worker then sleeps if the queue gave nothing, and loops.
Unlock(p) ==
  /\ pc[p] \in UnlockLabels
  /\ slock' = Unlocked
  /\ held' = [held EXCEPT ![p] = FALSE]
  /\ Goto(p, AfterUnlock(p))
  /\ UNCHANGED <<running, qnum, mq, now, caller, loc, eintr, hist>>

\* timestamp = time(NULL), read before the queue is.
Time(p) ==
  /\ pc[p] = "time"
  /\ loc' = [loc EXCEPT ![p].ts = now]
  /\ Goto(p, "recv")
  /\ UNCHANGED <<shm, mq, now, caller, held, eintr, hist>>

\* Every message is sent with mtype 1, which MSG_EXCEPT excludes.
Receives(p) == Valid(p) /\ mq.msgs # <<>> /\ ~MsgExcept

RecvNone(p) ==
  /\ pc[p] = "recv" /\ ~Receives(p)
  /\ Goto(p, "cron")
  /\ UNCHANGED <<shm, mq, now, caller, loc, held, eintr, hist>>

\* msgrcv: from here on the message is nowhere but in this process.
Recv(p) ==
  /\ pc[p] = "recv" /\ Receives(p)
  /\ mq' = [mq EXCEPT !.msgs = Tail(@)]
  /\ loc' = [loc EXCEPT ![p].msg = Head(mq.msgs)]
  /\ Goto(p, "got")
  /\ UNCHANGED <<shm, now, caller, held, eintr, hist>>

\* The message unserializes, and PHP calls no function while an exception is pending.
Starts(p, t) == t \notin Garbled /\ ~loc[p].thrown

\* The callback of task t is entered.
Execute(t) == hist' = [hist EXCEPT !.runs[t] = @ + 1]

\* p has received a message of kind op.
Received(p, op) == pc[p] = "got" /\ loc[p].msg.op = op

Immediate(p) == IsNow(loc[p].msg, loc[p].ts)

RecvNow(p) ==
  /\ Received(p, "add") /\ Immediate(p) /\ Starts(p, loc[p].msg.task)
  /\ Execute(loc[p].msg.task)
  /\ Goto(p, "exec")
  /\ UNCHANGED <<shm, mq, now, caller, loc, held, eintr>>

\* The message is consumed all the same.
RecvLost(p) ==
  /\ Received(p, "add") /\ Immediate(p) /\ ~Starts(p, loc[p].msg.task)
  /\ Goto(p, "count")
  /\ UNCHANGED <<shm, mq, now, caller, loc, held, eintr, hist>>

RecvLater(p) ==
  /\ Received(p, "add") /\ ~Immediate(p) /\ ~loc[p].freed
  /\ loc' = [loc EXCEPT ![p].list = Insert(@, NodeOf(loc[p].msg))]
  /\ Goto(p, "count")
  /\ UNCHANGED <<shm, mq, now, caller, held, eintr, hist>>

RecvDelete(p) ==
  /\ Received(p, "delete") /\ ~loc[p].freed
  /\ Goto(p, "del")
  /\ UNCHANGED <<shm, mq, now, caller, loc, held, eintr, hist>>

\* The nodes of p's crontab that the DELETE it received matches.
Hits(p) == {i \in DOMAIN loc[p].list : Matches(loc[p].list[i], loc[p].msg.uuid)}

\* The loop over the crontab stops at its next match and frees it.
DeleteNode(p) ==
  /\ pc[p] = "del"
  /\ \E i \in Hits(p) :
       /\ \A j \in Hits(p) : i <= j
       /\ loc' = [loc EXCEPT ![p].list = RemoveAt(@, i)]
  /\ AfterFree(p, "del", "delEnd")
  /\ UNCHANGED <<shm, mq, now, caller, held, eintr, hist>>

InQueue == {mq.msgs[i].task : i \in DOMAIN mq.msgs} \ {NoTask}

\* The loop is past the last match, or read a NULL.  History: the tasks now void.
DeleteDone(p) ==
  /\ \/ pc[p] = "del" /\ Hits(p) = {}
     \/ pc[p] = "delEnd"
  /\ hist' = [hist EXCEPT !.void = @ \cup
       {t \in hist.accepted \ InQueue :
          hist.runs[t] = 0 /\ IsPrefix(loc[p].msg.uuid, UuidOf[t])}]
  /\ Goto(p, "count")
  /\ UNCHANGED <<shm, mq, now, caller, loc, held, eintr>>

\* The message is cleared and counted.
Count(p) ==
  /\ pc[p] = "count"
  /\ qnum' = qnum + 1
  /\ loc' = [loc EXCEPT ![p].msg = NoMessage]
  /\ Goto(p, "cron")
  /\ UNCHANGED <<running, slock, mq, now, caller, held, eintr, hist>>

\* A callback throws: call_user_function_ex returns SUCCESS, and the loop goes on.
Throw(p) ==
  /\ pc[p] \in Callback /\ "throw" \in Callbacks /\ ~loc[p].thrown
  /\ loc' = [loc EXCEPT ![p].thrown = TRUE]
  /\ UNCHANGED <<shm, mq, now, pc, caller, held, eintr, hist>>

\* A callback returns: of a message just received, ...
Return(p) ==
  /\ pc[p] = "exec"
  /\ Goto(p, "count")
  /\ UNCHANGED <<shm, mq, now, caller, loc, held, eintr, hist>>

CronDue(p) == loc[p].list # <<>> /\ Due(Head(loc[p].list), loc[p].ts)

\* A second run finds tpr->task NULL: the first use of tpr->task->head crashes.
ListCrash(p) ==
  /\ loc[p].freed
  /\ \/ pc[p] = "cron" \/ Received(p, "delete")
     \/ Received(p, "add") /\ ~Immediate(p)
  /\ Goto(p, "dead")
  /\ UNCHANGED <<shm, mq, now, caller, loc, held, eintr, hist>>

CronRun(p) ==
  /\ pc[p] = "cron" /\ ~loc[p].freed /\ CronDue(p) /\ Starts(p, Head(loc[p].list).task)
  /\ Execute(Head(loc[p].list).task)
  /\ Goto(p, "cronExec")
  /\ UNCHANGED <<shm, mq, now, caller, loc, held, eintr>>

CronEnd(p) ==
  /\ pc[p] = "cron" /\ ~loc[p].freed /\ ~CronDue(p)
  /\ Goto(p, "unlock")
  /\ UNCHANGED <<shm, mq, now, caller, loc, held, eintr, hist>>

\* MUTANT: the node of the task that has run stays in the list.
StillListed(list) == list

\* listDelNode of the head.
HeadDeleted(list) == Tail(list)

\* ... or of the first task of the crontab, which is then deleted.
CronReturn(p) ==
  /\ pc[p] = "cronExec"
  /\ loc' = [loc EXCEPT ![p].list = HeadDeleted(@)]
  /\ AfterFree(p, "cron", "unlock")
  /\ UNCHANGED <<shm, mq, now, caller, held, eintr, hist>>

\* The node is deleted whether its task has run or not.
CronLost(p) ==
  /\ pc[p] = "cron" /\ ~loc[p].freed /\ CronDue(p) /\ ~Starts(p, Head(loc[p].list).task)
  /\ loc' = [loc EXCEPT ![p].list = HeadDeleted(@)]
  /\ AfterFree(p, "cron", "unlock")
  /\ UNCHANGED <<shm, mq, now, caller, held, eintr, hist>>

\* The loop has ended: the queue is removed for everybody, unless msgctl fails,
\* which goes unnoticed; the crontab is freed in any case.
Stop(p) ==
  /\ pc[p] = "stop"
  /\ mq' = IF Valid(p) /\ p \in mq.may THEN [mq EXCEPT !.live = FALSE, !.msgs = <<>>] ELSE mq
  /\ loc' = [loc EXCEPT ![p].list = <<>>, ![p].freed = TRUE, ![p].thrown = FALSE]
  /\ Goto(p, "idle")
  /\ UNCHANGED <<shm, now, caller, held, eintr, hist>>

--------------------------------------------------------------------------------
(* wcx_task_post, wcx_task_delete, wcx_task_clear, wcx_task_info.          *)

\* A script calls `call`, at top level or from a callback.
Calls(p, call, label) ==
  /\ \/ pc[p] = "idle" /\ p \in Clients
     \/ pc[p] \in Callback /\ ~loc[p].thrown /\ call \in Callbacks
  /\ caller' = [caller EXCEPT ![p] = pc[p]]
  /\ Goto(p, label)
  /\ UNCHANGED <<shm, mq, now, held, eintr>>

\* The message is built; the time is that of now unless one is given.
PostCall(p, t) ==
  /\ t \in Tasks \ hist.posted
  /\ Calls(p, "post", "send")
  /\ \E m \in Stamps \cup {now} :
       /\ loc' = [loc EXCEPT ![p].out = AddMessage(t, m)]
       /\ hist' = [hist EXCEPT !.posted = @ \cup {t}, !.at[t] = m]

DeleteCall(p, u) ==
  /\ hist.deletes < MaxDeletes
  /\ Calls(p, "delete", "send")
  /\ loc' = [loc EXCEPT ![p].out = DeleteMessage(u)]
  /\ hist' = [hist EXCEPT !.deletes = @ + 1]

\* msgsnd: blocks while the queue is full.
Send(p) ==
  /\ pc[p] = "send" /\ Valid(p) /\ Len(mq.msgs) < QueueCap
  /\ mq' = [mq EXCEPT !.msgs = Append(@, loc[p].out)]
  /\ hist' = [hist EXCEPT
       !.accepted = @ \cup ({loc[p].out.task} \ {NoTask}),
       !.asked = IF loc[p].out.op = "delete" THEN @ \cup {loc[p].out.uuid} ELSE @]
  /\ loc' = [loc EXCEPT ![p].out = NoMessage]
  /\ Goto(p, caller[p])
  /\ UNCHANGED <<shm, now, caller, held, eintr>>

\* msgsnd fails: EINVAL, or EIDRM when the queue goes while it blocks.
SendFail(p) ==
  /\ pc[p] = "send" /\ ~Valid(p)
  /\ loc' = [loc EXCEPT ![p].out = NoMessage]
  /\ Goto(p, caller[p])
  /\ UNCHANGED <<shm, mq, now, caller, held, eintr, hist>>

ClearCall(p) ==
  /\ hist.clears < MaxClears
  /\ Calls(p, "clear", "clearLock")
  /\ hist' = [hist EXCEPT !.clears = @ + 1]
  /\ UNCHANGED loc

\* Every worker is told to stop.
Clear(p) ==
  /\ pc[p] = "clear"
  /\ running' = 0
  /\ Goto(p, "clearUnlock")
  /\ UNCHANGED <<qnum, slock, mq, now, caller, loc, held, eintr, hist>>

\* wcx_task_info only reads; after run has freed tpr->task it crashes.
InfoCrash(p) ==
  /\ pc[p] = "idle" /\ loc[p].freed
  /\ Goto(p, "dead")
  /\ UNCHANGED <<shm, mq, now, caller, loc, held, eintr, hist>>

--------------------------------------------------------------------------------
(* MSHUTDOWN, signals, deaths and time.                                    *)

\* The script ends, or calls exit in the callback; a worker must be counted out.
Exit(p) ==
  /\ \/ pc[p] = "idle"
     \/ pc[p] \in Callback /\ ~loc[p].thrown /\ "exit" \in Callbacks
  /\ Goto(p, IF loc[p].mine THEN "relLock" ELSE "gone")
  /\ UNCHANGED <<shm, mq, now, caller, loc, held, eintr, hist>>

RelRead(p) ==
  /\ pc[p] = "relR"
  /\ loc' = [loc EXCEPT ![p].reg = running]
  /\ Goto(p, "relW")
  /\ UNCHANGED <<shm, mq, now, caller, held, eintr, hist>>

RelWrite(p) ==
  /\ pc[p] = "relW"
  /\ running' = loc[p].reg - 1
  /\ loc' = [loc EXCEPT ![p].reg = 0]
  /\ Goto(p, "relZ")
  /\ UNCHANGED <<qnum, slock, mq, now, caller, held, eintr, hist>>

\* MUTANT: a count made negative by a clear is not reset.
LastOutExactly == running = 0

LastOut == running <= 0

\* The last worker out resets the counters.
RelZero(p) ==
  /\ pc[p] = "relZ"
  /\ IF LastOut THEN running' = 0 /\ qnum' = 0 ELSE UNCHANGED <<running, qnum>>
  /\ Goto(p, "relUnlock")
  /\ UNCHANGED <<slock, mq, now, caller, loc, held, eintr, hist>>

\* task_process_halt; SA_RESETHAND makes it run once.
Halt(p) ==
  /\ p \in Signalled /\ loc[p].armed /\ Alive(p)
  /\ loc' = [loc EXCEPT ![p].armed = FALSE, ![p].go = FALSE]
  /\ UNCHANGED <<shm, mq, now, caller, held, hist>>

Sigint(p) == Halt(p) /\ UNCHANGED <<pc, eintr>>

\* sem_wait, blocked, fails with EINTR: the caller goes on without the lock.
SigintInLock(p) ==
  /\ Halt(p)
  /\ pc[p] \in LockLabels /\ ~LockFree
  /\ Goto(p, AfterLock(p))
  /\ eintr' = TRUE

\* msgsnd, blocked on a full queue, fails with EINTR: the call returns FALSE.
SigintInSend(p) ==
  /\ Halt(p)
  /\ pc[p] = "send" /\ Valid(p) /\ Len(mq.msgs) >= QueueCap
  /\ Goto(p, caller[p])
  /\ UNCHANGED eintr

\* SIGKILL, a fatal fault, or the default action of a signal.
Kill(p) ==
  /\ p \in Killable /\ Alive(p)
  /\ Goto(p, "dead")
  /\ UNCHANGED <<shm, mq, now, caller, loc, held, eintr, hist>>

Tick ==
  /\ now < MaxTime
  /\ now' = now + 1
  /\ UNCHANGED <<shm, mq, pc, caller, loc, held, eintr, hist>>

\* Everybody has left, or waits in msgsnd for a worker nobody starts.
Done ==
  /\ \A p \in Procs : pc[p] \in {"gone", "dead"} \/ (pc[p] = "send" /\ caller[p] = "idle")
  /\ UNCHANGED vars

--------------------------------------------------------------------------------
\* One step of the worker's loop, its callbacks included.
WorkerStep(p) ==
  \/ Inc(p) \/ Check(p) \/ Time(p) \/ RecvNone(p) \/ Recv(p) \/ RecvNow(p) \/ RecvLater(p)
  \/ RecvDelete(p) \/ DeleteNode(p) \/ DeleteDone(p) \/ Count(p) \/ Return(p)
  \/ ListCrash(p) \/ CronRun(p) \/ CronEnd(p) \/ CronReturn(p) \/ Stop(p)
  \/ RecvLost(p) \/ CronLost(p)

\* One step inside a call that has begun.
CallStep(p) ==
  \/ Send(p) \/ SendFail(p) \/ Clear(p) \/ RelRead(p) \/ RelWrite(p) \/ RelZero(p)

\* What a script does when it pleases.
ScriptStep(p) ==
  \/ Boot(p) \/ Run(p) \/ ClearCall(p) \/ InfoCrash(p) \/ Exit(p) \/ Throw(p)
  \/ \E t \in Tasks : PostCall(p, t)
  \/ \E u \in Uuids : DeleteCall(p, u)

Fault(p) == Sigint(p) \/ SigintInLock(p) \/ SigintInSend(p) \/ Kill(p)

Next ==
  \/ \E p \in Procs :
       WorkerStep(p) \/ CallStep(p) \/ Lock(p) \/ Unlock(p) \/ ScriptStep(p) \/ Fault(p)
  \/ Tick
  \/ Done

Spec == Init /\ [][Next]_vars

--------------------------------------------------------------------------------
(* Fairness.  The operating system runs every process that can run, time   *)
(* passes, and callbacks return.  sem_wait is strongly fair: a worker that *)
(* finds the queue empty sleeps at least a second with the lock free, so   *)
(* nobody is kept out once the finitely many messages are consumed.        *)
Fairness ==
  /\ WF_vars(Tick)
  /\ \A p \in Procs :
       /\ WF_vars(WorkerStep(p)) /\ WF_vars(CallStep(p))
       /\ SF_vars(Lock(p)) /\ WF_vars(Unlock(p))

FairSpec == Spec /\ Fairness

================================================================================
