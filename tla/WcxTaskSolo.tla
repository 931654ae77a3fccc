------------------------------ MODULE WcxTaskSolo ------------------------------
(***************************************************************************)
(* Proofs about one worker and its clients: the worker stops only when it  *)
(* is told to, a deleted task never runs, and the queue keeps the promise  *)
(* of TaskLife.  None of this holds of two workers: they may lose each     *)
(* other's count, and a delete reaches the crontab of one of them only.    *)
(***************************************************************************)
EXTENDS WcxTaskProofs

\* At most one process calls WcxTask::run; any number post, delete and clear.
OneWorker == \A p, q \in Workers : p = q

--------------------------------------------------------------------------------
(* Who counts, and when a worker stops.                                    *)

\* Labels of the loop of WcxTask::run, and those only a worker ever reaches.
LoopLabels ==
  {"check", "lock", "time", "recv", "got", "del", "delEnd", "count", "cron", "unlock"} \cup Callback
Clearing == {"clearLock", "clear", "clearUnlock"}
Releasing == {"relLock", "relR", "relW", "relZ", "relUnlock"}

InLoop(p) == pc[p] \in LoopLabels \/ (pc[p] \in Calling /\ caller[p] \in Callback)

\* Only workers count themselves in and out and have a message in hand, and a clear is
\* counted before it acts.
RoleInv ==
  \A p \in Procs :
    /\ InLoop(p) \/ pc[p] \in {"inc", "stop"} \cup Releasing => loc[p].mine
    /\ loc[p].msg # NoMessage => loc[p].mine
    /\ loc[p].mine => p \in Workers /\ pc[p] # "off"
    /\ pc[p] \in Clearing => hist.clears > 0

\* Every step keeps RoleInv.
LEMMA RoleInductive ==
  ASSUME TypeOK, RoleInv, NEW p \in Procs,
         WorkerStep(p) \/ CallStep(p) \/ Lock(p) \/ Unlock(p) \/ ScriptStep(p) \/ Fault(p)
  PROVE  RoleInv'
<1>0. /\ pc \in [Procs -> Labels] /\ loc \in [Procs -> Locals] /\ hist \in History
      /\ caller \in [Procs -> {"idle"} \cup Callback]
  BY DEF TypeOK
<1> USE DEF RoleInv, InLoop, LoopLabels, Clearing, Releasing, Calling, Callback
<1>1. CASE Boot(p)
  BY <1>0, <1>1 DEF Boot, Goto, Locals, History, shm
<1>2. CASE Run(p)
  BY <1>0, <1>2 DEF Run, Goto, Locals, History, shm
<1>3. CASE Inc(p)
  BY <1>0, <1>3 DEF Inc, Raised, Goto, Locals, History, shm
<1>4. CASE Check(p)
  BY <1>0, <1>4 DEF Check, KeepsGoing, Goto, Locals, History, shm
<1>5. CASE Time(p)
  BY <1>0, <1>5 DEF Time, Goto, Locals, History, shm
<1>6. CASE RecvNone(p)
  BY <1>0, <1>6 DEF RecvNone, Goto, Locals, History, shm
<1>7. CASE RecvNow(p)
  BY <1>0, <1>7 DEF RecvNow, Received, Goto, Locals, History, shm, Execute
<1>8. CASE RecvLater(p)
  BY <1>0, <1>8 DEF RecvLater, Received, Goto, Locals, History, shm
<1>9. CASE RecvDelete(p)
  BY <1>0, <1>9 DEF RecvDelete, Received, Goto, Locals, History, shm
<1>10. CASE DeleteNode(p)
  BY <1>0, <1>10, DataAssumption DEF DeleteNode, AfterFree, Goto, Locals, History, shm
<1>11. CASE DeleteDone(p)
  BY <1>0, <1>11 DEF DeleteDone, Goto, Locals, History, shm
<1>12. CASE Count(p)
  BY <1>0, <1>12 DEF Count, Goto, Locals, History, shm
<1>13. CASE Return(p)
  BY <1>0, <1>13 DEF Return, Goto, Locals, History, shm
<1>14. CASE ListCrash(p)
  BY <1>0, <1>14 DEF ListCrash, Received, Goto, Locals, History, shm
<1>15. CASE CronRun(p)
  BY <1>0, <1>15 DEF CronRun, Execute, Goto, Locals, History, shm
<1>16. CASE CronEnd(p)
  BY <1>0, <1>16 DEF CronEnd, Goto, Locals, History, shm
<1>17. CASE CronReturn(p)
  BY <1>0, <1>17, DataAssumption DEF CronReturn, AfterFree, Goto, Locals, History, shm
<1>18. CASE Stop(p)
  BY <1>0, <1>18 DEF Stop, Goto, Locals, History, shm
<1>19. CASE RecvLost(p)
  BY <1>0, <1>19 DEF RecvLost, Received, Goto, Locals, History, shm
<1>20. CASE CronLost(p)
  BY <1>0, <1>20, DataAssumption DEF CronLost, AfterFree, Goto, Locals, History, shm
<1>21. CASE Send(p)
  BY <1>0, <1>21 DEF Send, Goto, Locals, History, shm
<1>22. CASE SendFail(p)
  BY <1>0, <1>22 DEF SendFail, Goto, Locals, History, shm
<1>23. CASE Clear(p)
  BY <1>0, <1>23 DEF Clear, Goto, Locals, History, shm
<1>24. CASE RelRead(p)
  BY <1>0, <1>24 DEF RelRead, Goto, Locals, History, shm
<1>25. CASE RelWrite(p)
  BY <1>0, <1>25 DEF RelWrite, Goto, Locals, History, shm
<1>26. CASE RelZero(p)
  BY <1>0, <1>26 DEF RelZero, LastOut, Goto, Locals, History, shm
<1>27. CASE Lock(p)
  BY <1>0, <1>27 DEF Lock, LockLabels, AfterLock, Goto, Locals, History, shm
<1>28. CASE Unlock(p)
  BY <1>0, <1>28 DEF Unlock, UnlockLabels, AfterUnlock, Goto, Locals, History, shm
<1>29. CASE ClearCall(p)
  BY <1>0, <1>29 DEF ClearCall, Calls, Goto, Locals, History, shm
<1>30. CASE InfoCrash(p)
  BY <1>0, <1>30 DEF InfoCrash, Goto, Locals, History, shm
<1>31. CASE Exit(p)
  BY <1>0, <1>31 DEF Exit, Goto, Locals, History, shm
<1>32. CASE Throw(p)
  BY <1>0, <1>32 DEF Throw, Goto, Locals, History, shm
<1>33. ASSUME NEW t \in Tasks, PostCall(p, t) PROVE RoleInv'
  BY <1>0, <1>33 DEF PostCall, Calls, Goto, Locals, History, shm
<1>34. ASSUME NEW u \in Uuids, DeleteCall(p, u) PROVE RoleInv'
  BY <1>0, <1>34 DEF DeleteCall, Calls, Goto, Locals, History, shm
<1>35. CASE Sigint(p)
  BY <1>0, <1>35 DEF Sigint, Halt, Goto, Locals, History, shm
<1>36. CASE SigintInLock(p)
  BY <1>0, <1>36 DEF SigintInLock, Halt, LockLabels, AfterLock, Goto, Locals, History, shm
<1>37. CASE SigintInSend(p)
  BY <1>0, <1>37 DEF SigintInSend, Halt, Goto, Locals, History, shm
<1>38. CASE Kill(p)
  BY <1>0, <1>38 DEF Kill, Goto, Locals, History, shm
<1>39. CASE Recv(p)
  BY <1>0, <1>39 DEF Recv, Goto, Locals, History, shm
<1> QED
  BY <1>1, <1>2, <1>3, <1>4, <1>5, <1>6, <1>7, <1>8, <1>9, <1>10, <1>11, <1>12, <1>13,
     <1>14, <1>15, <1>16, <1>17, <1>18, <1>19, <1>20, <1>21, <1>22, <1>23, <1>24,
     <1>25, <1>26, <1>27, <1>28, <1>29, <1>30, <1>31, <1>32, <1>33, <1>34, <1>35,
     <1>36, <1>37, <1>38, <1>39
  DEF WorkerStep, CallStep, ScriptStep, Fault

\* Until it is told to stop, the count covers a worker that is in its loop: it is
\* the only one to count itself in, and out again once it leaves.
ToldInv ==
  \A p \in Workers : loc[p].go /\ hist.clears = 0 =>
    IF loc[p].mine
    THEN \/ pc[p] \in Leaving
         \/ pc[p] = "inc" /\ loc[p].reg >= 0
         \/ InLoop(p) /\ running >= 1
    ELSE running >= 0

\* Every step keeps ToldInv: whoever touches the count is that worker, or was
\* counted as a clear.
LEMMA ToldInductive ==
  ASSUME OneWorker, TypeOK, RoleInv, ToldInv, NEW p \in Procs,
         WorkerStep(p) \/ CallStep(p) \/ Lock(p) \/ Unlock(p) \/ ScriptStep(p) \/ Fault(p)
  PROVE  ToldInv'
<1>0. /\ pc \in [Procs -> Labels] /\ loc \in [Procs -> Locals] /\ hist \in History
      /\ caller \in [Procs -> {"idle"} \cup Callback] /\ running \in Int
      /\ Workers \subseteq Procs
      /\ \A q \in Workers : loc[q].reg \in Int
      /\ \A q \in Workers : loc[p].mine => q = p
      /\ InLoop(p) \/ pc[p] \in {"inc", "stop"} \cup Releasing => loc[p].mine
      /\ pc[p] \in Clearing => hist.clears > 0
      /\ hist.clears \in Nat
  BY RolesAssumption DEF TypeOK, RoleInv, OneWorker, Locals, History
<1> USE DEF ToldInv, InLoop, LoopLabels, Clearing, Releasing, Leaving, Calling, Callback
<1>1. CASE Boot(p)
  BY <1>0, <1>1 DEF Boot, Goto, Locals, History, shm
<1>2. CASE Run(p)
  BY <1>0, <1>2 DEF Run, Goto, Locals, History, shm
<1>3. CASE Inc(p)
  BY <1>0, <1>3 DEF Inc, Raised, Goto, Locals, History, shm
<1>4. CASE Check(p)
  BY <1>0, <1>4 DEF Check, KeepsGoing, Goto, Locals, History, shm
<1>5. CASE Time(p)
  BY <1>0, <1>5 DEF Time, Goto, Locals, History, shm
<1>6. CASE RecvNone(p)
  BY <1>0, <1>6 DEF RecvNone, Goto, Locals, History, shm
<1>7. CASE RecvNow(p)
  BY <1>0, <1>7 DEF RecvNow, Received, Goto, Locals, History, shm, Execute
<1>8. CASE RecvLater(p)
  BY <1>0, <1>8 DEF RecvLater, Received, Goto, Locals, History, shm
<1>9. CASE RecvDelete(p)
  BY <1>0, <1>9 DEF RecvDelete, Received, Goto, Locals, History, shm
<1>10. CASE DeleteNode(p)
  BY <1>0, <1>10, DataAssumption DEF DeleteNode, AfterFree, Goto, Locals, History, shm
<1>11. CASE DeleteDone(p)
  BY <1>0, <1>11 DEF DeleteDone, Goto, Locals, History, shm
<1>12. CASE Count(p)
  BY <1>0, <1>12 DEF Count, Goto, Locals, History, shm
<1>13. CASE Return(p)
  BY <1>0, <1>13 DEF Return, Goto, Locals, History, shm
<1>14. CASE ListCrash(p)
  BY <1>0, <1>14 DEF ListCrash, Received, Goto, Locals, History, shm
<1>15. CASE CronRun(p)
  BY <1>0, <1>15 DEF CronRun, Execute, Goto, Locals, History, shm
<1>16. CASE CronEnd(p)
  BY <1>0, <1>16 DEF CronEnd, Goto, Locals, History, shm
<1>17. CASE CronReturn(p)
  BY <1>0, <1>17, DataAssumption DEF CronReturn, AfterFree, Goto, Locals, History, shm
<1>18. CASE Stop(p)
  BY <1>0, <1>18 DEF Stop, Goto, Locals, History, shm
<1>19. CASE RecvLost(p)
  BY <1>0, <1>19 DEF RecvLost, Received, Goto, Locals, History, shm
<1>20. CASE CronLost(p)
  BY <1>0, <1>20, DataAssumption DEF CronLost, AfterFree, Goto, Locals, History, shm
<1>21. CASE Send(p)
  BY <1>0, <1>21 DEF Send, Goto, Locals, History, shm
<1>22. CASE SendFail(p)
  BY <1>0, <1>22 DEF SendFail, Goto, Locals, History, shm
<1>23. CASE Clear(p)
  BY <1>0, <1>23 DEF Clear, Goto, Locals, History, shm
<1>24. CASE RelRead(p)
  BY <1>0, <1>24 DEF RelRead, Goto, Locals, History, shm
<1>25. CASE RelWrite(p)
  BY <1>0, <1>25 DEF RelWrite, Goto, Locals, History, shm
<1>26. CASE RelZero(p)
  BY <1>0, <1>26 DEF RelZero, LastOut, Goto, Locals, History, shm
<1>27. CASE Lock(p)
  BY <1>0, <1>27 DEF Lock, LockLabels, AfterLock, Goto, Locals, History, shm
<1>28. CASE Unlock(p)
  BY <1>0, <1>28 DEF Unlock, UnlockLabels, AfterUnlock, Goto, Locals, History, shm
<1>29. CASE ClearCall(p)
  BY <1>0, <1>29 DEF ClearCall, Calls, Goto, Locals, History, shm
<1>30. CASE InfoCrash(p)
  BY <1>0, <1>30 DEF InfoCrash, Goto, Locals, History, shm
<1>31. CASE Exit(p)
  BY <1>0, <1>31 DEF Exit, Goto, Locals, History, shm
<1>32. CASE Throw(p)
  BY <1>0, <1>32 DEF Throw, Goto, Locals, History, shm
<1>33. ASSUME NEW t \in Tasks, PostCall(p, t) PROVE ToldInv'
  BY <1>0, <1>33 DEF PostCall, Calls, Goto, Locals, History, shm
<1>34. ASSUME NEW u \in Uuids, DeleteCall(p, u) PROVE ToldInv'
  BY <1>0, <1>34 DEF DeleteCall, Calls, Goto, Locals, History, shm
<1>35. CASE Sigint(p)
  BY <1>0, <1>35 DEF Sigint, Halt, Goto, Locals, History, shm
<1>36. CASE SigintInLock(p)
  BY <1>0, <1>36 DEF SigintInLock, Halt, LockLabels, AfterLock, Goto, Locals, History, shm
<1>37. CASE SigintInSend(p)
  BY <1>0, <1>37 DEF SigintInSend, Halt, Goto, Locals, History, shm
<1>38. CASE Kill(p)
  BY <1>0, <1>38 DEF Kill, Goto, Locals, History, shm
<1>39. CASE Recv(p)
  BY <1>0, <1>39 DEF Recv, Goto, Locals, History, shm
<1> QED
  BY <1>1, <1>2, <1>3, <1>4, <1>5, <1>6, <1>7, <1>8, <1>9, <1>10, <1>11, <1>12, <1>13,
     <1>14, <1>15, <1>16, <1>17, <1>18, <1>19, <1>20, <1>21, <1>22, <1>23, <1>24,
     <1>25, <1>26, <1>27, <1>28, <1>29, <1>30, <1>31, <1>32, <1>33, <1>34, <1>35,
     <1>36, <1>37, <1>38, <1>39
  DEF WorkerStep, CallStep, ScriptStep, Fault

\* The label at the head of the loop is left for its end by the test there alone.
LEMMA OnlyCheckStops ==
  ASSUME TypeOK, NEW p \in Procs, NEW q \in Procs, pc[p] = "check", pc'[p] = "stop",
         WorkerStep(q) \/ CallStep(q) \/ Lock(q) \/ Unlock(q) \/ ScriptStep(q) \/ Fault(q)
  PROVE  Check(p)
<1>0. pc \in [Procs -> Labels] /\ caller \in [Procs -> {"idle"} \cup Callback]
  BY DEF TypeOK
<1>1. CASE WorkerStep(q)
  BY <1>0, <1>1, DataAssumption
  DEF WorkerStep, Inc, Check, Time, RecvNone, RecvNow, RecvLater, RecvDelete, RecvLost, Received, Recv,
      DeleteNode, DeleteDone, Count, Return, ListCrash, CronRun, CronEnd, CronReturn, CronLost, Stop,
      AfterFree, Goto
<1>2. CASE CallStep(q)
  BY <1>0, <1>2 DEF CallStep, Send, SendFail, Clear, RelRead, RelWrite, RelZero, Goto, Callback
<1>3. CASE Lock(q) \/ Unlock(q)
  BY <1>0, <1>3 DEF Lock, Unlock, LockLabels, UnlockLabels, AfterLock, AfterUnlock, Goto, Callback
<1>4. CASE ScriptStep(q)
  BY <1>0, <1>4
  DEF ScriptStep, Boot, Run, ClearCall, InfoCrash, Exit, Throw, PostCall, DeleteCall, Calls, Goto,
      Callback
<1>5. CASE Fault(q)
  BY <1>0, <1>5
  DEF Fault, Sigint, SigintInLock, SigintInSend, Kill, LockLabels, AfterLock, Goto, Callback
<1> QED BY <1>1, <1>2, <1>3, <1>4, <1>5

\* RoleInv holds of any number of workers, ToldInv of one.
LEMMA Roles == Spec => []RoleInv
<1>1. Init => RoleInv
  BY DEF Init, RoleInv, InLoop, LoopLabels, Clearing, Releasing, Calling, Callback, Unloaded
<1>2. TypeOK /\ RoleInv /\ [Next]_vars => RoleInv'
  <2>1. TypeOK /\ RoleInv /\ (UNCHANGED vars \/ Tick \/ Done) => RoleInv'
    BY DEF vars, Tick, Done, RoleInv, InLoop
  <2> QED BY <2>1, RoleInductive DEF Next
<1> QED BY <1>1, <1>2, TypeCorrect, PTL DEF Spec

\* The invariant of the count, for one worker.
LEMMA SoloTold ==
  ASSUME OneWorker
  PROVE  Spec => []ToldInv
<1>1. Init => ToldInv
  BY RolesAssumption DEF Init, ToldInv, Unloaded
<1>2. TypeOK /\ RoleInv /\ ToldInv /\ [Next]_vars => ToldInv'
  <2>1. ToldInv /\ (UNCHANGED vars \/ Tick \/ Done) => ToldInv'
    BY DEF vars, Tick, shm, Done, ToldInv, InLoop
  <2> QED BY <2>1, ToldInductive DEF Next
<1> QED BY <1>1, <1>2, TypeCorrect, Roles, PTL DEF Spec

\* One worker leaves its loop only after a clear or its own SIGINT, whatever its
\* clients and its callbacks do.
THEOREM StopsAsTold ==
  ASSUME OneWorker
  PROVE  Spec => StopsOnlyWhenTold
<1>1. TypeOK /\ RoleInv /\ ToldInv /\ [Next]_vars =>
        [\A p \in Procs : pc[p] = "check" /\ pc'[p] = "stop" =>
           hist.clears > 0 \/ ~loc[p].go]_vars
  <2> SUFFICES ASSUME TypeOK, RoleInv, ToldInv, Next, NEW p \in Procs,
                      pc[p] = "check", pc'[p] = "stop", loc[p].go, ~(hist.clears > 0)
               PROVE  FALSE
    OBVIOUS
  <2>1. ~Tick /\ ~Done
    BY DEF Tick, Done, vars
  <2>2. Check(p)
    BY <2>1, OnlyCheckStops DEF Next
  <2>3. loc[p].mine /\ p \in Workers /\ hist.clears = 0
    BY DEF RoleInv, InLoop, LoopLabels, TypeOK, History
  <2>4. running >= 1
    BY <2>3 DEF ToldInv, Leaving
  <2>5. running > 0
    BY <2>4 DEF TypeOK
  <2> QED BY <2>2, <2>5 DEF Check, KeepsGoing, Goto, TypeOK
<1> QED BY <1>1, TypeCorrect, Roles, SoloTold, PTL DEF Spec, StopsOnlyWhenTold

--------------------------------------------------------------------------------
(* What a worker leaves behind.                                            *)

\* A worker that has been told to stop stays told, and only a process that catches
\* SIGINT is let past the lock by EINTR.
LEMMA ToldStays ==
  ASSUME TypeOK, NEW p \in Procs,
         WorkerStep(p) \/ CallStep(p) \/ Lock(p) \/ Unlock(p) \/ ScriptStep(p) \/ Fault(p)
  PROVE  /\ Told => Told'
         /\ eintr' => eintr \/ Told'
<1> DEFINE
      Stays == /\ hist'.clears \in {hist.clears, hist.clears + 1}
               /\ \A q \in Procs : ~loc[q].go => ~loc'[q].go
               /\ eintr' => eintr \/ ~loc'[p].go
<1>0. /\ loc \in [Procs -> Locals] /\ hist \in History /\ hist.clears \in Nat
      /\ \A q \in Procs : loc[q].go \in BOOLEAN
  BY DEF TypeOK, Locals, History
<1>1. Stays
  <2>1. CASE Boot(p)
    BY <1>0, <2>1 DEF Boot, Goto, Locals, History, shm
  <2>2. CASE Run(p)
    BY <1>0, <2>2 DEF Run, Goto, Locals, History, shm
  <2>3. CASE Inc(p)
    BY <1>0, <2>3 DEF Inc, Raised, Goto, Locals, History, shm
  <2>4. CASE Check(p)
    BY <1>0, <2>4 DEF Check, KeepsGoing, Goto, Locals, History, shm
  <2>5. CASE Time(p)
    BY <1>0, <2>5 DEF Time, Goto, Locals, History, shm
  <2>6. CASE RecvNone(p)
    BY <1>0, <2>6 DEF RecvNone, Goto, Locals, History, shm
  <2>7. CASE RecvNow(p)
    BY <1>0, <2>7 DEF RecvNow, Received, Goto, Locals, History, shm, Execute
  <2>8. CASE RecvLater(p)
    BY <1>0, <2>8 DEF RecvLater, Received, Goto, Locals, History, shm
  <2>9. CASE RecvDelete(p)
    BY <1>0, <2>9 DEF RecvDelete, Received, Goto, Locals, History, shm
  <2>10. CASE DeleteNode(p)
    BY <1>0, <2>10, DataAssumption DEF DeleteNode, AfterFree, Goto, Locals, History, shm
  <2>11. CASE DeleteDone(p)
    BY <1>0, <2>11 DEF DeleteDone, Goto, Locals, History, shm
  <2>12. CASE Count(p)
    BY <1>0, <2>12 DEF Count, Goto, Locals, History, shm
  <2>13. CASE Return(p)
    BY <1>0, <2>13 DEF Return, Goto, Locals, History, shm
  <2>14. CASE ListCrash(p)
    BY <1>0, <2>14 DEF ListCrash, Received, Goto, Locals, History, shm
  <2>15. CASE CronRun(p)
    BY <1>0, <2>15 DEF CronRun, Execute, Goto, Locals, History, shm
  <2>16. CASE CronEnd(p)
    BY <1>0, <2>16 DEF CronEnd, Goto, Locals, History, shm
  <2>17. CASE CronReturn(p)
    BY <1>0, <2>17, DataAssumption DEF CronReturn, AfterFree, Goto, Locals, History, shm
  <2>18. CASE Stop(p)
    BY <1>0, <2>18 DEF Stop, Goto, Locals, History, shm
  <2>19. CASE RecvLost(p)
    BY <1>0, <2>19 DEF RecvLost, Received, Goto, Locals, History, shm
  <2>20. CASE CronLost(p)
    BY <1>0, <2>20, DataAssumption DEF CronLost, AfterFree, Goto, Locals, History, shm
  <2>21. CASE Send(p)
    BY <1>0, <2>21 DEF Send, Goto, Locals, History, shm
  <2>22. CASE SendFail(p)
    BY <1>0, <2>22 DEF SendFail, Goto, Locals, History, shm
  <2>23. CASE Clear(p)
    BY <1>0, <2>23 DEF Clear, Goto, Locals, History, shm
  <2>24. CASE RelRead(p)
    BY <1>0, <2>24 DEF RelRead, Goto, Locals, History, shm
  <2>25. CASE RelWrite(p)
    BY <1>0, <2>25 DEF RelWrite, Goto, Locals, History, shm
  <2>26. CASE RelZero(p)
    BY <1>0, <2>26 DEF RelZero, LastOut, Goto, Locals, History, shm
  <2>27. CASE Lock(p)
    BY <1>0, <2>27 DEF Lock, LockLabels, AfterLock, Goto, Locals, History, shm
  <2>28. CASE Unlock(p)
    BY <1>0, <2>28 DEF Unlock, UnlockLabels, AfterUnlock, Goto, Locals, History, shm
  <2>29. CASE ClearCall(p)
    BY <1>0, <2>29 DEF ClearCall, Calls, Goto, Locals, History, shm
  <2>30. CASE InfoCrash(p)
    BY <1>0, <2>30 DEF InfoCrash, Goto, Locals, History, shm
  <2>31. CASE Exit(p)
    BY <1>0, <2>31 DEF Exit, Goto, Locals, History, shm
  <2>32. CASE Throw(p)
    BY <1>0, <2>32 DEF Throw, Goto, Locals, History, shm
  <2>33. ASSUME NEW t \in Tasks, PostCall(p, t) PROVE Stays
    BY <1>0, <2>33 DEF PostCall, Calls, Goto, Locals, History, shm
  <2>34. ASSUME NEW u \in Uuids, DeleteCall(p, u) PROVE Stays
    BY <1>0, <2>34 DEF DeleteCall, Calls, Goto, Locals, History, shm
  <2>35. CASE Sigint(p)
    BY <1>0, <2>35 DEF Sigint, Halt, Goto, Locals, History, shm
  <2>36. CASE SigintInLock(p)
    BY <1>0, <2>36 DEF SigintInLock, Halt, LockLabels, AfterLock, Goto, Locals, History, shm
  <2>37. CASE SigintInSend(p)
    BY <1>0, <2>37 DEF SigintInSend, Halt, Goto, Locals, History, shm
  <2>38. CASE Kill(p)
    BY <1>0, <2>38 DEF Kill, Goto, Locals, History, shm
  <2>39. CASE Recv(p)
    BY <1>0, <2>39 DEF Recv, Goto, Locals, History, shm
  <2> QED
    BY <2>1, <2>2, <2>3, <2>4, <2>5, <2>6, <2>7, <2>8, <2>9, <2>10, <2>11, <2>12, <2>13,
       <2>14, <2>15, <2>16, <2>17, <2>18, <2>19, <2>20, <2>21, <2>22, <2>23, <2>24,
       <2>25, <2>26, <2>27, <2>28, <2>29, <2>30, <2>31, <2>32, <2>33, <2>34, <2>35,
       <2>36, <2>37, <2>38, <2>39
    DEF WorkerStep, CallStep, ScriptStep, Fault
<1>2. hist.clears > 0 => hist'.clears > 0
  BY <1>0, <1>1
<1>3. (\E q \in Procs : ~loc[q].go) => \E q \in Procs : ~loc'[q].go
  BY <1>1
<1>4. eintr' => eintr \/ \E q \in Procs : ~loc'[q].go
  BY <1>1, Zenon
<1> HIDE DEF Stays
<1> QED BY <1>2, <1>3, <1>4, Zenon DEF Told

\* A crontab with tasks in it belongs to a worker that is in its loop, died, or leaves
\* because it was told to.  One that calls exit in a callback still has the lock, so
\* that it waits for itself in the release, as long as no SIGINT comes.
LeftBehind(p) ==
  /\ loc[p].freed => loc[p].list = <<>>
  /\ loc[p].list # <<>> =>
       /\ loc[p].mine
       /\ InLoop(p) \/ pc[p] \in {"stop", "gone", "dead"} \cup Releasing
       /\ pc[p] = "relLock" => held[p] \/ Told
       /\ pc[p] \in {"relR", "relW", "relZ", "relUnlock", "gone"} => Told

LeaveInv == (eintr => Told) /\ \A p \in Procs : LeftBehind(p)

\* Every step keeps LeaveInv.
LEMMA LeaveInductive ==
  ASSUME TypeInv, RoleInv, LockInv, LeaveInv, NEW p \in Procs,
         WorkerStep(p) \/ CallStep(p) \/ Lock(p) \/ Unlock(p) \/ ScriptStep(p) \/ Fault(p)
  PROVE  LeaveInv'
<1>0. /\ pc \in [Procs -> Labels] /\ loc \in [Procs -> Locals] /\ hist \in History
      /\ held \in [Procs -> BOOLEAN]
      /\ caller \in [Procs -> {"idle"} \cup Callback]
      /\ InLoop(p) \/ pc[p] \in {"inc", "stop"} \cup Releasing => loc[p].mine
      /\ ~eintr /\ InCS(p) => held[p]
      /\ ~eintr /\ held[p] => ~(slock > 0)
      /\ LeftBehind(p)
      /\ eintr => Told
  <2>1. /\ pc \in [Procs -> Labels] /\ loc \in [Procs -> Locals] /\ hist \in History
        /\ held \in [Procs -> BOOLEAN]
        /\ caller \in [Procs -> {"idle"} \cup Callback]
    BY DEF TypeInv, TypeOK
  <2>3. InLoop(p) \/ pc[p] \in {"inc", "stop"} \cup Releasing => loc[p].mine
    BY DEF RoleInv
  <2>4. LeftBehind(p) /\ (eintr => Told)
    BY DEF LeaveInv
  <2>5. /\ ~eintr /\ InCS(p) => held[p]
        /\ ~eintr /\ held[p] => ~(slock > 0)
    BY DEF LockInv, LockCounted
  <2> QED BY <2>1, <2>3, <2>4, <2>5
<1>a. /\ Told => Told'
      /\ eintr' => eintr \/ Told'
  BY ToldStays DEF TypeInv
<1>b. \A q \in Procs : ~loc'[q].go => Told'
  BY DEF Told
<1> DEFINE
      OnlyMine == /\ Others(p)
                  /\ \A q \in Procs \ {p} : held'[q] = held[q]
                  /\ LeftBehind(p)'
<1>c. OnlyMine
  <2> USE DEF LeftBehind, InLoop, LoopLabels, Releasing, Calling, Callback, Others
  <2>1. CASE Boot(p)
    BY <1>0, <1>a, <1>b, <2>1 DEF Boot, Goto, Locals, History, shm
  <2>2. CASE Run(p)
    BY <1>0, <1>a, <1>b, <2>2 DEF Run, Goto, Locals, History, shm
  <2>3. CASE Inc(p)
    BY <1>0, <1>a, <1>b, <2>3 DEF Inc, Raised, Goto, Locals, History, shm
  <2>4. CASE Check(p)
    BY <1>0, <1>a, <1>b, <2>4 DEF Check, KeepsGoing, Goto, Locals, History, shm
  <2>5. CASE Time(p)
    BY <1>0, <1>a, <1>b, <2>5 DEF Time, Goto, Locals, History, shm
  <2>6. CASE RecvNone(p)
    BY <1>0, <1>a, <1>b, <2>6 DEF RecvNone, Goto, Locals, History, shm
  <2>7. CASE RecvNow(p)
    BY <1>0, <1>a, <1>b, <2>7 DEF RecvNow, Received, Goto, Locals, History, shm, Execute
  <2>8. CASE RecvLater(p)
    BY <1>0, <1>a, <1>b, <2>8 DEF RecvLater, Received, Goto, Locals, History, shm
  <2>9. CASE RecvDelete(p)
    BY <1>0, <1>a, <1>b, <2>9 DEF RecvDelete, Received, Goto, Locals, History, shm
  <2>10. CASE DeleteNode(p)
    <3>1. PICK i \in Hits(p) : loc' = [loc EXCEPT ![p].list = RemoveAt(@, i)]
      BY <2>10 DEF DeleteNode
    <3>2. loc[p].list # <<>>
      BY <3>1 DEF Hits
    <3>3. /\ pc[p] = "del" /\ pc'[p] \in {"del", "delEnd", "dead"}
          /\ \A q \in Procs \ {p} : pc'[q] = pc[q]
          /\ caller' = caller /\ held' = held
      BY <1>0, <2>10, DataAssumption DEF DeleteNode, AfterFree, Goto
    <3> QED BY <1>0, <1>a, <3>1, <3>2, <3>3 DEF Locals
  <2>11. CASE DeleteDone(p)
    BY <1>0, <1>a, <1>b, <2>11 DEF DeleteDone, Goto, Locals, History, shm
  <2>12. CASE Count(p)
    BY <1>0, <1>a, <1>b, <2>12 DEF Count, Goto, Locals, History, shm
  <2>13. CASE Return(p)
    BY <1>0, <1>a, <1>b, <2>13 DEF Return, Goto, Locals, History, shm
  <2>14. CASE ListCrash(p)
    BY <1>0, <1>a, <1>b, <2>14 DEF ListCrash, Received, Goto, Locals, History, shm
  <2>15. CASE CronRun(p)
    BY <1>0, <1>a, <1>b, <2>15 DEF CronRun, Execute, Goto, Locals, History, shm
  <2>16. CASE CronEnd(p)
    BY <1>0, <1>a, <1>b, <2>16 DEF CronEnd, Goto, Locals, History, shm
  <2>17. CASE CronReturn(p)
    <3>1. loc[p].list # <<>>
      BY <2>17 DEF CronReturn, TypeInv, CronHead
    <3>2. /\ pc[p] = "cronExec" /\ pc'[p] \in {"cron", "unlock", "dead"}
          /\ \A q \in Procs \ {p} : pc'[q] = pc[q]
          /\ caller' = caller /\ held' = held
          /\ loc' = [loc EXCEPT ![p].list = HeadDeleted(@)]
      BY <1>0, <2>17, DataAssumption DEF CronReturn, AfterFree, Goto
    <3> QED BY <1>0, <1>a, <3>1, <3>2 DEF Locals
  <2>18. CASE Stop(p)
    BY <1>0, <1>a, <1>b, <2>18 DEF Stop, Goto, Locals, History, shm
  <2>19. CASE RecvLost(p)
    BY <1>0, <1>a, <1>b, <2>19 DEF RecvLost, Received, Goto, Locals, History, shm
  <2>20. CASE CronLost(p)
    BY <1>0, <1>a, <1>b, <2>20, DataAssumption DEF CronLost, AfterFree, Goto, Locals, History, shm
  <2>21. CASE Send(p)
    BY <1>0, <1>a, <1>b, <2>21 DEF Send, Goto, Locals, History, shm
  <2>22. CASE SendFail(p)
    BY <1>0, <1>a, <1>b, <2>22 DEF SendFail, Goto, Locals, History, shm
  <2>23. CASE Clear(p)
    BY <1>0, <1>a, <1>b, <2>23 DEF Clear, Goto, Locals, History, shm
  <2>24. CASE RelRead(p)
    BY <1>0, <1>a, <1>b, <2>24 DEF RelRead, Goto, Locals, History, shm
  <2>25. CASE RelWrite(p)
    BY <1>0, <1>a, <1>b, <2>25 DEF RelWrite, Goto, Locals, History, shm
  <2>26. CASE RelZero(p)
    BY <1>0, <1>a, <1>b, <2>26 DEF RelZero, LastOut, Goto, Locals, History, shm
  <2>27. CASE Lock(p)
    BY <1>0, <1>a, <1>b, <2>27 DEF Lock, LockLabels, AfterLock, Goto, Locals, History, shm, LockFree
  <2>28. CASE Unlock(p)
    BY <1>0, <1>a, <1>b, <2>28 DEF Unlock, UnlockLabels, AfterUnlock, Goto, Locals, History, shm
  <2>29. CASE ClearCall(p)
    BY <1>0, <1>a, <1>b, <2>29 DEF ClearCall, Calls, Goto, Locals, History, shm
  <2>30. CASE InfoCrash(p)
    BY <1>0, <1>a, <1>b, <2>30 DEF InfoCrash, Goto, Locals, History, shm
  <2>31. CASE Exit(p)
    <3>1. pc[p] \in Callback => held[p] \/ Told
      BY <1>0 DEF InCS, Inside
    <3> QED BY <1>0, <1>a, <2>31, <3>1 DEF Exit, Goto, Locals
  <2>32. CASE Throw(p)
    BY <1>0, <1>a, <1>b, <2>32 DEF Throw, Goto, Locals, History, shm
  <2>33. ASSUME NEW t \in Tasks, PostCall(p, t) PROVE OnlyMine
    BY <1>0, <1>a, <1>b, <2>33 DEF PostCall, Calls, Goto, Locals, History, shm
  <2>34. ASSUME NEW u \in Uuids, DeleteCall(p, u) PROVE OnlyMine
    BY <1>0, <1>a, <1>b, <2>34 DEF DeleteCall, Calls, Goto, Locals, History, shm
  <2>35. CASE Sigint(p)
    BY <1>0, <1>a, <1>b, <2>35 DEF Sigint, Halt, Goto, Locals, History, shm
  <2>36. CASE SigintInLock(p)
    BY <1>0, <1>a, <1>b, <2>36 DEF SigintInLock, Halt, LockLabels, AfterLock, Goto, Locals, History, shm
  <2>37. CASE SigintInSend(p)
    BY <1>0, <1>a, <1>b, <2>37 DEF SigintInSend, Halt, Goto, Locals, History, shm
  <2>38. CASE Kill(p)
    BY <1>0, <1>a, <1>b, <2>38 DEF Kill, Goto, Locals, History, shm
  <2>39. CASE Recv(p)
    BY <1>0, <1>a, <1>b, <2>39 DEF Recv, Goto, Locals, History, shm
  <2> QED
    BY <2>1, <2>2, <2>3, <2>4, <2>5, <2>6, <2>7, <2>8, <2>9, <2>10, <2>11, <2>12, <2>13,
       <2>14, <2>15, <2>16, <2>17, <2>18, <2>19, <2>20, <2>21, <2>22, <2>23, <2>24,
       <2>25, <2>26, <2>27, <2>28, <2>29, <2>30, <2>31, <2>32, <2>33, <2>34, <2>35,
       <2>36, <2>37, <2>38, <2>39
    DEF WorkerStep, CallStep, ScriptStep, Fault
<1>d. \A q \in Procs \ {p} : LeftBehind(q)'
  <2>1. \A q \in Procs \ {p} : LeftBehind(q)
    BY DEF LeaveInv
  <2> QED BY <1>a, <1>c, <2>1 DEF LeftBehind, Others, InLoop
<1> QED BY <1>0, <1>a, <1>c, <1>d DEF LeaveInv

\* What a worker leaves behind, in every reachable state.
LEMMA Leaves == Spec => []LeaveInv
<1>1. Init => LockInv /\ LeaveInv
  BY DEF Init, LockInv, LockCounted, InCS, Inside, Callback, UnlockLabels, LeaveInv, LeftBehind,
         Unloaded
<1>2. TypeOK /\ LockInv /\ [Next]_vars => LockInv'
  BY LockInductive
<1>3. TypeInv /\ RoleInv /\ LockInv /\ LeaveInv /\ [Next]_vars => LeaveInv'
  <2>1. LeaveInv /\ (UNCHANGED vars \/ Tick \/ Done) => LeaveInv'
    BY DEF vars, Tick, Done, LeaveInv, LeftBehind, InLoop, Told
  <2> QED BY <2>1, LeaveInductive DEF Next
<1> QED BY <1>1, <1>2, <1>3, TypeInvariant, TypeCorrect, Roles, PTL DEF Spec

--------------------------------------------------------------------------------
(* The books: what was accepted, asked and run, against what is where.     *)

\* The tasks of p were accepted, but for that of a message not sent yet.
Booked(p) ==
  /\ Kept(p) \subseteq hist.accepted
  /\ IF pc[p] = "got" THEN Carried(p) \subseteq hist.accepted ELSE hist.accepted \cap Carried(p) = {}

\* p has received a delete, and is not done with it.
Deleting(p) == Received(p, "delete") \/ pc[p] \in {"del", "delEnd"}

BookInv ==
  /\ ~mq.live => mq.msgs = <<>>
  /\ hist.accepted \subseteq hist.posted
  /\ TasksOf(mq.msgs) \subseteq hist.accepted
  /\ \A t \in Tasks : hist.runs[t] # 0 => t \in hist.accepted
  /\ \A t \in hist.posted : hist.at[t] \in Stamps \cup 0 .. now
  /\ \A m \in ToSet(mq.msgs) : m.op = "delete" => m.uuid \in hist.asked
  /\ \A p \in Procs :
       /\ Booked(p)
       /\ Executing(p) => loc[p].list # <<>> /\ hist.runs[Head(loc[p].list).task] = 1
       /\ Deleting(p) => loc[p].msg.uuid \in hist.asked

\* The message of a delete that a worker carries out is one that was asked for.
LEMMA AskedInductive ==
  ASSUME TypeInv, PlaceInv, BookInv, NEW p \in Procs, Moves(p) \/ Quiet(p)
  PROVE  /\ hist.asked \subseteq hist'.asked
         /\ \A m \in ToSet(mq'.msgs) : m.op = "delete" => m.uuid \in hist'.asked
         /\ \A q \in Procs : Deleting(q)' => loc'[q].msg.uuid \in hist'.asked
<1>0. /\ mq.msgs \in Seq(Message) /\ Once(mq.msgs)
      /\ \A m \in ToSet(mq.msgs) : m.op = "delete" => m.uuid \in hist.asked
      /\ \A q \in Procs : Deleting(q) => loc[q].msg.uuid \in hist.asked
  BY DEF TypeInv, TypeOK, BookInv, PlaceInv, OnePlace
<1>1. CASE Quiet(p)
  <2>1. ToSet(mq'.msgs) \subseteq ToSet(mq.msgs) /\ hist'.asked = hist.asked
    BY <1>1, QuietPlaces DEF PlaceInv, Quiet, SameHistory
  <2>2. Deleting(p)' => Deleting(p) /\ loc'[p].msg = loc[p].msg
    BY <1>1 DEF Quiet, RecvDelete, Received, Deleting
  <2> QED BY <1>0, <1>1, <2>1, <2>2 DEF Quiet, Others, Deleting, Received
<1>2. CASE Send(p)
  <2>1. /\ mq'.msgs = Append(mq.msgs, loc[p].out) /\ Others(p) /\ pc[p] = "send"
        /\ pc'[p] \notin {"got", "del", "delEnd"}
        /\ hist'.asked = IF loc[p].out.op = "delete" THEN hist.asked \cup {loc[p].out.uuid}
                        ELSE hist.asked
    BY <1>2, SendEffects
  <2>2. loc[p].out \in Message /\ loc[p].out.task \notin TasksOf(mq.msgs)
    <3>1. Carried(p) = {loc[p].out.task} \ {NoTask}
      BY <2>1 DEF Carried, Hand
    <3> QED BY <3>1 DEF TypeInv, TypeOK, Locals, PlaceInv, OnePlace, TasksOf
  <2>3. ToSet(mq'.msgs) \subseteq ToSet(mq.msgs) \cup {loc[p].out}
    BY <1>0, <2>1, <2>2, AppendPuts
  <2> QED BY <1>0, <2>1, <2>3 DEF Others, Deleting, Received
<1>3. CASE Recv(p)
  <2>1. /\ mq.msgs # <<>> /\ mq'.msgs = Tail(mq.msgs) /\ hist' = hist /\ Others(p)
        /\ loc'[p].msg = Head(mq.msgs) /\ pc'[p] = "got"
    BY <1>3, RecvEffects
  <2>2. ToSet(mq'.msgs) \subseteq ToSet(mq.msgs) /\ Head(mq.msgs) \in ToSet(mq.msgs)
    BY <1>0, <2>1, TailTakes DEF ToSet
  <2> QED BY <1>0, <2>1, <2>2 DEF Others, Deleting, Received
<1>4. CASE Moves(p) /\ ~Send(p) /\ ~Recv(p)
  <2>1. /\ hist'.asked = hist.asked /\ Others(p) /\ pc'[p] \notin {"got", "del", "delEnd"}
        /\ mq' = mq
    BY <1>4, PostEffects, DeleteEffects, RecvNowEffects, RecvLaterEffects, CronRunEffects
    DEF Moves, SameHistory
  <2> QED BY <1>0, <2>1 DEF Others, Deleting, Received
<1> QED BY <1>1, <1>2, <1>3, <1>4

\* A task is accepted when its message enters the queue, and stays so; it is then on
\* its way to the callback, or lost.
LEMMA BookInductive ==
  ASSUME TypeInv, PlaceInv, BookInv, NEW p \in Procs, Moves(p) \/ Quiet(p)
  PROVE  BookInv'
<1>0. /\ mq.msgs \in Seq(Message) /\ Once(mq.msgs)
      /\ hist.runs \in [Tasks -> Nat] /\ hist.at \in [Tasks -> Nat]
      /\ hist.posted \subseteq Tasks
      /\ \A q \in Procs : loc[q].list \in Seq(Node) /\ Once(loc[q].list)
      /\ AsPosted /\ OnePlace /\ BookInv /\ now \in Nat
  BY DEF TypeInv, TypeOK, Locals, History, PlaceInv, OnePlace
<1>a. /\ \A m \in ToSet(mq'.msgs) : m.op = "delete" => m.uuid \in hist'.asked
      /\ \A q \in Procs : Deleting(q)' => loc'[q].msg.uuid \in hist'.asked
  BY AskedInductive
<1>b. ASSUME Others(p), hist.accepted \subseteq hist'.accepted,
             (hist'.accepted \ hist.accepted) \cap UNION {Carried(q) : q \in Procs \ {p}} = {},
             Booked(p)'
      PROVE  \A q \in Procs : Booked(q)'
  <2> SUFFICES ASSUME NEW q \in Procs, q # p PROVE Booked(q)'
    BY <1>b
  <2>1. Booked(q)
    BY <1>0 DEF BookInv
  <2>2. Kept(q)' = Kept(q) /\ Carried(q)' = Carried(q) /\ pc'[q] = pc[q]
    BY <1>b, OthersKeep DEF Others
  <2> QED BY <1>b, <2>1, <2>2 DEF Booked
<1>1. CASE Quiet(p)
  <2>1. /\ ToSet(mq'.msgs) \subseteq ToSet(mq.msgs)
        /\ TasksOf(mq'.msgs) \subseteq TasksOf(mq.msgs)
        /\ \A q \in Procs : Carried(q)' \subseteq Carried(q) /\ Kept(q)' \subseteq Kept(q)
        /\ SameHistory /\ Others(p) /\ now' = now
        /\ Executing(p)' => Executing(p) /\ loc'[p].list = loc[p].list
    BY <1>0, <1>1, QuietPlaces DEF Quiet
  <2>2. ~mq'.live => mq'.msgs = <<>>
    BY <1>0, <1>1 DEF Quiet, BookInv
  <2>3. Booked(p)'
    <3>1. pc'[p] \in {"send", "got"} => pc[p] = pc'[p]
      BY <1>1 DEF Quiet
    <3>2. pc'[p] \notin {"send", "got"} => Carried(p)' = {}
      BY DEF Carried
    <3> QED BY <1>0, <2>1, <3>1, <3>2 DEF BookInv, Booked, SameHistory
  <2>4. \A q \in Procs : Booked(q)'
    BY <1>b, <2>1, <2>3 DEF SameHistory
  <2> QED BY <1>0, <1>a, <2>1, <2>2, <2>4, OthersKeep, SMTT(30) DEF BookInv, SameHistory
<1>2. ASSUME NEW t \in Tasks, PostCall(p, t) PROVE BookInv'
  <2>1. /\ t \notin hist.posted /\ mq' = mq /\ Others(p) /\ pc'[p] = "send" /\ now' = now
        /\ hist'.runs = hist.runs /\ hist'.posted = hist.posted \cup {t}
        /\ hist'.accepted = hist.accepted
        /\ loc'[p].list = loc[p].list /\ (Executing(p) <=> Executing(p)')
    BY <1>2, PostEffects
  <2>2. PICK m \in Stamps \cup {now} :
          /\ m \in Nat /\ loc'[p].out = AddMessage(t, m)
          /\ hist'.at = [hist.at EXCEPT ![t] = m]
    BY <1>2, PostEffects
  <2>3. Carried(p)' \subseteq {t} /\ Kept(p)' = Kept(p)
    BY <2>1, <2>2 DEF Carried, Hand, Kept, AddMessage
  <2>4. \A k \in hist'.posted : hist'.at[k] \in Stamps \cup 0 .. now'
    BY <1>0, <2>1, <2>2 DEF BookInv
  <2>5. \A q \in Procs : Booked(q)'
    BY <1>0, <1>b, <2>1, <2>3 DEF BookInv, Booked
  <2>6. ASSUME NEW q \in Procs, Executing(q)'
        PROVE  loc'[q].list # <<>> /\ hist'.runs[Head(loc'[q].list).task] = 1
    <3>1. Executing(q) /\ loc'[q].list = loc[q].list
      BY <2>1, <2>6, OthersKeep
    <3> QED BY <1>0, <2>1, <3>1 DEF BookInv
  <2>7. /\ ~mq'.live => mq'.msgs = <<>>
        /\ hist'.accepted \subseteq hist'.posted /\ TasksOf(mq'.msgs) \subseteq hist'.accepted
        /\ \A k \in Tasks : hist'.runs[k] # 0 => k \in hist'.accepted
    BY <1>0, <2>1 DEF BookInv
  <2> QED BY <1>a, <2>4, <2>5, <2>6, <2>7 DEF BookInv
<1>3. ASSUME NEW u \in Uuids, DeleteCall(p, u) PROVE BookInv'
  <2>1. /\ mq' = mq /\ Others(p) /\ pc'[p] = "send" /\ loc'[p].out = DeleteMessage(u)
        /\ SameHistory /\ loc'[p].list = loc[p].list /\ (Executing(p) <=> Executing(p)')
        /\ now' = now
    BY <1>3, DeleteEffects
  <2>2. Carried(p)' = {} /\ Kept(p)' = Kept(p)
    BY <2>1 DEF Carried, Hand, Kept, DeleteMessage
  <2>3. \A q \in Procs : Booked(q)'
    BY <1>0, <1>b, <2>1, <2>2 DEF BookInv, Booked, SameHistory
  <2>4. ASSUME NEW q \in Procs, Executing(q)'
        PROVE  loc'[q].list # <<>> /\ hist'.runs[Head(loc'[q].list).task] = 1
    BY <1>0, <2>1, <2>4, OthersKeep DEF BookInv, SameHistory
  <2>5. /\ ~mq'.live => mq'.msgs = <<>>
        /\ hist'.accepted \subseteq hist'.posted /\ TasksOf(mq'.msgs) \subseteq hist'.accepted
        /\ \A k \in Tasks : hist'.runs[k] # 0 => k \in hist'.accepted
        /\ \A k \in hist'.posted : hist'.at[k] \in Stamps \cup 0 .. now'
    BY <1>0, <2>1 DEF BookInv, SameHistory
  <2> QED BY <1>a, <2>3, <2>4, <2>5 DEF BookInv
<1>4. CASE Send(p)
  <2>1. /\ mq'.msgs = Append(mq.msgs, loc[p].out) /\ pc[p] = "send" /\ pc'[p] \notin {"send", "got"}
        /\ hist'.runs = hist.runs /\ hist'.posted = hist.posted /\ hist'.at = hist.at
        /\ hist'.accepted = hist.accepted \cup Carried(p) /\ now' = now
        /\ Valid(p) /\ mq'.live = mq.live
        /\ loc'[p].list = loc[p].list /\ Others(p) /\ (Executing(p) <=> Executing(p)')
    BY <1>4, SendEffects
  <2>2. Carried(p)' = {} /\ Carried(p) = {loc[p].out.task} \ {NoTask} /\ Kept(p)' = Kept(p)
    BY <2>1 DEF Carried, Hand, Kept
  <2>3. loc[p].out \in Message /\ loc[p].out.task \notin TasksOf(mq.msgs)
    BY <1>0, <2>2 DEF TypeInv, TypeOK, Locals, OnePlace, TasksOf
  <2>4. TasksOf(mq'.msgs) = TasksOf(mq.msgs) \cup Carried(p)
    BY <1>0, <2>1, <2>2, <2>3, AppendPuts
  <2>5. Carried(p) \subseteq hist.posted /\ \A q \in Procs \ {p} : Carried(q) \cap Carried(p) = {}
    BY <1>0, PlacedArePosted DEF OnePlace
  <2>6. \A q \in Procs : Booked(q)'
    BY <1>0, <1>b, <2>1, <2>2, <2>5 DEF BookInv, Booked
  <2>7. ASSUME NEW q \in Procs, Executing(q)'
        PROVE  loc'[q].list # <<>> /\ hist'.runs[Head(loc'[q].list).task] = 1
    BY <1>0, <2>1, <2>7, OthersKeep DEF BookInv
  <2>8. /\ ~mq'.live => mq'.msgs = <<>>
        /\ hist'.accepted \subseteq hist'.posted /\ TasksOf(mq'.msgs) \subseteq hist'.accepted
        /\ \A k \in Tasks : hist'.runs[k] # 0 => k \in hist'.accepted
        /\ \A k \in hist'.posted : hist'.at[k] \in Stamps \cup 0 .. now'
    BY <1>0, <2>1, <2>4, <2>5 DEF BookInv, Valid
  <2> QED BY <1>a, <2>6, <2>7, <2>8 DEF BookInv
<1>5. CASE RecvNow(p)
  <2> DEFINE k == loc[p].msg.task
  <2>1. /\ loc[p].msg.op = "add" /\ mq' = mq
        /\ hist'.runs = [hist.runs EXCEPT ![k] = @ + 1] /\ hist'.posted = hist.posted
        /\ hist'.accepted = hist.accepted /\ hist'.at = hist.at /\ now' = now
        /\ loc' = loc /\ Others(p) /\ pc'[p] = "exec" /\ pc[p] = "got"
    BY <1>5, RecvNowEffects
  <2>2. /\ k \in Tasks /\ Carried(p) = {k} /\ \A q \in Procs : k \notin Kept(q)
    BY <2>1, HandPlaced
  <2>3. Carried(p)' = {} /\ Kept(p)' = Kept(p) /\ ~Executing(p)'
    BY <2>1 DEF Carried, Kept, Executing, Calling
  <2> HIDE DEF k
  <2>4. \A t \in Tasks \ {k} : hist'.runs[t] = hist.runs[t]
    BY <1>0, <2>1, <2>2
  <2>5. ASSUME NEW q \in Procs, Executing(q)'
        PROVE  loc'[q].list # <<>> /\ hist'.runs[Head(loc'[q].list).task] = 1
    <3>1. q # p /\ Executing(q) /\ loc'[q].list = loc[q].list
      BY <2>1, <2>3, <2>5, OthersKeep
    <3>2. loc[q].list # <<>> /\ hist.runs[Head(loc[q].list).task] = 1
      BY <1>0, <3>1 DEF BookInv
    <3>3. Head(loc[q].list).task \in Kept(q) /\ Head(loc[q].list).task \in Tasks
      BY <1>0, <3>2, TailTakes, NodesAreTasks
    <3> QED BY <2>2, <2>4, <3>1, <3>2, <3>3
  <2>6. \A q \in Procs : Booked(q)'
    BY <1>0, <1>b, <2>1, <2>3 DEF BookInv, Booked
  <2>7. /\ ~mq'.live => mq'.msgs = <<>>
        /\ hist'.accepted \subseteq hist'.posted /\ TasksOf(mq'.msgs) \subseteq hist'.accepted
        /\ \A t \in hist'.posted : hist'.at[t] \in Stamps \cup 0 .. now'
    BY <1>0, <2>1 DEF BookInv
  <2>8. \A t \in Tasks : hist'.runs[t] # 0 => t \in hist'.accepted
    BY <1>0, <2>1, <2>2, <2>4 DEF BookInv, Booked
  <2> QED BY <1>a, <2>5, <2>6, <2>7, <2>8 DEF BookInv
<1>6. CASE RecvLater(p)
  <2> DEFINE m == loc[p].msg
  <2>1. /\ m.op = "add" /\ mq' = mq
        /\ loc'[p].list = Insert(loc[p].list, NodeOf(m)) /\ hist' = hist /\ now' = now
        /\ Others(p) /\ pc'[p] = "count" /\ pc[p] = "got"
    BY <1>6, RecvLaterEffects
  <2>2. Carried(p) = {m.task} /\ m \in Message /\ m.task \notin Kept(p)
    BY <2>1, HandPlaced
  <2>3. NodeOf(m) \in Node /\ NodeOf(m).task = m.task
    BY <2>2, Pieces DEF NodeOf
  <2>4. Carried(p)' = {} /\ ~Executing(p)'
    BY <2>1 DEF Carried, Executing, Calling
  <2> HIDE DEF m
  <2>5. Kept(p)' = Kept(p) \cup ({m.task} \ {NoTask})
    BY <1>0, <2>1, <2>2, <2>3, Pieces, InsertPuts DEF Kept
  <2>6. \A q \in Procs : Booked(q)'
    BY <1>0, <1>b, <2>1, <2>2, <2>4, <2>5 DEF BookInv, Booked
  <2> QED BY <1>0, <1>a, <2>1, <2>4, <2>6, OthersKeep DEF BookInv
<1>8. CASE Recv(p)
  <2> DEFINE k == Head(mq.msgs).task
  <2>1. /\ mq.msgs # <<>> /\ mq'.msgs = Tail(mq.msgs) /\ hist' = hist /\ now' = now
        /\ Valid(p) /\ mq'.live = mq.live /\ loc'[p].msg = Head(mq.msgs)
        /\ loc'[p].list = loc[p].list /\ Others(p) /\ pc'[p] = "got" /\ pc[p] = "recv"
    BY <1>8, RecvEffects
  <2>2. /\ TasksOf(mq'.msgs) \subseteq TasksOf(mq.msgs)
        /\ {k} \ {NoTask} \subseteq TasksOf(mq.msgs)
    BY <2>1, HeadPlaced
  <2>3. Carried(p)' = {k} \ {NoTask} /\ Kept(p)' = Kept(p) /\ ~Executing(p)'
    BY <2>1 DEF Carried, Hand, Kept, Executing, Calling
  <2> HIDE DEF k
  <2>4. \A q \in Procs : Booked(q)'
    BY <1>0, <1>b, <2>1, <2>2, <2>3 DEF BookInv, Booked
  <2>5. \A q \in Procs : Executing(q)' => Executing(q) /\ loc'[q].list = loc[q].list
    BY <2>1, <2>3, OthersKeep
  <2> QED BY <1>0, <1>a, <2>1, <2>2, <2>4, <2>5 DEF BookInv, Valid
<1>7. CASE CronRun(p)
  <2> DEFINE k == Head(loc[p].list).task
  <2>1. /\ loc[p].list # <<>> /\ mq' = mq /\ loc' = loc /\ Others(p)
        /\ hist'.runs = [hist.runs EXCEPT ![k] = @ + 1] /\ hist'.posted = hist.posted
        /\ hist'.accepted = hist.accepted /\ hist'.at = hist.at /\ now' = now
        /\ pc[p] = "cron" /\ pc'[p] = "cronExec"
    BY <1>7, CronRunEffects
  <2>2. 1 \in DOMAIN loc[p].list /\ k = loc[p].list[1].task
    BY <1>0, <2>1, TailTakes
  <2>3. Carried(p)' = {} /\ Kept(p)' = Kept(p) /\ pc[p] \notin Leaving /\ ~Executing(p)
    BY <2>1 DEF Carried, Kept, Leaving, Executing, Calling
  <2>4. k \in Tasks /\ k \in Kept(p) /\ hist.runs[k] = 0
    BY <1>0, <2>2, <2>3, NodesAreTasks DEF PlaceInv, Unrun
  <2>5. \A q \in Procs : q # p => k \notin Kept(q)
    BY <1>0, <2>4 DEF OnePlace
  <2> HIDE DEF k
  <2>6. hist'.runs[k] = 1 /\ \A t \in Tasks \ {k} : hist'.runs[t] = hist.runs[t]
    BY <1>0, <2>1, <2>4
  <2>7. ASSUME NEW q \in Procs, Executing(q)'
        PROVE  loc'[q].list # <<>> /\ hist'.runs[Head(loc'[q].list).task] = 1
    <3>1. CASE q = p
      BY <2>1, <2>6, <3>1 DEF k
    <3>2. CASE q # p
      <4>1. Executing(q) /\ loc'[q].list = loc[q].list
        BY <2>1, <2>7, <3>2, OthersKeep
      <4>2. loc[q].list # <<>> /\ hist.runs[Head(loc[q].list).task] = 1
        BY <1>0, <4>1 DEF BookInv
      <4>3. Head(loc[q].list).task \in Kept(q) /\ Head(loc[q].list).task \in Tasks
        BY <1>0, <4>2, TailTakes, NodesAreTasks
      <4> QED BY <2>5, <2>6, <3>2, <4>1, <4>2, <4>3
    <3> QED BY <3>1, <3>2
  <2>8. \A q \in Procs : Booked(q)'
    BY <1>0, <1>b, <2>1, <2>3 DEF BookInv, Booked
  <2>9. /\ ~mq'.live => mq'.msgs = <<>>
        /\ hist'.accepted \subseteq hist'.posted /\ TasksOf(mq'.msgs) \subseteq hist'.accepted
        /\ \A t \in hist'.posted : hist'.at[t] \in Stamps \cup 0 .. now'
    BY <1>0, <2>1 DEF BookInv
  <2>10. \A t \in Tasks : hist'.runs[t] # 0 => t \in hist'.accepted
    <3>1. k \in hist.accepted /\ \A t \in Tasks : hist.runs[t] # 0 => t \in hist.accepted
      BY <1>0, <2>4 DEF BookInv, Booked
    <3> QED BY <2>1, <2>6, <3>1
  <2> QED BY <1>a, <2>7, <2>8, <2>9, <2>10 DEF BookInv
<1> QED BY <1>1, <1>2, <1>3, <1>4, <1>5, <1>6, <1>7, <1>8 DEF Moves

\* The books are kept in every reachable state, whatever the number of workers.
LEMMA BooksKept == Spec => []BookInv
<1>1. Init => BookInv
  BY DEF Init, BookInv, Booked, Deleting, Received, Unloaded, Once, TasksOf, ToSet, Kept, Carried,
         Executing, Calling
<1>2. TypeInv /\ PlaceInv /\ BookInv /\ [Next]_vars => BookInv'
  <2> SUFFICES ASSUME TypeInv, PlaceInv, BookInv, [Next]_vars PROVE BookInv'
    OBVIOUS
  <2>1. ASSUME NEW p \in Procs,
               WorkerStep(p) \/ CallStep(p) \/ Lock(p) \/ Unlock(p) \/ ScriptStep(p) \/ Fault(p)
        PROVE  BookInv'
    BY <2>1, QuietSteps, BookInductive
  <2>2. CASE UNCHANGED vars \/ Done
    BY <2>2 DEF Done, vars, BookInv, Booked, Deleting, Received, Kept, Carried, Hand, Executing
  <2>3. CASE Tick
    <3>1. /\ mq' = mq /\ pc' = pc /\ caller' = caller /\ loc' = loc /\ hist' = hist
          /\ now' = now + 1
      BY <2>3 DEF Tick
    <3>2. 0 .. now \subseteq 0 .. now'
      BY <3>1 DEF TypeInv, TypeOK
    <3> QED
      BY <3>1, <3>2
      DEF BookInv, Booked, Deleting, Received, Kept, Carried, Hand, Executing
  <2> QED BY <2>1, <2>2, <2>3 DEF Next
<1> QED BY <1>1, <1>2, TypeInvariant, PlaceInvariant, PTL DEF Spec

--------------------------------------------------------------------------------
(* A deleted task never runs.                                              *)

\* The task waits in no place, and has not run.
Nowhere(t) ==
  /\ t \notin TasksOf(mq.msgs) /\ hist.runs[t] = 0
  /\ \A q \in Procs : t \notin Kept(q) /\ t \notin Carried(q)

\* A posted task that is nowhere never comes back: it is not posted again.
LEMMA NothingReturns ==
  ASSUME TypeInv, PlaceInv, NEW p \in Procs, Moves(p) \/ Quiet(p),
         NEW t \in hist.posted, Nowhere(t)
  PROVE  t \in hist'.posted /\ Nowhere(t)'
<1>0. /\ mq.msgs \in Seq(Message) /\ Once(mq.msgs) /\ OnePlace
      /\ hist.runs \in [Tasks -> Nat] /\ t \in Tasks /\ hist.runs[t] = 0
      /\ t \notin TasksOf(mq.msgs) /\ \A q \in Procs : t \notin Kept(q) /\ t \notin Carried(q)
      /\ \A q \in Procs : loc[q].list \in Seq(Node) /\ Once(loc[q].list)
  BY DEF TypeInv, TypeOK, Locals, History, PlaceInv, OnePlace, Nowhere
<1>1. CASE Quiet(p)
  <2>1. /\ TasksOf(mq'.msgs) \subseteq TasksOf(mq.msgs)
        /\ \A q \in Procs : Kept(q)' \subseteq Kept(q) /\ Carried(q)' \subseteq Carried(q)
        /\ SameHistory
    BY <1>0, <1>1, QuietPlaces DEF Quiet
  <2> QED BY <1>0, <2>1 DEF Nowhere, SameHistory
<1>2. ASSUME NEW k \in Tasks, PostCall(p, k) PROVE t \in hist'.posted /\ Nowhere(t)'
  <2>1. /\ k \notin hist.posted /\ mq' = mq /\ Others(p) /\ pc'[p] = "send"
        /\ hist'.runs = hist.runs /\ hist'.posted = hist.posted \cup {k}
        /\ loc'[p].list = loc[p].list
    BY <1>2, PostEffects
  <2>2. PICK m \in Stamps \cup {now} :
          /\ m \in Nat /\ loc'[p].out = AddMessage(k, m)
          /\ hist'.at = [hist.at EXCEPT ![k] = m]
    BY <1>2, PostEffects
  <2>3. Carried(p)' \subseteq {k} /\ Kept(p)' = Kept(p)
    BY <2>1, <2>2 DEF Carried, Hand, Kept, AddMessage
  <2> QED BY <1>0, <2>1, <2>3, OthersKeep DEF Nowhere
<1>3. ASSUME NEW u \in Uuids, DeleteCall(p, u) PROVE t \in hist'.posted /\ Nowhere(t)'
  <2>1. /\ mq' = mq /\ Others(p) /\ pc'[p] = "send" /\ loc'[p].out = DeleteMessage(u)
        /\ SameHistory /\ loc'[p].list = loc[p].list
    BY <1>3, DeleteEffects
  <2>2. Carried(p)' = {} /\ Kept(p)' = Kept(p)
    BY <2>1 DEF Carried, Hand, Kept, DeleteMessage
  <2> QED BY <1>0, <2>1, <2>2, OthersKeep DEF Nowhere, SameHistory
<1>4. CASE Send(p)
  <2>1. /\ mq'.msgs = Append(mq.msgs, loc[p].out) /\ pc[p] = "send" /\ pc'[p] \notin {"send", "got"}
        /\ hist'.runs = hist.runs /\ hist'.posted = hist.posted
        /\ loc'[p].list = loc[p].list /\ Others(p)
    BY <1>4, SendEffects
  <2>2. Carried(p)' = {} /\ Carried(p) = {loc[p].out.task} \ {NoTask} /\ Kept(p)' = Kept(p)
    BY <2>1 DEF Carried, Hand, Kept
  <2>3. loc[p].out \in Message /\ loc[p].out.task \notin TasksOf(mq.msgs)
    BY <1>0, <2>2 DEF TypeInv, TypeOK, Locals, OnePlace, TasksOf
  <2>4. TasksOf(mq'.msgs) = TasksOf(mq.msgs) \cup Carried(p)
    BY <1>0, <2>1, <2>2, <2>3, AppendPuts
  <2> QED BY <1>0, <2>1, <2>2, <2>4, OthersKeep DEF Nowhere
<1>5. CASE RecvNow(p)
  <2> DEFINE k == loc[p].msg.task
  <2>1. /\ loc[p].msg.op = "add" /\ pc[p] = "got" /\ mq' = mq
        /\ hist'.runs = [hist.runs EXCEPT ![k] = @ + 1] /\ hist'.posted = hist.posted
        /\ loc' = loc /\ Others(p) /\ pc'[p] = "exec"
    BY <1>5, RecvNowEffects
  <2>2. Carried(p) = {k}
    BY <2>1, HandPlaced
  <2>3. Carried(p)' = {} /\ Kept(p)' = Kept(p)
    BY <2>1 DEF Carried, Kept
  <2> HIDE DEF k
  <2> QED BY <1>0, <2>1, <2>2, <2>3, OthersKeep DEF Nowhere
<1>6. CASE RecvLater(p)
  <2> DEFINE m == loc[p].msg
  <2>1. /\ m.op = "add" /\ pc[p] = "got" /\ mq' = mq
        /\ loc'[p].list = Insert(loc[p].list, NodeOf(m)) /\ hist' = hist
        /\ Others(p) /\ pc'[p] = "count"
    BY <1>6, RecvLaterEffects
  <2>2. Carried(p) = {m.task} /\ m \in Message /\ m.task \notin Kept(p)
    BY <2>1, HandPlaced
  <2>3. NodeOf(m) \in Node /\ NodeOf(m).task = m.task
    BY <2>2, Pieces DEF NodeOf
  <2>4. Carried(p)' = {}
    BY <2>1 DEF Carried
  <2> HIDE DEF m
  <2>5. Kept(p)' = Kept(p) \cup ({m.task} \ {NoTask})
    BY <1>0, <2>1, <2>2, <2>3, Pieces, InsertPuts DEF Kept
  <2> QED BY <1>0, <2>1, <2>2, <2>4, <2>5, OthersKeep DEF Nowhere
<1>8. CASE Recv(p)
  <2> DEFINE k == Head(mq.msgs).task
  <2>1. /\ mq.msgs # <<>> /\ mq'.msgs = Tail(mq.msgs) /\ hist' = hist
        /\ loc'[p].msg = Head(mq.msgs) /\ loc'[p].list = loc[p].list
        /\ Others(p) /\ pc'[p] = "got"
    BY <1>8, RecvEffects
  <2>2. /\ TasksOf(mq'.msgs) \subseteq TasksOf(mq.msgs)
        /\ {k} \ {NoTask} \subseteq TasksOf(mq.msgs)
    BY <2>1, HeadPlaced
  <2>3. Carried(p)' = {k} \ {NoTask} /\ Kept(p)' = Kept(p)
    BY <2>1 DEF Carried, Hand, Kept
  <2> HIDE DEF k
  <2> QED BY <1>0, <2>1, <2>2, <2>3, OthersKeep DEF Nowhere
<1>7. CASE CronRun(p)
  <2> DEFINE k == Head(loc[p].list).task
  <2>1. /\ loc[p].list # <<>> /\ mq' = mq /\ loc' = loc /\ Others(p)
        /\ hist'.runs = [hist.runs EXCEPT ![k] = @ + 1] /\ hist'.posted = hist.posted
        /\ pc[p] = "cron" /\ pc'[p] = "cronExec"
    BY <1>7, CronRunEffects
  <2>2. Carried(p)' = {} /\ Kept(p)' = Kept(p)
    BY <2>1 DEF Carried, Kept
  <2>3. k \in Kept(p)
    <3>1. 1 \in DOMAIN loc[p].list /\ k = loc[p].list[1].task
      BY <1>0, <2>1, TailTakes
    <3> QED BY <3>1, NodesAreTasks DEF PlaceInv
  <2> HIDE DEF k
  <2> QED BY <1>0, <2>1, <2>2, <2>3, OthersKeep DEF Nowhere
<1> QED BY <1>1, <1>2, <1>3, <1>4, <1>5, <1>6, <1>7, <1>8 DEF Moves

\* Every crontab with a task in it is a worker's, and the loop over it that looks for
\* the nodes to delete is not cut short.
VoidInv ==
  /\ \A p \in Procs : (loc[p].list # <<>> => p \in Workers) /\ pc[p] # "delEnd"
  /\ \A t \in hist.void : t \in hist.posted /\ Nowhere(t)

\* The loop is cut short only where the freed node reads NULL.
LEMMA OnlyNullEnds ==
  ASSUME TypeOK, "null" \notin FreedNext, NEW p \in Procs, pc[p] # "delEnd",
         WorkerStep(p) \/ CallStep(p) \/ Lock(p) \/ Unlock(p) \/ ScriptStep(p) \/ Fault(p)
  PROVE  pc'[p] # "delEnd"
<1>0. pc \in [Procs -> Labels] /\ caller \in [Procs -> {"idle"} \cup Callback]
  BY DEF TypeOK
<1>1. CASE WorkerStep(p)
  BY <1>0, <1>1, DataAssumption
  DEF WorkerStep, Inc, Check, Time, RecvNone, RecvNow, RecvLater, RecvDelete, RecvLost, Received, Recv,
      DeleteNode, DeleteDone, Count, Return, ListCrash, CronRun, CronEnd, CronReturn, CronLost, Stop,
      AfterFree, Goto
<1>2. CASE CallStep(p)
  BY <1>0, <1>2 DEF CallStep, Send, SendFail, Clear, RelRead, RelWrite, RelZero, Goto, Callback
<1>3. CASE Lock(p) \/ Unlock(p)
  BY <1>0, <1>3 DEF Lock, Unlock, LockLabels, UnlockLabels, AfterLock, AfterUnlock, Goto, Callback
<1>4. CASE ScriptStep(p)
  BY <1>0, <1>4
  DEF ScriptStep, Boot, Run, ClearCall, InfoCrash, Exit, Throw, PostCall, DeleteCall, Calls, Goto,
      Callback
<1>5. CASE Fault(p)
  BY <1>0, <1>5
  DEF Fault, Sigint, SigintInLock, SigintInSend, Kill, LockLabels, AfterLock, Goto, Callback
<1> QED BY <1>1, <1>2, <1>3, <1>4, <1>5

\* When the worker has carried out a delete, no task it names is left in its crontab.
LEMMA DeleteClears ==
  ASSUME OneWorker, TypeInv, RoleInv, PlaceInv, BookInv, VoidInv,
         NEW p \in Procs, DeleteDone(p), NEW t \in hist'.void \ hist.void
  PROVE  t \in hist.posted /\ Nowhere(t)
<1>0. /\ pc[p] = "del" /\ Hits(p) = {} /\ t \in hist.accepted \ InQueue
      /\ hist.runs[t] = 0 /\ IsPrefix(loc[p].msg.uuid, UuidOf[t])
  BY DEF DeleteDone, VoidInv, TypeInv, TypeOK, History
<1>1. p \in Workers
  BY <1>0 DEF RoleInv, InLoop, LoopLabels
<1>2. t \in hist.posted /\ \A q \in Procs : t \notin Carried(q)
  <2> SUFFICES ASSUME NEW q \in Procs PROVE t \in hist.posted /\ t \notin Carried(q)
    BY <1>1, RolesAssumption
  <2>1. pc[q] # "got"
    BY <1>0, <1>1 DEF RoleInv, InLoop, LoopLabels, OneWorker
  <2> QED BY <1>0, <2>1 DEF BookInv, Booked
<1>3. t \notin TasksOf(mq.msgs)
  BY <1>0 DEF InQueue, TasksOf, ToSet
<1>4. t \notin Kept(p)
  <2> SUFFICES ASSUME NEW i \in DOMAIN loc[p].list, loc[p].list[i].task = t PROVE FALSE
    BY DEF Kept, TasksOf, ToSet
  <2>1. Marked(loc[p].list[i])
    BY DEF PlaceInv, AsPosted, ToSet
  <2>2. Matches(loc[p].list[i], loc[p].msg.uuid)
    BY <1>0, <2>1 DEF Marked, Matches
  <2> QED BY <1>0, <2>2 DEF Hits
<1>5. \A q \in Procs : q # p => t \notin Kept(q)
  <2> SUFFICES ASSUME NEW q \in Procs, q # p PROVE t \notin Kept(q)
    OBVIOUS
  <2>1. loc[q].list = <<>>
    BY <1>1 DEF VoidInv, OneWorker
  <2> QED BY <2>1 DEF Kept, TasksOf, ToSet
<1> QED BY <1>0, <1>2, <1>3, <1>4, <1>5 DEF Nowhere

\* Every step of a process keeps VoidInv.
LEMMA VoidInductive ==
  ASSUME OneWorker, "null" \notin FreedNext, TypeInv, RoleInv, PlaceInv, BookInv, VoidInv,
         NEW p \in Procs,
         WorkerStep(p) \/ CallStep(p) \/ Lock(p) \/ Unlock(p) \/ ScriptStep(p) \/ Fault(p)
  PROVE  VoidInv'
<1>1. Moves(p) \/ Quiet(p)
  BY QuietSteps
<1>2. hist'.void = hist.void \/ DeleteDone(p)
  BY <1>1, PostEffects, DeleteEffects, SendEffects, RecvEffects, RecvNowEffects, RecvLaterEffects,
     CronRunEffects
  DEF Moves, Quiet
<1>3. \A t \in hist'.void : t \in hist.posted /\ Nowhere(t)
  BY <1>2, DeleteClears DEF VoidInv
<1>4. Others(p) /\ (loc'[p].list # <<>> => loc[p].list # <<>> \/ RecvLater(p))
  <2>1. CASE Quiet(p)
    <3>1. Others(p) /\ Shrinks(p)
      BY <2>1 DEF Quiet
    <3>2. \A i : i \in DOMAIN loc[p].list => loc[p].list # <<>>
      OBVIOUS
    <3> QED BY <3>1, <3>2 DEF Shrinks
  <2>2. CASE Moves(p)
    BY <2>2, PostEffects, DeleteEffects, SendEffects, RecvEffects, RecvNowEffects, RecvLaterEffects,
       CronRunEffects
    DEF Moves
  <2> QED BY <1>1, <2>1, <2>2
<1>5. RecvLater(p) => p \in Workers
  BY DEF RecvLater, Received, RoleInv, InLoop, LoopLabels
<1>6. pc'[p] # "delEnd"
  BY OnlyNullEnds DEF VoidInv, TypeInv
<1>7. \A q \in Procs : (loc'[q].list # <<>> => q \in Workers) /\ pc'[q] # "delEnd"
  BY <1>4, <1>5, <1>6 DEF VoidInv, Others
<1>8. \A t \in hist'.void : t \in hist'.posted /\ Nowhere(t)'
  BY <1>1, <1>3, NothingReturns
<1> QED BY <1>7, <1>8 DEF VoidInv

\* With one worker, a task that had left the queue when the worker carried out a
\* delete that names it never runs, unless the freed node reads NULL and cuts the
\* loop of the delete short.
THEOREM DeletedIsGone ==
  ASSUME OneWorker, "null" \notin FreedNext
  PROVE  Spec => []DeletedNeverRuns
<1>1. Init => VoidInv
  BY DEF Init, VoidInv, Unloaded
<1>2. TypeInv /\ RoleInv /\ PlaceInv /\ BookInv /\ VoidInv /\ [Next]_vars => VoidInv'
  <2>1. VoidInv /\ (UNCHANGED vars \/ Tick \/ Done) => VoidInv'
    BY DEF vars, Tick, Done, VoidInv, Nowhere, Kept, Carried, Hand
  <2> QED BY <2>1, VoidInductive DEF Next
<1>3. VoidInv => DeletedNeverRuns
  BY DEF VoidInv, Nowhere, DeletedNeverRuns
<1> QED BY <1>1, <1>2, <1>3, TypeInvariant, Roles, PlaceInvariant, BooksKept, PTL DEF Spec

--------------------------------------------------------------------------------
(* One worker and its clients implement TaskLife.  A task is "waiting"     *)
(* while it is in the queue, in the hands of the process that has just     *)
(* received it, or in the crontab of a process that lives.                 *)
(* Every step of a process either puts a task there, runs one, or takes    *)
(* some away: because a delete names it, because it cannot be read, or     *)
(* because the worker was told to stop, has an exception pending, or dies. *)

\* The tasks p has in its crontab, or has just received.
Held(p) == Kept(p) \cup IF pc[p] = "got" THEN Carried(p) ELSE {}

Pending ==
  TasksOf(mq.msgs) \cup
  {t \in Tasks : \E p \in Procs : Alive(p) /\ t \in Held(p)}

Warned == Told \/ Thrown \/ Died

\* What LifeOf says of a task that was accepted, in terms of where it is.
LifeByPlace ==
  LifeOf = [t \in Tasks |->
    IF hist.runs[t] = 1 THEN "ran"
    ELSE IF t \notin hist.accepted THEN "fresh"
    ELSE IF t \in Pending THEN "waiting" ELSE "dropped"]

\* No task is "twice", and the node of a task that is being run is that of a task
\* that has been.
LEMMA LifeRead == Spec => []LifeByPlace
<1>1. TypeInv /\ PlaceInv /\ BookInv => LifeByPlace
  <2> SUFFICES ASSUME TypeInv, PlaceInv, BookInv, NEW t \in Tasks
               PROVE  LifeOf[t] =
                        IF hist.runs[t] = 1 THEN "ran"
                        ELSE IF t \notin hist.accepted THEN "fresh"
                        ELSE IF t \in Pending THEN "waiting" ELSE "dropped"
    BY DEF LifeByPlace, LifeOf
  <2>1. hist.runs[t] \in Nat /\ hist.runs[t] <= 1 /\ t # NoTask
    BY DataAssumption DEF TypeInv, TypeOK, History, PlaceInv, Unrun
  <2>2. InQueue = TasksOf(mq.msgs) /\ (~mq.live => InQueue = {})
    BY DEF InQueue, TasksOf, ToSet, BookInv
  <2>3. ASSUME hist.runs[t] = 0
        PROVE  t \in Waiting <=> t \in Pending
    <3>1. ASSUME NEW p \in Procs, t \in Kept(p)
          PROVE  \E i \in DOMAIN loc[p].list :
                   loc[p].list[i].task = t /\ ~(pc[p] = "cronExec" /\ i = 1)
      <4>1. PICK i \in DOMAIN loc[p].list : loc[p].list[i].task = t
        BY <3>1 DEF Kept, TasksOf, ToSet
      <4>2. CASE pc[p] = "cronExec" /\ i = 1
        <5>1. loc[p].list # <<>> /\ hist.runs[Head(loc[p].list).task] = 1
          BY <4>2 DEF BookInv, Executing
        <5>2. Head(loc[p].list) = loc[p].list[1]
          BY <5>1, TailTakes DEF TypeInv, TypeOK, Locals, PlaceInv, OnePlace
        <5> QED BY <2>3, <4>1, <4>2, <5>1, <5>2
      <4> QED BY <4>1, <4>2
    <3>2. ASSUME NEW p \in Procs, NEW i \in DOMAIN loc[p].list, loc[p].list[i].task = t
          PROVE  t \in Kept(p)
      BY <2>1, <3>2 DEF Kept, TasksOf, ToSet
    <3>3. t \in (IF mq.live THEN InQueue ELSE {}) <=> t \in TasksOf(mq.msgs)
      BY <2>2
    <3>4. ASSUME NEW p \in Procs
          PROVE  t \in Kept(p) <=>
                   \E i \in DOMAIN loc[p].list :
                     loc[p].list[i].task = t /\ ~(pc[p] = "cronExec" /\ i = 1)
      BY <3>1, <3>2
    <3>5. ASSUME NEW p \in Procs
          PROVE  Received(p, "add") /\ t = loc[p].msg.task <=>
                   pc[p] = "got" /\ t \in Carried(p)
      <4>1. CASE Received(p, "add")
        <5>1. pc[p] = "got" /\ Carried(p) = {loc[p].msg.task}
          BY <4>1, HandPlaced DEF Received
        <5> QED BY <4>1, <5>1
      <4>2. CASE pc[p] = "got" /\ ~Received(p, "add")
        <5>1. loc[p].msg.task = NoTask
          BY <4>2 DEF PlaceInv, AsPosted, Hand, Wellformed, Received
        <5> QED BY <4>2, <5>1 DEF Carried, Hand
      <4> QED BY <4>1, <4>2 DEF Received
    <3>6. t \in Waiting <=>
            \/ t \in (IF mq.live THEN InQueue ELSE {})
            \/ \E p \in Procs : Received(p, "add") /\ t = loc[p].msg.task
            \/ \E p \in Procs : Alive(p) /\ \E i \in DOMAIN loc[p].list :
                 loc[p].list[i].task = t /\ ~(pc[p] = "cronExec" /\ i = 1)
      BY DEF Waiting
    <3>7. t \in Pending <=>
            \/ t \in TasksOf(mq.msgs)
            \/ \E p \in Procs : pc[p] = "got" /\ t \in Carried(p)
            \/ \E p \in Procs : Alive(p) /\ t \in Kept(p)
      BY DEF Pending, Held, Alive
    <3> QED BY <3>3, <3>4, <3>5, <3>6, <3>7
  <2>4. CASE hist.runs[t] = 1
    <3>1. ~(hist.runs[t] > 1)
      BY <2>4
    <3> QED BY <2>4, <3>1 DEF LifeOf
  <2>5. CASE hist.runs[t] = 0
    <3>1. ~(hist.runs[t] > 1) /\ hist.runs[t] # 1 /\ (t \in Waiting <=> t \in Pending)
      BY <2>3, <2>5
    <3>2. CASE t \notin hist.accepted
      BY <3>1, <3>2 DEF LifeOf
    <3>3. CASE t \in hist.accepted /\ t \in Waiting
      BY <3>1, <3>3 DEF LifeOf
    <3>4. CASE t \in hist.accepted /\ t \notin Waiting
      BY <3>1, <3>4 DEF LifeOf
    <3> QED BY <3>2, <3>3, <3>4
  <2> QED BY <2>1, <2>4, <2>5
<1> QED BY <1>1, TypeInvariant, PlaceInvariant, BooksKept, PTL

--------------------------------------------------------------------------------
(* What a step takes away.                                                 *)

\* The steps that may take a task out of its place without running it.
Takes(p) ==
  Stop(p) \/ RecvLost(p) \/ RecvDelete(p) \/ DeleteNode(p) \/ CronReturn(p) \/ CronLost(p)

\* The queue, p's crontab and the message in its hands stay as they are, and p lives on,
\* unless there is nothing in its crontab, it dies, or it leaves because it was told to.
Stays(p) ==
  /\ mq'.msgs = mq.msgs /\ loc'[p].list = loc[p].list
  /\ loc[p].list # <<>> /\ Alive(p) => Alive(p)' \/ pc'[p] = "dead" \/ Told
  /\ pc[p] \in {"got", "dead"} => pc'[p] \in {pc[p], "dead"} /\ loc'[p].msg = loc[p].msg
  /\ loc[p].list # <<>> /\ Alive(p)' => Alive(p)
  /\ \A q \in Procs : loc[q].thrown => loc'[q].thrown

\* All other steps leave every task where it is.
LEMMA StepStays ==
  ASSUME TypeInv, RoleInv, BookInv, LeaveInv, NEW p \in Procs,
         WorkerStep(p) \/ CallStep(p) \/ Lock(p) \/ Unlock(p) \/ ScriptStep(p) \/ Fault(p),
         ~Moves(p), ~Takes(p)
  PROVE  Stays(p)
<1>0. /\ pc \in [Procs -> Labels] /\ loc \in [Procs -> Locals]
      /\ caller \in [Procs -> {"idle"} \cup Callback]
      /\ mq \in [id : Nat, live : BOOLEAN, may : SUBSET Procs, msgs : Seq(Message)]
      /\ ~mq.live => mq.msgs = <<>>
      /\ LeftBehind(p)
  BY DEF TypeInv, TypeOK, RoleInv, BookInv, LeaveInv
<1> USE DEF Stays, LeftBehind, InLoop, LoopLabels, Releasing, Calling, Callback, Alive
<1>1. CASE Boot(p)
  BY <1>0, <1>1 DEF Boot, Goto, Locals, History, shm
<1>2. CASE Run(p)
  BY <1>0, <1>2 DEF Run, Goto, Locals, History, shm
<1>3. CASE Inc(p)
  BY <1>0, <1>3 DEF Inc, Raised, Goto, Locals, History, shm
<1>4. CASE Check(p)
  BY <1>0, <1>4 DEF Check, KeepsGoing, Goto, Locals, History, shm
<1>5. CASE Time(p)
  BY <1>0, <1>5 DEF Time, Goto, Locals, History, shm
<1>6. CASE RecvNone(p)
  BY <1>0, <1>6 DEF RecvNone, Goto, Locals, History, shm
<1>7. CASE DeleteDone(p)
  BY <1>0, <1>7 DEF DeleteDone, Goto, Locals, History, shm
<1>8. CASE Count(p)
  BY <1>0, <1>8 DEF Count, Goto, Locals, History, shm
<1>9. CASE Return(p)
  BY <1>0, <1>9 DEF Return, Goto, Locals, History, shm
<1>10. CASE ListCrash(p)
  BY <1>0, <1>10 DEF ListCrash, Received, Goto, Locals, History, shm
<1>11. CASE CronEnd(p)
  BY <1>0, <1>11 DEF CronEnd, Goto, Locals, History, shm
<1>12. CASE SendFail(p)
  BY <1>0, <1>12 DEF SendFail, Goto, Locals, History, shm
<1>13. CASE Clear(p)
  BY <1>0, <1>13 DEF Clear, Goto, Locals, History, shm
<1>14. CASE RelRead(p)
  BY <1>0, <1>14 DEF RelRead, Goto, Locals, History, shm
<1>15. CASE RelWrite(p)
  BY <1>0, <1>15 DEF RelWrite, Goto, Locals, History, shm
<1>16. CASE RelZero(p)
  BY <1>0, <1>16 DEF RelZero, LastOut, Goto, Locals, History, shm
<1>17. CASE Lock(p)
  BY <1>0, <1>17 DEF Lock, LockLabels, AfterLock, Goto, Locals, History, shm
<1>18. CASE Unlock(p)
  BY <1>0, <1>18 DEF Unlock, UnlockLabels, AfterUnlock, Goto, Locals, History, shm
<1>19. CASE ClearCall(p)
  BY <1>0, <1>19 DEF ClearCall, Calls, Goto, Locals, History, shm
<1>20. CASE InfoCrash(p)
  BY <1>0, <1>20 DEF InfoCrash, Goto, Locals, History, shm
<1>21. CASE Exit(p)
  BY <1>0, <1>21 DEF Exit, Goto, Locals, History, shm
<1>22. CASE Throw(p)
  BY <1>0, <1>22 DEF Throw, Goto, Locals, History, shm
<1>23. CASE Sigint(p)
  BY <1>0, <1>23 DEF Sigint, Halt, Goto, Locals, History, shm
<1>24. CASE SigintInLock(p)
  BY <1>0, <1>24 DEF SigintInLock, Halt, LockLabels, AfterLock, Goto, Locals, History, shm
<1>25. CASE SigintInSend(p)
  BY <1>0, <1>25 DEF SigintInSend, Halt, Goto, Locals, History, shm
<1>26. CASE Kill(p)
  BY <1>0, <1>26 DEF Kill, Goto, Locals, History, shm
<1> QED
  BY <1>1, <1>2, <1>3, <1>4, <1>5, <1>6, <1>7, <1>8, <1>9, <1>10, <1>11, <1>12, <1>13,
     <1>14, <1>15, <1>16, <1>17, <1>18, <1>19, <1>20, <1>21, <1>22, <1>23, <1>24,
     <1>25, <1>26
  DEF WorkerStep, CallStep, ScriptStep, Fault, Moves, Takes

--------------------------------------------------------------------------------
(* Steps of the promise.                                                   *)

LifeStep == Life!LifeNext \/ UNCHANGED Life!lifeVars

\* A step that posts and runs nothing makes waiting tasks dropped: none of them, or
\* one that may be dropped alone, or any number after a warning or with it.
LEMMA Fading ==
  ASSUME LifeByPlace, LifeByPlace', SameHistory, now' = now, Warned => Warned',
         \A t \in Tasks : t \in Pending' => t \in Pending,
         \/ \A t \in Tasks : t \in Pending /\ hist.runs[t] # 1 => t \in Pending'
         \/ Warned'
         \/ /\ Warned' = Warned
            /\ \E k \in Tasks : /\ Life!Named(k) \/ k \in Garbled
                               /\ \A t \in Tasks \ {k} : t \in Pending => t \in Pending'
  PROVE  LifeStep
<1> DEFINE Lost == {t \in Tasks : LifeOf[t] = "waiting" /\ t \notin Pending'}
<1>1. /\ DOMAIN LifeOf = Tasks
      /\ LifeOf' = [t \in Tasks |-> IF t \in Lost THEN "dropped" ELSE LifeOf[t]]
  <2>1. \A t \in Tasks : LifeOf[t] =
          IF hist.runs[t] = 1 THEN "ran"
          ELSE IF t \notin hist.accepted THEN "fresh"
          ELSE IF t \in Pending THEN "waiting" ELSE "dropped"
    BY DEF LifeByPlace
  <2>2. hist'.runs = hist.runs /\ hist'.accepted = hist.accepted
    BY DEF SameHistory
  <2>3. LifeOf' = [t \in Tasks |->
          IF hist.runs[t] = 1 THEN "ran"
          ELSE IF t \notin hist.accepted THEN "fresh"
          ELSE IF t \in Pending' THEN "waiting" ELSE "dropped"]
    BY <2>2 DEF LifeByPlace
  <2>4. ASSUME NEW t \in Tasks
        PROVE  (IF t \in Lost THEN "dropped" ELSE LifeOf[t]) =
                 IF hist.runs[t] = 1 THEN "ran"
                 ELSE IF t \notin hist.accepted THEN "fresh"
                 ELSE IF t \in Pending' THEN "waiting" ELSE "dropped"
    BY <2>1
  <2>5. DOMAIN LifeOf = Tasks
    BY DEF LifeOf
  <2> QED BY <2>3, <2>4, <2>5
<1>2. DueOf' = DueOf /\ hist'.asked = hist.asked /\ now' = now
  BY DEF DueOf, SameHistory
<1>3. \A t \in Tasks : t \in Lost => t \in Pending /\ hist.runs[t] # 1 /\ t \notin Pending'
  BY DEF LifeByPlace
<1>4. LifeOf = [t \in Tasks |-> LifeOf[t]]
  BY DEF LifeOf
<1> HIDE DEF Lost
<1>5. ASSUME \A t \in Tasks : t \notin Lost PROVE LifeStep
  <2>1. LifeOf' = LifeOf
    BY <1>1, <1>4, <1>5
  <2>2. CASE Warned' = Warned
    BY <1>2, <2>1, <2>2 DEF LifeStep, Life!lifeVars, Warned
  <2>3. CASE ~Warned /\ Warned'
    BY <1>2, <2>1, <2>3 DEF LifeStep, Life!LifeNext, Life!Tell, Warned
  <2>4. (Warned' <=> Warned) => Warned' = Warned
    BY DEF Warned
  <2> QED BY <2>2, <2>3, <2>4
<1>6. ASSUME Warned' PROVE LifeStep
  <2>1. Lost \in SUBSET {t \in Tasks : LifeOf[t] = "waiting"}
    BY DEF Lost
  <2>2. Life!Lose
    BY <1>1, <2>1 DEF Life!Lose
  <2>3. CASE Warned
    <3>1. Warned' = Warned
      BY <1>6, <2>3 DEF Warned
    <3>2. Life!Discard
      BY <1>2, <2>2, <2>3, <3>1 DEF Life!Discard, Warned
    <3> QED BY <3>2 DEF LifeStep, Life!LifeNext
  <2>4. CASE ~Warned
    <3>1. Warned' = TRUE
      BY <1>6 DEF Warned
    <3>2. Life!Die
      BY <1>2, <2>2, <3>1 DEF Life!Die, Warned
    <3> QED BY <3>2 DEF LifeStep, Life!LifeNext
  <2> QED BY <2>3, <2>4
<1>7. ASSUME Warned' = Warned, NEW k \in Tasks, Life!Named(k) \/ k \in Garbled,
             \A t \in Tasks \ {k} : t \in Pending => t \in Pending'
      PROVE  LifeStep
  <2>1. \A t \in Tasks : t \in Lost => t = k
    BY <1>3, <1>7
  <2>2. CASE k \notin Lost
    BY <1>5, <2>1, <2>2
  <2>3. CASE k \in Lost
    <3>1. LifeOf' = [LifeOf EXCEPT ![k] = "dropped"]
      BY <1>1, <1>4, <2>1, <2>3
    <3>2. LifeOf[k] = "waiting"
      BY <2>3 DEF Lost
    <3>3. Life!Drop(k)
      BY <1>2, <1>7, <3>1, <3>2 DEF Life!Drop, Warned
    <3> QED BY <3>3 DEF LifeStep, Life!LifeNext
  <2> QED BY <2>2, <2>3
<1> QED BY <1>3, <1>5, <1>6, <1>7

\* Who died with tasks stays dead, and others do not die by p's step.
LEMMA DiedSame ==
  ASSUME NEW p \in Procs, Others(p)
  PROVE  /\ hist'.runs = hist.runs
            /\ (pc[p] = "dead" => /\ pc'[p] = "dead" /\ loc'[p].list = loc[p].list
                                  /\ loc'[p].msg = loc[p].msg)
            => (Died => Died')
         /\ Alive(p) /\ Alive(p)' /\ hist'.runs = hist.runs => (Died' <=> Died)
         /\ OneWorker /\ RoleInv /\ loc[p].mine /\ Alive(p) /\ Alive(p)' => (Died' <=> Died)
<1>1. \A q \in Procs \ {p} : hist'.runs = hist.runs => (Owes(q)' <=> Owes(q))
  BY DEF Others, Owes
<1>2. ASSUME OneWorker, RoleInv, loc[p].mine, NEW q \in Procs \ {p}
      PROVE  ~Owes(q) /\ ~Owes(q)'
  <2>1. loc[q].msg = NoMessage /\ loc'[q].msg = NoMessage
    BY <1>2 DEF OneWorker, RoleInv, Others
  <2> QED BY <2>1 DEF Owes, NoMessage
<1>3. hist'.runs = hist.runs /\ loc'[p].msg = loc[p].msg => (Owes(p)' <=> Owes(p))
  BY DEF Owes
<1> QED BY <1>1, <1>2, <1>3, Zenon DEF Died, Others, Alive

\* The steps that put, run or take away a task warn nobody, unless p dies of them.
LEMMA WarnedSame ==
  ASSUME TypeInv, NEW p \in Procs, Moves(p) \/ (Takes(p) /\ ~Stop(p))
  PROVE  (Told' <=> Told) /\ (Thrown' <=> Thrown) /\ Alive(p)
<1> DEFINE Same == /\ hist'.clears = hist.clears /\ Alive(p)
                   /\ \A q \in Procs : loc'[q].go = loc[q].go /\ loc'[q].thrown = loc[q].thrown
<1>0. loc \in [Procs -> Locals] /\ hist \in History
  BY DEF TypeInv, TypeOK
<1>a. Same => (Told' <=> Told) /\ (Thrown' <=> Thrown) /\ Alive(p)
  BY DEF Told, Thrown
<1>1. ASSUME NEW t \in Tasks, PostCall(p, t) PROVE Same
  BY <1>0, <1>1 DEF PostCall, Calls, Locals, History, Alive, Callback
<1>2. ASSUME NEW u \in Uuids, DeleteCall(p, u) PROVE Same
  BY <1>0, <1>2 DEF DeleteCall, Calls, Locals, History, Alive, Callback
<1>3. ASSUME Send(p) PROVE Same
  BY <1>0, <1>3 DEF Send, Locals, History, Alive
<1>12. ASSUME Recv(p) PROVE Same
  BY <1>0, <1>12 DEF Recv, Locals, History, Alive
<1>4. ASSUME RecvNow(p) PROVE Same
  BY <1>0, <1>4 DEF RecvNow, Received, Execute, Locals, History, Alive
<1>5. ASSUME RecvLater(p) PROVE Same
  BY <1>0, <1>5 DEF RecvLater, Received, Locals, History, Alive
<1>6. ASSUME CronRun(p) PROVE Same
  BY <1>0, <1>6 DEF CronRun, Execute, Locals, History, Alive
<1>7. ASSUME RecvLost(p) PROVE Same
  BY <1>0, <1>7 DEF RecvLost, Received, Locals, History, Alive
<1>8. ASSUME RecvDelete(p) PROVE Same
  BY <1>0, <1>8 DEF RecvDelete, Received, Locals, History, Alive
<1>9. ASSUME DeleteNode(p) PROVE Same
  BY <1>0, <1>9 DEF DeleteNode, AfterFree, Locals, History, Alive
<1>10. ASSUME CronReturn(p) PROVE Same
  BY <1>0, <1>10 DEF CronReturn, Locals, History, Alive
<1>11. ASSUME CronLost(p) PROVE Same
  BY <1>0, <1>11 DEF CronLost, Locals, History, Alive
<1> HIDE DEF Same
<1> QED
  BY <1>a, <1>1, <1>2, <1>3, <1>4, <1>5, <1>6, <1>7, <1>8, <1>9, <1>10, <1>11, <1>12
  DEF Moves, Takes

\* A step that moves a task, and that p survives, is no warning.
LEMMA MovesWarnNobody ==
  ASSUME OneWorker, TypeInv, RoleInv, NEW p \in Procs, Moves(p), Others(p), Alive(p)'
  PROVE  Warned' = Warned
<1>1. (Told' <=> Told) /\ (Thrown' <=> Thrown) /\ Alive(p)
  BY WarnedSame
<1>2. hist'.runs = hist.runs \/ loc[p].mine
  <2>1. RecvNow(p) \/ CronRun(p) => loc[p].mine
    BY DEF RecvNow, Received, CronRun, RoleInv, InLoop, LoopLabels
  <2> QED
    BY <2>1, PostEffects, DeleteEffects, SendEffects, RecvEffects, RecvLaterEffects
    DEF Moves, SameHistory
<1>3. Died' <=> Died
  BY <1>1, <1>2, DiedSame
<1>4. (Warned' <=> Warned) => Warned' = Warned
  BY DEF Warned
<1> QED BY <1>1, <1>3, <1>4 DEF Warned

\* A warning stays: the exception that Stop lets go of is that of a worker that has
\* been told to stop.
LEMMA StopIsTold ==
  ASSUME OneWorker, TypeInv, RoleInv, ToldInv, NEW p \in Procs, Stop(p)
  PROVE  Told
<1>1. pc[p] = "stop" /\ loc[p].mine /\ p \in Workers
  BY DEF Stop, RoleInv
<1>2. loc[p].go => hist.clears # 0
  BY <1>1 DEF ToldInv, InLoop, LoopLabels, Leaving, Calling, Callback
<1> QED BY <1>1, <1>2 DEF Told, TypeInv, TypeOK, History

\* What stays where it was, when one task may have left p's places, and p lives or has
\* none left.
LEMMA PlacesLeft ==
  ASSUME NEW p \in Procs, Others(p), Alive(p), Alive(p)' \/ loc'[p].list = <<>>, NEW k,
         TasksOf(mq.msgs) \ {k} \subseteq TasksOf(mq'.msgs), Held(p) \ {k} \subseteq Held(p)',
         NEW t \in Tasks \ {k}, t \in Pending
  PROVE  t \in Pending'
<1>1. ASSUME t \in TasksOf(mq.msgs) PROVE t \in Pending'
  BY <1>1 DEF Pending
<1>2. ASSUME NEW q \in Procs, Alive(q), t \in Held(q) PROVE Alive(q)' /\ t \in Held(q)'
  <2>1. CASE q = p
    <3>1. t \in Held(p)'
      BY <1>2, <2>1
    <3>2. loc'[p].list = <<>> => Kept(p)' = {}
      BY DEF Kept, TasksOf, ToSet
    <3>3. pc'[p] = "got" => Alive(p)'
      BY DEF Alive
    <3> QED BY <2>1, <3>1, <3>2, <3>3 DEF Held
  <2>2. CASE q # p
    BY <1>2, <2>2, OthersKeep DEF Alive, Held
  <2> QED BY <2>1, <2>2
<1> QED BY <1>1, <1>2 DEF Pending

\* A quiet step puts no task in a place.
LEMMA PendingShrinks ==
  ASSUME TypeInv, PlaceInv, NEW p \in Procs, Quiet(p), Stays(p) \/ Takes(p),
         NEW t \in Tasks, t \in Pending'
  PROVE  t \in Pending
<1>1. /\ TasksOf(mq'.msgs) \subseteq TasksOf(mq.msgs)
      /\ \A q \in Procs : Kept(q)' \subseteq Kept(q) /\ Held(q)' \subseteq Held(q)
      /\ Others(p) /\ (pc'[p] = "got" => pc[p] = "got")
  <2>1. /\ TasksOf(mq'.msgs) \subseteq TasksOf(mq.msgs)
        /\ \A q \in Procs : Kept(q)' \subseteq Kept(q) /\ Carried(q)' \subseteq Carried(q)
        /\ Others(p) /\ (pc'[p] = "got" => pc[p] = "got")
    BY QuietPlaces DEF PlaceInv, Quiet
  <2>2. \A q \in Procs : pc'[q] = "got" => pc[q] = "got"
    BY <2>1 DEF Others
  <2> QED BY <2>1, <2>2 DEF Held
<1>2. ASSUME t \in TasksOf(mq'.msgs) PROVE t \in Pending
  BY <1>1, <1>2 DEF Pending
<1>3. ASSUME NEW q \in Procs, Alive(q)', t \in Held(q)' PROVE Alive(q)
  <2>1. CASE q # p
    BY <1>1, <1>3, <2>1 DEF Others, Alive
  <2>2. CASE q = p /\ Takes(p)
    BY <2>2
    DEF Takes, Stop, RecvLost, RecvDelete, Received, DeleteNode, CronReturn, CronLost, Alive
  <2>3. CASE q = p /\ Stays(p)
    <3>1. CASE pc'[p] = "got"
      BY <1>1, <2>3, <3>1 DEF Alive
    <3>2. CASE pc'[p] # "got"
      <4>1. loc[p].list # <<>>
        BY <1>1, <1>3, <2>3, <3>2 DEF Held, Kept, TasksOf, ToSet
      <4> QED BY <1>3, <2>3, <4>1 DEF Stays
    <3> QED BY <3>1, <3>2
  <2> QED BY <2>1, <2>2, <2>3
<1> QED BY <1>1, <1>2, <1>3 DEF Pending

--------------------------------------------------------------------------------
(* Steps that take tasks away.                                             *)

\* What the steps below start from.
SoloInv ==
  /\ OneWorker
  /\ TypeInv /\ RoleInv /\ ToldInv /\ PlaceInv /\ BookInv /\ LeaveInv
  /\ LifeByPlace

\* A delete drops the tasks it names, one at a time.
LEMMA DeleteDrops ==
  ASSUME SoloInv, NEW p \in Procs, Quiet(p), DeleteNode(p), ~Died'
  PROVE  \E k \in Tasks : /\ Life!Named(k)
                         /\ \A t \in Tasks \ {k} : t \in Pending => t \in Pending'
<1>0. /\ pc \in [Procs -> Labels] /\ loc \in [Procs -> Locals]
      /\ loc[p].list \in Seq(Node) /\ Once(loc[p].list)
  BY DEF SoloInv, TypeInv, TypeOK, Locals, PlaceInv, OnePlace
<1>1. PICK i \in Hits(p) : loc' = [loc EXCEPT ![p].list = RemoveAt(@, i)]
  BY DEF DeleteNode
<1>2. /\ i \in DOMAIN loc[p].list /\ Matches(loc[p].list[i], loc[p].msg.uuid)
      /\ loc'[p].list = RemoveAt(loc[p].list, i)
      /\ mq' = mq /\ pc[p] = "del" /\ pc'[p] \in {"del", "delEnd", "dead"}
  BY <1>0, <1>1, DataAssumption DEF Hits, DeleteNode, AfterFree, Goto, Locals
<1> DEFINE k == loc[p].list[i].task
<1>3. k \in Tasks /\ loc[p].list[i].uuid = UuidOf[k] /\ loc[p].msg.uuid \in hist.asked
  <2>1. Marked(loc[p].list[i]) /\ loc[p].list[i] \in ToSet(loc[p].list)
    BY <1>2 DEF SoloInv, PlaceInv, AsPosted, ToSet
  <2> QED
    BY <1>2, <2>1, NodesAreTasks DEF SoloInv, PlaceInv, Marked, BookInv, Deleting
<1>4. Life!Named(k)
  <2>1. IsPrefix(loc[p].msg.uuid, UuidOf[k])
    BY <1>2, <1>3 DEF Matches
  <2>2. Life!IsPrefix(loc[p].msg.uuid, UuidOf[k])
    BY <2>1 DEF IsPrefix, Life!IsPrefix
  <2> QED BY <1>3, <2>2 DEF Life!Named
<1>5. Held(p)' = Held(p) \ {k}
  BY <1>0, <1>2, RemoveTakes DEF Kept, Held
<1>6. Others(p) /\ Alive(p) /\ (Alive(p)' \/ loc'[p].list = <<>>)
  BY <1>2 DEF Quiet, Alive, Died
<1> HIDE DEF k
<1> QED BY <1>2, <1>3, <1>4, <1>5, <1>6, PlacesLeft

\* A message that is received and not run cannot be read, or there is an exception.
LEMMA RecvDrops ==
  ASSUME SoloInv, NEW p \in Procs, Quiet(p), RecvLost(p), ~Warned
  PROVE  \E k \in Tasks : /\ k \in Garbled
                         /\ \A t \in Tasks \ {k} : t \in Pending => t \in Pending'
<1>0. /\ pc \in [Procs -> Labels] /\ loc \in [Procs -> Locals]
  BY DEF SoloInv, TypeInv, TypeOK
<1> DEFINE k == loc[p].msg.task
<1>1. /\ loc[p].msg.op = "add" /\ mq' = mq /\ loc' = loc
      /\ pc[p] = "got" /\ pc'[p] = "count" /\ k \in Garbled
  BY <1>0 DEF RecvLost, Received, Starts, Goto, Warned, Thrown
<1>2. k \in Tasks /\ Carried(p) = {k}
  BY <1>1, HandPlaced DEF SoloInv
<1>3. Others(p) /\ Alive(p) /\ Alive(p)' /\ Held(p) \ {k} \subseteq Held(p)'
  BY <1>1, <1>2 DEF Quiet, Alive, Kept, Held
<1> HIDE DEF k
<1> QED BY <1>1, <1>2, <1>3, PlacesLeft

\* So with the head of the crontab.
LEMMA CronDrops ==
  ASSUME SoloInv, NEW p \in Procs, Quiet(p), CronLost(p), ~Warned, ~Died'
  PROVE  \E k \in Tasks : /\ k \in Garbled
                         /\ \A t \in Tasks \ {k} : t \in Pending => t \in Pending'
<1>0. /\ pc \in [Procs -> Labels] /\ loc \in [Procs -> Locals]
      /\ loc[p].list \in Seq(Node) /\ Once(loc[p].list)
  BY DEF SoloInv, TypeInv, TypeOK, Locals, PlaceInv, OnePlace
<1> DEFINE k == Head(loc[p].list).task
<1>1. /\ loc[p].list # <<>> /\ mq' = mq /\ loc'[p].list = Tail(loc[p].list)
      /\ pc[p] = "cron" /\ pc'[p] \in {"cron", "unlock", "dead"} /\ k \in Garbled
  BY <1>0, DataAssumption
  DEF CronLost, CronDue, HeadDeleted, AfterFree, Starts, Goto, Locals, Warned, Thrown
<1>2. k \in Tasks /\ Held(p)' = Held(p) \ {k}
  BY <1>0, <1>1, TailTakes, DataAssumption DEF Kept, Held
<1>3. Others(p) /\ Alive(p) /\ (Alive(p)' \/ loc'[p].list = <<>>)
  BY <1>1 DEF Quiet, Alive, Died
<1> HIDE DEF k
<1> QED BY <1>1, <1>2, <1>3, PlacesLeft

\* A node that is deleted after its task has run is the only one that goes.
LEMMA RanGoes ==
  ASSUME SoloInv, NEW p \in Procs, Quiet(p), CronReturn(p), ~Died',
         NEW t \in Tasks, t \in Pending, hist.runs[t] # 1
  PROVE  t \in Pending'
<1>0. /\ pc \in [Procs -> Labels] /\ loc \in [Procs -> Locals]
      /\ loc[p].list \in Seq(Node) /\ Once(loc[p].list)
  BY DEF SoloInv, TypeInv, TypeOK, Locals, PlaceInv, OnePlace
<1> DEFINE k == Head(loc[p].list).task
<1>1. /\ mq' = mq /\ loc'[p].list = Tail(loc[p].list)
      /\ pc[p] = "cronExec" /\ pc'[p] \in {"cron", "unlock", "dead"}
  BY <1>0, DataAssumption DEF CronReturn, HeadDeleted, AfterFree, Goto, Locals
<1>2. loc[p].list # <<>> /\ hist.runs[k] = 1
  BY <1>1 DEF SoloInv, BookInv, Executing
<1>3. Held(p)' = Held(p) \ {k} /\ t # k
  BY <1>0, <1>1, <1>2, TailTakes DEF Kept, Held
<1>4. Others(p) /\ Alive(p) /\ (Alive(p)' \/ loc'[p].list = <<>>)
  BY <1>1 DEF Quiet, Alive, Died
<1> HIDE DEF k
<1> QED BY <1>1, <1>3, <1>4, PlacesLeft

\* The message of a delete holds no task.
LEMMA DeleteHoldsNone ==
  ASSUME SoloInv, NEW p \in Procs, Quiet(p), RecvDelete(p), NEW t \in Tasks, t \in Pending
  PROVE  t \in Pending'
<1>1. /\ loc[p].msg.op = "delete" /\ mq' = mq /\ loc' = loc
      /\ pc[p] = "got" /\ pc'[p] = "del"
  BY DEF RecvDelete, Received, Goto, SoloInv, TypeInv, TypeOK
<1>2. Carried(p) = {}
  BY <1>1 DEF SoloInv, PlaceInv, AsPosted, Hand, Wellformed, Carried
<1>3. Others(p) /\ Alive(p) /\ Alive(p)' /\ Held(p)' = Held(p)
  BY <1>1, <1>2 DEF Quiet, Alive, Kept, Held
<1>4. t \in Tasks \ {NoTask}
  BY DataAssumption
<1> QED BY <1>1, <1>3, <1>4, PlacesLeft

\* A process that dies with nothing in its crontab, and warns nobody, takes no message
\* with it but one that cannot be read, or a delete.
LEMMA DeathDrops ==
  ASSUME SoloInv, NEW p \in Procs, Quiet(p), Stays(p), ~Died', pc[p] = "got", pc'[p] = "dead"
  PROVE  \/ \A t \in Tasks : t \in Pending => t \in Pending'
         \/ \E k \in Tasks : /\ k \in Garbled
                            /\ \A t \in Tasks \ {k} : t \in Pending => t \in Pending'
<1>1. /\ loc'[p].list = <<>> /\ loc[p].list = <<>> /\ ~Owes(p)' /\ loc'[p].msg = loc[p].msg
      /\ Others(p) /\ Alive(p) /\ TasksOf(mq'.msgs) = TasksOf(mq.msgs)
      /\ hist'.runs = hist.runs
  BY DEF Stays, Quiet, SameHistory, Died, Alive
<1>2. Held(p) = Carried(p)
  BY <1>1 DEF Held, Kept, TasksOf, ToSet
<1>3. CASE loc[p].msg.op = "add"
  <2> DEFINE k == loc[p].msg.task
  <2>1. k \in Tasks /\ Carried(p) = {k} /\ hist.runs[k] = 0
    BY <1>3, HandPlaced DEF SoloInv
  <2>2. k \in Garbled
    BY <1>1, <1>3, <2>1 DEF Owes
  <2> HIDE DEF k
  <2>3. Held(p) \ {k} \subseteq Held(p)'
    BY <1>2, <2>1
  <2>4. \A t \in Tasks \ {k} : t \in Pending => t \in Pending'
    BY <1>1, <2>3, PlacesLeft
  <2> QED BY <2>1, <2>2, <2>4
<1>4. CASE loc[p].msg.op # "add"
  <2>1. Carried(p) = {}
    BY <1>4 DEF SoloInv, PlaceInv, AsPosted, Hand, Wellformed, Carried
  <2>2. ASSUME NEW t \in Tasks, t \in Pending PROVE t \in Pending'
    <3>1. t \in Tasks \ {NoTask}
      BY DataAssumption
    <3>2. /\ TasksOf(mq.msgs) \ {NoTask} \subseteq TasksOf(mq'.msgs)
          /\ Held(p) \ {NoTask} \subseteq Held(p)'
      BY <1>1, <1>2, <2>1
    <3> QED BY <1>1, <2>2, <3>1, <3>2, PlacesLeft
  <2> QED BY <2>2
<1> QED BY <1>3, <1>4

\* Every step that moves no task is a step of the promise.
LEMMA QuietRefines ==
  ASSUME SoloInv, LifeByPlace', NEW p \in Procs,
         WorkerStep(p) \/ CallStep(p) \/ Lock(p) \/ Unlock(p) \/ ScriptStep(p) \/ Fault(p),
         ~Moves(p)
  PROVE  LifeStep
<1>1. Quiet(p)
  BY QuietSteps DEF SoloInv
<1>2. Stays(p) \/ Takes(p)
  BY StepStays DEF SoloInv
<1>3. \A t \in Tasks : t \in Pending' => t \in Pending
  BY <1>1, <1>2, PendingShrinks DEF SoloInv
<1>4. SameHistory /\ now' = now
  BY <1>1 DEF Quiet
<1>5. Stop(p) => Told
  BY StopIsTold DEF SoloInv
<1>6. Warned => Warned'
  <2>1. Told => Told'
    BY ToldStays DEF SoloInv, TypeInv
  <2>2. Stays(p) /\ Thrown => Thrown'
    BY DEF Stays, Thrown
  <2>3. Takes(p) /\ ~Stop(p) /\ Thrown => Thrown'
    BY WarnedSame DEF SoloInv
  <2>4. pc[p] = "dead" => /\ pc'[p] = "dead" /\ loc'[p].list = loc[p].list
                          /\ loc'[p].msg = loc[p].msg
    <3>1. Takes(p) => pc[p] # "dead"
      BY DEF Takes, Stop, RecvLost, RecvDelete, Received, DeleteNode, CronReturn, CronLost
    <3> QED BY <1>2, <3>1 DEF Stays
  <2>5. Died => Died'
    BY <1>1, <2>4, DiedSame DEF Quiet, SameHistory
  <2> QED BY <1>2, <1>5, <2>1, <2>2, <2>3, <2>5 DEF Warned
<1>7. CASE Warned'
  BY <1>3, <1>4, <1>6, <1>7, Fading DEF SoloInv
<1>8. CASE ~Warned' /\ Stays(p)
  <2>0. ~Told /\ ~Died' /\ Warned' = Warned
    <3>1. ~Warned /\ ~Warned' => Warned' = Warned
      BY DEF Warned
    <3> QED BY <1>6, <1>8, <3>1 DEF Warned
  <2>1. CASE pc[p] = "got" /\ pc'[p] = "dead"
    <3>1. \/ \A t \in Tasks : t \in Pending => t \in Pending'
          \/ \E k \in Tasks : /\ k \in Garbled
                             /\ \A t \in Tasks \ {k} : t \in Pending => t \in Pending'
      BY <1>1, <1>8, <2>0, <2>1, DeathDrops
    <3> QED BY <1>3, <1>4, <1>6, <2>0, <3>1, Fading DEF SoloInv
  <2>2. CASE ~(pc[p] = "got" /\ pc'[p] = "dead")
    <3>1. /\ Others(p) /\ Held(p)' = Held(p) /\ TasksOf(mq'.msgs) = TasksOf(mq.msgs)
          /\ pc[p] = "got" => Alive(p)'
      <4>1. Others(p) /\ Kept(p)' = Kept(p) /\ TasksOf(mq'.msgs) = TasksOf(mq.msgs)
        BY <1>1, <1>8 DEF Quiet, Stays, Kept
      <4>2. pc'[p] = "got" <=> pc[p] = "got"
        BY <1>1, <1>8, <2>2 DEF Quiet, Stays
      <4>3. pc[p] = "got" => Carried(p)' = Carried(p)
        BY <1>8, <4>2 DEF Stays, Carried, Hand
      <4> QED BY <4>1, <4>2, <4>3 DEF Held, Alive
    <3>2. ASSUME NEW t \in Tasks, t \in Pending PROVE t \in Pending'
      <4>1. CASE Alive(p) /\ Alive(p)'
        BY <3>1, <3>2, <4>1, PlacesLeft, DataAssumption
      <4>2. CASE ~(Alive(p) /\ Alive(p)')
        <5>1. Alive(p) => loc[p].list = <<>> /\ pc[p] # "got"
          BY <1>8, <2>0, <3>1, <4>2 DEF Stays, Died
        <5>2. Alive(p) => t \notin Held(p)
          BY <5>1 DEF Held, Kept, TasksOf, ToSet
        <5> QED BY <3>1, <3>2, <5>2, OthersKeep DEF Pending, Held, Alive
      <4> QED BY <4>1, <4>2
    <3> QED BY <1>3, <1>4, <1>6, <3>2, Fading DEF SoloInv
  <2> QED BY <2>1, <2>2
<1>9. CASE ~Warned' /\ Takes(p)
  <2>1. ~Stop(p) /\ ~Warned /\ Warned' = Warned /\ ~Died'
    <3>1. ~Warned
      BY <1>6, <1>9
    <3>2. ~Warned /\ ~Warned' => Warned' = Warned
      BY DEF Warned
    <3> QED BY <1>5, <1>9, <3>1, <3>2 DEF Warned
  <2>2. ASSUME \A t \in Tasks : t \in Pending /\ hist.runs[t] # 1 => t \in Pending'
        PROVE  LifeStep
    BY <1>3, <1>4, <1>6, <2>2, Fading DEF SoloInv
  <2>3. ASSUME \E k \in Tasks : /\ Life!Named(k) \/ k \in Garbled
                               /\ \A t \in Tasks \ {k} : t \in Pending => t \in Pending'
        PROVE  LifeStep
    BY <1>3, <1>4, <1>6, <2>1, <2>3, Fading DEF SoloInv
  <2>4. CASE RecvLost(p)
    BY <1>1, <2>1, <2>3, <2>4, RecvDrops
  <2>5. CASE CronLost(p)
    BY <1>1, <2>1, <2>3, <2>5, CronDrops
  <2>6. CASE DeleteNode(p)
    BY <1>1, <2>1, <2>3, <2>6, DeleteDrops
  <2>7. CASE CronReturn(p)
    BY <1>1, <2>1, <2>2, <2>7, RanGoes
  <2>8. CASE RecvDelete(p)
    BY <1>1, <2>2, <2>8, DeleteHoldsNone
  <2> QED BY <1>9, <2>1, <2>4, <2>5, <2>6, <2>7, <2>8 DEF Takes
<1> QED BY <1>2, <1>7, <1>8, <1>9

--------------------------------------------------------------------------------
(* Steps that put tasks in their places, or run them.                      *)

\* A task of p or of the queue goes on waiting where p or the queue still has it.
LEMMA PlacesMoved ==
  ASSUME NEW p \in Procs, Others(p), Alive(p), Alive(p)', NEW t \in Tasks
  PROVE  /\ t \in TasksOf(mq.msgs) \cup Held(p) => t \in Pending
         /\ t \in TasksOf(mq'.msgs) \cup Held(p)' => t \in Pending'
         /\ (t \in TasksOf(mq'.msgs) \cup Held(p)' <=> t \in TasksOf(mq.msgs) \cup Held(p)) =>
              (t \in Pending' <=> t \in Pending)
<1>1. \A q \in Procs \ {p} : (Alive(q)' <=> Alive(q)) /\ Held(q)' = Held(q)
  BY OthersKeep DEF Alive, Held
<1>2. t \in Pending <=>
        \/ t \in TasksOf(mq.msgs) \cup Held(p)
        \/ \E q \in Procs \ {p} : Alive(q) /\ t \in Held(q)
  BY DEF Pending
<1>3. t \in Pending' <=>
        \/ t \in TasksOf(mq'.msgs) \cup Held(p)'
        \/ \E q \in Procs \ {p} : Alive(q)' /\ t \in Held(q)'
  BY DEF Pending
<1> QED BY <1>1, <1>2, <1>3

\* A step that runs a waiting task whose time has come serves it.
LEMMA Serving ==
  ASSUME LifeByPlace, LifeByPlace', TypeInv, NEW k \in Tasks,
         k \in hist.accepted, k \in Pending, hist.runs[k] = 0, hist.at[k] <= now,
         hist'.runs = [hist.runs EXCEPT ![k] = @ + 1],
         hist'.accepted = hist.accepted, hist'.at = hist.at, hist'.asked = hist.asked,
         now' = now, Warned' = Warned,
         \A t \in Tasks \ {k} : t \in Pending' <=> t \in Pending
  PROVE  LifeStep
<1>1. /\ hist'.runs[k] = 1
      /\ \A t \in Tasks \ {k} : hist'.runs[t] = hist.runs[t]
  BY DEF TypeInv, TypeOK, History
<1>2. LifeOf' = [LifeOf EXCEPT ![k] = "ran"]
  <2>1. ASSUME NEW t \in Tasks, t # k PROVE LifeOf'[t] = LifeOf[t]
    BY <1>1, <2>1 DEF LifeByPlace
  <2>2. LifeOf'[k] = "ran"
    BY <1>1 DEF LifeByPlace
  <2>3. LifeOf' = [t \in Tasks |-> LifeOf'[t]] /\ LifeOf = [t \in Tasks |-> LifeOf[t]]
    BY DEF LifeOf
  <2> QED BY <2>1, <2>2, <2>3
<1>3. LifeOf[k] = "waiting"
  BY DEF LifeByPlace
<1>4. DueOf' = DueOf /\ DueOf[k] = hist.at[k]
  BY DEF DueOf
<1>5. Life!Serve(k)
  BY <1>2, <1>3, <1>4 DEF Life!Serve, Warned
<1> QED BY <1>5 DEF LifeStep, Life!LifeNext

\* A task that is due when it is received.
LEMMA RecvServes ==
  ASSUME SoloInv, LifeByPlace', NEW p \in Procs, RecvNow(p)
  PROVE  LifeStep
<1> DEFINE k == loc[p].msg.task
<1>1. /\ loc[p].msg.op = "add" /\ mq' = mq /\ loc' = loc
      /\ loc[p].msg.mtime <= loc[p].ts
      /\ hist'.runs = [hist.runs EXCEPT ![k] = @ + 1]
      /\ hist'.accepted = hist.accepted /\ hist'.at = hist.at /\ hist'.asked = hist.asked
      /\ now' = now /\ Others(p)
      /\ pc[p] = "got" /\ pc'[p] = "exec"
  BY RecvNowEffects DEF SoloInv
<1>2. /\ k \in Tasks /\ hist.runs[k] = 0 /\ Carried(p) = {k}
      /\ hist.at[k] = loc[p].msg.mtime
  BY <1>1, HandPlaced DEF SoloInv, Marked
<1>3. hist.at[k] <= now
  <2>1. hist.at[k] \in Nat /\ loc[p].ts \in Nat /\ now \in Nat /\ loc[p].ts <= now
    BY <1>2 DEF SoloInv, TypeInv, TypeOK, Locals, History, PlaceInv, AsPosted
  <2> QED BY <1>1, <1>2, <2>1
<1>4. Alive(p) /\ Alive(p)' /\ Held(p)' = Kept(p) /\ Held(p) = Kept(p) \cup {k}
  BY <1>1, <1>2 DEF Alive, Kept, Held
<1>5. Warned' = Warned
  BY <1>1, <1>4, MovesWarnNobody DEF SoloInv, Moves
<1>6. k \in hist.accepted
  BY <1>1, <1>2 DEF SoloInv, BookInv, Booked
<1> HIDE DEF k
<1>7. k \in Pending /\ \A t \in Tasks \ {k} : t \in Pending' <=> t \in Pending
  BY <1>1, <1>2, <1>4, PlacesMoved
<1> QED BY <1>1, <1>2, <1>3, <1>5, <1>6, <1>7, Serving DEF SoloInv

\* A task whose time has come in the crontab.
LEMMA CronServes ==
  ASSUME SoloInv, LifeByPlace', NEW p \in Procs, CronRun(p)
  PROVE  LifeStep
<1> DEFINE k == Head(loc[p].list).task
<1>0. loc[p].list \in Seq(Node) /\ Once(loc[p].list)
  BY DEF SoloInv, TypeInv, TypeOK, Locals, PlaceInv, OnePlace
<1>1. /\ loc[p].list # <<>> /\ Head(loc[p].list).mtime < loc[p].ts
      /\ hist'.runs = [hist.runs EXCEPT ![k] = @ + 1]
      /\ hist'.accepted = hist.accepted /\ hist'.at = hist.at /\ hist'.asked = hist.asked
      /\ now' = now /\ mq' = mq /\ loc' = loc /\ Others(p)
      /\ pc[p] = "cron" /\ pc'[p] = "cronExec"
  BY CronRunEffects DEF SoloInv
<1>2. 1 \in DOMAIN loc[p].list /\ Head(loc[p].list) = loc[p].list[1]
  BY <1>0, <1>1, TailTakes
<1>3. k \in Tasks /\ k \in Kept(p) /\ hist.at[k] = Head(loc[p].list).mtime
  <2>1. Marked(loc[p].list[1])
    BY <1>2 DEF SoloInv, PlaceInv, AsPosted, ToSet
  <2> QED BY <1>2, <2>1, NodesAreTasks DEF SoloInv, PlaceInv, Marked
<1>4. hist.runs[k] = 0
  <2>1. pc[p] \notin Leaving /\ ~Executing(p)
    BY <1>1 DEF Leaving, Executing, Calling
  <2> QED BY <1>2, <2>1 DEF SoloInv, PlaceInv, Unrun
<1>5. hist.at[k] <= now
  <2>1. hist.at[k] \in Nat /\ loc[p].ts \in Nat /\ now \in Nat /\ loc[p].ts <= now
    BY <1>3 DEF SoloInv, TypeInv, TypeOK, Locals, History, PlaceInv, AsPosted
  <2> QED BY <1>1, <1>3, <2>1
<1>6. Alive(p) /\ Alive(p)' /\ Held(p)' = Kept(p) /\ Held(p) = Kept(p)
  BY <1>1 DEF Alive, Kept, Held
<1>7. Warned' = Warned
  BY <1>1, <1>6, MovesWarnNobody DEF SoloInv, Moves
<1>8. k \in hist.accepted
  BY <1>3 DEF SoloInv, BookInv, Booked
<1> HIDE DEF k
<1>9. k \in Pending /\ \A t \in Tasks \ {k} : t \in Pending' <=> t \in Pending
  BY <1>1, <1>3, <1>6, PlacesMoved
<1> QED BY <1>1, <1>3, <1>4, <1>5, <1>7, <1>8, <1>9, Serving DEF SoloInv

\* A step that posts, runs and drops nothing.
LEMMA Stuttering ==
  ASSUME LifeByPlace, LifeByPlace', hist'.runs = hist.runs, hist'.accepted = hist.accepted,
         hist'.asked = hist.asked, DueOf' = DueOf, now' = now, Warned' = Warned,
         \A t \in Tasks : t \in Pending' <=> t \in Pending
  PROVE  LifeStep
<1>1. \A t \in Tasks : LifeOf'[t] = LifeOf[t]
  BY DEF LifeByPlace
<1>2. LifeOf' = [t \in Tasks |-> LifeOf'[t]] /\ LifeOf = [t \in Tasks |-> LifeOf[t]]
  BY DEF LifeOf
<1>3. LifeOf' = LifeOf
  BY <1>1, <1>2
<1> QED BY <1>3 DEF LifeStep, Life!lifeVars, Warned

\* Building the message of a post or of a delete is not yet sending it.
LEMMA CallsStutter ==
  ASSUME SoloInv, LifeByPlace', NEW p \in Procs,
         (\E t \in Tasks : PostCall(p, t)) \/ (\E u \in Uuids : DeleteCall(p, u))
  PROVE  LifeStep
<1>1. /\ hist'.runs = hist.runs /\ hist'.accepted = hist.accepted /\ hist'.asked = hist.asked
      /\ now' = now /\ mq' = mq /\ loc'[p].list = loc[p].list /\ Others(p)
      /\ pc'[p] = "send"
  BY PostEffects, DeleteEffects DEF SoloInv, SameHistory
<1>2. DueOf' = DueOf
  <2>1. ASSUME NEW t \in Tasks, PostCall(p, t) PROVE DueOf' = DueOf
    <3>1. t \notin hist.posted /\ t \notin hist.accepted
      BY <2>1, PostEffects DEF SoloInv, BookInv
    <3>2. PICK m \in Stamps \cup {now} :
            /\ m \in Nat /\ loc'[p].out = AddMessage(t, m)
            /\ hist'.at = [hist.at EXCEPT ![t] = m]
      BY <2>1, PostEffects DEF SoloInv
    <3>3. \A k \in hist.accepted : hist'.at[k] = hist.at[k]
      BY <3>1, <3>2 DEF SoloInv, TypeInv, TypeOK, History
    <3> QED BY <1>1, <3>3 DEF DueOf
  <2>2. ASSUME NEW u \in Uuids, DeleteCall(p, u) PROVE DueOf' = DueOf
    BY <2>2, DeleteEffects DEF SoloInv, SameHistory, DueOf
  <2> QED BY <2>1, <2>2
<1>3. Alive(p) /\ Alive(p)' /\ Held(p)' = Held(p)
  <2>1. pc[p] \in {"idle", "exec", "cronExec"}
    BY DEF PostCall, DeleteCall, Calls, Callback
  <2> QED BY <1>1, <2>1 DEF Alive, Kept, Held
<1>4. Warned' = Warned
  BY <1>1, <1>3, MovesWarnNobody DEF SoloInv, Moves
<1>5. \A t \in Tasks : t \in Pending' <=> t \in Pending
  BY <1>1, <1>3, PlacesMoved
<1> QED BY <1>1, <1>2, <1>4, <1>5, Stuttering DEF SoloInv

\* A task that goes from the queue into the hands of p goes on waiting.
LEMMA RecvStutters ==
  ASSUME SoloInv, LifeByPlace', NEW p \in Procs, Recv(p)
  PROVE  LifeStep
<1> DEFINE k == Head(mq.msgs).task
<1>1. /\ mq.msgs # <<>> /\ mq'.msgs = Tail(mq.msgs) /\ hist' = hist /\ now' = now
      /\ loc'[p].msg = Head(mq.msgs) /\ loc'[p].list = loc[p].list
      /\ Others(p) /\ pc[p] = "recv" /\ pc'[p] = "got"
  BY RecvEffects DEF SoloInv
<1>2. /\ TasksOf(mq'.msgs) = TasksOf(mq.msgs) \ {k}
      /\ {k} \ {NoTask} \subseteq TasksOf(mq.msgs)
  BY <1>1, HeadPlaced DEF SoloInv
<1>3. Held(p) = Kept(p) /\ Held(p)' = Kept(p) \cup ({k} \ {NoTask})
  BY <1>1 DEF Held, Kept, Carried, Hand
<1>4. Alive(p) /\ Alive(p)'
  BY <1>1 DEF Alive
<1>5. Warned' = Warned
  BY <1>1, <1>4, MovesWarnNobody DEF SoloInv, Moves
<1> HIDE DEF k
<1>6. ASSUME NEW t \in Tasks PROVE t \in Pending' <=> t \in Pending
  <2>1. t # NoTask
    BY DataAssumption
  <2> QED BY <1>1, <1>2, <1>3, <1>4, <2>1, PlacesMoved
<1>7. DueOf' = DueOf
  BY <1>1 DEF DueOf
<1> QED BY <1>1, <1>5, <1>6, <1>7, Stuttering DEF SoloInv

\* So does one that goes from there into the crontab.
LEMMA LaterStutters ==
  ASSUME SoloInv, LifeByPlace', NEW p \in Procs, RecvLater(p)
  PROVE  LifeStep
<1> DEFINE m == loc[p].msg
<1>0. loc[p].list \in Seq(Node) /\ Once(loc[p].list)
  BY DEF SoloInv, TypeInv, TypeOK, Locals, PlaceInv, OnePlace
<1>1. /\ m.op = "add" /\ mq' = mq
      /\ loc'[p].list = Insert(loc[p].list, NodeOf(m)) /\ hist' = hist /\ now' = now
      /\ Others(p) /\ pc'[p] = "count" /\ pc[p] = "got"
  BY RecvLaterEffects DEF SoloInv
<1>2. /\ Carried(p) = {m.task} /\ m.task # NoTask
      /\ m \in Message /\ m.task \notin Kept(p)
  BY <1>1, HandPlaced DEF SoloInv
<1>3. NodeOf(m) \in Node /\ NodeOf(m).task = m.task
  BY <1>2, Pieces DEF NodeOf
<1>4. Alive(p) /\ Alive(p)'
  BY <1>1 DEF Alive
<1>5. Warned' = Warned
  BY <1>1, <1>4, MovesWarnNobody DEF SoloInv, Moves
<1> HIDE DEF m
<1>6. Kept(p)' = Kept(p) \cup ({m.task} \ {NoTask})
  BY <1>0, <1>1, <1>2, <1>3, Pieces, InsertPuts DEF Kept
<1>7. Held(p)' = Held(p)
  BY <1>1, <1>2, <1>6 DEF Held
<1>8. \A t \in Tasks : t \in Pending' <=> t \in Pending
  BY <1>1, <1>4, <1>7, PlacesMoved
<1>9. DueOf' = DueOf
  BY <1>1 DEF DueOf
<1> QED BY <1>1, <1>5, <1>8, <1>9, Stuttering DEF SoloInv

\* msgsnd: a task is posted, or a delete asked for.
LEMMA SendPosts ==
  ASSUME SoloInv, LifeByPlace', NEW p \in Procs, Send(p)
  PROVE  LifeStep
<1> DEFINE k == loc[p].out.task
<1>0. /\ mq.msgs \in Seq(Message) /\ Once(mq.msgs) /\ loc[p].out \in Message
      /\ Wellformed(loc[p].out) /\ hist \in History
  <2>1. pc[p] = "send"
    BY DEF Send
  <2> QED BY <2>1 DEF SoloInv, TypeInv, TypeOK, Locals, PlaceInv, OnePlace, AsPosted, Hand
<1>1. /\ mq'.msgs = Append(mq.msgs, loc[p].out)
      /\ hist'.runs = hist.runs /\ hist'.at = hist.at
      /\ hist'.accepted = hist.accepted \cup Carried(p)
      /\ hist'.asked = IF loc[p].out.op = "delete" THEN hist.asked \cup {loc[p].out.uuid}
                      ELSE hist.asked
      /\ now' = now /\ pc[p] = "send" /\ pc'[p] \in {"idle", "exec", "cronExec"}
      /\ loc'[p].list = loc[p].list /\ Others(p)
  BY SendEffects DEF SoloInv
<1>2. /\ Carried(p) = {k} \ {NoTask} /\ Held(p)' = Held(p) /\ Alive(p) /\ Alive(p)'
  BY <1>1 DEF Carried, Hand, Kept, Held, Alive
<1>3. TasksOf(mq'.msgs) = TasksOf(mq.msgs) \cup Carried(p)
  <2>1. k \notin TasksOf(mq.msgs)
    BY <1>2 DEF SoloInv, PlaceInv, OnePlace, TasksOf
  <2> QED BY <1>0, <1>1, <1>2, <2>1, AppendPuts
<1>4. Warned' = Warned
  BY <1>1, <1>2, MovesWarnNobody DEF SoloInv, Moves
<1>5. LifeOf' = [t \in Tasks |-> LifeOf'[t]] /\ LifeOf = [t \in Tasks |-> LifeOf[t]]
  BY DEF LifeOf
<1> HIDE DEF k
<1>6. \A t \in Tasks : t # k => (t \in Pending' <=> t \in Pending)
  BY <1>1, <1>2, <1>3, PlacesMoved
<1>7. \A t \in Tasks : t # k => LifeOf'[t] = LifeOf[t]
  BY <1>1, <1>2, <1>6 DEF SoloInv, LifeByPlace
<1>8. ASSUME k \in Tasks, loc[p].out.op # "delete" PROVE LifeStep
  <2>1. k \in Carried(p) /\ Carried(p) = {k}
    BY <1>2, <1>8, DataAssumption
  <2>2. hist.runs[k] = 0 /\ k \notin hist.accepted /\ k \in hist.posted
    BY <1>1, <2>1, PlacedArePosted DEF SoloInv, PlaceInv, Unrun, BookInv, Booked
  <2>3. k \in Pending'
    BY <1>1, <1>2, <1>3, <1>8, <2>1, PlacesMoved
  <2>4. LifeOf[k] = "fresh" /\ LifeOf'[k] = "waiting"
    BY <1>1, <1>8, <2>1, <2>2, <2>3 DEF SoloInv, LifeByPlace
  <2>5. LifeOf' = [LifeOf EXCEPT ![k] = "waiting"]
    BY <1>5, <1>7, <2>4
  <2>6. DueOf' = [DueOf EXCEPT ![k] = hist.at[k]]
    BY <1>1, <1>8, <2>1 DEF DueOf
  <2>7. hist.at[k] \in Stamps \cup 0 .. now
    BY <2>2 DEF SoloInv, BookInv
  <2>8. Life!Post(k)
    BY <1>1, <1>4, <1>8, <2>4, <2>5, <2>6, <2>7 DEF Life!Post, Warned
  <2> QED BY <1>8, <2>8 DEF LifeStep, Life!LifeNext
<1>9. ASSUME loc[p].out.op = "delete", k = NoTask, loc[p].out.uuid \in Uuids PROVE LifeStep
  <2>1. Carried(p) = {} /\ NoTask \notin Tasks
    BY <1>2, <1>9, DataAssumption
  <2>2. LifeOf' = LifeOf
    BY <1>5, <1>7, <1>9, <2>1
  <2>3. DueOf' = DueOf
    BY <1>1, <2>1 DEF DueOf
  <2>4. Life!Ask
    BY <1>1, <1>4, <1>9, <2>2, <2>3 DEF Life!Ask, Warned
  <2> QED BY <2>4 DEF LifeStep, Life!LifeNext
<1> QED BY <1>0, <1>8, <1>9 DEF Wellformed, Marked, History, k

\* A step that moves a task is a step of the promise.
LEMMA MovesRefine ==
  ASSUME SoloInv, LifeByPlace', NEW p \in Procs, Moves(p)
  PROVE  LifeStep
  BY CallsStutter, SendPosts, RecvStutters, RecvServes, LaterStutters, CronServes DEF Moves

\* Time passes.
LEMMA TickPasses ==
  ASSUME LifeByPlace, LifeByPlace', Tick
  PROVE  LifeStep
<1>1. /\ now' = now + 1 /\ hist' = hist /\ loc' = loc /\ mq' = mq /\ pc' = pc
  BY DEF Tick
<1>2. Pending' = Pending /\ Warned' = Warned /\ DueOf' = DueOf
  BY <1>1 DEF Pending, Warned, Told, Thrown, Died, Owes, DueOf, Alive, Held, Kept, Carried, Hand
<1>3. LifeOf' = LifeOf
  BY <1>1, <1>2 DEF LifeByPlace
<1>4. Life!Pass
  BY <1>1, <1>2, <1>3 DEF Life!Pass, Warned
<1> QED BY <1>4 DEF LifeStep, Life!LifeNext

\* The start of the queue is that of the promise.
LEMMA StartsFresh == Init => Life!LifeInit
<1> SUFFICES ASSUME Init PROVE Life!LifeInit
  OBVIOUS
<1>1. hist.asked = {} /\ hist.accepted = {} /\ now = 0
  BY DEF Init
<1>2. \A t \in Tasks : hist.runs[t] = 0
  BY DEF Init
<1>3. LifeOf = [t \in Tasks |-> "fresh"] /\ DueOf = [t \in Tasks |-> 0]
  BY <1>1, <1>2 DEF LifeOf, DueOf
<1>4. ~Warned
  BY DEF Init, Warned, Told, Thrown, Died, Unloaded
<1>5. Warned = FALSE
  BY <1>4 DEF Warned
<1> QED BY <1>1, <1>3, <1>5 DEF Life!LifeInit, Warned

\* One worker and its clients keep the promise, whatever the tasks, the clients and
\* their number, the callbacks, the signals and the times: no task is run twice, or
\* early, or lost without a delete or a stop that allows it, a message that cannot be
\* read, an exception, or the death of the worker that had received it: with it in its
\* crontab, or on the way there or to the callback.
THEOREM PromiseKept ==
  ASSUME OneWorker
  PROVE  Spec => KeepsThePromise
<1>1. SoloInv /\ LifeByPlace' /\ [Next]_vars => [Life!LifeNext]_(Life!lifeVars)
  <2> SUFFICES ASSUME SoloInv, LifeByPlace', [Next]_vars PROVE LifeStep
    BY DEF LifeStep
  <2>1. ASSUME NEW p \in Procs,
               WorkerStep(p) \/ CallStep(p) \/ Lock(p) \/ Unlock(p) \/ ScriptStep(p) \/ Fault(p)
        PROVE  LifeStep
    BY <2>1, MovesRefine, QuietRefines
  <2>2. CASE UNCHANGED vars \/ Done
    BY <2>2
    DEF Done, vars, LifeStep, Life!lifeVars, LifeOf, DueOf, Waiting, InQueue, Received, Alive, Told,
        Thrown, Died, Owes
  <2>3. CASE Tick
    BY <2>3, TickPasses DEF SoloInv
  <2> QED BY <2>1, <2>2, <2>3 DEF Next
<1>2. TypeInv /\ RoleInv /\ ToldInv /\ PlaceInv /\ BookInv /\ LeaveInv /\ LifeByPlace => SoloInv
  BY DEF SoloInv
<1> QED
  BY <1>1, <1>2, StartsFresh, TypeInvariant, Roles, SoloTold, PlaceInvariant, BooksKept, Leaves,
     LifeRead, PTL
  DEF Spec, KeepsThePromise, Life!LifeSpec

================================================================================
