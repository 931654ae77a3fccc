------------------------------ MODULE WcxTaskProofs ----------------------------
(***************************************************************************)
(* Proofs about the task queue, for any processes, tasks and bounds: the   *)
(* types, the lock, the order of the crontab, the count of workers, the    *)
(* queue a process is attached to, what a scan leaves behind, and that no  *)
(* task runs twice.                                                        *)
(***************************************************************************)
EXTENDS WcxTaskProps, CrontabProofs

\* The types of the pieces the actions are made of.
LEMMA Pieces ==
  /\ NoMessage \in Message
  /\ \A t \in Tasks, m \in Nat : AddMessage(t, m) \in Message
  /\ now \in Nat => \A u \in Uuids : DeleteMessage(u) \in Message
  /\ \A m \in Message : NodeOf(m) \in Node
  /\ Timed(Node)
  /\ Unloaded \in Locals
<1>1. <<>> \in Seq(STRING) /\ <<>> \in Seq(Node)
  BY EmptySeq
<1>2. NoMessage \in Message
  BY <1>1 DEF NoMessage, Message
<1> QED
  BY <1>1, <1>2, DataAssumption
  DEF Message, AddMessage, DeleteMessage, NodeOf, Node, Nodes, Timed, Unloaded, Locals

\* What a step of the message queue or of a crontab returns.
LEMMA QueueTypes ==
  ASSUME TypeOK, NEW p \in Procs
  PROVE  /\ mq.msgs # <<>> => Head(mq.msgs) \in Message /\ Tail(mq.msgs) \in Seq(Message)
         /\ \A m \in Message : Append(mq.msgs, m) \in Seq(Message)
         /\ \A m \in Message : Insert(loc[p].list, NodeOf(m)) \in Seq(Node)
         /\ \A i \in Hits(p) : RemoveAt(loc[p].list, i) \in Seq(Node)
         /\ loc[p].list # <<>> => Tail(loc[p].list) \in Seq(Node)
<1>1. mq.msgs \in Seq(Message) /\ loc[p].list \in Seq(Node)
  BY DEF TypeOK, Locals
<1>2. mq.msgs # <<>> => Head(mq.msgs) \in Message /\ Tail(mq.msgs) \in Seq(Message)
  BY <1>1, HeadTailProperties
<1>3. \A m \in Message : Append(mq.msgs, m) \in Seq(Message)
  BY <1>1, AppendProperties
<1>4. \A m \in Message : Insert(loc[p].list, NodeOf(m)) \in Seq(Node)
  BY <1>1, Pieces, InsertType
<1>5. \A i \in Hits(p) : RemoveAt(loc[p].list, i) \in Seq(Node)
  <2>1. \A i \in Hits(p) : i \in 1 .. Len(loc[p].list)
    BY <1>1, LenProperties DEF Hits
  <2> QED BY <1>1, <2>1, RemoveAtProperties
<1>6. loc[p].list # <<>> => Tail(loc[p].list) \in Seq(Node)
  BY <1>1, HeadTailProperties
<1> QED BY <1>2, <1>3, <1>4, <1>5, <1>6

\* The head of the crontab stays there while its callback runs, whatever that
\* callback calls.
Calling == {"send", "clearLock", "clear", "clearUnlock"}
CronHead ==
  \A p \in Procs :
    pc[p] = "cronExec" \/ (pc[p] \in Calling /\ caller[p] = "cronExec")
      => loc[p].list # <<>>

TypeInv == TypeOK /\ CronHead

\* The updates of the records keep their types, field by field.
LEMMA HistoryRuns ==
  ASSUME NEW h \in History, NEW t
  PROVE  [h EXCEPT !.runs[t] = @ + 1] \in History
<1> DEFINE r == [h.runs EXCEPT ![t] = @ + 1]
<1>1. r \in [Tasks -> Nat]
  <2>1. h.runs \in [Tasks -> Nat]
    BY DEF History
  <2>2. CASE t \in Tasks
    <3>1. h.runs[t] + 1 \in Nat
      BY <2>1, <2>2
    <3>2. \A n \in Nat : [h.runs EXCEPT ![t] = n] \in [Tasks -> Nat]
      BY <2>1
    <3> QED BY <3>1, <3>2
  <2>3. CASE t \notin Tasks
    BY <2>1, <2>3
  <2> QED BY <2>2, <2>3
<1>2. [h EXCEPT !.runs = r] \in History
  <2> HIDE DEF r
  <2> QED BY <1>1 DEF History
<1>3. [h EXCEPT !.runs[t] = @ + 1] = [h EXCEPT !.runs = r]
  BY DEF History
<1> QED BY <1>2, <1>3

\* Counting a clear or a delete keeps the type of the history.
LEMMA HistoryCounts ==
  ASSUME NEW h \in History
  PROVE  [h EXCEPT !.clears = @ + 1] \in History /\ [h EXCEPT !.deletes = @ + 1] \in History
<1>1. h.clears + 1 \in Nat /\ h.deletes + 1 \in Nat
  BY DEF History
<1>2. ASSUME NEW n \in Nat
      PROVE  [h EXCEPT !.clears = n] \in History /\ [h EXCEPT !.deletes = n] \in History
  BY DEF History
<1> QED BY <1>1, <1>2

\* So does recording that a task was posted, and for when.
LEMMA HistoryPosted ==
  ASSUME NEW h \in History, NEW t \in Tasks, NEW m \in Nat
  PROVE  [h EXCEPT !.posted = @ \cup {t}, !.at[t] = m] \in History
  BY DEF History

\* Clearing the register keeps the type of the locals.
LEMMA LocalsReg ==
  ASSUME NEW p \in Procs, loc \in [Procs -> Locals]
  PROVE  [loc EXCEPT ![p].reg = 0] \in [Procs -> Locals]
<1>1. \A n \in Int : [loc EXCEPT ![p].reg = n] \in [Procs -> Locals]
  BY DEF Locals
<1> QED BY <1>1, SMTT(30)

\* So does replacing the crontab by another.
LEMMA LocalsList ==
  ASSUME NEW p \in Procs, loc \in [Procs -> Locals], NEW l \in Seq(Node)
  PROVE  [loc EXCEPT ![p].list = l] \in [Procs -> Locals]
  BY DEF Locals

\* TypeOK alone is not inductive: listDelNode of the head needs a head.
LEMMA TypeInductive == TypeInv /\ [Next]_vars => TypeOK'
<1> SUFFICES ASSUME TypeInv, [Next]_vars PROVE TypeOK'
  OBVIOUS
<1> USE DEF TypeInv
<1>1. CASE UNCHANGED vars
  BY <1>1 DEF TypeOK, vars
<1>2. CASE Tick
  BY <1>2 DEF Tick, TypeOK, shm
<1>3. CASE Done
  BY <1>3 DEF Done, TypeOK, vars
<1>4. ASSUME NEW p \in Procs,
             WorkerStep(p) \/ CallStep(p) \/ Lock(p) \/ Unlock(p) \/ ScriptStep(p) \/ Fault(p)
      PROVE  TypeOK'
  <2>0. /\ loc \in [Procs -> Locals] /\ hist \in History
        /\ running \in Int /\ now \in Nat /\ mq.id \in Nat
        /\ loc[p] \in Locals
    BY DEF TypeOK
  <2>1. CASE Boot(p)
    <3>1. mq' \in [id : Nat, live : BOOLEAN, may : SUBSET Procs, msgs : Seq(Message)]
      <4>1. \A n \in Nat : [id |-> n, live |-> TRUE, may |-> Removers[p], msgs |-> <<>>]
                          \in [id : Nat, live : BOOLEAN, may : SUBSET Procs, msgs : Seq(Message)]
        BY EmptySeq, RolesAssumption
      <4>2. mq.id + 1 \in Nat
        BY <2>0
      <4> QED BY <2>1, <4>1, <4>2 DEF Boot, TypeOK
    <3>2. loc' \in [Procs -> Locals]
      <4>1. \A n \in Nat : [loc EXCEPT ![p].mid = n] \in [Procs -> Locals]
        BY <2>0 DEF Locals
      <4>2. mq'.id \in Nat
        BY <3>1
      <4> QED BY <4>1, <4>2, <2>1 DEF Boot
    <3> QED BY <2>1, <3>1, <3>2 DEF Boot, TypeOK, shm, Goto, Labels
  <2>2. CASE Run(p)
    <3>1. loc' \in [Procs -> Locals]
      BY <2>0, <2>2 DEF Run, Locals
    <3> QED BY <2>0, <2>2, <3>1 DEF Run, TypeOK, shm, Goto, Labels, LockLabels, UnlockLabels, Callback
  <2>3. CASE Inc(p)
    <3>1. loc' \in [Procs -> Locals]
      BY <2>0, <2>3, LocalsReg DEF Inc
    <3>2. running' \in Int
      BY <2>0, <2>3 DEF Inc, Raised, Locals
    <3> QED BY <2>3, <3>1, <3>2 DEF Inc, TypeOK, Goto, Labels
  <2>4. CASE Check(p)
    BY <2>0, <2>4 DEF Check, TypeOK, shm, Goto, Labels, LockLabels, UnlockLabels, Callback
  <2>5. CASE Lock(p)
    BY <2>0, <2>5 DEF Lock, LockFree, AfterLock, TypeOK, shm, Goto, Labels, LockLabels, UnlockLabels, Callback
  <2>6. CASE Unlock(p)
    BY <2>0, <2>6 DEF Unlock, Unlocked, AfterUnlock, TypeOK, shm, Goto, Labels, LockLabels, UnlockLabels, Callback
  <2>7. CASE Time(p)
    <3>1. loc' \in [Procs -> Locals]
      BY <2>0, <2>7 DEF Time, Locals
    <3> QED BY <2>0, <2>7, <3>1 DEF Time, TypeOK, shm, Goto, Labels, LockLabels, UnlockLabels, Callback
  <2>8. CASE RecvNone(p)
    BY <2>0, <2>8 DEF RecvNone, TypeOK, shm, Goto, Labels, LockLabels, UnlockLabels, Callback
  <2>9. CASE RecvNow(p)
    <3>1. hist' \in History
      BY <2>0, <2>9, HistoryRuns DEF RecvNow, Execute
    <3> QED BY <2>9, <3>1 DEF RecvNow, TypeOK, shm, Goto, Labels, Callback
  <2>10. CASE RecvLater(p)
    <3>1. Insert(loc[p].list, NodeOf(loc[p].msg)) \in Seq(Node)
      BY <2>0, QueueTypes DEF Locals
    <3>2. loc' \in [Procs -> Locals]
      BY <2>0, <2>10, <3>1, LocalsList DEF RecvLater
    <3> QED BY <2>10, <3>2 DEF RecvLater, TypeOK, shm, Goto, Labels
  <2>11. CASE RecvDelete(p)
    BY <2>11 DEF RecvDelete, TypeOK, shm, Goto, Labels
  <2>12. CASE DeleteNode(p)
    <3>1. PICK i \in Hits(p) : loc' = [loc EXCEPT ![p].list = RemoveAt(@, i)]
      BY <2>12 DEF DeleteNode
    <3>2. RemoveAt(loc[p].list, i) \in Seq(Node)
      BY QueueTypes
    <3>3. loc' = [loc EXCEPT ![p].list = RemoveAt(loc[p].list, i)]
      BY <3>1
    <3>4. loc' \in [Procs -> Locals]
      BY <2>0, <3>2, <3>3, LocalsList
    <3> QED BY <2>12, <3>4, DataAssumption DEF DeleteNode, AfterFree, TypeOK, shm, Goto, Labels
  <2>13. CASE DeleteDone(p)
    <3>1. hist' \in History
      BY <2>0, <2>13 DEF DeleteDone, History
    <3> QED BY <2>0, <2>13, <3>1 DEF DeleteDone, TypeOK, shm, Goto, Labels, LockLabels, UnlockLabels, Callback
  <2>14. CASE Count(p)
    <3>1. loc' \in [Procs -> Locals]
      BY <2>0, <2>14, Pieces DEF Count, Locals
    <3> QED BY <2>0, <2>14, <3>1 DEF Count, TypeOK, shm, Goto, Labels, LockLabels, UnlockLabels, Callback
  <2>15. CASE Return(p)
    BY <2>0, <2>15 DEF Return, TypeOK, shm, Goto, Labels, LockLabels, UnlockLabels, Callback
  <2>16. CASE ListCrash(p)
    BY <2>0, <2>16 DEF ListCrash, Received, TypeOK, shm, Goto, Labels, LockLabels, UnlockLabels, Callback
  <2>17. CASE CronRun(p)
    <3>1. hist' \in History
      BY <2>0, <2>17, HistoryRuns DEF CronRun, Execute
    <3> QED BY <2>17, <3>1 DEF CronRun, TypeOK, shm, Goto, Labels, Callback
  <2>18. CASE CronEnd(p)
    BY <2>0, <2>18 DEF CronEnd, TypeOK, shm, Goto, Labels, LockLabels, UnlockLabels, Callback
  <2>19. CASE CronReturn(p)
    <3>1. loc' \in [Procs -> Locals]
      BY <2>0, <2>19, QueueTypes DEF CronReturn, AfterFree, HeadDeleted, Locals, CronHead
    <3> QED BY <2>0, <2>19, <3>1, DataAssumption DEF CronReturn, AfterFree, HeadDeleted, TypeOK, shm, Goto, Labels, LockLabels, UnlockLabels, Callback
  <2>20. CASE Stop(p)
    <3>1. loc' \in [Procs -> Locals]
      BY <2>0, <2>20, EmptySeq DEF Stop, Locals
    <3>2. mq' \in [id : Nat, live : BOOLEAN, may : SUBSET Procs, msgs : Seq(Message)]
      BY <2>20, EmptySeq DEF Stop, TypeOK
    <3> QED BY <2>20, <3>1, <3>2 DEF Stop, TypeOK, shm, Goto, Labels
  <2>21. CASE Send(p)
    <3>1. loc' \in [Procs -> Locals]
      BY <2>0, <2>21, Pieces DEF Send, Locals
    <3>2. hist' \in History
      BY <2>0, <2>21 DEF Send, History, Locals, Message
    <3> QED BY <2>0, <2>21, <3>1, <3>2, QueueTypes DEF Send, TypeOK, shm, Goto, Labels, LockLabels, UnlockLabels, Callback, Locals
  <2>22. CASE SendFail(p)
    <3>1. loc' \in [Procs -> Locals]
      BY <2>0, <2>22, Pieces DEF SendFail, Locals
    <3> QED BY <2>0, <2>22, <3>1 DEF SendFail, TypeOK, shm, Goto, Labels, LockLabels, UnlockLabels, Callback
  <2>23. CASE ClearCall(p)
    <3>1. hist' \in History
      BY <2>0, <2>23, HistoryCounts DEF ClearCall
    <3> QED BY <2>23, <3>1 DEF ClearCall, Calls, TypeOK, shm, Goto, Labels, LockLabels, Callback
  <2>24. CASE Clear(p)
    BY <2>0, <2>24 DEF Clear, TypeOK, shm, Goto, Labels, LockLabels, UnlockLabels, Callback
  <2>25. CASE InfoCrash(p)
    BY <2>0, <2>25 DEF InfoCrash, TypeOK, shm, Goto, Labels, LockLabels, UnlockLabels, Callback
  <2>26. CASE Exit(p)
    BY <2>0, <2>26 DEF Exit, TypeOK, shm, Goto, Labels, LockLabels, UnlockLabels, Callback
  <2>27. CASE RelRead(p)
    <3>1. loc' \in [Procs -> Locals]
      BY <2>0, <2>27 DEF RelRead, Locals
    <3> QED BY <2>0, <2>27, <3>1 DEF RelRead, TypeOK, shm, Goto, Labels, LockLabels, UnlockLabels, Callback
  <2>28. CASE RelWrite(p)
    <3>1. loc' \in [Procs -> Locals]
      BY <2>0, <2>28, LocalsReg DEF RelWrite
    <3>2. running' \in Int
      BY <2>0, <2>28 DEF RelWrite, Locals
    <3> QED BY <2>28, <3>1, <3>2 DEF RelWrite, TypeOK, Goto, Labels
  <2>29. CASE RelZero(p)
    BY <2>0, <2>29 DEF RelZero, TypeOK, shm, Goto, Labels, LockLabels, UnlockLabels, Callback
  <2>30. CASE Sigint(p)
    <3>1. loc' \in [Procs -> Locals]
      BY <2>0, <2>30 DEF Sigint, Halt, Locals
    <3> QED BY <2>0, <2>30, <3>1 DEF Sigint, Halt, TypeOK, shm, Goto, Labels, LockLabels, UnlockLabels, Callback
  <2>31. CASE SigintInLock(p)
    <3>1. loc' \in [Procs -> Locals]
      BY <2>0, <2>31 DEF SigintInLock, Halt, AfterLock, Locals
    <3> QED BY <2>0, <2>31, <3>1 DEF SigintInLock, Halt, AfterLock, TypeOK, shm, Goto, Labels, LockLabels, UnlockLabels, Callback
  <2>32. CASE SigintInSend(p)
    <3>1. loc' \in [Procs -> Locals]
      BY <2>0, <2>32 DEF SigintInSend, Halt, Locals
    <3> QED BY <2>0, <2>32, <3>1 DEF SigintInSend, Halt, TypeOK, shm, Goto, Labels, LockLabels, UnlockLabels, Callback
  <2>33. CASE Kill(p)
    BY <2>0, <2>33 DEF Kill, TypeOK, shm, Goto, Labels, LockLabels, UnlockLabels, Callback
  <2>34. ASSUME NEW t \in Tasks, PostCall(p, t) PROVE TypeOK'
    <3>1. PICK m \in Stamps \cup {now} :
            /\ loc' = [loc EXCEPT ![p].out = AddMessage(t, m)]
            /\ hist' = [hist EXCEPT !.posted = @ \cup {t}, !.at[t] = m]
      BY <2>34 DEF PostCall
    <3>2. m \in Nat
      BY <2>0, DataAssumption
    <3>3. hist' \in History
      BY <2>0, <3>1, <3>2, HistoryPosted
    <3>4. AddMessage(t, m) \in Message
      BY <3>2, Pieces
    <3>5. loc' \in [Procs -> Locals]
      BY <2>0, <3>1, <3>4 DEF Locals
    <3> QED BY <2>34, <3>3, <3>5 DEF PostCall, Calls, TypeOK, shm, Goto, Labels, Callback
  <2>35. ASSUME NEW u \in Uuids, DeleteCall(p, u) PROVE TypeOK'
    <3>1. hist' \in History
      BY <2>0, <2>35, HistoryCounts DEF DeleteCall
    <3>2. loc' \in [Procs -> Locals]
      BY <2>0, <2>35, Pieces DEF DeleteCall, Locals
    <3> QED BY <2>35, <3>1, <3>2 DEF DeleteCall, Calls, TypeOK, shm, Goto, Labels, Callback
  <2>36. CASE RecvLost(p)
    BY <2>36 DEF RecvLost, TypeOK, shm, Goto, Labels
  <2>37. CASE CronLost(p)
    <3>1. loc' \in [Procs -> Locals]
      BY <2>0, <2>37, QueueTypes, LocalsList DEF CronLost, CronDue, HeadDeleted
    <3> QED BY <2>37, <3>1, DataAssumption DEF CronLost, AfterFree, TypeOK, shm, Goto, Labels, UnlockLabels
  <2>38. CASE Throw(p)
    <3>1. loc' \in [Procs -> Locals]
      BY <2>0, <2>38 DEF Throw, Locals
    <3> QED BY <2>38, <3>1 DEF Throw, TypeOK, shm
  <2>39. CASE Recv(p)
    <3>1. Head(mq.msgs) \in Message /\ Tail(mq.msgs) \in Seq(Message)
      BY <2>39, QueueTypes DEF Recv, Receives
    <3>2. loc' \in [Procs -> Locals]
      BY <2>0, <2>39, <3>1 DEF Recv, Locals
    <3> QED BY <2>39, <3>1, <3>2 DEF Recv, TypeOK, shm, Goto, Labels
  <2> QED
    BY <1>4, <2>1, <2>2, <2>3, <2>4, <2>5, <2>6, <2>7, <2>8, <2>9, <2>10, <2>11, <2>12, <2>13, <2>14, <2>15, <2>16, <2>17, <2>18, <2>19, <2>20, <2>21, <2>22, <2>23, <2>24, <2>25, <2>26, <2>27, <2>28, <2>29, <2>30, <2>31, <2>32, <2>33, <2>34, <2>35, <2>36, <2>37, <2>38, <2>39
    DEF WorkerStep, CallStep, ScriptStep, Fault
<1> QED BY <1>1, <1>2, <1>3, <1>4 DEF Next

\* What each step does to the head of a crontab and to who is calling.
LEMMA CronHeadInductive == TypeInv /\ [Next]_vars => CronHead'
<1> SUFFICES ASSUME TypeInv, [Next]_vars PROVE CronHead'
  OBVIOUS
<1> USE DEF TypeInv, CronHead, Calling
<1>1. CASE UNCHANGED vars
  BY <1>1 DEF vars
<1>2. CASE Tick
  BY <1>2 DEF Tick
<1>3. CASE Done
  BY <1>3 DEF Done, vars
<1>4. ASSUME NEW p \in Procs,
             WorkerStep(p) \/ CallStep(p) \/ Lock(p) \/ Unlock(p) \/ ScriptStep(p) \/ Fault(p)
      PROVE  CronHead'
  <2>0. pc \in [Procs -> Labels] /\ caller \in [Procs -> {"idle"} \cup Callback]
        /\ loc \in [Procs -> Locals] /\ loc[p] \in Locals
    BY DEF TypeOK
  <2>1. CASE Boot(p)
    BY <2>0, <2>1 DEF Boot, Goto
  <2>2. CASE Run(p)
    BY <2>0, <2>2 DEF Run, Goto
  <2>3. CASE Inc(p)
    BY <2>0, <2>3 DEF Inc, Goto
  <2>4. CASE Check(p)
    BY <2>0, <2>4 DEF Check, Goto
  <2>5. CASE Time(p)
    BY <2>0, <2>5 DEF Time, Goto
  <2>6. CASE RecvNone(p)
    BY <2>0, <2>6 DEF RecvNone, Goto
  <2>7. CASE RecvNow(p)
    BY <2>0, <2>7 DEF RecvNow, Received, Goto
  <2>8. CASE RecvLater(p)
    BY <2>0, <2>8 DEF RecvLater, Received, Goto
  <2>9. CASE RecvDelete(p)
    BY <2>0, <2>9 DEF RecvDelete, Received, Goto
  <2>10. CASE DeleteNode(p)
    BY <2>0, <2>10, DataAssumption DEF DeleteNode, AfterFree, Goto
  <2>11. CASE DeleteDone(p)
    BY <2>0, <2>11 DEF DeleteDone, Goto
  <2>12. CASE Count(p)
    BY <2>0, <2>12 DEF Count, Goto
  <2>13. CASE Return(p)
    BY <2>0, <2>13 DEF Return, Goto
  <2>14. CASE ListCrash(p)
    BY <2>0, <2>14 DEF ListCrash, Received, Goto
  <2>15. CASE CronEnd(p)
    BY <2>0, <2>15 DEF CronEnd, Goto
  <2>16. CASE CronReturn(p)
    BY <2>0, <2>16, DataAssumption DEF CronReturn, AfterFree, Goto
  <2>17. CASE Stop(p)
    BY <2>0, <2>17 DEF Stop, Goto
  <2>18. CASE InfoCrash(p)
    BY <2>0, <2>18 DEF InfoCrash, Goto
  <2>19. CASE Exit(p)
    BY <2>0, <2>19 DEF Exit, Goto
  <2>20. CASE RelRead(p)
    BY <2>0, <2>20 DEF RelRead, Goto
  <2>21. CASE RelWrite(p)
    BY <2>0, <2>21 DEF RelWrite, Goto
  <2>22. CASE RelZero(p)
    BY <2>0, <2>22 DEF RelZero, Goto
  <2>23. CASE Kill(p)
    BY <2>0, <2>23 DEF Kill, Goto
  <2>24. CASE Lock(p)
    BY <2>0, <2>24 DEF Lock, AfterLock, LockLabels, Goto
  <2>25. CASE Unlock(p)
    BY <2>0, <2>25 DEF Unlock, AfterUnlock, UnlockLabels, Goto
  <2>26. CASE CronRun(p)
    BY <2>0, <2>26 DEF CronRun, CronDue, Goto
  <2>27. CASE Send(p)
    BY <2>0, <2>27 DEF Send, Locals, Goto
  <2>28. CASE SendFail(p)
    BY <2>0, <2>28 DEF SendFail, Locals, Goto
  <2>29. CASE ClearCall(p)
    BY <2>0, <2>29 DEF ClearCall, Calls, Callback, Goto
  <2>30. CASE Clear(p)
    BY <2>0, <2>30 DEF Clear, Goto
  <2>31. CASE Sigint(p)
    BY <2>0, <2>31 DEF Sigint, Halt, Locals, Goto
  <2>32. CASE SigintInLock(p)
    BY <2>0, <2>32 DEF SigintInLock, Halt, AfterLock, LockLabels, Locals, Goto
  <2>33. CASE SigintInSend(p)
    BY <2>0, <2>33 DEF SigintInSend, Halt, Locals, Goto
  <2>34. ASSUME NEW t \in Tasks, PostCall(p, t) PROVE CronHead'
    BY <2>0, <2>34 DEF PostCall, Calls, Callback, Goto, Locals
  <2>35. ASSUME NEW u \in Uuids, DeleteCall(p, u) PROVE CronHead'
    BY <2>0, <2>35 DEF DeleteCall, Calls, Callback, Goto, Locals
  <2>36. CASE RecvLost(p)
    BY <2>0, <2>36 DEF RecvLost, Received, Goto
  <2>37. CASE CronLost(p)
    BY <2>0, <2>37, DataAssumption DEF CronLost, AfterFree, Goto
  <2>38. CASE Throw(p)
    BY <2>0, <2>38 DEF Throw, Locals
  <2>39. CASE Recv(p)
    BY <2>0, <2>39 DEF Recv, Locals, Goto
  <2> QED
    BY <1>4, <2>1, <2>2, <2>3, <2>4, <2>5, <2>6, <2>7, <2>8, <2>9, <2>10, <2>11, <2>12, <2>13, <2>14, <2>15, <2>16, <2>17, <2>18, <2>19, <2>20, <2>21, <2>22, <2>23, <2>24, <2>25, <2>26, <2>27, <2>28, <2>29, <2>30, <2>31, <2>32, <2>33, <2>34, <2>35, <2>36, <2>37, <2>38, <2>39
    DEF WorkerStep, CallStep, ScriptStep, Fault
<1> QED BY <1>1, <1>2, <1>3, <1>4 DEF Next

\* TypeInv holds in every reachable state.
LEMMA TypeInvariant == Spec => []TypeInv
<1>1. Init => TypeInv
  <2> SUFFICES ASSUME Init PROVE TypeInv
    OBVIOUS
  <2>mq. mq \in [id : Nat, live : BOOLEAN, may : SUBSET Procs, msgs : Seq(Message)]
    BY EmptySeq DEF Init
  <2>hist. hist \in History
    BY DEF Init, History
  <2>loc. loc \in [Procs -> Locals]
    BY Pieces DEF Init
  <2>shm. running \in Int /\ qnum \in Nat /\ slock \in Nat /\ now \in Nat
    BY DEF Init
  <2>pc. /\ pc \in [Procs -> Labels] /\ caller \in [Procs -> {"idle"} \cup Callback]
         /\ held \in [Procs -> BOOLEAN] /\ eintr \in BOOLEAN
    BY DEF Init, Labels
  <2>head. CronHead
    BY DEF Init, CronHead, Calling
  <2> QED BY <2>mq, <2>hist, <2>loc, <2>shm, <2>pc, <2>head DEF TypeInv, TypeOK
<1>2. TypeInv /\ [Next]_vars => TypeInv'
  BY TypeInductive, CronHeadInductive DEF TypeInv
<1> QED BY <1>1, <1>2, PTL DEF Spec

\* Every reachable state is well typed.
THEOREM TypeCorrect == Spec => []TypeOK
<1>1. TypeInv => TypeOK
  BY DEF TypeInv
<1> QED BY <1>1, TypeInvariant, PTL

--------------------------------------------------------------------------------
(* The lock.                                                               *)

\* Who is in a critical section has the lock, and no clear begun in a callback
\* gets as far as the lock its worker holds.
LockInv ==
  /\ LockCounted
  /\ ~eintr => \A p \in Procs :
       /\ InCS(p) => held[p]
       /\ pc[p] \in {"clear", "clearUnlock"} => caller[p] = "idle"

\* Every step keeps LockInv.
LEMMA LockInductive == TypeOK /\ LockInv /\ [Next]_vars => LockInv'
<1> SUFFICES ASSUME TypeOK, LockInv, [Next]_vars, ~eintr' PROVE LockInv'
  BY DEF LockInv, LockCounted
<1>0. /\ pc \in [Procs -> Labels] /\ caller \in [Procs -> {"idle"} \cup Callback]
      /\ held \in [Procs -> BOOLEAN] /\ eintr \in BOOLEAN /\ slock \in Nat
  BY DEF TypeOK
<1> USE DEF LockInv, LockCounted, InCS, Inside, Callback, UnlockLabels
<1>1. CASE UNCHANGED vars
  BY <1>1 DEF vars
<1>2. CASE Tick
  BY <1>2 DEF Tick, shm
<1>3. CASE Done
  BY <1>3 DEF Done, vars
<1>4. ASSUME NEW p \in Procs,
             WorkerStep(p) \/ CallStep(p) \/ Lock(p) \/ Unlock(p) \/ ScriptStep(p) \/ Fault(p)
      PROVE  LockInv'
  <2>1. CASE Boot(p)
    BY <1>0, <2>1 DEF Boot, Goto, shm
  <2>2. CASE Run(p)
    BY <1>0, <2>2 DEF Run, Goto, shm
  <2>3. CASE Inc(p)
    BY <1>0, <2>3 DEF Inc, Goto, shm
  <2>4. CASE Check(p)
    BY <1>0, <2>4 DEF Check, Goto, shm
  <2>5. CASE Time(p)
    BY <1>0, <2>5 DEF Time, Goto, shm
  <2>6. CASE RecvNone(p)
    BY <1>0, <2>6 DEF RecvNone, Goto, shm
  <2>7. CASE RecvNow(p)
    BY <1>0, <2>7 DEF RecvNow, Received, Goto, shm
  <2>8. CASE RecvLater(p)
    BY <1>0, <2>8 DEF RecvLater, Received, Goto, shm
  <2>9. CASE RecvDelete(p)
    BY <1>0, <2>9 DEF RecvDelete, Received, Goto, shm
  <2>10. CASE DeleteNode(p)
    BY <1>0, <2>10, DataAssumption DEF DeleteNode, AfterFree, Goto, shm
  <2>11. CASE DeleteDone(p)
    BY <1>0, <2>11 DEF DeleteDone, Goto, shm
  <2>12. CASE Count(p)
    BY <1>0, <2>12 DEF Count, Goto, shm
  <2>13. CASE Return(p)
    BY <1>0, <2>13 DEF Return, Goto, shm
  <2>14. CASE ListCrash(p)
    BY <1>0, <2>14 DEF ListCrash, Received, Goto, shm
  <2>15. CASE CronRun(p)
    BY <1>0, <2>15 DEF CronRun, Goto, shm
  <2>16. CASE CronEnd(p)
    BY <1>0, <2>16 DEF CronEnd, Goto, shm
  <2>17. CASE CronReturn(p)
    BY <1>0, <2>17, DataAssumption DEF CronReturn, AfterFree, Goto, shm
  <2>18. CASE Stop(p)
    BY <1>0, <2>18 DEF Stop, Goto, shm
  <2>19. CASE Send(p)
    BY <1>0, <2>19 DEF Send, Goto, shm
  <2>20. CASE SendFail(p)
    BY <1>0, <2>20 DEF SendFail, Goto, shm
  <2>21. CASE ClearCall(p)
    BY <1>0, <2>21 DEF ClearCall, Calls, Goto, shm
  <2>22. CASE Clear(p)
    BY <1>0, <2>22 DEF Clear, Goto, shm
  <2>23. CASE InfoCrash(p)
    BY <1>0, <2>23 DEF InfoCrash, Goto, shm
  <2>24. CASE Exit(p)
    BY <1>0, <2>24 DEF Exit, Goto, shm
  <2>25. CASE RelRead(p)
    BY <1>0, <2>25 DEF RelRead, Goto, shm
  <2>26. CASE RelWrite(p)
    BY <1>0, <2>26 DEF RelWrite, Goto, shm
  <2>27. CASE RelZero(p)
    BY <1>0, <2>27 DEF RelZero, Goto, shm
  <2>28. CASE Sigint(p)
    BY <1>0, <2>28 DEF Sigint, Halt, Goto, shm
  <2>29. CASE SigintInLock(p)
    BY <1>0, <2>29 DEF SigintInLock, Halt, Goto, shm
  <2>30. CASE SigintInSend(p)
    BY <1>0, <2>30 DEF SigintInSend, Halt, Goto, shm
  <2>31. CASE Kill(p)
    BY <1>0, <2>31 DEF Kill, Goto, shm
  <2>32. CASE Lock(p)
    BY <1>0, <2>32 DEF Lock, LockFree, AfterLock, LockLabels, Goto
  <2>33. CASE Unlock(p)
    BY <1>0, <2>33 DEF Unlock, Unlocked, AfterUnlock, Goto
  <2>34. ASSUME NEW t \in Tasks, PostCall(p, t) PROVE LockInv'
    BY <1>0, <2>34 DEF PostCall, Calls, Goto, shm
  <2>35. ASSUME NEW u \in Uuids, DeleteCall(p, u) PROVE LockInv'
    BY <1>0, <2>35 DEF DeleteCall, Calls, Goto, shm
  <2>36. CASE RecvLost(p)
    BY <1>0, <2>36 DEF RecvLost, Received, Goto, shm
  <2>37. CASE CronLost(p)
    BY <1>0, <2>37, DataAssumption DEF CronLost, AfterFree, Goto, shm
  <2>38. CASE Throw(p)
    BY <1>0, <2>38 DEF Throw, shm
  <2>39. CASE Recv(p)
    BY <1>0, <2>39 DEF Recv, Goto, shm
  <2> QED
    BY <1>4, <2>1, <2>2, <2>3, <2>4, <2>5, <2>6, <2>7, <2>8, <2>9, <2>10, <2>11, <2>12, <2>13, <2>14, <2>15, <2>16, <2>17, <2>18, <2>19, <2>20, <2>21, <2>22, <2>23, <2>24, <2>25, <2>26, <2>27, <2>28, <2>29, <2>30, <2>31, <2>32, <2>33, <2>34, <2>35, <2>36, <2>37, <2>38, <2>39
    DEF WorkerStep, CallStep, ScriptStep, Fault
<1> QED BY <1>1, <1>2, <1>3, <1>4 DEF Next

\* As long as no sem_wait has failed with EINTR, the semaphore counts its holder.
THEOREM LockIsCounted == Spec => []LockCounted
<1>1. Init => LockInv
  BY DEF Init, LockInv, LockCounted, InCS, Inside, Callback, UnlockLabels
<1>2. TypeOK /\ LockInv /\ [Next]_vars => LockInv'
  BY LockInductive
<1>3. LockInv => LockCounted
  BY DEF LockInv
<1> QED BY <1>1, <1>2, <1>3, TypeCorrect, PTL DEF Spec

\* As long as no sem_wait has failed with EINTR, two processes are never both in
\* a critical section, however many there are and whichever of them die.
THEOREM Exclusion == Spec => []MutualExclusion
<1>1. Init => LockInv
  BY DEF Init, LockInv, LockCounted, InCS, Inside, Callback, UnlockLabels
<1>2. TypeOK /\ LockInv /\ [Next]_vars => LockInv'
  BY LockInductive
<1>3. LockInv => MutualExclusion
  BY DEF LockInv, LockCounted, MutualExclusion
<1> QED BY <1>1, <1>2, <1>3, TypeCorrect, PTL DEF Spec

--------------------------------------------------------------------------------
(* The crontab.                                                            *)

\* The crontab that listCreate makes, and that run leaves, is sorted.
LEMMA EmptySorted == Sorted(<<>>)
  BY DEF Sorted

\* Five steps change a crontab; each of them keeps its order.
LEMMA SortedInductive == TypeInv /\ CrontabSorted /\ [Next]_vars => CrontabSorted'
<1> SUFFICES ASSUME TypeInv, CrontabSorted, [Next]_vars PROVE CrontabSorted'
  OBVIOUS
<1> USE DEF CrontabSorted
<1>0. loc \in [Procs -> Locals] /\ \A q \in Procs : loc[q].list \in Seq(Node)
  BY DEF TypeInv, TypeOK, Locals
<1>1. CASE UNCHANGED vars
  BY <1>1 DEF vars
<1>2. CASE Tick
  BY <1>2 DEF Tick
<1>3. CASE Done
  BY <1>3 DEF Done, vars
<1>4. ASSUME NEW p \in Procs,
             WorkerStep(p) \/ CallStep(p) \/ Lock(p) \/ Unlock(p) \/ ScriptStep(p) \/ Fault(p)
      PROVE  CrontabSorted'
  <2>1. CASE Boot(p)
    BY <1>0, <2>1 DEF Boot, Locals
  <2>2. CASE Run(p)
    BY <1>0, <2>2 DEF Run, Locals
  <2>3. CASE Inc(p)
    BY <1>0, <2>3 DEF Inc, Locals
  <2>4. CASE Check(p)
    BY <1>0, <2>4 DEF Check, Locals
  <2>5. CASE Lock(p)
    BY <1>0, <2>5 DEF Lock, Locals
  <2>6. CASE Unlock(p)
    BY <1>0, <2>6 DEF Unlock, Locals
  <2>7. CASE Time(p)
    BY <1>0, <2>7 DEF Time, Locals
  <2>8. CASE RecvNone(p)
    BY <1>0, <2>8 DEF RecvNone, Locals
  <2>9. CASE RecvNow(p)
    BY <1>0, <2>9 DEF RecvNow, Locals
  <2>10. CASE RecvDelete(p)
    BY <1>0, <2>10 DEF RecvDelete, Locals
  <2>11. CASE DeleteDone(p)
    BY <1>0, <2>11 DEF DeleteDone, Locals
  <2>12. CASE Count(p)
    BY <1>0, <2>12 DEF Count, Locals
  <2>13. CASE Return(p)
    BY <1>0, <2>13 DEF Return, Locals
  <2>14. CASE ListCrash(p)
    BY <1>0, <2>14 DEF ListCrash, Received, Locals
  <2>15. CASE CronRun(p)
    BY <1>0, <2>15 DEF CronRun, Locals
  <2>16. CASE CronEnd(p)
    BY <1>0, <2>16 DEF CronEnd, Locals
  <2>17. CASE Send(p)
    BY <1>0, <2>17 DEF Send, Locals
  <2>18. CASE SendFail(p)
    BY <1>0, <2>18 DEF SendFail, Locals
  <2>19. CASE ClearCall(p)
    BY <1>0, <2>19 DEF ClearCall, Locals
  <2>20. CASE Clear(p)
    BY <1>0, <2>20 DEF Clear, Locals
  <2>21. CASE InfoCrash(p)
    BY <1>0, <2>21 DEF InfoCrash, Locals
  <2>22. CASE Exit(p)
    BY <1>0, <2>22 DEF Exit, Locals
  <2>23. CASE RelRead(p)
    BY <1>0, <2>23 DEF RelRead, Locals
  <2>24. CASE RelWrite(p)
    BY <1>0, <2>24 DEF RelWrite, Locals
  <2>25. CASE RelZero(p)
    BY <1>0, <2>25 DEF RelZero, Locals
  <2>26. CASE Sigint(p)
    BY <1>0, <2>26 DEF Sigint, Halt, Locals
  <2>27. CASE SigintInLock(p)
    BY <1>0, <2>27 DEF SigintInLock, Halt, Locals
  <2>28. CASE SigintInSend(p)
    BY <1>0, <2>28 DEF SigintInSend, Halt, Locals
  <2>29. CASE Kill(p)
    BY <1>0, <2>29 DEF Kill, Locals
  <2>30. ASSUME NEW t \in Tasks, PostCall(p, t) PROVE CrontabSorted'
    BY <1>0, <2>30 DEF PostCall, Locals
  <2>31. ASSUME NEW u \in Uuids, DeleteCall(p, u) PROVE CrontabSorted'
    BY <1>0, <2>31 DEF DeleteCall, Locals
  <2>32. CASE RecvLater(p)
    <3>1. loc[p].msg \in Message
      BY DEF TypeInv, TypeOK, Locals
    <3>2. Sorted(Insert(loc[p].list, NodeOf(loc[p].msg)))
      BY <1>0, <3>1, Pieces, InsertSorted
    <3>3. loc'[p].list = Insert(loc[p].list, NodeOf(loc[p].msg))
      BY <1>0, <2>32 DEF RecvLater, Locals
    <3>4. \A q \in Procs \ {p} : loc'[q].list = loc[q].list
      BY <1>0, <2>32 DEF RecvLater
    <3> QED BY <3>2, <3>3, <3>4
  <2>33. CASE DeleteNode(p)
    <3>1. PICK i \in Hits(p) : loc' = [loc EXCEPT ![p].list = RemoveAt(@, i)]
      BY <2>33 DEF DeleteNode
    <3>2. i \in 1 .. Len(loc[p].list)
      BY <1>0, LenProperties DEF Hits
    <3>3. Sorted(RemoveAt(loc[p].list, i))
      BY <1>0, <3>2, Pieces, RemoveAtSorted
    <3>4. loc'[p].list = RemoveAt(loc[p].list, i)
      BY <1>0, <3>1 DEF Locals
    <3>5. \A q \in Procs \ {p} : loc'[q].list = loc[q].list
      BY <1>0, <3>1
    <3> QED BY <3>3, <3>4, <3>5
  <2>34. CASE CronReturn(p)
    <3>1. loc[p].list # <<>>
      BY <2>34 DEF CronReturn, TypeInv, CronHead
    <3>2. Sorted(Tail(loc[p].list))
      BY <1>0, <3>1, Pieces, TailSorted
    <3>3. loc'[p].list = Tail(loc[p].list)
      BY <1>0, <2>34 DEF CronReturn, HeadDeleted, Locals
    <3>4. \A q \in Procs \ {p} : loc'[q].list = loc[q].list
      BY <1>0, <2>34 DEF CronReturn
    <3> QED BY <3>2, <3>3, <3>4
  <2>35. CASE Stop(p)
    <3>1. loc'[p].list = <<>>
      BY <1>0, <2>35 DEF Stop, Locals
    <3>2. \A q \in Procs \ {p} : loc'[q].list = loc[q].list
      BY <1>0, <2>35 DEF Stop
    <3> QED BY <3>1, <3>2, EmptySorted
  <2>36. CASE RecvLost(p)
    BY <1>0, <2>36 DEF RecvLost, Locals
  <2>37. CASE CronLost(p)
    <3>1. loc[p].list # <<>>
      BY <2>37 DEF CronLost, CronDue
    <3>2. Sorted(Tail(loc[p].list))
      BY <1>0, <3>1, Pieces, TailSorted
    <3>3. loc'[p].list = Tail(loc[p].list)
      BY <1>0, <2>37 DEF CronLost, HeadDeleted, Locals
    <3>4. \A q \in Procs \ {p} : loc'[q].list = loc[q].list
      BY <1>0, <2>37 DEF CronLost
    <3> QED BY <3>2, <3>3, <3>4
  <2>38. CASE Throw(p)
    BY <1>0, <2>38 DEF Throw, Locals
  <2>39. CASE Recv(p)
    BY <1>0, <2>39 DEF Recv, Locals
  <2> QED
    BY <1>4, <2>1, <2>2, <2>3, <2>4, <2>5, <2>6, <2>7, <2>8, <2>9, <2>10, <2>11, <2>12, <2>13, <2>14, <2>15, <2>16, <2>17, <2>18, <2>19, <2>20, <2>21, <2>22, <2>23, <2>24, <2>25, <2>26, <2>27, <2>28, <2>29, <2>30, <2>31, <2>32, <2>33, <2>34, <2>35, <2>36, <2>37, <2>38, <2>39
    DEF WorkerStep, CallStep, ScriptStep, Fault
<1> QED BY <1>1, <1>2, <1>3, <1>4 DEF Next

\* The crontab of every worker is in order of time in every reachable state,
\* whatever is posted, deleted, or read from a freed node.
THEOREM CrontabIsSorted == Spec => []CrontabSorted
<1>1. Init => CrontabSorted
  BY EmptySorted DEF Init, CrontabSorted, Unloaded
<1>2. TypeInv /\ CrontabSorted /\ [Next]_vars => CrontabSorted'
  BY SortedInductive
<1> QED BY <1>1, <1>2, TypeInvariant, PTL DEF Spec

--------------------------------------------------------------------------------
(* The count of workers.                                                   *)

\* `running` is read and written back in two steps, at the start of a worker
\* without the lock.  It falls below 0 only under the lock, in the release that is
\* about to reset it, or for good if that process dies there.
CountInv ==
  ~eintr =>
    /\ running >= -1
    /\ running < 0 => \E p \in Procs : held[p] /\ pc[p] \in {"relZ", "dead"}
    /\ \A p \in Procs : /\ pc[p] = "inc" => loc[p].reg >= -1
                        /\ pc[p] = "relW" => loc[p].reg >= 0

\* Every step keeps CountInv; that a release finds nobody else inside is LockInv.
LEMMA CountInductive == TypeOK /\ LockInv /\ CountInv /\ [Next]_vars => CountInv'
<1> SUFFICES ASSUME TypeOK, LockInv, CountInv, [Next]_vars, ~eintr' PROVE CountInv'
  BY DEF CountInv
<1>0. /\ pc \in [Procs -> Labels] /\ loc \in [Procs -> Locals] /\ held \in [Procs -> BOOLEAN]
      /\ eintr \in BOOLEAN /\ running \in Int /\ slock \in Nat
      /\ caller \in [Procs -> {"idle"} \cup Callback]
      /\ \A q \in Procs : loc[q].reg \in Int
  BY DEF TypeOK, Locals
<1> USE DEF CountInv, Callback
<1>1. CASE UNCHANGED vars
  BY <1>1 DEF vars
<1>2. CASE Tick
  BY <1>2 DEF Tick, shm
<1>3. CASE Done
  BY <1>3 DEF Done, vars
<1>4. ASSUME NEW p \in Procs,
             WorkerStep(p) \/ CallStep(p) \/ Lock(p) \/ Unlock(p) \/ ScriptStep(p) \/ Fault(p)
      PROVE  CountInv'
  <2>1. CASE Boot(p)
    BY <1>0, <2>1 DEF Boot, Goto, shm, Locals
  <2>2. CASE Run(p)
    BY <1>0, <2>2 DEF Run, Goto, shm, Locals
  <2>3. CASE Inc(p)
    BY <1>0, <2>3 DEF Inc, Raised, Goto, Locals
  <2>4. CASE Check(p)
    BY <1>0, <2>4 DEF Check, Goto, shm, Locals
  <2>5. CASE Time(p)
    BY <1>0, <2>5 DEF Time, Goto, shm, Locals
  <2>6. CASE RecvNone(p)
    BY <1>0, <2>6 DEF RecvNone, Goto, shm, Locals
  <2>7. CASE RecvNow(p)
    BY <1>0, <2>7 DEF RecvNow, Received, Goto, shm, Locals
  <2>8. CASE RecvLater(p)
    BY <1>0, <2>8 DEF RecvLater, Received, Goto, shm, Locals
  <2>9. CASE RecvDelete(p)
    BY <1>0, <2>9 DEF RecvDelete, Received, Goto, shm, Locals
  <2>10. CASE DeleteNode(p)
    BY <1>0, <2>10, DataAssumption DEF DeleteNode, AfterFree, Goto, shm, Locals
  <2>11. CASE DeleteDone(p)
    BY <1>0, <2>11 DEF DeleteDone, Goto, shm, Locals
  <2>12. CASE Count(p)
    BY <1>0, <2>12 DEF Count, Goto, Locals
  <2>13. CASE Return(p)
    BY <1>0, <2>13 DEF Return, Goto, shm, Locals
  <2>14. CASE ListCrash(p)
    BY <1>0, <2>14 DEF ListCrash, Received, Goto, shm, Locals
  <2>15. CASE CronRun(p)
    BY <1>0, <2>15 DEF CronRun, Goto, shm, Locals
  <2>16. CASE CronEnd(p)
    BY <1>0, <2>16 DEF CronEnd, Goto, shm, Locals
  <2>17. CASE CronReturn(p)
    BY <1>0, <2>17, DataAssumption DEF CronReturn, AfterFree, Goto, shm, Locals
  <2>18. CASE Stop(p)
    BY <1>0, <2>18 DEF Stop, Goto, shm, Locals
  <2>19. CASE Send(p)
    BY <1>0, <2>19 DEF Send, Goto, shm, Locals
  <2>20. CASE SendFail(p)
    BY <1>0, <2>20 DEF SendFail, Goto, shm, Locals
  <2>21. CASE ClearCall(p)
    BY <1>0, <2>21 DEF ClearCall, Calls, Goto, shm, Locals
  <2>22. CASE Clear(p)
    BY <1>0, <2>22 DEF Clear, Goto, Locals
  <2>23. CASE InfoCrash(p)
    BY <1>0, <2>23 DEF InfoCrash, Goto, shm, Locals
  <2>24. CASE Exit(p)
    BY <1>0, <2>24 DEF Exit, Goto, shm, Locals
  <2>25. CASE RelRead(p)
    <3>1. ~eintr /\ pc[p] = "relR" /\ running' = running /\ held' = held
      BY <2>25 DEF RelRead, shm
    <3>2. running >= 0
      BY <1>0, <3>1 DEF LockInv, LockCounted, InCS, Inside
    <3> QED BY <1>0, <2>25, <3>1, <3>2 DEF RelRead, Goto, Locals
  <2>26. CASE RelWrite(p)
    <3>1. ~eintr /\ pc[p] = "relW" /\ held' = held /\ held[p]
      BY <1>0, <2>26 DEF RelWrite, LockInv, InCS, Inside
    <3> QED BY <1>0, <2>26, <3>1 DEF RelWrite, Goto, Locals
  <2>27. CASE RelZero(p)
    BY <1>0, <2>27 DEF RelZero, LastOut, Goto, Locals
  <2>28. CASE Sigint(p)
    BY <1>0, <2>28 DEF Sigint, Halt, shm, Locals
  <2>29. CASE SigintInLock(p)
    BY <1>0, <2>29 DEF SigintInLock, Halt, Goto, shm, Locals
  <2>30. CASE SigintInSend(p)
    BY <1>0, <2>30 DEF SigintInSend, Halt, Goto, shm, Locals
  <2>31. CASE Kill(p)
    BY <1>0, <2>31 DEF Kill, Goto, shm, Locals
  <2>32. CASE Lock(p)
    <3>1. /\ ~eintr /\ running' = running /\ loc' = loc
          /\ pc'[p] \in {"time", "clear", "relR"} /\ \A q \in Procs \ {p} : pc'[q] = pc[q]
          /\ held' = [held EXCEPT ![p] = TRUE]
          /\ slock > 0
      BY <1>0, <2>32 DEF Lock, LockFree, AfterLock, LockLabels, Goto
    <3>2. running >= 0
      BY <1>0, <3>1 DEF LockInv, LockCounted
    <3> QED BY <1>0, <3>1, <3>2
  <2>33. CASE Unlock(p)
    <3>1. /\ ~eintr /\ running' = running /\ loc' = loc
          /\ pc[p] \in UnlockLabels /\ \A q \in Procs \ {p} : pc'[q] = pc[q]
          /\ held' = [held EXCEPT ![p] = FALSE]
      BY <1>0, <2>33 DEF Unlock, Goto
    <3>2. pc'[p] \notin {"inc", "relW"}
      BY <1>0, <2>33 DEF Unlock, AfterUnlock, UnlockLabels, Goto, TypeOK, Callback
    <3>3. running >= 0
      BY <1>0, <3>1 DEF LockInv, LockCounted, InCS, Inside, UnlockLabels
    <3> QED BY <1>0, <3>1, <3>2, <3>3
  <2>34. ASSUME NEW t \in Tasks, PostCall(p, t) PROVE CountInv'
    BY <1>0, <2>34 DEF PostCall, Calls, Goto, shm, Locals
  <2>35. ASSUME NEW u \in Uuids, DeleteCall(p, u) PROVE CountInv'
    BY <1>0, <2>35 DEF DeleteCall, Calls, Goto, shm, Locals
  <2>36. CASE RecvLost(p)
    BY <1>0, <2>36 DEF RecvLost, Received, Goto, shm, Locals
  <2>37. CASE CronLost(p)
    BY <1>0, <2>37, DataAssumption DEF CronLost, AfterFree, Goto, shm, Locals
  <2>38. CASE Throw(p)
    BY <1>0, <2>38 DEF Throw, shm, Locals
  <2>39. CASE Recv(p)
    BY <1>0, <2>39 DEF Recv, Goto, shm, Locals
  <2> QED
    BY <1>4, <2>1, <2>2, <2>3, <2>4, <2>5, <2>6, <2>7, <2>8, <2>9, <2>10, <2>11, <2>12, <2>13, <2>14,
       <2>15, <2>16, <2>17, <2>18, <2>19, <2>20, <2>21, <2>22, <2>23, <2>24, <2>25, <2>26, <2>27, <2>28,
       <2>29, <2>30, <2>31, <2>32, <2>33, <2>34, <2>35, <2>36, <2>37, <2>38, <2>39
    DEF WorkerStep, CallStep, ScriptStep, Fault
<1> QED BY <1>1, <1>2, <1>3, <1>4 DEF Next

\* As long as no sem_wait has failed with EINTR, the lock is never free with a
\* negative count: no stale decrement stops the next worker before its first loop.
THEOREM CountNotNegative == Spec => []RunningNotNegative
<1>1. Init => LockInv /\ CountInv
  BY DEF Init, LockInv, LockCounted, InCS, Inside, Callback, UnlockLabels, CountInv
<1>2. TypeOK /\ LockInv /\ CountInv /\ [Next]_vars => LockInv' /\ CountInv'
  BY LockInductive, CountInductive
<1>3. TypeOK /\ LockInv /\ CountInv => RunningNotNegative
  BY DEF TypeOK, LockInv, LockCounted, CountInv, RunningNotNegative
<1> QED BY <1>1, <1>2, <1>3, TypeCorrect, PTL DEF Spec

--------------------------------------------------------------------------------
(* What a scan of the crontab leaves behind.                               *)

\* In a sorted crontab whose head is not due, no node is.
LEMMA HeadDecides ==
  ASSUME NEW list \in Seq(Node), Sorted(list), NEW ts \in Nat,
         list = <<>> \/ ~Due(Head(list), ts)
  PROVE  \A i \in DOMAIN list : ~Due(list[i], ts)
<1>1. DOMAIN list = 1 .. Len(list) /\ Len(list) \in Nat
  BY LenProperties
<1>2. \A i \in DOMAIN list : list[i].mtime \in Nat
  <2>1. \A i \in DOMAIN list : list[i] \in Node
    BY <1>1, ElementOfSeq
  <2> QED BY <2>1, Pieces DEF Timed
<1>3. SUFFICES ASSUME NEW i \in DOMAIN list PROVE ~Due(list[i], ts)
  OBVIOUS
<1>4. list # <<>> /\ 1 \in DOMAIN list /\ Head(list) = list[1]
  BY <1>1, <1>3, EmptySeq
<1>5. list[1].mtime <= list[i].mtime
  BY <1>1, <1>2, <1>3, <1>4 DEF Sorted
<1> QED BY <1>2, <1>3, <1>4, <1>5 DEF Due

\* Every step keeps NothingOverdue, as long as no freed node reads as the last one.
LEMMA OverdueInductive ==
  "null" \notin FreedNext /\ TypeInv /\ CrontabSorted /\ NothingOverdue /\ [Next]_vars
    => NothingOverdue'
<1> SUFFICES ASSUME "null" \notin FreedNext, TypeInv, CrontabSorted, NothingOverdue, [Next]_vars
            PROVE  NothingOverdue'
  OBVIOUS
<1>0. /\ pc \in [Procs -> Labels] /\ loc \in [Procs -> Locals]
      /\ caller \in [Procs -> {"idle"} \cup Callback]
      /\ \A q \in Procs : loc[q].list \in Seq(Node) /\ loc[q].ts \in Nat
  BY DEF TypeInv, TypeOK, Locals
<1> USE DEF NothingOverdue, Callback
<1>1. CASE UNCHANGED vars
  BY <1>1 DEF vars
<1>2. CASE Tick
  BY <1>2 DEF Tick, shm
<1>3. CASE Done
  BY <1>3 DEF Done, vars
<1>4. ASSUME NEW p \in Procs,
             WorkerStep(p) \/ CallStep(p) \/ Lock(p) \/ Unlock(p) \/ ScriptStep(p) \/ Fault(p)
      PROVE  NothingOverdue'
  <2>1. CASE Boot(p)
    BY <1>0, <2>1 DEF Boot, Goto, shm, Locals
  <2>2. CASE Run(p)
    BY <1>0, <2>2 DEF Run, Goto, shm, Locals
  <2>3. CASE Inc(p)
    BY <1>0, <2>3 DEF Inc, Raised, Goto, Locals
  <2>4. CASE Check(p)
    BY <1>0, <2>4 DEF Check, Goto, shm, Locals
  <2>5. CASE Time(p)
    BY <1>0, <2>5 DEF Time, Goto, shm, Locals
  <2>6. CASE RecvNone(p)
    BY <1>0, <2>6 DEF RecvNone, Goto, shm, Locals
  <2>7. CASE RecvNow(p)
    BY <1>0, <2>7 DEF RecvNow, Received, Goto, shm, Locals
  <2>8. CASE RecvLater(p)
    BY <1>0, <2>8 DEF RecvLater, Received, Goto, shm, Locals
  <2>9. CASE RecvDelete(p)
    BY <1>0, <2>9 DEF RecvDelete, Received, Goto, shm, Locals
  <2>10. CASE DeleteNode(p)
    BY <1>0, <2>10, DataAssumption DEF DeleteNode, AfterFree, Goto, shm, Locals
  <2>11. CASE DeleteDone(p)
    BY <1>0, <2>11 DEF DeleteDone, Goto, shm, Locals
  <2>12. CASE Count(p)
    BY <1>0, <2>12 DEF Count, Goto, Locals
  <2>13. CASE Return(p)
    BY <1>0, <2>13 DEF Return, Goto, shm, Locals
  <2>14. CASE ListCrash(p)
    BY <1>0, <2>14 DEF ListCrash, Received, Goto, shm, Locals
  <2>15. CASE CronRun(p)
    BY <1>0, <2>15 DEF CronRun, Goto, shm, Locals
  <2>16. CASE CronEnd(p)
    <3>1. /\ loc[p].list = <<>> \/ ~Due(Head(loc[p].list), loc[p].ts)
          /\ loc' = loc /\ \A q \in Procs \ {p} : pc'[q] = pc[q]
      BY <1>0, <2>16 DEF CronEnd, CronDue, Goto
    <3>2. \A i \in DOMAIN loc[p].list : ~Due(loc[p].list[i], loc[p].ts)
      BY <1>0, <3>1, HeadDecides DEF CrontabSorted
    <3> QED BY <3>1, <3>2
  <2>17. CASE CronReturn(p)
    BY <1>0, <2>17, DataAssumption DEF CronReturn, AfterFree, Goto, shm, Locals
  <2>18. CASE Stop(p)
    BY <1>0, <2>18 DEF Stop, Goto, shm, Locals
  <2>19. CASE Send(p)
    BY <1>0, <2>19 DEF Send, Goto, shm, Locals
  <2>20. CASE SendFail(p)
    BY <1>0, <2>20 DEF SendFail, Goto, shm, Locals
  <2>21. CASE ClearCall(p)
    BY <1>0, <2>21 DEF ClearCall, Calls, Goto, shm, Locals
  <2>22. CASE Clear(p)
    BY <1>0, <2>22 DEF Clear, Goto, Locals
  <2>23. CASE InfoCrash(p)
    BY <1>0, <2>23 DEF InfoCrash, Goto, shm, Locals
  <2>24. CASE Exit(p)
    BY <1>0, <2>24 DEF Exit, Goto, shm, Locals
  <2>25. CASE RelRead(p)
    BY <1>0, <2>25 DEF RelRead, Goto, shm, Locals
  <2>26. CASE RelWrite(p)
    BY <1>0, <2>26 DEF RelWrite, Goto, Locals
  <2>27. CASE RelZero(p)
    BY <1>0, <2>27 DEF RelZero, LastOut, Goto, Locals
  <2>28. CASE Sigint(p)
    BY <1>0, <2>28 DEF Sigint, Halt, shm, Locals
  <2>29. CASE SigintInLock(p)
    BY <1>0, <2>29 DEF SigintInLock, AfterLock, LockLabels, Halt, Goto, shm, Locals
  <2>30. CASE SigintInSend(p)
    BY <1>0, <2>30 DEF SigintInSend, Halt, Goto, shm, Locals
  <2>31. CASE Kill(p)
    BY <1>0, <2>31 DEF Kill, Goto, shm, Locals
  <2>32. CASE Lock(p)
    BY <1>0, <2>32 DEF Lock, AfterLock, LockLabels, Goto
  <2>33. CASE Unlock(p)
    BY <1>0, <2>33 DEF Unlock, AfterUnlock, UnlockLabels, Goto
  <2>34. ASSUME NEW t \in Tasks, PostCall(p, t) PROVE NothingOverdue'
    BY <1>0, <2>34 DEF PostCall, Calls, Goto, shm, Locals
  <2>35. ASSUME NEW u \in Uuids, DeleteCall(p, u) PROVE NothingOverdue'
    BY <1>0, <2>35 DEF DeleteCall, Calls, Goto, shm, Locals
  <2>36. CASE RecvLost(p)
    BY <1>0, <2>36 DEF RecvLost, Received, Goto, shm, Locals
  <2>37. CASE CronLost(p)
    BY <1>0, <2>37, DataAssumption DEF CronLost, AfterFree, Goto, shm, Locals
  <2>38. CASE Throw(p)
    BY <1>0, <2>38 DEF Throw, shm, Locals
  <2>39. CASE Recv(p)
    BY <1>0, <2>39 DEF Recv, Goto, shm, Locals
  <2> QED
    BY <1>4, <2>1, <2>2, <2>3, <2>4, <2>5, <2>6, <2>7, <2>8, <2>9, <2>10, <2>11, <2>12, <2>13, <2>14,
       <2>15, <2>16, <2>17, <2>18, <2>19, <2>20, <2>21, <2>22, <2>23, <2>24, <2>25, <2>26, <2>27, <2>28,
       <2>29, <2>30, <2>31, <2>32, <2>33, <2>34, <2>35, <2>36, <2>37, <2>38, <2>39
    DEF WorkerStep, CallStep, ScriptStep, Fault
<1> QED BY <1>1, <1>2, <1>3, <1>4 DEF Next

\* A worker that leaves its crontab has left nothing overdue in it, provided that
\* the next of a freed node never reads as NULL: with NULL the scan would stop short,
\* with anything else that is not the node it was, the worker crashes.
THEOREM ScanIsComplete ==
  ASSUME "null" \notin FreedNext
  PROVE  Spec => []NothingOverdue
<1>1. Init => NothingOverdue
  BY DEF Init, NothingOverdue
<1>2. TypeInv /\ CrontabSorted /\ NothingOverdue /\ [Next]_vars => NothingOverdue'
  BY OverdueInductive
<1> QED BY <1>1, <1>2, TypeInvariant, CrontabIsSorted, PTL DEF Spec

--------------------------------------------------------------------------------
(* No task runs twice, or before its time.  A task is in one place at a    *)
(* time: in the message of a call that has not sent it yet, in the queue,  *)
(* in the hands of a process that has just received it, or in one crontab. *)
(* It has not run while it is there, but for the head of a crontab whose   *)
(* callback has been entered and has not returned.                         *)

(* Sequences of messages or of nodes, as the tasks they hold.              *)

TasksOf(s) == {m.task : m \in ToSet(s)} \ {NoTask}

\* No task is twice in s.
Once(s) == \A i, j \in DOMAIN s : s[i].task = s[j].task /\ s[i].task # NoTask => i = j

\* r is s without its element i, or with an element e put in at f.
Without(s, r, i) ==
  /\ i \in 1 .. Len(s) /\ Len(r) = Len(s) - 1
  /\ \A k \in 1 .. Len(s) - 1 : r[k] = IF k < i THEN s[k] ELSE s[k + 1]

With(s, r, e, f) ==
  /\ f \in 1 .. Len(s) + 1 /\ Len(r) = Len(s) + 1
  /\ \A k \in 1 .. Len(s) + 1 :
       r[k] = IF k < f THEN s[k] ELSE IF k = f THEN e ELSE s[k - 1]

\* What is left of a sequence when an element is taken out of it, whichever.
LEMMA TakenOut ==
  ASSUME NEW E, NEW s \in Seq(E), NEW r \in Seq(E), NEW i, Without(s, r, i), Once(s)
  PROVE  /\ Once(r)
         /\ TasksOf(r) = TasksOf(s) \ {s[i].task}
         /\ ToSet(r) \subseteq ToSet(s)
<1>1. /\ Len(s) \in Nat /\ DOMAIN s = 1 .. Len(s) /\ DOMAIN r = 1 .. Len(s) - 1
      /\ i \in 1 .. Len(s)
      /\ \A k \in 1 .. Len(s) - 1 : r[k] = IF k < i THEN s[k] ELSE s[k + 1]
  BY LenProperties DEF Without
<1>2. \A k \in DOMAIN r : \E j \in DOMAIN s :
        r[k] = s[j] /\ j = IF k < i THEN k ELSE k + 1
  BY <1>1
<1>3. Once(r)
  <2>1. ASSUME NEW a \in DOMAIN r, NEW b \in DOMAIN r, r[a].task = r[b].task, r[a].task # NoTask
        PROVE  a = b
    <3>1. PICK j \in DOMAIN s : r[a] = s[j] /\ j = IF a < i THEN a ELSE a + 1
      BY <1>2
    <3>2. PICK k \in DOMAIN s : r[b] = s[k] /\ k = IF b < i THEN b ELSE b + 1
      BY <1>2
    <3>3. j = k
      BY <2>1, <3>1, <3>2 DEF Once
    <3> QED BY <1>1, <3>1, <3>2, <3>3
  <2> QED BY <2>1 DEF Once
<1>4. TasksOf(r) = TasksOf(s) \ {s[i].task}
  <2>1. ASSUME NEW k \in DOMAIN r, r[k].task # NoTask
        PROVE  r[k].task \in TasksOf(s) \ {s[i].task}
    <3>1. PICK j \in DOMAIN s : r[k] = s[j] /\ j = IF k < i THEN k ELSE k + 1
      BY <1>2
    <3>2. i \in DOMAIN s /\ j # i
      BY <1>1, <3>1
    <3>3. s[j].task # s[i].task
      BY <2>1, <3>1, <3>2 DEF Once
    <3> QED BY <2>1, <3>1, <3>3 DEF TasksOf, ToSet
  <2>2. ASSUME NEW j \in DOMAIN s, s[j].task # s[i].task
        PROVE  \E k \in DOMAIN r : r[k] = s[j]
    <3>1. j # i
      BY <2>2
    <3>2. CASE j < i
      BY <1>1, <3>2
    <3>3. CASE j > i
      <4>1. j - 1 \in 1 .. Len(s) - 1 /\ ~(j - 1 < i) /\ (j - 1) + 1 = j
        BY <1>1, <3>3
      <4> QED BY <1>1, <4>1
    <3> QED BY <1>1, <3>1, <3>2, <3>3
  <2> QED BY <2>1, <2>2 DEF TasksOf, ToSet
<1> QED BY <1>2, <1>3, <1>4 DEF ToSet

\* msgrcv, and listDelNode of the head.
LEMMA TailTakes ==
  ASSUME NEW E, NEW s \in Seq(E), s # <<>>, Once(s)
  PROVE  /\ Tail(s) \in Seq(E) /\ Once(Tail(s))
         /\ 1 \in DOMAIN s /\ Head(s) = s[1] /\ ToSet(Tail(s)) \subseteq ToSet(s)
         /\ TasksOf(Tail(s)) = TasksOf(s) \ {Head(s).task}
         /\ \A k \in DOMAIN Tail(s) : k + 1 \in DOMAIN s /\ Tail(s)[k] = s[k + 1]
<1>1. /\ Tail(s) \in Seq(E) /\ Len(Tail(s)) = Len(s) - 1
      /\ \A k \in 1 .. Len(Tail(s)) : Tail(s)[k] = s[k + 1]
  BY HeadTailProperties
<1>2. /\ Len(s) \in Nat /\ Len(s) # 0 /\ DOMAIN s = 1 .. Len(s)
      /\ DOMAIN Tail(s) = 1 .. Len(s) - 1
  BY <1>1, LenProperties, EmptySeq
<1>3. Head(s) = s[1]
  BY <1>2, HeadTailProperties
<1>4. /\ 1 \in 1 .. Len(s)
      /\ \A k \in 1 .. Len(s) - 1 : Tail(s)[k] = IF k < 1 THEN s[k] ELSE s[k + 1]
  BY <1>1, <1>2
<1>5. Once(Tail(s)) /\ TasksOf(Tail(s)) = TasksOf(s) \ {s[1].task}
  <2> DEFINE r == Tail(s)
  <2>1. r \in Seq(E) /\ Without(s, r, 1)
    BY <1>1, <1>4 DEF Without
  <2> HIDE DEF r
  <2>2. Once(r) /\ TasksOf(r) = TasksOf(s) \ {s[1].task}
    BY <2>1, TakenOut
  <2> QED BY <2>2 DEF r
<1>6. ToSet(Tail(s)) \subseteq ToSet(s)
  BY <1>1, <1>2 DEF ToSet
<1> QED BY <1>1, <1>2, <1>3, <1>5, <1>6

\* listDelNode of any node.
LEMMA RemoveTakes ==
  ASSUME NEW E, NEW s \in Seq(E), NEW i \in DOMAIN s, Once(s)
  PROVE  /\ RemoveAt(s, i) \in Seq(E) /\ Once(RemoveAt(s, i))
         /\ TasksOf(RemoveAt(s, i)) = TasksOf(s) \ {s[i].task}
         /\ ToSet(RemoveAt(s, i)) \subseteq ToSet(s)
<1>1. i \in 1 .. Len(s)
  BY LenProperties
<1> DEFINE r == RemoveAt(s, i)
<1>2. /\ r \in Seq(E) /\ Len(r) = Len(s) - 1
      /\ \A k \in 1 .. Len(s) - 1 : r[k] = IF k < i THEN s[k] ELSE s[k + 1]
  BY <1>1, RemoveAtProperties
<1> HIDE DEF r
<1>3. Without(s, r, i)
  BY <1>1, <1>2 DEF Without
<1>4. /\ Once(r) /\ TasksOf(r) = TasksOf(s) \ {s[i].task}
      /\ ToSet(r) \subseteq ToSet(s)
  BY <1>2, <1>3, TakenOut
<1> QED BY <1>2, <1>4 DEF r

\* What a sequence becomes when an element is put into it, wherever.
LEMMA PutIn ==
  ASSUME NEW E, NEW s \in Seq(E), NEW r \in Seq(E), NEW e \in E, NEW f,
         With(s, r, e, f), Once(s), e.task \notin TasksOf(s)
  PROVE  /\ Once(r)
         /\ TasksOf(r) = TasksOf(s) \cup ({e.task} \ {NoTask})
         /\ ToSet(r) \subseteq ToSet(s) \cup {e}
<1>1. /\ Len(s) \in Nat /\ DOMAIN s = 1 .. Len(s) /\ DOMAIN r = 1 .. Len(s) + 1
      /\ f \in 1 .. Len(s) + 1
      /\ \A k \in 1 .. Len(s) + 1 :
           r[k] = IF k < f THEN s[k] ELSE IF k = f THEN e ELSE s[k - 1]
  BY LenProperties DEF With
<1>2. \A k \in DOMAIN r : \/ k = f /\ r[k] = e
                         \/ \E j \in DOMAIN s : /\ k # f /\ r[k] = s[j]
                                               /\ j = IF k < f THEN k ELSE k - 1
  BY <1>1
<1>3. Once(r)
  <2>1. ASSUME NEW a \in DOMAIN r, NEW b \in DOMAIN r, r[a].task = r[b].task, r[a].task # NoTask
        PROVE  a = b
    <3>1. CASE a = f /\ b = f
      BY <3>1
    <3>2. ASSUME NEW c \in DOMAIN r, NEW d \in DOMAIN r, c = f, d # f, r[d].task = r[c].task,
                 r[c].task # NoTask
          PROVE  FALSE
      <4>1. PICK j \in DOMAIN s : r[d] = s[j]
        BY <1>2, <3>2
      <4>2. r[c] = e
        BY <1>2, <3>2
      <4> QED BY <3>2, <4>1, <4>2 DEF TasksOf, ToSet
    <3>3. CASE a # f /\ b # f
      <4>1. PICK j \in DOMAIN s : r[a] = s[j] /\ j = IF a < f THEN a ELSE a - 1
        BY <1>2, <3>3
      <4>2. PICK k \in DOMAIN s : r[b] = s[k] /\ k = IF b < f THEN b ELSE b - 1
        BY <1>2, <3>3
      <4>3. j = k
        BY <2>1, <4>1, <4>2 DEF Once
      <4> QED BY <1>1, <3>3, <4>1, <4>2, <4>3
    <3> QED BY <2>1, <3>1, <3>2, <3>3
  <2> QED BY <2>1 DEF Once
<1>4. TasksOf(r) = TasksOf(s) \cup ({e.task} \ {NoTask})
  <2>1. ASSUME NEW k \in DOMAIN r, r[k].task # NoTask
        PROVE  r[k].task \in TasksOf(s) \cup ({e.task} \ {NoTask})
    BY <1>2, <2>1 DEF TasksOf, ToSet
  <2>2. \E k \in DOMAIN r : r[k] = e
    BY <1>1
  <2>3. ASSUME NEW j \in DOMAIN s
        PROVE  \E k \in DOMAIN r : r[k] = s[j]
    <3>1. CASE j < f
      BY <1>1, <3>1
    <3>2. CASE j >= f
      <4>1. j + 1 \in DOMAIN r /\ ~(j + 1 < f) /\ j + 1 # f /\ (j + 1) - 1 = j
        BY <1>1, <3>2
      <4> QED BY <1>1, <4>1
    <3> QED BY <1>1, <3>1, <3>2
  <2> QED BY <2>1, <2>2, <2>3 DEF TasksOf, ToSet
<1> QED BY <1>2, <1>3, <1>4 DEF ToSet

\* msgsnd.
LEMMA AppendPuts ==
  ASSUME NEW E, NEW s \in Seq(E), NEW e \in E, Once(s), e.task \notin TasksOf(s)
  PROVE  /\ Once(Append(s, e))
         /\ TasksOf(Append(s, e)) = TasksOf(s) \cup ({e.task} \ {NoTask})
         /\ ToSet(Append(s, e)) \subseteq ToSet(s) \cup {e}
<1> DEFINE r == Append(s, e)
<1>1. /\ r \in Seq(E) /\ Len(r) = Len(s) + 1
      /\ \A k \in 1 .. Len(s) : r[k] = s[k]
      /\ r[Len(s) + 1] = e
  BY AppendProperties
<1>2. Len(s) \in Nat
  BY LenProperties
<1> HIDE DEF r
<1>3. Len(s) + 1 \in 1 .. Len(s) + 1
  BY <1>2
<1>4. With(s, r, e, Len(s) + 1)
  BY <1>1, <1>2, <1>3 DEF With
<1>5. /\ Once(r) /\ TasksOf(r) = TasksOf(s) \cup ({e.task} \ {NoTask})
      /\ ToSet(r) \subseteq ToSet(s) \cup {e}
  BY <1>1, <1>4, PutIn
<1> QED BY <1>5 DEF r

\* The insertion of a task received ahead of its time.
LEMMA InsertPuts ==
  ASSUME NEW E, Timed(E), NEW s \in Seq(E), NEW e \in E, Once(s), e.task \notin TasksOf(s)
  PROVE  /\ Once(Insert(s, e))
         /\ TasksOf(Insert(s, e)) = TasksOf(s) \cup ({e.task} \ {NoTask})
         /\ ToSet(Insert(s, e)) \subseteq ToSet(s) \cup {e}
<1> DEFINE r == Insert(s, e)
<1>1. r \in Seq(E) /\ Len(r) = Len(s) + 1
  BY InsertPlace
<1>2. PICK f \in 1 .. Len(s) + 1 : \A k \in 1 .. Len(s) + 1 :
        r[k] = IF k < f THEN s[k] ELSE IF k = f THEN e ELSE s[k - 1]
  BY InsertPlace, SMTT(30)
<1> HIDE DEF r
<1>3. With(s, r, e, f)
  BY <1>1, <1>2 DEF With
<1>4. /\ Once(r) /\ TasksOf(r) = TasksOf(s) \cup ({e.task} \ {NoTask})
      /\ ToSet(r) \subseteq ToSet(s) \cup {e}
  BY <1>1, <1>3, PutIn
<1> QED BY <1>4 DEF r

--------------------------------------------------------------------------------
(* The places of a task.                                                   *)

\* The message p is about to send, or has just received.
Hand(p) == IF pc[p] = "send" THEN loc[p].out ELSE loc[p].msg

Carried(p) == IF pc[p] \in {"send", "got"} THEN {Hand(p).task} \ {NoTask} ELSE {}

\* A process that leaves never reads its crontab again.
Leaving == {"relLock", "relR", "relW", "relZ", "relUnlock", "gone", "dead"}

\* The callback of the head of p's crontab has been entered: the task has run.
Executing(p) == pc[p] = "cronExec" \/ (pc[p] \in Calling /\ caller[p] = "cronExec")

Kept(p) == TasksOf(loc[p].list)

\* No two places hold the same task.
OnePlace ==
  /\ Once(mq.msgs)
  /\ \A p \in Procs :
       /\ Once(loc[p].list)
       /\ TasksOf(mq.msgs) \cap (Kept(p) \cup Carried(p)) = {}
       /\ \A q \in Procs :
            /\ Kept(p) \cap Carried(q) = {}
            /\ p # q => Kept(p) \cap Kept(q) = {} /\ Carried(p) \cap Carried(q) = {}

\* A node, or the message of a task, carries what its post recorded.
Marked(m) ==
  /\ m.task \in hist.posted
  /\ m.mtime = hist.at[m.task] /\ m.uuid = UuidOf[m.task]

\* A message is that of a posted task, or the uuid of a delete.
Wellformed(m) ==
  \/ m.op = "add" /\ Marked(m)
  \/ m.op = "delete" /\ m.task = NoTask /\ m.uuid \in Uuids

AsPosted ==
  /\ \A m \in ToSet(mq.msgs) : Wellformed(m)
  /\ \A p \in Procs :
       /\ pc[p] \in {"send", "got"} => Wellformed(Hand(p))
       /\ \A n \in ToSet(loc[p].list) : Marked(n)
       /\ loc[p].ts <= now

\* A task that waits in some place has not run.
Unrun ==
  /\ \A t \in Tasks : hist.runs[t] <= 1 /\ (t \notin hist.posted => hist.runs[t] = 0)
  /\ \A t \in TasksOf(mq.msgs) : hist.runs[t] = 0
  /\ \A p \in Procs :
       /\ \A t \in Carried(p) : hist.runs[t] = 0
       /\ pc[p] \notin Leaving =>
            \A i \in DOMAIN loc[p].list :
              hist.runs[loc[p].list[i].task] = 0 \/ (i = 1 /\ Executing(p))

PlaceInv == AsPosted /\ OnePlace /\ Unrun

--------------------------------------------------------------------------------
(* What a step does to the places.  Most steps only empty them.            *)

\* p's crontab stays as it is, its head still executing; or it loses nodes.
Shrinks(p) ==
  \/ /\ loc'[p].list = loc[p].list
     /\ Executing(p) => Executing(p)' \/ pc'[p] \in Leaving
  \/ loc'[p].list = <<>>
  \/ loc[p].list # <<>> /\ loc'[p].list = Tail(loc[p].list)
  \/ /\ ~Executing(p)
     /\ \E i \in DOMAIN loc[p].list : loc'[p].list = RemoveAt(loc[p].list, i)

Others(p) ==
  \A q \in Procs \ {p} : pc'[q] = pc[q] /\ caller'[q] = caller[q] /\ loc'[q] = loc[q]

\* Nothing is posted, sent or run.
SameHistory ==
  /\ hist'.runs = hist.runs /\ hist'.at = hist.at /\ hist'.posted = hist.posted
  /\ hist'.accepted = hist.accepted /\ hist'.asked = hist.asked

Quiet(p) ==
  /\ mq'.msgs \in {mq.msgs, <<>>} /\ (mq'.live = mq.live \/ mq'.msgs = <<>>)
  /\ now' = now
  /\ SameHistory /\ (hist'.void = hist.void \/ DeleteDone(p))
  /\ pc[p] \in Leaving => pc'[p] \in Leaving
  /\ pc'[p] \in {"send", "got"} =>
       pc'[p] = pc[p] /\ loc'[p].out = loc[p].out /\ loc'[p].msg = loc[p].msg
  /\ loc'[p].ts \in {loc[p].ts, now}
  /\ Shrinks(p)
  /\ Executing(p)' => Executing(p) /\ loc'[p].list = loc[p].list
  /\ pc'[p] \in {"del", "delEnd"} =>
       RecvDelete(p) \/ (pc[p] \in {"del", "delEnd"} /\ loc'[p].msg = loc[p].msg)
  /\ Others(p)

\* The steps that put a task into a place, or run one.
Moves(p) ==
  \/ \E t \in Tasks : PostCall(p, t)
  \/ \E u \in Uuids : DeleteCall(p, u)
  \/ Send(p) \/ Recv(p) \/ RecvNow(p) \/ RecvLater(p) \/ CronRun(p)

\* Every step of a process either moves a task or is quiet.
LEMMA QuietSteps ==
  ASSUME TypeInv, NEW p \in Procs,
         WorkerStep(p) \/ CallStep(p) \/ Lock(p) \/ Unlock(p) \/ ScriptStep(p) \/ Fault(p)
  PROVE  Moves(p) \/ Quiet(p)
<1> SUFFICES ASSUME ~Moves(p) PROVE Quiet(p)
  OBVIOUS
<1>0. /\ pc \in [Procs -> Labels] /\ loc \in [Procs -> Locals]
      /\ caller \in [Procs -> {"idle"} \cup Callback]
      /\ mq \in [id : Nat, live : BOOLEAN, may : SUBSET Procs, msgs : Seq(Message)]
      /\ hist \in History
      /\ CronHead
  BY DEF TypeInv, TypeOK
<1> USE DEF Quiet, SameHistory, Shrinks, Others, Executing, Leaving, Calling, Callback
<1>1. CASE Boot(p)
  BY <1>0, <1>1
  DEF Boot, Goto, Locals, shm, History
<1>2. CASE Run(p)
  BY <1>0, <1>2
  DEF Run, Goto, Locals, shm, History
<1>3. CASE Inc(p)
  BY <1>0, <1>3
  DEF Inc, Goto, Locals, shm, History
<1>4. CASE Check(p)
  BY <1>0, <1>4
  DEF Check, Goto, Locals, shm, History
<1>5. CASE Lock(p)
  BY <1>0, <1>5
  DEF Lock, AfterLock, LockLabels, Goto, Locals, shm, History
<1>6. CASE Unlock(p)
  BY <1>0, <1>6
  DEF Unlock, AfterUnlock, UnlockLabels, Goto, Locals, shm, History
<1>7. CASE Time(p)
  BY <1>0, <1>7
  DEF Time, Goto, Locals, shm, History
<1>8. CASE RecvNone(p)
  BY <1>0, <1>8
  DEF RecvNone, Goto, Locals, shm, History
<1>9. CASE RecvDelete(p)
  BY <1>0, <1>9
  DEF RecvDelete, Received, Goto, Locals, shm, History
<1>10. CASE RecvLost(p)
  BY <1>0, <1>10
  DEF RecvLost, Received, Goto, Locals, shm, History
<1>11. CASE DeleteNode(p)
  BY <1>0, <1>11, DataAssumption
  DEF DeleteNode, AfterFree, Hits, Goto, Locals, shm, History
<1>12. CASE DeleteDone(p)
  BY <1>0, <1>12
  DEF DeleteDone, Goto, Locals, shm, History
<1>13. CASE Count(p)
  BY <1>0, <1>13
  DEF Count, Goto, Locals, shm, History
<1>14. CASE Return(p)
  BY <1>0, <1>14
  DEF Return, Goto, Locals, shm, History
<1>15. CASE Throw(p)
  BY <1>0, <1>15
  DEF Throw, Goto, Locals, shm, History
<1>16. CASE ListCrash(p)
  BY <1>0, <1>16
  DEF ListCrash, Received, Goto, Locals, shm, History
<1>17. CASE CronEnd(p)
  BY <1>0, <1>17
  DEF CronEnd, Goto, Locals, shm, History
<1>18. CASE CronReturn(p)
  BY <1>0, <1>18, DataAssumption
  DEF CronReturn, CronHead, AfterFree, HeadDeleted, Goto, Locals, shm, History
<1>19. CASE CronLost(p)
  BY <1>0, <1>19, DataAssumption
  DEF CronLost, AfterFree, HeadDeleted, CronDue, Goto, Locals, shm, History
<1>20. CASE Stop(p)
  BY <1>0, <1>20
  DEF Stop, Goto, Locals, shm, History
<1>21. CASE SendFail(p)
  <2>1. /\ pc[p] = "send" /\ pc'[p] = caller[p] /\ caller[p] \in {"idle", "exec", "cronExec"}
        /\ mq' = mq /\ hist' = hist /\ now' = now /\ caller' = caller
        /\ loc'[p].list = loc[p].list /\ loc'[p].ts = loc[p].ts
        /\ Others(p)
    BY <1>0, <1>21 DEF SendFail, Goto, Locals, shm
  <2> QED
    BY <2>1
<1>22. CASE ClearCall(p)
  BY <1>0, <1>22
  DEF ClearCall, Calls, Goto, Locals, shm, History
<1>23. CASE Clear(p)
  BY <1>0, <1>23
  DEF Clear, Goto, Locals, shm, History
<1>24. CASE InfoCrash(p)
  BY <1>0, <1>24
  DEF InfoCrash, Goto, Locals, shm, History
<1>25. CASE Exit(p)
  BY <1>0, <1>25
  DEF Exit, Goto, Locals, shm, History
<1>26. CASE RelRead(p)
  BY <1>0, <1>26
  DEF RelRead, Goto, Locals, shm, History
<1>27. CASE RelWrite(p)
  BY <1>0, <1>27
  DEF RelWrite, Goto, Locals, shm, History
<1>28. CASE RelZero(p)
  BY <1>0, <1>28
  DEF RelZero, Goto, Locals, shm, History
<1>29. CASE Sigint(p)
  BY <1>0, <1>29
  DEF Sigint, Halt, Alive, Goto, Locals, shm, History
<1>30. CASE SigintInLock(p)
  BY <1>0, <1>30
  DEF SigintInLock, Halt, AfterLock, LockLabels, Goto, Locals, shm, History
<1>31. CASE SigintInSend(p)
  BY <1>0, <1>31
  DEF SigintInSend, Halt, Goto, Locals, shm, History
<1>32. CASE Kill(p)
  BY <1>0, <1>32
  DEF Kill, Goto, Locals, shm, History
<1> QED
  BY <1>1, <1>2, <1>3, <1>4, <1>5, <1>6, <1>7, <1>8, <1>9, <1>10, <1>11, <1>12, <1>13, <1>14, <1>15, <1>16, <1>17, <1>18, <1>19, <1>20, <1>21, <1>22, <1>23, <1>24, <1>25, <1>26, <1>27, <1>28, <1>29, <1>30, <1>31, <1>32
  DEF WorkerStep, CallStep, ScriptStep, Fault, Moves

\* Quiet steps put nothing anywhere.
LEMMA QuietPlaces ==
  ASSUME TypeInv, OnePlace, NEW p \in Procs, Quiet(p)
  PROVE  /\ Once(mq'.msgs) /\ ToSet(mq'.msgs) \subseteq ToSet(mq.msgs)
         /\ TasksOf(mq'.msgs) \subseteq TasksOf(mq.msgs)
         /\ \A q \in Procs :
              /\ Once(loc'[q].list) /\ ToSet(loc'[q].list) \subseteq ToSet(loc[q].list)
              /\ Kept(q)' \subseteq Kept(q) /\ Carried(q)' \subseteq Carried(q)
<1>0. /\ mq.msgs \in Seq(Message) /\ Once(mq.msgs)
      /\ \A q \in Procs : loc[q].list \in Seq(Node) /\ Once(loc[q].list)
  BY DEF TypeInv, TypeOK, Locals, OnePlace
<1>1. Once(<<>>) /\ ToSet(<<>>) = {}
  BY DEF Once, ToSet
<1>2. Once(mq'.msgs) /\ ToSet(mq'.msgs) \subseteq ToSet(mq.msgs)
  BY <1>0, <1>1 DEF Quiet
<1>3. Once(loc'[p].list) /\ ToSet(loc'[p].list) \subseteq ToSet(loc[p].list)
  <2>1. CASE loc[p].list # <<>> /\ loc'[p].list = Tail(loc[p].list)
    BY <1>0, <2>1, TailTakes
  <2>2. ASSUME NEW i \in DOMAIN loc[p].list, loc'[p].list = RemoveAt(loc[p].list, i)
        PROVE  Once(loc'[p].list) /\ ToSet(loc'[p].list) \subseteq ToSet(loc[p].list)
    BY <1>0, <2>2, RemoveTakes
  <2> QED BY <1>0, <1>1, <2>1, <2>2 DEF Quiet, Shrinks
<1>4. \A q \in Procs : /\ Once(loc'[q].list)
                       /\ ToSet(loc'[q].list) \subseteq ToSet(loc[q].list)
  BY <1>0, <1>3 DEF Quiet, Others
<1>5. \A r, s : ToSet(r) \subseteq ToSet(s) => TasksOf(r) \subseteq TasksOf(s)
  BY DEF TasksOf
<1>6. \A q \in Procs : Kept(q)' \subseteq Kept(q)
  BY <1>4, <1>5 DEF Kept
<1>7. \A q \in Procs : Carried(q)' \subseteq Carried(q)
  BY DEF Quiet, Others, Carried, Hand
<1> QED BY <1>2, <1>4, <1>5, <1>6, <1>7

(* What the steps that move a task do, variable by variable.               *)

\* wcx_task_post: the task waits in a call of p, which records its time.
LEMMA PostEffects ==
  ASSUME TypeInv, NEW p \in Procs, NEW t \in Tasks, PostCall(p, t)
  PROVE  /\ t \notin hist.posted /\ hist'.posted = hist.posted \cup {t}
         /\ \E m \in Stamps \cup {now} :
              /\ m \in Nat /\ loc'[p].out = AddMessage(t, m)
              /\ hist'.at = [hist.at EXCEPT ![t] = m]
         /\ hist'.runs = hist.runs /\ hist'.accepted = hist.accepted
         /\ hist'.asked = hist.asked /\ hist'.void = hist.void /\ hist'.clears = hist.clears
         /\ mq' = mq /\ now' = now
         /\ pc'[p] = "send" /\ pc[p] \notin Leaving
         /\ Executing(p) <=> Executing(p)'
         /\ loc'[p].list = loc[p].list /\ loc'[p].ts = loc[p].ts
         /\ Others(p)
<1>0. /\ pc \in [Procs -> Labels] /\ loc \in [Procs -> Locals]
      /\ caller \in [Procs -> {"idle"} \cup Callback]
      /\ mq \in [id : Nat, live : BOOLEAN, may : SUBSET Procs, msgs : Seq(Message)] /\ hist \in History
  BY DEF TypeInv, TypeOK
<1>1. PICK m \in Stamps \cup {now} :
        /\ loc' = [loc EXCEPT ![p].out = AddMessage(t, m)]
        /\ hist' = [hist EXCEPT !.posted = @ \cup {t}, !.at[t] = m]
  BY DEF PostCall
<1>2. m \in Nat
  BY DataAssumption DEF TypeInv, TypeOK
<1>3. /\ hist'.posted = hist.posted \cup {t} /\ hist'.runs = hist.runs
      /\ hist'.accepted = hist.accepted /\ hist'.asked = hist.asked /\ hist'.void = hist.void
      /\ hist'.clears = hist.clears
      /\ hist'.at = [hist.at EXCEPT ![t] = m]
  BY <1>0, <1>1 DEF History
<1>4. /\ loc'[p].out = AddMessage(t, m)
      /\ loc'[p].list = loc[p].list /\ loc'[p].ts = loc[p].ts
      /\ \A q \in Procs \ {p} : loc'[q] = loc[q]
  BY <1>0, <1>1 DEF Locals
<1>5. /\ t \notin hist.posted /\ mq' = mq /\ now' = now
      /\ pc'[p] = "send" /\ pc[p] \in {"idle", "exec", "cronExec"} /\ caller'[p] = pc[p]
      /\ \A q \in Procs \ {p} : pc'[q] = pc[q] /\ caller'[q] = caller[q]
  BY <1>0 DEF PostCall, Calls, Goto, Callback
<1> QED BY <1>2, <1>3, <1>4, <1>5 DEF Others, Executing, Calling, Leaving

\* wcx_task_delete: p is about to send a message that holds no task.
LEMMA DeleteEffects ==
  ASSUME TypeInv, NEW p \in Procs, NEW u \in Uuids, DeleteCall(p, u)
  PROVE  /\ loc'[p].out = DeleteMessage(u)
         /\ SameHistory /\ hist'.void = hist.void /\ hist'.clears = hist.clears
         /\ mq' = mq /\ now' = now
         /\ pc'[p] = "send" /\ pc[p] \notin Leaving
         /\ Executing(p) <=> Executing(p)'
         /\ loc'[p].list = loc[p].list /\ loc'[p].ts = loc[p].ts
         /\ Others(p)
<1>0. /\ pc \in [Procs -> Labels] /\ loc \in [Procs -> Locals]
      /\ caller \in [Procs -> {"idle"} \cup Callback]
      /\ mq \in [id : Nat, live : BOOLEAN, may : SUBSET Procs, msgs : Seq(Message)] /\ hist \in History
  BY DEF TypeInv, TypeOK
<1> QED
  BY <1>0
  DEF DeleteCall, Calls, Goto, Locals, History, SameHistory, Executing, Leaving, Calling, Callback, Others

\* msgsnd: the message enters the queue.
LEMMA SendEffects ==
  ASSUME TypeInv, NEW p \in Procs, Send(p)
  PROVE  /\ mq'.msgs = Append(mq.msgs, loc[p].out)
         /\ hist'.posted = hist.posted /\ hist'.runs = hist.runs /\ hist'.at = hist.at
         /\ hist'.accepted = hist.accepted \cup Carried(p) /\ Valid(p) /\ mq'.live = mq.live
         /\ hist'.asked = IF loc[p].out.op = "delete" THEN hist.asked \cup {loc[p].out.uuid}
                         ELSE hist.asked
         /\ hist'.void = hist.void /\ hist'.clears = hist.clears
         /\ now' = now /\ pc[p] = "send" /\ pc'[p] \in {"idle", "exec", "cronExec"}
         /\ Executing(p) <=> Executing(p)'
         /\ loc'[p].list = loc[p].list /\ loc'[p].ts = loc[p].ts
         /\ Others(p)
<1>0. /\ pc \in [Procs -> Labels] /\ loc \in [Procs -> Locals]
      /\ caller \in [Procs -> {"idle"} \cup Callback]
      /\ mq \in [id : Nat, live : BOOLEAN, may : SUBSET Procs, msgs : Seq(Message)] /\ hist \in History
  BY DEF TypeInv, TypeOK
<1>1. /\ pc[p] = "send" /\ pc'[p] = caller[p] /\ caller[p] \in {"idle", "exec", "cronExec"}
      /\ Others(p) /\ now' = now
      /\ loc'[p].list = loc[p].list /\ loc'[p].ts = loc[p].ts
  BY <1>0 DEF Send, Goto, Locals, Callback, Others
<1>2. /\ mq'.msgs = Append(mq.msgs, loc[p].out)
      /\ hist'.posted = hist.posted /\ hist'.runs = hist.runs /\ hist'.at = hist.at
      /\ hist'.void = hist.void /\ hist'.clears = hist.clears /\ Valid(p) /\ mq'.live = mq.live
      /\ hist'.accepted = hist.accepted \cup Carried(p)
      /\ hist'.asked = IF loc[p].out.op = "delete" THEN hist.asked \cup {loc[p].out.uuid}
                      ELSE hist.asked
  BY <1>0 DEF Send, History, Carried, Hand
<1> QED BY <1>1, <1>2 DEF Executing, Calling

\* msgrcv: the message goes from the queue into the hands of p.
LEMMA RecvEffects ==
  ASSUME TypeInv, NEW p \in Procs, Recv(p)
  PROVE  /\ mq.msgs # <<>> /\ mq'.msgs = Tail(mq.msgs)
         /\ Valid(p) /\ mq'.live = mq.live
         /\ hist' = hist /\ now' = now
         /\ pc[p] = "recv" /\ pc'[p] = "got"
         /\ loc'[p].msg = Head(mq.msgs)
         /\ loc'[p].list = loc[p].list /\ loc'[p].ts = loc[p].ts
         /\ Others(p)
<1>0. /\ pc \in [Procs -> Labels] /\ loc \in [Procs -> Locals]
      /\ caller \in [Procs -> {"idle"} \cup Callback]
      /\ mq \in [id : Nat, live : BOOLEAN, may : SUBSET Procs, msgs : Seq(Message)]
  BY DEF TypeInv, TypeOK
<1> QED
  BY <1>0 DEF Recv, Receives, Goto, Locals, Others

\* The task received is due: its callback is entered.
LEMMA RecvNowEffects ==
  ASSUME TypeInv, NEW p \in Procs, RecvNow(p)
  PROVE  /\ loc[p].msg.op = "add" /\ mq' = mq
         /\ loc[p].msg.mtime <= loc[p].ts
         /\ hist'.runs = [hist.runs EXCEPT ![loc[p].msg.task] = @ + 1]
         /\ hist'.posted = hist.posted /\ hist'.at = hist.at /\ now' = now
         /\ hist'.accepted = hist.accepted /\ hist'.asked = hist.asked
         /\ hist'.void = hist.void /\ hist'.clears = hist.clears
         /\ pc[p] = "got" /\ pc'[p] = "exec"
         /\ loc' = loc
         /\ Others(p)
<1>0. /\ pc \in [Procs -> Labels] /\ loc \in [Procs -> Locals] /\ hist \in History
  BY DEF TypeInv, TypeOK
<1> QED
  BY <1>0 DEF RecvNow, Received, Immediate, Execute, IsNow, Goto, History, Others

\* The task received is not: it goes into the crontab.
LEMMA RecvLaterEffects ==
  ASSUME TypeInv, NEW p \in Procs, RecvLater(p)
  PROVE  /\ loc[p].msg.op = "add" /\ mq' = mq
         /\ hist' = hist /\ now' = now
         /\ pc[p] = "got" /\ pc'[p] = "count"
         /\ loc'[p].list = Insert(loc[p].list, NodeOf(loc[p].msg))
         /\ loc'[p].ts = loc[p].ts
         /\ Others(p)
<1>0. pc \in [Procs -> Labels] /\ loc \in [Procs -> Locals]
  BY DEF TypeInv, TypeOK
<1> QED
  BY <1>0 DEF RecvLater, Received, Goto, Locals, Others

\* The head of the crontab is due: its callback is entered, and the node stays.
LEMMA CronRunEffects ==
  ASSUME TypeInv, NEW p \in Procs, CronRun(p)
  PROVE  /\ loc[p].list # <<>> /\ Head(loc[p].list).mtime < loc[p].ts
         /\ hist'.runs = [hist.runs EXCEPT ![Head(loc[p].list).task] = @ + 1]
         /\ hist'.posted = hist.posted /\ hist'.at = hist.at /\ now' = now
         /\ hist'.accepted = hist.accepted /\ hist'.asked = hist.asked
         /\ hist'.void = hist.void /\ hist'.clears = hist.clears
         /\ mq' = mq /\ loc' = loc /\ pc[p] = "cron" /\ pc'[p] = "cronExec"
         /\ Others(p)
<1>0. /\ pc \in [Procs -> Labels] /\ loc \in [Procs -> Locals]
      /\ caller \in [Procs -> {"idle"} \cup Callback]
      /\ mq \in [id : Nat, live : BOOLEAN, may : SUBSET Procs, msgs : Seq(Message)] /\ hist \in History
  BY DEF TypeInv, TypeOK
<1> QED
  BY <1>0 DEF CronRun, CronDue, Due, Execute, Goto, History, Others

--------------------------------------------------------------------------------
(* PlaceInv is inductive.                                                  *)

\* The history of a posted task is not rewritten.
LEMMA MarksKept ==
  ASSUME TypeInv, NEW p \in Procs, Moves(p) \/ Quiet(p)
  PROVE  /\ now' = now
         /\ \A m : Marked(m) => Marked(m)'
         /\ \A m : Wellformed(m) => Wellformed(m)'
<1>0. hist \in History
  BY DEF TypeInv, TypeOK
<1>1. now' = now /\ \A m : Marked(m) => Marked(m)'
  <2>1. CASE hist'.posted = hist.posted /\ hist'.at = hist.at /\ now' = now
    BY <2>1 DEF Marked
  <2>2. ASSUME NEW t \in Tasks, PostCall(p, t)
        PROVE  now' = now /\ \A m : Marked(m) => Marked(m)'
    <3>1. PICK x \in Stamps \cup {now} :
            /\ x \in Nat /\ loc'[p].out = AddMessage(t, x)
            /\ hist'.at = [hist.at EXCEPT ![t] = x]
      BY <2>2, PostEffects
    <3>2. t \notin hist.posted /\ hist'.posted = hist.posted \cup {t} /\ now' = now
      BY <2>2, PostEffects
    <3>3. \A k \in hist.posted : k # t /\ hist'.at[k] = hist.at[k]
      BY <1>0, <3>1, <3>2 DEF History
    <3> QED BY <3>2, <3>3 DEF Marked
  <2> QED
    BY <2>1, <2>2, DeleteEffects, SendEffects, RecvEffects, RecvNowEffects, RecvLaterEffects,
       CronRunEffects
    DEF Moves, Quiet, SameHistory
<1> QED BY <1>1 DEF Wellformed

\* A task at the head of the queue is nowhere else, and has not run.
LEMMA HeadPlaced ==
  ASSUME TypeInv, PlaceInv, mq.msgs # <<>>
  PROVE  /\ Head(mq.msgs) \in Message /\ Wellformed(Head(mq.msgs))
         /\ {Head(mq.msgs).task} \ {NoTask} \subseteq TasksOf(mq.msgs)
         /\ Once(Tail(mq.msgs)) /\ ToSet(Tail(mq.msgs)) \subseteq ToSet(mq.msgs)
         /\ TasksOf(Tail(mq.msgs)) = TasksOf(mq.msgs) \ {Head(mq.msgs).task}
<1>1. mq.msgs \in Seq(Message) /\ Once(mq.msgs)
  BY DEF TypeInv, TypeOK, PlaceInv, OnePlace
<1>2. /\ Head(mq.msgs) \in Message /\ Head(mq.msgs) \in ToSet(mq.msgs)
      /\ Once(Tail(mq.msgs)) /\ ToSet(Tail(mq.msgs)) \subseteq ToSet(mq.msgs)
      /\ TasksOf(Tail(mq.msgs)) = TasksOf(mq.msgs) \ {Head(mq.msgs).task}
  BY <1>1, TailTakes, HeadTailProperties DEF ToSet
<1>3. Wellformed(Head(mq.msgs))
  BY <1>2 DEF PlaceInv, AsPosted
<1>4. {Head(mq.msgs).task} \ {NoTask} \subseteq TasksOf(mq.msgs)
  BY <1>2 DEF TasksOf
<1> QED BY <1>2, <1>3, <1>4

\* A task just received is nowhere else, and has not run.
LEMMA HandPlaced ==
  ASSUME TypeInv, PlaceInv, NEW p \in Procs, pc[p] = "got", loc[p].msg.op = "add"
  PROVE  /\ loc[p].msg \in Message /\ Marked(loc[p].msg)
         /\ loc[p].msg.task \in Tasks /\ loc[p].msg.task # NoTask
         /\ Carried(p) = {loc[p].msg.task}
         /\ hist.runs[loc[p].msg.task] = 0
         /\ loc[p].msg.task \notin TasksOf(mq.msgs)
         /\ \A q \in Procs : /\ loc[p].msg.task \notin Kept(q)
                             /\ q # p => loc[p].msg.task \notin Carried(q)
<1>1. loc[p].msg \in Message /\ hist \in History
  BY DEF TypeInv, TypeOK, Locals
<1>2. Marked(loc[p].msg)
  BY DEF PlaceInv, AsPosted, Hand, Wellformed
<1>3. loc[p].msg.task \in Tasks /\ loc[p].msg.task # NoTask
  BY <1>1, <1>2, DataAssumption DEF Marked, History
<1>4. Carried(p) = {loc[p].msg.task}
  BY <1>3 DEF Carried, Hand
<1> QED BY <1>1, <1>2, <1>3, <1>4 DEF PlaceInv, OnePlace, Unrun

\* What a task is posted with stays with it from the call to the callback.
LEMMA AsPostedInductive ==
  ASSUME TypeInv, PlaceInv, NEW p \in Procs, Moves(p) \/ Quiet(p)
  PROVE  AsPosted'
<1>0. /\ now' = now
      /\ \A m : Marked(m) => Marked(m)'
      /\ \A m : Wellformed(m) => Wellformed(m)'
  BY MarksKept
<1>a. /\ mq.msgs \in Seq(Message) /\ now \in Nat
      /\ \A q \in Procs : loc[q].list \in Seq(Node)
  BY DEF TypeInv, TypeOK, Locals
<1>b. AsPosted
  BY DEF PlaceInv
<1>c. Others(p) => \A q \in Procs \ {p} : Hand(q)' = Hand(q)
  BY DEF Others, Hand
<1>1. CASE Quiet(p)
  <2>1. /\ ToSet(mq'.msgs) \subseteq ToSet(mq.msgs)
        /\ \A q \in Procs : ToSet(loc'[q].list) \subseteq ToSet(loc[q].list)
    BY <1>1, QuietPlaces DEF PlaceInv
  <2>2. \A q \in Procs : /\ pc'[q] \in {"send", "got"} => pc[q] = pc'[q] /\ Hand(q)' = Hand(q)
                         /\ loc'[q].ts \in {loc[q].ts, now}
    BY <1>1 DEF Quiet, Others, Hand
  <2>3. \A m \in ToSet(mq'.msgs) : Wellformed(m)'
    BY <1>0, <1>b, <2>1 DEF AsPosted
  <2>4. ASSUME NEW q \in Procs
        PROVE  /\ pc'[q] \in {"send", "got"} => Wellformed(Hand(q))'
               /\ \A n \in ToSet(loc'[q].list) : Marked(n)'
               /\ loc'[q].ts <= now'
    <3>1. pc'[q] \in {"send", "got"} => Wellformed(Hand(q))'
      BY <1>0, <1>b, <2>2 DEF AsPosted
    <3>2. \A n \in ToSet(loc'[q].list) : Marked(n)
      BY <1>b, <2>1 DEF AsPosted
    <3>3. loc'[q].ts <= now'
      BY <1>0, <1>a, <1>b, <2>2 DEF AsPosted
    <3> QED BY <1>0, <3>1, <3>2, <3>3
  <2> QED BY <2>3, <2>4 DEF AsPosted
<1>2. ASSUME NEW t \in Tasks, PostCall(p, t) PROVE AsPosted'
  <2>1. PICK m \in Stamps \cup {now} :
          /\ m \in Nat /\ loc'[p].out = AddMessage(t, m)
          /\ hist'.at = [hist.at EXCEPT ![t] = m]
    BY <1>2, PostEffects
  <2>2. /\ hist'.posted = hist.posted \cup {t} /\ mq' = mq /\ Others(p)
        /\ loc'[p].list = loc[p].list /\ loc'[p].ts = loc[p].ts
    BY <1>2, PostEffects
  <2>3. Wellformed(Hand(p))'
    <3>1. hist \in History
      BY DEF TypeInv, TypeOK
    <3>2. hist'.at[t] = m
      BY <2>1, <3>1 DEF History
    <3> QED BY <1>2, <2>1, <2>2, <3>2, PostEffects DEF Hand, Wellformed, Marked, AddMessage
  <2> QED BY <1>0, <1>b, <1>c, <2>2, <2>3 DEF AsPosted, Others
<1>3. ASSUME NEW u \in Uuids, DeleteCall(p, u) PROVE AsPosted'
  <2>1. /\ loc'[p].out = DeleteMessage(u) /\ mq' = mq /\ Others(p) /\ pc'[p] = "send"
        /\ loc'[p].list = loc[p].list /\ loc'[p].ts = loc[p].ts
    BY <1>3, DeleteEffects
  <2>2. Wellformed(Hand(p))'
    BY <2>1 DEF Hand, Wellformed, DeleteMessage
  <2> QED BY <1>0, <1>b, <1>c, <2>1, <2>2 DEF AsPosted, Others
<1>4. CASE Send(p)
  <2>1. /\ mq'.msgs = Append(mq.msgs, loc[p].out) /\ pc[p] = "send" /\ pc'[p] \notin {"send", "got"}
        /\ loc'[p].list = loc[p].list /\ loc'[p].ts = loc[p].ts /\ Others(p)
    BY <1>4, SendEffects
  <2>2. Wellformed(loc[p].out) /\ loc[p].out \in Message
    BY <1>b, <2>1 DEF AsPosted, Hand, TypeInv, TypeOK, Locals
  <2>3. ToSet(mq'.msgs) \subseteq ToSet(mq.msgs) \cup {loc[p].out}
    <3>1. Once(mq.msgs) /\ loc[p].out.task \notin TasksOf(mq.msgs)
      BY <2>1 DEF PlaceInv, OnePlace, Carried, Hand, TasksOf
    <3> QED BY <1>a, <2>1, <2>2, <3>1, AppendPuts
  <2> QED BY <1>0, <1>b, <1>c, <2>1, <2>2, <2>3 DEF AsPosted, Others
<1>5. CASE RecvNow(p)
  <2>1. mq' = mq /\ loc' = loc /\ Others(p) /\ pc'[p] \notin {"send", "got"}
    BY <1>5, RecvNowEffects
  <2> QED BY <1>0, <1>b, <1>c, <2>1 DEF AsPosted, Others
<1>6. CASE RecvLater(p)
  <2> DEFINE m == loc[p].msg
  <2>1. /\ mq' = mq /\ m.op = "add" /\ pc[p] = "got"
        /\ loc'[p].list = Insert(loc[p].list, NodeOf(m))
        /\ loc'[p].ts = loc[p].ts /\ Others(p) /\ pc'[p] \notin {"send", "got"}
    BY <1>6, RecvLaterEffects
  <2>2. m \in Message /\ Marked(m) /\ m.task \notin Kept(p)
    BY <2>1, HandPlaced
  <2>3. Marked(NodeOf(m)) /\ NodeOf(m) \in Node /\ NodeOf(m).task = m.task
    BY <2>2, Pieces DEF Marked, NodeOf
  <2>4. ToSet(loc'[p].list) \subseteq ToSet(loc[p].list) \cup {NodeOf(m)}
    <3>1. Once(loc[p].list) /\ NodeOf(m).task \notin TasksOf(loc[p].list)
      BY <2>2, <2>3 DEF Kept, PlaceInv, OnePlace
    <3> HIDE DEF m
    <3> QED BY <1>a, <2>1, <2>3, <3>1, Pieces, InsertPuts
  <2> HIDE DEF m
  <2> QED BY <1>0, <1>b, <1>c, <2>1, <2>2, <2>3, <2>4 DEF AsPosted, Others
<1>8. CASE Recv(p)
  <2>1. /\ mq.msgs # <<>> /\ mq'.msgs = Tail(mq.msgs) /\ pc'[p] = "got"
        /\ loc'[p].msg = Head(mq.msgs)
        /\ loc'[p].list = loc[p].list /\ loc'[p].ts = loc[p].ts /\ Others(p)
    BY <1>8, RecvEffects
  <2>2. ToSet(mq'.msgs) \subseteq ToSet(mq.msgs) /\ Wellformed(Head(mq.msgs))
    BY <2>1, HeadPlaced
  <2>3. Hand(p)' = Head(mq.msgs)
    BY <2>1 DEF Hand
  <2> QED BY <1>0, <1>b, <1>c, <2>1, <2>2, <2>3 DEF AsPosted, Others
<1>7. CASE CronRun(p)
  <2>1. mq' = mq /\ loc' = loc /\ pc'[p] \notin {"send", "got"} /\ Others(p)
    BY <1>7, CronRunEffects
  <2> QED BY <1>0, <1>b, <1>c, <2>1 DEF AsPosted, Others
<1> QED BY <1>1, <1>2, <1>3, <1>4, <1>5, <1>6, <1>7, <1>8 DEF Moves

\* Only posted tasks are in places.
LEMMA PlacedArePosted ==
  ASSUME TypeInv, AsPosted
  PROVE  /\ TasksOf(mq.msgs) \subseteq hist.posted
         /\ \A p \in Procs : Kept(p) \subseteq hist.posted /\ Carried(p) \subseteq hist.posted
  BY DEF AsPosted, TasksOf, Kept, Carried, Hand, Wellformed, Marked

\* The places of the other processes are their own.
LEMMA OthersKeep ==
  ASSUME NEW p \in Procs, Others(p)
  PROVE  \A q \in Procs \ {p} :
           /\ Kept(q)' = Kept(q) /\ Carried(q)' = Carried(q)
           /\ loc'[q].list = loc[q].list
           /\ Executing(q)' = Executing(q) /\ pc'[q] = pc[q]
  BY DEF Others, Kept, Carried, Hand, Executing

\* A task goes from one place to the next, and is never copied.
LEMMA OnePlaceInductive ==
  ASSUME TypeInv, PlaceInv, NEW p \in Procs, Moves(p) \/ Quiet(p)
  PROVE  OnePlace'
<1>0. /\ mq.msgs \in Seq(Message) /\ Once(mq.msgs)
      /\ \A q \in Procs : loc[q].list \in Seq(Node) /\ Once(loc[q].list)
      /\ OnePlace
  BY DEF TypeInv, TypeOK, Locals, PlaceInv, OnePlace
<1>1. CASE Quiet(p)
  <2>1. /\ Once(mq'.msgs) /\ TasksOf(mq'.msgs) \subseteq TasksOf(mq.msgs)
        /\ \A q \in Procs : /\ Once(loc'[q].list)
                           /\ Kept(q)' \subseteq Kept(q) /\ Carried(q)' \subseteq Carried(q)
    BY <1>0, <1>1, QuietPlaces
  <2> QED BY <1>0, <2>1 DEF OnePlace
<1>2. ASSUME NEW t \in Tasks, PostCall(p, t) PROVE OnePlace'
  <2>1. /\ t \notin hist.posted /\ mq' = mq /\ Others(p) /\ pc'[p] = "send"
        /\ loc'[p].list = loc[p].list
    BY <1>2, PostEffects
  <2>2. Kept(p)' = Kept(p) /\ Carried(p)' \subseteq {t}
    <3>1. PICK m \in Nat : loc'[p].out = AddMessage(t, m)
      BY <1>2, PostEffects, ZenonT(30)
    <3> QED BY <2>1, <3>1 DEF Kept, Carried, Hand, AddMessage
  <2>3. /\ t \notin TasksOf(mq.msgs)
        /\ \A q \in Procs : t \notin Kept(q) /\ t \notin Carried(q)
    BY <2>1, PlacedArePosted DEF PlaceInv
  <2> QED BY <1>0, <2>1, <2>2, <2>3, OthersKeep DEF OnePlace
<1>3. ASSUME NEW u \in Uuids, DeleteCall(p, u) PROVE OnePlace'
  <2>1. /\ mq' = mq /\ Others(p) /\ pc'[p] = "send"
        /\ loc'[p].list = loc[p].list /\ loc'[p].out = DeleteMessage(u)
    BY <1>3, DeleteEffects
  <2>2. Kept(p)' = Kept(p) /\ Carried(p)' = {}
    BY <2>1 DEF Kept, Carried, Hand, DeleteMessage
  <2> QED BY <1>0, <2>1, <2>2, OthersKeep DEF OnePlace
<1>4. CASE Send(p)
  <2>1. /\ mq'.msgs = Append(mq.msgs, loc[p].out) /\ pc[p] = "send" /\ pc'[p] \notin {"send", "got"}
        /\ loc'[p].list = loc[p].list /\ Others(p)
    BY <1>4, SendEffects
  <2>2. Kept(p)' = Kept(p) /\ Carried(p)' = {} /\ Carried(p) = {loc[p].out.task} \ {NoTask}
    BY <2>1 DEF Kept, Carried, Hand
  <2>3. loc[p].out \in Message /\ loc[p].out.task \notin TasksOf(mq.msgs)
    BY <1>0, <2>2 DEF TypeInv, TypeOK, Locals, OnePlace, TasksOf
  <2>4. Once(mq'.msgs) /\ TasksOf(mq'.msgs) = TasksOf(mq.msgs) \cup Carried(p)
    BY <1>0, <2>1, <2>2, <2>3, AppendPuts
  <2> QED BY <1>0, <2>1, <2>2, <2>4, OthersKeep DEF OnePlace
<1>5. CASE RecvNow(p)
  <2>1. mq' = mq /\ loc' = loc /\ pc'[p] \notin {"send", "got"} /\ Others(p)
    BY <1>5, RecvNowEffects
  <2>2. Kept(p)' = Kept(p) /\ Carried(p)' = {}
    BY <2>1 DEF Kept, Carried
  <2> QED BY <1>0, <2>1, <2>2, OthersKeep DEF OnePlace
<1>6. CASE RecvLater(p)
  <2> DEFINE m == loc[p].msg
  <2>1. /\ mq' = mq /\ m.op = "add" /\ pc[p] = "got"
        /\ loc'[p].list = Insert(loc[p].list, NodeOf(m))
        /\ Others(p) /\ pc'[p] \notin {"send", "got"}
    BY <1>6, RecvLaterEffects
  <2>2. /\ m \in Message /\ m.task \notin TasksOf(mq.msgs)
        /\ \A q \in Procs : m.task \notin Kept(q) /\ (q # p => m.task \notin Carried(q))
    BY <2>1, HandPlaced
  <2>3. NodeOf(m) \in Node /\ NodeOf(m).task = m.task
    BY <2>2, Pieces DEF NodeOf
  <2> HIDE DEF m
  <2>4. Once(loc'[p].list) /\ Kept(p)' = Kept(p) \cup ({m.task} \ {NoTask})
    BY <1>0, <2>1, <2>2, <2>3, Pieces, InsertPuts DEF Kept
  <2>5. Carried(p)' = {}
    BY <2>1 DEF Carried
  <2> QED BY <1>0, <2>1, <2>2, <2>4, <2>5, OthersKeep DEF OnePlace
<1>8. CASE Recv(p)
  <2> DEFINE k == Head(mq.msgs).task
  <2>1. /\ mq.msgs # <<>> /\ mq'.msgs = Tail(mq.msgs) /\ pc'[p] = "got"
        /\ loc'[p].msg = Head(mq.msgs)
        /\ loc'[p].list = loc[p].list /\ Others(p)
    BY <1>8, RecvEffects
  <2>2. Kept(p)' = Kept(p) /\ Carried(p)' = {k} \ {NoTask}
    BY <2>1 DEF Kept, Carried, Hand
  <2>3. /\ Once(mq'.msgs) /\ TasksOf(mq'.msgs) = TasksOf(mq.msgs) \ {k}
        /\ {k} \ {NoTask} \subseteq TasksOf(mq.msgs)
    BY <2>1, HeadPlaced
  <2> HIDE DEF k
  <2> QED BY <1>0, <2>1, <2>2, <2>3, OthersKeep DEF OnePlace
<1>7. CASE CronRun(p)
  <2>1. mq' = mq /\ loc' = loc /\ pc'[p] \notin {"send", "got"} /\ Others(p)
    BY <1>7, CronRunEffects
  <2>2. Kept(p)' = Kept(p) /\ Carried(p)' = {}
    BY <2>1 DEF Kept, Carried
  <2> QED BY <1>0, <2>1, <2>2, OthersKeep DEF OnePlace
<1> QED BY <1>1, <1>2, <1>3, <1>4, <1>5, <1>6, <1>7, <1>8 DEF Moves

\* The nodes of a crontab are those of tasks that were posted.
LEMMA NodesAreTasks ==
  ASSUME TypeInv, AsPosted, NEW p \in Procs, NEW i \in DOMAIN loc[p].list
  PROVE  /\ loc[p].list[i].task \in Tasks /\ loc[p].list[i].task \in hist.posted
         /\ loc[p].list[i].task \in Kept(p)
<1>1. loc[p].list[i] \in ToSet(loc[p].list) /\ hist.posted \subseteq Tasks
  BY DEF ToSet, TypeInv, TypeOK, History
<1>2. loc[p].list[i].task \in hist.posted
  BY <1>1 DEF AsPosted, Marked
<1> QED BY <1>1, <1>2, DataAssumption DEF Kept, TasksOf

\* When a task runs it leaves every place but the head of the crontab it is in.
LEMMA UnrunInductive ==
  ASSUME TypeInv, PlaceInv, NEW p \in Procs, Moves(p) \/ Quiet(p)
  PROVE  Unrun'
<1>0. /\ mq.msgs \in Seq(Message) /\ hist.runs \in [Tasks -> Nat] /\ hist.posted \subseteq Tasks
      /\ \A q \in Procs : loc[q].list \in Seq(Node) /\ Once(loc[q].list)
      /\ AsPosted /\ OnePlace /\ Unrun
  BY DEF TypeInv, TypeOK, Locals, History, PlaceInv, OnePlace
<1>a. \A q \in Procs : \A i \in DOMAIN loc[q].list :
        /\ loc[q].list[i].task \in Tasks /\ loc[q].list[i].task \in hist.posted
        /\ loc[q].list[i].task \in Kept(q)
  BY <1>0, NodesAreTasks
<1>b. TasksOf(mq.msgs) \subseteq Tasks /\ \A q \in Procs : Carried(q) \subseteq Tasks
  BY <1>0, PlacedArePosted
<1>1. CASE Quiet(p)
  <2>1. /\ TasksOf(mq'.msgs) \subseteq TasksOf(mq.msgs)
        /\ \A q \in Procs : Carried(q)' \subseteq Carried(q)
        /\ hist'.runs = hist.runs /\ hist'.posted = hist.posted
        /\ Others(p) /\ Shrinks(p) /\ (pc[p] \in Leaving => pc'[p] \in Leaving)
    BY <1>0, <1>1, QuietPlaces DEF Quiet, SameHistory
  <2>2. ASSUME pc'[p] \notin Leaving, NEW i \in DOMAIN loc'[p].list
        PROVE  hist'.runs[loc'[p].list[i].task] = 0 \/ (i = 1 /\ Executing(p)')
    <3>1. \A k \in DOMAIN loc[p].list :
            hist.runs[loc[p].list[k].task] = 0 \/ (k = 1 /\ Executing(p))
      BY <1>0, <2>1, <2>2 DEF Unrun
    <3>2. CASE loc'[p].list = loc[p].list /\ (Executing(p) => Executing(p)' \/ pc'[p] \in Leaving)
      BY <2>1, <2>2, <3>1, <3>2
    <3>3. CASE loc'[p].list = <<>>
      BY <2>2, <3>3
    <3>4. CASE loc[p].list # <<>> /\ loc'[p].list = Tail(loc[p].list)
      <4>1. i + 1 \in DOMAIN loc[p].list /\ loc'[p].list[i] = loc[p].list[i + 1]
        BY <1>0, <2>2, <3>4, TailTakes
      <4>2. i \in Nat \ {0} /\ i + 1 # 1
        <5>1. loc'[p].list \in Seq(Node)
          BY <1>0, <3>4, HeadTailProperties
        <5> QED BY <2>2, <5>1, LenProperties
      <4> QED BY <2>1, <3>1, <4>1, <4>2
    <3>5. ASSUME ~Executing(p), NEW k \in DOMAIN loc[p].list, loc'[p].list = RemoveAt(loc[p].list, k)
          PROVE  hist'.runs[loc'[p].list[i].task] = 0
      <4>0. ToSet(loc'[p].list) \subseteq ToSet(loc[p].list)
        BY <1>0, <3>5, RemoveTakes
      <4>1. loc'[p].list[i] \in ToSet(loc[p].list)
        BY <2>2, <4>0 DEF ToSet
      <4>2. \A n \in ToSet(loc[p].list) : hist.runs[n.task] = 0
        BY <3>1, <3>5 DEF ToSet
      <4> QED BY <2>1, <4>1, <4>2
    <3> QED BY <2>1, <3>2, <3>3, <3>4, <3>5 DEF Shrinks
  <2> QED BY <1>0, <2>1, <2>2, OthersKeep DEF Unrun
<1>2. ASSUME NEW t \in Tasks, PostCall(p, t) PROVE Unrun'
  <2>1. /\ t \notin hist.posted /\ mq' = mq /\ Others(p) /\ pc'[p] = "send"
        /\ hist'.runs = hist.runs /\ hist'.posted = hist.posted \cup {t}
        /\ loc'[p].list = loc[p].list
        /\ pc[p] \notin Leaving /\ (Executing(p) => Executing(p)')
    BY <1>2, PostEffects
  <2>2. Carried(p)' \subseteq {t}
    <3>1. PICK m \in Nat : loc'[p].out = AddMessage(t, m)
      BY <1>2, PostEffects, ZenonT(30)
    <3> QED BY <2>1, <3>1 DEF Carried, Hand, AddMessage
  <2> QED BY <1>0, <2>1, <2>2, OthersKeep DEF Unrun
<1>3. ASSUME NEW u \in Uuids, DeleteCall(p, u) PROVE Unrun'
  <2>1. /\ mq' = mq /\ Others(p) /\ pc'[p] = "send" /\ loc'[p].out = DeleteMessage(u)
        /\ hist'.runs = hist.runs /\ hist'.posted = hist.posted
        /\ loc'[p].list = loc[p].list
        /\ pc[p] \notin Leaving /\ (Executing(p) => Executing(p)')
    BY <1>3, DeleteEffects DEF SameHistory
  <2>2. Carried(p)' = {}
    BY <2>1 DEF Carried, Hand, DeleteMessage
  <2> QED BY <1>0, <2>1, <2>2, OthersKeep DEF Unrun
<1>4. CASE Send(p)
  <2>1. /\ mq'.msgs = Append(mq.msgs, loc[p].out) /\ pc[p] = "send" /\ pc'[p] \notin {"send", "got"}
        /\ hist'.runs = hist.runs /\ hist'.posted = hist.posted
        /\ loc'[p].list = loc[p].list /\ Others(p) /\ (Executing(p) => Executing(p)')
    BY <1>4, SendEffects
  <2>2. Carried(p)' = {} /\ Carried(p) = {loc[p].out.task} \ {NoTask} /\ pc[p] \notin Leaving
    BY <2>1 DEF Carried, Hand, Leaving
  <2>3. loc[p].out \in Message /\ loc[p].out.task \notin TasksOf(mq.msgs)
    BY <1>0, <2>2 DEF TypeInv, TypeOK, Locals, OnePlace, TasksOf
  <2>4. TasksOf(mq'.msgs) = TasksOf(mq.msgs) \cup Carried(p)
    BY <1>0, <2>1, <2>2, <2>3, AppendPuts DEF OnePlace
  <2> QED BY <1>0, <2>1, <2>2, <2>4, OthersKeep, SMTT(30) DEF Unrun
<1>5. CASE RecvNow(p)
  <2> DEFINE k == loc[p].msg.task
  <2>1. /\ loc[p].msg.op = "add" /\ mq' = mq
        /\ hist'.runs = [hist.runs EXCEPT ![k] = @ + 1] /\ hist'.posted = hist.posted
        /\ loc'[p].list = loc[p].list /\ Others(p) /\ pc'[p] = "exec" /\ pc[p] = "got"
    BY <1>5, RecvNowEffects
  <2>2. /\ k \in Tasks /\ k \in hist.posted /\ hist.runs[k] = 0
        /\ k \notin TasksOf(mq.msgs)
        /\ \A q \in Procs : k \notin Kept(q) /\ (q # p => k \notin Carried(q))
    BY <2>1, HandPlaced DEF Marked
  <2>3. Carried(p)' = {} /\ pc[p] \notin Leaving /\ ~Executing(p)
    BY <2>1 DEF Carried, Leaving, Executing, Calling
  <2> HIDE DEF k
  <2>4. hist'.runs[k] = 1 /\ \A t \in Tasks \ {k} : hist'.runs[t] = hist.runs[t]
    BY <1>0, <2>1, <2>2
  <2>5. \A q \in Procs : \A i \in DOMAIN loc[q].list :
          hist'.runs[loc[q].list[i].task] = hist.runs[loc[q].list[i].task]
    BY <1>a, <2>2, <2>4
  <2>6. \A t \in Tasks : hist'.runs[t] <= 1 /\ (t \notin hist'.posted => hist'.runs[t] = 0)
    BY <1>0, <2>1, <2>2, <2>4 DEF Unrun
  <2>7. \A t \in TasksOf(mq'.msgs) : hist'.runs[t] = 0
    BY <1>0, <1>b, <2>1, <2>2, <2>4 DEF Unrun
  <2>8. \A q \in Procs : \A t \in Carried(q)' : hist'.runs[t] = 0
    BY <1>0, <1>b, <2>1, <2>2, <2>3, <2>4, OthersKeep DEF Unrun
  <2>9. \A q \in Procs : pc'[q] \notin Leaving =>
          \A i \in DOMAIN loc'[q].list :
            hist'.runs[loc'[q].list[i].task] = 0 \/ (i = 1 /\ Executing(q)')
    BY <1>0, <2>1, <2>3, <2>5, OthersKeep DEF Unrun
  <2> QED BY <2>6, <2>7, <2>8, <2>9 DEF Unrun
<1>6. CASE RecvLater(p)
  <2> DEFINE m == loc[p].msg
  <2>1. /\ m.op = "add" /\ mq' = mq
        /\ loc'[p].list = Insert(loc[p].list, NodeOf(m)) /\ hist' = hist
        /\ Others(p) /\ pc'[p] = "count" /\ pc[p] = "got"
    BY <1>6, RecvLaterEffects
  <2>2. hist.runs[m.task] = 0 /\ m \in Message /\ m.task \notin Kept(p)
    BY <2>1, HandPlaced
  <2>3. NodeOf(m) \in Node /\ NodeOf(m).task = m.task
    BY <2>2, Pieces DEF NodeOf
  <2>4. Carried(p)' = {} /\ pc[p] \notin Leaving /\ ~Executing(p)
    BY <2>1 DEF Carried, Leaving, Executing, Calling
  <2> HIDE DEF m
  <2>5. ToSet(loc'[p].list) \subseteq ToSet(loc[p].list) \cup {NodeOf(m)}
    BY <1>0, <2>1, <2>2, <2>3, Pieces, InsertPuts DEF Kept
  <2>6. \A n \in ToSet(loc[p].list) : hist.runs[n.task] = 0
    BY <1>0, <2>4 DEF Unrun, ToSet
  <2>7. \A i \in DOMAIN loc'[p].list : hist.runs[loc'[p].list[i].task] = 0
    BY <2>2, <2>3, <2>5, <2>6 DEF ToSet
  <2> QED BY <1>0, <2>1, <2>2, <2>4, <2>7, OthersKeep DEF Unrun
<1>7. CASE CronRun(p)
  <2> DEFINE k == Head(loc[p].list).task
  <2>1. /\ loc[p].list # <<>> /\ mq' = mq /\ loc' = loc /\ Others(p)
        /\ hist'.runs = [hist.runs EXCEPT ![k] = @ + 1] /\ hist'.posted = hist.posted
        /\ pc[p] = "cron" /\ pc'[p] = "cronExec"
    BY <1>7, CronRunEffects
  <2>2. 1 \in DOMAIN loc[p].list /\ k = loc[p].list[1].task
    BY <1>0, <2>1, TailTakes
  <2>3. Carried(p)' = {} /\ pc[p] \notin Leaving /\ ~Executing(p) /\ Executing(p)'
    BY <2>1 DEF Carried, Leaving, Executing, Calling
  <2>4. k \in Tasks /\ k \in hist.posted /\ k \in Kept(p) /\ hist.runs[k] = 0
    BY <1>0, <1>a, <2>2, <2>3 DEF Unrun
  <2>5. /\ k \notin TasksOf(mq.msgs)
        /\ \A q \in Procs : k \notin Carried(q) /\ (q # p => k \notin Kept(q))
    BY <1>0, <2>4 DEF OnePlace
  <2>6. \A i \in DOMAIN loc[p].list : i # 1 => loc[p].list[i].task # k
    BY <1>0, <1>a, <2>2, DataAssumption DEF Once
  <2> HIDE DEF k
  <2>7. hist'.runs[k] = 1 /\ \A t \in Tasks \ {k} : hist'.runs[t] = hist.runs[t]
    BY <1>0, <2>1, <2>4
  <2>8. \A q \in Procs : \A i \in DOMAIN loc[q].list :
          \/ hist'.runs[loc[q].list[i].task] = hist.runs[loc[q].list[i].task]
          \/ q = p /\ i = 1
    BY <1>a, <2>5, <2>6, <2>7
  <2>9. loc'[p].list = loc[p].list
    BY <2>1
  <2> QED BY <1>0, <1>b, <2>1, <2>3, <2>4, <2>5, <2>7, <2>8, <2>9, OthersKeep DEF Unrun
<1>8. CASE Recv(p)
  <2> DEFINE k == Head(mq.msgs).task
  <2>1. /\ mq.msgs # <<>> /\ mq'.msgs = Tail(mq.msgs) /\ hist' = hist
        /\ loc'[p].msg = Head(mq.msgs) /\ loc'[p].list = loc[p].list
        /\ Others(p) /\ pc'[p] = "got" /\ pc[p] = "recv"
    BY <1>8, RecvEffects
  <2>2. Carried(p)' = {k} \ {NoTask} /\ pc[p] \notin Leaving /\ ~Executing(p)
    BY <2>1 DEF Carried, Hand, Leaving, Executing, Calling
  <2>3. TasksOf(mq'.msgs) \subseteq TasksOf(mq.msgs) /\ {k} \ {NoTask} \subseteq TasksOf(mq.msgs)
    BY <2>1, HeadPlaced
  <2> HIDE DEF k
  <2> QED BY <1>0, <2>1, <2>2, <2>3, OthersKeep DEF Unrun
<1> QED BY <1>1, <1>2, <1>3, <1>4, <1>5, <1>6, <1>7, <1>8 DEF Moves

\* PlaceInv holds at the start, is kept by every step, and bounds the runs.
LEMMA PlaceInvariant == Spec => []PlaceInv
<1>1. Init => PlaceInv
  BY DEF Init, PlaceInv, AsPosted, OnePlace, Unrun, Unloaded, Once, TasksOf, ToSet, Kept, Carried
<1>2. TypeInv /\ PlaceInv /\ [Next]_vars => PlaceInv'
  <2> SUFFICES ASSUME TypeInv, PlaceInv, [Next]_vars PROVE PlaceInv'
    OBVIOUS
  <2>1. ASSUME NEW p \in Procs,
               WorkerStep(p) \/ CallStep(p) \/ Lock(p) \/ Unlock(p) \/ ScriptStep(p) \/ Fault(p)
        PROVE  PlaceInv'
    <3>1. Moves(p) \/ Quiet(p)
      BY <2>1, QuietSteps
    <3> QED
      BY <3>1, AsPostedInductive, OnePlaceInductive, UnrunInductive DEF PlaceInv
  <2>2. CASE UNCHANGED vars \/ Done
    BY <2>2, SMTT(30) DEF Done, vars, PlaceInv, AsPosted, OnePlace, Unrun, Wellformed, Marked, Kept, Carried, Hand, Executing
  <2>3. CASE Tick
    <3>1. now \in Nat /\ \A p \in Procs : loc[p].ts \in Nat
      BY DEF TypeInv, TypeOK, Locals
    <3>2. /\ mq' = mq /\ pc' = pc /\ caller' = caller /\ loc' = loc /\ hist' = hist
          /\ now' = now + 1
      BY <2>3 DEF Tick
    <3>3. AsPosted'
      BY <3>1, <3>2 DEF PlaceInv, AsPosted, Hand, Wellformed, Marked
    <3>4. OnePlace' /\ Unrun'
      BY <3>2 DEF PlaceInv, OnePlace, Unrun, Kept, Carried, Hand, Executing
    <3> QED BY <3>3, <3>4 DEF PlaceInv
  <2> QED BY <2>1, <2>2, <2>3 DEF Next
<1> QED BY <1>1, <1>2, TypeInvariant, PTL DEF Spec

\* No task runs twice, whatever processes there are: not through a second worker,
\* a crash, a signal that ends a call early, or the reading of a freed node.
THEOREM RunAtMostOnce == Spec => []AtMostOnce
<1>1. PlaceInv => AtMostOnce
  BY DEF PlaceInv, Unrun, AtMostOnce
<1> QED BY <1>1, PlaceInvariant, PTL

\* No task is run before the time its post asked for, though a worker goes by the
\* time it read before the message came.
THEOREM RunInTime == Spec => NotEarly
<1>1. TypeInv /\ PlaceInv /\ [Next]_vars =>
        [\A t \in Tasks : hist'.runs[t] > hist.runs[t] => hist.at[t] <= now]_vars
  <2> SUFFICES ASSUME TypeInv, PlaceInv, Next, NEW t \in Tasks, hist'.runs[t] > hist.runs[t]
               PROVE  hist.at[t] <= now
    OBVIOUS
  <2>0. /\ hist.runs \in [Tasks -> Nat] /\ hist.at \in [Tasks -> Nat] /\ now \in Nat
        /\ \A p \in Procs : loc[p].ts \in Nat /\ loc[p].ts <= now
    BY DEF TypeInv, TypeOK, Locals, History, PlaceInv, AsPosted
  <2>1. PICK p \in Procs : Moves(p) \/ Quiet(p)
    <3>1. ~Tick /\ ~Done
      BY <2>0 DEF Tick, Done, vars
    <3> QED BY <3>1, QuietSteps DEF Next
  <2>2. CASE hist'.runs = hist.runs
    BY <2>0, <2>2
  <2>3. CASE RecvNow(p)
    <3>1. /\ hist'.runs = [hist.runs EXCEPT ![loc[p].msg.task] = @ + 1]
          /\ loc[p].msg.mtime <= loc[p].ts
          /\ pc[p] = "got" /\ loc[p].msg.op = "add"
      BY <2>3, RecvNowEffects
    <3>2. t = loc[p].msg.task
      BY <2>0, <3>1
    <3>3. hist.at[t] <= loc[p].ts
      BY <3>1, <3>2, HandPlaced DEF Marked
    <3> QED BY <2>0, <3>3
  <2>4. CASE CronRun(p)
    <3>1. /\ hist'.runs = [hist.runs EXCEPT ![Head(loc[p].list).task] = @ + 1]
          /\ Head(loc[p].list).mtime < loc[p].ts /\ loc[p].list # <<>>
      BY <2>4, CronRunEffects
    <3>2. t = Head(loc[p].list).task
      BY <2>0, <3>1
    <3>3. loc[p].list \in Seq(Node) /\ Once(loc[p].list)
      BY DEF TypeInv, TypeOK, Locals, PlaceInv, OnePlace
    <3>4. Head(loc[p].list) \in ToSet(loc[p].list)
      BY <3>1, <3>3, TailTakes DEF ToSet
    <3>5. hist.at[t] < loc[p].ts
      BY <3>1, <3>2, <3>4 DEF PlaceInv, AsPosted, Marked
    <3> QED BY <2>0, <3>5
  <2> QED
    BY <2>1, <2>2, <2>3, <2>4, PostEffects, DeleteEffects, SendEffects, RecvEffects, RecvLaterEffects
    DEF Moves, Quiet, SameHistory
<1> QED BY <1>1, TypeInvariant, PlaceInvariant, PTL DEF Spec, NotEarly

================================================================================
