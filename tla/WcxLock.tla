-------------------------------- MODULE WcxLock --------------------------------
(***************************************************************************)
(* The shared segment of wcx_task.c from the moment it is created: how the *)
(* first processes initialise its semaphores (wcx_task_init), and the lock *)
(* that scripts take with wcx_lock and give back with wcx_unlock.  A new   *)
(* System V segment is zeroed, and a zeroed sem_t is a semaphore at 0.     *)
(***************************************************************************)
EXTENDS Integers, FiniteSets

CONSTANTS
  Procs,
  Together,   \* may two processes be in wcx_task_init at the same time?
  Careless,   \* scripts that ignore the result of wcx_lock, as example/wcx_lock.php does
  Killable,   \* processes that may die at any point
  SemMax      \* SEM_VALUE_MAX

ASSUME LockAssumption ==
  /\ Together \in BOOLEAN
  /\ Careless \subseteq Procs /\ Killable \subseteq Procs
  /\ SemMax \in Nat /\ SemMax >= 1

VARIABLES
  init, slock, ulock,   \* the segment
  pc,                   \* where each process is
  has,                  \* what its last wcx_lock returned, until it unlocks
  ready                 \* history: the semaphores sem_init was called on

lockVars == <<init, slock, ulock, pc, has, ready>>

Initialising == {"set", "slock", "ulock"}
Labels == Initialising \cup {"off", "idle", "locked", "inside", "dead"}

LockInit ==
  /\ init = 0 /\ slock = 0 /\ ulock = 0 /\ ready = {}
  /\ pc = [p \in Procs |-> "off"]
  /\ has = [p \in Procs |-> FALSE]

Goto(p, label) == pc' = [pc EXCEPT ![p] = label]

--------------------------------------------------------------------------------
(* wcx_task_init.                                                          *)

\* MUTANT: the segment is taken as fresh by everybody who attaches to it.
FreshAlways == TRUE

Fresh == init <= 0

\* The test of init, after the segment is attached.
Boot(p) ==
  /\ pc[p] = "off"
  /\ Together \/ \A q \in Procs : pc[q] \notin Initialising
  /\ Goto(p, IF Fresh THEN "set" ELSE "idle")
  /\ UNCHANGED <<init, slock, ulock, has, ready>>

SetInit(p) ==
  /\ pc[p] = "set"
  /\ init' = 1
  /\ Goto(p, "slock")
  /\ UNCHANGED <<slock, ulock, has, ready>>

InitSlock(p) ==
  /\ pc[p] = "slock"
  /\ slock' = 1 /\ ready' = ready \cup {"slock"}
  /\ Goto(p, "ulock")
  /\ UNCHANGED <<init, ulock, has>>

InitUlock(p) ==
  /\ pc[p] = "ulock"
  /\ ulock' = 1 /\ ready' = ready \cup {"ulock"}
  /\ Goto(p, "idle")
  /\ UNCHANGED <<init, slock, has>>

--------------------------------------------------------------------------------
(* wcx_lock, wcx_unlock, and WCX_TASK_LOCK around a short section.         *)

\* MUTANT: sem_getvalue and a decrement instead of sem_trywait.
TakenAnyway == TRUE

Available == ulock > 0

\* sem_trywait: TRUE and the lock, or FALSE at once.  Who looks at the result
\* goes on only with TRUE; who does not, as if it had the lock.
TryLock(p) ==
  /\ pc[p] = "idle"
  /\ \/ /\ Available
        /\ ulock' = ulock - 1 /\ has' = [has EXCEPT ![p] = TRUE]
        /\ Goto(p, "locked")
     \/ /\ ~Available
        /\ Goto(p, IF p \in Careless THEN "locked" ELSE "idle")
        /\ UNCHANGED <<ulock, has>>
  /\ UNCHANGED <<init, slock, ready>>

\* sem_post: raises the semaphore whoever calls it; FALSE at its limit.
Unlock(p) ==
  /\ pc[p] = "locked"
  /\ ulock' = IF ulock < SemMax THEN ulock + 1 ELSE ulock
  /\ has' = [has EXCEPT ![p] = FALSE]
  /\ Goto(p, "idle")
  /\ UNCHANGED <<init, slock, ready>>

\* sem_wait on slock; see WcxTask for what is done inside, and for signals.
Enter(p) ==
  /\ pc[p] = "idle" /\ slock > 0
  /\ slock' = slock - 1
  /\ Goto(p, "inside")
  /\ UNCHANGED <<init, ulock, has, ready>>

Leave(p) ==
  /\ pc[p] = "inside"
  /\ slock' = slock + 1
  /\ Goto(p, "idle")
  /\ UNCHANGED <<init, ulock, has, ready>>

\* Nothing is undone: what the process had taken stays taken.
Die(p) ==
  /\ p \in Killable /\ pc[p] \notin {"off", "dead"}
  /\ Goto(p, "dead")
  /\ UNCHANGED <<init, slock, ulock, has, ready>>

Done == (\A p \in Procs : pc[p] = "dead") /\ UNCHANGED lockVars

LockNext ==
  \/ \E p \in Procs :
       \/ Boot(p) \/ SetInit(p) \/ InitSlock(p) \/ InitUlock(p)
       \/ TryLock(p) \/ Unlock(p) \/ Enter(p) \/ Leave(p) \/ Die(p)
  \/ Done

LockSpec == LockInit /\ [][LockNext]_lockVars

--------------------------------------------------------------------------------
(* Properties.                                                             *)

LockTypeOK ==
  /\ init \in {0, 1} /\ slock \in Nat /\ ulock \in 0 .. SemMax
  /\ pc \in [Procs -> Labels] /\ has \in [Procs -> BOOLEAN]
  /\ ready \subseteq {"slock", "ulock"}

\* wcx_lock has returned TRUE to at most one script that has not unlocked; one
\* that died with the lock keeps everybody else out for good.
OneHolder == \A p, q \in Procs : has[p] /\ has[q] => p = q

\* The lock is free exactly when nobody has it, once the semaphore exists: it is
\* neither lost nor doubled by the initialisation of a process that comes late.
LockConserved ==
  "ulock" \in ready => (ulock = 1 /\ \A p \in Procs : ~has[p])
                       \/ (ulock = 0 /\ \E p \in Procs : has[p])

\* The initialisation of a process that comes late never lets a second one into
\* the section that slock guards.
OneInside == \A p, q \in Procs : pc[p] = "inside" /\ pc[q] = "inside" => p = q

\* wcx_task.c:577, "shared memory data already init": a process that skips the
\* initialisation finds the semaphores initialised.
InitMeansReady ==
  \A p \in Procs : pc[p] \in {"idle", "locked", "inside"} => ready = {"slock", "ulock"}

================================================================================
