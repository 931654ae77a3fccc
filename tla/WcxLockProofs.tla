------------------------------ MODULE WcxLockProofs ----------------------------
(***************************************************************************)
(* Proofs about the shared segment, for any number of scripts: what the    *)
(* initialisation and wcx_lock guarantee if no two processes initialise at *)
(* once and scripts, which may die anywhere, look at what wcx_lock says.   *)
(***************************************************************************)
EXTENDS WcxLock, TLAPS

--------------------------------------------------------------------------------
(* Whatever the processes do.                                              *)

\* No semaphore goes below zero or beyond its limit, even if processes initialise the
\* segment under each other and scripts unlock what they do not have.
THEOREM LockTypeCorrect == LockSpec => []LockTypeOK
<1>0. SemMax \in Nat /\ SemMax >= 1
  BY LockAssumption
<1> USE DEF LockTypeOK, Labels, Initialising
<1>1. LockInit => LockTypeOK
  BY <1>0 DEF LockInit
<1>2. LockTypeOK /\ [LockNext]_lockVars => LockTypeOK'
  <2> SUFFICES ASSUME LockTypeOK, [LockNext]_lockVars PROVE LockTypeOK'
    OBVIOUS
  <2>1. CASE UNCHANGED lockVars \/ Done
    BY <2>1 DEF lockVars, Done
  <2>2. ASSUME NEW p \in Procs, Boot(p) \/ SetInit(p) \/ InitSlock(p) \/ InitUlock(p)
        PROVE  LockTypeOK'
    <3>1. has' = has /\ init' \in {0, 1}
      BY <2>2 DEF Boot, SetInit, InitSlock, InitUlock
    <3>2. slock' \in Nat /\ ulock' \in 0 .. SemMax
      BY <1>0, <2>2 DEF Boot, SetInit, InitSlock, InitUlock
    <3>3. ready' \subseteq {"slock", "ulock"}
      BY <2>2 DEF Boot, SetInit, InitSlock, InitUlock
    <3>4. pc' \in [Procs -> Labels]
      BY <2>2 DEF Boot, SetInit, InitSlock, InitUlock, Goto
    <3> QED BY <3>1, <3>2, <3>3, <3>4
  <2>3. ASSUME NEW p \in Procs, TryLock(p) \/ Unlock(p) PROVE LockTypeOK'
    <3>1. UNCHANGED <<init, slock, ready>>
      BY <2>3 DEF TryLock, Unlock
    <3>2. ulock' \in 0 .. SemMax
      BY <1>0, <2>3 DEF TryLock, Unlock, Available
    <3>3. pc' \in [Procs -> Labels] /\ has' \in [Procs -> BOOLEAN]
      BY <2>3 DEF TryLock, Unlock, Goto
    <3> QED BY <3>1, <3>2, <3>3
  <2>4. ASSUME NEW p \in Procs, Enter(p) \/ Leave(p) \/ Die(p) PROVE LockTypeOK'
    <3>1. UNCHANGED <<init, ulock, has, ready>>
      BY <2>4 DEF Enter, Leave, Die
    <3>2. slock' \in Nat
      BY <2>4 DEF Enter, Leave, Die
    <3>3. pc' \in [Procs -> Labels]
      BY <2>4 DEF Enter, Leave, Die, Goto
    <3> QED BY <3>1, <3>2, <3>3
  <2> QED BY <2>1, <2>2, <2>3, <2>4 DEF LockNext
<1> QED BY <1>1, <1>2, PTL DEF LockSpec

--------------------------------------------------------------------------------
(* The lock and the section.                                               *)

\* The initialisation runs once, before anybody uses the segment: whoever is in it
\* is alone, and a semaphore it has not reached is still zero and not in use.
Alone ==
  /\ \A p, q \in Procs :
       pc[p] \in Initialising /\ p # q => pc[q] \in {"off", "dead"}
  /\ init = 0 => \A p \in Procs : pc[p] \in {"off", "set", "dead"}
  /\ \A p \in Procs : /\ pc[p] \in {"set", "slock"} => ready = {}
                      /\ pc[p] = "ulock" => "ulock" \notin ready
  /\ init = 0 => ready = {}

\* ulock is 1 and nobody has it, or 0 and one script has it, alive or dead.
UlockInv ==
  /\ \A p \in Procs : has[p] => pc[p] \in {"locked", "dead"} /\ "ulock" \in ready
  /\ \A p \in Procs : pc[p] = "locked" => has[p]
  /\ "ulock" \notin ready => ulock = 0
  /\ ulock \in {0, 1}
  /\ ulock = 1 => \A p \in Procs : ~has[p]
  /\ "ulock" \in ready /\ ulock = 0 => \E p \in Procs : has[p]
  /\ OneHolder

\* The same of slock, as far as the living go.
SlockInv ==
  /\ "slock" \notin ready => slock = 0 /\ \A p \in Procs : pc[p] # "inside"
  /\ slock \in {0, 1}
  /\ slock = 1 => \A p \in Procs : pc[p] # "inside"
  /\ OneInside

SegmentInv == LockTypeOK /\ Alone /\ UlockInv /\ SlockInv

\* What is assumed of the processes: initialisations do not overlap, and scripts
\* look at the result of wcx_lock.
Orderly == ~Together /\ Careless = {}

\* Every step keeps SegmentInv.
LEMMA SegmentInductive == Orderly /\ SegmentInv /\ [LockNext]_lockVars => SegmentInv'
<1> SUFFICES ASSUME Orderly, SegmentInv, [LockNext]_lockVars PROVE SegmentInv'
  OBVIOUS
<1>0. SemMax \in Nat /\ SemMax >= 1
  BY LockAssumption
<1> USE DEF Orderly, SegmentInv, LockTypeOK, Alone, UlockInv, SlockInv, OneHolder,
            OneInside, Initialising, Labels
<1>1. CASE UNCHANGED lockVars
  BY <1>1 DEF lockVars
<1>2. CASE Done
  BY <1>2 DEF Done, lockVars
<1>3. ASSUME NEW p \in Procs, Boot(p) PROVE SegmentInv'
  BY <1>3 DEF Boot, Fresh, Goto
<1>4. ASSUME NEW p \in Procs, SetInit(p) PROVE SegmentInv'
  BY <1>4 DEF SetInit, Goto
<1>5. ASSUME NEW p \in Procs, InitSlock(p) PROVE SegmentInv'
  BY <1>5 DEF InitSlock, Goto
<1>6. ASSUME NEW p \in Procs, InitUlock(p) PROVE SegmentInv'
  BY <1>0, <1>6 DEF InitUlock, Goto
<1>7. ASSUME NEW p \in Procs, TryLock(p) PROVE SegmentInv'
  <2>1. CASE Available
    <3>1. ulock = 1 /\ "ulock" \in ready /\ \A q \in Procs : ~has[q]
      BY <2>1 DEF Available
    <3>2. /\ ulock' = 0 /\ has' = [has EXCEPT ![p] = TRUE]
          /\ pc[p] = "idle" /\ pc' = [pc EXCEPT ![p] = "locked"]
          /\ UNCHANGED <<init, slock, ready>>
      BY <1>7, <2>1, <3>1 DEF TryLock, Goto
    <3>3. LockTypeOK' /\ Alone' /\ SlockInv'
      BY <1>0, <3>2
    <3>4. UlockInv'
      BY <3>1, <3>2
    <3> QED BY <3>3, <3>4
  <2>2. CASE ~Available
    BY <1>7, <2>2 DEF TryLock, Goto
  <2> QED BY <2>1, <2>2
<1>8. ASSUME NEW p \in Procs, Unlock(p) PROVE SegmentInv'
  BY <1>0, <1>8 DEF Unlock, Goto
<1>9. ASSUME NEW p \in Procs, Enter(p) PROVE SegmentInv'
  BY <1>9 DEF Enter, Goto
<1>10. ASSUME NEW p \in Procs, Leave(p) PROVE SegmentInv'
  BY <1>10 DEF Leave, Goto
<1>11. ASSUME NEW p \in Procs, Die(p) PROVE SegmentInv'
  BY <1>11 DEF Die, Goto
<1> QED
  BY <1>1, <1>2, <1>3, <1>4, <1>5, <1>6, <1>7, <1>8, <1>9, <1>10, <1>11 DEF LockNext

\* SegmentInv holds in every reachable state.
LEMMA SegmentInvariant == ASSUME Orderly PROVE LockSpec => []SegmentInv
<1>1. LockInit => SegmentInv
  BY LockAssumption
  DEF LockInit, SegmentInv, LockTypeOK, Alone, UlockInv, SlockInv, OneHolder, OneInside,
      Initialising, Labels
<1>2. SegmentInv /\ [LockNext]_lockVars => SegmentInv'
  BY SegmentInductive
<1> QED BY <1>1, <1>2, PTL DEF LockSpec

\* wcx_lock returns TRUE to at most one script at a time, however many come late and
\* wherever they die.
THEOREM LockHasOneHolder ==
  ASSUME Orderly
  PROVE  LockSpec => []OneHolder
<1>1. SegmentInv => OneHolder
  BY DEF SegmentInv, UlockInv
<1> QED BY <1>1, SegmentInvariant, PTL

\* The lock is neither lost nor doubled: not by the initialisation of a process that
\* comes late, nor by a script that dies.
THEOREM LockIsConserved ==
  ASSUME Orderly
  PROVE  LockSpec => []LockConserved
<1>1. SegmentInv => LockConserved
  BY DEF SegmentInv, UlockInv, LockConserved
<1> QED BY <1>1, SegmentInvariant, PTL

\* At most one living process is in the section that slock guards.
THEOREM SectionHasOneProcess ==
  ASSUME Orderly
  PROVE  LockSpec => []OneInside
<1>1. SegmentInv => OneInside
  BY DEF SegmentInv, SlockInv
<1> QED BY <1>1, SegmentInvariant, PTL

================================================================================
