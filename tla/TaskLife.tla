-------------------------------- MODULE TaskLife -------------------------------
(***************************************************************************)
(* What the task queue promises to the scripts that use it, whoever runs   *)
(* the tasks: a posted task waits, then runs once and not before its time, *)
(* unless a delete names it, its message cannot be read, or the workers    *)
(* were told to stop, have thrown an exception, or died.  A delete is only *)
(* a permission to drop: how many of the tasks it matches are dropped, and *)
(* when, is the worker's business.                                         *)
(***************************************************************************)
EXTENDS Integers, SequencesExt

CONSTANTS Tasks, Garbled, UuidOf, Uuids, Stamps

VARIABLES
  life,    \* what has become of each task
  due,     \* the time asked for each task, once posted
  asked,   \* the uuids a delete has been asked for
  told,    \* whether workers have been told to stop, have thrown, or died with tasks
  now

lifeVars == <<life, due, asked, told, now>>

LifeInit ==
  /\ life = [t \in Tasks |-> "fresh"]
  /\ due = [t \in Tasks |-> 0]
  /\ asked = {} /\ told = FALSE /\ now = 0

\* The time is one the script gave, or the time of the call: not after now.
Post(t) ==
  /\ life[t] = "fresh"
  /\ life' = [life EXCEPT ![t] = "waiting"]
  /\ \E m \in Stamps \cup 0 .. now : due' = [due EXCEPT ![t] = m]
  /\ UNCHANGED <<asked, told, now>>

Serve(t) ==
  /\ life[t] = "waiting" /\ due[t] <= now
  /\ life' = [life EXCEPT ![t] = "ran"]
  /\ UNCHANGED <<due, asked, told, now>>

Ask ==
  /\ \E u \in Uuids : asked' = asked \cup {u}
  /\ UNCHANGED <<life, due, told, now>>

\* Some delete names the task, by its uuid or a prefix of it.
Named(t) == \E u \in asked : IsPrefix(u, UuidOf[t])

Drop(t) ==
  /\ life[t] = "waiting" /\ (Named(t) \/ t \in Garbled)
  /\ life' = [life EXCEPT ![t] = "dropped"]
  /\ UNCHANGED <<due, asked, told, now>>

Tell ==
  /\ told' = TRUE
  /\ UNCHANGED <<life, due, asked, now>>

\* Any of the tasks that wait are dropped.
Lose ==
  \E lost \in SUBSET {t \in Tasks : life[t] = "waiting"} :
    life' = [t \in Tasks |-> IF t \in lost THEN "dropped" ELSE life[t]]

\* A worker that stops takes with it what it had, and the queue; one with an
\* exception pending consumes its tasks without running them.
Discard ==
  /\ told
  /\ Lose
  /\ UNCHANGED <<due, asked, told, now>>

\* A worker dies, and what it had with it.
Die ==
  /\ told' = TRUE
  /\ Lose
  /\ UNCHANGED <<due, asked, now>>

Pass ==
  /\ now' = now + 1
  /\ UNCHANGED <<life, due, asked, told>>

LifeNext ==
  \/ \E t \in Tasks : Post(t) \/ Serve(t) \/ Drop(t)
  \/ Ask \/ Tell \/ Discard \/ Die \/ Pass

LifeSpec == LifeInit /\ [][LifeNext]_lifeVars

================================================================================
