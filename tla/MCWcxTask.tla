------------------------------- MODULE MCWcxTask -------------------------------
(* Values for the constants of WcxTask that a .cfg cannot write.           *)
EXTENDS WcxTaskProps

CONSTANTS t1, t2, t3, w1, w2, c1

\* Three uuids, one a prefix of another, as when uuids are chosen by scripts.
MCUuidOf == [t \in Tasks |->
  CASE t = t1 -> <<"a">> [] t = t2 -> <<"a", "b">> [] OTHER -> <<"c">>]

\* Every process is of one user; or w2 is root's, whose queue the others may not
\* remove, though root may remove theirs.
OneUser == [p \in Procs |-> Procs]
WithRoot == [p \in Procs |-> IF p = w2 THEN {w2} ELSE Procs]

\* A delete of one task, and one that is a prefix of two.
MCUuids == {<<"a">>, <<"c">>}

================================================================================
