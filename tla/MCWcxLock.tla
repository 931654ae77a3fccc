------------------------------- MODULE MCWcxLock -------------------------------
(* Three scripts that share the segment.                                   *)
EXTENDS WcxLock

CONSTANTS p1, p2, p3

================================================================================
