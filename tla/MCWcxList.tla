------------------------------- MODULE MCWcxList -------------------------------
(* Values for the constants of WcxList.                                    *)
EXTENDS WcxListProps, TLC

CONSTANTS v1, v2

\* The match method takes v1 for v2 too.
MCMatchOf == [v \in Values |-> IF v = v2 THEN {v1, v2} ELSE {v}]

\* free alone, as the crontab of a worker; dup and free.
MCMethods == {<<FALSE, TRUE>>, <<TRUE, TRUE>>}

\* Addresses are interchangeable.
Symmetry == Permutations(Addr)

================================================================================
