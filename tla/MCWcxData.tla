------------------------------- MODULE MCWcxData -------------------------------
(* Values for the constants of WcxData.                                    *)
EXTENDS WcxDataProps, TLC

CONSTANTS first, inner

\* "a" is a name, "5" is one that is_numeric_string reads as the integer 5.
MCIntOf == [n \in Names |-> IF n = "5" THEN "int 5" ELSE NULL]

\* ["a" => [], 5 => "x"], and nothing.
MCArrays ==
  {[t \in Tabs |-> IF t = first
                   THEN <<[key |-> "a", val |-> inner], [key |-> "int 5", val |-> "x"]>>
                   ELSE <<>>],
   [t \in Tabs |-> <<>>]}

\* Objects are interchangeable.
Symmetry == Permutations(Objs)

================================================================================
