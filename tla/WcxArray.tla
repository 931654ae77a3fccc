-------------------------------- MODULE WcxArray -------------------------------
(***************************************************************************)
(* The array helpers (wcx.c).  wcx_array_remove goes over a copy of the    *)
(* array and deletes from the array itself; wcx_array_rand goes over the   *)
(* array once, and takes each element with the chance that leaves enough   *)
(* of them.  One step is one turn of their loop.                           *)
(***************************************************************************)
EXTENDS Integers, Sequences, FiniteSets, SequencesExt

CONSTANTS
  RemoveCalls,  \* calls of wcx_array_remove: [op, arr, val, num, strict]
  RandCalls,    \* calls of wcx_array_rand: [op, arr, num]
  Looks,        \* the values that == takes for each value
  RandRange,    \* PHP_RAND_MAX + 1, a bound
  Absent        \* an argument that is not given, a NULL string_key

\* An array is a sequence of entries, no two with one key; the key 5 is not "5".
Key(str, k) == [str |-> str, k |-> k]

IsArray(a) ==
  /\ a \in Seq(Range(a))
  /\ \A i \in DOMAIN a : \E str \in BOOLEAN : a[i].key = Key(str, a[i].key.k)
  /\ \A i, j \in DOMAIN a : a[i].key = a[j].key => i = j

ASSUME ArrayAssumption ==
  /\ \A c \in RemoveCalls :
       c.op = "remove" /\ IsArray(c.arr) /\ \A i \in DOMAIN c.arr : c.arr[i].key.k # Absent
  /\ \A c \in RandCalls : c.op = "rand" /\ IsArray(c.arr)
  /\ \A c \in RemoveCalls \cup RandCalls : c.num \in Int \cup {Absent}
  /\ RandRange \in Nat \ {0} /\ Absent \notin Int

VARIABLES
  call,        \* the call
  arr,         \* the array of the caller
  place,       \* the internal pointer of the loop
  wants,       \* to_remove_num, or num_req
  count,       \* to_removed_num
  string_key,  \* the string key met last, Absent while string_key_len is 0
  avail,       \* num_avail
  picked,      \* the places wcx_array_rand has taken
  at           \* "loop", or "done", "refused"

arrayVars == <<call, arr, place, wants, count, string_key, avail, picked, at>>

\* to_remove_num: all, unless it is a number within the array.
ToRemove(c) ==
  IF c.num = Absent \/ c.num \notin 1..Len(c.arr) THEN Len(c.arr) ELSE c.num

\* wcx_array_rand refuses a number that the array has not, if one is given.
Refused(c) == c.op = "rand" /\ c.num # Absent /\ c.num \notin 1..Len(c.arr)

ArrayInit ==
  /\ call \in RemoveCalls \cup RandCalls
  /\ arr = call.arr
  /\ place = 1 /\ count = 0 /\ string_key = Absent /\ picked = <<>>
  /\ avail = Len(arr)
  /\ wants = CASE call.op = "remove" -> ToRemove(call)
               [] call.op = "rand" -> IF call.num = Absent THEN 1 ELSE call.num
               [] OTHER -> 0
  /\ at = IF Refused(call) THEN "refused" ELSE "loop"

--------------------------------------------------------------------------------
(* wcx_array_remove.                                                       *)

\* is_equal_function, or is_identical_function when the option is TRUE.
Equal(val) == IF call.strict THEN val = call.val ELSE val \in Looks[call.val]

\* MUTANT: every key is deleted as an integer.
DeletedAsIndex(key, last) == Key(FALSE, key.k)

\* The key that zend_hash_del_key_or_index gets, where last is string_key now:
\* string_key_len is not reset, so a string key seen once is taken again.
Deleted(key, last) == IF last # Absent THEN Key(TRUE, last) ELSE key

\* The entry with that key goes, if there is one.
Without(a, key) ==
  IF \E i \in DOMAIN a : a[i].key = key
  THEN RemoveAt(a, CHOOSE i \in DOMAIN a : a[i].key = key)
  ELSE a

RemoveTurn ==
  LET e    == call.arr[place]
      last == IF e.key.str THEN e.key.k ELSE string_key
  IN /\ call.op = "remove" /\ at = "loop"
     /\ count # wants /\ place <= Len(call.arr)
     /\ IF Equal(e.val)
        THEN /\ string_key' = last
             /\ arr' = Without(arr, Deleted(e.key, last))
             /\ count' = count + 1
        ELSE UNCHANGED <<string_key, arr, count>>
     /\ place' = place + 1
     /\ UNCHANGED <<call, wants, avail, picked, at>>

RemoveDone ==
  /\ call.op = "remove" /\ at = "loop"
  /\ count = wants \/ place > Len(call.arr)
  /\ at' = "done"
  /\ UNCHANGED <<call, arr, place, wants, count, string_key, avail, picked>>

--------------------------------------------------------------------------------
(* wcx_array_rand.                                                         *)

\* MUTANT: an element that is not taken still counts as available.
AvailAfter(taken) == IF taken THEN avail - 1 ELSE avail

\* num_avail after an element.
Avail(taken) == avail - 1

\* php_rand gives r.
RandTurn(r) ==
  LET taken == r * avail < wants * RandRange
  IN /\ call.op = "rand" /\ at = "loop"
     /\ wants # 0 /\ place <= Len(arr)
     /\ picked' = IF taken THEN Append(picked, place) ELSE picked
     /\ wants' = IF taken THEN wants - 1 ELSE wants
     /\ avail' = Avail(taken)
     /\ place' = place + 1
     /\ UNCHANGED <<call, arr, count, string_key, at>>

RandDone ==
  /\ call.op = "rand" /\ at = "loop"
  /\ wants = 0 \/ place > Len(arr)
  /\ at' = "done"
  /\ UNCHANGED <<call, arr, place, wants, count, string_key, avail, picked>>

--------------------------------------------------------------------------------
ArrayNext ==
  \/ RemoveTurn \/ RemoveDone
  \/ \E r \in 0..(RandRange - 1) : RandTurn(r)
  \/ RandDone

ArraySpec == ArrayInit /\ [][ArrayNext]_arrayVars

================================================================================
