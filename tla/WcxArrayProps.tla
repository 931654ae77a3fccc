------------------------------ MODULE WcxArrayProps ----------------------------
(***************************************************************************)
(* What must hold of the array helpers.                                    *)
(***************************************************************************)
EXTENDS WcxArray, FiniteSetsExt

\* The places whose value is equal, and the first n of them.
Equals      == {i \in DOMAIN call.arr : Equal(call.arr[i].val)}
FirstOf(n)  == {i \in Equals : Cardinality({j \in Equals : j <= i}) <= n}
Survivors   == Range(arr)
Gone(i)     == call.arr[i] \notin Survivors

\* Among the entries to remove, an integer key comes after a string key.
MixedKeys ==
  \E i, j \in FirstOf(ToRemove(call)) :
    i < j /\ call.arr[i].key.str /\ ~call.arr[j].key.str

\* wcx_array_remove never removes an entry that differs from the value; it removes
\* the first ones asked for, and gives their number, though it deletes by key from
\* an array while it goes over a copy; unless the keys to remove are mixed.
RemovedAsAsked ==
  call.op = "remove" =>
    /\ \A i \in DOMAIN call.arr : Gone(i) => i \in Equals
    /\ at = "done" /\ ~MixedKeys =>
         /\ {i \in DOMAIN call.arr : Gone(i)} = FirstOf(ToRemove(call))
         /\ count = Len(call.arr) - Len(arr)

\* wcx_array_remove without a number removes all that is equal
\* (README.md:116, 118).
RemovesAll ==
  call.op = "remove" /\ at = "done" /\ call.num = Absent =>
    \A e \in Survivors : ~Equal(e.val)

\* Whatever php_rand gives, wcx_array_rand takes as many elements as asked for, no
\* one twice, in the order of the array: the last ones are taken when they are
\* needed.
RandExact ==
  /\ \A i, j \in DOMAIN picked : i < j => picked[i] < picked[j]
  /\ call.op = "rand" /\ at = "done" /\ arr # <<>> =>
       Len(picked) = IF call.num = Absent THEN 1 ELSE call.num

================================================================================
