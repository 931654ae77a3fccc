----------------------------- MODULE WcxHelperProofs ---------------------------
(***************************************************************************)
(* What the array helpers and encryption give, for every array, number     *)
(* and length of data.                                                     *)
(***************************************************************************)
EXTENDS WcxArrayProps, WcxCryptProps, CrontabProofs, FiniteSetTheorems

Calls == RemoveCalls \cup RandCalls

--------------------------------------------------------------------------------
(* wcx_array_rand: what is left is always enough.                          *)

Asked(c) == IF c.num = Absent THEN 1 ELSE c.num

\* The places taken so far, in order, and all of them behind the pointer.
Taken(p, n) ==
  /\ p \in Seq(Nat)
  /\ \A i, j \in DOMAIN p : i < j => p[i] < p[j]
  /\ \A i \in DOMAIN p : p[i] < n

\* As many are left as are still wanted, and what is taken and what is wanted is what
\* was asked for.
Enough ==
  /\ wants \in Nat
  /\ Len(arr) # 0 => wants <= avail
  /\ Len(picked) + wants = Asked(call)

RandInv ==
  /\ call \in Calls
  /\ call.op # "rand" => picked = <<>>
  /\ call.op = "rand" =>
       /\ arr = call.arr
       /\ place \in Nat \ {0} /\ place <= Len(arr) + 1
       /\ avail = Len(arr) + 1 - place
       /\ Taken(picked, place)
       /\ at # "refused" => Enough
       /\ at = "done" => wants = 0 \/ place > Len(arr)

\* The array of a call of wcx_array_rand, and the number it is asked for.
LEMMA RandCallType ==
  ASSUME NEW c \in Calls, c.op = "rand"
  PROVE  Len(c.arr) \in Nat /\ c.num \in Int \cup {Absent} /\ (Len(c.arr) = 0 <=> c.arr = <<>>)
<1>1. c \in RandCalls
  BY ArrayAssumption DEF Calls
<1>2. c.arr \in Seq(Range(c.arr)) /\ c.num \in Int \cup {Absent}
  BY <1>1, ArrayAssumption DEF IsArray
<1> HIDE DEF Range
<1> QED BY <1>2, LenProperties, EmptySeq

\* An element is never passed by when all that are left are wanted.
LEMMA LastAreTaken ==
  ASSUME NEW n \in Nat \ {0}, NEW R \in Nat \ {0}, NEW r \in 0 .. R - 1
  PROVE  r * n < n * R
<1>1. PICK d \in Nat : R = r + d + 1
  <2>1. R - 1 - r \in Nat /\ R = r + (R - 1 - r) + 1
    OBVIOUS
  <2> QED BY <2>1
<1>2. n * R = r * n + n * d + n /\ n * d \in Nat /\ r * n \in Nat
  BY <1>1
<1> QED BY <1>2

\* One more place, behind the pointer that moves on.
LEMMA OneMoreTaken ==
  ASSUME NEW p, NEW n \in Nat, Taken(p, n)
  PROVE  Taken(Append(p, n), n + 1) /\ Len(Append(p, n)) = Len(p) + 1 /\ Taken(p, n + 1)
<1>1. p \in Seq(Nat) /\ Len(p) \in Nat /\ DOMAIN p = 1 .. Len(p)
  BY LenProperties DEF Taken
<1>2. \A i \in DOMAIN p : p[i] \in Nat
  BY <1>1
<1> DEFINE q == Append(p, n)
<1>3. /\ q \in Seq(Nat) /\ Len(q) = Len(p) + 1 /\ DOMAIN q = 1 .. Len(p) + 1
      /\ \A i \in 1 .. Len(p) : q[i] = p[i]
      /\ q[Len(p) + 1] = n
  BY <1>1
<1>4. Taken(p, n + 1)
  BY <1>1, <1>2 DEF Taken
<1> HIDE DEF q
<1>5. \A i \in DOMAIN q : i \in 1 .. Len(p) \/ i = Len(p) + 1
  BY <1>1, <1>3
<1>6. \A i \in DOMAIN q : q[i] < n + 1
  BY <1>1, <1>2, <1>3, <1>5 DEF Taken
<1>7. ASSUME NEW i \in DOMAIN q, NEW j \in DOMAIN q, i < j PROVE q[i] < q[j]
  <2>1. i \in 1 .. Len(p)
    BY <1>1, <1>3, <1>7
  <2>2. CASE j \in 1 .. Len(p)
    BY <1>1, <1>3, <1>7, <2>1, <2>2 DEF Taken
  <2>3. CASE j = Len(p) + 1
    BY <1>1, <1>3, <2>1, <2>3 DEF Taken
  <2> QED BY <1>5, <2>2, <2>3
<1> QED BY <1>3, <1>4, <1>6, <1>7 DEF Taken, q

\* It holds of every call at its start.
LEMMA RandStarts == ArrayInit => RandInv
<1> SUFFICES ASSUME ArrayInit PROVE RandInv
  OBVIOUS
<1>1. call \in Calls /\ picked = <<>>
  BY DEF ArrayInit, Calls
<1>2. ASSUME call.op = "rand" PROVE /\ arr = call.arr /\ place = 1 /\ avail = Len(arr)
                                    /\ wants = Asked(call)
                                    /\ at = IF Refused(call) THEN "refused" ELSE "loop"
  BY <1>2 DEF ArrayInit, Asked
<1>3. ASSUME call.op = "rand" PROVE Len(arr) \in Nat /\ call.num \in Int \cup {Absent}
  BY <1>1, <1>2, <1>3, RandCallType
<1>4. Taken(picked, 1)
  BY <1>1 DEF Taken
<1>5. ASSUME call.op = "rand", at # "refused" PROVE Enough
  <2>1. call.num = Absent \/ call.num \in 1 .. Len(arr)
    BY <1>2, <1>5 DEF Refused
  <2>2. Len(picked) = 0
    BY <1>1
  <2>3. wants \in Nat /\ (Len(arr) # 0 => wants <= Len(arr))
    <3>1. CASE call.num = Absent
      BY <1>2, <1>3, <1>5, <3>1 DEF Asked
    <3>2. CASE call.num # Absent
      BY <1>2, <1>3, <1>5, <2>1, <3>2 DEF Asked
    <3> QED BY <3>1, <3>2
  <2> QED BY <1>2, <1>5, <2>2, <2>3 DEF Enough
<1>6. at # "done"
  BY DEF ArrayInit
<1> QED BY <1>1, <1>2, <1>3, <1>4, <1>5, <1>6 DEF RandInv

\* Every turn of it preserves it, whatever php_rand gives.
LEMMA RandTurns ==
  ASSUME RandInv, NEW r \in 0 .. RandRange - 1, RandTurn(r)
  PROVE  RandInv'
<1>1. /\ call \in Calls /\ call' = call /\ call.op = "rand" /\ at = "loop" /\ at' = "loop"
      /\ arr = call.arr /\ arr' = arr /\ place' = place + 1
      /\ place \in Nat \ {0} /\ place <= Len(arr) + 1 /\ place <= Len(arr)
      /\ avail = Len(arr) + 1 - place /\ avail' = avail - 1
      /\ Taken(picked, place) /\ Enough /\ wants # 0
  BY DEF RandTurn, RandInv, Avail
<1>2. Len(arr) \in Nat /\ call.num \in Int \cup {Absent}
  BY <1>1, RandCallType
<1>3. wants \in Nat /\ wants <= avail /\ avail \in Nat \ {0} /\ Len(picked) + wants = Asked(call)
  BY <1>1, <1>2 DEF Enough
<1>4. Len(picked) \in Nat
  BY <1>1, LenProperties DEF Taken
<1>5. RandRange \in Nat \ {0}
  BY ArrayAssumption
<1> DEFINE taken == r * avail < wants * RandRange
<1>6. /\ picked' = IF taken THEN Append(picked, place) ELSE picked
      /\ wants' = IF taken THEN wants - 1 ELSE wants
  BY DEF RandTurn
<1>7. ~ taken => wants # avail
  <2>1. r * avail < avail * RandRange
    BY <1>3, <1>5, LastAreTaken
  <2> QED BY <2>1
<1> HIDE DEF taken
<1>8. /\ Taken(Append(picked, place), place + 1) /\ Taken(picked, place + 1)
      /\ Len(Append(picked, place)) = Len(picked) + 1
  BY <1>1, OneMoreTaken
<1>9. Taken(picked', place')
  BY <1>1, <1>6, <1>8
<1>10. Enough'
  <2>1. CASE taken
    <3>1. wants' = wants - 1 /\ Len(picked') = Len(picked) + 1
      BY <1>6, <1>8, <2>1
    <3> QED BY <1>1, <1>3, <1>4, <3>1 DEF Enough, Asked
  <2>2. CASE ~ taken
    <3>1. wants' = wants /\ picked' = picked /\ wants <= avail - 1
      BY <1>3, <1>6, <1>7, <2>2
    <3> QED BY <1>1, <1>3, <1>4, <3>1 DEF Enough, Asked
  <2> QED BY <2>1, <2>2
<1>11. place' \in Nat \ {0} /\ place' <= Len(arr') + 1 /\ avail' = Len(arr') + 1 - place'
  <2>1. Len(arr') = Len(arr)
    BY <1>1
  <2>2. /\ place' = place + 1 /\ place \in Nat \ {0} /\ place <= Len(arr)
        /\ avail' = avail - 1 /\ avail = Len(arr) + 1 - place
    BY <1>1
  <2>3. place' \in Nat \ {0} /\ place' <= Len(arr) + 1 /\ avail' = Len(arr) + 1 - place'
    BY <1>2, <2>2
  <2> QED BY <2>1, <2>3
<1> QED BY <1>1, <1>9, <1>10, <1>11 DEF RandInv

\* wcx_array_rand takes exactly as many elements as asked for, no one twice and in
\* their order, for every array and whatever php_rand gives.
THEOREM RandTakesAsked == ArraySpec => []RandExact
<1>1. ArrayInit => RandInv
  BY RandStarts
<1>2. ASSUME RandInv, [ArrayNext]_arrayVars PROVE RandInv'
  <2>1. ASSUME RemoveTurn PROVE RandInv'
    BY <1>2, <2>1 DEF RemoveTurn, RandInv
  <2>2. ASSUME RemoveDone PROVE RandInv'
    BY <1>2, <2>2 DEF RemoveDone, RandInv
  <2>3. ASSUME NEW r \in 0 .. RandRange - 1, RandTurn(r) PROVE RandInv'
    BY <1>2, <2>3, RandTurns
  <2>4. ASSUME RandDone PROVE RandInv'
    <3>1. UNCHANGED <<call, arr, place, wants, picked, avail>> /\ at = "loop" /\ at' = "done"
          /\ (wants = 0 \/ place > Len(arr))
      BY <2>4 DEF RandDone
    <3> QED BY <1>2, <3>1 DEF RandInv, Enough
  <2>5. ASSUME UNCHANGED arrayVars PROVE RandInv'
    BY <1>2, <2>5 DEF arrayVars, RandInv, Enough
  <2> QED BY <1>2, <2>1, <2>2, <2>3, <2>4, <2>5 DEF ArrayNext
<1>3. RandInv => RandExact
  <2> SUFFICES ASSUME RandInv PROVE RandExact
    OBVIOUS
  <2>1. \A i, j \in DOMAIN picked : i < j => picked[i] < picked[j]
    BY DEF RandInv, Taken
  <2>2. ASSUME call.op = "rand", at = "done", arr # <<>> PROVE Len(picked) = Asked(call)
    <3>1. /\ call \in Calls /\ arr = call.arr /\ place \in Nat \ {0} /\ place <= Len(arr) + 1
          /\ avail = Len(arr) + 1 - place /\ Taken(picked, place) /\ Enough
          /\ (wants = 0 \/ place > Len(arr))
      BY <2>2 DEF RandInv
    <3>2. Len(arr) \in Nat /\ Len(arr) # 0
      BY <2>2, <3>1, RandCallType
    <3>3. Len(picked) \in Nat
      BY <3>1, LenProperties DEF Taken
    <3>4. wants = 0
      BY <3>1, <3>2 DEF Enough
    <3> QED BY <3>1, <3>3, <3>4 DEF Enough
  <2> QED BY <2>1, <2>2 DEF RandExact, Asked
<1> QED BY <1>1, <1>2, <1>3, PTL DEF ArraySpec

--------------------------------------------------------------------------------
(* wcx_array_remove: what is deleted by key is what was met.               *)

UniqueKeys(a) == \A i, j \in DOMAIN a : a[i].key = a[j].key => i = j

\* Those of a set of places that come before k.
Below(E, k) == {i \in E : i < k}

\* The entry with the key goes, and no other.
LEMMA WithoutProperties ==
  ASSUME NEW S, NEW a \in Seq(S), UniqueKeys(a), NEW k
  PROVE  /\ Without(a, k) \in Seq(S) /\ UniqueKeys(Without(a, k))
         /\ Range(Without(a, k)) = {e \in Range(a) : e.key # k}
         /\ (\E i \in DOMAIN a : a[i].key = k) => Len(Without(a, k)) = Len(a) - 1
         /\ ~ (\E i \in DOMAIN a : a[i].key = k) => Without(a, k) = a
<1> DEFINE W == Without(a, k)
<1>1. DOMAIN a = 1 .. Len(a) /\ Len(a) \in Nat
  BY LenProperties
<1>2. CASE ~ \E i \in DOMAIN a : a[i].key = k
  <2>1. W = a
    BY <1>2 DEF Without
  <2>2. Range(a) = {e \in Range(a) : e.key # k}
    BY <1>2 DEF Range
  <2> QED BY <1>2, <2>1, <2>2
<1>3. CASE \E i \in DOMAIN a : a[i].key = k
  <2>1. PICK i \in DOMAIN a : a[i].key = k /\ W = RemoveAt(a, i)
    BY <1>3 DEF Without
  <2>2. i \in 1 .. Len(a)
    BY <1>1
  <2>3. /\ W \in Seq(S) /\ Len(W) = Len(a) - 1
        /\ \A j \in 1 .. Len(a) - 1 : W[j] = IF j < i THEN a[j] ELSE a[j + 1]
    BY <2>1, <2>2, RemoveAtProperties
  <2>4. DOMAIN W = 1 .. Len(a) - 1
    BY <2>3, LenProperties
  <2> HIDE DEF W
  <2>5. ASSUME NEW j \in DOMAIN W
        PROVE  \E m \in DOMAIN a : m # i /\ W[j] = a[m] /\ m = IF j < i THEN j ELSE j + 1
    <3>1. j \in 1 .. Len(a) - 1
      BY <2>4
    <3>2. CASE j < i
      BY <1>1, <2>2, <2>3, <3>1, <3>2
    <3>3. CASE ~ j < i
      <4>1. j + 1 \in DOMAIN a /\ j + 1 # i /\ W[j] = a[j + 1]
        BY <1>1, <2>2, <2>3, <3>1, <3>3
      <4> QED BY <3>3, <4>1
    <3> QED BY <3>2, <3>3
  <2>6. ASSUME NEW m \in DOMAIN a, m # i
        PROVE  \E j \in DOMAIN W : W[j] = a[m]
    <3>1. m \in 1 .. Len(a)
      BY <1>1
    <3>2. CASE m < i
      <4>1. m \in 1 .. Len(a) - 1 /\ W[m] = a[m]
        BY <1>1, <2>2, <2>3, <3>1, <3>2
      <4> QED BY <2>4, <4>1
    <3>3. CASE ~ m < i
      <4>1. m - 1 \in 1 .. Len(a) - 1 /\ ~ m - 1 < i /\ m - 1 + 1 = m
        BY <1>1, <2>2, <2>6, <3>1, <3>3
      <4>2. W[m - 1] = a[m]
        BY <2>3, <4>1
      <4> QED BY <2>4, <4>1, <4>2
    <3> QED BY <3>2, <3>3
  <2>7. UniqueKeys(W)
    <3> SUFFICES ASSUME NEW p \in DOMAIN W, NEW q \in DOMAIN W, W[p].key = W[q].key
                 PROVE  p = q
      BY DEF UniqueKeys
    <3>1. PICK m \in DOMAIN a : W[p] = a[m] /\ m = IF p < i THEN p ELSE p + 1
      BY <2>5
    <3>2. PICK n \in DOMAIN a : W[q] = a[n] /\ n = IF q < i THEN q ELSE q + 1
      BY <2>5
    <3>3. m = n
      BY <3>1, <3>2 DEF UniqueKeys
    <3>4. p \in Nat /\ q \in Nat /\ i \in Nat
      BY <1>1, <2>4
    <3> QED BY <3>1, <3>2, <3>3, <3>4
  <2>8. ASSUME NEW m \in DOMAIN a, m # i PROVE a[m].key # k
    BY <2>1, <2>8 DEF UniqueKeys
  <2>9. Range(W) = {e \in Range(a) : e.key # k}
    <3>1. ASSUME NEW e \in Range(W) PROVE e \in Range(a) /\ e.key # k
      <4>1. PICK j \in DOMAIN W : e = W[j]
        BY DEF Range
      <4>2. PICK m \in DOMAIN a : m # i /\ W[j] = a[m]
        BY <2>5
      <4> QED BY <2>8, <4>1, <4>2 DEF Range
    <3>2. ASSUME NEW e \in Range(a), e.key # k PROVE e \in Range(W)
      <4>1. PICK m \in DOMAIN a : e = a[m]
        BY DEF Range
      <4>2. PICK j \in DOMAIN W : W[j] = a[m]
        BY <2>1, <2>6, <3>2, <4>1
      <4> QED BY <4>1, <4>2 DEF Range
    <3> QED BY <3>1, <3>2
  <2> QED BY <1>3, <2>3, <2>7, <2>9 DEF W
<1> QED BY <1>2, <1>3

\* There are finitely many before k, and one more before k + 1 if k is one of them.
LEMMA BelowGrows ==
  ASSUME NEW E \in SUBSET Nat, NEW k \in Nat
  PROVE  /\ IsFiniteSet(Below(E, k)) /\ Cardinality(Below(E, k)) \in Nat
         /\ k \notin E => Below(E, k + 1) = Below(E, k)
         /\ k \in E => /\ Below(E, k + 1) = Below(E, k) \cup {k}
                       /\ Cardinality(Below(E, k + 1)) = Cardinality(Below(E, k)) + 1
<1>0. \A i \in E : i \in Nat
  OBVIOUS
<1>1. IsFiniteSet(Below(E, k))
  <2>1. \A i \in Below(E, k) : i \in 0 .. k
    BY <1>0 DEF Below
  <2>2. IsFiniteSet(0 .. k)
    BY FS_Interval
  <2>3. Below(E, k) \in SUBSET (0 .. k)
    BY <2>1
  <2> QED BY <2>2, <2>3, FS_Subset
<1>2. Cardinality(Below(E, k)) \in Nat
  BY <1>1, FS_CardinalityType
<1>6. \A i \in E : i < k + 1 <=> i < k \/ i = k
  BY <1>0
<1>7. \A i : i \in Below(E, k + 1) <=> i \in Below(E, k) \/ (i \in E /\ i = k)
  BY <1>6 DEF Below
<1>3. k \notin E => Below(E, k + 1) = Below(E, k)
  BY <1>7
<1>4. k \in E => Below(E, k + 1) = Below(E, k) \cup {k} /\ k \notin Below(E, k)
  <2>1. k \notin Below(E, k)
    BY DEF Below
  <2> QED BY <1>7, <2>1
<1>5. k \in E => Cardinality(Below(E, k) \cup {k}) = Cardinality(Below(E, k)) + 1
  BY <1>1, <1>4, FS_AddElement
<1> QED BY <1>1, <1>2, <1>3, <1>4, <1>5

\* As many or more come before a later place.
LEMMA BelowLater ==
  ASSUME NEW E \in SUBSET Nat, NEW k \in Nat, NEW m \in Nat, k <= m
  PROVE  Cardinality(Below(E, k)) <= Cardinality(Below(E, m))
<1>1. Below(E, k) \in SUBSET Below(E, m)
  <2>1. \A i \in E : i \in Nat
    OBVIOUS
  <2>2. \A i \in E : i < k => i < m
    BY <2>1
  <2> QED BY <2>2 DEF Below
<1>2. IsFiniteSet(Below(E, m))
  BY BelowGrows
<1> QED BY <1>1, <1>2, FS_Subset

\* The places that the loop has met.
Met == Below(Equals, place)

\* The key of an entry met: string_key is the key of one of them, if one is a string.
LastStringMet ==
  IF string_key = Absent THEN \A j \in Met : ~ call.arr[j].key.str
  ELSE \E j \in Met : call.arr[j].key = Key(TRUE, string_key)

RemoveInv ==
  /\ call \in Calls
  /\ call.op = "remove" =>
       /\ place \in Nat \ {0} /\ place <= Len(call.arr) + 1
       /\ arr \in Seq(Range(call.arr)) /\ UniqueKeys(arr)
       /\ wants = ToRemove(call)
       /\ count = Cardinality(Met) /\ count <= wants
       /\ \A i \in DOMAIN call.arr : Gone(i) => i \in Met
       /\ LastStringMet
       /\ ~ MixedKeys => (\A i \in Met : Gone(i)) /\ Len(arr) = Len(call.arr) - count
       /\ at = "done" => count = wants \/ place > Len(call.arr)

\* A call of wcx_array_remove, its array, and the number it is asked for.
LEMMA RemoveCallType ==
  ASSUME NEW c \in Calls, c.op = "remove"
  PROVE  /\ c.arr \in Seq(Range(c.arr)) /\ UniqueKeys(c.arr)
         /\ Len(c.arr) \in Nat /\ DOMAIN c.arr = 1 .. Len(c.arr)
         /\ \A i \in DOMAIN c.arr : /\ c.arr[i].key \in [str : BOOLEAN, k : {c.arr[i].key.k}]
                                    /\ c.arr[i].key.k # Absent
         /\ ToRemove(c) \in Nat
<1>1. c \in RemoveCalls
  BY ArrayAssumption DEF Calls
<1>2. IsArray(c.arr) /\ c.num \in Int \cup {Absent} /\ \A i \in DOMAIN c.arr : c.arr[i].key.k # Absent
  BY <1>1, ArrayAssumption
<1>3. c.arr \in Seq(Range(c.arr)) /\ UniqueKeys(c.arr)
  BY <1>2 DEF IsArray, UniqueKeys
<1>4. Len(c.arr) \in Nat /\ DOMAIN c.arr = 1 .. Len(c.arr)
  <2> HIDE DEF Range
  <2> QED BY <1>3, LenProperties
<1>5. ToRemove(c) \in Nat
  BY <1>2, <1>4, ArrayAssumption DEF ToRemove
<1>6. ASSUME NEW i \in DOMAIN c.arr PROVE c.arr[i].key \in [str : BOOLEAN, k : {c.arr[i].key.k}]
  <2>1. PICK str \in BOOLEAN : c.arr[i].key = Key(str, c.arr[i].key.k)
    BY <1>2 DEF IsArray
  <2> QED BY <2>1 DEF Key
<1> QED BY <1>2, <1>3, <1>4, <1>5, <1>6

\* The places with an equal value are places of the array; what is met within the
\* number asked for is among the first ones.
LEMMA MetAreFirst ==
  ASSUME call \in Calls, call.op = "remove", NEW k \in Nat, NEW n \in Nat,
         Cardinality(Below(Equals, k)) <= n
  PROVE  /\ Equals \in SUBSET Nat /\ Equals \subseteq DOMAIN call.arr
         /\ Below(Equals, k) \subseteq FirstOf(n)
<1>1. DOMAIN call.arr = 1 .. Len(call.arr) /\ Len(call.arr) \in Nat
  BY RemoveCallType
<1>2. Equals \in SUBSET Nat /\ Equals \subseteq DOMAIN call.arr
  BY <1>1 DEF Equals
<1>3. ASSUME NEW i \in Below(Equals, k) PROVE i \in FirstOf(n)
  <2>1. i \in Equals /\ i \in Nat /\ i + 1 <= k /\ i + 1 \in Nat
    BY <1>2 DEF Below
  <2>2. {j \in Equals : j <= i} = Below(Equals, i + 1)
    <3>1. \A j \in Equals : j \in Nat
      BY <1>2
    <3>2. \A j \in Equals : j <= i <=> j < i + 1
      BY <2>1, <3>1
    <3> QED BY <3>2 DEF Below
  <2>3. Cardinality(Below(Equals, i + 1)) <= Cardinality(Below(Equals, k))
    BY <1>2, <2>1, BelowLater
  <2>4. Cardinality(Below(Equals, i + 1)) \in Nat /\ Cardinality(Below(Equals, k)) \in Nat
    BY <1>2, <2>1, BelowGrows
  <2>5. Cardinality({j \in Equals : j <= i}) <= n
    BY <2>2, <2>3, <2>4
  <2> QED BY <2>1, <2>5 DEF FirstOf
<1> QED BY <1>2, <1>3
\* It holds of every call at its start: nothing is met and nothing is gone.
LEMMA RemoveStarts == ArrayInit => RemoveInv
<1> SUFFICES ASSUME ArrayInit, call.op = "remove" PROVE RemoveInv
  BY DEF ArrayInit, Calls, RemoveInv
<1>1. /\ call \in Calls /\ arr = call.arr /\ place = 1 /\ count = 0 /\ string_key = Absent
      /\ wants = ToRemove(call) /\ at # "done"
  BY DEF ArrayInit, Calls, Refused
<1>2. /\ arr \in Seq(Range(call.arr)) /\ UniqueKeys(arr) /\ wants \in Nat
      /\ Len(call.arr) \in Nat /\ DOMAIN call.arr = 1 .. Len(call.arr)
  BY <1>1, RemoveCallType
<1>3. Met = {}
  BY <1>1, <1>2 DEF Met, Below, Equals
<1>4. Cardinality(Met) = 0
  BY <1>3, FS_EmptySet
<1>5. \A i \in DOMAIN call.arr : ~ Gone(i)
  BY <1>1 DEF Gone, Survivors, Range
<1>6. LastStringMet
  BY <1>1, <1>3 DEF LastStringMet
<1> HIDE DEF Range
<1> QED BY <1>1, <1>2, <1>3, <1>4, <1>5, <1>6 DEF RemoveInv

\* What the invariant says while the loop runs, as the steps of RemoveTurn use it.
LEMMA RemoveFacts ==
  ASSUME RemoveInv, call.op = "remove"
  PROVE  /\ Equals \in SUBSET Nat /\ Equals \subseteq DOMAIN call.arr
         /\ place \in Nat /\ count \in Nat /\ wants \in Nat
         /\ Met \subseteq FirstOf(ToRemove(call))
<1>1. /\ call \in Calls /\ place \in Nat /\ wants = ToRemove(call)
      /\ count = Cardinality(Met) /\ count <= wants
  BY DEF RemoveInv
<1>2. wants \in Nat
  BY <1>1, RemoveCallType
<1>3. Equals \in SUBSET Nat /\ Equals \subseteq DOMAIN call.arr
  BY <1>1, <1>2, RemoveCallType, MetAreFirst DEF Met
<1>4. Cardinality(Met) \in Nat
  BY <1>1, <1>3, BelowGrows DEF Met
<1>5. Met \subseteq FirstOf(ToRemove(call))
  BY <1>1, <1>2, MetAreFirst DEF Met
<1> QED BY <1>1, <1>2, <1>3, <1>4, <1>5

\* Every turn of the loop preserves it.
LEMMA RemoveTurns == RemoveInv /\ RemoveTurn => RemoveInv'
<1> SUFFICES ASSUME RemoveInv, RemoveTurn PROVE RemoveInv'
  OBVIOUS
<1> DEFINE A == call.arr
           e == call.arr[place]
           last == IF e.key.str THEN e.key.k ELSE string_key
<1>1. /\ call \in Calls /\ call' = call /\ call.op = "remove" /\ at = "loop" /\ at' = "loop"
      /\ place' = place + 1 /\ wants' = wants /\ count # wants /\ place <= Len(A)
  BY DEF RemoveTurn, RemoveInv
<1>2. /\ A \in Seq(Range(A)) /\ UniqueKeys(A) /\ Len(A) \in Nat /\ DOMAIN A = 1 .. Len(A)
      /\ \A i \in DOMAIN A : A[i].key \in [str : BOOLEAN, k : {A[i].key.k}] /\ A[i].key.k # Absent
  BY <1>1, RemoveCallType
<1>3. /\ Equals \in SUBSET Nat /\ Equals \subseteq DOMAIN A
      /\ place \in Nat /\ count \in Nat /\ wants \in Nat
      /\ Met \subseteq FirstOf(ToRemove(call))
  BY <1>1, RemoveFacts
<1>4. /\ place \in Nat \ {0} /\ arr \in Seq(Range(A)) /\ UniqueKeys(arr)
      /\ wants = ToRemove(call) /\ count = Cardinality(Met) /\ count <= wants
      /\ \A i \in DOMAIN A : Gone(i) => i \in Met
      /\ LastStringMet
      /\ ~ MixedKeys => (\A i \in Met : Gone(i)) /\ Len(arr) = Len(A) - count
  BY <1>1 DEF RemoveInv
<1>5. place \in DOMAIN A /\ e.key \in [str : BOOLEAN, k : {e.key.k}] /\ e.key.k # Absent
  BY <1>1, <1>2, <1>3, <1>4
<1>6. Equals' = Equals /\ (MixedKeys <=> MixedKeys') /\ ToRemove(call)' = ToRemove(call)
  BY <1>1 DEF Equals, Equal, MixedKeys, FirstOf, ToRemove
<1>7. Met' = Below(Equals, place + 1)
  BY <1>1, <1>6 DEF Met, Below
<1>8. \A i : Gone(i)' <=> A[i] \notin Range(arr')
  BY <1>1 DEF Gone, Survivors
<1>9. place' \in Nat \ {0} /\ place' <= Len(A) + 1
  BY <1>1, <1>2, <1>3
<1> HIDE DEF Range
<1>10. CASE ~ Equal(e.val)
  <2>1. string_key' = string_key /\ arr' = arr /\ count' = count
    BY <1>10 DEF RemoveTurn
  <2>2. place \notin Equals
    BY <1>10 DEF Equals
  <2>3. Met' = Met
    BY <1>3, <1>7, <2>2, BelowGrows DEF Met
  <2>4. \A i : Gone(i)' <=> Gone(i)
    BY <1>8, <2>1 DEF Gone, Survivors
  <2>5. LastStringMet'
    BY <1>1, <1>4, <2>1, <2>3 DEF LastStringMet
  <2>6. Cardinality(Met') = Cardinality(Met)
    BY <2>3
  <2> HIDE DEF Equals, Met, MixedKeys
  <2> QED BY <1>1, <1>4, <1>6, <1>9, <2>1, <2>3, <2>4, <2>5, <2>6 DEF RemoveInv, UniqueKeys
<1>11. CASE Equal(e.val)
  <2> DEFINE d == Deleted(e.key, last)
  <2>1. string_key' = last /\ arr' = Without(arr, d) /\ count' = count + 1
    BY <1>11 DEF RemoveTurn
  <2>2. place \in Equals
    BY <1>5, <1>11 DEF Equals
  <2>3. Met' = Met \cup {place} /\ Cardinality(Met') = Cardinality(Met) + 1
    <3>1. /\ Below(Equals, place + 1) = Below(Equals, place) \cup {place}
          /\ Cardinality(Below(Equals, place + 1)) = Cardinality(Below(Equals, place)) + 1
      BY <1>3, <2>2, BelowGrows
    <3> QED BY <1>7, <3>1 DEF Met
  <2>4. count' = Cardinality(Met') /\ count' <= wants
    BY <1>1, <1>3, <1>4, <2>1, <2>3
  <2>5. Met' \subseteq FirstOf(ToRemove(call))
    <3>1. place + 1 \in Nat /\ Cardinality(Below(Equals, place + 1)) <= wants
      BY <1>3, <1>7, <2>4
    <3> QED BY <1>1, <1>3, <1>4, <1>7, <3>1, MetAreFirst
  <2>6. place \notin Met
    BY <1>3 DEF Met, Below
  <2>7. Met' \subseteq DOMAIN A /\ Met \subseteq DOMAIN A
    BY <1>3, <1>5, <2>3 DEF Met, Below
  \* What is deleted has the key of an entry met, and it is this one if the keys are not mixed.
  <2>8. \E j \in Met' : A[j].key = d
    <3>1. CASE last = Absent
      BY <2>3, <3>1 DEF Deleted
    <3>2. CASE last # Absent /\ e.key.str
      <4>1. d = Key(TRUE, e.key.k)
        BY <3>2 DEF Deleted
      <4>2. e.key = Key(TRUE, e.key.k)
        BY <1>5, <3>2 DEF Key
      <4> QED BY <2>3, <4>1, <4>2
    <3>3. CASE last # Absent /\ ~ e.key.str
      <4>1. d = Key(TRUE, string_key) /\ string_key # Absent
        BY <3>3 DEF Deleted
      <4>2. \E j \in Met : A[j].key = Key(TRUE, string_key)
        BY <1>4, <4>1 DEF LastStringMet
      <4> QED BY <2>3, <4>1, <4>2
    <3> QED BY <3>1, <3>2, <3>3
  <2>9. ASSUME ~ MixedKeys PROVE d = e.key
    <3>1. CASE e.key.str
      <4>1. d = Key(TRUE, e.key.k)
        BY <1>5, <3>1 DEF Deleted
      <4>2. e.key = Key(TRUE, e.key.k)
        BY <1>5, <3>1 DEF Key
      <4> QED BY <4>1, <4>2
    <3>2. CASE ~ e.key.str
      <4>1. string_key = Absent
        <5> SUFFICES ASSUME string_key # Absent PROVE FALSE
          OBVIOUS
        <5>1. PICK j \in Met : A[j].key = Key(TRUE, string_key)
          BY <1>4 DEF LastStringMet
        <5>2. j \in Nat /\ j < place /\ A[j].key.str
          BY <1>3, <5>1 DEF Met, Below, Key
        <5>3. j \in FirstOf(ToRemove(call)) /\ place \in FirstOf(ToRemove(call))
          BY <1>3, <2>3, <2>5
        <5> QED BY <2>9, <3>2, <5>2, <5>3 DEF MixedKeys
      <4> QED BY <3>2, <4>1 DEF Deleted
    <3> QED BY <3>1, <3>2
  <2>10. LastStringMet'
    <3>1. CASE last = Absent
      <4>1. ~ e.key.str /\ string_key = Absent
        BY <1>5, <3>1
      <4>2. \A j \in Met : ~ A[j].key.str
        BY <1>4, <4>1 DEF LastStringMet
      <4> QED BY <1>1, <2>1, <2>3, <3>1, <4>1, <4>2 DEF LastStringMet
    <3>2. CASE last # Absent
      <4>1. d = Key(TRUE, last)
        BY <3>2 DEF Deleted
      <4> QED BY <1>1, <2>1, <2>8, <3>2, <4>1 DEF LastStringMet
    <3> QED BY <3>1, <3>2
  <2> HIDE DEF d, last
  <2>11. /\ arr' \in Seq(Range(A)) /\ UniqueKeys(arr')
         /\ Range(arr') = {x \in Range(arr) : x.key # d}
         /\ (\E i \in DOMAIN arr : arr[i].key = d) => Len(arr') = Len(arr) - 1
    BY <1>4, <2>1, WithoutProperties
  <2>12. ASSUME NEW i \in DOMAIN A, A[i] \notin Range(arr') PROVE i \in Met'
    <3>1. CASE Gone(i)
      BY <1>4, <2>3, <3>1
    <3>2. CASE ~ Gone(i)
      <4>1. A[i].key = d
        BY <2>11, <2>12, <3>2 DEF Gone, Survivors
      <4>2. PICK j \in Met' : A[j].key = d
        BY <2>8
      <4>3. i = j
        BY <1>2, <2>7, <4>1, <4>2 DEF UniqueKeys
      <4> QED BY <4>2, <4>3
    <3> QED BY <3>1, <3>2
  <2>13. ASSUME ~ MixedKeys
         PROVE  (\A i \in Met' : A[i] \notin Range(arr')) /\ Len(arr') = Len(A) - count'
    <3>1. /\ d = e.key /\ Len(arr) = Len(A) - count
          /\ \A i \in Met : A[i] \notin Range(arr)
      BY <1>4, <2>9, <2>13 DEF Gone, Survivors
    <3>2. e \in Range(arr)
      BY <1>4, <1>5, <2>6 DEF Gone, Survivors
    <3>3. \E i \in DOMAIN arr : arr[i].key = d
      BY <3>1, <3>2 DEF Range
    <3>4. Len(arr') = Len(A) - count'
      BY <1>2, <1>3, <2>1, <2>11, <3>1, <3>3
    <3>5. \A i \in Met' : A[i] \notin Range(arr')
      BY <2>3, <2>11, <3>1
    <3> QED BY <3>4, <3>5
  <2> HIDE DEF e
  <2>14. UniqueKeys(arr)'
    BY <2>11 DEF UniqueKeys
  <2>15. /\ \A i \in DOMAIN A : Gone(i)' => i \in Met'
         /\ ~ MixedKeys => (\A i \in Met' : Gone(i)') /\ Len(arr') = Len(A) - count'
    BY <1>8, <2>12, <2>13
  <2>16. wants' = ToRemove(call)'
    BY <1>1, <1>4, <1>6
  <2> QED BY <1>1, <1>6, <1>9, <2>4, <2>10, <2>11, <2>14, <2>15, <2>16 DEF RemoveInv
<1> QED BY <1>10, <1>11

\* When the loop is done, all that was asked for is met, and nothing else.
LEMMA MetIsAsked ==
  ASSUME RemoveInv, call.op = "remove", at = "done"
  PROVE  Met = FirstOf(ToRemove(call))
<1>1. /\ Equals \in SUBSET Nat /\ Equals \subseteq DOMAIN call.arr
      /\ place \in Nat /\ count \in Nat /\ wants \in Nat
      /\ Met \subseteq FirstOf(ToRemove(call))
  BY RemoveFacts
<1>2. /\ call \in Calls /\ wants = ToRemove(call) /\ count = Cardinality(Met)
      /\ (count = wants \/ place > Len(call.arr))
  BY DEF RemoveInv
<1>3. DOMAIN call.arr = 1 .. Len(call.arr) /\ Len(call.arr) \in Nat
  BY <1>2, RemoveCallType
<1>4. ASSUME NEW i \in FirstOf(ToRemove(call)) PROVE i \in Met
  <2> SUFFICES ASSUME i \notin Met PROVE FALSE
    OBVIOUS
  <2>1. i \in Equals /\ i \in Nat /\ Cardinality({j \in Equals : j <= i}) <= wants
    BY <1>1, <1>2 DEF FirstOf
  <2>2. place <= i /\ i \in DOMAIN call.arr
    BY <1>1, <2>1 DEF Met, Below
  <2>3. count = wants
    BY <1>1, <1>2, <1>3, <2>2
  <2>4. {j \in Equals : j <= i} = Below(Equals, i + 1)
    <3>1. \A j \in Equals : j \in Nat
      BY <1>1
    <3>2. \A j \in Equals : j <= i <=> j < i + 1
      BY <2>1, <3>1
    <3> QED BY <3>2 DEF Below
  <2>5. /\ Cardinality(Below(Equals, i + 1)) = Cardinality(Below(Equals, i)) + 1
        /\ Cardinality(Below(Equals, i)) \in Nat
    BY <1>1, <2>1, BelowGrows
  <2>6. Cardinality(Below(Equals, place)) <= Cardinality(Below(Equals, i))
    BY <1>1, <2>1, <2>2, BelowLater
  <2>7. Cardinality(Below(Equals, i + 1)) <= wants
    BY <2>1, <2>4
  <2>8. Cardinality(Below(Equals, place)) = wants
    BY <1>2, <2>3 DEF Met
  <2> QED BY <1>1, <2>5, <2>6, <2>7, <2>8
<1> QED BY <1>1, <1>4

\* wcx_array_remove removes no entry that differs, and unless the keys are mixed it
\* removes the first ones asked for and gives their number, for every array, value
\* and number.
THEOREM RemovesFirstAsked == ArraySpec => []RemovedAsAsked
<1>1. ArrayInit => RemoveInv
  BY RemoveStarts
<1>2. ASSUME RemoveInv, [ArrayNext]_arrayVars PROVE RemoveInv'
  <2>1. ASSUME RemoveTurn PROVE RemoveInv'
    BY <1>2, <2>1, RemoveTurns
  <2>2. ASSUME UNCHANGED <<call, arr, place, wants, count, string_key>>,
               call.op = "remove" /\ at' = "done" => at = "done" \/ count = wants \/ place > Len(call.arr)
        PROVE  RemoveInv'
    <3>1. /\ Equals' = Equals /\ (MixedKeys <=> MixedKeys') /\ Met' = Met
          /\ (LastStringMet <=> LastStringMet') /\ \A i : Gone(i)' <=> Gone(i)
      BY <2>2 DEF Equals, Equal, MixedKeys, FirstOf, Met, Below, LastStringMet, Gone, Survivors, ToRemove
    <3> HIDE DEF Met
    <3> QED BY <1>2, <2>2, <3>1 DEF RemoveInv, UniqueKeys, ToRemove
  <2>3. ASSUME RemoveDone PROVE RemoveInv'
    BY <2>2, <2>3 DEF RemoveDone
  <2>4. ASSUME NEW r \in 0 .. RandRange - 1, RandTurn(r) PROVE RemoveInv'
    BY <1>2, <2>4 DEF RandTurn, RemoveInv
  <2>5. ASSUME RandDone PROVE RemoveInv'
    BY <1>2, <2>5 DEF RandDone, RemoveInv
  <2>6. ASSUME UNCHANGED arrayVars PROVE RemoveInv'
    BY <2>2, <2>6 DEF arrayVars
  <2> QED BY <1>2, <2>1, <2>3, <2>4, <2>5, <2>6 DEF ArrayNext
<1>3. RemoveInv => RemovedAsAsked
  <2> SUFFICES ASSUME RemoveInv, call.op = "remove" PROVE RemovedAsAsked
    BY DEF RemovedAsAsked
  <2>1. /\ Equals \subseteq DOMAIN call.arr /\ count \in Nat /\ call \in Calls
        /\ \A i \in DOMAIN call.arr : Gone(i) => i \in Met
        /\ ~ MixedKeys => (\A i \in Met : Gone(i)) /\ Len(arr) = Len(call.arr) - count
    BY RemoveFacts DEF RemoveInv
  <2>2. Met \subseteq Equals
    BY DEF Met, Below
  <2>3. ASSUME at = "done", ~ MixedKeys
        PROVE  /\ {i \in DOMAIN call.arr : Gone(i)} = FirstOf(ToRemove(call))
               /\ count = Len(call.arr) - Len(arr)
    <3>1. {i \in DOMAIN call.arr : Gone(i)} = Met
      BY <2>1, <2>2, <2>3
    <3>2. Met = FirstOf(ToRemove(call))
      BY <2>3, MetIsAsked
    <3>3. Len(call.arr) \in Nat
      BY <2>1, RemoveCallType
    <3>4. count = Len(call.arr) - Len(arr)
      BY <2>1, <2>3, <3>3
    <3> QED BY <3>1, <3>2, <3>4
  <2> QED BY <2>1, <2>2, <2>3 DEF RemovedAsAsked
<1> QED BY <1>1, <1>2, <1>3, PTL DEF ArraySpec
--------------------------------------------------------------------------------
(* wcx_encrypt and wcx_decrypt: the blocks.                                *)

\* What aes_cbc_encrypt gives out, block after block, the iv first.
Chained(in, iv, k, f) ==
  f[0] = iv /\ \A i \in 1 .. Len(in) : f[i] = Enc(k, Xor(f[i - 1], in[i]))

LEMMA CbcEncryptChains ==
  ASSUME NEW in, NEW iv, NEW k, Len(in) \in Nat
  PROVE  \E f : Chained(in, iv, k, f) /\ CbcEncrypt(in, iv, k) = [i \in 1 .. Len(in) |-> f[i]]
<1> DEFINE n == Len(in)
           G(f, i) == IF i = 0 THEN iv ELSE Enc(k, Xor(f[i - 1], in[i]))
           Upto(m, f) == f = [i \in 0 .. m |-> G(f, i)]
           Bad == {m \in 0 .. n : ~ \E f : Upto(m, f)}
           out == CHOOSE f : Upto(n, f)
<1>1. CbcEncrypt(in, iv, k) = [i \in 1 .. n |-> out[i]]
  BY DEF CbcEncrypt
<1> HIDE DEF n
<1>2. n \in Nat
  BY DEF n
<1>3. Bad = {}
  <2> SUFFICES ASSUME Bad # {} PROVE FALSE
    OBVIOUS
  <2>1. Bad \subseteq Nat
    OBVIOUS
  <2>2. PICK m \in Bad : \A j \in Bad : m <= j
    <3> HIDE DEF Bad
    <3> QED BY <2>1, Least
  <2>3. m \in 0 .. n /\ \A f : ~ Upto(m, f)
    OBVIOUS
  <2>4. CASE m = 0
    <3>1. Upto(0, [i \in 0 .. 0 |-> iv])
      OBVIOUS
    <3> HIDE DEF Upto
    <3> QED BY <2>3, <2>4, <3>1
  <2>5. CASE m # 0
    <3>1. m - 1 \in 0 .. n /\ m - 1 \notin Bad
      <4> HIDE DEF Bad
      <4>1. m \in Nat /\ m - 1 \in 0 .. n /\ ~ (m <= m - 1)
        BY <1>2, <2>3, <2>5
      <4> QED BY <2>2, <4>1
    <3>2. PICK f : Upto(m - 1, f)
      BY <3>1
    <3> DEFINE g == [i \in 0 .. m |-> IF i = m THEN Enc(k, Xor(f[m - 1], in[m])) ELSE f[i]]
    <3>3. \A i \in 0 .. m : i = m \/ i \in 0 .. m - 1
      BY <2>3
    <3>4. ASSUME NEW i \in 0 .. m PROVE g[i] = G(g, i)
      <4>1. CASE i = m
        <5>1. m - 1 \in 0 .. m /\ m - 1 # m
          BY <2>3, <2>5
        <5>2. g[m - 1] = f[m - 1]
          BY <5>1
        <5> QED BY <2>5, <4>1, <5>2
      <4>2. CASE i # m /\ i = 0
        <5>1. f[0] = iv
          BY <3>2, <3>3, <4>2
        <5> QED BY <4>2, <5>1
      <4>3. CASE i # m /\ i # 0
        <5>1. i \in 0 .. m - 1 /\ i - 1 \in 0 .. m /\ i - 1 # m
          BY <2>3, <3>3, <4>3
        <5>2. g[i] = f[i] /\ g[i - 1] = f[i - 1]
          BY <4>3, <5>1
        <5>3. f[i] = G(f, i)
          <6> HIDE DEF G
          <6> QED BY <3>2, <5>1
        <5> QED BY <4>3, <5>2, <5>3
      <4> QED BY <4>1, <4>2, <4>3
    <3>5. Upto(m, g)
      <4>1. g = [i \in 0 .. m |-> g[i]]
        OBVIOUS
      <4> HIDE DEF g, G
      <4> QED BY <3>4, <4>1
    <3> HIDE DEF Upto, g
    <3> QED BY <2>3, <3>5
  <2> QED BY <2>4, <2>5
<1>4. Upto(n, out)
  <2>1. n \in 0 .. n
    BY <1>2
  <2>2. \E f : Upto(n, f)
    BY <1>3, <2>1
  <2> HIDE DEF Upto
  <2> QED BY <2>2
<1> HIDE DEF out
<1>5. \A i \in 0 .. n : out[i] = G(out, i)
  <2> HIDE DEF G
  <2> QED BY <1>4
<1>6. out[0] = iv /\ \A i \in 1 .. n : out[i] = Enc(k, Xor(out[i - 1], in[i]))
  <2>1. 0 \in 0 .. n /\ \A i \in 1 .. n : i \in 0 .. n /\ i # 0
    BY <1>2
  <2> QED BY <1>5, <2>1
<1> QED BY <1>1, <1>6 DEF Chained, n

\* A key undoes what it encrypted; another key gives a block that is nobody's plain text.
LEMMA DecUndoes ==
  ASSUME NEW k, NEW l, NEW b
  PROVE  Dec(l, Enc(k, b)) = IF l = k THEN b ELSE {[n |-> -1, key |-> l, of |-> Enc(k, b)]}
<1> DEFINE r == [n |-> 0, key |-> k, of |-> b]
           made == {x \in Enc(k, b) : x.key = l}
<1>1. Enc(k, b) = {r} /\ r.key = k /\ r.of = b
  BY DEF Enc
<1> HIDE DEF r
<1>2. CASE l = k
  <2>1. made = {r} /\ \E x \in {r} : {r} = {x}
    BY <1>1, <1>2
  <2>2. (CHOOSE x \in {r} : TRUE) = r
    OBVIOUS
  <2> QED BY <1>1, <1>2, <2>1, <2>2 DEF Dec
<1>3. CASE l # k
  <2>1. made = {} /\ Enc(k, b) # {}
    BY <1>1, <1>3
  <2> QED BY <1>3, <2>1 DEF Dec
<1> QED BY <1>2, <1>3

LEMMA XorUndoes ==
  ASSUME NEW a, NEW b
  PROVE  Xor(Xor(a, b), a) = b
BY DEF Xor

\* n blocks of plain text come back with their key; with another the first does not.
LEMMA CbcRoundTrip ==
  ASSUME NEW n \in Nat \ {0}, NEW k, NEW l
  PROVE  LET sent == CbcEncrypt([i \in 1 .. n |-> Plain(i)], Plain(0), k)
             got  == CbcDecrypt(sent, Plain(0), l)
         IN (\A i \in DOMAIN got : got[i] = Plain(i)) <=> l = k
<1> DEFINE in   == [i \in 1 .. n |-> Plain(i)]
           sent == CbcEncrypt(in, Plain(0), k)
           got  == CbcDecrypt(sent, Plain(0), l)
<1>1. Len(in) = n
  <2>1. in \in [1 .. n -> {Plain(i) : i \in 1 .. n}]
    OBVIOUS
  <2> QED BY <2>1, FunctionIsSeq
<1>2. \A i \in 1 .. n : in[i] = Plain(i)
  OBVIOUS
<1> HIDE DEF in
<1>3. PICK f : Chained(in, Plain(0), k, f) /\ sent = [i \in 1 .. n |-> f[i]]
  BY <1>1, CbcEncryptChains
<1> HIDE DEF sent
<1>4. Len(sent) = n
  <2>1. sent \in [1 .. n -> {f[i] : i \in 1 .. n}]
    BY <1>3
  <2> QED BY <2>1, FunctionIsSeq
<1>5. /\ f[0] = Plain(0)
      /\ \A i \in 1 .. n : f[i] = Enc(k, Xor(f[i - 1], Plain(i)))
  BY <1>1, <1>2, <1>3 DEF Chained
<1>6. got = [i \in 1 .. n |-> Xor(Dec(l, sent[i]), IvAt(sent, Plain(0), i))]
  BY <1>4 DEF CbcDecrypt
<1>7. ASSUME NEW i \in 1 .. n
      PROVE  got[i] = Xor(Dec(l, Enc(k, Xor(f[i - 1], Plain(i)))), f[i - 1])
  <2>1. sent[i] = Enc(k, Xor(f[i - 1], Plain(i)))
    BY <1>3, <1>5
  <2>2. IvAt(sent, Plain(0), i) = f[i - 1]
    <3>1. CASE i = 1
      BY <1>5, <3>1 DEF IvAt
    <3>2. CASE i # 1
      <4>1. i - 1 \in 1 .. n
        BY <3>2
      <4> QED BY <1>3, <3>2, <4>1 DEF IvAt
    <3> QED BY <3>1, <3>2
  <2>3. got[i] = Xor(Dec(l, sent[i]), IvAt(sent, Plain(0), i))
    BY <1>6
  <2> QED BY <2>1, <2>2, <2>3
<1>8. DOMAIN got = 1 .. n
  BY <1>6
<1> HIDE DEF got
<1>9. ASSUME l = k PROVE \A i \in DOMAIN got : got[i] = Plain(i)
  <2>1. ASSUME NEW i \in 1 .. n PROVE got[i] = Plain(i)
    <3>1. Dec(l, Enc(k, Xor(f[i - 1], Plain(i)))) = Xor(f[i - 1], Plain(i))
      BY <1>9, DecUndoes
    <3>2. got[i] = Xor(Xor(f[i - 1], Plain(i)), f[i - 1])
      BY <1>7, <3>1
    <3> QED BY <3>2, XorUndoes
  <2> QED BY <1>8, <2>1
<1>10. ASSUME l # k PROVE ~ \A i \in DOMAIN got : got[i] = Plain(i)
  <2> DEFINE c == Enc(k, Xor(f[0], Plain(1)))
             w == [n |-> -1, key |-> l, of |-> c]
  <2>1. 1 \in 1 .. n /\ 1 - 1 = 0
    OBVIOUS
  <2>2. got[1] = Xor(Dec(l, c), Plain(0))
    BY <1>5, <1>7, <2>1
  <2>3. Dec(l, c) = {w}
    BY <1>10, DecUndoes
  <2>4. w \notin Plain(0) /\ w \notin Plain(1)
    <3>1. w.n = -1
      OBVIOUS
    <3>2. \A x \in Plain(0) \cup Plain(1) : x.n \in {0, 1}
      BY DEF Plain
    <3> HIDE DEF w
    <3> QED BY <3>1, <3>2
  <2> HIDE DEF c, w
  <2>5. w \in got[1]
    BY <2>2, <2>3, <2>4 DEF Xor
  <2>6. got[1] # Plain(1)
    BY <2>4, <2>5
  <2> QED BY <1>8, <2>1, <2>6
<1> QED BY <1>9, <1>10 DEF got, sent, in

\* Two passwords are the same key when AesKey makes the same of them.
LEMMA SameKeyIsAesKey ==
  ASSUME NEW a, NEW b
  PROVE  SameKey(a, b) <=> AesKey(a) = AesKey(b)
<1>1. \A p : AesKey(p) = [i \in 1 .. KeySize |-> AesKey(p)[i]]
  BY DEF AesKey
<1>2. \A p, i : i \in 1 .. KeySize => AesKey(p)[i] = IF i <= Len(p) THEN p[i] ELSE " "
  BY DEF AesKey
<1>3. SameKey(a, b) <=> \A i \in 1 .. KeySize : AesKey(a)[i] = AesKey(b)[i]
  BY <1>2 DEF SameKey
<1> QED BY <1>1, <1>3
--------------------------------------------------------------------------------
(* wcx_encrypt and wcx_decrypt: the sizes.                                 *)

\* The blocks that are encrypted are all of the buffer.
LEMMA BlocksFillBuffer ==
  ASSUME NEW n \in Nat
  PROVE  /\ BufSize(n) = 16 * Times(n) /\ BufSize(n) \in Nat /\ BufSize(n) >= n + 33
         /\ (16 + BufSize(n)) % 16 = 0 /\ Times(n) \in Nat /\ Times(n) >= 3
<1> DEFINE q == (n + 32) \div 16
           r == (n + 32) % 16
<1>1. n + 32 = 16 * q + r /\ q \in Nat /\ r \in 0 .. 15 /\ q >= 2
  OBVIOUS
<1>2. Times(n) = q + 1 /\ BufSize(n) = n + 32 + (16 - r)
  BY DEF Times, BufSize, Paddings
<1> HIDE DEF q, r
<1>3. BufSize(n) = 16 * (q + 1) /\ BufSize(n) >= n + 33
  BY <1>1, <1>2
<1>4. (16 + BufSize(n)) = 16 * (q + 2) /\ (16 * (q + 2)) % 16 = 0
  BY <1>1, <1>3
<1> QED BY <1>1, <1>2, <1>3, <1>4

\* What deflate makes of any data fits the buffer that is guessed for it.
LEMMA DeflateFits ==
  ASSUME NEW n \in Nat, NEW p \in Nat, p <= DeflateMost(n)
  PROVE  Fits(p, n)
<1> DEFINE a == n \div 16384
           b == (n * 1015) \div 1000
<1>1. a \in Nat /\ 16384 * a <= n
  OBVIOUS
<1>2. b \in Nat /\ 1000 * b > n * 1015 - 1000
  OBVIOUS
<1>3. p <= n + 5 * (a + 1) + 6
  BY DEF DeflateMost
<1>4. SizeGuess(n) = b + 23
  BY DEF SizeGuess
<1> HIDE DEF a, b
<1> QED BY <1>1, <1>2, <1>3, <1>4 DEF Fits

\* Powers of 8 and 9, and of 2.
Eights == <<1, 8, 64, 512, 4096, 32768>>
Nines  == <<1, 9, 81, 729, 6561, 59049>>
Twos   == <<1, 2, 4, 8, 16, 32, 64, 128, 256, 512, 1024, 2048>>

\* After 6 * j + i rounds the buffer is 9/8 to the i-th, times 2 to the j-th, of what
\* it was, or more.
Phase(size, i, q)  == Eights[i + 1] * size >= Nines[i + 1] * q
Growing(b, n) ==
  /\ b.size \in Nat
  /\ \E j \in 0 .. 11, i \in 0 .. 5 :
       b.round = 6 * j + i /\ Phase(b.size, i, Twos[j + 1] * n)

\* A round makes the buffer an eighth longer, and six rounds make it twice as long.
LEMMA PhaseGrows ==
  ASSUME NEW size \in Nat, NEW q \in Nat, NEW i \in 0 .. 5, Phase(size, i, q)
  PROVE  /\ Grown(size) \in Nat
         /\ i < 5 => Phase(Grown(size), i + 1, q)
         /\ i = 5 => Phase(Grown(size), 0, 2 * q)
         /\ size >= q
<1> DEFINE g == Grown(size)
<1>1. g \in Nat /\ 8 * g >= 9 * size
  BY DEF Grown
<1> HIDE DEF g
<1>2. \A k \in 0 .. 5 : k = 0 \/ k = 1 \/ k = 2 \/ k = 3 \/ k = 4 \/ k = 5
  OBVIOUS
<1>3. CASE i = 0
  BY <1>1, <1>3 DEF Phase, Eights, Nines, g
<1>4. CASE i = 1
  BY <1>1, <1>4 DEF Phase, Eights, Nines, g
<1>5. CASE i = 2
  BY <1>1, <1>5 DEF Phase, Eights, Nines, g
<1>6. CASE i = 3
  BY <1>1, <1>6 DEF Phase, Eights, Nines, g
<1>7. CASE i = 4
  BY <1>1, <1>7 DEF Phase, Eights, Nines, g
<1>8. CASE i = 5
  BY <1>1, <1>8 DEF Phase, Eights, Nines, g
<1> QED BY <1>2, <1>3, <1>4, <1>5, <1>6, <1>7, <1>8

\* A buffer that does not hold all of the data yet grows on, and there are rounds left.
LEMMA GrowsOn ==
  ASSUME NEW b, NEW n \in Nat, NEW most \in Nat, most <= 1032 * n, Growing(b, n), b.size < most
  PROVE  /\ b.round + 1 < 100
         /\ Growing([size |-> Grown(b.size), used |-> b.size, round |-> b.round + 1], n)
<1>1. PICK j \in 0 .. 11, i \in 0 .. 5 : b.round = 6 * j + i /\ Phase(b.size, i, Twos[j + 1] * n)
  BY DEF Growing
<1>2. b.size \in Nat
  BY DEF Growing
<1>3. \A k \in 0 .. 11 : Twos[k + 1] \in Nat
  BY DEF Twos
<1>4. \A k \in 0 .. 10 : Twos[k + 2] = 2 * Twos[k + 1]
  BY DEF Twos
<1> DEFINE q == Twos[j + 1] * n
           c == [size |-> Grown(b.size), used |-> b.size, round |-> b.round + 1]
<1>5. q \in Nat
  BY <1>3
<1>6. /\ Grown(b.size) \in Nat /\ b.size >= q
      /\ i < 5 => Phase(Grown(b.size), i + 1, q)
      /\ i = 5 => Phase(Grown(b.size), 0, 2 * q)
  <2> HIDE DEF q
  <2>1. Phase(b.size, i, q)
    BY <1>1 DEF q
  <2> QED BY <1>2, <1>5, <2>1, PhaseGrows
<1>7. j # 11
  <2> SUFFICES ASSUME j = 11 PROVE FALSE
    OBVIOUS
  <2>1. q = 2048 * n
    BY DEF Twos
  <2> QED BY <1>2, <1>6, <2>1
<1>8. b.round + 1 < 100
  BY <1>1
<1>9. c.size \in Nat /\ c.size = Grown(b.size) /\ c.round = 6 * j + i + 1
  BY <1>1, <1>6
<1>10. CASE i < 5
  <2>1. i + 1 \in 0 .. 5 /\ c.round = 6 * j + (i + 1)
    BY <1>9, <1>10
  <2>2. Phase(c.size, i + 1, Twos[j + 1] * n)
    BY <1>6, <1>9, <1>10
  <2> HIDE DEF c, q
  <2>3. Growing(c, n)
    BY <1>9, <2>1, <2>2 DEF Growing
  <2> QED BY <1>8, <2>3 DEF c
<1>11. CASE i = 5
  <2>1. j + 1 \in 0 .. 11 /\ 0 \in 0 .. 5 /\ c.round = 6 * (j + 1) + 0
    BY <1>7, <1>9, <1>11
  <2>2. 2 * q = Twos[(j + 1) + 1] * n
    <3>1. j \in 0 .. 10 /\ (j + 1) + 1 = j + 2
      BY <1>7
    <3>2. Twos[j + 2] = 2 * Twos[j + 1]
      BY <1>4, <3>1
    <3> QED BY <1>3, <3>1, <3>2
  <2>3. Phase(c.size, 0, Twos[(j + 1) + 1] * n)
    BY <1>6, <1>9, <1>11, <2>2
  <2> HIDE DEF c, q
  <2>4. Growing(c, n)
    BY <1>9, <2>1, <2>3 DEF Growing
  <2> QED BY <1>8, <2>4 DEF c
<1> QED BY <1>10, <1>11
--------------------------------------------------------------------------------
(* wcx_encrypt and wcx_decrypt: what comes back.                           *)

\* How much is encrypted: the third field of the header.
Sent == header[3]

\* The message and its header, as Encrypt leaves them.
MessageMade ==
  /\ Sent \in IF Zipped(data) THEN Packed[data] ELSE {data}
  /\ header = <<"ok", IF Zipped(data) THEN 1 ELSE 0, Sent, data>>
  /\ stored.iv = Plain(0) /\ stored.size = 16 + BufSize(Sent)
  /\ stored.blocks = CbcEncrypt([i \in 1 .. Shorter(Times(Sent), Shown) |-> Plain(i)],
                                Plain(0), AesKey(key))

\* The header is read back with the same key, and with no other.
HeaderRead ==
  IF SameKey(guess, key) THEN flags = [i \in 1 .. 4 |-> header[i]] ELSE flags[1] # "ok"

\* What wcx_decrypt has done where it is.
Progress ==
  \/ pc = "decrypt" /\ reads = 0 /\ result = Failed
  \/ pc \in {"header", "crash"} /\ reads = 0 /\ result = Failed /\ HeaderRead
  \/ /\ pc = "inflate" /\ reads <= BufSize(Sent) /\ result = Failed /\ HeaderRead
     /\ SameKey(guess, key) /\ Zipped(data) /\ Growing(buf, Sent)
  \/ /\ pc = "crc" /\ reads <= BufSize(Sent) /\ result = Failed /\ HeaderRead
     /\ SameKey(guess, key) /\ buf.used = data
  \/ /\ pc = "done" /\ reads <= BufSize(Sent)
     /\ result = IF SameKey(guess, key) THEN [error |-> FALSE, data |-> data] ELSE Failed

CryptInv ==
  /\ data \in Lengths
  /\ \/ pc = "encrypt" /\ stored = NULL /\ reads = 0 /\ result = Failed
     \/ pc = "done" /\ stored = NULL
     \/ MessageMade /\ Progress

\* How much is encrypted is a number, and inflate makes no more of it than zlib can.
LEMMA SentType ==
  ASSUME CryptInv, MessageMade
  PROVE  /\ data \in Nat /\ Sent \in Nat
         /\ Zipped(data) => data <= 1032 * Sent
         /\ ~ Zipped(data) => Sent = data
<1>1. data \in Nat /\ Packed[data] \in SUBSET (Nat \ {0})
  BY CryptAssumption DEF CryptInv
<1>2. \A p \in Packed[data] : p \in Nat /\ data <= 1032 * p
  BY <1>1, ZlibAssumption DEF CryptInv
<1>3. CASE Zipped(data)
  BY <1>1, <1>2, <1>3 DEF MessageMade
<1>4. CASE ~ Zipped(data)
  BY <1>1, <1>4 DEF MessageMade
<1> QED BY <1>3, <1>4

\* wcx_encrypt makes the message.
LEMMA EncryptMakes == CryptInv /\ Encrypt => CryptInv'
<1> SUFFICES ASSUME CryptInv, Encrypt PROVE CryptInv'
  OBVIOUS
<1>1. PICK n \in (IF Zipped(data) THEN {p \in Packed[data] : Fits(p, data)} ELSE {data}) :
        /\ header' = <<"ok", IF Zipped(data) THEN 1 ELSE 0, n, data>>
        /\ stored' = [iv |-> Plain(0), size |-> 16 + BufSize(n),
                      blocks |-> CbcEncrypt([i \in 1 .. Shorter(Times(n), Shown) |-> Plain(i)],
                                            Plain(0), AesKey(key))]
  BY DEF Encrypt
<1>2. /\ pc = "encrypt" /\ pc' = "decrypt" /\ data' = data /\ key' = key
      /\ reads' = reads /\ result' = result
  BY DEF Encrypt
<1>3. Sent' = n
  BY <1>1 DEF Sent
<1>4. n \in IF Zipped(data) THEN Packed[data] ELSE {data}
  OBVIOUS
<1>5. MessageMade'
  BY <1>1, <1>2, <1>3, <1>4 DEF MessageMade
<1>6. CASE stored = NULL /\ reads = 0 /\ result = Failed
  <2>1. Progress'
    BY <1>2, <1>6 DEF Progress, Failed
  <2> QED BY <1>2, <1>5, <2>1 DEF CryptInv
<1> QED BY <1>2, <1>6 DEF CryptInv, Progress

\* wcx_decrypt finds the header with the same key, and nothing with another.
LEMMA DecryptReads == CryptInv /\ Decrypt => CryptInv'
<1> SUFFICES ASSUME CryptInv, Decrypt PROVE CryptInv'
  OBVIOUS
<1>1. /\ pc = "decrypt" /\ data' = data /\ key' = key /\ stored' = stored /\ header' = header
      /\ reads' = reads /\ result' = result
      /\ pc' = IF stored.size < 48 \/ stored.size % 16 # 0 THEN "done" ELSE "header"
  BY DEF Decrypt
<1>2. MessageMade /\ reads = 0 /\ result = Failed
  BY <1>1 DEF CryptInv, Progress
<1>3. data \in Nat /\ Sent \in Nat
  BY <1>2, SentType
<1> DEFINE Got(k) == CbcDecrypt(stored.blocks, stored.iv, AesKey(k))
           Intact(k) == \A i \in DOMAIN Got(k) : Got(k)[i] = Plain(i)
<1>4. PICK k \in Passwords :
        /\ guess' = k
        /\ \E fields \in (IF Intact(k) THEN {header} ELSE Garbage) :
             flags' = [i \in 1 .. 4 |-> Field(fields, i)]
  BY DEF Decrypt
<1>5. Intact(k) <=> SameKey(k, key)
  <2> DEFINE m == Shorter(Times(Sent), Shown)
             out == CbcEncrypt([i \in 1 .. m |-> Plain(i)], Plain(0), AesKey(key))
  <2>1. m \in Nat \ {0}
    <3>1. Times(Sent) \in Nat /\ Times(Sent) >= 3 /\ Shown \in Nat /\ Shown >= 3
      BY <1>3, BlocksFillBuffer, CryptAssumption
    <3> QED BY <3>1 DEF Shorter
  <2> HIDE DEF m
  <2>2. (\A i \in DOMAIN CbcDecrypt(out, Plain(0), AesKey(k)) :
           CbcDecrypt(out, Plain(0), AesKey(k))[i] = Plain(i)) <=> AesKey(k) = AesKey(key)
    BY <2>1, CbcRoundTrip
  <2>3. stored.blocks = out /\ stored.iv = Plain(0)
    BY <1>2 DEF MessageMade, m
  <2> HIDE DEF out
  <2> QED BY <2>2, <2>3, SameKeyIsAesKey
<1> HIDE DEF Intact
<1>6. HeaderRead'
  <2>1. SameKey(guess, key)' <=> SameKey(k, key)
    BY <1>1, <1>4 DEF SameKey
  <2>2. CASE SameKey(k, key)
    <3>1. flags' = [i \in 1 .. 4 |-> Field(header, i)]
      BY <1>4, <1>5, <2>2
    <3>2. Len(header) = 4
      BY <1>2 DEF MessageMade
    <3>3. \A i \in 1 .. 4 : Field(header, i) = header[i]
      BY <3>2 DEF Field
    <3>4. flags' = [i \in 1 .. 4 |-> header'[i]]
      BY <1>1, <3>1, <3>3
    <3> QED BY <2>1, <2>2, <3>4 DEF HeaderRead
  <2>3. CASE ~ SameKey(k, key)
    <3>1. PICK fields \in Garbage : flags' = [i \in 1 .. 4 |-> Field(fields, i)]
      BY <1>4, <1>5, <2>3
    <3>2. flags'[1] = Field(fields, 1) /\ Field(fields, 1) # "ok"
      BY <3>1, GarbageAssumption
    <3> QED BY <2>1, <2>3, <3>2 DEF HeaderRead
  <2> QED BY <2>2, <2>3
<1>7. pc' = "header"
  <2>1. stored.size = 16 + BufSize(Sent)
    BY <1>2 DEF MessageMade
  <2>2. BufSize(Sent) \in Nat /\ BufSize(Sent) >= 33 /\ (16 + BufSize(Sent)) % 16 = 0
    BY <1>3, BlocksFillBuffer
  <2>3. ~ stored.size < 48 /\ stored.size % 16 = 0
    BY <2>1, <2>2
  <2> QED BY <1>1, <2>3
<1>8. MessageMade'
  BY <1>1, <1>2 DEF MessageMade, Sent
<1>9. Progress'
  BY <1>1, <1>2, <1>6, <1>7 DEF Progress, Failed
<1> QED BY <1>1, <1>8, <1>9 DEF CryptInv

\* A step that leaves the message alone keeps it.
LEMMA MessageKept ==
  ASSUME CryptInv, UNCHANGED <<data, key, stored, header, guess, flags>>
  PROVE  /\ MessageMade => MessageMade' /\ Sent' = Sent
         /\ HeaderRead => HeaderRead'
         /\ SameKey(guess, key)' <=> SameKey(guess, key)
BY DEF MessageMade, Sent, HeaderRead, SameKey

\* The header of the same key has its four fields.
LEMMA HeaderFields ==
  ASSUME MessageMade, HeaderRead, flags[1] = "ok"
  PROVE  /\ SameKey(guess, key)
         /\ flags[2] = IF Zipped(data) THEN 1 ELSE 0
         /\ flags[3] = Sent /\ flags[4] = data
<1>1. SameKey(guess, key) /\ flags = [i \in 1 .. 4 |-> header[i]]
  BY DEF HeaderRead
<1>2. flags[2] = header[2] /\ flags[3] = header[3] /\ flags[4] = header[4]
  BY <1>1
<1> QED BY <1>1, <1>2 DEF MessageMade, Sent

\* The steps behind the header.
LEMMA DataComesBack ==
  ASSUME CryptInv, Crash \/ NotOk \/ Copy \/ Decode \/ Inflate \/ Checksum
  PROVE  CryptInv'
<1>1. UNCHANGED <<data, key, stored, header, guess, flags>> /\ pc \notin {"encrypt", "done", "decrypt"}
  BY DEF Crash, NotOk, Copy, Decode, Inflate, Checksum
<1>2. MessageMade /\ Progress
  BY <1>1 DEF CryptInv
<1>3. /\ MessageMade' /\ Sent' = Sent /\ data' = data /\ data \in Lengths
      /\ HeaderRead => HeaderRead'
      /\ SameKey(guess, key)' <=> SameKey(guess, key)
  BY <1>1, <1>2, MessageKept DEF CryptInv
<1>4. /\ data \in Nat /\ Sent \in Nat
      /\ Zipped(data) => data <= 1032 * Sent
      /\ ~ Zipped(data) => Sent = data
  BY <1>2, SentType
<1>5. BufSize(Sent) \in Nat /\ BufSize(Sent) >= Sent + 33
  BY <1>4, BlocksFillBuffer
<1> SUFFICES Progress'
  BY <1>3 DEF CryptInv
<1>6. CASE pc = "header"
  <2>1. reads = 0 /\ result = Failed /\ HeaderRead
    BY <1>2, <1>6 DEF Progress
  <2>2. flags[1] = "ok" => /\ SameKey(guess, key)
                           /\ flags[2] = IF Zipped(data) THEN 1 ELSE 0
                           /\ flags[3] = Sent
    BY <1>2, <2>1, HeaderFields
  <2>3. CASE Crash
    BY <1>3, <2>1, <2>3 DEF Crash, Progress, Failed
  <2>4. CASE NotOk
    <3>1. ~ SameKey(guess, key)
      <4> SUFFICES ASSUME SameKey(guess, key) PROVE FALSE
        OBVIOUS
      <4>1. flags[1] = header[1] /\ header[1] = "ok"
        BY <1>2, <2>1 DEF HeaderRead, MessageMade
      <4> QED BY <2>4, <4>1 DEF NotOk
    <3>2. pc' = "done" /\ reads' = reads /\ result' = result
      BY <2>4 DEF NotOk
    <3>3. reads' <= BufSize(Sent)'
      BY <1>3, <1>5, <2>1, <3>2
    <3> QED BY <1>3, <2>1, <3>1, <3>2, <3>3 DEF Progress, Failed
  <2>5. CASE Copy
    <3>1. /\ pc' = "crc" /\ reads' = 32 + Sent /\ buf'.used = Sent /\ result' = result
          /\ SameKey(guess, key) /\ flags[2] = 0
      BY <2>2, <2>5 DEF Copy, NoBuf
    <3>2. Sent = data
      BY <1>4, <2>2, <2>5, <3>1 DEF Copy
    <3>3. reads' <= BufSize(Sent)'
      BY <1>3, <1>4, <1>5, <3>1
    <3> QED BY <1>3, <2>1, <3>1, <3>2, <3>3 DEF Progress, Failed
  <2>6. CASE Decode
    <3>1. /\ pc' = "inflate" /\ reads' = 32 + Sent + 1 /\ result' = result
          /\ buf' = [size |-> Sent + 1, used |-> 0, round |-> 0]
          /\ SameKey(guess, key) /\ flags[2] = 1 /\ flags[1] = "ok"
      BY <2>2, <2>6 DEF Decode, NoBuf
    <3>2. Zipped(data)
      BY <2>2, <3>1
    <3>3. reads' <= BufSize(Sent)'
      BY <1>3, <1>4, <1>5, <3>1
    <3>4. Growing(buf, Sent)'
      <4>1. buf'.size = Sent + 1 /\ buf'.round = 0
        BY <3>1
      <4>2. Phase(buf'.size, 0, Twos[0 + 1] * Sent)
        BY <1>4, <4>1 DEF Phase, Eights, Nines, Twos
      <4>3. 0 \in 0 .. 11 /\ 0 \in 0 .. 5 /\ buf'.round = 6 * 0 + 0 /\ buf'.size \in Nat
        BY <1>4, <4>1
      <4> QED BY <1>3, <4>2, <4>3 DEF Growing
    <3>5. Zipped(data)'
      BY <1>3, <3>2 DEF Zipped
    <3> QED BY <1>3, <2>1, <3>1, <3>3, <3>4, <3>5 DEF Progress, Failed
  <2> QED BY <1>6, <2>3, <2>4, <2>5, <2>6 DEF Inflate, Checksum
<1>7. CASE pc = "inflate"
  <2>1. /\ Inflate /\ reads <= BufSize(Sent) /\ result = Failed /\ HeaderRead
        /\ SameKey(guess, key) /\ Zipped(data) /\ Growing(buf, Sent)
    BY <1>2, <1>7 DEF Progress, Crash, NotOk, Copy, Decode, Checksum
  <2> DEFINE used == Shorter(buf.size, data)
  <2>2. /\ buf' = [size |-> Grown(buf.size), used |-> used, round |-> buf.round + 1]
        /\ pc' = IF used = data THEN "crc" ELSE IF buf.round + 1 < 100 THEN "inflate" ELSE "done"
        /\ reads' = reads /\ result' = result
    BY <2>1 DEF Inflate
  <2>3. reads' <= BufSize(Sent)' /\ Zipped(data)'
    BY <1>3, <2>1, <2>2 DEF Zipped
  <2>4. CASE used = data
    <3>1. pc' = "crc" /\ buf'.used = data
      BY <2>2, <2>4
    <3> QED BY <1>3, <2>1, <2>2, <2>3, <3>1 DEF Progress, Failed
  <2>5. CASE used # data
    <3>1. buf.size < data /\ used = buf.size
      BY <2>5 DEF Shorter
    <3>2. /\ buf.round + 1 < 100
          /\ Growing([size |-> Grown(buf.size), used |-> buf.size, round |-> buf.round + 1], Sent)
      BY <1>4, <2>1, <3>1, GrowsOn
    <3>3. pc' = "inflate"
      BY <2>2, <2>5, <3>2
    <3>4. Growing(buf, Sent)'
      BY <1>3, <2>2, <3>1, <3>2 DEF Growing
    <3> QED BY <1>3, <2>1, <2>2, <2>3, <3>3, <3>4 DEF Progress, Failed
  <2> QED BY <2>4, <2>5
<1>8. CASE pc = "crc"
  <2>1. /\ Checksum /\ reads <= BufSize(Sent) /\ HeaderRead
        /\ SameKey(guess, key) /\ buf.used = data
    BY <1>2, <1>8 DEF Progress, Crash, NotOk, Copy, Decode, Inflate
  <2>2. flags[4] = data
    <3>1. flags[1] = header[1] /\ header[1] = "ok"
      BY <1>2, <2>1 DEF HeaderRead, MessageMade
    <3> QED BY <1>2, <2>1, <3>1, HeaderFields
  <2>3. pc' = "done" /\ reads' = reads /\ result' = [error |-> FALSE, data |-> data]
    BY <2>1, <2>2 DEF Checksum
  <2>4. reads' <= BufSize(Sent)'
    BY <1>3, <2>1, <2>3
  <2> QED BY <1>3, <2>1, <2>3, <2>4 DEF Progress
<1> QED BY <1>1, <1>2, <1>6, <1>7, <1>8 DEF Progress, Crash, NotOk, Copy, Decode, Inflate, Checksum

\* The invariant of encryption, for all data, passwords and lengths.
LEMMA CryptInvariant == CryptSpec => []CryptInv
<1>1. CryptInit => CryptInv
  BY DEF CryptInit, CryptInv
<1>2. ASSUME CryptInv, [CryptNext]_cryptVars PROVE CryptInv'
  <2>1. CASE Encrypt
    BY <1>2, <2>1, EncryptMakes
  <2>2. CASE EncodeFails
    BY <1>2, <2>2 DEF EncodeFails, CryptInv, Progress
  <2>3. CASE Decrypt
    BY <1>2, <2>3, DecryptReads
  <2>4. CASE Crash \/ NotOk \/ Copy \/ Decode \/ Inflate \/ Checksum
    BY <1>2, <2>4, DataComesBack
  <2>5. CASE UNCHANGED cryptVars
    <3>1. UNCHANGED <<pc, data, key, stored, header, guess, flags, buf, reads, result>>
      BY <2>5 DEF cryptVars
    <3>2. /\ MessageMade => MessageMade' /\ Sent' = Sent
          /\ HeaderRead => HeaderRead'
          /\ SameKey(guess, key)' <=> SameKey(guess, key)
      BY <1>2, <3>1, MessageKept
    <3>3. Zipped(data)' <=> Zipped(data)
      BY <3>1 DEF Zipped
    <3>4. Growing(buf, Sent)' <=> Growing(buf, Sent)
      <4>1. Sent' = Sent /\ buf' = buf
        BY <3>1 DEF Sent
      <4> QED BY <4>1 DEF Growing
    <3>5. ASSUME MessageMade, Progress PROVE Progress'
      BY <3>1, <3>2, <3>3, <3>4, <3>5 DEF Progress, Failed
    <3> QED BY <1>2, <3>1, <3>2, <3>5 DEF CryptInv, Failed
  <2> QED BY <1>2, <2>1, <2>2, <2>3, <2>4, <2>5 DEF CryptNext
<1> QED BY <1>1, <1>2, PTL DEF CryptSpec

\* What was encrypted comes back for every password that is the same key, whatever
\* its length: 100 rounds are enough for all that deflate can pack.
THEOREM ComesBack == CryptSpec => []RoundTrip
<1>1. CryptInv => RoundTrip
  BY DEF CryptInv, Progress, RoundTrip
<1> QED BY <1>1, CryptInvariant, PTL

\* Every buffer holds, for all lengths: the one that is guessed for deflate, the
\* blocks that are encrypted, and what decryption reads.
THEOREM BuffersAlwaysHold == CryptSpec => []BuffersHold
<1>1. CryptInv => BuffersHold
  <2> SUFFICES ASSUME CryptInv PROVE BuffersHold
    OBVIOUS
  <2>1. ASSUME NEW p \in Packed[data] PROVE Fits(p, data)
    <3>1. data \in Lengths /\ data \in Nat /\ Packed[data] \in SUBSET (Nat \ {0})
      BY CryptAssumption DEF CryptInv
    <3>2. p \in Nat /\ p <= DeflateMost(data)
      BY <3>1, ZlibAssumption
    <3> QED BY <3>1, <3>2, DeflateFits
  <2>2. ASSUME stored # NULL
        PROVE  reads <= stored.size - 16 /\ stored.size = 16 + 16 * Times(header[3])
    <3>1. MessageMade /\ Progress
      BY <2>2 DEF CryptInv
    <3>2. data \in Nat /\ Sent \in Nat
      BY <3>1, SentType
    <3>3. BufSize(Sent) = 16 * Times(Sent) /\ BufSize(Sent) \in Nat
      BY <3>2, BlocksFillBuffer
    <3>4. stored.size = 16 + BufSize(Sent)
      BY <3>1 DEF MessageMade
    <3>5. reads = 0 \/ reads <= BufSize(Sent)
      BY <3>1 DEF Progress
    <3>6. stored.size - 16 = BufSize(Sent)
      BY <3>3, <3>4
    <3>7. reads <= stored.size - 16
      BY <3>3, <3>5, <3>6
    <3> QED BY <3>3, <3>4, <3>7 DEF Sent
  <2> QED BY <2>1, <2>2 DEF BuffersHold
<1> QED BY <1>1, CryptInvariant, PTL
================================================================================
