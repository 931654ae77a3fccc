----------------------------- MODULE WcxDataProofs -----------------------------
(***************************************************************************)
(* Proofs about WcxData, for any tables, objects and names.                *)
(***************************************************************************)
EXTENDS WcxDataProps, CrontabProofs, FiniteSetTheorems

Entry == [key : Keys, val : Values]

\* Tables e with pointers p.
Tables(e, p) ==
  /\ e \in [Tabs -> Seq(Entry)] /\ p \in [Tabs -> Nat]
  /\ \A t \in Tabs : /\ \A i, j \in DOMAIN e[t] : e[t][i].key = e[t][j].key => i = j
                     /\ p[t] \in {0} \cup DOMAIN e[t]

--------------------------------------------------------------------------------
(* The tables in use.                                                      *)

\* The rounds of Reach, from S.
Rounds(e, S, f) ==
  /\ f[0] = S /\ f \in [0 .. Cardinality(Tabs) -> SUBSET Tabs]
  /\ \A k \in 1 .. Cardinality(Tabs) : f[k] = f[k - 1] \cup Held(e, f[k - 1])

\* Reach goes round as often as there are tables.
LEMMA ReachRounds ==
  ASSUME NEW e, NEW S \in SUBSET Tabs
  PROVE  \E f : Rounds(e, S, f) /\ Reach(e, S) = f[Cardinality(Tabs)]
<1> DEFINE n == Cardinality(Tabs)
           F == [k \in 1 .. n |-> [A \in SUBSET Tabs |-> A \cup Held(e, A)]]
           G(f, k) == IF k = 0 THEN S ELSE f[k - 1] \cup Held(e, f[k - 1])
           f == CHOOSE f : f = [k \in 0 .. n |-> G(f, k)]
<1>1. n \in Nat
  BY FS_CardinalityType, DataAssumption
<1>2. Reach(e, S) = f[n]
  BY DEF Reach
<1> HIDE DEF n
<1>3. F \in [1 .. n -> [SUBSET Tabs -> SUBSET Tabs]]
  <2>1. \A A \in SUBSET Tabs : A \cup Held(e, A) \in SUBSET Tabs
    BY DEF Held
  <2> QED BY <2>1
<1>4. \A A \in SUBSET Tabs, k \in 1 .. n : F[k][A] = A \cup Held(e, A)
  OBVIOUS
<1> HIDE DEF F
<1>5. PICK g : g \in [0 .. n -> SUBSET Tabs] /\ Unrolls(g, n, S, F)
  BY <1>1, <1>3, Recursion
<1>6. g = [k \in 0 .. n |-> G(g, k)]
  <2>1. ASSUME NEW k \in 0 .. n PROVE g[k] = G(g, k)
    <3>1. CASE k = 0
      BY <1>5, <3>1 DEF Unrolls
    <3>2. CASE k # 0
      <4>1. k \in 1 .. n /\ k - 1 \in 0 .. n
        BY <1>1, <3>2
      <4>2. g[k - 1] \in SUBSET Tabs
        BY <1>5, <4>1
      <4>3. g[k] = F[k][g[k - 1]]
        BY <1>5, <4>1 DEF Unrolls
      <4> QED BY <1>4, <3>2, <4>1, <4>2, <4>3
    <3> QED BY <3>1, <3>2
  <2> HIDE DEF G
  <2> QED BY <1>5, <2>1
<1>7. f = [k \in 0 .. n |-> G(f, k)]
  BY <1>6
<1> HIDE DEF f
<1>8. f[0] = S /\ \A k \in 1 .. n : f[k] = f[k - 1] \cup Held(e, f[k - 1])
  <2>1. \A k \in 0 .. n : f[k] = G(f, k)
    <3> HIDE DEF G
    <3> QED BY <1>7
  <2>2. 0 \in 0 .. n /\ \A k \in 1 .. n : k \in 0 .. n /\ k # 0
    BY <1>1
  <2> QED BY <2>1, <2>2
<1>9. \A k \in 0 .. n : f[k] \in SUBSET Tabs
  <2> DEFINE Bad == {k \in 0 .. n : f[k] \notin SUBSET Tabs}
  <2> SUFFICES ASSUME Bad # {} PROVE FALSE
    OBVIOUS
  <2>1. Bad \subseteq Nat
    OBVIOUS
  <2>2. PICK k \in Bad : \A j \in Bad : k <= j
    <3> HIDE DEF Bad
    <3> QED BY <2>1, Least
  <2>3. k \in 1 .. n /\ k - 1 \in 0 .. n /\ k - 1 \notin Bad
    BY <1>1, <1>8, <2>2
  <2>4. f[k - 1] \in SUBSET Tabs
    BY <2>3
  <2>5. Held(e, f[k - 1]) \in SUBSET Tabs
    BY DEF Held
  <2> QED BY <1>8, <2>3, <2>4, <2>5
<1>10. f \in [0 .. n -> SUBSET Tabs]
  <2>1. f = [k \in 0 .. n |-> f[k]]
    BY <1>7
  <2> QED BY <1>9, <2>1
<1> QED BY <1>2, <1>8, <1>10 DEF Rounds, n

\* Where Reach starts is part of it.
LEMMA ReachStarts ==
  ASSUME NEW e, NEW S \in SUBSET Tabs
  PROVE  S \subseteq Reach(e, S)
<1> DEFINE n == Cardinality(Tabs)
<1>1. n \in Nat
  BY FS_CardinalityType, DataAssumption
<1>2. PICK f : Rounds(e, S, f) /\ Reach(e, S) = f[n]
  BY ReachRounds
<1> DEFINE Bad == {k \in 0 .. n : ~ (S \subseteq f[k])}
<1>3. Bad = {}
  <2> SUFFICES ASSUME Bad # {} PROVE FALSE
    OBVIOUS
  <2>1. Bad \subseteq Nat
    OBVIOUS
  <2>2. PICK k \in Bad : \A j \in Bad : k <= j
    <3> HIDE DEF Bad
    <3> QED BY <2>1, Least
  <2>3. k # 0
    BY <1>2, <2>2 DEF Rounds
  <2>4. k \in 1 .. n /\ k - 1 \in 0 .. n /\ ~ (k <= k - 1)
    BY <1>1, <2>2, <2>3
  <2>5. S \subseteq f[k - 1]
    BY <2>2, <2>4
  <2> QED BY <1>2, <2>2, <2>4, <2>5 DEF Rounds
<1>4. n \in 0 .. n
  BY <1>1
<1> QED BY <1>2, <1>3, <1>4

\* Tables that hold less reach less.
LEMMA ReachGrows ==
  ASSUME NEW e, NEW g, NEW S \in SUBSET Tabs,
         \A t \in Tabs : g[t] = e[t] \/ g[t] = <<>>
  PROVE  Reach(g, S) \subseteq Reach(e, S)
<1> DEFINE n == Cardinality(Tabs)
<1>1. n \in Nat
  BY FS_CardinalityType, DataAssumption
<1>2. PICK f : Rounds(e, S, f) /\ Reach(e, S) = f[n]
  BY ReachRounds
<1>3. PICK h : Rounds(g, S, h) /\ Reach(g, S) = h[n]
  BY ReachRounds
<1>4. \A A, B \in SUBSET Tabs : A \subseteq B => Held(g, A) \subseteq Held(e, B)
  <2> SUFFICES ASSUME NEW A \in SUBSET Tabs, NEW B \in SUBSET Tabs, A \subseteq B,
                      NEW t \in A, NEW i \in DOMAIN g[t], g[t][i].val \in Tabs
               PROVE  g[t][i].val \in Held(e, B)
    BY DEF Held
  <2>1. g[t] = e[t] /\ t \in B
    OBVIOUS
  <2> QED BY <2>1 DEF Held
<1> DEFINE Bad == {k \in 0 .. n : ~ (h[k] \subseteq f[k])}
<1>5. Bad = {}
  <2> SUFFICES ASSUME Bad # {} PROVE FALSE
    OBVIOUS
  <2>1. Bad \subseteq Nat
    OBVIOUS
  <2>2. PICK k \in Bad : \A j \in Bad : k <= j
    <3> HIDE DEF Bad
    <3> QED BY <2>1, Least
  <2>3. k # 0
    BY <1>2, <1>3, <2>2 DEF Rounds
  <2>4. k \in 1 .. n /\ k - 1 \in 0 .. n /\ ~ (k <= k - 1)
    BY <1>1, <2>2, <2>3
  <2>5. h[k - 1] \subseteq f[k - 1]
    BY <2>2, <2>4
  <2>6. h[k - 1] \in SUBSET Tabs /\ f[k - 1] \in SUBSET Tabs
    BY <1>2, <1>3, <2>4 DEF Rounds
  <2>7. Held(g, h[k - 1]) \subseteq Held(e, f[k - 1])
    BY <1>4, <2>5, <2>6
  <2>8. /\ f[k] = f[k - 1] \cup Held(e, f[k - 1])
        /\ h[k] = h[k - 1] \cup Held(g, h[k - 1])
    BY <1>2, <1>3, <2>4 DEF Rounds
  <2> QED BY <2>2, <2>5, <2>7, <2>8
<1>6. n \in 0 .. n
  BY <1>1
<1> QED BY <1>2, <1>3, <1>5, <1>6

\* Reach takes in what its tables hold: it goes round as often as there are tables,
\* and a round that finds no new one is the last to.
LEMMA ReachClosed ==
  ASSUME NEW e, NEW S \in SUBSET Tabs
  PROVE  Reach(e, S) \in SUBSET Tabs /\ Held(e, Reach(e, S)) \subseteq Reach(e, S)
<1> DEFINE n == Cardinality(Tabs)
<1>1. n \in Nat /\ IsFiniteSet(Tabs)
  BY FS_CardinalityType, DataAssumption
<1>2. PICK f : Rounds(e, S, f) /\ Reach(e, S) = f[n]
  BY ReachRounds
<1>3. \A k \in 0 .. n : f[k] \in SUBSET Tabs
  BY <1>2 DEF Rounds
<1>4. \A k \in 0 .. n : IsFiniteSet(f[k]) /\ Cardinality(f[k]) \in Nat
  BY <1>1, <1>3, FS_Subset, FS_CardinalityType
<1> DEFINE Grows(k) == Held(e, f[k]) \subseteq f[k] \/ Cardinality(f[k]) >= k
           Bad == {k \in 0 .. n : ~Grows(k)}
<1>5. Bad = {}
  <2> SUFFICES ASSUME Bad # {} PROVE FALSE
    OBVIOUS
  <2>1. Bad \subseteq Nat
    OBVIOUS
  <2>2. PICK k \in Bad : \A j \in Bad : k <= j
    <3> HIDE DEF Bad
    <3> QED BY <2>1, Least
  <2>3. k # 0 /\ k \in 0 .. n /\ ~Grows(k)
    BY <1>1, <1>4, <2>2
  <2>4. k \in 1 .. n /\ k - 1 \in 0 .. n /\ ~ (k <= k - 1)
    BY <1>1, <2>3
  <2>5. Grows(k - 1)
    BY <2>2, <2>4
  <2>6. f[k] = f[k - 1] \cup Held(e, f[k - 1])
    BY <1>2, <2>4 DEF Rounds
  <2>7. CASE Held(e, f[k - 1]) \subseteq f[k - 1]
    <3>1. f[k] = f[k - 1]
      BY <2>6, <2>7
    <3> QED BY <2>3, <2>7, <3>1
  <2>8. CASE ~(Held(e, f[k - 1]) \subseteq f[k - 1])
    <3>1. f[k - 1] \in SUBSET f[k] /\ f[k - 1] # f[k]
      BY <2>6, <2>8
    <3>2. /\ Cardinality(f[k - 1]) <= Cardinality(f[k])
          /\ Cardinality(f[k]) # Cardinality(f[k - 1])
      BY <1>4, <2>3, <3>1, FS_Subset
    <3>3. Cardinality(f[k - 1]) >= k - 1
      BY <2>5, <2>8
    <3>4. Cardinality(f[k]) >= k
      <4>1. Cardinality(f[k]) \in Nat /\ Cardinality(f[k - 1]) \in Nat
        BY <1>4, <2>3, <2>4
      <4> QED BY <1>1, <2>3, <3>2, <3>3, <4>1
    <3> QED BY <2>3, <3>4
  <2> QED BY <2>7, <2>8
<1>6. n \in 0 .. n
  BY <1>1
<1>7. Held(e, f[n]) \subseteq f[n]
  <2>1. Grows(n)
    BY <1>5, <1>6
  <2>2. CASE Cardinality(f[n]) >= n
    <3>1. Cardinality(f[n]) <= n /\ (n = Cardinality(f[n]) => Tabs = f[n])
      BY <1>1, <1>3, <1>6, FS_Subset
    <3>2. Tabs = f[n]
      BY <1>1, <1>4, <1>6, <2>2, <3>1
    <3> QED BY <3>2 DEF Held
  <2> QED BY <2>1, <2>2
<1> QED BY <1>2, <1>3, <1>6, <1>7

\* As long as the tables reached stay, they are still reached.
LEMMA ReachKept ==
  ASSUME NEW e, NEW g, NEW S \in SUBSET Tabs, \A t \in Reach(e, S) : g[t] = e[t]
  PROVE  Reach(e, S) \subseteq Reach(g, S)
<1> DEFINE n == Cardinality(Tabs)
<1>1. n \in Nat
  BY FS_CardinalityType, DataAssumption
<1>2. PICK f : Rounds(e, S, f) /\ Reach(e, S) = f[n]
  BY ReachRounds
<1>3. /\ Held(e, Reach(e, S)) \subseteq Reach(e, S) /\ S \subseteq Reach(e, S)
      /\ Held(g, Reach(g, S)) \subseteq Reach(g, S) /\ S \subseteq Reach(g, S)
  BY ReachClosed, ReachStarts
<1> DEFINE Bad == {k \in 0 .. n : ~ (f[k] \subseteq Reach(e, S) /\ f[k] \subseteq Reach(g, S))}
<1>4. Bad = {}
  <2> SUFFICES ASSUME Bad # {} PROVE FALSE
    OBVIOUS
  <2>1. Bad \subseteq Nat
    OBVIOUS
  <2>2. PICK k \in Bad : \A j \in Bad : k <= j
    <3> HIDE DEF Bad
    <3> QED BY <2>1, Least
  <2>3. k # 0
    BY <1>2, <1>3, <2>2 DEF Rounds
  <2>4. k \in 1 .. n /\ k - 1 \in 0 .. n /\ ~ (k <= k - 1)
    BY <1>1, <2>2, <2>3
  <2>5. f[k - 1] \subseteq Reach(e, S) /\ f[k - 1] \subseteq Reach(g, S)
    BY <2>2, <2>4
  <2>6. f[k] = f[k - 1] \cup Held(e, f[k - 1])
    BY <1>2, <2>4 DEF Rounds
  <2>7. Held(e, f[k - 1]) \subseteq Reach(e, S)
    <3>1. Held(e, f[k - 1]) \subseteq Held(e, Reach(e, S))
      BY <2>5 DEF Held
    <3> QED BY <1>3, <3>1
  <2>8. Held(e, f[k - 1]) \subseteq Reach(g, S)
    <3>1. Held(e, f[k - 1]) \subseteq Held(g, Reach(g, S))
      BY <2>5 DEF Held
    <3> QED BY <1>3, <3>1
  <2> QED BY <2>2, <2>5, <2>6, <2>7, <2>8
<1>5. n \in 0 .. n
  BY <1>1
<1> QED BY <1>2, <1>4, <1>5

\* An object refers to a table in use.
LEMMA UsedFrom ==
  ASSUME NEW e, NEW objs \in [Objs -> Object], NEW v \in Tabs
  PROVE  /\ v \in Used(e, objs, v)
         /\ \A o \in Objs : objs[o].tab # NULL => objs[o].tab \in Used(e, objs, v)
<1> DEFINE S == {v} \cup ({objs[o].tab : o \in Objs} \ {NULL})
<1>1. S \in SUBSET Tabs
  BY DEF Object
<1>2. S \subseteq Reach(e, S)
  BY <1>1, ReachStarts
<1> QED BY <1>2 DEF Used

\* Only tables are in use.
LEMMA UsedAreTabs ==
  ASSUME NEW e, NEW objs \in [Objs -> Object], NEW v \in Tabs
  PROVE  Used(e, objs, v) \subseteq Tabs
<1> DEFINE S == {v} \cup ({objs[o].tab : o \in Objs} \ {NULL})
<1>1. S \in SUBSET Tabs
  BY DEF Object
<1>2. Reach(e, S) \subseteq Tabs
  BY <1>1, ReachClosed
<1> QED BY <1>2 DEF Used

\* After Become the tables in use are as given, and no other is in use.
LEMMA BecomeIs ==
  ASSUME NEW e, NEW p, Tables(e, p), NEW objs \in [Objs -> Object], NEW v \in Tabs,
         NEW S, Become(e, p, objs, v, S)
  PROVE  /\ Tables(ent', pos') /\ obj' = objs /\ var' = v /\ alive' = alive
         /\ \A o \in Objs : objs[o].tab # NULL =>
              ent'[objs[o].tab] = e[objs[o].tab] /\ pos'[objs[o].tab] = p[objs[o].tab]
         /\ \A t \in Tabs : t \in Used(ent, obj, var)' => ent'[t] = e[t]
<1> DEFINE used == Used(e, objs, v)
           R == {v} \cup ({objs[o].tab : o \in Objs} \ {NULL})
<1>1. /\ ent' = [t \in Tabs |-> IF t \in used THEN e[t] ELSE <<>>]
      /\ pos' = [t \in Tabs |-> IF t \in used THEN p[t] ELSE 0]
      /\ obj' = objs /\ var' = v /\ alive' = alive
  BY DEF Become
<1>2. \A o \in Objs : objs[o].tab # NULL => objs[o].tab \in used /\ objs[o].tab \in Tabs
  BY UsedFrom DEF Object
<1>3. R \in SUBSET Tabs
  BY DEF Object
<1>4. used = Reach(e, R) /\ Used(ent, obj, var)' = Reach(ent', R)
  BY <1>1 DEF Used
<1> HIDE DEF used, R
<1>5. \A t \in Tabs : ent'[t] = e[t] \/ ent'[t] = <<>>
  BY <1>1
<1>6. Reach(ent', R) \subseteq Reach(e, R)
  BY <1>3, <1>5, ReachGrows
<1>7. Tables(ent', pos')
  <2>1. ent' \in [Tabs -> Seq(Entry)] /\ pos' \in [Tabs -> Nat]
    BY <1>1 DEF Tables
  <2>2. ASSUME NEW t \in Tabs
        PROVE  /\ \A i, j \in DOMAIN ent'[t] : ent'[t][i].key = ent'[t][j].key => i = j
               /\ pos'[t] \in {0} \cup DOMAIN ent'[t]
    <3>1. CASE t \in used
      <4>1. ent'[t] = e[t] /\ pos'[t] = p[t]
        BY <1>1, <3>1
      <4> QED BY <4>1 DEF Tables
    <3>2. CASE t \notin used
      <4>1. ent'[t] = <<>> /\ pos'[t] = 0 /\ DOMAIN ent'[t] = {}
        BY <1>1, <3>2
      <4> QED BY <4>1
    <3> QED BY <3>1, <3>2
  <2> QED BY <2>1, <2>2 DEF Tables
<1> QED BY <1>1, <1>2, <1>4, <1>6, <1>7

--------------------------------------------------------------------------------
(* Entries.                                                                *)

\* The place of a key in the entries s, or 0.
PlaceIn(s, k) ==
  IF k \in {s[i].key : i \in DOMAIN s} THEN CHOOSE i \in DOMAIN s : s[i].key = k ELSE 0

Unique(s) == \A i, j \in DOMAIN s : s[i].key = s[j].key => i = j

\* A key is at its place, and the place of a key that is not there is 0.
LEMMA PlaceFound ==
  ASSUME NEW s \in Seq(Entry), Unique(s), NEW k
  PROVE  /\ \A i \in DOMAIN s : s[i].key = k => PlaceIn(s, k) = i
         /\ PlaceIn(s, k) # 0 => PlaceIn(s, k) \in DOMAIN s /\ s[PlaceIn(s, k)].key = k
         /\ PlaceIn(s, k) = 0 => \A i \in DOMAIN s : s[i].key # k
<1>0. \A i \in DOMAIN s : i # 0
  OBVIOUS
<1>1. CASE k \in {s[i].key : i \in DOMAIN s}
  <2>1. PlaceIn(s, k) = CHOOSE i \in DOMAIN s : s[i].key = k
    BY <1>1 DEF PlaceIn
  <2>2. PlaceIn(s, k) \in DOMAIN s /\ s[PlaceIn(s, k)].key = k
    BY <1>1, <2>1
  <2> QED BY <1>0, <2>2 DEF Unique
<1>2. CASE k \notin {s[i].key : i \in DOMAIN s}
  <2>1. PlaceIn(s, k) = 0
    BY <1>2 DEF PlaceIn
  <2> QED BY <1>2, <2>1
<1> QED BY <1>1, <1>2

\* r has what s has at key k.
Agree(s, r, k) ==
  /\ \A i \in DOMAIN s : s[i].key = k => \E j \in DOMAIN r : r[j] = s[i]
  /\ \A j \in DOMAIN r : r[j].key = k => \E i \in DOMAIN s : s[i] = r[j]

\* What get finds in s.
Found(s, k) == IF PlaceIn(s, k) = 0 THEN NULL ELSE s[PlaceIn(s, k)].val

\* Then a key is found alike in both.
LEMMA AgreeFound ==
  ASSUME NEW s \in Seq(Entry), NEW r \in Seq(Entry), Unique(s), Unique(r), NEW k, Agree(s, r, k)
  PROVE  /\ Found(s, k) = Found(r, k)
         /\ PlaceIn(s, k) = 0 <=> PlaceIn(r, k) = 0
<1>1. CASE PlaceIn(s, k) = 0
  <2>1. \A i \in DOMAIN s : s[i].key # k
    BY <1>1, PlaceFound
  <2>2. \A j \in DOMAIN r : r[j].key # k
    BY <2>1 DEF Agree
  <2>3. PlaceIn(r, k) = 0
    BY <2>2, PlaceFound
  <2> QED BY <1>1, <2>3 DEF Found
<1>2. CASE PlaceIn(s, k) # 0
  <2>1. PlaceIn(s, k) \in DOMAIN s /\ s[PlaceIn(s, k)].key = k
    BY <1>2, PlaceFound
  <2>2. PICK j \in DOMAIN r : r[j] = s[PlaceIn(s, k)]
    BY <2>1 DEF Agree
  <2>3. r[j].key = k
    BY <2>1, <2>2
  <2>4. PlaceIn(r, k) = j /\ j # 0
    BY <2>3, PlaceFound
  <2> QED BY <1>2, <2>2, <2>4 DEF Found
<1> QED BY <1>1, <1>2

\* s with a value set at key k: r, where each entry of s keeps its place.
Updated(s, r, k, v) ==
  /\ r \in Seq(Entry) /\ Unique(r) /\ Len(s) <= Len(r)
  /\ \A i \in DOMAIN s : r[i].key = s[i].key
  /\ \E j \in DOMAIN r : r[j] = [key |-> k, val |-> v]
  /\ \A m \in Keys : m # k => Agree(s, r, m)

\* zend_hash_update of a key that is there.
LEMMA UpdatedInPlace ==
  ASSUME NEW s \in Seq(Entry), Unique(s), NEW i \in DOMAIN s, NEW v \in Values
  PROVE  Updated(s, [s EXCEPT ![i].val = v], s[i].key, v)
<1> DEFINE r == [s EXCEPT ![i].val = v]
<1>1. s[i] \in Entry /\ \A j \in DOMAIN s : s[j] \in Entry
  BY ElementOfSeq
<1>2. [s[i] EXCEPT !.val = v] = [key |-> s[i].key, val |-> v]
  BY <1>1 DEF Entry
<1>3. /\ DOMAIN r = DOMAIN s /\ r[i] = [key |-> s[i].key, val |-> v]
      /\ \A j \in DOMAIN s : j # i => r[j] = s[j]
  BY <1>2
<1>4. [key |-> s[i].key, val |-> v] \in Entry
  BY <1>1 DEF Entry
<1>5. r \in Seq(Entry) /\ Len(r) = Len(s)
  BY <1>2, <1>4, ExceptSeq
<1> HIDE DEF r
<1>6. \A j \in DOMAIN s : r[j].key = s[j].key
  BY <1>3
<1>7. Unique(r)
  BY <1>3, <1>6 DEF Unique
<1>8. \A m \in Keys : m # s[i].key => Agree(s, r, m)
  BY <1>3 DEF Agree
<1>9. i \in DOMAIN r /\ Len(s) <= Len(r)
  BY <1>3, <1>5, LenProperties
<1>10. Updated(s, r, s[i].key, v)
  BY <1>3, <1>5, <1>6, <1>7, <1>8, <1>9 DEF Updated
<1> QED BY <1>10 DEF r

\* zend_hash_update of a key that is not there.
LEMMA UpdatedAtEnd ==
  ASSUME NEW s \in Seq(Entry), Unique(s), NEW k \in Keys, NEW v \in Values,
         \A i \in DOMAIN s : s[i].key # k
  PROVE  Updated(s, Append(s, [key |-> k, val |-> v]), k, v)
<1> DEFINE e == [key |-> k, val |-> v]
           r == Append(s, e)
<1>0. e \in Entry /\ e.key = k
  BY DEF Entry
<1> HIDE DEF e
<1>1. /\ r \in Seq(Entry) /\ Len(r) = Len(s) + 1 /\ r[Len(s) + 1] = e
      /\ \A i \in 1 .. Len(s) : r[i] = s[i]
  BY <1>0, AppendProperties
<1>2. /\ DOMAIN s = 1 .. Len(s) /\ DOMAIN r = 1 .. Len(s) + 1 /\ Len(s) \in Nat
  BY <1>1, LenProperties
<1> HIDE DEF r
<1>3. \A j \in DOMAIN r : j \in DOMAIN s \/ j = Len(s) + 1
  BY <1>2
<1>4. \A j \in DOMAIN s : j \in DOMAIN r /\ r[j] = s[j]
  BY <1>1, <1>2
<1>5. Unique(r)
  <2> SUFFICES ASSUME NEW i \in DOMAIN r, NEW j \in DOMAIN r, r[i].key = r[j].key PROVE i = j
    BY DEF Unique
  <2> QED BY <1>0, <1>1, <1>3, <1>4 DEF Unique
<1>6. \A m \in Keys : m # k => Agree(s, r, m)
  BY <1>0, <1>1, <1>3, <1>4 DEF Agree
<1>7. Len(s) + 1 \in DOMAIN r /\ Len(s) <= Len(r)
  BY <1>1, <1>2
<1> QED BY <1>1, <1>4, <1>5, <1>6, <1>7 DEF Updated, r, e

\* s without its entry i: r.
Shortened(s, r, i) ==
  /\ r \in Seq(Entry) /\ Unique(r) /\ Len(r) = Len(s) - 1
  /\ \A j \in DOMAIN r : r[j] = IF j < i THEN s[j] ELSE s[j + 1]
  /\ \A j \in DOMAIN r : r[j].key # s[i].key
  /\ \A m \in Keys : m # s[i].key => Agree(s, r, m)

\* zend_hash_del.
LEMMA UnsetShortens ==
  ASSUME NEW s \in Seq(Entry), Unique(s), NEW i \in DOMAIN s
  PROVE  Shortened(s, SubSeq(s, 1, i - 1) \o SubSeq(s, i + 1, Len(s)), i)
<1> DEFINE r == SubSeq(s, 1, i - 1) \o SubSeq(s, i + 1, Len(s))
<1>0. i \in 1 .. Len(s) /\ DOMAIN s = 1 .. Len(s) /\ Len(s) \in Nat
  BY LenProperties
<1>1. r = RemoveAt(s, i)
  BY DEF RemoveAt
<1>2. /\ r \in Seq(Entry) /\ Len(r) = Len(s) - 1
      /\ \A j \in 1 .. Len(s) - 1 : r[j] = IF j < i THEN s[j] ELSE s[j + 1]
  BY <1>0, <1>1, RemoveAtProperties
<1>3. DOMAIN r = 1 .. Len(s) - 1
  BY <1>2, LenProperties
<1> HIDE DEF r
<1> DEFINE from(j) == IF j < i THEN j ELSE j + 1
<1>4. \A j \in DOMAIN r : from(j) \in DOMAIN s /\ from(j) # i /\ r[j] = s[from(j)]
  BY <1>0, <1>2, <1>3
<1>5. \A j, k \in DOMAIN r : from(j) = from(k) => j = k
  BY <1>0, <1>3
<1>6. \A j \in DOMAIN s : j # i => \E k \in DOMAIN r : from(k) = j
  <2> SUFFICES ASSUME NEW j \in DOMAIN s, j # i PROVE \E k \in DOMAIN r : from(k) = j
    OBVIOUS
  <2>1. CASE j < i
    BY <1>0, <1>3, <2>1
  <2>2. CASE j > i
    <3>1. j - 1 \in DOMAIN r /\ from(j - 1) = j
      BY <1>0, <1>3, <2>2
    <3> QED BY <3>1
  <2> QED BY <1>0, <2>1, <2>2
<1> HIDE DEF from
<1>7. Unique(r)
  BY <1>4, <1>5 DEF Unique
<1>8. \A j \in DOMAIN r : r[j].key # s[i].key
  BY <1>4 DEF Unique
<1>9. \A m \in Keys : m # s[i].key => Agree(s, r, m)
  <2> SUFFICES ASSUME NEW m \in Keys, m # s[i].key PROVE Agree(s, r, m)
    OBVIOUS
  <2>1. \A j \in DOMAIN s : s[j].key = m => \E k \in DOMAIN r : r[k] = s[j]
    BY <1>4, <1>6
  <2> QED BY <1>4, <2>1 DEF Agree
<1> QED BY <1>2, <1>3, <1>7, <1>8, <1>9 DEF Shortened, r
--------------------------------------------------------------------------------
(* The steps.                                                              *)

\* The tables are such, as far as they are typed.
LEMMA TypedTables == DataTypeOK => Tables(ent, pos)
BY DEF DataTypeOK, Tables, Entry

\* A foreach under way has a table, and is owed what is ahead of the pointer.
Owing ==
  loop.obj # NULL =>
    LET t == obj[loop.obj].tab
    IN /\ obj[loop.obj].up /\ t # NULL
       /\ \A k \in loop.owed : pos[t] # 0 /\ \E i \in DOMAIN ent[t] : ent[t][i].key = k /\ i >= pos[t]

\* The tables A are all that the objects objs may write to, at any depth.
Covers(A, e, objs) ==
  /\ A \subseteq Tabs /\ Held(e, A) \subseteq A
  /\ \A o \in Objs : objs[o].tab # NULL /\ ~objs[o].ro => objs[o].tab \in A

\* What the script asked for covers its objects, and is in use.
Allowed == Covers(asked, ent, obj) /\ asked \subseteq Used(ent, obj, var)

DataInv == DataTypeOK /\ Owing /\ Allowed

\* It does after a step, if what is asked for covers the objects then.
LEMMA AllowedAfter ==
  ASSUME NEW e, NEW p, Tables(e, p), NEW objs \in [Objs -> Object], NEW v \in Tabs,
         NEW S, Become(e, p, objs, v, S), Covers(asked \cup S, e, objs)
  PROVE  Allowed'
<1> DEFINE used == Used(e, objs, v)
           R == {v} \cup ({objs[o].tab : o \in Objs} \ {NULL})
<1>1. /\ ent' = [t \in Tabs |-> IF t \in used THEN e[t] ELSE <<>>]
      /\ obj' = objs /\ var' = v /\ asked' = (asked \cup S) \cap used
  BY DEF Become
<1>2. R \in SUBSET Tabs
  BY DEF Object
<1>3. used = Reach(e, R) /\ Used(ent, obj, var)' = Reach(ent', R)
  BY <1>1 DEF Used
<1> HIDE DEF used, R
<1>4. used \subseteq Tabs /\ Held(e, used) \subseteq used
  BY <1>2, <1>3, ReachClosed
<1>5. \A t \in used : ent'[t] = e[t]
  BY <1>1, <1>4
<1>6. asked' \subseteq Used(ent, obj, var)'
  BY <1>1, <1>2, <1>3, <1>5, ReachKept
<1>7. Held(ent', asked') \subseteq asked'
  <2>1. Held(ent', asked') \subseteq Held(e, asked \cup S) /\ Held(ent', asked') \subseteq Held(e, used)
    BY <1>1, <1>5 DEF Held
  <2> QED BY <1>1, <1>4, <2>1 DEF Covers
<1>8. \A o \in Objs : objs[o].tab # NULL => objs[o].tab \in used
  BY UsedFrom DEF used
<1> QED BY <1>1, <1>4, <1>6, <1>7, <1>8 DEF Allowed, Covers

\* What a script may write to covers what it did, and the table it asks for.
LEMMA WritableCovers ==
  ASSUME DataTypeOK, Allowed, NEW t \in Tabs, NEW ro \in BOOLEAN
  PROVE  /\ Covers(asked \cup Writable(t, ro), ent, obj)
         /\ ro \/ t \in Writable(t, ro)
<1>1. /\ Reach(ent, {t}) \in SUBSET Tabs /\ Held(ent, Reach(ent, {t})) \subseteq Reach(ent, {t})
      /\ t \in Reach(ent, {t})
  BY ReachClosed, ReachStarts
<1>2. /\ Writable(t, ro) \in SUBSET Tabs /\ Held(ent, Writable(t, ro)) \subseteq Writable(t, ro)
      /\ ro \/ t \in Writable(t, ro)
  <2>1. Held(ent, {}) = {}
    BY DEF Held
  <2> QED BY <1>1, <2>1 DEF Writable
<1>3. Held(ent, asked \cup Writable(t, ro)) = Held(ent, asked) \cup Held(ent, Writable(t, ro))
  BY DEF Held
<1> QED BY <1>2, <1>3 DEF Allowed, Covers

\* No table in use changes, before or after.
SameTables == \A t \in Lasting : ent'[t] = ent[t]

\* A foreach that goes on after the step finds its object and its table as they were.
LoopKept ==
  \/ loop' = NoLoop
  \/ /\ loop' = loop
     /\ loop.obj # NULL =>
          LET t == obj[loop.obj].tab
          IN obj'[loop.obj] = obj[loop.obj] /\ ent'[t] = ent[t] /\ pos'[t] = pos[t]

\* Then it is owed what it was.
LEMMA OwingKept == DataTypeOK /\ Owing /\ LoopKept => Owing'
<1> SUFFICES ASSUME DataTypeOK, Owing, LoopKept, loop'.obj # NULL PROVE Owing'
  BY DEF Owing
<1>1. loop' = loop /\ loop.obj # NULL
  BY DEF LoopKept, NoLoop
<1>2. /\ obj'[loop.obj] = obj[loop.obj]
      /\ ent'[obj[loop.obj].tab] = ent[obj[loop.obj].tab]
      /\ pos'[obj[loop.obj].tab] = pos[obj[loop.obj].tab]
  BY <1>1 DEF LoopKept, NoLoop
<1> QED BY <1>1, <1>2 DEF Owing

\* The objects become these, and so does what the script's variable refers to.
Rebound(objs) ==
  /\ objs \in [Objs -> Object]
  /\ \A o \in Objs : objs[o] # obj[o] => loop'.obj # o

\* What steps that leave the tables alone have in common.
Alike == DataTypeOK' /\ Owing' /\ Allowed' /\ SameTables

\* Steps that only make, change or forget objects.
LEMMA ObjectStep ==
  ASSUME DataInv, NEW objs, Rebound(objs), NEW S, Become(ent, pos, objs, var, S),
         Covers(asked \cup S, ent, objs), loop' = loop \/ loop' = NoLoop
  PROVE  Alike
<1>1. Tables(ent, pos) /\ var \in Tabs /\ objs \in [Objs -> Object] /\ alive \in BOOLEAN
      /\ loop \in [obj : Objs \cup {NULL}, owed : SUBSET Keys]
  BY TypedTables DEF DataInv, DataTypeOK, Rebound
<1>2. /\ Tables(ent', pos') /\ obj' = objs /\ var' = var /\ alive' = alive
      /\ \A o \in Objs : objs[o].tab # NULL =>
           ent'[objs[o].tab] = ent[objs[o].tab] /\ pos'[objs[o].tab] = pos[objs[o].tab]
      /\ \A t \in Tabs : t \in Used(ent, obj, var)' => ent'[t] = ent[t]
  BY <1>1, BecomeIs
<1>6. Allowed'
  BY <1>1, AllowedAfter
<1>3. DataTypeOK'
  <2>1. loop' \in [obj : Objs \cup {NULL}, owed : SUBSET Keys]
    BY <1>1 DEF NoLoop
  <2>2. asked' \subseteq Tabs
    BY <1>6 DEF Allowed, Covers
  <2> QED BY <1>1, <1>2, <2>1, <2>2 DEF DataTypeOK, Tables, Entry
<1>4. LoopKept
  <2> SUFFICES ASSUME loop' = loop, loop.obj # NULL PROVE LoopKept
    BY DEF LoopKept
  <2>1. loop.obj \in Objs
    BY <1>1
  <2>2. objs[loop.obj] = obj[loop.obj] /\ obj[loop.obj].tab # NULL
    BY <2>1 DEF Rebound, DataInv, Owing
  <2> QED BY <1>2, <2>1, <2>2 DEF LoopKept
<1>5. Owing'
  BY <1>4, OwingKept DEF DataInv
<1>7. SameTables
  <2>1. Lasting \subseteq Tabs
    <3>1. Lasting \subseteq Used(ent, obj, var)
      BY DEF Lasting
    <3> QED BY <1>1, <3>1, UsedAreTabs DEF DataInv, DataTypeOK
  <2> QED BY <1>2, <2>1 DEF SameTables, Lasting
<1> QED BY <1>3, <1>5, <1>6, <1>7 DEF Alike

\* An object made or changed is one.
Anew(objs, o, t, ro) ==
  /\ objs \in [Objs -> Object] /\ objs[o].tab = t /\ objs[o].ro = ro
  /\ \A q \in Objs : q # o => objs[q] = obj[q]

LEMMA Instanced ==
  ASSUME DataTypeOK, NEW o \in Objs, NEW t \in Tabs \cup {NULL}, NEW ro \in BOOLEAN
  PROVE  Anew(Instance(o, t, ro), o, t, ro)
BY DEF DataTypeOK, Instance, Object, Anew

\* What the types say of an object and the loop.
LEMMA KnownObject ==
  ASSUME DataTypeOK, NEW o \in Objs
  PROVE  /\ obj \in [Objs -> Object] /\ var \in Tabs /\ asked \subseteq Tabs
         /\ loop.obj \in Objs \cup {NULL} /\ loop.owed \subseteq Keys
         /\ obj[o].ro \in BOOLEAN /\ obj[o].tab \in Tabs \cup {NULL}
<1>1. obj \in [Objs -> Object] /\ var \in Tabs /\ asked \subseteq Tabs
      /\ loop \in [obj : Objs \cup {NULL}, owed : SUBSET Keys]
  BY DEF DataTypeOK
<1>2. obj[o] \in Object
  BY <1>1
<1> QED BY <1>1, <1>2 DEF Object

\* The constructors, and the destructor.
LEMMA ObjectsMade ==
  ASSUME DataInv, NEW o \in Objs,
         \/ \E given, ro \in BOOLEAN : Construct(o, given, ro)
         \/ ConstructEmpty(o) \/ ConstructRefused(o) \/ Forget(o)
  PROVE  Alike
<1>a. DataTypeOK /\ Owing /\ Allowed
  BY DEF DataInv
<1>0. /\ DataTypeOK /\ Owing /\ Allowed /\ obj \in [Objs -> Object] /\ var \in Tabs
      /\ asked \subseteq Tabs /\ loop.obj \in Objs \cup {NULL} /\ obj[o].ro \in BOOLEAN
  BY <1>a, KnownObject, Zenon
<1>1. ASSUME NEW t \in Tabs, NEW ro \in BOOLEAN,
             Become(ent, pos, Instance(o, t, ro), var, Writable(t, ro)), Renewed(o)
      PROVE  Alike
  <2> DEFINE objs == Instance(o, t, ro)
  <2>1. /\ objs \in [Objs -> Object] /\ objs[o].ro = ro /\ objs[o].tab = t
        /\ \A q \in Objs : q # o => objs[q] = obj[q]
    <3>1. Anew(Instance(o, t, ro), o, t, ro)
      BY <1>0, Instanced
    <3> QED BY <3>1 DEF Anew
  <2>2. (loop' = loop \/ loop' = NoLoop) /\ loop'.obj # o
    BY <1>1, DataAssumption DEF Renewed, NoLoop
  <2>3. Become(ent, pos, objs, var, Writable(t, ro))
    BY <1>1
  <2> HIDE DEF objs
  <2>4. Rebound(objs)
    BY <1>0, <2>1, <2>2 DEF Rebound
  <2>5. Covers(asked \cup Writable(t, ro), ent, objs)
    BY <1>0, <2>1, WritableCovers DEF Covers
  <2> QED BY <2>2, <2>3, <2>4, <2>5, ObjectStep
<1>2. ASSUME NEW given \in BOOLEAN, NEW ro \in BOOLEAN, Construct(o, given, ro) PROVE Alike
  <2> DEFINE flag == IF given THEN ro ELSE obj[o].ro
  <2>1. Become(ent, pos, Instance(o, var, flag), var, Writable(var, flag)) /\ Renewed(o)
    BY <1>2 DEF Construct
  <2>2. flag \in BOOLEAN
    BY <1>0
  <2> HIDE DEF flag
  <2> QED BY <1>0, <1>1, <2>1, <2>2
<1>3. CASE ConstructEmpty(o)
  <2>1. NewTab \in Tabs
    BY <1>3 DEF ConstructEmpty, NewTab, Unused
  <2> QED BY <1>0, <1>1, <1>3, <2>1 DEF ConstructEmpty
<1>4. CASE ConstructRefused(o)
  <2> DEFINE objs == Instance(o, NULL, FALSE)
  <2>1. /\ objs \in [Objs -> Object] /\ objs[o].tab = NULL
        /\ \A q \in Objs : q # o => objs[q] = obj[q]
    <3>1. Anew(Instance(o, NULL, FALSE), o, NULL, FALSE)
      BY <1>0, Instanced
    <3> QED BY <3>1 DEF Anew
  <2>2. Become(ent, pos, objs, var, {}) /\ loop' = loop /\ ~obj[o].up
    BY <1>4 DEF ConstructRefused
  <2> HIDE DEF objs
  <2>3. loop.obj # o
    BY <1>0, <2>2, DataAssumption DEF Owing
  <2>4. Rebound(objs)
    BY <1>0, <2>1, <2>2, <2>3 DEF Rebound
  <2>5. Covers(asked \cup {}, ent, objs)
    BY <1>0, <2>1 DEF Allowed, Covers
  <2> QED BY <1>0, <2>2, <2>4, <2>5, ObjectStep
<1>5. CASE Forget(o)
  <2> DEFINE objs == [obj EXCEPT ![o] = NoObject]
  <2>1. /\ objs \in [Objs -> Object] /\ objs[o].tab = NULL
        /\ \A q \in Objs : q # o => objs[q] = obj[q]
    BY <1>0 DEF NoObject, Object
  <2>2. Become(ent, pos, objs, var, {}) /\ Renewed(o)
    BY <1>5 DEF Forget
  <2>3. (loop' = loop \/ loop' = NoLoop) /\ loop'.obj # o
    BY <2>2, DataAssumption DEF Renewed, NoLoop
  <2> HIDE DEF objs
  <2>4. Rebound(objs)
    BY <1>0, <2>1, <2>2, <2>3 DEF Rebound
  <2>5. Covers(asked \cup {}, ent, objs)
    BY <1>0, <2>1 DEF Allowed, Covers
  <2> QED BY <1>0, <2>2, <2>3, <2>4, <2>5, ObjectStep
<1> QED BY <1>2, <1>3, <1>4, <1>5

\* What a name is bound to is a value.
LEMMA EntryAt ==
  ASSUME Tables(ent, pos), NEW t \in Tabs, NEW i \in DOMAIN ent[t]
  PROVE  ent[t][i] \in Entry
<1>1. ent[t] \in Seq(Entry)
  BY DEF Tables
<1> QED BY <1>1, ElementOfSeq

\* The methods whose answer is an object.
LEMMA ObjectsGiven ==
  ASSUME DataInv, NEW o \in Objs, NEW o2 \in Objs,
         \/ Current(o, o2)
         \/ \E name \in Names : Get(o, o2, name) \/ GetDefault(o, o2, name)
  PROVE  Alike
<1>a. DataTypeOK /\ Owing /\ Allowed
  BY DEF DataInv
<1>0. /\ DataTypeOK /\ Owing /\ Allowed /\ obj \in [Objs -> Object] /\ var \in Tabs
      /\ asked \subseteq Tabs /\ loop.obj \in Objs \cup {NULL} /\ obj[o].ro \in BOOLEAN
  BY <1>a, KnownObject, Zenon
<1>1. ASSUME NEW t \in Tabs, NEW S, Works(o), Format(o, o2, t, S), Covers(asked \cup S, ent, obj),
             obj[o].ro \/ t \in asked \cup S
      PROVE  Alike
  <2> DEFINE objs == Instance(o2, t, FlagOf(o))
  <2>2. FlagOf(o) = obj[o].ro /\ obj[o].tab # NULL
    BY <1>1 DEF FlagOf, Works
  <2>3. /\ objs \in [Objs -> Object] /\ objs[o2].ro = obj[o].ro /\ objs[o2].tab = t
        /\ \A q \in Objs : q # o2 => objs[q] = obj[q]
    <3>1. Anew(Instance(o2, t, FlagOf(o)), o2, t, FlagOf(o))
      BY <1>0, <2>2, Instanced
    <3> QED BY <2>2, <3>1 DEF Anew
  <2>4. Become(ent, pos, objs, var, S) /\ loop' = loop /\ ~obj[o2].up
    BY <1>1 DEF Format
  <2> HIDE DEF objs
  <2>5. loop.obj # o2
    BY <1>0, <2>4, DataAssumption DEF Owing
  <2>6. Rebound(objs)
    BY <1>0, <2>3, <2>4, <2>5 DEF Rebound
  <2>7. Covers(asked \cup S, ent, objs)
    BY <1>1, <2>3 DEF Covers
  <2> QED BY <1>0, <2>4, <2>6, <2>7, ObjectStep
\* A table in that of o is one o may write to, if it may write at all.
<1>2. ASSUME NEW t \in Tabs, NEW i \in DOMAIN ent[obj[o].tab], ent[obj[o].tab][i].val = t,
             Works(o), Format(o, o2, t, {})
      PROVE  Alike
  <2>1. Covers(asked \cup {}, ent, obj)
    BY <1>0 DEF Allowed
  <2>2. ASSUME ~obj[o].ro PROVE t \in asked
    <3>1. obj[o].tab \in asked
      BY <1>0, <1>2, <2>2 DEF Allowed, Covers, Works
    <3>2. t \in Held(ent, asked)
      BY <1>2, <3>1 DEF Held
    <3> QED BY <1>0, <3>2 DEF Allowed, Covers
  <2> QED BY <1>1, <1>2, <2>1, <2>2
<1>3. Tables(ent, pos) /\ obj[o].tab \in Tabs \cup {NULL}
  BY <1>0, TypedTables, KnownObject
<1>4. CASE Current(o, o2)
  <2>1. pos[obj[o].tab] \in DOMAIN ent[obj[o].tab]
    BY <1>3, <1>4 DEF Current, Works, Tables
  <2> QED BY <1>2, <1>4, <2>1 DEF Current
<1>5. ASSUME NEW name \in Names, Get(o, o2, name) PROVE Alike
  <2>1. Works(o) /\ Lookup(obj[o].tab, name) \in Tabs
    BY <1>5 DEF Get
  <2> DEFINE i == Place(obj[o].tab, GetKey(name))
  <2>2. Lookup(obj[o].tab, name) = IF i = 0 THEN NULL ELSE ent[obj[o].tab][i].val
    BY DEF Lookup
  <2>3. i # 0 /\ ent[obj[o].tab][i].val = Lookup(obj[o].tab, name)
    BY <2>1, <2>2, DataAssumption
  <2>4. i \in DOMAIN ent[obj[o].tab]
    <3>1. ent[obj[o].tab] \in Seq(Entry) /\ Unique(ent[obj[o].tab])
      BY <1>3, <2>1 DEF Tables, Unique, Works
    <3>2. Place(obj[o].tab, GetKey(name)) = PlaceIn(ent[obj[o].tab], GetKey(name))
      BY DEF Place, PlaceIn, KeysOf
    <3> QED BY <2>3, <3>1, <3>2, PlaceFound
  <2> HIDE DEF i
  <2> QED BY <1>2, <1>5, <2>1, <2>3, <2>4 DEF Get
<1>6. ASSUME NEW name \in Names, GetDefault(o, o2, name) PROVE Alike
  <2>1. Works(o) /\ Format(o, o2, var, Writable(var, obj[o].ro))
    BY <1>6 DEF GetDefault
  <2>2. Covers(asked \cup Writable(var, obj[o].ro), ent, obj) /\ (obj[o].ro \/ var \in Writable(var, obj[o].ro))
    BY <1>0, WritableCovers
  <2> QED BY <1>0, <1>1, <2>1, <2>2
<1> QED BY <1>4, <1>5, <1>6

\* $var = $o->to_array().
LEMMA ArrayCopied ==
  ASSUME DataInv, NEW o \in Objs, ToArray(o)
  PROVE  Alike
<1>a. DataTypeOK /\ Owing /\ Allowed
  BY DEF DataInv
<1>0. /\ obj \in [Objs -> Object] /\ var \in Tabs /\ asked \subseteq Tabs /\ alive \in BOOLEAN
      /\ loop \in [obj : Objs \cup {NULL}, owed : SUBSET Keys]
      /\ Tables(ent, pos) /\ obj[o].tab \in Tabs \cup {NULL}
  BY <1>a, TypedTables, KnownObject DEF DataTypeOK
<1>1. NewTab \in Tabs /\ NewTab \notin Used(ent, obj, var)
  BY DEF ToArray, NewTab, Unused
<1>2. PICK n \in Tabs : n = NewTab
  BY <1>1
<1>3. PICK t \in Tabs : t = obj[o].tab
  BY <1>0 DEF ToArray, Works
<1> DEFINE q == IF pos[t] = 0 /\ ent[t] # <<>> THEN 1 ELSE pos[t]
           e == [ent EXCEPT ![n] = ent[t]]
           p == [pos EXCEPT ![n] = q]
<1>4. Become(e, p, obj, n, {}) /\ loop' = loop
  BY <1>2, <1>3 DEF ToArray
<1>5. /\ ent[t] \in Seq(Entry) /\ pos[t] \in {0} \cup DOMAIN ent[t] /\ pos[t] \in Nat
  BY <1>0 DEF Tables
<1>6. q \in {0} \cup DOMAIN ent[t] /\ q \in Nat
  <2>1. CASE pos[t] = 0 /\ ent[t] # <<>>
    <3>1. 1 \in 1 .. Len(ent[t])
      BY <1>5, <2>1, EmptySeq, LenProperties
    <3> QED BY <1>5, <2>1, <3>1, LenProperties
  <2>2. CASE ~(pos[t] = 0 /\ ent[t] # <<>>)
    BY <1>5, <2>2
  <2> QED BY <2>1, <2>2
<1> HIDE DEF q
<1>7. Tables(e, p)
  BY <1>0, <1>5, <1>6 DEF Tables
<1>8. \A u \in Tabs : u # n => e[u] = ent[u] /\ p[u] = pos[u]
  BY <1>0 DEF Tables
<1> HIDE DEF e, p
<1>9. /\ Tables(ent', pos') /\ obj' = obj /\ var' = n /\ alive' = alive
      /\ \A u \in Objs : obj[u].tab # NULL =>
           ent'[obj[u].tab] = e[obj[u].tab] /\ pos'[obj[u].tab] = p[obj[u].tab]
      /\ \A u \in Tabs : u \in Used(ent, obj, var)' => ent'[u] = e[u]
  BY <1>0, <1>4, <1>7, BecomeIs
<1>14. Allowed'
  <2>1. n \notin asked /\ asked \subseteq Tabs
    BY <1>a, <1>0, <1>1, <1>2 DEF Allowed
  <2>2. Held(e, asked) = Held(ent, asked)
    BY <1>8, <2>1 DEF Held
  <2>3. Covers(asked \cup {}, e, obj)
    BY <1>a, <2>2 DEF Allowed, Covers
  <2> QED BY <1>0, <1>2, <1>4, <1>7, <2>3, AllowedAfter
<1>10. DataTypeOK'
  <2>1. asked' \subseteq Tabs
    BY <1>14 DEF Allowed, Covers
  <2> QED BY <1>0, <1>4, <1>9, <2>1 DEF DataTypeOK, Tables, Entry
<1>11. LoopKept
  <2> SUFFICES ASSUME loop.obj # NULL PROVE LoopKept
    BY <1>4 DEF LoopKept
  <2> DEFINE u == obj[loop.obj].tab
  <2>1. loop.obj \in Objs /\ u # NULL /\ u \in Tabs
    BY <1>a, <1>0 DEF Owing, Object
  <2>2. u \in Used(ent, obj, var)
    BY <1>0, <2>1, UsedFrom
  <2>3. u # n
    BY <1>1, <1>2, <2>2
  <2> HIDE DEF u
  <2>4. ent'[u] = ent[u] /\ pos'[u] = pos[u]
    BY <1>8, <1>9, <2>1, <2>3 DEF u
  <2> QED BY <1>4, <1>9, <2>4 DEF LoopKept, u
<1>12. SameTables
  <2>1. ASSUME NEW u \in Lasting PROVE ent'[u] = ent[u]
    <3>1. u \in Used(ent, obj, var) /\ u \in Used(ent, obj, var)'
      BY DEF Lasting
    <3>2. u \in Tabs
      BY <1>0, <3>1, UsedAreTabs
    <3>3. u # n
      BY <1>1, <1>2, <3>1
    <3> QED BY <1>8, <1>9, <3>1, <3>2, <3>3
  <2> QED BY <2>1 DEF SameTables
<1>13. Owing'
  BY <1>a, <1>11, OwingKept
<1> QED BY <1>10, <1>12, <1>13, <1>14 DEF Alike

\* r holds no table that s does not.
NoNewTable(s, r) ==
  \A j \in DOMAIN r : r[j].val \in Tabs => \E i \in DOMAIN s : s[i].val = r[j].val

\* A scalar set, or an entry gone, puts no table where it was not.
LEMMA UpdatedHolds ==
  ASSUME NEW s, NEW r, NEW k, NEW v \in Scalars, Updated(s, r, k, v)
  PROVE  NoNewTable(s, r)
<1> SUFFICES ASSUME NEW j \in DOMAIN r, r[j].val \in Tabs
             PROVE  \E i \in DOMAIN s : s[i].val = r[j].val
  BY DEF NoNewTable
<1>1. r[j] \in Entry /\ r \in Seq(Entry) /\ Unique(r)
  BY ElementOfSeq DEF Updated
<1>2. PICK m \in DOMAIN r : r[m] = [key |-> k, val |-> v]
  BY DEF Updated
<1>3. r[j].key # k
  <2>1. r[m].key = k /\ r[m].val = v
    BY <1>2
  <2>2. m # j
    BY <2>1, DataAssumption
  <2> QED BY <1>1, <2>1, <2>2 DEF Unique
<1>4. r[j].key \in Keys
  BY <1>1 DEF Entry
<1> QED BY <1>3, <1>4 DEF Updated, Agree

LEMMA ShortenedHolds ==
  ASSUME NEW s \in Seq(Entry), NEW r, NEW i \in DOMAIN s, Shortened(s, r, i)
  PROVE  NoNewTable(s, r)
<1> SUFFICES ASSUME NEW j \in DOMAIN r PROVE \E k \in DOMAIN s : s[k] = r[j]
  BY DEF NoNewTable
<1>1. j \in 1 .. Len(s) - 1 /\ DOMAIN s = 1 .. Len(s) /\ Len(s) \in Nat
  BY LenProperties DEF Shortened
<1>2. r[j] = IF j < i THEN s[j] ELSE s[j + 1]
  BY DEF Shortened
<1>3. j \in DOMAIN s /\ j + 1 \in DOMAIN s
  BY <1>1
<1> QED BY <1>2, <1>3

\* The entries of table t become s, its pointer q, and no other table changes; the
\* script asked to write to it.
OneTable(t, s, q) ==
  /\ t \in Tabs /\ t \in asked /\ Allowed' /\ ent'[t] = s /\ pos'[t] = q /\ obj' = obj /\ DataTypeOK'
  /\ \A o \in Objs : obj[o].tab \notin {NULL, t} =>
       ent'[obj[o].tab] = ent[obj[o].tab] /\ pos'[obj[o].tab] = pos[obj[o].tab]
  /\ \A u \in Lasting : u # t => ent'[u] = ent[u]

\* set and unset change one table in place.
LEMMA TableChanged ==
  ASSUME DataInv, NEW o \in Objs, NEW s \in Seq(Entry), Unique(s), NEW q \in {0} \cup DOMAIN s,
         obj[o].tab # NULL, ~obj[o].ro, NoNewTable(ent[obj[o].tab], s),
         Become([ent EXCEPT ![obj[o].tab] = s], [pos EXCEPT ![obj[o].tab] = q], obj, var, {}),
         loop' \in [obj : Objs \cup {NULL}, owed : SUBSET Keys]
  PROVE  OneTable(obj[o].tab, s, q)
<1>a. DataTypeOK /\ Allowed
  BY DEF DataInv
<1>0. /\ obj \in [Objs -> Object] /\ var \in Tabs /\ asked \subseteq Tabs /\ alive \in BOOLEAN
      /\ Tables(ent, pos) /\ obj[o].tab \in Tabs \cup {NULL}
  BY <1>a, TypedTables, KnownObject DEF DataTypeOK
<1>1. PICK t \in Tabs : t = obj[o].tab
  BY <1>0
<1> DEFINE e == [ent EXCEPT ![t] = s]
           p == [pos EXCEPT ![t] = q]
<1>2. Become(e, p, obj, var, {})
  BY <1>1
<1>3. q \in Nat
  BY LenProperties
<1>4. Tables(e, p)
  BY <1>0, <1>3 DEF Tables, Unique
<1>5. /\ e[t] = s /\ p[t] = q
      /\ \A u \in Tabs : u # t => e[u] = ent[u] /\ p[u] = pos[u]
  BY <1>0 DEF Tables
<1> HIDE DEF e, p
<1>6. /\ Tables(ent', pos') /\ obj' = obj /\ var' = var /\ alive' = alive
      /\ \A u \in Objs : obj[u].tab # NULL =>
           ent'[obj[u].tab] = e[obj[u].tab] /\ pos'[obj[u].tab] = p[obj[u].tab]
      /\ \A u \in Tabs : u \in Used(ent, obj, var)' => ent'[u] = e[u]
  BY <1>0, <1>2, <1>4, BecomeIs
<1>11. Allowed'
  <2>1. Held(e, asked) \subseteq Held(ent, asked)
    BY <1>0, <1>1, <1>5 DEF Held, NoNewTable
  <2>2. Covers(asked \cup {}, e, obj)
    BY <1>a, <2>1 DEF Allowed, Covers
  <2> QED BY <1>0, <1>2, <1>4, <2>2, AllowedAfter
<1>7. DataTypeOK'
  <2>1. asked' \subseteq Tabs
    BY <1>11 DEF Allowed, Covers
  <2> QED BY <1>0, <1>6, <2>1 DEF DataTypeOK, Tables, Entry
<1>8. ent'[t] = s /\ pos'[t] = q
  BY <1>1, <1>5, <1>6
<1>9. \A u \in Objs : obj[u].tab \notin {NULL, t} =>
        ent'[obj[u].tab] = ent[obj[u].tab] /\ pos'[obj[u].tab] = pos[obj[u].tab]
  <2>1. \A u \in Objs : obj[u].tab # NULL => obj[u].tab \in Tabs
    BY <1>0 DEF Object
  <2> QED BY <1>5, <1>6, <2>1
<1>10. \A u \in Lasting : u # t => ent'[u] = ent[u]
  <2>1. ASSUME NEW u \in Lasting PROVE u \in Tabs /\ u \in Used(ent, obj, var)'
    <3>1. u \in Used(ent, obj, var) /\ u \in Used(ent, obj, var)'
      BY DEF Lasting
    <3> QED BY <1>0, <3>1, UsedAreTabs
  <2> QED BY <1>5, <1>6, <2>1
<1>12. t \in asked
  BY <1>a, <1>1 DEF Allowed, Covers
<1> QED BY <1>1, <1>6, <1>7, <1>8, <1>9, <1>10, <1>11, <1>12 DEF OneTable

\* What set does to the table of its object.
LEMMA SetUpdates ==
  ASSUME DataInv, NEW o \in Objs, NEW name \in Names, NEW v \in Scalars, Set(o, name, v)
  PROVE  \E s \in Seq(Entry), q \in Nat :
           /\ OneTable(obj[o].tab, s, q) /\ Updated(ent[obj[o].tab], s, name, v)
           /\ pos[obj[o].tab] # 0 => q = pos[obj[o].tab]
<1>a. DataTypeOK
  BY DEF DataInv
<1>0. /\ obj[o].tab # NULL /\ ~obj[o].ro /\ Tables(ent, pos) /\ obj[o].tab \in Tabs \cup {NULL}
      /\ loop \in [obj : Objs \cup {NULL}, owed : SUBSET Keys]
  BY <1>a, TypedTables, KnownObject DEF Set, Works, DataTypeOK
<1>1. PICK t \in Tabs : t = obj[o].tab
  BY <1>0
<1> DEFINE i == PlaceIn(ent[t], name)
<1>2. /\ ent[t] \in Seq(Entry) /\ Unique(ent[t]) /\ pos[t] \in {0} \cup DOMAIN ent[t] /\ pos[t] \in Nat
      /\ ent \in [Tabs -> Seq(Entry)] /\ pos \in [Tabs -> Nat]
  BY <1>0 DEF Tables, Unique
<1>3. Place(t, name) = i
  BY DEF Place, PlaceIn, KeysOf
<1>4. v \in Values /\ name \in Keys
  BY DEF Values, Keys
<1>5. CASE i # 0
  <2>1. i \in DOMAIN ent[t] /\ ent[t][i].key = name
    BY <1>2, <1>5, PlaceFound
  <2> HIDE DEF i
  <2> DEFINE s == [ent[t] EXCEPT ![i].val = v]
  <2>2. /\ Become([ent EXCEPT ![t][i].val = v], pos, obj, var, {})
        /\ loop' = loop
    BY <1>1, <1>3, <1>5 DEF Set
  <2>3. [ent EXCEPT ![t][i].val = v] = [ent EXCEPT ![t] = s]
    OBVIOUS
  <2>4. Updated(ent[t], s, name, v)
    BY <1>2, <1>4, <2>1, UpdatedInPlace
  <2>5. [pos EXCEPT ![t] = pos[t]] = pos
    BY <1>2
  <2>6. DOMAIN s = DOMAIN ent[t]
    OBVIOUS
  <2> HIDE DEF s
  <2>7. Become([ent EXCEPT ![t] = s], [pos EXCEPT ![t] = pos[t]], obj, var, {})
    BY <2>2, <2>3, <2>5
  <2>8. s \in Seq(Entry) /\ Unique(s) /\ pos[t] \in {0} \cup DOMAIN s
    BY <1>2, <2>4, <2>6 DEF Updated
  <2>9. OneTable(t, s, pos[t])
    BY <1>0, <1>1, <2>2, <2>4, <2>7, <2>8, UpdatedHolds, TableChanged
  <2> QED BY <1>1, <1>2, <2>4, <2>8, <2>9
<1>6. CASE i = 0
  <2>1. \A j \in DOMAIN ent[t] : ent[t][j].key # name
    BY <1>2, <1>6, PlaceFound
  <2> DEFINE s == Append(ent[t], [key |-> name, val |-> v])
             q == IF pos[t] = 0 THEN Len(ent[t]) + 1 ELSE pos[t]
  <2>2. /\ Become([ent EXCEPT ![t] = s], [pos EXCEPT ![t] = q], obj, var, {})
        /\ loop' = loop
    BY <1>1, <1>2, <1>3, <1>6 DEF Set
  <2>3. Updated(ent[t], s, name, v)
    BY <1>2, <1>4, <2>1, UpdatedAtEnd
  <2>4. [key |-> name, val |-> v] \in Entry
    BY <1>4 DEF Entry
  <2>5. Len(s) = Len(ent[t]) + 1 /\ s \in Seq(Entry)
    BY <1>2, <2>4, AppendProperties
  <2> HIDE DEF s
  <2>6. q \in {0} \cup DOMAIN s /\ q \in Nat
    BY <1>2, <2>5, LenProperties
  <2>7. Unique(s) /\ (pos[t] # 0 => q = pos[t])
    BY <2>3 DEF Updated
  <2> HIDE DEF q, i
  <2>8. OneTable(t, s, q)
    BY <1>0, <1>1, <2>2, <2>3, <2>5, <2>6, <2>7, UpdatedHolds, TableChanged
  <2> QED BY <1>1, <2>3, <2>5, <2>6, <2>7, <2>8
<1> QED BY <1>5, <1>6

\* What offsetUnset does to the table of its object, and to its pointer.
LEMMA UnsetRemoves ==
  ASSUME DataInv, NEW o \in Objs, NEW name \in Names, OffsetUnset(o, name)
  PROVE  \E s \in Seq(Entry), i \in DOMAIN ent[obj[o].tab] :
           /\ OneTable(obj[o].tab, s, PointerAfter(pos[obj[o].tab], i, Len(ent[obj[o].tab])))
           /\ Shortened(ent[obj[o].tab], s, i) /\ ent[obj[o].tab][i].key = name
           /\ i = Place(obj[o].tab, name)
<1>a. DataTypeOK
  BY DEF DataInv
<1>0. /\ obj[o].tab # NULL /\ ~obj[o].ro /\ Tables(ent, pos) /\ obj[o].tab \in Tabs \cup {NULL}
      /\ loop \in [obj : Objs \cup {NULL}, owed : SUBSET Keys]
  BY <1>a, TypedTables, KnownObject DEF OffsetUnset, Works, DataTypeOK
<1>1. PICK t \in Tabs : t = obj[o].tab
  BY <1>0
<1> DEFINE i == PlaceIn(ent[t], name)
<1>2. /\ ent[t] \in Seq(Entry) /\ Unique(ent[t]) /\ pos[t] \in {0} \cup DOMAIN ent[t] /\ pos[t] \in Nat
      /\ ent \in [Tabs -> Seq(Entry)] /\ pos \in [Tabs -> Nat]
  BY <1>0 DEF Tables, Unique
<1>3. Place(t, name) = i /\ i # 0
  <2>1. Place(t, name) = i
    BY DEF Place, PlaceIn, KeysOf
  <2> QED BY <1>1, <2>1 DEF OffsetUnset
<1>4. i \in DOMAIN ent[t] /\ ent[t][i].key = name
  BY <1>2, <1>3, PlaceFound
<1> DEFINE s == SubSeq(ent[t], 1, i - 1) \o SubSeq(ent[t], i + 1, Len(ent[t]))
           q == PointerAfter(pos[t], i, Len(ent[t]))
<1>5. /\ Become([ent EXCEPT ![t] = s], [pos EXCEPT ![t] = q], obj, var, {})
      /\ loop' = IF ~Looping(t) THEN loop
                 ELSE IF pos[t] = i THEN NoLoop ELSE [loop EXCEPT !.owed = @ \ {name}]
  BY <1>1, <1>2, <1>3 DEF OffsetUnset
<1> HIDE DEF i
<1>6. Shortened(ent[t], s, i)
  BY <1>2, <1>4, UnsetShortens
<1> HIDE DEF s
<1>7. s \in Seq(Entry) /\ Unique(s) /\ Len(s) = Len(ent[t]) - 1
  BY <1>6 DEF Shortened
<1>8. q \in {0} \cup DOMAIN s
  <2>1. DOMAIN s = 1 .. Len(ent[t]) - 1 /\ DOMAIN ent[t] = 1 .. Len(ent[t]) /\ Len(ent[t]) \in Nat
    BY <1>2, <1>7, LenProperties
  <2> QED BY <1>2, <1>4, <2>1 DEF PointerAfter
<1> HIDE DEF q
<1>9. loop' \in [obj : Objs \cup {NULL}, owed : SUBSET Keys]
  BY <1>0, <1>5 DEF NoLoop
<1>10. OneTable(t, s, q)
  BY <1>0, <1>1, <1>2, <1>4, <1>5, <1>6, <1>7, <1>8, <1>9, ShortenedHolds, TableChanged
<1> QED BY <1>1, <1>3, <1>4, <1>6, <1>7, <1>10 DEF q

\* set appends behind the pointer, or changes no key.
LEMMA SetKeeps ==
  ASSUME DataInv, NEW o \in Objs, NEW name \in Names, NEW v \in Scalars, Set(o, name, v)
  PROVE  DataTypeOK' /\ Owing' /\ Allowed'
<1> DEFINE t == obj[o].tab
<1>a. DataTypeOK /\ Owing /\ Allowed
  BY DEF DataInv
<1>0. loop' = loop
  BY DEF Set
<1>1. PICK s \in Seq(Entry), q \in Nat :
        /\ OneTable(t, s, q) /\ Updated(ent[t], s, name, v)
        /\ pos[t] # 0 => q = pos[t]
  BY SetUpdates
<1> HIDE DEF t
<1>2. Owing'
  <2> SUFFICES ASSUME loop.obj # NULL PROVE Owing'
    BY <1>0 DEF Owing
  <2>1. loop.obj \in Objs /\ obj[loop.obj].up /\ obj[loop.obj].tab # NULL
    BY <1>a, KnownObject DEF Owing
  <2>2. obj' = obj
    BY <1>1 DEF OneTable
  <2>3. CASE obj[loop.obj].tab # t
    <3>1. LoopKept
      BY <1>0, <1>1, <2>1, <2>2, <2>3 DEF LoopKept, OneTable
    <3> QED BY <1>a, <3>1, OwingKept
  <2>4. CASE obj[loop.obj].tab = t
    <3>1. ASSUME NEW k \in loop.owed
          PROVE  pos'[t] # 0 /\ \E i \in DOMAIN ent'[t] : ent'[t][i].key = k /\ i >= pos'[t]
      <4>1. pos[t] # 0
        BY <1>a, <2>4, <3>1 DEF Owing
      <4>2. PICK i \in DOMAIN ent[t] : ent[t][i].key = k /\ i >= pos[t]
        BY <1>a, <2>4, <3>1 DEF Owing
      <4>3. ent[t] \in Seq(Entry)
        BY <1>a, <1>1, TypedTables DEF Tables, OneTable
      <4>4. i \in DOMAIN s /\ s[i].key = k
        BY <1>1, <4>2, <4>3, LenProperties DEF Updated
      <4>5. ent'[t] = s /\ pos'[t] = pos[t]
        BY <1>1, <4>1 DEF OneTable
      <4> QED BY <4>1, <4>2, <4>4, <4>5
    <3> QED BY <1>0, <2>1, <2>2, <2>4, <3>1 DEF Owing
  <2> QED BY <2>3, <2>4
<1> QED BY <1>1, <1>2 DEF OneTable

\* What was ahead of the pointer still is, once an entry is gone.
LEMMA AheadKept ==
  ASSUME NEW r \in Seq(Entry), NEW s, NEW i \in DOMAIN r, Shortened(r, s, i),
         NEW p \in DOMAIN r, NEW j \in DOMAIN r, j >= p, j # i
  PROVE  /\ PointerAfter(p, i, Len(r)) # 0
         /\ \E k \in DOMAIN s : s[k] = r[j] /\ k >= PointerAfter(p, i, Len(r))
<1>1. /\ DOMAIN r = 1 .. Len(r) /\ Len(r) \in Nat /\ s \in Seq(Entry) /\ Len(s) = Len(r) - 1
      /\ \A k \in DOMAIN s : s[k] = IF k < i THEN r[k] ELSE r[k + 1]
  BY LenProperties DEF Shortened
<1>2. DOMAIN s = 1 .. Len(r) - 1
  BY <1>1, LenProperties
<1>3. CASE j < i
  <2>1. j \in DOMAIN s /\ s[j] = r[j]
    BY <1>1, <1>2, <1>3
  <2>2. PointerAfter(p, i, Len(r)) = p
    BY <1>1, <1>3 DEF PointerAfter
  <2> QED BY <1>1, <2>1, <2>2
<1>4. CASE j > i
  <2>1. j - 1 \in DOMAIN s
    BY <1>1, <1>2, <1>4
  <2>2. s[j - 1] = r[j]
    <3>1. ~(j - 1 < i) /\ (j - 1) + 1 = j
      BY <1>1, <1>4
    <3> QED BY <1>1, <2>1, <3>1
  <2>3. PointerAfter(p, i, Len(r)) # 0 /\ j - 1 >= PointerAfter(p, i, Len(r))
    BY <1>1, <1>4 DEF PointerAfter
  <2> QED BY <2>1, <2>2, <2>3
<1> QED BY <1>1, <1>3, <1>4

\* offsetUnset takes one entry out, and the pointer with it.
LEMMA UnsetKeeps ==
  ASSUME DataInv, NEW o \in Objs, NEW name \in Names, OffsetUnset(o, name)
  PROVE  DataTypeOK' /\ Owing' /\ Allowed'
<1> DEFINE t == obj[o].tab
<1>a. DataTypeOK /\ Owing /\ Allowed
  BY DEF DataInv
<1>1. PICK s \in Seq(Entry), i \in DOMAIN ent[t] :
        /\ OneTable(t, s, PointerAfter(pos[t], i, Len(ent[t])))
        /\ Shortened(ent[t], s, i) /\ ent[t][i].key = name /\ i = Place(t, name)
  BY UnsetRemoves
<1>0. loop' = IF ~Looping(t) THEN loop
              ELSE IF pos[t] = i THEN NoLoop ELSE [loop EXCEPT !.owed = @ \ {name}]
  BY <1>1 DEF OffsetUnset
<1> HIDE DEF t
<1>b. loop \in [obj : Objs \cup {NULL}, owed : SUBSET Keys] /\ Tables(ent, pos) /\ t \in Tabs
  BY <1>a, <1>1, TypedTables DEF DataTypeOK, OneTable
<1>2. Owing'
  <2> SUFFICES ASSUME loop'.obj # NULL PROVE Owing'
    BY DEF Owing
  <2>2. obj' = obj
    BY <1>1 DEF OneTable
  <2>3. CASE ~Looping(t)
    <3>1. loop.obj # NULL => obj[loop.obj].tab \notin {NULL, t} /\ loop.obj \in Objs
      BY <1>a, <1>b, <2>3 DEF Looping, Owing
    <3>2. LoopKept
      BY <1>0, <1>1, <2>2, <2>3, <3>1 DEF LoopKept, OneTable
    <3> QED BY <1>a, <3>2, OwingKept
  <2>4. CASE Looping(t)
    <3>1. /\ loop.obj # NULL /\ obj[loop.obj].tab = t /\ obj[loop.obj].up /\ t # NULL
          /\ loop'.obj = loop.obj /\ loop'.owed = loop.owed \ {name}
      BY <1>0, <1>a, <1>b, <2>4 DEF Looping, NoLoop, Owing
    <3>2. ASSUME NEW k \in loop'.owed
          PROVE  pos'[t] # 0 /\ \E j \in DOMAIN ent'[t] : ent'[t][j].key = k /\ j >= pos'[t]
      <4>1. k \in loop.owed /\ k # name /\ pos[t] # 0
        BY <1>a, <3>1, <3>2 DEF Owing
      <4>2. PICK j \in DOMAIN ent[t] : ent[t][j].key = k /\ j >= pos[t]
        BY <1>a, <3>1, <4>1 DEF Owing
      <4>3. ent[t] \in Seq(Entry) /\ pos[t] \in DOMAIN ent[t]
        BY <1>b, <4>1 DEF Tables
      <4>4. j # i
        BY <1>1, <4>1, <4>2
      <4> DEFINE q == PointerAfter(pos[t], i, Len(ent[t]))
      <4>5. q # 0 /\ \E m \in DOMAIN s : s[m] = ent[t][j] /\ m >= q
        BY <1>1, <4>2, <4>3, <4>4, AheadKept
      <4>6. ent'[t] = s /\ pos'[t] = q
        BY <1>1 DEF OneTable
      <4> HIDE DEF q
      <4> QED BY <4>2, <4>5, <4>6
    <3> QED BY <2>2, <3>1, <3>2 DEF Owing
  <2> QED BY <2>3, <2>4
<1> QED BY <1>1, <1>2 DEF OneTable

\* rewind begins a loop, and next goes on with it.
LEMMA Iterated ==
  ASSUME DataInv, NEW o \in Objs, Rewind(o) \/ Forward(o)
  PROVE  Alike
<1> DEFINE t == obj[o].tab
<1>a. DataTypeOK /\ Owing /\ Allowed
  BY DEF DataInv
<1>b. /\ loop \in [obj : Objs \cup {NULL}, owed : SUBSET Keys] /\ Tables(ent, pos)
      /\ t \in Tabs /\ t # NULL /\ obj[o].up
      /\ ent' = ent /\ obj' = obj /\ var' = var /\ alive' = alive /\ asked' = asked
  BY <1>a, TypedTables, KnownObject DEF DataTypeOK, Rewind, Forward, Works
<1>c. /\ ent[t] \in Seq(Entry) /\ DOMAIN ent[t] = 1 .. Len(ent[t]) /\ Len(ent[t]) \in Nat
      /\ pos \in [Tabs -> Nat] /\ pos[t] \in {0} \cup 1 .. Len(ent[t])
      /\ \A i \in DOMAIN ent[t] : ent[t][i].key \in Keys
  <2>1. ent[t] \in Seq(Entry)
    BY <1>b DEF Tables
  <2>2. \A i \in DOMAIN ent[t] : ent[t][i] \in Entry
    BY <2>1, ElementOfSeq
  <2> QED BY <1>b, <2>1, <2>2, LenProperties DEF Tables, Entry
<1>1. SameTables /\ Allowed'
  BY <1>a, <1>b DEF SameTables, Allowed, Covers
<1>2. CASE Rewind(o)
  <2> DEFINE q == IF ent[t] = <<>> THEN 0 ELSE 1
  <2>1. pos' = [pos EXCEPT ![t] = q] /\ loop' = [obj |-> o, owed |-> KeysOf(t)]
    BY <1>2 DEF Rewind
  <2>2. q \in {0} \cup DOMAIN ent[t] /\ q \in Nat /\ (ent[t] = <<>> \/ q = 1)
    BY <1>c, EmptySeq
  <2> HIDE DEF q, t
  <2>3. Tables(ent', pos')
    BY <1>b, <1>c, <2>1, <2>2 DEF Tables
  <2>4. KeysOf(t) \in SUBSET Keys
    BY <1>c DEF KeysOf
  <2>5. DataTypeOK'
    BY <1>a, <1>b, <2>1, <2>3, <2>4 DEF DataTypeOK, Tables, Entry
  <2>6. ASSUME NEW k \in KeysOf(t)
        PROVE  pos'[t] # 0 /\ \E i \in DOMAIN ent[t] : ent[t][i].key = k /\ i >= pos'[t]
    <3>1. PICK i \in DOMAIN ent[t] : ent[t][i].key = k
      BY DEF KeysOf
    <3>2. ent[t] # <<>> /\ i >= 1
      BY <1>c, <3>1
    <3>3. pos'[t] = 1
      BY <1>b, <1>c, <2>1, <2>2, <3>2
    <3> QED BY <3>1, <3>2, <3>3
  <2>7. Owing'
    BY <1>b, <2>1, <2>6 DEF Owing, t
  <2> QED BY <1>1, <2>5, <2>7 DEF Alike
<1>3. CASE Forward(o)
  <2> DEFINE q == IF pos[t] = Len(ent[t]) THEN 0 ELSE pos[t] + 1
             gone == ent[t][pos[t]].key
  <2>1. /\ pos[t] # 0 /\ pos' = [pos EXCEPT ![t] = q]
        /\ loop' = IF ~Looping(t) THEN loop
                   ELSE IF loop.obj = o THEN [loop EXCEPT !.owed = @ \ {gone}] ELSE NoLoop
    BY <1>3, <1>b, <1>c DEF Forward
  <2>2. q \in {0} \cup DOMAIN ent[t] /\ q \in Nat
    BY <1>c, <2>1
  <2>3. \A j \in DOMAIN ent[t] : j >= pos[t] /\ j # pos[t] => q # 0 /\ j >= q
    BY <1>c, <2>1
  <2>4. pos'[t] = q /\ \A u \in Tabs : u # t => pos'[u] = pos[u]
    BY <1>b, <1>c, <2>1
  <2> HIDE DEF q, t
  <2>5. Tables(ent', pos')
    BY <1>b, <1>c, <2>1, <2>2 DEF Tables
  <2>6. loop' \in [obj : Objs \cup {NULL}, owed : SUBSET Keys]
    BY <1>b, <2>1 DEF NoLoop
  <2>7. DataTypeOK'
    BY <1>a, <1>b, <2>5, <2>6 DEF DataTypeOK, Tables, Entry
  <2>8. CASE ~Looping(t)
    <3>1. loop.obj # NULL => obj[loop.obj].tab \in Tabs /\ obj[loop.obj].tab # t
      BY <1>a, <1>b, <2>8, KnownObject DEF Looping, Owing
    <3>2. LoopKept
      BY <1>b, <2>1, <2>4, <2>8, <3>1 DEF LoopKept
    <3> QED BY <1>1, <1>a, <2>7, <3>2, OwingKept DEF Alike
  <2>9. CASE Looping(t) /\ loop.obj # o
    <3>1. LoopKept
      BY <2>1, <2>9 DEF LoopKept
    <3> QED BY <1>1, <1>a, <2>7, <3>1, OwingKept DEF Alike
  <2>10. CASE Looping(t) /\ loop.obj = o
    <3>1. loop'.obj = o /\ loop'.owed = loop.owed \ {gone}
      BY <1>b, <2>1, <2>10
    <3>2. ASSUME NEW k \in loop'.owed
          PROVE  pos'[t] # 0 /\ \E j \in DOMAIN ent[t] : ent[t][j].key = k /\ j >= pos'[t]
      <4>1. k \in loop.owed /\ k # gone
        BY <3>1, <3>2
      <4>2. PICK j \in DOMAIN ent[t] : ent[t][j].key = k /\ j >= pos[t]
        BY <1>a, <2>10, <4>1 DEF Owing, Looping
      <4>3. j # pos[t]
        BY <4>1, <4>2
      <4> QED BY <2>3, <2>4, <4>2, <4>3
    <3>3. Owing'
      BY <1>b, <2>10, <3>1, <3>2 DEF Owing, Looping
    <3> QED BY <1>1, <2>7, <3>3 DEF Alike
  <2> QED BY <2>8, <2>9, <2>10
<1> QED BY <1>2, <1>3
--------------------------------------------------------------------------------
(* The invariant, and what get sees.                                       *)

\* A script begins with its array and no object.
LEMMA DataInvInit == Init => DataInv
<1> SUFFICES ASSUME Init PROVE DataInv
  OBVIOUS
<1>1. /\ ent \in [Tabs -> Seq(Entry)] /\ \A t \in Tabs : Unique(ent[t])
  BY DataAssumption DEF Init, Entry, Unique
<1>2. /\ pos = [t \in Tabs |-> IF ent[t] = <<>> THEN 0 ELSE 1]
      /\ obj = [o \in Objs |-> NoObject] /\ var = First /\ alive = TRUE /\ asked = {}
      /\ loop = NoLoop
  BY DEF Init
<1>3. \A t \in Tabs : pos[t] \in {0} \cup DOMAIN ent[t] /\ pos[t] \in Nat
  <2> SUFFICES ASSUME NEW t \in Tabs PROVE pos[t] \in {0} \cup DOMAIN ent[t] /\ pos[t] \in Nat
    OBVIOUS
  <2>1. CASE ent[t] = <<>>
    BY <1>2, <2>1
  <2>2. CASE ent[t] # <<>>
    <3>1. ent[t] \in Seq(Entry) /\ 1 \in 1 .. Len(ent[t])
      BY <1>1, <2>2, EmptySeq, LenProperties
    <3> QED BY <1>2, <2>2, <3>1, LenProperties
  <2> QED BY <2>1, <2>2
<1>4. pos \in [Tabs -> Nat]
  BY <1>2
<1>5. obj \in [Objs -> Object] /\ loop \in [obj : Objs \cup {NULL}, owed : SUBSET Keys] /\ var \in Tabs
  BY <1>2, DataAssumption DEF NoObject, Object, NoLoop
<1>6. DataTypeOK
  BY <1>1, <1>2, <1>3, <1>4, <1>5 DEF DataTypeOK, Entry, Unique
<1>7. Owing /\ Allowed
  <2>1. Held(ent, {}) = {}
    BY DEF Held
  <2> QED BY <1>2, <2>1 DEF Owing, Allowed, Covers, NoLoop, NoObject
<1> QED BY <1>6, <1>7 DEF DataInv

\* A step keeps what is in use, or sets or unsets a name.
LEMMA DataStep ==
  ASSUME DataInv, Next
  PROVE  /\ DataInv'
         /\ \A t \in Lasting : ent'[t] # ent[t] => t \in asked
         /\ \/ SameTables
            \/ \E o \in Objs, m \in Names, v \in Scalars : Set(o, m, v)
            \/ \E o \in Objs, m \in Names : OffsetUnset(o, m)
<1>1. CASE Fatal
  <2>1. /\ ent' = ent /\ pos' = pos /\ obj' = obj /\ var' = var /\ alive' = FALSE
        /\ asked' = asked /\ loop' = loop
    BY <1>1 DEF Fatal
  <2>2. SameTables
    BY <2>1 DEF SameTables
  <2>3. DataInv'
    BY <2>1 DEF DataInv, DataTypeOK, Owing, Allowed, Covers
  <2> QED BY <2>2, <2>3 DEF SameTables
<1>2. CASE Alike
  BY <1>2 DEF Alike, DataInv, SameTables
<1>3. ASSUME NEW o \in Objs, NEW m \in Names, NEW v \in Scalars, Set(o, m, v)
      PROVE  DataInv' /\ \A t \in Lasting : ent'[t] # ent[t] => t \in asked
  BY <1>3, SetKeeps, SetUpdates DEF DataInv, OneTable
<1>4. ASSUME NEW o \in Objs, NEW m \in Names, OffsetUnset(o, m)
      PROVE  DataInv' /\ \A t \in Lasting : ent'[t] # ent[t] => t \in asked
  BY <1>4, UnsetKeeps, UnsetRemoves DEF DataInv, OneTable
<1>5. ASSUME NEW o \in Objs,
             \/ \E given, ro \in BOOLEAN : Construct(o, given, ro)
             \/ ConstructEmpty(o) \/ ConstructRefused(o) \/ Forget(o)
      PROVE  Alike
  BY <1>5, ObjectsMade
<1>6. ASSUME NEW o \in Objs, ToArray(o) \/ Rewind(o) \/ Forward(o)
      PROVE  Alike
  BY <1>6, ArrayCopied, Iterated
<1>7. ASSUME NEW o \in Objs, NEW o2 \in Objs,
             \/ Current(o, o2)
             \/ \E name \in Names : Get(o, o2, name) \/ GetDefault(o, o2, name)
      PROVE  Alike
  BY <1>7, ObjectsGiven
<1>8. \/ Fatal \/ Alike
      \/ \E o \in Objs, m \in Names, v \in Scalars : Set(o, m, v)
      \/ \E o \in Objs, m \in Names : OffsetUnset(o, m)
  BY <1>5, <1>6, <1>7 DEF Next
<1> QED BY <1>1, <1>2, <1>3, <1>4, <1>8

\* Lookup and Exists, now and then.
LEMMA LookupFinds ==
  ASSUME NEW t, NEW n
  PROVE  /\ Lookup(t, n) = Found(ent[t], GetKey(n)) /\ Lookup(t, n)' = Found(ent'[t], GetKey(n))
         /\ Exists(t, n) <=> PlaceIn(ent[t], n) # 0
         /\ Exists(t, n)' <=> PlaceIn(ent'[t], n) # 0
BY DEF Lookup, Exists, Place, KeysOf, Found, PlaceIn, GetKey

\* get looks for the name or for an integer, which is no name.
LEMMA GetKeys ==
  ASSUME NEW n \in Names
  PROVE  /\ n \in Keys /\ GetKey(n) \in Keys
         /\ IntOf[n] # NULL => GetKey(n) \notin Names
         /\ IntOf[n] = NULL => GetKey(n) = n
BY DataAssumption DEF GetKey, Keys

\* What a table holds for a name that is not told stays.
LEMMA Untold ==
  ASSUME DataInv, Next, NEW t \in Lasting, NEW n \in Names, Told(t, n) = {}
  PROVE  Agree(ent[t], ent'[t], n) /\ Agree(ent[t], ent'[t], GetKey(n))
<1>0. /\ n \in Keys /\ GetKey(n) \in Keys
      /\ \A m \in Names : m # n => m # GetKey(n)
  BY GetKeys
<1>1. CASE ent'[t] = ent[t]
  BY <1>1 DEF Agree
<1>2. ASSUME NEW o \in Objs, NEW m \in Names, NEW v \in Scalars, Set(o, m, v), ent'[t] # ent[t]
      PROVE  Agree(ent[t], ent'[t], n) /\ Agree(ent[t], ent'[t], GetKey(n))
  <2>1. PICK s \in Seq(Entry), q \in Nat :
          OneTable(obj[o].tab, s, q) /\ Updated(ent[obj[o].tab], s, m, v)
    BY <1>2, SetUpdates
  <2>2. obj[o].tab = t /\ ent'[t] = s
    BY <1>2, <2>1 DEF OneTable
  <2>3. m # n
    BY <1>2, <2>2 DEF Told
  <2> QED BY <1>0, <2>1, <2>2, <2>3 DEF Updated
<1>3. ASSUME NEW o \in Objs, NEW m \in Names, OffsetUnset(o, m), ent'[t] # ent[t]
      PROVE  Agree(ent[t], ent'[t], n) /\ Agree(ent[t], ent'[t], GetKey(n))
  <2>1. PICK s \in Seq(Entry), i \in DOMAIN ent[obj[o].tab] :
          /\ OneTable(obj[o].tab, s, PointerAfter(pos[obj[o].tab], i, Len(ent[obj[o].tab])))
          /\ Shortened(ent[obj[o].tab], s, i) /\ ent[obj[o].tab][i].key = m
    BY <1>3, UnsetRemoves
  <2>2. obj[o].tab = t /\ ent'[t] = s
    BY <1>3, <2>1 DEF OneTable
  <2>3. m # n
    BY <1>3, <2>2 DEF Told
  <2> QED BY <1>0, <2>1, <2>2, <2>3 DEF Shortened
<1>4. ent'[t] = ent[t] \/ (\E o \in Objs, m \in Names, v \in Scalars : Set(o, m, v))
      \/ (\E o \in Objs, m \in Names : OffsetUnset(o, m))
  BY DataStep DEF SameTables
<1> QED BY <1>1, <1>2, <1>3, <1>4

\* What a set says of a name: the table has it, and an integer key is as it was.
LEMMA SetTells ==
  ASSUME DataInv, NEW o \in Objs, NEW n \in Names, NEW v \in Scalars, Set(o, n, v), NEW t,
         obj[o].tab = t
  PROVE  /\ PlaceIn(ent'[t], n) # 0
         /\ IntOf[n] = NULL => Found(ent'[t], GetKey(n)) = v
         /\ IntOf[n] # NULL => Agree(ent[t], ent'[t], GetKey(n))
<1>1. PICK s \in Seq(Entry), q \in Nat : OneTable(t, s, q) /\ Updated(ent[t], s, n, v)
  BY SetUpdates
<1>2. ent'[t] = s /\ s \in Seq(Entry) /\ Unique(s)
  BY <1>1 DEF OneTable, Updated
<1>3. PICK j \in DOMAIN s : s[j] = [key |-> n, val |-> v]
  BY <1>1 DEF Updated
<1>4. PlaceIn(s, n) = j /\ j # 0
  BY <1>2, <1>3, PlaceFound
<1>5. Found(s, n) = v
  BY <1>3, <1>4 DEF Found
<1> QED BY <1>1, <1>2, <1>4, <1>5, GetKeys DEF Updated

\* What an unset says of a name.
LEMMA UnsetTells ==
  ASSUME DataInv, NEW o \in Objs, NEW n \in Names, OffsetUnset(o, n), NEW t,
         obj[o].tab = t
  PROVE  /\ PlaceIn(ent'[t], n) = 0
         /\ IntOf[n] = NULL => Found(ent'[t], GetKey(n)) = NULL
         /\ IntOf[n] # NULL => Agree(ent[t], ent'[t], GetKey(n))
<1>1. PICK s \in Seq(Entry), i \in DOMAIN ent[t] :
        /\ OneTable(t, s, PointerAfter(pos[t], i, Len(ent[t])))
        /\ Shortened(ent[t], s, i) /\ ent[t][i].key = n
  BY UnsetRemoves
<1>2. ent'[t] = s /\ s \in Seq(Entry) /\ Unique(s) /\ \A j \in DOMAIN s : s[j].key # n
  BY <1>1 DEF OneTable, Shortened
<1>3. PlaceIn(s, n) = 0
  BY <1>2 DEF PlaceIn
<1>4. Found(s, n) = NULL
  BY <1>3 DEF Found
<1> QED BY <1>1, <1>2, <1>3, <1>4, GetKeys DEF Shortened

\* Whatever the step, what get and isset see of a name changes as it is told.
LEMMA ReadStep ==
  ASSUME DataInv, DataInv', Next, NEW t \in Lasting, NEW n \in Names
  PROVE  /\ Lookup(t, n)' \in
              (IF IntOf[n] # NULL \/ Told(t, n) = {} THEN {Lookup(t, n)} ELSE Told(t, n))
         /\ Exists(t, n)' = (IF Told(t, n) = {} THEN Exists(t, n) ELSE NULL \notin Told(t, n))
<1>0. t \in Tabs
  <2>1. t \in Used(ent, obj, var) /\ obj \in [Objs -> Object] /\ var \in Tabs
    BY DEF Lasting, DataInv, DataTypeOK
  <2> QED BY <2>1, UsedAreTabs
<1>1. /\ ent[t] \in Seq(Entry) /\ Unique(ent[t])
      /\ ent'[t] \in Seq(Entry) /\ Unique(ent'[t])
  BY <1>0 DEF DataInv, DataTypeOK, Entry, Unique
<1>2. Agree(ent[t], ent'[t], GetKey(n)) => Lookup(t, n)' = Lookup(t, n)
  BY <1>1, AgreeFound, LookupFinds
<1>3. CASE Told(t, n) = {}
  <2>1. Agree(ent[t], ent'[t], n) /\ Agree(ent[t], ent'[t], GetKey(n))
    BY <1>3, Untold
  <2>2. PlaceIn(ent[t], n) = 0 <=> PlaceIn(ent'[t], n) = 0
    BY <1>1, <2>1, AgreeFound
  <2>3. Exists(t, n)' <=> Exists(t, n)
    BY <2>2, LookupFinds
  <2>4. Exists(t, n)' \in BOOLEAN /\ Exists(t, n) \in BOOLEAN
    BY DEF Exists
  <2> QED BY <1>2, <1>3, <2>1, <2>3, <2>4
<1>4. ASSUME NEW o \in Objs, NEW v \in Scalars, obj[o].tab = t, Set(o, n, v)
      PROVE  /\ Lookup(t, n)' \in (IF IntOf[n] # NULL THEN {Lookup(t, n)} ELSE Told(t, n))
             /\ Exists(t, n)' /\ NULL \notin Told(t, n)
  <2>1. /\ PlaceIn(ent'[t], n) # 0
        /\ IntOf[n] = NULL => Found(ent'[t], GetKey(n)) = v
        /\ IntOf[n] # NULL => Agree(ent[t], ent'[t], GetKey(n))
    BY <1>4, SetTells
  <2>2. v \in Told(t, n)
    BY <1>4 DEF Told
  <2>3. NULL \notin Scalars
    BY DataAssumption DEF Values
  <2>4. ASSUME NULL \in Told(t, n) PROVE FALSE
    <3>1. PICK o2 \in Objs : obj[o2].tab = t /\ OffsetUnset(o2, n)
      BY <2>3, <2>4 DEF Told
    <3> QED BY <2>1, <3>1, UnsetTells
  <2> QED BY <1>2, <2>1, <2>2, <2>4, LookupFinds
<1>5. ASSUME NEW o \in Objs, obj[o].tab = t, OffsetUnset(o, n)
      PROVE  /\ Lookup(t, n)' \in (IF IntOf[n] # NULL THEN {Lookup(t, n)} ELSE Told(t, n))
             /\ ~Exists(t, n)' /\ NULL \in Told(t, n)
  <2>1. /\ PlaceIn(ent'[t], n) = 0
        /\ IntOf[n] = NULL => Found(ent'[t], GetKey(n)) = NULL
        /\ IntOf[n] # NULL => Agree(ent[t], ent'[t], GetKey(n))
    BY <1>5, UnsetTells
  <2>2. NULL \in Told(t, n)
    BY <1>5 DEF Told
  <2> QED BY <1>2, <2>1, <2>2, LookupFinds
<1>6. CASE Told(t, n) # {}
  <2>1. \/ \E o \in Objs, v \in Scalars : obj[o].tab = t /\ Set(o, n, v)
        \/ \E o \in Objs : obj[o].tab = t /\ OffsetUnset(o, n)
    BY <1>6 DEF Told
  <2>2. Exists(t, n)' \in BOOLEAN
    BY DEF Exists
  <2> QED BY <1>4, <1>5, <1>6, <2>1, <2>2
<1> QED BY <1>3, <1>6

\* Every step keeps the invariant.
LEMMA DataInvariant == Spec => []DataInv
<1>1. DataInv /\ [Next]_vars => DataInv'
  <2>1. ASSUME DataInv, UNCHANGED vars PROVE DataInv'
    BY <2>1 DEF vars, DataInv, DataTypeOK, Owing, Allowed, Covers
  <2> QED BY <2>1, DataStep
<1> QED BY <1>1, DataInvInit, PTL DEF Spec

\* Every variable of WcxData has its type: a key is once in a table and its
\* pointer at an entry, whatever sets, unsets, copies and destructions do.
THEOREM DataTypeCorrect == Spec => []DataTypeOK
<1>1. DataInv => DataTypeOK
  BY DEF DataInv
<1> QED BY <1>1, DataInvariant, PTL

\* A foreach gives every element that lasts (wcx_data.c:228, 299), in tables of any
\* size shared by any number of objects.
THEOREM LoopsVisitAll == Spec => []VisitsKept
<1>1. DataInv => VisitsKept
  BY DEF DataInv, Owing, VisitsKept
<1> QED BY <1>1, DataInvariant, PTL

\* Whatever else a script writes to, a table it never asked to write to does not
\* change: an object made readonly, and all that comes out of it, at any depth,
\* writes to nothing (wcx_data.c:73, 171, 214).
THEOREM ReadonlyIsDeep == Spec => ReadonlyDeep
<1>1. DataInv /\ [Next]_vars => [\A t \in Lasting : ent'[t] # ent[t] => t \in asked]_vars
  BY DataStep
<1> QED BY <1>1, DataInvariant, PTL DEF Spec, ReadonlyDeep

\* get sees what was set or unset last through any object of the table, and nothing
\* else changes what it sees (wcx_data.c:125, 186, 228).
THEOREM WhatIsSetIsRead == Spec => ReadsBack
<1>1. DataInv /\ DataInv' /\ [Next]_vars =>
        [\A t \in Lasting, n \in Names :
           /\ Lookup(t, n)' \in
                (IF IntOf[n] # NULL \/ Told(t, n) = {} THEN {Lookup(t, n)} ELSE Told(t, n))
           /\ Exists(t, n)' = (IF Told(t, n) = {} THEN Exists(t, n) ELSE NULL \notin Told(t, n))
        ]_vars
  BY ReadStep
<1> QED BY <1>1, DataInvariant, PTL DEF Spec, ReadsBack
================================================================================
