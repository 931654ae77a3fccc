------------------------------ MODULE WcxIniProofs -----------------------------
(***************************************************************************)
(* What the ini reader builds, for every file.                             *)
(***************************************************************************)
EXTENDS WcxIniProps, CrontabProofs, FiniteSetTheorems

--------------------------------------------------------------------------------
(* Induction over a bounded count and over a path, with a set in the place *)
(* of a formula.                                                           *)

\* What holds of 0, and of the next whenever it holds, holds up to n.
LEMMA UpTo ==
  ASSUME NEW n \in Nat, NEW T, 0 \in T, \A k \in 0 .. n - 1 : k \in T => k + 1 \in T
  PROVE  \A k \in 0 .. n : k \in T
<1> DEFINE Bad == {k \in 0 .. n : k \notin T}
<1> SUFFICES ASSUME Bad # {} PROVE FALSE
  OBVIOUS
<1>1. PICK m \in Bad : \A j \in Bad : m <= j
  <2>1. Bad \subseteq Nat
    OBVIOUS
  <2> HIDE DEF Bad
  <2> QED BY <2>1, Least
<1>2. m \in 1 .. n /\ m \notin T
  OBVIOUS
<1>3. m - 1 \notin Bad
  <2>1. m \in Nat /\ ~ (m <= m - 1)
    BY <1>2
  <2> HIDE DEF Bad
  <2> QED BY <1>1, <2>1
<1> QED BY <1>2, <1>3

\* f is the loop that starts with a and does F[k] at its k-th turn.
LoopOf(f, n, a, F) == f = [k \in 0 .. n |-> IF k = 0 THEN a ELSE F[k][f[k - 1]]]

\* A loop that counts from 0 to n takes its state from one set to the next.
LEMMA LoopRuns ==
  ASSUME NEW n \in Nat, NEW S, NEW F, NEW a, a \in S[0],
         \A k \in 1 .. n : \A s \in S[k - 1] : F[k][s] \in S[k]
  PROVE  \E f : LoopOf(f, n, a, F) /\ \A k \in 0 .. n : f[k] \in S[k]
<1> DEFINE Upto(m, f) == /\ f = [k \in 0 .. m |-> IF k = 0 THEN a ELSE F[k][f[k - 1]]]
                         /\ \A k \in 0 .. m : f[k] \in S[k]
           T == {m \in 0 .. n : \E f : Upto(m, f)}
<1>1. 0 \in T
  <2> DEFINE g == [k \in 0 .. 0 |-> a]
  <2>1. \A k \in 0 .. 0 : k = 0 /\ g[k] = a
    OBVIOUS
  <2>2. g = [k \in 0 .. 0 |-> IF k = 0 THEN a ELSE F[k][g[k - 1]]]
    BY <2>1
  <2>3. Upto(0, g)
    BY <2>1, <2>2
  <2> HIDE DEF Upto, g
  <2> QED BY <2>3
<1>2. ASSUME NEW m \in 0 .. n - 1, m \in T PROVE m + 1 \in T
  <2>1. PICK f : Upto(m, f)
    <3> HIDE DEF Upto
    <3> QED BY <1>2
  <2> DEFINE g == [k \in 0 .. m + 1 |-> IF k = m + 1 THEN F[m + 1][f[m]] ELSE f[k]]
  <2>2. /\ m \in 0 .. m /\ m + 1 \in 1 .. n /\ m + 1 \in 0 .. n
        /\ \A k \in 0 .. m + 1 : k = m + 1 \/ (k \in 0 .. m /\ k # m + 1)
    <3> HIDE DEF T
    <3> QED OBVIOUS
  <2>3. \A k \in 0 .. m : f[k] = IF k = 0 THEN a ELSE F[k][f[k - 1]]
    BY <2>1
  <2>4. \A k \in 0 .. m : g[k] = f[k] /\ (k # 0 => g[k - 1] = f[k - 1])
    OBVIOUS
  <2>5. g[m + 1] = F[m + 1][g[m]] /\ m + 1 # 0 /\ (m + 1) - 1 = m
    BY <2>2
  <2>6. F[m + 1][f[m]] \in S[m + 1]
    BY <2>1, <2>2, <2>5
  <2>7. \A k \in 0 .. m + 1 : g[k] = IF k = 0 THEN a ELSE F[k][g[k - 1]]
    BY <2>2, <2>3, <2>4, <2>5
  <2>8. \A k \in 0 .. m + 1 : g[k] \in S[k]
    BY <2>1, <2>2, <2>4, <2>6
  <2>9. Upto(m + 1, g)
    BY <2>7, <2>8
  <2> HIDE DEF Upto, g
  <2> QED BY <2>2, <2>9
<1>3. n \in T
  <2>1. \A k \in 0 .. n : k \in T
    <3> HIDE DEF T
    <3> QED BY <1>1, <1>2, UpTo
  <2> HIDE DEF T
  <2> QED BY <2>1
<1>4. PICK f : Upto(n, f)
  <2> HIDE DEF Upto
  <2> QED BY <1>3
<1>5. LoopOf(f, n, a, F)
  BY <1>4 DEF LoopOf
<1> QED BY <1>4, <1>5

\* What holds of the empty path, and of a longer one whenever it holds, holds of all.
LEMMA PathInduction ==
  ASSUME NEW T, <<>> \in T,
         \A p \in Seq(Keys), k \in Keys : p \in T => Append(p, k) \in T
  PROVE  \A p \in Seq(Keys) : p \in T
<1> DEFINE Bad == {Len(p) : p \in {q \in Seq(Keys) : q \notin T}}
<1> SUFFICES ASSUME Bad # {} PROVE FALSE
  OBVIOUS
<1>1. Bad \subseteq Nat
  BY LenProperties
<1>2. PICK m \in Bad : \A j \in Bad : m <= j
  <2> HIDE DEF Bad
  <2> QED BY <1>1, Least
<1>3. PICK p \in Seq(Keys) : p \notin T /\ Len(p) = m
  OBVIOUS
<1>4. PICK q \in Seq(Keys), k \in Keys : p = Append(q, k)
  BY <1>3, SequenceEmptyOrAppend
<1>5. Len(q) \in Nat /\ m = Len(q) + 1
  BY <1>3, <1>4, AppendProperties, LenProperties
<1>6. Len(q) \in Bad
  BY <1>3, <1>4
<1> HIDE DEF Bad
<1> QED BY <1>2, <1>5, <1>6

--------------------------------------------------------------------------------
(* The heap, and the ways through it.                                      *)

Map   == UNION {[D -> Nat] : D \in {E \in SUBSET Keys : IsFiniteSet(E)}}
Value == {Nil} \cup 1 .. MaxLines
Zval  == [arr : BOOLEAN, val : Value, map : Map]

\* Every zval has a depth, the returned array alone the depth 0, and an element is
\* one deeper than its array: no array is within itself.
Leveled(h, depth) ==
  /\ h \in Seq(Zval) /\ depth \in [DOMAIN h -> 0 .. Deepest]
  /\ 1 \in DOMAIN h /\ h[1].arr
  /\ \A z \in DOMAIN h : depth[z] = 0 <=> z = 1
  /\ \A z \in DOMAIN h : \A k \in DOMAIN h[z].map :
       h[z].arr /\ h[z].map[k] \in DOMAIN h /\ depth[h[z].map[k]] = depth[z] + 1

\* The path p leads from z to x.
Leads(h, z, p, x) == [path |-> p, at |-> x] \in Walks(h, z)

\* An array's elements have keys and places.
LEMMA MapType ==
  ASSUME NEW m \in Map
  PROVE  /\ DOMAIN m \subseteq Keys /\ IsFiniteSet(DOMAIN m)
         /\ \A k \in DOMAIN m : m[k] \in Nat
         /\ m = [k \in DOMAIN m |-> m[k]]
<1>1. PICK D \in {E \in SUBSET Keys : IsFiniteSet(E)} : m \in [D -> Nat]
  BY DEF Map
<1> QED BY <1>1

\* What is a function from keys to places is the map of an array.
LEMMA MapMade ==
  ASSUME NEW m, m = [k \in DOMAIN m |-> m[k]], DOMAIN m \subseteq Keys, IsFiniteSet(DOMAIN m),
         \A k \in DOMAIN m : m[k] \in Nat
  PROVE  m \in Map
<1>1. m \in [DOMAIN m -> Nat] /\ DOMAIN m \in {E \in SUBSET Keys : IsFiniteSet(E)}
  OBVIOUS
<1> QED BY <1>1 DEF Map

\* The parts of a heap.
LEMMA HeapParts ==
  ASSUME NEW h, NEW depth, Leveled(h, depth)
  PROVE  /\ Len(h) \in Nat \ {0} /\ DOMAIN h = 1 .. Len(h)
         /\ \A z \in DOMAIN h :
              /\ h[z] \in Zval /\ h[z].arr \in BOOLEAN /\ h[z].map \in Map
              /\ depth[z] \in 0 .. Deepest
              /\ \A k \in DOMAIN h[z].map : k \in Keys
<1>1. Len(h) \in Nat /\ DOMAIN h = 1 .. Len(h) /\ \A z \in 1 .. Len(h) : h[z] \in Zval
  BY LenProperties, ElementOfSeq DEF Leveled
<1>2. 1 \in 1 .. Len(h)
  BY <1>1 DEF Leveled
<1>3. \A z \in DOMAIN h : h[z].arr \in BOOLEAN /\ h[z].map \in Map
  BY <1>1 DEF Zval
<1> QED BY <1>1, <1>2, <1>3, MapType DEF Leveled

\* Walks, a key at a time.
LEMMA WalksByLength ==
  ASSUME NEW h, NEW depth, Leveled(h, depth), NEW z \in DOMAIN h
  PROVE  \E W : /\ Walks(h, z) = UNION {W[n] : n \in 0 .. Deepest}
                /\ W[0] = {[path |-> <<>>, at |-> z]}
                /\ \A n \in 1 .. Deepest : \A w :
                     w \in W[n] <=> \E v \in W[n - 1] : \E k \in DOMAIN h[v.at].map :
                                      w = [path |-> Append(v.path, k), at |-> h[v.at].map[k]]
                /\ \A n \in 0 .. Deepest : \A w \in W[n] :
                     /\ w \in [path : Seq(Keys), at : DOMAIN h]
                     /\ Len(w.path) = n /\ depth[w.at] = depth[z] + n
<1> DEFINE Longer(w) ==
             {[path |-> Append(w.path, k), at |-> h[w.at].map[k]] : k \in DOMAIN h[w.at].map}
           Way(n) == {w \in [path : Seq(Keys), at : DOMAIN h] :
                        Len(w.path) = n /\ depth[w.at] = depth[z] + n}
           S == [n \in 0 .. Deepest |-> SUBSET Way(n)]
           F == [n \in 1 .. Deepest |-> [s \in S[n - 1] |-> UNION {Longer(w) : w \in s}]]
           a == {[path |-> <<>>, at |-> z]}
           IsWalks(W) == W = [n \in 0 .. Deepest |-> IF n = 0 THEN a ELSE UNION {Longer(w) : w \in W[n - 1]}]
<1>0. Deepest \in Nat /\ \A n \in 1 .. Deepest : n \in Nat /\ n - 1 \in 0 .. Deepest /\ n \in 0 .. Deepest /\ n # 0
  BY IniAssumption
<1>1. a \in S[0]
  <2>1. [path |-> <<>>, at |-> z] \in [path : Seq(Keys), at : DOMAIN h]
    OBVIOUS
  <2>2. Len(<<>>) = 0 /\ depth[z] = depth[z] + 0
    BY HeapParts, EmptySeq
  <2>3. [path |-> <<>>, at |-> z] \in Way(0)
    BY <2>1, <2>2
  <2> HIDE DEF Way
  <2>4. a \in SUBSET Way(0) /\ 0 \in 0 .. Deepest
    BY <2>3, <1>0
  <2> QED BY <2>4
<1>2. ASSUME NEW n \in 1 .. Deepest, NEW w \in Way(n - 1), NEW u \in Longer(w)
      PROVE  u \in Way(n)
  <2>1. PICK k \in DOMAIN h[w.at].map : u = [path |-> Append(w.path, k), at |-> h[w.at].map[k]]
    OBVIOUS
  <2>2. /\ w.path \in Seq(Keys) /\ w.at \in DOMAIN h /\ Len(w.path) = n - 1
        /\ depth[w.at] = depth[z] + (n - 1)
    OBVIOUS
  <2>3. k \in Keys /\ h[w.at].map[k] \in DOMAIN h /\ depth[h[w.at].map[k]] = depth[w.at] + 1
    <3> HIDE DEF Way, Longer
    <3>1. k \in Keys
      BY <2>1, <2>2, HeapParts
    <3> QED BY <2>1, <2>2, <3>1 DEF Leveled
  <2>4. Append(w.path, k) \in Seq(Keys) /\ Len(Append(w.path, k)) = n
    BY <2>2, <2>3, <1>0, AppendProperties
  <2>5. depth[h[w.at].map[k]] = depth[z] + n
    <3>1. depth[z] \in Nat /\ n \in Nat
      BY <1>0, HeapParts
    <3> QED BY <2>2, <2>3, <3>1
  <2> HIDE DEF Longer
  <2> QED BY <2>1, <2>3, <2>4, <2>5
<1>3. ASSUME NEW n \in 1 .. Deepest, NEW s \in S[n - 1]
      PROVE  F[n][s] \in S[n] /\ F[n][s] = UNION {Longer(w) : w \in s}
  <2> HIDE DEF Longer, Way
  <2>1. s \in SUBSET Way(n - 1)
    BY <1>0
  <2>2. F[n][s] = UNION {Longer(w) : w \in s}
    BY <1>0, <2>1
  <2>3. \A w \in s : Longer(w) \subseteq Way(n)
    BY <1>2, <2>1
  <2>4. UNION {Longer(w) : w \in s} \subseteq Way(n)
    BY <2>3
  <2> QED BY <2>2, <2>4, <1>0
<1>4. \E W : IsWalks(W) /\ \A n \in 0 .. Deepest : W[n] \in S[n]
  <2>1. PICK W : LoopOf(W, Deepest, a, F) /\ \A n \in 0 .. Deepest : W[n] \in S[n]
    <3>1. \A n \in 1 .. Deepest : \A s \in S[n - 1] : F[n][s] \in S[n]
      <4> HIDE DEF S, F, a
      <4> QED BY <1>3
    <3> HIDE DEF S, F, a
    <3> QED BY <1>0, <1>1, <3>1, LoopRuns
  <2>2. \A n \in 0 .. Deepest : n # 0 => n \in 1 .. Deepest /\ W[n - 1] \in S[n - 1]
    <3> HIDE DEF S, F, a
    <3>1. \A n \in 0 .. Deepest : n # 0 => n \in 1 .. Deepest /\ n - 1 \in 0 .. Deepest
      BY <1>0
    <3> QED BY <2>1, <3>1
  <2>3. \A n \in 0 .. Deepest : W[n] = IF n = 0 THEN a ELSE UNION {Longer(w) : w \in W[n - 1]}
    <3> HIDE DEF S, F, a, Longer
    <3> SUFFICES ASSUME NEW n \in 0 .. Deepest
                 PROVE  W[n] = IF n = 0 THEN a ELSE UNION {Longer(w) : w \in W[n - 1]}
      OBVIOUS
    <3>1. W[n] = IF n = 0 THEN a ELSE F[n][W[n - 1]]
      BY <2>1 DEF LoopOf
    <3>2. n # 0 => F[n][W[n - 1]] = UNION {Longer(w) : w \in W[n - 1]}
      BY <2>2, <1>3
    <3> QED BY <3>1, <3>2
  <2>4. IsWalks(W)
    <3> HIDE DEF S, F, a, Longer
    <3> QED BY <2>1, <2>3 DEF LoopOf
  <2> HIDE DEF IsWalks, S
  <2> QED BY <2>1, <2>4
<1> DEFINE W == CHOOSE W : IsWalks(W)
<1>5. IsWalks(W)
  <2> HIDE DEF IsWalks
  <2> QED BY <1>4, Zenon
<1>6. Walks(h, z) = UNION {W[n] : n \in 0 .. Deepest}
  BY DEF Walks
<1> HIDE DEF W
<1>7. W[0] = a /\ \A n \in 1 .. Deepest : W[n] = UNION {Longer(w) : w \in W[n - 1]}
  <2> HIDE DEF Longer, a
  <2> QED BY <1>0, <1>5
<1>8. \A n \in 0 .. Deepest : W[n] \in SUBSET Way(n)
  <2> DEFINE T == {n \in 0 .. Deepest : W[n] \in SUBSET Way(n)}
  <2> HIDE DEF Longer, Way
  <2>1. 0 \in T
    <3>1. 0 \in 0 .. Deepest
      BY <1>0
    <3> QED BY <3>1, <1>1, <1>7
  <2>2. ASSUME NEW n \in 0 .. Deepest - 1, n \in T PROVE n + 1 \in T
    <3>1. n + 1 \in 1 .. Deepest /\ (n + 1) - 1 = n /\ n + 1 \in 0 .. Deepest
      BY <1>0
    <3>2. \A w \in W[n] : Longer(w) \subseteq Way(n + 1)
      BY <1>2, <2>2, <3>1
    <3>3. W[n + 1] = UNION {Longer(w) : w \in W[n]}
      BY <1>7, <3>1
    <3>4. W[n + 1] \subseteq Way(n + 1)
      BY <3>2, <3>3
    <3> QED BY <3>1, <3>4
  <2>3. \A n \in 0 .. Deepest : n \in T
    <3> HIDE DEF T
    <3> QED BY <1>0, <2>1, <2>2, UpTo
  <2> QED BY <2>3
<1>9. ASSUME NEW n \in 1 .. Deepest, NEW w
      PROVE  w \in W[n] <=> \E v \in W[n - 1] : \E k \in DOMAIN h[v.at].map :
                              w = [path |-> Append(v.path, k), at |-> h[v.at].map[k]]
  <2>1. w \in W[n] <=> \E v \in W[n - 1] : w \in Longer(v)
    <3> HIDE DEF Longer
    <3> QED BY <1>7
  <2> QED BY <2>1
<1>10. \A n \in 0 .. Deepest : \A w \in W[n] :
         /\ w \in [path : Seq(Keys), at : DOMAIN h]
         /\ Len(w.path) = n /\ depth[w.at] = depth[z] + n
  BY <1>8
<1> QED BY <1>6, <1>7, <1>9, <1>10
\* Where the paths from z lead, key by key.
LEMMA LeadsRules ==
  ASSUME NEW h, NEW depth, Leveled(h, depth), NEW z \in DOMAIN h
  PROVE  /\ \A w \in Walks(h, z) : Leads(h, z, w.path, w.at)
         /\ \A p, x : Leads(h, z, p, x) =>
              p \in Seq(Keys) /\ x \in DOMAIN h /\ depth[x] = depth[z] + Len(p)
         /\ \A x : Leads(h, z, <<>>, x) <=> x = z
         /\ \A p \in Seq(Keys), k \in Keys : \A x :
              Leads(h, z, Append(p, k), x) <=>
                \E y : Leads(h, z, p, y) /\ k \in DOMAIN h[y].map /\ x = h[y].map[k]
<1>1. PICK W : /\ Walks(h, z) = UNION {W[n] : n \in 0 .. Deepest}
               /\ W[0] = {[path |-> <<>>, at |-> z]}
               /\ \A n \in 1 .. Deepest : \A w :
                    w \in W[n] <=> \E v \in W[n - 1] : \E k \in DOMAIN h[v.at].map :
                                     w = [path |-> Append(v.path, k), at |-> h[v.at].map[k]]
               /\ \A n \in 0 .. Deepest : \A w \in W[n] :
                    /\ w \in [path : Seq(Keys), at : DOMAIN h]
                    /\ Len(w.path) = n /\ depth[w.at] = depth[z] + n
  BY WalksByLength
<1>2. \A w \in Walks(h, z) : \E n \in 0 .. Deepest : w \in W[n]
  BY <1>1
<1>3. \A n \in 0 .. Deepest : \A w \in W[n] : w \in Walks(h, z)
  BY <1>1
<1>4. \A w \in Walks(h, z) :
        /\ w \in [path : Seq(Keys), at : DOMAIN h]
        /\ Len(w.path) \in 0 .. Deepest /\ w \in W[Len(w.path)]
        /\ depth[w.at] = depth[z] + Len(w.path)
  BY <1>1, <1>2
<1>5. \A p, x : Leads(h, z, p, x) =>
        /\ p \in Seq(Keys) /\ x \in DOMAIN h /\ depth[x] = depth[z] + Len(p)
        /\ Len(p) \in 0 .. Deepest /\ [path |-> p, at |-> x] \in W[Len(p)]
  BY <1>4 DEF Leads
<1>6. ASSUME NEW x PROVE Leads(h, z, <<>>, x) <=> x = z
  <2>1. Len(<<>>) = 0 /\ 0 \in 0 .. Deepest
    BY EmptySeq, IniAssumption
  <2>2. Leads(h, z, <<>>, x) => x = z
    <3>1. SUFFICES ASSUME Leads(h, z, <<>>, x) PROVE x = z
      OBVIOUS
    <3>2. [path |-> <<>>, at |-> x] \in W[0]
      BY <1>5, <2>1, <3>1
    <3>3. [path |-> <<>>, at |-> x] = [path |-> <<>>, at |-> z]
      BY <1>1, <3>2
    <3> QED BY <3>3
  <2>3. Leads(h, z, <<>>, z)
    BY <1>1, <1>3, <2>1 DEF Leads
  <2> QED BY <2>2, <2>3
<1>7. ASSUME NEW p \in Seq(Keys), NEW k \in Keys, NEW x
      PROVE  Leads(h, z, Append(p, k), x) <=>
               \E y : Leads(h, z, p, y) /\ k \in DOMAIN h[y].map /\ x = h[y].map[k]
  <2> DEFINE n == Len(p) + 1
             w == [path |-> Append(p, k), at |-> x]
  <2>1. /\ n \in Nat /\ n # 0 /\ n - 1 = Len(p)
        /\ Append(p, k) \in Seq(Keys) /\ Len(Append(p, k)) = n
    BY AppendProperties, LenProperties
  <2>2. ASSUME Leads(h, z, Append(p, k), x)
        PROVE  \E y : Leads(h, z, p, y) /\ k \in DOMAIN h[y].map /\ x = h[y].map[k]
    <3>1. n \in 1 .. Deepest /\ w \in W[n]
      <4>1. Len(Append(p, k)) \in 0 .. Deepest /\ w \in W[Len(Append(p, k))]
        BY <2>2, <1>5
      <4> HIDE DEF n, w
      <4> QED BY <2>1, <4>1
    <3>2. PICK v \in W[n - 1] : \E j \in DOMAIN h[v.at].map :
             w = [path |-> Append(v.path, j), at |-> h[v.at].map[j]]
      BY <1>1, <3>1
    <3>3. PICK j \in DOMAIN h[v.at].map :
             w = [path |-> Append(v.path, j), at |-> h[v.at].map[j]]
      BY <3>2
    <3>4. n - 1 \in 0 .. Deepest /\ v \in [path : Seq(Keys), at : DOMAIN h] /\ v \in Walks(h, z)
      <4>1. n - 1 \in 0 .. Deepest
        <5> HIDE DEF n
        <5> QED BY <2>1, <3>1, IniAssumption
      <4> QED BY <1>1, <1>3, <4>1, <3>2
    <3>5. j \in Keys
      BY <3>3, <3>4, HeapParts
    <3>6. Append(p, k) = Append(v.path, j) /\ x = h[v.at].map[j]
      BY <3>3
    <3>7. p = v.path /\ k = j
      BY <3>4, <3>5, <3>6, AppendInjective
    <3>8. Leads(h, z, p, v.at)
      BY <3>4, <3>7 DEF Leads
    <3> QED BY <3>3, <3>6, <3>7, <3>8
  <2>3. ASSUME NEW y, Leads(h, z, p, y), k \in DOMAIN h[y].map, x = h[y].map[k]
        PROVE  Leads(h, z, Append(p, k), x)
    <3>1. /\ y \in DOMAIN h /\ depth[y] = depth[z] + Len(p)
          /\ [path |-> p, at |-> y] \in W[Len(p)]
      BY <2>3, <1>5
    <3>2. x \in DOMAIN h /\ depth[x] = depth[y] + 1
      BY <2>3, <3>1 DEF Leveled
    <3>3. n \in 1 .. Deepest
      <4>1. depth[z] \in 0 .. Deepest /\ depth[x] \in 0 .. Deepest /\ Deepest \in Nat
        BY <3>2, HeapParts, IniAssumption
      <4>2. depth[x] = depth[z] + Len(p) + 1 /\ Len(p) \in Nat
        BY <3>1, <3>2, LenProperties
      <4> QED BY <4>1, <4>2
    <3> DEFINE v == [path |-> p, at |-> y]
    <3>4. v \in W[n - 1] /\ k \in DOMAIN h[v.at].map
          /\ w = [path |-> Append(v.path, k), at |-> h[v.at].map[k]]
      BY <2>1, <2>3, <3>1
    <3> HIDE DEF v, w
    <3>5. w \in W[n]
      <4> HIDE DEF n
      <4>1. w \in W[n] <=> \E u \in W[n - 1] : \E j \in DOMAIN h[u.at].map :
                              w = [path |-> Append(u.path, j), at |-> h[u.at].map[j]]
        BY <1>1, <3>3
      <4> QED BY <3>4, <4>1
    <3>6. n \in 0 .. Deepest
      BY <3>3
    <3>7. w \in Walks(h, z)
      BY <3>5, <3>6, <1>3
    <3> QED BY <3>7 DEF Leads, w
  <2> QED BY <2>2, <2>3
<1>8. \A w \in Walks(h, z) : Leads(h, z, w.path, w.at)
  <2>1. \A w \in Walks(h, z) : w = [path |-> w.path, at |-> w.at]
    BY <1>4
  <2> QED BY <2>1 DEF Leads
<1> QED BY <1>5, <1>6, <1>7, <1>8
\* A path leads to one place.
LEMMA OnePlace ==
  ASSUME NEW h, NEW depth, Leveled(h, depth), NEW z \in DOMAIN h
  PROVE  \A p, x, y : Leads(h, z, p, x) /\ Leads(h, z, p, y) => x = y
<1> DEFINE T == {p \in Seq(Keys) : \A x, y : Leads(h, z, p, x) /\ Leads(h, z, p, y) => x = y}
<1>1. <<>> \in T
  BY LeadsRules
<1>2. ASSUME NEW p \in Seq(Keys), NEW k \in Keys, p \in T PROVE Append(p, k) \in T
  <2>1. Append(p, k) \in Seq(Keys)
    BY AppendProperties
  <2>2. ASSUME NEW x, NEW y, Leads(h, z, Append(p, k), x), Leads(h, z, Append(p, k), y)
        PROVE  x = y
    <3>1. PICK u : Leads(h, z, p, u) /\ x = h[u].map[k]
      BY <2>2, LeadsRules
    <3>2. PICK v : Leads(h, z, p, v) /\ y = h[v].map[k]
      BY <2>2, LeadsRules
    <3> QED BY <1>2, <3>1, <3>2
  <2> QED BY <2>1, <2>2
<1>3. \A p \in Seq(Keys) : p \in T
  <2> HIDE DEF T
  <2> QED BY <1>1, <1>2, PathInduction
<1> QED BY <1>3, LeadsRules

\* A longer path goes through where its beginning leads.
LEMMA LeadsConcat ==
  ASSUME NEW h, NEW depth, Leveled(h, depth), NEW z \in DOMAIN h,
         NEW p \in Seq(Keys), NEW y, Leads(h, z, p, y)
  PROVE  \A q \in Seq(Keys) : \A x : Leads(h, z, p \o q, x) <=> Leads(h, y, q, x)
<1>0. y \in DOMAIN h
  BY LeadsRules
<1>R. \A s \in Seq(Keys), j \in Keys : \A u :
        Leads(h, z, Append(s, j), u) <=>
          \E v : Leads(h, z, s, v) /\ j \in DOMAIN h[v].map /\ u = h[v].map[j]
  BY LeadsRules
<1> DEFINE T == {q \in Seq(Keys) : \A x : Leads(h, z, p \o q, x) <=> Leads(h, y, q, x)}
<1>1. <<>> \in T
  <2>1. p \o <<>> = p /\ <<>> \in Seq(Keys)
    BY ConcatEmptySeq, EmptySeq
  <2>2. \A x : Leads(h, z, p, x) <=> x = y
    BY OnePlace
  <2>3. \A x : Leads(h, y, <<>>, x) <=> x = y
    BY <1>0, LeadsRules
  <2> QED BY <2>1, <2>2, <2>3
<1>2. ASSUME NEW q \in Seq(Keys), NEW k \in Keys, q \in T PROVE Append(q, k) \in T
  <2>1. Append(q, k) \in Seq(Keys) /\ p \o q \in Seq(Keys) /\ p \o Append(q, k) = Append(p \o q, k)
    <3>1. /\ Append(q, k) \in Seq(Keys) /\ p \o q \in Seq(Keys) /\ <<k>> \in Seq(Keys)
          /\ Append(q, k) = q \o <<k>> /\ Append(p \o q, k) = (p \o q) \o <<k>>
      BY AppendProperties, ConcatProperties, AppendIsConcat
    <3> QED BY <3>1, ConcatAssociative
  <2>2. ASSUME NEW x PROVE Leads(h, z, p \o Append(q, k), x) <=> Leads(h, y, Append(q, k), x)
    <3>1. Leads(h, z, Append(p \o q, k), x) <=>
            \E u : Leads(h, z, p \o q, u) /\ k \in DOMAIN h[u].map /\ x = h[u].map[k]
      <4> DEFINE s == p \o q
      <4>1. s \in Seq(Keys)
        BY <2>1
      <4> HIDE DEF s
      <4>2. Leads(h, z, Append(s, k), x) <=>
              \E u : Leads(h, z, s, u) /\ k \in DOMAIN h[u].map /\ x = h[u].map[k]
        BY <4>1, <1>R
      <4> QED BY <4>2 DEF s
    <3>2. Leads(h, y, Append(q, k), x) <=>
            \E u : Leads(h, y, q, u) /\ k \in DOMAIN h[u].map /\ x = h[u].map[k]
      BY <1>0, LeadsRules
    <3> QED BY <1>2, <2>1, <3>1, <3>2
  <2> QED BY <2>1, <2>2
<1>3. \A q \in Seq(Keys) : q \in T
  <2> HIDE DEF T
  <2> QED BY <1>1, <1>2, PathInduction
<1> QED BY <1>3

\* A path of several keys begins with one that leads to an array.
LEMMA LeadsFirst ==
  ASSUME NEW h, NEW depth, Leveled(h, depth), NEW z \in DOMAIN h,
         NEW k \in Keys, NEW q \in Seq(Keys), NEW x
  PROVE  Leads(h, z, <<k>> \o q, x) <=> k \in DOMAIN h[z].map /\ Leads(h, h[z].map[k], q, x)
<1> DEFINE T == {s \in Seq(Keys) : \A u : Leads(h, z, <<k>> \o s, u) => k \in DOMAIN h[z].map}
<1>0. /\ <<k>> \in Seq(Keys) /\ <<>> \in Seq(Keys)
      /\ Append(<<>>, k) = <<k>>
  OBVIOUS
<1>R. \A s \in Seq(Keys), j \in Keys : \A u :
        Leads(h, z, Append(s, j), u) <=>
          \E v : Leads(h, z, s, v) /\ j \in DOMAIN h[v].map /\ u = h[v].map[j]
  BY LeadsRules
<1>1. \A u : Leads(h, z, <<k>>, u) <=> k \in DOMAIN h[z].map /\ u = h[z].map[k]
  <2>1. \A v : Leads(h, z, <<>>, v) <=> v = z
    BY LeadsRules
  <2>2. \A u : Leads(h, z, Append(<<>>, k), u) <=>
          \E v : Leads(h, z, <<>>, v) /\ k \in DOMAIN h[v].map /\ u = h[v].map[k]
    BY <1>0, <1>R
  <2> QED BY <1>0, <2>1, <2>2
<1>2. <<>> \in T
  BY <1>0, <1>1, ConcatEmptySeq
<1>3. ASSUME NEW s \in Seq(Keys), NEW j \in Keys, s \in T PROVE Append(s, j) \in T
  <2>1. /\ Append(s, j) \in Seq(Keys) /\ <<k>> \o s \in Seq(Keys)
        /\ <<k>> \o Append(s, j) = Append(<<k>> \o s, j)
    <3>1. /\ Append(s, j) \in Seq(Keys) /\ <<k>> \o s \in Seq(Keys) /\ <<j>> \in Seq(Keys)
          /\ Append(s, j) = s \o <<j>> /\ Append(<<k>> \o s, j) = (<<k>> \o s) \o <<j>>
      BY <1>0, AppendProperties, ConcatProperties, AppendIsConcat
    <3> QED BY <1>0, <3>1, ConcatAssociative
  <2>2. \A u : Leads(h, z, Append(<<k>> \o s, j), u) => \E v : Leads(h, z, <<k>> \o s, v)
    BY <2>1, <1>R
  <2> QED BY <1>3, <2>1, <2>2
<1>4. \A s \in Seq(Keys) : s \in T
  <2> HIDE DEF T
  <2> QED BY <1>2, <1>3, PathInduction
<1>5. CASE k \in DOMAIN h[z].map
  <2>1. Leads(h, z, <<k>>, h[z].map[k])
    BY <1>1, <1>5
  <2>2. \A s \in Seq(Keys) : \A u : Leads(h, z, <<k>> \o s, u) <=> Leads(h, h[z].map[k], s, u)
    <3> DEFINE one == <<k>>
    <3>1. one \in Seq(Keys) /\ Leads(h, z, one, h[z].map[k])
      BY <1>0, <2>1
    <3> HIDE DEF one
    <3>2. \A s \in Seq(Keys) : \A u : Leads(h, z, one \o s, u) <=> Leads(h, h[z].map[k], s, u)
      BY <3>1, LeadsConcat
    <3> QED BY <3>2 DEF one
  <2> QED BY <1>5, <2>2
<1>6. CASE k \notin DOMAIN h[z].map
  BY <1>4, <1>6
<1> QED BY <1>5, <1>6

\* Two heaps with the same arrays on the way have the same ways.
LEMMA SameWays ==
  ASSUME NEW h, NEW depth, Leveled(h, depth), NEW g, NEW level, Leveled(g, level),
         NEW z \in DOMAIN h \cap DOMAIN g,
         \A p, y : Leads(h, z, p, y) => g[y].map = h[y].map
  PROVE  \A p, x : Leads(g, z, p, x) <=> Leads(h, z, p, x)
<1> DEFINE T == {p \in Seq(Keys) : \A x : Leads(g, z, p, x) <=> Leads(h, z, p, x)}
<1>1. <<>> \in T
  BY LeadsRules, EmptySeq
<1>2. ASSUME NEW p \in Seq(Keys), NEW k \in Keys, p \in T PROVE Append(p, k) \in T
  <2>1. Append(p, k) \in Seq(Keys)
    BY AppendProperties
  <2>2. ASSUME NEW x PROVE Leads(g, z, Append(p, k), x) <=> Leads(h, z, Append(p, k), x)
    <3>1. Leads(h, z, Append(p, k), x) <=>
            \E u : Leads(h, z, p, u) /\ k \in DOMAIN h[u].map /\ x = h[u].map[k]
      BY LeadsRules
    <3>2. Leads(g, z, Append(p, k), x) <=>
            \E u : Leads(g, z, p, u) /\ k \in DOMAIN g[u].map /\ x = g[u].map[k]
      BY LeadsRules
    <3> QED BY <1>2, <3>1, <3>2
  <2> QED BY <2>1, <2>2
<1>3. \A p \in Seq(Keys) : p \in T
  <2> HIDE DEF T
  <2> QED BY <1>1, <1>2, PathInduction
<1> QED BY <1>3, LeadsRules
--------------------------------------------------------------------------------
(* Beginnings of a path.                                                   *)

\* A path begins with another if it has its keys in their places.
LEMMA PrefixPoints ==
  ASSUME NEW s \in Seq(Keys), NEW t \in Seq(Keys)
  PROVE  IsPrefix(s, t) <=> Len(s) <= Len(t) /\ \A i \in 1 .. Len(s) : t[i] = s[i]
<1>0. Len(s) \in Nat /\ Len(t) \in Nat /\ SubSeq(s, 1, Len(s)) = s
  BY LenProperties, SubSeqFull
<1>1. ASSUME Len(s) <= Len(t)
      PROVE  SubSeq(t, 1, Len(s)) = s <=> \A i \in 1 .. Len(s) : t[i] = s[i]
  <2> DEFINE u == SubSeq(t, 1, Len(s))
  <2>1. \A i \in 1 .. Len(s) : t[i] \in Keys
    BY <1>0, <1>1, ElementOfSeq
  <2>2. /\ u \in Seq(Keys) /\ Len(u) = IF 1 <= Len(s) THEN Len(s) - 1 + 1 ELSE 0
        /\ \A i \in 1 .. Len(s) - 1 + 1 : u[i] = t[1 + i - 1]
    BY <1>0, <2>1, SubSeqProperties
  <2>3. Len(u) = Len(s) /\ \A i \in 1 .. Len(s) : u[i] = t[i]
    <3> HIDE DEF u
    <3> QED BY <1>0, <2>2
  <2>4. u = s <=> \A i \in 1 .. Len(s) : u[i] = s[i]
    <3> HIDE DEF u
    <3> QED BY <2>2, <2>3, SeqEqual
  <2> HIDE DEF u
  <2>5. u = s <=> \A i \in 1 .. Len(s) : t[i] = s[i]
    BY <2>3, <2>4
  <2> QED BY <2>5 DEF u
<1> QED BY <1>0, <1>1 DEF IsPrefix

\* A path begins with another if this one leads on to it.
LEMMA PrefixConcat ==
  ASSUME NEW s \in Seq(Keys), NEW t \in Seq(Keys)
  PROVE  IsPrefix(s, t) <=> \E u \in Seq(Keys) : t = s \o u
<1>0. Len(s) \in Nat /\ Len(t) \in Nat
  BY LenProperties
<1>1. ASSUME IsPrefix(s, t) PROVE \E u \in Seq(Keys) : t = s \o u
  <2> DEFINE n == Len(s)
             u == SubSeq(t, n + 1, Len(t))
  <2>1. n <= Len(t) /\ \A i \in 1 .. n : t[i] = s[i]
    BY <1>1, PrefixPoints
  <2>2. \A i \in n + 1 .. Len(t) : t[i] \in Keys
    BY <1>0, ElementOfSeq
  <2>3. /\ u \in Seq(Keys) /\ Len(u) = IF n + 1 <= Len(t) THEN Len(t) - (n + 1) + 1 ELSE 0
        /\ \A i \in 1 .. Len(t) - (n + 1) + 1 : u[i] = t[n + 1 + i - 1]
    BY <1>0, <2>2, SubSeqProperties
  <2>4. Len(u) = Len(t) - n /\ \A i \in 1 .. Len(t) - n : u[i] = t[n + i]
    <3> HIDE DEF u
    <3> QED BY <1>0, <2>1, <2>3
  <2> HIDE DEF u
  <2>5. /\ s \o u \in Seq(Keys) /\ Len(s \o u) = Len(s) + Len(u)
        /\ \A i \in 1 .. Len(s) + Len(u) : (s \o u)[i] = IF i <= Len(s) THEN s[i] ELSE u[i - Len(s)]
    BY <2>3, ConcatProperties
  <2>6. ASSUME NEW i \in 1 .. Len(t) PROVE (s \o u)[i] = t[i]
    <3>1. (s \o u)[i] = IF i <= n THEN s[i] ELSE u[i - n]
      BY <1>0, <2>4, <2>5
    <3>2. CASE i <= n
      BY <3>1, <3>2, <2>1, <1>0
    <3>3. CASE ~ (i <= n)
      <4>1. i - n \in 1 .. Len(t) - n /\ n + (i - n) = i
        BY <1>0, <3>3
      <4> QED BY <4>1, <3>1, <3>3, <2>4
    <3> QED BY <3>2, <3>3
  <2>7. Len(s \o u) = Len(t)
    BY <1>0, <2>4, <2>5
  <2>8. s \o u = t
    BY <2>5, <2>6, <2>7, SeqEqual
  <2> QED BY <2>3, <2>8
<1>2. ASSUME NEW u \in Seq(Keys), t = s \o u PROVE IsPrefix(s, t)
  <2>1. /\ Len(s \o u) = Len(s) + Len(u) /\ Len(u) \in Nat
        /\ \A i \in 1 .. Len(s) + Len(u) : (s \o u)[i] = IF i <= Len(s) THEN s[i] ELSE u[i - Len(s)]
    BY ConcatProperties, LenProperties
  <2>2. Len(s) <= Len(t) /\ \A i \in 1 .. Len(s) : t[i] = s[i]
    BY <1>0, <1>2, <2>1
  <2> QED BY <2>2, PrefixPoints
<1> QED BY <1>1, <1>2

\* What a path one key longer begins with.
LEMMA PrefixAppend ==
  ASSUME NEW s \in Seq(Keys), NEW q \in Seq(Keys), NEW k \in Keys
  PROVE  IsPrefix(s, Append(q, k)) <=> IsPrefix(s, q) \/ s = Append(q, k)
<1> DEFINE t == Append(q, k)
<1>1. /\ t \in Seq(Keys) /\ Len(t) = Len(q) + 1 /\ \A i \in 1 .. Len(q) : t[i] = q[i]
      /\ Len(s) \in Nat /\ Len(q) \in Nat
  BY AppendProperties, LenProperties
<1> HIDE DEF t
<1>2. IsPrefix(s, t) <=> Len(s) <= Len(t) /\ \A i \in 1 .. Len(s) : t[i] = s[i]
  BY <1>1, PrefixPoints
<1>3. IsPrefix(s, q) <=> Len(s) <= Len(q) /\ \A i \in 1 .. Len(s) : q[i] = s[i]
  BY <1>1, PrefixPoints
<1>4. CASE Len(s) <= Len(q)
  <2>1. \A i \in 1 .. Len(s) : t[i] = q[i]
    BY <1>1, <1>4
  <2>2. s # t
    BY <1>1, <1>4
  <2> QED BY <1>1, <1>2, <1>3, <1>4, <2>1, <2>2 DEF t
<1>5. CASE Len(s) = Len(t)
  <2>1. s = t <=> \A i \in 1 .. Len(s) : t[i] = s[i]
    BY <1>1, <1>5, SeqEqual
  <2>2. Len(s) <= Len(t) /\ ~ (Len(s) <= Len(q))
    BY <1>1, <1>5
  <2> QED BY <1>2, <1>3, <1>5, <2>1, <2>2 DEF t
<1>6. CASE Len(s) > Len(t)
  <2>1. ~ (Len(s) <= Len(t)) /\ ~ (Len(s) <= Len(q)) /\ s # t
    BY <1>1, <1>6
  <2> QED BY <1>2, <1>3, <2>1 DEF t
<1> QED BY <1>1, <1>4, <1>5, <1>6

\* The beginnings of a path are beginnings of each other.
LEMMA PrefixOrder ==
  ASSUME NEW r \in Seq(Keys), NEW s \in Seq(Keys), NEW t \in Seq(Keys)
  PROVE  /\ IsPrefix(<<>>, t) /\ IsPrefix(t, t)
         /\ IsPrefix(t, <<>>) => t = <<>>
         /\ IsPrefix(r, s) /\ IsPrefix(s, t) => IsPrefix(r, t)
         /\ IsPrefix(s, t) /\ IsPrefix(t, s) => s = t
         /\ IsPrefix(r, t) /\ IsPrefix(s, t) => IsPrefix(r, s) \/ IsPrefix(s, r)
<1>0. <<>> \in Seq(Keys) /\ Len(<<>>) = 0 /\ Len(r) \in Nat /\ Len(s) \in Nat /\ Len(t) \in Nat
  BY LenProperties, EmptySeq
<1>1. /\ IsPrefix(<<>>, t) <=> Len(<<>>) <= Len(t) /\ \A i \in 1 .. Len(<<>>) : t[i] = <<>>[i]
      /\ IsPrefix(t, <<>>) <=> Len(t) <= Len(<<>>) /\ \A i \in 1 .. Len(t) : <<>>[i] = t[i]
      /\ IsPrefix(t, t) <=> Len(t) <= Len(t) /\ \A i \in 1 .. Len(t) : t[i] = t[i]
      /\ IsPrefix(r, s) <=> Len(r) <= Len(s) /\ \A i \in 1 .. Len(r) : s[i] = r[i]
      /\ IsPrefix(s, r) <=> Len(s) <= Len(r) /\ \A i \in 1 .. Len(s) : r[i] = s[i]
      /\ IsPrefix(r, t) <=> Len(r) <= Len(t) /\ \A i \in 1 .. Len(r) : t[i] = r[i]
      /\ IsPrefix(s, t) <=> Len(s) <= Len(t) /\ \A i \in 1 .. Len(s) : t[i] = s[i]
      /\ IsPrefix(t, s) <=> Len(t) <= Len(s) /\ \A i \in 1 .. Len(t) : s[i] = t[i]
  BY <1>0, PrefixPoints
<1>2. IsPrefix(<<>>, t) /\ IsPrefix(t, t)
  BY <1>0, <1>1
<1>3. IsPrefix(t, <<>>) => t = <<>>
  BY <1>0, <1>1, EmptySeq
<1>4. IsPrefix(r, s) /\ IsPrefix(s, t) => IsPrefix(r, t)
  BY <1>0, <1>1
<1>5. IsPrefix(s, t) /\ IsPrefix(t, s) => s = t
  BY <1>0, <1>1, SeqEqual
<1>6. IsPrefix(r, t) /\ IsPrefix(s, t) => IsPrefix(r, s) \/ IsPrefix(s, r)
  BY <1>0, <1>1
<1> QED BY <1>2, <1>3, <1>4, <1>5, <1>6
--------------------------------------------------------------------------------
(* What a new element does to the heap.                                    *)

\* zend_symtable_update changes one element of one array.
LEMMA UpdateParts ==
  ASSUME NEW h \in Seq(Zval), NEW d \in DOMAIN h, NEW k \in Keys, NEW z \in Nat
  PROVE  LET g == Update(h, d, k, z)
         IN /\ g \in Seq(Zval) /\ Len(g) = Len(h) /\ DOMAIN g = DOMAIN h
            /\ \A y \in DOMAIN h : y # d => g[y] = h[y]
            /\ g[d].arr = h[d].arr /\ g[d].val = h[d].val
            /\ DOMAIN g[d].map = DOMAIN h[d].map \cup {k} /\ g[d].map[k] = z
            /\ \A j \in DOMAIN h[d].map : j # k => g[d].map[j] = h[d].map[j]
<1> DEFINE m == [j \in DOMAIN h[d].map \cup {k} |-> IF j = k THEN z ELSE h[d].map[j]]
           e == [h[d] EXCEPT !.map = m]
           g == [h EXCEPT ![d] = e]
<1>0. Len(h) \in Nat /\ DOMAIN h = 1 .. Len(h) /\ h[d] \in Zval
  BY LenProperties, ElementOfSeq
<1>1. h[d].map \in Map /\ h[d].arr \in BOOLEAN /\ h[d].val \in Value
  BY <1>0 DEF Zval
<1>2. /\ DOMAIN h[d].map \subseteq Keys /\ IsFiniteSet(DOMAIN h[d].map)
      /\ \A j \in DOMAIN h[d].map : h[d].map[j] \in Nat
  BY <1>1, MapType
<1>3. /\ m = [j \in DOMAIN m |-> m[j]] /\ DOMAIN m = DOMAIN h[d].map \cup {k} /\ m[k] = z
      /\ \A j \in DOMAIN h[d].map : j # k => m[j] = h[d].map[j]
  OBVIOUS
<1>4. m \in Map
  <2>1. DOMAIN m \subseteq Keys /\ \A j \in DOMAIN m : m[j] \in Nat
    <3> HIDE DEF m
    <3> QED BY <1>2, <1>3
  <2>2. IsFiniteSet(DOMAIN m)
    <3>1. IsFiniteSet(DOMAIN h[d].map \cup {k})
      BY <1>2, FS_AddElement
    <3> HIDE DEF m
    <3> QED BY <1>3, <3>1
  <2> HIDE DEF m
  <2> QED BY <1>3, <2>1, <2>2, MapMade
<1>5. e \in Zval /\ e.arr = h[d].arr /\ e.val = h[d].val /\ e.map = m
  <2> HIDE DEF m
  <2> QED BY <1>0, <1>1, <1>4 DEF Zval
<1>6. /\ g \in Seq(Zval) /\ Len(g) = Len(h)
      /\ \A y \in 1 .. Len(h) : g[y] = IF y = d THEN e ELSE h[y]
  <2> HIDE DEF e
  <2> QED BY <1>0, <1>5, ExceptSeq
<1>7. DOMAIN g = DOMAIN h
  <2> HIDE DEF e, m
  <2> QED OBVIOUS
<1>8. Update(h, d, k, z) = g
  BY <1>0 DEF Update
<1> HIDE DEF g, e, m
<1> QED BY <1>0, <1>3, <1>5, <1>6, <1>7, <1>8

\* g is h with the new zval n as element k of d.
IsChild(g, h, n, d, k, node) ==
  /\ g \in Seq(Zval) /\ n = Len(h) + 1 /\ Len(g) = n /\ DOMAIN g = DOMAIN h \cup {n}
  /\ n \in Nat /\ n \notin DOMAIN h /\ g[n] = node
  /\ \A y \in DOMAIN h : y # d => g[y] = h[y]
  /\ g[d].arr = h[d].arr /\ g[d].val = h[d].val
  /\ DOMAIN g[d].map = DOMAIN h[d].map \cup {k} /\ g[d].map[k] = n
  /\ \A j \in DOMAIN h[d].map : j # k => g[d].map[j] = h[d].map[j]

\* A new zval, and an element that is it.
LEMMA ChildParts ==
  ASSUME NEW h \in Seq(Zval), NEW d \in DOMAIN h, NEW k \in Keys, NEW node \in Zval
  PROVE  IsChild(Child(h, d, k, node), h, Len(h) + 1, d, k, node)
<1> DEFINE n == Len(h) + 1
           u == Update(h, d, k, n)
           g == Child(h, d, k, node)
<1>0. Len(h) \in Nat /\ DOMAIN h = 1 .. Len(h) /\ n \in Nat
  BY LenProperties
<1>1. /\ u \in Seq(Zval) /\ Len(u) = Len(h) /\ DOMAIN u = DOMAIN h
      /\ \A y \in DOMAIN h : y # d => u[y] = h[y]
      /\ u[d].arr = h[d].arr /\ u[d].val = h[d].val
      /\ DOMAIN u[d].map = DOMAIN h[d].map \cup {k} /\ u[d].map[k] = n
      /\ \A j \in DOMAIN h[d].map : j # k => u[d].map[j] = h[d].map[j]
  <2> HIDE DEF n
  <2> QED BY <1>0, UpdateParts, SMTT(30)
<1> HIDE DEF u
<1>2. g = Append(u, node)
  BY DEF Child, u
<1> HIDE DEF g
<1>3. /\ g \in Seq(Zval) /\ Len(g) = Len(u) + 1
      /\ \A i \in 1 .. Len(u) : g[i] = u[i]
      /\ g[Len(u) + 1] = node
  BY <1>1, <1>2, AppendProperties
<1>4. DOMAIN g = 1 .. n
  BY <1>1, <1>3, LenProperties
<1>5. DOMAIN g = DOMAIN h \cup {n} /\ n \notin DOMAIN h
  BY <1>0, <1>4
<1>6. g[d] = u[d] /\ \A y \in DOMAIN h : g[y] = u[y]
  BY <1>0, <1>1, <1>3
<1>7. IsChild(g, h, n, d, k, node)
  BY <1>0, <1>1, <1>3, <1>5, <1>6 DEF IsChild, n
<1> QED BY <1>7 DEF g, n

\* It is one deeper than its array.
LEMMA ChildLeveled ==
  ASSUME NEW h, NEW depth, Leveled(h, depth), NEW d \in DOMAIN h, NEW k \in Keys,
         NEW node \in Zval, h[d].arr, depth[d] < Deepest,
         \A j \in DOMAIN node.map :
           node.arr /\ node.map[j] \in DOMAIN h /\ depth[node.map[j]] = depth[d] + 2
  PROVE  \E level : /\ Leveled(Child(h, d, k, node), level)
                    /\ \A z \in DOMAIN h : level[z] = depth[z]
                    /\ level[Len(h) + 1] = depth[d] + 1
<1> DEFINE n == Len(h) + 1
           g == Child(h, d, k, node)
           level == [z \in DOMAIN g |-> IF z = n THEN depth[d] + 1 ELSE depth[z]]
<1>1. h \in Seq(Zval) /\ DOMAIN h = 1 .. Len(h) /\ Len(h) \in Nat \ {0} /\ 1 \in DOMAIN h
  BY HeapParts DEF Leveled
<1>2. /\ g \in Seq(Zval) /\ Len(g) = n /\ DOMAIN g = DOMAIN h \cup {n}
      /\ n \in Nat /\ n \notin DOMAIN h /\ g[n] = node
      /\ \A y \in DOMAIN h : y # d => g[y] = h[y]
      /\ g[d].arr = h[d].arr /\ g[d].val = h[d].val
      /\ DOMAIN g[d].map = DOMAIN h[d].map \cup {k} /\ g[d].map[k] = n
      /\ \A j \in DOMAIN h[d].map : j # k => g[d].map[j] = h[d].map[j]
  <2>1. IsChild(g, h, n, d, k, node)
    BY <1>1, ChildParts
  <2> HIDE DEF g, n, level
  <2> QED BY <2>1 DEF IsChild
<1>3. /\ \A z \in DOMAIN h : depth[z] \in 0 .. Deepest
      /\ Deepest \in Nat
  BY HeapParts, IniAssumption
<1> HIDE DEF g
<1>4. level[n] = depth[d] + 1 /\ \A z \in DOMAIN h : level[z] = depth[z]
  BY <1>2
<1>5. level \in [DOMAIN g -> 0 .. Deepest]
  <2>1. depth[d] + 1 \in 0 .. Deepest
    BY <1>3
  <2> HIDE DEF n
  <2> QED BY <1>2, <1>3, <2>1
<1> HIDE DEF level, n
<1>6. \A z \in DOMAIN g : level[z] = 0 <=> z = 1
  <2>1. level[n] # 0 /\ n # 1
    BY <1>1, <1>2, <1>3, <1>4
  <2> QED BY <1>2, <1>4, <2>1 DEF Leveled
<1>7. ASSUME NEW z \in DOMAIN g, NEW j \in DOMAIN g[z].map
      PROVE  g[z].arr /\ g[z].map[j] \in DOMAIN g /\ level[g[z].map[j]] = level[z] + 1
  <2>1. CASE z = n
    <3>1. node.arr /\ node.map[j] \in DOMAIN h /\ depth[node.map[j]] = depth[d] + 2
      BY <1>2, <1>7, <2>1
    <3>2. level[node.map[j]] = depth[d] + 2 /\ level[z] = depth[d] + 1
      BY <1>4, <2>1, <3>1
    <3> QED BY <1>2, <1>3, <2>1, <3>1, <3>2
  <2>2. CASE z = d /\ j = k
    BY <1>2, <1>4, <2>2
  <2>3. CASE z = d /\ j # k
    <3>1. j \in DOMAIN h[d].map /\ g[z].map[j] = h[d].map[j]
      BY <1>2, <1>7, <2>3
    <3>2. h[d].map[j] \in DOMAIN h /\ depth[h[d].map[j]] = depth[d] + 1
      BY <3>1 DEF Leveled
    <3> QED BY <1>2, <1>4, <2>3, <3>1, <3>2
  <2>4. CASE z \in DOMAIN h /\ z # d
    <3>1. g[z] = h[z]
      BY <1>2, <2>4
    <3>2. h[z].arr /\ h[z].map[j] \in DOMAIN h /\ depth[h[z].map[j]] = depth[z] + 1
      BY <1>7, <2>4, <3>1 DEF Leveled
    <3> QED BY <1>2, <1>4, <2>4, <3>1, <3>2
  <2> QED BY <1>2, <1>7, <2>1, <2>2, <2>3, <2>4
<1>8. 1 \in DOMAIN g /\ g[1].arr
  <2>1. CASE d = 1
    BY <1>1, <1>2, <2>1
  <2>2. CASE d # 1
    BY <1>1, <1>2, <2>2 DEF Leveled
  <2> QED BY <2>1, <2>2
<1>9. Leveled(g, level)
  BY <1>2, <1>5, <1>6, <1>7, <1>8 DEF Leveled
<1> QED BY <1>4, <1>9 DEF g, n
--------------------------------------------------------------------------------
(* What is said of a path, and what a new element changes.                 *)

\* In the array that wcx_ini returns, the path p leads to the value v; to an array;
\* and P, and no other path, leads to z.
Says(h, p, v) == \E x : Leads(h, 1, p, x) /\ ~h[x].arr /\ h[x].val = v
Holds(h, p)   == \E x : Leads(h, 1, p, x) /\ h[x].arr
Own(h, P, z)  == Leads(h, 1, P, z) /\ \A p : Leads(h, 1, p, z) => p = P

\* What a path goes through is an array.
LEMMA ThroughArrays ==
  ASSUME NEW h, NEW depth, Leveled(h, depth), NEW z \in DOMAIN h, NEW q \in Seq(Keys)
  PROVE  \A p \in Seq(Keys) : \A x : Leads(h, z, p, x) /\ IsPrefix(q, p) =>
           p = q \/ \E y : Leads(h, z, q, y) /\ h[y].arr
<1> DEFINE T == {p \in Seq(Keys) : \A x : Leads(h, z, p, x) /\ IsPrefix(q, p) =>
                   p = q \/ \E y : Leads(h, z, q, y) /\ h[y].arr}
<1>1. <<>> \in T
  BY PrefixOrder, EmptySeq
<1>2. ASSUME NEW p \in Seq(Keys), NEW k \in Keys, p \in T PROVE Append(p, k) \in T
  <2>1. Append(p, k) \in Seq(Keys)
    BY AppendProperties
  <2>2. ASSUME NEW x, Leads(h, z, Append(p, k), x), IsPrefix(q, Append(p, k))
        PROVE  Append(p, k) = q \/ \E y : Leads(h, z, q, y) /\ h[y].arr
    <3>1. PICK y : Leads(h, z, p, y) /\ k \in DOMAIN h[y].map
      BY <2>2, LeadsRules
    <3>2. y \in DOMAIN h /\ h[y].arr
      BY <3>1, LeadsRules DEF Leveled
    <3>3. q = Append(p, k) \/ IsPrefix(q, p)
      BY <2>2, PrefixAppend
    <3> QED BY <1>2, <3>1, <3>2, <3>3
  <2> QED BY <2>1, <2>2
<1>3. \A p \in Seq(Keys) : p \in T
  <2> HIDE DEF T
  <2> QED BY <1>1, <1>2, PathInduction
<1> QED BY <1>3

\* So there is a value or an array at the end of a path, and only arrays before it.
LEMMA SaysRules ==
  ASSUME NEW h, NEW depth, Leveled(h, depth)
  PROVE  /\ \A p, v : Says(h, p, v) => p \in Seq(Keys) /\ ~Holds(h, p)
         /\ \A p : Holds(h, p) => p \in Seq(Keys)
         /\ Holds(h, <<>>)
         /\ \A p, u, v : Says(h, p, u) /\ Says(h, p, v) => u = v
         /\ \A p, q \in Seq(Keys) : IsPrefix(q, p) /\ p # q =>
              /\ Holds(h, p) => Holds(h, q)
              /\ \A v : Says(h, p, v) => Holds(h, q)
<1>0. 1 \in DOMAIN h /\ h[1].arr
  BY DEF Leveled
<1>1. \A p, v : Says(h, p, v) => p \in Seq(Keys) /\ ~Holds(h, p)
  BY <1>0, LeadsRules, OnePlace DEF Says, Holds
<1>2. \A p : Holds(h, p) => p \in Seq(Keys)
  BY <1>0, LeadsRules DEF Holds
<1>3. Holds(h, <<>>)
  BY <1>0, LeadsRules DEF Holds
<1>4. \A p, u, v : Says(h, p, u) /\ Says(h, p, v) => u = v
  BY <1>0, OnePlace DEF Says
<1>5. ASSUME NEW p \in Seq(Keys), NEW q \in Seq(Keys), IsPrefix(q, p), p # q, NEW x, Leads(h, 1, p, x)
      PROVE  Holds(h, q)
  BY <1>0, <1>5, ThroughArrays DEF Holds
<1> QED BY <1>1, <1>2, <1>3, <1>4, <1>5 DEF Says, Holds

\* What lies deeper than the array is as it was.
LEMMA DeeperKept ==
  ASSUME NEW h, NEW depth, Leveled(h, depth), NEW g, NEW level, Leveled(g, level),
         NEW d, NEW k, NEW node, NEW n, IsChild(g, h, n, d, k, node),
         NEW z \in DOMAIN h, d \in DOMAIN h, depth[z] > depth[d]
  PROVE  \A p, x : Leads(g, z, p, x) <=> Leads(h, z, p, x)
<1>1. \A y \in DOMAIN h : y # d => g[y] = h[y]
  BY DEF IsChild
<1>2. ASSUME NEW p, NEW y, Leads(h, z, p, y) PROVE g[y].map = h[y].map
  <2>1. y \in DOMAIN h /\ depth[y] = depth[z] + Len(p) /\ Len(p) \in Nat
    BY <1>2, LeadsRules, LenProperties
  <2>2. y # d
    BY <2>1, HeapParts
  <2> QED BY <1>1, <2>1, <2>2
<1>3. z \in DOMAIN g
  BY DEF IsChild
<1> QED BY <1>2, <1>3, SameWays

\* A new element of an array that only P leads to changes what P and its key lead
\* to, and nothing else.
LEMMA Grafted ==
  ASSUME NEW h, NEW depth, Leveled(h, depth), NEW g, NEW level, Leveled(g, level),
         NEW d, NEW k \in Keys, NEW node, NEW n, IsChild(g, h, n, d, k, node),
         NEW P \in Seq(Keys), Own(h, P, d)
  PROVE  /\ \A p \in Seq(Keys) : \A x :
              ~IsPrefix(Append(P, k), p) => (Leads(g, 1, p, x) <=> Leads(h, 1, p, x))
         /\ Own(g, Append(P, k), n) /\ Own(g, P, d)
<1> DEFINE Q == Append(P, k)
           T == {p \in Seq(Keys) : ~IsPrefix(Q, p) => \A x : Leads(g, 1, p, x) <=> Leads(h, 1, p, x)}
<1>0. /\ 1 \in DOMAIN h /\ 1 \in DOMAIN g /\ d \in DOMAIN h
      /\ Q \in Seq(Keys) /\ Q # P /\ ~IsPrefix(Q, P)
  <2>1. Q \in Seq(Keys) /\ Len(Q) = Len(P) + 1 /\ Len(P) \in Nat
    BY AppendProperties, LenProperties
  <2>2. ~IsPrefix(Q, P)
    <3> HIDE DEF Q
    <3> QED BY <2>1, PrefixPoints
  <2>3. 1 \in DOMAIN h /\ 1 \in DOMAIN g
    BY DEF Leveled
  <2>4. d \in DOMAIN h
    BY <2>3, LeadsRules DEF Own
  <2> HIDE DEF Q
  <2> QED BY <2>1, <2>2, <2>3, <2>4, PrefixOrder
<1>1. <<>> \in T
  BY <1>0, LeadsRules, EmptySeq
<1>2. ASSUME NEW p \in Seq(Keys), NEW j \in Keys, p \in T PROVE Append(p, j) \in T
  <2>1. Append(p, j) \in Seq(Keys)
    BY AppendProperties
  <2>2. SUFFICES ASSUME ~IsPrefix(Q, Append(p, j)), NEW x
                 PROVE  Leads(g, 1, Append(p, j), x) <=> Leads(h, 1, Append(p, j), x)
    <3> HIDE DEF Q
    <3> QED BY <2>1
  <2>3. ~IsPrefix(Q, p) /\ Q # Append(p, j)
    <3> HIDE DEF Q, T
    <3> QED BY <1>0, <2>2, PrefixAppend
  <2>4. \A y : Leads(g, 1, p, y) <=> Leads(h, 1, p, y)
    <3> HIDE DEF Q
    <3> QED BY <1>2, <2>3
  <2>5. /\ Leads(h, 1, Append(p, j), x) <=>
             \E y : Leads(h, 1, p, y) /\ j \in DOMAIN h[y].map /\ x = h[y].map[j]
        /\ Leads(g, 1, Append(p, j), x) <=>
             \E y : Leads(g, 1, p, y) /\ j \in DOMAIN g[y].map /\ x = g[y].map[j]
    BY <1>0, LeadsRules
  <2>6. ASSUME NEW y, Leads(h, 1, p, y)
        PROVE  /\ j \in DOMAIN g[y].map <=> j \in DOMAIN h[y].map
               /\ j \in DOMAIN h[y].map => g[y].map[j] = h[y].map[j]
    <3>1. y \in DOMAIN h
      BY <1>0, <2>6, LeadsRules
    <3>2. CASE y # d
      BY <3>1, <3>2 DEF IsChild
    <3>3. CASE y = d
      <4>1. p = P
        BY <2>6, <3>3 DEF Own
      <4>2. j # k
        BY <2>3, <4>1
      <4> QED BY <3>3, <4>2 DEF IsChild
    <3> QED BY <3>2, <3>3
  <2> QED BY <2>4, <2>5, <2>6
<1>3. \A p \in Seq(Keys) : p \in T
  <2> HIDE DEF T
  <2> QED BY <1>1, <1>2, PathInduction
<1>4. \A p \in Seq(Keys) : \A x : ~IsPrefix(Q, p) => (Leads(g, 1, p, x) <=> Leads(h, 1, p, x))
  <2> HIDE DEF Q
  <2> QED BY <1>3
<1>5. Leads(g, 1, P, d)
  <2> HIDE DEF Q
  <2> QED BY <1>0, <1>4 DEF Own
<1>6. k \in DOMAIN g[d].map /\ g[d].map[k] = n /\ n \in DOMAIN g /\ n \notin DOMAIN h
  BY DEF IsChild
<1>7. Leads(g, 1, Q, n)
  BY <1>0, <1>5, <1>6, LeadsRules
<1>8. ASSUME NEW p, NEW y, y \in {d, n}, Leads(g, 1, p, y), IsPrefix(Q, p)
      PROVE  p = Q /\ y = n
  <2> HIDE DEF Q
  <2>1. p \in Seq(Keys)
    BY <1>0, <1>8, LeadsRules
  <2>2. PICK q \in Seq(Keys) : p = Q \o q
    BY <1>0, <1>8, <2>1, PrefixConcat
  <2>3. Leads(g, n, q, y)
    BY <1>0, <1>7, <1>8, <2>2, LeadsConcat
  <2>4. level[y] = level[n] + Len(q) /\ Len(q) \in Nat
    BY <1>6, <2>3, LeadsRules, LenProperties
  <2>5. level[n] = level[d] + 1 /\ level[n] \in Nat /\ level[d] \in Nat
    <3>1. d \in DOMAIN g
      BY <1>0 DEF IsChild
    <3> QED BY <1>6, <3>1, HeapParts, IniAssumption DEF Leveled
  <2>6. y = n /\ Len(q) = 0
    BY <1>8, <2>4, <2>5
  <2>7. q = <<>>
    BY <2>6, EmptySeq
  <2> QED BY <1>0, <2>2, <2>6, <2>7, ConcatEmptySeq
<1>9. Own(g, Q, n)
  <2>1. ASSUME NEW p, Leads(g, 1, p, n) PROVE p = Q
    <3> HIDE DEF Q
    <3>1. p \in Seq(Keys)
      BY <1>0, <2>1, LeadsRules
    <3>2. ~Leads(h, 1, p, n)
      BY <1>0, <1>6, LeadsRules
    <3> QED BY <1>4, <1>8, <2>1, <3>1, <3>2
  <2> QED BY <1>7, <2>1 DEF Own
<1>10. Own(g, P, d)
  <2>1. ASSUME NEW p, Leads(g, 1, p, d) PROVE p = P
    <3> HIDE DEF Q
    <3>1. p \in Seq(Keys)
      BY <1>0, <2>1, LeadsRules
    <3>2. n # d
      BY <1>0, <1>6
    <3>3. Leads(h, 1, p, d)
      BY <1>4, <1>8, <2>1, <3>1, <3>2
    <3> QED BY <3>3 DEF Own
  <2> QED BY <1>5, <2>1 DEF Own
<1> QED BY <1>4, <1>9, <1>10
\* A path that is not empty has a first key.
LEMMA FirstKey ==
  ASSUME NEW q \in Seq(Keys), q # <<>>
  PROVE  \E k \in Keys, s \in Seq(Keys) : q = <<k>> \o s
<1> DEFINE k == Head(q)
           s == Tail(q)
<1>1. k \in Keys /\ s \in Seq(Keys) /\ Len(s) = Len(q) - 1 /\ \A i \in 1 .. Len(s) : s[i] = q[i + 1]
  BY HeadTailProperties
<1>2. Len(q) \in Nat \ {0} /\ k = q[1]
  BY EmptySeq
<1> HIDE DEF k, s
<1>3. <<k>> \in Seq(Keys) /\ Len(<<k>>) = 1 /\ <<k>>[1] = k
  BY <1>1
<1>4. PICK one : one = <<k>>
  OBVIOUS
<1>5. /\ one \o s \in Seq(Keys) /\ Len(one \o s) = Len(one) + Len(s)
      /\ \A i \in 1 .. Len(one) + Len(s) : (one \o s)[i] = IF i <= Len(one) THEN one[i] ELSE s[i - Len(one)]
  BY <1>1, <1>3, <1>4, ConcatProperties
<1>6. Len(one \o s) = Len(q)
  BY <1>1, <1>2, <1>3, <1>4, <1>5
<1>7. ASSUME NEW i \in 1 .. Len(q) PROVE (one \o s)[i] = q[i]
  <2>1. CASE i = 1
    BY <1>2, <1>3, <1>4, <1>5, <1>6, <2>1
  <2>2. CASE i # 1
    <3>1. i - 1 \in 1 .. Len(s) /\ (i - 1) + 1 = i
      BY <1>1, <1>2, <2>2
    <3>2. (one \o s)[i] = s[i - 1]
      BY <1>1, <1>2, <1>3, <1>4, <1>5, <1>6, <2>2
    <3> QED BY <1>1, <3>1, <3>2
  <2> QED BY <2>1, <2>2
<1>8. one \o s = q
  BY <1>5, <1>6, <1>7, SeqEqual
<1> QED BY <1>1, <1>4, <1>8

\* Q is an array or a value, as node; nothing else is said from there on.
SetSaid(g, h, Q, node) ==
  \A p \in Seq(Keys) :
    /\ Holds(g, p) <=> (~IsPrefix(Q, p) /\ Holds(h, p)) \/ (p = Q /\ node.arr)
    /\ \A u : Says(g, p, u) <=>
         (~IsPrefix(Q, p) /\ Says(h, p, u)) \/ (p = Q /\ ~node.arr /\ u = node.val)

\* A new element without elements of its own takes the place of what was there.
LEMMA GraftedLeaf ==
  ASSUME NEW h, NEW depth, Leveled(h, depth), NEW g, NEW level, Leveled(g, level),
         NEW d, NEW k \in Keys, NEW node, NEW n, IsChild(g, h, n, d, k, node),
         NEW P \in Seq(Keys), Own(h, P, d), DOMAIN node.map = {}
  PROVE  SetSaid(g, h, Append(P, k), node)
<1> DEFINE Q == Append(P, k)
<1>0. 1 \in DOMAIN h /\ 1 \in DOMAIN g /\ Q \in Seq(Keys) /\ IsPrefix(Q, Q)
  BY AppendProperties, PrefixOrder DEF Leveled
<1>1. /\ \A p \in Seq(Keys) : \A x : ~IsPrefix(Q, p) => (Leads(g, 1, p, x) <=> Leads(h, 1, p, x))
      /\ Leads(g, 1, Q, n)
  <2>1. Own(g, Append(P, k), n)
    BY Grafted
  <2>2. \A p \in Seq(Keys) : \A x :
          ~IsPrefix(Append(P, k), p) => (Leads(g, 1, p, x) <=> Leads(h, 1, p, x))
    BY Grafted
  <2> QED BY <2>1, <2>2 DEF Own
<1> HIDE DEF Q
<1>2. \A x \in DOMAIN h : g[x].arr = h[x].arr /\ g[x].val = h[x].val
  BY DEF IsChild
<1>3. g[n] = node /\ n \in DOMAIN g
  BY DEF IsChild
<1>4. ASSUME NEW p \in Seq(Keys), ~IsPrefix(Q, p)
      PROVE  /\ Holds(g, p) <=> Holds(h, p)
             /\ \A v : Says(g, p, v) <=> Says(h, p, v)
  <2>1. \A x : Leads(h, 1, p, x) => x \in DOMAIN h
    BY <1>0, LeadsRules
  <2> QED BY <1>1, <1>2, <1>4, <2>1 DEF Says, Holds
<1>5. ASSUME NEW p \in Seq(Keys), IsPrefix(Q, p)
      PROVE  \A x : Leads(g, 1, p, x) <=> p = Q /\ x = n
  <2>1. PICK q \in Seq(Keys) : p = Q \o q
    BY <1>0, <1>5, PrefixConcat
  <2>2. \A x : Leads(g, 1, p, x) <=> Leads(g, n, q, x)
    BY <1>0, <1>1, <2>1, LeadsConcat
  <2>3. CASE q = <<>>
    <3>1. p = Q
      BY <1>0, <2>1, <2>3, ConcatEmptySeq
    <3>2. \A x : Leads(g, n, <<>>, x) <=> x = n
      BY <1>3, LeadsRules
    <3> QED BY <2>2, <2>3, <3>1, <3>2
  <2>4. CASE q # <<>>
    <3>1. PICK j \in Keys, s \in Seq(Keys) : q = <<j>> \o s
      BY <2>4, FirstKey
    <3>2. \A x : ~Leads(g, n, q, x)
      BY <1>3, <3>1, LeadsFirst
    <3>3. p # Q
      BY <1>0, <2>1, <2>4, ConcatEqualIffEmpty
    <3> QED BY <2>2, <3>2, <3>3
  <2> QED BY <2>3, <2>4
<1>6. ASSUME NEW p \in Seq(Keys)
      PROVE  /\ Holds(g, p) <=> (~IsPrefix(Q, p) /\ Holds(h, p)) \/ (p = Q /\ node.arr)
             /\ \A v : Says(g, p, v) <=>
                  (~IsPrefix(Q, p) /\ Says(h, p, v)) \/ (p = Q /\ ~node.arr /\ v = node.val)
  <2>1. CASE IsPrefix(Q, p)
    BY <1>3, <1>5, <2>1 DEF Says, Holds
  <2>2. CASE ~IsPrefix(Q, p)
    BY <1>0, <1>4, <2>2
  <2> QED BY <2>1, <2>2
<1>7. SetSaid(g, h, Q, node)
  BY <1>6 DEF SetSaid
<1> QED BY <1>7 DEF Q

\* A copy in the place of an element says the same.
LEMMA GraftedCopy ==
  ASSUME NEW h, NEW depth, Leveled(h, depth), NEW g, NEW level, Leveled(g, level),
         NEW d, NEW k \in Keys, NEW node, NEW n, IsChild(g, h, n, d, k, node),
         NEW P \in Seq(Keys), Own(h, P, d), k \in DOMAIN h[d].map,
         NEW old, old = h[d].map[k], node = h[old]
  PROVE  \A p \in Seq(Keys) :
           /\ Holds(g, p) <=> Holds(h, p)
           /\ \A v : Says(g, p, v) <=> Says(h, p, v)
<1> DEFINE Q == Append(P, k)
<1>0. 1 \in DOMAIN h /\ 1 \in DOMAIN g /\ Q \in Seq(Keys) /\ Leads(h, 1, P, d) /\ d \in DOMAIN h
  <2>1. 1 \in DOMAIN h
    BY DEF Leveled
  <2>2. 1 \in DOMAIN g /\ Q \in Seq(Keys) /\ Leads(h, 1, P, d)
    BY AppendProperties DEF Leveled, Own
  <2> QED BY <2>1, <2>2, LeadsRules
<1>1. /\ \A p \in Seq(Keys) : \A x : ~IsPrefix(Q, p) => (Leads(g, 1, p, x) <=> Leads(h, 1, p, x))
      /\ Leads(g, 1, Q, n)
  <2>1. Own(g, Append(P, k), n)
    BY Grafted
  <2>2. \A p \in Seq(Keys) : \A x :
          ~IsPrefix(Append(P, k), p) => (Leads(g, 1, p, x) <=> Leads(h, 1, p, x))
    BY Grafted
  <2> QED BY <2>1, <2>2 DEF Own
<1>2. \A x \in DOMAIN h : g[x].arr = h[x].arr /\ g[x].val = h[x].val
  BY DEF IsChild
<1>3. g[n] = h[old] /\ n \in DOMAIN g
  BY DEF IsChild
<1>4. old \in DOMAIN h /\ depth[old] = depth[d] + 1 /\ depth[d] \in Nat
  BY <1>0, HeapParts, IniAssumption DEF Leveled
<1>5. Leads(h, 1, Q, old)
  BY <1>0, LeadsRules
<1> HIDE DEF Q
<1>6. ASSUME NEW p \in Seq(Keys), ~IsPrefix(Q, p)
      PROVE  /\ Holds(g, p) <=> Holds(h, p)
             /\ \A v : Says(g, p, v) <=> Says(h, p, v)
  <2>1. \A x : Leads(h, 1, p, x) => x \in DOMAIN h
    BY <1>0, LeadsRules
  <2> QED BY <1>1, <1>2, <1>6, <2>1 DEF Says, Holds
<1>7. ASSUME NEW p \in Seq(Keys), IsPrefix(Q, p)
      PROVE  /\ Holds(g, p) <=> Holds(h, p)
             /\ \A v : Says(g, p, v) <=> Says(h, p, v)
  <2>1. PICK q \in Seq(Keys) : p = Q \o q
    BY <1>0, <1>7, PrefixConcat
  <2>2. \A x : Leads(g, 1, p, x) <=> Leads(g, n, q, x)
    BY <1>0, <1>1, <2>1, LeadsConcat
  <2>3. \A x : Leads(h, 1, p, x) <=> Leads(h, old, q, x)
    BY <1>0, <1>5, <2>1, LeadsConcat
  <2>4. CASE q = <<>>
    <3>1. \A x : (Leads(g, n, q, x) <=> x = n) /\ (Leads(h, old, q, x) <=> x = old)
      BY <1>3, <1>4, <2>4, LeadsRules
    <3> QED BY <1>3, <2>2, <2>3, <3>1 DEF Says, Holds
  <2>5. CASE q # <<>>
    <3>1. PICK j \in Keys, s \in Seq(Keys) : q = <<j>> \o s
      BY <2>5, FirstKey
    <3>2. ASSUME NEW x PROVE Leads(g, n, q, x) <=> Leads(h, old, q, x)
      <4> DEFINE z == h[old].map[j]
      <4>1. Leads(g, n, q, x) <=> j \in DOMAIN h[old].map /\ Leads(g, z, s, x)
        BY <1>3, <3>1, LeadsFirst
      <4>2. Leads(h, old, q, x) <=> j \in DOMAIN h[old].map /\ Leads(h, z, s, x)
        BY <1>4, <3>1, LeadsFirst
      <4>3. ASSUME j \in DOMAIN h[old].map PROVE Leads(g, z, s, x) <=> Leads(h, z, s, x)
        <5>1. z \in DOMAIN h /\ depth[z] = depth[old] + 1
          BY <1>4, <4>3 DEF Leveled
        <5>2. depth[z] > depth[d]
          BY <1>4, <5>1
        <5> HIDE DEF z
        <5> QED BY <1>0, <5>1, <5>2, DeeperKept
      <4> QED BY <4>1, <4>2, <4>3
    <3>3. \A x : Leads(h, old, q, x) => x \in DOMAIN h
      BY <1>4, LeadsRules
    <3> QED BY <1>2, <2>2, <2>3, <3>2, <3>3 DEF Says, Holds
  <2> QED BY <2>4, <2>5
<1> QED BY <1>6, <1>7
--------------------------------------------------------------------------------
(* SEPARATE_ZVAL.                                                          *)

\* g has the zvals of h, and those less deep than floor are as they were.
Grown(h, depth, g, level, floor) ==
  /\ Leveled(h, depth) /\ Leveled(g, level) /\ DOMAIN h \subseteq DOMAIN g
  /\ \A y \in DOMAIN h : level[y] = depth[y] /\ (depth[y] < floor => g[y] = h[y])

\* The array that wcx_ini returns has the same leaves and arrays.
SameSaid(g, h) ==
  \A p \in Seq(Keys) :
    /\ Holds(g, p) <=> Holds(h, p)
    /\ \A v : Says(g, p, v) <=> Says(h, p, v)

\* A heap that grows twice, the second time from as deep or deeper, grows.
LEMMA GrownTwice ==
  ASSUME NEW h, NEW depth, NEW g, NEW level, NEW e, NEW deep, NEW low \in Nat, NEW floor \in Nat,
         Grown(h, depth, g, level, low), Grown(g, level, e, deep, floor), low <= floor
  PROVE  Grown(h, depth, e, deep, low)
<1>1. ASSUME NEW y \in DOMAIN h
      PROVE  deep[y] = depth[y] /\ (depth[y] < low => e[y] = h[y])
  <2>1. y \in DOMAIN g /\ level[y] = depth[y] /\ deep[y] = level[y] /\ depth[y] \in Nat
    BY HeapParts, IniAssumption DEF Grown
  <2>2. ASSUME depth[y] < low PROVE e[y] = h[y]
    <3>1. level[y] < floor
      BY <2>1, <2>2
    <3> QED BY <2>1, <2>2, <3>1 DEF Grown
  <2> QED BY <2>1, <2>2
<1> QED BY <1>1 DEF Grown

\* A heap with a new element grows by it.
LEMMA ChildGrown ==
  ASSUME NEW h, NEW depth, Leveled(h, depth), NEW d \in DOMAIN h, NEW k \in Keys,
         NEW node \in Zval, h[d].arr, depth[d] < Deepest,
         \A j \in DOMAIN node.map :
           node.arr /\ node.map[j] \in DOMAIN h /\ depth[node.map[j]] = depth[d] + 2
  PROVE  \E level : /\ Grown(h, depth, Child(h, d, k, node), level, depth[d])
                    /\ level[Len(h) + 1] = depth[d] + 1
                    /\ IsChild(Child(h, d, k, node), h, Len(h) + 1, d, k, node)
<1>1. IsChild(Child(h, d, k, node), h, Len(h) + 1, d, k, node)
  BY ChildParts DEF Leveled
<1>2. PICK level : /\ Leveled(Child(h, d, k, node), level)
                   /\ \A z \in DOMAIN h : level[z] = depth[z]
                   /\ level[Len(h) + 1] = depth[d] + 1
  BY ChildLeveled
<1> DEFINE g == Child(h, d, k, node)
           n == Len(h) + 1
<1> HIDE DEF g, n
<1>3. Leveled(g, level) /\ IsChild(g, h, n, d, k, node)
  BY <1>1, <1>2 DEF g, n
<1>4. ASSUME NEW y \in DOMAIN h, depth[y] < depth[d] PROVE g[y] = h[y]
  <2>1. y # d
    BY <1>4, HeapParts
  <2> QED BY <1>3, <2>1 DEF IsChild
<1>5. Grown(h, depth, g, level, depth[d])
  BY <1>2, <1>3, <1>4 DEF Grown, IsChild
<1> QED BY <1>1, <1>2, <1>5 DEF g

\* An element that is not in two places is where its array's path and its key lead.
LEMMA OwnElement ==
  ASSUME NEW h, NEW depth, Leveled(h, depth), NEW P \in Seq(Keys), NEW d, Own(h, P, d),
         NEW k \in Keys, k \in DOMAIN h[d].map, ~Shared(h, h[d].map[k])
  PROVE  Own(h, Append(P, k), h[d].map[k])
<1> DEFINE z == h[d].map[k]
<1>0. 1 \in DOMAIN h /\ Leads(h, 1, P, d) /\ d \in DOMAIN h
  <2>1. 1 \in DOMAIN h /\ Leads(h, 1, P, d)
    BY DEF Leveled, Own
  <2> QED BY <2>1, LeadsRules
<1>1. Leads(h, 1, Append(P, k), z)
  BY <1>0, LeadsRules
<1>2. depth[z] = depth[d] + 1 /\ depth[d] \in Nat /\ depth[1] = 0
  BY <1>0, HeapParts, IniAssumption DEF Leveled
<1>3. \A p, y : Leads(h, 1, p, y) => y \in Within(h)
  BY DEF Leads, Within
<1> HIDE DEF z
<1>4. ASSUME NEW p, Leads(h, 1, p, z) PROVE p = Append(P, k)
  <2>1. p \in Seq(Keys) /\ depth[z] = depth[1] + Len(p)
    BY <1>0, <1>4, LeadsRules
  <2>2. p # <<>>
    BY <1>2, <2>1, EmptySeq
  <2>3. PICK q \in Seq(Keys), j \in Keys : p = Append(q, j)
    BY <2>1, <2>2, SequenceEmptyOrAppend
  <2>4. PICK y : Leads(h, 1, q, y) /\ j \in DOMAIN h[y].map /\ z = h[y].map[j]
    BY <1>0, <1>4, <2>3, LeadsRules
  <2>5. y \in Within(h) /\ d \in Within(h)
    BY <1>0, <1>3, <2>4
  <2>6. y = d /\ j = k
    <3>1. ~ (<<y, j>> # <<d, k>>)
      BY <2>4, <2>5 DEF Shared, z
    <3> QED BY <3>1
  <2>7. q = P
    BY <2>4, <2>6 DEF Own
  <2> QED BY <2>3, <2>6, <2>7
<1> QED BY <1>1, <1>4 DEF Own, z

\* After SEPARATE_ZVAL an element of an array that is in one place is in one place,
\* and nothing that is said has changed.
LEMMA Separated ==
  ASSUME NEW h, NEW depth, Leveled(h, depth), NEW P \in Seq(Keys), NEW d, Own(h, P, d),
         NEW k \in Keys, k \in DOMAIN h[d].map, NEW g, g = Separate(h, d, k)
  PROVE  \E level : /\ Grown(h, depth, g, level, depth[d]) /\ SameSaid(g, h) /\ Own(g, P, d)
                    /\ Own(g, Append(P, k), g[d].map[k])
                    /\ k \in DOMAIN g[d].map /\ g[d].arr = h[d].arr
<1> DEFINE z == h[d].map[k]
<1>0. d \in DOMAIN h /\ z \in DOMAIN h /\ depth[z] = depth[d] + 1 /\ h[d].arr
  <2>1. 1 \in DOMAIN h /\ Leads(h, 1, P, d)
    BY DEF Leveled, Own
  <2>2. d \in DOMAIN h
    BY <2>1, LeadsRules
  <2> QED BY <2>2 DEF Leveled
<1>1. CASE ~Shared(h, z)
  <2>1. g = h
    BY <1>1 DEF Separate
  <2>2. Own(h, Append(P, k), h[d].map[k])
    BY <1>1, OwnElement
  <2>3. Grown(h, depth, h, depth, depth[d]) /\ SameSaid(h, h)
    BY DEF Grown, SameSaid
  <2> QED BY <2>1, <2>2, <2>3
<1>2. CASE Shared(h, z)
  <2> DEFINE node == h[z]
             n == Len(h) + 1
  <2>1. g = Child(h, d, k, node)
    BY <1>2 DEF Separate
  <2> HIDE DEF z
  <2>2. node \in Zval /\ depth[d] < Deepest
    BY <1>0, HeapParts, IniAssumption
  <2>3. ASSUME NEW j \in DOMAIN node.map
        PROVE  node.arr /\ node.map[j] \in DOMAIN h /\ depth[node.map[j]] = depth[d] + 2
    <3>1. h[z].arr /\ h[z].map[j] \in DOMAIN h /\ depth[h[z].map[j]] = depth[z] + 1
      BY <1>0, <2>3 DEF Leveled
    <3>2. depth[d] \in Nat
      BY <1>0, HeapParts, IniAssumption
    <3> QED BY <1>0, <3>1, <3>2
  <2> HIDE DEF node
  <2>4. PICK level : /\ Grown(h, depth, g, level, depth[d])
                     /\ IsChild(g, h, n, d, k, node)
    BY <1>0, <2>1, <2>2, <2>3, ChildGrown
  <2> HIDE DEF n
  <2>5. Leveled(g, level)
    BY <2>4 DEF Grown
  <2>6. Own(g, Append(P, k), n) /\ Own(g, P, d)
    BY <2>4, <2>5, Grafted
  <2>7. SameSaid(g, h)
    <3>1. z = h[d].map[k] /\ node = h[z]
      BY DEF z, node
    <3>2. \A p \in Seq(Keys) :
            /\ Holds(g, p) <=> Holds(h, p)
            /\ \A v : Says(g, p, v) <=> Says(h, p, v)
      BY <2>4, <2>5, <3>1, GraftedCopy
    <3> QED BY <3>2 DEF SameSaid
  <2>8. g[d].map[k] = n /\ k \in DOMAIN g[d].map /\ g[d].arr = h[d].arr
    BY <2>4 DEF IsChild
  <2> QED BY <2>4, <2>6, <2>7, <2>8
<1> QED BY <1>1, <1>2
--------------------------------------------------------------------------------
(* ENTRY: a key, and then a path.                                          *)

\* One turn of PutEntry.
Put(r, k, node) ==
  LET g    == IF Has(r.heap, r.at, k) THEN Separate(r.heap, r.at, k) ELSE r.heap
      up   == Has(g, r.at, k) /\ g[g[r.at].map[k]].arr
      made == IF up THEN g ELSE Child(g, r.at, k, node)
  IN [heap |-> made, at |-> made[r.at].map[k]]

\* The two new zvals have the type of zvals, and no elements.
LEMMA NewZvals ==
  /\ Array \in Zval /\ DOMAIN Array.map = {} /\ Array.arr
  /\ \A v \in Value : /\ Scalar(v) \in Zval /\ DOMAIN Scalar(v).map = {}
                      /\ ~Scalar(v).arr /\ Scalar(v).val = v
<1>1. <<>> \in Map
  <2> DEFINE m == [k \in {} |-> 0]
  <2>1. m = <<>> /\ DOMAIN m = {}
    OBVIOUS
  <2>2. m \in Map
    <3>1. IsFiniteSet({}) /\ \A k \in DOMAIN m : m[k] \in Nat
      BY FS_EmptySet
    <3>2. m = [k \in DOMAIN m |-> m[k]] /\ DOMAIN m \subseteq Keys /\ IsFiniteSet(DOMAIN m)
      BY <2>1, <3>1
    <3> HIDE DEF m
    <3> QED BY <3>1, <3>2, MapMade
  <2> QED BY <2>1, <2>2
<1>2. Nil \in Value /\ DOMAIN <<>> = {}
  BY DEF Value
<1>3. Array \in Zval /\ DOMAIN Array.map = {} /\ Array.arr
  BY <1>1, <1>2 DEF Array, Zval
<1>4. ASSUME NEW v \in Value
      PROVE  Scalar(v) \in Zval /\ DOMAIN Scalar(v).map = {} /\ ~Scalar(v).arr /\ Scalar(v).val = v
  BY <1>1, <1>2 DEF Scalar, Zval
<1> QED BY <1>3, <1>4

\* There is an array where a key leads from an array that only Q leads to, if and
\* only if the array has that element and it is one.
LEMMA ElementHeld ==
  ASSUME NEW h, NEW depth, Leveled(h, depth), NEW Q \in Seq(Keys), NEW d, Leads(h, 1, Q, d),
         NEW k \in Keys
  PROVE  /\ Holds(h, Append(Q, k)) <=> k \in DOMAIN h[d].map /\ h[h[d].map[k]].arr
         /\ Holds(h, Q) <=> h[d].arr
<1>0. 1 \in DOMAIN h
  BY DEF Leveled
<1>1. \A y : Leads(h, 1, Q, y) <=> y = d
  BY <1>0, OnePlace
<1>2. \A x : Leads(h, 1, Append(Q, k), x) <=>
               \E y : Leads(h, 1, Q, y) /\ k \in DOMAIN h[y].map /\ x = h[y].map[k]
  BY <1>0, LeadsRules
<1> QED BY <1>1, <1>2 DEF Holds

\* A key makes an array of its element, or takes the array that is there.
LEMMA PutKey ==
  ASSUME NEW h, NEW depth, Leveled(h, depth), NEW Q \in Seq(Keys), NEW d, Own(h, Q, d),
         h[d].arr, NEW k \in Keys, depth[d] < Deepest,
         NEW node \in Zval, DOMAIN node.map = {}, NEW s, s = Put([heap |-> h, at |-> d], k, node)
  PROVE  \E level : /\ Grown(h, depth, s.heap, level, depth[d])
                    /\ level[s.at] = depth[d] + 1 /\ Own(s.heap, Append(Q, k), s.at)
                    /\ Holds(h, Append(Q, k)) => SameSaid(s.heap, h)
                    /\ ~Holds(h, Append(Q, k)) => SetSaid(s.heap, h, Append(Q, k), node)
<1> DEFINE g    == IF Has(h, d, k) THEN Separate(h, d, k) ELSE h
           up   == Has(g, d, k) /\ g[g[d].map[k]].arr
           made == IF up THEN g ELSE Child(g, d, k, node)
<1>0. s.heap = made /\ s.at = made[d].map[k]
  BY DEF Put
<1>1. \E level : /\ Grown(h, depth, g, level, depth[d]) /\ SameSaid(g, h) /\ Own(g, Q, d)
                 /\ Has(g, d, k) => Own(g, Append(Q, k), g[d].map[k])
                 /\ g[d].arr
  <2>1. CASE Has(h, d, k)
    <3>1. g = Separate(h, d, k) /\ k \in DOMAIN h[d].map
      BY <2>1 DEF Has
    <3> HIDE DEF g
    <3> QED BY <3>1, Separated
  <2>2. CASE ~Has(h, d, k)
    <3>1. g = h
      BY <2>2
    <3>2. Grown(h, depth, h, depth, depth[d]) /\ SameSaid(h, h)
      BY DEF Grown, SameSaid
    <3> HIDE DEF g
    <3> QED BY <2>2, <3>1, <3>2
  <2> QED BY <2>1, <2>2
<1> HIDE DEF g
<1>2. PICK level : /\ Grown(h, depth, g, level, depth[d]) /\ SameSaid(g, h) /\ Own(g, Q, d)
                   /\ Has(g, d, k) => Own(g, Append(Q, k), g[d].map[k])
                   /\ g[d].arr
  BY <1>1
<1>3. Leveled(g, level) /\ d \in DOMAIN g /\ level[d] = depth[d] /\ depth[d] \in Nat /\ d \in DOMAIN h
  <2>1. 1 \in DOMAIN h /\ Leads(h, 1, Q, d)
    BY DEF Leveled, Own
  <2>2. d \in DOMAIN h
    BY <2>1, LeadsRules
  <2> QED BY <1>2, <2>2, HeapParts, IniAssumption DEF Grown
<1>4. up <=> Holds(g, Append(Q, k))
  BY <1>2, <1>3, ElementHeld DEF Own, Has
<1>5. /\ Append(Q, k) \in Seq(Keys)
      /\ Holds(g, Append(Q, k)) <=> Holds(h, Append(Q, k))
  <2>1. Append(Q, k) \in Seq(Keys)
    BY AppendProperties
  <2> QED BY <1>2, <2>1 DEF SameSaid
<1>6. CASE up
  <2>1. s.heap = g /\ s.at = g[d].map[k] /\ k \in DOMAIN g[d].map
    BY <1>0, <1>6 DEF Has
  <2>2. level[s.at] = depth[d] + 1
    BY <1>3, <2>1 DEF Leveled
  <2>3. Own(s.heap, Append(Q, k), s.at)
    BY <1>2, <1>6, <2>1
  <2> HIDE DEF up
  <2> QED BY <1>2, <1>4, <1>5, <1>6, <2>1, <2>2, <2>3
<1>7. CASE ~up
  <2> DEFINE e == Child(g, d, k, node)
             n == Len(g) + 1
  <2>1. s.heap = e /\ s.at = e[d].map[k]
    BY <1>0, <1>7
  <2>3. PICK deep : /\ Grown(g, level, e, deep, level[d]) /\ deep[n] = level[d] + 1
                    /\ IsChild(e, g, n, d, k, node)
    <3>1. level[d] < Deepest
      BY <1>3
    <3> QED BY <1>2, <1>3, <3>1, ChildGrown
  <2> HIDE DEF e, n
  <2>4. Leveled(e, deep)
    BY <2>3 DEF Grown
  <2>5. Own(e, Append(Q, k), n)
    BY <1>2, <1>3, <2>3, <2>4, Grafted
  <2>6. SetSaid(e, g, Append(Q, k), node)
    BY <1>2, <1>3, <2>3, <2>4, GraftedLeaf
  <2>7. SetSaid(e, h, Append(Q, k), node)
    BY <1>2, <2>6 DEF SetSaid, SameSaid
  <2>8. e[d].map[k] = n
    BY <2>3 DEF IsChild
  <2>9. Grown(h, depth, e, deep, depth[d])
    BY <1>2, <1>3, <2>3, GrownTwice
  <2>10. deep[n] = depth[d] + 1
    BY <1>3, <2>3
  <2> HIDE DEF up
  <2> QED BY <1>4, <1>5, <1>7, <2>1, <2>5, <2>7, <2>8, <2>9, <2>10
<1> QED BY <1>6, <1>7
--------------------------------------------------------------------------------
(* All the keys of a path.                                                 *)

\* P and the first i keys of path.
Way(P, path, i) == P \o SubSeq(path, 1, i)

\* It gets longer by a key at a time.
LEMMA WayRules ==
  ASSUME NEW P \in Seq(Keys), NEW path \in Seq(Keys)
  PROVE  /\ Way(P, path, 0) = P /\ Way(P, path, Len(path)) = P \o path /\ P \o path \in Seq(Keys)
         /\ \A i \in 1 .. Len(path) :
              /\ path[i] \in Keys /\ Way(P, path, i - 1) \in Seq(Keys)
              /\ Way(P, path, i) = Append(Way(P, path, i - 1), path[i])
<1>0. Len(path) \in Nat
  BY LenProperties
<1>1. Way(P, path, 0) = P
  <2>1. SubSeq(path, 1, 0) = <<>>
    BY SubSeqEmpty
  <2> QED BY <2>1, ConcatEmptySeq DEF Way
<1>2. Way(P, path, Len(path)) = P \o path /\ P \o path \in Seq(Keys)
  BY SubSeqFull, ConcatProperties DEF Way
<1>3. ASSUME NEW i \in 1 .. Len(path)
      PROVE  /\ path[i] \in Keys /\ Way(P, path, i - 1) \in Seq(Keys)
             /\ Way(P, path, i) = Append(Way(P, path, i - 1), path[i])
  <2> DEFINE s == SubSeq(path, 1, i - 1)
  <2>1. path[i] \in Keys /\ \A j \in 1 .. i - 1 : path[j] \in Keys
    BY <1>0, ElementOfSeq
  <2>2. s \in Seq(Keys)
    BY <1>0, <2>1, SubSeqProperties
  <2>3. SubSeq(path, 1, i) = s \o <<path[i]>>
    <3>1. 1 \in 1 .. Len(path) /\ i \in 1 .. Len(path)
      BY <1>0
    <3> QED BY <3>1, SubSeqRecursiveSecond
  <2> HIDE DEF s
  <2>4. P \o s \in Seq(Keys) /\ <<path[i]>> \in Seq(Keys)
    BY <2>1, <2>2, ConcatProperties
  <2>5. Append(P \o s, path[i]) = (P \o s) \o <<path[i]>>
    BY <2>1, <2>4, AppendIsConcat
  <2>6. (P \o s) \o <<path[i]>> = P \o (s \o <<path[i]>>)
    BY <2>2, <2>4, ConcatAssociative, SMTT(30)
  <2> QED BY <2>1, <2>3, <2>4, <2>5, <2>6 DEF Way, s
<1> QED BY <1>1, <1>2, <1>3

\* What is an array at the end of Q stays one, and nothing changes; else the way to
\* Q is arrays, and Q an array or a value, as node, which replaces what was on the
\* way and from there on.
PutSaid(g, h, Q, node) ==
  /\ Holds(h, Q) => SameSaid(g, h)
  /\ ~Holds(h, Q) => \A p \in Seq(Keys) :
       /\ Holds(g, p) <=> Holds(h, p) \/ (IsPrefix(p, Q) /\ (p # Q \/ node.arr))
       /\ \A u : Says(g, p, u) <=> \/ Says(h, p, u) /\ ~IsPrefix(p, Q) /\ ~IsPrefix(Q, p)
                                   \/ p = Q /\ ~node.arr /\ u = node.val

\* One key more.
LEMMA PutThen ==
  ASSUME NEW h, NEW depth, Leveled(h, depth), NEW Q \in Seq(Keys), NEW k \in Keys,
         NEW R, R = Append(Q, k), NEW e, NEW g, NEW node,
         PutSaid(e, h, Q, Array),
         Holds(e, R) => SameSaid(g, e), ~Holds(e, R) => SetSaid(g, e, R, node)
  PROVE  PutSaid(g, h, R, node)
<1>0. Array.arr
  BY DEF Array
<1>1. /\ R \in Seq(Keys) /\ Q # R /\ IsPrefix(Q, R) /\ ~IsPrefix(R, Q) /\ IsPrefix(R, R)
      /\ IsPrefix(Q, Q)
  <2>1. R \in Seq(Keys) /\ Len(R) = Len(Q) + 1 /\ Len(Q) \in Nat
    BY AppendProperties, LenProperties
  <2>2. IsPrefix(Q, R)
    BY PrefixAppend, PrefixOrder
  <2>3. ~IsPrefix(R, Q)
    <3>1. IsPrefix(R, Q) => Len(R) <= Len(Q)
      BY <2>1, PrefixPoints
    <3> QED BY <2>1, <3>1
  <2> QED BY <2>1, <2>2, <2>3, PrefixOrder
<1>2. \A p \in Seq(Keys) : IsPrefix(p, R) <=> IsPrefix(p, Q) \/ p = R
  BY PrefixAppend
<1>3. \A p, q \in Seq(Keys) : IsPrefix(q, p) /\ p # q =>
        (Holds(h, p) => Holds(h, q)) /\ \A u : Says(h, p, u) => Holds(h, q)
  BY SaysRules
<1>4. \A p, u : Says(h, p, u) => ~Holds(h, p)
  BY SaysRules
<1>5. Holds(e, R) <=> Holds(h, R)
  BY <1>0, <1>1, <1>3 DEF PutSaid, SameSaid
<1>6. CASE Holds(h, R)
  <2>1. SameSaid(e, h) /\ SameSaid(g, e)
    BY <1>1, <1>3, <1>5, <1>6 DEF PutSaid
  <2> QED BY <1>6, <2>1 DEF PutSaid, SameSaid
<1>7. CASE ~Holds(h, R)
  <2>1. SetSaid(g, e, R, node)
    BY <1>5, <1>7
  <2>2. ASSUME NEW p \in Seq(Keys)
        PROVE  /\ Holds(g, p) <=> Holds(h, p) \/ (IsPrefix(p, R) /\ (p # R \/ node.arr))
               /\ \A u : Says(g, p, u) <=> \/ Says(h, p, u) /\ ~IsPrefix(p, R) /\ ~IsPrefix(R, p)
                                           \/ p = R /\ ~node.arr /\ u = node.val
    <3>1. /\ Holds(g, p) <=> (~IsPrefix(R, p) /\ Holds(e, p)) \/ (p = R /\ node.arr)
          /\ \A u : Says(g, p, u) <=> (~IsPrefix(R, p) /\ Says(e, p, u)) \/ (p = R /\ ~node.arr /\ u = node.val)
      BY <2>1 DEF SetSaid
    <3>2. IsPrefix(R, p) => ~Holds(h, p)
      BY <1>1, <1>3, <1>7
    <3>3. IsPrefix(p, Q) => ~IsPrefix(R, p)
      BY <1>1, PrefixOrder
    <3>4. CASE Holds(h, Q)
      <4>1. /\ Holds(e, p) <=> Holds(h, p)
            /\ \A u : Says(e, p, u) <=> Says(h, p, u)
        BY <3>4 DEF PutSaid, SameSaid
      <4>2. IsPrefix(p, Q) => Holds(h, p)
        BY <1>3, <3>4
      <4>3. \A u : Says(h, p, u) => ~IsPrefix(p, Q)
        BY <1>4, <4>2
      <4> QED BY <1>1, <1>2, <3>1, <3>2, <3>3, <4>1, <4>2, <4>3
    <3>5. CASE ~Holds(h, Q)
      <4>1. /\ Holds(e, p) <=> Holds(h, p) \/ IsPrefix(p, Q)
            /\ \A u : Says(e, p, u) <=> Says(h, p, u) /\ ~IsPrefix(p, Q) /\ ~IsPrefix(Q, p)
        BY <1>0, <3>5 DEF PutSaid
      <4>2. \A u : Says(h, p, u) /\ IsPrefix(Q, p) => p = Q
        BY <1>3, <3>5
      <4>3. p = Q => IsPrefix(p, Q)
        BY <1>1
      <4> QED BY <1>1, <1>2, <3>1, <3>2, <3>3, <4>1, <4>2, <4>3
    <3> QED BY <3>4, <3>5
  <2> QED BY <1>7, <2>2 DEF PutSaid
<1> QED BY <1>6, <1>7

\* The state of PutEntry after i of the keys of path.
PutTo(h, depth, d, P, path, v, i, r) ==
  \E level : /\ Grown(h, depth, r.heap, level, depth[d])
             /\ level[r.at] = depth[d] + i /\ Own(r.heap, Way(P, path, i), r.at)
             /\ PutSaid(r.heap, h, Way(P, path, i), IF i < Len(path) THEN Array ELSE Scalar(v))

\* How deep the i-th of n keys from depth D on leads.
LEMMA TurnDepth ==
  ASSUME NEW D \in Nat, NEW n \in Nat, NEW most \in Nat, D + n <= most, NEW i \in 1 .. n
  PROVE  /\ i \in Nat /\ D + (i - 1) \in Nat /\ D + (i - 1) < most
         /\ D + (i - 1) + 1 = D + i /\ D <= D + (i - 1)
  OBVIOUS

\* A turn of PutEntry.
LEMMA PutTurn ==
  ASSUME NEW h, NEW depth, Leveled(h, depth), NEW d \in DOMAIN h, NEW P \in Seq(Keys),
         NEW path \in Seq(Keys), depth[d] + Len(path) <= Deepest, NEW v \in Value,
         NEW i \in 1 .. Len(path), NEW e, NEW at,
         PutTo(h, depth, d, P, path, v, i - 1, [heap |-> e, at |-> at])
  PROVE  PutTo(h, depth, d, P, path, v, i, 
               Put([heap |-> e, at |-> at], path[i], IF i < Len(path) THEN Array ELSE Scalar(v)))
<1> DEFINE Q == Way(P, path, i - 1)
           R == Way(P, path, i)
           k == path[i]
<1>0. /\ Len(path) \in Nat /\ i \in Nat /\ depth[d] \in Nat /\ i - 1 < Len(path)
      /\ depth[d] + (i - 1) \in Nat /\ depth[d] + (i - 1) < Deepest
      /\ depth[d] + (i - 1) + 1 = depth[d] + i /\ depth[d] <= depth[d] + (i - 1)
  <2>1. Len(path) \in Nat /\ depth[d] \in Nat /\ Deepest \in Nat
    BY LenProperties, HeapParts, IniAssumption
  <2> QED BY <2>1, TurnDepth
<1>1. k \in Keys /\ Q \in Seq(Keys) /\ R = Append(Q, k)
  BY WayRules
<1>2. PICK node : node = IF i < Len(path) THEN Array ELSE Scalar(v)
  OBVIOUS
<1>2b. node \in Zval /\ DOMAIN node.map = {}
  BY <1>2, NewZvals
<1>2a. PICK s : s = Put([heap |-> e, at |-> at], k, node)
  OBVIOUS
<1>3. PICK level : /\ Grown(h, depth, e, level, depth[d])
                   /\ level[at] = depth[d] + (i - 1) /\ Own(e, Q, at)
                   /\ PutSaid(e, h, Q, Array)
  <2>1. PICK level : /\ Grown(h, depth, e, level, depth[d])
                     /\ level[at] = depth[d] + (i - 1) /\ Own(e, Q, at)
                     /\ PutSaid(e, h, Q, IF i - 1 < Len(path) THEN Array ELSE Scalar(v))
    BY DEF PutTo
  <2> HIDE DEF Q
  <2> QED BY <1>0, <2>1
<1> HIDE DEF Q, R, k
<1>4. Leveled(e, level)
  BY <1>3 DEF Grown
<1>5. e[at].arr
  <2>1. Leads(e, 1, Q, at)
    BY <1>3 DEF Own
  <2>2. Holds(e, Q)
    BY <1>1, <1>3, PrefixOrder, NewZvals DEF PutSaid, SameSaid
  <2> QED BY <1>1, <1>4, <2>1, <2>2, ElementHeld
<1>6. \E deep : /\ Grown(e, level, s.heap, deep, level[at])
                /\ deep[s.at] = level[at] + 1 /\ Own(s.heap, Append(Q, k), s.at)
                /\ Holds(e, Append(Q, k)) => SameSaid(s.heap, e)
                /\ ~Holds(e, Append(Q, k)) => SetSaid(s.heap, e, Append(Q, k), node)
  <2>1. level[at] < Deepest
    BY <1>0, <1>3
  <2>3. Own(e, Q, at)
    BY <1>3
  <2> QED BY <1>1, <1>2b, <1>4, <1>5, <1>2a, <2>1, <2>3, PutKey
<1>7. PICK deep : /\ Grown(e, level, s.heap, deep, level[at])
                  /\ deep[s.at] = level[at] + 1 /\ Own(s.heap, R, s.at)
                  /\ Holds(e, R) => SameSaid(s.heap, e)
                  /\ ~Holds(e, R) => SetSaid(s.heap, e, R, node)
  BY <1>1, <1>6
<1>7a. PutSaid(s.heap, h, R, node)
  BY <1>1, <1>3, <1>7, PutThen
<1>8. Grown(h, depth, s.heap, deep, depth[d])
  BY <1>0, <1>3, <1>7, GrownTwice
<1>9. deep[s.at] = depth[d] + i /\ Own(s.heap, R, s.at)
  BY <1>0, <1>3, <1>7
<1>10. PutTo(h, depth, d, P, path, v, i, s)
  BY <1>2, <1>7a, <1>8, <1>9 DEF PutTo, R
<1> QED BY <1>2, <1>2a, <1>10 DEF k
\* PutEntry puts the value at the end of the path, unless there is an array, and keeps
\* what is less deep than the array it starts from.
LEMMA EntryPut ==
  ASSUME NEW h, NEW depth, Leveled(h, depth), NEW d \in DOMAIN h, NEW P \in Seq(Keys),
         Own(h, P, d), h[d].arr, NEW path \in Seq(Keys), depth[d] + Len(path) <= Deepest,
         NEW v \in Value
  PROVE  \E level : /\ Grown(h, depth, PutEntry(h, d, path, v), level, depth[d])
                    /\ PutSaid(PutEntry(h, d, path, v), h, P \o path, Scalar(v))
<1> DEFINE n == Len(path)
           a == [heap |-> h, at |-> d]
           Node(i) == IF i < n THEN Array ELSE Scalar(v)
           State == [heap : Seq(Zval), at : Nat]
           S == [i \in 0 .. n |-> {r \in State : PutTo(h, depth, d, P, path, v, i, r)}]
           F == [i \in 1 .. n |-> [r \in S[i - 1] |-> Put(r, path[i], Node(i))]]
           IsPut(put) ==
             put = [i \in 0 .. n |-> IF i = 0 THEN a ELSE Put(put[i - 1], path[i], Node(i))]
<1>0. n \in Nat /\ 0 \in 0 .. n /\ n \in 0 .. n
      /\ \A i \in 1 .. n : i \in 0 .. n /\ i - 1 \in 0 .. n /\ i # 0
  BY LenProperties
<1>1. \A i \in 0 .. n : \A r : PutTo(h, depth, d, P, path, v, i, r) => r.heap \in Seq(Zval) /\ r.at \in Nat
  <2> SUFFICES ASSUME NEW i \in 0 .. n, NEW r, PutTo(h, depth, d, P, path, v, i, r)
               PROVE  r.heap \in Seq(Zval) /\ r.at \in Nat
    OBVIOUS
  <2>1. PICK level : Grown(h, depth, r.heap, level, depth[d]) /\ Own(r.heap, Way(P, path, i), r.at)
    BY DEF PutTo
  <2>2. Leveled(r.heap, level) /\ Leads(r.heap, 1, Way(P, path, i), r.at)
    BY <2>1 DEF Grown, Own
  <2>3. 1 \in DOMAIN r.heap /\ r.heap \in Seq(Zval)
    BY <2>2 DEF Leveled
  <2>4. r.at \in DOMAIN r.heap
    BY <2>2, <2>3, LeadsRules
  <2> QED BY <2>2, <2>3, <2>4, HeapParts
<1>2. a \in S[0]
  <2>1. Grown(h, depth, h, depth, depth[d]) /\ SameSaid(h, h)
    BY DEF Grown, SameSaid
  <2>2. Holds(h, P)
    BY DEF Holds, Own
  <2>3. \A node : PutSaid(h, h, P, node)
    BY <2>1, <2>2 DEF PutSaid
  <2>4. Way(P, path, 0) = P /\ depth[d] = depth[d] + 0 /\ d \in Nat /\ h \in Seq(Zval)
    BY WayRules, HeapParts, IniAssumption DEF Leveled
  <2>5. PutTo(h, depth, d, P, path, v, 0, a)
    BY <2>1, <2>3, <2>4 DEF PutTo
  <2> QED BY <1>0, <2>4, <2>5
<1>3. ASSUME NEW i \in 1 .. n, NEW r \in S[i - 1]
      PROVE  F[i][r] = Put(r, path[i], Node(i)) /\ F[i][r] \in S[i]
  <2>1. r \in State /\ PutTo(h, depth, d, P, path, v, i - 1, r)
    BY <1>0
  <2>2. r = [heap |-> r.heap, at |-> r.at]
    BY <2>1
  <2> DEFINE s == Put(r, path[i], Node(i))
  <2>3. PutTo(h, depth, d, P, path, v, i, s)
    <3>1. PICK e, at : r = [heap |-> e, at |-> at]
      BY <2>2
    <3> HIDE DEF S, F
    <3>2. PutTo(h, depth, d, P, path, v, i - 1, [heap |-> e, at |-> at])
      BY <2>1, <3>1
    <3>3. PutTo(h, depth, d, P, path, v, i, Put([heap |-> e, at |-> at], path[i],
                                                IF i < Len(path) THEN Array ELSE Scalar(v)))
      BY <3>2, PutTurn
    <3> QED BY <3>1, <3>3
  <2>4. s \in State
    <3>1. s = [heap |-> s.heap, at |-> s.at]
      BY DEF Put
    <3>2. s.heap \in Seq(Zval) /\ s.at \in Nat
      <4> HIDE DEF s
      <4> QED BY <1>0, <1>1, <2>3
    <3> HIDE DEF s
    <3> QED BY <3>1, <3>2
  <2>5. F[i][r] = s
    <3> HIDE DEF S
    <3> QED OBVIOUS
  <2>6. s \in S[i]
    <3> HIDE DEF s
    <3> QED BY <1>0, <2>3, <2>4
  <2> HIDE DEF S, F
  <2> QED BY <2>5, <2>6
<1>4. \E put : IsPut(put)
  <2> HIDE DEF S, F, a, Node
  <2>1. \A i \in 1 .. n : \A r \in S[i - 1] : F[i][r] \in S[i]
    BY <1>3
  <2>2. PICK put : LoopOf(put, n, a, F) /\ \A i \in 0 .. n : put[i] \in S[i]
    BY <1>0, <1>2, <2>1, LoopRuns
  <2>3. ASSUME NEW i \in 0 .. n
        PROVE  put[i] = IF i = 0 THEN a ELSE Put(put[i - 1], path[i], Node(i))
    <3>1. put[i] = IF i = 0 THEN a ELSE F[i][put[i - 1]]
      BY <2>2 DEF LoopOf
    <3>2. i # 0 => i \in 1 .. n /\ i - 1 \in 0 .. n
      BY <1>0
    <3>3. i # 0 => F[i][put[i - 1]] = Put(put[i - 1], path[i], Node(i))
      BY <1>3, <2>2, <3>2
    <3> QED BY <3>1, <3>3
  <2>4. IsPut(put)
    BY <2>2, <2>3 DEF LoopOf
  <2> HIDE DEF IsPut
  <2> QED BY <2>4
<1> DEFINE put == CHOOSE put : IsPut(put)
<1>5. IsPut(put)
  <2> HIDE DEF IsPut
  <2> QED BY <1>4, Zenon
<1>6. PutEntry(h, d, path, v) = put[n].heap
  BY DEF PutEntry, Put
<1> HIDE DEF put
<1>7. put[0] = a /\ \A i \in 1 .. n : put[i] = Put(put[i - 1], path[i], Node(i))
  <2> HIDE DEF a, Node
  <2> QED BY <1>0, <1>5
<1>8. put[n] \in S[n]
  <2> DEFINE T == {i \in 0 .. n : put[i] \in S[i]}
  <2> HIDE DEF S, a, Node
  <2>1. 0 \in T
    BY <1>0, <1>2, <1>7
  <2>2. ASSUME NEW i \in 0 .. n - 1, i \in T PROVE i + 1 \in T
    <3>1. i + 1 \in 1 .. n /\ (i + 1) - 1 = i /\ i + 1 \in 0 .. n
      BY <1>0
    <3>2. PICK j : j = i + 1
      OBVIOUS
    <3>3. j \in 1 .. n /\ put[j - 1] \in S[j - 1] /\ j \in 0 .. n
      BY <2>2, <3>1, <3>2
    <3>4. put[j] \in S[j]
      <4> HIDE DEF F
      <4> QED BY <1>3, <1>7, <3>3
    <3> QED BY <3>2, <3>3, <3>4
  <2>3. \A i \in 0 .. n : i \in T
    <3> HIDE DEF T
    <3> QED BY <1>0, <2>1, <2>2, UpTo
  <2> QED BY <1>0, <2>3
<1>9. PutTo(h, depth, d, P, path, v, n, put[n])
  BY <1>0, <1>8
<1>10. Way(P, path, n) = P \o path /\ ~(n < Len(path))
  BY <1>0, WayRules
<1> HIDE DEF n
<1> QED BY <1>6, <1>9, <1>10 DEF PutTo
--------------------------------------------------------------------------------
(* POP_ENTRY: the way to the list.                                         *)

\* One turn of Locate.
Loc(r, k) ==
  LET g == IF Has(r.heap, r.at, k) THEN r.heap ELSE Child(r.heap, r.at, k, Array)
      z == g[r.at].map[k]
  IN IF ~r.heap[r.at].arr THEN [r EXCEPT !.fault = "crash"]
     ELSE [heap |-> g, at |-> z, met |-> r.met \cup {z}, fault |-> "none"]

\* The state of Locate after i of the keys of path.  If nothing met is in two places
\* either nothing was made yet, or what was made last is an array without elements.
LocTo(h, depth, d, P, path, i, r) ==
  \E level :
    /\ Grown(h, depth, r.heap, level, depth[d]) /\ r.at \in DOMAIN r.heap /\ r.met \in SUBSET Nat
    /\ r.fault = "crash" \/ (r.fault = "none" /\ level[r.at] = depth[d] + i)
    /\ r.fault = "crash" => ~r.heap[r.at].arr
    /\ \A y \in DOMAIN h : r.heap[y].arr = h[y].arr
    /\ r.fault = "none" /\ (\A z \in r.met : ~Shared(h, z)) =>
         /\ Own(r.heap, Way(P, path, i), r.at)
         /\ r.heap = h \/ (r.heap[r.at] = Array /\ PutSaid(r.heap, h, Way(P, path, i), Array))

\* A turn of Locate.
LEMMA LocTurn ==
  ASSUME NEW h, NEW depth, Leveled(h, depth), NEW d \in DOMAIN h, NEW P \in Seq(Keys),
         NEW path \in Seq(Keys), depth[d] + Len(path) <= Deepest,
         NEW i \in 1 .. Len(path), NEW e, NEW at, NEW met, NEW bad, NEW r,
         r = [heap |-> e, at |-> at, met |-> met, fault |-> bad],
         LocTo(h, depth, d, P, path, i - 1, r)
  PROVE  LocTo(h, depth, d, P, path, i, Loc(r, path[i]))
<1> DEFINE Q == Way(P, path, i - 1)
           R == Way(P, path, i)
           k == path[i]
<1>0. /\ Len(path) \in Nat /\ i \in Nat /\ depth[d] \in Nat
      /\ depth[d] + (i - 1) \in Nat /\ depth[d] + (i - 1) < Deepest
      /\ depth[d] + (i - 1) + 1 = depth[d] + i /\ depth[d] <= depth[d] + (i - 1)
  <2>1. Len(path) \in Nat /\ depth[d] \in Nat /\ Deepest \in Nat
    BY LenProperties, HeapParts, IniAssumption
  <2> QED BY <2>1, TurnDepth
<1>1. k \in Keys /\ Q \in Seq(Keys) /\ R = Append(Q, k)
  BY WayRules
<1>2. r.heap = e /\ r.at = at /\ r.met = met /\ r.fault = bad
  OBVIOUS
<1>3. PICK level :
        /\ Grown(h, depth, e, level, depth[d]) /\ at \in DOMAIN e /\ met \in SUBSET Nat
        /\ bad = "crash" \/ (bad = "none" /\ level[at] = depth[d] + (i - 1))
        /\ bad = "crash" => ~e[at].arr
        /\ \A y \in DOMAIN h : e[y].arr = h[y].arr
        /\ bad = "none" /\ (\A z \in met : ~Shared(h, z)) =>
             /\ Own(e, Q, at)
             /\ e = h \/ (e[at] = Array /\ PutSaid(e, h, Q, Array))
  <2> HIDE DEF Q
  <2>1. LocTo(h, depth, d, P, path, i - 1, r)
    OBVIOUS
  <2> QED BY <1>2, <2>1 DEF LocTo, Q
<1>4. PICK s : s = Loc(r, k)
  OBVIOUS
<1> HIDE DEF Q, R, k
<1>5. Leveled(e, level)
  BY <1>3 DEF Grown
<1>6. CASE ~e[at].arr
  <2>1. s = [heap |-> e, at |-> at, met |-> met, fault |-> "crash"]
    BY <1>2, <1>4, <1>6 DEF Loc
  <2>2. s.heap = e /\ s.at = at /\ s.met = met /\ s.fault = "crash"
    BY <2>1
  <2>3. LocTo(h, depth, d, P, path, i, s)
    BY <1>3, <1>6, <2>2 DEF LocTo
  <2> QED BY <1>4, <2>3 DEF k
<1>7. CASE e[at].arr /\ k \in DOMAIN e[at].map
  <2> DEFINE z == e[at].map[k]
  <2>1. s = [heap |-> e, at |-> z, met |-> met \cup {z}, fault |-> "none"]
    BY <1>2, <1>4, <1>7 DEF Loc, Has
  <2>2. s.heap = e /\ s.at = z /\ s.met = met \cup {z} /\ s.fault = "none"
    BY <2>1
  <2>3. bad = "none" /\ level[at] = depth[d] + (i - 1)
    BY <1>3, <1>7
  <2>4. z \in DOMAIN e /\ level[z] = level[at] + 1 /\ z \in Nat
    <3>1. z \in DOMAIN e /\ level[z] = level[at] + 1
      BY <1>3, <1>5, <1>7 DEF Leveled
    <3> HIDE DEF z
    <3> QED BY <1>5, <3>1, HeapParts
  <2>5. ASSUME \A y \in met \cup {z} : ~Shared(h, y)
        PROVE  Own(e, R, z) /\ e = h
    <3>1. Own(e, Q, at) /\ (e = h \/ e[at] = Array)
      BY <1>3, <2>3, <2>5
    <3>2. e[at] # Array
      BY <1>7, NewZvals
    <3>3. e = h /\ ~Shared(e, e[at].map[k])
      BY <2>5, <3>1, <3>2
    <3>4. Own(e, Append(Q, k), e[at].map[k])
      BY <1>1, <1>5, <1>7, <3>1, <3>3, OwnElement
    <3> QED BY <1>1, <3>3, <3>4
  <2>6. level[z] = depth[d] + i
    BY <1>0, <2>3, <2>4
  <2> HIDE DEF z
  <2>7. LocTo(h, depth, d, P, path, i, s)
    <3>1. met \cup {z} \in SUBSET Nat
      BY <1>3, <2>4
    <3> QED BY <1>3, <2>2, <2>4, <2>5, <2>6, <3>1 DEF LocTo, R
  <2> QED BY <1>4, <2>7 DEF k
<1>8. CASE e[at].arr /\ k \notin DOMAIN e[at].map
  <2> DEFINE g == Child(e, at, k, Array)
             n == Len(e) + 1
  <2>1. s = [heap |-> g, at |-> g[at].map[k], met |-> met \cup {g[at].map[k]}, fault |-> "none"]
    BY <1>2, <1>4, <1>8 DEF Loc, Has
  <2>2. bad = "none" /\ level[at] = depth[d] + (i - 1)
    BY <1>3, <1>8
  <2>3. PICK deep : /\ Grown(e, level, g, deep, level[at]) /\ deep[n] = level[at] + 1
                    /\ IsChild(g, e, n, at, k, Array)
    <3>1. level[at] < Deepest
      BY <1>0, <2>2
    <3>2. Array \in Zval /\ DOMAIN Array.map = {}
      BY NewZvals
    <3> QED BY <1>1, <1>3, <1>5, <1>8, <3>1, <3>2, ChildGrown
  <2> HIDE DEF g, n
  <2>4. Leveled(g, deep)
    BY <2>3 DEF Grown
  <2>5. g[at].map[k] = n /\ n \in DOMAIN g /\ n \in Nat /\ g[n] = Array
    BY <2>3 DEF IsChild
  <2>6. s.heap = g /\ s.at = n /\ s.met = met \cup {n} /\ s.fault = "none"
    BY <2>1, <2>5
  <2>7. Grown(h, depth, g, deep, depth[d])
    BY <1>0, <1>3, <2>2, <2>3, GrownTwice
  <2>8. deep[n] = depth[d] + i
    BY <1>0, <2>2, <2>3
  <2>9. ASSUME \A y \in met \cup {n} : ~Shared(h, y)
        PROVE  Own(g, R, n) /\ PutSaid(g, h, R, Array)
    <3>1. Own(e, Q, at) /\ (e = h \/ PutSaid(e, h, Q, Array))
      BY <1>3, <2>2, <2>9
    <3>2. Own(g, Append(Q, k), n)
      BY <1>1, <1>5, <2>3, <2>4, <3>1, Grafted
    <3>3. DOMAIN Array.map = {}
      BY NewZvals
    <3>4. SetSaid(g, e, Append(Q, k), Array)
      BY <1>1, <1>5, <2>3, <2>4, <3>1, <3>3, GraftedLeaf
    <3>5. Leads(e, 1, Q, at)
      BY <3>1 DEF Own
    <3>6. ~Holds(e, Append(Q, k)) /\ Holds(e, Q)
      BY <1>1, <1>5, <1>8, <3>5, ElementHeld
    <3>7. PutSaid(e, h, Q, Array)
      <4>1. CASE e = h
        BY <3>6, <4>1 DEF PutSaid, SameSaid
      <4> QED BY <3>1, <4>1
    <3>8. ~Holds(e, R) /\ SetSaid(g, e, R, Array)
      BY <1>1, <3>4, <3>6
    <3>9. PutSaid(g, h, R, Array)
      BY <1>1, <3>7, <3>8, PutThen
    <3> QED BY <1>1, <3>2, <3>9
  <2>10. LocTo(h, depth, d, P, path, i, s)
    <3>1. met \cup {n} \in SUBSET Nat
      BY <1>3, <2>5
    <3>2. \A y \in DOMAIN h : g[y].arr = h[y].arr
      BY <1>3, <2>3 DEF Grown, IsChild
    <3> QED BY <2>5, <2>6, <2>7, <2>8, <2>9, <3>1, <3>2 DEF LocTo, R
  <2> QED BY <1>4, <2>10 DEF k
<1> QED BY <1>6, <1>7, <1>8
\* Locate goes all the way.
LEMMA Located ==
  ASSUME NEW h, NEW depth, Leveled(h, depth), NEW d \in DOMAIN h, NEW P \in Seq(Keys),
         Own(h, P, d), NEW path \in Seq(Keys), depth[d] + Len(path) <= Deepest
  PROVE  LocTo(h, depth, d, P, path, Len(path), Locate(h, d, path))
<1> DEFINE n == Len(path)
           a == [heap |-> h, at |-> d, met |-> {}, fault |-> "none"]
           State == [heap : Seq(Zval), at : Nat, met : SUBSET Nat, fault : {"none", "crash"}]
           S == [i \in 0 .. n |-> {r \in State : LocTo(h, depth, d, P, path, i, r)}]
           F == [i \in 1 .. n |-> [r \in S[i - 1] |-> Loc(r, path[i])]]
           IsFound(found) ==
             found = [i \in 0 .. n |-> IF i = 0 THEN a ELSE Loc(found[i - 1], path[i])]
<1>0. n \in Nat /\ 0 \in 0 .. n /\ n \in 0 .. n
      /\ \A i \in 1 .. n : i \in 0 .. n /\ i - 1 \in 0 .. n /\ i # 0
  BY LenProperties
<1>1. \A i \in 0 .. n : \A r : LocTo(h, depth, d, P, path, i, r) =>
        r.heap \in Seq(Zval) /\ r.at \in Nat /\ r.met \in SUBSET Nat /\ r.fault \in {"none", "crash"}
  <2> SUFFICES ASSUME NEW i \in 0 .. n, NEW r, LocTo(h, depth, d, P, path, i, r)
               PROVE  /\ r.heap \in Seq(Zval) /\ r.at \in Nat
                      /\ r.met \in SUBSET Nat /\ r.fault \in {"none", "crash"}
    OBVIOUS
  <2>1. PICK level : /\ Grown(h, depth, r.heap, level, depth[d]) /\ r.at \in DOMAIN r.heap
                     /\ r.met \in SUBSET Nat /\ r.fault \in {"none", "crash"}
    BY DEF LocTo
  <2>2. Leveled(r.heap, level)
    BY <2>1 DEF Grown
  <2>3. r.heap \in Seq(Zval)
    BY <2>2 DEF Leveled
  <2> QED BY <2>1, <2>2, <2>3, HeapParts
<1>2. a \in S[0]
  <2>1. Grown(h, depth, h, depth, depth[d])
    BY DEF Grown
  <2>2. Way(P, path, 0) = P /\ depth[d] = depth[d] + 0 /\ d \in Nat /\ h \in Seq(Zval)
    <3>1. Way(P, path, 0) = P
      BY WayRules
    <3>2. depth[d] \in Nat /\ d \in Nat
      BY HeapParts, IniAssumption
    <3> QED BY <3>1, <3>2 DEF Leveled
  <2>3. LocTo(h, depth, d, P, path, 0, a)
    BY <2>1, <2>2 DEF LocTo
  <2> QED BY <1>0, <2>2, <2>3
<1>3. ASSUME NEW i \in 1 .. n, NEW r \in S[i - 1]
      PROVE  F[i][r] = Loc(r, path[i]) /\ F[i][r] \in S[i]
  <2>1. r \in State /\ LocTo(h, depth, d, P, path, i - 1, r)
    BY <1>0
  <2>2. r = [heap |-> r.heap, at |-> r.at, met |-> r.met, fault |-> r.fault]
    BY <2>1
  <2> DEFINE s == Loc(r, path[i])
  <2>3. LocTo(h, depth, d, P, path, i, s)
    <3>1. PICK e, at, met, bad : r = [heap |-> e, at |-> at, met |-> met, fault |-> bad]
      BY <2>2
    <3> HIDE DEF S, F, State
    <3> QED BY <2>1, <3>1, LocTurn
  <2>4. s \in State
    <3>1. s = [heap |-> s.heap, at |-> s.at, met |-> s.met, fault |-> s.fault]
      <4>1. CASE ~r.heap[r.at].arr
        <5>1. s = [heap |-> r.heap, at |-> r.at, met |-> r.met, fault |-> "crash"]
          BY <2>1, <4>1 DEF Loc
        <5> HIDE DEF s
        <5> QED BY <5>1
      <4>2. CASE r.heap[r.at].arr
        <5>1. PICK g, z : s = [heap |-> g, at |-> z, met |-> r.met \cup {z}, fault |-> "none"]
          BY <4>2 DEF Loc
        <5> HIDE DEF s
        <5> QED BY <5>1
      <4> QED BY <4>1, <4>2
    <3>2. /\ s.heap \in Seq(Zval) /\ s.at \in Nat
          /\ s.met \in SUBSET Nat /\ s.fault \in {"none", "crash"}
      <4> HIDE DEF s
      <4> QED BY <1>0, <1>1, <2>3
    <3> HIDE DEF s
    <3> QED BY <3>1, <3>2
  <2>5. F[i][r] = s
    <3> HIDE DEF S
    <3> QED OBVIOUS
  <2>6. s \in S[i]
    <3> HIDE DEF s, State
    <3> QED BY <1>0, <2>3, <2>4
  <2> HIDE DEF S, F
  <2> QED BY <2>5, <2>6
<1>4. \E found : IsFound(found)
  <2> HIDE DEF S, F, a
  <2>1. \A i \in 1 .. n : \A r \in S[i - 1] : F[i][r] \in S[i]
    BY <1>3
  <2>2. PICK found : LoopOf(found, n, a, F) /\ \A i \in 0 .. n : found[i] \in S[i]
    BY <1>0, <1>2, <2>1, LoopRuns
  <2>3. ASSUME NEW i \in 0 .. n
        PROVE  found[i] = IF i = 0 THEN a ELSE Loc(found[i - 1], path[i])
    <3>1. found[i] = IF i = 0 THEN a ELSE F[i][found[i - 1]]
      BY <2>2 DEF LoopOf
    <3>2. i # 0 => i \in 1 .. n /\ i - 1 \in 0 .. n
      BY <1>0
    <3>3. i # 0 => F[i][found[i - 1]] = Loc(found[i - 1], path[i])
      BY <1>3, <2>2, <3>2
    <3> QED BY <3>1, <3>3
  <2>4. IsFound(found)
    BY <2>2, <2>3 DEF LoopOf
  <2> HIDE DEF IsFound
  <2> QED BY <2>4
<1> DEFINE found == CHOOSE found : IsFound(found)
<1>5. IsFound(found)
  <2> HIDE DEF IsFound
  <2> QED BY <1>4, Zenon
<1>6. Locate(h, d, path) = found[n]
  BY DEF Locate, Loc
<1> HIDE DEF found
<1>7. found[0] = a /\ \A i \in 1 .. n : found[i] = Loc(found[i - 1], path[i])
  <2> HIDE DEF a
  <2> QED BY <1>0, <1>5
<1>8. found[n] \in S[n]
  <2> DEFINE T == {i \in 0 .. n : found[i] \in S[i]}
  <2> HIDE DEF S, a
  <2>1. 0 \in T
    BY <1>0, <1>2, <1>7
  <2>2. ASSUME NEW i \in 0 .. n - 1, i \in T PROVE i + 1 \in T
    <3>1. i + 1 \in 1 .. n /\ (i + 1) - 1 = i /\ i + 1 \in 0 .. n
      BY <1>0
    <3>2. PICK j : j = i + 1
      OBVIOUS
    <3>3. j \in 1 .. n /\ found[j - 1] \in S[j - 1] /\ j \in 0 .. n
      BY <2>2, <3>1, <3>2
    <3>4. found[j] \in S[j]
      <4> HIDE DEF F
      <4> QED BY <1>3, <1>7, <3>3
    <3> QED BY <3>2, <3>3, <3>4
  <2>3. \A i \in 0 .. n : i \in T
    <3> HIDE DEF T
    <3> QED BY <1>0, <2>1, <2>2, UpTo
  <2> QED BY <1>0, <2>3
<1>9. LocTo(h, depth, d, P, path, n, found[n])
  BY <1>0, <1>8
<1> HIDE DEF n
<1> QED BY <1>6, <1>9 DEF n
--------------------------------------------------------------------------------
(* Finite sets: the ways from a zval, and the order they are taken in.     *)

\* What a function makes of a finite set is finite.
LEMMA FiniteImage ==
  ASSUME NEW S, IsFiniteSet(S), NEW f, f = [x \in S |-> f[x]]
  PROVE  IsFiniteSet({f[x] : x \in S})
<1> DEFINE T == {f[x] : x \in S}
<1>1. f \in [S -> T] /\ \A y \in T : \E x \in S : f[x] = y
  <2>1. \A x \in S : f[x] \in T
    OBVIOUS
  <2>2. \A y \in T : \E x \in S : f[x] = y
    OBVIOUS
  <2> HIDE DEF T
  <2> QED BY <2>1, <2>2
<1> HIDE DEF T
<1>2. f \in Surjection(S, T)
  BY <1>1 DEF Surjection
<1>3. IsFiniteSet(T)
  BY <1>2, FS_Surjection
<1> QED BY <1>3 DEF T

\* SetToSeq has every element of a finite set, once.
LEMMA InSomeOrder ==
  ASSUME NEW S, IsFiniteSet(S), NEW s, s = SetToSeq(S)
  PROVE  /\ Cardinality(S) \in Nat /\ s \in [1 .. Cardinality(S) -> S]
         /\ \A i, j \in 1 .. Cardinality(S) : s[i] = s[j] => i = j
         /\ \A x \in S : \E i \in 1 .. Cardinality(S) : s[i] = x
<1> DEFINE n == Cardinality(S)
<1>1. n \in Nat /\ ExistsBijection(1 .. n, S)
  BY FS_CardinalityType
<1>2. PICK f : f \in [1 .. n -> S] /\ IsInjective(f)
  BY <1>1 DEF ExistsBijection, Bijection, Injection
<1>3. s \in [1 .. n -> S] /\ IsInjective(s)
  <2>1. s = CHOOSE g \in [1 .. n -> S] : IsInjective(g)
    BY DEF SetToSeq
  <2> HIDE DEF n
  <2> QED BY <1>2, <2>1
<1>4. IsFiniteSet(1 .. n) /\ Cardinality(1 .. n) = n
  <2>1. IsFiniteSet(1 .. n) /\ Cardinality(1 .. n) = IF 1 > n THEN 0 ELSE n - 1 + 1
    BY <1>1, FS_Interval
  <2> HIDE DEF n
  <2> QED BY <1>1, <2>1
<1>5. s \in Injection(1 .. n, S)
  BY <1>3 DEF Injection
<1>6. s \in Surjection(1 .. n, S)
  <2> HIDE DEF n
  <2>1. Cardinality(1 .. n) = Cardinality(S) <=> s \in Surjection(1 .. n, S)
    BY <1>5, FS_Injection
  <2> QED BY <1>4, <2>1 DEF n
<1>7. \A x \in S : \E i \in 1 .. n : s[i] = x
  <2> HIDE DEF n
  <2> QED BY <1>6 DEF Surjection
<1>8. \A i, j \in 1 .. n : s[i] = s[j] => i = j
  <2> HIDE DEF n
  <2> QED BY <1>3 DEF IsInjective
<1> QED BY <1>1, <1>3, <1>7, <1>8

\* There are finitely many ways from a zval.
LEMMA WalksFinite ==
  ASSUME NEW h, NEW depth, Leveled(h, depth), NEW z \in DOMAIN h
  PROVE  IsFiniteSet(Walks(h, z))
<1>1. PICK W : /\ Walks(h, z) = UNION {W[n] : n \in 0 .. Deepest}
               /\ W[0] = {[path |-> <<>>, at |-> z]}
               /\ \A n \in 1 .. Deepest : \A w :
                    w \in W[n] <=> \E v \in W[n - 1] : \E k \in DOMAIN h[v.at].map :
                                     w = [path |-> Append(v.path, k), at |-> h[v.at].map[k]]
               /\ \A n \in 0 .. Deepest : \A w \in W[n] :
                    /\ w \in [path : Seq(Keys), at : DOMAIN h]
                    /\ Len(w.path) = n /\ depth[w.at] = depth[z] + n
  BY WalksByLength
<1>0. Deepest \in Nat
  BY IniAssumption
<1> DEFINE T == {n \in 0 .. Deepest : IsFiniteSet(W[n])}
<1>2. 0 \in T
  <2>1. IsFiniteSet({[path |-> <<>>, at |-> z]})
    BY FS_Singleton
  <2>2. IsFiniteSet(W[0])
    BY <1>1, <2>1
  <2> QED BY <1>0, <2>2
<1>3. ASSUME NEW n \in 0 .. Deepest - 1, n \in T PROVE n + 1 \in T
  <2>1. n + 1 \in 1 .. Deepest /\ (n + 1) - 1 = n /\ n \in 0 .. Deepest /\ n + 1 \in 0 .. Deepest
    BY <1>0
  <2> DEFINE f(v) == [k \in DOMAIN h[v.at].map |-> [path |-> Append(v.path, k), at |-> h[v.at].map[k]]]
             Longer(v) == {f(v)[k] : k \in DOMAIN h[v.at].map}
             all == [v \in W[n] |-> Longer(v)]
             L == {all[v] : v \in W[n]}
  <2>2. \A v \in W[n] : IsFiniteSet(Longer(v))
    <3> SUFFICES ASSUME NEW v \in W[n] PROVE IsFiniteSet(Longer(v))
      OBVIOUS
    <3>1. v.at \in DOMAIN h
      BY <1>1, <2>1
    <3>2. IsFiniteSet(DOMAIN h[v.at].map)
      BY <3>1, HeapParts, MapType
    <3>3. f(v) = [k \in DOMAIN h[v.at].map |-> f(v)[k]]
      OBVIOUS
    <3> HIDE DEF f
    <3> QED BY <3>2, <3>3, FiniteImage
  <2>3. IsFiniteSet(L)
    <3>1. all = [v \in W[n] |-> all[v]]
      OBVIOUS
    <3> HIDE DEF all
    <3> QED BY <1>3, <3>1, FiniteImage
  <2>4. \A X \in L : IsFiniteSet(X)
    <3> HIDE DEF Longer
    <3> QED BY <2>2
  <2>5. IsFiniteSet(UNION L)
    <3> HIDE DEF L
    <3> QED BY <2>3, <2>4, FS_UNION
  <2>6. \A w : w \in W[n + 1] <=> w \in UNION L
    <3>1. \A w : w \in W[n + 1] <=> \E v \in W[n] : \E k \in DOMAIN h[v.at].map :
                                      w = [path |-> Append(v.path, k), at |-> h[v.at].map[k]]
      BY <1>1, <2>1
    <3>2. \A w, v : w \in Longer(v) <=> \E k \in DOMAIN h[v.at].map :
                                      w = [path |-> Append(v.path, k), at |-> h[v.at].map[k]]
      OBVIOUS
    <3>3. \A w : w \in UNION L <=> \E v \in W[n] : w \in Longer(v)
      <4> HIDE DEF Longer
      <4> QED OBVIOUS
    <3> HIDE DEF L, Longer
    <3> QED BY <3>1, <3>2, <3>3
  <2>7. W[n + 1] = UNION L
    <3> HIDE DEF L
    <3> QED BY <2>6
  <2> HIDE DEF L
  <2> QED BY <2>1, <2>5, <2>7
<1>4. \A n \in 0 .. Deepest : n \in T
  <2> HIDE DEF T
  <2> QED BY <1>0, <1>2, <1>3, UpTo
<1> DEFINE w == [n \in 0 .. Deepest |-> W[n]]
           U == {w[n] : n \in 0 .. Deepest}
<1>5. IsFiniteSet(U)
  <2>1. IsFiniteSet(0 .. Deepest)
    BY <1>0, FS_Interval
  <2>2. w = [n \in 0 .. Deepest |-> w[n]]
    OBVIOUS
  <2> HIDE DEF w
  <2> QED BY <2>1, <2>2, FiniteImage
<1>6. \A X \in U : IsFiniteSet(X)
  BY <1>4
<1>7. U = {W[n] : n \in 0 .. Deepest}
  OBVIOUS
<1> HIDE DEF U
<1>8. IsFiniteSet(UNION U)
  BY <1>5, <1>6, FS_UNION
<1> QED BY <1>1, <1>7, <1>8
--------------------------------------------------------------------------------
(* wcx_deep_copy_section.                                                  *)

\* From zval z the path p leads to the value v; to an array; to an array from both.
Tells(h, z, p, v) == \E x : Leads(h, z, p, x) /\ ~h[x].arr /\ h[x].val = v
Keeps(h, z, p)    == \E x : Leads(h, z, p, x) /\ h[x].arr
Both(h, a, b)     == {p \in Seq(Keys) : Keeps(h, a, p) /\ Keeps(h, b, p)}

\* g is h with what src has in dst: where both have an array, at place, are the
\* elements of both.
IsCopy(g, h, dst, src, place) ==
  /\ \A y \in DOMAIN h : y # dst => g[y] = h[y]
  /\ place[<<>>] = dst /\ \A p \in Both(h, dst, src) : place[p] \in DOMAIN g /\ g[place[p]].arr
  /\ \A p \in Both(h, dst, src) : \A x, y : Leads(h, dst, p, x) /\ Leads(h, src, p, y) =>
       /\ DOMAIN g[place[p]].map = DOMAIN h[x].map \cup DOMAIN h[y].map
       /\ \A k \in DOMAIN h[x].map \cup DOMAIN h[y].map :
            g[place[p]].map[k] =
              IF Append(p, k) \in Both(h, dst, src) THEN place[Append(p, k)]
              ELSE IF k \in DOMAIN h[y].map THEN h[y].map[k] ELSE h[x].map[k]

\* The arrays that both have are finitely many.
LEMMA BothFinite ==
  ASSUME NEW h, NEW depth, Leveled(h, depth), NEW dst \in DOMAIN h, NEW src,
         NEW B, B \subseteq Both(h, dst, src)
  PROVE  IsFiniteSet(B)
<1> DEFINE W == Walks(h, dst)
           f == [w \in W |-> w.path]
           T == {f[w] : w \in W}
<1>1. IsFiniteSet(T)
  <2>1. IsFiniteSet(W)
    BY WalksFinite
  <2>2. f = [w \in W |-> f[w]]
    OBVIOUS
  <2> HIDE DEF f, W
  <2> QED BY <2>1, <2>2, FiniteImage
<1>2. \A p \in B : p \in T
  <2> SUFFICES ASSUME NEW p \in B PROVE p \in T
    OBVIOUS
  <2>1. PICK x : Leads(h, dst, p, x)
    BY DEF Both, Keeps
  <2>2. PICK w \in W : w.path = p
    BY <2>1 DEF Leads
  <2>3. f[w] = p
    BY <2>2
  <2> HIDE DEF f, W
  <2> QED BY <2>2, <2>3
<1> HIDE DEF T
<1>3. B \in SUBSET T
  BY <1>2
<1> QED BY <1>1, <1>3, FS_Subset

\* The definitions in DeepCopy, and what they are.
LEMMA CopyMade ==
  ASSUME NEW h, NEW depth, Leveled(h, depth), NEW dst \in DOMAIN h, NEW src \in DOMAIN h,
         h[dst].arr, h[src].arr, depth[src] = depth[dst], NEW g, g = DeepCopy(h, dst, src)
  PROVE  \E place, level : IsCopy(g, h, dst, src, place) /\ Grown(h, depth, g, level, depth[dst])
<1> DEFINE Arrays(z) == {w.path : w \in {v \in Walks(h, z) : h[v.at].arr}}
           At(z, p)  == (CHOOSE w \in Walks(h, z) : w.path = p).at
           both      == Arrays(dst) \cap Arrays(src)
           made      == SetToSeq(both \ {<<>>})
           New(p)    == Len(h) + (CHOOSE i \in DOMAIN made : made[i] = p)
           Merged(p) ==
             LET old  == h[At(dst, p)].map
                 over == h[At(src, p)].map
             IN [k \in DOMAIN old \cup DOMAIN over |->
                   IF Append(p, k) \in both THEN New(Append(p, k))
                   ELSE IF k \in DOMAIN over THEN over[k] ELSE old[k]]
           D == depth[dst]
           n == Len(h)
           m == Cardinality(both \ {<<>>})
           lev == [z \in 1 .. n + m |-> IF z \in DOMAIN h THEN depth[z] ELSE D + Len(made[z - n])]
           place == [p \in both |-> IF p = <<>> THEN dst ELSE New(p)]
<1>1. g = [h EXCEPT ![dst].map = Merged(<<>>)]
            \o [i \in DOMAIN made |-> [Array EXCEPT !.map = Merged(made[i])]]
  BY DEF DeepCopy
<1>0. /\ n \in Nat \ {0} /\ DOMAIN h = 1 .. n /\ h \in Seq(Zval) /\ D \in 0 .. Deepest /\ Deepest \in Nat
      /\ 1 \in DOMAIN h /\ h[1].arr
  BY HeapParts, IniAssumption DEF Leveled
<1>2. ASSUME NEW z \in DOMAIN h, NEW p PROVE p \in Arrays(z) <=> Keeps(h, z, p)
  <2>1. ASSUME p \in Arrays(z) PROVE Keeps(h, z, p)
    <3>1. PICK w \in Walks(h, z) : h[w.at].arr /\ p = w.path
      BY <2>1
    <3>2. Leads(h, z, w.path, w.at)
      BY LeadsRules
    <3> QED BY <3>1, <3>2 DEF Keeps
  <2>2. ASSUME Keeps(h, z, p) PROVE p \in Arrays(z)
    <3>1. PICK x : [path |-> p, at |-> x] \in Walks(h, z) /\ h[x].arr
      BY <2>2 DEF Keeps, Leads
    <3>2. PICK w : w = [path |-> p, at |-> x]
      OBVIOUS
    <3>3. w \in Walks(h, z) /\ w.path = p /\ w.at = x
      BY <3>1, <3>2
    <3> QED BY <3>1, <3>3
  <2> QED BY <2>1, <2>2
<1>3. both = Both(h, dst, src)
  <2>1. \A p : p \in both <=> Keeps(h, dst, p) /\ Keeps(h, src, p)
    <3> HIDE DEF Arrays
    <3> QED BY <1>2
  <2>2. \A p : Keeps(h, dst, p) => p \in Seq(Keys)
    BY LeadsRules DEF Keeps
  <2> HIDE DEF both
  <2> QED BY <2>1, <2>2 DEF Both
<1>4. ASSUME NEW z \in DOMAIN h, NEW p, NEW x, Leads(h, z, p, x) PROVE At(z, p) = x
  <2>1. \E w \in Walks(h, z) : w.path = p
    <3>1. PICK w : w = [path |-> p, at |-> x]
      OBVIOUS
    <3>2. w \in Walks(h, z) /\ w.path = p
      BY <1>4, <3>1 DEF Leads
    <3> QED BY <3>2
  <2>2. PICK w : w = CHOOSE u \in Walks(h, z) : u.path = p
    OBVIOUS
  <2>3. w \in Walks(h, z) /\ w.path = p
    BY <2>1, <2>2
  <2>4. Leads(h, z, p, w.at)
    BY <2>3, LeadsRules
  <2>5. w.at = x
    BY <1>4, <2>4, OnePlace
  <2> QED BY <2>2, <2>5
<1> HIDE DEF At, Arrays, both
<1>5. \A p \in both : \E x, y :
        /\ Leads(h, dst, p, x) /\ Leads(h, src, p, y) /\ At(dst, p) = x /\ At(src, p) = y
        /\ x \in DOMAIN h /\ y \in DOMAIN h /\ p \in Seq(Keys) /\ h[x].arr /\ h[y].arr
        /\ depth[x] = D + Len(p) /\ depth[y] = D + Len(p)
  BY <1>3, <1>4, LeadsRules DEF Both, Keeps
<1>6. <<>> \in both
  <2>1. Leads(h, dst, <<>>, dst) /\ Leads(h, src, <<>>, src)
    BY LeadsRules
  <2> QED BY <1>3, <2>1, EmptySeq DEF Both, Keeps
<1>7. /\ m \in Nat /\ made \in [1 .. m -> both \ {<<>>}]
      /\ \A i, j \in 1 .. m : made[i] = made[j] => i = j
      /\ \A p \in both \ {<<>>} : \E i \in 1 .. m : made[i] = p
  <2>1. IsFiniteSet(both \ {<<>>})
    BY <1>3, BothFinite
  <2> DEFINE S == both \ {<<>>}
  <2>1a. IsFiniteSet(S)
    BY <2>1
  <2>2. made = SetToSeq(S) /\ m = Cardinality(S)
    OBVIOUS
  <2> HIDE DEF S, made, m
  <2>3. /\ Cardinality(S) \in Nat /\ made \in [1 .. Cardinality(S) -> S]
        /\ \A i, j \in 1 .. Cardinality(S) : made[i] = made[j] => i = j
        /\ \A x \in S : \E i \in 1 .. Cardinality(S) : made[i] = x
    BY <2>1a, <2>2, InSomeOrder
  <2> QED BY <2>2, <2>3 DEF S
<1> HIDE DEF made, m
<1>8. ASSUME NEW p \in both, p # <<>>
      PROVE  \E i \in 1 .. m : made[i] = p /\ New(p) = n + i
  <2>1. PICK i \in 1 .. m : made[i] = p
    BY <1>7, <1>8
  <2>2. PICK j : j = CHOOSE k \in DOMAIN made : made[k] = p
    OBVIOUS
  <2>3. j \in 1 .. m /\ made[j] = p
    BY <1>7, <2>1, <2>2
  <2> QED BY <2>2, <2>3
<1> HIDE DEF New
<1>9. ASSUME NEW p \in both, p # <<>>
      PROVE  New(p) \in n + 1 .. n + m /\ lev[New(p)] = D + Len(p) /\ made[New(p) - n] = p
  <2>1. PICK i \in 1 .. m : made[i] = p /\ New(p) = n + i
    BY <1>8, <1>9
  <2>2. New(p) \in n + 1 .. n + m /\ New(p) - n = i
    BY <1>0, <1>7, <2>1
  <2>3. New(p) \in 1 .. n + m /\ New(p) \notin DOMAIN h
    BY <1>0, <1>7, <2>2
  <2> HIDE DEF D, n
  <2> QED BY <2>1, <2>2, <2>3
<1>10. \A z \in DOMAIN h : z \in 1 .. n + m /\ lev[z] = depth[z]
  BY <1>0, <1>7
<1> HIDE DEF lev
<1>11. ASSUME NEW p \in both
       PROVE  /\ Merged(p) = [k \in DOMAIN Merged(p) |-> Merged(p)[k]]
              /\ DOMAIN Merged(p) = DOMAIN h[At(dst, p)].map \cup DOMAIN h[At(src, p)].map
              /\ \A k \in DOMAIN Merged(p) : Merged(p)[k] =
                   IF Append(p, k) \in both THEN New(Append(p, k))
                   ELSE IF k \in DOMAIN h[At(src, p)].map THEN h[At(src, p)].map[k]
                   ELSE h[At(dst, p)].map[k]
  OBVIOUS
<1> HIDE DEF Merged
<1>12. ASSUME NEW p \in both, NEW k \in DOMAIN Merged(p)
       PROVE  Merged(p)[k] \in 1 .. n + m /\ lev[Merged(p)[k]] = D + Len(p) + 1 /\ k \in Keys
  <2>1. PICK x, y :
        /\ Leads(h, dst, p, x) /\ Leads(h, src, p, y) /\ At(dst, p) = x /\ At(src, p) = y
        /\ x \in DOMAIN h /\ y \in DOMAIN h /\ p \in Seq(Keys) /\ h[x].arr /\ h[y].arr
        /\ depth[x] = D + Len(p) /\ depth[y] = D + Len(p)
    BY <1>5
  <2>2. k \in DOMAIN h[x].map \cup DOMAIN h[y].map /\ k \in Keys
    <3>1. k \in DOMAIN h[x].map \cup DOMAIN h[y].map
      BY <1>11, <2>1
    <3> QED BY <2>1, <3>1, HeapParts
  <2>3. CASE Append(p, k) \in both
    <3>1. Append(p, k) # <<>> /\ Len(Append(p, k)) = Len(p) + 1 /\ Len(p) \in Nat
      <4>1. Append(p, k) \in Seq(Keys) /\ Len(Append(p, k)) = Len(p) + 1 /\ Len(p) \in Nat
        BY <2>1, <2>2, AppendProperties, LenProperties
      <4> QED BY <4>1, EmptySeq
    <3>2. Merged(p)[k] = New(Append(p, k))
      BY <1>11, <2>3
    <3>3. New(Append(p, k)) \in n + 1 .. n + m /\ lev[New(Append(p, k))] = D + Len(Append(p, k))
      BY <1>9, <2>3, <3>1
    <3>4. New(Append(p, k)) \in 1 .. n + m
      BY <1>0, <1>7, <3>3
    <3>5. D + Len(Append(p, k)) = D + Len(p) + 1
      BY <1>0, <3>1, SMTT(30)
    <3> QED BY <2>2, <3>2, <3>3, <3>4, <3>5
  <2>4. CASE Append(p, k) \notin both
    <3>1. PICK w \in {x, y} : k \in DOMAIN h[w].map /\ Merged(p)[k] = h[w].map[k]
      BY <1>11, <2>1, <2>2, <2>4
    <3>2. h[w].map[k] \in DOMAIN h /\ depth[h[w].map[k]] = depth[w] + 1
      BY <2>1, <3>1 DEF Leveled
    <3>3. depth[w] = D + Len(p)
      BY <2>1, <3>1
    <3> QED BY <1>10, <2>2, <3>1, <3>2, <3>3
  <2> QED BY <2>3, <2>4
<1>13. \A p \in both : Merged(p) \in Map
  <2> SUFFICES ASSUME NEW p \in both PROVE Merged(p) \in Map
    OBVIOUS
  <2>1. /\ DOMAIN Merged(p) \subseteq Keys /\ \A k \in DOMAIN Merged(p) : Merged(p)[k] \in Nat
    BY <1>0, <1>7, <1>12
  <2>2. IsFiniteSet(DOMAIN Merged(p))
    <3>1. At(dst, p) \in DOMAIN h /\ At(src, p) \in DOMAIN h
      BY <1>5
    <3>2. IsFiniteSet(DOMAIN h[At(dst, p)].map) /\ IsFiniteSet(DOMAIN h[At(src, p)].map)
      BY <3>1, HeapParts, MapType
    <3>3. IsFiniteSet(DOMAIN h[At(dst, p)].map \cup DOMAIN h[At(src, p)].map)
      BY <3>2, FS_Union
    <3> QED BY <1>11, <3>3
  <2>3. Merged(p) = [k \in DOMAIN Merged(p) |-> Merged(p)[k]]
    BY <1>11
  <2> QED BY <2>1, <2>2, <2>3, MapMade
<1> DEFINE e  == [h[dst] EXCEPT !.map = Merged(<<>>)]
           h2 == [h EXCEPT ![dst] = e]
           t  == [i \in 1 .. m |-> [Array EXCEPT !.map = Merged(made[i])]]
<1>14. e \in Zval /\ e.arr = h[dst].arr /\ e.val = h[dst].val /\ e.map = Merged(<<>>)
  <2>1. Merged(<<>>) \in Map /\ h[dst] \in Zval
    BY <1>6, <1>13, HeapParts
  <2> QED BY <2>1 DEF Zval
<1>15. /\ h2 \in Seq(Zval) /\ Len(h2) = n /\ h2[dst] = e
       /\ \A y \in DOMAIN h : y # dst => h2[y] = h[y]
  <2> HIDE DEF e
  <2>1. h2 \in Seq(Zval) /\ Len(h2) = Len(h) /\ \A y \in 1 .. Len(h) : h2[y] = IF y = dst THEN e ELSE h[y]
    BY <1>0, <1>14, ExceptSeq
  <2> HIDE DEF h2
  <2> QED BY <1>0, <2>1
<1>16. \A i \in 1 .. m : /\ t[i] \in Zval /\ t[i].arr /\ t[i].map = Merged(made[i])
  <2> SUFFICES ASSUME NEW i \in 1 .. m
               PROVE  t[i] \in Zval /\ t[i].arr /\ t[i].map = Merged(made[i])
    OBVIOUS
  <2>1. made[i] \in both /\ Merged(made[i]) \in Map
    BY <1>7, <1>13
  <2>2. Array \in Zval /\ Array.arr
    BY NewZvals
  <2>3. t[i] = [Array EXCEPT !.map = Merged(made[i])]
    OBVIOUS
  <2> HIDE DEF t
  <2> QED BY <2>1, <2>2, <2>3 DEF Zval
<1>17. t \in Seq(Zval) /\ Len(t) = m
  <2>1. t \in [1 .. m -> Zval]
    BY <1>16
  <2> HIDE DEF t
  <2> QED BY <1>7, <2>1, FunctionIsSeq
<1>18. g = h2 \o t
  <2>1. DOMAIN made = 1 .. m
    BY <1>7
  <2> QED BY <1>1, <2>1
<1> HIDE DEF h2, t, e
<1>19. /\ g \in Seq(Zval) /\ Len(g) = n + m
       /\ \A i \in 1 .. n + m : g[i] = IF i <= n THEN h2[i] ELSE t[i - n]
  <2>1. /\ h2 \o t \in Seq(Zval) /\ Len(h2 \o t) = Len(h2) + Len(t)
        /\ \A i \in 1 .. Len(h2) + Len(t) :
             (h2 \o t)[i] = IF i <= Len(h2) THEN h2[i] ELSE t[i - Len(h2)]
    <3>1. h2 \in Seq(Zval) /\ t \in Seq(Zval)
      BY <1>15, <1>17
    <3>2. PICK u, w : u = h2 /\ w = t
      OBVIOUS
    <3> QED BY <3>1, <3>2, ConcatProperties
  <2> HIDE DEF n
  <2> QED BY <1>15, <1>17, <1>18, <2>1
<1>20. DOMAIN g = 1 .. n + m
  BY <1>19, LenProperties
<1>21. \A y \in DOMAIN h : g[y] = h2[y]
  BY <1>0, <1>7, <1>19
<1>22. ASSUME NEW z \in DOMAIN g, z \notin DOMAIN h
       PROVE  z - n \in 1 .. m /\ g[z] = t[z - n]
  BY <1>0, <1>7, <1>19, <1>20, <1>22
<1>23. g[dst].arr = h[dst].arr /\ g[dst].map = Merged(<<>>)
  BY <1>14, <1>15, <1>21
<1>24. \A y \in DOMAIN h : y # dst => g[y] = h[y]
  BY <1>15, <1>21
<1>25. ASSUME NEW p \in both
       PROVE  place[p] \in DOMAIN g /\ g[place[p]].arr /\ g[place[p]].map = Merged(p)
  <2>1. CASE p = <<>>
    <3>1. place[p] = dst
      BY <2>1
    <3>2. dst \in DOMAIN g
      BY <1>10, <1>20
    <3> QED BY <1>23, <2>1, <3>1, <3>2
  <2>2. CASE p # <<>>
    <3>1. place[p] = New(p) /\ New(p) \in n + 1 .. n + m /\ made[New(p) - n] = p
      BY <1>9, <2>2
    <3>2. New(p) \in DOMAIN g /\ New(p) \notin DOMAIN h
      BY <1>0, <1>7, <1>20, <3>1
    <3>3. New(p) - n \in 1 .. m /\ g[New(p)] = t[New(p) - n]
      BY <1>22, <3>2
    <3> QED BY <1>16, <3>1, <3>2, <3>3
  <2> QED BY <2>1, <2>2
<1>26. place[<<>>] = dst
  BY <1>6
<1>27. \A p \in both : p # <<>> => place[p] = New(p)
  OBVIOUS
<1> HIDE DEF place
<1>28. ASSUME NEW p \in both, NEW x, NEW y, Leads(h, dst, p, x), Leads(h, src, p, y)
       PROVE  /\ DOMAIN g[place[p]].map = DOMAIN h[x].map \cup DOMAIN h[y].map
              /\ \A k \in DOMAIN h[x].map \cup DOMAIN h[y].map :
                   g[place[p]].map[k] =
                     IF Append(p, k) \in both THEN place[Append(p, k)]
                     ELSE IF k \in DOMAIN h[y].map THEN h[y].map[k] ELSE h[x].map[k]
  <2>1. At(dst, p) = x /\ At(src, p) = y
    BY <1>4, <1>28
  <2>2. \A k : Append(p, k) # <<>>
    <3>1. p \in Seq(Keys)
      BY <1>5
    <3> QED BY <3>1
  <2>3. g[place[p]].map = Merged(p)
    BY <1>25
  <2>4. /\ DOMAIN Merged(p) = DOMAIN h[x].map \cup DOMAIN h[y].map
        /\ \A k \in DOMAIN Merged(p) : Merged(p)[k] =
             IF Append(p, k) \in both THEN New(Append(p, k))
             ELSE IF k \in DOMAIN h[y].map THEN h[y].map[k] ELSE h[x].map[k]
    BY <1>11, <2>1
  <2>5. \A k : Append(p, k) \in both => place[Append(p, k)] = New(Append(p, k))
    BY <1>27, <2>2
  <2> QED BY <2>3, <2>4, <2>5
<1>29. IsCopy(g, h, dst, src, place)
  <2>1. /\ \A y \in DOMAIN h : y # dst => g[y] = h[y]
        /\ place[<<>>] = dst /\ \A p \in Both(h, dst, src) : place[p] \in DOMAIN g /\ g[place[p]].arr
    BY <1>3, <1>24, <1>25, <1>26
  <2>2. \A p \in Both(h, dst, src) : \A x, y : Leads(h, dst, p, x) /\ Leads(h, src, p, y) =>
          /\ DOMAIN g[place[p]].map = DOMAIN h[x].map \cup DOMAIN h[y].map
          /\ \A k \in DOMAIN h[x].map \cup DOMAIN h[y].map :
               g[place[p]].map[k] =
                 IF Append(p, k) \in Both(h, dst, src) THEN place[Append(p, k)]
                 ELSE IF k \in DOMAIN h[y].map THEN h[y].map[k] ELSE h[x].map[k]
    <3> SUFFICES ASSUME NEW p \in Both(h, dst, src), NEW x, NEW y,
                        Leads(h, dst, p, x), Leads(h, src, p, y)
                 PROVE  /\ DOMAIN g[place[p]].map = DOMAIN h[x].map \cup DOMAIN h[y].map
                        /\ \A k \in DOMAIN h[x].map \cup DOMAIN h[y].map :
                             g[place[p]].map[k] =
                               IF Append(p, k) \in Both(h, dst, src) THEN place[Append(p, k)]
                               ELSE IF k \in DOMAIN h[y].map THEN h[y].map[k] ELSE h[x].map[k]
      OBVIOUS
    <3>1. p \in both
      BY <1>3
    <3>2. /\ DOMAIN g[place[p]].map = DOMAIN h[x].map \cup DOMAIN h[y].map
          /\ \A k \in DOMAIN h[x].map \cup DOMAIN h[y].map :
               g[place[p]].map[k] =
                 IF Append(p, k) \in both THEN place[Append(p, k)]
                 ELSE IF k \in DOMAIN h[y].map THEN h[y].map[k] ELSE h[x].map[k]
      BY <1>28, <3>1
    <3> QED BY <1>3, <3>2
  <2> QED BY <2>1, <2>2 DEF IsCopy
<1>30. ASSUME NEW z \in DOMAIN g, NEW k \in DOMAIN g[z].map
       PROVE  g[z].arr /\ g[z].map[k] \in DOMAIN g /\ lev[g[z].map[k]] = lev[z] + 1
  <2>1. CASE z \notin DOMAIN h \/ z = dst
    <3>1. PICK p \in both : g[z].map = Merged(p) /\ g[z].arr /\ lev[z] = D + Len(p)
      <4>1. CASE z = dst
        <5>1. lev[dst] = D + Len(<<>>)
          BY <1>0, <1>10, EmptySeq
        <5> QED BY <1>6, <1>23, <4>1, <5>1
      <4>2. CASE z \notin DOMAIN h
        <5>1. z - n \in 1 .. m /\ g[z] = t[z - n]
          BY <1>22, <4>2
        <5>2. made[z - n] \in both /\ made[z - n] # <<>>
          BY <1>7, <5>1
        <5>3. lev[z] = D + Len(made[z - n])
          BY <1>20, <4>2 DEF lev
        <5> QED BY <1>16, <5>1, <5>2, <5>3
      <4> QED BY <2>1, <4>1, <4>2
    <3>2. Merged(p)[k] \in 1 .. n + m /\ lev[Merged(p)[k]] = D + Len(p) + 1
      BY <1>12, <1>30, <3>1
    <3> QED BY <1>20, <3>1, <3>2
  <2>2. CASE z \in DOMAIN h /\ z # dst
    <3>1. g[z] = h[z] /\ lev[z] = depth[z]
      BY <1>10, <1>24, <2>2
    <3>2. h[z].arr /\ h[z].map[k] \in DOMAIN h /\ depth[h[z].map[k]] = depth[z] + 1
      BY <1>30, <2>2, <3>1 DEF Leveled
    <3> QED BY <1>10, <1>20, <3>1, <3>2
  <2> QED BY <2>1, <2>2
<1>31. \A z \in DOMAIN g : lev[z] \in 0 .. Deepest /\ (lev[z] = 0 <=> z = 1)
  <2> SUFFICES ASSUME NEW z \in DOMAIN g
               PROVE  lev[z] \in 0 .. Deepest /\ (lev[z] = 0 <=> z = 1)
    OBVIOUS
  <2>1. CASE z \in DOMAIN h
    BY <1>10, <2>1 DEF Leveled
  <2>2. CASE z \notin DOMAIN h
    <3>1. z - n \in 1 .. m
      BY <1>22, <2>2
    <3>2. PICK p : p = made[z - n] /\ p \in both /\ p # <<>>
      BY <1>7, <3>1
    <3>3. lev[z] = D + Len(p)
      BY <1>20, <2>2, <3>2 DEF lev
    <3>4. p \in Seq(Keys) /\ D + Len(p) \in 0 .. Deepest
      BY <1>5, <3>2, HeapParts
    <3>5. Len(p) \in Nat /\ Len(p) # 0
      BY <3>2, <3>4, EmptySeq, LenProperties
    <3> QED BY <1>0, <2>2, <3>3, <3>4, <3>5
  <2> QED BY <2>1, <2>2
<1>32. lev \in [DOMAIN g -> 0 .. Deepest]
  BY <1>20, <1>31 DEF lev
<1>33. g[1].arr /\ 1 \in DOMAIN g
  BY <1>0, <1>10, <1>20, <1>23, <1>24
<1>34. Leveled(g, lev)
  BY <1>19, <1>30, <1>31, <1>32, <1>33 DEF Leveled
<1>35. Grown(h, depth, g, lev, D)
  BY <1>10, <1>20, <1>24, <1>34, HeapParts DEF Grown
<1> HIDE DEF D
<1> QED BY <1>29, <1>35 DEF D
\* Nothing that src has, but arrays that both have, is on the way to the end of p.
Free(h, dst, src, p) ==
  \A q \in Seq(Keys) : IsPrefix(q, p) /\ q \notin Both(h, dst, src) => \A y : ~Leads(h, src, q, y)

\* What leads to an array that both have is one that both have; and a key more.
LEMMA BothRules ==
  ASSUME NEW h, NEW depth, Leveled(h, depth), NEW dst \in DOMAIN h, NEW src \in DOMAIN h,
         h[dst].arr, h[src].arr
  PROVE  /\ <<>> \in Both(h, dst, src)
         /\ \A p, q \in Seq(Keys) : p \in Both(h, dst, src) /\ IsPrefix(q, p) => q \in Both(h, dst, src)
         /\ \A p \in Both(h, dst, src) : Free(h, dst, src, p)
         /\ \A p \in Seq(Keys), k \in Keys : Free(h, dst, src, Append(p, k)) <=>
              /\ Free(h, dst, src, p)
              /\ Append(p, k) \in Both(h, dst, src) \/ \A y : ~Leads(h, src, Append(p, k), y)
<1>1. <<>> \in Both(h, dst, src)
  <2>1. Leads(h, dst, <<>>, dst) /\ Leads(h, src, <<>>, src)
    BY LeadsRules
  <2> QED BY <2>1, EmptySeq DEF Both, Keeps
<1>2. ASSUME NEW z \in DOMAIN h, NEW p \in Seq(Keys), NEW q \in Seq(Keys), Keeps(h, z, p), IsPrefix(q, p)
      PROVE  Keeps(h, z, q)
  <2>1. PICK x : Leads(h, z, p, x) /\ h[x].arr
    BY <1>2 DEF Keeps
  <2>2. p = q \/ \E y : Leads(h, z, q, y) /\ h[y].arr
    BY <1>2, <2>1, ThroughArrays
  <2> QED BY <1>2, <2>2 DEF Keeps
<1>3. \A p, q \in Seq(Keys) : p \in Both(h, dst, src) /\ IsPrefix(q, p) => q \in Both(h, dst, src)
  BY <1>2 DEF Both
<1>4. \A p \in Both(h, dst, src) : Free(h, dst, src, p)
  BY <1>3 DEF Free, Both
<1>5. ASSUME NEW p \in Seq(Keys), NEW k \in Keys
      PROVE  Free(h, dst, src, Append(p, k)) <=>
              /\ Free(h, dst, src, p)
              /\ Append(p, k) \in Both(h, dst, src) \/ \A y : ~Leads(h, src, Append(p, k), y)
  <2>1. \A q \in Seq(Keys) : IsPrefix(q, Append(p, k)) <=> IsPrefix(q, p) \/ q = Append(p, k)
    BY PrefixAppend
  <2>2. Append(p, k) \in Seq(Keys)
    BY AppendProperties
  <2>3. PICK r : r = Append(p, k)
    OBVIOUS
  <2> QED BY <2>1, <2>2, <2>3 DEF Free
<1> QED BY <1>1, <1>3, <1>4, <1>5

\* Where the paths from dst lead when src has been copied to it.
LEMMA Copied ==
  ASSUME NEW h, NEW depth, Leveled(h, depth), NEW dst \in DOMAIN h, NEW src \in DOMAIN h,
         h[dst].arr, h[src].arr, depth[src] = depth[dst],
         NEW g, NEW place, NEW level, Grown(h, depth, g, level, depth[dst]),
         IsCopy(g, h, dst, src, place)
  PROVE  \A p \in Seq(Keys) : \A x : Leads(g, dst, p, x) <=>
           \/ p \in Both(h, dst, src) /\ x = place[p]
           \/ /\ p \notin Both(h, dst, src)
              /\ Leads(h, src, p, x) \/ (Leads(h, dst, p, x) /\ Free(h, dst, src, p))
<1> DEFINE B == Both(h, dst, src)
           To(p, x) == \/ p \in B /\ x = place[p]
                       \/ /\ p \notin B
                          /\ Leads(h, src, p, x) \/ (Leads(h, dst, p, x) /\ Free(h, dst, src, p))
           T == {p \in Seq(Keys) : \A x : Leads(g, dst, p, x) <=> To(p, x)}
<1>0. /\ Leveled(g, level) /\ dst \in DOMAIN g
      /\ \A y \in DOMAIN h : y # dst => g[y] = h[y]
      /\ place[<<>>] = dst
  BY DEF Grown, IsCopy
<1>1. /\ <<>> \in B
      /\ \A p, q \in Seq(Keys) : p \in B /\ IsPrefix(q, p) => q \in B
      /\ \A p \in B : Free(h, dst, src, p)
      /\ \A p \in Seq(Keys), k \in Keys : Free(h, dst, src, Append(p, k)) <=>
           /\ Free(h, dst, src, p)
           /\ Append(p, k) \in B \/ \A y : ~Leads(h, src, Append(p, k), y)
  BY BothRules
<1>2. ASSUME NEW p \in B, NEW x, NEW y, Leads(h, dst, p, x), Leads(h, src, p, y)
      PROVE  /\ DOMAIN g[place[p]].map = DOMAIN h[x].map \cup DOMAIN h[y].map
             /\ \A k \in DOMAIN h[x].map \cup DOMAIN h[y].map :
                  g[place[p]].map[k] =
                    IF Append(p, k) \in B THEN place[Append(p, k)]
                    ELSE IF k \in DOMAIN h[y].map THEN h[y].map[k] ELSE h[x].map[k]
  BY <1>2 DEF IsCopy
<1>3. \A p \in B : /\ p \in Seq(Keys)
                   /\ \E x : Leads(h, dst, p, x) /\ h[x].arr
                   /\ \E x : Leads(h, src, p, x) /\ h[x].arr
  BY DEF Both, Keeps
<1>4. ASSUME NEW p \in Seq(Keys), p \notin B, NEW y, Leads(h, src, p, y) \/ Leads(h, dst, p, y)
      PROVE  y \in DOMAIN h /\ g[y] = h[y]
  <2>1. y \in DOMAIN h /\ depth[y] = depth[dst] + Len(p)
    BY <1>4, LeadsRules
  <2>2. Len(p) \in Nat /\ Len(p) # 0
    BY <1>1, <1>4, EmptySeq, LenProperties
  <2>3. y # dst
    BY <2>1, <2>2, HeapParts, IniAssumption
  <2> QED BY <1>0, <2>1, <2>3
<1>5. \A p \in Seq(Keys), k \in Keys : \A x :
        /\ Leads(g, dst, Append(p, k), x) <=>
             \E y : Leads(g, dst, p, y) /\ k \in DOMAIN g[y].map /\ x = g[y].map[k]
        /\ Leads(h, dst, Append(p, k), x) <=>
             \E y : Leads(h, dst, p, y) /\ k \in DOMAIN h[y].map /\ x = h[y].map[k]
        /\ Leads(h, src, Append(p, k), x) <=>
             \E y : Leads(h, src, p, y) /\ k \in DOMAIN h[y].map /\ x = h[y].map[k]
  BY <1>0, LeadsRules
<1>6. <<>> \in T
  <2>1. \A x : Leads(g, dst, <<>>, x) <=> x = dst
    BY <1>0, LeadsRules
  <2> QED BY <1>0, <1>1, <2>1, EmptySeq
<1>7. ASSUME NEW p \in Seq(Keys), NEW k \in Keys, p \in T PROVE Append(p, k) \in T
  <2>1. Append(p, k) \in Seq(Keys) /\ IsPrefix(p, Append(p, k))
    BY AppendProperties, PrefixAppend, PrefixOrder
  <2>2. PICK q : q = Append(p, k)
    OBVIOUS
  <2>3. \A x : Leads(g, dst, p, x) <=> To(p, x)
    BY <1>7
  <2> SUFFICES ASSUME NEW x PROVE Leads(g, dst, q, x) <=> To(q, x)
    BY <2>1, <2>2
  <2>4. /\ Leads(g, dst, q, x) <=>
             \E y : Leads(g, dst, p, y) /\ k \in DOMAIN g[y].map /\ x = g[y].map[k]
        /\ Leads(h, dst, q, x) <=>
             \E y : Leads(h, dst, p, y) /\ k \in DOMAIN h[y].map /\ x = h[y].map[k]
        /\ \A u : Leads(h, src, q, u) <=>
             \E y : Leads(h, src, p, y) /\ k \in DOMAIN h[y].map /\ u = h[y].map[k]
    BY <1>5, <2>2
  <2>5. Free(h, dst, src, q) <=> Free(h, dst, src, p) /\ (q \in B \/ \A y : ~Leads(h, src, q, y))
    BY <1>1, <2>2
  <2>6. CASE p \in B
    <3>1. PICK a : Leads(h, dst, p, a) /\ h[a].arr
      BY <1>3, <2>6
    <3>2. PICK b : Leads(h, src, p, b) /\ h[b].arr
      BY <1>3, <2>6
    <3>3. /\ DOMAIN g[place[p]].map = DOMAIN h[a].map \cup DOMAIN h[b].map
          /\ k \in DOMAIN h[a].map \cup DOMAIN h[b].map =>
               g[place[p]].map[k] =
                 IF q \in B THEN place[q]
                 ELSE IF k \in DOMAIN h[b].map THEN h[b].map[k] ELSE h[a].map[k]
      BY <1>2, <2>2, <2>6, <3>1, <3>2
    <3>4. Leads(g, dst, q, x) <=> k \in DOMAIN g[place[p]].map /\ x = g[place[p]].map[k]
      BY <2>3, <2>4, <2>6
    <3>5. /\ Leads(h, dst, q, x) <=> k \in DOMAIN h[a].map /\ x = h[a].map[k]
          /\ \A u : Leads(h, src, q, u) <=> k \in DOMAIN h[b].map /\ u = h[b].map[k]
      <4>1. \A y : (Leads(h, dst, p, y) => y = a) /\ (Leads(h, src, p, y) => y = b)
        BY <3>1, <3>2, OnePlace
      <4> QED BY <2>4, <3>1, <3>2, <4>1
    <3>6. Free(h, dst, src, p)
      BY <1>1, <2>6
    <3>7. CASE q \in B
      <4>1. k \in DOMAIN h[a].map
        <5>1. PICK u : Leads(h, dst, q, u)
          BY <1>3, <3>7
        <5>2. Leads(h, dst, Append(p, k), u)
          BY <2>2, <5>1
        <5>3. PICK y : Leads(h, dst, p, y) /\ k \in DOMAIN h[y].map
          BY <1>5, <5>2
        <5> QED BY <3>1, <5>3, OnePlace
      <4> QED BY <3>3, <3>4, <3>7, <4>1
    <3>8. CASE q \notin B /\ k \in DOMAIN h[b].map
      <4>1. ~Free(h, dst, src, q)
        BY <2>5, <3>5, <3>8
      <4> QED BY <3>3, <3>4, <3>5, <3>8, <4>1
    <3>9. CASE q \notin B /\ k \notin DOMAIN h[b].map
      <4>1. Free(h, dst, src, q) /\ ~Leads(h, src, q, x)
        BY <2>5, <3>5, <3>6, <3>9
      <4> QED BY <3>3, <3>4, <3>5, <3>9, <4>1
    <3> QED BY <3>7, <3>8, <3>9
  <2>7. CASE p \notin B
    <3>1. q \notin B
      BY <1>1, <2>1, <2>2, <2>7
    <3>2. \A y : Leads(h, src, p, y) \/ Leads(h, dst, p, y) => g[y] = h[y]
      BY <1>4, <2>7
    <3>3. Leads(g, dst, q, x) <=> Leads(h, src, q, x) \/ (Leads(h, dst, q, x) /\ Free(h, dst, src, p))
      BY <2>3, <2>4, <2>7, <3>2
    <3>4. Free(h, dst, src, p) => \A y : ~Leads(h, src, p, y)
      BY <2>7, PrefixOrder DEF Free
    <3>5. Free(h, dst, src, p) <=> Free(h, dst, src, q)
      BY <2>4, <2>5, <3>1, <3>4
    <3> QED BY <3>1, <3>3, <3>5
  <2> QED BY <2>6, <2>7
<1>8. \A p \in Seq(Keys) : p \in T
  <2> HIDE DEF T
  <2> QED BY <1>6, <1>7, PathInduction
<1> QED BY <1>8
\* So what src says prevails.
LEMMA CopiedSays ==
  ASSUME NEW h, NEW depth, Leveled(h, depth), NEW dst \in DOMAIN h, NEW src \in DOMAIN h,
         h[dst].arr, h[src].arr, depth[src] = depth[dst],
         NEW g, NEW place, NEW level, Grown(h, depth, g, level, depth[dst]),
         IsCopy(g, h, dst, src, place)
  PROVE  \A p \in Seq(Keys) :
           /\ Keeps(g, dst, p) <=> Keeps(h, src, p) \/ (Keeps(h, dst, p) /\ Free(h, dst, src, p))
           /\ \A v : Tells(g, dst, p, v) <=>
                Tells(h, src, p, v) \/ (Tells(h, dst, p, v) /\ Free(h, dst, src, p))
<1> SUFFICES ASSUME NEW p \in Seq(Keys)
    PROVE  /\ Keeps(g, dst, p) <=> Keeps(h, src, p) \/ (Keeps(h, dst, p) /\ Free(h, dst, src, p))
           /\ \A v : Tells(g, dst, p, v) <=>
                Tells(h, src, p, v) \/ (Tells(h, dst, p, v) /\ Free(h, dst, src, p))
  OBVIOUS
<1>1. \A x : Leads(g, dst, p, x) <=>
        \/ p \in Both(h, dst, src) /\ x = place[p]
        \/ /\ p \notin Both(h, dst, src)
           /\ Leads(h, src, p, x) \/ (Leads(h, dst, p, x) /\ Free(h, dst, src, p))
  BY Copied
<1>2. CASE p \in Both(h, dst, src)
  <2>1. g[place[p]].arr
    BY <1>2 DEF IsCopy
  <2>2. PICK a : Leads(h, dst, p, a) /\ h[a].arr
    BY <1>2 DEF Both, Keeps
  <2>3. PICK b : Leads(h, src, p, b) /\ h[b].arr
    BY <1>2 DEF Both, Keeps
  <2>4. \A y : (Leads(h, dst, p, y) => y = a) /\ (Leads(h, src, p, y) => y = b)
    BY <2>2, <2>3, OnePlace
  <2> QED BY <1>1, <1>2, <2>1, <2>2, <2>3, <2>4 DEF Keeps, Tells
<1>3. CASE p \notin Both(h, dst, src)
  <2>1. p # <<>>
    BY <1>3, BothRules
  <2>2. ASSUME NEW y, Leads(h, src, p, y) \/ Leads(h, dst, p, y) PROVE g[y] = h[y]
    <3>1. y \in DOMAIN h /\ depth[y] = depth[dst] + Len(p)
      BY <2>2, LeadsRules
    <3>2. Len(p) \in Nat /\ Len(p) # 0
      BY <2>1, EmptySeq, LenProperties
    <3>3. y # dst
      BY <3>1, <3>2, HeapParts, IniAssumption
    <3> QED BY <3>1, <3>3 DEF IsCopy
  <2> QED BY <1>1, <1>3, <2>2 DEF Keeps, Tells
<1> QED BY <1>2, <1>3

\* Beneath z every array has a leaf.
Full(h, z) ==
  \A p \in Seq(Keys) : Keeps(h, z, p) /\ p # <<>> =>
    \E q \in Seq(Keys) : \E v : IsPrefix(p, q) /\ Tells(h, z, q, v)

\* There is a value or an array at the end of a path from z, and only arrays before it.
LEMMA TellsRules ==
  ASSUME NEW h, NEW depth, Leveled(h, depth), NEW z \in DOMAIN h
  PROVE  /\ \A p, v : Tells(h, z, p, v) => p \in Seq(Keys) /\ ~Keeps(h, z, p)
         /\ \A p : Keeps(h, z, p) => p \in Seq(Keys)
         /\ \A p, u, v : Tells(h, z, p, u) /\ Tells(h, z, p, v) => u = v
         /\ \A p, q \in Seq(Keys) : IsPrefix(q, p) /\ p # q =>
              /\ Keeps(h, z, p) => Keeps(h, z, q)
              /\ \A v : Tells(h, z, p, v) => Keeps(h, z, q)
<1>1. \A p, x : Leads(h, z, p, x) => p \in Seq(Keys)
  BY LeadsRules
<1>2. \A p, x, y : Leads(h, z, p, x) /\ Leads(h, z, p, y) => x = y
  BY OnePlace
<1>3. ASSUME NEW p \in Seq(Keys), NEW q \in Seq(Keys), IsPrefix(q, p), p # q, NEW x, Leads(h, z, p, x)
      PROVE  Keeps(h, z, q)
  BY <1>3, ThroughArrays DEF Keeps
<1> QED BY <1>1, <1>2, <1>3 DEF Keeps, Tells

\* Where every array of src has a leaf, a leaf of dst is kept if it clashes with none
\* of src.
LEMMA FreeOfLeaves ==
  ASSUME NEW h, NEW depth, Leveled(h, depth), NEW dst \in DOMAIN h, NEW src \in DOMAIN h,
         h[dst].arr, h[src].arr, Full(h, src),
         NEW p \in Seq(Keys), NEW v, Tells(h, dst, p, v)
  PROVE  Free(h, dst, src, p) <=>
           \A q \in Seq(Keys) : \A u : Tells(h, src, q, u) => ~IsPrefix(q, p) /\ ~IsPrefix(p, q)
<1>0. /\ \A q, u : Tells(h, src, q, u) => q \in Seq(Keys) /\ ~Keeps(h, src, q)
      /\ \A q, r \in Seq(Keys) : IsPrefix(r, q) /\ q # r =>
           /\ Keeps(h, src, q) => Keeps(h, src, r)
           /\ \A u : Tells(h, src, q, u) => Keeps(h, src, r)
  BY TellsRules
<1>1. /\ ~Keeps(h, dst, p)
      /\ \A r \in Seq(Keys) : IsPrefix(r, p) /\ p # r => Keeps(h, dst, r)
  BY TellsRules
<1>2. /\ p \notin Both(h, dst, src) /\ p # <<>>
      /\ \A q \in Both(h, dst, src) : Keeps(h, src, q)
      /\ \A q \in Seq(Keys) : Keeps(h, dst, q) /\ Keeps(h, src, q) => q \in Both(h, dst, src)
  BY <1>1, BothRules DEF Both
<1>3. \A q : (\E y : Leads(h, src, q, y)) <=> Keeps(h, src, q) \/ \E u : Tells(h, src, q, u)
  <2> SUFFICES ASSUME NEW q
      PROVE  (\E y : Leads(h, src, q, y)) <=> Keeps(h, src, q) \/ \E u : Tells(h, src, q, u)
    OBVIOUS
  <2>1. ASSUME NEW y, Leads(h, src, q, y) PROVE Keeps(h, src, q) \/ \E u : Tells(h, src, q, u)
    <3>1. CASE h[y].arr
      BY <2>1, <3>1 DEF Keeps
    <3>2. CASE ~h[y].arr
      <4>1. Tells(h, src, q, h[y].val)
        BY <2>1, <3>2 DEF Tells
      <4> QED BY <4>1
    <3> QED BY <3>1, <3>2
  <2> QED BY <2>1 DEF Keeps, Tells
<1>4. ASSUME Free(h, dst, src, p), NEW q \in Seq(Keys), NEW u, Tells(h, src, q, u)
      PROVE  ~IsPrefix(q, p) /\ ~IsPrefix(p, q)
  <2>1. q \notin Both(h, dst, src)
    BY <1>0, <1>2, <1>4
  <2>2. ~IsPrefix(q, p)
    BY <1>3, <1>4, <2>1 DEF Free
  <2>3. \A y : ~Leads(h, src, p, y)
    BY <1>2, <1>4, PrefixOrder DEF Free
  <2>4. ~IsPrefix(p, q)
    <3>1. p # q
      BY <2>2, PrefixOrder
    <3> QED BY <1>0, <1>3, <1>4, <2>3, <3>1
  <2> QED BY <2>2, <2>4
<1>5. ASSUME \A q \in Seq(Keys) : \A u : Tells(h, src, q, u) => ~IsPrefix(q, p) /\ ~IsPrefix(p, q)
      PROVE  Free(h, dst, src, p)
  <2> SUFFICES ASSUME NEW q \in Seq(Keys), IsPrefix(q, p), q \notin Both(h, dst, src),
                      NEW y, Leads(h, src, q, y)
               PROVE  FALSE
    BY DEF Free
  <2>1. Keeps(h, src, q)
    BY <1>3, <1>5
  <2>2. q = p
    BY <1>1, <1>2, <2>1
  <2>3. \E r \in Seq(Keys) : \E u : IsPrefix(p, r) /\ Tells(h, src, r, u)
    BY <1>2, <2>1, <2>2 DEF Full
  <2> QED BY <1>5, <2>3
<1> QED BY <1>4, <1>5

\* And every array has a leaf again.
LEMMA CopiedFull ==
  ASSUME NEW h, NEW depth, Leveled(h, depth), NEW dst \in DOMAIN h, NEW src \in DOMAIN h,
         h[dst].arr, h[src].arr, depth[src] = depth[dst],
         NEW g, NEW place, NEW level, Grown(h, depth, g, level, depth[dst]),
         IsCopy(g, h, dst, src, place), Full(h, src), Full(h, dst)
  PROVE  Full(g, dst)
<1>1. \A p \in Seq(Keys) :
        /\ Keeps(g, dst, p) <=> Keeps(h, src, p) \/ (Keeps(h, dst, p) /\ Free(h, dst, src, p))
        /\ \A v : Tells(g, dst, p, v) <=>
             Tells(h, src, p, v) \/ (Tells(h, dst, p, v) /\ Free(h, dst, src, p))
  BY CopiedSays
<1> SUFFICES ASSUME NEW p \in Seq(Keys), Keeps(g, dst, p), p # <<>>
             PROVE  \E q \in Seq(Keys) : \E v : IsPrefix(p, q) /\ Tells(g, dst, q, v)
  BY DEF Full
<1>2. CASE Keeps(h, src, p)
  BY <1>1, <1>2 DEF Full
<1>3. CASE ~Keeps(h, src, p) /\ Keeps(h, dst, p) /\ Free(h, dst, src, p)
  <2>1. PICK q, v : q \in Seq(Keys) /\ IsPrefix(p, q) /\ Tells(h, dst, q, v)
    BY <1>3 DEF Full
  <2>2. \A y : ~Leads(h, src, p, y)
    BY <1>3, PrefixOrder DEF Free, Both
  <2>3. Free(h, dst, src, q)
    <3> SUFFICES ASSUME NEW r \in Seq(Keys), IsPrefix(r, q), r \notin Both(h, dst, src),
                        NEW y, Leads(h, src, r, y)
                 PROVE  FALSE
      BY DEF Free
    <3>1. ~IsPrefix(r, p)
      BY <1>3 DEF Free
    <3>2. IsPrefix(p, r)
      BY <2>1, <3>1, PrefixOrder
    <3>3. p = r \/ \E u : Leads(h, src, p, u) /\ h[u].arr
      BY <3>2, ThroughArrays
    <3> QED BY <2>2, <3>3
  <2> QED BY <1>1, <2>1, <2>3
<1> QED BY <1>1, <1>2, <1>3
--------------------------------------------------------------------------------
(* Sets of leaves, and what the zvals tell.                                *)

LeafSet(S) == \A l \in S : \E p \in Seq(Keys) : \E v : l = Leaf(p, v)

\* A leaf is its path and its value; sets of the same leaves are the same.
LEMMA SameLeaves ==
  /\ \A p, q, u, v : Leaf(p, u) = Leaf(q, v) => p = q /\ u = v
  /\ \A S, T : LeafSet(S) /\ LeafSet(T) /\ (\A p \in Seq(Keys) : \A v : Leaf(p, v) \in S <=> Leaf(p, v) \in T)
                 => S = T
<1>1. ASSUME NEW p, NEW q, NEW u, NEW v, Leaf(p, u) = Leaf(q, v) PROVE p = q /\ u = v
  <2>1. Leaf(p, u).path = Leaf(q, v).path /\ Leaf(p, u).val = Leaf(q, v).val
    BY <1>1
  <2> QED BY <2>1 DEF Leaf
<1>2. ASSUME NEW S, NEW T, LeafSet(S), LeafSet(T),
             \A p \in Seq(Keys) : \A v : Leaf(p, v) \in S <=> Leaf(p, v) \in T
      PROVE  S = T
  <2>1. \A l : l \in S <=> l \in T
    BY <1>2 DEF LeafSet
  <2> QED BY <2>1
<1> QED BY <1>1, <1>2

\* The leaves under z are what z tells.
LEMMA LeavesTell ==
  ASSUME NEW h, NEW depth, Leveled(h, depth), NEW z \in DOMAIN h
  PROVE  /\ LeafSet(Leaves(h, z))
         /\ \A p, v : Leaf(p, v) \in Leaves(h, z) <=> Tells(h, z, p, v)
<1>1. \A l : l \in Leaves(h, z) <=> \E w \in Walks(h, z) : ~h[w.at].arr /\ l = Leaf(w.path, h[w.at].val)
  BY DEF Leaves
<1>2. \A w \in Walks(h, z) : Leads(h, z, w.path, w.at) /\ w.path \in Seq(Keys)
  BY LeadsRules
<1>3. LeafSet(Leaves(h, z))
  BY <1>1, <1>2 DEF LeafSet
<1>4. ASSUME NEW p, NEW v PROVE Leaf(p, v) \in Leaves(h, z) <=> Tells(h, z, p, v)
  <2>1. ASSUME Leaf(p, v) \in Leaves(h, z) PROVE Tells(h, z, p, v)
    <3>1. PICK w \in Walks(h, z) : ~h[w.at].arr /\ Leaf(p, v) = Leaf(w.path, h[w.at].val)
      BY <1>1, <2>1
    <3>2. p = w.path /\ v = h[w.at].val
      BY <3>1, SameLeaves
    <3> QED BY <1>2, <3>1, <3>2 DEF Tells
  <2>2. ASSUME Tells(h, z, p, v) PROVE Leaf(p, v) \in Leaves(h, z)
    <3>1. PICK x : [path |-> p, at |-> x] \in Walks(h, z) /\ ~h[x].arr /\ h[x].val = v
      BY <2>2 DEF Tells, Leads
    <3>2. PICK w : w = [path |-> p, at |-> x]
      OBVIOUS
    <3>3. w \in Walks(h, z) /\ w.path = p /\ w.at = x
      BY <3>1, <3>2
    <3> QED BY <1>1, <3>1, <3>3
  <2> QED BY <2>1, <2>2
<1> QED BY <1>3, <1>4

\* What prevails over what.
LEMMA OverRules ==
  ASSUME NEW S, NEW over, LeafSet(S), LeafSet(over)
  PROVE  /\ LeafSet(LeafOver(S, over))
         /\ \A p \in Seq(Keys) : \A v : Leaf(p, v) \in LeafOver(S, over) <=>
              \/ Leaf(p, v) \in over
              \/ /\ Leaf(p, v) \in S
                 /\ \A q \in Seq(Keys) : \A u : Leaf(q, u) \in over => ~IsPrefix(q, p) /\ ~IsPrefix(p, q)
         /\ LeafOver(S, {}) = S
<1>1. \A l : l \in LeafOver(S, over) <=> l \in over \/ (l \in S /\ \A m \in over : ~Clashes(l, m))
  BY DEF LeafOver
<1>2. \A p, q, u, v : Clashes(Leaf(p, v), Leaf(q, u)) <=> IsPrefix(p, q) \/ IsPrefix(q, p)
  BY DEF Clashes, Leaf
<1>3. LeafSet(LeafOver(S, over))
  BY <1>1 DEF LeafSet
<1>4. ASSUME NEW p \in Seq(Keys), NEW v
      PROVE  (\A m \in over : ~Clashes(Leaf(p, v), m)) <=>
               \A q \in Seq(Keys) : \A u : Leaf(q, u) \in over => ~IsPrefix(q, p) /\ ~IsPrefix(p, q)
  <2>1. \A m \in over : \E q \in Seq(Keys) : \E u : m = Leaf(q, u)
    BY DEF LeafSet
  <2> QED BY <1>2, <2>1
<1>5. LeafOver(S, {}) = S
  <2>1. \A l : l \in LeafOver(S, {}) <=> l \in S
    BY DEF LeafOver
  <2> QED BY <2>1
<1> QED BY <1>1, <1>3, <1>4, <1>5

\* A path's first key and the rest.
LEMMA ConsParts ==
  ASSUME NEW k \in Keys, NEW s \in Seq(Keys), NEW q, q = <<k>> \o s
  PROVE  /\ q \in Seq(Keys) /\ q[1] = k /\ Tail(q) = s /\ Len(q) = 1 + Len(s)
         /\ q # <<>>
<1>1. /\ <<k>> \in Seq(Keys) /\ Len(<<k>>) = 1 /\ <<k>>[1] = k
      /\ Len(s) \in Nat
  BY LenProperties
<1>2. PICK one : one = <<k>>
  OBVIOUS
<1>3. /\ q \in Seq(Keys) /\ Len(q) = Len(one) + Len(s)
      /\ \A i \in 1 .. Len(one) + Len(s) : q[i] = IF i <= Len(one) THEN one[i] ELSE s[i - Len(one)]
  BY <1>1, <1>2, ConcatProperties
<1>4. /\ Len(q) = 1 + Len(s) /\ 1 \in 1 .. 1 + Len(s)
      /\ \A i \in 1 .. 1 + Len(s) : q[i] = IF i <= 1 THEN k ELSE s[i - 1]
  BY <1>1, <1>2, <1>3
<1>5. q[1] = k /\ q # <<>>
  BY <1>1, <1>4, EmptySeq
<1>6. /\ Tail(q) \in Seq(Keys) /\ Len(Tail(q)) = Len(q) - 1
      /\ \A i \in 1 .. Len(Tail(q)) : Tail(q)[i] = q[i + 1]
  BY <1>3, <1>5, HeadTailProperties, LenProperties
<1>7. Len(Tail(q)) = Len(s)
  BY <1>1, <1>4, <1>6
<1>8. \A i \in 1 .. Len(s) : Tail(q)[i] = s[i]
  <2> SUFFICES ASSUME NEW i \in 1 .. Len(s) PROVE Tail(q)[i] = s[i]
    OBVIOUS
  <2>1. i + 1 \in 1 .. 1 + Len(s) /\ ~(i + 1 <= 1) /\ (i + 1) - 1 = i
    BY <1>1
  <2>2. q[i + 1] = s[i]
    BY <1>4, <2>1
  <2> QED BY <1>6, <1>7, <2>2
<1>9. Tail(q) = s
  BY <1>6, <1>7, <1>8, SeqEqual
<1> QED BY <1>3, <1>4, <1>5, <1>9

\* What a section says.
LEMMA SubRules ==
  ASSUME NEW S, LeafSet(S), NEW k \in Keys
  PROVE  /\ LeafSet(Sub(S, k))
         /\ \A p \in Seq(Keys) : \A v : Leaf(p, v) \in Sub(S, k) <=> p # <<>> /\ Leaf(<<k>> \o p, v) \in S
<1>1. \A l : l \in Sub(S, k) <=> \E m \in S : /\ Len(m.path) > 1 /\ m.path[1] = k
                                             /\ l = Leaf(Tail(m.path), m.val)
  BY DEF Sub
<1>2. ASSUME NEW m \in S, Len(m.path) > 1, m.path[1] = k
      PROVE  \E p \in Seq(Keys) : \E v : p # <<>> /\ m = Leaf(<<k>> \o p, v) /\ Tail(m.path) = p /\ m.val = v
  <2>1. PICK q, v : q \in Seq(Keys) /\ m = Leaf(q, v)
    BY DEF LeafSet
  <2>2. m.path = q /\ m.val = v
    BY <2>1 DEF Leaf
  <2>3. q # <<>> /\ Len(q) > 1
    BY <1>2, <2>2, EmptySeq
  <2>4. PICK j \in Keys, s \in Seq(Keys) : q = <<j>> \o s
    BY <2>1, <2>3, FirstKey
  <2>5. q[1] = j /\ Tail(q) = s /\ Len(q) = 1 + Len(s)
    BY <2>4, ConsParts
  <2>6. s # <<>> /\ j = k
    BY <1>2, <2>2, <2>3, <2>5, EmptySeq
  <2> QED BY <2>1, <2>2, <2>4, <2>5, <2>6
<1>3. LeafSet(Sub(S, k))
  <2> SUFFICES ASSUME NEW l \in Sub(S, k) PROVE \E p \in Seq(Keys) : \E v : l = Leaf(p, v)
    BY DEF LeafSet
  <2>1. PICK m \in S : Len(m.path) > 1 /\ m.path[1] = k /\ l = Leaf(Tail(m.path), m.val)
    BY <1>1
  <2> QED BY <1>2, <2>1
<1>4. ASSUME NEW p \in Seq(Keys), NEW v
      PROVE  Leaf(p, v) \in Sub(S, k) <=> p # <<>> /\ Leaf(<<k>> \o p, v) \in S
  <2>1. ASSUME Leaf(p, v) \in Sub(S, k) PROVE p # <<>> /\ Leaf(<<k>> \o p, v) \in S
    <3>1. PICK m \in S : Len(m.path) > 1 /\ m.path[1] = k /\ Leaf(p, v) = Leaf(Tail(m.path), m.val)
      BY <1>1, <2>1
    <3>2. p = Tail(m.path) /\ v = m.val
      BY <3>1, SameLeaves
    <3> QED BY <1>2, <3>1, <3>2
  <2>2. ASSUME p # <<>>, Leaf(<<k>> \o p, v) \in S PROVE Leaf(p, v) \in Sub(S, k)
    <3>1. PICK q : q = <<k>> \o p
      OBVIOUS
    <3>2. q[1] = k /\ Tail(q) = p /\ Len(q) = 1 + Len(p)
      BY <3>1, ConsParts
    <3>3. Len(p) \in Nat /\ Len(p) # 0
      BY <2>2, EmptySeq, LenProperties
    <3>4. PICK m : m = Leaf(q, v)
      OBVIOUS
    <3>5. m \in S /\ m.path = q /\ m.val = v
      BY <2>2, <3>1, <3>4 DEF Leaf
    <3>6. Len(q) > 1
      BY <3>2, <3>3
    <3> QED BY <1>1, <3>2, <3>5, <3>6
  <2> QED BY <2>1, <2>2
<1> QED BY <1>3, <1>4

\* What the section of a name in the returned array tells.
LEMMA SubOfHeap ==
  ASSUME NEW h, NEW depth, Leveled(h, depth), NEW k \in Keys
  PROVE  /\ k \in DOMAIN h[1].map /\ h[h[1].map[k]].arr => Sub(Leaves(h, 1), k) = Leaves(h, h[1].map[k])
         /\ k \notin DOMAIN h[1].map => Sub(Leaves(h, 1), k) = {}
<1>1. 1 \in DOMAIN h
  BY DEF Leveled
<1>2. LeafSet(Leaves(h, 1)) /\ \A p, v : Leaf(p, v) \in Leaves(h, 1) <=> Tells(h, 1, p, v)
  BY <1>1, LeavesTell
<1>3. /\ LeafSet(Sub(Leaves(h, 1), k))
      /\ \A p \in Seq(Keys) : \A v : Leaf(p, v) \in Sub(Leaves(h, 1), k) <=>
           p # <<>> /\ Leaf(<<k>> \o p, v) \in Leaves(h, 1)
  BY <1>2, SubRules
<1>4. \A p \in Seq(Keys) : \A x :
        Leads(h, 1, <<k>> \o p, x) <=> k \in DOMAIN h[1].map /\ Leads(h, h[1].map[k], p, x)
  BY <1>1, LeadsFirst
<1>5. ASSUME k \in DOMAIN h[1].map, h[h[1].map[k]].arr
      PROVE  Sub(Leaves(h, 1), k) = Leaves(h, h[1].map[k])
  <2>1. PICK z : z = h[1].map[k]
    OBVIOUS
  <2>2. z \in DOMAIN h
    BY <1>1, <1>5, <2>1 DEF Leveled
  <2>3. LeafSet(Leaves(h, z)) /\ \A p, v : Leaf(p, v) \in Leaves(h, z) <=> Tells(h, z, p, v)
    BY <2>2, LeavesTell
  <2>4. \A p \in Seq(Keys) : \A v : Tells(h, z, p, v) <=> Tells(h, 1, <<k>> \o p, v)
    BY <1>4, <1>5, <2>1 DEF Tells
  <2>5. \A v : ~Tells(h, z, <<>>, v)
    BY <1>5, <2>1, <2>2, LeadsRules DEF Tells
  <2>6. \A p \in Seq(Keys) : \A v : Leaf(p, v) \in Sub(Leaves(h, 1), k) <=> Leaf(p, v) \in Leaves(h, z)
    BY <1>2, <1>3, <2>3, <2>4, <2>5
  <2>7. Sub(Leaves(h, 1), k) = Leaves(h, z)
    BY <1>3, <2>3, <2>6, SameLeaves
  <2> QED BY <2>1, <2>7
<1>6. ASSUME k \notin DOMAIN h[1].map PROVE Sub(Leaves(h, 1), k) = {}
  <2>1. \A p \in Seq(Keys) : \A v : Leaf(p, v) \notin Sub(Leaves(h, 1), k)
    BY <1>2, <1>3, <1>4, <1>6 DEF Tells
  <2> QED BY <1>3, <2>1 DEF LeafSet
<1> QED BY <1>5, <1>6
\* Zvals that are as they were lead where they led, and tell what they told.
LEMMA TellsSame ==
  ASSUME NEW h, NEW depth, Leveled(h, depth), NEW g, NEW level, Leveled(g, level),
         NEW z \in DOMAIN h \cap DOMAIN g,
         \A p, y : Leads(h, z, p, y) => g[y] = h[y]
  PROVE  /\ \A p : Keeps(g, z, p) <=> Keeps(h, z, p)
         /\ \A p, v : Tells(g, z, p, v) <=> Tells(h, z, p, v)
         /\ Leaves(g, z) = Leaves(h, z)
         /\ Full(g, z) <=> Full(h, z)
<1>1. \A p, x : Leads(g, z, p, x) <=> Leads(h, z, p, x)
  BY SameWays
<1>2. /\ \A p : Keeps(g, z, p) <=> Keeps(h, z, p)
      /\ \A p, v : Tells(g, z, p, v) <=> Tells(h, z, p, v)
  BY <1>1 DEF Keeps, Tells
<1>3. Leaves(g, z) = Leaves(h, z)
  <2>1. LeafSet(Leaves(h, z)) /\ \A p, v : Leaf(p, v) \in Leaves(h, z) <=> Tells(h, z, p, v)
    BY LeavesTell
  <2>2. LeafSet(Leaves(g, z)) /\ \A p, v : Leaf(p, v) \in Leaves(g, z) <=> Tells(g, z, p, v)
    BY LeavesTell
  <2> QED BY <1>2, <2>1, <2>2, SameLeaves
<1>4. Full(g, z) <=> Full(h, z)
  BY <1>2 DEF Full
<1> QED BY <1>2, <1>3, <1>4

\* The leaves of a copy.
LEMMA CopiedLeaves ==
  ASSUME NEW h, NEW depth, Leveled(h, depth), NEW dst \in DOMAIN h, NEW src \in DOMAIN h,
         h[dst].arr, h[src].arr, depth[src] = depth[dst],
         NEW g, NEW place, NEW level, Grown(h, depth, g, level, depth[dst]),
         IsCopy(g, h, dst, src, place), Full(h, src)
  PROVE  Leaves(g, dst) = LeafOver(Leaves(h, dst), Leaves(h, src))
<1>1. \A p \in Seq(Keys) : \A v : Tells(g, dst, p, v) <=>
        Tells(h, src, p, v) \/ (Tells(h, dst, p, v) /\ Free(h, dst, src, p))
  BY CopiedSays
<1>2. LeafSet(Leaves(h, dst)) /\ \A p, v : Leaf(p, v) \in Leaves(h, dst) <=> Tells(h, dst, p, v)
  BY LeavesTell
<1>3. LeafSet(Leaves(h, src)) /\ \A p, v : Leaf(p, v) \in Leaves(h, src) <=> Tells(h, src, p, v)
  BY LeavesTell
<1>4. LeafSet(Leaves(g, dst)) /\ \A p, v : Leaf(p, v) \in Leaves(g, dst) <=> Tells(g, dst, p, v)
  BY LeavesTell DEF Grown
<1>5. /\ LeafSet(LeafOver(Leaves(h, dst), Leaves(h, src)))
      /\ \A p \in Seq(Keys) : \A v : Leaf(p, v) \in LeafOver(Leaves(h, dst), Leaves(h, src)) <=>
           \/ Leaf(p, v) \in Leaves(h, src)
           \/ /\ Leaf(p, v) \in Leaves(h, dst)
              /\ \A q \in Seq(Keys) : \A u : Leaf(q, u) \in Leaves(h, src) => ~IsPrefix(q, p) /\ ~IsPrefix(p, q)
  BY <1>2, <1>3, OverRules
<1>6. \A p \in Seq(Keys) : \A v : Tells(h, dst, p, v) =>
        (Free(h, dst, src, p) <=>
           \A q \in Seq(Keys) : \A u : Tells(h, src, q, u) => ~IsPrefix(q, p) /\ ~IsPrefix(p, q))
  BY FreeOfLeaves
<1>7. ASSUME NEW p \in Seq(Keys), NEW v
      PROVE  Leaf(p, v) \in Leaves(g, dst) <=> Leaf(p, v) \in LeafOver(Leaves(h, dst), Leaves(h, src))
  BY <1>1, <1>2, <1>3, <1>4, <1>5, <1>6
<1> QED BY <1>4, <1>5, <1>7, SameLeaves

--------------------------------------------------------------------------------
(* The parents of a section, one after the other.                          *)

\* What a section is given by its parents, the i last of them.
IsGiven(f, S, parents) ==
  f = [i \in 0 .. Len(parents) |->
         IF i = 0 THEN {} ELSE LeafOver(f[i - 1], Sub(S, parents[Len(parents) + 1 - i]))]

\* There is such a function.
LEMMA GivenRuns ==
  ASSUME NEW S, NEW parents \in Seq(Keys)
  PROVE  \E f : IsGiven(f, S, parents)
<1> DEFINE n == Len(parents)
           B == [i \in 1 .. n |-> Sub(S, parents[n + 1 - i])]
           all == UNION {B[i] : i \in 1 .. n}
           R == [i \in 0 .. n |-> SUBSET all]
           F == [i \in 1 .. n |-> [X \in SUBSET all |-> LeafOver(X, B[i])]]
<1>1. n \in Nat /\ 0 \in 0 .. n /\ \A i \in 1 .. n : i \in 0 .. n /\ i - 1 \in 0 .. n /\ i # 0
  BY LenProperties
<1>2. {} \in R[0]
  BY <1>1
<1>3. ASSUME NEW i \in 1 .. n, NEW X \in R[i - 1]
      PROVE  F[i][X] = LeafOver(X, B[i]) /\ F[i][X] \in R[i]
  <2>1. X \in SUBSET all
    BY <1>1
  <2>2. F[i][X] = LeafOver(X, B[i])
    BY <2>1
  <2>3. \A l : l \in B[i] => l \in all
    OBVIOUS
  <2>4. LeafOver(X, B[i]) \in SUBSET all
    <3> HIDE DEF all, B
    <3> QED BY <2>1, <2>3 DEF LeafOver
  <2>5. R[i] = SUBSET all
    BY <1>1
  <2> HIDE DEF F, R, all, B
  <2> QED BY <2>2, <2>4, <2>5
<1>4. PICK f : LoopOf(f, n, {}, F) /\ \A i \in 0 .. n : f[i] \in R[i]
  <2> HIDE DEF F, R
  <2>1. \A i \in 1 .. n : \A X \in R[i - 1] : F[i][X] \in R[i]
    BY <1>3
  <2> QED BY <1>1, <1>2, <2>1, LoopRuns
<1>5. ASSUME NEW i \in 0 .. n
      PROVE  f[i] = IF i = 0 THEN {} ELSE LeafOver(f[i - 1], Sub(S, parents[n + 1 - i]))
  <2>1. f[i] = IF i = 0 THEN {} ELSE F[i][f[i - 1]]
    <3> HIDE DEF F
    <3> QED BY <1>4 DEF LoopOf
  <2>2. i # 0 => i \in 1 .. n /\ f[i - 1] \in R[i - 1]
    <3> HIDE DEF F, R
    <3>1. i # 0 => i \in 1 .. n /\ i - 1 \in 0 .. n
      BY <1>1
    <3> QED BY <1>4, <3>1
  <2>3. i # 0 => B[i] = Sub(S, parents[n + 1 - i])
    BY <2>2
  <2>4. i # 0 => F[i][f[i - 1]] = LeafOver(f[i - 1], B[i])
    <3> HIDE DEF F, R, B
    <3> QED BY <1>3, <2>2
  <2> HIDE DEF F, R, B
  <2> QED BY <2>1, <2>3, <2>4
<1>6. IsGiven(f, S, parents)
  <2> HIDE DEF F
  <2> QED BY <1>4, <1>5 DEF IsGiven, LoopOf
<1> QED BY <1>6
\* The parent k taken, if there is one.
Taken(h, e, k) == IF ~Has(h, 1, k) THEN e ELSE DeepCopy(e, Len(h) + 1, h[1].map[k])

\* Every array in a section has a leaf.
AllFull(h) == \A k \in DOMAIN h[1].map : h[h[1].map[k]].arr => Full(h, h[1].map[k])

\* The heap after i parents: what was there is as it was, and the last zval of the
\* returned array's elements is a new array that tells what they give.
TakenTo(h, depth, parents, i, e) ==
  \E level :
    /\ Leveled(e, level) /\ DOMAIN h \subseteq DOMAIN e
    /\ \A y \in DOMAIN h : e[y] = h[y] /\ level[y] = depth[y]
    /\ Len(h) + 1 \in DOMAIN e /\ level[Len(h) + 1] = 1 /\ e[Len(h) + 1].arr
    /\ AllFull(h) =>
         /\ Full(e, Len(h) + 1)
         /\ \A f : IsGiven(f, Leaves(h, 1), parents) => Leaves(e, Len(h) + 1) = f[i]

\* A parent more.
LEMMA TakenTurn ==
  ASSUME NEW h, NEW depth, Leveled(h, depth), NEW parents \in Seq(Keys),
         NEW i \in 1 .. Len(parents), NEW k, k = parents[Len(parents) + 1 - i],
         Has(h, 1, k) => h[h[1].map[k]].arr,
         NEW e, TakenTo(h, depth, parents, i - 1, e)
  PROVE  TakenTo(h, depth, parents, i, Taken(h, e, k))
<1>0. /\ Len(h) \in Nat \ {0} /\ DOMAIN h = 1 .. Len(h) /\ 1 \in DOMAIN h /\ h[1].arr
      /\ depth[1] = 0 /\ Len(h) + 1 \notin DOMAIN h
  BY HeapParts DEF Leveled
<1>1. PICK N : N = Len(h) + 1
  OBVIOUS
<1>2. PICK level :
        /\ Leveled(e, level) /\ DOMAIN h \subseteq DOMAIN e
        /\ \A y \in DOMAIN h : e[y] = h[y] /\ level[y] = depth[y]
        /\ N \in DOMAIN e /\ level[N] = 1 /\ e[N].arr
        /\ AllFull(h) =>
             /\ Full(e, N)
             /\ \A f : IsGiven(f, Leaves(h, 1), parents) => Leaves(e, N) = f[i - 1]
  BY <1>1 DEF TakenTo
<1>3. k \in Keys
  <2>1. Len(parents) \in Nat /\ Len(parents) + 1 - i \in 1 .. Len(parents)
    BY LenProperties
  <2> QED BY <2>1, ElementOfSeq
<1>4. \A f : IsGiven(f, Leaves(h, 1), parents) => f[i] = LeafOver(f[i - 1], Sub(Leaves(h, 1), k))
  <2>1. i \in 0 .. Len(parents) /\ i # 0
    BY LenProperties
  <2> QED BY <2>1 DEF IsGiven
<1>5. LeafSet(Leaves(e, N))
  BY <1>2, LeavesTell
<1>6. CASE ~Has(h, 1, k)
  <2>1. Taken(h, e, k) = e
    BY <1>6 DEF Taken
  <2>2. Sub(Leaves(h, 1), k) = {}
    BY <1>3, <1>6, SubOfHeap DEF Has
  <2>3. LeafOver(Leaves(e, N), {}) = Leaves(e, N)
    <3>1. LeafSet({})
      BY DEF LeafSet
    <3> QED BY <1>5, <3>1, OverRules
  <2>4. AllFull(h) => \A f : IsGiven(f, Leaves(h, 1), parents) => Leaves(e, N) = f[i]
    BY <1>2, <1>4, <2>2, <2>3
  <2> QED BY <1>1, <1>2, <2>1, <2>4 DEF TakenTo
<1>7. CASE Has(h, 1, k)
  <2>1. PICK src : src = h[1].map[k]
    OBVIOUS
  <2>2. src \in DOMAIN h /\ depth[src] = 1 /\ h[src].arr
    <3>1. k \in DOMAIN h[1].map /\ h[src].arr
      BY <1>7, <2>1 DEF Has
    <3>2. src \in DOMAIN h /\ depth[src] = depth[1] + 1
      BY <1>0, <2>1, <3>1 DEF Leveled
    <3> QED BY <1>0, <3>1, <3>2
  <2>3. src \in DOMAIN e /\ e[src].arr /\ level[src] = level[N]
    BY <1>2, <2>2
  <2>4. PICK g : g = DeepCopy(e, N, src)
    OBVIOUS
  <2>5. Taken(h, e, k) = g
    BY <1>1, <1>7, <2>1, <2>4 DEF Taken
  <2>6. PICK place, deep : IsCopy(g, e, N, src, place) /\ Grown(e, level, g, deep, level[N])
    BY <1>2, <2>3, <2>4, CopyMade
  <2>7. /\ Leveled(g, deep) /\ DOMAIN e \subseteq DOMAIN g
        /\ \A y \in DOMAIN e : deep[y] = level[y] /\ (y # N => g[y] = e[y])
    BY <2>6 DEF Grown, IsCopy
  <2>8. \A y \in DOMAIN h : g[y] = h[y] /\ deep[y] = depth[y]
    BY <1>0, <1>1, <1>2, <2>7
  <2>9. N \in DOMAIN g /\ deep[N] = 1 /\ g[N].arr
    <3>1. <<>> \in Both(e, N, src)
      BY <1>2, <2>3, BothRules
    <3> QED BY <1>2, <2>6, <2>7, <3>1 DEF IsCopy
  <2>10. ASSUME AllFull(h)
         PROVE  /\ Full(g, N)
                /\ \A f : IsGiven(f, Leaves(h, 1), parents) => Leaves(g, N) = f[i]
    <3>1. Full(h, src)
      BY <1>7, <2>1, <2>2, <2>10 DEF AllFull, Has
    <3>2. Full(e, src) /\ Leaves(e, src) = Leaves(h, src)
      <4>1. \A p, y : Leads(h, src, p, y) => e[y] = h[y]
        BY <1>2, <2>2, LeadsRules
      <4> QED BY <1>2, <2>2, <2>3, <3>1, <4>1, TellsSame
    <3>3. Full(g, N)
      BY <1>2, <2>3, <2>6, <2>10, <3>2, CopiedFull
    <3>4. Leaves(g, N) = LeafOver(Leaves(e, N), Leaves(e, src))
      <4>1. /\ Leveled(e, level) /\ N \in DOMAIN e /\ src \in DOMAIN e /\ e[N].arr /\ e[src].arr
            /\ level[src] = level[N]
        BY <1>2, <2>3
      <4> QED BY <2>6, <3>2, <4>1, CopiedLeaves
    <3>5. Sub(Leaves(h, 1), k) = Leaves(h, src)
      BY <1>3, <1>7, <2>1, <2>2, SubOfHeap DEF Has
    <3> QED BY <1>2, <1>4, <2>10, <3>2, <3>3, <3>4, <3>5
  <2>11. DOMAIN h \subseteq DOMAIN g
    BY <1>2, <2>7
  <2> QED BY <1>1, <2>5, <2>7, <2>8, <2>9, <2>10, <2>11 DEF TakenTo
<1> QED BY <1>6, <1>7

\* Before any.
LEMMA TakenFirst ==
  ASSUME NEW h, NEW depth, Leveled(h, depth), NEW parents \in Seq(Keys)
  PROVE  TakenTo(h, depth, parents, 0, Append(h, Array))
<1>0. /\ Len(h) \in Nat \ {0} /\ DOMAIN h = 1 .. Len(h) /\ h \in Seq(Zval) /\ 1 \in DOMAIN h
      /\ Deepest \in Nat \ {0}
  BY HeapParts, IniAssumption DEF Leveled
<1>1. Array \in Zval /\ DOMAIN Array.map = {} /\ Array.arr
  BY NewZvals
<1>2. PICK N : N = Len(h) + 1
  OBVIOUS
<1>3. PICK e : e = Append(h, Array)
  OBVIOUS
<1>4. /\ e \in Seq(Zval) /\ Len(e) = N /\ e[N] = Array
      /\ \A y \in 1 .. Len(h) : e[y] = h[y]
  BY <1>0, <1>1, <1>2, <1>3, AppendProperties
<1>5. DOMAIN e = DOMAIN h \cup {N} /\ N \notin DOMAIN h /\ N # 1 /\ N \in DOMAIN e
  BY <1>0, <1>2, <1>4, LenProperties
<1>6. \A y \in DOMAIN h : y \in DOMAIN e /\ e[y] = h[y]
  BY <1>0, <1>4, <1>5
<1> DEFINE level == [y \in DOMAIN e |-> IF y = N THEN 1 ELSE depth[y]]
<1>7. level[N] = 1 /\ \A y \in DOMAIN h : level[y] = depth[y]
  BY <1>5
<1>8. \A y \in DOMAIN e : level[y] \in 0 .. Deepest /\ (level[y] = 0 <=> y = 1)
  <2> SUFFICES ASSUME NEW y \in DOMAIN e PROVE level[y] \in 0 .. Deepest /\ (level[y] = 0 <=> y = 1)
    OBVIOUS
  <2>1. CASE y = N
    BY <1>0, <1>5, <2>1
  <2>2. CASE y \in DOMAIN h
    <3> HIDE DEF level
    <3> QED BY <1>7, <2>2 DEF Leveled
  <2> QED BY <1>5, <2>1, <2>2
<1>9. level \in [DOMAIN e -> 0 .. Deepest]
  BY <1>8
<1> HIDE DEF level
<1>10. \A z \in DOMAIN e : \A k \in DOMAIN e[z].map :
         e[z].arr /\ e[z].map[k] \in DOMAIN e /\ level[e[z].map[k]] = level[z] + 1
  BY <1>1, <1>4, <1>5, <1>6, <1>7 DEF Leveled
<1>11. Leveled(e, level)
  BY <1>0, <1>4, <1>5, <1>6, <1>8, <1>9, <1>10 DEF Leveled
<1>12. \A p \in Seq(Keys) : \A y : Leads(e, N, p, y) => p = <<>>
  <2> SUFFICES ASSUME NEW p \in Seq(Keys), NEW y, Leads(e, N, p, y), p # <<>> PROVE FALSE
    OBVIOUS
  <2>1. PICK k \in Keys, s \in Seq(Keys) : p = <<k>> \o s
    BY FirstKey
  <2>2. k \in DOMAIN e[N].map
    BY <1>5, <1>11, <2>1, LeadsFirst
  <2> QED BY <1>1, <1>4, <2>2
<1>15. Full(e, N)
  BY <1>12 DEF Full, Keeps
<1>16. Leaves(e, N) = {}
  <2>1. LeafSet(Leaves(e, N)) /\ \A p, v : Leaf(p, v) \in Leaves(e, N) <=> Tells(e, N, p, v)
    BY <1>5, <1>11, LeavesTell
  <2>2. \A x : Leads(e, N, <<>>, x) => e[x].arr
    <3>1. \A x : Leads(e, N, <<>>, x) <=> x = N
      BY <1>5, <1>11, LeadsRules
    <3> QED BY <1>1, <1>4, <3>1
  <2>3. \A p \in Seq(Keys) : \A v : ~Tells(e, N, p, v)
    BY <1>12, <2>2 DEF Tells
  <2> QED BY <2>1, <2>3 DEF LeafSet
<1>17. \A f : IsGiven(f, Leaves(h, 1), parents) => f[0] = {}
  <2>1. 0 \in 0 .. Len(parents)
    BY LenProperties
  <2> QED BY <2>1 DEF IsGiven
<1>18. e[N].arr /\ DOMAIN h \subseteq DOMAIN e
  BY <1>1, <1>4, <1>5
<1>19. \A f : IsGiven(f, Leaves(h, 1), parents) => Leaves(e, N) = f[0]
  BY <1>16, <1>17
<1>20. \E deep :
        /\ Leveled(e, deep) /\ DOMAIN h \subseteq DOMAIN e
        /\ \A y \in DOMAIN h : e[y] = h[y] /\ deep[y] = depth[y]
        /\ N \in DOMAIN e /\ deep[N] = 1 /\ e[N].arr
        /\ AllFull(h) =>
             /\ Full(e, N)
             /\ \A f : IsGiven(f, Leaves(h, 1), parents) => Leaves(e, N) = f[0]
  BY <1>5, <1>6, <1>7, <1>11, <1>15, <1>18, <1>19
<1> QED BY <1>2, <1>3, <1>20 DEF TakenTo
\* All of them.
LEMMA InheritedMade ==
  ASSUME NEW depth, Leveled(heap, depth), NEW parents \in Seq(Keys),
         \A p \in Range(parents) : Has(heap, 1, p) => heap[heap[1].map[p]].arr
  PROVE  TakenTo(heap, depth, parents, Len(parents), Inherited(parents))
<1> DEFINE n == Len(parents)
           order == InOrder(parents)
           a == Append(heap, Array)
           S == [i \in 0 .. n |-> {e \in Seq(Zval) : TakenTo(heap, depth, parents, i, e)}]
           F == [i \in 1 .. n |-> [e \in S[i - 1] |-> Taken(heap, e, order[i])]]
           IsCopied(copied) ==
             copied = [i \in 0 .. n |-> IF i = 0 THEN a ELSE Taken(heap, copied[i - 1], order[i])]
<1>0. n \in Nat /\ 0 \in 0 .. n /\ n \in 0 .. n
      /\ \A i \in 1 .. n : i \in 0 .. n /\ i - 1 \in 0 .. n /\ i # 0
  BY LenProperties
<1>1. \A i \in 0 .. n : \A e : TakenTo(heap, depth, parents, i, e) => e \in Seq(Zval)
  BY DEF TakenTo, Leveled
<1>2. a \in S[0]
  <2>1. TakenTo(heap, depth, parents, 0, a)
    BY TakenFirst
  <2> HIDE DEF a
  <2> QED BY <1>0, <1>1, <2>1
<1>3. Len(order) = n /\ \A i \in 1 .. n : order[i] = parents[n + 1 - i]
  <2>1. order = [i \in 1 .. n |-> parents[(n - i) + 1]]
    BY DEF InOrder, Reverse
  <2>2. order \in [1 .. n -> Keys]
    <3>1. \A i \in 1 .. n : (n - i) + 1 \in 1 .. Len(parents)
      BY <1>0
    <3>2. \A i \in 1 .. n : parents[(n - i) + 1] \in Keys
      BY <3>1, ElementOfSeq
    <3> QED BY <2>1, <3>2
  <2>3. Len(order) = n
    <3> HIDE DEF order
    <3> QED BY <1>0, <2>2, FunctionIsSeq
  <2>4. \A i \in 1 .. n : (n - i) + 1 = n + 1 - i
    BY <1>0
  <2> QED BY <2>1, <2>3, <2>4
<1> HIDE DEF order
<1>4. ASSUME NEW i \in 1 .. n, NEW e \in S[i - 1]
      PROVE  F[i][e] = Taken(heap, e, order[i]) /\ F[i][e] \in S[i]
  <2>1. TakenTo(heap, depth, parents, i - 1, e)
    BY <1>0
  <2>2. PICK k : k = order[i]
    OBVIOUS
  <2>3. k = parents[Len(parents) + 1 - i]
    BY <1>3, <2>2
  <2>4. Has(heap, 1, k) => heap[heap[1].map[k]].arr
    <3>1. n + 1 - i \in DOMAIN parents
      BY <1>0, LenProperties
    <3>2. k \in Range(parents)
      <4> HIDE DEF n
      <4> QED BY <1>3, <2>2, <3>1 DEF Range
    <3> QED BY <3>2
  <2>5. TakenTo(heap, depth, parents, i, Taken(heap, e, k))
    <3> HIDE DEF S, F, n
    <3>1. i \in 1 .. Len(parents)
      BY DEF n
    <3> QED BY <2>1, <2>3, <2>4, <3>1, TakenTurn
  <2>6. F[i][e] = Taken(heap, e, k)
    <3> HIDE DEF S
    <3> QED BY <2>2
  <2>7. Taken(heap, e, k) \in S[i]
    BY <1>0, <1>1, <2>5
  <2> HIDE DEF S, F
  <2> QED BY <2>2, <2>6, <2>7
<1>5. \E copied : IsCopied(copied)
  <2> HIDE DEF S, F, a
  <2>1. \A i \in 1 .. n : \A e \in S[i - 1] : F[i][e] \in S[i]
    BY <1>4
  <2>2. PICK copied : LoopOf(copied, n, a, F) /\ \A i \in 0 .. n : copied[i] \in S[i]
    BY <1>0, <1>2, <2>1, LoopRuns
  <2>3. ASSUME NEW i \in 0 .. n
        PROVE  copied[i] = IF i = 0 THEN a ELSE Taken(heap, copied[i - 1], order[i])
    <3>1. copied[i] = IF i = 0 THEN a ELSE F[i][copied[i - 1]]
      BY <2>2 DEF LoopOf
    <3>2. i # 0 => i \in 1 .. n /\ i - 1 \in 0 .. n
      BY <1>0
    <3>3. i # 0 => F[i][copied[i - 1]] = Taken(heap, copied[i - 1], order[i])
      BY <1>4, <2>2, <3>2
    <3> QED BY <3>1, <3>3
  <2>4. IsCopied(copied)
    BY <2>2, <2>3 DEF LoopOf
  <2> HIDE DEF IsCopied
  <2> QED BY <2>4
<1> DEFINE copied == CHOOSE copied : IsCopied(copied)
<1>6. IsCopied(copied)
  <2> HIDE DEF IsCopied
  <2> QED BY <1>5, Zenon
<1>7. Inherited(parents) = copied[n]
  <2> DEFINE IsDone(f) ==
               f = [i \in 0 .. Len(order) |->
                      IF i = 0 THEN Append(heap, Array)
                      ELSE IF ~Has(heap, 1, order[i]) THEN f[i - 1]
                      ELSE DeepCopy(f[i - 1], Len(heap) + 1, heap[1].map[order[i]])]
  <2>1. Inherited(parents) = (CHOOSE f : IsDone(f))[Len(order)]
    BY DEF Inherited, order
  <2>2. \A f : IsDone(f) <=> IsCopied(f)
    BY <1>3 DEF Taken
  <2>3. (CHOOSE f : IsDone(f)) = CHOOSE f : IsCopied(f)
    <3> HIDE DEF IsDone, IsCopied
    <3> QED BY <2>2, Zenon
  <2> HIDE DEF IsDone, IsCopied, n
  <2> QED BY <1>3, <2>1, <2>3
<1> HIDE DEF copied
<1>8. copied[0] = a /\ \A i \in 1 .. n : copied[i] = Taken(heap, copied[i - 1], order[i])
  <2> HIDE DEF a
  <2> QED BY <1>0, <1>6
<1>9. copied[n] \in S[n]
  <2> DEFINE T == {i \in 0 .. n : copied[i] \in S[i]}
  <2> HIDE DEF S, a
  <2>1. 0 \in T
    BY <1>0, <1>2, <1>8
  <2>2. ASSUME NEW i \in 0 .. n - 1, i \in T PROVE i + 1 \in T
    <3>1. i + 1 \in 1 .. n /\ (i + 1) - 1 = i /\ i + 1 \in 0 .. n
      BY <1>0
    <3>2. PICK j : j = i + 1
      OBVIOUS
    <3>3. j \in 1 .. n /\ copied[j - 1] \in S[j - 1] /\ j \in 0 .. n
      BY <2>2, <3>1, <3>2
    <3>4. copied[j] \in S[j]
      <4> HIDE DEF F
      <4> QED BY <1>4, <1>8, <3>3
    <3> QED BY <3>2, <3>3, <3>4
  <2>3. \A i \in 0 .. n : i \in T
    <3> HIDE DEF T
    <3> QED BY <1>0, <2>1, <2>2, UpTo
  <2> QED BY <1>0, <2>3
<1>10. TakenTo(heap, depth, parents, n, copied[n])
  BY <1>0, <1>9
<1> HIDE DEF n
<1> QED BY <1>7, <1>10 DEF n
--------------------------------------------------------------------------------
(* A section starts.                                                       *)

\* The heap g after a section: the returned array has the new one, z, in that name.
IsSection(h, g, name, parents, z) ==
  /\ z \in DOMAIN g /\ z \notin DOMAIN h /\ z \in Nat /\ g[z].arr
  /\ DOMAIN h \subseteq DOMAIN g /\ \A y \in DOMAIN h : y # 1 => g[y] = h[y]
  /\ DOMAIN g[1].map = DOMAIN h[1].map \cup {name} /\ g[1].map[name] = z
  /\ \A k \in DOMAIN h[1].map : k # name => g[1].map[k] = h[1].map[k]
  /\ AllFull(h) =>
       /\ Full(g, z)
       /\ \A f : IsGiven(f, Leaves(h, 1), parents) => Leaves(g, z) = f[Len(parents)]

\* What a section makes of the heap.
LEMMA SectionMade ==
  ASSUME NEW depth, Leveled(heap, depth), NEW parents \in Seq(Keys), NEW name \in Keys,
         \A p \in Range(parents) : Has(heap, 1, p) => heap[heap[1].map[p]].arr,
         NEW g, g = Update(Inherited(parents), 1, name, Len(heap) + 1)
  PROVE  /\ \E level : Leveled(g, level)
         /\ IsSection(heap, g, name, parents, Len(heap) + 1)
<1>0. /\ Len(heap) \in Nat \ {0} /\ DOMAIN heap = 1 .. Len(heap) /\ 1 \in DOMAIN heap /\ heap[1].arr
      /\ depth[1] = 0 /\ Len(heap) + 1 \notin DOMAIN heap /\ Len(heap) + 1 \in Nat
  BY HeapParts DEF Leveled
<1>1. PICK N : N = Len(heap) + 1
  OBVIOUS
<1>2. PICK e : e = Inherited(parents)
  OBVIOUS
<1>3. TakenTo(heap, depth, parents, Len(parents), e)
  BY <1>2, InheritedMade
<1>4. PICK level :
        /\ Leveled(e, level) /\ DOMAIN heap \subseteq DOMAIN e
        /\ \A y \in DOMAIN heap : e[y] = heap[y] /\ level[y] = depth[y]
        /\ N \in DOMAIN e /\ level[N] = 1 /\ e[N].arr
        /\ AllFull(heap) =>
             /\ Full(e, N)
             /\ \A f : IsGiven(f, Leaves(heap, 1), parents) => Leaves(e, N) = f[Len(parents)]
  BY <1>1, <1>3 DEF TakenTo
<1>5. g = Update(e, 1, name, N)
  BY <1>1, <1>2
<1>6. e \in Seq(Zval) /\ 1 \in DOMAIN e /\ N \in Nat /\ level[1] = 0 /\ e[1] = heap[1] /\ N # 1
  BY <1>0, <1>1, <1>4 DEF Leveled
<1>7. /\ g \in Seq(Zval) /\ Len(g) = Len(e) /\ DOMAIN g = DOMAIN e
      /\ \A y \in DOMAIN e : y # 1 => g[y] = e[y]
      /\ g[1].arr = e[1].arr /\ g[1].val = e[1].val
      /\ DOMAIN g[1].map = DOMAIN e[1].map \cup {name} /\ g[1].map[name] = N
      /\ \A j \in DOMAIN e[1].map : j # name => g[1].map[j] = e[1].map[j]
  BY <1>5, <1>6, UpdateParts
<1>8. ASSUME NEW y \in DOMAIN g, NEW k \in DOMAIN g[y].map
      PROVE  g[y].arr /\ g[y].map[k] \in DOMAIN g /\ level[g[y].map[k]] = level[y] + 1
  <2>1. CASE y = 1 /\ k = name
    <3>1. level[N] = level[1] + 1
      BY <1>4, <1>6
    <3> QED BY <1>0, <1>4, <1>6, <1>7, <2>1, <3>1
  <2>2. CASE y = 1 /\ k # name
    <3>1. k \in DOMAIN e[1].map /\ g[1].map[k] = e[1].map[k]
      BY <1>7, <1>8, <2>2
    <3>2. e[1].arr /\ e[1].map[k] \in DOMAIN e /\ level[e[1].map[k]] = level[1] + 1
      BY <1>4, <1>6, <3>1 DEF Leveled
    <3>3. g[1].arr /\ g[1].map[k] \in DOMAIN g /\ level[g[1].map[k]] = level[1] + 1
      BY <1>7, <3>1, <3>2
    <3> QED BY <2>2, <3>3
  <2>3. CASE y # 1
    <3>1. g[y] = e[y] /\ y \in DOMAIN e
      BY <1>7, <2>3
    <3> QED BY <1>4, <1>7, <1>8, <3>1 DEF Leveled
  <2> QED BY <2>1, <2>2, <2>3
<1>9. Leveled(g, level)
  BY <1>4, <1>6, <1>7, <1>8 DEF Leveled
<1>10. ASSUME AllFull(heap)
       PROVE  /\ Full(g, N)
              /\ \A f : IsGiven(f, Leaves(heap, 1), parents) => Leaves(g, N) = f[Len(parents)]
  <2>1. \A p, y : Leads(e, N, p, y) => g[y] = e[y]
    <3> SUFFICES ASSUME NEW p, NEW y, Leads(e, N, p, y) PROVE g[y] = e[y]
      OBVIOUS
    <3>1. y \in DOMAIN e /\ level[y] = level[N] + Len(p) /\ p \in Seq(Keys)
      BY <1>4, LeadsRules
    <3>2. Len(p) \in Nat
      BY <3>1, LenProperties
    <3>3. y # 1
      BY <1>4, <1>6, <3>1, <3>2
    <3> QED BY <1>7, <3>1, <3>3
  <2>2. Leaves(g, N) = Leaves(e, N) /\ (Full(g, N) <=> Full(e, N))
    BY <1>4, <1>7, <1>9, <2>1, TellsSame
  <2> QED BY <1>4, <1>10, <2>2
<1>11. g[N].arr /\ \A y \in DOMAIN heap : y # 1 => g[y] = heap[y]
  BY <1>4, <1>6, <1>7
<1>12. DOMAIN heap \subseteq DOMAIN g /\ N \in DOMAIN g /\ N \notin DOMAIN heap
  BY <1>0, <1>1, <1>4, <1>7
<1>13. IsSection(heap, g, name, parents, N)
  BY <1>6, <1>7, <1>10, <1>11, <1>12 DEF IsSection
<1> QED BY <1>1, <1>9, <1>13
--------------------------------------------------------------------------------
(* A list entry.                                                           *)

\* A scalar becomes an array where it is.
LEMMA Listed ==
  ASSUME NEW e, NEW level, Leveled(e, level), NEW at \in DOMAIN e, ~e[at].arr,
         NEW lists, lists = [e EXCEPT ![at] = Array]
  PROVE  /\ Leveled(lists, level) /\ DOMAIN lists = DOMAIN e /\ lists[at] = Array
         /\ \A y \in DOMAIN e : y # at => lists[y] = e[y]
         /\ \A W \in Seq(Keys) : Own(e, W, at) =>
              Own(lists, W, at) /\ ~Holds(e, W) /\ PutSaid(lists, e, W, Array)
<1>0. /\ Len(e) \in Nat /\ DOMAIN e = 1 .. Len(e) /\ e \in Seq(Zval) /\ 1 \in DOMAIN e /\ e[1].arr
      /\ at # 1
  BY HeapParts DEF Leveled
<1>1. Array \in Zval /\ DOMAIN Array.map = {} /\ Array.arr
  BY NewZvals
<1>2. lists \in Seq(Zval) /\ Len(lists) = Len(e) /\ \A y \in 1 .. Len(e) : lists[y] = IF y = at THEN Array ELSE e[y]
  BY <1>0, <1>1, ExceptSeq
<1>3. DOMAIN lists = DOMAIN e /\ lists[at] = Array /\ \A y \in DOMAIN e : y # at => lists[y] = e[y]
  BY <1>0, <1>2, LenProperties
<1>4. Leveled(lists, level)
  <2>1. \A z \in DOMAIN lists : \A k \in DOMAIN lists[z].map :
          lists[z].arr /\ lists[z].map[k] \in DOMAIN lists /\ level[lists[z].map[k]] = level[z] + 1
    BY <1>1, <1>3 DEF Leveled
  <2>2. 1 \in DOMAIN lists /\ lists[1].arr
    BY <1>0, <1>3
  <2> QED BY <1>2, <1>3, <2>1, <2>2 DEF Leveled
<1>5. lists[at].map = e[at].map
  <2>1. DOMAIN e[at].map = {}
    BY DEF Leveled
  <2>2. e[at].map = [k \in DOMAIN e[at].map |-> e[at].map[k]]
    BY HeapParts, MapType
  <2>3. Array.map = [k \in DOMAIN Array.map |-> Array.map[k]]
    BY <1>1, MapType DEF Zval
  <2> QED BY <1>1, <1>3, <2>1, <2>2, <2>3
<1>6. \A p, x : Leads(lists, 1, p, x) <=> Leads(e, 1, p, x)
  <2>1. \A p, y : Leads(e, 1, p, y) => y \in DOMAIN e
    BY <1>0, LeadsRules
  <2>2. \A p, y : Leads(e, 1, p, y) => lists[y].map = e[y].map
    BY <1>3, <1>5, <2>1
  <2>3. 1 \in DOMAIN e \cap DOMAIN lists
    BY <1>0, <1>3
  <2> QED BY <1>4, <2>2, <2>3, SameWays, ZenonT(30)
<1>7. ASSUME NEW W \in Seq(Keys), Own(e, W, at)
      PROVE  Own(lists, W, at) /\ ~Holds(e, W) /\ PutSaid(lists, e, W, Array)
  <2>1. Own(lists, W, at)
    BY <1>6, <1>7 DEF Own
  <2>2. Leads(e, 1, W, at) /\ \A p : Leads(e, 1, p, at) => p = W
    BY <1>7 DEF Own
  <2>3. ~Holds(e, W)
    BY <1>0, <2>2, OnePlace DEF Holds
  <2>4. ASSUME NEW p \in Seq(Keys)
        PROVE  /\ Holds(lists, p) <=> Holds(e, p) \/ (IsPrefix(p, W) /\ (p # W \/ Array.arr))
               /\ \A u : Says(lists, p, u) <=> \/ Says(e, p, u) /\ ~IsPrefix(p, W) /\ ~IsPrefix(W, p)
                                               \/ p = W /\ ~Array.arr /\ u = Array.val
    <3>1. IsPrefix(p, W) /\ p # W => Holds(e, p)
      <4>1. IsPrefix(p, W) => W = p \/ \E y : Leads(e, 1, p, y) /\ e[y].arr
        BY <1>0, <2>2, ThroughArrays
      <4> QED BY <4>1 DEF Holds
    <3>2. \A u : Says(e, p, u) => p \in Seq(Keys) /\ ~Holds(e, p)
      BY SaysRules
    <3>3. IsPrefix(W, p) /\ p # W => \A u : ~Says(e, p, u)
      BY <2>3, SaysRules
    <3>0. \A q, y : Leads(e, 1, q, y) => y \in DOMAIN e
      BY <1>0, LeadsRules
    <3>4. Holds(lists, p) <=> Holds(e, p) \/ p = W
      <4>1. ASSUME NEW x, Leads(e, 1, p, x) PROVE x \in DOMAIN e /\ (x = at => p = W)
        BY <2>2, <3>0, <4>1
      <4> QED BY <1>1, <1>3, <1>6, <2>2, <4>1 DEF Holds
    <3>5. \A u : Says(lists, p, u) <=> Says(e, p, u) /\ p # W
      <4>1. ASSUME NEW x, Leads(e, 1, p, x) PROVE x \in DOMAIN e /\ (x = at <=> p = W)
        <5>1. \A y : Leads(e, 1, p, y) => y = x
          BY <1>0, <4>1, OnePlace
        <5> QED BY <2>2, <3>0, <4>1, <5>1
      <4> QED BY <1>1, <1>3, <1>6, <4>1 DEF Says
    <3>6. IsPrefix(W, W)
      BY PrefixOrder
    <3> QED BY <1>1, <3>1, <3>2, <3>3, <3>4, <3>5, <3>6
  <2>5. PutSaid(lists, e, W, Array)
    BY <2>3, <2>4 DEF PutSaid
  <2> QED BY <2>1, <2>3, <2>5
<1> QED BY <1>3, <1>4, <1>7

\* Element k is made in the list that path leads to from d.
Listing(h, d, path, found, lists, k, v, g) ==
  /\ found = Locate(h, d, path) /\ found.fault = "none"
  /\ lists = IF found.heap[found.at].arr THEN found.heap ELSE [found.heap EXCEPT ![found.at] = Array]
  /\ g = Child(lists, found.at, k, Scalar(v))

\* What a list entry makes of the heap; and what it says, if nothing on the way to the
\* list is in two places.
LEMMA ListMade ==
  ASSUME NEW h, NEW depth, Leveled(h, depth), NEW d \in DOMAIN h, NEW P \in Seq(Keys), Own(h, P, d),
         NEW path \in Seq(Keys), path # <<>>, depth[d] + Len(path) < Deepest,
         NEW k \in Keys, NEW v \in Value, NEW found, NEW lists, NEW g,
         Listing(h, d, path, found, lists, k, v, g)
  PROVE  /\ \E level : Grown(h, depth, g, level, depth[d])
         /\ \A y \in DOMAIN h : h[y].arr => g[y].arr
         /\ (\A z \in found.met : ~Shared(h, z)) =>
              /\ \E level : Leveled(lists, level)
              /\ Leads(lists, 1, P \o path, found.at) /\ lists[found.at].arr
              /\ PutSaid(lists, h, P \o path, Array)
              /\ SetSaid(g, lists, Append(P \o path, k), Scalar(v))
<1> DEFINE W == P \o path
<1>0. /\ Len(path) \in Nat \ {0} /\ depth[d] \in Nat /\ W \in Seq(Keys)
      /\ Way(P, path, Len(path)) = W
  <2>1. Len(path) \in Nat \ {0} /\ depth[d] \in Nat
    BY EmptySeq, LenProperties, HeapParts, IniAssumption
  <2>2. P \in Seq(Keys) /\ W \in Seq(Keys)
    BY LeadsRules, ConcatProperties DEF Own
  <2>3. Way(P, path, Len(path)) = W
    BY <2>2, WayRules
  <2> QED BY <2>1, <2>2, <2>3
<1> HIDE DEF W
<1>a. PICK e, at : e = found.heap /\ at = found.at
  OBVIOUS
<1>b. /\ found = Locate(h, d, path) /\ found.fault = "none"
      /\ lists = IF e[at].arr THEN e ELSE [e EXCEPT ![at] = Array]
      /\ g = Child(lists, at, k, Scalar(v))
  BY <1>a DEF Listing
<1>1. PICK level :
        /\ Grown(h, depth, e, level, depth[d]) /\ at \in DOMAIN e
        /\ level[at] = depth[d] + Len(path)
        /\ \A y \in DOMAIN h : e[y].arr = h[y].arr
        /\ (\A z \in found.met : ~Shared(h, z)) =>
             /\ Own(e, W, at)
             /\ e = h \/ (e[at] = Array /\ PutSaid(e, h, W, Array))
  <2>1. Len(path) \in Nat /\ depth[d] + Len(path) <= Deepest
    BY <1>0, IniAssumption
  <2>2. LocTo(h, depth, d, P, path, Len(path), found)
    BY <1>b, <2>1, Located
  <2> QED BY <1>0, <1>a, <1>b, <2>2 DEF LocTo
<1>2. Leveled(e, level)
  BY <1>1 DEF Grown
<1>3. /\ Leveled(lists, level) /\ DOMAIN lists = DOMAIN e /\ lists[at].arr
      /\ \A y \in DOMAIN e : y # at => lists[y] = e[y]
      /\ Own(e, W, at) => Own(lists, W, at)
  <2>1. CASE e[at].arr
    BY <1>b, <1>1, <1>2, <2>1
  <2>2. CASE ~e[at].arr
    <3>1. lists = [e EXCEPT ![at] = Array]
      BY <1>b, <2>2
    <3>2. /\ Leveled(lists, level) /\ DOMAIN lists = DOMAIN e /\ lists[at] = Array
          /\ \A y \in DOMAIN e : y # at => lists[y] = e[y]
          /\ Own(e, W, at) => Own(lists, W, at)
      BY <1>0, <1>1, <1>2, <2>2, <3>1, Listed
    <3> QED BY <3>2, NewZvals
  <2> QED BY <2>1, <2>2
<1>4. Grown(h, depth, lists, level, depth[d])
  <2>1. \A y \in DOMAIN h : depth[y] < depth[d] => lists[y] = h[y]
    <3> SUFFICES ASSUME NEW y \in DOMAIN h, depth[y] < depth[d] PROVE lists[y] = h[y]
      OBVIOUS
    <3>1. y \in DOMAIN e /\ e[y] = h[y] /\ level[y] = depth[y]
      BY <1>1 DEF Grown
    <3>2. depth[y] \in Nat
      BY HeapParts, IniAssumption
    <3>3. y # at
      BY <1>0, <1>1, <3>1, <3>2
    <3> QED BY <1>3, <3>1, <3>3
  <2> QED BY <1>1, <1>3, <2>1 DEF Grown
<1>5. Scalar(v) \in Zval /\ DOMAIN Scalar(v).map = {}
  BY NewZvals
<1>6. PICK deep : /\ Grown(lists, level, g, deep, level[at])
                  /\ IsChild(g, lists, Len(lists) + 1, at, k, Scalar(v))
  <2>1. level[at] < Deepest /\ at \in DOMAIN lists
    BY <1>1, <1>3
  <2> QED BY <1>b, <1>3, <1>5, <2>1, ChildGrown
<1>7. Grown(h, depth, g, deep, depth[d])
  <2>1. level[at] \in Nat /\ depth[d] <= level[at]
    BY <1>0, <1>1
  <2> QED BY <1>0, <1>4, <1>6, <2>1, GrownTwice
<1>8. ASSUME NEW y \in DOMAIN h, h[y].arr PROVE g[y].arr
  <2>1. y \in DOMAIN e /\ e[y].arr
    BY <1>1, <1>8 DEF Grown
  <2>2. lists[y].arr /\ y \in DOMAIN lists
    BY <1>3, <2>1
  <2> QED BY <1>6, <2>2 DEF IsChild
<1>9. ASSUME \A z \in found.met : ~Shared(h, z)
      PROVE  /\ Leads(lists, 1, W, at) /\ PutSaid(lists, h, W, Array)
             /\ SetSaid(g, lists, Append(W, k), Scalar(v))
  <2>1. Own(lists, W, at)
    BY <1>1, <1>3, <1>9
  <2>2. SetSaid(g, lists, Append(W, k), Scalar(v))
    <3>1. Leveled(g, deep)
      BY <1>6 DEF Grown
    <3>2. PICK n, node : n = Len(lists) + 1 /\ node = Scalar(v)
      OBVIOUS
    <3>3. IsChild(g, lists, n, at, k, node) /\ DOMAIN node.map = {}
      BY <1>5, <1>6, <3>2
    <3>4. SetSaid(g, lists, Append(W, k), node)
      BY <1>0, <1>3, <2>1, <3>1, <3>3, GraftedLeaf
    <3> QED BY <3>2, <3>4
  <2>3. PutSaid(lists, h, W, Array)
    <3>1. CASE e = h /\ e[at].arr
      <4>1. lists = h
        BY <1>b, <3>1
      <4>2. Holds(h, W)
        BY <1>1, <1>9, <3>1 DEF Holds, Own
      <4> QED BY <4>1, <4>2 DEF PutSaid, SameSaid
    <3>2. CASE e = h /\ ~e[at].arr
      <4>1. lists = [e EXCEPT ![at] = Array]
        BY <1>b, <3>2
      <4>2. PutSaid(lists, e, W, Array)
        BY <1>0, <1>1, <1>2, <1>9, <3>2, <4>1, Listed
      <4> QED BY <3>2, <4>2
    <3>3. CASE e[at] = Array /\ PutSaid(e, h, W, Array)
      <4>1. lists = e
        BY <1>b, <3>3, NewZvals
      <4> QED BY <3>3, <4>1
    <3> QED BY <1>1, <1>9, <3>1, <3>2, <3>3
  <2> QED BY <2>1, <2>2, <2>3 DEF Own
<1> QED BY <1>a, <1>3, <1>7, <1>8, <1>9 DEF W
--------------------------------------------------------------------------------
(* The inductive invariant: the heap is levelled, and the section being    *)
(* read, or the array that wcx_ini returns, is an array in one place.      *)

\* P alone leads to the array a: <<>> or the name of a section.
Shape(h, P, a) ==
  \E depth : /\ Leveled(h, depth) /\ P \in Seq(Keys) /\ Len(P) <= 1
             /\ a \in DOMAIN h /\ Own(h, P, a) /\ h[a].arr

\* That path has as many keys as the array is deep.
LEMMA ShapeParts ==
  ASSUME NEW h, NEW depth, Leveled(h, depth), NEW P \in Seq(Keys), Len(P) <= 1,
         NEW a, Own(h, P, a)
  PROVE  /\ a \in DOMAIN h /\ depth[a] = Len(P) /\ Len(P) \in {0, 1}
         /\ a = 1 <=> P = <<>>
<1>1. 1 \in DOMAIN h /\ depth[1] = 0
  BY DEF Leveled
<1>2. a \in DOMAIN h /\ depth[a] = depth[1] + Len(P)
  BY <1>1, LeadsRules DEF Own
<1>3. Len(P) \in Nat /\ (Len(P) = 0 <=> P = <<>>)
  BY EmptySeq, LenProperties
<1>4. depth[a] = 0 <=> a = 1
  BY <1>2 DEF Leveled
<1>5. depth[a] = Len(P) /\ Len(P) \in {0, 1}
  <2>1. PICK n : n = Len(P)
    OBVIOUS
  <2>2. depth[a] = 0 + n /\ n \in Nat /\ n <= 1
    BY <1>1, <1>2, <1>3, <2>1
  <2> QED BY <2>1, <2>2
<1> QED BY <1>2, <1>3, <1>4, <1>5

\* A path of one key is an element of the returned array.
LEMMA OneKey ==
  ASSUME NEW h, NEW depth, Leveled(h, depth)
  PROVE  /\ \A p \in Seq(Keys) : Len(p) = 1 => \E k \in Keys : p = <<k>>
         /\ \A k \in Keys : \A x : Leads(h, 1, <<k>>, x) <=> k \in DOMAIN h[1].map /\ x = h[1].map[k]
<1>1. ASSUME NEW p \in Seq(Keys), Len(p) = 1 PROVE \E k \in Keys : p = <<k>>
  <2>1. p # <<>>
    BY <1>1, EmptySeq
  <2>2. PICK k \in Keys, s \in Seq(Keys) : p = <<k>> \o s
    BY <2>1, FirstKey
  <2>3. Len(p) = 1 + Len(s) /\ Len(s) \in Nat
    BY <2>2, ConsParts, LenProperties
  <2>4. s = <<>>
    <3>1. Len(s) = 0
      BY <1>1, <2>3
    <3> QED BY <3>1, EmptySeq
  <2> QED BY <2>2, <2>4
<1>2. ASSUME NEW k \in Keys, NEW x
      PROVE  Leads(h, 1, <<k>>, x) <=> k \in DOMAIN h[1].map /\ x = h[1].map[k]
  <2>1. 1 \in DOMAIN h
    BY DEF Leveled
  <2>2. PICK s : s = <<>>
    OBVIOUS
  <2>3. s \in Seq(Keys) /\ <<k>> \o s = <<k>>
    BY <2>2
  <2>4. Leads(h, 1, <<k>> \o s, x) <=> k \in DOMAIN h[1].map /\ Leads(h, h[1].map[k], s, x)
    BY <2>1, <2>3, LeadsFirst
  <2>5. k \in DOMAIN h[1].map => (Leads(h, h[1].map[k], <<>>, x) <=> x = h[1].map[k])
    <3>1. k \in DOMAIN h[1].map => h[1].map[k] \in DOMAIN h
      BY <2>1 DEF Leveled
    <3> QED BY <3>1, LeadsRules
  <2> QED BY <2>2, <2>3, <2>4, <2>5
<1> QED BY <1>1, <1>2

\* It stays where it is when the heap grows from it on.
LEMMA OwnKept ==
  ASSUME NEW h, NEW depth, Leveled(h, depth), NEW P \in Seq(Keys), Len(P) <= 1,
         NEW a, Own(h, P, a), NEW g, NEW level, Grown(h, depth, g, level, depth[a])
  PROVE  Own(g, P, a)
<1>1. /\ a \in DOMAIN h /\ depth[a] = Len(P) /\ Len(P) \in {0, 1}
      /\ a = 1 <=> P = <<>>
  BY ShapeParts
<1>2. /\ Leveled(g, level) /\ a \in DOMAIN g /\ level[a] = depth[a] /\ 1 \in DOMAIN g /\ level[1] = 0
      /\ 1 \in DOMAIN h /\ depth[1] = 0
  BY <1>1 DEF Grown, Leveled
<1>3. /\ \A p, x : Leads(g, 1, p, x) => p \in Seq(Keys) /\ x \in DOMAIN g /\ level[x] = level[1] + Len(p)
      /\ \A x : Leads(g, 1, <<>>, x) <=> x = 1
  BY <1>2, LeadsRules
<1>4. \A p : Leads(g, 1, p, a) => p \in Seq(Keys) /\ Len(p) = Len(P)
  <2>1. \A p \in Seq(Keys) : Len(p) \in Nat
    BY LenProperties
  <2> QED BY <1>1, <1>2, <1>3, <2>1
<1>5. CASE P = <<>>
  <2>1. \A p : Leads(g, 1, p, a) => p = P
    BY <1>4, <1>5, EmptySeq
  <2> QED BY <1>1, <1>3, <1>5, <2>1 DEF Own
<1>6. CASE P # <<>>
  <2>1. Len(P) = 1 /\ g[1] = h[1]
    BY <1>1, <1>2, <1>6, EmptySeq DEF Grown
  <2>2. ASSUME NEW p \in Seq(Keys), Len(p) = 1 PROVE Leads(g, 1, p, a) <=> Leads(h, 1, p, a)
    <3>1. PICK k \in Keys : p = <<k>>
      BY <2>2, OneKey
    <3>2. /\ Leads(g, 1, p, a) <=> k \in DOMAIN g[1].map /\ a = g[1].map[k]
          /\ Leads(h, 1, p, a) <=> k \in DOMAIN h[1].map /\ a = h[1].map[k]
      BY <1>2, <3>1, OneKey
    <3> QED BY <2>1, <3>2
  <2> QED BY <1>4, <2>1, <2>2 DEF Own
<1> QED BY <1>5, <1>6

\* An entry.
LEMMA EntryShape ==
  ASSUME NEW h, NEW P, NEW a, Shape(h, P, a),
         NEW path \in Seq(Keys), Len(path) + 2 <= Deepest, NEW v \in Value,
         NEW g, g = PutEntry(h, a, path, v)
  PROVE  /\ Shape(g, P, a) /\ PutSaid(g, h, P \o path, Scalar(v))
         /\ \E depth, level : Grown(h, depth, g, level, depth[a])
<1>1. PICK depth : /\ Leveled(h, depth) /\ P \in Seq(Keys) /\ Len(P) <= 1
                   /\ a \in DOMAIN h /\ Own(h, P, a) /\ h[a].arr
  BY DEF Shape
<1>2. depth[a] + Len(path) <= Deepest
  <2>1. depth[a] \in {0, 1} /\ Len(path) \in Nat
    BY <1>1, ShapeParts, LenProperties
  <2> QED BY <2>1, IniAssumption
<1>3. PICK level : /\ Grown(h, depth, g, level, depth[a])
                   /\ PutSaid(g, h, P \o path, Scalar(v))
  BY <1>1, <1>2, EntryPut
<1>4. Own(g, P, a)
  BY <1>1, <1>3, OwnKept
<1>5. Leveled(g, level) /\ a \in DOMAIN g /\ 1 \in DOMAIN g
  BY <1>1, <1>3 DEF Grown, Leveled
<1>6. Holds(g, P)
  <2>1. Holds(h, P)
    BY <1>1 DEF Holds, Own
  <2> QED BY <1>1, <1>3, <2>1 DEF PutSaid, SameSaid
<1>7. g[a].arr
  BY <1>4, <1>5, <1>6, OnePlace DEF Holds, Own
<1> QED BY <1>1, <1>3, <1>4, <1>5, <1>7 DEF Shape

\* A list entry.
LEMMA ListShape ==
  ASSUME NEW h, NEW P, NEW a, Shape(h, P, a),
         NEW path \in Seq(Keys), path # <<>>, Len(path) + 2 <= Deepest,
         NEW k \in Keys, NEW v \in Value, NEW found, NEW lists, NEW g,
         Listing(h, a, path, found, lists, k, v, g)
  PROVE  /\ Shape(g, P, a)
         /\ (\A z \in found.met : ~Shared(h, z)) =>
              /\ \E level : Leveled(lists, level)
              /\ Leads(lists, 1, P \o path, found.at) /\ lists[found.at].arr
              /\ PutSaid(lists, h, P \o path, Array)
              /\ SetSaid(g, lists, Append(P \o path, k), Scalar(v))
<1>1. PICK depth : /\ Leveled(h, depth) /\ P \in Seq(Keys) /\ Len(P) <= 1
                   /\ a \in DOMAIN h /\ Own(h, P, a) /\ h[a].arr
  BY DEF Shape
<1>2. depth[a] + Len(path) < Deepest
  <2>1. depth[a] \in {0, 1} /\ Len(path) \in Nat
    BY <1>1, ShapeParts, LenProperties
  <2> QED BY <2>1, IniAssumption
<1>3. /\ \E level : Grown(h, depth, g, level, depth[a])
      /\ \A y \in DOMAIN h : h[y].arr => g[y].arr
      /\ (\A z \in found.met : ~Shared(h, z)) =>
           /\ \E level : Leveled(lists, level)
           /\ Leads(lists, 1, P \o path, found.at) /\ lists[found.at].arr
           /\ PutSaid(lists, h, P \o path, Array)
           /\ SetSaid(g, lists, Append(P \o path, k), Scalar(v))
  BY <1>1, <1>2, ListMade
<1>4. PICK level : Grown(h, depth, g, level, depth[a])
  BY <1>3
<1>5. Own(g, P, a)
  BY <1>1, <1>4, OwnKept
<1>6. Leveled(g, level) /\ a \in DOMAIN g /\ g[a].arr
  BY <1>1, <1>3, <1>4 DEF Grown
<1> QED BY <1>1, <1>3, <1>5, <1>6 DEF Shape

\* A section.
LEMMA SectionShape ==
  ASSUME NEW h, NEW depth, Leveled(h, depth), NEW g, NEW level, Leveled(g, level),
         NEW name \in Keys, NEW parents, NEW z, IsSection(h, g, name, parents, z)
  PROVE  Shape(g, <<name>>, z)
<1>1. /\ z \in DOMAIN g /\ z \notin DOMAIN h /\ g[z].arr
      /\ DOMAIN g[1].map = DOMAIN h[1].map \cup {name} /\ g[1].map[name] = z
      /\ \A k \in DOMAIN h[1].map : k # name => g[1].map[k] = h[1].map[k]
  BY DEF IsSection
<1>2. /\ 1 \in DOMAIN g /\ level[1] = 0 /\ 1 \in DOMAIN h /\ level[z] = level[1] + 1
  BY <1>1 DEF Leveled
<1>3. PICK P : P = <<name>>
  OBVIOUS
<1>4. P \in Seq(Keys) /\ Len(P) = 1
  BY <1>3
<1>5. Leads(g, 1, P, z)
  BY <1>1, <1>3, OneKey
<1>6. ASSUME NEW p, Leads(g, 1, p, z) PROVE p = P
  <2>0. \A q, x : Leads(g, 1, q, x) => q \in Seq(Keys) /\ level[x] = level[1] + Len(q)
    BY <1>2, LeadsRules
  <2>1. p \in Seq(Keys) /\ level[z] = level[1] + Len(p)
    BY <1>6, <2>0
  <2>2. Len(p) = 1
    <3>1. PICK n : n = Len(p)
      OBVIOUS
    <3>2. n \in Nat /\ 0 + 1 = 0 + n
      BY <1>2, <2>1, <3>1, LenProperties
    <3>3. n = 1
      BY <3>2
    <3> QED BY <3>1, <3>3
  <2>3. PICK k \in Keys : p = <<k>>
    BY <2>1, <2>2, OneKey
  <2>4. k \in DOMAIN g[1].map /\ g[1].map[k] = z
    BY <1>6, <2>3, OneKey
  <2>5. k \in DOMAIN h[1].map => h[1].map[k] \in DOMAIN h
    BY <1>2 DEF Leveled
  <2> QED BY <1>1, <1>3, <2>3, <2>4, <2>5
<1> QED BY <1>1, <1>3, <1>4, <1>5, <1>6 DEF Shape, Own
--------------------------------------------------------------------------------
(* The steps.                                                              *)

\* What the reader's variables are, and where the section being read is.
IniTyped ==
  /\ active \in {Nil} \cup Nat /\ flag \in {"START", "PROCESS", "END"} /\ wanted \in Wanted
  /\ fault \in {"none", "crash", "freed twice"}
  /\ file \in Seq(Directives) /\ Len(file) <= MaxLines /\ shared \in BOOLEAN

InSection(P) == Shape(heap, P, Begun) /\ (active = Nil <=> P = <<>>)

IniInv == IniTyped /\ \E P : InSection(P)

\* The largest integer key is one, or there is none: a new list element has a key.
LEMMA NextIsKey ==
  ASSUME NEW keys, LastIndex(keys) < Len(Index)
  PROVE  NextIndex(keys) \in Keys
<1> DEFINE S == {0} \cup {i \in DOMAIN Index : Index[i] \in keys}
<1>1. Index \in Seq(Keys) /\ Len(Index) \in Nat /\ DOMAIN Index = 1 .. Len(Index)
  BY IniAssumption, LenProperties
<1>2. S \subseteq 0 .. Len(Index) /\ 0 \in S
  BY <1>1
<1> HIDE DEF S
<1>3. PICK n \in S : \A y \in S : n >= y
  <2> DEFINE T == {Len(Index) - y : y \in S}
  <2>1. T \subseteq Nat /\ T # {}
    BY <1>1, <1>2
  <2>2. PICK x \in T : \A y \in T : x <= y
    BY <2>1, Least
  <2>3. PICK n \in S : x = Len(Index) - n
    BY <2>2
  <2>4. ASSUME NEW y \in S PROVE n >= y
    <3>1. Len(Index) - n <= Len(Index) - y
      BY <2>2, <2>3
    <3>2. n \in 0 .. Len(Index) /\ y \in 0 .. Len(Index)
      BY <1>2
    <3> QED BY <1>1, <3>1, <3>2
  <2> QED BY <2>4
<1>4. Max(S) \in S
  BY <1>3 DEF Max
<1>5. LastIndex(keys) = Max(S)
  BY DEF LastIndex, S
<1>6. PICK last : last = LastIndex(keys)
  OBVIOUS
<1>7. last \in 0 .. Len(Index) /\ last < Len(Index)
  BY <1>2, <1>4, <1>5, <1>6
<1>8. last + 1 \in 1 .. Len(Index)
  BY <1>1, <1>7
<1> QED BY <1>1, <1>6, <1>8, ElementOfSeq DEF NextIndex

\* The value of a line.
LEMMA LineValue ==
  ASSUME IniTyped, Len(file) < MaxLines
  PROVE  Len(file) + 1 \in Value /\ Len(file) \in Nat
<1>1. Len(file) \in Nat /\ MaxLines \in Nat
  BY LenProperties, IniAssumption DEF IniTyped
<1> QED BY <1>1 DEF Value

\* An entry goes where the section being read is.
LEMMA EntryStep ==
  ASSUME IniTyped, NEW P, InSection(P), NEW d \in Directives, Entry(d), Len(file) < MaxLines
  PROVE  InSection(P)' /\ PutSaid(heap', heap, P \o d.path, Scalar(Len(file) + 1))
<1>1. d.path \in Seq(Keys) /\ Len(d.path) + 2 <= Deepest
  BY IniAssumption DEF Entry
<1>2. heap' = PutEntry(heap, Begun, d.path, Len(file) + 1) /\ active' = active
  BY DEF Entry
<1>3. Shape(heap', P, Begun) /\ PutSaid(heap', heap, P \o d.path, Scalar(Len(file) + 1))
  <2>1. PICK v : v = Len(file) + 1
    OBVIOUS
  <2>2. v \in Value
    BY <2>1, LineValue
  <2>3. heap' = PutEntry(heap, Begun, d.path, v)
    BY <1>2, <2>1
  <2>4. Shape(heap', P, Begun) /\ PutSaid(heap', heap, P \o d.path, Scalar(v))
    BY <1>1, <2>2, <2>3, EntryShape DEF InSection
  <2> QED BY <2>1, <2>4
<1>4. Begun' = Begun
  BY <1>2 DEF Begun
<1> QED BY <1>2, <1>3, <1>4 DEF InSection

\* The list that a list entry is for, and the key of the new element.
ListAt(d)  == Locate(heap, Begun, d.path)
ListsOf(d) == LET h == ListAt(d).heap
              IN IF h[ListAt(d).at].arr THEN h ELSE [h EXCEPT ![ListAt(d).at] = Array]
KeyOf(d)   == IF d.index = Nil THEN NextIndex(DOMAIN ListsOf(d)[ListAt(d).at].map) ELSE d.index

\* What the action says of them.
LEMMA ListParts ==
  ASSUME NEW d \in Directives, List(d)
  PROVE  /\ d.index = Nil => LastIndex(DOMAIN ListsOf(d)[ListAt(d).at].map) < Len(Index)
         /\ fault' \in {"none", "crash", "freed twice"}
         /\ fault' = "none" =>
              /\ d.path # <<>> /\ ListAt(d).fault = "none"
              /\ heap' = Child(ListsOf(d), ListAt(d).at, KeyOf(d), Scalar(Len(file) + 1))
         /\ fault' # "none" => heap' = heap
         /\ shared' = (shared \/ \E z \in ListAt(d).met : Shared(heap, z))
         /\ UNCHANGED <<active, flag>>
<1> DEFINE found  == Locate(heap, Begun, d.path)
           h      == found.heap
           lists  == IF h[found.at].arr THEN h ELSE [h EXCEPT ![found.at] = Array]
           k      == IF d.index = Nil THEN NextIndex(DOMAIN lists[found.at].map) ELSE d.index
           common == \E z \in found.met : Shared(heap, z)
<1>1. /\ d.index = Nil => LastIndex(DOMAIN lists[found.at].map) < Len(Index)
      /\ fault' = IF d.path = <<>> \/ found.fault # "none" THEN "crash"
                  ELSE IF ~h[found.at].arr /\ Shared(h, found.at) THEN "freed twice" ELSE "none"
      /\ heap' = IF fault' = "none" THEN Child(lists, found.at, k, Scalar(Len(file) + 1)) ELSE heap
      /\ shared' = (shared \/ common)
      /\ UNCHANGED <<active, flag>>
  BY DEF List
<1>2. found = ListAt(d) /\ lists = ListsOf(d) /\ k = KeyOf(d)
  BY DEF ListAt, ListsOf, KeyOf
<1> HIDE DEF found, lists, k, h
<1>3. /\ fault' \in {"none", "crash", "freed twice"}
      /\ fault' = "none" => d.path # <<>> /\ found.fault = "none"
  BY <1>1
<1> QED BY <1>1, <1>2, <1>3
\* What the list's array says before and after the element, if the list is not shared.
ListSaid(d, P) ==
  /\ \E level : Leveled(ListsOf(d), level)
  /\ Leads(ListsOf(d), 1, P \o d.path, ListAt(d).at) /\ ListsOf(d)[ListAt(d).at].arr
  /\ PutSaid(ListsOf(d), heap, P \o d.path, Array)

\* A list entry goes where the section being read is.
LEMMA ListStep ==
  ASSUME IniTyped, NEW P, InSection(P), NEW d \in Directives, List(d), Len(file) < MaxLines
  PROVE  /\ InSection(P)' /\ active' = active /\ flag' = flag
         /\ fault' = "none" /\ ~shared' =>
              /\ KeyOf(d) \in Keys /\ d.path # <<>> /\ ListSaid(d, P)
              /\ SetSaid(heap', ListsOf(d), Append(P \o d.path, KeyOf(d)), Scalar(Len(file) + 1))
<1>1. /\ d.path \in Seq(Keys) /\ Len(d.path) + 2 <= Deepest
      /\ d.index \in Keys \cup {Nil}
  BY IniAssumption DEF List
<1>2. /\ d.index = Nil => LastIndex(DOMAIN ListsOf(d)[ListAt(d).at].map) < Len(Index)
      /\ fault' = "none" =>
           /\ d.path # <<>> /\ ListAt(d).fault = "none"
           /\ heap' = Child(ListsOf(d), ListAt(d).at, KeyOf(d), Scalar(Len(file) + 1))
      /\ fault' # "none" => heap' = heap
      /\ shared' = (shared \/ \E z \in ListAt(d).met : Shared(heap, z))
      /\ UNCHANGED <<active, flag>>
  BY ListParts
<1>3. Begun' = Begun
  BY <1>2 DEF Begun
<1>4. CASE fault' # "none"
  BY <1>2, <1>3, <1>4 DEF InSection
<1>5. CASE fault' = "none"
  <2>1. PICK v, k, found, lists :
          v = Len(file) + 1 /\ k = KeyOf(d) /\ found = ListAt(d) /\ lists = ListsOf(d)
    OBVIOUS
  <2>2. v \in Value
    BY <2>1, LineValue
  <2>3. found = Locate(heap, Begun, d.path) /\ found.fault = "none" /\ d.path # <<>>
    BY <1>2, <1>5, <2>1 DEF ListAt
  <2>4. lists = IF found.heap[found.at].arr THEN found.heap ELSE [found.heap EXCEPT ![found.at] = Array]
    BY <2>1 DEF ListsOf
  <2>5. k \in Keys
    <3>1. CASE d.index = Nil
      BY <1>2, <2>1, <3>1, NextIsKey DEF KeyOf
    <3>2. CASE d.index # Nil
      BY <1>1, <2>1, <3>2 DEF KeyOf
    <3> QED BY <3>1, <3>2
  <2>6. Listing(heap, Begun, d.path, found, lists, k, v, heap')
    BY <1>2, <1>5, <2>1, <2>3, <2>4 DEF Listing
  <2>7. /\ Shape(heap', P, Begun)
        /\ (\A z \in found.met : ~Shared(heap, z)) =>
             /\ \E level : Leveled(lists, level)
             /\ Leads(lists, 1, P \o d.path, found.at) /\ lists[found.at].arr
             /\ PutSaid(lists, heap, P \o d.path, Array)
             /\ SetSaid(heap', lists, Append(P \o d.path, k), Scalar(v))
    <3>1. Shape(heap, P, Begun)
      BY DEF InSection
    <3> QED BY <1>1, <2>2, <2>3, <2>5, <2>6, <3>1, ListShape
  <2>8. InSection(P)'
    BY <1>2, <1>3, <2>7 DEF InSection
  <2>9. ~shared' => \A z \in found.met : ~Shared(heap, z)
    BY <1>2, <2>1
  <2> QED BY <1>2, <2>1, <2>3, <2>5, <2>7, <2>8, <2>9 DEF ListSaid
<1> QED BY <1>4, <1>5

\* A section is the one being read.
LEMMA SectionStep ==
  ASSUME IniTyped, NEW P, InSection(P), NEW d \in Directives, Section(d)
  PROVE  \/ UNCHANGED <<heap, active>> /\ (fault' = "crash" \/ (Over(d.name) /\ flag' = "END" /\ fault' = fault))
         \/ /\ InSection(<<d.name>>)' /\ active' \in Nat /\ ~Over(d.name) /\ fault' = fault
            /\ d.name \in Keys /\ d.parents \in Seq(Keys)
            /\ IsSection(heap, heap', d.name, d.parents, active')
            /\ flag' = IF wanted # Nil /\ Fold[wanted] = Fold[d.name] THEN "PROCESS" ELSE flag
<1>1. d.name \in Keys /\ d.parents \in Seq(Keys)
  BY IniAssumption DEF Section
<1>2. CASE Over(d.name)
  BY <1>2 DEF Section
<1>3. CASE ~Over(d.name) /\ \E p \in Range(d.parents) : Has(heap, 1, p) /\ ~heap[heap[1].map[p]].arr
  BY <1>3 DEF Section
<1>4. CASE ~Over(d.name) /\ \A p \in Range(d.parents) : Has(heap, 1, p) => heap[heap[1].map[p]].arr
  <2>1. /\ heap' = Update(Inherited(d.parents), 1, d.name, Len(heap) + 1)
        /\ active' = Len(heap) + 1 /\ fault' = fault
        /\ flag' = IF wanted # Nil /\ Fold[wanted] = Fold[d.name] THEN "PROCESS" ELSE flag
    BY <1>4 DEF Section
  <2>2. PICK depth : Leveled(heap, depth)
    BY DEF InSection, Shape
  <2>3. /\ \E level : Leveled(heap', level)
        /\ IsSection(heap, heap', d.name, d.parents, Len(heap) + 1)
    BY <1>1, <1>4, <2>1, <2>2, SectionMade
  <2>4. PICK level : Leveled(heap', level)
    BY <2>3
  <2>5. Shape(heap', <<d.name>>, Len(heap) + 1)
    <3>1. PICK z, g, name, parents : z = Len(heap) + 1 /\ g = heap' /\ name = d.name /\ parents = d.parents
      OBVIOUS
    <3>2. IsSection(heap, g, name, parents, z) /\ Leveled(g, level) /\ name \in Keys
      BY <1>1, <2>3, <2>4, <3>1
    <3>3. Shape(g, <<name>>, z)
      BY <2>2, <3>2, SectionShape
    <3> QED BY <3>1, <3>3
  <2>6. active' \in Nat /\ active' # Nil
    <3>1. Len(heap) \in Nat
      BY <2>2, HeapParts
    <3> QED BY <2>1, <3>1, IniAssumption
  <2>7. Begun' = active'
    BY <2>6 DEF Begun
  <2>8. InSection(<<d.name>>)'
    <3>1. <<d.name>> # <<>>
      OBVIOUS
    <3> QED BY <2>1, <2>5, <2>6, <2>7, <3>1 DEF InSection
  <2> QED BY <1>1, <1>4, <2>1, <2>3, <2>6, <2>8
<1> QED BY <1>2, <1>3, <1>4
\* The reader starts with an empty array.
LEMMA IniStarts ==
  ASSUME IniInit
  PROVE  IniInv /\ InSection(<<>>)
<1>1. /\ heap = <<Array>> /\ active = Nil /\ flag = "START" /\ wanted \in Wanted
      /\ fault = "none" /\ file = <<>> /\ shared = FALSE
  BY DEF IniInit
<1>2. PICK h : h = heap
  OBVIOUS
<1>3. Array \in Zval /\ DOMAIN Array.map = {} /\ Array.arr
  BY NewZvals
<1>4. h \in Seq(Zval) /\ DOMAIN h = {1} /\ h[1] = Array
  BY <1>1, <1>2, <1>3
<1>5. PICK depth : depth = [z \in {1} |-> 0]
  OBVIOUS
<1>6. Leveled(h, depth)
  <2>1. 0 \in 0 .. Deepest
    BY IniAssumption
  <2>2. depth \in [DOMAIN h -> 0 .. Deepest] /\ depth[1] = 0
    BY <1>4, <1>5, <2>1
  <2>3. \A z \in DOMAIN h : depth[z] = 0 <=> z = 1
    BY <1>4, <2>2
  <2>4. \A z \in DOMAIN h : DOMAIN h[z].map = {}
    BY <1>3, <1>4
  <2> QED BY <1>3, <1>4, <2>2, <2>3, <2>4 DEF Leveled
<1>7. Own(h, <<>>, 1)
  <2>1. Leads(h, 1, <<>>, 1)
    BY <1>4, <1>6, LeadsRules
  <2>2. ASSUME NEW p, Leads(h, 1, p, 1) PROVE p = <<>>
    <3>0. \A q, x : Leads(h, 1, q, x) => q \in Seq(Keys) /\ depth[x] = depth[1] + Len(q)
      BY <1>4, <1>6, LeadsRules
    <3>1. p \in Seq(Keys) /\ depth[1] = depth[1] + Len(p)
      BY <2>2, <3>0
    <3>2. PICK n : n = Len(p)
      OBVIOUS
    <3>3. n \in Nat /\ 0 = 0 + n
      BY <1>5, <3>1, <3>2, LenProperties
    <3>4. Len(p) = 0
      BY <3>2, <3>3
    <3> QED BY <3>1, <3>4, EmptySeq
  <2> QED BY <2>1, <2>2 DEF Own
<1>8. Shape(h, <<>>, 1)
  <2>1. <<>> \in Seq(Keys) /\ Len(<<>>) <= 1
    OBVIOUS
  <2> QED BY <1>3, <1>4, <1>6, <1>7, <2>1 DEF Shape
<1>9. InSection(<<>>)
  BY <1>1, <1>2, <1>8 DEF InSection, Begun
<1>10. IniTyped
  <2>1. <<>> \in Seq(Directives) /\ Len(<<>>) <= MaxLines
    BY IniAssumption
  <2> QED BY <1>1, <2>1 DEF IniTyped
<1> QED BY <1>9, <1>10 DEF IniInv

\* A line leaves the reader in a section, or in none as before.
LEMMA IniGoesOn ==
  ASSUME IniInv, [IniNext]_iniVars
  PROVE  IniInv'
<1>1. IniTyped
  BY DEF IniInv
<1>2. PICK P : InSection(P)
  BY DEF IniInv
<1>3. CASE UNCHANGED iniVars
  BY <1>1, <1>2, <1>3 DEF IniInv, IniTyped, InSection, Begun, iniVars
<1>4. ASSUME NEW d \in Directives, Line(d)
      PROVE  IniInv'
  <2>1. Len(file) < MaxLines /\ file' = Append(file, d) /\ wanted' = wanted /\ fault = "none"
    BY <1>4 DEF Line
  <2>2. file' \in Seq(Directives) /\ Len(file') <= MaxLines
    <3>1. file \in Seq(Directives) /\ Len(file) \in Nat /\ MaxLines \in Nat
      BY <1>1, LenProperties, IniAssumption DEF IniTyped
    <3>2. file' \in Seq(Directives) /\ Len(file') = Len(file) + 1
      BY <2>1, <3>1, AppendProperties
    <3> QED BY <2>1, <3>1, <3>2
  <2>3. /\ active \in {Nil} \cup Nat /\ flag \in {"START", "PROCESS", "END"} /\ wanted \in Wanted
        /\ fault \in {"none", "crash", "freed twice"} /\ shared \in BOOLEAN
    BY <1>1 DEF IniTyped
  <2>4. Ignored \/ Entry(d) \/ List(d) \/ Section(d)
    BY <1>4 DEF Line
  <2>5. CASE Ignored
    BY <1>1, <1>2, <2>1, <2>2, <2>3, <2>5 DEF Ignored, IniInv, IniTyped, InSection, Begun
  <2>6. CASE Entry(d)
    <3>1. InSection(P)'
      BY <1>1, <1>2, <2>1, <2>6, EntryStep
    <3>2. UNCHANGED <<active, flag, fault, shared>>
      BY <2>6 DEF Entry
    <3> QED BY <2>1, <2>2, <2>3, <3>1, <3>2 DEF IniInv, IniTyped
  <2>7. CASE List(d)
    <3>1. InSection(P)'
      BY <1>1, <1>2, <2>1, <2>7, ListStep
    <3>2. /\ fault' \in {"none", "crash", "freed twice"} /\ UNCHANGED <<active, flag>>
          /\ shared' = (shared \/ \E z \in ListAt(d).met : Shared(heap, z))
      BY <2>7, ListParts
    <3>3. shared' \in BOOLEAN
      BY <3>2
    <3> QED BY <2>1, <2>2, <2>3, <3>1, <3>2, <3>3 DEF IniInv, IniTyped
  <2>8. CASE Section(d)
    <3>1. UNCHANGED shared /\ fault' \in {fault, "crash"}
      BY <2>8 DEF Section
    <3>2. flag' \in {flag, "END", "PROCESS"} /\ active' \in {active} \cup Nat
      <4>1. active' \in {active} \cup Nat
        BY <1>1, <1>2, <2>8, SectionStep
      <4>2. flag' \in {flag, "END", "PROCESS"}
        BY <2>8 DEF Section
      <4> QED BY <4>1, <4>2
    <3>3. IniTyped'
      BY <2>1, <2>2, <2>3, <3>1, <3>2 DEF IniTyped
    <3>4. UNCHANGED <<heap, active>> \/ InSection(<<d.name>>)'
      BY <1>1, <1>2, <2>8, SectionStep
    <3>5. CASE UNCHANGED <<heap, active>>
      BY <1>2, <3>3, <3>5 DEF IniInv, InSection, Begun
    <3> QED BY <3>3, <3>4, <3>5 DEF IniInv
  <2> QED BY <2>4, <2>5, <2>6, <2>7, <2>8
<1> QED BY <1>3, <1>4 DEF IniNext

\* No array is within itself, and the active section is the returned array's.
LEMMA IniTypes ==
  ASSUME IniInv
  PROVE  IniTypeOK
<1>1. IniTyped
  BY DEF IniInv
<1>2. PICK P : InSection(P)
  BY DEF IniInv
<1>3. PICK depth : /\ Leveled(heap, depth) /\ P \in Seq(Keys) /\ Len(P) <= 1
                   /\ Begun \in DOMAIN heap /\ Own(heap, P, Begun) /\ heap[Begun].arr
  BY <1>2 DEF InSection, Shape
<1>4. ASSUME NEW z \in DOMAIN heap
      PROVE  /\ heap[z].arr \in BOOLEAN /\ heap[z].val \in {Nil} \cup 1..MaxLines
             /\ \A k \in DOMAIN heap[z].map : heap[z].arr /\ heap[z].map[k] \in DOMAIN heap \ {1, z}
  <2>1. heap[z] \in Zval
    BY <1>3, HeapParts
  <2>2. heap[z].arr \in BOOLEAN /\ heap[z].val \in {Nil} \cup 1 .. MaxLines
    BY <2>1 DEF Zval, Value
  <2>3. ASSUME NEW k \in DOMAIN heap[z].map
        PROVE  heap[z].arr /\ heap[z].map[k] \in DOMAIN heap \ {1, z}
    <3>1. PICK y : y = heap[z].map[k]
      OBVIOUS
    <3>2. /\ heap[z].arr /\ y \in DOMAIN heap /\ depth[y] = depth[z] + 1 /\ depth[z] \in 0 .. Deepest
          /\ depth[1] = 0
      BY <1>3, <3>1 DEF Leveled
    <3>3. depth[y] # depth[z] /\ depth[y] # 0
      BY <3>2, IniAssumption
    <3> QED BY <3>1, <3>2, <3>3
  <2> QED BY <2>2, <2>3
<1>5. active = Nil \/ \E k \in DOMAIN heap[1].map : heap[1].map[k] = active
  <2> SUFFICES ASSUME active # Nil PROVE \E k \in DOMAIN heap[1].map : heap[1].map[k] = active
    OBVIOUS
  <2>1. Begun = active /\ P # <<>>
    BY <1>2 DEF Begun, InSection
  <2>2. Len(P) = 1
    <3>1. Len(P) \in {0, 1}
      BY <1>3, ShapeParts
    <3> QED BY <1>3, <2>1, <3>1, EmptySeq
  <2>3. PICK k \in Keys : P = <<k>>
    BY <1>3, <2>2, OneKey
  <2>4. Leads(heap, 1, <<k>>, active)
    BY <1>3, <2>1, <2>3 DEF Own
  <2> QED BY <1>3, <2>4, OneKey
<1>6. /\ flag \in {"START", "PROCESS", "END"} /\ wanted \in Wanted
      /\ fault \in {"none", "crash", "freed twice"} /\ file \in Seq(Directives) /\ shared \in BOOLEAN
  BY <1>1 DEF IniTyped
<1> QED BY <1>4, <1>5, <1>6 DEF IniTypeOK

--------------------------------------------------------------------------------
(* Theorems.                                                               *)

\* The inductive invariant: every zval has a depth, and the section being read is in
\* one place.
THEOREM IniInvariant == IniSpec => []IniInv
<1>1. IniInit => IniInv
  BY IniStarts
<1>2. IniInv /\ [IniNext]_iniVars => IniInv'
  BY IniGoesOn
<1> QED BY <1>1, <1>2, PTL DEF IniSpec

\* For every file and every bound, the arrays that the reader builds are a tree but
\* for what sections share: no array is within itself, no element is the returned
\* array, only arrays have elements, and the active section is one of the file's.
THEOREM IniTypeCorrect == IniSpec => []IniTypeOK
<1>1. IniInv => IniTypeOK
  BY IniTypes
<1> QED BY <1>1, IniInvariant, PTL
--------------------------------------------------------------------------------
(* What a line leaves alone.                                               *)

\* An element of the returned array tells what is said from its key on.
LEMMA ElementTells ==
  ASSUME NEW h, NEW depth, Leveled(h, depth), NEW k \in DOMAIN h[1].map, NEW q \in Seq(Keys)
  PROVE  /\ Holds(h, <<k>> \o q) <=> Keeps(h, h[1].map[k], q)
         /\ \A u : Says(h, <<k>> \o q, u) <=> Tells(h, h[1].map[k], q, u)
<1>1. 1 \in DOMAIN h /\ k \in Keys
  <2>1. 1 \in DOMAIN h
    BY DEF Leveled
  <2> QED BY <2>1, HeapParts
<1>2. \A x : Leads(h, 1, <<k>> \o q, x) <=> Leads(h, h[1].map[k], q, x)
  BY <1>1, LeadsFirst
<1>3. PICK r, z : r = <<k>> \o q /\ z = h[1].map[k]
  OBVIOUS
<1> QED BY <1>2, <1>3 DEF Holds, Keeps, Says, Tells

\* If nothing changes from a key on, what has the key tells the same.
LEMMA ElementSame ==
  ASSUME NEW h, NEW depth, Leveled(h, depth), NEW g, NEW level, Leveled(g, level),
         NEW k \in DOMAIN h[1].map,
         \A q \in Seq(Keys) :
           /\ Holds(g, <<k>> \o q) <=> Holds(h, <<k>> \o q)
           /\ \A u : Says(g, <<k>> \o q, u) <=> Says(h, <<k>> \o q, u)
  PROVE  k \in DOMAIN g[1].map /\ Leaves(g, g[1].map[k]) = Leaves(h, h[1].map[k])
<1>1. /\ 1 \in DOMAIN h /\ 1 \in DOMAIN g /\ k \in Keys /\ h[1].map[k] \in DOMAIN h
      /\ <<>> \in Seq(Keys)
  <2>1. 1 \in DOMAIN h /\ 1 \in DOMAIN g /\ h[1].map[k] \in DOMAIN h
    BY DEF Leveled
  <2> QED BY <2>1, HeapParts
<1>2. k \in DOMAIN g[1].map
  <2>1. PICK r : r = <<k>> \o <<>>
    OBVIOUS
  <2>2. r = <<k>>
    BY <1>1, <2>1
  <2>3. Leads(h, 1, r, h[1].map[k])
    BY <1>1, <2>2, OneKey
  <2>4. Holds(h, r) \/ Says(h, r, h[h[1].map[k]].val)
    BY <2>3 DEF Holds, Says
  <2>5. Holds(g, r) \/ Says(g, r, h[h[1].map[k]].val)
    BY <1>1, <2>1, <2>4
  <2>6. \E x : Leads(g, 1, r, x)
    BY <2>5 DEF Holds, Says
  <2> QED BY <1>1, <2>2, <2>6, OneKey
<1>3. PICK a, b : a = g[1].map[k] /\ b = h[1].map[k]
  OBVIOUS
<1>4. a \in DOMAIN g /\ b \in DOMAIN h
  BY <1>1, <1>2, <1>3 DEF Leveled
<1>5. \A q \in Seq(Keys) : \A u : Tells(g, a, q, u) <=> Tells(h, b, q, u)
  <2> SUFFICES ASSUME NEW q \in Seq(Keys), NEW u
               PROVE  Tells(g, a, q, u) <=> Tells(h, b, q, u)
    OBVIOUS
  <2>1. Says(g, <<k>> \o q, u) <=> Tells(g, a, q, u)
    BY <1>2, <1>3, ElementTells
  <2>2. Says(h, <<k>> \o q, u) <=> Tells(h, b, q, u)
    BY <1>3, ElementTells
  <2> QED BY <2>1, <2>2
<1>6. /\ LeafSet(Leaves(g, a)) /\ LeafSet(Leaves(h, b))
      /\ \A p, v : Leaf(p, v) \in Leaves(g, a) <=> Tells(g, a, p, v)
      /\ \A p, v : Leaf(p, v) \in Leaves(h, b) <=> Tells(h, b, p, v)
  BY <1>4, LeavesTell
<1>7. Leaves(g, a) = Leaves(h, b)
  BY <1>5, <1>6, SameLeaves
<1> QED BY <1>2, <1>3, <1>7

\* Paths that begin with other keys do not clash.
LEMMA OtherKey ==
  ASSUME NEW Q \in Seq(Keys), Q # <<>>, NEW k \in Keys, Q[1] # k, NEW q \in Seq(Keys)
  PROVE  ~IsPrefix(<<k>> \o q, Q) /\ ~IsPrefix(Q, <<k>> \o q)
<1>1. PICK r : r = <<k>> \o q
  OBVIOUS
<1>2. r \in Seq(Keys) /\ r[1] = k /\ Len(r) = 1 + Len(q)
  BY <1>1, ConsParts
<1>3. Len(q) \in Nat /\ Len(Q) \in Nat \ {0}
  BY LenProperties, EmptySeq
<1>4. 1 \in 1 .. Len(r) /\ 1 \in 1 .. Len(Q)
  BY <1>2, <1>3
<1>5. ~IsPrefix(r, Q)
  BY <1>2, <1>4, PrefixPoints
<1>6. ~IsPrefix(Q, r)
  BY <1>2, <1>4, PrefixPoints
<1> QED BY <1>1, <1>5, <1>6

\* The path of an entry of the section at P begins with another key than those left alone.
LEMMA EntryElsewhere ==
  ASSUME NEW P, InSection(P), NEW d \in Directives, d.kind = "entry", NEW k \in Others(d)
  PROVE  P \o d.path \in Seq(Keys) /\ P \o d.path # <<>> /\ (P \o d.path)[1] # k
<1>1. d.path \in Seq(Keys)
  BY IniAssumption
<1>2. PICK depth : /\ Leveled(heap, depth) /\ P \in Seq(Keys) /\ Len(P) <= 1
                   /\ Begun \in DOMAIN heap /\ Own(heap, P, Begun) /\ heap[Begun].arr
  BY DEF InSection, Shape
<1>3. k \in DOMAIN heap[1].map /\ heap[1].map[k] # active /\ (active = Nil => d.path # <<>> /\ k # d.path[1])
  BY DEF Others
<1>4. CASE active = Nil
  <2>1. P = <<>>
    BY <1>4 DEF InSection
  <2>2. P \o d.path = d.path
    BY <1>1, <2>1
  <2> QED BY <1>1, <1>3, <1>4, <2>2
<1>5. CASE active # Nil
  <2>1. P # <<>> /\ Begun = active
    BY <1>5 DEF InSection, Begun
  <2>2. Len(P) = 1
    <3>1. Len(P) \in {0, 1}
      BY <1>2, ShapeParts
    <3> QED BY <1>2, <2>1, <3>1, EmptySeq
  <2>3. PICK c \in Keys : P = <<c>>
    BY <1>2, <2>2, OneKey
  <2>4. Leads(heap, 1, <<c>>, active)
    BY <1>2, <2>1, <2>3 DEF Own
  <2>5. heap[1].map[c] = active
    BY <1>2, <2>4, OneKey
  <2>6. c # k
    BY <1>3, <2>5
  <2>7. PICK r : r = <<c>> \o d.path
    OBVIOUS
  <2>8. r \in Seq(Keys) /\ r[1] = c /\ r # <<>>
    BY <1>1, <2>7, ConsParts
  <2> QED BY <2>3, <2>6, <2>7, <2>8
<1> QED BY <1>4, <1>5

\* An entry.
LEMMA EntryKeeps ==
  ASSUME IniTyped, NEW P, InSection(P), NEW d \in Directives, Entry(d), Len(file) < MaxLines,
         NEW k \in Others(d)
  PROVE  Has(heap', 1, k) /\ Leaves(heap', heap'[1].map[k]) = Leaves(heap, heap[1].map[k])
<1>1. InSection(P)' /\ PutSaid(heap', heap, P \o d.path, Scalar(Len(file) + 1))
  BY EntryStep
<1>2. PICK depth, level : Leveled(heap, depth) /\ Leveled(heap', level)
  BY <1>1 DEF InSection, Shape
<1>3. PICK g, Q, node : g = heap' /\ Q = P \o d.path /\ node = Scalar(Len(file) + 1)
  OBVIOUS
<1>4. k \in DOMAIN heap[1].map /\ k \in Keys
  <2>1. 1 \in DOMAIN heap /\ k \in DOMAIN heap[1].map
    BY <1>2 DEF Others, Leveled
  <2> QED BY <1>2, <2>1, HeapParts
<1>5. Q \in Seq(Keys) /\ Q # <<>> /\ Q[1] # k
  BY <1>3, EntryElsewhere DEF Entry
<1>6. ASSUME NEW q \in Seq(Keys)
      PROVE  /\ Holds(g, <<k>> \o q) <=> Holds(heap, <<k>> \o q)
             /\ \A u : Says(g, <<k>> \o q, u) <=> Says(heap, <<k>> \o q, u)
  <2>1. PICK r : r = <<k>> \o q
    OBVIOUS
  <2>2. r \in Seq(Keys)
    BY <1>4, <2>1, ConsParts
  <2>3. ~IsPrefix(r, Q) /\ ~IsPrefix(Q, r)
    BY <1>4, <1>5, <2>1, OtherKey
  <2>4. r # Q
    BY <1>5, <2>3, PrefixOrder
  <2>5. PutSaid(g, heap, Q, node)
    BY <1>1, <1>3
  <2>6. /\ Holds(g, r) <=> Holds(heap, r)
        /\ \A u : Says(g, r, u) <=> Says(heap, r, u)
    BY <2>2, <2>3, <2>4, <2>5 DEF PutSaid, SameSaid
  <2> QED BY <2>1, <2>6
<1>7. Leveled(g, level)
  BY <1>2, <1>3
<1>8. k \in DOMAIN g[1].map /\ Leaves(g, g[1].map[k]) = Leaves(heap, heap[1].map[k])
  BY <1>2, <1>4, <1>6, <1>7, ElementSame
<1> QED BY <1>3, <1>8 DEF Has

\* The start of a section of another name.
LEMMA SectionKeeps ==
  ASSUME NEW h, NEW depth, Leveled(h, depth), NEW g, NEW level, Leveled(g, level),
         NEW name, NEW parents, NEW z, IsSection(h, g, name, parents, z),
         NEW k \in DOMAIN h[1].map, k # name
  PROVE  /\ k \in DOMAIN g[1].map /\ g[1].map[k] = h[1].map[k]
         /\ Leaves(g, g[1].map[k]) = Leaves(h, h[1].map[k])
         /\ g[g[1].map[k]] = h[h[1].map[k]]
         /\ Full(g, g[1].map[k]) <=> Full(h, h[1].map[k])
<1>1. /\ DOMAIN h \subseteq DOMAIN g /\ k \in DOMAIN g[1].map /\ g[1].map[k] = h[1].map[k]
      /\ \A y \in DOMAIN h : y # 1 => g[y] = h[y]
  BY DEF IsSection
<1>2. PICK x : x = h[1].map[k]
  OBVIOUS
<1>3. x \in DOMAIN h /\ depth[x] = depth[1] + 1 /\ depth[1] = 0
  BY <1>2 DEF Leveled
<1>4. \A p, y : Leads(h, x, p, y) => g[y] = h[y]
  <2> SUFFICES ASSUME NEW p, NEW y, Leads(h, x, p, y) PROVE g[y] = h[y]
    OBVIOUS
  <2>0. \A q, w : Leads(h, x, q, w) => q \in Seq(Keys) /\ w \in DOMAIN h /\ depth[w] = depth[x] + Len(q)
    BY <1>3, LeadsRules
  <2>1. p \in Seq(Keys) /\ y \in DOMAIN h /\ depth[y] = depth[x] + Len(p)
    BY <2>0
  <2>2. Len(p) \in Nat
    BY <2>1, LenProperties
  <2>3. y # 1
    BY <1>3, <2>1, <2>2
  <2> QED BY <1>1, <2>1, <2>3
<1>5. Leaves(g, x) = Leaves(h, x) /\ (Full(g, x) <=> Full(h, x))
  BY <1>1, <1>3, <1>4, TellsSame
<1>6. x # 1
  BY <1>3
<1> QED BY <1>1, <1>2, <1>3, <1>5, <1>6

\* The last of the lines read is the one that the step reads.
LEMMA LastLine ==
  ASSUME NEW s \in Seq(Directives), NEW c, NEW d, Append(s, c) = Append(s, d)
  PROVE  c = d
<1>1. Len(s) \in Nat /\ Append(s, c)[Len(s) + 1] = c /\ Append(s, d)[Len(s) + 1] = d
  OBVIOUS
<1> QED BY <1>1

\* Entries and the starts of sections leave the other sections alone.
LEMMA OthersKept ==
  ASSUME IniInv, [IniNext]_iniVars, NEW d \in Directives, d.kind # "list", file' = Append(file, d),
         NEW k \in Others(d)
  PROVE  Has(heap', 1, k) /\ Leaves(heap', heap'[1].map[k]) = Leaves(heap, heap[1].map[k])
<1>1. IniTyped /\ file \in Seq(Directives)
  BY DEF IniInv, IniTyped
<1>2. PICK P : InSection(P)
  BY DEF IniInv
<1>3. k \in DOMAIN heap[1].map /\ (d.kind = "section" => k # d.name)
  BY DEF Others
<1>4. CASE UNCHANGED heap
  BY <1>3, <1>4 DEF Has
<1>5. ~UNCHANGED iniVars
  <2>1. Len(Append(file, d)) = Len(file) + 1 /\ Len(file) \in Nat
    BY <1>1, AppendProperties, LenProperties
  <2>2. file' # file
    BY <2>1
  <2> QED BY <2>2 DEF iniVars
<1>6. PICK c \in Directives : Line(c)
  BY <1>5 DEF IniNext
<1>7. Line(d)
  <2>1. Append(file, c) = Append(file, d)
    BY <1>6 DEF Line
  <2>2. c = d
    BY <1>1, <2>1, LastLine
  <2> QED BY <1>6, <2>2
<1>8. Len(file) < MaxLines /\ (Ignored \/ Entry(d) \/ Section(d))
  BY <1>7 DEF Line, List
<1>9. CASE Ignored
  BY <1>4, <1>9 DEF Ignored
<1>10. CASE Entry(d)
  BY <1>1, <1>2, <1>8, <1>10, EntryKeeps
<1>11. CASE Section(d) /\ heap' # heap
  <2>1. InSection(<<d.name>>)' /\ IsSection(heap, heap', d.name, d.parents, active')
    BY <1>1, <1>2, <1>11, SectionStep
  <2>2. PICK depth, level : Leveled(heap, depth) /\ Leveled(heap', level)
    BY <1>2, <2>1 DEF InSection, Shape
  <2>3. PICK g, name, parents, z : g = heap' /\ name = d.name /\ parents = d.parents /\ z = active'
    OBVIOUS
  <2>4. IsSection(heap, g, name, parents, z) /\ Leveled(g, level) /\ k # name
    BY <1>3, <1>11, <2>1, <2>2, <2>3 DEF Section
  <2>5. k \in DOMAIN g[1].map /\ Leaves(g, g[1].map[k]) = Leaves(heap, heap[1].map[k])
    BY <1>3, <2>2, <2>4, SectionKeeps
  <2> QED BY <2>3, <2>5 DEF Has
<1> QED BY <1>4, <1>8, <1>9, <1>10, <1>11

\* For every file, an entry and the start of a section leave every other section with
\* the leaves it has, though sections share the arrays they inherit.
THEOREM IniParentsKept == IniSpec => ParentsKept
<1>1. IniInv /\ [IniNext]_iniVars =>
        [\A d \in Directives :
           d.kind # "list" /\ file' = Append(file, d) =>
             \A k \in Others(d) :
               Has(heap', 1, k) /\ Leaves(heap', heap'[1].map[k]) = Leaves(heap, heap[1].map[k])]_iniVars
  BY OthersKept
<1> QED BY <1>1, IniInvariant, PTL DEF IniSpec, ParentsKept
--------------------------------------------------------------------------------
(* What a line says.                                                       *)

\* Every array that more keys than those of P lead to has a leaf.
NoEmpty(h, P) ==
  \A p \in Seq(Keys) : Holds(h, p) /\ Len(p) > Len(P) =>
    \E q \in Seq(Keys) : \E u : IsPrefix(p, q) /\ Says(h, q, u)

\* The leaves of the returned array are what is said.
LEMMA LeavesSay ==
  ASSUME NEW h, NEW depth, Leveled(h, depth)
  PROVE  /\ LeafSet(Leaves(h, 1))
         /\ \A p, v : Leaf(p, v) \in Leaves(h, 1) <=> Says(h, p, v)
<1>1. 1 \in DOMAIN h
  BY DEF Leveled
<1>2. \A p, v : Says(h, p, v) <=> Tells(h, 1, p, v)
  BY DEF Says, Tells
<1>3. /\ LeafSet(Leaves(h, 1))
      /\ \A p, v : Leaf(p, v) \in Leaves(h, 1) <=> Tells(h, 1, p, v)
  BY <1>1, LeavesTell
<1> QED BY <1>2, <1>3

\* A set of leaves and a heap say the same if it is what its array tells.
LEMMA SaidLeaves ==
  ASSUME NEW h, NEW depth, Leveled(h, depth), NEW S, LeafSet(S),
         \A p \in Seq(Keys) : \A v : Leaf(p, v) \in S <=> Says(h, p, v)
  PROVE  Leaves(h, 1) = S
<1>1. LeafSet(Leaves(h, 1)) /\ \A p, v : Leaf(p, v) \in Leaves(h, 1) <=> Says(h, p, v)
  BY LeavesSay
<1> QED BY <1>1, SameLeaves

\* What is said the same is the same leaves.
LEMMA SameSaidSame ==
  ASSUME NEW h, NEW depth, Leveled(h, depth), NEW g, NEW level, Leveled(g, level),
         SameSaid(g, h), NEW P
  PROVE  Leaves(g, 1) = Leaves(h, 1) /\ (NoEmpty(h, P) => NoEmpty(g, P))
<1>1. LeafSet(Leaves(h, 1)) /\ \A p, v : Leaf(p, v) \in Leaves(h, 1) <=> Says(h, p, v)
  BY LeavesSay
<1>2. Leaves(g, 1) = Leaves(h, 1)
  BY <1>1, SaidLeaves DEF SameSaid
<1>3. NoEmpty(h, P) => NoEmpty(g, P)
  BY DEF NoEmpty, SameSaid
<1> QED BY <1>2, <1>3

\* One leaf.
LEMMA OneLeaf ==
  ASSUME NEW Q \in Seq(Keys), NEW v
  PROVE  /\ LeafSet({Leaf(Q, v)})
         /\ \A p, u : Leaf(p, u) \in {Leaf(Q, v)} <=> p = Q /\ u = v
<1>1. LeafSet({Leaf(Q, v)})
  BY DEF LeafSet
<1>2. \A p, u : Leaf(p, u) = Leaf(Q, v) <=> p = Q /\ u = v
  BY SameLeaves
<1> QED BY <1>1, <1>2

\* What an entry says is what it puts.
LEMMA EntrySaid ==
  ASSUME NEW h, NEW depth, Leveled(h, depth), NEW g, NEW level, Leveled(g, level),
         NEW P \in Seq(Keys), NoEmpty(h, P), NEW Q \in Seq(Keys), Len(Q) > Len(P),
         NEW v \in Value, PutSaid(g, h, Q, Scalar(v))
  PROVE  Leaves(g, 1) = EntrySays(Leaves(h, 1), Q, v) /\ NoEmpty(g, P)
<1> DEFINE S == Leaves(h, 1)
<1>1. LeafSet(S) /\ \A p, u : Leaf(p, u) \in S <=> Says(h, p, u)
  BY LeavesSay
<1> HIDE DEF S
<1>2. (\E l \in Below(S, Q) : l.path # Q) <=> \E q \in Seq(Keys) : \E u : Says(h, q, u) /\ IsPrefix(Q, q) /\ q # Q
  <2>1. ASSUME NEW l \in Below(S, Q), l.path # Q
        PROVE  \E q \in Seq(Keys) : \E u : Says(h, q, u) /\ IsPrefix(Q, q) /\ q # Q
    <3>1. l \in S /\ IsPrefix(Q, l.path)
      BY DEF Below
    <3>2. PICK q, u : q \in Seq(Keys) /\ l = Leaf(q, u)
      BY <1>1, <3>1 DEF LeafSet
    <3>3. l.path = q
      BY <3>2 DEF Leaf
    <3> QED BY <1>1, <2>1, <3>1, <3>2, <3>3
  <2>2. ASSUME NEW q \in Seq(Keys), NEW u, Says(h, q, u), IsPrefix(Q, q), q # Q
        PROVE  \E l \in Below(S, Q) : l.path # Q
    <3>1. Leaf(q, u) \in S /\ Leaf(q, u).path = q
      BY <1>1, <2>2 DEF Leaf
    <3> QED BY <2>2, <3>1 DEF Below
  <2> QED BY <2>1, <2>2
<1>3. /\ \A p, u : Says(h, p, u) => p \in Seq(Keys) /\ ~Holds(h, p)
      /\ \A p, q \in Seq(Keys) : IsPrefix(q, p) /\ p # q =>
           /\ Holds(h, p) => Holds(h, q)
           /\ \A u : Says(h, p, u) => Holds(h, q)
  BY SaysRules
<1>4. CASE Holds(h, Q)
  <2>1. SameSaid(g, h)
    BY <1>4 DEF PutSaid
  <2>2. \E q \in Seq(Keys) : \E u : IsPrefix(Q, q) /\ Says(h, q, u)
    BY <1>4 DEF NoEmpty
  <2>3. \E q \in Seq(Keys) : \E u : Says(h, q, u) /\ IsPrefix(Q, q) /\ q # Q
    BY <1>3, <1>4, <2>2
  <2>4. EntrySays(S, Q, v) = S
    BY <1>2, <2>3 DEF EntrySays
  <2>5. Leaves(g, 1) = S /\ NoEmpty(g, P)
    BY <2>1, SameSaidSame DEF S
  <2> QED BY <2>4, <2>5 DEF S
<1>5. CASE ~Holds(h, Q)
  <2>1. ~ \E l \in Below(S, Q) : l.path # Q
    BY <1>2, <1>3, <1>5
  <2>2. EntrySays(S, Q, v) = LeafOver(S, {Leaf(Q, v)})
    BY <2>1 DEF EntrySays
  <2>3. ~Scalar(v).arr /\ Scalar(v).val = v
    BY NewZvals
  <2>4. \A p \in Seq(Keys) :
          /\ Holds(g, p) <=> Holds(h, p) \/ (IsPrefix(p, Q) /\ p # Q)
          /\ \A u : Says(g, p, u) <=> \/ Says(h, p, u) /\ ~IsPrefix(p, Q) /\ ~IsPrefix(Q, p)
                                      \/ p = Q /\ u = v
    BY <1>5, <2>3 DEF PutSaid
  <2>5. /\ LeafSet({Leaf(Q, v)})
        /\ \A p, u : Leaf(p, u) \in {Leaf(Q, v)} <=> p = Q /\ u = v
    BY OneLeaf
  <2>6. PICK over : over = {Leaf(Q, v)}
    OBVIOUS
  <2>7. LeafSet(over) /\ \A p, u : Leaf(p, u) \in over <=> p = Q /\ u = v
    BY <2>5, <2>6
  <2>8. /\ LeafSet(LeafOver(S, over))
        /\ \A p \in Seq(Keys) : \A u : Leaf(p, u) \in LeafOver(S, over) <=>
             \/ Leaf(p, u) \in over
             \/ /\ Leaf(p, u) \in S
                /\ \A q \in Seq(Keys) : \A w : Leaf(q, w) \in over => ~IsPrefix(q, p) /\ ~IsPrefix(p, q)
    BY <1>1, <2>7, OverRules
  <2>9. \A p \in Seq(Keys) : \A u : Leaf(p, u) \in LeafOver(S, over) <=> Says(g, p, u)
    <3> SUFFICES ASSUME NEW p \in Seq(Keys), NEW u
                 PROVE  Leaf(p, u) \in LeafOver(S, over) <=> Says(g, p, u)
      OBVIOUS
    <3>1. (\A q \in Seq(Keys) : \A w : Leaf(q, w) \in over => ~IsPrefix(q, p) /\ ~IsPrefix(p, q))
            <=> ~IsPrefix(Q, p) /\ ~IsPrefix(p, Q)
      BY <2>7
    <3> QED BY <1>1, <2>4, <2>7, <2>8, <3>1
  <2>10. Leaves(g, 1) = LeafOver(S, over)
    BY <2>8, <2>9, SaidLeaves
  <2>11. ASSUME NEW p \in Seq(Keys), Holds(g, p), Len(p) > Len(P)
         PROVE  \E q \in Seq(Keys) : \E u : IsPrefix(p, q) /\ Says(g, q, u)
    <3>1. CASE IsPrefix(p, Q)
      BY <2>4, <3>1
    <3>2. CASE ~IsPrefix(p, Q)
      <4>1. Holds(h, p)
        BY <2>4, <2>11, <3>2
      <4>2. PICK q, u : q \in Seq(Keys) /\ IsPrefix(p, q) /\ Says(h, q, u)
        BY <2>11, <4>1 DEF NoEmpty
      <4>3. ~IsPrefix(q, Q)
        BY <3>2, <4>2, PrefixOrder
      <4>4. ~IsPrefix(Q, q)
        <5>1. IsPrefix(Q, q) => IsPrefix(Q, p) \/ IsPrefix(p, Q)
          BY <4>2, PrefixOrder
        <5>2. IsPrefix(Q, p) => p = Q
          BY <1>3, <1>5, <4>1
        <5> QED BY <1>5, <3>2, <4>1, <5>1, <5>2
      <4> QED BY <2>4, <4>2, <4>3, <4>4
    <3> QED BY <3>1, <3>2
  <2>12. NoEmpty(g, P)
    BY <2>11 DEF NoEmpty
  <2> QED BY <2>2, <2>6, <2>10, <2>12 DEF S
<1> QED BY <1>4, <1>5
\* A path that goes on after W has a key there.
LEMMA KeyAfter ==
  ASSUME NEW W \in Seq(Keys), NEW q \in Seq(Keys)
  PROVE  /\ IsPrefix(W, q) /\ q # W =>
              q[Len(W) + 1] \in Keys /\ IsPrefix(Append(W, q[Len(W) + 1]), q)
         /\ \A j \in Keys : IsPrefix(Append(W, j), q) =>
              q[Len(W) + 1] = j /\ IsPrefix(W, q) /\ q # W
<1>1. PICK n, m : n = Len(W) /\ m = Len(q)
  OBVIOUS
<1>2. n \in Nat /\ m \in Nat
  BY <1>1, LenProperties
<1>3. \A j \in Keys : /\ Append(W, j) \in Seq(Keys) /\ Len(Append(W, j)) = n + 1
                      /\ Append(W, j)[n + 1] = j /\ \A i \in 1 .. n : Append(W, j)[i] = W[i]
  BY <1>1, AppendProperties
<1>4. IsPrefix(W, q) <=> n <= m /\ \A i \in 1 .. n : q[i] = W[i]
  BY <1>1, PrefixPoints
<1>5. \A j \in Keys : IsPrefix(Append(W, j), q) <=>
        n + 1 <= m /\ \A i \in 1 .. n + 1 : q[i] = Append(W, j)[i]
  <2> SUFFICES ASSUME NEW j \in Keys
               PROVE  IsPrefix(Append(W, j), q) <=>
                        n + 1 <= m /\ \A i \in 1 .. n + 1 : q[i] = Append(W, j)[i]
    OBVIOUS
  <2>1. PICK s : s = Append(W, j)
    OBVIOUS
  <2>2. s \in Seq(Keys) /\ Len(s) = n + 1
    BY <1>3, <2>1
  <2>3. IsPrefix(s, q) <=> n + 1 <= m /\ \A i \in 1 .. n + 1 : q[i] = s[i]
    BY <1>1, <2>2, PrefixPoints
  <2> QED BY <2>1, <2>3
<1>6. ASSUME IsPrefix(W, q), q # W
      PROVE  q[n + 1] \in Keys /\ IsPrefix(Append(W, q[n + 1]), q)
  <2>1. n <= m /\ \A i \in 1 .. n : q[i] = W[i]
    BY <1>4, <1>6
  <2>2. n # m
    <3>1. n = m => q = W
      BY <1>1, <2>1, SeqEqual
    <3> QED BY <1>6, <3>1
  <2>3. n + 1 \in 1 .. m /\ n + 1 <= m
    BY <1>2, <2>1, <2>2
  <2>4. q[n + 1] \in Keys
    BY <1>1, <2>3, ElementOfSeq
  <2>5. PICK j \in Keys : j = q[n + 1]
    BY <2>4
  <2>6. \A i \in 1 .. n + 1 : q[i] = Append(W, j)[i]
    <3>1. \A i \in 1 .. n + 1 : i \in 1 .. n \/ i = n + 1
      BY <1>2
    <3> QED BY <1>3, <2>1, <2>5, <3>1
  <2>7. IsPrefix(Append(W, j), q)
    BY <1>5, <2>3, <2>6
  <2> QED BY <2>4, <2>5, <2>7
<1>7. ASSUME NEW j \in Keys, IsPrefix(Append(W, j), q)
      PROVE  q[n + 1] = j /\ IsPrefix(W, q) /\ q # W
  <2>1. n + 1 <= m /\ \A i \in 1 .. n + 1 : q[i] = Append(W, j)[i]
    BY <1>5, <1>7
  <2>2. n + 1 \in 1 .. n + 1 /\ \A i \in 1 .. n : i \in 1 .. n + 1
    BY <1>2
  <2>3. q[n + 1] = j /\ \A i \in 1 .. n : q[i] = W[i]
    BY <1>3, <2>1, <2>2
  <2>4. n <= m /\ n # m
    BY <1>2, <2>1
  <2> QED BY <1>1, <1>4, <2>3, <2>4
<1> QED BY <1>1, <1>6, <1>7

\* The keys of the list are those that leaves have after its path.
LEMMA ListKeys ==
  ASSUME NEW h, NEW depth, Leveled(h, depth), NEW lists, NEW level, Leveled(lists, level),
         NEW P, NEW W \in Seq(Keys), Len(W) > Len(P), NoEmpty(h, P),
         NEW at, Leads(lists, 1, W, at), PutSaid(lists, h, W, Array),
         NEW j \in Keys
  PROVE  j \in DOMAIN lists[at].map <=>
           \E q \in Seq(Keys) : \E u : Says(h, q, u) /\ IsPrefix(Append(W, j), q)
<1>1. 1 \in DOMAIN lists
  BY DEF Leveled
<1>2. PICK R : R = Append(W, j)
  OBVIOUS
<1>3. R \in Seq(Keys) /\ IsPrefix(W, R) /\ R # W /\ ~IsPrefix(R, W) /\ Len(R) > Len(P)
  <2>1. R \in Seq(Keys) /\ Len(R) = Len(W) + 1
    BY <1>2, AppendProperties
  <2>2. R # W
    BY <2>1, LenProperties
  <2>3. IsPrefix(R, R)
    BY <2>1, PrefixOrder
  <2>4. IsPrefix(W, R)
    BY <1>2, <2>1, <2>3, KeyAfter
  <2>5. ~IsPrefix(R, W)
    BY <2>1, <2>2, <2>4, PrefixOrder
  <2>6. Len(R) > Len(P)
    <3>1. PICK a, b, c : a = Len(R) /\ b = Len(W) /\ c = Len(P)
      OBVIOUS
    <3>2. IsPrefix(W, R) => Len(W) <= Len(R)
      BY <2>1, PrefixPoints
    <3>3. b \in Nat /\ a = b + 1 /\ b > c
      BY <2>1, <3>1, LenProperties
    <3>4. a > c \/ c \notin Int
      BY <3>3
    <3> QED BY <2>1, <3>1, <3>3, <3>4
  <2> QED BY <2>1, <2>2, <2>4, <2>5, <2>6
<1>4. j \in DOMAIN lists[at].map <=> \E x : Leads(lists, 1, R, x)
  <2>1. \A y : Leads(lists, 1, W, y) => y = at
    BY <1>1, OnePlace
  <2>2. \A x : Leads(lists, 1, Append(W, j), x) <=>
          \E y : Leads(lists, 1, W, y) /\ j \in DOMAIN lists[y].map /\ x = lists[y].map[j]
    BY <1>1, LeadsRules
  <2> QED BY <1>2, <2>1, <2>2
<1>5. (\E x : Leads(lists, 1, R, x)) <=> Holds(lists, R) \/ \E u : Says(lists, R, u)
  BY DEF Holds, Says
<1>6. /\ \A p, u : Says(h, p, u) => p \in Seq(Keys) /\ ~Holds(h, p)
      /\ \A p, q \in Seq(Keys) : IsPrefix(q, p) /\ p # q =>
           /\ Holds(h, p) => Holds(h, q)
           /\ \A u : Says(h, p, u) => Holds(h, q)
  BY SaysRules
<1>7. CASE Holds(h, W)
  <2>1. Holds(lists, R) \/ (\E u : Says(lists, R, u)) <=> Holds(h, R) \/ \E u : Says(h, R, u)
    BY <1>3, <1>7 DEF PutSaid, SameSaid
  <2>2. Holds(h, R) \/ (\E u : Says(h, R, u)) <=>
          \E q \in Seq(Keys) : \E u : Says(h, q, u) /\ IsPrefix(R, q)
    <3>1. Holds(h, R) => \E q \in Seq(Keys) : \E u : Says(h, q, u) /\ IsPrefix(R, q)
      BY <1>3 DEF NoEmpty
    <3>2. IsPrefix(R, R)
      BY <1>3, PrefixOrder
    <3> QED BY <1>3, <1>6, <3>1, <3>2
  <2> QED BY <1>2, <1>4, <1>5, <2>1, <2>2
<1>8. CASE ~Holds(h, W)
  <2>1. ~Holds(h, R) /\ \A u : ~Says(h, R, u)
    BY <1>3, <1>6, <1>8
  <2>2. ~Holds(lists, R) /\ \A u : ~Says(lists, R, u)
    <3>1. Array.arr
      BY NewZvals
    <3> QED BY <1>3, <1>8, <2>1, <3>1 DEF PutSaid
  <2>3. ASSUME NEW q \in Seq(Keys), NEW u, Says(h, q, u), IsPrefix(R, q) PROVE FALSE
    <3>1. q = R \/ Holds(h, R)
      BY <1>3, <1>6, <2>3
    <3> QED BY <2>1, <2>3, <3>1
  <2> QED BY <1>2, <1>4, <1>5, <2>2, <2>3
<1> QED BY <1>7, <1>8

\* The list at W has the new element v at R.
HasElement(g, h, W, R, v) ==
  \A p \in Seq(Keys) :
    /\ \A u : Says(g, p, u) <=>
         \/ p = R /\ u = v
         \/ Says(h, p, u) /\ p # W /\ ~IsPrefix(p, R) /\ ~IsPrefix(R, p)
    /\ Holds(g, p) => ~IsPrefix(R, p) /\ (Holds(h, p) \/ IsPrefix(p, W))

\* What is said after a list element.
LEMMA ElementSaid ==
  ASSUME NEW h, NEW depth, Leveled(h, depth), NEW g, NEW lists,
         NEW W \in Seq(Keys), NEW k \in Keys, NEW R, R = Append(W, k),
         NEW v \in Value, NEW node, node = Scalar(v),
         PutSaid(lists, h, W, Array), SetSaid(g, lists, R, node)
  PROVE  HasElement(g, h, W, R, v)
<1> SUFFICES ASSUME NEW p \in Seq(Keys)
             PROVE  /\ \A u : Says(g, p, u) <=>
                         \/ p = R /\ u = v
                         \/ Says(h, p, u) /\ p # W /\ ~IsPrefix(p, R) /\ ~IsPrefix(R, p)
                    /\ Holds(g, p) => ~IsPrefix(R, p) /\ (Holds(h, p) \/ IsPrefix(p, W))
  BY DEF HasElement
<1>1. R = Append(W, k) /\ node = Scalar(v)
  OBVIOUS
<1>2. R \in Seq(Keys) /\ \A q \in Seq(Keys) : IsPrefix(q, R) <=> IsPrefix(q, W) \/ q = R
  <2>1. \A q \in Seq(Keys) : IsPrefix(q, Append(W, k)) <=> IsPrefix(q, W) \/ q = Append(W, k)
    BY PrefixAppend
  <2>2. Append(W, k) \in Seq(Keys)
    OBVIOUS
  <2> QED BY <1>1, <2>1, <2>2
<1>3. ~node.arr /\ node.val = v /\ Array.arr
  BY <1>1, NewZvals
<1>4. /\ Holds(g, p) <=> ~IsPrefix(R, p) /\ Holds(lists, p)
      /\ \A u : Says(g, p, u) <=> (~IsPrefix(R, p) /\ Says(lists, p, u)) \/ (p = R /\ u = v)
  BY <1>1, <1>3 DEF SetSaid
<1>5. /\ \A q, u : Says(h, q, u) => q \in Seq(Keys) /\ ~Holds(h, q)
      /\ \A r, q \in Seq(Keys) : IsPrefix(q, r) /\ r # q =>
           /\ Holds(h, r) => Holds(h, q)
           /\ \A u : Says(h, r, u) => Holds(h, q)
  BY SaysRules
<1>6. IsPrefix(R, R) /\ IsPrefix(W, W)
  BY <1>2, PrefixOrder
<1>7. /\ Holds(lists, p) => Holds(h, p) \/ IsPrefix(p, W)
      /\ ~IsPrefix(R, p) => \A u : Says(lists, p, u) <=> Says(h, p, u) /\ p # W /\ ~IsPrefix(p, R)
  <2>1. CASE Holds(h, W)
    <3>1. /\ Holds(lists, p) <=> Holds(h, p)
          /\ \A u : Says(lists, p, u) <=> Says(h, p, u)
      BY <2>1 DEF PutSaid, SameSaid
    <3>2. \A u : Says(h, p, u) => ~IsPrefix(p, W)
      BY <1>5, <2>1
    <3>3. ~IsPrefix(R, p) => \A u : Says(h, p, u) => p # W /\ ~IsPrefix(p, R)
      BY <1>2, <1>6, <3>2
    <3> QED BY <3>1, <3>3
  <2>2. CASE ~Holds(h, W)
    <3>1. /\ Holds(lists, p) <=> Holds(h, p) \/ IsPrefix(p, W)
          /\ \A u : Says(lists, p, u) <=> Says(h, p, u) /\ ~IsPrefix(p, W) /\ ~IsPrefix(W, p)
      BY <1>3, <2>2 DEF PutSaid
    <3>2. \A u : Says(h, p, u) => p = W \/ ~IsPrefix(W, p)
      BY <1>5, <2>2
    <3>3. ~IsPrefix(R, p) => \A u : Says(h, p, u) =>
            (~IsPrefix(p, W) /\ ~IsPrefix(W, p) <=> p # W /\ ~IsPrefix(p, R))
      BY <1>2, <1>6, <3>2
    <3> QED BY <3>1, <3>3
  <2> QED BY <2>1, <2>2
<1> QED BY <1>1, <1>4, <1>6, <1>7
\* What a list entry says is what it makes.
LEMMA ListSaidLeaves ==
  ASSUME NEW h, NEW depth, Leveled(h, depth), NEW lists, NEW deep, Leveled(lists, deep),
         NEW g, NEW level, Leveled(g, level),
         NEW P \in Seq(Keys), NoEmpty(h, P), NEW W \in Seq(Keys), Len(W) > Len(P),
         NEW at, Leads(lists, 1, W, at), PutSaid(lists, h, W, Array),
         NEW index, NEW k \in Keys, NEW v \in Value,
         k = IF index = Nil THEN NextIndex(DOMAIN lists[at].map) ELSE index,
         SetSaid(g, lists, Append(W, k), Scalar(v))
  PROVE  Leaves(g, 1) = ListSays(Leaves(h, 1), W, index, v) /\ NoEmpty(g, P)
<1> DEFINE S    == Leaves(h, 1)
           kept == S \ {l \in S : l.path = W}
           keys == {l.path[Len(W) + 1] : l \in Below(kept, W)}
<1>1. LeafSet(S) /\ \A p, u : Leaf(p, u) \in S <=> Says(h, p, u)
  BY LeavesSay
<1> HIDE DEF S
<1>2. LeafSet(kept) /\ \A p, u : Leaf(p, u) \in kept <=> Says(h, p, u) /\ p # W
  <2>1. LeafSet(kept)
    BY <1>1 DEF LeafSet
  <2>2. \A p, u : Leaf(p, u).path = p
    BY DEF Leaf
  <2> QED BY <1>1, <2>1, <2>2
<1>3. ListSays(S, W, index, v) =
        LeafOver(kept, {Leaf(Append(W, IF index = Nil THEN NextIndex(keys) ELSE index), v)})
  BY DEF ListSays
<1> HIDE DEF kept
<1>4. \A j : j \in keys <=> \E q \in Seq(Keys) : \E u :
                              Says(h, q, u) /\ q # W /\ IsPrefix(W, q) /\ j = q[Len(W) + 1]
  <2>1. ASSUME NEW l \in Below(kept, W)
        PROVE  \E q \in Seq(Keys) : \E u : Says(h, q, u) /\ q # W /\ IsPrefix(W, q) /\ l.path = q
    <3>1. l \in kept /\ IsPrefix(W, l.path)
      BY DEF Below
    <3>2. PICK q, u : q \in Seq(Keys) /\ l = Leaf(q, u)
      BY <1>2, <3>1 DEF LeafSet
    <3>3. l.path = q
      BY <3>2 DEF Leaf
    <3> QED BY <1>2, <3>1, <3>2, <3>3
  <2>2. ASSUME NEW q \in Seq(Keys), NEW u, Says(h, q, u), q # W, IsPrefix(W, q)
        PROVE  \E l \in Below(kept, W) : l.path = q
    <3>1. Leaf(q, u) \in kept /\ Leaf(q, u).path = q
      BY <1>2, <2>2 DEF Leaf
    <3> QED BY <2>2, <3>1 DEF Below
  <2>3. ASSUME NEW j, j \in keys
        PROVE  \E q \in Seq(Keys) : \E u : Says(h, q, u) /\ q # W /\ IsPrefix(W, q) /\ j = q[Len(W) + 1]
    <3>1. PICK l \in Below(kept, W) : j = l.path[Len(W) + 1]
      BY <2>3
    <3> QED BY <2>1, <3>1
  <2>4. ASSUME NEW j, NEW q \in Seq(Keys), NEW u,
               Says(h, q, u), q # W, IsPrefix(W, q), j = q[Len(W) + 1]
        PROVE  j \in keys
    <3>1. PICK l \in Below(kept, W) : l.path = q
      BY <2>2, <2>4
    <3> QED BY <2>4, <3>1
  <2> QED BY <2>3, <2>4
<1> HIDE DEF keys
<1>5. keys = DOMAIN lists[at].map
  <2>1. at \in DOMAIN lists
    <3>1. 1 \in DOMAIN lists
      BY DEF Leveled
    <3>2. \A q, x : Leads(lists, 1, q, x) => x \in DOMAIN lists
      BY <3>1, LeadsRules
    <3> QED BY <3>2
  <2>2. \A j \in DOMAIN lists[at].map : j \in Keys
    BY <2>1, HeapParts
  <2>3. \A j \in Keys : j \in DOMAIN lists[at].map <=>
          \E q \in Seq(Keys) : \E u : Says(h, q, u) /\ IsPrefix(Append(W, j), q)
    BY ListKeys
  <2>4. ASSUME NEW j \in keys PROVE j \in DOMAIN lists[at].map
    <3>1. PICK q, u : q \in Seq(Keys) /\ Says(h, q, u) /\ q # W /\ IsPrefix(W, q) /\ j = q[Len(W) + 1]
      BY <1>4, <2>4
    <3>2. j \in Keys /\ IsPrefix(Append(W, j), q)
      BY <3>1, KeyAfter
    <3> QED BY <2>3, <3>1, <3>2
  <2>5. ASSUME NEW j \in DOMAIN lists[at].map PROVE j \in keys
    <3>1. j \in Keys
      BY <2>2, <2>5
    <3>2. PICK q, u : q \in Seq(Keys) /\ Says(h, q, u) /\ IsPrefix(Append(W, j), q)
      BY <2>3, <2>5, <3>1
    <3>3. q[Len(W) + 1] = j /\ IsPrefix(W, q) /\ q # W
      BY <3>1, <3>2, KeyAfter
    <3> QED BY <1>4, <3>2, <3>3
  <2> QED BY <2>4, <2>5
<1>6. PICK R, over : R = Append(W, k) /\ over = {Leaf(R, v)}
  OBVIOUS
<1>7. ListSays(S, W, index, v) = LeafOver(kept, over)
  BY <1>3, <1>5, <1>6
<1>8. R \in Seq(Keys)
  BY <1>6
<1>9. LeafSet(over) /\ \A p, u : Leaf(p, u) \in over <=> p = R /\ u = v
  <2>1. /\ LeafSet({Leaf(R, v)})
        /\ \A p, u : Leaf(p, u) \in {Leaf(R, v)} <=> p = R /\ u = v
    BY <1>8, OneLeaf
  <2> QED BY <1>6, <2>1
<1>10. HasElement(g, h, W, R, v)
  <2>1. PICK node : node = Scalar(v)
    OBVIOUS
  <2>2. SetSaid(g, lists, R, node)
    BY <1>6, <2>1
  <2> QED BY <1>6, <2>1, <2>2, ElementSaid
<1>11. Leaves(g, 1) = LeafOver(kept, over)
  <2>1. /\ LeafSet(LeafOver(kept, over))
        /\ \A p \in Seq(Keys) : \A u : Leaf(p, u) \in LeafOver(kept, over) <=>
             \/ Leaf(p, u) \in over
             \/ /\ Leaf(p, u) \in kept
                /\ \A q \in Seq(Keys) : \A w : Leaf(q, w) \in over => ~IsPrefix(q, p) /\ ~IsPrefix(p, q)
    BY <1>2, <1>9, OverRules
  <2>2. \A p \in Seq(Keys) : \A u : Leaf(p, u) \in LeafOver(kept, over) <=> Says(g, p, u)
    <3> SUFFICES ASSUME NEW p \in Seq(Keys), NEW u
                 PROVE  Leaf(p, u) \in LeafOver(kept, over) <=> Says(g, p, u)
      OBVIOUS
    <3>1. (\A q \in Seq(Keys) : \A w : Leaf(q, w) \in over => ~IsPrefix(q, p) /\ ~IsPrefix(p, q))
            <=> ~IsPrefix(R, p) /\ ~IsPrefix(p, R)
      BY <1>8, <1>9
    <3> QED BY <1>2, <1>9, <1>10, <2>1, <3>1 DEF HasElement
  <2> QED BY <2>1, <2>2, SaidLeaves
<1>12. NoEmpty(g, P)
  <2> SUFFICES ASSUME NEW p \in Seq(Keys), Holds(g, p), Len(p) > Len(P)
               PROVE  \E q \in Seq(Keys) : \E u : IsPrefix(p, q) /\ Says(g, q, u)
    BY DEF NoEmpty
  <2>1. \A q \in Seq(Keys) : IsPrefix(q, R) <=> IsPrefix(q, W) \/ q = R
    BY <1>6, PrefixAppend
  <2>2. ~IsPrefix(R, p) /\ (Holds(h, p) \/ IsPrefix(p, W))
    BY <1>10 DEF HasElement
  <2>3. CASE IsPrefix(p, W)
    BY <1>8, <1>10, <2>1, <2>3 DEF HasElement
  <2>4. CASE ~IsPrefix(p, W)
    <3>1. PICK q, u : q \in Seq(Keys) /\ IsPrefix(p, q) /\ Says(h, q, u)
      BY <2>2, <2>4 DEF NoEmpty
    <3>2. p # R
      BY <1>8, <2>2, PrefixOrder
    <3>3. ~IsPrefix(p, R)
      BY <2>1, <2>4, <3>2
    <3>4. ~IsPrefix(q, R)
      BY <1>8, <3>1, <3>3, PrefixOrder
    <3>5. ~IsPrefix(R, q)
      BY <1>8, <2>2, <3>1, <3>3, PrefixOrder
    <3>6. q # W
      BY <2>4, <3>1
    <3> QED BY <1>10, <3>1, <3>4, <3>5, <3>6 DEF HasElement
  <2> QED BY <2>3, <2>4
<1> QED BY <1>7, <1>11, <1>12 DEF S
--------------------------------------------------------------------------------
(* What the start of a section says.                                       *)

\* A path with the same first key.
LEMMA ConsPrefix ==
  ASSUME NEW k \in Keys, NEW p \in Seq(Keys)
  PROVE  /\ \A q \in Seq(Keys) : IsPrefix(p, q) => IsPrefix(<<k>> \o p, <<k>> \o q)
         /\ \A r \in Seq(Keys) : IsPrefix(<<k>> \o p, r) =>
              \E q \in Seq(Keys) : r = <<k>> \o q /\ IsPrefix(p, q)
<1>1. ASSUME NEW q \in Seq(Keys), IsPrefix(p, q) PROVE IsPrefix(<<k>> \o p, <<k>> \o q)
  <2>1. PICK u \in Seq(Keys) : q = p \o u
    BY <1>1, PrefixConcat
  <2>2. PICK a, b : a = <<k>> \o p /\ b = <<k>> \o q
    OBVIOUS
  <2>3. a \in Seq(Keys) /\ b \in Seq(Keys)
    BY <2>2, ConsParts
  <2>4. b = a \o u
    BY <2>1, <2>2
  <2>5. IsPrefix(a, b)
    BY <2>3, <2>4, PrefixConcat
  <2> QED BY <2>2, <2>5
<1>2. ASSUME NEW r \in Seq(Keys), IsPrefix(<<k>> \o p, r)
      PROVE  \E q \in Seq(Keys) : r = <<k>> \o q /\ IsPrefix(p, q)
  <2>1. PICK a : a = <<k>> \o p
    OBVIOUS
  <2>2. a \in Seq(Keys)
    BY <2>1, ConsParts
  <2>3. PICK u \in Seq(Keys) : r = a \o u
    BY <1>2, <2>1, <2>2, PrefixConcat
  <2>4. PICK q : q = p \o u
    OBVIOUS
  <2>5. q \in Seq(Keys) /\ r = <<k>> \o q
    BY <2>1, <2>3, <2>4
  <2>6. IsPrefix(p, q)
    BY <2>4, <2>5, PrefixConcat
  <2> QED BY <2>5, <2>6
<1> QED BY <1>1, <1>2

\* If longer paths have leaves, what is in the sections has.
LEMMA SectionsFull ==
  ASSUME NEW h, NEW depth, Leveled(h, depth), NEW P, Len(P) \in {0, 1}, NoEmpty(h, P)
  PROVE  AllFull(h)
<1>0. 1 \in DOMAIN h
  BY DEF Leveled
<1> SUFFICES ASSUME NEW k \in DOMAIN h[1].map, h[h[1].map[k]].arr PROVE Full(h, h[1].map[k])
  BY DEF AllFull
<1>1. k \in Keys
  BY <1>0, HeapParts
<1> SUFFICES ASSUME NEW p \in Seq(Keys), Keeps(h, h[1].map[k], p), p # <<>>
             PROVE  \E q \in Seq(Keys) : \E v : IsPrefix(p, q) /\ Tells(h, h[1].map[k], q, v)
  BY DEF Full
<1>2. Holds(h, <<k>> \o p)
  BY ElementTells
<1>3. PICK r : r = <<k>> \o p
  OBVIOUS
<1>4. r \in Seq(Keys) /\ Len(r) = 1 + Len(p)
  BY <1>1, <1>3, ConsParts
<1>5. Len(r) > Len(P)
  <2>1. PICK n, m : n = Len(p) /\ m = Len(P)
    OBVIOUS
  <2>2. n \in Nat /\ n # 0 /\ m \in {0, 1}
    BY <2>1, EmptySeq, LenProperties
  <2>3. 1 + n > m
    BY <2>2
  <2> QED BY <1>4, <2>1, <2>3
<1>6. PICK s, u : s \in Seq(Keys) /\ IsPrefix(r, s) /\ Says(h, s, u)
  BY <1>2, <1>3, <1>4, <1>5 DEF NoEmpty
<1>7. PICK q \in Seq(Keys) : s = <<k>> \o q /\ IsPrefix(p, q)
  BY <1>1, <1>3, <1>6, ConsPrefix
<1>8. Tells(h, h[1].map[k], q, u)
  BY <1>6, <1>7, ElementTells
<1> QED BY <1>7, <1>8
\* The leaves G, from the key k on.
Keyed(G, k) == {Leaf(<<k>> \o l.path, l.val) : l \in G}

\* f is the function in SectionSays.
SaysGiven(S, name, parents, f) ==
  /\ IsGiven(f, S, parents)
  /\ SectionSays(S, name, parents) = {l \in S : l.path[1] # name} \cup Keyed(f[Len(parents)], name)

\* There is one.
LEMMA SectionGiven ==
  ASSUME NEW S, NEW name, NEW parents \in Seq(Keys)
  PROVE  \E f : SaysGiven(S, name, parents, f)
<1> DEFINE n     == Len(parents)
           Is(f) == f = [i \in 0 .. n |-> IF i = 0 THEN {}
                                          ELSE LeafOver(f[i - 1], Sub(S, parents[n + 1 - i]))]
           given == CHOOSE f : Is(f)
<1>1. SectionSays(S, name, parents) =
        {l \in S : l.path[1] # name} \cup Keyed(given[n], name)
  BY DEF SectionSays, Keyed
<1>2. \A f : Is(f) <=> IsGiven(f, S, parents)
  BY DEF IsGiven
<1> HIDE DEF Is
<1>3. \E f : Is(f)
  BY <1>2, GivenRuns
<1>4. Is(given)
  BY <1>3, Zenon
<1> HIDE DEF given
<1> QED BY <1>1, <1>2, <1>4 DEF SaysGiven

\* The leaves from a key on.
LEMMA KeyedLeaves ==
  ASSUME NEW G, LeafSet(G), NEW k \in Keys, NEW T, T = Keyed(G, k)
  PROVE  /\ LeafSet(T)
         /\ \A q \in Seq(Keys) : \A v : Leaf(<<k>> \o q, v) \in T <=> Leaf(q, v) \in G
         /\ \A j \in Keys, q \in Seq(Keys) : \A v : Leaf(<<j>> \o q, v) \in T => j = k
<1>1. ASSUME NEW t \in T
      PROVE  \E q \in Seq(Keys) : \E v : t = Leaf(<<k>> \o q, v) /\ Leaf(q, v) \in G
  <2>1. PICK l \in G : t = Leaf(<<k>> \o l.path, l.val)
    BY <1>1 DEF Keyed
  <2>2. PICK q, v : q \in Seq(Keys) /\ l = Leaf(q, v)
    BY DEF LeafSet
  <2>3. l.path = q /\ l.val = v
    BY <2>2 DEF Leaf
  <2> QED BY <2>1, <2>2, <2>3
<1>2. ASSUME NEW q \in Seq(Keys), NEW v, Leaf(q, v) \in G
      PROVE  Leaf(<<k>> \o q, v) \in T
  <2>1. Leaf(q, v).path = q /\ Leaf(q, v).val = v
    BY DEF Leaf
  <2> QED BY <1>2, <2>1 DEF Keyed
<1>3. \A j \in Keys, q \in Seq(Keys) : /\ <<j>> \o q \in Seq(Keys) /\ (<<j>> \o q)[1] = j
                                       /\ Tail(<<j>> \o q) = q
  <2> SUFFICES ASSUME NEW j \in Keys, NEW q \in Seq(Keys)
               PROVE  <<j>> \o q \in Seq(Keys) /\ (<<j>> \o q)[1] = j /\ Tail(<<j>> \o q) = q
    OBVIOUS
  <2>1. PICK r : r = <<j>> \o q
    OBVIOUS
  <2>2. r \in Seq(Keys) /\ r[1] = j /\ Tail(r) = q
    BY <2>1, ConsParts
  <2> QED BY <2>1, <2>2
<1>4. \A p, q, u, v : Leaf(p, u) = Leaf(q, v) => p = q /\ u = v
  BY SameLeaves
<1>5. LeafSet(T)
  <2> SUFFICES ASSUME NEW t \in T PROVE \E p \in Seq(Keys) : \E v : t = Leaf(p, v)
    BY DEF LeafSet
  <2>1. PICK q, v : q \in Seq(Keys) /\ t = Leaf(<<k>> \o q, v)
    BY <1>1
  <2> QED BY <1>3, <2>1
<1>6. ASSUME NEW j \in Keys, NEW q \in Seq(Keys), NEW v, Leaf(<<j>> \o q, v) \in T
      PROVE  j = k /\ Leaf(q, v) \in G
  <2>1. PICK s, u : s \in Seq(Keys) /\ Leaf(<<j>> \o q, v) = Leaf(<<k>> \o s, u) /\ Leaf(s, u) \in G
    BY <1>1, <1>6
  <2>2. PICK a, b : a = <<j>> \o q /\ b = <<k>> \o s
    OBVIOUS
  <2>3. a = b /\ v = u
    <3>1. Leaf(a, v) = Leaf(b, u)
      BY <2>1, <2>2
    <3> QED BY <1>4, <3>1
  <2>4. a[1] = j /\ b[1] = k /\ Tail(a) = q /\ Tail(b) = s
    BY <1>3, <2>1, <2>2
  <2> QED BY <2>1, <2>3, <2>4
<1> QED BY <1>2, <1>5, <1>6

\* What the start of a section says is what it makes.
LEMMA SectionSaid ==
  ASSUME NEW h, NEW depth, Leveled(h, depth), NEW g, NEW level, Leveled(g, level),
         NEW name \in Keys, NEW parents \in Seq(Keys), NEW z,
         IsSection(h, g, name, parents, z), AllFull(h)
  PROVE  /\ Leaves(g, 1) = SectionSays(Leaves(h, 1), name, parents)
         /\ NoEmpty(g, <<name>>)
<1> DEFINE S == Leaves(h, 1)
<1>0. /\ 1 \in DOMAIN h /\ 1 \in DOMAIN g /\ z \in DOMAIN g
      /\ DOMAIN g[1].map = DOMAIN h[1].map \cup {name} /\ g[1].map[name] = z
      /\ Full(g, z) /\ \A f : IsGiven(f, Leaves(h, 1), parents) => Leaves(g, z) = f[Len(parents)]
  BY DEF IsSection, Leveled
<1>1. LeafSet(S) /\ \A p, u : Leaf(p, u) \in S <=> Says(h, p, u)
  BY LeavesSay
<1>2. PICK f : SaysGiven(S, name, parents, f)
  BY SectionGiven
<1>3. PICK G : G = Leaves(g, z)
  OBVIOUS
<1>4. G = f[Len(parents)]
  BY <1>0, <1>2, <1>3 DEF SaysGiven
<1>5. LeafSet(G) /\ \A p, u : Leaf(p, u) \in G <=> Tells(g, z, p, u)
  BY <1>0, <1>3, LeavesTell
<1>6. PICK T : T = Keyed(G, name)
  OBVIOUS
<1>7. /\ LeafSet(T)
      /\ \A q \in Seq(Keys) : \A v : Leaf(<<name>> \o q, v) \in T <=> Leaf(q, v) \in G
      /\ \A j \in Keys, q \in Seq(Keys) : \A v : Leaf(<<j>> \o q, v) \in T => j = name
  BY <1>5, <1>6, KeyedLeaves
<1>8. PICK U : U = {l \in S : l.path[1] # name}
  OBVIOUS
<1>9. SectionSays(S, name, parents) = U \cup T
  BY <1>2, <1>4, <1>6, <1>8 DEF SaysGiven
<1>10. LeafSet(U) /\ \A p, u : Leaf(p, u) \in U <=> Says(h, p, u) /\ p[1] # name
  <2>1. LeafSet(U)
    BY <1>1, <1>8 DEF LeafSet
  <2>2. \A p, u : Leaf(p, u).path = p
    BY DEF Leaf
  <2> QED BY <1>1, <1>8, <2>1, <2>2
<1>11. LeafSet(U \cup T)
  BY <1>7, <1>10 DEF LeafSet
<1> HIDE DEF S
<1>12. ASSUME NEW j \in Keys, NEW q \in Seq(Keys), NEW u
       PROVE  Leaf(<<j>> \o q, u) \in U \cup T <=> Says(g, <<j>> \o q, u)
  <2>0. PICK r : r = <<j>> \o q
    OBVIOUS
  <2>1. r \in Seq(Keys) /\ r[1] = j
    BY <2>0, ConsParts
  <2>2. Says(g, r, u) => j \in DOMAIN g[1].map
    BY <1>0, <2>0, LeadsFirst DEF Says
  <2>3. Says(h, r, u) => j \in DOMAIN h[1].map
    BY <1>0, <2>0, LeadsFirst DEF Says
  <2>4. CASE j = name
    <3>1. Leaf(r, u) \in U \cup T <=> Leaf(q, u) \in G
      BY <1>7, <1>10, <2>0, <2>1, <2>4
    <3>2. Says(g, r, u) <=> Tells(g, z, q, u)
      BY <1>0, <2>0, <2>4, ElementTells
    <3> QED BY <1>5, <2>0, <3>1, <3>2
  <2>5. CASE j # name
    <3>1. Leaf(r, u) \in U \cup T <=> Says(h, r, u)
      BY <1>7, <1>10, <2>0, <2>1, <2>5
    <3>2. CASE j \in DOMAIN h[1].map
      <4>1. PICK x : x = h[1].map[j]
        OBVIOUS
      <4>2. g[1].map[j] = x /\ Leaves(g, x) = Leaves(h, x) /\ j \in DOMAIN g[1].map
        BY <2>5, <3>2, <4>1, SectionKeeps
      <4>3. x \in DOMAIN h /\ x \in DOMAIN g
        BY <1>0, <3>2, <4>1, <4>2 DEF Leveled
      <4>4. Says(g, r, u) <=> Tells(g, x, q, u)
        BY <2>0, <4>2, ElementTells
      <4>5. Says(h, r, u) <=> Tells(h, x, q, u)
        BY <2>0, <3>2, <4>1, ElementTells
      <4>6. Leaf(q, u) \in Leaves(g, x) <=> Tells(g, x, q, u)
        BY <4>3, LeavesTell
      <4>7. Leaf(q, u) \in Leaves(h, x) <=> Tells(h, x, q, u)
        BY <4>3, LeavesTell
      <4> QED BY <2>0, <3>1, <4>2, <4>4, <4>5, <4>6, <4>7
    <3>3. CASE j \notin DOMAIN h[1].map
      BY <1>0, <2>0, <2>2, <2>3, <2>5, <3>1, <3>3
    <3> QED BY <3>2, <3>3
  <2> QED BY <2>4, <2>5
<1>13. ASSUME NEW p \in Seq(Keys), NEW u
       PROVE  Leaf(p, u) \in U \cup T <=> Says(g, p, u)
  <2>1. CASE p = <<>>
    <3>1. ~Says(g, <<>>, u) /\ ~Says(h, <<>>, u)
      <4>1. Holds(g, <<>>) /\ \A q, v : Says(g, q, v) => ~Holds(g, q)
        BY SaysRules
      <4>2. Holds(h, <<>>) /\ \A q, v : Says(h, q, v) => ~Holds(h, q)
        BY SaysRules
      <4> QED BY <4>1, <4>2
    <3>2. Leaf(<<>>, u) \notin T
      <4>1. SUFFICES ASSUME Leaf(<<>>, u) \in T PROVE FALSE
        OBVIOUS
      <4>2. PICK l \in G : Leaf(<<>>, u) = Leaf(<<name>> \o l.path, l.val)
        BY <1>6, <4>1 DEF Keyed
      <4>3. PICK q, v : q \in Seq(Keys) /\ l = Leaf(q, v)
        BY <1>5 DEF LeafSet
      <4>4. l.path = q
        BY <4>3 DEF Leaf
      <4>5. PICK r : r = <<name>> \o q
        OBVIOUS
      <4>6. r # <<>>
        BY <4>5, ConsParts
      <4>7. r = <<>>
        BY <4>2, <4>4, <4>5, SameLeaves
      <4> QED BY <4>6, <4>7
    <3> QED BY <1>10, <2>1, <3>1, <3>2
  <2>2. CASE p # <<>>
    <3>1. PICK j \in Keys, q \in Seq(Keys) : p = <<j>> \o q
      BY <2>2, FirstKey
    <3> QED BY <1>12, <3>1
  <2> QED BY <2>1, <2>2
<1>14. Leaves(g, 1) = U \cup T
  BY <1>11, <1>13, SaidLeaves
<1>15. NoEmpty(g, <<name>>)
  <2> SUFFICES ASSUME NEW p \in Seq(Keys), Holds(g, p), Len(p) > Len(<<name>>)
               PROVE  \E q \in Seq(Keys) : \E u : IsPrefix(p, q) /\ Says(g, q, u)
    BY DEF NoEmpty
  <2>1. Len(p) > 1
    OBVIOUS
  <2>2. p # <<>>
    BY <2>1
  <2>3. PICK j \in Keys, q \in Seq(Keys) : p = <<j>> \o q
    BY <2>2, FirstKey
  <2>4. Len(p) = 1 + Len(q)
    BY <2>3, ConsParts
  <2>5. q # <<>>
    <3>1. q = <<>> => Len(q) = 0
      OBVIOUS
    <3> QED BY <2>1, <2>4, <3>1
  <2>6. j \in DOMAIN g[1].map
    <3>1. PICK x : Leads(g, 1, <<j>> \o q, x)
      BY <2>3 DEF Holds
    <3> QED BY <1>0, <3>1, LeadsFirst
  <2>7. PICK x : x = g[1].map[j]
    OBVIOUS
  <2>8. Keeps(g, x, q) /\ \A s \in Seq(Keys) : \A u : Says(g, <<j>> \o s, u) <=> Tells(g, x, s, u)
    BY <2>3, <2>6, <2>7, ElementTells
  <2>9. Full(g, x)
    <3>1. CASE j = name
      BY <1>0, <2>7, <3>1
    <3>2. CASE j # name
      <4>1. j \in DOMAIN h[1].map
        BY <1>0, <2>6, <3>2
      <4>2. x = h[1].map[j] /\ g[x] = h[x] /\ (Full(g, x) <=> Full(h, x))
        BY <2>7, <3>2, <4>1, SectionKeeps
      <4>3. g[x].arr
        <5>1. x \in DOMAIN g
          BY <1>0, <2>6, <2>7 DEF Leveled
        <5>2. <<>> \in Seq(Keys) /\ IsPrefix(<<>>, q)
          BY PrefixOrder
        <5>3. Keeps(g, x, <<>>)
          BY <2>5, <2>8, <5>1, <5>2, TellsRules
        <5> QED BY <5>1, <5>3, LeadsRules DEF Keeps
      <4>4. Full(h, x)
        BY <4>1, <4>2, <4>3 DEF AllFull
      <4> QED BY <4>2, <4>4
    <3> QED BY <3>1, <3>2
  <2>10. PICK s, u : s \in Seq(Keys) /\ IsPrefix(q, s) /\ Tells(g, x, s, u)
    BY <2>5, <2>8, <2>9 DEF Full
  <2>11. PICK t : t = <<j>> \o s
    OBVIOUS
  <2>12. t \in Seq(Keys) /\ IsPrefix(p, t) /\ Says(g, t, u)
    BY <2>3, <2>8, <2>10, <2>11, ConsParts, ConsPrefix
  <2> QED BY <2>12
<1> QED BY <1>9, <1>14, <1>15 DEF S
--------------------------------------------------------------------------------
(* The file as it is read, line by line.                                   *)

\* Before the first line.
Unread == [said |-> {}, in |-> <<>>]

\* f is what the first i lines make, for each i.
IsRead(f, lines) ==
  f = [i \in 0 .. Len(lines) |-> IF i = 0 THEN Unread ELSE LineSays(f[i - 1], lines[i], i)]

\* What all of them make.
ReadOf(lines) == (CHOOSE f : IsRead(f, lines))[Len(lines)]

\* There is such a function, whatever a line makes of what was said before.
LEMMA ReadRuns ==
  ASSUME NEW lines \in Seq(Directives)
  PROVE  \E f : IsRead(f, lines)
<1> DEFINE n == Len(lines)
           Upto(m, f) == f = [i \in 0 .. m |-> IF i = 0 THEN Unread ELSE LineSays(f[i - 1], lines[i], i)]
           T == {m \in 0 .. n : \E f : Upto(m, f)}
<1>0. n \in Nat
  BY LenProperties
<1>1. 0 \in T
  <2> DEFINE g == [i \in 0 .. 0 |-> Unread]
  <2>1. \A i \in 0 .. 0 : i = 0 /\ g[i] = Unread
    OBVIOUS
  <2>2. g = [i \in 0 .. 0 |-> IF i = 0 THEN Unread ELSE LineSays(g[i - 1], lines[i], i)]
    BY <2>1
  <2> HIDE DEF g
  <2>3. Upto(0, g)
    BY <2>2
  <2>4. 0 \in 0 .. n
    BY <1>0
  <2> HIDE DEF Upto, n
  <2> QED BY <2>3, <2>4
<1>2. ASSUME NEW m \in 0 .. n - 1, m \in T PROVE m + 1 \in T
  <2>1. PICK f : Upto(m, f)
    <3> HIDE DEF Upto
    <3> QED BY <1>2
  <2>a. PICK next : next = LineSays(f[m], lines[m + 1], m + 1)
    OBVIOUS
  <2> DEFINE g == [i \in 0 .. m + 1 |-> IF i = m + 1 THEN next ELSE f[i]]
  <2>2. /\ m \in 0 .. m /\ m + 1 \in 0 .. n
        /\ \A i \in 0 .. m + 1 : i = m + 1 \/ (i \in 0 .. m /\ i # m + 1)
    <3> HIDE DEF T, n
    <3> QED BY <1>0
  <2>3. \A i \in 0 .. m : f[i] = IF i = 0 THEN Unread ELSE LineSays(f[i - 1], lines[i], i)
    BY <2>1
  <2>4. \A i \in 0 .. m : g[i] = f[i] /\ (i # 0 => g[i - 1] = f[i - 1])
    OBVIOUS
  <2>5. m + 1 # 0 /\ (m + 1) - 1 = m
    BY <2>2
  <2>6. g[m + 1] = next /\ g[(m + 1) - 1] = f[m]
    BY <2>2, <2>4, <2>5
  <2>7. \A i \in 0 .. m + 1 : g[i] = IF i = 0 THEN Unread ELSE LineSays(g[i - 1], lines[i], i)
    <3> SUFFICES ASSUME NEW i \in 0 .. m + 1
                 PROVE  g[i] = IF i = 0 THEN Unread ELSE LineSays(g[i - 1], lines[i], i)
      OBVIOUS
    <3> HIDE DEF g
    <3>1. CASE i = m + 1
      <4>1. g[i] = next /\ g[i - 1] = f[m] /\ i # 0
        BY <2>5, <2>6, <3>1
      <4> QED BY <2>a, <3>1, <4>1
    <3>2. CASE i # m + 1
      BY <2>2, <2>3, <2>4, <3>2
    <3> QED BY <3>1, <3>2
  <2>8. Upto(m + 1, g)
    <3>1. g = [i \in 0 .. m + 1 |-> g[i]]
      OBVIOUS
    <3> HIDE DEF g
    <3> QED BY <2>7, <3>1
  <2> HIDE DEF Upto, g, n
  <2> QED BY <2>2, <2>8
<1>3. n \in T
  <2>1. \A i \in 0 .. n : i \in T
    <3> HIDE DEF T, n
    <3> QED BY <1>0, <1>1, <1>2, UpTo
  <2> HIDE DEF T, n
  <2> QED BY <1>0, <2>1
<1>4. PICK f : Upto(n, f)
  <2> HIDE DEF Upto, n
  <2> QED BY <1>3
<1> QED BY <1>4 DEF IsRead

\* What it is, line by line.
LEMMA ReadParts ==
  ASSUME NEW lines \in Seq(Directives)
  PROVE  \E f : /\ ReadOf(lines) = f[Len(lines)] /\ f[0] = Unread
                /\ \A i \in 1 .. Len(lines) : f[i] = LineSays(f[i - 1], lines[i], i)
<1> DEFINE f == CHOOSE f : IsRead(f, lines)
<1>1. IsRead(f, lines)
  <2>1. \E g : IsRead(g, lines)
    BY ReadRuns
  <2> QED BY <2>1, Zenon
<1>2. ReadOf(lines) = f[Len(lines)]
  BY DEF ReadOf
<1> HIDE DEF f
<1>3. Len(lines) \in Nat
  BY LenProperties
<1>4. \A i \in 0 .. Len(lines) : f[i] = IF i = 0 THEN Unread ELSE LineSays(f[i - 1], lines[i], i)
  BY <1>1 DEF IsRead
<1>5. 0 \in 0 .. Len(lines) /\ \A i \in 1 .. Len(lines) : i \in 0 .. Len(lines) /\ i # 0
  BY <1>3
<1>6. f[0] = Unread /\ \A i \in 1 .. Len(lines) : f[i] = LineSays(f[i - 1], lines[i], i)
  BY <1>4, <1>5
<1> QED BY <1>2, <1>6

\* No line, and a line more.
LEMMA ReadRules ==
  /\ ReadOf(<<>>) = Unread
  /\ \A lines \in Seq(Directives), d \in Directives :
       ReadOf(Append(lines, d)) = LineSays(ReadOf(lines), d, Len(lines) + 1)
  /\ \A lines \in Seq(Directives) : AsWritten(lines) = ReadOf(lines).said
<1>1. ReadOf(<<>>) = Unread
  <2>1. PICK s : s = <<>>
    OBVIOUS
  <2>2. s \in Seq(Directives) /\ Len(s) = 0
    BY <2>1
  <2>3. PICK f : ReadOf(s) = f[Len(s)] /\ f[0] = Unread
    BY <2>2, ReadParts
  <2> QED BY <2>1, <2>2, <2>3
<1>2. ASSUME NEW s \in Seq(Directives), NEW d \in Directives
      PROVE  ReadOf(Append(s, d)) = LineSays(ReadOf(s), d, Len(s) + 1)
  <2>1. PICK t, n : t = Append(s, d) /\ n = Len(s)
    OBVIOUS
  <2>2. /\ t \in Seq(Directives) /\ Len(t) = n + 1 /\ n \in Nat /\ t[n + 1] = d
        /\ \A i \in 1 .. n : t[i] = s[i]
    BY <2>1, AppendProperties, LenProperties
  <2>3. PICK f : /\ ReadOf(s) = f[n] /\ f[0] = Unread
                 /\ \A i \in 1 .. n : f[i] = LineSays(f[i - 1], s[i], i)
    BY <2>1, ReadParts
  <2>4. PICK g : /\ ReadOf(t) = g[n + 1] /\ g[0] = Unread
                 /\ \A i \in 1 .. n + 1 : g[i] = LineSays(g[i - 1], t[i], i)
    BY <2>2, ReadParts
  <2>5. f[n] = g[n]
    <3> DEFINE T == {i \in 0 .. n : f[i] = g[i]}
    <3>1. 0 \in T
      BY <2>2, <2>3, <2>4
    <3>2. ASSUME NEW i \in 0 .. n - 1, i \in T PROVE i + 1 \in T
      <4>1. f[i] = g[i]
        BY <3>2
      <4>2. PICK j : j = i + 1
        OBVIOUS
      <4>3. j \in 1 .. n /\ j - 1 = i /\ j \in 0 .. n /\ j \in 1 .. n + 1
        <5> HIDE DEF T
        <5> QED BY <2>2, <4>2
      <4>4. f[j] = LineSays(f[j - 1], s[j], j) /\ g[j] = LineSays(g[j - 1], t[j], j) /\ t[j] = s[j]
        BY <2>2, <2>3, <2>4, <4>3
      <4>5. f[j - 1] = g[j - 1]
        BY <4>1, <4>3
      <4>6. f[j] = g[j]
        BY <4>4, <4>5
      <4> QED BY <4>2, <4>3, <4>6
    <3>3. \A i \in 0 .. n : i \in T
      <4> HIDE DEF T
      <4> QED BY <2>2, <3>1, <3>2, UpTo
    <3> QED BY <2>2, <3>3
  <2>6. PICK m : m = n + 1
    OBVIOUS
  <2>7. m \in 1 .. n + 1 /\ m - 1 = n
    BY <2>2, <2>6
  <2>8. g[m] = LineSays(g[m - 1], t[m], m)
    BY <2>4, <2>7
  <2>9. g[m] = LineSays(g[n], d, m)
    BY <2>2, <2>6, <2>7, <2>8
  <2> QED BY <2>1, <2>3, <2>4, <2>5, <2>6, <2>9
<1>3. ASSUME NEW lines \in Seq(Directives) PROVE AsWritten(lines) = ReadOf(lines).said
  <2> DEFINE Is(f) == f = [i \in 0 .. Len(lines) |->
                             IF i = 0 THEN [said |-> {}, in |-> <<>>] ELSE LineSays(f[i - 1], lines[i], i)]
  <2>1. AsWritten(lines) = (CHOOSE f : Is(f))[Len(lines)].said
    BY DEF AsWritten
  <2>2. \A f : Is(f) <=> IsRead(f, lines)
    BY DEF IsRead, Unread
  <2>3. (CHOOSE f : Is(f)) = CHOOSE f : IsRead(f, lines)
    <3> HIDE DEF Is
    <3> QED BY <2>2, Zenon
  <2> HIDE DEF Is
  <2> QED BY <2>1, <2>3 DEF ReadOf
<1> QED BY <1>1, <1>2, <1>3
--------------------------------------------------------------------------------
(* What is read is what is written.                                        *)

\* The heap has what the lines read so far say, and P leads to the section they are in.
SaidAs(P) ==
  /\ ReadOf(file) = [said |-> Leaves(heap, 1), in |-> P]
  /\ InSection(P) /\ NoEmpty(heap, P)

\* What each kind of line makes of what was said.
LEMMA LineParts ==
  ASSUME NEW d \in Directives, NEW S, NEW P, NEW i, NEW r, r = [said |-> S, in |-> P]
  PROVE  /\ d.kind = "section" =>
              LineSays(r, d, i) = [said |-> SectionSays(S, d.name, d.parents), in |-> <<d.name>>]
         /\ d.kind = "entry" =>
              LineSays(r, d, i) =
                IF d.path = <<>> THEN r ELSE [said |-> EntrySays(S, P \o d.path, i), in |-> P]
         /\ d.kind = "list" =>
              LineSays(r, d, i) = [said |-> ListSays(S, P \o d.path, d.index, i), in |-> P]
<1>1. ASSUME d.kind = "section"
      PROVE  LineSays(r, d, i) = [said |-> SectionSays(S, d.name, d.parents), in |-> <<d.name>>]
  BY <1>1 DEF LineSays
<1>2. ASSUME d.kind = "entry", d.path = <<>>
      PROVE  LineSays(r, d, i) = r
  BY <1>2 DEF LineSays
<1>3. ASSUME d.kind = "entry", d.path # <<>>
      PROVE  LineSays(r, d, i) = [said |-> EntrySays(S, P \o d.path, i), in |-> P]
  <2>1. LineSays(r, d, i) = [r EXCEPT !.said = EntrySays(@, r.in \o d.path, i)]
    BY <1>3 DEF LineSays
  <2> QED BY <2>1
<1>4. ASSUME d.kind = "list"
      PROVE  LineSays(r, d, i) = [said |-> ListSays(S, P \o d.path, d.index, i), in |-> P]
  <2>1. LineSays(r, d, i) = [r EXCEPT !.said = ListSays(@, r.in \o d.path, d.index, i)]
    BY <1>4 DEF LineSays
  <2> QED BY <2>1
<1> QED BY <1>1, <1>2, <1>3, <1>4

\* A line more is read.
LEMMA ReadMore ==
  ASSUME IniTyped, NEW P, SaidAs(P), NEW d \in Directives, Line(d)
  PROVE  ReadOf(file') = LineSays([said |-> Leaves(heap, 1), in |-> P], d, Len(file) + 1)
<1>1. file \in Seq(Directives) /\ file' = Append(file, d)
  BY DEF IniTyped, Line
<1>2. ReadOf(Append(file, d)) = LineSays(ReadOf(file), d, Len(file) + 1)
  BY <1>1, ReadRules
<1> QED BY <1>1, <1>2 DEF SaidAs

\* A path that goes on is longer.
LEMMA Longer ==
  ASSUME NEW P \in Seq(Keys), NEW path \in Seq(Keys), path # <<>>
  PROVE  P \o path \in Seq(Keys) /\ Len(P \o path) > Len(P)
<1>1. PICK r, n, m : r = P \o path /\ n = Len(P) /\ m = Len(path)
  OBVIOUS
<1>2. r \in Seq(Keys) /\ Len(r) = n + m /\ n \in Nat /\ m \in Nat /\ m # 0
  BY <1>1, ConcatProperties, LenProperties, EmptySeq
<1>3. n + m > n
  BY <1>2
<1> QED BY <1>1, <1>2, <1>3

\* An entry.
LEMMA EntryRead ==
  ASSUME IniTyped, NEW P, SaidAs(P), NEW d \in Directives, Line(d), Entry(d)
  PROVE  SaidAs(P)'
<1>1. InSection(P) /\ NoEmpty(heap, P) /\ Len(file) < MaxLines
  BY DEF SaidAs, Line
<1>2. InSection(P)' /\ PutSaid(heap', heap, P \o d.path, Scalar(Len(file) + 1))
  BY <1>1, EntryStep
<1>3. PICK depth, level : Leveled(heap, depth) /\ Leveled(heap', level) /\ P \in Seq(Keys)
  BY <1>1, <1>2 DEF InSection, Shape
<1>4. d.path \in Seq(Keys) /\ d.kind = "entry"
  BY IniAssumption DEF Entry
<1>5. PICK g, v : g = heap' /\ v = Len(file) + 1
  OBVIOUS
<1>6. v \in Value
  BY <1>1, <1>5, LineValue
<1>7. Leveled(g, level) /\ PutSaid(g, heap, P \o d.path, Scalar(v))
  BY <1>2, <1>3, <1>5
<1>8. ReadOf(file') = LineSays([said |-> Leaves(heap, 1), in |-> P], d, v)
  BY <1>5, ReadMore
<1>9. CASE d.path = <<>>
  <2>1. ReadOf(file') = [said |-> Leaves(heap, 1), in |-> P]
    BY <1>4, <1>8, <1>9, LineParts
  <2>2. P \o d.path = P
    BY <1>3, <1>9
  <2>3. Holds(heap, P)
    BY <1>1 DEF InSection, Shape, Own, Holds
  <2>4. SameSaid(g, heap)
    BY <1>7, <2>2, <2>3 DEF PutSaid
  <2>5. Leaves(g, 1) = Leaves(heap, 1) /\ NoEmpty(g, P)
    BY <1>1, <1>3, <1>7, <2>4, SameSaidSame
  <2> QED BY <1>2, <1>5, <2>1, <2>5 DEF SaidAs
<1>10. CASE d.path # <<>>
  <2>1. ReadOf(file') = [said |-> EntrySays(Leaves(heap, 1), P \o d.path, v), in |-> P]
    BY <1>4, <1>8, <1>10, LineParts
  <2>2. PICK Q : Q = P \o d.path
    OBVIOUS
  <2>3. Q \in Seq(Keys) /\ Len(Q) > Len(P)
    BY <1>3, <1>4, <1>10, <2>2, Longer
  <2>4. PutSaid(g, heap, Q, Scalar(v))
    BY <1>7, <2>2
  <2>5. Leaves(g, 1) = EntrySays(Leaves(heap, 1), Q, v) /\ NoEmpty(g, P)
    BY <1>1, <1>3, <1>6, <1>7, <2>3, <2>4, EntrySaid
  <2> QED BY <1>2, <1>5, <2>1, <2>2, <2>5 DEF SaidAs
<1> QED BY <1>9, <1>10

\* A list entry, if nothing on its way is in two places.
LEMMA ListRead ==
  ASSUME IniTyped, NEW P, SaidAs(P), NEW d \in Directives, Line(d), List(d), fault' = "none", ~shared'
  PROVE  SaidAs(P)'
<1>1. InSection(P) /\ NoEmpty(heap, P) /\ Len(file) < MaxLines
  BY DEF SaidAs, Line
<1>2. /\ InSection(P)' /\ KeyOf(d) \in Keys /\ d.path # <<>> /\ ListSaid(d, P)
      /\ SetSaid(heap', ListsOf(d), Append(P \o d.path, KeyOf(d)), Scalar(Len(file) + 1))
  BY <1>1, ListStep
<1>3. PICK depth, level : Leveled(heap, depth) /\ Leveled(heap', level) /\ P \in Seq(Keys)
  BY <1>1, <1>2 DEF InSection, Shape
<1>4. d.path \in Seq(Keys) /\ d.kind = "list"
  BY IniAssumption DEF List
<1>5. PICK g, v, k, W, lists, at :
        /\ g = heap' /\ v = Len(file) + 1 /\ k = KeyOf(d) /\ W = P \o d.path
        /\ lists = ListsOf(d) /\ at = ListAt(d).at
  OBVIOUS
<1>6. v \in Value /\ k \in Keys
  BY <1>1, <1>2, <1>5, LineValue
<1>7. /\ \E deep : Leveled(lists, deep)
      /\ Leads(lists, 1, W, at) /\ PutSaid(lists, heap, W, Array)
  BY <1>2, <1>5 DEF ListSaid
<1>8. PICK deep : Leveled(lists, deep)
  BY <1>7
<1>9. k = IF d.index = Nil THEN NextIndex(DOMAIN lists[at].map) ELSE d.index
  BY <1>5 DEF KeyOf
<1>10. W \in Seq(Keys) /\ Len(W) > Len(P)
  BY <1>2, <1>3, <1>4, <1>5, Longer
<1>11. SetSaid(g, lists, Append(W, k), Scalar(v)) /\ Leveled(g, level)
  BY <1>2, <1>3, <1>5
<1>12. ReadOf(file') = LineSays([said |-> Leaves(heap, 1), in |-> P], d, v)
  BY <1>5, ReadMore
<1>13. ReadOf(file') = [said |-> ListSays(Leaves(heap, 1), W, d.index, v), in |-> P]
  BY <1>4, <1>5, <1>12, LineParts
<1>14. Leaves(g, 1) = ListSays(Leaves(heap, 1), W, d.index, v) /\ NoEmpty(g, P)
  BY <1>1, <1>3, <1>6, <1>7, <1>8, <1>9, <1>10, <1>11, ListSaidLeaves
<1> QED BY <1>2, <1>5, <1>13, <1>14 DEF SaidAs

\* The start of a section that is not over at once.
LEMMA SectionRead ==
  ASSUME IniTyped, NEW P, SaidAs(P), NEW d \in Directives, Line(d), Section(d), fault' = "none",
         ~Over(d.name)
  PROVE  /\ SaidAs(<<d.name>>)' /\ d.kind = "section"
         /\ flag' = IF wanted # Nil /\ Fold[wanted] = Fold[d.name] THEN "PROCESS" ELSE flag
<1>1. InSection(P) /\ NoEmpty(heap, P) /\ fault = "none"
  BY DEF SaidAs, Line
<1>2. /\ InSection(<<d.name>>)' /\ d.name \in Keys /\ d.parents \in Seq(Keys)
      /\ IsSection(heap, heap', d.name, d.parents, active')
      /\ flag' = IF wanted # Nil /\ Fold[wanted] = Fold[d.name] THEN "PROCESS" ELSE flag
  BY <1>1, SectionStep
<1>3. PICK depth : /\ Leveled(heap, depth) /\ P \in Seq(Keys) /\ Len(P) <= 1
                   /\ Begun \in DOMAIN heap /\ Own(heap, P, Begun) /\ heap[Begun].arr
  BY <1>1 DEF InSection, Shape
<1>4. PICK level : Leveled(heap', level)
  BY <1>2 DEF InSection, Shape
<1>5. d.kind = "section"
  BY DEF Section
<1>6. AllFull(heap)
  <2>1. Len(P) \in {0, 1}
    BY <1>3, ShapeParts
  <2> QED BY <1>1, <1>3, <2>1, SectionsFull
<1>7. PICK g, name, parents, z : g = heap' /\ name = d.name /\ parents = d.parents /\ z = active'
  OBVIOUS
<1>8. name \in Keys /\ parents \in Seq(Keys) /\ IsSection(heap, g, name, parents, z) /\ Leveled(g, level)
  BY <1>2, <1>4, <1>7
<1>9. Leaves(g, 1) = SectionSays(Leaves(heap, 1), name, parents) /\ NoEmpty(g, <<name>>)
  BY <1>3, <1>6, <1>8, SectionSaid
<1>10. ReadOf(file') = LineSays([said |-> Leaves(heap, 1), in |-> P], d, Len(file) + 1)
  BY ReadMore
<1>11. ReadOf(file') = [said |-> SectionSays(Leaves(heap, 1), name, parents), in |-> <<name>>]
  BY <1>5, <1>7, <1>10, LineParts
<1> QED BY <1>2, <1>5, <1>7, <1>9, <1>11 DEF SaidAs

\* Nothing is said before the first line.
LEMMA NothingSaid ==
  ASSUME IniInit
  PROVE  SaidAs(<<>>)
<1>1. heap = <<Array>> /\ file = <<>> /\ InSection(<<>>)
  BY IniStarts DEF IniInit
<1>2. PICK h : h = heap
  OBVIOUS
<1>3. PICK depth : Leveled(h, depth)
  BY <1>1, <1>2 DEF InSection, Shape
<1>4. 1 \in DOMAIN h /\ DOMAIN h[1].map = {} /\ h[1].arr
  BY <1>1, <1>2, NewZvals
<1>5. ASSUME NEW p \in Seq(Keys), NEW x, Leads(h, 1, p, x) PROVE p = <<>> /\ x = 1
  <2>1. p = <<>>
    <3> SUFFICES ASSUME p # <<>> PROVE FALSE
      OBVIOUS
    <3>1. PICK k \in Keys, q \in Seq(Keys) : p = <<k>> \o q
      BY FirstKey
    <3>2. Leads(h, 1, <<k>> \o q, x)
      BY <1>5, <3>1
    <3> QED BY <1>3, <1>4, <3>2, LeadsFirst
  <2>2. \A y : Leads(h, 1, <<>>, y) => y = 1
    BY <1>3, <1>4, LeadsRules
  <2> QED BY <1>5, <2>1, <2>2
<1>6. \A p \in Seq(Keys) : \A u : ~Says(h, p, u)
  BY <1>4, <1>5 DEF Says
<1>7. Leaves(h, 1) = {}
  <2>1. PICK S : S = {}
    OBVIOUS
  <2>2. LeafSet(S) /\ \A p \in Seq(Keys) : \A v : Leaf(p, v) \in S <=> Says(h, p, v)
    BY <1>6, <2>1 DEF LeafSet
  <2>3. Leaves(h, 1) = S
    BY <1>3, <2>2, SaidLeaves
  <2> QED BY <2>1, <2>3
<1>8. NoEmpty(h, <<>>)
  <2> SUFFICES ASSUME NEW p \in Seq(Keys), Holds(h, p), Len(p) > Len(<<>>) PROVE FALSE
    BY DEF NoEmpty
  <2>1. p = <<>>
    BY <1>5 DEF Holds
  <2> QED BY <2>1
<1>9. ReadOf(file) = [said |-> {}, in |-> <<>>]
  BY <1>1, ReadRules DEF Unread
<1> QED BY <1>1, <1>2, <1>7, <1>8, <1>9 DEF SaidAs
\* In the lines s a section starts at i; one that is asked for, as w, but for case; the
\* first of these; the next that starts after b.
Starts(s, i)    == i \in DOMAIN s /\ s[i].kind = "section"
Asked(s, w, i)  == Starts(s, i) /\ Fold[s[i].name] = Fold[w]
Opens(s, w, b)  == Asked(s, w, b) /\ \A i : Asked(s, w, i) => b <= i
Closes(s, b, e) == Starts(s, e) /\ b < e /\ \A i : Starts(s, i) /\ b < i => e <= i

\* The second inductive invariant, what has been read when: up to the section asked for
\* and in it, all the lines; after it, those before its end.
IniRead ==
  fault = "none" /\ ~shared =>
    /\ flag = "START" =>
         /\ \E P : SaidAs(P)
         /\ wanted # Nil => \A i : ~Asked(file, wanted, i)
    /\ flag = "PROCESS" =>
         /\ wanted # Nil
         /\ \E b : /\ Opens(file, wanted, b) /\ \A i : Starts(file, i) => i <= b
                   /\ SaidAs(<<file[b].name>>)
    /\ flag = "END" =>
         /\ wanted # Nil
         /\ \E b, e : /\ Opens(file, wanted, b) /\ Closes(file, b, e)
                      /\ Leaves(heap, 1) = AsWritten(SubSeq(file, 1, e - 1))
                      /\ Holds(heap, <<file[b].name>>)

\* The lines t are s and d, the n-th.
IsMore(s, d, t, n) ==
  /\ n \in Nat /\ t[n] = d /\ \A i \in DOMAIN s : t[i] = s[i] /\ i \in Nat /\ i < n
  /\ \A i : Starts(t, i) <=> Starts(s, i) \/ (i = n /\ d.kind = "section")
  /\ \A w, i : Asked(t, w, i) <=>
       Asked(s, w, i) \/ (i = n /\ d.kind = "section" /\ Fold[d.name] = Fold[w])
  /\ SubSeq(t, 1, n - 1) = s
  /\ \A e \in DOMAIN s : SubSeq(t, 1, e - 1) = SubSeq(s, 1, e - 1)

\* A line more.
LEMMA LineMore ==
  ASSUME NEW s \in Seq(Directives), NEW d \in Directives, NEW t, t = Append(s, d),
         NEW n, n = Len(s) + 1
  PROVE  IsMore(s, d, t, n)
<1>1. PICK m : m = Len(s)
  OBVIOUS
<1>2. /\ m \in Nat /\ n = m + 1 /\ DOMAIN s = 1 .. m /\ t \in Seq(Directives) /\ Len(t) = m + 1
      /\ t[m + 1] = d /\ \A i \in 1 .. m : t[i] = s[i]
  BY <1>1, AppendProperties, LenProperties
<1>3. DOMAIN t = 1 .. m + 1
  BY <1>2, LenProperties
<1>4. /\ n \in Nat /\ t[n] = d /\ \A i \in DOMAIN s : t[i] = s[i] /\ i \in Nat /\ i < n /\ i # n
      /\ \A i : i \in DOMAIN t <=> i \in DOMAIN s \/ i = n
  BY <1>2, <1>3
<1>5. \A i : Starts(t, i) <=> Starts(s, i) \/ (i = n /\ d.kind = "section")
  BY <1>4 DEF Starts
<1>6. \A w, i : Asked(t, w, i) <=>
        Asked(s, w, i) \/ (i = n /\ d.kind = "section" /\ Fold[d.name] = Fold[w])
  <2> SUFFICES ASSUME NEW w, NEW i
               PROVE  Asked(t, w, i) <=>
                        Asked(s, w, i) \/ (i = n /\ d.kind = "section" /\ Fold[d.name] = Fold[w])
    OBVIOUS
  <2>1. CASE i = n
    <3>1. ~Starts(s, i)
      BY <1>4, <2>1 DEF Starts
    <3> QED BY <1>4, <1>5, <2>1, <3>1 DEF Asked
  <2>2. CASE i # n
    <3>1. Starts(s, i) => t[i] = s[i]
      BY <1>4 DEF Starts
    <3> QED BY <1>5, <2>2, <3>1 DEF Asked
  <2> QED BY <2>1, <2>2
<1>7. SubSeq(t, 1, n - 1) = s
  <2>1. \A i \in 1 .. m : i \in 1 .. m + 1 /\ 1 + i - 1 = i
    BY <1>2
  <2>2. m <= m + 1 /\ n - 1 = m
    BY <1>2
  <2>3. PICK r : r = SubSeq(t, 1, m)
    OBVIOUS
  <2>4. r \in Seq(Directives) /\ Len(r) = m /\ \A i \in 1 .. m : r[i] = t[i]
    BY <1>2, <2>1, <2>2, <2>3, SubSeqProperties
  <2>5. r = s
    BY <1>1, <1>2, <2>4, SeqEqual
  <2> QED BY <2>2, <2>3, <2>5
<1>8. ASSUME NEW e \in DOMAIN s PROVE SubSeq(t, 1, e - 1) = SubSeq(s, 1, e - 1)
  <2>1. PICK j : j = e - 1
    OBVIOUS
  <2>2. j \in Nat /\ j <= m /\ j <= m + 1 /\ \A i \in 1 .. j : i \in 1 .. m
    BY <1>2, <1>8, <2>1
  <2>3. PICK r, u : r = SubSeq(t, 1, j) /\ u = SubSeq(s, 1, j)
    OBVIOUS
  <2>4. r \in Seq(Directives) /\ Len(r) = j /\ \A i \in 1 .. j : r[i] = t[i]
    BY <1>2, <2>2, <2>3, SubSeqProperties
  <2>5. u \in Seq(Directives) /\ Len(u) = j /\ \A i \in 1 .. j : u[i] = s[i]
    BY <1>1, <1>2, <2>2, <2>3, SubSeqProperties
  <2>6. r = u
    BY <1>2, <2>2, <2>4, <2>5, SeqEqual
  <2> QED BY <2>1, <2>3, <2>6
<1> QED BY <1>4, <1>5, <1>6, <1>7, <1>8 DEF IsMore

\* The reader starts with nothing read.
LEMMA ReadStarts ==
  ASSUME IniInit
  PROVE  IniRead
<1>1. SaidAs(<<>>) /\ flag = "START" /\ file = <<>>
  BY NothingSaid DEF IniInit
<1>2. \A i : ~Asked(file, wanted, i)
  BY <1>1 DEF Asked, Starts
<1> QED BY <1>1, <1>2 DEF IniRead
\* After an entry or a list entry the reader is where it was.
LEMMA ReadOnInSection ==
  ASSUME IniTyped, NEW d \in Directives, Line(d), d.kind # "section", flag # "END", flag' = flag,
         fault = "none", ~shared, IniRead, \A P : SaidAs(P) => SaidAs(P)'
  PROVE  IniRead'
<1>1. file \in Seq(Directives) /\ file' = Append(file, d) /\ wanted' = wanted
  BY DEF IniTyped, Line
<1>2. PICK t, n : t = file' /\ n = Len(file) + 1
  OBVIOUS
<1>3. /\ \A i \in DOMAIN file : t[i] = file[i]
      /\ \A i : Starts(t, i) <=> Starts(file, i)
      /\ \A w, i : Asked(t, w, i) <=> Asked(file, w, i)
  <2>1. t = Append(file, d)
    BY <1>1, <1>2
  <2>2. IsMore(file, d, t, n)
    BY <1>1, <1>2, <2>1, LineMore
  <2> QED BY <1>1, <2>2 DEF IsMore
<1>4. \A w, b : Opens(t, w, b) <=> Opens(file, w, b)
  BY <1>3 DEF Opens
<1>5. CASE flag = "START"
  <2>1. (\E P : SaidAs(P)) /\ (wanted # Nil => \A i : ~Asked(file, wanted, i))
    BY <1>5 DEF IniRead
  <2>2. \E P : SaidAs(P)'
    BY <2>1
  <2>3. wanted # Nil => \A i : ~Asked(t, wanted, i)
    BY <1>3, <2>1
  <2> QED BY <1>1, <1>2, <1>5, <2>2, <2>3 DEF IniRead
<1>6. CASE flag = "PROCESS"
  <2>1. PICK b : /\ Opens(file, wanted, b) /\ \A i : Starts(file, i) => i <= b
                 /\ SaidAs(<<file[b].name>>)
    BY <1>6 DEF IniRead
  <2>2. b \in DOMAIN file
    BY <2>1 DEF Opens, Asked, Starts
  <2>3. t[b].name = file[b].name
    BY <1>3, <2>2
  <2>4. PICK P : P = <<file[b].name>>
    OBVIOUS
  <2>5. SaidAs(P)'
    BY <2>1, <2>4
  <2>6. SaidAs(<<file[b].name>>)'
    <3>1. P' = <<file[b].name>>'
      BY <1>2, <2>3, <2>4
    <3> QED BY <1>2, <2>3, <2>4, <2>5 DEF SaidAs
  <2>7. Opens(t, wanted, b) /\ \A i : Starts(t, i) => i <= b
    BY <1>3, <1>4, <2>1
  <2>8. wanted # Nil
    BY <1>6 DEF IniRead
  <2> QED BY <1>1, <1>2, <1>6, <2>6, <2>7, <2>8 DEF IniRead
<1> QED BY <1>5, <1>6 DEF IniTyped

\* The start of a section.
LEMMA ReadOnToSection ==
  ASSUME IniTyped, NEW d \in Directives, Line(d), Section(d), flag # "END",
         fault = "none", ~shared, fault' = "none", IniRead
  PROVE  IniRead'
<1>1. file \in Seq(Directives) /\ file' = Append(file, d) /\ wanted' = wanted /\ d.kind = "section"
  BY DEF IniTyped, Line, Section
<1>2. PICK t, n : t = file' /\ n = Len(file) + 1
  OBVIOUS
<1>3. /\ n \in Nat /\ t[n] = d /\ \A i \in DOMAIN file : t[i] = file[i] /\ i \in Nat /\ i < n
      /\ \A i : Starts(t, i) <=> Starts(file, i) \/ i = n
      /\ \A w, i : Asked(t, w, i) <=> Asked(file, w, i) \/ (i = n /\ Fold[d.name] = Fold[w])
      /\ SubSeq(t, 1, n - 1) = file
  <2>1. t = Append(file, d)
    BY <1>1, <1>2
  <2>2. IsMore(file, d, t, n)
    BY <1>1, <1>2, <2>1, LineMore
  <2> QED BY <1>1, <2>2 DEF IsMore
<1>4. CASE Over(d.name)
  <2>0. flag = "PROCESS" /\ wanted # Nil
    BY <1>4 DEF Over, IniRead
  <2>1. PICK b : /\ Opens(file, wanted, b) /\ \A i : Starts(file, i) => i <= b
                 /\ SaidAs(<<file[b].name>>)
    BY <2>0 DEF IniRead
  <2>2. UNCHANGED heap /\ flag' = "END"
    BY <1>4 DEF Section
  <2>3. b \in DOMAIN file /\ b \in Nat /\ b < n /\ t[b] = file[b]
    BY <1>3, <2>1 DEF Opens, Asked, Starts
  <2>4. Opens(t, wanted, b)
    BY <1>3, <2>1, <2>3 DEF Opens
  <2>5. Closes(t, b, n)
    <3>1. ASSUME NEW i, Starts(t, i), b < i PROVE n <= i
      <4>1. i \in DOMAIN file => i \in Nat
        BY <1>3
      <4>2. CASE Starts(file, i)
        <5>1. i \in DOMAIN file /\ i <= b
          BY <2>1, <4>2 DEF Starts
        <5> QED BY <2>3, <3>1, <4>1, <5>1
      <4> QED BY <1>3, <3>1, <4>2
    <3> QED BY <1>3, <2>3, <3>1 DEF Closes
  <2>6. Leaves(heap, 1) = AsWritten(SubSeq(t, 1, n - 1))
    <3>1. AsWritten(file) = ReadOf(file).said
      BY <1>1, ReadRules
    <3>2. ReadOf(file).said = Leaves(heap, 1)
      BY <2>1 DEF SaidAs
    <3> QED BY <1>3, <3>1, <3>2
  <2>7. Holds(heap, <<t[b].name>>)
    BY <2>1, <2>3 DEF SaidAs, InSection, Shape, Own, Holds
  <2>8. /\ Leaves(heap', 1) = AsWritten(SubSeq(t, 1, n - 1))
        /\ Holds(heap', <<t[b].name>>)
    BY <2>2, <2>6, <2>7
  <2>9. \E a, e : /\ Opens(t, wanted, a) /\ Closes(t, a, e)
                  /\ Leaves(heap', 1) = AsWritten(SubSeq(t, 1, e - 1))
                  /\ Holds(heap', <<t[a].name>>)
    BY <2>4, <2>5, <2>8
  <2> QED BY <1>1, <1>2, <2>0, <2>2, <2>9 DEF IniRead
<1>5. CASE ~Over(d.name)
  <2>0. flag = "START"
    BY <1>5 DEF Over, IniTyped
  <2>1. PICK P : SaidAs(P)
    BY <2>0 DEF IniRead
  <2>2. /\ SaidAs(<<d.name>>)'
        /\ flag' = IF wanted # Nil /\ Fold[wanted] = Fold[d.name] THEN "PROCESS" ELSE flag
    BY <1>5, <2>1, SectionRead
  <2>3. wanted # Nil => \A i : ~Asked(file, wanted, i)
    BY <2>0 DEF IniRead
  <2>4. CASE wanted # Nil /\ Fold[wanted] = Fold[d.name]
    <3>1. Opens(t, wanted, n)
      BY <1>3, <2>3, <2>4 DEF Opens
    <3>2. ASSUME NEW i, Starts(t, i) PROVE i <= n
      BY <1>3, <3>2 DEF Starts
    <3>3. SaidAs(<<t[n].name>>)'
      BY <1>2, <1>3, <2>2 DEF SaidAs
    <3>4. flag' = "PROCESS"
      BY <2>2, <2>4
    <3> QED BY <1>1, <1>2, <2>4, <3>1, <3>2, <3>3, <3>4 DEF IniRead
  <2>5. CASE ~(wanted # Nil /\ Fold[wanted] = Fold[d.name])
    <3>1. flag' = "START"
      BY <2>0, <2>2, <2>5
    <3>2. wanted # Nil => \A i : ~Asked(t, wanted, i)
      BY <1>3, <2>3, <2>5
    <3> QED BY <1>1, <1>2, <2>2, <3>1, <3>2 DEF IniRead
  <2> QED BY <2>4, <2>5
<1> QED BY <1>4, <1>5

\* A line after the section asked for.
LEMMA ReadOnIgnored ==
  ASSUME IniTyped, NEW d \in Directives, Line(d), Ignored, fault = "none", ~shared, IniRead
  PROVE  IniRead'
<1>1. /\ file \in Seq(Directives) /\ file' = Append(file, d) /\ wanted' = wanted
      /\ UNCHANGED <<heap, flag>> /\ flag = "END"
  BY DEF IniTyped, Line, Ignored
<1>2. PICK t, n : t = file' /\ n = Len(file) + 1
  OBVIOUS
<1>3. /\ n \in Nat /\ \A i \in DOMAIN file : t[i] = file[i] /\ i \in Nat /\ i < n
      /\ \A i : Starts(t, i) <=> Starts(file, i) \/ (i = n /\ d.kind = "section")
      /\ \A w, i : Asked(t, w, i) <=>
           Asked(file, w, i) \/ (i = n /\ d.kind = "section" /\ Fold[d.name] = Fold[w])
      /\ \A e \in DOMAIN file : SubSeq(t, 1, e - 1) = SubSeq(file, 1, e - 1)
  <2>1. t = Append(file, d)
    BY <1>1, <1>2
  <2>2. IsMore(file, d, t, n)
    BY <1>1, <1>2, <2>1, LineMore
  <2> QED BY <1>1, <2>2 DEF IsMore
<1>4. PICK b, e : /\ Opens(file, wanted, b) /\ Closes(file, b, e)
                  /\ Leaves(heap, 1) = AsWritten(SubSeq(file, 1, e - 1))
                  /\ Holds(heap, <<file[b].name>>)
  BY <1>1 DEF IniRead
<1>5. b \in DOMAIN file /\ e \in DOMAIN file
  BY <1>4 DEF Opens, Closes, Asked, Starts
<1>6. b \in Nat /\ b < n /\ e \in Nat /\ e < n
  BY <1>3, <1>5
<1>7. Opens(t, wanted, b)
  BY <1>3, <1>4, <1>6 DEF Opens
<1>8. Closes(t, b, e)
  BY <1>3, <1>4, <1>6 DEF Closes
<1>9. /\ Leaves(heap', 1) = AsWritten(SubSeq(t, 1, e - 1))
      /\ Holds(heap', <<t[b].name>>)
  BY <1>1, <1>3, <1>4, <1>5
<1>10. wanted # Nil
  BY <1>1 DEF IniRead
<1>11. \E a, c : /\ Opens(t, wanted, a) /\ Closes(t, a, c)
                 /\ Leaves(heap', 1) = AsWritten(SubSeq(t, 1, c - 1))
                 /\ Holds(heap', <<t[a].name>>)
  BY <1>7, <1>8, <1>9
<1> QED BY <1>1, <1>2, <1>10, <1>11 DEF IniRead

\* A step keeps what is read.
LEMMA ReadGoesOn ==
  ASSUME IniInv, IniRead, [IniNext]_iniVars
  PROVE  IniRead'
<1>1. IniTyped
  BY DEF IniInv
<1>2. CASE UNCHANGED iniVars
  BY <1>2 DEF IniRead, SaidAs, InSection, Begun, iniVars
<1>3. ASSUME NEW d \in Directives, Line(d)
      PROVE  IniRead'
  <2> SUFFICES ASSUME fault' = "none", ~shared' PROVE IniRead'
    BY DEF IniRead
  <2>1. fault = "none" /\ Len(file) < MaxLines
    BY <1>3 DEF Line
  <2>2. CASE Ignored
    <3>1. ~shared
      BY <2>2 DEF Ignored
    <3> QED BY <1>1, <1>3, <2>1, <2>2, <3>1, ReadOnIgnored
  <2>3. CASE flag # "END" /\ Entry(d)
    <3>1. d.kind # "section" /\ flag' = flag /\ ~shared
      BY <2>3 DEF Entry
    <3>2. \A P : SaidAs(P) => SaidAs(P)'
      BY <1>1, <1>3, <2>3, EntryRead
    <3> QED BY <1>1, <1>3, <2>1, <2>3, <3>1, <3>2, ReadOnInSection
  <2>4. CASE flag # "END" /\ List(d)
    <3>1. flag' = flag /\ ~shared
      BY <2>4, ListParts
    <3>2. d.kind # "section"
      BY <2>4 DEF List
    <3>3. \A P : SaidAs(P) => SaidAs(P)'
      BY <1>1, <1>3, <2>4, ListRead
    <3> QED BY <1>1, <1>3, <2>1, <2>4, <3>1, <3>2, <3>3, ReadOnInSection
  <2>5. CASE flag # "END" /\ Section(d)
    <3>1. ~shared
      BY <2>5 DEF Section
    <3> QED BY <1>1, <1>3, <2>1, <2>5, <3>1, ReadOnToSection
  <2> QED BY <1>3, <2>2, <2>3, <2>4, <2>5 DEF Line
<1> QED BY <1>2, <1>3 DEF IniNext

\* All the lines are read if no section is asked for.
LEMMA ReadIsWritten ==
  ASSUME IniInv, IniRead
  PROVE  SectionsAsWritten
<1> SUFFICES ASSUME wanted = Nil, fault = "none", ~shared
             PROVE  Leaves(heap, 1) = AsWritten(file)
  BY DEF SectionsAsWritten
<1>1. flag \in {"START", "PROCESS", "END"} /\ file \in Seq(Directives)
  BY DEF IniInv, IniTyped
<1>2. flag = "START"
  BY <1>1 DEF IniRead
<1>3. PICK P : SaidAs(P)
  BY <1>2 DEF IniRead
<1>4. AsWritten(file) = ReadOf(file).said
  BY <1>1, ReadRules
<1> QED BY <1>3, <1>4 DEF SaidAs

\* Min, of a set that has a least element.
LEMMA MinIs ==
  ASSUME NEW S, S \subseteq Nat, NEW m \in S, \A x \in S : m <= x
  PROVE  Min(S) = m
<1>1. \A y \in S : (\A x \in S : y <= x) => y = m
  <2> SUFFICES ASSUME NEW y \in S, \A x \in S : y <= x PROVE y = m
    OBVIOUS
  <2>1. y <= m /\ m <= y /\ y \in Nat /\ m \in Nat
    OBVIOUS
  <2> QED BY <2>1
<1>2. Min(S) = CHOOSE y \in S : \A x \in S : y <= x
  BY DEF Min
<1> QED BY <1>1, <1>2

\* The section asked for is read to its end.
LEMMA ReadIsGiven ==
  ASSUME IniInv, IniRead
  PROVE  WantedGiven
<1> DEFINE starts == {i \in DOMAIN file : file[i].kind = "section"}
           first  == {i \in starts : wanted # Nil /\ Fold[file[i].name] = Fold[wanted]}
           begin  == Min(first)
           ends   == {i \in starts : i > begin}
           block  == SubSeq(file, 1, IF ends = {} THEN Len(file) ELSE Min(ends) - 1)
<1> SUFFICES ASSUME first # {}, file[begin].name = wanted, fault = "none", ~shared
             PROVE  Returned # Nil /\ Leaves(heap, Returned) = Sub(AsWritten(block), wanted)
  BY DEF WantedGiven
<1>1. /\ flag \in {"START", "PROCESS", "END"} /\ file \in Seq(Directives)
      /\ wanted \in Keys \cup {Nil}
  BY IniAssumption DEF IniInv, IniTyped
<1>2. PICK P : InSection(P)
  BY DEF IniInv
<1>3. PICK depth : Leveled(heap, depth)
  BY <1>2 DEF InSection, Shape
<1>4. \A i : i \in starts <=> Starts(file, i)
  BY DEF Starts
<1>5. wanted # Nil /\ \A i : i \in first <=> Asked(file, wanted, i)
  BY <1>4 DEF Asked
<1>6. starts \subseteq Nat /\ first \subseteq Nat
  <2>1. DOMAIN file \subseteq Nat
    BY <1>1, LenProperties
  <2> QED BY <2>1
<1> HIDE DEF starts, first
<1>7. ASSUME NEW b, Opens(file, wanted, b) PROVE begin = b
  <2>1. b \in first /\ \A i \in first : b <= i
    BY <1>5, <1>7 DEF Opens
  <2> QED BY <1>6, <2>1, MinIs
<1> HIDE DEF begin
<1>8. Leaves(heap, 1) = AsWritten(block) /\ Holds(heap, <<wanted>>)
  <2>1. CASE flag = "START"
    BY <1>5, <2>1 DEF IniRead
  <2>2. CASE flag = "PROCESS"
    <3>1. PICK b : /\ Opens(file, wanted, b) /\ \A i : Starts(file, i) => i <= b
                   /\ SaidAs(<<file[b].name>>)
      BY <2>2 DEF IniRead
    <3>2. begin = b /\ b \in Nat
      BY <1>5, <1>6, <1>7, <3>1 DEF Opens
    <3>3. ends = {}
      <4>1. ASSUME NEW i \in starts PROVE ~(i > begin)
        BY <1>4, <1>6, <3>1, <3>2
      <4> QED BY <4>1
    <3>4. block = file
      <4>1. block = SubSeq(file, 1, Len(file))
        BY <3>3
      <4> QED BY <1>1, <4>1, SubSeqFull
    <3>5. Leaves(heap, 1) = AsWritten(file)
      <4>1. AsWritten(file) = ReadOf(file).said
        BY <1>1, ReadRules
      <4> QED BY <3>1, <4>1 DEF SaidAs
    <3>6. Holds(heap, <<file[b].name>>)
      BY <3>1 DEF SaidAs, InSection, Shape, Own, Holds
    <3> QED BY <3>2, <3>4, <3>5, <3>6
  <2>3. CASE flag = "END"
    <3>1. PICK b, e : /\ Opens(file, wanted, b) /\ Closes(file, b, e)
                      /\ Leaves(heap, 1) = AsWritten(SubSeq(file, 1, e - 1))
                      /\ Holds(heap, <<file[b].name>>)
      BY <2>3 DEF IniRead
    <3>2. begin = b /\ b \in Nat
      BY <1>5, <1>6, <1>7, <3>1 DEF Opens
    <3>3. ends \subseteq Nat /\ e \in ends /\ \A i \in ends : e <= i
      <4>1. e \in starts /\ b < e /\ \A i \in starts : b < i => e <= i
        BY <1>4, <3>1 DEF Closes
      <4>2. \A i \in starts : i > begin <=> b < i
        BY <1>6, <3>2
      <4> QED BY <1>6, <4>1, <4>2
    <3> HIDE DEF ends
    <3>4. Min(ends) = e /\ ends # {}
      BY <3>3, MinIs
    <3>5. block = SubSeq(file, 1, e - 1)
      BY <3>4
    <3> QED BY <3>1, <3>2, <3>5
  <2> QED BY <1>1, <2>1, <2>2, <2>3
<1> HIDE DEF block
<1>9. wanted \in Keys
  BY <1>1, <1>5
<1>10. wanted \in DOMAIN heap[1].map /\ heap[heap[1].map[wanted]].arr
  BY <1>3, <1>8, <1>9, OneKey DEF Holds
<1>11. heap[1].map[wanted] \in DOMAIN heap /\ DOMAIN heap \subseteq Nat
  <2>1. heap[1].map[wanted] \in DOMAIN heap
    BY <1>3, <1>10 DEF Leveled
  <2>2. DOMAIN heap = 1 .. Len(heap) /\ Len(heap) \in Nat
    BY <1>3, HeapParts
  <2> QED BY <2>1, <2>2
<1>12. Returned = heap[1].map[wanted]
  BY <1>5, <1>10 DEF Returned, Has
<1>13. Returned # Nil
  BY <1>11, <1>12, IniAssumption
<1>14. Sub(Leaves(heap, 1), wanted) = Leaves(heap, heap[1].map[wanted])
  BY <1>3, <1>9, <1>10, SubOfHeap
<1> QED BY <1>8, <1>12, <1>13, <1>14

\* The second inductive invariant.
THEOREM IniReads == IniSpec => []IniRead
<1>1. IniInit => IniRead
  BY ReadStarts
<1>2. IniInv /\ IniRead /\ [IniNext]_iniVars => IniRead'
  BY ReadGoesOn
<1> QED BY <1>1, <1>2, IniInvariant, PTL DEF IniSpec

\* For every file, however sections inherit and whatever they share: what a file read
\* as a whole gives is what its lines say, as long as no list entry went into an array
\* that is in two places.
THEOREM IniSectionsAsWritten == IniSpec => []SectionsAsWritten
<1>1. IniInv /\ IniRead => SectionsAsWritten
  BY ReadIsWritten
<1> QED BY <1>1, IniInvariant, IniReads, PTL

\* For every file, a section asked for by its name is what the lines before its end say
\* of it.
THEOREM IniWantedGiven == IniSpec => []WantedGiven
<1>1. IniInv /\ IniRead => WantedGiven
  BY ReadIsGiven
<1> QED BY <1>1, IniInvariant, IniReads, PTL
================================================================================
