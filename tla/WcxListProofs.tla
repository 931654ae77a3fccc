----------------------------- MODULE WcxListProofs -----------------------------
(***************************************************************************)
(* Proofs about the linked list, for any lists, addresses and values: the  *)
(* pointers are at any moment those of the sequence of nodes that the      *)
(* calls made, an iterator misses none of them, and values are freed once. *)
(***************************************************************************)
EXTENDS WcxListProps, CrontabProofs, FiniteSetTheorems

--------------------------------------------------------------------------------
(* Sequences of nodes.                                                     *)

\* t is s with a after its first k nodes.
Inserted(t, s, k, a) ==
  /\ t \in Seq(Addr) /\ Len(t) = Len(s) + 1
  /\ \A j \in 1 .. Len(s) + 1 : t[j] = IF j <= k THEN s[j] ELSE IF j = k + 1 THEN a ELSE s[j - 1]

\* t is s without its i-th node.
Removed(t, s, i) ==
  /\ t \in Seq(Addr) /\ Len(t) = Len(s) - 1
  /\ \A j \in 1 .. Len(s) - 1 : t[j] = IF j < i THEN s[j] ELSE s[j + 1]

\* A new head is before all others.
LEMMA InsertedFirst ==
  ASSUME NEW s \in Seq(Addr), NEW a \in Addr
  PROVE  Inserted(<<a>> \o s, s, 0, a)
<1> DEFINE t == <<a>> \o s
<1>1. t \in Seq(Addr) /\ Len(t) = Len(s) + 1
      /\ \A j \in 1 .. Len(s) + 1 : t[j] = IF j = 1 THEN a ELSE s[j - 1]
  BY ConsProperties
<1> HIDE DEF t
<1>2. \A j \in 1 .. Len(s) + 1 :
        t[j] = IF j <= 0 THEN s[j] ELSE IF j = 0 + 1 THEN a ELSE s[j - 1]
  BY <1>1
<1> QED BY <1>1, <1>2 DEF Inserted, t

\* A new tail is after all others.
LEMMA InsertedLast ==
  ASSUME NEW s \in Seq(Addr), NEW a \in Addr
  PROVE  Inserted(Append(s, a), s, Len(s), a)
BY AppendProperties DEF Inserted

\* What listInsertNode does to the sequence.
LEMMA InsertedWithin ==
  ASSUME NEW s \in Seq(Addr), NEW a \in Addr, NEW k \in 0 .. Len(s)
  PROVE  Inserted(SubSeq(s, 1, k) \o <<a>> \o SubSeq(s, k + 1, Len(s)), s, k, a)
<1>1. CASE k < Len(s)
  <2> DEFINE t == InsertAt(s, k + 1, a)
  <2>1. k + 1 \in 1 .. Len(s) /\ (k + 1) - 1 = k
    BY <1>1
  <2>2. t = SubSeq(s, 1, k) \o <<a>> \o SubSeq(s, k + 1, Len(s))
    BY <2>1 DEF InsertAt
  <2>3. t \in Seq(Addr) /\ Len(t) = Len(s) + 1
        /\ \A j \in 1 .. Len(s) + 1 :
             t[j] = IF j < k + 1 THEN s[j] ELSE IF j = k + 1 THEN a ELSE s[j - 1]
    BY <2>1, InsertAtProperties
  <2> HIDE DEF t
  <2>4. \A j \in 1 .. Len(s) + 1 :
          t[j] = IF j <= k THEN s[j] ELSE IF j = k + 1 THEN a ELSE s[j - 1]
    BY <2>3
  <2>5. Inserted(t, s, k, a)
    BY <2>3, <2>4 DEF Inserted
  <2> QED BY <2>2, <2>5
<1>2. CASE k = Len(s)
  <2>1. SubSeq(s, 1, k) = s
    BY <1>2, SubSeqFull
  <2>2. SubSeq(s, k + 1, Len(s)) = <<>>
    BY <1>2, SubSeqEmpty
  <2>3. s \o <<a>> \in Seq(Addr) /\ (s \o <<a>>) \o <<>> = s \o <<a>>
    BY ConcatProperties, ConcatEmptySeq
  <2>4. s \o <<a>> = Append(s, a)
    BY AppendIsConcat
  <2> QED BY <1>2, <2>1, <2>2, <2>3, <2>4, InsertedLast
<1> QED BY <1>1, <1>2

\* What listDelNode does to the sequence.
LEMMA RemovedWithin ==
  ASSUME NEW s \in Seq(Addr), NEW i \in DOMAIN s
  PROVE  Removed(SubSeq(s, 1, i - 1) \o SubSeq(s, i + 1, Len(s)), s, i)
<1>1. i \in 1 .. Len(s)
  OBVIOUS
<1>2. RemoveAt(s, i) = SubSeq(s, 1, i - 1) \o SubSeq(s, i + 1, Len(s))
  BY DEF RemoveAt
<1> QED BY <1>1, <1>2, RemoveAtProperties DEF Removed

\* What listRotate does to the sequence.
LEMMA RotatedFirst ==
  ASSUME NEW s \in Seq(Addr), Len(s) > 0
  PROVE  /\ <<s[Len(s)]>> \o SubSeq(s, 1, Len(s) - 1) \in Seq(Addr)
         /\ Len(<<s[Len(s)]>> \o SubSeq(s, 1, Len(s) - 1)) = Len(s)
         /\ \A j \in 1 .. Len(s) : (<<s[Len(s)]>> \o SubSeq(s, 1, Len(s) - 1))[j] =
              IF j = 1 THEN s[Len(s)] ELSE s[j - 1]
<1> DEFINE front == SubSeq(s, 1, Len(s) - 1)
<1>1. front \in Seq(Addr) /\ Len(front) = Len(s) - 1
      /\ \A j \in 1 .. Len(s) - 1 : front[j] = s[j]
  BY SubSeqProperties
<1>2. s[Len(s)] \in Addr
  BY ElementOfSeq
<1> HIDE DEF front
<1>3. /\ <<s[Len(s)]>> \o front \in Seq(Addr)
      /\ Len(<<s[Len(s)]>> \o front) = Len(front) + 1
      /\ \A j \in 1 .. Len(front) + 1 :
           (<<s[Len(s)]>> \o front)[j] = IF j = 1 THEN s[Len(s)] ELSE front[j - 1]
  BY <1>1, <1>2, ConsProperties
<1>4. \A j \in 1 .. Len(s) : (<<s[Len(s)]>> \o front)[j] = IF j = 1 THEN s[Len(s)] ELSE s[j - 1]
  BY <1>1, <1>3
<1> QED BY <1>1, <1>3, <1>4 DEF front

--------------------------------------------------------------------------------
(* Pointers.                                                               *)

\* The nodes of s are linked as they come.
Chain(h, s) ==
  \A i \in DOMAIN s : h[s[i]].prev = Place(s, i - 1) /\ h[s[i]].next = Place(s, i + 1)

\* The header points to both ends.
Ends(hd, s) == hd.len = Len(s) /\ hd.head = Place(s, 1) /\ hd.tail = Place(s, Len(s))

\* What a pointer may be.
Link == Addr \cup {NULL}

\* g is h but that the next of n, if it is a node, is m.
NextIs(g, h, n, m) ==
  /\ g \in [Addr -> Node]
  /\ \A x \in Addr : /\ g[x].next = IF x = n THEN m ELSE h[x].next
                     /\ g[x].prev = h[x].prev
                     /\ g[x].value = h[x].value

\* And its prev.
PrevIs(g, h, n, m) ==
  /\ g \in [Addr -> Node]
  /\ \A x \in Addr : /\ g[x].prev = IF x = n THEN m ELSE h[x].prev
                     /\ g[x].next = h[x].next
                     /\ g[x].value = h[x].value

\* A header with other ends.
Headed(hd, x, y, n) ==
  [up |-> hd.up, head |-> x, tail |-> y, len |-> n, dup |-> hd.dup, free |-> hd.free]

\* It is a header, of the same list.
LEMMA HeaderSet ==
  ASSUME NEW hd \in Header, NEW x \in Link, NEW y \in Link, NEW n \in Nat
  PROVE  Headed(hd, x, y, n) \in Header
<1>1. hd.up \in BOOLEAN /\ hd.dup \in BOOLEAN /\ hd.free \in BOOLEAN
  BY DEF Header
<1>2. \A u, d, f \in BOOLEAN :
        [up |-> u, head |-> x, tail |-> y, len |-> n, dup |-> d, free |-> f] \in Header
  BY DEF Header, Link
<1> QED BY <1>1, <1>2, Zenon DEF Headed

\* That is how listDelNode and listRotate write it.
LEMMA HeadedIs ==
  ASSUME NEW hd \in Header, NEW x, NEW y, NEW n,
         NEW g, g = [hd EXCEPT !.head = x, !.tail = y, !.len = n]
  PROVE  g = Headed(hd, x, y, n)
BY DEF Headed, Header

\* A header with other ends, as listRotate writes it.
LEMMA TwoSet ==
  ASSUME NEW hd \in Header, NEW x, NEW y, NEW g, g = [hd EXCEPT !.tail = y, !.head = x]
  PROVE  g = [up |-> hd.up, head |-> x, tail |-> y, len |-> hd.len, dup |-> hd.dup,
              free |-> hd.free]
BY DEF Header

\* One pointer of one node is set, if there is a node.
LEMMA NextSet ==
  ASSUME NEW h \in [Addr -> Node], NEW n \in Link, NEW m \in Link
  PROVE  NextIs(SetNext(h, n, m), h, n, m)
BY ListAssumption DEF SetNext, Node, NextIs, Link

\* And so is the other one.
LEMMA PrevSet ==
  ASSUME NEW h \in [Addr -> Node], NEW n \in Link, NEW m \in Link
  PROVE  PrevIs(SetPrev(h, n, m), h, n, m)
BY ListAssumption DEF SetPrev, Node, PrevIs, Link

\* g is h with node a, of value v, between the k-th node of s and the next one.
Woven(g, h, s, k, a, v) ==
  /\ g \in [Addr -> Node]
  /\ g[a].prev = Place(s, k) /\ g[a].next = Place(s, k + 1) /\ g[a].value = v
  /\ \A x \in Addr \ {a} :
       /\ g[x].next = IF x = Place(s, k) THEN a ELSE h[x].next
       /\ g[x].prev = IF x = Place(s, k + 1) THEN a ELSE h[x].prev
       /\ g[x].value = h[x].value

\* g is h with the neighbours of the i-th node of s linked to each other.
Cut(g, h, s, i) ==
  /\ g \in [Addr -> Node]
  /\ \A x \in Addr \ {s[i]} :
       /\ g[x].next = IF x = Place(s, i - 1) THEN Place(s, i + 1) ELSE h[x].next
       /\ g[x].prev = IF x = Place(s, i + 1) THEN Place(s, i - 1) ELSE h[x].prev
       /\ g[x].value = h[x].value

\* An insertion keeps the nodes linked as they come.
LEMMA ChainWoven ==
  ASSUME NEW s \in Seq(Addr), Distinct(s), NEW a \in Addr, \A i \in DOMAIN s : s[i] # a,
         NEW k \in 0 .. Len(s), NEW t, Inserted(t, s, k, a),
         NEW h, NEW g, NEW v, Chain(h, s), Woven(g, h, s, k, a, v)
  PROVE  Chain(g, t) /\ Distinct(t)
<1> DEFINE n == Len(s)
<1>0. /\ n \in Nat /\ DOMAIN s = 1 .. n /\ DOMAIN t = 1 .. n + 1
      /\ \A i \in 1 .. n : s[i] \in Addr
  BY DEF Inserted
<1>1. \A i, j \in 1 .. n : s[i] = s[j] => i = j
  BY <1>0 DEF Distinct
<1>2. \A j \in 1 .. n + 1 : t[j] = IF j <= k THEN s[j] ELSE IF j = k + 1 THEN a ELSE s[j - 1]
  BY DEF Inserted
<1>3. \A i \in 1 .. n : s[i] # a
  BY <1>0
<1>4. a # NULL /\ \A i \in 1 .. n : s[i] # NULL
  BY <1>0, ListAssumption
<1>5. Distinct(t)
  BY <1>0, <1>1, <1>2, <1>3 DEF Distinct
<1>6. \A i \in 1 .. n : h[s[i]].prev = Place(s, i - 1) /\ h[s[i]].next = Place(s, i + 1)
  BY <1>0 DEF Chain
<1>7. ASSUME NEW i \in 1 .. n + 1 PROVE g[t[i]].prev = Place(t, i - 1)
  <2>0. g[a].prev = Place(s, k)
        /\ \A x \in Addr \ {a} : g[x].prev = IF x = Place(s, k + 1) THEN a ELSE h[x].prev
    BY DEF Woven
  <2>1. CASE i = k + 1
    BY <1>0, <1>2, <2>0, <2>1 DEF Place
  <2>2. CASE i <= k
    BY <1>0, <1>1, <1>2, <1>3, <1>4, <1>6, <2>0, <2>2 DEF Place
  <2>3. CASE i > k + 1
    BY <1>0, <1>1, <1>2, <1>3, <1>4, <1>6, <2>0, <2>3 DEF Place
  <2> QED BY <2>1, <2>2, <2>3
<1>8. ASSUME NEW i \in 1 .. n + 1 PROVE g[t[i]].next = Place(t, i + 1)
  <2>0. g[a].next = Place(s, k + 1)
        /\ \A x \in Addr \ {a} : g[x].next = IF x = Place(s, k) THEN a ELSE h[x].next
    BY DEF Woven
  <2>1. CASE i = k + 1
    BY <1>0, <1>2, <2>0, <2>1 DEF Place
  <2>2. CASE i <= k
    BY <1>0, <1>1, <1>2, <1>3, <1>4, <1>6, <2>0, <2>2, SMTT(30) DEF Place
  <2>3. CASE i > k + 1
    <3>1. t[i] = s[i - 1] /\ i - 1 \in 1 .. n /\ i - 1 > k
      BY <1>0, <1>2, <2>3
    <3>2. s[i - 1] \in Addr \ {a} /\ s[i - 1] # Place(s, k)
      BY <1>0, <1>1, <1>3, <1>4, <3>1 DEF Place
    <3>3. g[t[i]].next = h[s[i - 1]].next /\ h[s[i - 1]].next = Place(s, (i - 1) + 1)
      BY <1>6, <2>0, <3>1, <3>2
    <3>4. Place(s, (i - 1) + 1) = Place(t, i + 1)
      BY <1>0, <1>2, <2>3, <3>1 DEF Place
    <3> QED BY <3>3, <3>4
  <2> QED BY <2>1, <2>2, <2>3
<1> QED BY <1>0, <1>5, <1>7, <1>8 DEF Chain

\* A deletion keeps the nodes linked as they come.
LEMMA ChainCut ==
  ASSUME NEW s \in Seq(Addr), Distinct(s), NEW i \in DOMAIN s, NEW t, Removed(t, s, i),
         NEW h, NEW g, Chain(h, s), Cut(g, h, s, i)
  PROVE  Chain(g, t) /\ Distinct(t)
<1> DEFINE n == Len(s)
<1>0. /\ n \in Nat /\ DOMAIN s = 1 .. n /\ DOMAIN t = 1 .. n - 1
      /\ \A j \in 1 .. n : s[j] \in Addr
  BY DEF Removed
<1>1. \A j, k \in 1 .. n : s[j] = s[k] => j = k
  BY <1>0 DEF Distinct
<1>2. \A j \in 1 .. n - 1 : t[j] = IF j < i THEN s[j] ELSE s[j + 1]
  BY DEF Removed
<1>4. \A j \in 1 .. n : s[j] # NULL
  BY <1>0, ListAssumption
<1>5. Distinct(t)
  BY <1>0, <1>1, <1>2 DEF Distinct
<1>6. \A j \in 1 .. n : h[s[j]].prev = Place(s, j - 1) /\ h[s[j]].next = Place(s, j + 1)
  BY <1>0 DEF Chain
<1>7. ASSUME NEW j \in 1 .. n - 1 PROVE g[t[j]].prev = Place(t, j - 1)
  <2>1. CASE j < i
    BY <1>0, <1>1, <1>2, <1>4, <1>6, <2>1 DEF Cut, Place
  <2>2. CASE j >= i
    BY <1>0, <1>1, <1>2, <1>4, <1>6, <2>2 DEF Cut, Place
  <2> QED BY <2>1, <2>2
<1>8. ASSUME NEW j \in 1 .. n - 1 PROVE g[t[j]].next = Place(t, j + 1)
  <2>1. CASE j < i
    BY <1>0, <1>1, <1>2, <1>4, <1>6, <2>1 DEF Cut, Place
  <2>2. CASE j >= i
    BY <1>0, <1>1, <1>2, <1>4, <1>6, <2>2 DEF Cut, Place
  <2> QED BY <2>1, <2>2
<1> QED BY <1>0, <1>5, <1>7, <1>8 DEF Chain
--------------------------------------------------------------------------------
(* Changes to one list.                                                    *)

\* A list that is not there has no nodes; a node that is there has a value.
Tidy ==
  /\ \A l \in Lists : list[l].up \/ order[l] = <<>>
  /\ \A a \in live : heap[a].value \in Values

\* The pointers, the sequences of nodes and the allocated nodes agree.
ListInv == ListTypeOK /\ Linked /\ NodesOwned /\ Tidy

\* What ListInv says, point by point.
LEMMA Facts ==
  ASSUME ListInv, NEW l \in Lists
  PROVE  /\ order[l] \in Seq(Addr) /\ Len(order[l]) \in Nat
         /\ DOMAIN order[l] = 1 .. Len(order[l])
         /\ Distinct(order[l]) /\ Chain(heap, order[l]) /\ Ends(list[l], order[l])
         /\ Members(l) \subseteq Addr /\ Members(l) \subseteq live
         /\ \A i \in DOMAIN order[l] : order[l][i] \in Members(l)
<1>1. order[l] \in Seq(Addr) /\ Len(order[l]) \in Nat /\ DOMAIN order[l] = 1 .. Len(order[l])
  BY DEF ListInv, ListTypeOK
<1>2. Distinct(order[l])
  BY DEF ListInv, NodesOwned, Distinct
<1>3. Chain(heap, order[l]) /\ Ends(list[l], order[l])
  BY DEF ListInv, Linked, Chain, Ends
<1>4. Members(l) \subseteq Addr
  BY <1>1, ElementOfSeq DEF Members
<1>5. Members(l) \subseteq live
  BY DEF ListInv, NodesOwned
<1>6. \A i \in DOMAIN order[l] : order[l][i] \in Members(l)
  BY DEF Members
<1> QED BY <1>1, <1>2, <1>3, <1>4, <1>5, <1>6

\* The nodes of two lists are different.
LEMMA Apart ==
  ASSUME NodesOwned, NEW l \in Lists, NEW m \in Lists, l # m
  PROVE  Members(l) \cap Members(m) = {}
BY DEF NodesOwned, Members

\* If the sequence of one list becomes t, of nodes that were its own or free, and
\* those it does not keep are freed, every node is still in one place.
LEMMA OwnedAfter ==
  ASSUME ListInv, NEW l \in Lists, NEW t \in Seq(Addr), Distinct(t),
         \A j \in DOMAIN t : t[j] \in Members(l) \/ t[j] \notin live,
         order' = [order EXCEPT ![l] = t],
         live' = (live \ Members(l)) \cup {t[j] : j \in DOMAIN t}
  PROVE  NodesOwned'
<1>1. /\ \A m \in Lists : order'[m] = IF m = l THEN t ELSE order[m]
      /\ live = UNION {Members(m) : m \in Lists}
  BY DEF ListInv, ListTypeOK, NodesOwned
<1>2. \A m \in Lists : Members(m)' = IF m = l THEN {t[j] : j \in DOMAIN t} ELSE Members(m)
  BY <1>1 DEF Members
<1>3. \A m \in Lists \ {l} : Members(m) \subseteq live /\ Members(m) \cap Members(l) = {}
  BY <1>1, Apart DEF ListInv
<1>4. live' = UNION {Members(m)' : m \in Lists}
  <2>1. ASSUME NEW x \in live' PROVE \E m \in Lists : x \in Members(m)'
    BY <1>1, <1>2, <2>1
  <2>2. ASSUME NEW m \in Lists, NEW x \in Members(m)' PROVE x \in live'
    BY <1>1, <1>2, <1>3, <2>2
  <2> QED BY <2>1, <2>2
<1>5. ASSUME NEW m \in Lists, NEW k \in Lists,
             NEW i \in DOMAIN order'[m], NEW j \in DOMAIN order'[k], order'[m][i] = order'[k][j]
      PROVE  m = k /\ i = j
  <2>1. CASE m = l /\ k = l
    BY <1>1, <1>5, <2>1 DEF Distinct
  <2>2. CASE m # l /\ k # l
    BY <1>1, <1>5, <2>2 DEF ListInv, NodesOwned
  <2>3. CASE m = l /\ k # l
    <3>1. t[i] \in Members(k) /\ i \in DOMAIN t
      BY <1>1, <1>5, <2>3 DEF Members
    <3> QED BY <1>3, <2>3, <3>1
  <2>4. CASE m # l /\ k = l
    <3>1. t[j] \in Members(m) /\ j \in DOMAIN t
      BY <1>1, <1>5, <2>4 DEF Members
    <3> QED BY <1>3, <2>4, <3>1
  <2> QED BY <2>1, <2>2, <2>3, <2>4
<1> QED BY <1>4, <1>5 DEF NodesOwned

\* If it is linked as t comes and nothing of the other lists changes, every list is.
LEMMA LinkedAfter ==
  ASSUME ListInv, NEW l \in Lists, NEW t,
         order' = [order EXCEPT ![l] = t],
         NEW hd, list' = [list EXCEPT ![l] = hd], Ends(hd, t), Chain(heap', t),
         \A m \in Lists \ {l} : \A x \in Members(m) : heap'[x] = heap[x]
  PROVE  Linked'
<1>1. \A m \in Lists : /\ order'[m] = IF m = l THEN t ELSE order[m]
                       /\ list'[m] = IF m = l THEN hd ELSE list[m]
  BY DEF ListInv, ListTypeOK
<1>2. Ends(hd, t) /\ Chain(heap', t)
  OBVIOUS
<1>3. ASSUME NEW m \in Lists PROVE Ends(list'[m], order'[m]) /\ Chain(heap', order'[m])
  <2>1. CASE m = l
    BY <1>1, <1>2, <2>1
  <2>2. CASE m # l
    <3>1. \A i \in DOMAIN order[m] : heap'[order[m][i]] = heap[order[m][i]]
      BY <2>2, Facts
    <3>2. Ends(list[m], order[m]) /\ Chain(heap, order[m])
      BY Facts
    <3>3. Chain(heap', order[m])
      BY <3>1, <3>2 DEF Chain
    <3> QED BY <1>1, <2>2, <3>2, <3>3
  <2> QED BY <2>1, <2>2
<1> QED BY <1>3 DEF Linked, Ends, Chain, Place

\* And if the list is there or empty, and its nodes have values.
LEMMA TidyAfter ==
  ASSUME ListInv, NEW l \in Lists, NEW t,
         order' = [order EXCEPT ![l] = t],
         live' = (live \ Members(l)) \cup {t[j] : j \in DOMAIN t},
         NEW hd, list' = [list EXCEPT ![l] = hd], hd.up \/ t = <<>>,
         \A j \in DOMAIN t : heap'[t[j]].value \in Values,
         \A m \in Lists \ {l} : \A x \in Members(m) : heap'[x] = heap[x]
  PROVE  Tidy'
<1>1. \A m \in Lists : /\ order'[m] = IF m = l THEN t ELSE order[m]
                       /\ list'[m] = IF m = l THEN hd ELSE list[m]
  BY DEF ListInv, ListTypeOK
<1>2. \A m \in Lists : list'[m].up \/ order'[m] = <<>>
  BY <1>1 DEF ListInv, Tidy
<1>3. ASSUME NEW a \in live' PROVE heap'[a].value \in Values
  <2>1. CASE \E j \in DOMAIN t : a = t[j]
    BY <2>1
  <2>2. CASE a \in live \ Members(l)
    <3>1. PICK m \in Lists : a \in Members(m)
      BY <2>2 DEF ListInv, NodesOwned
    <3>2. m # l
      BY <2>2, <3>1
    <3>3. heap'[a] = heap[a]
      BY <3>1, <3>2
    <3> QED BY <2>2, <3>3 DEF ListInv, Tidy
  <2> QED BY <2>1, <2>2
<1> QED BY <1>2, <1>3 DEF Tidy
--------------------------------------------------------------------------------
(* Insertions.                                                             *)

\* The type of the places of a list.
LEMMA PlaceType ==
  ASSUME NEW s \in Seq(Addr), NEW i
  PROVE  Place(s, i) \in Link
BY ElementOfSeq DEF Place, Link

\* Nodes with the same fields are the same.
LEMMA SameNode ==
  ASSUME NEW x \in Node, NEW y \in Node, x.prev = y.prev, x.next = y.next, x.value = y.value
  PROVE  x = y
BY DEF Node

\* A node from malloc, between two neighbours that are told of it, with the header
\* of the longer list: the three insertions.
LEMMA Insertion ==
  ASSUME ListInv, NEW l \in Lists, NEW a \in Addr, a \notin live,
         NEW k \in 0 .. Len(order[l]), NEW t, Inserted(t, order[l], k, a),
         order' = [order EXCEPT ![l] = t], live' = live \cup {a},
         NEW v \in Values, Woven(heap', heap, order[l], k, a, v),
         NEW hd, list' = [list EXCEPT ![l] = hd], Ends(hd, t), hd.up
  PROVE  Linked' /\ NodesOwned' /\ Tidy'
<1> DEFINE s == order[l]
<1>1. /\ s \in Seq(Addr) /\ Len(s) \in Nat /\ DOMAIN s = 1 .. Len(s)
      /\ Distinct(s) /\ Chain(heap, s)
      /\ Members(l) \subseteq Addr /\ Members(l) \subseteq live
      /\ \A i \in DOMAIN s : s[i] \in Members(l)
  BY Facts
<1>2. \A i \in DOMAIN s : s[i] # a
  BY <1>1
<1>3. Chain(heap', t) /\ Distinct(t)
  <2> HIDE DEF s
  <2> QED BY <1>1, <1>2, ChainWoven DEF s
<1>4. /\ t \in Seq(Addr) /\ DOMAIN t = 1 .. Len(s) + 1
      /\ \A j \in DOMAIN t : t[j] = a \/ t[j] \in Members(l)
  <2>1. t \in Seq(Addr) /\ DOMAIN t = 1 .. Len(s) + 1
    BY <1>1 DEF Inserted
  <2>2. ASSUME NEW j \in DOMAIN t PROVE t[j] = a \/ \E i \in DOMAIN s : t[j] = s[i]
    <3>1. t[j] = IF j <= k THEN s[j] ELSE IF j = k + 1 THEN a ELSE s[j - 1]
      BY <2>1 DEF Inserted
    <3>2. CASE j <= k
      BY <1>1, <2>1, <3>1, <3>2
    <3>3. CASE j = k + 1
      BY <3>1, <3>3
    <3>4. CASE j > k + 1
      <4>1. j - 1 \in DOMAIN s /\ t[j] = s[j - 1]
        BY <1>1, <2>1, <3>1, <3>4
      <4> QED BY <4>1
    <3> QED BY <1>1, <2>1, <3>2, <3>3, <3>4
  <2> QED BY <1>1, <2>1, <2>2
<1>5. live' = (live \ Members(l)) \cup {t[j] : j \in DOMAIN t}
  <2>1. a = t[k + 1] /\ k + 1 \in DOMAIN t
    BY <1>1, <1>4 DEF Inserted
  <2>2. ASSUME NEW x \in Members(l) PROVE \E j \in DOMAIN t : x = t[j]
    <3>1. PICK i \in DOMAIN s : x = s[i]
      BY DEF Members
    <3>2. x = t[IF i <= k THEN i ELSE i + 1] /\ (IF i <= k THEN i ELSE i + 1) \in DOMAIN t
      BY <1>1, <1>4, <3>1 DEF Inserted
    <3> QED BY <3>2
  <2>3. \A x \in live' : x \in live \/ x = a
    OBVIOUS
  <2>4. \A x : x \in live' => x \in (live \ Members(l)) \cup {t[j] : j \in DOMAIN t}
    BY <2>1, <2>2, <2>3
  <2>5. \A j \in DOMAIN t : t[j] \in live'
    BY <1>1, <1>4
  <2> QED BY <2>4, <2>5
<1>6. ASSUME NEW m \in Lists \ {l}, NEW x \in Members(m) PROVE heap'[x] = heap[x]
  <2>1. x \in Addr /\ x \in live /\ x # a /\ x # NULL
    BY Facts, ListAssumption
  <2>2. x \notin Members(l)
    BY Apart DEF ListInv
  <2>3. x # Place(s, k) /\ x # Place(s, k + 1)
    BY <1>1, <2>1, <2>2 DEF Place
  <2>4. heap'[x].next = heap[x].next /\ heap'[x].prev = heap[x].prev
        /\ heap'[x].value = heap[x].value
    BY <2>1, <2>3 DEF Woven
  <2>5. heap'[x] \in Node /\ heap[x] \in Node
    BY <2>1 DEF ListInv, ListTypeOK, Woven
  <2> QED BY <2>4, <2>5, SameNode
<1>7. \A j \in DOMAIN t : heap'[t[j]].value \in Values
  <2>1. heap'[a].value = v /\ \A x \in Addr \ {a} : heap'[x].value = heap[x].value
    BY DEF Woven
  <2> QED BY <1>1, <1>4, <2>1 DEF ListInv, Tidy
<1>8. \A j \in DOMAIN t : t[j] \in Members(l) \/ t[j] \notin live
  BY <1>4
<1> HIDE DEF s
<1>9. Linked'
  BY <1>3, <1>6, LinkedAfter
<1>10. NodesOwned'
  BY <1>3, <1>4, <1>5, <1>8, OwnedAfter
<1>11. Tidy'
  BY <1>5, <1>6, <1>7, TidyAfter
<1> QED BY <1>9, <1>10, <1>11

\* What an insertion leaves of the types, once its list, heap and order have theirs.
LEMMA AllocType ==
  ASSUME ListInv, NEW l \in Lists, NEW a \in Addr, NEW v \in Values, Alloc(l, a, v)
  PROVE  /\ list[l].up /\ a \notin live
         /\ live' = live \cup {a} /\ live' \subseteq Addr /\ pool' \subseteq Values
         /\ iter' = iter /\ seen' = seen
BY DEF Alloc, ListInv, ListTypeOK

\* The types after a call that sets one header and one sequence.
LEMMA TypeAfter ==
  ASSUME ListInv, NEW l \in Lists, NEW t \in Seq(Addr), NEW hd \in Header,
         order' = [order EXCEPT ![l] = t], list' = [list EXCEPT ![l] = hd],
         heap' \in [Addr -> Node], live' \subseteq Addr, pool' \subseteq Values,
         iter' \in [list : Lists \cup {NULL}, next : Addr \cup {NULL}, fromHead : BOOLEAN],
         seen' \in [owed : SUBSET Addr, rotated : BOOLEAN, shared : BOOLEAN]
  PROVE  ListTypeOK'
BY DEF ListInv, ListTypeOK

\* A node whose two pointers are right, and whose neighbours are told of it.
LEMMA ToldWoven ==
  ASSUME NEW h \in [Addr -> Node], NEW s \in Seq(Addr), NEW a \in Addr,
         \A i \in DOMAIN s : s[i] # a, NEW k \in 0 .. Len(s), NEW v \in Values, NEW node,
         node = [prev |-> Place(s, k), next |-> Place(s, k + 1), value |-> v]
  PROVE  Woven(Told([h EXCEPT ![a] = node], node, a), h, s, k, a, v)
<1> DEFINE h0 == [h EXCEPT ![a] = node]
           h1 == SetNext(h0, Place(s, k), a)
           h2 == SetPrev(h1, Place(s, k + 1), a)
<1>1. Place(s, k) \in Link /\ Place(s, k + 1) \in Link /\ a \in Link
  BY PlaceType DEF Link
<1>2. Place(s, k) # a /\ Place(s, k + 1) # a
  BY ListAssumption DEF Place
<1>3. node \in Node
  BY <1>1 DEF Node, Link
<1>4. h0 \in [Addr -> Node] /\ h0[a] = node /\ \A x \in Addr \ {a} : h0[x] = h[x]
  BY <1>3
<1>5. Told(h0, node, a) = h2
  BY DEF Told
<1> HIDE DEF h0
<1>6. NextIs(h1, h0, Place(s, k), a)
  BY <1>1, <1>4, NextSet
<1> HIDE DEF h1
<1>7. PrevIs(h2, h1, Place(s, k + 1), a)
  <2>1. h1 \in [Addr -> Node]
    BY <1>6 DEF NextIs
  <2> QED BY <1>1, <2>1, PrevSet
<1> HIDE DEF h2
<1>8. h2 \in [Addr -> Node]
  BY <1>7 DEF PrevIs
<1>9. /\ h2[a].prev = Place(s, k) /\ h2[a].next = Place(s, k + 1) /\ h2[a].value = v
      /\ \A x \in Addr \ {a} :
           /\ h2[x].next = IF x = Place(s, k) THEN a ELSE h[x].next
           /\ h2[x].prev = IF x = Place(s, k + 1) THEN a ELSE h[x].prev
           /\ h2[x].value = h[x].value
  BY <1>2, <1>4, <1>6, <1>7 DEF NextIs, PrevIs
<1>10. Woven(h2, h, s, k, a, v)
  BY <1>8, <1>9 DEF Woven
<1> QED BY <1>5, <1>10 DEF h0

\* The header of l changes, and l goes on freeing its values or not.
Refitted(l) == \E hd : list' = [list EXCEPT ![l] = hd] /\ hd.free = list[l].free

\* What the three insertions do: node a, of value v, comes somewhere into l.
Added(l, a, v) ==
  /\ Alloc(l, a, v) /\ Refitted(l)
  /\ \E k \in 0 .. Len(order[l]), t \in Seq(Addr) :
       /\ Inserted(t, order[l], k, a) /\ order' = [order EXCEPT ![l] = t]
       /\ Woven(heap', heap, order[l], k, a, v)

\* listAddNodeHead does that.
LEMMA HeadAdded ==
  ASSUME ListInv, NEW l \in Lists, NEW a \in Addr, NEW v \in Values, AddNodeHead(l, a, v)
  PROVE  ListInv' /\ Added(l, a, v)
<1> DEFINE s == order[l]
           t == <<a>> \o s
           old == list[l].head
           node == [prev |-> NULL, next |-> IF list[l].len = 0 THEN NULL ELSE old, value |-> v]
           hd == IF list[l].len = 0 THEN [list[l] EXCEPT !.head = a, !.tail = a, !.len = @ + 1]
                                    ELSE [list[l] EXCEPT !.head = a, !.len = @ + 1]
           h == [heap EXCEPT ![a] = node]
<1>1. /\ s \in Seq(Addr) /\ Len(s) \in Nat /\ DOMAIN s = 1 .. Len(s)
      /\ Ends(list[l], s) /\ Members(l) \subseteq live
      /\ \A i \in DOMAIN s : s[i] \in Members(l)
  BY Facts
<1>2. /\ list[l].up /\ a \notin live
      /\ live' = live \cup {a} /\ live' \subseteq Addr /\ pool' \subseteq Values
      /\ iter' = iter /\ seen' = seen
  BY AllocType DEF AddNodeHead
<1>3. Inserted(t, s, 0, a)
  BY <1>1, InsertedFirst
<1>4. heap \in [Addr -> Node] /\ list \in [Lists -> Header]
  BY DEF ListInv, ListTypeOK
<1>5. old = Place(s, 1) /\ list[l].len = Len(s)
  BY <1>1 DEF Ends
<1>6. Place(s, 0) = NULL /\ Place(s, 0 + 1) = Place(s, 1) /\ (Len(s) = 0 => Place(s, 1) = NULL)
  BY <1>1 DEF Place
<1>7. node = [prev |-> Place(s, 0), next |-> Place(s, 0 + 1), value |-> v]
      /\ node.prev = NULL /\ node.next = IF list[l].len = 0 THEN NULL ELSE old
  BY <1>5, <1>6
<1>8. heap' = SetPrev(h, IF list[l].len = 0 THEN NULL ELSE old, a)
  BY DEF AddNodeHead, SetPrev
<1>9. order' = [order EXCEPT ![l] = t]
  BY DEF AddNodeHead
<1>10. list' = [list EXCEPT ![l] = hd]
  BY <1>4 DEF AddNodeHead
<1>11. hd \in Header /\ hd.up /\ hd.free = list[l].free
  <2>1. list[l] \in Header /\ list[l].tail \in Link /\ a \in Link /\ list[l].len + 1 \in Nat
    BY <1>4 DEF Header, Link
  <2>2. hd = Headed(list[l], a, IF list[l].len = 0 THEN a ELSE list[l].tail, list[l].len + 1)
    <3>1. CASE list[l].len = 0
      BY <2>1, <3>1 DEF Headed, Header
    <3>2. CASE list[l].len # 0
      BY <2>1, <3>2 DEF Headed, Header
    <3> QED BY <3>1, <3>2
  <2>3. (IF list[l].len = 0 THEN a ELSE list[l].tail) \in Link
    BY <2>1
  <2> HIDE DEF hd
  <2> QED BY <1>2, <2>1, <2>2, <2>3, HeaderSet DEF Headed
<1>12. Ends(hd, t)
  <2>1. /\ hd.len = list[l].len + 1 /\ hd.head = a
        /\ hd.tail = IF list[l].len = 0 THEN a ELSE list[l].tail
    BY <1>4 DEF Header
  <2>2. list[l].tail = Place(s, Len(s))
    BY <1>1 DEF Ends
  <2> HIDE DEF hd, t, s
  <2>3. /\ Len(t) = Len(s) + 1 /\ DOMAIN t = 1 .. Len(s) + 1 /\ t[1] = a
        /\ Len(s) > 0 => t[Len(s) + 1] = s[Len(s)]
    BY <1>1, <1>3 DEF Inserted
  <2>4. Place(t, 1) = a /\ Place(t, Len(t)) = IF Len(s) = 0 THEN a ELSE Place(s, Len(s))
    BY <1>1, <2>3 DEF Place
  <2> QED BY <1>5, <2>1, <2>2, <2>3, <2>4 DEF Ends
<1> HIDE DEF s, t, hd, node
<1>13. heap' = Told([heap EXCEPT ![a] = node], node, a)
  BY <1>7, <1>8 DEF Told, SetNext
<1>14. 0 \in 0 .. Len(s) /\ \A i \in DOMAIN s : s[i] # a
  BY <1>1, <1>2
<1>15. Woven(heap', heap, s, 0, a, v)
  BY <1>1, <1>4, <1>7, <1>13, <1>14, ToldWoven
<1>16. Linked' /\ NodesOwned' /\ Tidy'
  BY <1>2, <1>3, <1>9, <1>10, <1>11, <1>12, <1>14, <1>15, Insertion DEF s
<1>17. ListTypeOK'
  <2>1. t \in Seq(Addr) /\ heap' \in [Addr -> Node]
    BY <1>3, <1>15 DEF Inserted, Woven
  <2> QED BY <1>2, <1>9, <1>10, <1>11, <2>1, TypeAfter DEF ListInv, ListTypeOK
<1>18. Added(l, a, v)
  <2>1. Alloc(l, a, v) /\ t \in Seq(Addr)
    BY <1>3 DEF AddNodeHead, Inserted
  <2>2. Refitted(l)
    BY <1>10, <1>11 DEF Refitted
  <2> QED BY <1>3, <1>9, <1>14, <1>15, <2>1, <2>2 DEF Added, s
<1> QED BY <1>16, <1>17, <1>18 DEF ListInv

\* What appending a node does to the heap is what telling its neighbours does.
LEMMA AppendedWoven ==
  ASSUME NEW h \in [Addr -> Node], NEW s \in Seq(Addr), NEW hd, Ends(hd, s),
         NEW a \in Addr, \A i \in DOMAIN s : s[i] # a, NEW v \in Values
  PROVE  Woven(AppendedHeap(h, hd, a, v), h, s, Len(s), a, v)
<1> DEFINE node == [prev |-> Place(s, Len(s)), next |-> Place(s, Len(s) + 1), value |-> v]
           h0 == [h EXCEPT ![a] = node]
<1>1. Len(s) \in Nat /\ DOMAIN s = 1 .. Len(s) /\ Len(s) \in 0 .. Len(s)
  OBVIOUS
<1>2. Place(s, Len(s) + 1) = NULL /\ (Len(s) = 0 => Place(s, Len(s)) = NULL)
  BY <1>1 DEF Place
<1>3. AppendedHeap(h, hd, a, v) = SetNext(h0, Place(s, Len(s)), a)
  <2>1. CASE Len(s) = 0
    BY <1>2, <2>1 DEF AppendedHeap, Ends, SetNext
  <2>2. CASE Len(s) # 0
    BY <1>2, <2>2 DEF AppendedHeap, Ends
  <2> QED BY <2>1, <2>2
<1>4. Told(h0, node, a) = SetNext(h0, Place(s, Len(s)), a)
  <2>1. node.prev = Place(s, Len(s)) /\ node.next = NULL
    BY <1>2
  <2> HIDE DEF node
  <2> QED BY <2>1 DEF Told, SetPrev
<1>5. Woven(Told(h0, node, a), h, s, Len(s), a, v)
  BY <1>1, ToldWoven
<1> HIDE DEF h0, node
<1> QED BY <1>3, <1>4, <1>5

\* And to the header.
LEMMA AppendedEnds ==
  ASSUME NEW s \in Seq(Addr), NEW hd \in Header, Ends(hd, s), NEW a \in Addr
  PROVE  /\ Ends(Appended(hd, a), Append(s, a)) /\ Appended(hd, a) \in Header
         /\ Appended(hd, a).up = hd.up /\ Appended(hd, a).free = hd.free
         /\ Appended(hd, a).dup = hd.dup
<1>1. /\ Len(s) \in Nat /\ DOMAIN s = 1 .. Len(s)
      /\ Len(Append(s, a)) = Len(s) + 1 /\ DOMAIN Append(s, a) = 1 .. Len(s) + 1
      /\ \A i \in 1 .. Len(s) : Append(s, a)[i] = s[i]
      /\ Append(s, a)[Len(s) + 1] = a
  BY AppendProperties
<1>2. /\ Appended(hd, a) \in Header
      /\ Appended(hd, a).up = hd.up /\ Appended(hd, a).free = hd.free
      /\ Appended(hd, a).dup = hd.dup
  <2>1. hd.head \in Link /\ a \in Link /\ hd.len + 1 \in Nat
    BY DEF Header, Link
  <2>2. Appended(hd, a) = Headed(hd, IF hd.len = 0 THEN a ELSE hd.head, a, hd.len + 1)
    <3>1. CASE hd.len = 0
      BY <3>1 DEF Appended, Headed, Header
    <3>2. CASE hd.len # 0
      BY <3>2 DEF Appended, Headed, Header
    <3> QED BY <3>1, <3>2
  <2>3. (IF hd.len = 0 THEN a ELSE hd.head) \in Link
    BY <2>1
  <2>4. Appended(hd, a) \in Header
    BY <2>1, <2>2, <2>3, HeaderSet
  <2> QED BY <2>2, <2>4 DEF Headed
<1>3. Appended(hd, a).len = Len(s) + 1 /\ Appended(hd, a).tail = a
      /\ Appended(hd, a).head = IF Len(s) = 0 THEN a ELSE Place(s, 1)
  BY DEF Appended, Header, Ends
<1>4. Place(Append(s, a), Len(s) + 1) = a
      /\ Place(Append(s, a), 1) = IF Len(s) = 0 THEN a ELSE Place(s, 1)
  BY <1>1 DEF Place
<1> QED BY <1>1, <1>2, <1>3, <1>4 DEF Ends

\* listAddNodeTail puts the node after all others.
LEMMA TailAdded ==
  ASSUME ListInv, NEW l \in Lists, NEW a \in Addr, NEW v \in Values, AddNodeTail(l, a, v)
  PROVE  ListInv' /\ Added(l, a, v)
<1> DEFINE s == order[l]
           t == Append(s, a)
           hd == Appended(list[l], a)
<1>1. /\ s \in Seq(Addr) /\ Len(s) \in 0 .. Len(s) /\ Ends(list[l], s)
      /\ Members(l) \subseteq live /\ \A i \in DOMAIN s : s[i] \in Members(l)
  BY Facts
<1>2. /\ list[l].up /\ a \notin live
      /\ live' = live \cup {a} /\ live' \subseteq Addr /\ pool' \subseteq Values
      /\ iter' = iter /\ seen' = seen
  BY AllocType DEF AddNodeTail
<1>3. heap \in [Addr -> Node] /\ list[l] \in Header /\ list \in [Lists -> Header]
  BY DEF ListInv, ListTypeOK
<1>4. heap' = AppendedHeap(heap, list[l], a, v) /\ order' = [order EXCEPT ![l] = t]
      /\ list' = [list EXCEPT ![l] = hd]
  BY <1>3 DEF AddNodeTail
<1>5. \A i \in DOMAIN s : s[i] # a
  BY <1>1, <1>2
<1> HIDE DEF s
<1>6. Woven(heap', heap, s, Len(s), a, v)
  BY <1>1, <1>3, <1>4, <1>5, AppendedWoven
<1>7. Ends(hd, t) /\ hd \in Header /\ hd.up /\ hd.free = list[l].free
  BY <1>1, <1>2, <1>3, AppendedEnds
<1>8. Inserted(t, s, Len(s), a) /\ t \in Seq(Addr)
  BY <1>1, InsertedLast DEF Inserted
<1> HIDE DEF t, hd
<1>9. Linked' /\ NodesOwned' /\ Tidy'
  BY <1>1, <1>2, <1>4, <1>6, <1>7, <1>8, Insertion DEF s
<1>10. ListTypeOK'
  <2>1. heap' \in [Addr -> Node]
    BY <1>6 DEF Woven
  <2> QED BY <1>2, <1>4, <1>7, <1>8, <2>1, TypeAfter DEF ListInv, ListTypeOK
<1>11. Added(l, a, v)
  <2>1. Alloc(l, a, v)
    BY DEF AddNodeTail
  <2>2. Refitted(l)
    BY <1>4, <1>7 DEF Refitted
  <2> QED BY <1>1, <1>4, <1>6, <1>8, <2>1, <2>2 DEF Added, s
<1> QED BY <1>9, <1>10, <1>11 DEF ListInv

\* listInsertNode puts it before or after the i-th.
LEMMA NodeInserted ==
  ASSUME ListInv, NEW l \in Lists, NEW i, NEW a \in Addr, NEW v \in Values,
         NEW after \in BOOLEAN, InsertNode(l, i, a, v, after)
  PROVE  ListInv' /\ Added(l, a, v)
<1> DEFINE s == order[l]
           k == IF after THEN i ELSE i - 1
           t == SubSeq(s, 1, k) \o <<a>> \o SubSeq(s, k + 1, Len(s))
           old == s[i]
           node == IF after THEN [prev |-> old, next |-> heap[old].next, value |-> v]
                            ELSE [prev |-> heap[old].prev, next |-> old, value |-> v]
           hd == [list[l] EXCEPT
                    !.tail = IF after /\ list[l].tail = old THEN a ELSE list[l].tail,
                    !.head = IF ~after /\ list[l].head = old THEN a ELSE list[l].head,
                    !.len = list[l].len + 1]
<1>1. /\ s \in Seq(Addr) /\ Len(s) \in Nat /\ DOMAIN s = 1 .. Len(s)
      /\ Ends(list[l], s) /\ Distinct(s) /\ Chain(heap, s)
      /\ Members(l) \subseteq live /\ \A j \in DOMAIN s : s[j] \in Members(l)
  BY Facts
<1>2. /\ list[l].up /\ a \notin live
      /\ live' = live \cup {a} /\ live' \subseteq Addr /\ pool' \subseteq Values
      /\ iter' = iter /\ seen' = seen
  BY AllocType DEF InsertNode
<1>3. heap \in [Addr -> Node] /\ list[l] \in Header /\ list \in [Lists -> Header]
  BY DEF ListInv, ListTypeOK
<1>4. i \in 1 .. Len(s) /\ k \in 0 .. Len(s) /\ old \in Addr /\ old # a
  BY <1>1, <1>2, ElementOfSeq DEF InsertNode
<1>5. heap' = Told([heap EXCEPT ![a] = node], node, a)
  BY DEF InsertNode
<1>6. order' = [order EXCEPT ![l] = t]
  BY DEF InsertNode
<1>7. list' = [list EXCEPT ![l] = hd]
  BY <1>3 DEF InsertNode
<1>8. node = [prev |-> Place(s, k), next |-> Place(s, k + 1), value |-> v]
  <2>1. heap[old].prev = Place(s, i - 1) /\ heap[old].next = Place(s, i + 1)
    BY <1>1, <1>4 DEF Chain
  <2>2. Place(s, i) = old
    BY <1>1, <1>4 DEF Place
  <2>3. heap[old] \in Node
    BY <1>3, <1>4
  <2>4. k = (IF after THEN i ELSE i - 1) /\ k + 1 = (IF after THEN i + 1 ELSE i)
    BY <1>4
  <2> HIDE DEF old, s, k
  <2> QED BY <1>4, <2>1, <2>2, <2>3, <2>4
<1>9. \A j \in DOMAIN s : s[j] # a
  BY <1>1, <1>2
<1>10. Inserted(t, s, k, a)
  <2> HIDE DEF s, k
  <2> QED BY <1>1, <1>4, InsertedWithin
<1>11. t \in Seq(Addr) /\ Len(t) = Len(s) + 1 /\ DOMAIN t = 1 .. Len(s) + 1
  <2> HIDE DEF t
  <2> QED BY <1>10 DEF Inserted
<1>12. hd \in Header /\ hd.up /\ hd.free = list[l].free
  <2>1. hd.up = list[l].up /\ hd.free = list[l].free
    BY <1>3 DEF Header
  <2>2. list[l].len + 1 \in Nat
    BY <1>3 DEF Header
  <2>3. /\ (IF after /\ list[l].tail = old THEN a ELSE list[l].tail) \in Addr \cup {NULL}
        /\ (IF ~after /\ list[l].head = old THEN a ELSE list[l].head) \in Addr \cup {NULL}
    BY <1>3 DEF Header
  <2>4. hd \in Header
    <3> HIDE DEF old
    <3> QED BY <1>3, <2>2, <2>3 DEF Header
  <2> QED BY <1>2, <2>1, <2>4
<1>13. Ends(hd, t)
  <2>1. /\ hd.len = list[l].len + 1
        /\ hd.tail = IF after /\ list[l].tail = old THEN a ELSE list[l].tail
        /\ hd.head = IF ~after /\ list[l].head = old THEN a ELSE list[l].head
    BY <1>3 DEF Header
  <2>2. list[l].len = Len(s) /\ list[l].head = s[1] /\ list[l].tail = s[Len(s)]
    BY <1>1, <1>4 DEF Ends, Place
  <2>3. (s[1] = old <=> i = 1) /\ (s[Len(s)] = old <=> i = Len(s))
    BY <1>1, <1>4 DEF Distinct
  <2>4. \A j \in 1 .. Len(s) + 1 :
          t[j] = IF j <= k THEN s[j] ELSE IF j = k + 1 THEN a ELSE s[j - 1]
    <3> HIDE DEF t
    <3> QED BY <1>10 DEF Inserted
  <2>5. Place(t, 1) = t[1] /\ Place(t, Len(t)) = t[Len(s) + 1]
    <3> HIDE DEF t
    <3> QED BY <1>1, <1>11 DEF Place
  <2> HIDE DEF t, s, hd, old
  <2>6. t[1] = IF ~after /\ i = 1 THEN a ELSE s[1]
    BY <1>1, <1>4, <2>4
  <2>7. t[Len(s) + 1] = IF after /\ i = Len(s) THEN a ELSE s[Len(s)]
    <3>1. k = Len(s) <=> after /\ i = Len(s)
      <4>1. CASE after
        BY <4>1
      <4>2. CASE ~after
        <5>1. k = i - 1 /\ i - 1 # Len(s)
          BY <1>1, <1>4, <4>2
        <5> QED BY <4>2, <5>1
      <4> QED BY <4>1, <4>2
    <3>2. t[Len(s) + 1] = IF k = Len(s) THEN a ELSE s[Len(s)]
      <4> HIDE DEF k
      <4>1. k \in Int /\ Len(s) \in Nat /\ k <= Len(s)
        BY <1>1, <1>4
      <4>2. Len(s) + 1 \in 1 .. Len(s) + 1
        BY <4>1
      <4>3. ~(Len(s) + 1 <= k) /\ (Len(s) + 1) - 1 = Len(s)
        BY <4>1
      <4>4. Len(s) + 1 = k + 1 <=> k = Len(s)
        BY <4>1
      <4> QED BY <2>4, <4>2, <4>3, <4>4
    <3> QED BY <3>1, <3>2
  <2>8. hd.head = Place(t, 1)
    BY <2>1, <2>2, <2>3, <2>5, <2>6
  <2>9. hd.tail = Place(t, Len(t))
    BY <2>1, <2>2, <2>3, <2>5, <2>7
  <2> QED BY <1>11, <2>1, <2>2, <2>8, <2>9 DEF Ends
<1> HIDE DEF s, node, k, t, hd, old
<1>14. Woven(heap', heap, s, k, a, v)
  BY <1>1, <1>3, <1>4, <1>5, <1>8, <1>9, ToldWoven
<1>15. Linked' /\ NodesOwned' /\ Tidy'
  BY <1>2, <1>4, <1>6, <1>7, <1>10, <1>12, <1>13, <1>14, Insertion DEF s
<1>16. ListTypeOK'
  <2>1. heap' \in [Addr -> Node]
    BY <1>14 DEF Woven
  <2> QED BY <1>2, <1>6, <1>7, <1>11, <1>12, <2>1, TypeAfter DEF ListInv, ListTypeOK
<1>17. Added(l, a, v)
  <2>1. Alloc(l, a, v)
    BY DEF InsertNode
  <2>2. Refitted(l)
    BY <1>7, <1>12 DEF Refitted
  <2> QED BY <1>4, <1>6, <1>10, <1>11, <1>14, <2>1, <2>2 DEF Added, s
<1> QED BY <1>15, <1>16, <1>17 DEF ListInv

--------------------------------------------------------------------------------
(* Deletion and rotation.                                                  *)

\* The types of the iterator and its history, and of what Forget leaves of them.
IterType == [list : Lists \cup {NULL}, next : Addr \cup {NULL}, fromHead : BOOLEAN]
SeenType == [owed : SUBSET Addr, rotated : BOOLEAN, shared : BOOLEAN]

\* Freeing nodes leaves the iterator and its history their types.
LEMMA ForgetType ==
  ASSUME ListInv, NEW ns, Forget(ns)
  PROVE  iter' \in IterType /\ seen' \in SeenType
<1>1. iter \in IterType /\ seen \in SeenType
  BY DEF ListInv, ListTypeOK, IterType, SeenType
<1>2. NoIter \in IterType
  BY DEF NoIter, IterType
<1>3. seen.shared \in BOOLEAN /\ seen.rotated \in BOOLEAN /\ seen.owed \subseteq Addr
  BY <1>1 DEF SeenType
<1>4. CASE iter.next \in ns
  <2>1. iter' = NoIter /\ seen' = [owed |-> {}, rotated |-> FALSE, shared |-> seen.shared]
    BY <1>4 DEF Forget, Unseen
  <2> QED BY <1>2, <1>3, <2>1 DEF SeenType
<1>5. CASE iter.next \notin ns
  <2>1. iter' = iter
        /\ seen' = [owed |-> seen.owed \ ns, rotated |-> seen.rotated, shared |-> seen.shared]
    BY <1>1, <1>5 DEF Forget, SeenType
  <2> QED BY <1>1, <1>3, <2>1 DEF SeenType
<1> QED BY <1>4, <1>5

\* listDelNode: the neighbours of the node point to each other.
LEMMA DelCuts ==
  ASSUME NEW h \in [Addr -> Node], NEW s \in Seq(Addr), NEW i \in DOMAIN s, Chain(h, s),
         NEW g, g = [SetPrev(SetNext(h, h[s[i]].prev, h[s[i]].next), h[s[i]].next, h[s[i]].prev)
                       EXCEPT ![s[i]] = Free]
  PROVE  Cut(g, h, s, i)
<1> DEFINE p == Place(s, i - 1)
           n == Place(s, i + 1)
           h1 == SetNext(h, p, n)
           h2 == SetPrev(h1, n, p)
<1>1. h[s[i]].prev = p /\ h[s[i]].next = n
  BY DEF Chain
<1>2. g = [h2 EXCEPT ![s[i]] = Free]
  BY <1>1
<1>3. p \in Link /\ n \in Link /\ s[i] \in Addr
  BY PlaceType, ElementOfSeq
<1> HIDE DEF p, n
<1>4. NextIs(h1, h, p, n)
  BY <1>3, NextSet
<1> HIDE DEF h1
<1>5. PrevIs(h2, h1, n, p)
  <2>1. h1 \in [Addr -> Node]
    BY <1>4 DEF NextIs
  <2> QED BY <1>3, <2>1, PrevSet
<1> HIDE DEF h2
<1>6. Free \in Node /\ h2 \in [Addr -> Node]
  BY <1>5 DEF Free, Node, PrevIs
<1>7. g \in [Addr -> Node] /\ \A x \in Addr \ {s[i]} : g[x] = h2[x]
  BY <1>2, <1>3, <1>6
<1>8. \A x \in Addr \ {s[i]} :
        /\ g[x].next = IF x = p THEN n ELSE h[x].next
        /\ g[x].prev = IF x = n THEN p ELSE h[x].prev
        /\ g[x].value = h[x].value
  BY <1>4, <1>5, <1>7 DEF NextIs, PrevIs
<1> QED BY <1>7, <1>8 DEF Cut, p, n

\* What it does: the i-th node leaves the list, with its value if the list frees it.
Deleted(l, i) ==
  /\ i \in DOMAIN order[l] /\ Forget({order[l][i]}) /\ Refitted(l)
  /\ \E t \in Seq(Addr) : Removed(t, order[l], i) /\ order' = [order EXCEPT ![l] = t]
  /\ Cut(heap', heap, order[l], i)
  /\ pool' = IF list[l].free THEN pool \ {heap[order[l][i]].value} ELSE pool

\* listDelNode does that, and keeps the lists well made.
LEMMA NodeDeleted ==
  ASSUME ListInv, NEW l \in Lists, NEW i, DelNode(l, i)
  PROVE  ListInv' /\ Deleted(l, i)
<1> DEFINE s == order[l]
           n == s[i]
           t == SubSeq(s, 1, i - 1) \o SubSeq(s, i + 1, Len(s))
           first == IF heap[n].prev = NULL THEN heap[n].next ELSE list[l].head
           last == IF heap[n].next = NULL THEN heap[n].prev ELSE list[l].tail
           hd == Headed(list[l], first, last, list[l].len - 1)
<1>1. /\ s \in Seq(Addr) /\ Len(s) \in Nat /\ DOMAIN s = 1 .. Len(s)
      /\ Ends(list[l], s) /\ Distinct(s) /\ Chain(heap, s)
      /\ Members(l) \subseteq Addr /\ Members(l) \subseteq live
      /\ \A j \in DOMAIN s : s[j] \in Members(l)
  BY Facts
<1>2. heap \in [Addr -> Node] /\ list[l] \in Header /\ list \in [Lists -> Header]
  BY DEF ListInv, ListTypeOK
<1>3. i \in DOMAIN s /\ i \in 1 .. Len(s) /\ n \in Addr /\ n \in Members(l)
  BY <1>1 DEF DelNode
<1>4. heap[n].prev = Place(s, i - 1) /\ heap[n].next = Place(s, i + 1)
  BY <1>1, <1>3 DEF Chain
<1>5. Cut(heap', heap, s, i)
  <2>1. heap' = [SetPrev(SetNext(heap, heap[s[i]].prev, heap[s[i]].next),
                         heap[s[i]].next, heap[s[i]].prev) EXCEPT ![s[i]] = Free]
    BY DEF DelNode
  <2> HIDE DEF s
  <2> QED BY <1>1, <1>2, <1>3, <2>1, DelCuts
<1>6. order' = [order EXCEPT ![l] = t] /\ Removed(t, s, i)
  <2>1. order' = [order EXCEPT ![l] = t]
    BY DEF DelNode
  <2>2. Removed(t, s, i)
    BY <1>1, <1>3, RemovedWithin
  <2> QED BY <2>1, <2>2
<1>7. list' = [list EXCEPT ![l] = hd]
  <2>1. hd = [list[l] EXCEPT !.head = first, !.tail = last, !.len = list[l].len - 1]
    <3> DEFINE new == [list[l] EXCEPT !.head = first, !.tail = last, !.len = list[l].len - 1]
    <3> HIDE DEF first, last
    <3>1. new = Headed(list[l], first, last, list[l].len - 1)
      <4>1. \A g : g = new => g = Headed(list[l], first, last, list[l].len - 1)
        BY <1>2, HeadedIs
      <4> QED BY <4>1
    <3> QED BY <3>1
  <2>2. list' = [list EXCEPT ![l].head = first, ![l].tail = last, ![l].len = @ - 1]
    BY <1>2 DEF DelNode, Header
  <2> HIDE DEF hd, first, last
  <2> QED BY <1>2, <2>1, <2>2
<1>8. live' = live \ {n} /\ live' \subseteq Addr /\ pool' \subseteq Values
  BY DEF DelNode, ListInv, ListTypeOK
<1>9. iter' \in IterType /\ seen' \in SeenType
  <2>1. Forget({n})
    BY DEF DelNode
  <2> QED BY <2>1, ForgetType
<1> HIDE DEF t
<1>10. /\ t \in Seq(Addr) /\ Len(t) = Len(s) - 1 /\ DOMAIN t = 1 .. Len(s) - 1
       /\ \A j \in 1 .. Len(s) - 1 : t[j] = IF j < i THEN s[j] ELSE s[j + 1]
  BY <1>1, <1>6 DEF Removed
<1>11. list[l].len = Len(s) /\ list[l].head = Place(s, 1) /\ list[l].tail = Place(s, Len(s))
  BY <1>1 DEF Ends
<1>12. hd.head = Place(t, 1)
  <2>1. hd.head = IF Place(s, i - 1) = NULL THEN Place(s, i + 1) ELSE Place(s, 1)
    BY <1>4, <1>11 DEF Headed
  <2>2. Place(s, i - 1) = NULL <=> i = 1
    BY <1>1, <1>3, ListAssumption DEF Place
  <2> HIDE DEF s, hd
  <2>3. CASE i = 1
    BY <1>1, <1>3, <1>10, <2>1, <2>2, <2>3 DEF Place
  <2>4. CASE i # 1
    BY <1>1, <1>3, <1>10, <2>1, <2>2, <2>4 DEF Place
  <2> QED BY <2>3, <2>4
<1>13. hd.tail = Place(t, Len(t))
  <2>1. hd.tail = IF Place(s, i + 1) = NULL THEN Place(s, i - 1) ELSE Place(s, Len(s))
    BY <1>4, <1>11 DEF Headed
  <2>2. Place(s, i + 1) = NULL <=> i = Len(s)
    BY <1>1, <1>3, ListAssumption DEF Place
  <2> HIDE DEF s, hd
  <2>3. CASE i = Len(s)
    BY <1>1, <1>3, <1>10, <2>1, <2>2, <2>3 DEF Place
  <2>4. CASE i # Len(s)
    BY <1>1, <1>3, <1>10, <2>1, <2>2, <2>4 DEF Place
  <2> QED BY <2>3, <2>4
<1>14. hd \in Header /\ Ends(hd, t)
  <2>1. hd.head \in Link /\ hd.tail \in Link /\ list[l].len - 1 \in Nat
    <3> HIDE DEF hd
    <3> QED BY <1>1, <1>3, <1>10, <1>11, <1>12, <1>13, PlaceType
  <2>2. hd = Headed(list[l], hd.head, hd.tail, list[l].len - 1) /\ hd.len = list[l].len - 1
    BY DEF Headed
  <2> HIDE DEF hd
  <2>3. hd \in Header
    BY <1>2, <2>1, <2>2, HeaderSet
  <2> QED BY <1>10, <1>11, <1>12, <1>13, <2>2, <2>3 DEF Ends
<1> HIDE DEF s
<1>26. Deleted(l, i)
  <2>1. /\ Forget({order[l][i]})
        /\ pool' = IF list[l].free THEN pool \ {heap[order[l][i]].value} ELSE pool
    BY DEF DelNode
  <2>2. hd.free = list[l].free
    BY DEF Headed
  <2> HIDE DEF hd
  <2>3. Refitted(l)
    BY <1>7, <2>2 DEF Refitted
  <2> QED BY <1>3, <1>5, <1>6, <1>10, <2>1, <2>3 DEF Deleted, s
<1>15. Chain(heap', t) /\ Distinct(t)
  BY <1>1, <1>3, <1>5, <1>6, ChainCut
<1>16. \A j \in DOMAIN t : \E k \in DOMAIN s : t[j] = s[k] /\ k # i
  <2> SUFFICES ASSUME NEW j \in DOMAIN t PROVE \E k \in DOMAIN s : t[j] = s[k] /\ k # i
    OBVIOUS
  <2>1. CASE j < i
    BY <1>1, <1>3, <1>10, <2>1
  <2>2. CASE j >= i
    <3>1. t[j] = s[j + 1] /\ j + 1 \in DOMAIN s /\ j + 1 # i
      BY <1>1, <1>3, <1>10, <2>2
    <3> QED BY <3>1
  <2> QED BY <1>3, <1>10, <2>1, <2>2
<1>17. \A j \in DOMAIN t : t[j] \in Members(l) /\ t[j] # n
  BY <1>1, <1>3, <1>16 DEF Distinct
<1>18. live' = (live \ Members(l)) \cup {t[j] : j \in DOMAIN t}
  <2>1. ASSUME NEW x \in Members(l), x # n PROVE \E j \in DOMAIN t : x = t[j]
    <3>1. PICK k \in DOMAIN s : x = s[k]
      BY DEF Members, s
    <3>2. CASE k < i
      <4>1. k \in DOMAIN t /\ x = t[k]
        BY <1>1, <1>3, <1>10, <3>1, <3>2
      <4> QED BY <4>1
    <3>3. CASE k > i
      <4>1. k - 1 \in DOMAIN t /\ x = t[k - 1]
        BY <1>1, <1>3, <1>10, <3>1, <3>3
      <4> QED BY <4>1
    <3> QED BY <1>1, <1>3, <2>1, <3>1, <3>2, <3>3
  <2>2. ASSUME NEW x \in live' PROVE x \in (live \ Members(l)) \cup {t[j] : j \in DOMAIN t}
    BY <1>8, <2>1, <2>2
  <2>3. ASSUME NEW x \in (live \ Members(l)) \cup {t[j] : j \in DOMAIN t} PROVE x \in live'
    BY <1>1, <1>3, <1>8, <1>17, <2>3
  <2> QED BY <2>2, <2>3
<1>19. ASSUME NEW m \in Lists \ {l}, NEW x \in Members(m) PROVE heap'[x] = heap[x]
  <2>1. x \in Addr /\ x # NULL /\ x \notin Members(l)
    BY Facts, Apart, ListAssumption DEF ListInv
  <2>2. x # n /\ x # Place(s, i - 1) /\ x # Place(s, i + 1)
    BY <1>1, <1>3, <2>1 DEF Place
  <2>3. heap'[x].next = heap[x].next /\ heap'[x].prev = heap[x].prev
        /\ heap'[x].value = heap[x].value
    BY <1>5, <2>1, <2>2 DEF Cut
  <2>4. heap'[x] \in Node /\ heap[x] \in Node
    BY <1>2, <1>5, <2>1 DEF Cut
  <2> QED BY <2>3, <2>4, SameNode
<1>20. \A j \in DOMAIN t : heap'[t[j]].value \in Values
  <2>1. \A x \in Addr \ {n} : heap'[x].value = heap[x].value
    BY <1>5 DEF Cut
  <2> QED BY <1>1, <1>17, <2>1 DEF ListInv, Tidy
<1>21. hd.up \/ t = <<>>
  <2>1. s # <<>>
    BY <1>1, <1>3
  <2> QED BY <2>1 DEF ListInv, Tidy, Headed, s
<1> HIDE DEF hd
<1>22. Linked'
  BY <1>6, <1>7, <1>14, <1>15, <1>19, LinkedAfter
<1>23. NodesOwned'
  BY <1>6, <1>10, <1>15, <1>17, <1>18, OwnedAfter
<1>24. Tidy'
  BY <1>6, <1>7, <1>18, <1>19, <1>20, <1>21, TidyAfter
<1>25. ListTypeOK'
  <2>1. heap' \in [Addr -> Node]
    BY <1>5 DEF Cut
  <2> QED BY <1>6, <1>7, <1>8, <1>9, <1>10, <1>14, <2>1, TypeAfter DEF IterType, SeenType
<1> QED BY <1>22, <1>23, <1>24, <1>25, <1>26 DEF ListInv
\* g is h with the last of the n nodes of s before the first.
Turned(g, h, s, n) ==
  /\ g \in [Addr -> Node]
  /\ g[s[n]].prev = NULL /\ g[s[n]].next = s[1] /\ g[s[n]].value = h[s[n]].value
  /\ \A x \in Addr \ {s[n]} :
       /\ g[x].next = IF x = s[n - 1] THEN NULL ELSE h[x].next
       /\ g[x].prev = IF x = s[1] THEN s[n] ELSE h[x].prev
       /\ g[x].value = h[x].value

\* A node with other pointers.
LEMMA NodeSet ==
  ASSUME NEW c \in Node, NEW x \in Link, NEW y \in Link,
         NEW d, d = [c EXCEPT !.prev = x, !.next = y]
  PROVE  d = [prev |-> x, next |-> y, value |-> c.value]
BY DEF Node

\* g is h but for the pointers of node z.
BothAre(g, h, z, x, y) ==
  /\ g \in [Addr -> Node] /\ \A a \in Addr \ {z} : g[a] = h[a]
  /\ g[z].prev = x /\ g[z].next = y /\ g[z].value = h[z].value

\* The pointers of one node are set.
LEMMA BothSet ==
  ASSUME NEW h \in [Addr -> Node], NEW z \in Addr, NEW x \in Link, NEW y \in Link,
         NEW g, g = [h EXCEPT ![z].prev = x, ![z].next = y]
  PROVE  BothAre(g, h, z, x, y)
<1> DEFINE d == [prev |-> x, next |-> y, value |-> h[z].value]
<1>1. h[z] \in Node
  OBVIOUS
<1>2. [h[z] EXCEPT !.prev = x, !.next = y] = d
  BY <1>1, NodeSet
<1>3. g = [h EXCEPT ![z] = [h[z] EXCEPT !.prev = x, !.next = y]]
  OBVIOUS
<1>4. d \in Node /\ d.prev = x /\ d.next = y /\ d.value = h[z].value
  BY <1>1 DEF Node, Link
<1>5. g = [h EXCEPT ![z] = d]
  BY <1>2, <1>3
<1> HIDE DEF d
<1> QED BY <1>4, <1>5 DEF BothAre

\* listRotate sets four pointers.
LEMMA RotateTurns ==
  ASSUME NEW h \in [Addr -> Node], NEW s \in Seq(Addr), Len(s) > 1, Chain(h, s),
         NEW z, z = s[Len(s)], NEW y, y = s[1]
  PROVE  \A g : g = [SetPrev(SetNext(h, h[z].prev, NULL), y, z)
                       EXCEPT ![z].prev = NULL, ![z].next = y] => Turned(g, h, s, Len(s))
<1> DEFINE n == Len(s)
           p == s[n - 1]
           h1 == SetNext(h, p, NULL)
           h2 == SetPrev(h1, y, z)
<1>1. /\ n \in Nat /\ n > 1 /\ DOMAIN s = 1 .. n /\ \A j \in 1 .. n : s[j] \in Addr
  OBVIOUS
<1>2. h[z].prev = p
  <2>1. n \in DOMAIN s /\ n - 1 \in DOMAIN s
    BY <1>1
  <2>2. h[s[n]].prev = Place(s, n - 1)
    BY <2>1 DEF Chain
  <2> QED BY <2>1, <2>2 DEF Place
<1>3. z \in Addr /\ y \in Link /\ z \in Link /\ p \in Link /\ NULL \in Link
  BY <1>1 DEF Link
<1> HIDE DEF p
<1>4. NextIs(h1, h, p, NULL)
  BY <1>3, NextSet
<1> HIDE DEF h1
<1>5. h1 \in [Addr -> Node]
  BY <1>4 DEF NextIs
<1>6. PrevIs(h2, h1, y, z)
  BY <1>3, <1>5, PrevSet
<1> HIDE DEF h2
<1>7. h2 \in [Addr -> Node]
  BY <1>6 DEF PrevIs
<1>8. \A x \in Addr : /\ h2[x].next = IF x = p THEN NULL ELSE h[x].next
                      /\ h2[x].prev = IF x = y THEN z ELSE h[x].prev
                      /\ h2[x].value = h[x].value
  BY <1>4, <1>6 DEF NextIs, PrevIs
<1>9. ASSUME NEW g, g = [h2 EXCEPT ![z].prev = NULL, ![z].next = y] PROVE Turned(g, h, s, n)
  <2>1. /\ g \in [Addr -> Node] /\ \A a \in Addr \ {z} : g[a] = h2[a]
        /\ g[z].prev = NULL /\ g[z].next = y /\ g[z].value = h2[z].value
    <3>1. BothAre(g, h2, z, NULL, y)
      BY <1>3, <1>7, <1>9, BothSet
    <3> QED BY <3>1 DEF BothAre
  <2>2. /\ g[z].value = h[z].value
        /\ \A x \in Addr \ {z} :
             /\ g[x].next = IF x = p THEN NULL ELSE h[x].next
             /\ g[x].prev = IF x = y THEN z ELSE h[x].prev
             /\ g[x].value = h[x].value
    BY <1>3, <1>8, <2>1
  <2> QED BY <2>1, <2>2 DEF Turned, p
<1> QED BY <1>2, <1>9 DEF h1, h2

\* And keeps the nodes linked as they come.
LEMMA ChainTurned ==
  ASSUME NEW s \in Seq(Addr), NEW n, n = Len(s), n > 1, Distinct(s),
         NEW h \in [Addr -> Node], Chain(h, s), NEW g, Turned(g, h, s, n),
         NEW t \in Seq(Addr), Len(t) = n,
         \A j \in 1 .. n : t[j] = IF j = 1 THEN s[n] ELSE s[j - 1]
  PROVE  Chain(g, t) /\ Distinct(t)
<1>1. /\ n \in Nat /\ DOMAIN s = 1 .. n /\ DOMAIN t = 1 .. n
      /\ \A j \in 1 .. n : s[j] \in Addr
  OBVIOUS
<1>2. \A i, j \in 1 .. n : s[i] = s[j] => i = j
  BY <1>1 DEF Distinct
<1>3. \A i \in 1 .. n : h[s[i]].prev = Place(s, i - 1) /\ h[s[i]].next = Place(s, i + 1)
  BY <1>1 DEF Chain
<1>4. t[1] = s[n] /\ \A j \in 2 .. n : t[j] = s[j - 1] /\ j - 1 \in 1 .. n
  BY <1>1
<1>5. \A j \in 2 .. n : s[j - 1] # s[n] /\ s[j - 1] \in Addr
  BY <1>1, <1>2
<1>6. ASSUME NEW i \in 1 .. n, NEW j \in 1 .. n, t[i] = t[j] PROVE i = j
  <2>1. CASE i = 1 \/ j = 1
    BY <1>1, <1>4, <1>5, <1>6, <2>1
  <2>2. CASE i # 1 /\ j # 1
    <3>1. i - 1 \in 1 .. n /\ j - 1 \in 1 .. n /\ s[i - 1] = s[j - 1]
      BY <1>1, <1>4, <1>6, <2>2
    <3>2. i - 1 = j - 1
      BY <1>2, <3>1
    <3> QED BY <3>2
  <2> QED BY <2>1, <2>2
<1>7. ASSUME NEW j \in 1 .. n PROVE g[t[j]].prev = Place(t, j - 1)
  <2>0. g[s[n]].prev = NULL
        /\ \A x \in Addr \ {s[n]} : g[x].prev = IF x = s[1] THEN s[n] ELSE h[x].prev
    BY DEF Turned
  <2>1. CASE j = 1
    <3>1. 0 \notin DOMAIN t
      BY <1>1
    <3> QED BY <1>4, <2>0, <2>1, <3>1 DEF Place
  <2>2. CASE j = 2
    <3>1. t[2] = s[1] /\ s[1] # s[n] /\ s[1] \in Addr
      BY <1>1, <1>4, <1>5
    <3>2. 1 \in DOMAIN t
      BY <1>1
    <3> QED BY <1>4, <2>0, <2>2, <3>1, <3>2 DEF Place
  <2>3. CASE j > 2
    <3>1. t[j] = s[j - 1] /\ s[j - 1] # s[n] /\ s[j - 1] \in Addr
      BY <1>1, <1>4, <1>5, <2>3
    <3>2. s[j - 1] # s[1]
      BY <1>1, <1>2, <2>3
    <3>3. h[s[j - 1]].prev = Place(s, (j - 1) - 1)
      BY <1>1, <1>3, <2>3
    <3>4. Place(s, (j - 1) - 1) = s[j - 2] /\ Place(t, j - 1) = t[j - 1] /\ t[j - 1] = s[j - 2]
      BY <1>1, <2>3 DEF Place
    <3> QED BY <2>0, <3>1, <3>2, <3>3, <3>4
  <2> QED BY <1>1, <2>1, <2>2, <2>3
<1>8. ASSUME NEW j \in 1 .. n PROVE g[t[j]].next = Place(t, j + 1)
  <2>0. g[s[n]].next = s[1]
        /\ \A x \in Addr \ {s[n]} : g[x].next = IF x = s[n - 1] THEN NULL ELSE h[x].next
    BY DEF Turned
  <2>1. CASE j = 1
    <3>1. 2 \in DOMAIN t /\ t[2] = s[1]
      BY <1>1, <1>4
    <3> QED BY <1>4, <2>0, <2>1, <3>1 DEF Place
  <2>2. CASE j = n
    <3>1. t[n] = s[n - 1] /\ s[n - 1] # s[n] /\ s[n - 1] \in Addr
      BY <1>1, <1>4, <1>5
    <3>2. n + 1 \notin DOMAIN t
      BY <1>1
    <3> QED BY <2>0, <2>2, <3>1, <3>2 DEF Place
  <2>3. CASE j > 1 /\ j < n
    <3>1. t[j] = s[j - 1] /\ s[j - 1] # s[n] /\ s[j - 1] \in Addr
      BY <1>1, <1>4, <1>5, <2>3
    <3>2. s[j - 1] # s[n - 1]
      <4>1. j - 1 \in 1 .. n /\ n - 1 \in 1 .. n /\ j - 1 # n - 1
        BY <1>1, <2>3
      <4> QED BY <1>2, <4>1
    <3>3. h[s[j - 1]].next = Place(s, (j - 1) + 1)
      BY <1>1, <1>3, <2>3
    <3>4. Place(s, (j - 1) + 1) = s[j] /\ Place(t, j + 1) = t[j + 1] /\ t[j + 1] = s[j]
      BY <1>1, <2>3 DEF Place
    <3> QED BY <2>0, <3>1, <3>2, <3>3, <3>4
  <2> QED BY <1>1, <2>1, <2>2, <2>3
<1> QED BY <1>1, <1>6, <1>7, <1>8 DEF Chain, Distinct

\* The history of an iterator whose list is turned.
LEMMA SeenSet ==
  ASSUME NEW c \in SeenType, NEW g, g = [c EXCEPT !.rotated = TRUE, !.owed = {}]
  PROVE  g = [owed |-> {}, rotated |-> TRUE, shared |-> c.shared]
BY DEF SeenType

\* The nodes of a list are the same, in another order, with the same values.
Reordered(l) ==
  /\ Refitted(l) /\ pool' = pool /\ order' = [order EXCEPT ![l] = order'[l]]
  /\ \A x \in Addr : heap'[x].value = heap[x].value
  /\ \A m \in Lists : Members(m)' = Members(m)

\* listRotate does that.
LEMMA Rotated ==
  ASSUME ListInv, NEW l \in Lists, Rotate(l)
  PROVE  ListInv' /\ Reordered(l)
<1> DEFINE s == order[l]
           t == <<s[Len(s)]>> \o SubSeq(s, 1, Len(s) - 1)
           tail == list[l].tail
           head == list[l].head
           cut == SetPrev(SetNext(heap, heap[tail].prev, NULL), head, tail)
           hd == [list[l] EXCEPT !.tail = heap[tail].prev, !.head = tail]
<1>1. /\ s \in Seq(Addr) /\ Len(s) \in Nat /\ DOMAIN s = 1 .. Len(s)
      /\ Ends(list[l], s) /\ Distinct(s) /\ Chain(heap, s)
      /\ Members(l) \subseteq Addr /\ Members(l) \subseteq live
      /\ \A j \in DOMAIN s : s[j] \in Members(l)
  BY Facts
<1>2. heap \in [Addr -> Node] /\ list[l] \in Header /\ list \in [Lists -> Header]
  BY DEF ListInv, ListTypeOK
<1>3. Len(s) > 1 /\ list[l].up
  BY <1>1 DEF Rotate, Ends
<1>4. head = s[1] /\ tail = s[Len(s)] /\ list[l].len = Len(s)
  BY <1>1, <1>3 DEF Ends, Place
<1>5. heap[tail].prev = s[Len(s) - 1]
  <2>1. Len(s) \in DOMAIN s /\ Len(s) - 1 \in DOMAIN s
    BY <1>1, <1>3
  <2>2. heap[s[Len(s)]].prev = Place(s, Len(s) - 1)
    BY <1>1, <2>1 DEF Chain
  <2> QED BY <1>4, <2>1, <2>2 DEF Place
<1>6. heap' = [cut EXCEPT ![tail].prev = NULL, ![tail].next = head]
  BY DEF Rotate
<1>7. order' = [order EXCEPT ![l] = t]
  BY DEF Rotate
<1>8. list' = [list EXCEPT ![l] = hd]
  <2>1. list' = [list EXCEPT ![l].tail = heap[tail].prev, ![l].head = tail]
    BY DEF Rotate
  <2> HIDE DEF tail
  <2> QED BY <1>2, <2>1
<1>9. /\ t \in Seq(Addr) /\ Len(t) = Len(s) /\ DOMAIN t = 1 .. Len(s)
      /\ \A j \in 1 .. Len(s) : t[j] = IF j = 1 THEN s[Len(s)] ELSE s[j - 1]
  BY <1>1, <1>3, RotatedFirst
<1> HIDE DEF t, s
<1>10. Turned(heap', heap, s, Len(s))
  BY <1>1, <1>2, <1>3, <1>4, <1>6, RotateTurns
<1>26. Chain(heap', t) /\ Distinct(t)
  BY <1>1, <1>2, <1>3, <1>9, <1>10, ChainTurned
<1>27. heap' \in [Addr -> Node] /\ \A x \in Addr : heap'[x].value = heap[x].value
  BY <1>10 DEF Turned
<1>11. live' = live /\ pool' = pool /\ iter' = iter
  BY DEF Rotate
<1>12. seen' \in SeenType
  <2>1. seen \in SeenType
    BY DEF ListInv, ListTypeOK, SeenType
  <2>2. seen' = seen \/ seen' = [seen EXCEPT !.rotated = TRUE, !.owed = {}]
    BY DEF Rotate
  <2>3. \A g : g = [seen EXCEPT !.rotated = TRUE, !.owed = {}] =>
               g = [owed |-> {}, rotated |-> TRUE, shared |-> seen.shared]
    BY <2>1, SeenSet
  <2>4. seen.shared \in BOOLEAN
    BY <2>1 DEF SeenType
  <2>5. [owed |-> {}, rotated |-> TRUE, shared |-> seen.shared] \in SeenType
    BY <2>4 DEF SeenType
  <2> QED BY <2>1, <2>2, <2>3, <2>5
<1>13. /\ hd.len = Len(s) /\ hd.up = list[l].up
       /\ hd.head = s[Len(s)] /\ hd.tail = s[Len(s) - 1]
  BY <1>2, <1>4, <1>5 DEF Header
<1>14. hd = Headed(list[l], s[Len(s)], s[Len(s) - 1], Len(s))
  <2>1. \A g : g = [list[l] EXCEPT !.tail = heap[tail].prev, !.head = tail] =>
          g = [up |-> list[l].up, head |-> tail, tail |-> heap[tail].prev,
               len |-> list[l].len, dup |-> list[l].dup, free |-> list[l].free]
    <3> HIDE DEF tail
    <3> QED BY <1>2, TwoSet
  <2> QED BY <1>4, <1>5, <2>1 DEF Headed
<1>15. hd \in Header /\ hd.up /\ hd.free = list[l].free
  <2>1. s[Len(s)] \in Link /\ s[Len(s) - 1] \in Link
    BY <1>1, <1>3 DEF Link
  <2> HIDE DEF hd
  <2> QED BY <1>1, <1>2, <1>3, <1>13, <1>14, <2>1, HeaderSet DEF Headed
<1>16. Ends(hd, t)
  <2> HIDE DEF hd
  <2>1. Place(t, 1) = s[Len(s)] /\ Place(t, Len(t)) = s[Len(s) - 1]
    BY <1>1, <1>3, <1>9 DEF Place
  <2> QED BY <1>9, <1>13, <2>1 DEF Ends
<1> HIDE DEF hd
<1>17. \A j \in DOMAIN t : t[j] \in Members(l)
  BY <1>1, <1>3, <1>9
<1>18. \A x \in Members(l) : \E j \in DOMAIN t : x = t[j]
  <2> SUFFICES ASSUME NEW x \in Members(l) PROVE \E j \in DOMAIN t : x = t[j]
    OBVIOUS
  <2>1. PICK k \in DOMAIN s : x = s[k]
    BY DEF Members, s
  <2>2. CASE k = Len(s)
    <3>1. 1 \in DOMAIN t /\ x = t[1]
      BY <1>1, <1>3, <1>9, <2>1, <2>2
    <3> QED BY <3>1
  <2>3. CASE k # Len(s)
    <3>1. k + 1 \in DOMAIN t /\ x = t[k + 1]
      BY <1>1, <1>9, <2>1, <2>3
    <3> QED BY <3>1
  <2> QED BY <2>2, <2>3
<1>19. live' = (live \ Members(l)) \cup {t[j] : j \in DOMAIN t}
  <2>1. ASSUME NEW x \in live' PROVE x \in (live \ Members(l)) \cup {t[j] : j \in DOMAIN t}
    BY <1>11, <1>18, <2>1
  <2>2. ASSUME NEW x \in (live \ Members(l)) \cup {t[j] : j \in DOMAIN t} PROVE x \in live'
    BY <1>1, <1>11, <1>17, <2>2
  <2> QED BY <2>1, <2>2
<1>20. ASSUME NEW m \in Lists \ {l}, NEW x \in Members(m) PROVE heap'[x] = heap[x]
  <2>1. x \in Addr /\ x \notin Members(l)
    BY Facts, Apart DEF ListInv
  <2>2. x # s[Len(s)] /\ x # s[Len(s) - 1] /\ x # s[1]
    BY <1>1, <1>3, <2>1
  <2>3. heap'[x].next = heap[x].next /\ heap'[x].prev = heap[x].prev
        /\ heap'[x].value = heap[x].value
    BY <1>10, <2>1, <2>2 DEF Turned
  <2>4. heap'[x] \in Node /\ heap[x] \in Node
    BY <1>2, <1>27, <2>1
  <2> QED BY <2>3, <2>4, SameNode
<1>21. \A j \in DOMAIN t : heap'[t[j]].value \in Values
  BY <1>1, <1>17, <1>27 DEF ListInv, Tidy
<1>22. Linked'
  BY <1>7, <1>8, <1>16, <1>20, <1>26, LinkedAfter
<1>23. NodesOwned'
  BY <1>7, <1>9, <1>17, <1>19, <1>26, OwnedAfter
<1>24. Tidy'
  BY <1>7, <1>8, <1>15, <1>19, <1>20, <1>21, TidyAfter
<1>25. ListTypeOK'
  BY <1>7, <1>8, <1>9, <1>11, <1>12, <1>15, <1>27, TypeAfter DEF SeenType, ListInv, ListTypeOK
<1>28. Reordered(l)
  <2>1. Refitted(l)
    BY <1>8, <1>15 DEF Refitted
  <2>2. order \in [Lists -> Seq(Addr)]
    BY DEF ListInv, ListTypeOK
  <2>3. \A m \in Lists : order'[m] = IF m = l THEN t ELSE order[m]
    BY <1>7, <2>2
  <2>4. order' = [order EXCEPT ![l] = order'[l]]
    BY <1>7, <2>2, <2>3
  <2>5. ASSUME NEW m \in Lists PROVE Members(m)' = Members(m)
    <3>1. CASE m = l
      <4>1. Members(l)' = {t[j] : j \in DOMAIN t}
        BY <2>3 DEF Members
      <4>2. \A x \in Members(l) : x \in Members(l)'
        BY <1>18, <4>1
      <4>3. \A x \in Members(l)' : x \in Members(l)
        BY <1>17, <4>1
      <4> QED BY <3>1, <4>2, <4>3
    <3>2. CASE m # l
      BY <2>3, <3>2 DEF Members
    <3> QED BY <3>1, <3>2
  <2>6. pool' = pool
    BY <1>11
  <2> QED BY <1>27, <2>1, <2>4, <2>5, <2>6 DEF Reordered
<1> QED BY <1>22, <1>23, <1>24, <1>25, <1>28 DEF ListInv
--------------------------------------------------------------------------------
(* Walks along the pointers.                                               *)

\* The number of addresses is a number, and no sequence of different nodes is longer.
LEMMA NoLonger ==
  ASSUME NEW s \in Seq(Addr), Distinct(s)
  PROVE  Cardinality(Addr) \in Nat /\ Len(s) <= Cardinality(Addr)
<1>1. IsFiniteSet(Addr) /\ Cardinality(Addr) \in Nat
  BY ListAssumption, FS_CardinalityType
<1>2. Len(s) \in Nat /\ DOMAIN s = 1 .. Len(s)
  OBVIOUS
<1>3. s \in [1 .. Len(s) -> Addr]
  BY <1>2
<1>4. s \in Injection(1 .. Len(s), Addr)
  BY <1>2, <1>3 DEF Injection, IsInjective, Distinct
<1>5. Cardinality(1 .. Len(s)) <= Cardinality(Addr)
  BY <1>1, <1>4, FS_Injection
<1>6. Cardinality(1 .. Len(s)) = Len(s)
  BY <1>2, FS_Interval
<1> QED BY <1>1, <1>5, <1>6

\* Nor is a list.
LEMMA Bounded ==
  ASSUME ListInv, NEW l \in Lists
  PROVE  Cardinality(Addr) \in Nat /\ Len(order[l]) <= Cardinality(Addr)
BY Facts, NoLonger

\* What a walk in heap h must do at step k, to be the walk from n.
Walk(h, g, n, forward) ==
  g = [k \in 0 .. Cardinality(Addr) |->
         IF k = 0 THEN n
         ELSE IF g[k - 1] = NULL THEN NULL
         ELSE IF forward THEN h[g[k - 1]].next ELSE h[g[k - 1]].prev]

\* There is one walk from n, the one that Steps takes.
LEMMA OneWalk ==
  ASSUME NEW h, NEW n, NEW forward \in BOOLEAN, NEW g, Walk(h, g, n, forward),
         Cardinality(Addr) \in Nat
  PROVE  Steps(h, n, forward) = g
<1> DEFINE N == Cardinality(Addr)
           f == Steps(h, n, forward)
           Onwards(m) == IF m = NULL THEN NULL
                         ELSE IF forward THEN h[m].next ELSE h[m].prev
           Bad == {k \in 0 .. N : f[k] # g[k]}
<1>1. f = CHOOSE w : Walk(h, w, n, forward)
  BY DEF Steps, Walk
<1>2. Walk(h, f, n, forward)
  BY <1>1
<1>3. f = [k \in 0 .. N |-> IF k = 0 THEN n ELSE Onwards(f[k - 1])]
  BY <1>2 DEF Walk
<1>4. g = [k \in 0 .. N |-> IF k = 0 THEN n ELSE Onwards(g[k - 1])]
  BY DEF Walk
<1> HIDE DEF f, Onwards
<1>5. Bad = {}
  <2> SUFFICES ASSUME Bad # {} PROVE FALSE
    OBVIOUS
  <2>1. Bad \subseteq Nat
    OBVIOUS
  <2>2. PICK k \in Bad : \A j \in Bad : k <= j
    <3> HIDE DEF Bad
    <3> QED BY <2>1, Least
  <2>3. k \in 0 .. N /\ f[k] # g[k]
    OBVIOUS
  <2>4. k # 0
    BY <1>3, <1>4, <2>3
  <2>5. k - 1 \in 0 .. N /\ k - 1 \notin Bad
    BY <2>2, <2>3, <2>4
  <2>6. f[k - 1] = g[k - 1]
    BY <2>5
  <2>7. f[k] = Onwards(f[k - 1]) /\ g[k] = Onwards(g[k - 1])
    BY <1>3, <1>4, <2>3, <2>4
  <2> QED BY <2>3, <2>6, <2>7
<1>6. \A k \in 0 .. N : f[k] = g[k]
  BY <1>5
<1>7. f = g
  BY <1>3, <1>4, <1>6
<1> QED BY <1>7 DEF f

\* From the first node of a chain the walk meets its nodes in order, then NULL.
LEMMA StepsAlong ==
  ASSUME NEW h, NEW s \in Seq(Addr), Chain(h, s), NEW first, first = Place(s, 1)
  PROVE  /\ DOMAIN Steps(h, first, TRUE) = 0 .. Cardinality(Addr)
         /\ \A k \in 0 .. Cardinality(Addr) : Steps(h, first, TRUE)[k] = Place(s, k + 1)
<1> DEFINE N == Cardinality(Addr)
           g == [k \in 0 .. N |-> Place(s, k + 1)]
<1>1. Len(s) \in Nat /\ DOMAIN s = 1 .. Len(s)
  OBVIOUS
<1>2. N \in Nat
  BY ListAssumption, FS_CardinalityType
<1>3. \A i \in 1 .. Len(s) : s[i] # NULL
  BY <1>1, ElementOfSeq, ListAssumption
<1>4. ASSUME NEW k \in 0 .. N
      PROVE  g[k] = IF k = 0 THEN first
                    ELSE IF g[k - 1] = NULL THEN NULL
                    ELSE IF TRUE THEN h[g[k - 1]].next ELSE h[g[k - 1]].prev
  <2>1. CASE k = 0
    BY <1>1, <2>1
  <2>2. CASE k # 0
    <3>1. k - 1 \in 0 .. N /\ (k - 1) + 1 = k
      BY <1>2, <2>2
    <3>2. g[k] = Place(s, k + 1) /\ g[k - 1] = Place(s, k)
      BY <3>1
    <3>3. CASE k \in DOMAIN s
      <4>1. Place(s, k) = s[k] /\ s[k] # NULL /\ h[s[k]].next = Place(s, k + 1)
        BY <1>1, <1>3, <3>3 DEF Place, Chain
      <4> QED BY <2>2, <3>2, <4>1
    <3>4. CASE k \notin DOMAIN s
      <4>1. Place(s, k) = NULL /\ Place(s, k + 1) = NULL
        BY <1>1, <2>2, <3>4 DEF Place
      <4> QED BY <2>2, <3>2, <4>1
    <3> QED BY <3>3, <3>4
  <2> QED BY <2>1, <2>2
<1>5. Walk(h, g, first, TRUE)
  <2>1. g = [k \in 0 .. N |-> g[k]]
    OBVIOUS
  <2> HIDE DEF g
  <2> QED BY <1>4, <2>1 DEF Walk
<1>6. Steps(h, first, TRUE) = g
  <2> HIDE DEF g
  <2> QED BY <1>2, <1>5, OneWalk
<1> QED BY <1>6

\* So it does from the head of a list.
LEMMA StepsForward ==
  ASSUME ListInv, NEW l \in Lists
  PROVE  /\ DOMAIN Steps(heap, list[l].head, TRUE) = 0 .. Cardinality(Addr)
         /\ \A k \in 0 .. Cardinality(Addr) :
              Steps(heap, list[l].head, TRUE)[k] = Place(order[l], k + 1)
<1>1. /\ order[l] \in Seq(Addr) /\ Chain(heap, order[l])
      /\ list[l].head = Place(order[l], 1)
  BY Facts DEF Ends
<1> QED BY <1>1, StepsAlong

\* From the tail it meets them in reverse.
LEMMA StepsBackward ==
  ASSUME ListInv, NEW l \in Lists
  PROVE  /\ DOMAIN Steps(heap, list[l].tail, FALSE) = 0 .. Cardinality(Addr)
         /\ \A k \in 0 .. Cardinality(Addr) :
              Steps(heap, list[l].tail, FALSE)[k] = Place(order[l], Len(order[l]) - k)
<1> DEFINE s == order[l]
           N == Cardinality(Addr)
           g == [k \in 0 .. N |-> Place(s, Len(s) - k)]
<1>1. /\ s \in Seq(Addr) /\ Len(s) \in Nat /\ DOMAIN s = 1 .. Len(s)
      /\ Chain(heap, s) /\ Ends(list[l], s)
  BY Facts
<1>2. N \in Nat
  BY Bounded
<1>3. \A i \in 1 .. Len(s) : s[i] # NULL
  BY <1>1, ElementOfSeq, ListAssumption
<1>4. ASSUME NEW k \in 0 .. N
      PROVE  g[k] = IF k = 0 THEN list[l].tail
                    ELSE IF g[k - 1] = NULL THEN NULL
                    ELSE IF FALSE THEN heap[g[k - 1]].next ELSE heap[g[k - 1]].prev
  <2>1. CASE k = 0
    <3>1. Len(s) - 0 = Len(s)
      BY <1>1
    <3> QED BY <1>1, <2>1, <3>1 DEF Ends
  <2>2. CASE k # 0
    <3> DEFINE i == Len(s) - (k - 1)
    <3>1. k - 1 \in 0 .. N /\ Len(s) - k = i - 1 /\ i \in Int
      BY <1>1, <1>2, <2>2
    <3>2. g[k] = Place(s, i - 1) /\ g[k - 1] = Place(s, i)
      BY <3>1
    <3>3. CASE i \in DOMAIN s
      <4>1. Place(s, i) = s[i] /\ s[i] # NULL /\ heap[s[i]].prev = Place(s, i - 1)
        BY <1>1, <1>3, <3>3 DEF Place, Chain
      <4> QED BY <2>2, <3>2, <4>1
    <3>4. CASE i \notin DOMAIN s
      <4>1. Place(s, i) = NULL /\ i <= Len(s)
        BY <1>1, <1>2, <2>2, <3>4 DEF Place
      <4>2. i - 1 \notin DOMAIN s
        BY <1>1, <3>1, <3>4, <4>1
      <4> QED BY <2>2, <3>2, <4>1, <4>2 DEF Place
    <3> QED BY <3>3, <3>4
  <2> QED BY <2>1, <2>2
<1>5. Walk(heap, g, list[l].tail, FALSE)
  <2>1. g = [k \in 0 .. N |-> g[k]]
    OBVIOUS
  <2> HIDE DEF g
  <2> QED BY <1>4, <2>1 DEF Walk
<1>6. Steps(heap, list[l].tail, FALSE) = g
  <2> HIDE DEF g
  <2> QED BY <1>2, <1>5, OneWalk
<1> QED BY <1>6

\* listRelease frees the nodes of a chain that its header tells, and no other.
LEMMA ReleasedNodes ==
  ASSUME NEW h, NEW hd, NEW s \in Seq(Addr), Distinct(s), Chain(h, s), Ends(hd, s)
  PROVE  Released(h, hd) = {s[i] : i \in DOMAIN s}
<1>1. Len(s) \in Nat /\ DOMAIN s = 1 .. Len(s) /\ hd.len = Len(s) /\ hd.head = Place(s, 1)
  BY DEF Ends
<1>2. Len(s) <= Cardinality(Addr) /\ Cardinality(Addr) \in Nat
  BY NoLonger
<1>3. \A k \in 0 .. Len(s) - 1 : Steps(h, hd.head, TRUE)[k] = s[k + 1] /\ k + 1 \in DOMAIN s
  <2> SUFFICES ASSUME NEW k \in 0 .. Len(s) - 1
               PROVE  Steps(h, hd.head, TRUE)[k] = s[k + 1] /\ k + 1 \in DOMAIN s
    OBVIOUS
  <2>1. k \in 0 .. Cardinality(Addr) /\ k + 1 \in DOMAIN s
    BY <1>1, <1>2
  <2>2. Steps(h, hd.head, TRUE)[k] = Place(s, k + 1)
    BY <1>1, <2>1, StepsAlong
  <2> QED BY <2>1, <2>2 DEF Place
<1>4. Released(h, hd) = {s[k + 1] : k \in 0 .. Len(s) - 1}
  BY <1>1, <1>3 DEF Released
<1>5. \A i \in DOMAIN s : i - 1 \in 0 .. Len(s) - 1 /\ (i - 1) + 1 = i
  BY <1>1
<1>6. \A k \in 0 .. Len(s) - 1 : k + 1 \in DOMAIN s
  BY <1>1
<1> QED BY <1>4, <1>5, <1>6

\* So it does with a list.
LEMMA ReleasedMembers ==
  ASSUME ListInv, NEW l \in Lists
  PROVE  Released(heap, list[l]) = Members(l)
<1>1. /\ order[l] \in Seq(Addr) /\ Distinct(order[l]) /\ Chain(heap, order[l])
      /\ Ends(list[l], order[l])
  BY Facts
<1> QED BY <1>1, ReleasedNodes DEF Members
--------------------------------------------------------------------------------
(* Creation, release and iterators.                                        *)

\* Calls that leave lists and the nodes of them alone.
LEMMA Untouched ==
  ASSUME ListInv, UNCHANGED <<live, list, order>>, heap' \in [Addr -> Node],
         \A x \in live : heap'[x] = heap[x], pool' \subseteq Values,
         iter' \in IterType, seen' \in SeenType
  PROVE  ListInv'
<1>1. ListTypeOK'
  BY DEF ListInv, ListTypeOK, IterType, SeenType
<1>2. Linked'
  <2>1. \A l \in Lists : \A i \in DOMAIN order[l] : heap'[order[l][i]] = heap[order[l][i]]
    BY Facts
  <2>2. \A l \in Lists : Ends(list[l], order[l]) /\ Chain(heap, order[l])
    BY Facts
  <2>3. \A l \in Lists : Ends(list'[l], order'[l]) /\ Chain(heap', order'[l])
    BY <2>1, <2>2 DEF Chain
  <2> QED BY <2>3 DEF Linked, Ends, Chain, Place
<1>3. NodesOwned'
  BY DEF ListInv, NodesOwned, Members
<1>4. Tidy'
  BY DEF ListInv, Tidy
<1> QED BY <1>1, <1>2, <1>3, <1>4 DEF ListInv

\* A header with other methods.
LEMMA FlagsSet ==
  ASSUME NEW c \in Header, NEW u, NEW d, NEW f,
         NEW g, g = [c EXCEPT !.up = u, !.dup = d, !.free = f]
  PROVE  g = [up |-> u, head |-> c.head, tail |-> c.tail, len |-> c.len, dup |-> d, free |-> f]
BY DEF Header

\* listCreate makes an empty list.
LEMMA Created ==
  ASSUME ListInv, NEW l \in Lists, NEW dup \in BOOLEAN, NEW free \in BOOLEAN,
         Create(l, dup, free)
  PROVE  ListInv'
<1> DEFINE hd == [up |-> TRUE, head |-> NULL, tail |-> NULL, len |-> 0, dup |-> dup, free |-> free]
<1>1. order[l] = <<>>
  BY DEF Create, ListInv, Tidy
<1>2. list' = [list EXCEPT ![l] = hd] /\ UNCHANGED <<heap, live, pool, iter, order, seen>>
  <2> DEFINE new == [NoList EXCEPT !.up = TRUE, !.dup = dup, !.free = free]
  <2>1. NoList \in Header /\ NoList.head = NULL /\ NoList.tail = NULL /\ NoList.len = 0
    BY DEF NoList, Header
  <2>2. new = [up |-> TRUE, head |-> NoList.head, tail |-> NoList.tail, len |-> NoList.len,
               dup |-> dup, free |-> free]
    <3>1. \A g : g = new =>
            g = [up |-> TRUE, head |-> NoList.head, tail |-> NoList.tail, len |-> NoList.len,
                 dup |-> dup, free |-> free]
      BY <2>1, FlagsSet
    <3> QED BY <3>1
  <2>3. list' = [list EXCEPT ![l] = new] /\ UNCHANGED <<heap, live, pool, iter, order, seen>>
    BY DEF Create
  <2> QED BY <2>1, <2>2, <2>3
<1>3. order \in [Lists -> Seq(Addr)] /\ heap \in [Addr -> Node] /\ live \subseteq Addr
      /\ pool \subseteq Values /\ iter \in IterType /\ seen \in SeenType
  BY DEF ListInv, ListTypeOK, IterType, SeenType
<1>4. order' = [order EXCEPT ![l] = <<>>]
  BY <1>1, <1>2, <1>3
<1>5. hd \in Header /\ hd.up /\ hd.len = 0 /\ hd.head = NULL /\ hd.tail = NULL
  BY DEF Header
<1> HIDE DEF hd
<1>6. Ends(hd, <<>>) /\ Chain(heap', <<>>)
  BY <1>5 DEF Ends, Chain, Place
<1>7. \A m \in Lists \ {l} : \A x \in Members(m) : heap'[x] = heap[x]
  BY <1>2
<1>8. Linked'
  BY <1>2, <1>4, <1>6, <1>7, LinkedAfter
<1>9. NodesOwned'
  BY <1>2 DEF ListInv, NodesOwned, Members
<1>10. Tidy'
  <2>1. \A m \in Lists : list'[m].up \/ order'[m] = <<>>
    BY <1>1, <1>2, <1>5 DEF ListInv, ListTypeOK, Tidy
  <2> QED BY <1>2, <2>1 DEF ListInv, Tidy
<1>11. ListTypeOK'
  <2>1. <<>> \in Seq(Addr)
    OBVIOUS
  <2> QED BY <1>2, <1>3, <1>4, <1>5, <2>1, TypeAfter DEF IterType, SeenType
<1> QED BY <1>8, <1>9, <1>10, <1>11 DEF ListInv

\* listRelease frees the nodes of the list, which its walk of len steps meets.
LEMMA ListReleased ==
  ASSUME ListInv, NEW l \in Lists, Release(l)
  PROVE  ListInv'
<1>1. heap \in [Addr -> Node] /\ live \subseteq Addr /\ pool \subseteq Values
      /\ list \in [Lists -> Header]
  BY DEF ListInv, ListTypeOK
<1>2. /\ heap' = [a \in Addr |-> IF a \in Members(l) THEN Free ELSE heap[a]]
      /\ live' = live \ Members(l)
      /\ list' = [list EXCEPT ![l] = NoList] /\ order' = [order EXCEPT ![l] = <<>>]
      /\ Forget(Members(l))
  BY ReleasedMembers DEF Release
<1>3. heap' \in [Addr -> Node]
  <2>1. Free \in Node
    BY DEF Free, Node
  <2> QED BY <1>1, <1>2, <2>1
<1>4. pool' \subseteq Values
  BY <1>1 DEF Release
<1>5. iter' \in IterType /\ seen' \in SeenType
  BY <1>2, ForgetType
<1> DEFINE t == <<>>
<1>6. /\ NoList \in Header /\ Ends(NoList, t) /\ Chain(heap', t) /\ Distinct(t)
      /\ t \in Seq(Addr) /\ DOMAIN t = {} /\ t = <<>>
  BY DEF NoList, Header, Ends, Chain, Place, Distinct
<1>7. \A m \in Lists \ {l} : \A x \in Members(m) : heap'[x] = heap[x]
  BY <1>2, Apart, Facts DEF ListInv
<1>8. order' = [order EXCEPT ![l] = t] /\ list' = [list EXCEPT ![l] = NoList]
  BY <1>2
<1> HIDE DEF t
<1>9. live' = (live \ Members(l)) \cup {t[j] : j \in DOMAIN t}
  BY <1>2, <1>6
<1>10. Linked'
  BY <1>6, <1>7, <1>8, LinkedAfter
<1>11. NodesOwned'
  <2>1. \A j \in DOMAIN t : t[j] \in Members(l) \/ t[j] \notin live
    BY <1>6
  <2> QED BY <1>6, <1>8, <1>9, <2>1, OwnedAfter
<1>12. Tidy'
  <2>1. \A j \in DOMAIN t : heap'[t[j]].value \in Values
    BY <1>6
  <2> QED BY <1>6, <1>7, <1>8, <1>9, <2>1, TidyAfter
<1>13. ListTypeOK'
  <2>1. live' \subseteq Addr
    BY <1>1, <1>2
  <2> QED BY <1>3, <1>4, <1>5, <1>6, <1>8, <2>1, TypeAfter DEF IterType, SeenType
<1> QED BY <1>10, <1>11, <1>12, <1>13 DEF ListInv

\* What is left of the history when another iterator, or none, comes.
LEMMA SeenAnew ==
  ASSUME seen \in SeenType, NEW ns \in SUBSET Addr,
         seen' = [owed |-> ns, rotated |-> FALSE, shared |-> seen.shared]
  PROVE  seen' \in SeenType
<1>1. seen.shared \in BOOLEAN
  BY DEF SeenType
<1> QED BY <1>1 DEF SeenType

\* Iterators change no list.
LEMMA IteratorMoved ==
  ASSUME ListInv,
         (\E l \in Lists, fromHead \in BOOLEAN : GetIterator(l, fromHead))
           \/ ListNext \/ ReleaseIterator
  PROVE  ListInv'
<1>1. heap \in [Addr -> Node] /\ pool \subseteq Values /\ list \in [Lists -> Header]
      /\ iter \in IterType /\ seen \in SeenType
  BY DEF ListInv, ListTypeOK, IterType, SeenType
<1>2. ASSUME NEW l \in Lists, NEW fromHead \in BOOLEAN, GetIterator(l, fromHead) PROVE ListInv'
  <2>1. iter' \in IterType
    <3>1. list[l].head \in Link /\ list[l].tail \in Link
      BY <1>1 DEF Header, Link
    <3> QED BY <1>2, <3>1 DEF GetIterator, IterType, Link
  <2>2. seen' = [owed |-> Members(l), rotated |-> FALSE, shared |-> seen.shared]
    BY <1>2 DEF GetIterator, Unseen
  <2>3. Members(l) \in SUBSET Addr
    BY Facts
  <2>4. seen' \in SeenType
    BY <1>1, <2>2, <2>3, SeenAnew
  <2>5. UNCHANGED <<heap, live, list, order, pool>>
    BY <1>2 DEF GetIterator
  <2> QED BY <1>1, <2>1, <2>4, <2>5, Untouched
<1>3. CASE ListNext
  <2> DEFINE onward == Onward(iter.next, iter.fromHead)
  <2>1. iter.next \in Addr /\ iter.fromHead \in BOOLEAN /\ iter.list \in Lists \cup {NULL}
    BY <1>1, <1>3 DEF ListNext, IterType
  <2>2. onward \in Link
    BY <1>1, <2>1 DEF Onward, Node, Link
  <2>3. iter' = [iter EXCEPT !.next = onward]
    BY <1>3 DEF ListNext
  <2> HIDE DEF onward
  <2>4. iter' = [list |-> iter.list, next |-> onward, fromHead |-> iter.fromHead]
    BY <1>1, <2>3 DEF IterType
  <2>5. iter' \in IterType
    BY <2>1, <2>2, <2>4 DEF IterType, Link
  <2>6. seen' = [owed |-> seen.owed \ {iter.next}, rotated |-> seen.rotated, shared |-> seen.shared]
    BY <1>1, <1>3 DEF ListNext, SeenType
  <2>7. seen.rotated \in BOOLEAN /\ seen.shared \in BOOLEAN /\ seen.owed \subseteq Addr
    BY <1>1 DEF SeenType
  <2>8. seen' \in SeenType
    BY <2>6, <2>7 DEF SeenType
  <2>9. UNCHANGED <<heap, live, list, order, pool>>
    BY <1>3 DEF ListNext
  <2> QED BY <1>1, <2>5, <2>8, <2>9, Untouched
<1>4. CASE ReleaseIterator
  <2>1. iter' \in IterType
    BY <1>4 DEF ReleaseIterator, NoIter, IterType
  <2>2. seen' = [owed |-> {}, rotated |-> FALSE, shared |-> seen.shared]
    BY <1>4 DEF ReleaseIterator, Unseen
  <2>3. seen' \in SeenType
    BY <1>1, <2>2, SeenAnew
  <2>4. UNCHANGED <<heap, live, list, order, pool>>
    BY <1>4 DEF ReleaseIterator
  <2> QED BY <1>1, <2>1, <2>3, <2>4, Untouched
<1> QED BY <1>2, <1>3, <1>4
--------------------------------------------------------------------------------
(* Copies.                                                                 *)

\* The headers of the copy as its nodes come, and its heap.
HeadersFrom(hd, as) ==
  CHOOSE f : f = [k \in 0 .. Len(as) |-> IF k = 0 THEN hd ELSE Appended(f[k - 1], as[k])]

HeapsFrom(h, hds, as, vs) ==
  CHOOSE f : f = [k \in 0 .. Len(as) |->
                    IF k = 0 THEN h ELSE AppendedHeap(f[k - 1], hds[k - 1], as[k], vs[k])]

\* The headers of the copy are such, and are headers.
LEMMA HeadersGrow ==
  ASSUME NEW hd \in Header, NEW n \in Nat, NEW as \in [1 .. n -> Addr]
  PROVE  /\ HeadersFrom(hd, as)[0] = hd
         /\ \A k \in 1 .. n : HeadersFrom(hd, as)[k] = Appended(HeadersFrom(hd, as)[k - 1], as[k])
         /\ \A k \in 0 .. n : HeadersFrom(hd, as)[k] \in Header
<1> DEFINE F == [k \in 1 .. n |-> [c \in Header |-> Appended(c, as[k])]]
           f == HeadersFrom(hd, as)
<1>1. as \in Seq(Addr) /\ Len(as) = n
  BY FunctionIsSeq
<1>2. \A c \in Header, a \in Addr : Appended(c, a) \in Header
  <2> SUFFICES ASSUME NEW c \in Header, NEW a \in Addr PROVE Appended(c, a) \in Header
    OBVIOUS
  <2>1. c.head \in Link /\ a \in Link /\ c.len + 1 \in Nat
    BY DEF Header, Link
  <2>2. Appended(c, a) = Headed(c, IF c.len = 0 THEN a ELSE c.head, a, c.len + 1)
    <3>1. CASE c.len = 0
      BY <3>1 DEF Appended, Headed, Header
    <3>2. CASE c.len # 0
      BY <3>2 DEF Appended, Headed, Header
    <3> QED BY <3>1, <3>2
  <2>3. (IF c.len = 0 THEN a ELSE c.head) \in Link
    BY <2>1
  <2> QED BY <2>1, <2>2, <2>3, HeaderSet
<1>3. F \in [1 .. n -> [Header -> Header]]
  BY <1>2
<1>4. \A c \in Header, k \in 1 .. n : F[k][c] = Appended(c, as[k])
  OBVIOUS
<1> HIDE DEF F
<1>5. PICK g : g \in [0 .. n -> Header] /\ Unrolls(g, n, hd, F)
  BY <1>3, Recursion
<1>6. g = [k \in 0 .. n |-> IF k = 0 THEN hd ELSE Appended(g[k - 1], as[k])]
  <2>1. ASSUME NEW k \in 0 .. n
        PROVE  g[k] = IF k = 0 THEN hd ELSE Appended(g[k - 1], as[k])
    <3>1. CASE k = 0
      BY <1>5, <3>1 DEF Unrolls
    <3>2. CASE k # 0
      <4>1. k \in 1 .. n /\ k - 1 \in 0 .. n
        BY <3>2
      <4>2. g[k - 1] \in Header
        BY <1>5, <4>1
      <4>3. g[k] = F[k][g[k - 1]]
        BY <1>5, <4>1 DEF Unrolls
      <4> QED BY <1>4, <3>2, <4>1, <4>2, <4>3
    <3> QED BY <3>1, <3>2
  <2> QED BY <1>5, <2>1
<1>7. f = [k \in 0 .. n |-> IF k = 0 THEN hd ELSE Appended(f[k - 1], as[k])]
  BY <1>1, <1>6 DEF HeadersFrom
<1> HIDE DEF f
<1>8. f[0] = hd /\ \A k \in 1 .. n : f[k] = Appended(f[k - 1], as[k])
  <2> DEFINE G(k) == IF k = 0 THEN hd ELSE Appended(f[k - 1], as[k])
  <2>1. \A k \in 0 .. n : f[k] = G(k)
    BY <1>7
  <2>2. 0 \in 0 .. n /\ \A k \in 1 .. n : k \in 0 .. n /\ k # 0
    OBVIOUS
  <2> QED BY <2>1, <2>2
<1>9. \A k \in 0 .. n : f[k] \in Header
  <2> DEFINE Bad == {k \in 0 .. n : f[k] \notin Header}
  <2> SUFFICES ASSUME Bad # {} PROVE FALSE
    OBVIOUS
  <2>1. Bad \subseteq Nat
    OBVIOUS
  <2>2. PICK k \in Bad : \A j \in Bad : k <= j
    <3> HIDE DEF Bad
    <3> QED BY <2>1, Least
  <2>3. k \in 1 .. n /\ k - 1 \in 0 .. n /\ k - 1 \notin Bad
    BY <1>8, <2>2
  <2>4. f[k - 1] \in Header
    BY <2>3
  <2> QED BY <1>2, <1>8, <2>3, <2>4
<1> QED BY <1>8, <1>9 DEF f
\* A heap stays one when a node is appended.
LEMMA AppendedType ==
  ASSUME NEW c \in [Addr -> Node], NEW hd \in Header, NEW a \in Addr, NEW v \in Values
  PROVE  AppendedHeap(c, hd, a, v) \in [Addr -> Node]
<1>1. hd.tail \in Link /\ a \in Link
  BY DEF Header, Link
<1>2. CASE hd.len = 0
  BY <1>2 DEF AppendedHeap, Node
<1>3. CASE hd.len # 0
  <2> DEFINE g == [c EXCEPT ![a] = [prev |-> hd.tail, next |-> NULL, value |-> v]]
  <2>1. g \in [Addr -> Node]
    BY <1>1 DEF Node, Link
  <2> HIDE DEF g
  <2>2. NextIs(SetNext(g, hd.tail, a), g, hd.tail, a)
    BY <1>1, <2>1, NextSet
  <2> QED BY <1>3, <2>2 DEF AppendedHeap, NextIs, g
<1> QED BY <1>2, <1>3

\* The heap f[k] is f[k - 1] with the k-th node appended.
Piled(f, h, hds, as, vs, n) ==
  f[0] = h /\ \A k \in 1 .. n : f[k] = AppendedHeap(f[k - 1], hds[k - 1], as[k], vs[k])

\* The heaps of the copy are such.
LEMMA HeapsGrow ==
  ASSUME NEW h \in [Addr -> Node], NEW n \in Nat, NEW hds, \A k \in 0 .. n : hds[k] \in Header,
         NEW as \in [1 .. n -> Addr], NEW vs \in [1 .. n -> Values]
  PROVE  Piled(HeapsFrom(h, hds, as, vs), h, hds, as, vs, n)
<1> DEFINE Heap == [Addr -> Node]
           F == [k \in 1 .. n |-> [c \in Heap |-> AppendedHeap(c, hds[k - 1], as[k], vs[k])]]
           f == HeapsFrom(h, hds, as, vs)
<1>1. as \in Seq(Addr) /\ Len(as) = n
  BY FunctionIsSeq
<1>2. ASSUME NEW k \in 1 .. n, NEW c \in Heap
      PROVE  AppendedHeap(c, hds[k - 1], as[k], vs[k]) \in Heap
  <2>1. k - 1 \in 0 .. n
    OBVIOUS
  <2>2. hds[k - 1] \in Header /\ as[k] \in Addr /\ vs[k] \in Values
    BY <2>1
  <2> QED BY <2>2, AppendedType
<1> HIDE DEF Heap
<1>3. F \in [1 .. n -> [Heap -> Heap]]
  BY <1>2
<1>4. \A c \in Heap, k \in 1 .. n : F[k][c] = AppendedHeap(c, hds[k - 1], as[k], vs[k])
  OBVIOUS
<1> HIDE DEF F
<1>5. PICK g : g \in [0 .. n -> Heap] /\ Unrolls(g, n, h, F)
  <2>1. h \in Heap
    BY DEF Heap
  <2> QED BY <1>3, <2>1, Recursion
<1>6. g = [k \in 0 .. n |->
             IF k = 0 THEN h ELSE AppendedHeap(g[k - 1], hds[k - 1], as[k], vs[k])]
  <2>1. ASSUME NEW k \in 0 .. n
        PROVE  g[k] = IF k = 0 THEN h ELSE AppendedHeap(g[k - 1], hds[k - 1], as[k], vs[k])
    <3>1. CASE k = 0
      BY <1>5, <3>1 DEF Unrolls
    <3>2. CASE k # 0
      <4>1. k \in 1 .. n /\ k - 1 \in 0 .. n
        BY <3>2
      <4>2. g[k - 1] \in Heap
        BY <1>5, <4>1
      <4>3. g[k] = F[k][g[k - 1]]
        BY <1>5, <4>1 DEF Unrolls
      <4> QED BY <1>4, <3>2, <4>1, <4>2, <4>3
    <3> QED BY <3>1, <3>2
  <2> QED BY <1>5, <2>1
<1>7. f = [k \in 0 .. n |->
             IF k = 0 THEN h ELSE AppendedHeap(f[k - 1], hds[k - 1], as[k], vs[k])]
  BY <1>1, <1>6 DEF HeapsFrom
<1> HIDE DEF f
<1>8. f[0] = h /\ \A k \in 1 .. n : f[k] = AppendedHeap(f[k - 1], hds[k - 1], as[k], vs[k])
  <2> DEFINE G(k) == IF k = 0 THEN h ELSE AppendedHeap(f[k - 1], hds[k - 1], as[k], vs[k])
  <2>1. \A k \in 0 .. n : f[k] = G(k)
    BY <1>7
  <2>2. 0 \in 0 .. n /\ \A k \in 1 .. n : k \in 0 .. n /\ k # 0
    OBVIOUS
  <2> QED BY <2>1, <2>2
<1> QED BY <1>8 DEF f, Piled

\* The iterator of listDup meets the nodes of the list in order, and stops.
LEMMA ValuesGiven ==
  ASSUME ListInv, NEW l \in Lists
  PROVE  /\ ValuesOf(l) = [k \in 1 .. Len(order[l]) |-> heap[order[l][k]].value]
         /\ ValuesOf(l) \in [1 .. Len(order[l]) -> Values]
         /\ Len(ValuesOf(l)) = Len(order[l])
<1> DEFINE s == order[l]
           N == Cardinality(Addr)
           at == Steps(heap, list[l].head, TRUE)
           End(k) == at[k] = NULL /\ \A j \in 0 .. (k - 1) : at[j] # NULL
<1>1. /\ s \in Seq(Addr) /\ Len(s) \in Nat /\ DOMAIN s = 1 .. Len(s)
      /\ Members(l) \subseteq live /\ \A i \in DOMAIN s : s[i] \in Members(l)
      /\ \A i \in 1 .. Len(s) : s[i] # NULL
  BY Facts, ElementOfSeq, ListAssumption
<1>2. N \in Nat /\ Len(s) <= N
  BY Bounded
<1>3. DOMAIN at = 0 .. N /\ \A k \in 0 .. N : at[k] = Place(s, k + 1)
  BY StepsForward
<1> HIDE DEF at
<1>4. Len(s) \in DOMAIN at /\ at[Len(s)] = NULL
  BY <1>1, <1>2, <1>3 DEF Place
<1>5. \A j \in 0 .. (Len(s) - 1) : at[j] = s[j + 1] /\ at[j] # NULL
  <2> SUFFICES ASSUME NEW j \in 0 .. (Len(s) - 1) PROVE at[j] = s[j + 1] /\ at[j] # NULL
    OBVIOUS
  <2>1. j \in 0 .. N /\ j + 1 \in 1 .. Len(s)
    BY <1>1, <1>2
  <2> QED BY <1>1, <1>3, <2>1 DEF Place
<1>6. \A k \in DOMAIN at : End(k) => k = Len(s)
  <2> SUFFICES ASSUME NEW k \in DOMAIN at, End(k), k # Len(s) PROVE FALSE
    OBVIOUS
  <2>1. k \in Nat
    BY <1>2, <1>3
  <2>2. CASE k < Len(s)
    <3>1. k \in 0 .. (Len(s) - 1)
      BY <1>1, <2>1, <2>2
    <3> QED BY <1>5, <3>1
  <2>3. CASE k > Len(s)
    <3>1. Len(s) \in 0 .. (k - 1)
      BY <1>1, <2>1, <2>3
    <3> QED BY <1>4, <3>1
  <2> QED BY <1>1, <2>1, <2>2, <2>3
<1>7. (CHOOSE k \in DOMAIN at : End(k)) = Len(s)
  <2>1. End(Len(s))
    BY <1>4, <1>5
  <2> HIDE DEF End
  <2> QED BY <1>4, <1>6, <2>1
<1>8. ValuesOf(l) = [k \in 1 .. Len(s) |-> heap[at[k - 1]].value]
  BY <1>7 DEF ValuesOf, at
<1>9. \A k \in 1 .. Len(s) : at[k - 1] = s[k] /\ heap[s[k]].value \in Values
  <2> SUFFICES ASSUME NEW k \in 1 .. Len(s)
               PROVE  at[k - 1] = s[k] /\ heap[s[k]].value \in Values
    OBVIOUS
  <2>1. k - 1 \in 0 .. (Len(s) - 1) /\ (k - 1) + 1 = k
    BY <1>1
  <2>2. s[k] \in live
    BY <1>1
  <2> QED BY <1>5, <2>1, <2>2 DEF ListInv, Tidy
<1>10. ValuesOf(l) = [k \in 1 .. Len(s) |-> heap[s[k]].value]
  BY <1>8, <1>9
<1>11. ValuesOf(l) \in [1 .. Len(s) -> Values]
  BY <1>9, <1>10
<1>12. Len(ValuesOf(l)) = Len(s)
  BY <1>1, <1>11, FunctionIsSeq
<1> QED BY <1>10, <1>11, <1>12
\* The first k nodes of the copy.
FrontOf(as, k) == [j \in 1 .. k |-> as[j]]

\* t is s with node a, which is not in it, at the end.
Longer(t, s, a, m) ==
  /\ s \in Seq(Addr) /\ Len(s) = m /\ Distinct(s) /\ \A i \in DOMAIN s : s[i] # a
  /\ Append(s, a) = t

\* The first k nodes are the first k - 1, which the k-th is not among, and the k-th.
LEMMA FrontGrows ==
  ASSUME NEW n \in Nat, NEW as \in [1 .. n -> Addr], Distinct(as), NEW k \in 1 .. n
  PROVE  Longer(FrontOf(as, k), FrontOf(as, k - 1), as[k], k - 1)
<1> DEFINE s == FrontOf(as, k - 1)
           t == FrontOf(as, k)
           m == k - 1
<1>1. /\ m \in Nat /\ k \in Nat /\ \A i \in 1 .. k : i \in 1 .. n
      /\ \A i \in 1 .. m : i \in 1 .. k /\ i # k
  OBVIOUS
<1>2. s \in [1 .. m -> Addr] /\ \A i \in 1 .. m : s[i] = as[i]
  BY <1>1 DEF FrontOf
<1>3. t \in [1 .. k -> Addr] /\ \A i \in 1 .. k : t[i] = as[i]
  BY <1>1 DEF FrontOf
<1> HIDE DEF s, t
<1>4. s \in Seq(Addr) /\ Len(s) = m
  BY <1>1, <1>2, FunctionIsSeq
<1>5. t \in Seq(Addr) /\ Len(t) = k
  BY <1>1, <1>3, FunctionIsSeq
<1>6. /\ DOMAIN as = 1 .. n /\ DOMAIN s = 1 .. m
      /\ \A i, j \in 1 .. n : as[i] = as[j] => i = j
  BY <1>2 DEF Distinct
<1>7. Distinct(s)
  BY <1>1, <1>2, <1>6 DEF Distinct
<1>8. \A i \in DOMAIN s : s[i] # as[k]
  BY <1>1, <1>2, <1>6
<1>9. Append(s, as[k]) = t
  <2> DEFINE u == Append(s, as[k])
  <2>1. /\ u \in Seq(Addr) /\ Len(u) = m + 1
        /\ \A i \in 1 .. m : u[i] = s[i]
        /\ u[m + 1] = as[k]
    <3>1. as[k] \in Addr
      OBVIOUS
    <3>2. Inserted(u, s, Len(s), as[k])
      BY <1>4, <3>1, InsertedLast
    <3> HIDE DEF u, m
    <3>3. /\ u \in Seq(Addr) /\ Len(u) = m + 1
          /\ \A j \in 1 .. m + 1 :
               u[j] = IF j <= m THEN s[j] ELSE IF j = m + 1 THEN as[k] ELSE s[j - 1]
      BY <1>1, <1>4, <3>2 DEF Inserted
    <3>4. \A i \in 1 .. m : i \in 1 .. m + 1 /\ i <= m
      BY <1>1
    <3>5. m + 1 \in 1 .. m + 1 /\ ~ (m + 1 <= m)
      BY <1>1
    <3> QED BY <3>3, <3>4, <3>5
  <2>2. m + 1 = k
    OBVIOUS
  <2> HIDE DEF u, m
  <2>3. \A i \in 1 .. k : i = k \/ i \in 1 .. m
    BY <1>1, <2>2
  <2>4. \A i \in 1 .. k : u[i] = t[i]
    BY <1>1, <1>2, <1>3, <2>1, <2>2, <2>3
  <2>5. Len(u) = Len(t)
    BY <1>5, <2>1, <2>2
  <2>6. u = t
    BY <1>5, <2>1, <2>4, <2>5, SeqEqual
  <2> QED BY <2>6 DEF u
<1> QED BY <1>4, <1>7, <1>8, <1>9 DEF s, t, Longer

\* After k nodes: the header and the heap are those of a list of the first k,
\* with the values given, and no other node has changed.
Grown(g, c, h, hd, as, vs, n, k) ==
  /\ g \in [Addr -> Node] /\ c \in Header /\ c.up = hd.up /\ c.free = hd.free
  /\ Ends(c, FrontOf(as, k)) /\ Chain(g, FrontOf(as, k))
  /\ \A j \in 1 .. k : g[as[j]].value = vs[j]
  /\ \A x \in Addr : (\A j \in 1 .. n : x # as[j]) => g[x] = h[x]

\* Appending the k-th node goes from the first k - 1 to the first k.
LEMMA OneMore ==
  ASSUME NEW n \in Nat, NEW as \in [1 .. n -> Addr], Distinct(as), NEW vs \in [1 .. n -> Values],
         NEW h \in [Addr -> Node], NEW hd, NEW k \in 1 .. n, NEW g, NEW c,
         Grown(g, c, h, hd, as, vs, n, k - 1)
  PROVE  Grown(AppendedHeap(g, c, as[k], vs[k]), Appended(c, as[k]), h, hd, as, vs, n, k)
<1> DEFINE s == FrontOf(as, k - 1)
           t == FrontOf(as, k)
           a == as[k]
           v == vs[k]
           g1 == AppendedHeap(g, c, a, v)
           c1 == Appended(c, a)
<1> HIDE DEF g1, c1
<1>1. /\ s \in Seq(Addr) /\ Len(s) = k - 1 /\ Distinct(s) /\ \A i \in DOMAIN s : s[i] # a
      /\ Append(s, a) = t
  <2>1. Longer(t, s, a, k - 1)
    BY FrontGrows
  <2> HIDE DEF s, t, a
  <2> QED BY <2>1 DEF Longer
<1>2. a \in Addr /\ v \in Values /\ k - 1 \in Nat
  <2>1. a \in Addr
    OBVIOUS
  <2>2. v \in Values
    OBVIOUS
  <2>3. k - 1 \in Nat
    OBVIOUS
  <2> QED BY <2>1, <2>2, <2>3
<1>3. /\ g \in [Addr -> Node] /\ Ends(c, s) /\ Chain(g, s)
      /\ c \in Header /\ c.up = hd.up /\ c.free = hd.free
  BY DEF Grown
<1>4. s = [i \in 1 .. k - 1 |-> as[i]] /\ \A i \in 1 .. k - 1 : i \in 1 .. n
  BY DEF FrontOf
<1> HIDE DEF s, t, a, v
<1>12. \A i \in DOMAIN s : \E j \in 1 .. n : s[i] = as[j]
  BY <1>4
<1>5. Woven(g1, g, s, Len(s), a, v)
  BY <1>1, <1>2, <1>3, AppendedWoven DEF g1
<1>6. Ends(c1, t) /\ c1 \in Header /\ c1.up = hd.up /\ c1.free = hd.free
  BY <1>1, <1>2, <1>3, AppendedEnds DEF c1
<1>7. Chain(g1, t)
  <2>1. Inserted(t, s, Len(s), a)
    BY <1>1, <1>2, InsertedLast
  <2>2. Len(s) \in 0 .. Len(s)
    BY <1>1, <1>2
  <2> QED BY <1>1, <1>2, <1>3, <1>5, <2>1, <2>2, ChainWoven
<1>8. g1 \in [Addr -> Node] /\ g1[a].value = v /\ \A x \in Addr \ {a} : g1[x].value = g[x].value
  BY <1>5 DEF Woven
<1>9. \A j \in 1 .. k : g1[as[j]].value = vs[j]
  <2> SUFFICES ASSUME NEW j \in 1 .. k PROVE g1[as[j]].value = vs[j]
    OBVIOUS
  <2>1. CASE j = k
    BY <1>8, <2>1 DEF a, v
  <2>2. CASE j # k
    <3>1. j \in 1 .. k - 1 /\ j \in 1 .. n
      BY <2>2
    <3>2. as[j] \in Addr /\ as[j] # a /\ g[as[j]].value = vs[j]
      BY <1>1, <1>4, <3>1 DEF Grown
    <3> QED BY <1>8, <3>2
  <2> QED BY <2>1, <2>2
<1>10. ASSUME NEW x \in Addr, \A j \in 1 .. n : x # as[j] PROVE g1[x] = h[x]
  <2>1. x # a /\ g[x] = h[x] /\ x # NULL
    <3>1. x # a
      BY <1>10 DEF a
    <3>2. g[x] = h[x]
      BY <1>10 DEF Grown
    <3> QED BY <3>1, <3>2, ListAssumption
  <2>2. x # Place(s, Len(s)) /\ x # Place(s, Len(s) + 1)
    BY <1>1, <1>2, <1>10, <1>12, <2>1 DEF Place
  <2>3. g1[x].next = g[x].next /\ g1[x].prev = g[x].prev /\ g1[x].value = g[x].value
    BY <1>5, <2>1, <2>2 DEF Woven
  <2>4. g1[x] = g[x]
    BY <1>3, <1>8, <2>3, SameNode
  <2> QED BY <2>1, <2>4
<1>11. Grown(g1, c1, h, hd, as, vs, n, k)
  BY <1>6, <1>7, <1>8, <1>9, <1>10 DEF Grown, t
<1> QED BY <1>11 DEF g1, c1, a, v

\* A copy of n nodes is a list of these n nodes.
LEMMA CopyGrows ==
  ASSUME NEW n \in Nat, NEW as \in [1 .. n -> Addr], Distinct(as), NEW vs \in [1 .. n -> Values],
         NEW h \in [Addr -> Node], NEW hd \in Header, Ends(hd, <<>>),
         NEW hds, hds = HeadersFrom(hd, as), NEW hps, hps = HeapsFrom(h, hds, as, vs)
  PROVE  Grown(hps[n], hds[n], h, hd, as, vs, n, n)
<1>1. hds[0] = hd /\ \A k \in 1 .. n : hds[k] = Appended(hds[k - 1], as[k])
  BY HeadersGrow
<1>2. \A k \in 0 .. n : hds[k] \in Header
  BY HeadersGrow
<1>3. hps[0] = h /\ \A k \in 1 .. n : hps[k] = AppendedHeap(hps[k - 1], hds[k - 1], as[k], vs[k])
  <2>1. Piled(HeapsFrom(h, hds, as, vs), h, hds, as, vs, n)
    BY <1>2, HeapsGrow
  <2> QED BY <2>1 DEF Piled
<1> DEFINE G(k) == Grown(hps[k], hds[k], h, hd, as, vs, n, k)
           Bad == {k \in 0 .. n : ~ G(k)}
<1>4. G(0)
  <2>1. FrontOf(as, 0) = <<>>
    BY DEF FrontOf
  <2>2. Chain(h, <<>>)
    BY DEF Chain
  <2>3. hps[0] = h /\ hds[0] = hd
    BY <1>1, <1>3
  <2>4. Grown(h, hd, h, hd, as, vs, n, 0)
    <3>1. \A j \in 1 .. 0 : h[as[j]].value = vs[j]
      OBVIOUS
    <3>2. Ends(hd, FrontOf(as, 0)) /\ Chain(h, FrontOf(as, 0))
      BY <2>1, <2>2
    <3> QED BY <3>1, <3>2, Zenon DEF Grown
  <2> QED BY <2>3, <2>4
<1>5. ASSUME NEW k \in 1 .. n, G(k - 1) PROVE G(k)
  <2>1. Grown(AppendedHeap(hps[k - 1], hds[k - 1], as[k], vs[k]), Appended(hds[k - 1], as[k]),
              h, hd, as, vs, n, k)
    BY <1>5, OneMore
  <2> QED BY <1>1, <1>3, <2>1
<1>6. Bad = {}
  <2> SUFFICES ASSUME Bad # {} PROVE FALSE
    OBVIOUS
  <2> HIDE DEF G
  <2>1. Bad \subseteq Nat
    OBVIOUS
  <2>2. PICK k \in Bad : \A j \in Bad : k <= j
    <3> HIDE DEF Bad
    <3> QED BY <2>1, Least
  <2>3. k \in 0 .. n /\ ~ G(k)
    OBVIOUS
  <2>4. k \in 1 .. n /\ k - 1 \in 0 .. n /\ ~ (k <= k - 1)
    BY <1>4, <2>3
  <2>5. k - 1 \notin Bad
    <3> HIDE DEF Bad
    <3> QED BY <2>2, <2>4
  <2>6. G(k - 1)
    BY <2>4, <2>5
  <2> QED BY <1>5, <2>3, <2>4, <2>6
<1>7. n \in 0 .. n
  OBVIOUS
<1>8. G(n)
  <2> HIDE DEF G
  <2> QED BY <1>6, <1>7
<1> QED BY <1>8
\* What listDup starts from.
Blank(l) == [up |-> TRUE, head |-> NULL, tail |-> NULL, len |-> 0,
             dup |-> list[l].dup, free |-> list[l].free]

\* It is an empty list with the methods of the original.
LEMMA BlankSet ==
  ASSUME ListInv, NEW l \in Lists
  PROVE  /\ [NoList EXCEPT !.up = TRUE, !.dup = list[l].dup, !.free = list[l].free] = Blank(l)
         /\ Blank(l) \in Header /\ Blank(l).up /\ Ends(Blank(l), <<>>)
<1> DEFINE new == [NoList EXCEPT !.up = TRUE, !.dup = list[l].dup, !.free = list[l].free]
<1>1. NoList \in Header /\ NoList.head = NULL /\ NoList.tail = NULL /\ NoList.len = 0
  BY DEF NoList, Header
<1>2. new = Blank(l)
  <2>1. \A g : g = new =>
          g = [up |-> TRUE, head |-> NoList.head, tail |-> NoList.tail, len |-> NoList.len,
               dup |-> list[l].dup, free |-> list[l].free]
    BY <1>1, FlagsSet
  <2> QED BY <1>1, <2>1 DEF Blank
<1>3. Blank(l) \in Header
  <2>1. list[l].dup \in BOOLEAN /\ list[l].free \in BOOLEAN
    BY DEF ListInv, ListTypeOK, Header
  <2>2. \A d, f \in BOOLEAN :
          [up |-> TRUE, head |-> NULL, tail |-> NULL, len |-> 0, dup |-> d, free |-> f] \in Header
    BY DEF Header
  <2> QED BY <2>1, <2>2, Zenon DEF Blank
<1>4. Blank(l).up /\ Ends(Blank(l), <<>>)
  BY DEF Blank, Ends, Place
<1> QED BY <1>2, <1>3, <1>4

\* The headers and the heaps of a copy are such sequences.
LEMMA CopyIs ==
  ASSUME ListInv, NEW l \in Lists, NEW as, NEW vs
  PROVE  /\ Headers(l, as) = HeadersFrom(Blank(l), as)
         /\ Heaps(l, as, vs) = HeapsFrom(heap, Headers(l, as), as, vs)
<1> DEFINE new == [NoList EXCEPT !.up = TRUE, !.dup = list[l].dup, !.free = list[l].free]
<1>1. new = Blank(l)
  BY BlankSet
<1>2. Headers(l, as) = HeadersFrom(new, as)
  BY DEF Headers, HeadersFrom
<1>3. Heaps(l, as, vs) = HeapsFrom(heap, Headers(l, as), as, vs)
  BY DEF Heaps, HeapsFrom
<1> HIDE DEF new
<1> QED BY <1>1, <1>2, <1>3

\* The values of the first k nodes of the copy.
LEMMA CopiedType ==
  ASSUME ListInv, NEW l \in Lists, NEW k \in 0 .. Len(order[l]), NEW vs \in Copied(l, k)
  PROVE  vs \in [1 .. k -> Values]
<1>1. ValuesOf(l) \in [1 .. Len(order[l]) -> Values] /\ Len(order[l]) \in Nat
  BY ValuesGiven, Facts
<1>2. CASE list[l].dup
  <2>1. vs \in [1 .. k -> Values \ pool]
    BY <1>2 DEF Copied, Fresh
  <2> QED BY <2>1
<1>3. CASE ~list[l].dup
  <2>1. vs = [j \in 1 .. k |-> ValuesOf(l)[j]]
    BY <1>3 DEF Copied, FirstOf
  <2>2. \A j \in 1 .. k : j \in 1 .. Len(order[l])
    BY <1>1
  <2> QED BY <1>1, <2>1, <2>2
<1> QED BY <1>2, <1>3

\* hd and hp are the header and the heap of a list of k new nodes, as, with the
\* values vs; every other node is as it was.
Begun(l, k, as, vs, hd, hp) ==
  /\ as \in Seq(Addr) /\ Len(as) = k /\ DOMAIN as = 1 .. k /\ Distinct(as)
  /\ \A j \in 1 .. k : as[j] \in Addr \ live
  /\ vs \in [1 .. k -> Values]
  /\ hp \in [Addr -> Node] /\ Chain(hp, as)
  /\ hd \in Header /\ hd.up /\ hd.free = list[l].free /\ Ends(hd, as)
  /\ \A j \in 1 .. k : hp[as[j]].value = vs[j]
  /\ \A x \in Addr : (\A j \in 1 .. k : x # as[j]) => hp[x] = heap[x]

\* After k nodes the copy is such a list.
LEMMA FirstCopied ==
  ASSUME ListInv, NEW l \in Lists, NEW k \in 0 .. Len(order[l]),
         NEW as \in Fresh(Addr \ live, k), NEW vs \in Copied(l, k)
  PROVE  Begun(l, k, as, vs, Headers(l, as)[k], Heaps(l, as, vs)[k])
<1> DEFINE hd == Headers(l, as)[k]
           hp == Heaps(l, as, vs)[k]
           blank == Blank(l)
           hds == HeadersFrom(blank, as)
           hps == HeapsFrom(heap, hds, as, vs)
<1>1. heap \in [Addr -> Node] /\ k \in Nat
  BY Facts DEF ListInv, ListTypeOK
<1>2. blank \in Header /\ blank.up /\ blank.free = list[l].free /\ Ends(blank, <<>>)
  BY BlankSet DEF Blank
<1>3. hd = hds[k] /\ hp = hps[k]
  BY CopyIs
<1>4. /\ as \in [1 .. k -> Addr \ live] /\ as \in [1 .. k -> Addr] /\ Distinct(as)
      /\ DOMAIN as = 1 .. k
  <2>1. as \in [1 .. k -> Addr \ live] /\ Distinct(as)
    BY DEF Fresh
  <2> QED BY <2>1
<1>5. as \in Seq(Addr) /\ Len(as) = k
  BY <1>1, <1>4, FunctionIsSeq
<1>6. vs \in [1 .. k -> Values]
  BY CopiedType
<1> HIDE DEF blank
<1>7. Grown(hps[k], hds[k], heap, blank, as, vs, k, k)
  BY <1>1, <1>2, <1>4, <1>6, CopyGrows
<1> HIDE DEF hds, hps, hd, hp
<1>8. Grown(hp, hd, heap, blank, as, vs, k, k)
  BY <1>3, <1>7
<1>9. FrontOf(as, k) = as
  BY <1>4 DEF FrontOf
<1>10. /\ hp \in [Addr -> Node] /\ hd \in Header /\ hd.up /\ hd.free = list[l].free
       /\ Ends(hd, as) /\ Chain(hp, as)
  BY <1>2, <1>8, <1>9, Zenon DEF Grown
<1>11. \A j \in 1 .. k : hp[as[j]].value = vs[j]
  BY <1>8, Zenon DEF Grown
<1>12. \A x \in Addr : (\A j \in 1 .. k : x # as[j]) => hp[x] = heap[x]
  BY <1>8, Zenon DEF Grown
<1>13. \A j \in 1 .. k : as[j] \in Addr \ live
  BY <1>4
<1>14. Begun(l, k, as, vs, hd, hp)
  BY <1>4, <1>5, <1>6, <1>10, <1>11, <1>12, <1>13 DEF Begun
<1> QED BY <1>14 DEF hd, hp

\* What Dup does.
LEMMA DupIs ==
  ASSUME ListInv, NEW l \in Lists, NEW c \in Lists, Dup(l, c)
  PROVE  /\ ~list[c].up
         /\ \E as \in Fresh(Addr \ live, Len(order[l])), vs \in Copied(l, Len(order[l])) :
              /\ heap' = Heaps(l, as, vs)[Len(order[l])]
              /\ list' = [list EXCEPT ![c] = Headers(l, as)[Len(order[l])]]
              /\ live' = live \cup {as[k] : k \in 1 .. Len(order[l])}
              /\ pool' = IF list[l].free THEN pool \cup {vs[k] : k \in 1 .. Len(order[l])}
                                         ELSE pool
              /\ order' = [order EXCEPT ![c] = as]
         /\ seen' = [seen EXCEPT !.shared = @ \/ (list[l].free /\ ~list[l].dup)]
         /\ iter' = iter
<1>1. Len(ValuesOf(l)) = Len(order[l])
  BY ValuesGiven
<1> QED BY <1>1 DEF Dup, Sharing

\* Only the mark of a copy without a dup method may change.
LEMMA SharedSet ==
  ASSUME seen \in SeenType, NEW b \in BOOLEAN, seen' = [seen EXCEPT !.shared = @ \/ b]
  PROVE  seen' \in SeenType
<1>1. seen' = [owed |-> seen.owed, rotated |-> seen.rotated, shared |-> seen.shared \/ b]
  BY DEF SeenType
<1>2. seen.owed \in SUBSET Addr /\ seen.rotated \in BOOLEAN /\ seen.shared \in BOOLEAN
  BY DEF SeenType
<1>3. (seen.shared \/ b) \in BOOLEAN
  BY <1>2
<1> QED BY <1>1, <1>2, <1>3 DEF SeenType

\* What listDup does: the nodes of the copy are new, and have its values.
Duplicated(l, c) ==
  /\ order[c] = <<>>
  /\ \E hd : list' = [list EXCEPT ![c] = hd] /\ hd.free = list[l].free
  /\ \E as : \E vs \in Copied(l, Len(order[l])) :
       /\ order' = [order EXCEPT ![c] = as]
       /\ Distinct(as) /\ DOMAIN as = DOMAIN vs
       /\ \A j \in DOMAIN as : as[j] \in Addr \ live /\ heap'[as[j]].value = vs[j]
       /\ pool' = IF list[l].free THEN pool \cup {vs[k] : k \in DOMAIN vs} ELSE pool
  /\ \A x \in live : heap'[x].value = heap[x].value

\* listDup does that, and keeps the lists well made.
LEMMA ListCopied ==
  ASSUME ListInv, NEW l \in Lists, NEW c \in Lists, Dup(l, c)
  PROVE  ListInv' /\ Duplicated(l, c)
<1> DEFINE n == Len(order[l])
<1>1. /\ heap \in [Addr -> Node] /\ live \subseteq Addr /\ pool \subseteq Values
      /\ iter \in IterType /\ seen \in SeenType
  BY DEF ListInv, ListTypeOK, IterType, SeenType
<1>2. n \in Nat
  BY Facts
<1>3. order[c] = <<>> /\ Members(c) = {}
  <2>1. order[c] = <<>>
    BY DupIs DEF ListInv, Tidy
  <2> QED BY <2>1 DEF Members
<1>5. PICK as \in Fresh(Addr \ live, n), vs \in Copied(l, n) :
        /\ heap' = Heaps(l, as, vs)[n]
        /\ list' = [list EXCEPT ![c] = Headers(l, as)[n]]
        /\ live' = live \cup {as[k] : k \in 1 .. n}
        /\ pool' = IF list[l].free THEN pool \cup {vs[k] : k \in 1 .. n} ELSE pool
        /\ order' = [order EXCEPT ![c] = as]
  BY DupIs
<1> DEFINE new == Headers(l, as)[n]
<1>4. n \in 0 .. Len(order[l])
  BY <1>2
<1>10. Begun(l, n, as, vs, new, heap')
  <2>1. Begun(l, n, as, vs, Headers(l, as)[n], Heaps(l, as, vs)[n])
    BY <1>4, FirstCopied
  <2> QED BY <1>5, <2>1
<1> HIDE DEF n, new
<1>7. /\ as \in Seq(Addr) /\ Len(as) = n /\ DOMAIN as = 1 .. n /\ Distinct(as)
      /\ \A j \in 1 .. n : as[j] \in Addr \ live
      /\ vs \in [1 .. n -> Values]
      /\ heap' \in [Addr -> Node] /\ Chain(heap', as)
      /\ new \in Header /\ new.up /\ new.free = list[l].free /\ Ends(new, as)
      /\ \A j \in 1 .. n : heap'[as[j]].value = vs[j]
      /\ \A x \in Addr : (\A j \in 1 .. n : x # as[j]) => heap'[x] = heap[x]
  BY <1>10 DEF Begun
<1>6. Distinct(as) /\ DOMAIN as = 1 .. n /\ \A j \in 1 .. n : as[j] \in Addr \ live
  BY <1>7
<1>8. vs \in [1 .. n -> Values] /\ DOMAIN vs = 1 .. n
  BY <1>7
<1>9. /\ live' = live \cup {as[k] : k \in DOMAIN as}
      /\ pool' = IF list[l].free THEN pool \cup {vs[k] : k \in DOMAIN vs} ELSE pool
  BY <1>5, <1>6, <1>8
<1>13. /\ heap' \in [Addr -> Node] /\ new \in Header /\ new.up /\ new.free = list[l].free
       /\ Ends(new, as) /\ Chain(heap', as)
  BY <1>7
<1>14. \A j \in 1 .. n : heap'[as[j]].value = vs[j]
  BY <1>7
<1>15. \A x \in Addr : (\A j \in 1 .. n : x # as[j]) => heap'[x] = heap[x]
  BY <1>7
<1>16. \A m \in Lists \ {c} : \A x \in Members(m) : heap'[x] = heap[x]
  <2> SUFFICES ASSUME NEW m \in Lists \ {c}, NEW x \in Members(m) PROVE heap'[x] = heap[x]
    OBVIOUS
  <2>1. x \in Addr /\ x \in live
    BY Facts
  <2>2. \A j \in 1 .. n : x # as[j]
    BY <1>6, <2>1
  <2> QED BY <1>15, <2>1, <2>2
<1>17. list' = [list EXCEPT ![c] = new] /\ order' = [order EXCEPT ![c] = as]
  BY <1>5 DEF new
<1>18. live' = (live \ Members(c)) \cup {as[j] : j \in DOMAIN as}
  BY <1>3, <1>9
<1>19. \A j \in DOMAIN as : as[j] \in Members(c) \/ as[j] \notin live
  BY <1>6
<1>20. Linked'
  BY <1>13, <1>16, <1>17, LinkedAfter
<1>21. NodesOwned'
  BY <1>6, <1>7, <1>17, <1>18, <1>19, OwnedAfter
<1>22. Tidy'
  <2>1. \A j \in DOMAIN as : heap'[as[j]].value \in Values
    BY <1>6, <1>8, <1>14
  <2> QED BY <1>13, <1>16, <1>17, <1>18, <2>1, TidyAfter
<1>23. ListTypeOK'
  <2>1. live' \subseteq Addr
    BY <1>1, <1>6, <1>9
  <2>2. pool' \subseteq Values
    BY <1>1, <1>8, <1>9
  <2>3. iter' \in IterType /\ seen' \in SeenType
    <3>1. (list[l].free /\ ~list[l].dup) \in BOOLEAN
      OBVIOUS
    <3>2. seen' = [seen EXCEPT !.shared = @ \/ (list[l].free /\ ~list[l].dup)] /\ iter' = iter
      BY DupIs
    <3> QED BY <1>1, <3>1, <3>2, SharedSet
  <2> QED BY <1>7, <1>13, <1>17, <2>1, <2>2, <2>3, TypeAfter DEF IterType, SeenType
<1>24. Duplicated(l, c)
  <2>1. \E b : list' = [list EXCEPT ![c] = b] /\ b.free = list[l].free
    BY <1>13, <1>17
  <2>2. \A j \in DOMAIN as : as[j] \in Addr \ live /\ heap'[as[j]].value = vs[j]
    BY <1>6, <1>14
  <2>3. \A x \in live : heap'[x].value = heap[x].value
    <3> SUFFICES ASSUME NEW x \in live PROVE heap'[x] = heap[x]
      OBVIOUS
    <3>1. \A j \in 1 .. n : x # as[j]
      BY <1>6
    <3> QED BY <1>1, <1>15, <3>1
  <2>4. DOMAIN as = DOMAIN vs
    BY <1>6, <1>8
  <2>5. vs \in Copied(l, Len(order[l])) /\ order' = [order EXCEPT ![c] = as]
    BY <1>5 DEF n
  <2> QED BY <1>3, <1>6, <1>9, <2>1, <2>2, <2>3, <2>4, <2>5 DEF Duplicated
<1> QED BY <1>20, <1>21, <1>22, <1>23, <1>24 DEF ListInv

\* A copy that fails is undone: the nodes and values it was given are freed, and no
\* list has changed.
CopyUndone(l) ==
  /\ heap' \in [Addr -> Node] /\ \A x \in live : heap'[x] = heap[x]
  /\ pool' \subseteq Values /\ ((list[l].free => list[l].dup) => pool \subseteq pool')
  /\ UNCHANGED <<live, list, order, iter>>
  /\ seen' = [seen EXCEPT !.shared = @ \/ (list[l].free /\ ~list[l].dup)]

\* listDup without memory does that.
LEMMA CopyFailed ==
  ASSUME ListInv, NEW l \in Lists, NEW k, DupFails(l, k)
  PROVE  CopyUndone(l)
<1>1. /\ heap \in [Addr -> Node] /\ live \subseteq Addr /\ pool \subseteq Values
      /\ Len(order[l]) \in Nat /\ Len(ValuesOf(l)) = Len(order[l])
  BY Facts, ValuesGiven DEF ListInv, ListTypeOK
<1>2. k \in 0 .. Len(order[l])
  <2>1. k \in 0 .. (Len(order[l]) - 1)
    BY <1>1 DEF DupFails
  <2> QED BY <1>1, <2>1
<1>3. PICK as \in Fresh(Addr \ live, k), vs \in Copied(l, k), lost \in Lost(l) :
        LET given == {vs[j] : j \in 1..k}
            hp    == Heaps(l, as, vs)[k]
            freed == Released(hp, Headers(l, as)[k])
        IN /\ heap' = [a \in Addr |-> IF a \in freed THEN Free ELSE hp[a]]
           /\ live' = (live \cup {as[j] : j \in 1..k}) \ freed
           /\ pool' = IF list[l].free
                      THEN (pool \cup given \cup lost) \ {hp[n].value : n \in freed} ELSE pool
  BY DEF DupFails
<1> DEFINE hd == Headers(l, as)[k]
           hp == Heaps(l, as, vs)[k]
           new == {as[j] : j \in 1 .. k}
           given == {vs[j] : j \in 1 .. k}
<1>4. /\ as \in Seq(Addr) /\ DOMAIN as = 1 .. k /\ Distinct(as)
      /\ \A j \in 1 .. k : as[j] \in Addr \ live
      /\ vs \in [1 .. k -> Values]
      /\ hp \in [Addr -> Node] /\ Chain(hp, as) /\ Ends(hd, as)
      /\ \A j \in 1 .. k : hp[as[j]].value = vs[j]
      /\ \A x \in Addr : (\A j \in 1 .. k : x # as[j]) => hp[x] = heap[x]
  <2>1. Begun(l, k, as, vs, Headers(l, as)[k], Heaps(l, as, vs)[k])
    BY <1>2, FirstCopied
  <2> QED BY <2>1 DEF Begun
<1>5. Released(hp, hd) = new
  <2> HIDE DEF hd, hp
  <2>1. Released(hp, hd) = {as[j] : j \in DOMAIN as}
    BY <1>4, ReleasedNodes
  <2> QED BY <1>4, <2>1
<1>6. /\ heap' = [a \in Addr |-> IF a \in new THEN Free ELSE hp[a]]
      /\ live' = (live \cup new) \ new
      /\ pool' = IF list[l].free
                 THEN (pool \cup given \cup lost) \ {hp[n].value : n \in new} ELSE pool
  BY <1>3, <1>5
<1> HIDE DEF hd, hp
<1>7. {hp[n].value : n \in new} = given
  <2>1. \A j \in 1 .. k : hp[as[j]].value = vs[j]
    BY <1>4
  <2>2. \A n \in new : hp[n].value \in given
    BY <2>1
  <2>3. \A v \in given : \E n \in new : hp[n].value = v
    BY <2>1
  <2> QED BY <2>2, <2>3
<1>8. heap' \in [Addr -> Node]
  <2>1. Free \in Node
    BY DEF Free, Node
  <2> QED BY <1>4, <1>6, <2>1
<1>9. new \cap live = {}
  BY <1>4
<1>10. \A x \in live : heap'[x] = heap[x]
  <2> SUFFICES ASSUME NEW x \in live PROVE heap'[x] = heap[x]
    OBVIOUS
  <2>1. x \in Addr /\ x \notin new
    BY <1>1, <1>9
  <2>2. hp[x] = heap[x]
    BY <1>4, <2>1
  <2> QED BY <1>6, <2>1, <2>2
<1>11. live' = live
  BY <1>6, <1>9
<1>12. given \subseteq Values /\ lost \subseteq Values
  BY <1>4 DEF Lost
<1>13. pool' \subseteq Values
  BY <1>1, <1>6, <1>12
<1>14. ASSUME list[l].free => list[l].dup PROVE pool \subseteq pool'
  <2>1. CASE ~list[l].free
    BY <1>6, <2>1
  <2>2. CASE list[l].free /\ list[l].dup
    <3>1. vs \in Fresh(Values \ pool, k)
      BY <2>2 DEF Copied
    <3>2. given \cap pool = {}
      BY <3>1 DEF Fresh
    <3> QED BY <1>6, <1>7, <2>2, <3>2
  <2> QED BY <1>14, <2>1, <2>2
<1>15. /\ UNCHANGED <<list, order, iter>>
       /\ seen' = [seen EXCEPT !.shared = @ \/ (list[l].free /\ ~list[l].dup)]
  BY DEF DupFails, Sharing
<1> QED BY <1>8, <1>10, <1>11, <1>13, <1>14, <1>15 DEF CopyUndone

\* And so keeps the lists well made.
LEMMA UndoneKeeps ==
  ASSUME ListInv, NEW l \in Lists, CopyUndone(l)
  PROVE  ListInv'
<1>1. iter' \in IterType /\ seen' \in SeenType
  <2>1. iter \in IterType /\ seen \in SeenType
    BY DEF ListInv, ListTypeOK, IterType, SeenType
  <2>2. (list[l].free /\ ~list[l].dup) \in BOOLEAN
    OBVIOUS
  <2>3. seen' = [seen EXCEPT !.shared = @ \/ (list[l].free /\ ~list[l].dup)] /\ iter' = iter
    BY DEF CopyUndone
  <2> QED BY <2>1, <2>2, <2>3, SharedSet
<1>2. /\ UNCHANGED <<live, list, order>> /\ heap' \in [Addr -> Node]
      /\ \A x \in live : heap'[x] = heap[x]
      /\ pool' \subseteq Values
  BY DEF CopyUndone
<1> QED BY <1>1, <1>2, Untouched
--------------------------------------------------------------------------------
(* Iterators give every node.                                              *)

\* In s, y is x or after it as the iterator goes.
Ahead(s, x, y, fromHead) ==
  \E i, j \in DOMAIN s : s[i] = x /\ s[j] = y /\ (IF fromHead THEN i <= j ELSE j <= i)

\* The nodes that are owed are those from the saved one on.
Pending ==
  iter.list # NULL /\ ~seen.rotated =>
    IF iter.next = NULL THEN seen.owed = {}
    ELSE \A x \in seen.owed \cup {iter.next} :
           Ahead(order[iter.list], iter.next, x, iter.fromHead)

\* An insertion keeps what is ahead of what.
LEMMA AheadInserted ==
  ASSUME NEW s \in Seq(Addr), NEW k \in 0 .. Len(s), NEW a, NEW t, Inserted(t, s, k, a),
         NEW x, NEW y, NEW fromHead, Ahead(s, x, y, fromHead)
  PROVE  Ahead(t, x, y, fromHead)
<1>1. PICK i, j \in DOMAIN s : s[i] = x /\ s[j] = y /\ (IF fromHead THEN i <= j ELSE j <= i)
  BY DEF Ahead
<1> DEFINE p(q) == IF q <= k THEN q ELSE q + 1
<1>2. DOMAIN s = 1 .. Len(s) /\ DOMAIN t = 1 .. Len(s) + 1 /\ Len(s) \in Nat
  BY DEF Inserted
<1>3. ASSUME NEW q \in DOMAIN s PROVE p(q) \in DOMAIN t /\ t[p(q)] = s[q] /\ p(q) \in Nat
  <2>1. \A u \in 1 .. Len(s) + 1 :
          t[u] = IF u <= k THEN s[u] ELSE IF u = k + 1 THEN a ELSE s[u - 1]
    BY DEF Inserted
  <2>2. CASE q <= k
    BY <1>2, <2>1, <2>2
  <2>3. CASE q > k
    <3>1. q + 1 \in 1 .. Len(s) + 1 /\ ~(q + 1 <= k) /\ q + 1 # k + 1 /\ (q + 1) - 1 = q
      BY <1>2, <2>3
    <3> QED BY <1>2, <2>1, <2>3, <3>1
  <2> QED BY <1>2, <2>2, <2>3
<1>4. \A u, w \in DOMAIN s : u <= w => p(u) <= p(w)
  BY <1>2
<1>5. t[p(i)] = x /\ t[p(j)] = y /\ p(i) \in DOMAIN t /\ p(j) \in DOMAIN t
  BY <1>1, <1>3
<1>6. IF fromHead THEN p(i) <= p(j) ELSE p(j) <= p(i)
  BY <1>1, <1>4
<1> HIDE DEF p
<1> QED BY <1>5, <1>6 DEF Ahead

\* And a deletion, of the nodes that are left.
LEMMA AheadRemoved ==
  ASSUME NEW s \in Seq(Addr), NEW k \in DOMAIN s, NEW t, Removed(t, s, k),
         NEW x, x # s[k], NEW y, y # s[k], NEW fromHead, Ahead(s, x, y, fromHead)
  PROVE  Ahead(t, x, y, fromHead)
<1>1. PICK i, j \in DOMAIN s : s[i] = x /\ s[j] = y /\ (IF fromHead THEN i <= j ELSE j <= i)
  BY DEF Ahead
<1> DEFINE p(q) == IF q < k THEN q ELSE q - 1
<1>2. DOMAIN s = 1 .. Len(s) /\ DOMAIN t = 1 .. Len(s) - 1 /\ Len(s) \in Nat
  BY DEF Removed
<1>3. ASSUME NEW q \in DOMAIN s, q # k PROVE p(q) \in DOMAIN t /\ t[p(q)] = s[q]
  <2>1. \A u \in 1 .. Len(s) - 1 : t[u] = IF u < k THEN s[u] ELSE s[u + 1]
    BY DEF Removed
  <2>2. CASE q < k
    BY <1>2, <2>1, <2>2
  <2>3. CASE q > k
    <3>1. q - 1 \in 1 .. Len(s) - 1 /\ ~(q - 1 < k) /\ (q - 1) + 1 = q
      BY <1>2, <2>3
    <3> QED BY <1>2, <2>1, <2>3, <3>1
  <2> QED BY <1>2, <1>3, <2>2, <2>3
<1>4. \A u, w \in DOMAIN s : u <= w /\ u # k /\ w # k => p(u) <= p(w)
  BY <1>2
<1>5. i # k /\ j # k
  BY <1>1
<1>6. t[p(i)] = x /\ t[p(j)] = y /\ p(i) \in DOMAIN t /\ p(j) \in DOMAIN t
  BY <1>1, <1>3, <1>5
<1>7. IF fromHead THEN p(i) <= p(j) ELSE p(j) <= p(i)
  BY <1>1, <1>4, <1>5
<1> HIDE DEF p
<1> QED BY <1>6, <1>7 DEF Ahead

\* What is ahead in the iterator's list stays ahead: nothing is missed.
LEMMA PendingKept ==
  ASSUME Pending, iter' = iter, seen'.owed \subseteq seen.owed, seen'.rotated = seen.rotated,
         \A x, y : /\ Ahead(order[iter.list], x, y, iter.fromHead)
                   /\ iter.list # NULL /\ x = iter.next /\ y \in seen'.owed \cup {x}
                   => Ahead(order'[iter.list], x, y, iter.fromHead)
  PROVE  Pending'
<1> SUFFICES ASSUME iter.list # NULL, ~seen.rotated
             PROVE  IF iter.next = NULL THEN seen'.owed = {}
                    ELSE \A x \in seen'.owed \cup {iter.next} :
                           Ahead(order'[iter.list], iter.next, x, iter.fromHead)
  BY DEF Pending
<1>1. CASE iter.next = NULL
  BY <1>1 DEF Pending
<1>2. CASE iter.next # NULL
  <2>1. \A x \in seen.owed \cup {iter.next} : Ahead(order[iter.list], iter.next, x, iter.fromHead)
    BY <1>2 DEF Pending
  <2> QED BY <1>2, <2>1
<1> QED BY <1>1, <1>2

\* So it does when nodes are freed: an iterator that has saved one is given up.
LEMMA PendingForgets ==
  ASSUME ListInv, Pending, NEW ns, Forget(ns),
         \A x, y : /\ Ahead(order[iter.list], x, y, iter.fromHead)
                   /\ iter.list # NULL /\ x \notin ns /\ y \notin ns
                   => Ahead(order'[iter.list], x, y, iter.fromHead)
  PROVE  Pending'
<1>1. CASE iter.next \in ns
  <2>1. iter' = NoIter
    BY <1>1 DEF Forget
  <2> QED BY <2>1 DEF NoIter, Pending
<1>2. CASE iter.next \notin ns
  <2>1. seen \in SeenType
    BY DEF ListInv, ListTypeOK, SeenType
  <2>2. iter' = iter /\ seen'.owed = seen.owed \ ns /\ seen'.rotated = seen.rotated
    BY <1>2, <2>1 DEF Forget, SeenType
  <2>3. \A x, y : /\ Ahead(order[iter.list], x, y, iter.fromHead)
                  /\ iter.list # NULL /\ x = iter.next /\ y \in seen'.owed \cup {x}
                  => Ahead(order'[iter.list], x, y, iter.fromHead)
    BY <1>2, <2>2
  <2> QED BY <2>2, <2>3, PendingKept
<1> QED BY <1>1, <1>2
\* The list of the iterator is a list.
LEMMA IterList ==
  ASSUME ListInv, iter.list # NULL
  PROVE  iter.list \in Lists /\ iter.next \in Link /\ order[iter.list] \in Seq(Addr)
<1>1. iter.list \in Lists /\ iter.next \in Link
  BY DEF ListInv, ListTypeOK, Link
<1> QED BY <1>1 DEF ListInv, ListTypeOK

\* A new node comes before or after the saved one, and is not owed.
LEMMA PendingAdded ==
  ASSUME ListInv, Pending, NEW l \in Lists, NEW a, NEW v, Added(l, a, v)
  PROVE  Pending'
<1>1. PICK k \in 0 .. Len(order[l]), t \in Seq(Addr) :
        Inserted(t, order[l], k, a) /\ order' = [order EXCEPT ![l] = t]
  BY DEF Added
<1>2. iter' = iter /\ seen' = seen
  BY DEF Added, Alloc
<1>3. ASSUME NEW x, NEW y, Ahead(order[iter.list], x, y, iter.fromHead), iter.list # NULL
      PROVE  Ahead(order'[iter.list], x, y, iter.fromHead)
  <2>1. iter.list \in Lists /\ order[iter.list] \in Seq(Addr) /\ order \in [Lists -> Seq(Addr)]
    BY <1>3, IterList DEF ListInv, ListTypeOK
  <2>2. CASE iter.list = l
    <3>1. order'[iter.list] = t
      BY <1>1, <2>1, <2>2
    <3>2. Ahead(t, x, y, iter.fromHead)
      BY <1>1, <1>3, <2>1, <2>2, AheadInserted
    <3> QED BY <3>1, <3>2
  <2>3. CASE iter.list # l
    <3>1. order'[iter.list] = order[iter.list]
      BY <1>1, <2>1, <2>3
    <3> QED BY <1>3, <3>1
  <2> QED BY <2>2, <2>3
<1> QED BY <1>2, <1>3, PendingKept

\* The node deleted is no longer owed; if it is the saved one the iterator is given up.
LEMMA PendingDeleted ==
  ASSUME ListInv, Pending, NEW l \in Lists, NEW i, Deleted(l, i)
  PROVE  Pending'
<1> DEFINE n == order[l][i]
<1>1. PICK t \in Seq(Addr) : Removed(t, order[l], i) /\ order' = [order EXCEPT ![l] = t]
  BY DEF Deleted
<1>2. Forget({n}) /\ i \in DOMAIN order[l]
  BY DEF Deleted
<1>3. ASSUME NEW x, NEW y, Ahead(order[iter.list], x, y, iter.fromHead), iter.list # NULL,
             x \notin {n}, y \notin {n}
      PROVE  Ahead(order'[iter.list], x, y, iter.fromHead)
  <2>1. iter.list \in Lists /\ order[iter.list] \in Seq(Addr) /\ order \in [Lists -> Seq(Addr)]
    BY <1>3, IterList DEF ListInv, ListTypeOK
  <2>2. CASE iter.list = l
    <3>1. order'[iter.list] = t
      BY <1>1, <2>1, <2>2
    <3>2. Ahead(order[l], x, y, iter.fromHead) /\ x # order[l][i] /\ y # order[l][i]
      BY <1>3, <2>2
    <3>3. order[l] \in Seq(Addr)
      BY <2>1, <2>2
    <3>4. Ahead(t, x, y, iter.fromHead)
      BY <1>1, <1>2, <3>2, <3>3, AheadRemoved
    <3> QED BY <3>1, <3>4
  <2>3. CASE iter.list # l
    <3>1. order'[iter.list] = order[iter.list]
      BY <1>1, <2>1, <2>3
    <3> QED BY <1>3, <3>1
  <2> QED BY <2>2, <2>3
<1> HIDE DEF n
<1> QED BY <1>2, <1>3, PendingForgets

\* The nodes of a released list are not owed: its iterator is given up, or at the end.
LEMMA PendingReleased ==
  ASSUME ListInv, Pending, NEW l \in Lists, Release(l)
  PROVE  Pending'
<1>1. Forget(Members(l)) /\ order' = [order EXCEPT ![l] = <<>>]
  BY ReleasedMembers DEF Release
<1>2. ASSUME NEW x, NEW y, Ahead(order[iter.list], x, y, iter.fromHead), iter.list # NULL,
             x \notin Members(l), y \notin Members(l)
      PROVE  Ahead(order'[iter.list], x, y, iter.fromHead)
  <2>1. iter.list \in Lists /\ order \in [Lists -> Seq(Addr)]
    BY <1>2, IterList DEF ListInv, ListTypeOK
  <2>2. iter.list # l
    BY <1>2 DEF Ahead, Members
  <2>3. order'[iter.list] = order[iter.list]
    BY <1>1, <2>1, <2>2
  <2> QED BY <1>2, <2>3
<1> QED BY <1>1, <1>2, PendingForgets

\* The nodes of a list that is turned are no longer owed.
LEMMA PendingRotated ==
  ASSUME ListInv, Pending, NEW l \in Lists, Rotate(l)
  PROVE  Pending'
<1>1. iter' = iter /\ order \in [Lists -> Seq(Addr)] /\ seen \in SeenType
  BY DEF Rotate, ListInv, ListTypeOK, SeenType
<1>2. CASE iter.list = l
  <2>1. seen'.rotated
    BY <1>1, <1>2 DEF Rotate, SeenType
  <2> QED BY <1>1, <2>1 DEF Pending
<1>3. CASE iter.list # l
  <2>1. seen' = seen
    BY <1>3 DEF Rotate
  <2>2. \A m \in Lists \ {l} : order'[m] = order[m]
    BY <1>1 DEF Rotate
  <2>3. iter.list # NULL => order'[iter.list] = order[iter.list]
    BY <1>3, <2>2, IterList
  <2> QED BY <1>1, <2>1, <2>3, PendingKept
<1> QED BY <1>2, <1>3

\* A copy is a list no iterator is on.
LEMMA PendingCopied ==
  ASSUME ListInv, Pending, NEW l \in Lists, NEW c \in Lists, Dup(l, c)
  PROVE  Pending'
<1>1. iter' = iter /\ seen' = [seen EXCEPT !.shared = @ \/ (list[l].free /\ ~list[l].dup)]
  BY DupIs
<1>2. seen'.owed = seen.owed /\ seen'.rotated = seen.rotated
  <2>1. seen \in SeenType
    BY DEF ListInv, ListTypeOK, SeenType
  <2> QED BY <1>1, <2>1 DEF SeenType
<1>3. order[c] = <<>> /\ order \in [Lists -> Seq(Addr)]
  BY DupIs DEF ListInv, Tidy, ListTypeOK
<1>4. PICK as : order' = [order EXCEPT ![c] = as]
  BY DupIs
<1>5. ASSUME NEW x, NEW y, Ahead(order[iter.list], x, y, iter.fromHead), iter.list # NULL
      PROVE  Ahead(order'[iter.list], x, y, iter.fromHead)
  <2>1. iter.list # c
    BY <1>3, <1>5 DEF Ahead
  <2>2. iter.list \in Lists
    BY <1>5, IterList
  <2>3. order'[iter.list] = order[iter.list]
    BY <1>3, <1>4, <2>1, <2>2
  <2> QED BY <1>5, <2>3
<1> QED BY <1>1, <1>2, <1>5, PendingKept

\* A new iterator starts at an end.
LEMMA PendingAnew ==
  ASSUME ListInv, NEW l \in Lists, NEW fromHead \in BOOLEAN, GetIterator(l, fromHead)
  PROVE  Pending'
<1> DEFINE s == order[l]
<1>1. /\ Len(s) \in Nat /\ DOMAIN s = 1 .. Len(s)
      /\ Ends(list[l], s) /\ Members(l) \subseteq Addr
      /\ \A j \in DOMAIN s : s[j] \in Members(l)
  BY Facts
<1>2. /\ iter'.list = l /\ iter'.fromHead = fromHead
      /\ iter'.next = IF fromHead THEN list[l].head ELSE list[l].tail
      /\ seen'.owed = Members(l) /\ order' = order
  BY DEF GetIterator, Unseen
<1>3. Members(l) = {s[j] : j \in 1 .. Len(s)}
  BY <1>1 DEF Members
<1> HIDE DEF s
<1>4. iter'.next = IF fromHead THEN Place(s, 1) ELSE Place(s, Len(s))
  BY <1>1, <1>2 DEF Ends
<1>5. CASE Len(s) = 0
  <2>1. Members(l) = {} /\ iter'.next = NULL
    BY <1>1, <1>3, <1>4, <1>5 DEF Place
  <2> QED BY <1>2, <2>1 DEF Pending
<1>6. CASE Len(s) # 0
  <2> DEFINE e == IF fromHead THEN 1 ELSE Len(s)
  <2>1. e \in DOMAIN s /\ iter'.next = s[e]
    BY <1>1, <1>4, <1>6 DEF Place
  <2>2. s[e] # NULL
    BY <1>1, <2>1, ListAssumption
  <2>3. ASSUME NEW x \in Members(l) PROVE Ahead(s, s[e], x, fromHead)
    <3>1. PICK j \in DOMAIN s : s[j] = x
      BY <1>1, <1>3
    <3>2. IF fromHead THEN e <= j ELSE j <= e
      BY <1>1, <3>1
    <3> HIDE DEF e
    <3> QED BY <2>1, <3>1, <3>2 DEF Ahead
  <2>4. s[e] \in Members(l)
    BY <1>1, <2>1
  <2> HIDE DEF e
  <2>5. \A x \in seen'.owed \cup {iter'.next} : Ahead(s, iter'.next, x, fromHead)
    BY <1>2, <2>1, <2>3, <2>4
  <2> QED BY <1>2, <2>1, <2>2, <2>5 DEF Pending, s
<1> QED BY <1>5, <1>6

\* listNext goes on to the neighbour; only the node it gives is left behind.
LEMMA PendingNext ==
  ASSUME ListInv, Pending, ListNext
  PROVE  Pending'
<1>1. iter \in IterType /\ seen \in SeenType
  BY DEF ListInv, ListTypeOK, IterType, SeenType
<1>2. /\ iter'.list = iter.list /\ iter'.fromHead = iter.fromHead
      /\ iter'.next = Onward(iter.next, iter.fromHead)
      /\ seen'.owed = seen.owed \ {iter.next} /\ seen'.rotated = seen.rotated
      /\ order' = order /\ iter.next # NULL
  BY <1>1 DEF ListNext, IterType, SeenType
<1> SUFFICES ASSUME iter.list # NULL, ~seen.rotated
             PROVE  IF iter'.next = NULL THEN seen'.owed = {}
                    ELSE \A x \in seen'.owed \cup {iter'.next} :
                           Ahead(order[iter.list], iter'.next, x, iter.fromHead)
  BY <1>2 DEF Pending
<1> DEFINE s == order[iter.list]
           fw == iter.fromHead
           n == iter.next
           d == IF fw THEN 1 ELSE -1
<1>3. iter.list \in Lists /\ fw \in BOOLEAN
  BY <1>1, IterList DEF IterType
<1>4. /\ s \in Seq(Addr) /\ Len(s) \in Nat /\ DOMAIN s = 1 .. Len(s)
      /\ Distinct(s) /\ Chain(heap, s) /\ \A j \in 1 .. Len(s) : s[j] # NULL
  BY <1>3, Facts, ElementOfSeq, ListAssumption
<1>5. \A x \in seen.owed \cup {n} : Ahead(s, n, x, fw)
  BY <1>2 DEF Pending
<1> HIDE DEF s, n, fw
<1>6. PICK i \in DOMAIN s : s[i] = n
  BY <1>5 DEF Ahead
<1>7. iter'.next = Place(s, i + d)
  <2>1. heap[n].prev = Place(s, i - 1) /\ heap[n].next = Place(s, i + 1)
    BY <1>4, <1>6 DEF Chain
  <2>2. iter'.next = IF fw THEN heap[n].next ELSE heap[n].prev
    BY <1>2 DEF Onward, n, fw
  <2>3. CASE fw
    BY <2>1, <2>2, <2>3
  <2>4. CASE ~fw
    <3>1. i + d = i - 1
      BY <1>4, <1>6, <2>4
    <3> QED BY <2>1, <2>2, <2>4, <3>1
  <2> QED BY <2>3, <2>4
<1>8. ASSUME NEW x \in seen'.owed
      PROVE  \E j \in DOMAIN s : s[j] = x /\ (IF fw THEN i + 1 <= j ELSE j <= i - 1)
  <2>1. x \in seen.owed /\ x # n
    BY <1>2, <1>8 DEF n
  <2>2. PICK h, j \in DOMAIN s : s[h] = n /\ s[j] = x /\ (IF fw THEN h <= j ELSE j <= h)
    BY <1>5, <2>1 DEF Ahead
  <2>3. h = i /\ j # i
    BY <1>4, <1>6, <2>1, <2>2 DEF Distinct
  <2>4. IF fw THEN i + 1 <= j ELSE j <= i - 1
    BY <1>4, <1>6, <2>2, <2>3
  <2> QED BY <2>2, <2>4
<1>9. CASE i + d \notin DOMAIN s
  <2>1. iter'.next = NULL
    BY <1>7, <1>9 DEF Place
  <2>2. seen'.owed = {}
    <3> SUFFICES ASSUME NEW x \in seen'.owed PROVE FALSE
      OBVIOUS
    <3>1. PICK j \in DOMAIN s : s[j] = x /\ (IF fw THEN i + 1 <= j ELSE j <= i - 1)
      BY <1>8
    <3> QED BY <1>4, <1>6, <1>9, <3>1
  <2> QED BY <2>1, <2>2
<1>10. CASE i + d \in DOMAIN s
  <2>1. iter'.next = s[i + d] /\ iter'.next # NULL
    BY <1>4, <1>7, <1>10 DEF Place
  <2>2. ASSUME NEW x \in seen'.owed PROVE Ahead(s, s[i + d], x, fw)
    <3>1. PICK j \in DOMAIN s : s[j] = x /\ (IF fw THEN i + 1 <= j ELSE j <= i - 1)
      BY <1>8
    <3>2. IF fw THEN i + d <= j ELSE j <= i + d
      BY <1>4, <1>6, <3>1
    <3> HIDE DEF d
    <3> QED BY <1>10, <3>1, <3>2 DEF Ahead
  <2>3. Ahead(s, s[i + d], s[i + d], fw)
    <3>1. i + d <= i + d
      BY <1>4, <1>10
    <3> HIDE DEF d
    <3> QED BY <1>10, <3>1 DEF Ahead
  <2> HIDE DEF d
  <2> QED BY <2>1, <2>2, <2>3 DEF s, fw
<1> QED BY <1>9, <1>10
--------------------------------------------------------------------------------
(* Lists own their values.                                                 *)

\* The nodes of lists that free their values.
Owners == UNION {Members(l) : l \in {m \in Lists : list[m].free}}

\* What ValuesOwned says while no such list was copied without a dup method.
Own ==
  /\ \A a \in Owners : heap[a].value \in pool
  /\ \A a, b \in Owners : heap[a].value = heap[b].value => a = b

\* An owner is in a list that frees its values.
LEMMA OwnersOf ==
  \A a : a \in Owners <=> \E l \in Lists : list[l].free /\ a \in Members(l)
BY DEF Owners

\* They are nodes malloc gave, and of the list that has them only.
LEMMA OwnersLive ==
  ASSUME ListInv
  PROVE  /\ Owners \subseteq live /\ Owners \subseteq Addr
         /\ \A l \in Lists : list[l].free => Members(l) \subseteq Owners
         /\ \A l \in Lists : ~list[l].free => Members(l) \cap Owners = {}
<1>1. Owners \subseteq live /\ Owners \subseteq Addr
  BY Facts, OwnersOf
<1>2. \A l \in Lists : list[l].free => Members(l) \subseteq Owners
  BY OwnersOf
<1>3. \A l \in Lists : ~list[l].free => Members(l) \cap Owners = {}
  BY OwnersOf, Apart DEF ListInv
<1> QED BY <1>1, <1>2, <1>3

\* No more owners, the same values, no value freed.
LEMMA OwnSame ==
  ASSUME Own, Owners' \subseteq Owners, pool \subseteq pool',
         \A x \in Owners' : heap'[x].value = heap[x].value
  PROVE  Own'
BY DEF Own

\* New owners, each with a value that no list had.
LEMMA OwnMore ==
  ASSUME Own, NEW ns, \A x \in Owners' : x \in Owners \/ x \in ns, pool \subseteq pool',
         \A x \in Owners : heap'[x].value = heap[x].value,
         \A x \in ns : heap'[x].value \in pool' \ pool,
         \A x, y \in ns : heap'[x].value = heap'[y].value => x = y
  PROVE  Own'
<1>1. \A x \in Owners : heap'[x].value \in pool /\ heap'[x].value \in pool'
  BY DEF Own
<1>2. \A x \in Owners' : heap'[x].value \in pool'
  BY <1>1
<1>3. \A x, y \in Owners : heap'[x].value = heap'[y].value => x = y
  BY DEF Own
<1>4. \A x, y \in Owners' : heap'[x].value = heap'[y].value => x = y
  BY <1>1, <1>3
<1> QED BY <1>2, <1>4 DEF Own

\* Owners leave with their values.
LEMMA OwnLess ==
  ASSUME Own, NEW ns, ns \subseteq Owners, \A x \in Owners' : x \in Owners /\ x \notin ns,
         \A x \in Owners' : heap'[x].value = heap[x].value,
         pool' = pool \ {heap[x].value : x \in ns}
  PROVE  Own'
<1>1. \A x \in Owners' : heap'[x].value \in pool'
  BY DEF Own
<1> QED BY <1>1 DEF Own

\* Where the owners come from after a call that gives one header and one sequence.
OwnersFrom(l, t, hd) ==
  \A x \in Owners' : \/ x \in Owners /\ x \notin Members(l)
                     \/ hd.free /\ \E j \in DOMAIN t : x = t[j]

\* They are those of the other lists, and the nodes of the sequence if they own theirs.
LEMMA OwnersAfter ==
  ASSUME ListInv, NEW l \in Lists, NEW t, order' = [order EXCEPT ![l] = t],
         NEW hd, list' = [list EXCEPT ![l] = hd]
  PROVE  OwnersFrom(l, t, hd)
<1>1. \A m \in Lists : /\ order'[m] = IF m = l THEN t ELSE order[m]
                       /\ list'[m] = IF m = l THEN hd ELSE list[m]
  BY DEF ListInv, ListTypeOK
<1> SUFFICES ASSUME NEW x \in Owners'
             PROVE  \/ x \in Owners /\ x \notin Members(l)
                    \/ hd.free /\ \E j \in DOMAIN t : x = t[j]
  BY DEF OwnersFrom
<1>2. PICK m \in Lists : list'[m].free /\ x \in Members(m)'
  BY DEF Owners
<1>3. CASE m = l
  BY <1>1, <1>2, <1>3 DEF Members
<1>4. CASE m # l
  <2>1. list[m].free /\ x \in Members(m)
    BY <1>1, <1>2, <1>4 DEF Members
  <2>2. x \in Owners /\ x \notin Members(l)
    BY <1>4, <2>1, Apart DEF Owners, ListInv
  <2> QED BY <2>2
<1> QED BY <1>3, <1>4

\* A list that frees its values takes only values no such list has.
LEMMA OwnAdded ==
  ASSUME ListInv, Own, NEW l \in Lists, NEW a \in Addr, NEW v \in Values, Added(l, a, v)
  PROVE  Own'
<1>1. PICK k \in 0 .. Len(order[l]), t \in Seq(Addr) :
        /\ Inserted(t, order[l], k, a) /\ order' = [order EXCEPT ![l] = t]
        /\ Woven(heap', heap, order[l], k, a, v)
  BY DEF Added
<1>2. PICK hd : list' = [list EXCEPT ![l] = hd] /\ hd.free = list[l].free
  BY DEF Added, Refitted
<1>3. /\ a \notin live /\ (list[l].free => v \notin pool)
      /\ pool' = IF list[l].free THEN pool \cup {v} ELSE pool
  BY DEF Added, Alloc
<1>4. heap'[a].value = v /\ \A x \in Addr \ {a} : heap'[x].value = heap[x].value
  BY <1>1 DEF Woven
<1>5. Owners \subseteq live /\ Owners \subseteq Addr /\ a \notin Owners
      /\ (list[l].free => Members(l) \subseteq Owners)
  BY <1>3, OwnersLive
<1>6. \A j \in DOMAIN t : t[j] = a \/ t[j] \in Members(l)
  <2>1. DOMAIN order[l] = 1 .. Len(order[l]) /\ Len(order[l]) \in Nat
        /\ \A i \in DOMAIN order[l] : order[l][i] \in Members(l)
    BY Facts
  <2>2. DOMAIN t = 1 .. Len(order[l]) + 1
    BY <1>1, <2>1 DEF Inserted
  <2> SUFFICES ASSUME NEW j \in DOMAIN t PROVE t[j] = a \/ t[j] \in Members(l)
    OBVIOUS
  <2>3. t[j] = IF j <= k THEN order[l][j] ELSE IF j = k + 1 THEN a ELSE order[l][j - 1]
    BY <1>1, <2>2 DEF Inserted
  <2>4. CASE j <= k
    BY <2>1, <2>2, <2>3, <2>4
  <2>5. CASE j = k + 1
    BY <2>3, <2>5
  <2>6. CASE j > k + 1
    BY <2>1, <2>2, <2>3, <2>6
  <2> QED BY <2>2, <2>4, <2>5, <2>6
<1>7. \A x \in Owners' : \/ x \in Owners /\ x \notin Members(l)
                         \/ hd.free /\ \E j \in DOMAIN t : x = t[j]
  <2>1. order' = [order EXCEPT ![l] = t] /\ list' = [list EXCEPT ![l] = hd]
    BY <1>1, <1>2
  <2>2. OwnersFrom(l, t, hd)
    BY <2>1, OwnersAfter
  <2> QED BY <2>2 DEF OwnersFrom
<1>8. CASE list[l].free
  <2>1. \A x \in Owners' : x \in Owners \/ x \in {a}
    BY <1>5, <1>6, <1>7, <1>8
  <2>2. pool \subseteq pool' /\ \A x \in {a} : heap'[x].value \in pool' \ pool
    BY <1>3, <1>4, <1>8
  <2>3. \A x \in Owners : heap'[x].value = heap[x].value
    BY <1>4, <1>5
  <2> QED BY <2>1, <2>2, <2>3, OwnMore
<1>9. CASE ~list[l].free
  <2>1. \A x \in Owners' : x \in Owners /\ heap'[x].value = heap[x].value
    BY <1>2, <1>4, <1>5, <1>7, <1>9
  <2> QED BY <1>3, <1>9, <2>1, OwnSame
<1> QED BY <1>8, <1>9

\* A value is freed with its node, and no other node has it.
LEMMA OwnDeleted ==
  ASSUME ListInv, Own, NEW l \in Lists, NEW i, Deleted(l, i)
  PROVE  Own'
<1> DEFINE n == order[l][i]
<1>1. PICK t \in Seq(Addr) : Removed(t, order[l], i) /\ order' = [order EXCEPT ![l] = t]
  BY DEF Deleted
<1>2. PICK hd : list' = [list EXCEPT ![l] = hd] /\ hd.free = list[l].free
  BY DEF Deleted, Refitted
<1>3. /\ DOMAIN order[l] = 1 .. Len(order[l]) /\ Len(order[l]) \in Nat /\ Distinct(order[l])
      /\ \A j \in DOMAIN order[l] : order[l][j] \in Members(l)
  BY Facts
<1>4. /\ i \in 1 .. Len(order[l]) /\ n \in Members(l)
      /\ pool' = IF list[l].free THEN pool \ {heap[n].value} ELSE pool
  BY <1>3 DEF Deleted
<1>5. \A x \in Addr \ {n} : heap'[x].value = heap[x].value
  BY DEF Deleted, Cut
<1>6. \A j \in DOMAIN t : t[j] \in Members(l) /\ t[j] # n
  <2>1. DOMAIN t = 1 .. Len(order[l]) - 1
    BY <1>1, <1>3, <1>4 DEF Removed
  <2> SUFFICES ASSUME NEW j \in DOMAIN t PROVE t[j] \in Members(l) /\ t[j] # n
    OBVIOUS
  <2>2. t[j] = IF j < i THEN order[l][j] ELSE order[l][j + 1]
    BY <1>1, <2>1 DEF Removed
  <2>3. CASE j < i
    <3>1. t[j] = order[l][j] /\ j \in DOMAIN order[l] /\ i \in DOMAIN order[l] /\ j # i
      BY <1>3, <1>4, <2>1, <2>2, <2>3
    <3> QED BY <1>3, <3>1 DEF Distinct
  <2>4. CASE j >= i
    <3>1. /\ t[j] = order[l][j + 1] /\ j + 1 \in DOMAIN order[l] /\ i \in DOMAIN order[l]
          /\ j + 1 # i
      BY <1>3, <1>4, <2>1, <2>2, <2>4
    <3> QED BY <1>3, <3>1 DEF Distinct
  <2> QED BY <1>4, <2>1, <2>3, <2>4
<1>7. \A x \in Owners' : \/ x \in Owners /\ x \notin Members(l)
                         \/ hd.free /\ \E j \in DOMAIN t : x = t[j]
  <2>1. order' = [order EXCEPT ![l] = t] /\ list' = [list EXCEPT ![l] = hd]
    BY <1>1, <1>2
  <2>2. OwnersFrom(l, t, hd)
    BY <2>1, OwnersAfter
  <2> QED BY <2>2 DEF OwnersFrom
<1>8. /\ Owners \subseteq Addr
      /\ list[l].free => Members(l) \subseteq Owners
  BY OwnersLive
<1> HIDE DEF n
<1>9. \A x \in Owners' : x \in Owners /\ x # n /\ heap'[x].value = heap[x].value
  BY <1>2, <1>4, <1>5, <1>6, <1>7, <1>8
<1>10. CASE list[l].free
  <2> DEFINE ns == {n}
  <2>1. ns \subseteq Owners /\ pool' = pool \ {heap[x].value : x \in ns}
    BY <1>4, <1>8, <1>10
  <2>2. \A x \in Owners' : x \in Owners /\ x \notin ns
    BY <1>9
  <2>3. \A x \in Owners' : heap'[x].value = heap[x].value
    BY <1>9
  <2> HIDE DEF ns
  <2> QED BY <2>1, <2>2, <2>3, OwnLess
<1>11. CASE ~list[l].free
  BY <1>4, <1>9, <1>11, OwnSame
<1> QED BY <1>10, <1>11

\* The values of a released list are freed with it, and no other list has them.
LEMMA OwnReleased ==
  ASSUME ListInv, Own, NEW l \in Lists, Release(l)
  PROVE  Own'
<1>1. /\ heap' = [a \in Addr |-> IF a \in Members(l) THEN Free ELSE heap[a]]
      /\ list' = [list EXCEPT ![l] = NoList] /\ order' = [order EXCEPT ![l] = <<>>]
      /\ pool' = IF list[l].free THEN pool \ {heap[x].value : x \in Members(l)} ELSE pool
  BY ReleasedMembers DEF Release
<1>2. \A x \in Owners' : \/ x \in Owners /\ x \notin Members(l)
                         \/ NoList.free /\ \E j \in DOMAIN << >> : x = << >>[j]
  <2>1. OwnersFrom(l, << >>, NoList)
    BY <1>1, OwnersAfter
  <2> QED BY <2>1 DEF OwnersFrom
<1>3. Owners \subseteq Addr /\ (list[l].free => Members(l) \subseteq Owners)
  BY OwnersLive
<1>4. \A x \in Owners' : x \in Owners /\ x \notin Members(l)
  BY <1>2 DEF NoList
<1>5. \A x \in Owners' : heap'[x].value = heap[x].value
  BY <1>1, <1>3, <1>4
<1>6. CASE list[l].free
  BY <1>1, <1>3, <1>4, <1>5, <1>6, OwnLess
<1>7. CASE ~list[l].free
  BY <1>1, <1>4, <1>5, <1>7, OwnSame
<1> QED BY <1>6, <1>7

\* listRotate leaves every value where it was.
LEMMA OwnReordered ==
  ASSUME ListInv, Own, NEW l \in Lists, Reordered(l)
  PROVE  Own'
<1>1. PICK hd : list' = [list EXCEPT ![l] = hd] /\ hd.free = list[l].free
  BY DEF Reordered, Refitted
<1>2. \A m \in Lists : list'[m].free = list[m].free
  BY <1>1 DEF ListInv, ListTypeOK
<1>3. \A m \in Lists : Members(m)' = Members(m)
  BY DEF Reordered
<1>4. \A x \in Owners' : x \in Owners
  BY <1>2, <1>3 DEF Owners
<1>5. \A x \in Owners' : heap'[x].value = heap[x].value
  BY <1>4, OwnersLive DEF Reordered
<1>6. pool' = pool
  BY DEF Reordered
<1> QED BY <1>4, <1>5, <1>6, OwnSame

\* The copy of a list that frees its values has values of its own, if there is a
\* dup method.
LEMMA OwnCopied ==
  ASSUME ListInv, Own, NEW l \in Lists, NEW c \in Lists, Duplicated(l, c),
         ~(list[l].free /\ ~list[l].dup)
  PROVE  Own'
<1>1. PICK hd : list' = [list EXCEPT ![c] = hd] /\ hd.free = list[l].free
  BY DEF Duplicated
<1>2. PICK as : \E vs \in Copied(l, Len(order[l])) :
        /\ order' = [order EXCEPT ![c] = as]
        /\ Distinct(as) /\ DOMAIN as = DOMAIN vs
        /\ \A j \in DOMAIN as : as[j] \in Addr \ live /\ heap'[as[j]].value = vs[j]
        /\ pool' = IF list[l].free THEN pool \cup {vs[k] : k \in DOMAIN vs} ELSE pool
  BY DEF Duplicated
<1>3. PICK vs \in Copied(l, Len(order[l])) :
        /\ order' = [order EXCEPT ![c] = as]
        /\ Distinct(as) /\ DOMAIN as = DOMAIN vs
        /\ \A j \in DOMAIN as : as[j] \in Addr \ live /\ heap'[as[j]].value = vs[j]
        /\ pool' = IF list[l].free THEN pool \cup {vs[k] : k \in DOMAIN vs} ELSE pool
  BY <1>2
<1>4. \A x \in live : heap'[x].value = heap[x].value
  BY DEF Duplicated
<1>5. Owners \subseteq live
  BY OwnersLive
<1>6. \A x \in Owners' : \/ x \in Owners /\ x \notin Members(c)
                         \/ hd.free /\ \E j \in DOMAIN as : x = as[j]
  <2>1. order' = [order EXCEPT ![c] = as] /\ list' = [list EXCEPT ![c] = hd]
    BY <1>1, <1>3
  <2>2. OwnersFrom(c, as, hd)
    BY <2>1, OwnersAfter
  <2> QED BY <2>2 DEF OwnersFrom
<1>7. CASE list[l].free
  <2> DEFINE ns == {as[j] : j \in DOMAIN as}
  <2>1. vs \in Fresh(Values \ pool, Len(order[l]))
    BY <1>7 DEF Copied
  <2>2. Distinct(vs) /\ \A j \in DOMAIN vs : vs[j] \notin pool
    BY <2>1 DEF Fresh
  <2>3. pool' = pool \cup {vs[k] : k \in DOMAIN vs}
    BY <1>3, <1>7
  <2>4. \A x \in ns : heap'[x].value \in pool' \ pool
    <3> SUFFICES ASSUME NEW j \in DOMAIN as PROVE heap'[as[j]].value \in pool' \ pool
      OBVIOUS
    <3>1. j \in DOMAIN vs /\ heap'[as[j]].value = vs[j]
      BY <1>3
    <3>2. vs[j] \in pool' /\ vs[j] \notin pool
      BY <2>2, <2>3, <3>1, Zenon
    <3> QED BY <3>1, <3>2
  <2>5. \A x, y \in ns : heap'[x].value = heap'[y].value => x = y
    <3> SUFFICES ASSUME NEW i \in DOMAIN as, NEW j \in DOMAIN as,
                        heap'[as[i]].value = heap'[as[j]].value
                 PROVE  i = j
      OBVIOUS
    <3>1. i \in DOMAIN vs /\ j \in DOMAIN vs /\ vs[i] = vs[j]
      BY <1>3
    <3> QED BY <2>2, <3>1 DEF Distinct
  <2>6. \A x \in Owners' : x \in Owners \/ x \in ns
    BY <1>6
  <2>7. \A x \in Owners : heap'[x].value = heap[x].value
    BY <1>4, <1>5
  <2> HIDE DEF ns
  <2> QED BY <2>3, <2>4, <2>5, <2>6, <2>7, OwnMore
<1>8. CASE ~list[l].free
  <2>1. \A x \in Owners' : x \in Owners
    BY <1>1, <1>6, <1>8
  <2>2. \A x \in Owners' : heap'[x].value = heap[x].value
    BY <1>4, <1>5, <2>1
  <2>3. pool' = pool
    BY <1>3, <1>8
  <2> QED BY <2>1, <2>2, <2>3, OwnSame
<1> QED BY <1>7, <1>8
--------------------------------------------------------------------------------
(* Lookups.                                                                *)

\* listIndex counts along the list from either end.
LEMMA IndexAgrees ==
  ASSUME ListInv, NEW l \in Lists, NEW i \in (-Cardinality(Addr)) .. Cardinality(Addr)
  PROVE  Index(l, i) = Place(order[l], IF i >= 0 THEN i + 1 ELSE Len(order[l]) + i + 1)
<1> DEFINE N == Cardinality(Addr)
<1>1. N \in Nat /\ Len(order[l]) \in Nat
  BY Bounded, Facts
<1>2. i \in Int /\ (i >= 0 <=> ~(i < 0))
  BY <1>1
<1>3. CASE i >= 0
  <2>1. i \in 0 .. N
    BY <1>1, <1>3
  <2>2. Index(l, i) = Steps(heap, list[l].head, TRUE)[i]
    BY <1>3, <1>2 DEF Index
  <2> QED BY <1>3, <2>1, <2>2, StepsForward
<1>4. CASE i < 0
  <2>1. (-i) - 1 \in 0 .. N
    BY <1>1, <1>4
  <2>2. Index(l, i) = Steps(heap, list[l].tail, FALSE)[(-i) - 1]
    BY <1>4 DEF Index, FromTail
  <2>3. Steps(heap, list[l].tail, FALSE)[(-i) - 1] = Place(order[l], Len(order[l]) - ((-i) - 1))
    BY <2>1, StepsBackward
  <2>4. Len(order[l]) - ((-i) - 1) = Len(order[l]) + i + 1 /\ ~(i >= 0)
    <3>1. \A m, n \in Int : n - ((-m) - 1) = n + m + 1
      OBVIOUS
    <3>2. Len(order[l]) \in Int /\ ~(i >= 0)
      BY <1>1, <1>4, <1>2
    <3> HIDE DEF N
    <3> QED BY <1>2, <3>1, <3>2
  <2> QED BY <2>2, <2>3, <2>4
<1> QED BY <1>3, <1>4, <1>2

\* listSearch gives the first node whose value the match method takes.
Finds(l, key, match, found) ==
  LET s == order[l] IN
    IF found = NULL
    THEN \A i \in DOMAIN s : ~Takes(heap[s[i]].value, key, match)
    ELSE \E i \in DOMAIN s :
           /\ s[i] = found /\ Takes(heap[found].value, key, match)
           /\ \A j \in 1..(i - 1) : ~Takes(heap[s[j]].value, key, match)

\* The walk from the head meets it first.
LEMMA SearchAgrees ==
  ASSUME ListInv, NEW l \in Lists, NEW key, NEW match
  PROVE  Finds(l, key, match, Search(l, key, match))
<1> DEFINE s == order[l]
           N == Cardinality(Addr)
           at == Steps(heap, list[l].head, TRUE)
           Hit(k) == at[k] # NULL /\ Takes(heap[at[k]].value, key, match)
           hits == {k \in DOMAIN at : Hit(k)}
           first == CHOOSE k \in hits : \A j \in hits : k <= j
<1>1. /\ s \in Seq(Addr) /\ Len(s) \in Nat /\ DOMAIN s = 1 .. Len(s)
      /\ \A i \in 1 .. Len(s) : s[i] # NULL
  BY Facts, ElementOfSeq, ListAssumption
<1>2. N \in Nat /\ Len(s) <= N
  BY Bounded
<1>3. DOMAIN at = 0 .. N /\ \A k \in 0 .. N : at[k] = Place(s, k + 1)
  BY StepsForward
<1>4. Search(l, key, match) = IF hits = {} THEN NULL ELSE at[first]
  BY DEF Search
<1> HIDE DEF at, s
<1>5. \A k \in 1 .. Len(s) : k - 1 \in DOMAIN at /\ at[k - 1] = s[k]
  <2> SUFFICES ASSUME NEW k \in 1 .. Len(s) PROVE k - 1 \in DOMAIN at /\ at[k - 1] = s[k]
    OBVIOUS
  <2>1. k - 1 \in 0 .. N /\ (k - 1) + 1 = k
    BY <1>1, <1>2
  <2> QED BY <1>1, <1>3, <2>1 DEF Place
<1>6. ASSUME NEW i \in 1 .. Len(s), i - 1 \notin hits
      PROVE  ~Takes(heap[s[i]].value, key, match)
  <2>1. ~ Hit(i - 1)
    BY <1>5, <1>6
  <2> QED BY <1>1, <1>5, <2>1
<1>7. CASE hits = {}
  <2>1. \A i \in DOMAIN s : ~Takes(heap[s[i]].value, key, match)
    BY <1>1, <1>6, <1>7
  <2> QED BY <1>4, <1>7, <2>1 DEF Finds, s
<1>8. CASE hits # {}
  <2>1. hits \subseteq Nat
    BY <1>2, <1>3
  <2>2. first \in hits /\ \A j \in hits : first <= j
    <3>1. \E k \in hits : \A j \in hits : k <= j
      <4> HIDE DEF hits
      <4> QED BY <1>8, <2>1, Least
    <3> HIDE DEF hits
    <3> QED BY <3>1
  <2> HIDE DEF first
  <2>3. first \in 0 .. N /\ at[first] # NULL /\ Takes(heap[at[first]].value, key, match)
    BY <1>3, <2>2
  <2>4. first + 1 \in 1 .. Len(s) /\ at[first] = s[first + 1]
    BY <1>1, <1>3, <2>3 DEF Place
  <2> HIDE DEF hits
  <2>5. ASSUME NEW j \in 1 .. (first + 1) - 1 PROVE ~Takes(heap[s[j]].value, key, match)
    <3>1. j \in 1 .. Len(s) /\ j - 1 \in Nat /\ ~(first <= j - 1)
      BY <1>1, <2>3, <2>4
    <3>2. j - 1 \notin hits
      BY <2>2, <3>1
    <3> QED BY <1>6, <3>1, <3>2
  <2>6. Search(l, key, match) = at[first]
    BY <1>4, <1>8 DEF first
  <2> QED BY <1>1, <2>3, <2>4, <2>5, <2>6, Zenon DEF Finds, s
<1> QED BY <1>7, <1>8

\* So the lookups agree with the sequence in every state.
LEMMA LookupsAgree ==
  ASSUME ListInv
  PROVE  LookupAgrees
<1> SUFFICES ASSUME NEW l \in Lists
             PROVE  /\ \A i \in (-Cardinality(Addr)) .. Cardinality(Addr) :
                         Index(l, i) = Place(order[l], IF i >= 0 THEN i + 1
                                                       ELSE Len(order[l]) + i + 1)
                    /\ \A key \in Values, match \in BOOLEAN :
                         Finds(l, key, match, Search(l, key, match))
  BY DEF LookupAgrees, Finds
<1> QED BY IndexAgrees, SearchAgrees
--------------------------------------------------------------------------------
(* The invariant.                                                          *)

\* The lists are well made, the iterator misses no node, the values have one owner.
LibraryInv == ListInv /\ Pending /\ (~seen.shared => Own)

\* Before the first call there are no lists.
LEMMA ListInvInit == Init => ListInv
<1> SUFFICES ASSUME Init PROVE ListInv
  OBVIOUS
<1>1. ListTypeOK
  <2>1. heap \in [Addr -> Node]
    BY DEF Init, Free, Node
  <2>2. list \in [Lists -> Header]
    BY DEF Init, NoList, Header
  <2>3. iter \in IterType
    BY DEF Init, NoIter, IterType
  <2>4. seen \in SeenType
    BY DEF Init, Unseen, SeenType
  <2>5. order \in [Lists -> Seq(Addr)] /\ live \subseteq Addr /\ pool \subseteq Values
    BY DEF Init
  <2> QED BY <2>1, <2>2, <2>3, <2>4, <2>5 DEF ListTypeOK, IterType, SeenType
<1>2. \A l \in Lists : order[l] = <<>> /\ Members(l) = {} /\ list[l] = NoList
  BY DEF Init, Members
<1>3. Linked
  BY <1>2 DEF Linked, Place, NoList
<1>4. NodesOwned
  BY <1>2 DEF NodesOwned, Init
<1>5. Tidy
  BY <1>2 DEF Tidy, Init
<1> QED BY <1>1, <1>3, <1>4, <1>5 DEF ListInv

\* And no iterator, and no values.
LEMMA LibraryInvInit == Init => LibraryInv
<1> SUFFICES ASSUME Init PROVE LibraryInv
  OBVIOUS
<1>1. ListInv
  BY ListInvInit
<1>2. Pending
  BY DEF Init, NoIter, Pending
<1>3. Owners = {}
  BY DEF Init, Owners, NoList
<1>4. Own
  BY <1>3 DEF Own
<1> QED BY <1>1, <1>2, <1>4 DEF LibraryInv

\* A call that leaves lists and their nodes alone, and takes no value away.
LEMMA OwnUntouched ==
  ASSUME ListInv, Own, UNCHANGED <<list, order>>, \A x \in live : heap'[x] = heap[x],
         pool \subseteq pool'
  PROVE  Own'
<1>1. Owners' = Owners
  BY DEF Owners, Members
<1>2. \A x \in Owners' : heap'[x].value = heap[x].value
  BY <1>1, OwnersLive
<1> QED BY <1>1, <1>2, OwnSame

\* The mark of a copy without a dup method is never taken back.
LEMMA SharedStays ==
  ASSUME LibraryInv, seen'.shared = seen.shared, Own => Own'
  PROVE  ~seen'.shared => Own'
BY DEF LibraryInv

\* What Forget leaves of it.
LEMMA ForgetShared ==
  ASSUME ListInv, NEW ns, Forget(ns)
  PROVE  seen'.shared = seen.shared
<1>1. seen \in SeenType
  BY DEF ListInv, ListTypeOK, SeenType
<1> QED BY <1>1 DEF Forget, Unseen, SeenType

\* And copying.
LEMMA CopyShares ==
  ASSUME ListInv, NEW l, seen' = [seen EXCEPT !.shared = @ \/ (list[l].free /\ ~list[l].dup)]
  PROVE  /\ ~seen'.shared => ~seen.shared /\ ~(list[l].free /\ ~list[l].dup)
         /\ seen'.owed = seen.owed /\ seen'.rotated = seen.rotated
<1>1. seen \in SeenType
  BY DEF ListInv, ListTypeOK, SeenType
<1> QED BY <1>1 DEF SeenType

\* Each call keeps the three parts: listCreate.
LEMMA CreateKeeps ==
  ASSUME LibraryInv, NEW l \in Lists, NEW dup \in BOOLEAN, NEW free \in BOOLEAN,
         Create(l, dup, free)
  PROVE  LibraryInv'
<1>1. ListInv'
  BY Created DEF LibraryInv
<1>2. UNCHANGED <<heap, pool, iter, order, seen>>
  BY DEF Create
<1>3. Pending'
  BY <1>2 DEF LibraryInv, Pending
<1>4. Own => Own'
  <2> SUFFICES ASSUME Own PROVE Own'
    OBVIOUS
  <2>1. Members(l) = {}
    BY DEF Create, LibraryInv, ListInv, Tidy, Members
  <2>2. \A m \in Lists \ {l} : list'[m].free = list[m].free
    BY DEF Create, LibraryInv, ListInv, ListTypeOK
  <2>3. \A m \in Lists : Members(m)' = Members(m)
    BY <1>2 DEF Members
  <2>4. \A x \in Owners' : x \in Owners
    BY <2>1, <2>2, <2>3 DEF Owners
  <2> QED BY <1>2, <2>4, OwnSame
<1>5. ~seen'.shared => Own'
  BY <1>2, <1>4, SharedStays
<1> QED BY <1>1, <1>3, <1>5 DEF LibraryInv

\* The three insertions.
LEMMA AddKeeps ==
  ASSUME LibraryInv, NEW l \in Lists, NEW a \in Addr, NEW v \in Values, ListInv', Added(l, a, v)
  PROVE  LibraryInv'
<1>1. Pending'
  BY PendingAdded DEF LibraryInv
<1>2. Own => Own'
  BY OwnAdded DEF LibraryInv
<1>3. seen' = seen
  BY DEF Added, Alloc
<1>4. ~seen'.shared => Own'
  BY <1>2, <1>3, SharedStays
<1> QED BY <1>1, <1>4 DEF LibraryInv

\* listDelNode.
LEMMA DelKeeps ==
  ASSUME LibraryInv, NEW l \in Lists, NEW i, DelNode(l, i)
  PROVE  LibraryInv'
<1>1. ListInv /\ ListInv' /\ Deleted(l, i)
  BY NodeDeleted DEF LibraryInv
<1>2. Pending'
  BY <1>1, PendingDeleted DEF LibraryInv
<1>3. Own => Own'
  BY <1>1, OwnDeleted
<1>4. seen'.shared = seen.shared
  <2>1. Forget({order[l][i]})
    BY <1>1 DEF Deleted
  <2> QED BY <1>1, <2>1, ForgetShared
<1>5. ~seen'.shared => Own'
  BY <1>3, <1>4, SharedStays
<1> QED BY <1>1, <1>2, <1>5 DEF LibraryInv

\* listRelease.
LEMMA ReleaseKeeps ==
  ASSUME LibraryInv, NEW l \in Lists, Release(l)
  PROVE  LibraryInv'
<1>1. ListInv /\ ListInv'
  BY ListReleased DEF LibraryInv
<1>2. Pending'
  BY <1>1, PendingReleased DEF LibraryInv
<1>3. Own => Own'
  BY <1>1, OwnReleased
<1>4. seen'.shared = seen.shared
  <2>1. Forget(Released(heap, list[l]))
    BY DEF Release
  <2> QED BY <1>1, <2>1, ForgetShared
<1>5. ~seen'.shared => Own'
  BY <1>3, <1>4, SharedStays
<1> QED BY <1>1, <1>2, <1>5 DEF LibraryInv

\* listRotate.
LEMMA RotateKeeps ==
  ASSUME LibraryInv, NEW l \in Lists, Rotate(l)
  PROVE  LibraryInv'
<1>1. ListInv /\ ListInv' /\ Reordered(l)
  BY Rotated DEF LibraryInv
<1>2. Pending'
  BY <1>1, PendingRotated DEF LibraryInv
<1>3. Own => Own'
  BY <1>1, OwnReordered
<1>4. seen'.shared = seen.shared
  <2>1. seen \in SeenType
    BY <1>1 DEF ListInv, ListTypeOK, SeenType
  <2> QED BY <2>1 DEF Rotate, SeenType
<1>5. ~seen'.shared => Own'
  BY <1>3, <1>4, SharedStays
<1> QED BY <1>1, <1>2, <1>5 DEF LibraryInv

\* listDup.
LEMMA DupKeeps ==
  ASSUME LibraryInv, NEW l \in Lists, NEW c \in Lists, Dup(l, c)
  PROVE  LibraryInv'
<1>1. ListInv /\ ListInv' /\ Duplicated(l, c)
  BY ListCopied DEF LibraryInv
<1>2. Pending'
  BY <1>1, PendingCopied DEF LibraryInv
<1>3. ~seen'.shared => ~seen.shared /\ ~(list[l].free /\ ~list[l].dup)
  BY <1>1, DupIs, CopyShares
<1>4. ~seen'.shared => Own'
  BY <1>1, <1>3, OwnCopied DEF LibraryInv
<1> QED BY <1>1, <1>2, <1>4 DEF LibraryInv

\* listDup without memory for it.
LEMMA DupFailsKeeps ==
  ASSUME LibraryInv, NEW l \in Lists, NEW k, DupFails(l, k)
  PROVE  LibraryInv'
<1>1. ListInv /\ CopyUndone(l)
  BY CopyFailed DEF LibraryInv
<1>2. ListInv'
  BY <1>1, UndoneKeeps
<1>3. /\ ~seen'.shared => ~seen.shared /\ ~(list[l].free /\ ~list[l].dup)
      /\ seen'.owed = seen.owed /\ seen'.rotated = seen.rotated
  BY <1>1, CopyShares DEF CopyUndone
<1>4. Pending'
  BY <1>1, <1>3 DEF CopyUndone, LibraryInv, Pending
<1>5. ~seen'.shared => Own'
  BY <1>1, <1>3, OwnUntouched DEF CopyUndone, LibraryInv
<1> QED BY <1>2, <1>4, <1>5 DEF LibraryInv

\* listGetIterator, listRewind, listNext and listReleaseIterator.
LEMMA IteratorKeeps ==
  ASSUME LibraryInv,
         (\E l \in Lists, fromHead \in BOOLEAN : GetIterator(l, fromHead))
           \/ ListNext \/ ReleaseIterator
  PROVE  LibraryInv'
<1>1. ListInv /\ ListInv'
  BY IteratorMoved DEF LibraryInv
<1>2. UNCHANGED <<heap, list, order, pool>>
  BY DEF GetIterator, ListNext, ReleaseIterator
<1>3. seen'.shared = seen.shared
  <2>1. seen \in SeenType
    BY <1>1 DEF ListInv, ListTypeOK, SeenType
  <2> QED BY <2>1 DEF GetIterator, ListNext, ReleaseIterator, Unseen, SeenType
<1>4. Own => Own'
  BY <1>1, <1>2, OwnUntouched
<1>5. ~seen'.shared => Own'
  BY <1>3, <1>4, SharedStays
<1>6. Pending'
  <2>1. CASE \E l \in Lists, fromHead \in BOOLEAN : GetIterator(l, fromHead)
    BY <1>1, <2>1, PendingAnew
  <2>2. CASE ListNext
    BY <1>1, <2>2, PendingNext DEF LibraryInv
  <2>3. CASE ReleaseIterator
    BY <2>3 DEF ReleaseIterator, NoIter, Pending
  <2> QED BY <2>1, <2>2, <2>3
<1> QED BY <1>1, <1>5, <1>6 DEF LibraryInv

\* Every call of the library keeps the invariant.
LEMMA LibraryInvStep == LibraryInv /\ [Next]_vars => LibraryInv'
<1> SUFFICES ASSUME LibraryInv, [Next]_vars PROVE LibraryInv'
  OBVIOUS
<1>0. ListInv
  BY DEF LibraryInv
<1>1. ASSUME NEW l \in Lists, NEW dup \in BOOLEAN, NEW free \in BOOLEAN, Create(l, dup, free)
      PROVE  LibraryInv'
  BY <1>1, CreateKeeps
<1>2. ASSUME NEW l \in Lists, NEW a \in Addr, NEW v \in Values, AddNodeHead(l, a, v)
      PROVE  LibraryInv'
  BY <1>0, <1>2, HeadAdded, AddKeeps
<1>3. ASSUME NEW l \in Lists, NEW a \in Addr, NEW v \in Values, AddNodeTail(l, a, v)
      PROVE  LibraryInv'
  BY <1>0, <1>3, TailAdded, AddKeeps
<1>4. ASSUME NEW l \in Lists, NEW a \in Addr, NEW v \in Values, NEW i \in 1 .. Cardinality(Addr),
             NEW after \in BOOLEAN, InsertNode(l, i, a, v, after)
      PROVE  LibraryInv'
  BY <1>0, <1>4, NodeInserted, AddKeeps
<1>5. ASSUME NEW l \in Lists, Release(l) PROVE LibraryInv'
  BY <1>5, ReleaseKeeps
<1>6. ASSUME NEW l \in Lists, Rotate(l) PROVE LibraryInv'
  BY <1>6, RotateKeeps
<1>7. ASSUME NEW l \in Lists, NEW i \in 1 .. Cardinality(Addr), DelNode(l, i) PROVE LibraryInv'
  BY <1>7, DelKeeps
<1>8. ASSUME NEW l \in Lists, NEW fromHead \in BOOLEAN, GetIterator(l, fromHead)
      PROVE  LibraryInv'
  BY <1>8, IteratorKeeps
<1>9. ASSUME NEW l \in Lists, NEW c \in Lists, Dup(l, c) PROVE LibraryInv'
  BY <1>9, DupKeeps
<1>10. ASSUME NEW l \in Lists, NEW k \in 0 .. Cardinality(Addr), DupFails(l, k)
       PROVE  LibraryInv'
  BY <1>10, DupFailsKeeps
<1>11. CASE ListNext \/ ReleaseIterator
  BY <1>11, IteratorKeeps
<1>12. CASE UNCHANGED vars
  <2>1. iter' \in IterType /\ seen' \in SeenType /\ pool' \subseteq Values
    BY <1>0, <1>12 DEF vars, ListInv, ListTypeOK, IterType, SeenType
  <2>2. UNCHANGED <<heap, live, list, order>>
    BY <1>12 DEF vars
  <2>6. heap' \in [Addr -> Node] /\ \A x \in live : heap'[x] = heap[x]
    BY <1>0, <2>2 DEF ListInv, ListTypeOK
  <2>3. ListInv'
    BY <1>0, <2>1, <2>2, <2>6, Untouched
  <2>4. Pending'
    BY <1>12 DEF vars, LibraryInv, Pending
  <2>5. ~seen'.shared => Own'
    BY <1>0, <1>12, OwnUntouched DEF vars, LibraryInv
  <2> QED BY <2>3, <2>4, <2>5 DEF LibraryInv
<1> QED BY <1>1, <1>2, <1>3, <1>4, <1>5, <1>6, <1>7, <1>8, <1>9, <1>10, <1>11, <1>12 DEF Next

\* In every state: well-made lists, an iterator that misses nothing, owned values.
THEOREM ListInvariant == Spec => []LibraryInv
BY LibraryInvInit, LibraryInvStep, PTL DEF Spec

\* Every variable of the list library has its type, whatever the addresses, values
\* and lists and in whatever order the calls come.
THEOREM ListTypeCorrect == Spec => []ListTypeOK
<1>1. LibraryInv => ListTypeOK
  BY DEF LibraryInv, ListInv
<1> QED BY <1>1, ListInvariant, PTL

\* The head, tail, len, prev and next that listAddNodeHead, listAddNodeTail,
\* listInsertNode, listDelNode, listRotate, listDup and listRelease write are those
\* of the sequence of nodes the calls made, from both ends.
THEOREM ListIsLinked == Spec => []Linked
<1>1. LibraryInv => Linked
  BY DEF LibraryInv, ListInv
<1> QED BY <1>1, ListInvariant, PTL

\* malloc and free match: a node is live exactly while it is in one place of one
\* list; release frees all of a list, and a copy shares no node with its original.
THEOREM ListOwnsNodes == Spec => []NodesOwned
<1>1. LibraryInv => NodesOwned
  BY DEF LibraryInv, ListInv
<1> QED BY <1>1, ListInvariant, PTL

\* An iterator that reached the end gave every node that was there from its start and
\* still is, from the head or the tail, whatever was inserted or deleted meanwhile.
THEOREM IteratorsVisitAll == Spec => []VisitsAll
<1>1. LibraryInv => VisitsAll
  BY DEF LibraryInv, Pending, VisitsAll
<1> QED BY <1>1, ListInvariant, PTL

\* No value is freed twice or while a node has it: the free method of listDelNode and
\* listRelease gets a value that was allocated and that no other node has, unless a
\* list that frees its values was copied without a dup method.
THEOREM ListOwnsValues == Spec => []ValuesOwned
<1>1. LibraryInv => ValuesOwned
  BY DEF LibraryInv, Own, Owners, ValuesOwned
<1> QED BY <1>1, ListInvariant, PTL

\* listIndex gives the node of that place from either end, listSearch the first node of
\* the value, or NULL.
THEOREM ListLooksUp == Spec => []LookupAgrees
<1>1. LibraryInv => LookupAgrees
  BY LookupsAgree DEF LibraryInv
<1> QED BY <1>1, ListInvariant, PTL
================================================================================
