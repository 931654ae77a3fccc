----------------------------- MODULE CrontabProofs -----------------------------
(***************************************************************************)
(* What the operations on a crontab preserve, for lists of any length; and *)
(* facts about numbers and functions that every proof about a loop needs.  *)
(***************************************************************************)
EXTENDS Crontab, TLAPS, SequenceTheorems, WellFoundedInduction

\* Any set of nodes with natural times will do.
Timed(Node) == \A n \in Node : n.mtime \in Nat

\* A nonempty set of naturals has a least element.
LEMMA Least ==
  ASSUME NEW T, T \subseteq Nat, T # {}
  PROVE  \E x \in T : \A y \in T : x <= y
<1>1. PICK R : R = {ss \in Nat \X Nat : ss[1] < ss[2]}
  OBVIOUS
<1>2. IsWellFoundedOn(R, Nat)
  <2>1. OpToRel(<, Nat) = R
    BY <1>1 DEF OpToRel
  <2> QED BY <2>1, NatLessThanWellFounded
<1>3. PICK x \in T : \A y \in T : ~ (<<y, x>> \in R)
  BY <1>2, WFMin, Zenon
<1>4. \A x1, y \in Nat : y < x1 => <<y, x1>> \in R
  BY <1>1
<1>5. ASSUME NEW y \in T PROVE x <= y
  <2>1. x \in Nat /\ y \in Nat
    OBVIOUS
  <2>2. ~ (y < x)
    BY <1>3, <1>4, <2>1, Zenon
  <2> QED BY <2>1, <2>2
<1> QED BY <1>5

\* The loop of the middle insertion (wcx_task.c:255) always finds its place: the
\* tail of the list is later than the new node.
LEMMA FirstLaterFound ==
  ASSUME NEW Node, Timed(Node), NEW list \in Seq(Node), NEW m \in Nat,
         list # <<>>, m < list[Len(list)].mtime
  PROVE  /\ FirstLater(list, m) \in 1 .. Len(list)
         /\ list[FirstLater(list, m)].mtime > m
         /\ \A j \in 1 .. FirstLater(list, m) - 1 : list[j].mtime <= m
<1> DEFINE Later == {i \in 1 .. Len(list) : list[i].mtime > m}
           IsFirst(i) == /\ list[i].mtime > m
                         /\ \A j \in 1 .. i - 1 : list[j].mtime <= m
<1>1. \A i \in 1 .. Len(list) : list[i].mtime \in Nat
  BY ElementOfSeq DEF Timed
<1>2. Len(list) \in 1 .. Len(list)
  BY EmptySeq
<1>3. Len(list) \in Later
  BY <1>1, <1>2
<1>4. PICK i \in Later : \A k \in Later : i <= k
  <2>1. Later \subseteq Nat
    OBVIOUS
  <2> HIDE DEF Later
  <2> QED BY <2>1, <1>3, Least
<1>5. IsFirst(i)
  <2> SUFFICES ASSUME NEW j \in 1 .. i - 1 PROVE list[j].mtime <= m
    BY <1>4
  <2>1. j \in 1 .. Len(list) /\ j < i
    BY <1>4
  <2>2. j \notin Later
    BY <1>4, <2>1
  <2> QED BY <2>1, <2>2, <1>1
<1>6. i \in DOMAIN list /\ DOMAIN list = 1 .. Len(list)
  BY <1>4, LenProperties
<1>7. \E k \in DOMAIN list : IsFirst(k)
  BY <1>5, <1>6
<1>8. FirstLater(list, m) \in DOMAIN list /\ IsFirst(FirstLater(list, m))
  <2> HIDE DEF IsFirst
  <2>1. FirstLater(list, m) = CHOOSE k \in DOMAIN list : IsFirst(k)
    BY DEF FirstLater, IsFirst
  <2> QED BY <2>1, <1>7, Zenon
<1> QED BY <1>6, <1>8

\* What InsertAt does to a sequence, element by element.
LEMMA InsertAtProperties ==
  ASSUME NEW Node, NEW list \in Seq(Node), NEW e \in Node, NEW i \in 1 .. Len(list)
  PROVE  /\ InsertAt(list, i, e) \in Seq(Node)
         /\ Len(InsertAt(list, i, e)) = Len(list) + 1
         /\ \A k \in 1 .. Len(list) + 1 : InsertAt(list, i, e)[k] =
              IF k < i THEN list[k] ELSE IF k = i THEN e ELSE list[k - 1]
<1> DEFINE A == SubSeq(list, 1, i - 1)
           B == SubSeq(list, i, Len(list))
           n == Len(list)
<1>1. n \in Nat /\ i \in 1 .. n /\ \A k \in 1 .. n : list[k] \in Node
  BY LenProperties, ElementOfSeq
<1>2. /\ A \in Seq(Node) /\ Len(A) = i - 1
      /\ \A k \in 1 .. i - 1 : A[k] = list[k]
  <2>1. \A k \in 1 .. i - 1 : list[k] \in Node
    BY <1>1
  <2>2. /\ SubSeq(list, 1, i - 1) \in Seq(Node)
        /\ Len(SubSeq(list, 1, i - 1)) = IF 1 <= i - 1 THEN (i - 1) - 1 + 1 ELSE 0
        /\ \A k \in 1 .. (i - 1) - 1 + 1 : SubSeq(list, 1, i - 1)[k] = list[1 + k - 1]
    BY <1>1, <2>1, SubSeqProperties
  <2> QED BY <1>1, <2>2
<1>3. /\ B \in Seq(Node) /\ Len(B) = n - i + 1
      /\ \A k \in 1 .. n - i + 1 : B[k] = list[i + k - 1]
  BY <1>1, SubSeqProperties
<1>4. /\ <<e>> \in Seq(Node) /\ Len(<<e>>) = 1 /\ <<e>>[1] = e
  OBVIOUS
<1>5. /\ A \o <<e>> \in Seq(Node) /\ Len(A \o <<e>>) = i
      /\ \A k \in 1 .. i : (A \o <<e>>)[k] = IF k <= i - 1 THEN list[k] ELSE e
  <2> HIDE DEF A
  <2>1. /\ A \o <<e>> \in Seq(Node) /\ Len(A \o <<e>>) = Len(A) + Len(<<e>>)
        /\ \A k \in 1 .. Len(A) + Len(<<e>>) : (A \o <<e>>)[k] =
              IF k <= Len(A) THEN A[k] ELSE <<e>>[k - Len(A)]
    BY <1>2, <1>4, ConcatProperties
  <2> QED BY <1>1, <1>2, <1>4, <2>1
<1>6. /\ (A \o <<e>>) \o B \in Seq(Node) /\ Len((A \o <<e>>) \o B) = n + 1
      /\ \A k \in 1 .. n + 1 : ((A \o <<e>>) \o B)[k] =
            IF k < i THEN list[k] ELSE IF k = i THEN e ELSE list[k - 1]
  <2> DEFINE C == A \o <<e>>
  <2> HIDE DEF A, B, C
  <2>0. /\ C \in Seq(Node) /\ Len(C) = i
        /\ \A k \in 1 .. i : C[k] = IF k <= i - 1 THEN list[k] ELSE e
    BY <1>5 DEF C
  <2>1. /\ C \o B \in Seq(Node) /\ Len(C \o B) = Len(C) + Len(B)
        /\ \A k \in 1 .. Len(C) + Len(B) : (C \o B)[k] =
              IF k <= Len(C) THEN C[k] ELSE B[k - Len(C)]
    BY <2>0, <1>3, ConcatProperties
  <2>2. Len(C \o B) = n + 1
    BY <1>1, <1>3, <2>0, <2>1
  <2>3. ASSUME NEW k \in 1 .. n + 1
        PROVE  (C \o B)[k] = IF k < i THEN list[k] ELSE IF k = i THEN e ELSE list[k - 1]
    <3>0. k <= i \/ k > i
      BY <1>1
    <3>1. CASE k <= i
      BY <3>1, <1>1, <1>3, <2>0, <2>1
    <3>2. CASE k > i
      <4>1. (C \o B)[k] = B[k - i]
        BY <3>2, <1>1, <1>3, <2>0, <2>1
      <4>2. k - i \in 1 .. n - i + 1 /\ i + (k - i) - 1 = k - 1
        BY <3>2, <1>1
      <4>3. B[k - i] = list[i + (k - i) - 1]
        BY <4>2, <1>3
      <4> QED BY <3>2, <4>1, <4>2, <4>3, <1>1, SMTT(30)
    <3> QED BY <3>0, <3>1, <3>2
  <2> QED BY <2>1, <2>2, <2>3 DEF C
<1> QED BY <1>6 DEF InsertAt

\* RemoveAt shortens the sequence by one and closes the gap.
LEMMA RemoveAtProperties ==
  ASSUME NEW Node, NEW list \in Seq(Node), NEW i \in 1 .. Len(list)
  PROVE  /\ RemoveAt(list, i) \in Seq(Node)
         /\ Len(RemoveAt(list, i)) = Len(list) - 1
         /\ \A k \in 1 .. Len(list) - 1 : RemoveAt(list, i)[k] =
              IF k < i THEN list[k] ELSE list[k + 1]
<1> DEFINE A == SubSeq(list, 1, i - 1)
           B == SubSeq(list, i + 1, Len(list))
           n == Len(list)
<1>1. n \in Nat /\ i \in 1 .. n /\ \A k \in 1 .. n : list[k] \in Node
  BY LenProperties, ElementOfSeq
<1>2. /\ A \in Seq(Node) /\ Len(A) = i - 1
      /\ \A k \in 1 .. i - 1 : A[k] = list[k]
  <2>1. \A k \in 1 .. i - 1 : list[k] \in Node
    BY <1>1
  <2>2. /\ SubSeq(list, 1, i - 1) \in Seq(Node)
        /\ Len(SubSeq(list, 1, i - 1)) = IF 1 <= i - 1 THEN (i - 1) - 1 + 1 ELSE 0
        /\ \A k \in 1 .. (i - 1) - 1 + 1 : SubSeq(list, 1, i - 1)[k] = list[1 + k - 1]
    BY <1>1, <2>1, SubSeqProperties
  <2> QED BY <1>1, <2>2
<1>3. /\ B \in Seq(Node) /\ Len(B) = n - i
      /\ \A k \in 1 .. n - i : B[k] = list[i + k]
  <2>1. \A k \in i + 1 .. n : list[k] \in Node
    BY <1>1
  <2>2. /\ SubSeq(list, i + 1, n) \in Seq(Node)
        /\ Len(SubSeq(list, i + 1, n)) = IF i + 1 <= n THEN n - (i + 1) + 1 ELSE 0
        /\ \A k \in 1 .. n - (i + 1) + 1 : SubSeq(list, i + 1, n)[k] = list[(i + 1) + k - 1]
    BY <1>1, <2>1, SubSeqProperties
  <2> QED BY <1>1, <2>2
<1>4. /\ A \o B \in Seq(Node) /\ Len(A \o B) = n - 1
      /\ \A k \in 1 .. n - 1 : (A \o B)[k] = IF k < i THEN list[k] ELSE list[k + 1]
  <2> HIDE DEF A, B
  <2>1. /\ A \o B \in Seq(Node) /\ Len(A \o B) = Len(A) + Len(B)
        /\ \A k \in 1 .. Len(A) + Len(B) : (A \o B)[k] =
              IF k <= Len(A) THEN A[k] ELSE B[k - Len(A)]
    BY <1>2, <1>3, ConcatProperties
  <2>2. Len(A \o B) = n - 1
    BY <1>1, <1>2, <1>3, <2>1
  <2>3. ASSUME NEW k \in 1 .. n - 1
        PROVE  (A \o B)[k] = IF k < i THEN list[k] ELSE list[k + 1]
    <3>0. k < i \/ k >= i
      BY <1>1
    <3>1. CASE k < i
      BY <3>1, <1>1, <1>2, <1>3, <2>1
    <3>2. CASE k >= i
      <4>1. (A \o B)[k] = B[k - (i - 1)]
        BY <3>2, <1>1, <1>2, <1>3, <2>1
      <4>2. k - (i - 1) \in 1 .. n - i /\ i + (k - (i - 1)) = k + 1
        BY <3>2, <1>1
      <4>3. B[k - (i - 1)] = list[i + (k - (i - 1))]
        BY <4>2, <1>3
      <4> QED BY <3>2, <4>1, <4>2, <4>3, <1>1
    <3> QED BY <3>0, <3>1, <3>2
  <2> QED BY <2>1, <2>2, <2>3
<1> QED BY <1>4 DEF RemoveAt

\* Head and tail insertion, element by element.
LEMMA ConsProperties ==
  ASSUME NEW Node, NEW list \in Seq(Node), NEW e \in Node
  PROVE  /\ <<e>> \o list \in Seq(Node)
         /\ Len(<<e>> \o list) = Len(list) + 1
         /\ \A k \in 1 .. Len(list) + 1 :
              (<<e>> \o list)[k] = IF k = 1 THEN e ELSE list[k - 1]
<1>1. <<e>> \in Seq(Node) /\ Len(<<e>>) = 1 /\ <<e>>[1] = e
  OBVIOUS
<1>2. Len(list) \in Nat
  BY LenProperties
<1>3. /\ <<e>> \o list \in Seq(Node)
      /\ Len(<<e>> \o list) = Len(<<e>>) + Len(list)
      /\ \A k \in 1 .. Len(<<e>>) + Len(list) :
           (<<e>> \o list)[k] = IF k <= Len(<<e>>) THEN <<e>>[k] ELSE list[k - Len(<<e>>)]
  BY <1>1, ConcatProperties
<1> QED BY <1>1, <1>2, <1>3

\* Insertion returns a crontab.
LEMMA InsertType ==
  ASSUME NEW Node, Timed(Node), NEW list \in Seq(Node), NEW node \in Node
  PROVE  Insert(list, node) \in Seq(Node)
<1>1. CASE list = <<>> \/ node.mtime < list[1].mtime
  <2>1. Insert(list, node) = <<node>> \o list
    BY <1>1 DEF Insert
  <2> QED BY <2>1, ConsProperties
<1>2. CASE list # <<>> /\ node.mtime >= list[Len(list)].mtime /\ ~(node.mtime < list[1].mtime)
  <2>1. Insert(list, node) = Append(list, node)
    BY <1>2 DEF Insert
  <2> QED BY <2>1, AppendProperties
<1>3. CASE list # <<>> /\ ~(node.mtime >= list[Len(list)].mtime) /\ ~(node.mtime < list[1].mtime)
  <2>1. Insert(list, node) = InsertAt(list, FirstLater(list, node.mtime), node)
    BY <1>3 DEF Insert
  <2>2. node.mtime \in Nat /\ list[Len(list)].mtime \in Nat
    BY <1>3, EmptySeq, ElementOfSeq DEF Timed
  <2>3. FirstLater(list, node.mtime) \in 1 .. Len(list)
    BY <1>3, <2>2, FirstLaterFound
  <2> QED BY <2>1, <2>3, InsertAtProperties
<1> QED BY <1>1, <1>2, <1>3

\* Wherever a node goes, the others keep their order around it.
LEMMA InsertPlace ==
  ASSUME NEW Node, Timed(Node), NEW list \in Seq(Node), NEW node \in Node
  PROVE  /\ Insert(list, node) \in Seq(Node)
         /\ Len(Insert(list, node)) = Len(list) + 1
         /\ \E f \in 1 .. Len(list) + 1 : \A k \in 1 .. Len(list) + 1 :
              Insert(list, node)[k] =
                IF k < f THEN list[k] ELSE IF k = f THEN node ELSE list[k - 1]
<1>0. Len(list) \in Nat /\ Insert(list, node) \in Seq(Node)
  BY LenProperties, InsertType
<1>1. CASE list = <<>> \/ node.mtime < list[1].mtime
  <2>1. Insert(list, node) = <<node>> \o list
    BY <1>1 DEF Insert
  <2>2. /\ Len(Insert(list, node)) = Len(list) + 1
        /\ \A k \in 1 .. Len(list) + 1 :
             Insert(list, node)[k] = IF k < 1 THEN list[k] ELSE IF k = 1 THEN node ELSE list[k - 1]
    BY <2>1, ConsProperties
  <2> QED BY <1>0, <2>2, SMTT(30)
<1>2. CASE list # <<>> /\ node.mtime >= list[Len(list)].mtime /\ ~(node.mtime < list[1].mtime)
  <2>1. Insert(list, node) = Append(list, node)
    BY <1>2 DEF Insert
  <2>2. /\ Len(Insert(list, node)) = Len(list) + 1
        /\ \A k \in 1 .. Len(list) : Insert(list, node)[k] = list[k]
        /\ Insert(list, node)[Len(list) + 1] = node
    BY <2>1, AppendProperties
  <2>3. ASSUME NEW k \in 1 .. Len(list) + 1
        PROVE  Insert(list, node)[k] =
                 IF k < Len(list) + 1 THEN list[k] ELSE IF k = Len(list) + 1 THEN node ELSE list[k - 1]
    BY <1>0, <2>2
  <2>4. Len(list) + 1 \in 1 .. Len(list) + 1
    BY <1>0
  <2> QED BY <1>0, <2>2, <2>3, <2>4
<1>3. CASE list # <<>> /\ ~(node.mtime >= list[Len(list)].mtime) /\ ~(node.mtime < list[1].mtime)
  <2>1. Insert(list, node) = InsertAt(list, FirstLater(list, node.mtime), node)
    BY <1>3 DEF Insert
  <2>2. node.mtime \in Nat /\ list[Len(list)].mtime \in Nat
    BY <1>3, EmptySeq, ElementOfSeq DEF Timed
  <2>3. FirstLater(list, node.mtime) \in 1 .. Len(list)
    BY <1>3, <2>2, FirstLaterFound
  <2>4. PICK f \in 1 .. Len(list) : f = FirstLater(list, node.mtime)
    BY <2>3
  <2>5. Insert(list, node) = InsertAt(list, f, node)
    BY <2>1, <2>4
  <2>6. /\ InsertAt(list, f, node) \in Seq(Node)
        /\ Len(InsertAt(list, f, node)) = Len(list) + 1
        /\ \A k \in 1 .. Len(list) + 1 : InsertAt(list, f, node)[k] =
             IF k < f THEN list[k] ELSE IF k = f THEN node ELSE list[k - 1]
    BY InsertAtProperties, SMTT(30)
  <2>7. f \in 1 .. Len(list) + 1
    BY <1>0
  <2> QED BY <1>0, <2>5, <2>6, <2>7
<1> QED BY <1>1, <1>2, <1>3

\* Insertion keeps the crontab in order of time, wherever the node goes.
THEOREM InsertSorted ==
  ASSUME NEW Node, Timed(Node), NEW list \in Seq(Node), NEW node \in Node, Sorted(list)
  PROVE  Sorted(Insert(list, node))
<1> DEFINE n == Len(list)
           m == node.mtime
<1>1. /\ n \in Nat /\ m \in Nat /\ DOMAIN list = 1 .. n
      /\ \A k \in 1 .. n : list[k].mtime \in Nat
      /\ list # <<>> => n >= 1
      /\ list = <<>> => n = 0
  BY LenProperties, EmptySeq, ElementOfSeq DEF Timed
<1>2. \A i, j \in 1 .. n : i < j => list[i].mtime <= list[j].mtime
  BY <1>1 DEF Sorted
<1>3. CASE list = <<>> \/ m < list[1].mtime
  <2>1. Insert(list, node) = <<node>> \o list
    BY <1>3 DEF Insert
  <2> DEFINE r == <<node>> \o list
  <2>2. /\ r \in Seq(Node) /\ Len(r) = n + 1
        /\ \A k \in 1 .. n + 1 : r[k] = IF k = 1 THEN node ELSE list[k - 1]
    BY ConsProperties
  <2>3. DOMAIN r = 1 .. n + 1
    BY <2>2, LenProperties
  <2> HIDE DEF r
  <2>4. ASSUME NEW i \in 1 .. n + 1, NEW j \in 1 .. n + 1, i < j
        PROVE  r[i].mtime <= r[j].mtime
    <3>1. r[j] = list[j - 1] /\ j - 1 \in 1 .. n
      BY <2>2, <2>4, <1>1
    <3>2. CASE i = 1
      <4>1. m < list[1].mtime /\ list[1].mtime <= list[j - 1].mtime
        BY <1>1, <1>2, <1>3, <3>1
      <4>2. r[i] = node
        BY <2>2, <3>2
      <4> QED BY <1>1, <3>1, <4>1, <4>2
    <3>3. CASE i # 1
      <4>1. r[i] = list[i - 1] /\ i - 1 \in 1 .. n /\ i - 1 < j - 1
        BY <2>2, <2>4, <3>3, <1>1
      <4> QED BY <1>2, <3>1, <4>1
    <3> QED BY <3>2, <3>3
  <2> QED BY <2>1, <2>3, <2>4 DEF Sorted, r
<1>4. CASE list # <<>> /\ m >= list[n].mtime /\ ~(m < list[1].mtime)
  <2>1. Insert(list, node) = Append(list, node)
    BY <1>4 DEF Insert
  <2> DEFINE r == Append(list, node)
  <2>2. /\ r \in Seq(Node) /\ Len(r) = n + 1
        /\ \A k \in 1 .. n : r[k] = list[k]
        /\ r[n + 1] = node
    BY AppendProperties
  <2>3. DOMAIN r = 1 .. n + 1
    BY <2>2, LenProperties
  <2> HIDE DEF r
  <2>4. ASSUME NEW i \in 1 .. n + 1, NEW j \in 1 .. n + 1, i < j
        PROVE  r[i].mtime <= r[j].mtime
    <3>1. i \in 1 .. n /\ r[i] = list[i]
      BY <1>1, <2>2, <2>4
    <3>2. CASE j = n + 1
      <4>1. list[i].mtime <= list[n].mtime
        BY <1>1, <1>2, <1>4, <3>1
      <4>2. r[j] = node
        BY <2>2, <3>2
      <4> QED BY <1>1, <1>4, <3>1, <4>1, <4>2
    <3>3. CASE j # n + 1
      <4>1. j \in 1 .. n /\ r[j] = list[j]
        BY <1>1, <2>2, <3>3
      <4> QED BY <1>2, <2>4, <3>1, <4>1
    <3> QED BY <3>2, <3>3
  <2> QED BY <2>1, <2>3, <2>4 DEF Sorted, r
<1>5. CASE list # <<>> /\ ~(m >= list[n].mtime) /\ ~(m < list[1].mtime)
  <2> DEFINE r == Insert(list, node)
  <2>1. PICK f \in 1 .. Len(list) :
          /\ f = FirstLater(list, m) /\ list[f].mtime > m
          /\ \A k \in 1 .. f - 1 : list[k].mtime <= m
    <3>1. m \in Nat /\ list # <<>> /\ m < list[Len(list)].mtime
      BY <1>1, <1>5
    <3> HIDE DEF m
    <3>2. /\ FirstLater(list, m) \in 1 .. Len(list)
          /\ list[FirstLater(list, m)].mtime > m
          /\ \A j \in 1 .. FirstLater(list, m) - 1 : list[j].mtime <= m
      BY <3>1, FirstLaterFound
    <3> QED BY <3>2, Zenon
  <2>2. /\ f \in 1 .. n /\ list[f].mtime > m
        /\ \A k \in 1 .. f - 1 : list[k].mtime <= m
    BY <2>1
  <2>3. /\ r \in Seq(Node) /\ Len(r) = n + 1
        /\ \A k \in 1 .. n + 1 : r[k] =
             IF k < f THEN list[k] ELSE IF k = f THEN node ELSE list[k - 1]
    <3>1. r = InsertAt(list, f, node)
      BY <1>5, <2>1 DEF Insert
    <3> QED BY <3>1, InsertAtProperties
  <2>4. DOMAIN r = 1 .. n + 1
    BY <2>3, LenProperties
  <2> HIDE DEF r
  <2>5. ASSUME NEW i \in 1 .. n + 1, NEW j \in 1 .. n + 1, i < j
        PROVE  r[i].mtime <= r[j].mtime
    <3>1. CASE j < f
      BY <3>1, <2>2, <2>3, <2>5, <1>1, <1>2
    <3>2. CASE j = f
      <4>1. i \in 1 .. f - 1 /\ r[i] = list[i] /\ r[j] = node
        BY <3>2, <2>2, <2>3, <2>5, <1>1
      <4> QED BY <2>2, <4>1
    <3>3. CASE j > f
      <4>1. r[j] = list[j - 1] /\ j - 1 \in 1 .. n /\ f <= j - 1
        BY <3>3, <2>2, <2>3, <1>1
      <4>2. list[f].mtime <= list[j - 1].mtime
        <5>1. f \in 1 .. n /\ list[f].mtime \in Nat
          BY <2>2, <1>1
        <5>2. CASE f = j - 1
          BY <5>1, <5>2
        <5>3. CASE f < j - 1
          BY <5>1, <5>3, <4>1, <1>2
        <5> QED BY <4>1, <5>1, <5>2, <5>3
      <4>3. m < list[j - 1].mtime
        BY <4>1, <4>2, <2>2, <1>1
      <4>4. CASE i < f
        <5>1. r[i] = list[i] /\ i \in 1 .. f - 1
          BY <4>4, <2>2, <2>3, <1>1
        <5> QED BY <5>1, <4>1, <4>3, <2>2, <1>1
      <4>5. CASE i = f
        BY <4>1, <4>3, <4>5, <2>3, <1>1
      <4>6. CASE i > f
        <5>1. r[i] = list[i - 1] /\ i - 1 \in 1 .. n /\ i - 1 < j - 1
          BY <4>6, <2>2, <2>3, <2>5, <1>1
        <5> QED BY <5>1, <4>1, <1>2
      <4> QED BY <4>4, <4>5, <4>6, <2>2, <1>1
    <3> QED BY <3>1, <3>2, <3>3, <2>2, <1>1
  <2> QED BY <2>4, <2>5 DEF Sorted, r
<1> QED BY <1>3, <1>4, <1>5

\* Removing a node keeps the order of the others.
LEMMA RemoveAtSorted ==
  ASSUME NEW Node, Timed(Node), NEW list \in Seq(Node), NEW i \in 1 .. Len(list), Sorted(list)
  PROVE  Sorted(RemoveAt(list, i))
<1> DEFINE n == Len(list)
           r == RemoveAt(list, i)
<1>1. n \in Nat /\ i \in 1 .. n /\ DOMAIN list = 1 .. n
  BY LenProperties
<1>2. \A j, k \in 1 .. n : j < k => list[j].mtime <= list[k].mtime
  BY <1>1 DEF Sorted
<1>3. /\ r \in Seq(Node) /\ Len(r) = n - 1
      /\ \A k \in 1 .. n - 1 : r[k] = IF k < i THEN list[k] ELSE list[k + 1]
  BY RemoveAtProperties
<1>4. DOMAIN r = 1 .. n - 1
  BY <1>3, LenProperties
<1> HIDE DEF r
<1>5. ASSUME NEW j \in 1 .. n - 1, NEW k \in 1 .. n - 1, j < k
      PROVE  r[j].mtime <= r[k].mtime
  <2>1. PICK a \in 1 .. n : r[j] = list[a] /\ a = IF j < i THEN j ELSE j + 1
    BY <1>1, <1>3
  <2>2. PICK b \in 1 .. n : r[k] = list[b] /\ b = IF k < i THEN k ELSE k + 1
    BY <1>1, <1>3
  <2>3. a < b
    BY <1>1, <1>5, <2>1, <2>2
  <2> QED BY <1>2, <2>1, <2>2, <2>3
<1> QED BY <1>4, <1>5 DEF Sorted, r

\* Deleting the head keeps the order of the others.
LEMMA TailSorted ==
  ASSUME NEW Node, Timed(Node), NEW list \in Seq(Node), list # <<>>, Sorted(list)
  PROVE  Tail(list) \in Seq(Node) /\ Sorted(Tail(list))
<1>1. /\ Tail(list) \in Seq(Node) /\ Len(Tail(list)) = Len(list) - 1
      /\ \A i \in 1 .. Len(Tail(list)) : Tail(list)[i] = list[i + 1]
  BY HeadTailProperties
<1>2. /\ DOMAIN list = 1 .. Len(list) /\ Len(list) \in Nat
      /\ DOMAIN Tail(list) = 1 .. Len(list) - 1
  BY <1>1, LenProperties
<1>3. ASSUME NEW i \in 1 .. Len(list) - 1, NEW j \in 1 .. Len(list) - 1, i < j
      PROVE  Tail(list)[i].mtime <= Tail(list)[j].mtime
  <2>1. /\ Tail(list)[i] = list[i + 1] /\ Tail(list)[j] = list[j + 1]
        /\ i + 1 \in DOMAIN list /\ j + 1 \in DOMAIN list /\ i + 1 < j + 1
    BY <1>1, <1>2, <1>3
  <2> QED BY <2>1 DEF Sorted
<1> QED BY <1>1, <1>2, <1>3 DEF Sorted

--------------------------------------------------------------------------------
(* Functions on an interval, as the loops of the other components need     *)
(* them too.                                                               *)

\* The function that is a at 0, and F[k] of what it was before at k.
Unrolls(f, n, a, F) == f[0] = a /\ \A k \in 1 .. n : f[k] = F[k][f[k - 1]]

\* A function defined by recursion from 0 to n exists.
LEMMA Recursion ==
  ASSUME NEW S, NEW n \in Nat, NEW F \in [1 .. n -> [S -> S]], NEW a \in S
  PROVE  \E f : f \in [0 .. n -> S] /\ Unrolls(f, n, a, F)
<1> DEFINE Upto(m, f) == f \in [0 .. m -> S] /\ f[0] = a /\ \A k \in 1 .. m : f[k] = F[k][f[k - 1]]
           Bad == {m \in 0 .. n : ~ \E f : Upto(m, f)}
<1>1. Bad = {}
  <2> SUFFICES ASSUME Bad # {} PROVE FALSE
    OBVIOUS
  <2>1. Bad \subseteq Nat
    OBVIOUS
  <2>2. PICK m \in Bad : \A j \in Bad : m <= j
    <3> HIDE DEF Bad
    <3> QED BY <2>1, Least
  <2>3. m \in 0 .. n /\ \A f : ~ Upto(m, f)
    OBVIOUS
  <2>4. CASE m = 0
    <3>1. Upto(0, [k \in 0 .. 0 |-> a])
      OBVIOUS
    <3> HIDE DEF Upto
    <3> QED BY <2>3, <2>4, <3>1
  <2>5. CASE m # 0
    <3>1. m - 1 \in 0 .. n /\ m - 1 \notin Bad
      <4> HIDE DEF Bad
      <4>1. m \in Nat /\ m - 1 \in 0 .. n /\ ~ (m <= m - 1)
        BY <2>3, <2>5
      <4> QED BY <2>2, <4>1
    <3>2. PICK f : Upto(m - 1, f)
      BY <3>1
    <3> DEFINE g == [k \in 0 .. m |-> IF k = m THEN F[m][f[m - 1]] ELSE f[k]]
    <3>3. /\ m \in 1 .. n /\ m - 1 \in 0 .. m - 1
          /\ \A k \in 0 .. m : k = m \/ k \in 0 .. m - 1
      BY <2>3, <2>5
    <3>4. f[m - 1] \in S /\ F[m][f[m - 1]] \in S
      BY <3>2, <3>3
    <3>5. g \in [0 .. m -> S]
      BY <3>2, <3>3, <3>4
    <3>6. g[0] = a
      BY <2>3, <2>5, <3>2
    <3>7. ASSUME NEW k \in 1 .. m PROVE g[k] = F[k][g[k - 1]]
      <4>1. k - 1 \in 0 .. m /\ k - 1 # m /\ g[k - 1] = f[k - 1]
        BY <2>3
      <4>2. CASE k = m
        BY <4>1, <4>2
      <4>3. CASE k # m
        <5>1. k \in 1 .. m - 1 /\ g[k] = f[k]
          BY <2>3, <4>3
        <5> QED BY <3>2, <4>1, <5>1
      <4> QED BY <4>2, <4>3
    <3>8. Upto(m, g)
      BY <3>5, <3>6, <3>7
    <3> HIDE DEF Upto, g
    <3> QED BY <2>3, <3>8
  <2> QED BY <2>4, <2>5
<1>2. PICK f : Upto(n, f)
  BY <1>1, SMTT(30)
<1> QED BY <1>2 DEF Unrolls

\* A function on 1 .. n is a sequence of length n.
LEMMA FunctionIsSeq ==
  ASSUME NEW S, NEW n \in Nat, NEW f \in [1 .. n -> S]
  PROVE  f \in Seq(S) /\ Len(f) = n
<1>1. f \in Seq(S)
  OBVIOUS
<1>2. DOMAIN f = 1 .. Len(f) /\ Len(f) \in Nat
  BY <1>1, LenProperties
<1>3. DOMAIN f = 1 .. n
  OBVIOUS
<1> QED BY <1>1, <1>2, <1>3

================================================================================
