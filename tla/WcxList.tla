-------------------------------- MODULE WcxList --------------------------------
(***************************************************************************)
(* The doubly linked list of wcx_list.c on a heap: nodes have addresses    *)
(* that malloc gives and free takes back, lists own their values when a    *)
(* free method is set, an iterator saves the node it will give next.  Two  *)
(* callers' rules are assumed: a node is deleted through the list it is    *)
(* in, and an iterator is given up before the node it saved is freed.      *)
(***************************************************************************)
EXTENDS Integers, Sequences, FiniteSets

CONSTANTS
  Addr,      \* addresses of nodes
  NULL,
  Values,    \* addresses of values
  MatchOf,   \* the values a match method takes for each key
  Lists,     \* lists
  Made,      \* those that listCreate makes; the others are copies
  Methods    \* which of <<dup, free>> a list may be given

ASSUME ListAssumption ==
  /\ IsFiniteSet(Addr) /\ NULL \notin Addr \cup Lists
  /\ MatchOf \in [Values -> SUBSET Values] /\ Made \subseteq Lists
  /\ Methods \subseteq BOOLEAN \X BOOLEAN

VARIABLES
  heap, live,   \* the nodes, and the addresses malloc has given
  pool,         \* the values allocated for lists that will free them
  list,         \* the list headers
  iter,         \* an iterator
  order,        \* history: the nodes of each list, in order
  seen          \* history: what the iterator met

vars == <<heap, live, pool, list, iter, order, seen>>

Node == [prev : Addr \cup {NULL}, next : Addr \cup {NULL}, value : Values \cup {NULL}]
Free == [prev |-> NULL, next |-> NULL, value |-> NULL]

Header ==
  [up : BOOLEAN, head : Addr \cup {NULL}, tail : Addr \cup {NULL}, len : Nat,
   dup : BOOLEAN, free : BOOLEAN]

NoList ==
  [up |-> FALSE, head |-> NULL, tail |-> NULL, len |-> 0, dup |-> FALSE, free |-> FALSE]

NoIter == [list |-> NULL, next |-> NULL, fromHead |-> TRUE]

\* owed: nodes there since the iterator was made that it has not given;
\* rotated: listRotate ran meanwhile; shared: a list that frees its values was
\* copied without a dup method.
Unseen == [owed |-> {}, rotated |-> FALSE, shared |-> FALSE]

Init ==
  /\ heap = [a \in Addr |-> Free] /\ live = {} /\ pool = {}
  /\ list = [l \in Lists |-> NoList]
  /\ iter = NoIter
  /\ order = [l \in Lists |-> <<>>]
  /\ seen = Unseen

Members(l) == {order[l][i] : i \in DOMAIN order[l]}

--------------------------------------------------------------------------------
(* Creation and insertion.                                                 *)

SetNext(h, n, m) == IF n = NULL THEN h ELSE [h EXCEPT ![n].next = m]
SetPrev(h, n, m) == IF n = NULL THEN h ELSE [h EXCEPT ![n].prev = m]

\* listCreate, listSetDupMethod and listSetFreeMethod.
Create(l, dup, free) ==
  /\ l \in Made /\ ~list[l].up /\ <<dup, free>> \in Methods
  /\ list' = [list EXCEPT ![l] = [NoList EXCEPT !.up = TRUE, !.dup = dup, !.free = free]]
  /\ UNCHANGED <<heap, live, pool, iter, order, seen>>

\* malloc gives address a; a value that the list will free is the list's alone.
Alloc(l, a, v) ==
  /\ list[l].up /\ a \notin live
  /\ list[l].free => v \notin pool
  /\ live' = live \cup {a}
  /\ pool' = IF list[l].free THEN pool \cup {v} ELSE pool
  /\ UNCHANGED <<iter, seen>>

AddNodeHead(l, a, v) ==
  /\ Alloc(l, a, v)
  /\ LET old  == list[l].head
         node == [prev |-> NULL, next |-> IF list[l].len = 0 THEN NULL ELSE old, value |-> v]
     IN IF list[l].len = 0
        THEN /\ heap' = [heap EXCEPT ![a] = node]
             /\ list' = [list EXCEPT ![l].head = a, ![l].tail = a, ![l].len = @ + 1]
        ELSE /\ heap' = SetPrev([heap EXCEPT ![a] = node], old, a)
             /\ list' = [list EXCEPT ![l].head = a, ![l].len = @ + 1]
  /\ order' = [order EXCEPT ![l] = <<a>> \o @]

\* The header and the heap once node a is last; listDup adds its nodes so too.
Appended(hd, a) ==
  IF hd.len = 0 THEN [hd EXCEPT !.head = a, !.tail = a, !.len = @ + 1]
                ELSE [hd EXCEPT !.tail = a, !.len = @ + 1]

AppendedHeap(h, hd, a, v) ==
  IF hd.len = 0
  THEN [h EXCEPT ![a] = [prev |-> NULL, next |-> NULL, value |-> v]]
  ELSE SetNext([h EXCEPT ![a] = [prev |-> hd.tail, next |-> NULL, value |-> v]], hd.tail, a)

AddNodeTail(l, a, v) ==
  /\ Alloc(l, a, v)
  /\ heap' = AppendedHeap(heap, list[l], a, v)
  /\ list' = [list EXCEPT ![l] = Appended(@, a)]
  /\ order' = [order EXCEPT ![l] = Append(@, a)]

\* MUTANT: the neighbour is not told of the new node.
Untold(h, node, a) == SetNext(h, node.prev, a)

\* The neighbours of node, which is at a, point to it.
Told(h, node, a) == SetPrev(SetNext(h, node.prev, a), node.next, a)

InsertNode(l, i, a, v, after) ==
  /\ i \in DOMAIN order[l]
  /\ Alloc(l, a, v)
  /\ LET old  == order[l][i]
         node == IF after THEN [prev |-> old, next |-> heap[old].next, value |-> v]
                          ELSE [prev |-> heap[old].prev, next |-> old, value |-> v]
     IN /\ heap' = Told([heap EXCEPT ![a] = node], node, a)
        /\ list' = [list EXCEPT
             ![l].tail = IF after /\ @ = old THEN a ELSE @,
             ![l].head = IF ~after /\ @ = old THEN a ELSE @,
             ![l].len = @ + 1]
  /\ LET k == IF after THEN i ELSE i - 1
     IN order' = [order EXCEPT ![l] = SubSeq(@, 1, k) \o <<a>> \o SubSeq(@, k + 1, Len(@))]

--------------------------------------------------------------------------------
(* Deletion, release and rotation.                                         *)

\* The nodes ns are freed: an iterator that has saved one of them is given up.
Forget(ns) ==
  IF iter.next \in ns
  THEN iter' = NoIter /\ seen' = [Unseen EXCEPT !.shared = seen.shared]
  ELSE iter' = iter /\ seen' = [seen EXCEPT !.owed = @ \ ns]

DelNode(l, i) ==
  /\ i \in DOMAIN order[l]
  /\ LET n    == order[l][i]
         prev == heap[n].prev
         next == heap[n].next
     IN /\ heap' = [SetPrev(SetNext(heap, prev, next), next, prev) EXCEPT ![n] = Free]
        /\ list' = [list EXCEPT
             ![l].head = IF prev = NULL THEN next ELSE @,
             ![l].tail = IF next = NULL THEN prev ELSE @,
             ![l].len = @ - 1]
        /\ live' = live \ {n}
        /\ pool' = IF list[l].free THEN pool \ {heap[n].value} ELSE pool
        /\ Forget({n})
  /\ order' = [order EXCEPT ![l] = SubSeq(@, 1, i - 1) \o SubSeq(@, i + 1, Len(@))]

\* Where k steps along the nodes of heap h lead, from n to the tail or the head.
Steps(h, n, forward) ==
  LET at[k \in 0..Cardinality(Addr)] ==
        IF k = 0 THEN n
        ELSE IF at[k - 1] = NULL THEN NULL
        ELSE IF forward THEN h[at[k - 1]].next ELSE h[at[k - 1]].prev
  IN at

\* MUTANT: the last node is not freed.
ReleasedShort(h, hd) == {Steps(h, hd.head, TRUE)[k] : k \in 0..(hd.len - 2)}

\* listRelease frees len nodes, each found in the one before it.
Released(h, hd) == {Steps(h, hd.head, TRUE)[k] : k \in 0..(hd.len - 1)}

Release(l) ==
  /\ list[l].up
  /\ LET freed == Released(heap, list[l])
     IN /\ heap' = [a \in Addr |-> IF a \in freed THEN Free ELSE heap[a]]
        /\ live' = live \ freed
        /\ pool' = IF list[l].free THEN pool \ {heap[n].value : n \in freed} ELSE pool
        /\ Forget(freed)
  /\ list' = [list EXCEPT ![l] = NoList]
  /\ order' = [order EXCEPT ![l] = <<>>]

Rotate(l) ==
  /\ list[l].up /\ list[l].len > 1
  /\ LET tail == list[l].tail
         head == list[l].head
         cut  == SetPrev(SetNext(heap, heap[tail].prev, NULL), head, tail)
     IN /\ heap' = [cut EXCEPT ![tail].prev = NULL, ![tail].next = head]
        /\ list' = [list EXCEPT ![l].tail = heap[tail].prev, ![l].head = tail]
  /\ order' = [order EXCEPT ![l] = <<@[Len(@)]>> \o SubSeq(@, 1, Len(@) - 1)]
  /\ seen' = IF iter.list = l
             THEN [seen EXCEPT !.rotated = TRUE, !.owed = {}] ELSE seen
  /\ UNCHANGED <<live, pool, iter>>

--------------------------------------------------------------------------------
(* Iterators.                                                              *)

\* listGetIterator, or listRewind and listRewindTail of the one there is.
GetIterator(l, fromHead) ==
  /\ list[l].up
  /\ iter' = [list |-> l, next |-> IF fromHead THEN list[l].head ELSE list[l].tail,
              fromHead |-> fromHead]
  /\ seen' = [Unseen EXCEPT !.owed = Members(l), !.shared = seen.shared]
  /\ UNCHANGED <<heap, live, pool, list, order>>

\* MUTANT: the direction is forgotten.
AlwaysForward(n, fromHead) == heap[n].next

\* MUTANT: what is saved is the value.
ValueSaved(n, fromHead) == heap[n].value

\* The node saved for the next call.
Onward(n, fromHead) == IF fromHead THEN heap[n].next ELSE heap[n].prev

\* listNext gives iter.next; at the end it gives NULL and nothing changes.
ListNext ==
  /\ iter.next # NULL
  /\ iter' = [iter EXCEPT !.next = Onward(@, iter.fromHead)]
  /\ seen' = [seen EXCEPT !.owed = @ \ {iter.next}]
  /\ UNCHANGED <<heap, live, pool, list, order>>

ReleaseIterator ==
  /\ iter.list # NULL
  /\ iter' = NoIter
  /\ seen' = [Unseen EXCEPT !.shared = seen.shared]
  /\ UNCHANGED <<heap, live, pool, list, order>>

--------------------------------------------------------------------------------
(* listDup, listSearch, listIndex.                                         *)

\* The values of list l, as the iterator of listDup meets them.
ValuesOf(l) ==
  LET at == Steps(heap, list[l].head, TRUE)
      n  == CHOOSE k \in DOMAIN at : at[k] = NULL /\ \A j \in 0..(k - 1) : at[j] # NULL
  IN [k \in 1..n |-> heap[at[k - 1]].value]

Distinct(s) == \A i, j \in DOMAIN s : s[i] = s[j] => i = j

\* Sequences of n different members of S, as n calls of malloc give them.
Fresh(S, n) == {s \in [1..n -> S] : Distinct(s)}

\* The first k values of list l.
FirstOf(l, k) == [j \in 1..k |-> ValuesOf(l)[j]]

\* MUTANT: the copy takes the values of the original though there is a dup.
CopiedShared(l, k) == {FirstOf(l, k)}

\* The values of k nodes of a copy: of the dup method, which gives new ones, or
\* the same.
Copied(l, k) == IF list[l].dup THEN Fresh(Values \ pool, k) ELSE {FirstOf(l, k)}

\* The headers of a copy of l, and its heaps, as listAddNodeTail gives it the nodes
\* as, of values vs, one after another.
Headers(l, as) ==
  LET hd[k \in 0..Len(as)] ==
        IF k = 0 THEN [NoList EXCEPT !.up = TRUE, !.dup = list[l].dup, !.free = list[l].free]
                 ELSE Appended(hd[k - 1], as[k])
  IN hd

Heaps(l, as, vs) ==
  LET hp[k \in 0..Len(as)] ==
        IF k = 0 THEN heap ELSE AppendedHeap(hp[k - 1], Headers(l, as)[k - 1], as[k], vs[k])
  IN hp

\* The caller has two lists that free the same values.
Sharing(l) == seen' = [seen EXCEPT !.shared = @ \/ (list[l].free /\ ~list[l].dup)]

Dup(l, c) ==
  /\ list[l].up /\ ~list[c].up /\ c \notin Made
  /\ LET n == Len(ValuesOf(l))
     IN \E as \in Fresh(Addr \ live, n), vs \in Copied(l, n) :
          /\ heap' = Heaps(l, as, vs)[n]
          /\ list' = [list EXCEPT ![c] = Headers(l, as)[n]]
          /\ live' = live \cup {as[k] : k \in 1..n}
          /\ pool' = IF list[l].free THEN pool \cup {vs[k] : k \in 1..n} ELSE pool
          /\ order' = [order EXCEPT ![c] = as]
  /\ Sharing(l)
  /\ UNCHANGED iter

\* What the dup method gave that has no node yet.
Lost(l) == IF list[l].dup THEN {{}} \cup {{v} : v \in Values \ pool} ELSE {{}}

\* After k nodes the dup method gives NULL, or it gave a value, which is lost, and
\* malloc gives no node for it: the copy is released.
DupFails(l, k) ==
  /\ list[l].up /\ k \in 0..(Len(ValuesOf(l)) - 1)
  /\ \E as \in Fresh(Addr \ live, k), vs \in Copied(l, k), lost \in Lost(l) :
       LET given == {vs[j] : j \in 1..k}
           hp    == Heaps(l, as, vs)[k]
           freed == Released(hp, Headers(l, as)[k])
       IN /\ given \cap lost = {}
          /\ heap' = [a \in Addr |-> IF a \in freed THEN Free ELSE hp[a]]
          /\ live' = (live \cup {as[j] : j \in 1..k}) \ freed
          /\ pool' = IF list[l].free
                     THEN (pool \cup given \cup lost) \ {hp[n].value : n \in freed} ELSE pool
  /\ Sharing(l)
  /\ UNCHANGED <<list, iter, order>>

\* The match method, or the same pointer.
Takes(v, key, match) == IF match THEN v \in MatchOf[key] ELSE v = key

Search(l, key, match) ==
  LET at   == Steps(heap, list[l].head, TRUE)
      hits == {k \in DOMAIN at : at[k] # NULL /\ Takes(heap[at[k]].value, key, match)}
  IN IF hits = {} THEN NULL ELSE at[CHOOSE k \in hits : \A j \in hits : k <= j]

\* MUTANT: -1 is the node before the last.
FromTailLate(i) == -i

\* A negative index counts from the tail, -1 being the last node.
FromTail(i) == (-i) - 1

Index(l, i) ==
  IF i < 0 THEN Steps(heap, list[l].tail, FALSE)[FromTail(i)]
           ELSE Steps(heap, list[l].head, TRUE)[i]

--------------------------------------------------------------------------------
Next ==
  \/ \E l \in Lists, dup, free \in BOOLEAN : Create(l, dup, free)
  \/ \E l \in Lists, a \in Addr, v \in Values :
       \/ AddNodeHead(l, a, v) \/ AddNodeTail(l, a, v)
       \/ \E i \in 1..Cardinality(Addr), after \in BOOLEAN : InsertNode(l, i, a, v, after)
  \/ \E l \in Lists :
       \/ Release(l) \/ Rotate(l)
       \/ \E i \in 1..Cardinality(Addr) : DelNode(l, i)
       \/ \E fromHead \in BOOLEAN : GetIterator(l, fromHead)
       \/ \E c \in Lists : Dup(l, c)
       \/ \E k \in 0..Cardinality(Addr) : DupFails(l, k)
  \/ ListNext \/ ReleaseIterator

Spec == Init /\ [][Next]_vars

================================================================================
