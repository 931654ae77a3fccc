------------------------------ MODULE WcxListProps -----------------------------
(***************************************************************************)
(* What must hold of the linked list of wcx_list.c.                        *)
(***************************************************************************)
EXTENDS WcxList

\* Every variable has its type.
ListTypeOK ==
  /\ heap \in [Addr -> Node] /\ live \subseteq Addr /\ pool \subseteq Values
  /\ list \in [Lists -> Header]
  /\ iter \in [list : Lists \cup {NULL}, next : Addr \cup {NULL}, fromHead : BOOLEAN]
  /\ order \in [Lists -> Seq(Addr)]
  /\ seen \in [owed : SUBSET Addr, rotated : BOOLEAN, shared : BOOLEAN]

\* The node at place i of s, NULL before the first and after the last.
Place(s, i) == IF i \in DOMAIN s THEN s[i] ELSE NULL

\* The pointers of a list say what the calls made of it: head, tail and len are
\* those of the sequence of its nodes, next and prev go along it both ways.
Linked ==
  \A l \in Lists :
    LET s == order[l]
    IN /\ list[l].len = Len(s)
       /\ list[l].head = Place(s, 1) /\ list[l].tail = Place(s, Len(s))
       /\ \A i \in DOMAIN s :
            heap[s[i]].prev = Place(s, i - 1) /\ heap[s[i]].next = Place(s, i + 1)

\* A node is in one place of one list from malloc to free, and in none outside:
\* release frees all of a list and nothing of another, deletion frees one.
NodesOwned ==
  /\ live = UNION {Members(l) : l \in Lists}
  /\ \A l, m \in Lists : \A i \in DOMAIN order[l], j \in DOMAIN order[m] :
       order[l][i] = order[m][j] => l = m /\ i = j

\* Lists that free their values own them: no value of theirs is freed while a
\* node has it, and no two such nodes have the same, unless such a list was
\* copied without a dup method.
ValuesOwned ==
  LET owning == {l \in Lists : list[l].free}
      owners == UNION {Members(l) : l \in owning}
  IN ~seen.shared =>
       /\ \A a \in owners : heap[a].value \in pool
       /\ \A a, b \in owners : heap[a].value = heap[b].value => a = b

\* An iterator that has reached the end gave every node that was there from its
\* start and still is, though others, also the one just given, came and went.
VisitsAll ==
  iter.list # NULL /\ iter.next = NULL /\ ~seen.rotated => seen.owed = {}

\* listIndex and listSearch give the node of that place from either end, and
\* the first node of that value, or NULL.
LookupAgrees ==
  \A l \in Lists : LET s == order[l] IN
    /\ \A i \in (-Cardinality(Addr))..Cardinality(Addr) :
         Index(l, i) = Place(s, IF i >= 0 THEN i + 1 ELSE Len(s) + i + 1)
    /\ \A key \in Values, match \in BOOLEAN : LET found == Search(l, key, match) IN
         IF found = NULL
         THEN \A i \in DOMAIN s : ~Takes(heap[s[i]].value, key, match)
         ELSE \E i \in DOMAIN s :
                /\ s[i] = found /\ Takes(heap[found].value, key, match)
                /\ \A j \in 1..(i - 1) : ~Takes(heap[s[j]].value, key, match)

================================================================================
