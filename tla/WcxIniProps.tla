------------------------------- MODULE WcxIniProps -----------------------------
(***************************************************************************)
(* What must hold of the ini reader.  The reference is what the lines of   *)
(* the file say, each in its turn, of a set of leaves: a value and the     *)
(* keys that lead to it.  Nothing is shared there.                         *)
(***************************************************************************)
EXTENDS WcxIni

Leaf(path, val) == [path |-> path, val |-> val]

\* The leaves under zval z.
Leaves(h, z) ==
  {Leaf(w.path, h[w.at].val) : w \in {v \in Walks(h, z) : ~h[v.at].arr}}

Below(S, path) == {l \in S : IsPrefix(path, l.path)}
Clashes(l, m)  == IsPrefix(l.path, m.path) \/ IsPrefix(m.path, l.path)

\* over prevails where both say something of the same place.
LeafOver(S, over) == {l \in S : \A m \in over : ~Clashes(l, m)} \cup over

\* What section name says, from its own array on.
Sub(S, name) ==
  {Leaf(Tail(l.path), l.val) : l \in {m \in S : Len(m.path) > 1 /\ m.path[1] = name}}

\* A value is dropped where there is an array; it replaces a value.
EntrySays(S, path, v) ==
  IF \E l \in Below(S, path) : l.path # path THEN S ELSE LeafOver(S, {Leaf(path, v)})

\* An element is added to the array in that place, or makes one there.
ListSays(S, path, index, v) ==
  LET kept == S \ {l \in S : l.path = path}
      keys == {l.path[Len(path) + 1] : l \in Below(kept, path)}
  IN LeafOver(kept, {Leaf(Append(path, IF index = Nil THEN NextIndex(keys) ELSE index), v)})

\* A section starts anew, with what its parents say, the first prevailing.
SectionSays(S, name, parents) ==
  LET n == Len(parents)
      given[i \in 0..n] ==
        IF i = 0 THEN {} ELSE LeafOver(given[i - 1], Sub(S, parents[n + 1 - i]))
  IN {l \in S : l.path[1] # name} \cup {Leaf(<<name>> \o l.path, l.val) : l \in given[n]}

\* What line d, the i-th, makes of the leaves said and of the section they are in.
LineSays(r, d, i) ==
  CASE d.kind = "section" -> [said |-> SectionSays(r.said, d.name, d.parents), in |-> <<d.name>>]
    [] d.kind = "entry" /\ d.path # <<>> -> [r EXCEPT !.said = EntrySays(@, r.in \o d.path, i)]
    [] d.kind = "list" -> [r EXCEPT !.said = ListSays(@, r.in \o d.path, d.index, i)]
    [] OTHER -> r

AsWritten(lines) ==
  LET read[i \in 0..Len(lines)] ==
        IF i = 0 THEN [said |-> {}, in |-> <<>>] ELSE LineSays(read[i - 1], lines[i], i)
  IN read[Len(lines)].said

\* Every variable has its type: an element of an array is a zval there is, made
\* after it or inherited, and the active section is one of the file's.
IniTypeOK ==
  /\ \A z \in DOMAIN heap :
       /\ heap[z].arr \in BOOLEAN /\ heap[z].val \in {Nil} \cup 1..MaxLines
       /\ \A k \in DOMAIN heap[z].map : heap[z].arr /\ heap[z].map[k] \in DOMAIN heap \ {1, z}
  /\ active = Nil \/ \E k \in DOMAIN heap[1].map : heap[1].map[k] = active
  /\ flag \in {"START", "PROCESS", "END"} /\ wanted \in Wanted
  /\ fault \in {"none", "crash", "freed twice"}
  /\ file \in Seq(Directives) /\ shared \in BOOLEAN

\* A file read as a whole gives what its lines say, each in turn: nested over
\* flat values, later over earlier sections of a name, first over later parents,
\* though sections share what they inherit; as long as no list entry went into an
\* array that two sections share.
SectionsAsWritten ==
  wanted = Nil /\ fault = "none" /\ ~shared => Leaves(heap, 1) = AsWritten(file)

\* A section asked for is what the file says of it where its first block ends,
\* parents of other names included and whatever follows, unless a name that differs
\* in case came first.
WantedGiven ==
  LET starts == {i \in DOMAIN file : file[i].kind = "section"}
      first  == {i \in starts : wanted # Nil /\ Fold[file[i].name] = Fold[wanted]}
      begin  == Min(first)
      ends   == {i \in starts : i > begin}
      block  == SubSeq(file, 1, IF ends = {} THEN Len(file) ELSE Min(ends) - 1)
  IN first # {} /\ file[begin].name = wanted /\ fault = "none" /\ ~shared =>
       /\ Returned # Nil
       /\ Leaves(heap, Returned) = Sub(AsWritten(block), wanted)

\* Names of the array that a line leaves alone.
Others(d) ==
  {k \in DOMAIN heap[1].map :
     /\ heap[1].map[k] # active
     /\ d.kind = "section" => k # d.name
     /\ d.kind = "entry" /\ active = Nil => d.path # <<>> /\ k # d.path[1]}

\* An entry, and the start of a section, change no other section, not even one
\* they inherit from or hand on to: what is shared is copied before it is written.
ParentsKept ==
  [][\A d \in Directives :
       d.kind # "list" /\ file' = Append(file, d) =>
         \A k \in Others(d) :
           Has(heap', 1, k) /\ Leaves(heap', heap'[1].map[k]) = Leaves(heap, heap[1].map[k])
    ]_iniVars

================================================================================
