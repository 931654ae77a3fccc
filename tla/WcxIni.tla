--------------------------------- MODULE WcxIni --------------------------------
(***************************************************************************)
(* The ini reader: wcx_ini (wcx.c) and the callback that PHP's ini scanner *)
(* calls for each directive of a file (wcx_ini.c).  The arrays built are   *)
(* zvals, and a zval may be in several arrays: a section shares with its   *)
(* parents what it inherits.  So the heap of zvals is modelled; the order  *)
(* of an array's elements, and a key without a value, which changes        *)
(* nothing, are not.                                                       *)
(***************************************************************************)
EXTENDS Integers, Sequences, FiniteSets, FiniteSetsExt, SequencesExt

CONSTANTS
  Directives,  \* what a file may hold, one per line
  Fold,        \* each section name in lower case
  Index,       \* the integer keys: 0, 1, ..., as many as a list may come to
  Wanted,      \* sections a script asks for; Nil: all of the file
  Nil,         \* NULL
  MaxLines,    \* lines of a file, a bound
  Keys,        \* section names, keys and indexes
  Deepest      \* keys that lead to a value, section and index included, a bound

ASSUME IniAssumption ==
  /\ \A d \in Directives :
       \/ d.kind = "section" /\ d.name \in Keys /\ d.parents \in Seq(Keys)
       \/ d.kind = "entry" /\ d.path \in Seq(Keys) /\ Len(d.path) + 2 <= Deepest
       \/ /\ d.kind = "list" /\ d.path \in Seq(Keys) /\ Len(d.path) + 2 <= Deepest
          /\ d.index \in Keys \cup {Nil}
  /\ Index \in Seq(Keys) /\ IsInjective(Index)
  /\ Wanted \subseteq Keys \cup {Nil} /\ Nil \notin Keys \cup Nat
  /\ MaxLines \in Nat /\ Deepest \in Nat \ {0}

\* [x : p1 : p2], k1.k2 = v, and k1.k2[] = v or k1.k2[i] = v.  The path of a key
\* that is only dots is empty.
SectionLine(name, parents) == [kind |-> "section", name |-> name, parents |-> parents]
EntryLine(path)            == [kind |-> "entry", path |-> path]
ListLine(path, index)      == [kind |-> "list", path |-> path, index |-> index]

VARIABLES
  heap,     \* zvals; 1 is the array that wcx_ini returns
  active,   \* the active section, or Nil
  flag,     \* parsing_flag
  wanted,   \* ini_wanted_section
  fault,    \* an array operation on a scalar, or a reference count overwritten
  file,     \* history: the lines read; the value of line i is i
  shared    \* history: a list entry went into an array that is in two places

iniVars == <<heap, active, flag, wanted, fault, file, shared>>

Scalar(v) == [arr |-> FALSE, val |-> v, map |-> <<>>]
Array     == [arr |-> TRUE, val |-> Nil, map |-> <<>>]

IniInit ==
  /\ heap = <<Array>>
  /\ active = Nil /\ flag = "START"
  /\ wanted \in Wanted
  /\ fault = "none" /\ file = <<>> /\ shared = FALSE

--------------------------------------------------------------------------------
(* Arrays.                                                                 *)

Has(h, d, k) == k \in DOMAIN h[d].map

\* zend_symtable_update(d, k, z).
Update(h, d, k, z) ==
  [h EXCEPT ![d].map = [j \in DOMAIN @ \cup {k} |-> IF j = k THEN z ELSE @[j]]]

\* MUTANT: the array gets the zval made before.
ChildBefore(h, d, k, node) == Append(Update(h, d, k, Len(h)), node)

\* The same with a new zval, the last of the heap.
Child(h, d, k, node) == Append(Update(h, d, k, Len(h) + 1), node)

\* The ways that lead on from zval z: the keys, and the zval they lead to.
Walks(h, z) ==
  LET Longer(w) ==
        {[path |-> Append(w.path, k), at |-> h[w.at].map[k]] : k \in DOMAIN h[w.at].map}
      walks[n \in 0..Deepest] ==
        IF n = 0 THEN {[path |-> <<>>, at |-> z]} ELSE UNION {Longer(w) : w \in walks[n - 1]}
  IN UNION {walks[n] : n \in 0..Deepest}

\* What is in the array that wcx_ini returns.
Within(h) == {w.at : w \in Walks(h, 1)}

\* The reference count of z is over 1: it is in two arrays, or twice in one.
Shared(h, z) ==
  \E a, b \in Within(h) : \E j \in DOMAIN h[a].map, k \in DOMAIN h[b].map :
    <<a, j>> # <<b, k>> /\ h[a].map[j] = z /\ h[b].map[k] = z

\* MUTANT: the zval is written to where it is.
Unseparated(h, d, k) == h

\* SEPARATE_ZVAL: an element that is elsewhere too is replaced by its copy.
Separate(h, d, k) ==
  IF Shared(h, h[d].map[k]) THEN Child(h, d, k, h[h[d].map[k]]) ELSE h

--------------------------------------------------------------------------------
(* wcx_config_ini_simple_parser_cb.                                        *)

\* ENTRY: a key at a time.  What is an array stays one, the value is dropped.
PutEntry(h, d, path, v) ==
  LET put[i \in 0..Len(path)] ==
        IF i = 0 THEN [heap |-> h, at |-> d]
        ELSE LET r    == put[i - 1]
                 k    == path[i]
                 g    == IF Has(r.heap, r.at, k) THEN Separate(r.heap, r.at, k) ELSE r.heap
                 up   == Has(g, r.at, k) /\ g[g[r.at].map[k]].arr
                 made == IF up THEN g ELSE Child(g, r.at, k, IF i < Len(path) THEN Array ELSE Scalar(v))
             IN [heap |-> made, at |-> made[r.at].map[k]]
  IN put[Len(path)].heap

\* POP_ENTRY looks for its array, making those that are missing, without
\* SEPARATE_ZVAL.  met: the zvals on the way; a scalar before the end is a fault.
Locate(h, d, path) ==
  LET found[i \in 0..Len(path)] ==
        IF i = 0 THEN [heap |-> h, at |-> d, met |-> {}, fault |-> "none"]
        ELSE LET r == found[i - 1]
                 g == IF Has(r.heap, r.at, path[i]) THEN r.heap ELSE Child(r.heap, r.at, path[i], Array)
                 z == g[r.at].map[path[i]]
             IN IF ~r.heap[r.at].arr THEN [r EXCEPT !.fault = "crash"]
                ELSE [heap |-> g, at |-> z, met |-> r.met \cup {z}, fault |-> "none"]
  IN found[Len(path)]

\* nNextFreeElement: a new element goes behind the largest integer key.
LastIndex(keys) == Max({0} \cup {i \in DOMAIN Index : Index[i] \in keys})

NextIndex(keys) == Index[LastIndex(keys) + 1]

Begun == IF active = Nil THEN 1 ELSE active

Entry(d) ==
  /\ d.kind = "entry"
  /\ heap' = PutEntry(heap, Begun, d.path, Len(file) + 1)
  /\ UNCHANGED <<active, flag, fault, shared>>

\* A scalar in the place of the list becomes an array where it is; INIT_PZVAL
\* gives it a reference count of 1 though other arrays hold it.
List(d) ==
  LET found  == Locate(heap, Begun, d.path)
      h      == found.heap
      lists  == IF h[found.at].arr THEN h ELSE [h EXCEPT ![found.at] = Array]
      k      == IF d.index = Nil THEN NextIndex(DOMAIN lists[found.at].map) ELSE d.index
      common == \E z \in found.met : Shared(heap, z)
  IN /\ d.kind = "list"
     /\ d.index = Nil => LastIndex(DOMAIN lists[found.at].map) < Len(Index)
     /\ fault' = IF d.path = <<>> \/ found.fault # "none" THEN "crash"
                 ELSE IF ~h[found.at].arr /\ Shared(h, found.at) THEN "freed twice" ELSE "none"
     /\ heap' = IF fault' = "none" THEN Child(lists, found.at, k, Scalar(Len(file) + 1)) ELSE heap
     /\ shared' = (shared \/ common)
     /\ UNCHANGED <<active, flag>>

--------------------------------------------------------------------------------
(* wcx_config_ini_parser_cb.                                               *)

\* wcx_deep_copy_section: elements of src are shared by dst; where both have an
\* array, dst gets a new one with the elements of both, which is filled likewise.
\* both: the paths to these.
DeepCopy(h, dst, src) ==
  LET Arrays(z)  == {w.path : w \in {v \in Walks(h, z) : h[v.at].arr}}
      At(z, p)   == (CHOOSE w \in Walks(h, z) : w.path = p).at
      both       == Arrays(dst) \cap Arrays(src)
      made       == SetToSeq(both \ {<<>>})
      New(p)     == Len(h) + (CHOOSE i \in DOMAIN made : made[i] = p)
      Merged(p)  ==
        LET old  == h[At(dst, p)].map
            over == h[At(src, p)].map
        IN [k \in DOMAIN old \cup DOMAIN over |->
              IF Append(p, k) \in both THEN New(Append(p, k))
              ELSE IF k \in DOMAIN over THEN over[k] ELSE old[k]]
  IN [h EXCEPT ![dst].map = Merged(<<>>)] \o [i \in DOMAIN made |-> [Array EXCEPT !.map = Merged(made[i])]]

\* MUTANT: from left to right.
LeftToRight(parents) == parents

\* The parents are taken from the last to the first: the first prevails.
InOrder(parents) == Reverse(parents)

\* The new array with what the parents that the file has say.
Inherited(parents) ==
  LET order == InOrder(parents)
      copied[i \in 0..Len(order)] ==
        IF i = 0 THEN Append(heap, Array)
        ELSE IF ~Has(heap, 1, order[i]) THEN copied[i - 1]
        ELSE DeepCopy(copied[i - 1], Len(heap) + 1, heap[1].map[order[i]])
  IN copied[Len(order)]

\* MUTANT: it goes on with the sections after it.
NeverOver(name) == FALSE

\* The section asked for is over: a section starts while it is being processed.
Over(name) == flag = "PROCESS"

Section(d) ==
  /\ d.kind = "section"
  /\ IF Over(d.name)
     THEN flag' = "END" /\ UNCHANGED <<heap, active, fault>>
     ELSE IF \E p \in Range(d.parents) : Has(heap, 1, p) /\ ~heap[heap[1].map[p]].arr
     THEN fault' = "crash" /\ UNCHANGED <<heap, active, flag>>
     ELSE /\ heap' = Update(Inherited(d.parents), 1, d.name, Len(heap) + 1)
          /\ active' = Len(heap) + 1
          /\ flag' = IF wanted # Nil /\ Fold[wanted] = Fold[d.name] THEN "PROCESS" ELSE flag
          /\ UNCHANGED fault
  /\ UNCHANGED shared

Ignored == flag = "END" /\ UNCHANGED <<heap, active, flag, fault, shared>>

Line(d) ==
  /\ fault = "none" /\ Len(file) < MaxLines
  /\ IF flag = "END" THEN Ignored ELSE Entry(d) \/ List(d) \/ Section(d)
  /\ file' = Append(file, d)
  /\ UNCHANGED wanted

IniNext == \E d \in Directives : Line(d)

IniSpec == IniInit /\ [][IniNext]_iniVars

\* What wcx_ini returns if the file ends here: the array of the section asked
\* for, which is looked up as it is written, or of the file; or Nil.
Returned ==
  IF wanted = Nil THEN 1 ELSE IF Has(heap, 1, wanted) THEN heap[1].map[wanted] ELSE Nil

================================================================================
