------------------------------ MODULE WcxDataProps -----------------------------
(***************************************************************************)
(* What must hold of WcxData.                                              *)
(***************************************************************************)
EXTENDS WcxData

\* Every variable has its type; a table holds a key once, and its pointer is at
\* one of its entries or past the end.
DataTypeOK ==
  /\ ent \in [Tabs -> Seq([key : Keys, val : Values])] /\ pos \in [Tabs -> Nat]
  /\ \A t \in Tabs :
       /\ \A i, j \in DOMAIN ent[t] : ent[t][i].key = ent[t][j].key => i = j
       /\ pos[t] \in {0} \cup DOMAIN ent[t]
  /\ obj \in [Objs -> Object]
  /\ var \in Tabs /\ alive \in BOOLEAN /\ asked \subseteq Tabs
  /\ loop \in [obj : Objs \cup {NULL}, owed : SUBSET Keys]

\* The tables in use before and after a step.
Lasting == Used(ent, obj, var) \cap Used(ent, obj, var)'

\* What a step says that name n in table t is now: a value set, NULL once unset.
Told(t, n) ==
  {v \in Scalars : \E o \in Objs : obj[o].tab = t /\ Set(o, n, v)} \cup
  {NULL : o \in {o \in Objs : obj[o].tab = t /\ OffsetUnset(o, n)}}

\* What get gives for a name changes only when a set or an unset of that very
\* name is made through an object of the table, and then to what it says.  A
\* numeric name is another matter: get sees the integer key, which no method ever
\* sets or unsets, so it goes on giving what the script's array had, while isset
\* sees the string key.
ReadsBack ==
  [][\A t \in Lasting, n \in Names :
       /\ Lookup(t, n)' \in
            (IF IntOf[n] # NULL \/ Told(t, n) = {} THEN {Lookup(t, n)} ELSE Told(t, n))
       /\ Exists(t, n)' = (IF Told(t, n) = {} THEN Exists(t, n) ELSE NULL \notin Told(t, n))
    ]_vars

\* A table changes only if the script asked for a writable object of it, or of an
\* array it was in: what it has from readonly objects only, an element, a default,
\* an iteration, at any depth, stays as it is whatever else the script writes.
ReadonlyDeep ==
  [][\A t \in Lasting : ent'[t] # ent[t] => t \in asked]_vars

\* A foreach that has come to the end gave every element that was there at its
\* rewind and still is, though others, not the one just given, were set or unset.
VisitsKept ==
  loop.obj # NULL /\ pos[obj[loop.obj].tab] = 0 => loop.owed = {}

================================================================================
