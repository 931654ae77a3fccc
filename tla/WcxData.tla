-------------------------------- MODULE WcxData --------------------------------
(***************************************************************************)
(* WcxData (wcx_data.c): objects that give a script's array the interface  *)
(* of an object.  An object does not copy the array: its property shares   *)
(* the table with the script's variable and with every object made of it,  *)
(* and set and offsetUnset change the table in place (wcx_data.c:186,      *)
(* 228).  A table is a PHP 5 HashTable: entries in order and one internal  *)
(* pointer, which the iterator methods of all its objects move.            *)
(***************************************************************************)
EXTENDS Integers, Sequences, FiniteSets

CONSTANTS
  Objs,      \* objects a script may hold at a time
  Tabs,      \* tables
  Names,     \* names passed as strings, none empty
  IntOf,     \* the integer is_numeric_string reads in a name, or NULL
  Ints,      \* integer keys
  Scalars,   \* values that are not arrays
  Arrays,    \* what the tables may hold at first: functions on Tabs
  First,     \* the table of the script's array
  NULL,
  MaxLen     \* entries of a table, a bound

Keys   == Names \cup Ints
Values == Scalars \cup Tabs

ASSUME DataAssumption ==
  /\ Names \cap Ints = {} /\ Scalars \cap Tabs = {}
  /\ NULL \notin Objs \cup Tabs \cup Keys \cup Values
  /\ IntOf \in [Names -> Ints \cup {NULL}]
  /\ IsFiniteSet(Tabs) /\ First \in Tabs /\ MaxLen \in Nat
  /\ Arrays \subseteq [Tabs -> Seq([key : Keys, val : Values])]
  /\ \A a \in Arrays, t \in Tabs : \A i, j \in DOMAIN a[t] : a[t][i].key = a[t][j].key => i = j

VARIABLES
  ent, pos,   \* each table: its entries, its internal pointer (0: past the end)
  obj,        \* each object: whether there is one, its table, its flag
  var,        \* the table of the script's variable
  alive,      \* the script runs
  asked,      \* history: the tables the script asked a writable object of, or of
              \* one they are in
  loop        \* history: the foreach begun last

vars == <<ent, pos, obj, var, alive, asked, loop>>

Object == [up : BOOLEAN, tab : Tabs \cup {NULL}, ro : BOOLEAN]

\* wcx_data.c:374-375: the properties before the constructor.
NoObject == [up |-> FALSE, tab |-> NULL, ro |-> FALSE]

\* obj: who iterates; owed: keys there since rewind that it has not been given.
\* A loop is forgotten when another call moves the pointer, or unsets under it.
NoLoop == [obj |-> NULL, owed |-> {}]

KeysOf(t) == {ent[t][i].key : i \in DOMAIN ent[t]}

\* zend_hash_find and zend_hash_index_find: the place of a key, or 0.
Place(t, key) ==
  IF key \in KeysOf(t) THEN CHOOSE i \in DOMAIN ent[t] : ent[t][i].key = key ELSE 0

Init ==
  /\ ent \in Arrays
  /\ pos = [t \in Tabs |-> IF ent[t] = <<>> THEN 0 ELSE 1]
  /\ obj = [o \in Objs |-> NoObject]
  /\ var = First /\ alive = TRUE /\ asked = {}
  /\ loop = NoLoop

\* The tables that those of A with contents e hold.
Held(e, A) == {u \in Tabs : \E t \in A : \E i \in DOMAIN e[t] : e[t][i].val = u}

\* The tables S, those in them, and so on.
Reach(e, S) ==
  LET upto[k \in 0..Cardinality(Tabs)] ==
        IF k = 0 THEN S ELSE LET A == upto[k - 1] IN A \cup Held(e, A)
  IN upto[Cardinality(Tabs)]

ASSUME UnusedAssumption ==
  \A a \in Arrays, t \in Tabs : t \in Reach(a, {First}) \/ a[t] = <<>>

Used(e, objs, v) == Reach(e, {v} \cup ({objs[o].tab : o \in Objs} \ {NULL}))

\* array_init gives a table nobody uses.
Unused == Tabs \ Used(ent, obj, var)
NewTab == CHOOSE t \in Unused : TRUE

\* The tables, objects and variable become these; a table that nobody refers to
\* any more is destroyed.  The script asks to write to the tables S.
Become(e, p, objs, v, S) ==
  LET used == Used(e, objs, v)
  IN /\ ent' = [t \in Tabs |-> IF t \in used THEN e[t] ELSE <<>>]
     /\ pos' = [t \in Tabs |-> IF t \in used THEN p[t] ELSE 0]
     /\ obj' = objs /\ var' = v /\ asked' = (asked \cup S) \cap used
     /\ UNCHANGED alive

\* What a script asks to write to with an object of table t and this flag.
Writable(t, ro) == IF ro THEN {} ELSE Reach(ent, {t})

--------------------------------------------------------------------------------
(* Construction: __construct and wcx_data_instance.                        *)

\* An object that works: one that was given its table.
Works(o) == alive /\ obj[o].up /\ obj[o].tab # NULL

\* The objects when o has table t and flag ro.
Instance(o, t, ro) == [obj EXCEPT ![o] = [up |-> TRUE, tab |-> t, ro |-> ro]]

\* The foreach over o ends with it.
Renewed(o) == loop' = IF loop.obj = o THEN NoLoop ELSE loop

\* new WcxData($array) or new WcxData($array, $readonly), or __construct again.
Construct(o, given, ro) ==
  /\ alive
  /\ LET flag == IF given THEN ro ELSE obj[o].ro
     IN Become(ent, pos, Instance(o, var, flag), var, Writable(var, flag))
  /\ Renewed(o)

\* new WcxData().
ConstructEmpty(o) ==
  /\ alive /\ Unused # {}
  /\ Become(ent, pos, Instance(o, NewTab, obj[o].ro), var, Writable(NewTab, obj[o].ro))
  /\ Renewed(o)

\* A third argument: the parameters are refused and the property stays NULL.
ConstructRefused(o) ==
  /\ alive /\ ~obj[o].up
  /\ Become(ent, pos, Instance(o, NULL, FALSE), var, {})
  /\ UNCHANGED loop

\* No array: E_ERROR.  Or a method that needs the table of an object whose property
\* is NULL: a NULL HashTable.  The script is over.
Fatal ==
  /\ alive /\ alive' = FALSE
  /\ UNCHANGED <<ent, pos, obj, var, asked, loop>>

\* The script forgets an object.
Forget(o) ==
  /\ alive /\ obj[o].up
  /\ Become(ent, pos, [obj EXCEPT ![o] = NoObject], var, {})
  /\ Renewed(o)

--------------------------------------------------------------------------------
(* get, current, to_array: answers, and the objects they come in.          *)

\* MUTANT: a numeric name is looked up as it is.
KeyAsGiven(name) == name

\* The key get looks for.
GetKey(name) == IF IntOf[name] = NULL THEN name ELSE IntOf[name]

\* What get finds in table t, or NULL.
Lookup(t, name) ==
  LET i == Place(t, GetKey(name)) IN IF i = 0 THEN NULL ELSE ent[t][i].val

\* __isset and offsetExists look for the name itself.
Exists(t, name) == Place(t, name) # 0

\* MUTANT: an element that is an array comes in a new object without a flag.
FlagDefault(o) == FALSE

\* wcx_data_format hands on the flag of the object.
FlagOf(o) == obj[o].ro

\* o gives table t: a new object o2, whose table is the element's own.
Format(o, o2, t, S) ==
  /\ ~obj[o2].up
  /\ Become(ent, pos, Instance(o2, t, FlagOf(o)), var, S)
  /\ UNCHANGED loop

Get(o, o2, name) ==
  /\ Works(o)
  /\ Lookup(obj[o].tab, name) \in Tabs
  /\ Format(o, o2, Lookup(obj[o].tab, name), {})

\* The default is an array, and the name is not there: an object of the default,
\* which a script that has a writable object asks for.
GetDefault(o, o2, name) ==
  /\ Works(o)
  /\ Lookup(obj[o].tab, name) = NULL
  /\ Format(o, o2, var, Writable(var, obj[o].ro))

Current(o, o2) ==
  LET t == obj[o].tab
  IN /\ Works(o)
     /\ pos[t] # 0 /\ ent[t][pos[t]].val \in Tabs
     /\ Format(o, o2, ent[t][pos[t]].val, {})

\* $var = $o->to_array(): a copy of the table, whose elements are shared; its
\* pointer is at the same entry, or at the first.
ToArray(o) ==
  LET t == obj[o].tab
      p == IF pos[t] = 0 /\ ent[t] # <<>> THEN 1 ELSE pos[t]
  IN /\ Works(o) /\ Unused # {}
     /\ Become([ent EXCEPT ![NewTab] = ent[t]], [pos EXCEPT ![NewTab] = p], obj, NewTab, {})
     /\ UNCHANGED loop

--------------------------------------------------------------------------------
(* set and offsetUnset.                                                    *)

\* zend_hash_update: the value replaced where it is, or an entry at the end,
\* which the pointer takes if it was past the end.  An array is stored alike.
Set(o, name, v) ==
  LET t == obj[o].tab
      i == Place(t, name)
  IN /\ Works(o) /\ ~obj[o].ro
     /\ IF i # 0
        THEN Become([ent EXCEPT ![t][i].val = v], pos, obj, var, {})
        ELSE /\ Len(ent[t]) < MaxLen
             /\ Become([ent EXCEPT ![t] = Append(@, [key |-> name, val |-> v])],
                       [pos EXCEPT ![t] = IF @ = 0 THEN Len(ent[t]) + 1 ELSE @], obj, var, {})
     /\ UNCHANGED loop

\* The table the foreach runs over.
Looping(t) == loop.obj # NULL /\ obj[loop.obj].tab = t

\* MUTANT: the pointer is left as it is.
PointerKept(p, i, n) == p

\* MUTANT: the pointer stays at its place in the order.
PointerStays(p, i, n) == IF p = n THEN 0 ELSE p

\* Where the pointer p of n entries is once entry i is gone: at the entry it
\* was at, or at the next one.
PointerAfter(p, i, n) == IF p > i THEN p - 1 ELSE IF p = i /\ i = n THEN 0 ELSE p

\* zend_hash_del of the name itself.
OffsetUnset(o, name) ==
  LET t == obj[o].tab
      i == Place(t, name)
  IN /\ Works(o) /\ ~obj[o].ro /\ i # 0
     /\ Become([ent EXCEPT ![t] = SubSeq(@, 1, i - 1) \o SubSeq(@, i + 1, Len(@))],
               [pos EXCEPT ![t] = PointerAfter(@, i, Len(ent[t]))], obj, var, {})
     /\ loop' = IF ~Looping(t) THEN loop
                ELSE IF pos[t] = i THEN NoLoop ELSE [loop EXCEPT !.owed = @ \ {name}]

--------------------------------------------------------------------------------
(* Iteration.                                                              *)

Rewind(o) ==
  LET t == obj[o].tab
  IN /\ Works(o)
     /\ pos' = [pos EXCEPT ![t] = IF ent[t] = <<>> THEN 0 ELSE 1]
     /\ loop' = [obj |-> o, owed |-> KeysOf(t)]
     /\ UNCHANGED <<ent, obj, var, alive, asked>>

\* The element at the pointer has been given; zend_hash_move_forward.
Forward(o) ==
  LET t == obj[o].tab
  IN /\ Works(o) /\ pos[t] # 0
     /\ pos' = [pos EXCEPT ![t] = IF @ = Len(ent[t]) THEN 0 ELSE @ + 1]
     /\ loop' = IF ~Looping(t) THEN loop
                ELSE IF loop.obj = o THEN [loop EXCEPT !.owed = @ \ {ent[t][pos[t]].key}]
                ELSE NoLoop
     /\ UNCHANGED <<ent, obj, var, alive, asked>>

--------------------------------------------------------------------------------
Next ==
  \/ Fatal
  \/ \E o \in Objs :
       \/ \E given, ro \in BOOLEAN : Construct(o, given, ro)
       \/ ConstructEmpty(o) \/ ConstructRefused(o) \/ Forget(o)
       \/ ToArray(o) \/ Rewind(o) \/ Forward(o)
       \/ \E o2 \in Objs : Current(o, o2)
       \/ \E name \in Names :
            \/ \E o2 \in Objs : Get(o, o2, name) \/ GetDefault(o, o2, name)
            \/ \E v \in Scalars : Set(o, name, v)
            \/ OffsetUnset(o, name)

Spec == Init /\ [][Next]_vars

================================================================================
