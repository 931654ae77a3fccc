-------------------------------- MODULE MCHelpers ------------------------------
(***************************************************************************)
(* The functions that keep no state between calls: the reading of an ini   *)
(* file, a call of an array helper, or an encryption and a decryption, one *)
(* of them in each behaviour; and the values of their constants.           *)
(***************************************************************************)
EXTENDS WcxIniProps, WcxArrayProps, WcxCryptProps

\* Two sections, one of them with two spellings and with parents; flat and nested
\* entries of one key, also of the name of a section; lists in their places.
MCDirectives ==
  {SectionLine("base", <<>>), SectionLine("DEV", <<"base">>),
   SectionLine("dev", <<"base">>), SectionLine("dev", <<"DEV", "base">>),
   EntryLine(<<"a">>), EntryLine(<<"a", "b">>), EntryLine(<<"a", "1">>), EntryLine(<<"base">>),
   ListLine(<<"a">>, Nil), ListLine(<<"a">>, "b"), ListLine(<<"a", "b">>, Nil), ListLine(<<>>, Nil)}

MCFold == [n \in {"base", "dev", "DEV"} |-> IF n = "DEV" THEN "dev" ELSE n]

MCIndex == <<"0", "1", "2", "3", "4", "5", "6">>

MCNames == {"a", "b"} \cup DOMAIN MCFold \cup Range(MCIndex)
\* The string "3", and the integers 3 and 4; == takes the first two for equal.
MCLooks == [v \in {"int 3", "str 3", "int 4"} |->
              IF v = "int 4" THEN {v} ELSE {"int 3", "str 3"}]

MCKeys == {Key(TRUE, "x"), Key(TRUE, "y"), Key(FALSE, "0"), Key(FALSE, "1")}

\* Arrays of up to four entries.
MCArrays ==
  UNION {{[i \in 1..n |-> [key |-> ks[i], val |-> vs[i]]] :
            vs \in [1..n -> DOMAIN MCLooks],
            ks \in {f \in [1..n -> MCKeys] : \A i, j \in 1..n : f[i] = f[j] => i = j}} : n \in 0..4}

MCRemoveCalls ==
  {[op |-> "remove", arr |-> a, val |-> "int 3", num |-> o[1], strict |-> o[2]] :
     a \in MCArrays, o \in {<<Absent, FALSE>>, <<Absent, TRUE>>, <<1, FALSE>>, <<2, FALSE>>}}

MCRandCalls ==
  {[op |-> "rand", arr |-> [i \in 1..n |-> [key |-> Key(FALSE, MCIndex[i]), val |-> "int 4"]], num |-> k] :
     n \in 0..4, k \in {Absent} \cup (-1)..5}

\* The shortest there is, whole blocks and one byte more and less, and both sides of
\* the limit of compression; data packed by a thousand, and hardly packed at all.
MCLengths == {1, 15, 16, 17, 100, 101, 1024, 40960, 1024000}

MCPacked == [n \in MCLengths |-> {n \div 1024 + 12, (n \div 16) * 16, n, DeflateMost(n)} \ {0}]

\* Keys of two bytes: filled with a space, and cut.
MCPasswords == {<<"k">>, <<"k", " ">>, <<"k", "l">>, <<"k", "l", "m">>}

\* No field to four, as another key leaves them.
MCGarbage == {<<>>, <<"?">>, <<"?", "?">>, <<"?", "1", "7", "9">>}

IniIdle ==
  /\ heap = <<Array>> /\ active = Nil /\ flag = "START" /\ wanted = Nil
  /\ fault = "none" /\ file = <<>> /\ shared = FALSE

ArrayIdle ==
  /\ call = [op |-> "none", arr |-> <<>>, num |-> Absent]
  /\ arr = <<>> /\ place = 1 /\ wants = 0 /\ count = 0 /\ string_key = Absent
  /\ avail = 0 /\ picked = <<>> /\ at = "idle"

CryptIdle ==
  /\ pc = "idle" /\ data = NULL /\ key = NULL /\ stored = NULL /\ header = <<>> /\ guess = NULL
  /\ flags = <<>> /\ buf = NoBuf /\ reads = 0 /\ result = Failed

Init ==
  \/ IniInit /\ ArrayIdle /\ CryptIdle
  \/ ArrayInit /\ IniIdle /\ CryptIdle
  \/ CryptInit /\ IniIdle /\ ArrayIdle

Next ==
  \/ at = "idle" /\ pc = "idle" /\ IniNext /\ UNCHANGED <<arrayVars, cryptVars>>
  \/ ArrayNext /\ UNCHANGED <<iniVars, cryptVars>>
  \/ CryptNext /\ UNCHANGED <<iniVars, arrayVars>>

Spec == Init /\ [][Next]_<<iniVars, arrayVars, cryptVars>>

================================================================================
