------------------------------ MODULE WcxCryptProps ----------------------------
(***************************************************************************)
(* What must hold of encryption.                                           *)
(***************************************************************************)
EXTENDS WcxCrypt

\* Passwords a and b differ in no byte of the key, a missing one being a space.
SameKey(a, b) ==
  \A i \in 1..KeySize :
    (IF i <= Len(a) THEN a[i] ELSE " ") = (IF i <= Len(b) THEN b[i] ELSE " ")

\* What was encrypted comes back for every password that is the same key: blocks
\* unchained, padding dropped, and a buffer that grows fast enough in 100 rounds for
\* all that deflate can pack.
RoundTrip ==
  pc = "done" /\ stored # NULL /\ SameKey(guess, key) =>
    result = [error |-> FALSE, data |-> data]

\* Decryption reads inside its buffer, also the byte after the data that inflate is
\* given, and the blocks that are encrypted are all of it; and whatever deflate makes
\* of the data fits the buffer that was guessed for it.
BuffersHold ==
  /\ stored # NULL => /\ reads <= stored.size - 16
                     /\ stored.size = 16 + 16 * Times(header[3])
  /\ pc = "encrypt" => \A p \in Packed[data] : Fits(p, data)

================================================================================
