-------------------------------- MODULE WcxCrypt -------------------------------
(***************************************************************************)
(* wcx_encrypt and wcx_decrypt (wcx.c), aes_cbc_encrypt, aes_cbc_decrypt,  *)
(* and the buffers of zlib.c.  Sizes are the code's; data is its length;   *)
(* a block of 16 bytes is the set of what was xored into it, so that xor   *)
(* is the symmetric difference, and a block encrypted with a key is a      *)
(* thing of its own that only that key undoes.                             *)
(***************************************************************************)
EXTENDS Integers, Sequences

CONSTANTS
  Lengths,   \* lengths of data
  Packed,    \* what deflate may make of data: [Lengths -> SUBSET Nat]
  Passwords, \* sequences of characters
  KeySize,   \* 16 bytes of a key, scaled
  Garbage,   \* headers found with another key: sequences of fields, none "ok"
  Shown,     \* blocks that are looked at, a bound; the first two are the header
  NULL

ASSUME CryptAssumption ==
  /\ Lengths \subseteq Nat \ {0} /\ Packed \in [Lengths -> SUBSET (Nat \ {0})]
  /\ KeySize \in Nat \ {0} /\ Shown \in Nat /\ Shown >= 3
  /\ Passwords \subseteq Seq(STRING) /\ <<>> \notin Passwords

VARIABLES
  pc,
  data, key,       \* what is encrypted, and with what key
  stored,          \* the message: [iv, blocks, size]; size is that of all of it
  header,          \* the fields of its header
  guess,           \* the key it is decrypted with
  flags,           \* header_flags
  buf,             \* php_zlib_buffer: [size, used], and the round
  reads,           \* history: how much of aes_origin_buf was read
  result           \* [error, data]

cryptVars == <<pc, data, key, stored, header, guess, flags, buf, reads, result>>

Failed == [error |-> TRUE, data |-> NULL]
NoBuf  == [size |-> 0, used |-> 0, round |-> 0]

CryptInit ==
  /\ pc = "encrypt"
  /\ data \in Lengths /\ key \in Passwords
  /\ stored = NULL /\ header = <<>> /\ guess = NULL /\ flags = <<>>
  /\ buf = NoBuf /\ reads = 0 /\ result = Failed

--------------------------------------------------------------------------------
(* Blocks.                                                                 *)

\* The key is cut, or filled with spaces, to its size.
AesKey(k) == [i \in 1..KeySize |-> IF i <= Len(k) THEN k[i] ELSE " "]

Xor(a, b) == (a \ b) \cup (b \ a)

\* The plain block n, and block b encrypted with key k.
Plain(n)  == {[n |-> n, key |-> <<>>, of |-> {}]}
Enc(k, b) == {[n |-> 0, key |-> k, of |-> b]}

\* aes_decrypt: undone, or another block that is nobody's plain text.
Dec(k, c) ==
  LET made == {x \in c : x.key = k}
  IN IF c = made /\ \E x \in c : c = {x} THEN (CHOOSE x \in c : TRUE).of
     ELSE {[n |-> -1, key |-> k, of |-> c]}

\* aes_cbc_encrypt: the iv is xored with the block, encrypted and given out, block
\* by block.
CbcEncrypt(in, iv, k) ==
  LET out[i \in 0..Len(in)] == IF i = 0 THEN iv ELSE Enc(k, Xor(out[i - 1], in[i]))
  IN [i \in 1..Len(in) |-> out[i]]

\* The iv of block i.
IvAt(in, iv, i) == IF i = 1 THEN iv ELSE in[i - 1]

CbcDecrypt(in, iv, k) ==
  [i \in 1..Len(in) |-> Xor(Dec(k, in[i]), IvAt(in, iv, i))]

--------------------------------------------------------------------------------
(* wcx_encrypt.                                                            *)

\* PHP_ZLIB_BUFFER_SIZE_GUESS.
SizeGuess(n) == (n * 1015) \div 1000 + 23

\* What zlib says deflate makes at most of n bytes.
DeflateMost(n) == n + 5 * (n \div 16384 + 1) + 6

\* What zlib promises: no more than that, and never less than a byte for 1032.
ASSUME ZlibAssumption ==
  \A n \in Lengths : \A p \in Packed[n] : p <= DeflateMost(n) /\ n <= 1032 * p

\* Z_STREAM_END: p bytes fit the buffer that php_zlib_encode makes for n.
Fits(p, n) == p <= SizeGuess(n)

Zipped(n) == n > 100

\* MUTANT: nothing is added to a whole number of blocks.
NoWholeBlock(n) == (16 - ((n + 32) % 16)) % 16

\* There is always a byte of padding.
Paddings(n) == 16 - ((n + 32) % 16)

\* encrypt_times; aes_buf_size, which is what the caller gets after the iv.
Times(n)   == (n + 32) \div 16 + 1
BufSize(n) == n + 32 + Paddings(n)

Shorter(a, b) == IF a < b THEN a ELSE b

\* The header of 32 bytes is two blocks, the data starts with the third.
Encrypt ==
  /\ pc = "encrypt"
  /\ \E n \in (IF Zipped(data) THEN {p \in Packed[data] : Fits(p, data)} ELSE {data}) :
       /\ header' = <<"ok", IF Zipped(data) THEN 1 ELSE 0, n, data>>
       /\ stored' = [iv |-> Plain(0), size |-> 16 + BufSize(n),
                     blocks |-> CbcEncrypt([i \in 1..Shorter(Times(n), Shown) |-> Plain(i)],
                                           Plain(0), AesKey(key))]
  /\ pc' = "decrypt"
  /\ UNCHANGED <<data, key, guess, flags, buf, reads, result>>

\* php_zlib_encode: zlib gets no memory, or what deflate makes does not fit the
\* buffer; NULL is returned.
EncodeFails ==
  /\ pc = "encrypt" /\ Zipped(data)
  /\ pc' = "done"
  /\ UNCHANGED <<data, key, stored, header, guess, flags, buf, reads, result>>

--------------------------------------------------------------------------------
(* wcx_decrypt.                                                            *)

\* A field that the header has not is NULL.
Field(fields, i) == IF i <= Len(fields) THEN fields[i] ELSE NULL

\* Another key leaves no header that says ok.
ASSUME GarbageAssumption == NULL # "ok" /\ \A fields \in Garbage : Field(fields, 1) # "ok"

\* The four fields, as strtok finds them once the header is decrypted.
Decrypt ==
  /\ pc = "decrypt"
  /\ \E k \in Passwords :
       LET blocks == CbcDecrypt(stored.blocks, stored.iv, AesKey(k))
           intact == \A i \in DOMAIN blocks : blocks[i] = Plain(i)
       IN /\ guess' = k
          /\ \E fields \in (IF intact THEN {header} ELSE Garbage) :
               flags' = [i \in 1..4 |-> Field(fields, i)]
  /\ pc' = IF stored.size < 48 \/ stored.size % 16 # 0 THEN "done" ELSE "header"
  /\ UNCHANGED <<data, key, stored, header, buf, reads, result>>

\* strcmp of no field at all.
Crash ==
  /\ pc = "header" /\ flags[1] = NULL
  /\ pc' = "crash"
  /\ UNCHANGED <<data, key, stored, header, guess, flags, buf, reads, result>>

NotOk ==
  /\ pc = "header" /\ flags[1] # NULL /\ flags[1] # "ok"
  /\ pc' = "done"
  /\ UNCHANGED <<data, key, stored, header, guess, flags, buf, reads, result>>

\* The data is copied, or php_zlib_decode begins; it reads a byte more.
Copy ==
  /\ pc = "header" /\ flags[1] = "ok" /\ flags[2] = 0
  /\ reads' = 32 + flags[3]
  /\ pc' = "crc"
  /\ buf' = [NoBuf EXCEPT !.used = flags[3]]
  /\ UNCHANGED <<data, key, stored, header, guess, flags, result>>

Decode ==
  /\ pc = "header" /\ flags[1] = "ok" /\ flags[2] = 1
  /\ reads' = 32 + flags[3] + 1
  /\ pc' = "inflate"
  /\ buf' = [NoBuf EXCEPT !.size = flags[3] + 1]
  /\ UNCHANGED <<data, key, stored, header, guess, flags, result>>

\* MUTANT: the buffer grows by a sixteenth.
Sixteenth(size) == size + size \div 16 + 1

\* buffer.size after a round.
Grown(size) == size + size \div 8 + 1

\* php_zlib_inflate_rounds: inflate fills the buffer, or comes to the end of the
\* data and says Z_STREAM_END; before it, some of the input is left.
Inflate ==
  /\ pc = "inflate"
  /\ LET used == Shorter(buf.size, data)
     IN /\ buf' = [size |-> Grown(buf.size), used |-> used, round |-> buf.round + 1]
        /\ pc' = IF used = data THEN "crc" ELSE IF buf.round + 1 < 100 THEN "inflate" ELSE "done"
  /\ UNCHANGED <<data, key, stored, header, guess, flags, reads, result>>

\* The checksum of what came out; that of the data stands for the data itself.
Checksum ==
  /\ pc = "crc"
  /\ result' = IF buf.used = flags[4] THEN [error |-> FALSE, data |-> buf.used] ELSE Failed
  /\ pc' = "done"
  /\ UNCHANGED <<data, key, stored, header, guess, flags, buf, reads>>

CryptNext ==
  \/ Encrypt \/ EncodeFails \/ Decrypt
  \/ Crash \/ NotOk \/ Copy \/ Decode \/ Inflate \/ Checksum

CryptSpec == CryptInit /\ [][CryptNext]_cryptVars

================================================================================
