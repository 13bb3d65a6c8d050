------------------------------ MODULE Encoding ------------------------------
(***************************************************************************)
(* Bytes: the numbers, pushes and script numbers of                        *)
(* crates/alamo-core/src/encode.rs, and hashes.                            *)
(*                                                                         *)
(* A byte is a number below 256 and numbers stay below 2^31.  Digest takes *)
(* the place of double SHA-256: 32 bytes that depend on every byte given   *)
(* and on their order.  Nothing here rests on what it cannot do.           *)
(***************************************************************************)
EXTENDS Integers, FiniteSets, Sequences, SequencesExt

Byte == 0..255
HashLen == 32
Modulus == 8000009

Fill(byte, n) == [i \in 1..n |-> byte]
Le(n, width) == [i \in 1..width |-> IF i <= 4 THEN (n \div 256^(i - 1)) % 256 ELSE 0]
Number(bytes) ==
  LET value[k \in 0..Len(bytes)] ==
        IF k = 0 THEN 0 ELSE 256 * value[k - 1] + bytes[Len(bytes) + 1 - k]
  IN  value[Len(bytes)]

Digest(bytes) ==
  LET At(i)    == IF i <= Len(bytes) THEN bytes[i] ELSE 0
      Eight(i) == 2 * At(i) + 3 * At(i + 1) + 5 * At(i + 2) + 7 * At(i + 3)
                  + 11 * At(i + 4) + 13 * At(i + 5) + 17 * At(i + 6) + 19 * At(i + 7)
      rounds   == (Len(bytes) + 7) \div 8
      mixed[k \in 0..rounds] ==
        IF k = 0 THEN Len(bytes) ELSE (mixed[k - 1] * 241 + Eight(8 * k - 7)) % Modulus
      mix      == mixed[rounds]
  IN  [i \in 1..HashLen |-> (mix \div 256^((i - 1) % 3) + i) % 256]

ZeroHash == Fill(0, HashLen)

(* hash_pair of merkle.rs.                                                 *)
Pair(a, b) == Digest(a \o b)

Varint(n) ==
  IF n <= 252 THEN <<n>>
  ELSE IF n <= 65535 THEN <<253>> \o Le(n, 2) ELSE <<254>> \o Le(n, 4)

PushHeader(n) == IF n < 76 THEN <<n>> ELSE IF n <= 255 THEN <<76, n>> ELSE <<77>> \o Le(n, 2)
PushData(data) == PushHeader(Len(data)) \o data

(* script_num_bytes and push_script_num, for the positive numbers heights  *)
(* are: little-endian, with a free sign bit.                               *)
ByteLen(n) == 1 + Cardinality({w \in 1..3 : n >= 256^w})
UnsignedBytes(n) == Le(n, ByteLen(n))
ScriptNumBytes(n) == LET bytes == Le(n, ByteLen(n))
                     IN  IF Last(bytes) >= 128 THEN Append(bytes, 0) ELSE bytes
PushScriptNum(n) == IF n <= 16 THEN <<80 + n>> ELSE PushData(ScriptNumBytes(n))
=============================================================================
