------------------------------- MODULE Targets ------------------------------
(***************************************************************************)
(* 256-bit proof-of-work targets (crates/alamo-core/src/target.rs): their  *)
(* compact encoding, the target of a stratum difficulty (algo.rs) and      *)
(* whether a hash meets one.  A target and a hash are 32 bytes, the least  *)
(* significant first, as a hash is in memory.                              *)
(***************************************************************************)
EXTENDS Encoding

(* from_compact: three bytes, without the sign, shifted so that size bytes *)
(* are in use; what is shifted out at either end is gone.                  *)
FromCompact(bits) ==
  LET size == bits \div 2^24
      word == Le(bits % 2^23, 3)
      From(i) == i + 3 - size
  IN  [i \in 1..HashLen |-> IF From(i) \in 1..3 THEN word[From(i)] ELSE 0]

DIFF1 == FromCompact(486604799)

\* Long division, of any number by any other.
Quotient(bytes, divisor) ==
  LET n == Len(bytes)
      rest[k \in 0..n] == IF k = 0 THEN 0 ELSE (rest[k - 1] * 256 + bytes[n + 1 - k]) % divisor
  IN  [i \in 1..n |-> (rest[n - i] * 256 + bytes[i]) \div divisor]

(* A stratum difficulty, in units of 2^-16: units * 256^shift of them.  A  *)
(* float is such a product too, and every number is one with shift 0.      *)
Difficulty(units, shift) == [units |-> units, shift |-> shift]

(* share_target, from_difficulty: DIFF1 * 2^32 divided by the difficulty * *)
(* 2^32, which for scrypt is the number of units of the stratum one,       *)
(* rounded down and at least 1.  To divide by 256^shift drops bytes.       *)
ShareTarget(difficulty) ==
  LET scaled == IF difficulty.units = 0 THEN Difficulty(1, 0) ELSE difficulty
      From(i) == i + scaled.shift - 4
  IN  Quotient([i \in 1..HashLen |-> IF From(i) \in 1..HashLen THEN DIFF1[From(i)] ELSE 0],
               scaled.units)

Below(a, b) == \E i \in 1..HashLen : a[i] < b[i] /\ \A j \in (i + 1)..HashLen : a[j] = b[j]

IsBeaten(target, hash) == Below(hash, target)
IsMetBy(target, hash) == hash = target \/ Below(hash, target)
=============================================================================
