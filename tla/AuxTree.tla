------------------------------ MODULE AuxTree ------------------------------
(***************************************************************************)
(* The merkle tree over the aux blocks (AuxTree in                         *)
(* crates/alamo-core/src/auxpow.rs), in which the slot of a chain is given *)
(* by its id and the tree's nonce.                                         *)
(*                                                                         *)
(* A slot is a number modulo the size of the tree, a power of two, which   *)
(* the wrapping 32-bit arithmetic of expected_index preserves.             *)
(***************************************************************************)
EXTENDS Merkle

CONSTANT NoHash \* of a slot no chain has: zeroes

PowerOf2(h) ==
  LET power[k \in 0..h] == IF k = 0 THEN 1 ELSE 2 * power[k - 1]
  IN  power[h]

(* The slot of the chain with a given id in a tree of that many leaves.    *)
Factor == 1103515245
Addend == 12345
Stirred(r, size) == ((r % size) * (Factor % size) + Addend) % size
ExpectedIndex(nonce, id, size) == Stirred(Stirred(nonce, size) + id, size)

Slots(ids, nonce, h) == [i \in DOMAIN ids |-> ExpectedIndex(nonce, ids[i], PowerOf2(h))]
Distinct(ids, nonce, h) ==
  LET slots == Slots(ids, nonce, h)
  IN  \A i, j \in DOMAIN ids : slots[i] = slots[j] => i = j

(* The smallest tree with a leaf for each chain.                           *)
StartHeight(ids) ==
  CHOOSE h \in 0..Len(ids) :
    PowerOf2(h) >= Len(ids) /\ \A g \in 0..(h - 1) : PowerOf2(g) < Len(ids)

(* The hash of an aux block is where its chain's slot is.                  *)
Leaves(ids, hashes, nonce, h) ==
  LET slots == Slots(ids, nonce, h) IN
  [k \in 1..PowerOf2(h) |->
     IF \E i \in DOMAIN ids : slots[i] = k - 1
     THEN hashes[CHOOSE i \in DOMAIN ids : slots[i] = k - 1]
     ELSE NoHash]

(* The tree a nonce and height make, with the proof of each chain.         *)
Tree(ids, hashes, nonce, h) ==
  LET leaves == Leaves(ids, hashes, nonce, h)
      slots  == Slots(ids, nonce, h)
  IN [root |-> MerkleRoot(leaves), size |-> PowerOf2(h), nonce |-> nonce,
      proofs |-> [i \in DOMAIN ids |->
                    [index |-> slots[i], branch |-> BranchAt(leaves, slots[i])]]]
=============================================================================
