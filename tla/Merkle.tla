------------------------------- MODULE Merkle -------------------------------
(***************************************************************************)
(* The merkle trees of crates/alamo-core/src/merkle.rs, over any hash of   *)
(* pairs: the root of a tree, the branch from a leaf to it, and the branch *)
(* of a coinbase that is not known yet.                                    *)
(*                                                                         *)
(* A loop is a function of the number of its rounds, whose values are what *)
(* the loop's variables are then; when it has ended they stay.  A loop     *)
(* over the levels of a tree takes fewer rounds than the tree has leaves.  *)
(***************************************************************************)
EXTENDS Integers, Sequences

CONSTANT HashPair(_, _) \* hash_pair

Even(s) == IF Len(s) % 2 = 1 THEN Append(s, s[Len(s)]) ELSE s
PairsOf(s) == [i \in 1..(Len(s) \div 2) |-> HashPair(s[2 * i - 1], s[2 * i])]

MerkleRoot(hashes) ==
  LET level[k \in 0..Len(hashes)] ==
        IF k = 0 THEN hashes
        ELSE LET below == level[k - 1]
             IN  IF Len(below) = 1 THEN below ELSE PairsOf(Even(below))
  IN  level[Len(hashes)][1]

OwnLeaf(index) == index
Sibling(index) == IF index % 2 = 0 THEN index + 1 ELSE index - 1

(* The steps from the leaf at an index (from 0) to the root.               *)
BranchAt(hashes, index) ==
  LET loop[k \in 0..Len(hashes)] ==
        IF k = 0 THEN [level |-> hashes, index |-> index, steps |-> <<>>]
        ELSE LET before == loop[k - 1]
                 even   == Even(before.level)
             IN  IF Len(before.level) = 1 THEN before
                 ELSE [level |-> PairsOf(even), index |-> before.index \div 2,
                       steps |-> Append(before.steps, even[Sibling(before.index) + 1])]
  IN  loop[Len(hashes)].steps

RootFromBranchAt(leaf, branch, index) ==
  LET loop[k \in 0..Len(branch)] ==
        IF k = 0 THEN [hash |-> leaf, index |-> index]
        ELSE LET before == loop[k - 1] IN
             [hash |-> IF before.index % 2 = 1 THEN HashPair(branch[k], before.hash)
                       ELSE HashPair(before.hash, branch[k]),
              index |-> before.index \div 2]
  IN  loop[Len(branch)].hash

(* The steps for the coinbase, from the other transactions alone: a level  *)
(* without its first leaf is filled up to an odd length.                   *)
Filled(rest) == IF Len(rest) % 2 = 0 THEN Append(rest, rest[Len(rest)]) ELSE rest

CoinbaseBranch(hashes) ==
  LET loop[k \in 0..Len(hashes)] ==
        IF k = 0 THEN [rest |-> hashes, steps |-> <<>>]
        ELSE LET before == loop[k - 1]
                 filled == Filled(before.rest)
             IN  IF before.rest = <<>> THEN before
                 ELSE [rest |-> PairsOf(Tail(filled)), steps |-> Append(before.steps, filled[1])]
  IN  loop[Len(hashes)].steps

RootFromBranch(leaf, branch) ==
  LET hash[k \in 0..Len(branch)] == IF k = 0 THEN leaf ELSE HashPair(hash[k - 1], branch[k])
  IN  hash[Len(branch)]
=============================================================================
