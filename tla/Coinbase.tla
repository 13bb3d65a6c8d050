------------------------------ MODULE Coinbase ------------------------------
(***************************************************************************)
(* The bytes of a block: the coinbase, which CoinbaseParts                 *)
(* (crates/alamo-core/src/coinbase.rs) splits around the extranonce, the   *)
(* header (header.rs), the commitment to an aux tree and the proof of an   *)
(* aux block (AuxTree::commitment and AuxPow, auxpow.rs), and the block    *)
(* put together of them (assemble_block, work.rs).                         *)
(***************************************************************************)
EXTENDS Encoding

MaxScript == 100
NullPrevout == Fill(0, HashLen) \o Fill(255, 4)
CoinbaseValue == 1250000000
WitnessCommitment == <<106, 36, 170, 33, 169, 237>> \o Digest(<<1>>)

PushedLen(commitment) == IF commitment = <<>> THEN 0 ELSE 1 + Len(commitment)

(* CoinbaseParts::build: fits is false for either of its errors.           *)
Parts(prefix, payout, witness, commitment, extranonceLen) ==
  LET scriptLen == Len(prefix) + PushedLen(commitment) + extranonceLen IN
  [fits |-> payout # <<>> /\ scriptLen <= MaxScript,
   coinb1 |-> Le(1, 4) \o <<1>> \o NullPrevout \o Varint(scriptLen) \o prefix
              \o (IF commitment = <<>> THEN <<>> ELSE PushData(commitment)),
   coinb2 |-> Fill(255, 4) \o Varint(IF witness THEN 2 ELSE 1)
              \o Le(CoinbaseValue, 8) \o Varint(Len(payout)) \o payout
              \o (IF witness THEN Le(0, 8) \o Varint(Len(WitnessCommitment)) \o WitnessCommitment
                  ELSE <<>>)
              \o Le(0, 4),
   witness |-> witness]

Serialize(parts, extranonce) == parts.coinb1 \o extranonce \o parts.coinb2

(* The witness goes before the last four bytes, the lock time.             *)
SerializeForBlock(parts, extranonce) ==
  LET bodyEnd == Len(parts.coinb2) - 4 IN
  IF ~parts.witness THEN Serialize(parts, extranonce)
  ELSE SubSeq(parts.coinb1, 1, 4) \o <<0, 1>> \o SubSeq(parts.coinb1, 5, Len(parts.coinb1))
       \o extranonce \o SubSeq(parts.coinb2, 1, bodyEnd)
       \o <<1>> \o PushData(Fill(0, 32))
       \o SubSeq(parts.coinb2, bodyEnd + 1, Len(parts.coinb2))

----------------------------------------------------------------------------
WriteHeader(h) == Le(h.version, 4) \o h.prev \o h.root \o Le(h.time, 4) \o Le(h.bits, 4)
                  \o Le(h.nonce, 4)
BlockHash(h) == Digest(WriteHeader(h))

(* aux_block_version and chain_id_of.                                      *)
AuxVersion(version, id) == id * 65536 + 256 + (version % 256)
ChainIdOf(version) == version \div 65536

Magic == <<250, 190, 109, 109>>
ShownRoot(root) == Reverse(root)
Commitment(tree) == Magic \o ShownRoot(tree.root) \o Le(tree.size, 4) \o Le(tree.nonce, 4)

WriteBranch(hashes) == Varint(Len(hashes)) \o FlattenSeq(hashes)
WriteAuxPow(p) ==
  p.coinbase \o BlockHash(p.parent) \o WriteBranch(p.branch) \o Le(0, 4)
  \o WriteBranch(p.chain) \o Le(p.index, 4) \o WriteHeader(p.parent)

AssembleBlock(header, auxpow, coinbase, txs, payload) ==
  WriteHeader(header) \o auxpow \o Varint(1 + Len(txs)) \o coinbase
  \o FlattenSeq(txs) \o payload
=============================================================================
