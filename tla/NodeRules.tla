----------------------------- MODULE NodeRules ------------------------------
(***************************************************************************)
(* How the nodes see what the pool hands them: what a chain takes for an   *)
(* address of its own, how a block's bytes are read, and what is checked   *)
(* of the coinbase's height and of an aux block's proof (CAuxPow::check).  *)
(* None of it is in the repository: it is what the known answers of its    *)
(* tests come from, and the reference for the bytes it writes.             *)
(*                                                                         *)
(* A reader is a function of the bytes there are: it gives the item it     *)
(* read and the rest of them.                                              *)
(***************************************************************************)
EXTENDS Encoding

ChainOf(a) ==
  IF \/ a.form = "base58" /\ a.len = 21 /\ a.version \in {48, 50, 5}
     \/ a.form = "segwit" /\ a.hrp = "ltc" /\ a.version \in 0..16 /\ a.len \in 2..40
        /\ (a.version = 0 => a.len \in {20, 32})
  THEN "ltc"
  ELSE IF a.form = "base58" /\ a.len = 21 /\ a.version \in {30, 22} THEN "doge" ELSE "none"

----------------------------------------------------------------------------
(* How the deserializers take things from the front of bytes.              *)
Bytes == Seq(Byte)
Taken(bytes, n) == SubSeq(bytes, 1, n)
Split(item, bytes, used) == [item |-> item, rest |-> SubSeq(bytes, used + 1, Len(bytes))]

ReadNothing == [bytes \in Bytes |-> Split(<<>>, bytes, 0)]
ReadNumber(n) == [bytes \in Bytes |-> Split(Number(Taken(bytes, n)), bytes, n)]
ReadBytes(n) == [bytes \in Bytes |-> Split(Taken(bytes, n), bytes, n)]
ReadVarint ==
  [bytes \in Bytes |->
     IF bytes[1] <= 252 THEN Split(bytes[1], bytes, 1)
     ELSE IF bytes[1] = 253 THEN Split(Number(SubSeq(bytes, 2, 3)), bytes, 3)
     ELSE Split(Number(SubSeq(bytes, 2, 5)), bytes, 5)]
ReadString == [bytes \in Bytes |-> LET n == ReadVarint[bytes] IN ReadBytes(n.item)[n.rest]]

(* The same again and again, and fields, named, one after the other.       *)
Then(got, next) == [item |-> Append(got.item, next.item), rest |-> next.rest]
ThenField(got, name, next) ==
  [item |-> [x \in DOMAIN got.item \union {name} |-> IF x = name THEN next.item ELSE got.item[x]],
   rest |-> next.rest]
ReadMany(read) ==
  [bytes \in Bytes |->
     LET n == ReadVarint[bytes]
         got[k \in 0..n.item] ==
           IF k = 0 THEN [item |-> <<>>, rest |-> n.rest]
           ELSE LET before == got[k - 1] IN Then(before, read[before.rest])
     IN  got[n.item]]
ReadFields(fields) ==
  [bytes \in Bytes |->
     LET got[k \in 0..Len(fields)] ==
           IF k = 0 THEN [item |-> <<>>, rest |-> bytes]
           ELSE LET before == got[k - 1]
                IN  ThenField(before, fields[k][1], fields[k][2][before.rest])
     IN  got[Len(fields)]]

ReadHeader ==
  ReadFields(<< <<"version", ReadNumber(4)>>, <<"prev", ReadBytes(HashLen)>>,
                <<"root", ReadBytes(HashLen)>>, <<"time", ReadNumber(4)>>,
                <<"bits", ReadNumber(4)>>, <<"nonce", ReadNumber(4)>> >>)
ReadInput ==
  ReadFields(<< <<"prev", ReadBytes(HashLen + 4)>>, <<"script", ReadString>>,
                <<"sequence", ReadBytes(4)>> >>)
ReadOutput == ReadFields(<< <<"value", ReadNumber(8)>>, <<"script", ReadString>> >>)

(* A transaction with a witness has no inputs where its inputs should be.  *)
ReadTxAs(marker, witness) ==
  ReadFields(<< <<"version", ReadNumber(4)>>, <<"marker", marker>>,
                <<"inputs", ReadMany(ReadInput)>>, <<"outputs", ReadMany(ReadOutput)>>,
                <<"witness", witness>>, <<"locktime", ReadNumber(4)>> >>)
ReadTx ==
  [bytes \in Bytes |->
     IF bytes[5] = 0 THEN ReadTxAs(ReadBytes(2), ReadMany(ReadString))[bytes]
     ELSE ReadTxAs(ReadNothing, ReadNothing)[bytes]]

ReadProof ==
  ReadFields(<< <<"coinbase", ReadTx>>, <<"hash", ReadBytes(HashLen)>>,
                <<"branch", ReadMany(ReadBytes(HashLen))>>, <<"zero", ReadNumber(4)>>,
                <<"chain", ReadMany(ReadBytes(HashLen))>>, <<"index", ReadNumber(4)>>,
                <<"parent", ReadHeader>> >>)

(* A block with the flag of merged mining in its version has a proof.      *)
ReadBlockAs(proof) ==
  ReadFields(<< <<"header", ReadHeader>>, <<"proof", proof>>, <<"txs", ReadMany(ReadTx)>> >>)
ReadBlock(bytes) ==
  LET merged == (Number(Taken(bytes, 4)) \div 256) % 2 = 1
      read   == ReadBlockAs(IF merged THEN ReadProof ELSE ReadNothing)[bytes]
  IN  [header |-> read.item.header, hash |-> Digest(Taken(bytes, 80)),
       proof |-> read.item.proof, txs |-> read.item.txs, payload |-> read.rest]

(* The id of a transaction: the digest of it without its witness.          *)
Txid(tx) ==
  LET Input(i) == tx.inputs[i].prev \o Varint(Len(tx.inputs[i].script)) \o tx.inputs[i].script
                  \o tx.inputs[i].sequence
      Output(i) == Le(tx.outputs[i].value, 8) \o Varint(Len(tx.outputs[i].script))
                   \o tx.outputs[i].script
  IN  Digest(Le(tx.version, 4)
             \o Varint(Len(tx.inputs)) \o FlattenSeq([i \in DOMAIN tx.inputs |-> Input(i)])
             \o Varint(Len(tx.outputs)) \o FlattenSeq([i \in DOMAIN tx.outputs |-> Output(i)])
             \o Le(tx.locktime, 4))

----------------------------------------------------------------------------
(* CScriptNum(script's first push), and what CScript() << height writes.   *)
FirstNumber(script) ==
  IF script[1] \in 81..96 THEN script[1] - 80
  ELSE LET bytes == SubSeq(script, 2, script[1] + 1)
       IN  IF Last(bytes) >= 128 THEN -1 ELSE Number(bytes)
Minimal(script) ==
  \/ script[1] \in 81..96
  \/ /\ script[1] <= 5 /\ FirstNumber(script) > 16
     /\ LET bytes == SubSeq(script, 2, script[1] + 1)
        IN  Last(bytes) = 0 => Len(bytes) > 1 /\ bytes[Len(bytes) - 1] >= 128

(* ComputeMerkleRoot, from the ids of all transactions of a block.         *)
BlockRoot(ids) ==
  LET Parents(level) ==
        LET n == Len(level)
        IN  [i \in 1..((n + 1) \div 2) |->
               Digest(level[2 * i - 1] \o level[IF 2 * i <= n THEN 2 * i ELSE n])]
      level[k \in 0..Len(ids)] ==
        IF k = 0 THEN ids
        ELSE LET below == level[k - 1] IN IF Len(below) = 1 THEN below ELSE Parents(below)
  IN  level[Len(ids)][1]

CheckMerkleBranch(hash, branch, index) ==
  LET above[k \in 0..Len(branch)] ==
        IF k = 0 THEN [hash |-> hash, index |-> index]
        ELSE LET below == above[k - 1] IN
             [hash |-> Digest(IF below.index % 2 = 1 THEN branch[k] \o below.hash
                              ELSE below.hash \o branch[k]),
              index |-> below.index \div 2]
  IN  above[Len(branch)].hash

CommitmentMagic == <<250, 190, 109, 109>>
MagicAt(script) == {i \in 1..(Len(script) - 3) : SubSeq(script, i, i + 3) = CommitmentMagic}
AfterMagic(script) ==
  LET at == CHOOSE i \in MagicAt(script) : TRUE IN SubSeq(script, at + 4, Len(script))

(* getExpectedIndex, in a tree of 2^h leaves.                              *)
SlotOf(nonce, id, h) ==
  LET Stir(r) == ((r % 2^h) * (1103515245 % 2^h) + 12345) % 2^h IN Stir(Stir(nonce) + id)

(* The proof's coinbase is the first transaction under the parent's        *)
(* header, and commits, once, to a tree with the block in its chain's      *)
(* slot.                                                                   *)
CAuxPowCheck(block) ==
  LET p      == block.proof
      script == p.coinbase.inputs[1].script
      shown  == AfterMagic(script)
  IN  /\ p.zero = 0 /\ Cardinality(MagicAt(script)) = 1
      /\ CheckMerkleBranch(Txid(p.coinbase), p.branch, 0) = p.parent.root
      /\ CheckMerkleBranch(block.hash, p.chain, p.index) = Reverse(SubSeq(shown, 1, 32))
      /\ Number(SubSeq(shown, 33, 36)) = 2^Len(p.chain)
      /\ p.index = SlotOf(Number(SubSeq(shown, 37, 40)), block.header.version \div 65536, Len(p.chain))

----------------------------------------------------------------------------
(* SetCompact, most significant byte first: the mantissa in front of zeros *)
(* up to its size; what does not fit into 32 bytes overflows.              *)
Mantissa(bits) == Reverse(Le(bits % 2^24, 3))
Decoded(bits) ==
  Fill(0, HashLen) \o SubSeq(Mantissa(bits) \o Fill(0, 253), 1, bits \div 2^24)
TargetOf(bits) == SubSeq(Decoded(bits), Len(Decoded(bits)) - HashLen + 1, Len(Decoded(bits)))
Overflows(bits) ==
  \E i \in 1..(Len(Decoded(bits)) - HashLen) : Decoded(bits)[i] # 0
Negative(bits) == Mantissa(bits)[1] >= 128

(* CheckProofOfWork of a hash, most significant byte first.  (The node     *)
(* itself chose the bits, within its limit.)                               *)
AtMost(a, b) ==
  a = b \/ \E i \in DOMAIN a : a[i] < b[i] /\ SubSeq(a, 1, i - 1) = SubSeq(b, 1, i - 1)
CheckProofOfWork(hash, bits) ==
  /\ ~Negative(bits) /\ ~Overflows(bits)
  /\ TargetOf(bits) # ZeroHash
  /\ AtMost(hash, TargetOf(bits))
=============================================================================
