--------------------------- MODULE BlockBuilding ----------------------------
(***************************************************************************)
(* From a miner's user name and a block template to the bytes of found     *)
(* blocks: Session::authorize resolves whom the blocks pay (Addresses),    *)
(* convert (alamo-coins/src/template.rs) starts the coinbase's scriptSig,  *)
(* send_job builds the aux blocks, searches their tree (AuxTree) and       *)
(* commits to it in the parent's coinbase (Coinbase), and validate puts    *)
(* the blocks together of the chains whose target a share meets (Targets). *)
(* What is checked of them is what the nodes then read (NodeRules).        *)
(*                                                                         *)
(* Every aux chain is one of Dogecoin's address format; its template has   *)
(* the parent's height and tag and two transactions.                       *)
(***************************************************************************)
EXTENDS Addresses, Coinbase, NodeRules, Targets, AuxTree

CONSTANTS Versions,   \* base58 version bytes that occur
          MaxTokens,  \* bound on the tokens of a password
          IdBits,     \* a chain id is a number of so many bits
          MaxChains,  \* bound on the aux chains
          NonceTries, \* nonces tried at each height of the tree: 64 in the code
          MaxHeight,  \* MAX_CHAIN_BRANCH_LEN: 30 in the code
          Heights,    \* block heights
          TagSizes,   \* sizes of coinbase tags
          TxCounts,   \* numbers of transactions in the parent's template
          Bits,       \* compact targets the nodes ask for, within their limits
          Units,      \* stratum difficulties in units of 2^-16,
          MaxShift    \* and these times 256, up to so many times

MaxBits == 2147483647
EasyBits == 545259519   \* 0x207fffff

ASSUME BuildingAssumption ==
  /\ Versions \subseteq Byte /\ MaxTokens \in Nat
  /\ IdBits \in 2..MaxHeight /\ MaxHeight \in 0..30
  /\ MaxChains \in 0..PowerOf2(IdBits) /\ NonceTries \in Nat \ {0}
  /\ Heights \subseteq Nat \ {0} /\ TagSizes \subseteq Nat /\ TxCounts \subseteq Nat
  /\ EasyBits \in Bits /\ Bits \subseteq 1..MaxBits /\ Units \subseteq Nat /\ MaxShift \in Nat
  /\ \A bits \in Bits : ~Negative(bits) /\ ~Overflows(bits) /\ TargetOf(bits) # ZeroHash

VARIABLES
  given,  \* what the miner, the node and the settings give
  payout, \* the session's Payouts: a sequence of one, once authorized
  prefix, \* coinbase_script_prefix, <<>> until there is work
  stage,  \* "waiting", "searching", "committed", "job", "found", "low", or how it failed
  height, \* of the tree being tried
  nonce,  \* the nonce being tried
  job,    \* the parent's CoinbaseParts and the AuxTree: the SessionJob
  blocks  \* the bytes handed to the nodes, the parent's first: <<>> is no block

buildVars == <<given, payout, prefix, stage, height, nonce, job, blocks>>

----------------------------------------------------------------------------
Users ==
  {Base58(v, len) : v \in Versions, len \in {21, 22}}
  \union {Segwit(hrp, v, len) : hrp \in {"ltc", "bc"}, v \in {0, 1, 17}, len \in {1, 20, 32, 33, 41}}
  \union {Junk}
Tokens == [key : {"bare", "doge", "DOGE", "ltc"}, value : {Base58(v, 21) : v \in Versions} \union {Junk}]
Passwords(max) == UNION {[1..n -> Tokens] : n \in 0..max}
Ids == 0..(PowerOf2(IdBits) - 1)
Payloads == {<<>>, <<1, 66, 67>>}

Plain == [user |-> LtcFallback, tokens |-> <<>>, ids |-> <<2>>, height |-> 2900000, tag |-> 7,
          witness |-> TRUE, txs |-> 3, payload |-> <<>>,
          bits |-> EasyBits, auxBits |-> EasyBits, difficulty |-> Difficulty(2^16, 0), pow |-> Fill(0, HashLen)]

(* The tag settings.rs lets an operator choose.                            *)
TagBudget(merging) == MaxScript - 5 - 1 - 8 - (IF merging THEN 1 + 44 ELSE 0)

(* One aspect is varied at a time.                                         *)
Miner(u, p) == [Plain EXCEPT !.user = u, !.tokens = p]
Merging(ids) == [Plain EXCEPT !.ids = ids]
Carrying(txs) == [Plain EXCEPT !.txs = txs]
Template(ids, h, tag, witness, p) ==
  [Plain EXCEPT !.ids = ids, !.height = h, !.tag = tag, !.witness = witness, !.payload = p]
Share(bits, auxBits, d, hash) ==
  [Plain EXCEPT !.bits = bits, !.auxBits = auxBits, !.difficulty = d, !.pow = hash]

Miners == {Miner(u, p) : u \in Users, p \in Passwords(1)}
          \union {Miner(LtcFallback, p) : p \in Passwords(MaxTokens)}
Chains == {Merging(s) : s \in {s \in UNION {[1..n -> Ids] : n \in 0..MaxChains} : IsInjective(s)}}
Templates == {Template(s, h, t, w, p) : s \in {<<>>, <<2>>}, h \in Heights, t \in TagSizes,
                                        w \in BOOLEAN, p \in Payloads}
             \union {Carrying(n) : n \in TxCounts}

(* Hashes at a target: the target, the next above and below, and the       *)
(* target back to front.                                                   *)
FirstNot(byte, target) ==
  CHOOSE i \in 1..HashLen : target[i] # byte /\ \A j \in 1..(i - 1) : target[j] = byte
Carried(target, i, byte, step) ==
  [j \in 1..HashLen |-> IF j < i THEN byte ELSE IF j = i THEN target[j] + step ELSE target[j]]
HashesAt(target) ==
  {target, Reverse(target), Carried(target, FirstNot(255, target), 0, 1),
   Carried(target, FirstNot(0, target), 255, -1)}
HashesNear(bits, difficulty) ==
  HashesAt(Reverse(TargetOf(bits))) \union HashesAt(ShareTarget(difficulty))
Difficulties == {Difficulty(u, k) : u \in Units, k \in 0..MaxShift}
Shares == UNION {{Share(b, a, d, hash) : a \in Bits, hash \in HashesNear(b, d)} :
                   b \in Bits, d \in Difficulties}

BuildInit ==
  /\ given \in Miners \union Chains \union Templates \union Shares
  /\ given.tag <= TagBudget(given.ids # <<>>)
  /\ payout = <<>> /\ prefix = <<>> /\ stage = "waiting"
  /\ height = StartHeight(given.ids) /\ nonce = 0
  /\ job = <<>> /\ blocks = <<>>

----------------------------------------------------------------------------
(* Session::authorize resolves both once.                                  *)
Authorize ==
  /\ payout = <<>>
  /\ payout' = <<Resolve(given.user, given.tokens)>>
  /\ UNCHANGED <<given, prefix, stage, height, nonce, job, blocks>>

(* convert: the node's template becomes work.  A template with a field     *)
(* that is not hex fails the poll that fetched it (TemplateSource).        *)
Convert ==
  /\ prefix = <<>>
  /\ prefix' = PushScriptNum(given.height)
               \o (IF given.tag = 0 THEN <<>> ELSE PushData(Fill(65, given.tag)))
  /\ UNCHANGED <<given, payout, stage, height, nonce, job, blocks>>

(* A node shows hashes back to front, and from_display_hex turns them.     *)
BackToFront(hash) == [i \in 1..HashLen |-> hash[HashLen + 1 - i]]
Shown(hash) == BackToFront(hash)
FromDisplayHex(shown) == BackToFront(shown)

(* The templates' transactions, as their nodes serialized them.            *)
Tx(k) == Le(2, 4) \o <<1>> \o Fill(k % 256, 36) \o Varint(1) \o <<5>> \o Fill(255, 4)
         \o <<1>> \o Le(k, 8) \o Varint(2) \o <<81, 82>> \o Le(0, 4)
TxData(n) == [k \in 1..n |-> Tx(k)]
Branch(n) == CoinbaseBranch([k \in 1..n |-> FromDisplayHex(Shown(Digest(Tx(k))))])

(* The hash of the tip that a block of this version builds on.             *)
TipHash(version) == Digest(<<version % 256>>)

BlockHeader(version, coinbase, txs, bits, solution) ==
  [version |-> version, prev |-> FromDisplayHex(Shown(TipHash(version))),
   root |-> RootFromBranch(Digest(coinbase), Branch(txs)),
   time |-> 1700000000, bits |-> bits, nonce |-> solution]

(* The aux blocks of build_aux_jobs: their headers are never mined         *)
(* themselves, so their coinbases have no extranonce.  The node's version  *)
(* already has bits above those that aux_block_version keeps.              *)
AuxTxs == 2
AuxTemplateVersion == 6422532   \* 0x00620004
AuxParts == Parts(prefix, payout[1].aux.script, FALSE, <<>>, 0)
AuxCoinbase == Serialize(AuxParts, <<>>)
AuxHeader(i) == BlockHeader(AuxVersion(AuxTemplateVersion, given.ids[i]), AuxCoinbase, AuxTxs, given.auxBits, 0)
AuxIds == [i \in DOMAIN given.ids |-> ChainIdOf(AuxHeader(i).version)]
AuxHashes == [i \in DOMAIN given.ids |-> BlockHash(AuxHeader(i))]

StartJob ==
  /\ stage = "waiting" /\ payout # <<>> /\ prefix # <<>>
  /\ stage' = IF given.ids = <<>> THEN "committed"
              ELSE IF AuxParts.fits THEN "searching" ELSE "closed"
  /\ UNCHANGED <<given, payout, prefix, height, nonce, job, blocks>>

(* AuxTree::build.                                                         *)
TooTall(h) == h > MaxHeight

TryNextNonce ==
  /\ stage = "searching" /\ nonce < NonceTries
  /\ ~Distinct(AuxIds, nonce, height)
  /\ nonce' = nonce + 1
  /\ UNCHANGED <<given, payout, prefix, stage, height, job, blocks>>

Widen ==
  /\ stage = "searching" /\ nonce = NonceTries
  /\ height' = height + 1 /\ nonce' = 0
  /\ stage' = IF TooTall(height') THEN "TooMany" ELSE stage
  /\ UNCHANGED <<given, payout, prefix, job, blocks>>

Build ==
  /\ stage = "searching" /\ nonce < NonceTries
  /\ Distinct(AuxIds, nonce, height)
  /\ stage' = "committed"
  /\ UNCHANGED <<given, payout, prefix, height, nonce, job, blocks>>

(* The rest of send_job: a coinbase that does not fit closes the session.  *)
Extranonce == <<1, 2, 3, 4, 250, 190, 109, 200>>
SendJob ==
  /\ stage = "committed"
  /\ LET tree == Tree(AuxIds, AuxHashes, nonce, height)
         commitment == IF given.ids = <<>> THEN <<>> ELSE Commitment(tree)
         parts == Parts(prefix, payout[1].parent.script, given.witness, commitment, Len(Extranonce))
     IN  /\ stage' = IF parts.fits THEN "job" ELSE "closed"
         /\ job' = [parts |-> parts, proofs |-> IF given.ids = <<>> THEN <<>> ELSE tree.proofs]
  /\ UNCHANGED <<given, payout, prefix, height, nonce, blocks>>

(* validate: a share with this extranonce and the hash given.pow.  No aux  *)
(* block of the job is stale: that is in Session.                          *)
CoinbaseOfBlock == SerializeForBlock(job.parts, Extranonce)
ProvenCoinbase == Serialize(job.parts, Extranonce)
ParentVersion == 536870912
ParentHeader == BlockHeader(ParentVersion, Serialize(job.parts, Extranonce), given.txs, given.bits, 77)
ParentBlock ==
  AssembleBlock(ParentHeader, <<>>, CoinbaseOfBlock, TxData(given.txs), given.payload)
AuxBlock(i) ==
  LET proof == [coinbase |-> ProvenCoinbase, branch |-> Branch(given.txs),
                chain |-> job.proofs[i].branch, index |-> job.proofs[i].index,
                parent |-> ParentHeader]
  IN  AssembleBlock(AuxHeader(i), WriteAuxPow(proof), AuxCoinbase, TxData(AuxTxs), <<>>)

Target(i) == FromCompact(IF i = 1 THEN given.bits ELSE given.auxBits)
Candidate(i) == IF ~IsMetBy(Target(i), given.pow) THEN <<>>
                ELSE IF i = 1 THEN ParentBlock ELSE AuxBlock(i - 1)

Validate ==
  /\ stage = "job"
  /\ IF IsMetBy(ShareTarget(given.difficulty), given.pow)
     THEN stage' = "found" /\ blocks' = [i \in 1..(1 + Len(given.ids)) |-> Candidate(i)]
     ELSE stage' = "low" /\ UNCHANGED blocks
  /\ UNCHANGED <<given, payout, prefix, height, nonce, job>>

BuildNext == Authorize \/ Convert \/ StartJob \/ TryNextNonce \/ Widen \/ Build
        \/ SendJob \/ Validate

BuildSpec == BuildInit /\ [][BuildNext]_buildVars

----------------------------------------------------------------------------
(* What goes to miners and nodes is bytes, and the search stays within its *)
(* bounds (CoinbaseParts and AuxTree::build).                              *)
BuildTypeOK ==
  /\ payout # <<>> => payout[1].parent.script \in Seq(Byte) \ {<<>>}
                      /\ payout[1].aux.script \in Seq(Byte) \ {<<>>}
  /\ stage \in {"waiting", "searching", "committed", "job", "found", "low", "closed", "TooMany"}
  /\ height \in 0..(MaxHeight + 1) /\ nonce \in 0..NonceTries
  /\ prefix \in Seq(Byte) /\ blocks \in Seq(Seq(Byte))
  /\ stage \in {"job", "found"} => job.parts.coinb1 \in Seq(Byte) /\ job.parts.coinb2 \in Seq(Byte)

(* No reward goes to an address of another chain, or to a witness program  *)
(* nobody can spend from (payout_script, address.rs).                      *)
PaysOwnChain ==
  payout # <<>> => ChainOf(payout[1].parent.address) = "ltc" /\ ChainOf(payout[1].aux.address) = "doge"

(* The fallback is paid only when the miner gave no address to pay, and an *)
(* address under another chain's key, or anything else in the password,    *)
(* does not change whom the aux chain pays (PayoutSet::resolve).           *)
MinersAreHeard ==
  payout # <<>> =>
    LET meant == {i \in DOMAIN given.tokens : KeyFits(given.tokens[i])
                                             /\ ChainOf(given.tokens[i].value) = "doge"}
    IN
    /\ payout[1].parent.fallback <=> ChainOf(given.user) # "ltc"
    /\ payout[1].aux.fallback <=> meant = {}
    /\ \A i \in meant : (\A j \in meant : i <= j) => payout[1].aux.address = given.tokens[i].value

(* A reward goes where the miner meant it to go, and nowhere else.         *)
RewardsAreMeant == PaysOwnChain /\ MinersAreHeard

(* A tree is always found for different chain ids, so that the expect of   *)
(* session.rs 435 never takes the connection down.                         *)
TreeIsFound == stage # "TooMany"

(* The first transaction of a block the nodes read is the coinbase, with a *)
(* scriptSig and a payout, and the rest are the template's.                *)
PaysOut(read, script, payee, witness) ==
  LET tx == read.txs[1] IN
  /\ tx.version = 1 /\ tx.locktime = 0
  /\ tx.inputs = <<[prev |-> NullPrevout, script |-> script, sequence |-> Fill(255, 4)]>>
  /\ tx.outputs[1] = [value |-> CoinbaseValue, script |-> payee]
  /\ Tail(tx.outputs) = IF witness THEN <<[value |-> 0, script |-> WitnessCommitment]>> ELSE <<>>
  /\ tx.witness = IF witness THEN <<Fill(0, 32)>> ELSE <<>>
CarriesTxs(read, n) == /\ Len(read.txs) = 1 + n
                       /\ \A k \in 1..n : read.txs[k + 1] = ReadTx[Tx(k)].item

Submitted == {i \in DOMAIN blocks : blocks[i] # <<>>}

(* The parent's node reads the found block to its end as the header that   *)
(* was hashed, the coinbase the miner filled in, paying the worker, with   *)
(* the witness reserved value exactly when there is a commitment, the      *)
(* template's transactions and the extension block (serialize_for_block,   *)
(* assemble_block).                                                        *)
ParentBlockReads(read) ==
  LET script == read.txs[1].inputs[1].script IN
  /\ read.header = ParentHeader /\ read.header.prev = TipHash(ParentVersion)
  /\ read.payload = given.payload
  /\ PaysOut(read, script, payout[1].parent.script, given.witness)
  /\ SubSeq(script, 1, Len(prefix)) = prefix
  /\ SubSeq(script, Len(script) - Len(Extranonce) + 1, Len(script)) = Extranonce
  /\ CarriesTxs(read, given.txs)

(* The coinbase's scriptSig is as long as consensus allows and starts with *)
(* the height as the node itself writes it (BIP34; push_script_num).  Only *)
(* that of an aux block is too short: at heights to 16 without a tag.      *)
HeightReads(i, read) ==
  LET script == read.txs[1].inputs[1].script IN
  /\ Len(script) <= 100
  /\ Len(script) >= 2 \/ (i > 1 /\ given.tag = 0 /\ given.height <= 16)
  /\ FirstNumber(script) = given.height /\ Minimal(script)

(* The merkle root the miner worked on, from the branch sent in its job,   *)
(* is the root over all transactions of the block the pool submits, and so *)
(* it is for the aux blocks (merkle.rs 12-41, 76).                         *)
HeaderMatchesBlock(read) ==
  read.header.root = BlockRoot([k \in DOMAIN read.txs |-> Txid(read.txs[k])])

(* An aux chain's node reads its block to the end, paying the worker; the  *)
(* proof holds the parent's header and its coinbase as it is hashed,       *)
(* without a witness (validate.rs 102).                                    *)
AuxBlockReads(i, read) ==
  /\ read.header = AuxHeader(i - 1) /\ read.header.prev = TipHash(AuxHeader(i - 1).version)
  /\ read.payload = <<>>
  /\ PaysOut(read, prefix, payout[1].aux.script, FALSE)
  /\ CarriesTxs(read, AuxTxs)
  /\ read.proof.parent = ParentHeader /\ read.proof.hash = BlockHash(ParentHeader)
  /\ read.proof.coinbase = [ReadTx[CoinbaseOfBlock].item EXCEPT !.marker = <<>>, !.witness = <<>>]

(* Every node reads the block submitted to it as what was mined: header,   *)
(* height, merkle root, coinbase, transactions and extension block.        *)
BlocksReadBack ==
  \A i \in Submitted :
    LET read == ReadBlock(blocks[i]) IN
    /\ IF i = 1 THEN ParentBlockReads(read) ELSE AuxBlockReads(i, read)
    /\ HeightReads(i, read) /\ HeaderMatchesBlock(read)

(* The node of every aux chain accepts the proof of the same parent block, *)
(* whatever the chains' ids, their number and the parent's transactions    *)
(* are: the pool writes proofs and never reads one back (auxpow.rs 225).   *)
EveryNodeAccepts == \A i \in Submitted \ {1} : CAuxPowCheck(ReadBlock(blocks[i]))

(* A commitment is found for every set of aux chains, and every node       *)
(* accepts its proof.                                                      *)
ProofsAreAccepted == TreeIsFound /\ EveryNodeAccepts

(* A block is submitted only to a node that takes its hash for a proof of  *)
(* work under the bits it reads; and every hash that is one is submitted,  *)
(* unless the chain is easier than the shares the miner was asked for      *)
(* (validate.rs 74 turns a share down before it looks at the chains).      *)
SolutionsAreSubmitted ==
  /\ \A i \in Submitted : CheckProofOfWork(Reverse(given.pow), ReadBlock(blocks[i]).header.bits)
  /\ stage \in {"found", "low"} =>
       \A i \in 1..(1 + Len(given.ids)) :
         LET bits == IF i = 1 THEN given.bits ELSE given.auxBits IN
         /\ AtMost(TargetOf(bits), Reverse(ShareTarget(given.difficulty)))
         /\ CheckProofOfWork(Reverse(given.pow), bits)
         => i \in Submitted

=============================================================================
