---------------------------- MODULE Blocks_proofs ----------------------------
(***************************************************************************)
(* Proofs about found blocks.                                              *)
(*                                                                         *)
(* About Blocks: for any set of hashes, any of them found twice, any       *)
(* capacity of the channel, any maturity and any number of failures,       *)
(* restarts and reorganisations.                                           *)
(*                                                                         *)
(* About Merkle and AuxTree, after them: for any hash of pairs and any     *)
(* number of transactions and of aux chains.                               *)
(*                                                                         *)
(* About BlockBuilding, at the end: for any miners, chains, templates and  *)
(* shares.                                                                 *)
(***************************************************************************)
EXTENDS Blocks, BlockBuilding, TLAPS, SequenceTheorems, WellFoundedInduction,
        FiniteSetTheorems

-----------------------------------------------------------------------------
(* The inductive invariant, in named parts. *)

\* The history variables remember where the chain has had each block.
ChainIsRemembered == \A h \in Hashes :
  /\ chain[h] = Side     => h \in detached
  /\ chain[h] = Maturity => h \in matured

\* A verdict the submitter has yet to record is true of a block the node has.
AnswerIsTrue ==
  submitter.at = "answered" /\ submitter.answer = "accepted" => Knows(submitter.hash)

\* What the tracker read and has yet to write was true of the chain.
ReadingWasTrue ==
  tracker.at = "read" =>
    /\ Knows(tracker.hash)
    /\ tracker.confirmations = Side      => tracker.hash \in detached
    /\ tracker.confirmations >= Maturity => tracker.hash \in matured

\* Hash h waits in the channel.
Waits(h) == \E i \in 1 .. Len(queue) : queue[i] = h

\* The tracker's pass has yet to write h's row.
Walks(h) ==
  \/ tracker.at \in {"next", "read"} /\ h \in tracker.todo
  \/ tracker.at = "read" /\ tracker.hash = h

\* A hash found once is in one place: the channel, the submitter or the table; and the
\* tracker walks its row only while the row is open, and once a pass.
InOnePlace(h) ==
  /\ found[h] \in {0, 1}
  /\ found[h] = 0 => ~ Waits(h) /\ ~ Holds(h) /\ row[h] = NoBlock
  /\ \A i, j \in 1 .. Len(queue) : queue[i] = h /\ queue[j] = h => i = j
  /\ Waits(h) => ~ Holds(h) /\ row[h] = NoBlock
  /\ Holds(h) => row[h] = NoBlock
  /\ Walks(h) => row[h] = "accepted"
  /\ tracker.at = "read" /\ tracker.hash = h => h \notin tracker.todo

TableInv ==
  /\ TypeOK
  /\ ChainIsRemembered /\ AnswerIsTrue /\ ReadingWasTrue
  /\ VerdictsWereTrue /\ NothingUnrecorded

OnceInv ==
  /\ TypeOK
  /\ \A h \in Hashes \ Repeated : InOnePlace(h)
-----------------------------------------------------------------------------
(* Type correctness. *)

\* What the submitter's and the tracker's states are made of.
LEMMA SubmitterShape ==
  ASSUME TypeOK
  PROVE  \/ submitter = Idle /\ submitter.at = "idle"
         \/ /\ submitter.at = "calling" /\ submitter # Idle /\ submitter.hash \in Hashes
         \/ /\ submitter.at = "answered" /\ submitter # Idle /\ submitter.hash \in Hashes
            /\ submitter.answer \in Answers
  BY DEF TypeOK, SubmitterStates, Idle

LEMMA TrackerShape ==
  ASSUME TypeOK
  PROVE  \/ tracker = NoPass /\ tracker.at = "idle"
         \/ /\ tracker.at = "next" /\ tracker # NoPass
            /\ tracker.todo \in SUBSET Hashes /\ tracker.todo # {}
         \/ /\ tracker.at = "read" /\ tracker # NoPass
            /\ tracker.todo \in SUBSET Hashes /\ tracker.hash \in Hashes
            /\ tracker.confirmations \in Depths \cup {Side}
  BY DEF TypeOK, TrackerStates, NoPass

\* The values that actions build have their types.
LEMMA BuiltTypes ==
  /\ Idle \in SubmitterStates /\ NoPass \in TrackerStates
  /\ \A h \in Hashes : [at |-> "calling", hash |-> h] \in SubmitterStates
  /\ \A h \in Hashes, a \in Answers : Answered(h, a) \in SubmitterStates
  /\ \A todo \in SUBSET Hashes : AfterRow(todo) \in TrackerStates
  /\ \A c \in Int : Verdict(c) \in Statuses
  BY DEF SubmitterStates, TrackerStates, Answered, Answers, AfterRow, Verdict, Statuses

LEMMA InitType == Init => TypeOK
  <1> SUFFICES ASSUME Init PROVE TypeOK
    OBVIOUS
  <1>1. queue \in Seq(Hashes) /\ Len(queue) <= Capacity
    BY BlocksAssumption DEF Init
  <1>2. submitter \in SubmitterStates /\ tracker \in TrackerStates
    BY BuiltTypes DEF Init
  <1> QED
    BY <1>1, <1>2, BlocksAssumption DEF Init, TypeOK

LEMMA NextType == TypeOK /\ [Next]_vars => TypeOK'
  <1> SUFFICES ASSUME TypeOK, [Next]_vars PROVE TypeOK'
    OBVIOUS
  <1> USE BlocksAssumption, BuiltTypes DEF TypeOK
  <1>1. ASSUME NEW h \in Hashes, Find(h) PROVE TypeOK'
    BY <1>1 DEF Find, node, Copies
  <1>2. CASE Take
    BY <1>2, SubmitterShape DEF Take, node
  <1>3. CASE NodeAccepts
    <2>1. submitter.hash \in Hashes
      BY <1>3, SubmitterShape DEF NodeAccepts
    <2> QED
      BY <1>3, <2>1 DEF NodeAccepts, Depths, Answers
  <1>4. CASE NodeRefuses \/ CallFails
    <2>1. submitter.hash \in Hashes
      BY <1>4, SubmitterShape DEF NodeRefuses, CallFails
    <2>2. submitter' = Answered(submitter.hash, "rejected") /\ failures' \in 0 .. MaxFailures
      BY <1>4 DEF NodeRefuses, CallFails, OutcomeOfError
    <2> QED
      BY <1>4, <2>1, <2>2 DEF NodeRefuses, CallFails, node, Answers
  <1>5. CASE Record
    <2>1. submitter.hash \in Hashes /\ submitter.answer \in Answers
      BY <1>5, SubmitterShape DEF Record
    <2> QED
      BY <1>5, <2>1 DEF Record, Inserted, node, Answers, Statuses
  <1>6. CASE RecordFails
    <2>1. submitter.hash \in Hashes
      BY <1>6, SubmitterShape DEF RecordFails
    <2> QED
      BY <1>6, <2>1 DEF RecordFails, node
  <1>7. CASE StartPass
    <2>1. tracker' \in TrackerStates
      BY <1>7 DEF StartPass, Unsettled, TrackerStates
    <2> QED
      BY <1>7, <2>1 DEF StartPass, node
  <1>8. ASSUME NEW h \in Hashes, Check(h) PROVE TypeOK'
    <2>1. tracker.todo \ {h} \in SUBSET Hashes /\ chain[h] \in Depths \cup {Side}
      BY <1>8, TrackerShape DEF Check, Knows
    <2>2. tracker' \in TrackerStates
      BY <1>8, <2>1 DEF Check, Confirmations, TrackerStates
    <2> QED
      BY <1>8, <2>2 DEF Check, node
  <1>9. ASSUME NEW h \in Hashes, CheckFails(h) PROVE TypeOK'
    <2>1. tracker.todo \ {h} \in SUBSET Hashes
      BY <1>9, TrackerShape DEF CheckFails
    <2> QED
      BY <1>9, <2>1 DEF CheckFails, node
  <1>10. CASE SetStatus
    <2>1. /\ tracker.hash \in Hashes /\ tracker.todo \in SUBSET Hashes
          /\ tracker.confirmations \in Int
      BY <1>10, TrackerShape DEF SetStatus, Depths, Side
    <2> QED
      BY <1>10, <2>1 DEF SetStatus, node
  <1>11. CASE SetStatusFails
    BY <1>11 DEF SetStatusFails, node
  <1>12. CASE Shutdown
    BY <1>12 DEF Shutdown, ToSet, node
  <1>13. CASE Kill
    <2>1. (IF submitter = Idle THEN {} ELSE {submitter.hash}) \subseteq Hashes
      BY SubmitterShape
    <2> QED
      BY <1>13, <2>1 DEF Kill, ToSet, node
  <1>14. CASE Extend
    <2>1. \A h \in Hashes : Deeper(h) \in {Absent, Side} \cup Depths
      BY DEF Deeper, Depths
    <2> QED
      BY <1>14, <2>1 DEF Extend
  <1>15. ASSUME NEW h \in Hashes, Reorg(h) PROVE TypeOK'
    BY <1>15 DEF Reorg, Depths
  <1>16. CASE UNCHANGED vars
    BY <1>16 DEF vars, node
  <1> QED
    BY <1>1, <1>2, <1>3, <1>4, <1>5, <1>6, <1>7, <1>8, <1>9, <1>10, <1>11, <1>12, <1>13,
       <1>14, <1>15, <1>16
       DEF Next, Submitter, Tracker

\* The table, the channel, the submitter, the tracker and the history keep their types
\* (blocks.rs, pool.rs): a row has one of the four statuses, a pass walks known hashes.
THEOREM TypesKept == Spec => []TypeOK
  BY InitType, NextType, PTL DEF Spec
-----------------------------------------------------------------------------
(* Table and chain. *)

\* A step of the chain: what the node has it keeps, and the history sees every move.
LEMMA NodeStep ==
  ASSUME TypeOK, ChainIsRemembered, NodeAccepts \/ Extend \/ \E h \in Hashes : Reorg(h)
  PROVE  /\ ChainIsRemembered'
         /\ matured \subseteq matured' /\ detached \subseteq detached'
         /\ \A h \in Hashes : Knows(h) => Knows(h)'
  <1> USE BlocksAssumption DEF TypeOK, ChainIsRemembered, Knows, Absent, Side, Depths
  <1>1. CASE NodeAccepts
    <2>1. submitter.hash \in Hashes
      BY <1>1, SubmitterShape DEF NodeAccepts
    <2> QED
      BY <1>1, <2>1 DEF NodeAccepts
  <1>2. CASE Extend
    <2>1. \A h \in Hashes : /\ chain'[h] = Deeper(h)
                            /\ Deeper(h) = Maturity => h \in matured'
                            /\ Deeper(h) = Side => chain[h] = Side
                            /\ chain[h] # Absent => Deeper(h) # Absent
      BY <1>2 DEF Extend, Deeper
    <2>2. matured \subseteq matured' /\ detached' = detached
      BY <1>2 DEF Extend
    <2> QED
      BY <2>1, <2>2
  <1>3. ASSUME NEW h \in Hashes, Reorg(h)
        PROVE  /\ ChainIsRemembered'
               /\ matured \subseteq matured' /\ detached \subseteq detached'
               /\ \A k \in Hashes : Knows(k) => Knows(k)'
    <2>1. /\ chain' = [chain EXCEPT ![h] = chain'[h]]
          /\ chain'[h] \in {Side, 1}
          /\ chain'[h] = 1 => Maturity # 1
          /\ h \in detached' /\ detached \subseteq detached' /\ matured' = matured
      BY <1>3 DEF Reorg
    <2> QED
      BY <2>1
  <1> QED
    BY <1>1, <1>2, <1>3

\* A status the tracker writes was true when the tracker looked.
LEMMA VerdictMeans ==
  ASSUME NEW c \in Depths \cup {Side}
  PROVE  /\ Verdict(c) \in {"orphaned", "confirmed", "accepted"}
         /\ Verdict(c) = "orphaned"  => c = Side
         /\ Verdict(c) = "confirmed" => c >= Maturity
  BY BlocksAssumption DEF Verdict, Depths, Side

LEMMA InitTable == Init => TableInv
  <1> SUFFICES ASSUME Init PROVE TableInv
    OBVIOUS
  <1>1. TypeOK
    BY InitType
  <1>2. submitter.at = "idle" /\ tracker.at = "idle"
    BY DEF Init, Idle, NoPass
  <1> QED
    BY <1>1, <1>2, BlocksAssumption
       DEF Init, TableInv, ChainIsRemembered, AnswerIsTrue, ReadingWasTrue, VerdictsWereTrue,
           NothingUnrecorded, Knows, Absent, Side, NoBlock

LEMMA NextTable == TableInv /\ [Next]_vars => TableInv'
  <1> SUFFICES ASSUME TableInv, [Next]_vars PROVE TableInv'
    OBVIOUS
  <1>0. TypeOK /\ TypeOK'
    BY NextType DEF TableInv
  <1> USE <1>0, SubmitterShape, TrackerShape DEF TableInv
  <1> DEFINE PartsAfter == /\ ChainIsRemembered' /\ AnswerIsTrue' /\ ReadingWasTrue'
                      /\ VerdictsWereTrue' /\ NothingUnrecorded'
  <1>1. ASSUME UNCHANGED <<chain, matured, detached, row, tracker, submitter>>, lost' = lost
        PROVE  PartsAfter
    BY <1>1 DEF ChainIsRemembered, AnswerIsTrue, ReadingWasTrue, VerdictsWereTrue,
                NothingUnrecorded, Knows, Holds
  <1>2. CASE Take
    BY <1>2 DEF Take, node, ChainIsRemembered, AnswerIsTrue, ReadingWasTrue, VerdictsWereTrue,
                NothingUnrecorded, Knows, Holds
  <1>3. CASE NodeAccepts
    <2>1. /\ ChainIsRemembered' /\ matured \subseteq matured' /\ detached \subseteq detached'
          /\ \A h \in Hashes : Knows(h) => Knows(h)'
      BY <1>3, NodeStep
    <2>2. /\ submitter.hash \in Hashes /\ submitter' = Answered(submitter.hash, "accepted")
          /\ submitter'.hash = submitter.hash /\ submitter' # Idle
          /\ chain' = [chain EXCEPT ![submitter.hash] = 1]
          /\ UNCHANGED <<row, tracker, lost>>
      BY <1>3 DEF NodeAccepts, Answered, Idle
    <2>3. /\ chain'[submitter.hash] = 1
          /\ \A h \in Hashes \ {submitter.hash} : chain'[h] = chain[h]
      BY <2>2 DEF TypeOK
    <2>4. AnswerIsTrue' /\ ReadingWasTrue' /\ VerdictsWereTrue'
      BY <2>1, <2>2, <2>3 DEF AnswerIsTrue, ReadingWasTrue, VerdictsWereTrue, Knows, Absent
    <2>5. NothingUnrecorded'
      BY <1>3, <2>2, <2>3 DEF NothingUnrecorded, NodeAccepts, Knows, Holds
    <2> QED
      BY <2>1, <2>4, <2>5
  <1>4. CASE NodeRefuses \/ CallFails
    <2>1. /\ submitter' = Answered(submitter.hash, "rejected") /\ submitter # Idle
          /\ UNCHANGED <<row, tracker, lost, chain, matured, detached>>
      BY <1>4 DEF NodeRefuses, CallFails, OutcomeOfError, node, Idle
    <2> QED
      BY <2>1 DEF Answered, Idle, ChainIsRemembered, AnswerIsTrue, ReadingWasTrue,
                  VerdictsWereTrue, NothingUnrecorded, Knows, Holds
  <1>5. CASE Record
    <2>1. /\ submitter.at = "answered" /\ submitter' = Idle
          /\ row' = [row EXCEPT ![submitter.hash] = submitter.answer]
          /\ UNCHANGED <<tracker, lost, chain, matured, detached>>
      BY <1>5 DEF Record, Inserted, node
    <2> QED
      BY <2>1 DEF Idle, Answers, NoBlock, ChainIsRemembered, AnswerIsTrue, ReadingWasTrue,
                  VerdictsWereTrue, NothingUnrecorded, Knows, Holds, TypeOK
  <1>6. CASE RecordFails
    BY <1>6 DEF RecordFails, node, Idle, ChainIsRemembered, AnswerIsTrue, ReadingWasTrue,
                VerdictsWereTrue, NothingUnrecorded, Knows, Holds
  <1>7. CASE Tracker /\ ~ SetStatus
    <2>1. /\ UNCHANGED <<submitter, row, lost, chain, matured, detached>>
          /\ \/ tracker'.at # "read"
             \/ \E h \in Hashes : /\ Knows(h) /\ tracker'.at = "read" /\ tracker'.hash = h
                                  /\ tracker'.confirmations = chain[h]
      BY <1>7 DEF Tracker, StartPass, SetStatusFails, Check, CheckFails, AfterRow, NoPass,
                  Confirmations, node
    <2>2. \A h \in Hashes : Knows(h) /\ chain[h] >= Maturity => chain[h] = Maturity
      BY BlocksAssumption DEF TypeOK, Depths, Absent, Side, Knows
    <2>3. ReadingWasTrue'
      BY <2>1, <2>2 DEF ReadingWasTrue, ChainIsRemembered, Knows
    <2> QED
      BY <2>1, <2>3 DEF ChainIsRemembered, AnswerIsTrue, VerdictsWereTrue, NothingUnrecorded,
                        Knows, Holds
  <1>8. CASE SetStatus
    <2>1. /\ tracker.at = "read" /\ tracker'.at # "read"
          /\ row' = [row EXCEPT ![tracker.hash] = Verdict(tracker.confirmations)]
          /\ UNCHANGED <<submitter, lost, chain, matured, detached>>
      BY <1>8 DEF SetStatus, AfterRow, NoPass, node
    <2>2. /\ tracker.hash \in Hashes /\ Knows(tracker.hash)
          /\ Verdict(tracker.confirmations) \in {"orphaned", "confirmed", "accepted"}
          /\ Verdict(tracker.confirmations) = "orphaned"  => tracker.hash \in detached
          /\ Verdict(tracker.confirmations) = "confirmed" => tracker.hash \in matured
      BY <2>1, VerdictMeans DEF ReadingWasTrue
    <2> QED
      BY <2>1, <2>2 DEF ChainIsRemembered, AnswerIsTrue, ReadingWasTrue, VerdictsWereTrue,
                        NothingUnrecorded, Knows, Holds, TypeOK, NoBlock
  <1>9. CASE Shutdown
    BY <1>9 DEF Shutdown, node, ChainIsRemembered, AnswerIsTrue, ReadingWasTrue,
                VerdictsWereTrue, NothingUnrecorded, Knows, Holds
  <1>10. CASE Kill
    <2>1. /\ lost \subseteq lost' /\ \A h \in Hashes : Holds(h) => h \in lost'
          /\ submitter' = Idle /\ tracker' = NoPass
          /\ UNCHANGED <<row, chain, matured, detached>>
      BY <1>10 DEF Kill, node, Holds
    <2> QED
      BY <2>1 DEF Idle, NoPass, ChainIsRemembered, AnswerIsTrue, ReadingWasTrue,
                  VerdictsWereTrue, NothingUnrecorded, Knows, Holds
  <1>11. CASE Extend \/ \E h \in Hashes : Reorg(h)
    <2>1. /\ ChainIsRemembered' /\ matured \subseteq matured' /\ detached \subseteq detached'
          /\ \A h \in Hashes : Knows(h) => Knows(h)'
      BY <1>11, NodeStep
    <2>2. UNCHANGED <<submitter, row, tracker, lost>>
      BY <1>11 DEF Extend, Reorg
    <2>3. \A h \in Hashes : Knows(h)' => Knows(h)
      BY <1>11 DEF Extend, Reorg, Deeper, Knows, TypeOK, Absent, Side
    <2> QED
      BY <2>1, <2>2, <2>3 DEF AnswerIsTrue, ReadingWasTrue, VerdictsWereTrue,
                              NothingUnrecorded, Holds
  <1>12. ASSUME NEW h \in Hashes, Find(h) PROVE PartsAfter
    BY <1>12, <1>1 DEF Find, node
  <1>13. CASE UNCHANGED vars
    BY <1>13, <1>1 DEF vars, node
  <1> QED
    BY <1>2, <1>3, <1>4, <1>5, <1>6, <1>7, <1>8, <1>9, <1>10, <1>11, <1>12, <1>13
       DEF Next, Submitter

\* Table and chain agree (blocks.rs, pool.rs): a confirmed row's block has been Maturity
\* deep, an orphaned one has been off the chain, an accepted one the node has; and every
\* block the node took has a row, is still with the submitter, or was dropped by a stop
\* or a failed insert.
THEOREM TableAgreesWithChain == Spec => []TableAgrees
  <1>1. TableInv => TableAgrees
    BY DEF TableInv, TableAgrees
  <1> QED
    BY <1>1, InitTable, NextTable, PTL DEF Spec
-----------------------------------------------------------------------------
(* Hashes found once. *)

\* A place in the channel after a send and after a take.
LEMMA AppendPlaces ==
  ASSUME NEW q \in Seq(Hashes), NEW h \in Hashes
  PROVE  /\ Len(Append(q, h)) = Len(q) + 1 /\ Append(q, h)[Len(q) + 1] = h
         /\ \A i \in 1 .. Len(q) : Append(q, h)[i] = q[i]
  OBVIOUS

LEMMA TailPlaces ==
  ASSUME NEW q \in Seq(Hashes), q # <<>>
  PROVE  /\ Head(q) = q[1] /\ Len(q) \in Nat \ {0} /\ Len(Tail(q)) = Len(q) - 1
         /\ \A i \in 1 .. Len(Tail(q)) : Tail(q)[i] = q[i + 1]
  OBVIOUS

LEMMA InitOnce == Init => OnceInv
  <1> SUFFICES ASSUME Init PROVE OnceInv
    OBVIOUS
  <1> QED
    BY InitType DEF Init, OnceInv, InOnePlace, Waits, Holds, Walks, Idle, NoPass

\* A step that leaves the channel and the counts of candidates alone and takes nothing
\* moves only rows and the pass.
LEMMA SameQueue ==
  ASSUME NEW h \in Hashes, InOnePlace(h), UNCHANGED <<found, queue, row>>,
         Holds(h)' => Holds(h), Walks(h)' => Walks(h) \/ row[h] = "accepted",
         (tracker.at = "read" /\ tracker.hash = h => h \notin tracker.todo)'
  PROVE  InOnePlace(h)'
  BY DEF InOnePlace, Waits

LEMMA NextOnce == OnceInv /\ [Next]_vars => OnceInv'
  <1> SUFFICES ASSUME OnceInv, [Next]_vars, NEW h \in Hashes \ Repeated PROVE InOnePlace(h)'
    BY NextType DEF OnceInv
  <1>0. TypeOK /\ TypeOK' /\ InOnePlace(h) /\ h \in Hashes
    BY NextType DEF OnceInv
  <1> USE <1>0, SubmitterShape, TrackerShape
  <1>1. ASSUME NEW k \in Hashes, Find(k) PROVE InOnePlace(h)'
    <2>1. /\ queue \in Seq(Hashes) /\ queue' = Append(queue, k) /\ Len(queue) \in Nat
          /\ found' = [found EXCEPT ![k] = @ + 1] /\ found[k] < Copies(k)
          /\ UNCHANGED <<submitter, row, tracker>>
      BY <1>1 DEF Find, TypeOK
    <2>2. Holds(h)' = Holds(h) /\ Walks(h)' = Walks(h)
      BY <2>1 DEF Holds, Walks
    <2>3. CASE k # h
      <3>1. found'[h] = found[h]
        BY <2>1, <2>3 DEF TypeOK
      <3>2. \A i \in 1 .. Len(queue') : queue'[i] = h => i \in 1 .. Len(queue) /\ queue[i] = h
        BY <2>1, <2>3, AppendPlaces
      <3>3. Waits(h)' => Waits(h)
        BY <3>2 DEF Waits
      <3> QED
        BY <2>1, <2>2, <3>1, <3>2, <3>3 DEF InOnePlace
    <2>4. CASE k = h
      <3>1. found[h] = 0 /\ found'[h] = 1
        BY <2>1, <2>4 DEF TypeOK, InOnePlace, Copies
      <3>2. ~ Waits(h) /\ ~ Holds(h) /\ row[h] = NoBlock
        BY <3>1 DEF InOnePlace
      <3>3. \A i \in 1 .. Len(queue') : queue'[i] = h => i = Len(queue) + 1
        BY <2>1, <3>2, AppendPlaces DEF Waits
      <3> QED
        BY <2>1, <2>2, <3>1, <3>2, <3>3 DEF InOnePlace
    <2> QED
      BY <2>3, <2>4
  <1>2. CASE Take
    <2>1. /\ queue \in Seq(Hashes) /\ queue # <<>> /\ queue' = Tail(queue)
          /\ submitter' = [at |-> "calling", hash |-> Head(queue)]
          /\ UNCHANGED <<found, row, tracker>>
      BY <1>2 DEF Take, TypeOK
    <2>2. \A i \in 1 .. Len(queue') : i + 1 \in 2 .. Len(queue) /\ queue'[i] = queue[i + 1]
      BY <2>1, TailPlaces
    <2>3. Waits(h)' => \E i \in 2 .. Len(queue) : queue[i] = h
      BY <2>2 DEF Waits
    <2>4. Holds(h)' => queue[1] = h /\ 1 \in 1 .. Len(queue)
      BY <2>1, TailPlaces DEF Holds
    <2>5. Holds(h)' => Waits(h) /\ ~ Waits(h)'
      BY <2>3, <2>4 DEF InOnePlace, Waits
    <2>6. Waits(h)' => Waits(h)
      BY <2>3, <2>1, TailPlaces DEF Waits
    <2>7. \A i, j \in 1 .. Len(queue') : queue'[i] = h /\ queue'[j] = h => i = j
      <3> SUFFICES ASSUME NEW i \in 1 .. Len(queue'), NEW j \in 1 .. Len(queue'), queue'[i] = h, queue'[j] = h
                   PROVE  i = j
        OBVIOUS
      <3>1. /\ i + 1 \in 1 .. Len(queue) /\ queue[i + 1] = h
            /\ j + 1 \in 1 .. Len(queue) /\ queue[j + 1] = h
        BY <2>2
      <3>2. i + 1 = j + 1
        BY <3>1 DEF InOnePlace
      <3> QED
        BY <3>2
    <2>8. Walks(h)' = Walks(h)
      BY <2>1 DEF Walks
    <2> QED
      BY <2>1, <2>5, <2>6, <2>7, <2>8 DEF InOnePlace
  <1>3. CASE NodeAccepts \/ NodeRefuses \/ CallFails
    <2>1. /\ submitter # Idle /\ submitter'.hash = submitter.hash
          /\ UNCHANGED <<found, queue, row, tracker>>
      BY <1>3 DEF NodeAccepts, NodeRefuses, CallFails, OutcomeOfError, Answered, Idle
    <2>2. (Holds(h)' => Holds(h)) /\ Walks(h)' = Walks(h)
      BY <2>1 DEF Holds, Walks
    <2> QED
      BY <2>1, <2>2, SameQueue DEF InOnePlace
  <1>4. CASE Record
    <2>1. /\ submitter.at = "answered" /\ submitter' = Idle
          /\ row' = [row EXCEPT ![submitter.hash] = submitter.answer]
          /\ UNCHANGED <<found, queue, tracker>>
      BY <1>4 DEF Record, Inserted
    <2>2. ~ Holds(h)' /\ Walks(h)' = Walks(h) /\ Waits(h)' = Waits(h)
      BY <2>1 DEF Holds, Walks, Waits
    <2>3. CASE submitter.hash = h
      <3>1. Holds(h) /\ ~ Waits(h) /\ ~ Walks(h) /\ found[h] # 0
        BY <2>1, <2>3 DEF Holds, InOnePlace, NoBlock
      <3> QED
        BY <2>1, <2>2, <3>1 DEF InOnePlace, Walks
    <2>4. CASE submitter.hash # h
      <3>1. row'[h] = row[h]
        BY <2>1, <2>4 DEF TypeOK
      <3> QED
        BY <2>1, <2>2, <3>1 DEF InOnePlace
    <2> QED
      BY <2>3, <2>4
  <1>5. CASE RecordFails
    <2>1. ~ Holds(h)' /\ Walks(h)' = Walks(h) /\ UNCHANGED <<found, queue, row, tracker>>
      BY <1>5 DEF RecordFails, Holds, Walks
    <2> QED
      BY <2>1, SameQueue DEF InOnePlace
  <1>6. CASE Tracker /\ ~ SetStatus
    <2>1. /\ UNCHANGED <<found, queue, row, submitter>>
          /\ Walks(h)' => Walks(h) \/ row[h] = "accepted"
          /\ (tracker.at = "read" /\ tracker.hash = h => h \notin tracker.todo)'
      BY <1>6 DEF Tracker, StartPass, SetStatusFails, Check, CheckFails, AfterRow, NoPass,
                  Unsettled, Walks
    <2> QED
      BY <2>1, SameQueue DEF Holds
  <1>7. CASE SetStatus
    <2>1. /\ tracker.at = "read" /\ tracker' = AfterRow(tracker.todo)
          /\ row' = [row EXCEPT ![tracker.hash] = Verdict(tracker.confirmations)]
          /\ UNCHANGED <<found, queue, submitter>>
      BY <1>7 DEF SetStatus
    <2>2. /\ tracker'.at # "read" /\ Holds(h)' = Holds(h) /\ Waits(h)' = Waits(h)
          /\ Walks(h)' => h \in tracker.todo
      BY <2>1 DEF AfterRow, NoPass, Walks, Holds, Waits
    <2>3. CASE tracker.hash = h
      <3>1. row[h] = "accepted" /\ h \notin tracker.todo
        BY <2>1, <2>3 DEF InOnePlace, Walks
      <3>2. ~ Holds(h) /\ ~ Waits(h) /\ found[h] # 0
        BY <3>1 DEF InOnePlace, NoBlock
      <3> QED
        BY <2>1, <2>2, <3>1, <3>2 DEF InOnePlace
    <2>4. CASE tracker.hash # h
      <3>1. row'[h] = row[h]
        BY <2>1, <2>4 DEF TypeOK
      <3>2. Walks(h)' => Walks(h)
        BY <2>1, <2>2 DEF Walks
      <3> QED
        BY <2>1, <2>2, <3>1, <3>2 DEF InOnePlace
    <2> QED
      BY <2>3, <2>4
  <1>8. CASE Shutdown \/ Kill
    <2>1. /\ queue' = <<>> /\ submitter' = Idle /\ tracker'.at = "idle"
          /\ UNCHANGED <<found, row>>
      BY <1>8 DEF Shutdown, Kill, NoPass
    <2>2. ~ Holds(h)' /\ ~ Walks(h)' /\ ~ Waits(h)' /\ Len(queue') = 0
      BY <2>1 DEF Holds, Walks, Waits
    <2> QED
      BY <2>1, <2>2 DEF InOnePlace
  <1>9. CASE UNCHANGED vars \/ Extend \/ \E k \in Hashes : Reorg(k)
    <2>1. UNCHANGED <<found, queue, submitter, row, tracker>>
      BY <1>9 DEF vars, Extend, Reorg
    <2> QED
      BY <2>1, SameQueue DEF InOnePlace, Holds, Walks
  <1> QED
    BY <1>1, <1>2, <1>3, <1>4, <1>5, <1>6, <1>7, <1>8, <1>9 DEF Next, Submitter

\* What settles a row writes it only while the row is open or missing.
LEMMA OpenRowsAreWritten ==
  ASSUME TypeOK, [Next]_vars, NEW h \in Hashes, InOnePlace(h),
         row[h] \in {"rejected", "confirmed", "orphaned"}
  PROVE  row'[h] = row[h]
  <1> USE SubmitterShape, TrackerShape
  <1>1. CASE Record
    <2>1. submitter.hash # h
      BY <1>1 DEF Record, InOnePlace, Holds, NoBlock
    <2> QED
      BY <1>1, <2>1 DEF Record, Inserted, TypeOK
  <1>2. CASE SetStatus
    <2>1. tracker.hash # h
      BY <1>2 DEF SetStatus, InOnePlace, Walks
    <2> QED
      BY <1>2, <2>1 DEF SetStatus, TypeOK
  <1>3. CASE ~ Record /\ ~ SetStatus
    <2>1. row' = row
      BY <1>3 DEF Next, vars, Submitter, Tracker, Find, Reorg, Take, NodeAccepts, NodeRefuses,
                  CallFails, RecordFails, StartPass, SetStatusFails, Check, CheckFails,
                  Shutdown, Kill, Extend
    <2> QED
      BY <2>1
  <1> QED
    BY <1>1, <1>2, <1>3

\* A settled row of a hash that is submitted once is never written again (set_block_status
\* and insert_block in blocks.rs both write whatever the row says).
THEOREM SettledRowsStay == Spec => SettledStays
  <1>1. OnceInv /\ [Next]_vars
        => [\A h \in Hashes \ Repeated :
              row[h] \in {"rejected", "confirmed", "orphaned"} => row'[h] = row[h]]_vars
    BY OpenRowsAreWritten DEF OnceInv
  <1> QED
    BY <1>1, InitOnce, NextOnce, PTL DEF Spec, SettledStays

-----------------------------------------------------------------------------
(* The merkle trees of a found block, for any hash of pairs: that every       *)
(* branch leads to the root.  First, induction over the numbers, in a form    *)
(* without an operator parameter.                                             *)

Smaller == {p \in Nat \X Nat : p[1] < p[2]}

\* Every set of numbers has a least one.
LEMMA LeastNumber ==
  ASSUME NEW N, N \subseteq Nat, N # {}
  PROVE  \E x \in N : \A y \in N : x <= y
  <1>1. IsWellFoundedOn(Smaller, Nat)
    BY NatLessThanWellFounded DEF OpToRel, Smaller
  <1>2. PICK x \in N : \A y \in N : ~ (<<y, x>> \in Smaller)
    BY <1>1, WFMin
  <1>3. \A y \in N : ~ (y < x)
    BY <1>2 DEF Smaller
  <1> QED
    BY <1>3

\* A set with 0 and every successor has all the numbers.
LEMMA NumberInduction ==
  ASSUME NEW N, 0 \in N, \A n \in Nat : n \in N => n + 1 \in N
  PROVE  Nat \subseteq N
  <1> SUFFICES ASSUME Nat \ N # {}
               PROVE  FALSE
    OBVIOUS
  <1>1. PICK x \in Nat \ N : \A y \in Nat \ N : x <= y
    BY LeastNumber
  <1>2. x # 0 /\ x - 1 \in Nat
    BY <1>1
  <1>3. x - 1 \in N
    BY <1>1, <1>2
  <1> QED
    BY <1>1, <1>2, <1>3

-----------------------------------------------------------------------------
(* Loops: a recursive function of the number of rounds. *)

\* The function whose first value is given and whose k-th is a step from the
\* one before, all in the sets S.
IsLoop(f, n, S, first, step) ==
  /\ f = [k \in 0..n |-> f[k]]
  /\ f[0] = first
  /\ \A k \in 1..n : f[k] = step[k][f[k - 1]]
  /\ \A k \in 0..n : f[k] \in S[k]

\* A loop whose k-th round takes S[k - 1] to S[k] runs, and is in S[k] then.
LEMMA LoopRuns ==
  ASSUME NEW n \in Nat, NEW S, NEW first, NEW step,
         first \in S[0],
         \A k \in 1..n : \A x \in S[k - 1] : step[k][x] \in S[k]
  PROVE  \E f : IsLoop(f, n, S, first, step)
  <1> DEFINE N == {m \in Nat : m <= n => \E f : IsLoop(f, m, S, first, step)}
  <1>1. 0 \in N
    <2> DEFINE f == [k \in 0..0 |-> first]
    <2>1. IsLoop(f, 0, S, first, step)
      BY DEF IsLoop
    <2> QED
      BY <2>1
  <1>2. ASSUME NEW m \in Nat, m \in N
        PROVE  m + 1 \in N
    <2> SUFFICES ASSUME m + 1 <= n
                 PROVE  \E f : IsLoop(f, m + 1, S, first, step)
      OBVIOUS
    <2>1. PICK f : IsLoop(f, m, S, first, step)
      BY <1>2
    <2> DEFINE g == [k \in 0..(m + 1) |-> IF k = m + 1 THEN step[m + 1][f[m]] ELSE f[k]]
    <2>2. /\ g[m + 1] = step[m + 1][f[m]]
          /\ \A k \in 0..m : g[k] = f[k]
          /\ g = [k \in 0..(m + 1) |-> g[k]]
      OBVIOUS
    <2> HIDE DEF g
    <2>3. \A k \in 1..(m + 1) : g[k] = step[k][g[k - 1]]
      <3> SUFFICES ASSUME NEW k \in 1..(m + 1)
                   PROVE  g[k] = step[k][g[k - 1]]
        OBVIOUS
      <3>1. CASE k = m + 1
        BY <2>2, <3>1
      <3>2. CASE k # m + 1
        <4>1. k \in 1..m /\ k \in 0..m /\ k - 1 \in 0..m
          BY <3>2
        <4> QED
          BY <2>1, <2>2, <4>1 DEF IsLoop
      <3> QED
        BY <3>1, <3>2
    <2>4. \A k \in 0..(m + 1) : g[k] \in S[k]
      <3> SUFFICES ASSUME NEW k \in 0..(m + 1)
                   PROVE  g[k] \in S[k]
        OBVIOUS
      <3>1. CASE k = m + 1
        <4>1. f[m] \in S[m] /\ m + 1 \in 1..n /\ m = (m + 1) - 1
          BY <2>1 DEF IsLoop
        <4>2. step[m + 1][f[m]] \in S[m + 1]
          BY <4>1
        <4> QED
          BY <2>2, <3>1, <4>2
      <3>2. CASE k # m + 1
        <4>1. k \in 0..m
          BY <3>2
        <4> QED
          BY <2>1, <2>2, <4>1 DEF IsLoop
      <3> QED
        BY <3>1, <3>2
    <2>5. g[0] = first
      BY <2>1, <2>2 DEF IsLoop
    <2>6. IsLoop(g, m + 1, S, first, step)
      BY <2>2, <2>3, <2>4, <2>5 DEF IsLoop
    <2> QED
      BY <2>6
  <1>3. Nat \subseteq N
    <2> HIDE DEF N
    <2> QED
      BY <1>1, <1>2, NumberInduction
  <1> QED
    BY <1>3

\* Two loops that start alike and whose rounds agree are the same.
SameRounds(f, g, n) == f[0] = g[0] /\ \A k \in 1..n : f[k - 1] = g[k - 1] => f[k] = g[k]

LEMMA SameLoop ==
  ASSUME NEW n \in Nat, NEW f, NEW g, SameRounds(f, g, n)
  PROVE  \A k \in 0..n : f[k] = g[k]
  <1> DEFINE N == {m \in Nat : m <= n => f[m] = g[m]}
  <1>1. 0 \in N
    BY DEF SameRounds
  <1>2. ASSUME NEW m \in Nat, m \in N
        PROVE  m + 1 \in N
    <2> SUFFICES ASSUME m + 1 <= n
                 PROVE  f[m + 1] = g[m + 1]
      OBVIOUS
    <2>1. m + 1 \in 1..n /\ (m + 1) - 1 = m /\ f[m] = g[m]
      BY <1>2
    <2> QED
      BY <2>1 DEF SameRounds
  <1>3. Nat \subseteq N
    <2> HIDE DEF N
    <2> QED
      BY <1>1, <1>2, NumberInduction
  <1> QED
    BY <1>3

-----------------------------------------------------------------------------
(* One level of a merkle tree, and the next. *)

\* A set of hashes that hash_pair does not leave.
Closed(Hash) == \A a, b \in Hash : HashPair(a, b) \in Hash

NextLevel(below) == IF Len(below) = 1 THEN below ELSE PairsOf(Even(below))

LEMMA EvenLevel ==
  ASSUME NEW Hash, NEW s \in Seq(Hash), s # <<>>
  PROVE  /\ Even(s) \in Seq(Hash)
         /\ Len(Even(s)) = 2 * ((Len(s) + 1) \div 2)
         /\ \A i \in 1..Len(s) : Even(s)[i] = s[i]
  <1>1. Len(s) \in Nat /\ Len(s) # 0 /\ s[Len(s)] \in Hash
    BY EmptySeq, LenProperties, ElementOfSeq
  <1>2. CASE Len(s) % 2 = 1
    <2>1. Even(s) = Append(s, s[Len(s)])
      BY <1>2 DEF Even
    <2> QED
      BY <1>1, <1>2, <2>1, AppendProperties
  <1>3. CASE Len(s) % 2 # 1
    BY <1>1, <1>3 DEF Even
  <1> QED
    BY <1>2, <1>3

LEMMA PairsLevel ==
  ASSUME NEW Hash, Closed(Hash), NEW s \in Seq(Hash), s # <<>>
  PROVE  /\ PairsOf(Even(s)) \in Seq(Hash)
         /\ Len(PairsOf(Even(s))) = (Len(s) + 1) \div 2
         /\ \A i \in 1..((Len(s) + 1) \div 2) :
              /\ 2 * i - 1 \in 1..Len(Even(s))
              /\ 2 * i \in 1..Len(Even(s))
              /\ PairsOf(Even(s))[i] = HashPair(Even(s)[2 * i - 1], Even(s)[2 * i])
  <1> DEFINE e == Even(s)
             n == (Len(s) + 1) \div 2
  <1>1. e \in Seq(Hash) /\ Len(e) = 2 * n /\ n \in Nat
    BY EvenLevel, LenProperties
  <1> HIDE DEF e, n
  <1>2. Len(e) \div 2 = n
    BY <1>1
  <1>3. PairsOf(e) = [i \in 1..n |-> HashPair(e[2 * i - 1], e[2 * i])]
    BY <1>2 DEF PairsOf
  <1>4. \A i \in 1..n : 2 * i - 1 \in 1..Len(e) /\ 2 * i \in 1..Len(e)
    BY <1>1
  <1>5. \A i \in 1..n : e[2 * i - 1] \in Hash /\ e[2 * i] \in Hash
    BY <1>1, <1>4, ElementOfSeq
  <1>6. \A i \in 1..n : HashPair(e[2 * i - 1], e[2 * i]) \in Hash
    BY <1>5 DEF Closed
  <1>7. PairsOf(e) \in Seq(Hash) /\ Len(PairsOf(e)) = n
    BY <1>1, <1>3, <1>6, IsASeq
  <1>8. \A i \in 1..n : PairsOf(e)[i] = HashPair(e[2 * i - 1], e[2 * i])
    BY <1>3, Zenon
  <1> QED
    BY <1>4, <1>7, <1>8 DEF e, n

\* A level is not empty, and shrinks with every round until it is the root.
LevelIn(Hash, most) == {s \in Seq(Hash) : Len(s) >= 1 /\ (Len(s) = 1 \/ Len(s) <= most)}

LEMMA NextLevelShrinks ==
  ASSUME NEW Hash, Closed(Hash), NEW most \in Nat, NEW s \in LevelIn(Hash, most + 1)
  PROVE  NextLevel(s) \in LevelIn(Hash, most)
  <1>1. s \in Seq(Hash) /\ Len(s) \in Nat /\ Len(s) >= 1 /\ s # <<>>
    BY EmptySeq, LenProperties DEF LevelIn
  <1>2. CASE Len(s) = 1
    BY <1>1, <1>2 DEF LevelIn, NextLevel
  <1>3. CASE Len(s) # 1
    <2>1. NextLevel(s) \in Seq(Hash) /\ Len(NextLevel(s)) = (Len(s) + 1) \div 2
      BY <1>1, <1>3, PairsLevel DEF NextLevel
    <2>2. Len(s) <= most + 1
      BY <1>3 DEF LevelIn
    <2> QED
      BY <1>1, <1>3, <2>1, <2>2 DEF LevelIn
  <1> QED
    BY <1>2, <1>3

\* The levels of a tree, from the leaves to the root.
IsLevels(Hash, hashes, levels) ==
  /\ levels[0] = hashes
  /\ \A k \in 1..Len(hashes) : levels[k] = NextLevel(levels[k - 1])
  /\ \A k \in 0..Len(hashes) : levels[k] \in LevelIn(Hash, Len(hashes) - k)

\* The loop of merkle_root.
IsRootLoop(hashes, f) ==
  f = [k \in 0..Len(hashes) |-> IF k = 0 THEN hashes ELSE NextLevel(f[k - 1])]

LEMMA RootLoop ==
  ASSUME NEW Hash, Closed(Hash), NEW hashes \in Seq(Hash), hashes # <<>>
  PROVE  \E levels : IsLevels(Hash, hashes, levels) /\ MerkleRoot(hashes) = levels[Len(hashes)][1]
  <1> DEFINE n == Len(hashes)
             S == [k \in 0..n |-> LevelIn(Hash, n - k)]
             step == [k \in 1..n |-> [x \in S[k - 1] |-> NextLevel(x)]]
             loop == CHOOSE g : IsRootLoop(hashes, g)
  <1>1. n \in Nat /\ n # 0
    BY EmptySeq, LenProperties
  <1>2. hashes \in S[0]
    BY <1>1 DEF LevelIn
  <1>3. ASSUME NEW k \in 1..n, NEW x \in S[k - 1]
        PROVE  step[k][x] = NextLevel(x) /\ NextLevel(x) \in S[k]
    <2>1. n - k \in Nat /\ n - (k - 1) = (n - k) + 1 /\ k - 1 \in 0..n /\ k \in 0..n
      BY <1>1
    <2>2. x \in LevelIn(Hash, (n - k) + 1)
      BY <2>1
    <2>3. NextLevel(x) \in LevelIn(Hash, n - k)
      BY <2>1, <2>2, NextLevelShrinks
    <2> QED
      BY <2>1, <2>3
  <1> HIDE DEF step
  <1>4. PICK g : IsLoop(g, n, S, hashes, step)
    <2>1. \A k \in 1..n : \A x \in S[k - 1] : step[k][x] \in S[k]
      BY <1>3
    <2>2. n \in Nat /\ hashes \in S[0]
      BY <1>1, <1>2
    <2> HIDE DEF n, S, loop
    <2> QED
      BY <2>1, <2>2, LoopRuns
  <1> HIDE DEF S
  <1>5. \A k \in 1..n : k \in 0..n /\ k - 1 \in 0..n
    BY <1>1
  <1>6. g[0] = hashes
    BY <1>1, <1>4 DEF IsLoop
  <1>7. \A k \in 1..n : g[k] = NextLevel(g[k - 1])
    BY <1>3, <1>4, <1>5 DEF IsLoop
  <1>8. IsRootLoop(hashes, g)
    <2>1. g = [k \in 0..n |-> g[k]]
      BY <1>4 DEF IsLoop
    <2>2. \A k \in 0..n : g[k] = IF k = 0 THEN hashes ELSE NextLevel(g[k - 1])
      BY <1>1, <1>6, <1>7
    <2> QED
      BY <2>1, <2>2 DEF IsRootLoop
  <1>9. IsRootLoop(hashes, loop)
    BY <1>8, Zenon
  <1>10. MerkleRoot(hashes) = loop[n][1]
    BY DEF MerkleRoot, IsRootLoop, NextLevel
  <1> HIDE DEF loop
  <1>11. loop[0] = hashes /\ \A k \in 1..n : loop[k] = NextLevel(loop[k - 1])
    BY <1>1, <1>5, <1>9 DEF IsRootLoop
  <1>12. \A k \in 0..n : loop[k] = g[k]
    <2>1. \A k \in 1..n : loop[k - 1] = g[k - 1] => loop[k] = g[k]
      BY <1>7, <1>11
    <2>2. n \in Nat /\ loop[0] = g[0]
      BY <1>1, <1>6, <1>11
    <2> HIDE DEF n
    <2>3. SameRounds(loop, g, n)
      BY <2>1, <2>2 DEF SameRounds
    <2> QED
      BY <2>2, <2>3, SameLoop
  <1> QED
    BY <1>1, <1>4, <1>10, <1>11, <1>12 DEF S, IsLoop, IsLevels

-----------------------------------------------------------------------------
(* From a leaf up a branch. *)

Folded(before, step) ==
  [hash |-> IF before.index % 2 = 1 THEN HashPair(step, before.hash)
            ELSE HashPair(before.hash, step),
   index |-> before.index \div 2]

\* What the loop of root_from_branch_at has at its end.
FoldState(leaf, branch, index) ==
  LET loop[k \in 0..Len(branch)] ==
        IF k = 0 THEN [hash |-> leaf, index |-> index] ELSE Folded(loop[k - 1], branch[k])
  IN  loop[Len(branch)]

LEMMA FoldIsState ==
  ASSUME NEW leaf, NEW branch, NEW index
  PROVE  RootFromBranchAt(leaf, branch, index) = FoldState(leaf, branch, index).hash
  BY DEF RootFromBranchAt, FoldState, Folded

\* The loop of root_from_branch_at.
IsFoldLoop(leaf, branch, index, f) ==
  f = [k \in 0..Len(branch) |-> IF k = 0 THEN [hash |-> leaf, index |-> index] ELSE Folded(f[k - 1], branch[k])]

\* What is known of its rounds.
FoldRun(Hash, leaf, branch, index, f) ==
  /\ f[0] = [hash |-> leaf, index |-> index]
  /\ \A k \in 1..Len(branch) : f[k] = Folded(f[k - 1], branch[k])
  /\ \A k \in 0..Len(branch) : f[k] \in [hash : Hash, index : Nat]
  /\ FoldState(leaf, branch, index) = f[Len(branch)]

LEMMA FoldLoop ==
  ASSUME NEW Hash, Closed(Hash), NEW leaf \in Hash, NEW branch \in Seq(Hash), NEW index \in Nat
  PROVE  \E f : FoldRun(Hash, leaf, branch, index, f)
  <1> DEFINE n == Len(branch)
             S == [k \in 0..n |-> [hash : Hash, index : Nat]]
             step == [k \in 1..n |-> [x \in S[k - 1] |-> Folded(x, branch[k])]]
             loop == CHOOSE g : IsFoldLoop(leaf, branch, index, g)
  <1>1. n \in Nat
    BY LenProperties
  <1>2. [hash |-> leaf, index |-> index] \in S[0]
    BY <1>1
  <1>3. ASSUME NEW k \in 1..n, NEW x \in S[k - 1]
        PROVE  step[k][x] = Folded(x, branch[k]) /\ Folded(x, branch[k]) \in S[k]
    <2>1. k \in 0..n /\ k - 1 \in 0..n /\ branch[k] \in Hash
      BY <1>1, ElementOfSeq
    <2>2. x \in [hash : Hash, index : Nat]
      BY <2>1
    <2>3. Folded(x, branch[k]) \in [hash : Hash, index : Nat]
      BY <2>1, <2>2 DEF Folded, Closed
    <2> QED
      BY <2>1, <2>3
  <1> HIDE DEF step
  <1>4. PICK g : IsLoop(g, n, S, [hash |-> leaf, index |-> index], step)
    <2>1. \A k \in 1..n : \A x \in S[k - 1] : step[k][x] \in S[k]
      BY <1>3
    <2>2. n \in Nat /\ [hash |-> leaf, index |-> index] \in S[0]
      BY <1>1, <1>2
    <2> HIDE DEF n, S, loop
    <2> QED
      BY <2>1, <2>2, LoopRuns
  <1> HIDE DEF S
  <1>5. \A k \in 1..n : k \in 0..n /\ k - 1 \in 0..n
    BY <1>1
  <1>6. g[0] = [hash |-> leaf, index |-> index]
    BY <1>1, <1>4 DEF IsLoop
  <1>7. \A k \in 1..n : g[k] = Folded(g[k - 1], branch[k])
    BY <1>3, <1>4, <1>5 DEF IsLoop
  <1>8. IsFoldLoop(leaf, branch, index, g)
    <2>1. g = [k \in 0..n |-> g[k]]
      BY <1>4 DEF IsLoop
    <2>2. \A k \in 0..n : g[k] = IF k = 0 THEN [hash |-> leaf, index |-> index] ELSE Folded(g[k - 1], branch[k])
      BY <1>1, <1>6, <1>7
    <2> QED
      BY <2>1, <2>2 DEF IsFoldLoop
  <1>9. IsFoldLoop(leaf, branch, index, loop)
    BY <1>8, Zenon
  <1>10. FoldState(leaf, branch, index) = loop[Len(branch)]
    BY DEF FoldState, IsFoldLoop
  <1> HIDE DEF loop
  <1>11. loop[0] = [hash |-> leaf, index |-> index] /\ \A k \in 1..n : loop[k] = Folded(loop[k - 1], branch[k])
    BY <1>1, <1>5, <1>9 DEF IsFoldLoop
  <1>12. \A k \in 0..n : loop[k] = g[k]
    <2>1. \A k \in 1..n : loop[k - 1] = g[k - 1] => loop[k] = g[k]
      BY <1>7, <1>11
    <2>2. n \in Nat /\ loop[0] = g[0]
      BY <1>1, <1>6, <1>11
    <2> HIDE DEF n
    <2>3. SameRounds(loop, g, n)
      BY <2>1, <2>2 DEF SameRounds
    <2> QED
      BY <2>2, <2>3, SameLoop
  <1>13. \A k \in 0..n : loop[k] \in [hash : Hash, index : Nat]
    BY <1>1, <1>4, <1>12 DEF S, IsLoop
  <1> QED
    BY <1>10, <1>11, <1>13 DEF FoldRun

LEMMA FoldEmpty ==
  ASSUME NEW Hash, Closed(Hash), NEW leaf \in Hash, NEW index \in Nat
  PROVE  FoldState(leaf, <<>>, index) = [hash |-> leaf, index |-> index]
  <1> DEFINE branch == <<>>
  <1>1. branch \in Seq(Hash)
    OBVIOUS
  <1>3. Len(branch) = 0
    OBVIOUS
  <1> HIDE DEF branch
  <1>2. PICK f : FoldRun(Hash, leaf, branch, index, f)
    BY <1>1, FoldLoop
  <1> QED
    BY <1>2, <1>3 DEF branch, FoldRun

LEMMA FoldAppend ==
  ASSUME NEW Hash, Closed(Hash), NEW leaf \in Hash, NEW branch \in Seq(Hash),
         NEW index \in Nat, NEW last \in Hash
  PROVE  FoldState(leaf, Append(branch, last), index) = Folded(FoldState(leaf, branch, index), last)
  <1> DEFINE longer == Append(branch, last)
             n == Len(branch)
  <1>1. /\ longer \in Seq(Hash)
        /\ Len(longer) = n + 1
        /\ n \in Nat
        /\ longer[n + 1] = last
        /\ \A k \in 1..n : longer[k] = branch[k]
    BY AppendProperties, LenProperties
  <1> HIDE DEF longer
  <1>2. PICK f : FoldRun(Hash, leaf, branch, index, f)
    BY FoldLoop
  <1>3. PICK g : FoldRun(Hash, leaf, longer, index, g)
    BY <1>1, FoldLoop
  <1>4. f[n] = g[n]
    <2>1. \A k \in 1..n : f[k - 1] = g[k - 1] => f[k] = g[k]
      <3> SUFFICES ASSUME NEW k \in 1..n, f[k - 1] = g[k - 1] PROVE f[k] = g[k]
        OBVIOUS
      <3>1. k \in 1..Len(longer) /\ longer[k] = branch[k]
        BY <1>1
      <3>2. f[k] = Folded(f[k - 1], branch[k]) /\ g[k] = Folded(g[k - 1], longer[k])
        BY <1>2, <1>3, <3>1 DEF FoldRun
      <3> QED
        BY <3>1, <3>2
    <2>2. n \in Nat /\ f[0] = g[0] /\ n \in 0..n
      BY <1>1, <1>2, <1>3 DEF FoldRun
    <2> HIDE DEF n
    <2>3. SameRounds(f, g, n)
      BY <2>1, <2>2 DEF SameRounds
    <2> QED
      BY <2>2, <2>3, SameLoop
  <1>5. g[n + 1] = Folded(g[n], last)
    BY <1>1, <1>3 DEF FoldRun
  <1> QED
    BY <1>1, <1>2, <1>3, <1>4, <1>5 DEF longer, FoldRun

-----------------------------------------------------------------------------
(* A branch leads from its leaf to the root. *)

NextStep(before) ==
  IF Len(before.level) = 1 THEN before
  ELSE [level |-> PairsOf(Even(before.level)), index |-> before.index \div 2,
        steps |-> Append(before.steps, Even(before.level)[Sibling(before.index) + 1])]

\* One round of branch_at is one round of root_from_branch_at.
LEMMA OneStepUp ==
  ASSUME NEW Hash, Closed(Hash), NEW s \in Seq(Hash), Len(s) > 1, NEW i \in 0..(Len(s) - 1)
  PROVE  /\ Even(s)[Sibling(i) + 1] \in Hash
         /\ i \div 2 \in 0..(Len(PairsOf(Even(s))) - 1)
         /\ Folded([hash |-> s[i + 1], index |-> i], Even(s)[Sibling(i) + 1])
              = [hash |-> PairsOf(Even(s))[(i \div 2) + 1], index |-> i \div 2]
  <1> DEFINE e == Even(s)
             p == PairsOf(Even(s))
             n == (Len(s) + 1) \div 2
             j == i \div 2
  <1>1. Len(s) \in Nat /\ s # <<>>
    BY EmptySeq, LenProperties
  <1>2. e \in Seq(Hash) /\ Len(e) = 2 * n /\ e[i + 1] = s[i + 1]
    BY <1>1, EvenLevel
  <1>3. j \in 0..(n - 1) /\ j + 1 \in 1..n /\ n \in Nat
    BY <1>1
  <1>4. Len(p) = n /\ p[j + 1] = HashPair(e[2 * (j + 1) - 1], e[2 * (j + 1)])
    BY <1>1, <1>3, PairsLevel
  <1>5. CASE i % 2 = 0
    <2>1. 2 * (j + 1) - 1 = i + 1 /\ 2 * (j + 1) = Sibling(i) + 1 /\ Sibling(i) + 1 \in 1..(2 * n)
      BY <1>1, <1>3, <1>5 DEF Sibling
    <2> HIDE DEF e, p, n, j
    <2>2. p[j + 1] = HashPair(s[i + 1], e[Sibling(i) + 1])
      BY <1>2, <1>4, <2>1
    <2>3. e[Sibling(i) + 1] \in Hash
      BY <1>2, <2>1, ElementOfSeq
    <2>4. Folded([hash |-> s[i + 1], index |-> i], e[Sibling(i) + 1])
            = [hash |-> HashPair(s[i + 1], e[Sibling(i) + 1]), index |-> i \div 2]
      BY <1>5 DEF Folded
    <2> QED
      BY <1>3, <1>4, <2>2, <2>3, <2>4 DEF e, p, j
  <1>6. CASE i % 2 # 0
    <2>1. 2 * (j + 1) - 1 = Sibling(i) + 1 /\ 2 * (j + 1) = i + 1 /\ Sibling(i) + 1 \in 1..(2 * n) /\ i % 2 = 1
      BY <1>1, <1>3, <1>6 DEF Sibling
    <2> HIDE DEF e, p, n, j
    <2>2. p[j + 1] = HashPair(e[Sibling(i) + 1], s[i + 1])
      BY <1>2, <1>4, <2>1
    <2>3. e[Sibling(i) + 1] \in Hash
      BY <1>2, <2>1, ElementOfSeq
    <2>4. Folded([hash |-> s[i + 1], index |-> i], e[Sibling(i) + 1])
            = [hash |-> HashPair(e[Sibling(i) + 1], s[i + 1]), index |-> i \div 2]
      BY <2>1 DEF Folded
    <2> QED
      BY <1>3, <1>4, <2>2, <2>3, <2>4 DEF e, p, j
  <1> QED
    BY <1>5, <1>6

\* Where branch_at is on a level: at a node to which its steps lead from the
\* leaf it began at.
OnTheWay(Hash, leaf, index, level) ==
  {x \in [level : {level}, index : 0..(Len(level) - 1), steps : Seq(Hash)] :
     FoldState(leaf, x.steps, index) = [hash |-> level[x.index + 1], index |-> x.index]}

LEMMA StaysOnTheWay ==
  ASSUME NEW Hash, Closed(Hash), NEW leaf \in Hash, NEW index \in Nat,
         NEW level \in Seq(Hash), Len(level) >= 1, NEW x \in OnTheWay(Hash, leaf, index, level)
  PROVE  NextStep(x) \in OnTheWay(Hash, leaf, index, NextLevel(level))
  <1>1. /\ x = [level |-> level, index |-> x.index, steps |-> x.steps]
        /\ x.level = level
        /\ x.index \in 0..(Len(level) - 1)
        /\ x.steps \in Seq(Hash)
        /\ FoldState(leaf, x.steps, index) = [hash |-> level[x.index + 1], index |-> x.index]
    BY DEF OnTheWay
  <1>2. CASE Len(level) = 1
    BY <1>1, <1>2 DEF NextStep, NextLevel
  <1>3. CASE Len(level) # 1
    <2> DEFINE step == Even(level)[Sibling(x.index) + 1]
               next == PairsOf(Even(level))
    <2>0. Len(level) \in Nat
      BY LenProperties
    <2>1. Len(level) > 1
      <3>1. \A m \in Nat : m >= 1 /\ m # 1 => m > 1
        OBVIOUS
      <3> QED
        BY <1>3, <2>0, <3>1
    <2>2. /\ step \in Hash
          /\ x.index \div 2 \in 0..(Len(next) - 1)
          /\ Folded([hash |-> level[x.index + 1], index |-> x.index], step)
               = [hash |-> next[(x.index \div 2) + 1], index |-> x.index \div 2]
      BY <1>1, <2>1, OneStepUp
    <2>3. /\ NextLevel(level) = next
          /\ NextStep(x) = [level |-> next, index |-> x.index \div 2, steps |-> Append(x.steps, step)]
      BY <1>1, <1>3 DEF NextStep, NextLevel
    <2> HIDE DEF step, next
    <2>4. FoldState(leaf, Append(x.steps, step), index)
            = [hash |-> next[(x.index \div 2) + 1], index |-> x.index \div 2]
      BY <1>1, <2>2, FoldAppend
    <2>5. Append(x.steps, step) \in Seq(Hash)
      BY <1>1, <2>2, AppendProperties
    <2> DEFINE y == [level |-> next, index |-> x.index \div 2, steps |-> Append(x.steps, step)]
    <2>6. /\ y \in [level : {next}, index : 0..(Len(next) - 1), steps : Seq(Hash)]
          /\ y.index = x.index \div 2
          /\ y.steps = Append(x.steps, step)
      BY <2>2, <2>5
    <2>7. FoldState(leaf, y.steps, index) = [hash |-> next[y.index + 1], index |-> y.index]
      BY <2>4, <2>6
    <2> HIDE DEF y
    <2>8. y \in OnTheWay(Hash, leaf, index, next)
      BY <2>6, <2>7 DEF OnTheWay
    <2> QED
      BY <2>3, <2>8 DEF y
  <1> QED
    BY <1>2, <1>3

\* The loop of branch_at, along a loop of merkle_root.
IsBranchLoop(hashes, index, f) ==
  f = [k \in 0..Len(hashes) |-> IF k = 0 THEN [level |-> hashes, index |-> index, steps |-> <<>>] ELSE NextStep(f[k - 1])]

LEMMA BranchLoop ==
  ASSUME NEW Hash, Closed(Hash), NEW hashes \in Seq(Hash), NEW index \in 0..(Len(hashes) - 1),
         NEW levels, IsLevels(Hash, hashes, levels)
  PROVE  \E f : /\ f[0] = [level |-> hashes, index |-> index, steps |-> <<>>]
                /\ \A k \in 1..Len(hashes) : f[k] = NextStep(f[k - 1])
                /\ \A k \in 0..Len(hashes) : f[k] \in OnTheWay(Hash, hashes[index + 1], index, levels[k])
                /\ BranchAt(hashes, index) = f[Len(hashes)].steps
  <1> DEFINE n == Len(hashes)
             S == [k \in 0..n |-> OnTheWay(Hash, hashes[index + 1], index, levels[k])]
             step == [k \in 1..n |-> [x \in S[k - 1] |-> NextStep(x)]]
             loop == CHOOSE g : IsBranchLoop(hashes, index, g)
  <1>1. n \in Nat
    BY LenProperties
  <1>2. [level |-> hashes, index |-> index, steps |-> <<>>] \in S[0]
    <2>1. hashes[index + 1] \in Hash /\ index \in Nat /\ <<>> \in Seq(Hash)
      BY <1>1, ElementOfSeq
    <2>2. FoldState(hashes[index + 1], <<>>, index) = [hash |-> hashes[index + 1], index |-> index]
      BY <2>1, FoldEmpty
    <2> QED
      BY <1>1, <2>1, <2>2 DEF OnTheWay, IsLevels
  <1>3. ASSUME NEW k \in 1..n, NEW x \in S[k - 1]
        PROVE  step[k][x] = NextStep(x) /\ NextStep(x) \in S[k]
    <2>1. k \in 0..n /\ k - 1 \in 0..n /\ hashes[index + 1] \in Hash /\ index \in Nat
      BY <1>1, ElementOfSeq
    <2>2. levels[k - 1] \in Seq(Hash) /\ Len(levels[k - 1]) >= 1 /\ levels[k] = NextLevel(levels[k - 1])
      BY <2>1 DEF LevelIn, IsLevels
    <2>3. x \in OnTheWay(Hash, hashes[index + 1], index, levels[k - 1])
      BY <2>1
    <2>4. NextStep(x) \in OnTheWay(Hash, hashes[index + 1], index, levels[k])
      BY <2>1, <2>2, <2>3, StaysOnTheWay
    <2> QED
      BY <2>1, <2>4
  <1> HIDE DEF step
  <1>4. PICK g : IsLoop(g, n, S, [level |-> hashes, index |-> index, steps |-> <<>>], step)
    <2>1. \A k \in 1..n : \A x \in S[k - 1] : step[k][x] \in S[k]
      BY <1>3
    <2>2. n \in Nat /\ [level |-> hashes, index |-> index, steps |-> <<>>] \in S[0]
      BY <1>1, <1>2
    <2> HIDE DEF n, S, loop
    <2> QED
      BY <2>1, <2>2, LoopRuns
  <1> HIDE DEF S
  <1>5. \A k \in 1..n : k \in 0..n /\ k - 1 \in 0..n
    BY <1>1
  <1>6. g[0] = [level |-> hashes, index |-> index, steps |-> <<>>]
    BY <1>1, <1>4 DEF IsLoop
  <1>7. \A k \in 1..n : g[k] = NextStep(g[k - 1])
    BY <1>3, <1>4, <1>5 DEF IsLoop
  <1>8. IsBranchLoop(hashes, index, g)
    <2>1. g = [k \in 0..n |-> g[k]]
      BY <1>4 DEF IsLoop
    <2>2. \A k \in 0..n : g[k] = IF k = 0 THEN [level |-> hashes, index |-> index, steps |-> <<>>] ELSE NextStep(g[k - 1])
      BY <1>1, <1>6, <1>7
    <2> QED
      BY <2>1, <2>2 DEF IsBranchLoop
  <1>9. IsBranchLoop(hashes, index, loop)
    BY <1>8, Zenon
  <1>10. BranchAt(hashes, index) = loop[Len(hashes)].steps
    BY DEF BranchAt, IsBranchLoop, NextStep
  <1> HIDE DEF loop
  <1>11. loop[0] = [level |-> hashes, index |-> index, steps |-> <<>>] /\ \A k \in 1..n : loop[k] = NextStep(loop[k - 1])
    BY <1>1, <1>5, <1>9 DEF IsBranchLoop
  <1>12. \A k \in 0..n : loop[k] = g[k]
    <2>1. \A k \in 1..n : loop[k - 1] = g[k - 1] => loop[k] = g[k]
      BY <1>7, <1>11
    <2>2. n \in Nat /\ loop[0] = g[0]
      BY <1>1, <1>6, <1>11
    <2> HIDE DEF n
    <2>3. SameRounds(loop, g, n)
      BY <2>1, <2>2 DEF SameRounds
    <2> QED
      BY <2>2, <2>3, SameLoop
  <1> QED
    BY <1>1, <1>4, <1>10, <1>11, <1>12 DEF S, IsLoop

\* The branch of each leaf leads to the root: whatever hash_pair is, and for
\* every number of leaves.
THEOREM BranchGivesRoot ==
  ASSUME NEW Hash, Closed(Hash), NEW hashes \in Seq(Hash), NEW index \in 0..(Len(hashes) - 1)
  PROVE  RootFromBranchAt(hashes[index + 1], BranchAt(hashes, index), index) = MerkleRoot(hashes)
  <1> DEFINE n == Len(hashes)
  <1>1. n \in Nat /\ hashes # <<>>
    BY LenProperties, EmptySeq
  <1>2. PICK levels : IsLevels(Hash, hashes, levels) /\ MerkleRoot(hashes) = levels[n][1]
    BY <1>1, RootLoop
  <1>3. PICK f : /\ \A k \in 0..n : f[k] \in OnTheWay(Hash, hashes[index + 1], index, levels[k])
                 /\ BranchAt(hashes, index) = f[n].steps
    <2>1. \E f : /\ f[0] = [level |-> hashes, index |-> index, steps |-> <<>>]
                 /\ \A k \in 1..n : f[k] = NextStep(f[k - 1])
                 /\ \A k \in 0..n : f[k] \in OnTheWay(Hash, hashes[index + 1], index, levels[k])
                 /\ BranchAt(hashes, index) = f[n].steps
      BY <1>2, BranchLoop
    <2> QED
      BY <2>1
  <1>4. n \in 0..n /\ n - n = 0
    BY <1>1
  <1>5. f[n] \in OnTheWay(Hash, hashes[index + 1], index, levels[n])
    BY <1>3, <1>4
  <1>6. levels[n] \in LevelIn(Hash, 0)
    BY <1>2, <1>4 DEF IsLevels
  <1>7. Len(levels[n]) = 1
    BY <1>6, LenProperties DEF LevelIn
  <1>8. f[n].index = 0 /\ FoldState(hashes[index + 1], f[n].steps, index).hash = levels[n][1]
    BY <1>5, <1>7 DEF OnTheWay
  <1> QED
    BY <1>2, <1>3, <1>8, FoldIsState

-----------------------------------------------------------------------------
(* The branch of the coinbase, which is known before the coinbase is. *)

HashedWith(hash, step) == HashPair(hash, step)

\* The loop of root_from_branch.
IsLeftLoop(leaf, branch, f) ==
  f = [k \in 0..Len(branch) |-> IF k = 0 THEN leaf ELSE HashedWith(f[k - 1], branch[k])]

LEMMA LeftLoop ==
  ASSUME NEW Hash, Closed(Hash), NEW leaf \in Hash, NEW branch \in Seq(Hash)
  PROVE  \E f : /\ f[0] = leaf
                /\ \A k \in 1..Len(branch) : f[k] = HashedWith(f[k - 1], branch[k])
                /\ \A k \in 0..Len(branch) : f[k] \in Hash
                /\ RootFromBranch(leaf, branch) = f[Len(branch)]
  <1> DEFINE n == Len(branch)
             S == [k \in 0..n |-> Hash]
             step == [k \in 1..n |-> [x \in S[k - 1] |-> HashedWith(x, branch[k])]]
             loop == CHOOSE g : IsLeftLoop(leaf, branch, g)
  <1>1. n \in Nat
    BY LenProperties
  <1>2. leaf \in S[0]
    BY <1>1
  <1>3. ASSUME NEW k \in 1..n, NEW x \in S[k - 1]
        PROVE  step[k][x] = HashedWith(x, branch[k]) /\ HashedWith(x, branch[k]) \in S[k]
    <2>1. k \in 0..n /\ k - 1 \in 0..n /\ branch[k] \in Hash
      BY <1>1, ElementOfSeq
    <2>2. x \in Hash
      BY <2>1
    <2>3. HashedWith(x, branch[k]) \in Hash
      BY <2>1, <2>2 DEF HashedWith, Closed
    <2> QED
      BY <2>1, <2>3
  <1> HIDE DEF step
  <1>4. PICK g : IsLoop(g, n, S, leaf, step)
    <2>1. \A k \in 1..n : \A x \in S[k - 1] : step[k][x] \in S[k]
      BY <1>3
    <2>2. n \in Nat /\ leaf \in S[0]
      BY <1>1, <1>2
    <2> HIDE DEF n, S, loop
    <2> QED
      BY <2>1, <2>2, LoopRuns
  <1> HIDE DEF S
  <1>5. \A k \in 1..n : k \in 0..n /\ k - 1 \in 0..n
    BY <1>1
  <1>6. g[0] = leaf
    BY <1>1, <1>4 DEF IsLoop
  <1>7. \A k \in 1..n : g[k] = HashedWith(g[k - 1], branch[k])
    BY <1>3, <1>4, <1>5 DEF IsLoop
  <1>8. IsLeftLoop(leaf, branch, g)
    <2>1. g = [k \in 0..n |-> g[k]]
      BY <1>4 DEF IsLoop
    <2>2. \A k \in 0..n : g[k] = IF k = 0 THEN leaf ELSE HashedWith(g[k - 1], branch[k])
      BY <1>1, <1>6, <1>7
    <2> QED
      BY <2>1, <2>2 DEF IsLeftLoop
  <1>9. IsLeftLoop(leaf, branch, loop)
    BY <1>8, Zenon
  <1>10. RootFromBranch(leaf, branch) = loop[Len(branch)]
    BY DEF RootFromBranch, IsLeftLoop, HashedWith
  <1> HIDE DEF loop
  <1>11. loop[0] = leaf /\ \A k \in 1..n : loop[k] = HashedWith(loop[k - 1], branch[k])
    BY <1>1, <1>5, <1>9 DEF IsLeftLoop
  <1>12. \A k \in 0..n : loop[k] = g[k]
    <2>1. \A k \in 1..n : loop[k - 1] = g[k - 1] => loop[k] = g[k]
      BY <1>7, <1>11
    <2>2. n \in Nat /\ loop[0] = g[0]
      BY <1>1, <1>6, <1>11
    <2> HIDE DEF n
    <2>3. SameRounds(loop, g, n)
      BY <2>1, <2>2 DEF SameRounds
    <2> QED
      BY <2>2, <2>3, SameLoop
  <1> QED
    BY <1>1, <1>4, <1>10, <1>11, <1>12 DEF S, IsLoop

LEMMA LeftEmpty ==
  ASSUME NEW Hash, Closed(Hash), NEW leaf \in Hash
  PROVE  RootFromBranch(leaf, <<>>) = leaf
  <1> DEFINE branch == <<>>
  <1>1. branch \in Seq(Hash)
    OBVIOUS
  <1>2. Len(branch) = 0
    OBVIOUS
  <1> HIDE DEF branch
  <1>3. PICK f : /\ f[0] = leaf
                 /\ \A k \in 1..Len(branch) : f[k] = HashedWith(f[k - 1], branch[k])
                 /\ \A k \in 0..Len(branch) : f[k] \in Hash
                 /\ RootFromBranch(leaf, branch) = f[Len(branch)]
    BY <1>1, LeftLoop
  <1> QED
    BY <1>2, <1>3 DEF branch

LEMMA LeftAppend ==
  ASSUME NEW Hash, Closed(Hash), NEW leaf \in Hash, NEW branch \in Seq(Hash), NEW last \in Hash
  PROVE  RootFromBranch(leaf, Append(branch, last)) = HashPair(RootFromBranch(leaf, branch), last)
  <1> DEFINE longer == Append(branch, last)
             n == Len(branch)
  <1>1. /\ longer \in Seq(Hash)
        /\ Len(longer) = n + 1
        /\ n \in Nat
        /\ longer[n + 1] = last
        /\ \A k \in 1..n : longer[k] = branch[k]
    BY AppendProperties, LenProperties
  <1> HIDE DEF longer
  <1>2. PICK f : /\ f[0] = leaf
                 /\ \A k \in 1..n : f[k] = HashedWith(f[k - 1], branch[k])
                 /\ RootFromBranch(leaf, branch) = f[n]
    BY LeftLoop
  <1>3. PICK g : /\ g[0] = leaf
                 /\ \A k \in 1..(n + 1) : g[k] = HashedWith(g[k - 1], longer[k])
                 /\ RootFromBranch(leaf, longer) = g[n + 1]
    <2>1. \E g : /\ g[0] = leaf
                 /\ \A k \in 1..Len(longer) : g[k] = HashedWith(g[k - 1], longer[k])
                 /\ \A k \in 0..Len(longer) : g[k] \in Hash
                 /\ RootFromBranch(leaf, longer) = g[Len(longer)]
      BY <1>1, LeftLoop
    <2> QED
      BY <1>1, <2>1
  <1>4. f[n] = g[n]
    <2>1. \A k \in 1..n : f[k - 1] = g[k - 1] => f[k] = g[k]
      BY <1>1, <1>2, <1>3
    <2>2. n \in Nat /\ f[0] = g[0] /\ n \in 0..n
      BY <1>1, <1>2, <1>3
    <2> HIDE DEF n
    <2>3. SameRounds(f, g, n)
      BY <2>1, <2>2 DEF SameRounds
    <2> QED
      BY <2>2, <2>3, SameLoop
  <1>5. g[n + 1] = HashedWith(g[n], last)
    BY <1>1, <1>3
  <1> QED
    BY <1>2, <1>3, <1>4, <1>5 DEF longer, HashedWith

NextRest(before) ==
  IF before.rest = <<>> THEN before
  ELSE [rest |-> PairsOf(Tail(Filled(before.rest))), steps |-> Append(before.steps, Filled(before.rest)[1])]

\* What coinbase_branch keeps of a level: all but its first node.
LEMMA RestOfLevel ==
  ASSUME NEW Hash, Closed(Hash), NEW s \in Seq(Hash), Len(s) > 1
  PROVE  /\ Tail(s) # <<>>
         /\ Filled(Tail(s))[1] = Even(s)[2]
         /\ PairsOf(Tail(Filled(Tail(s)))) = Tail(PairsOf(Even(s)))
  <1> DEFINE e == Even(s)
             p == PairsOf(Even(s))
             n == (Len(s) + 1) \div 2
             r == Tail(s)
  <1>1. Len(s) \in Nat /\ s # <<>> /\ n \in Nat /\ n >= 1 /\ s[Len(s)] \in Hash
    BY EmptySeq, LenProperties, ElementOfSeq
  <1>2. e \in Seq(Hash) /\ Len(e) = 2 * n /\ e # <<>>
    <2>1. e \in Seq(Hash) /\ Len(e) = 2 * n
      BY <1>1, EvenLevel
    <2> HIDE DEF e, n
    <2> QED
      BY <1>1, <2>1, EmptySeq
  <1>3. r \in Seq(Hash) /\ Len(r) = Len(s) - 1 /\ \A i \in 1..Len(r) : r[i] = s[i + 1]
    BY <1>1, HeadTailProperties
  <1>4. r # <<>> /\ r[Len(r)] = s[Len(s)]
    BY <1>1, <1>3, EmptySeq
  <1>5. Filled(r) = Tail(e)
    <2>1. CASE Len(s) % 2 = 1
      <3>1. e = Append(s, s[Len(s)]) /\ Filled(r) = Append(r, s[Len(s)])
        <4>1. Len(r) % 2 = 0
          BY <1>1, <1>3, <2>1
        <4> QED
          BY <1>4, <2>1, <4>1 DEF Even, Filled
      <3>2. Append(r, s[Len(s)]) \in Seq(Hash) /\ Len(Append(r, s[Len(s)])) = Len(s)
        BY <1>1, <1>3, AppendProperties
      <3>3. Tail(e) \in Seq(Hash) /\ Len(Tail(e)) = Len(s) /\ \A i \in 1..Len(s) : Tail(e)[i] = e[i + 1]
        <4>1. Len(e) = Len(s) + 1
          BY <1>1, <3>1, AppendProperties
        <4> HIDE DEF e
        <4> QED
          BY <1>1, <1>2, <4>1, HeadTailProperties
      <3>4. \A i \in 1..Len(s) : Append(r, s[Len(s)])[i] = Append(s, s[Len(s)])[i + 1]
        <4> SUFFICES ASSUME NEW i \in 1..Len(s)
                     PROVE  Append(r, s[Len(s)])[i] = Append(s, s[Len(s)])[i + 1]
          OBVIOUS
        <4>1. CASE i = Len(s)
          <5>1. Append(r, s[Len(s)])[i] = s[Len(s)] /\ Append(s, s[Len(s)])[i + 1] = s[Len(s)]
            BY <1>1, <1>3, <4>1, AppendProperties
          <5> QED
            BY <5>1
        <4>2. CASE i # Len(s)
          <5>1. i \in 1..Len(r) /\ i + 1 \in 1..Len(s)
            <6>1. i \in 1..Len(s) /\ i # Len(s) /\ Len(r) = Len(s) - 1
              BY <1>3, <4>2
            <6>2. i \in 1..(Len(s) - 1)
              <7>1. \A m \in Nat : \A j \in 1..m : j # m => j \in 1..(m - 1)
                OBVIOUS
              <7> QED
                BY <1>1, <6>1, <7>1
            <6> HIDE DEF r
            <6> QED
              BY <1>1, <6>1, <6>2
          <5>2. Append(r, s[Len(s)])[i] = r[i]
            BY <1>1, <1>3, <5>1, AppendProperties
          <5>3. Append(s, s[Len(s)])[i + 1] = s[i + 1]
            BY <1>1, <5>1, AppendProperties
          <5> QED
            BY <1>3, <5>1, <5>2, <5>3
        <4> QED
          BY <4>1, <4>2
      <3> HIDE DEF e, r
      <3> QED
        BY <3>1, <3>2, <3>3, <3>4, SeqEqual
    <2>2. CASE Len(s) % 2 # 1
      <3>1. Len(r) % 2 # 0
        BY <1>1, <1>3, <2>2
      <3> QED
        BY <2>2, <3>1 DEF Even, Filled
    <2> QED
      BY <2>1, <2>2
  <1>6. /\ Tail(e) \in Seq(Hash) /\ Len(Tail(e)) = 2 * n - 1
        /\ \A i \in 1..(2 * n - 1) : Tail(e)[i] = e[i + 1]
    <2> HIDE DEF e, n
    <2> QED
      BY <1>1, <1>2, HeadTailProperties
  <1>7. Tail(e)[1] = e[2]
    <2> HIDE DEF e, n
    <2> QED
      BY <1>1, <1>6
  <1> DEFINE t == Tail(Tail(e))
  <1>8. /\ t \in Seq(Hash) /\ Len(t) = 2 * (n - 1)
        /\ \A i \in 1..(2 * (n - 1)) : t[i] = e[i + 2]
    <2> DEFINE te == Tail(e)
    <2>1. te \in Seq(Hash) /\ Len(te) = 2 * n - 1 /\ \A i \in 1..(2 * n - 1) : te[i] = e[i + 1]
      BY <1>6
    <2> HIDE DEF te, e, n
    <2>2. te # <<>>
      BY <1>1, <2>1, EmptySeq
    <2>3. Tail(te) \in Seq(Hash) /\ Len(Tail(te)) = 2 * (n - 1) /\ \A i \in 1..(2 * (n - 1)) : Tail(te)[i] = te[i + 1]
      BY <1>1, <2>1, <2>2, HeadTailProperties
    <2>4. \A i \in 1..(2 * (n - 1)) : i + 1 \in 1..(2 * n - 1) /\ (i + 1) + 1 = i + 2
      BY <1>1
    <2>5. \A i \in 1..(2 * (n - 1)) : te[i + 1] = e[i + 2]
      BY <2>1, <2>4
    <2>6. \A i \in 1..(2 * (n - 1)) : Tail(te)[i] = e[i + 2]
      BY <2>3, <2>5
    <2> QED
      BY <2>3, <2>6 DEF te
  <1>9. /\ p \in Seq(Hash) /\ Len(p) = n
        /\ \A i \in 1..n : p[i] = HashPair(e[2 * i - 1], e[2 * i])
    BY <1>1, PairsLevel
  <1>10. /\ Tail(p) \in Seq(Hash) /\ Len(Tail(p)) = n - 1
         /\ \A i \in 1..(n - 1) : Tail(p)[i] = HashPair(e[2 * i + 1], e[2 * i + 2])
    <2> HIDE DEF p, e, n
    <2>1. p # <<>>
      BY <1>1, <1>9, EmptySeq
    <2>2. Tail(p) \in Seq(Hash) /\ Len(Tail(p)) = n - 1 /\ \A i \in 1..(n - 1) : Tail(p)[i] = p[i + 1]
      BY <1>1, <1>9, <2>1, HeadTailProperties
    <2>3. \A i \in 1..(n - 1) : i + 1 \in 1..n /\ 2 * (i + 1) - 1 = 2 * i + 1 /\ 2 * (i + 1) = 2 * i + 2
      BY <1>1
    <2> QED
      BY <1>9, <2>2, <2>3
  <1>11. PairsOf(t) = Tail(p)
    <2> HIDE DEF p, e, n, t
    <2>1. Len(t) \div 2 = n - 1
      BY <1>1, <1>8
    <2>2. PairsOf(t) = [i \in 1..(n - 1) |-> HashPair(t[2 * i - 1], t[2 * i])]
      BY <2>1 DEF PairsOf
    <2>3. \A i \in 1..(n - 1) : t[2 * i - 1] = e[2 * i + 1] /\ t[2 * i] = e[2 * i + 2]
      <3> SUFFICES ASSUME NEW i \in 1..(n - 1) PROVE t[2 * i - 1] = e[2 * i + 1] /\ t[2 * i] = e[2 * i + 2]
        OBVIOUS
      <3>1. /\ 2 * i - 1 \in 1..(2 * (n - 1)) /\ (2 * i - 1) + 2 = 2 * i + 1
            /\ 2 * i \in 1..(2 * (n - 1))
        BY <1>1
      <3>2. t[2 * i - 1] = e[(2 * i - 1) + 2] /\ t[2 * i] = e[2 * i + 2]
        BY <1>8, <3>1
      <3> QED
        BY <3>1, <3>2
    <2>4. \A i \in 1..(n - 1) : HashPair(t[2 * i - 1], t[2 * i]) = Tail(p)[i]
      <3> SUFFICES ASSUME NEW i \in 1..(n - 1) PROVE HashPair(t[2 * i - 1], t[2 * i]) = Tail(p)[i]
        OBVIOUS
      <3>1. t[2 * i - 1] = e[2 * i + 1] /\ t[2 * i] = e[2 * i + 2]
        BY <2>3
      <3>2. Tail(p)[i] = HashPair(e[2 * i + 1], e[2 * i + 2])
        BY <1>10
      <3> QED
        BY <3>1, <3>2
    <2>5. \A i \in 1..(n - 1) : Tail(p)[i] \in Hash
      BY <1>10, ElementOfSeq
    <2>6. n - 1 \in Nat /\ \A i \in 1..(n - 1) : HashPair(t[2 * i - 1], t[2 * i]) \in Hash
      BY <1>1, <1>10, <2>4, <2>5
    <2>7. PairsOf(t) \in Seq(Hash) /\ Len(PairsOf(t)) = n - 1
      <3>1. PairsOf(t) \in Seq(Hash)
        BY <2>2, <2>6, IsASeq
      <3> QED
        BY <2>2, <2>6, <3>1
    <2>8. \A i \in 1..(n - 1) : PairsOf(t)[i] = HashPair(t[2 * i - 1], t[2 * i])
      BY <2>2, Zenon
    <2> QED
      BY <1>10, <2>4, <2>7, <2>8, SeqEqual
  <1> QED
    BY <1>4, <1>5, <1>7, <1>11

\* Where coinbase_branch is on a level: it has all but the first node, and its
\* steps lead from the leaf before it began to that node.
BesideTheWay(Hash, leaf, level) ==
  {x \in [rest : {Tail(level)}, steps : Seq(Hash)] : RootFromBranch(leaf, x.steps) = level[1]}

LEMMA StaysBesideTheWay ==
  ASSUME NEW Hash, Closed(Hash), NEW leaf \in Hash,
         NEW level \in Seq(Hash), level # <<>>, NEW x \in BesideTheWay(Hash, leaf, level)
  PROVE  NextRest(x) \in BesideTheWay(Hash, leaf, NextLevel(level))
  <1>1. /\ x = [rest |-> Tail(level), steps |-> x.steps]
        /\ x.rest = Tail(level)
        /\ x.steps \in Seq(Hash)
        /\ RootFromBranch(leaf, x.steps) = level[1]
    BY DEF BesideTheWay
  <1>2. Len(level) \in Nat /\ Len(level) # 0
    BY EmptySeq, LenProperties
  <1>3. CASE Len(level) = 1
    <2>1. Tail(level) = <<>>
      <3>1. Tail(level) \in Seq(Hash) /\ Len(Tail(level)) = 0
        BY <1>3, HeadTailProperties
      <3> QED
        BY <3>1, EmptySeq
    <2> QED
      BY <1>1, <1>3, <2>1 DEF NextRest, NextLevel
  <1>4. CASE Len(level) # 1
    <2> DEFINE step == Filled(Tail(level))[1]
               next == PairsOf(Even(level))
    <2>1. Len(level) > 1
      <3>1. \A m \in Nat : m # 0 /\ m # 1 => m > 1
        OBVIOUS
      <3> QED
        BY <1>2, <1>4, <3>1
    <2>2. /\ Tail(level) # <<>>
          /\ step = Even(level)[2]
          /\ PairsOf(Tail(Filled(Tail(level)))) = Tail(next)
      BY <2>1, RestOfLevel
    <2>3. step \in Hash /\ next[1] = HashPair(level[1], step)
      <3>1. 1 \in 1..((Len(level) + 1) \div 2) /\ 1 \in 1..Len(level) /\ 2 * 1 - 1 = 1 /\ 2 * 1 = 2
        BY <1>2
      <3>2. Even(level) \in Seq(Hash) /\ Even(level)[1] = level[1]
        BY <3>1, EvenLevel
      <3>3. 2 \in 1..Len(Even(level)) /\ next[1] = HashPair(Even(level)[1], Even(level)[2])
        BY <3>1, PairsLevel
      <3>4. Even(level)[2] \in Hash
        BY <3>2, <3>3, ElementOfSeq
      <3> QED
        BY <2>2, <3>2, <3>3, <3>4
    <2>4. /\ NextLevel(level) = next
          /\ NextRest(x) = [rest |-> Tail(next), steps |-> Append(x.steps, step)]
      BY <1>1, <1>4, <2>2 DEF NextRest, NextLevel
    <2> HIDE DEF step, next
    <2>5. RootFromBranch(leaf, Append(x.steps, step)) = next[1]
      BY <1>1, <2>3, LeftAppend
    <2>6. Append(x.steps, step) \in Seq(Hash)
      BY <1>1, <2>3, AppendProperties
    <2> DEFINE y == [rest |-> Tail(next), steps |-> Append(x.steps, step)]
    <2>7. y \in [rest : {Tail(next)}, steps : Seq(Hash)] /\ RootFromBranch(leaf, y.steps) = next[1]
      BY <2>5, <2>6
    <2> HIDE DEF y
    <2>8. y \in BesideTheWay(Hash, leaf, next)
      BY <2>7 DEF BesideTheWay
    <2> QED
      BY <2>4, <2>8 DEF y
  <1> QED
    BY <1>3, <1>4

LEMMA LeafFirst ==
  ASSUME NEW Hash, NEW leaf \in Hash, NEW hashes \in Seq(Hash)
  PROVE  /\ <<leaf>> \o hashes \in Seq(Hash)
         /\ <<leaf>> \o hashes # <<>>
         /\ Len(<<leaf>> \o hashes) = Len(hashes) + 1
         /\ (<<leaf>> \o hashes)[1] = leaf
         /\ Tail(<<leaf>> \o hashes) = hashes
  <1> DEFINE one == <<leaf>>
             all == one \o hashes
  <1>1. one \in Seq(Hash) /\ Len(one) = 1 /\ one[1] = leaf
    OBVIOUS
  <1>2. Len(hashes) \in Nat
    BY LenProperties
  <1> HIDE DEF one
  <1>3. /\ all \in Seq(Hash) /\ Len(all) = 1 + Len(hashes)
        /\ \A i \in 1..(1 + Len(hashes)) : all[i] = IF i <= 1 THEN one[i] ELSE hashes[i - 1]
    <2>1. /\ all \in Seq(Hash) /\ Len(all) = Len(one) + Len(hashes)
          /\ \A i \in 1..(Len(one) + Len(hashes)) : all[i] = IF i <= Len(one) THEN one[i] ELSE hashes[i - Len(one)]
      BY <1>1, ConcatProperties
    <2> HIDE DEF all
    <2> QED
      BY <1>1, <2>1
  <1> HIDE DEF all
  <1>4. all # <<>> /\ all[1] = leaf
    BY <1>1, <1>2, <1>3, EmptySeq
  <1>5. /\ Tail(all) \in Seq(Hash) /\ Len(Tail(all)) = Len(hashes)
        /\ \A i \in 1..Len(hashes) : Tail(all)[i] = all[i + 1]
    BY <1>2, <1>3, <1>4, HeadTailProperties
  <1>6. \A i \in 1..Len(hashes) : Tail(all)[i] = hashes[i]
    BY <1>2, <1>3, <1>5
  <1>7. Tail(all) = hashes
    BY <1>5, <1>6, SeqEqual
  <1> QED
    BY <1>2, <1>3, <1>4, <1>7 DEF all, one

\* The loop of coinbase_branch, along a loop of merkle_root.
IsCoinbaseLoop(hashes, f) ==
  f = [k \in 0..Len(hashes) |-> IF k = 0 THEN [rest |-> hashes, steps |-> <<>>] ELSE NextRest(f[k - 1])]

LEMMA CoinbaseLoop ==
  ASSUME NEW Hash, Closed(Hash), NEW leaf \in Hash, NEW hashes \in Seq(Hash),
         NEW levels, IsLevels(Hash, <<leaf>> \o hashes, levels)
  PROVE  \E f : /\ f[0] = [rest |-> hashes, steps |-> <<>>]
                /\ \A k \in 1..Len(hashes) : f[k] = NextRest(f[k - 1])
                /\ \A k \in 0..Len(hashes) : f[k] \in BesideTheWay(Hash, leaf, levels[k])
                /\ CoinbaseBranch(hashes) = f[Len(hashes)].steps
  <1> DEFINE n == Len(hashes)
             S == [k \in 0..n |-> BesideTheWay(Hash, leaf, levels[k])]
             step == [k \in 1..n |-> [x \in S[k - 1] |-> NextRest(x)]]
             loop == CHOOSE g : IsCoinbaseLoop(hashes, g)
  <1>1. n \in Nat
    BY LenProperties
  <1>2. [rest |-> hashes, steps |-> <<>>] \in S[0]
    <2>1. RootFromBranch(leaf, <<>>) = leaf /\ <<>> \in Seq(Hash)
      BY LeftEmpty
    <2>2. levels[0] = <<leaf>> \o hashes
      BY DEF IsLevels
    <2>3. Tail(<<leaf>> \o hashes) = hashes /\ (<<leaf>> \o hashes)[1] = leaf
      BY LeafFirst
    <2>4. S[0] = BesideTheWay(Hash, leaf, levels[0])
      BY <1>1
    <2> DEFINE y == [rest |-> hashes, steps |-> <<>>]
    <2>5. y \in [rest : {Tail(levels[0])}, steps : Seq(Hash)] /\ RootFromBranch(leaf, y.steps) = levels[0][1]
      BY <2>1, <2>2, <2>3
    <2> HIDE DEF y, S
    <2> QED
      BY <2>4, <2>5 DEF BesideTheWay, y
  <1>3. ASSUME NEW k \in 1..n, NEW x \in S[k - 1]
        PROVE  step[k][x] = NextRest(x) /\ NextRest(x) \in S[k]
    <2>1. k \in 0..n /\ k - 1 \in 0..n
      BY <1>1
    <2>2. levels[k - 1] \in Seq(Hash) /\ levels[k - 1] # <<>> /\ levels[k] = NextLevel(levels[k - 1])
      <3>1. Len(<<leaf>> \o hashes) = n + 1
        BY LeafFirst
      <3>2. k \in 1..(n + 1) /\ k - 1 \in 0..(n + 1)
        BY <1>1
      <3>3. levels[k - 1] \in LevelIn(Hash, (n + 1) - (k - 1)) /\ levels[k] = NextLevel(levels[k - 1])
        BY <3>1, <3>2 DEF IsLevels
      <3>4. levels[k - 1] \in Seq(Hash) /\ Len(levels[k - 1]) >= 1
        BY <3>3 DEF LevelIn
      <3> QED
        BY <3>3, <3>4, EmptySeq
    <2>3. x \in BesideTheWay(Hash, leaf, levels[k - 1])
      BY <2>1
    <2>4. NextRest(x) \in BesideTheWay(Hash, leaf, levels[k])
      BY <2>2, <2>3, StaysBesideTheWay
    <2> QED
      BY <2>1, <2>4
  <1> HIDE DEF step
  <1>4. PICK g : IsLoop(g, n, S, [rest |-> hashes, steps |-> <<>>], step)
    <2>1. \A k \in 1..n : \A x \in S[k - 1] : step[k][x] \in S[k]
      BY <1>3
    <2>2. n \in Nat /\ [rest |-> hashes, steps |-> <<>>] \in S[0]
      BY <1>1, <1>2
    <2> HIDE DEF n, S, loop
    <2> QED
      BY <2>1, <2>2, LoopRuns
  <1> HIDE DEF S
  <1>5. \A k \in 1..n : k \in 0..n /\ k - 1 \in 0..n
    BY <1>1
  <1>6. g[0] = [rest |-> hashes, steps |-> <<>>]
    BY <1>1, <1>4 DEF IsLoop
  <1>7. \A k \in 1..n : g[k] = NextRest(g[k - 1])
    BY <1>3, <1>4, <1>5 DEF IsLoop
  <1>8. IsCoinbaseLoop(hashes, g)
    <2>1. g = [k \in 0..n |-> g[k]]
      BY <1>4 DEF IsLoop
    <2>2. \A k \in 0..n : g[k] = IF k = 0 THEN [rest |-> hashes, steps |-> <<>>] ELSE NextRest(g[k - 1])
      BY <1>1, <1>6, <1>7
    <2> QED
      BY <2>1, <2>2 DEF IsCoinbaseLoop
  <1>9. IsCoinbaseLoop(hashes, loop)
    BY <1>8, Zenon
  <1>10. CoinbaseBranch(hashes) = loop[Len(hashes)].steps
    BY DEF CoinbaseBranch, IsCoinbaseLoop, NextRest
  <1> HIDE DEF loop
  <1>11. loop[0] = [rest |-> hashes, steps |-> <<>>] /\ \A k \in 1..n : loop[k] = NextRest(loop[k - 1])
    BY <1>1, <1>5, <1>9 DEF IsCoinbaseLoop
  <1>12. \A k \in 0..n : loop[k] = g[k]
    <2>1. \A k \in 1..n : loop[k - 1] = g[k - 1] => loop[k] = g[k]
      BY <1>7, <1>11
    <2>2. n \in Nat /\ loop[0] = g[0]
      BY <1>1, <1>6, <1>11
    <2> HIDE DEF n
    <2>3. SameRounds(loop, g, n)
      BY <2>1, <2>2 DEF SameRounds
    <2> QED
      BY <2>2, <2>3, SameLoop
  <1> QED
    BY <1>1, <1>4, <1>10, <1>11, <1>12 DEF S, IsLoop

\* The branch that is made before the coinbase is known leads from every
\* coinbase to the root of the block's tree.
THEOREM CoinbaseBranchGivesRoot ==
  ASSUME NEW Hash, Closed(Hash), NEW leaf \in Hash, NEW hashes \in Seq(Hash)
  PROVE  RootFromBranch(leaf, CoinbaseBranch(hashes)) = MerkleRoot(<<leaf>> \o hashes)
  <1> DEFINE all == <<leaf>> \o hashes
             n == Len(hashes)
  <1>1. all \in Seq(Hash) /\ all # <<>> /\ Len(all) = n + 1 /\ n \in Nat
    BY LeafFirst, LenProperties
  <1>2. PICK levels : IsLevels(Hash, all, levels) /\ MerkleRoot(all) = levels[n + 1][1]
    <2> HIDE DEF all
    <2>1. \E levels : IsLevels(Hash, all, levels) /\ MerkleRoot(all) = levels[Len(all)][1]
      BY <1>1, RootLoop
    <2> QED
      BY <1>1, <2>1
  <1>3. PICK f : /\ \A k \in 0..n : f[k] \in BesideTheWay(Hash, leaf, levels[k])
                 /\ CoinbaseBranch(hashes) = f[n].steps
    <2>1. \E f : /\ f[0] = [rest |-> hashes, steps |-> <<>>]
                 /\ \A k \in 1..n : f[k] = NextRest(f[k - 1])
                 /\ \A k \in 0..n : f[k] \in BesideTheWay(Hash, leaf, levels[k])
                 /\ CoinbaseBranch(hashes) = f[n].steps
      BY <1>2, CoinbaseLoop
    <2> QED
      BY <2>1
  <1> HIDE DEF all
  <1>4. n \in 0..n /\ n \in 0..(n + 1) /\ n + 1 \in 1..(n + 1) /\ (n + 1) - n = 1 /\ (n + 1) - 1 = n
    BY <1>1
  <1>5. levels[n] \in LevelIn(Hash, 1) /\ levels[n + 1] = NextLevel(levels[n])
    BY <1>1, <1>2, <1>4 DEF IsLevels
  <1>6. Len(levels[n]) = 1
    <2>1. levels[n] \in Seq(Hash) /\ Len(levels[n]) >= 1 /\ (Len(levels[n]) = 1 \/ Len(levels[n]) <= 1)
      BY <1>5 DEF LevelIn
    <2>2. Len(levels[n]) \in Nat
      BY <2>1, LenProperties
    <2>3. \A m \in Nat : m >= 1 /\ m <= 1 => m = 1
      OBVIOUS
    <2> QED
      BY <2>1, <2>2, <2>3
  <1>7. levels[n + 1] = levels[n]
    BY <1>5, <1>6 DEF NextLevel
  <1>8. RootFromBranch(leaf, f[n].steps) = levels[n][1]
    BY <1>3, <1>4 DEF BesideTheWay
  <1> QED
    BY <1>2, <1>3, <1>7, <1>8 DEF all

-----------------------------------------------------------------------------
(* The tree over the aux blocks: its size, its leaves and its proofs. *)

\* The loop of PowerOf2.
IsPowerLoop(h, f) ==
  f = [k \in 0..h |-> IF k = 0 THEN 1 ELSE 2 * f[k - 1]]

LEMMA PowerLoop ==
  ASSUME NEW h \in Nat
  PROVE  \E f : /\ f[0] = 1
                /\ \A k \in 1..h : f[k] = 2 * f[k - 1]
                /\ \A k \in 0..h : f[k] \in {p \in Nat : p > k}
                /\ PowerOf2(h) = f[h]
  <1> DEFINE n == h
             S == [k \in 0..n |-> {p \in Nat : p > k}]
             step == [k \in 1..n |-> [x \in S[k - 1] |-> 2 * x]]
             loop == CHOOSE g : IsPowerLoop(h, g)
  <1>1. n \in Nat
    BY LenProperties
  <1>2. 1 \in S[0]
    BY <1>1
  <1>3. ASSUME NEW k \in 1..n, NEW x \in S[k - 1]
        PROVE  step[k][x] = 2 * x /\ 2 * x \in S[k]
    <2>1. k \in 0..n /\ k - 1 \in 0..n /\ x \in Nat /\ x > k - 1
      BY <1>1
    <2>2. 2 * x \in Nat /\ 2 * x > k
      BY <2>1
    <2> QED
      BY <2>1, <2>2
  <1> HIDE DEF step
  <1>4. PICK g : IsLoop(g, n, S, 1, step)
    <2>1. \A k \in 1..n : \A x \in S[k - 1] : step[k][x] \in S[k]
      BY <1>3
    <2>2. n \in Nat /\ 1 \in S[0]
      BY <1>1, <1>2
    <2> HIDE DEF n, S, loop
    <2> QED
      BY <2>1, <2>2, LoopRuns
  <1> HIDE DEF S
  <1>5. \A k \in 1..n : k \in 0..n /\ k - 1 \in 0..n
    BY <1>1
  <1>6. g[0] = 1
    BY <1>1, <1>4 DEF IsLoop
  <1>7. \A k \in 1..n : g[k] = 2 * g[k - 1]
    BY <1>3, <1>4, <1>5 DEF IsLoop
  <1>8. IsPowerLoop(h, g)
    <2>1. g = [k \in 0..n |-> g[k]]
      BY <1>4 DEF IsLoop
    <2>2. \A k \in 0..n : g[k] = IF k = 0 THEN 1 ELSE 2 * g[k - 1]
      BY <1>1, <1>6, <1>7
    <2> QED
      BY <2>1, <2>2 DEF IsPowerLoop
  <1>9. IsPowerLoop(h, loop)
    BY <1>8, Zenon
  <1>10. PowerOf2(h) = loop[h]
    BY DEF PowerOf2, IsPowerLoop
  <1> HIDE DEF loop
  <1>11. loop[0] = 1 /\ \A k \in 1..n : loop[k] = 2 * loop[k - 1]
    BY <1>1, <1>5, <1>9 DEF IsPowerLoop
  <1>12. \A k \in 0..n : loop[k] = g[k]
    <2>1. \A k \in 1..n : loop[k - 1] = g[k - 1] => loop[k] = g[k]
      BY <1>7, <1>11
    <2>2. n \in Nat /\ loop[0] = g[0]
      BY <1>1, <1>6, <1>11
    <2> HIDE DEF n
    <2>3. SameRounds(loop, g, n)
      BY <2>1, <2>2 DEF SameRounds
    <2> QED
      BY <2>2, <2>3, SameLoop
  <1> QED
    BY <1>1, <1>4, <1>10, <1>11, <1>12 DEF S, IsLoop

LEMMA Powers ==
  ASSUME NEW h \in Nat
  PROVE  /\ PowerOf2(h) \in Nat
         /\ PowerOf2(h) > h
         /\ PowerOf2(0) = 1
         /\ PowerOf2(h + 1) = 2 * PowerOf2(h)
  <1>1. PICK f : /\ f[0] = 1
                 /\ \A k \in 1..h : f[k] = 2 * f[k - 1]
                 /\ \A k \in 0..h : f[k] \in {p \in Nat : p > k}
                 /\ PowerOf2(h) = f[h]
    BY PowerLoop
  <1>2. PICK g : /\ g[0] = 1
                 /\ \A k \in 1..(h + 1) : g[k] = 2 * g[k - 1]
                 /\ PowerOf2(h + 1) = g[h + 1]
    <2> DEFINE m == h + 1
    <2>1. m \in Nat
      OBVIOUS
    <2> HIDE DEF m
    <2>2. \E g : /\ g[0] = 1
                 /\ \A k \in 1..m : g[k] = 2 * g[k - 1]
                 /\ \A k \in 0..m : g[k] \in {p \in Nat : p > k}
                 /\ PowerOf2(m) = g[m]
      BY <2>1, PowerLoop
    <2> QED
      BY <2>2 DEF m
  <1>3. f[h] = g[h]
    <2>1. \A k \in 1..h : f[k - 1] = g[k - 1] => f[k] = g[k]
      BY <1>1, <1>2
    <2>2. f[0] = g[0] /\ h \in 0..h
      BY <1>1, <1>2
    <2>3. SameRounds(f, g, h)
      BY <2>1, <2>2 DEF SameRounds
    <2> QED
      BY <2>2, <2>3, SameLoop
  <1>4. PowerOf2(0) = 1
    <2>1. \E e : /\ e[0] = 1
                 /\ \A k \in 1..0 : e[k] = 2 * e[k - 1]
                 /\ \A k \in 0..0 : e[k] \in {p \in Nat : p > k}
                 /\ PowerOf2(0) = e[0]
      BY PowerLoop
    <2> QED
      BY <2>1
  <1>5. f[h] \in Nat /\ f[h] > h
    BY <1>1
  <1>6. g[h + 1] = 2 * g[h]
    BY <1>2
  <1> QED
    BY <1>1, <1>2, <1>3, <1>4, <1>5, <1>6

LEMMA StirringNumbers == Factor \in Nat /\ Addend \in Nat /\ Factor % 2 = 1
  <1>1. Factor \in Nat
    BY SMTT(30) DEF Factor
  <1>2. Addend \in Nat
    BY SMTT(30) DEF Addend
  <1>3. Factor % 2 = 1
    BY SMTT(30) DEF Factor
  <1> QED
    BY <1>1, <1>2, <1>3

LEMMA StirsWithin ==
  ASSUME NEW r \in Nat, NEW size \in Nat \ {0}
  PROVE  Stirred(r, size) \in 0..(size - 1)
  <1>1. \A a \in Int : a % size \in 0..(size - 1)
    OBVIOUS
  <1>2. (r % size) \in Nat /\ (Factor % size) \in Nat
    BY <1>1, StirringNumbers
  <1>3. (r % size) * (Factor % size) \in Nat
    BY <1>2
  <1>4. (r % size) * (Factor % size) + Addend \in Int
    BY <1>3, StirringNumbers
  <1> QED
    BY <1>1, <1>4 DEF Stirred

\* The slot of a chain is a leaf of the tree.
LEMMA SlotInTree ==
  ASSUME NEW tried \in Nat, NEW id \in Nat, NEW size \in Nat, size > 0
  PROVE  ExpectedIndex(tried, id, size) \in 0..(size - 1)
  <1>1. Stirred(tried, size) + id \in Nat
    <2>1. Stirred(tried, size) \in 0..(size - 1)
      BY StirsWithin
    <2> QED
      BY <2>1
  <1> QED
    BY <1>1, StirsWithin DEF ExpectedIndex

\* Chains with slots of their own are where their slots are.
LEMMA LeavesOfChains ==
  ASSUME NEW Hash, NoHash \in Hash, NEW tried \in Nat, NEW h \in Nat,
         NEW ids \in Seq(Nat), NEW hashes \in Seq(Hash), Len(hashes) = Len(ids),
         Distinct(ids, tried, h)
  PROVE  /\ Leaves(ids, hashes, tried, h) \in Seq(Hash)
         /\ Len(Leaves(ids, hashes, tried, h)) = PowerOf2(h)
         /\ \A i \in 1..Len(ids) :
              /\ Slots(ids, tried, h)[i] = ExpectedIndex(tried, ids[i], PowerOf2(h))
              /\ Slots(ids, tried, h)[i] \in 0..(PowerOf2(h) - 1)
              /\ Leaves(ids, hashes, tried, h)[Slots(ids, tried, h)[i] + 1] = hashes[i]
  <1> DEFINE size == PowerOf2(h)
             slots == Slots(ids, tried, h)
             leaf(k) == IF \E i \in DOMAIN ids : slots[i] = k - 1
                        THEN hashes[CHOOSE i \in DOMAIN ids : slots[i] = k - 1]
                        ELSE NoHash
  <1>1. size \in Nat /\ size > 0
    BY Powers
  <1>2. DOMAIN ids = 1..Len(ids) /\ Len(ids) \in Nat
    BY LenProperties
  <1>3. \A i \in 1..Len(ids) : ids[i] \in Nat /\ hashes[i] \in Hash
    BY ElementOfSeq
  <1>4. \A i \in 1..Len(ids) : slots[i] = ExpectedIndex(tried, ids[i], size)
    BY <1>2 DEF Slots
  <1>5. \A i \in 1..Len(ids) : slots[i] \in 0..(size - 1)
    <2> HIDE DEF size, slots
    <2> QED
      BY <1>1, <1>3, <1>4, SlotInTree
  <1>6. \A i, j \in 1..Len(ids) : slots[i] = slots[j] => i = j
    BY <1>2 DEF Distinct
  <1>7. Leaves(ids, hashes, tried, h) = [k \in 1..size |-> leaf(k)]
    BY DEF Leaves
  <1> HIDE DEF size, slots
  <1>8. \A i \in 1..Len(ids) : slots[i] + 1 \in 1..size /\ leaf(slots[i] + 1) = hashes[i]
    <2> SUFFICES ASSUME NEW i \in 1..Len(ids)
                 PROVE  slots[i] + 1 \in 1..size /\ leaf(slots[i] + 1) = hashes[i]
      OBVIOUS
    <2>1. slots[i] + 1 \in 1..size /\ (slots[i] + 1) - 1 = slots[i]
      BY <1>1, <1>5
    <2> DEFINE j == CHOOSE j \in DOMAIN ids : slots[j] = (slots[i] + 1) - 1
    <2>2. \E q \in DOMAIN ids : slots[q] = (slots[i] + 1) - 1
      BY <1>2, <2>1
    <2>3. j \in DOMAIN ids /\ slots[j] = (slots[i] + 1) - 1
      BY <2>2
    <2>4. j = i
      <3> HIDE DEF j
      <3> QED
        BY <1>2, <1>6, <2>1, <2>3
    <2>5. leaf(slots[i] + 1) = hashes[j]
      BY <2>2
    <2> QED
      BY <2>1, <2>4, <2>5
  <1>9. \A k \in 1..size : leaf(k) \in Hash
    <2> SUFFICES ASSUME NEW k \in 1..size
                 PROVE  leaf(k) \in Hash
      OBVIOUS
    <2>1. CASE \E i \in DOMAIN ids : slots[i] = k - 1
      <3>1. (CHOOSE i \in DOMAIN ids : slots[i] = k - 1) \in DOMAIN ids
        BY <2>1
      <3>2. hashes[CHOOSE i \in DOMAIN ids : slots[i] = k - 1] \in Hash
        BY <1>2, <1>3, <3>1
      <3> QED
        BY <2>1, <3>2
    <2>2. CASE ~ \E i \in DOMAIN ids : slots[i] = k - 1
      BY <2>2
    <2> QED
      BY <2>1, <2>2
  <1> DEFINE leaves == [k \in 1..size |-> leaf(k)]
  <1>10. leaves \in Seq(Hash)
    <2> HIDE DEF leaf
    <2> QED
      BY <1>1, <1>9, IsASeq
  <1>11. Len(leaves) = size /\ \A k \in 1..size : leaves[k] = leaf(k)
    <2> HIDE DEF leaf
    <2> QED
      BY <1>1
  <1> HIDE DEF leaf, leaves
  <1>12. leaves = Leaves(ids, hashes, tried, h)
    BY <1>7 DEF leaves
  <1> QED
    BY <1>4, <1>5, <1>8, <1>10, <1>11, <1>12 DEF size, slots

\* Two nodes become one, until one is left.
LEMMA HalfLevel ==
  ASSUME NEW Hash, Closed(Hash), NEW level \in Seq(Hash), NEW half \in Nat, half > 0,
         Len(level) = 2 * half
  PROVE  /\ Len(level) > 1
         /\ Len(NextLevel(level)) = half
  <1>1. Len(level) # 1 /\ Len(level) > 1 /\ (Len(level) + 1) \div 2 = half
    OBVIOUS
  <1>2. level # <<>>
    BY <1>1, EmptySeq
  <1>3. Len(PairsOf(Even(level))) = (Len(level) + 1) \div 2
    BY <1>2, PairsLevel
  <1> QED
    BY <1>1, <1>3 DEF NextLevel

LEMMA OneMoreStep ==
  ASSUME NEW Hash, Closed(Hash), NEW leaf \in Hash, NEW index \in Nat,
         NEW level \in Seq(Hash), NEW x \in OnTheWay(Hash, leaf, index, level)
  PROVE  /\ Len(level) = 1 => Len(NextStep(x).steps) = Len(x.steps)
         /\ Len(level) > 1 => Len(NextStep(x).steps) = Len(x.steps) + 1
  <1>1. x.level = level /\ x.index \in 0..(Len(level) - 1) /\ x.steps \in Seq(Hash)
    BY DEF OnTheWay
  <1>4. Len(level) \in Nat
    BY LenProperties
  <1>2. CASE Len(level) = 1
    <2>1. ~ (Len(level) > 1)
      BY <1>2
    <2> QED
      BY <1>1, <1>2, <2>1 DEF NextStep
  <1>3. CASE Len(level) > 1
    <2>1. Len(level) # 1
      <3>1. \A m \in Nat : m > 1 => m # 1
        OBVIOUS
      <3> QED
        BY <1>3, <1>4, <3>1
    <2>2. Even(level)[Sibling(x.index) + 1] \in Hash
      BY <1>1, <1>3, OneStepUp
    <2> DEFINE step == Even(level)[Sibling(x.index) + 1]
    <2>3. NextStep(x).steps = Append(x.steps, step)
      BY <1>1, <2>1 DEF NextStep
    <2> HIDE DEF step
    <2>4. Len(Append(x.steps, step)) = Len(x.steps) + 1
      BY <1>1, <2>2, AppendProperties DEF step
    <2> QED
      BY <2>1, <2>3, <2>4
  <1>5. CASE Len(level) # 1 /\ ~ (Len(level) > 1)
    BY <1>5
  <1> QED
    BY <1>2, <1>3, <1>5

\* A branch in a tree of 2^h leaves has h steps.
LEMMA BranchLength ==
  ASSUME NEW Hash, Closed(Hash), NEW h \in Nat, NEW hashes \in Seq(Hash),
         Len(hashes) = PowerOf2(h), NEW index \in 0..(Len(hashes) - 1)
  PROVE  Len(BranchAt(hashes, index)) = h
  <1> DEFINE n == Len(hashes)
  <1>1. n \in Nat /\ n > h /\ hashes # <<>> /\ hashes[index + 1] \in Hash /\ index \in Nat
    <2>1. n \in Nat /\ n > h
      BY Powers
    <2>2. hashes # <<>>
      BY <2>1, EmptySeq
    <2>3. index \in Nat /\ index + 1 \in 1..n
      BY <2>1
    <2>4. hashes[index + 1] \in Hash
      BY <2>3, ElementOfSeq
    <2> QED
      BY <2>1, <2>2, <2>3, <2>4
  <1>2. PICK levels : IsLevels(Hash, hashes, levels)
    BY <1>1, RootLoop
  <1>3. PICK f : /\ f[0] = [level |-> hashes, index |-> index, steps |-> <<>>]
                 /\ \A k \in 1..n : f[k] = NextStep(f[k - 1])
                 /\ \A k \in 0..n : f[k] \in OnTheWay(Hash, hashes[index + 1], index, levels[k])
                 /\ BranchAt(hashes, index) = f[n].steps
    BY <1>2, BranchLoop
  <1> DEFINE Left(m) == IF m <= h THEN h - m ELSE 0
             Made(m) == IF m <= h THEN m ELSE h
             N == {m \in Nat : m <= n => /\ Len(levels[m]) = PowerOf2(Left(m))
                                         /\ Len(f[m].steps) = Made(m)}
  <1>4. 0 \in N
    <2>1. levels[0] = hashes /\ Len(f[0].steps) = 0 /\ Left(0) = h /\ Made(0) = 0
      BY <1>2, <1>3 DEF IsLevels
    <2> QED
      BY <2>1
  <1>5. ASSUME NEW m \in Nat, m \in N
        PROVE  m + 1 \in N
    <2> SUFFICES ASSUME m + 1 <= n
                 PROVE  /\ Len(levels[m + 1]) = PowerOf2(Left(m + 1))
                        /\ Len(f[m + 1].steps) = Made(m + 1)
      OBVIOUS
    <2>1. /\ m \in 0..n /\ m + 1 \in 1..n /\ (m + 1) - 1 = m
          /\ Len(levels[m]) = PowerOf2(Left(m)) /\ Len(f[m].steps) = Made(m)
      BY <1>1, <1>5
    <2>2. levels[m] \in Seq(Hash) /\ levels[m + 1] = NextLevel(levels[m])
      BY <1>2, <2>1 DEF IsLevels, LevelIn
    <2>3. /\ f[m] \in OnTheWay(Hash, hashes[index + 1], index, levels[m])
          /\ f[m + 1] = NextStep(f[m])
      BY <1>3, <2>1
    <2>4. /\ Len(levels[m]) = 1 => Len(f[m + 1].steps) = Len(f[m].steps)
          /\ Len(levels[m]) > 1 => Len(f[m + 1].steps) = Len(f[m].steps) + 1
      BY <1>1, <2>2, <2>3, OneMoreStep
    <2>5. CASE m < h
      <3>1. Left(m) = Left(m + 1) + 1 /\ Left(m + 1) \in Nat /\ Made(m + 1) = Made(m) + 1
        BY <2>5
      <3> HIDE DEF Left, Made, n
      <3>2. PowerOf2(Left(m)) = 2 * PowerOf2(Left(m + 1)) /\ PowerOf2(Left(m + 1)) \in Nat /\ PowerOf2(Left(m + 1)) > 0
        <4>1. /\ PowerOf2(Left(m + 1)) \in Nat
              /\ PowerOf2(Left(m + 1)) > Left(m + 1)
              /\ PowerOf2(Left(m + 1) + 1) = 2 * PowerOf2(Left(m + 1))
          BY <3>1, Powers
        <4> QED
          BY <3>1, <4>1
      <3>3. Len(levels[m]) > 1 /\ Len(levels[m + 1]) = PowerOf2(Left(m + 1))
        BY <2>1, <2>2, <3>2, HalfLevel
      <3> QED
        BY <2>1, <2>4, <3>1, <3>3
    <2>6. CASE ~ (m < h)
      <3>1. Left(m) = 0 /\ Left(m + 1) = 0 /\ Made(m) = h /\ Made(m + 1) = h
        BY <2>6
      <3> HIDE DEF Left, Made, n
      <3>2. PowerOf2(0) = 1
        BY Powers
      <3>3. Len(levels[m]) = 1 /\ levels[m + 1] = levels[m]
        BY <2>1, <2>2, <3>1, <3>2 DEF NextLevel
      <3> QED
        BY <2>1, <2>4, <3>1, <3>2, <3>3
    <2> QED
      BY <2>5, <2>6
  <1>6. n \in N
    <2> HIDE DEF N
    <2> QED
      BY <1>1, <1>4, <1>5, NumberInduction
  <1>7. Len(f[n].steps) = Made(n) /\ Made(n) = h
    BY <1>1, <1>6
  <1> QED
    BY <1>3, <1>7

\* What the aux chains' nodes ask of a proof: the slot is the one the chain's id
\* and the nonce give in a tree of the committed size, that size is the branch's
\* length in steps, and the branch leads from the chain's block to the committed
\* root.  A nonce for which the slots differ gives every chain such a proof.
THEOREM AuxProofsLead ==
  ASSUME NEW Hash, Closed(Hash), NoHash \in Hash, NEW tried \in Nat, NEW h \in Nat,
         NEW ids \in Seq(Nat), NEW hashes \in Seq(Hash), Len(hashes) = Len(ids),
         Distinct(ids, tried, h), NEW i \in 1..Len(ids)
  PROVE  LET tree  == Tree(ids, hashes, tried, h)
             proof == tree.proofs[i]
         IN  /\ proof.index = ExpectedIndex(tree.nonce, ids[i], tree.size)
             /\ tree.size = PowerOf2(Len(proof.branch))
             /\ RootFromBranchAt(hashes[i], proof.branch, proof.index) = tree.root
  <1> DEFINE leaves == Leaves(ids, hashes, tried, h)
             slots == Slots(ids, tried, h)
             slot == slots[i]
  <1>1. /\ leaves \in Seq(Hash) /\ Len(leaves) = PowerOf2(h)
        /\ slot = ExpectedIndex(tried, ids[i], PowerOf2(h))
        /\ slot \in 0..(PowerOf2(h) - 1)
        /\ leaves[slot + 1] = hashes[i]
    <2>1. /\ leaves \in Seq(Hash) /\ Len(leaves) = PowerOf2(h)
          /\ \A q \in 1..Len(ids) :
               /\ slots[q] = ExpectedIndex(tried, ids[q], PowerOf2(h))
               /\ slots[q] \in 0..(PowerOf2(h) - 1)
               /\ leaves[slots[q] + 1] = hashes[q]
      BY LeavesOfChains
    <2> HIDE DEF leaves, slots
    <2> QED
      BY <2>1
  <1>2. /\ Tree(ids, hashes, tried, h).proofs[i] = [index |-> slot, branch |-> BranchAt(leaves, slot)]
        /\ Tree(ids, hashes, tried, h).root = MerkleRoot(leaves)
        /\ Tree(ids, hashes, tried, h).size = PowerOf2(h)
        /\ Tree(ids, hashes, tried, h).nonce = tried
    <2>1. i \in DOMAIN ids
      BY LenProperties
    <2> QED
      BY <2>1 DEF Tree
  <1> HIDE DEF leaves, slot
  <1>3. Len(BranchAt(leaves, slot)) = h
    BY <1>1, BranchLength
  <1>4. RootFromBranchAt(leaves[slot + 1], BranchAt(leaves, slot), slot) = MerkleRoot(leaves)
    BY <1>1, BranchGivesRoot
  <1> QED
    BY <1>1, <1>2, <1>3, <1>4

-----------------------------------------------------------------------------
(* A tree in which the slots of different chains differ is always found. *)

\* Dividing with remainder.
LEMMA Divided ==
  ASSUME NEW x \in Int, NEW m \in Nat \ {0}
  PROVE  \E q \in Int : x = m * q + (x % m) /\ x % m \in 0..(m - 1)
  <1>1. x = m * (x \div m) + (x % m)
    OBVIOUS
  <1>2. x % m \in 0..(m - 1)
    OBVIOUS
  <1>3. x \div m \in Int
    OBVIOUS
  <1> QED
    BY <1>1, <1>2, <1>3

\* What is a multiple of a power of two after an odd factor was one before it.
LEMMA OddFactor ==
  ASSUME NEW a \in Int, a % 2 = 1
  PROVE  \A h \in Nat : \A d, k \in Int : d * a = PowerOf2(h) * k => \E m \in Int : d = PowerOf2(h) * m
  <1> DEFINE N == {h \in Nat : \A d, k \in Int : d * a = PowerOf2(h) * k => \E m \in Int : d = PowerOf2(h) * m}
  <1>1. 0 \in N
    <2>1. PowerOf2(0) = 1
      BY Powers
    <2>2. \A d \in Int : d = PowerOf2(0) * d
      BY <2>1
    <2> QED
      BY <2>2
  <1>2. ASSUME NEW h \in Nat, h \in N PROVE h + 1 \in N
    <2> SUFFICES ASSUME NEW d \in Int, NEW k \in Int, d * a = PowerOf2(h + 1) * k
                 PROVE  \E m \in Int : d = PowerOf2(h + 1) * m
      OBVIOUS
    <2> DEFINE p == PowerOf2(h)
    <2>1. p \in Nat /\ PowerOf2(h + 1) = 2 * p
      BY Powers
    <2>2. PICK b \in Int : a = 2 * b + 1
      <3>1. a = 2 * (a \div 2) + 1 /\ a \div 2 \in Int
        OBVIOUS
      <3> QED
        BY <3>1
    <2> HIDE DEF p
    <2>3. d = 2 * (p * k - d * b)
      <3>1. d * a = 2 * (d * b) + d
        BY <2>2
      <3>2. d * a = 2 * (p * k)
        BY <2>1
      <3>3. d * b \in Int /\ p * k \in Int
        BY <2>1
      <3> QED
        BY <3>1, <3>2, <3>3
    <2> DEFINE e == p * k - d * b
    <2>4. e \in Int
      BY <2>1
    <2>5. e * a = p * k
      <3>1. 2 * (e * a) = (2 * e) * a /\ 2 * (p * k) = (2 * p) * k
        BY <2>1, <2>4
      <3>2. 2 * (e * a) = 2 * (p * k)
        <4> HIDE DEF e
        <4> QED
          BY <2>1, <2>3, <3>1 DEF e
      <3>3. e * a \in Int /\ p * k \in Int
        BY <2>1, <2>4
      <3> HIDE DEF e
      <3> QED
        BY <3>2, <3>3
    <2>6. PICK m \in Int : e = p * m
      BY <1>2, <2>4, <2>5 DEF p
    <2>7. d = (2 * p) * m
      BY <2>1, <2>3, <2>6
    <2> QED
      BY <2>1, <2>7
  <1> HIDE DEF N
  <1>3. Nat \subseteq N
    BY <1>1, <1>2, NumberInduction
  <1> QED
    BY <1>3 DEF N

\* Numbers of the same remainder differ by a multiple.
LEMMA SameRemainder ==
  ASSUME NEW m \in Nat \ {0}, NEW x \in Int, NEW y \in Int, x % m = y % m
  PROVE  \E k \in Int : x - y = m * k
  <1>1. PICK q \in Int : x = m * q + (x % m) /\ x % m \in 0..(m - 1)
    BY Divided
  <1>2. PICK r \in Int : y = m * r + (y % m)
    BY Divided
  <1>3. m * q \in Int /\ m * r \in Int /\ x % m \in Int
    BY <1>1
  <1> DEFINE k == q - r
  <1>4. m * k = m * q - m * r /\ k \in Int
    OBVIOUS
  <1>5. x - y = m * q - m * r
    BY <1>1, <1>2, <1>3
  <1> HIDE DEF k
  <1> QED
    BY <1>4, <1>5

LEMMA SmallMultiple ==
  ASSUME NEW m \in Nat \ {0}, NEW d \in Int, NEW k \in Int, d = m * k, d < m, 0 - m < d
  PROVE  d = 0
  <1>1. k >= 1 => m * k >= m
    OBVIOUS
  <1>2. k <= 0 - 1 => m * k <= 0 - m
    OBVIOUS
  <1>3. k = 0
    BY <1>1, <1>2
  <1> QED
    BY <1>3

\* Stirring keeps numbers of a tree apart: the factor is odd, the tree's size a power of two.
LEMMA StirredApart ==
  ASSUME NEW h \in Nat, NEW x \in Nat, NEW y \in Nat,
         Stirred(x, PowerOf2(h)) = Stirred(y, PowerOf2(h))
  PROVE  x % PowerOf2(h) = y % PowerOf2(h)
  <1> DEFINE p == PowerOf2(h)
             c == Factor % p
             u == x % p
             v == y % p
             uc == u * c
             vc == v * c
  <1>1. p \in Nat \ {0} /\ p = PowerOf2(h)
    BY Powers
  <1> HIDE DEF p
  <1>2. u \in 0..(p - 1) /\ v \in 0..(p - 1) /\ c \in 0..(p - 1)
    <2>1. \A r \in Int : r % p \in 0..(p - 1)
      BY <1>1
    <2> QED
      BY <2>1, StirringNumbers
  <1>3. (uc + Addend) % p = (vc + Addend) % p
    BY <1>1 DEF Stirred
  <1> HIDE DEF u, v, c
  <1>4. uc \in Int /\ vc \in Int
    BY <1>2
  <1>5. uc - vc = (u - v) * c
    BY <1>2
  <1> HIDE DEF uc, vc
  <1>6. \E k \in Int : (u - v) * c = p * k
    <2>1. uc + Addend \in Int /\ vc + Addend \in Int
      BY <1>4, StirringNumbers
    <2>2. PICK k \in Int : (uc + Addend) - (vc + Addend) = p * k
      BY <1>1, <1>3, <2>1, SameRemainder
    <2>3. uc - vc = p * k
      <3>1. p * k \in Int
        BY <1>1
      <3> QED
        BY <1>4, <2>2, <3>1, StirringNumbers
    <2> QED
      BY <1>5, <2>3
  <1>7. CASE h = 0
    <2>1. p = 1
      BY <1>1, <1>7, Powers
    <2> QED
      BY <1>1, <1>2, <2>1 DEF u, v
  <1>8. CASE h # 0
    <2>1. c % 2 = 1
      <3>1. PICK g \in Int : p = 2 * g
        <4>1. h - 1 \in Nat /\ (h - 1) + 1 = h
          BY <1>8
        <4>2. p = 2 * PowerOf2(h - 1) /\ PowerOf2(h - 1) \in Int
          BY <1>1, <4>1, Powers
        <4> QED
          BY <4>2
      <3>2. PICK q \in Int : Factor = p * q + c
        <4>1. Factor \in Int
          BY StirringNumbers
        <4>2. \E q \in Int : Factor = p * q + (Factor % p)
          BY <1>1, <4>1, Divided
        <4> QED
          BY <4>2 DEF c
      <3>3. p * q = 2 * (g * q) /\ g * q \in Int
        BY <3>1
      <3> DEFINE gq == g * q
      <3>4. Factor = 2 * gq + c /\ gq \in Int
        BY <3>2, <3>3
      <3> HIDE DEF gq
      <3> QED
        BY <1>2, <3>4, StirringNumbers
    <2> DEFINE d == u - v
    <2>2. d \in Int
      BY <1>2
    <2>3. \E m \in Int : d = p * m
      <3>1. \E k \in Int : d * c = PowerOf2(h) * k
        BY <1>1, <1>6
      <3> HIDE DEF d
      <3>2. c \in Int
        BY <1>2
      <3>3. \A z, k \in Int : z * c = PowerOf2(h) * k => \E m \in Int : z = PowerOf2(h) * m
        BY <2>1, <3>2, OddFactor
      <3> QED
        BY <1>1, <2>2, <3>1, <3>3
    <2>4. d < p /\ 0 - p < d
      BY <1>1, <1>2
    <2> HIDE DEF d
    <2>5. d = 0
      BY <1>1, <2>2, <2>3, <2>4, SmallMultiple
    <2>6. u = v
      BY <1>2, <2>5 DEF d
    <2> QED
      BY <1>1, <2>6 DEF u, v
  <1> QED
    BY <1>7, <1>8

\* In a tree with a leaf for each number that a chain's id may be, different chains have
\* different slots, whatever the nonce is.
THEOREM WideTreesAreDistinct ==
  ASSUME NEW h \in Nat, NEW nonces \in Nat, NEW ids \in Seq(0..(PowerOf2(h) - 1)), IsInjective(ids)
  PROVE  Distinct(ids, nonces, h)
  <1> DEFINE p == PowerOf2(h)
             base == Stirred(nonces, p)
  <1>1. p \in Nat \ {0}
    BY Powers
  <1>2. base \in Nat
    <2>1. base \in 0..(p - 1)
      BY <1>1, StirsWithin
    <2> QED
      BY <1>1, <2>1
  <1>3. \A i \in DOMAIN ids : ids[i] \in 0..(p - 1) /\ Slots(ids, nonces, h)[i] = Stirred(base + ids[i], p)
    <2>1. \A i \in DOMAIN ids : ids[i] \in 0..(p - 1)
      <3> DEFINE S == 0..(p - 1)
      <3> HIDE DEF S
      <3>1. ids \in Seq(S)
        BY DEF S
      <3>2. \A i \in DOMAIN ids : ids[i] \in S
        BY <3>1, ElementOfSeq
      <3> QED
        BY <3>2 DEF S
    <2>2. \A i \in DOMAIN ids : Slots(ids, nonces, h)[i] = Stirred(base + ids[i], p)
      BY DEF Slots, ExpectedIndex
    <2> QED
      BY <2>1, <2>2
  <1> SUFFICES ASSUME NEW i \in DOMAIN ids, NEW j \in DOMAIN ids,
                      Slots(ids, nonces, h)[i] = Slots(ids, nonces, h)[j]
               PROVE  i = j
    BY DEF Distinct
  <1> DEFINE x == base + ids[i]
             y == base + ids[j]
  <1> HIDE DEF base
  <1>4. x \in Nat /\ y \in Nat /\ Stirred(x, p) = Stirred(y, p)
    BY <1>1, <1>2, <1>3
  <1>5. x % p = y % p
    <2> HIDE DEF x, y
    <2> QED
      BY <1>4, StirredApart
  <1>6. x - y = ids[i] - ids[j] /\ ids[i] \in 0..(p - 1) /\ ids[j] \in 0..(p - 1)
    BY <1>2, <1>3
  <1> DEFINE d == ids[i] - ids[j]
  <1> HIDE DEF p, x, y
  <1>7. d \in Int /\ d < p /\ 0 - p < d /\ x - y = d
    <2>1. \A a, b \in 0..(p - 1) : a - b \in Int /\ a - b < p /\ 0 - p < a - b
      BY <1>1
    <2> QED
      BY <1>6, <2>1
  <1>8. \E k \in Int : x - y = p * k
    <2>1. x \in Int /\ y \in Int
      BY <1>4
    <2> QED
      BY <1>1, <1>5, <2>1, SameRemainder
  <1> HIDE DEF d
  <1>9. d = 0
    BY <1>1, <1>7, <1>8, SmallMultiple
  <1>10. ids[i] = ids[j]
    BY <1>1, <1>6, <1>9 DEF d
  <1> QED
    BY <1>10 DEF IsInjective

-----------------------------------------------------------------------------
(* The search for a tree always ends with one. *)

\* A power of two is above its exponent.
LEMMA PowerAbove == \A n \in Nat : PowerOf2(n) \in Nat /\ PowerOf2(n) >= n + 1
  BY Powers

LEMMA WithinSeq ==
  ASSUME NEW S, NEW T, S \subseteq T, NEW s \in Seq(S)
  PROVE  s \in Seq(T) /\ Len(s) \in Nat
  OBVIOUS

\* The search starts no higher than any tree with a leaf for each chain.
LEMMA StartsLow ==
  ASSUME NEW ids, Len(ids) \in Nat, NEW h \in Nat, PowerOf2(h) >= Len(ids)
  PROVE  StartHeight(ids) \in 0..h
  <1> DEFINE H == {g \in Nat : PowerOf2(g) >= Len(ids)}
  <1>1. h \in H /\ Len(ids) \in H
    BY PowerAbove
  <1>2. PICK least \in H : \A g \in H : least <= g
    <2> HIDE DEF H
    <2>1. H \subseteq Nat /\ H # {}
      BY <1>1 DEF H
    <2> QED
      BY <2>1, LeastNumber
  <1>3. least \in 0..Len(ids) /\ PowerOf2(least) >= Len(ids)
    BY <1>1, <1>2
  <1>4. \A g \in 0..(least - 1) : PowerOf2(g) < Len(ids)
    <2> SUFFICES ASSUME NEW g \in 0..(least - 1) PROVE PowerOf2(g) < Len(ids)
      OBVIOUS
    <2> HIDE DEF H
    <2>1. g \in Nat /\ g < least /\ PowerOf2(g) \in Nat
      <3>1. g \in Nat /\ g < least
        BY <1>3
      <3> QED
        BY <3>1, PowerAbove
    <2>2. g \notin H
      BY <1>2, <1>3, <2>1
    <2> QED
      BY <2>1, <2>2 DEF H
  <1> DEFINE start == StartHeight(ids)
  <1>5. /\ start \in 0..Len(ids) /\ PowerOf2(start) >= Len(ids)
        /\ \A g \in 0..(start - 1) : PowerOf2(g) < Len(ids)
    BY <1>3, <1>4 DEF StartHeight
  <1> HIDE DEF start
  <1>6. ~(h < start)
    <2> SUFFICES ASSUME h < start PROVE FALSE
      OBVIOUS
    <2>1. h \in 0..(start - 1)
      BY <1>5
    <2>2. PowerOf2(h) < Len(ids)
      BY <1>5, <2>1
    <2> QED
      BY <2>2, PowerAbove
  <1>7. start \in 0..h
    BY <1>5, <1>6
  <1> QED
    BY <1>7 DEF start

\* A chain's id is read back from the version of its blocks (aux_block_version, chain_id_of).
LEMMA IdsReadBack ==
  ASSUME given.ids \in Seq(Nat)
  PROVE  AuxIds = given.ids
  <1>1. \A id \in Nat : ChainIdOf(AuxVersion(AuxTemplateVersion, id)) = id
    <2> DEFINE low == AuxTemplateVersion % 256
    <2>1. low = 4
      BY SMT DEF AuxTemplateVersion
    <2>2. \A id \in Nat : AuxVersion(AuxTemplateVersion, id) = id * 65536 + 256 + low
      BY DEF AuxVersion
    <2> HIDE DEF low
    <2>3. \A id \in Nat : (id * 65536 + 256 + low) \div 65536 = id
      BY <2>1, SMT
    <2> QED
      BY <2>2, <2>3 DEF ChainIdOf
  <1>2. \A i : AuxHeader(i).version = AuxVersion(AuxTemplateVersion, given.ids[i])
    BY SMT DEF AuxHeader, BlockHeader
  <1>3. \A i \in DOMAIN given.ids : given.ids[i] \in Nat
    BY ElementOfSeq
  <1>4. AuxIds = [i \in DOMAIN given.ids |-> given.ids[i]]
    BY <1>1, <1>2, <1>3 DEF AuxIds
  <1> QED
    BY <1>4

\* The chains' ids differ and have IdBits bits; a nonce is only counted in a tree that is too
\* small to keep all such ids apart.
SearchInv ==
  /\ given.ids \in Seq(Ids) /\ IsInjective(given.ids) /\ Len(given.ids) <= PowerOf2(IdBits)
  /\ height \in 0..IdBits /\ nonce \in Nat
  /\ nonce # 0 => height < IdBits
  /\ stage # "TooMany"

LEMMA BuildingBounds ==
  /\ IdBits \in Nat /\ MaxHeight \in Nat /\ 2 <= IdBits /\ IdBits <= MaxHeight
  /\ MaxChains \in Nat /\ MaxChains <= PowerOf2(IdBits)
  /\ NonceTries \in Nat /\ NonceTries # 0
  <1>1. /\ IdBits \in 2..MaxHeight /\ MaxHeight \in 0..30
        /\ MaxChains \in 0..PowerOf2(IdBits) /\ NonceTries \in Nat \ {0}
    BY BuildingAssumption
  <1>2. IdBits \in Nat
    BY <1>1
  <1> QED
    BY <1>1, <1>2, PowerAbove

LEMMA IdsGiven ==
  /\ Plain.ids = <<2>>
  /\ \A u, p : Miner(u, p).ids = Plain.ids
  /\ \A s : Merging(s).ids = s
  /\ \A s, h, t, w, p : Template(s, h, t, w, p).ids = s
  /\ \A n : Carrying(n).ids = Plain.ids
  /\ \A b, a, d, hash : Share(b, a, d, hash).ids = Plain.ids
  BY SMT DEF Plain, Miner, Merging, Template, Carrying, Share

LEMMA InitSearch == BuildInit => SearchInv
  <1> SUFFICES ASSUME BuildInit PROVE SearchInv
    OBVIOUS
  <1> DEFINE Good(ids) == ids \in Seq(Ids) /\ IsInjective(ids) /\ Len(ids) <= PowerOf2(IdBits)
  <1>1. Good(<<>>) /\ Good(<<2>>)
    <2>1. PowerOf2(IdBits) \in Nat /\ PowerOf2(IdBits) >= 3
      BY BuildingBounds, PowerAbove
    <2>2. 2 \in Ids
      BY <2>1 DEF Ids
    <2>3. <<>> \in Seq(Ids) /\ <<2>> \in Seq(Ids) /\ Len(<<>>) = 0 /\ Len(<<2>>) = 1
      BY <2>2
    <2>4. IsInjective(<<>>) /\ IsInjective(<<2>>)
      BY DEF IsInjective
    <2> QED
      BY <2>1, <2>3, <2>4
  <1>2. given \in Miners \union Chains \union Templates \union Shares
    BY DEF BuildInit
  <1> HIDE DEF Good
  <1>3. Good(given.ids)
    <2>1. CASE given \in Miners
      <3>1. \E u, p : given = Miner(u, p)
        BY <2>1 DEF Miners
      <3> QED
        BY <1>1, <3>1, IdsGiven
    <2>2. CASE given \in Chains
      <3>1. PICK n \in 0..MaxChains : \E s \in [1..n -> Ids] : IsInjective(s) /\ given = Merging(s)
        BY <2>2 DEF Chains
      <3> PICK s \in [1..n -> Ids] : IsInjective(s) /\ given = Merging(s)
        BY <3>1
      <3>2. n \in Nat /\ n <= PowerOf2(IdBits)
        BY BuildingBounds, PowerAbove
      <3>3. s \in Seq(Ids) /\ Len(s) = n
        BY <3>2
      <3> QED
        BY <3>2, <3>3, IdsGiven DEF Good
    <2>3. CASE given \in Templates
      <3>1. \/ \E s \in {<<>>, <<2>>} : \E h, t, w, p : given = Template(s, h, t, w, p)
            \/ \E n : given = Carrying(n)
        BY <2>3 DEF Templates
      <3> QED
        BY <1>1, <3>1, IdsGiven
    <2>4. CASE given \in Shares
      <3>1. \E b, a, d, hash : given = Share(b, a, d, hash)
        BY <2>4 DEF Shares
      <3> QED
        BY <1>1, <3>1, IdsGiven
    <2> QED
      BY <1>2, <2>1, <2>2, <2>3, <2>4
  <1>4. height \in 0..IdBits
    <2>1. Len(given.ids) \in Nat /\ PowerOf2(IdBits) >= Len(given.ids)
      <3>1. given.ids \in Seq(Ids) /\ Len(given.ids) <= PowerOf2(IdBits)
        BY <1>3 DEF Good
      <3>2. Len(given.ids) \in Nat /\ PowerOf2(IdBits) \in Nat
        BY <3>1, BuildingBounds, PowerAbove, WithinSeq
      <3> QED
        BY <3>1, <3>2
    <2> QED
      BY <2>1, BuildingBounds, StartsLow DEF BuildInit
  <1> QED
    BY <1>3, <1>4 DEF SearchInv, BuildInit, Good

LEMMA NextSearch == SearchInv /\ [BuildNext]_buildVars => SearchInv'
  <1> SUFFICES ASSUME SearchInv, [BuildNext]_buildVars PROVE SearchInv'
    OBVIOUS
  <1>1. CASE TryNextNonce
    <2>1. height # IdBits
      <3> SUFFICES ASSUME height = IdBits PROVE Distinct(AuxIds, nonce, height)
        BY <1>1 DEF TryNextNonce
      <3>1. given.ids \in Seq(0..(PowerOf2(IdBits) - 1)) /\ IsInjective(given.ids) /\ nonce \in Nat
        BY DEF SearchInv, Ids
      <3>2. given.ids \in Seq(Nat)
        <4>1. Ids \subseteq Nat
          BY BuildingBounds, PowerAbove DEF Ids
        <4>2. given.ids \in Seq(Ids)
          BY DEF SearchInv
        <4> QED
          BY <4>1, <4>2, WithinSeq
      <3> QED
        BY <3>1, <3>2, BuildingBounds, IdsReadBack, WideTreesAreDistinct
    <2> QED
      BY <1>1, <2>1, BuildingBounds DEF TryNextNonce, SearchInv
  <1>2. CASE Widen
    <2>1. height < IdBits /\ height' = height + 1 /\ nonce' = 0
      BY <1>2, BuildingBounds DEF Widen, SearchInv
    <2>2. ~TooTall(height') /\ height' \in 0..IdBits
      BY <2>1, BuildingBounds DEF TooTall, SearchInv
    <2> QED
      BY <1>2, <2>1, <2>2 DEF Widen, SearchInv
  <1>3. CASE UNCHANGED <<given, height, nonce>> /\ stage' # "TooMany"
    BY <1>3 DEF SearchInv
  <1>4. CASE ~TryNextNonce /\ ~Widen
    <2>1. UNCHANGED <<given, height, nonce>>
      BY <1>4 DEF BuildNext, buildVars, Authorize, Convert, StartJob, Build, SendJob, Validate
    <2>2. stage' # "TooMany"
      BY <1>4 DEF SearchInv, BuildNext, buildVars, Authorize, Convert, StartJob, Build, SendJob, Validate
    <2> QED
      BY <1>3, <2>1, <2>2
  <1> QED
    BY <1>1, <1>2, <1>4

\* Whatever number of chains with ids of IdBits bits, and however few nonces are tried at each
\* height, a tree is found before it is as high as no proof may be (AuxTree::build, session.rs 435).
THEOREM TreeIsAlwaysFound == BuildSpec => []TreeIsFound
  <1>1. BuildInit => SearchInv
    BY InitSearch
  <1>2. SearchInv /\ [BuildNext]_buildVars => SearchInv'
    BY NextSearch
  <1>3. SearchInv => TreeIsFound
    BY DEF SearchInv, TreeIsFound
  <1> QED
    BY <1>1, <1>2, <1>3, PTL DEF BuildSpec

-----------------------------------------------------------------------------
(* Rewards go where the miner meant them to go. *)

LEMMA NinesAreSequence ==
  ASSUME NEW n \in Nat
  PROVE  [i \in 1..n |-> 9] \in Seq(Nat)
  OBVIOUS

LEMMA ScriptsAreSome == P2pkh # <<>> /\ P2sh # <<>>
  <1>1. \A s \in Seq(Nat) : Len(<<118, 169, 20>> \o s \o <<136, 172>>) = 5 + Len(s)
    OBVIOUS
  <1>2. \A s \in Seq(Nat) : Len(<<169, 20>> \o s \o <<135>>) = 3 + Len(s)
    OBVIOUS
  <1>3. Hash160 \in Seq(Nat)
    BY NinesAreSequence DEF Hash160
  <1>4. Len(P2pkh) = 5 + Len(Hash160) /\ Len(P2sh) = 3 + Len(Hash160)
    BY <1>1, <1>2, <1>3 DEF P2pkh, P2sh
  <1>5. Len(Hash160) \in Nat /\ Len(<<>>) = 0
    BY <1>3
  <1> QED
    BY <1>4, <1>5

LEMMA ProgramsAreSome ==
  ASSUME NEW v \in Nat, NEW n \in Nat
  PROVE  <<WitnessOpcode(v), n>> \o Program(n) # <<>>
  <1>1. Program(n) \in Seq(Nat)
    BY NinesAreSequence DEF Program
  <1>2. WitnessOpcode(v) \in Nat
    BY DEF WitnessOpcode
  <1>3. \A s \in Seq(Nat), x \in Nat : Len(<<x, n>> \o s) = 2 + Len(s)
    OBVIOUS
  <1>4. Len(Program(n)) \in Nat /\ Len(<<>>) = 0
    BY <1>1
  <1> QED
    BY <1>1, <1>2, <1>3, <1>4

LEMMA ProgramRules ==
  ASSUME NEW a, a.version \in Nat, a.len \in Nat
  PROVE  ValidProgram(a) <=> /\ a.version \in 0..16 /\ a.len \in 2..40
                             /\ a.version = 0 => a.len \in {20, 32}
  BY DEF ValidProgram

\* An address a chain's blocks can pay is one the chain's node takes for its own.
LEMMA OwnBase58 ==
  ASSUME NEW a, a.form = "base58"
  PROVE  /\ Valid(a, LtcParams) <=> ChainOf(a) = "ltc"
         /\ Valid(a, DogeParams) <=> ChainOf(a) = "doge"
  <1>1. /\ ChainOf(a) = "ltc" <=> a.len = 21 /\ a.version \in {48, 50, 5}
        /\ ChainOf(a) = "doge" <=> a.len = 21 /\ a.version \in {30, 22}
    BY DEF ChainOf
  <1>2. \A params : PayoutScript(a, params) = IF a.len = 21 THEN OwnVersion(a, params) ELSE <<>>
    BY DEF PayoutScript
  <1>3. OwnVersion(a, LtcParams) # <<>> <=> a.version \in {48, 50, 5}
    BY ScriptsAreSome DEF OwnVersion, LtcParams
  <1>4. OwnVersion(a, DogeParams) # <<>> <=> a.version \in {30, 22}
    BY ScriptsAreSome DEF OwnVersion, DogeParams
  <1> QED
    BY <1>1, <1>2, <1>3, <1>4 DEF Valid

LEMMA OwnSegwit ==
  ASSUME NEW a, a.form = "segwit", a.version \in Nat, a.len \in Nat, a.hrp # "absent"
  PROVE  /\ Valid(a, LtcParams) <=> ChainOf(a) = "ltc"
         /\ Valid(a, DogeParams) <=> ChainOf(a) = "doge"
  <1>1. ChainOf(a) = IF a.hrp = "ltc" /\ ValidProgram(a) THEN "ltc" ELSE "none"
    <2>1. ChainOf(a) = IF a.hrp = "ltc" /\ a.version \in 0..16 /\ a.len \in 2..40
                          /\ (a.version = 0 => a.len \in {20, 32})
                       THEN "ltc" ELSE "none"
      BY DEF ChainOf
    <2> QED
      BY <2>1, ProgramRules
  <1>2. PayoutScript(a, LtcParams) = IF a.hrp = "ltc" /\ ValidProgram(a)
                                     THEN <<WitnessOpcode(a.version), a.len>> \o Program(a.len) ELSE <<>>
    BY DEF PayoutScript, LtcParams
  <1>3. PayoutScript(a, DogeParams) = <<>>
    BY DEF PayoutScript, DogeParams
  <1> QED
    BY <1>1, <1>2, <1>3, ProgramsAreSome DEF Valid

LEMMA JunkIsNobodys ==
  ASSUME NEW a, a.form = "junk"
  PROVE  ~Valid(a, LtcParams) /\ ~Valid(a, DogeParams) /\ ChainOf(a) = "none"
  BY DEF Valid, PayoutScript, ChainOf

Address == [form : {"base58", "segwit", "junk"}, version : Nat, len : Nat, hrp : {"none", "ltc", "bc"}]
Token == [key : {"bare", "doge", "DOGE", "ltc"}, value : Address]

LEMMA OwnAddress ==
  ASSUME NEW a \in Address
  PROVE  /\ Valid(a, LtcParams) <=> ChainOf(a) = "ltc"
         /\ Valid(a, DogeParams) <=> ChainOf(a) = "doge"
  <1>1. /\ a.form \in {"base58", "segwit", "junk"} /\ a.version \in Nat /\ a.len \in Nat
        /\ a.hrp # "absent"
    BY DEF Address
  <1>2. CASE a.form = "base58"
    BY <1>2, OwnBase58
  <1>3. CASE a.form = "segwit"
    BY <1>1, <1>3, OwnSegwit
  <1>4. CASE a.form = "junk"
    BY <1>4, JunkIsNobodys
  <1> QED
    BY <1>1, <1>2, <1>3, <1>4

\* What a session's payouts are: what the miner gave, resolved once.
RewardInv ==
  /\ given.user \in Address
  /\ given.tokens \in Seq(Token)
  /\ payout # <<>> => payout = <<Resolve(given.user, given.tokens)>>

LEMMA AddressesOf ==
  /\ Junk \in Address
  /\ \A v \in Nat, len \in Nat : Base58(v, len) \in Address
  /\ \A v \in Nat, len \in Nat, hrp \in {"ltc", "bc"} : Segwit(hrp, v, len) \in Address
  BY DEF Junk, Base58, Segwit, Address

LEMMA FallbacksAreOwn ==
  /\ LtcFallback \in Address /\ ChainOf(LtcFallback) = "ltc"
  /\ DogeFallback \in Address /\ ChainOf(DogeFallback) = "doge"
  <1>1. LtcFallback \in Address /\ DogeFallback \in Address
    BY AddressesOf DEF LtcFallback, DogeFallback
  <1>2. ChainOf(LtcFallback) = "ltc" /\ ChainOf(DogeFallback) = "doge"
    BY DEF LtcFallback, DogeFallback, Base58, ChainOf
  <1> QED
    BY <1>1, <1>2

LEMMA VersionsAreNumbers == Versions \subseteq Nat /\ MaxTokens \in Nat
  <1>1. Versions \subseteq Byte /\ MaxTokens \in Nat
    BY BuildingAssumption
  <1>2. Byte \subseteq Nat
    BY DEF Byte
  <1> QED
    BY <1>1, <1>2

\* Whoever mines gives addresses.
LEMMA UsersAreAddresses == Users \subseteq Address
  <1>1. \A v \in Versions, len \in {21, 22} : Base58(v, len) \in Address
    BY VersionsAreNumbers, AddressesOf
  <1>2. \A hrp \in {"ltc", "bc"}, v \in {0, 1, 17}, len \in {1, 20, 32, 33, 41} : Segwit(hrp, v, len) \in Address
    BY AddressesOf
  <1> QED
    BY <1>1, <1>2, AddressesOf DEF Users

LEMMA PasswordsAreTokens ==
  ASSUME NEW max \in Nat
  PROVE  Passwords(max) \subseteq Seq(Token)
  <1>1. \A v \in Versions : Base58(v, 21) \in Address
    BY VersionsAreNumbers, AddressesOf
  <1>2. Tokens \subseteq Token
    BY <1>1, AddressesOf DEF Tokens, Token
  <1>3. \A p \in Passwords(max) : \E n \in 0..max : p \in [1..n -> Token]
    BY <1>2 DEF Passwords
  <1> QED
    BY <1>3

\* Whatever is varied, what the miner gives are the plain case's addresses or those given.
LEMMA GivenByMiner ==
  /\ Plain.user = LtcFallback /\ Plain.tokens = <<>>
  /\ \A u, p : Miner(u, p).user = u /\ Miner(u, p).tokens = p
  BY SMT DEF Plain, Miner

LEMMA PlainMiner ==
  /\ \A s : Merging(s).user = Plain.user /\ Merging(s).tokens = Plain.tokens
  /\ \A s, h, t, w, p : /\ Template(s, h, t, w, p).user = Plain.user
                        /\ Template(s, h, t, w, p).tokens = Plain.tokens
  /\ \A n : Carrying(n).user = Plain.user /\ Carrying(n).tokens = Plain.tokens
  /\ \A b, a, d, hash : /\ Share(b, a, d, hash).user = Plain.user
                        /\ Share(b, a, d, hash).tokens = Plain.tokens
  BY SMT DEF Plain, Merging, Carrying, Template, Share

LEMMA InitRewards == BuildInit => RewardInv
  <1> SUFFICES ASSUME BuildInit PROVE RewardInv
    OBVIOUS
  <1>1. Plain.user \in Address /\ Plain.tokens \in Seq(Token)
    BY GivenByMiner, FallbacksAreOwn
  <1>2. given \in Miners \union Chains \union Templates \union Shares
    BY DEF BuildInit
  <1>3. given.user \in Address /\ given.tokens \in Seq(Token)
    <2>1. CASE given \in Miners
      <3>1. Passwords(1) \subseteq Seq(Token) /\ Passwords(MaxTokens) \subseteq Seq(Token)
        BY VersionsAreNumbers, PasswordsAreTokens
      <3>2. \/ \E u \in Users, p \in Passwords(1) : given = Miner(u, p)
            \/ \E p \in Passwords(MaxTokens) : given = Miner(LtcFallback, p)
        BY <2>1 DEF Miners
      <3> QED
        BY <3>1, <3>2, UsersAreAddresses, FallbacksAreOwn, GivenByMiner
    <2>2. CASE given \in Chains
      <3>1. \E s : given = Merging(s)
        BY <2>2 DEF Chains
      <3> QED
        BY <1>1, <3>1, PlainMiner
    <2>3. CASE given \in Templates
      <3>1. \/ \E s, h, t, w, p : given = Template(s, h, t, w, p)
            \/ \E n : given = Carrying(n)
        BY <2>3 DEF Templates
      <3> QED
        BY <1>1, <3>1, PlainMiner
    <2>4. CASE given \in Shares
      <3>1. \E b, a, d, hash : given = Share(b, a, d, hash)
        BY <2>4 DEF Shares
      <3> QED
        BY <1>1, <3>1, PlainMiner
    <2> QED
      BY <1>2, <2>1, <2>2, <2>3, <2>4
  <1> QED
    BY <1>3 DEF RewardInv, BuildInit

LEMMA NextRewards == RewardInv /\ [BuildNext]_buildVars => RewardInv'
  <1> SUFFICES ASSUME RewardInv, [BuildNext]_buildVars PROVE RewardInv'
    OBVIOUS
  <1>1. CASE Authorize
    BY <1>1 DEF Authorize, RewardInv
  <1>2. CASE UNCHANGED <<given, payout>>
    BY <1>2 DEF RewardInv
  <1> QED
    BY <1>1, <1>2 DEF BuildNext, buildVars, Convert, StartJob, TryNextNonce, Widen, Build, SendJob, Validate

LEMMA RewardsMeant == RewardInv => RewardsAreMeant
  <1> SUFFICES ASSUME RewardInv, payout # <<>> PROVE RewardsAreMeant
    BY DEF RewardsAreMeant, PaysOwnChain, MinersAreHeard
  <1> DEFINE user == given.user
             tokens == given.tokens
             usable == {i \in DOMAIN tokens : KeyFits(tokens[i]) /\ Valid(tokens[i].value, DogeParams)}
             meant == {i \in DOMAIN tokens : KeyFits(tokens[i]) /\ ChainOf(tokens[i].value) = "doge"}
             first == CHOOSE i \in usable : \A j \in usable : i <= j
  <1>1. payout[1] = Resolve(user, tokens)
    BY DEF RewardInv
  <1>2. user \in Address /\ tokens \in Seq(Token)
    BY DEF RewardInv
  <1>3. DOMAIN tokens \subseteq Nat /\ \A i \in DOMAIN tokens : tokens[i].value \in Address
    <2> HIDE DEF tokens
    <2>1. DOMAIN tokens = 1..Len(tokens) /\ \A i \in DOMAIN tokens : tokens[i] \in Token
      BY <1>2, ElementOfSeq
    <2>2. \A t \in Token : t.value \in Address
      BY DEF Token
    <2> QED
      BY <2>1, <2>2
  <1>4. /\ payout[1].parent = IF Valid(user, LtcParams) THEN Parse(user, LtcParams) ELSE Fallback(LtcFallback, LtcParams)
        /\ payout[1].aux = IF usable # {} THEN Parse(tokens[first].value, DogeParams)
                           ELSE Fallback(DogeFallback, DogeParams)
    BY <1>1 DEF Resolve
  <1> HIDE DEF user, tokens
  <1>5. \A a \in Address : /\ Valid(a, LtcParams) <=> ChainOf(a) = "ltc"
                           /\ Valid(a, DogeParams) <=> ChainOf(a) = "doge"
    BY OwnAddress
  <1>6. usable = meant
    BY <1>3, <1>5
  <1>7. usable # {} => first \in usable /\ \A j \in usable : first <= j
    <2>1. usable \subseteq Nat
      BY <1>3
    <2> HIDE DEF usable
    <2>2. usable # {} => \E i \in usable : \A j \in usable : i <= j
      BY <2>1, LeastNumber
    <2> QED
      BY <2>2
  <1>8. meant \subseteq Nat /\ \A i \in meant : ChainOf(tokens[i].value) = "doge"
    BY <1>3
  <1> HIDE DEF usable, meant, first
  <1>9. \A a, params : /\ Parse(a, params).address = a /\ ~Parse(a, params).fallback
                       /\ Fallback(a, params).address = a /\ Fallback(a, params).fallback
    BY DEF Parse, Fallback
  <1>10. PaysOwnChain
    <2>1. ChainOf(payout[1].parent.address) = "ltc"
      BY <1>2, <1>4, <1>5, <1>9, FallbacksAreOwn
    <2>2. ChainOf(payout[1].aux.address) = "doge"
      <3>1. CASE usable # {}
        <4>1. payout[1].aux.address = tokens[first].value
          BY <1>4, <1>9, <3>1
        <4>2. first \in meant
          BY <1>6, <1>7, <3>1
        <4> QED
          BY <1>8, <4>1, <4>2
      <3>2. CASE usable = {}
        <4>1. payout[1].aux.address = DogeFallback
          BY <1>4, <1>9, <3>2
        <4> QED
          BY <4>1, FallbacksAreOwn
      <3> QED
        BY <3>1, <3>2
    <2> QED
      BY <2>1, <2>2 DEF PaysOwnChain
  <1>11. payout[1].parent.fallback <=> ChainOf(user) # "ltc"
    BY <1>2, <1>4, <1>5, <1>9
  <1>12. payout[1].aux.fallback <=> meant = {}
    BY <1>4, <1>6, <1>9
  <1>13. ASSUME NEW i \in meant, \A j \in meant : i <= j
         PROVE  payout[1].aux.address = tokens[i].value
    <2>1. first \in meant /\ first <= i /\ i <= first
      BY <1>6, <1>7, <1>13
    <2>2. first = i
      BY <1>8, <2>1
    <2> QED
      BY <1>4, <1>6, <1>9, <2>2
  <1> QED
    BY <1>10, <1>11, <1>12, <1>13 DEF RewardsAreMeant, MinersAreHeard, meant, user, tokens

\* Whatever miner, password and versions there are, a reward goes to an address of the chain's
\* own, the miner's whenever there is one to pay (PayoutSet::resolve, payout_script).
THEOREM RewardsGoWhereMeant == BuildSpec => []RewardsAreMeant
  <1>1. BuildInit => RewardInv
    BY InitRewards
  <1>2. RewardInv /\ [BuildNext]_buildVars => RewardInv'
    BY NextRewards
  <1>3. RewardInv => RewardsAreMeant
    BY RewardsMeant
  <1> QED
    BY <1>1, <1>2, <1>3, PTL DEF BuildSpec

-----------------------------------------------------------------------------
(* Bytes, and what is made of them by loops. *)

\* A function that starts like a loop and whose rounds are the loop's is the loop.
RunsLike(f, n, S, first, step) ==
  f[0] = first /\ \A k \in 1..n : f[k - 1] \in S[k - 1] => f[k] = step[k][f[k - 1]]

LEMMA LoopAgain ==
  ASSUME NEW n \in Nat, NEW S, NEW first, NEW step, NEW f, NEW g,
         IsLoop(g, n, S, first, step), RunsLike(f, n, S, first, step)
  PROVE  \A k \in 0..n : f[k] = g[k] /\ f[k] \in S[k]
  <1>1. \A k \in 1..n : f[k - 1] = g[k - 1] => f[k] = g[k]
    <2> SUFFICES ASSUME NEW k \in 1..n, f[k - 1] = g[k - 1] PROVE f[k] = g[k]
      OBVIOUS
    <2>1. k - 1 \in 0..n
      OBVIOUS
    <2>2. g[k - 1] \in S[k - 1] /\ g[k] = step[k][g[k - 1]]
      BY <2>1 DEF IsLoop
    <2> QED
      BY <2>2 DEF RunsLike
  <1>2. SameRounds(f, g, n)
    BY <1>1 DEF SameRounds, IsLoop, RunsLike
  <1>3. \A k \in 0..n : f[k] = g[k]
    BY <1>2, SameLoop
  <1> QED
    BY <1>3 DEF IsLoop

LEMMA ByteIs == \A b : b \in Byte <=> b \in Nat /\ b <= 255
  BY DEF Byte

LEMMA JoinBytes ==
  ASSUME NEW a \in Bytes, NEW b \in Bytes
  PROVE  /\ a \o b \in Bytes
         /\ Len(a) \in Nat /\ Len(b) \in Nat /\ Len(a \o b) = Len(a) + Len(b)
         /\ \A i \in 1..Len(a) : (a \o b)[i] = a[i]
         /\ \A i \in 1..Len(b) : (a \o b)[Len(a) + i] = b[i]
         /\ SubSeq(a \o b, 1, Len(a)) = a
         /\ SubSeq(a \o b, Len(a) + 1, Len(a \o b)) = b
  <1>1. /\ a \o b \in Bytes
        /\ Len(a) \in Nat /\ Len(b) \in Nat /\ Len(a \o b) = Len(a) + Len(b)
    BY DEF Bytes
  <1>2. \A i \in 1..Len(a) : (a \o b)[i] = a[i]
    BY DEF Bytes
  <1>3. \A i \in 1..Len(b) : (a \o b)[Len(a) + i] = b[i]
    BY DEF Bytes
  <1>4. SubSeq(a \o b, 1, Len(a)) = a
    BY <1>1, <1>2 DEF Bytes
  <1>5. SubSeq(a \o b, Len(a) + 1, Len(a \o b)) = b
    BY <1>1, <1>3 DEF Bytes
  <1> QED
    BY <1>1, <1>2, <1>3, <1>4, <1>5

LEMMA FillBytes ==
  ASSUME NEW byte \in Byte, NEW n \in Nat
  PROVE  Fill(byte, n) \in Bytes /\ Len(Fill(byte, n)) = n /\ \A i \in 1..n : Fill(byte, n)[i] = byte
  BY DEF Fill, Bytes

IsFilled(s, byte, n) == s \in Bytes /\ Len(s) = n /\ \A i \in 1..n : s[i] = byte

LEMMA AllFilled == \A byte \in Byte, n \in Nat : IsFilled(Fill(byte, n), byte, n)
  BY FillBytes DEF IsFilled

LEMMA PowersOf256 ==
  ASSUME NEW i \in 1..4
  PROVE  256^(i - 1) \in Nat /\ 256^(i - 1) > 0
  <1>1. 256^(1 - 1) = 1 /\ 256^(2 - 1) = 256
    BY SMT
  <1>2. 256^(3 - 1) = 65536
    BY SMT
  <1>3. 256^(4 - 1) = 16777216
    BY SMT
  <1>4. i = 1 \/ i = 2 \/ i = 3 \/ i = 4
    BY SMT
  <1>5. CASE i = 1
    BY <1>1, <1>5, SMT
  <1>6. CASE i = 2
    BY <1>1, <1>6, SMT
  <1>7. CASE i = 3
    BY <1>2, <1>7, SMT
  <1>8. CASE i = 4
    BY <1>3, <1>8, SMT
  <1> QED
    BY <1>4, <1>5, <1>6, <1>7, <1>8

LEMMA LeBytes ==
  ASSUME NEW n \in Nat, NEW width \in Nat
  PROVE  Le(n, width) \in Bytes /\ Len(Le(n, width)) = width
  <1> DEFINE digit(i) == IF i <= 4 THEN (n \div 256^(i - 1)) % 256 ELSE 0
  <1>1. \A p \in Nat : p > 0 => (n \div p) % 256 \in Byte
    BY ByteIs
  <1>2. \A i \in 1..width : digit(i) \in Byte
    <2> SUFFICES ASSUME NEW i \in 1..width PROVE digit(i) \in Byte
      OBVIOUS
    <2>1. CASE i <= 4
      <3>1. i \in 1..4
        BY <2>1
      <3> QED
        BY <1>1, <2>1, <3>1, PowersOf256
    <2>2. CASE ~(i <= 4)
      BY <2>2, ByteIs
    <2> QED
      BY <2>1, <2>2
  <1>3. Le(n, width) = [i \in 1..width |-> digit(i)]
    BY DEF Le
  <1> HIDE DEF digit
  <1> QED
    BY <1>2, <1>3 DEF Bytes

LEMMA FourDigits ==
  ASSUME NEW n \in Nat
  PROVE  /\ Le(n, 4) = <<n % 256, (n \div 256) % 256, (n \div 65536) % 256, (n \div 16777216) % 256>>
         /\ Le(n, 3) = <<n % 256, (n \div 256) % 256, (n \div 65536) % 256>>
  <1>1. 256^(1 - 1) = 1 /\ 256^(2 - 1) = 256
    BY SMT
  <1>2. 256^(3 - 1) = 65536
    BY SMT
  <1>3. 256^(4 - 1) = 16777216
    BY SMT
  <1>4. n \div 1 = n
    BY SMT
  <1>5. /\ Le(n, 4)[1] = n % 256 /\ Le(n, 4)[2] = (n \div 256) % 256
        /\ Le(n, 3)[1] = n % 256 /\ Le(n, 3)[2] = (n \div 256) % 256
    BY <1>1, <1>4, SMT DEF Le
  <1>6. /\ Le(n, 4)[3] = (n \div 65536) % 256
        /\ Le(n, 3)[3] = (n \div 65536) % 256
    BY <1>2, SMT DEF Le
  <1>7. Le(n, 4)[4] = (n \div 16777216) % 256
    BY <1>3, SMT DEF Le
  <1>8. Len(Le(n, 4)) = 4 /\ Len(Le(n, 3)) = 3 /\ Le(n, 4) \in Bytes /\ Le(n, 3) \in Bytes
    BY LeBytes
  <1> QED
    BY <1>5, <1>6, <1>7, <1>8, SMT DEF Bytes

Shifted(value, byte) == 256 * value + byte

\* The loop of Number.
IsNumberLoop(bytes, f) ==
  f = [k \in 0..Len(bytes) |-> IF k = 0 THEN 0 ELSE Shifted(f[k - 1], bytes[Len(bytes) + 1 - k])]

LEMMA NumberLoop ==
  ASSUME NEW bytes \in Bytes
  PROVE  \E f : /\ f[0] = 0
                /\ \A k \in 1..Len(bytes) : f[k] = Shifted(f[k - 1], bytes[Len(bytes) + 1 - k])
                /\ \A k \in 0..Len(bytes) : f[k] \in Nat
                /\ Number(bytes) = f[Len(bytes)]
  <1> DEFINE n == Len(bytes)
             S == [k \in 0..n |-> Nat]
             step == [k \in 1..n |-> [x \in S[k - 1] |-> Shifted(x, bytes[n + 1 - k])]]
             loop == CHOOSE g : IsNumberLoop(bytes, g)
  <1>1. n \in Nat
    BY DEF Bytes
  <1>2. ASSUME NEW k \in 1..n, NEW x \in S[k - 1]
        PROVE  step[k][x] = Shifted(x, bytes[n + 1 - k]) /\ Shifted(x, bytes[n + 1 - k]) \in S[k]
    <2>1. k \in 0..n /\ k - 1 \in 0..n /\ n + 1 - k \in 1..n
      BY <1>1
    <2>2. bytes[n + 1 - k] \in Nat
      <3>1. bytes[n + 1 - k] \in Byte
        BY <2>1 DEF Bytes
      <3> QED
        BY <3>1, ByteIs
    <2>3. Shifted(x, bytes[n + 1 - k]) \in Nat
      BY <2>1, <2>2 DEF Shifted
    <2> QED
      BY <2>1, <2>3
  <1> HIDE DEF step
  <1>3. PICK g : IsLoop(g, n, S, 0, step)
    <2>1. 0 \in S[0]
      BY <1>1
    <2>2. \A k \in 1..n : \A x \in S[k - 1] : step[k][x] \in S[k]
      BY <1>2
    <2> HIDE DEF n, S, loop
    <2> QED
      BY <1>1, <2>1, <2>2, LoopRuns
  <1> HIDE DEF S
  <1>4. IsNumberLoop(bytes, g)
    <2> HIDE DEF n, loop
    <2>1. \A k \in 1..n : k - 1 \in 0..n
      BY <1>1
    <2>2. \A k \in 1..n : g[k] = Shifted(g[k - 1], bytes[n + 1 - k])
      BY <1>2, <1>3, <2>1 DEF IsLoop
    <2>3. \A k \in 0..n : g[k] = IF k = 0 THEN 0 ELSE Shifted(g[k - 1], bytes[n + 1 - k])
      <3> SUFFICES ASSUME NEW k \in 0..n
                   PROVE  g[k] = IF k = 0 THEN 0 ELSE Shifted(g[k - 1], bytes[n + 1 - k])
        OBVIOUS
      <3>1. CASE k = 0
        BY <1>3, <3>1 DEF IsLoop
      <3>2. CASE k # 0
        <4>1. k \in 1..n
          BY <1>1, <3>2
        <4> QED
          BY <2>2, <3>2, <4>1
      <3> QED
        BY <3>1, <3>2
    <2> QED
      BY <1>3, <2>3 DEF n, IsLoop, IsNumberLoop
  <1>5. IsNumberLoop(bytes, loop)
    BY <1>4, Zenon
  <1>6. Number(bytes) = loop[n]
    BY DEF Number, IsNumberLoop, Shifted
  <1> HIDE DEF loop
  <1>7. loop[0] = 0 /\ \A k \in 1..n : loop[k] = Shifted(loop[k - 1], bytes[n + 1 - k])
    BY <1>1, <1>5 DEF IsNumberLoop
  <1>8. \A k \in 0..n : loop[k] \in S[k]
    <2> HIDE DEF n
    <2>1. RunsLike(loop, n, S, 0, step)
      BY <1>2, <1>7 DEF RunsLike
    <2> QED
      BY <1>1, <1>3, <2>1, LoopAgain
  <1> QED
    BY <1>1, <1>6, <1>7, <1>8 DEF S

LEMMA NumberOfFour ==
  ASSUME NEW bytes \in Bytes, Len(bytes) = 4
  PROVE  Number(bytes) = bytes[1] + 256 * (bytes[2] + 256 * (bytes[3] + 256 * bytes[4]))
  <1>1. PICK f : /\ f[0] = 0
                 /\ \A k \in 1..Len(bytes) : f[k] = Shifted(f[k - 1], bytes[Len(bytes) + 1 - k])
                 /\ \A k \in 0..Len(bytes) : f[k] \in Nat
                 /\ Number(bytes) = f[Len(bytes)]
    BY NumberLoop
  <1>2. bytes[1] \in Nat /\ bytes[2] \in Nat /\ bytes[3] \in Nat /\ bytes[4] \in Nat
    <2>1. bytes[1] \in Byte /\ bytes[2] \in Byte /\ bytes[3] \in Byte /\ bytes[4] \in Byte
      BY DEF Bytes
    <2> QED
      BY <2>1, ByteIs
  <1>3. /\ f[1] = Shifted(f[0], bytes[4]) /\ f[2] = Shifted(f[1], bytes[3])
        /\ f[3] = Shifted(f[2], bytes[2]) /\ f[4] = Shifted(f[3], bytes[1])
    BY <1>1
  <1>4. f[1] = bytes[4]
    BY <1>1, <1>2, <1>3 DEF Shifted
  <1>5. f[2] = 256 * bytes[4] + bytes[3]
    BY <1>2, <1>3, <1>4 DEF Shifted
  <1>6. f[3] = 256 * (256 * bytes[4] + bytes[3]) + bytes[2]
    BY <1>2, <1>3, <1>5 DEF Shifted
  <1>7. f[4] = 256 * (256 * (256 * bytes[4] + bytes[3]) + bytes[2]) + bytes[1]
    BY <1>2, <1>3, <1>6 DEF Shifted
  <1> QED
    BY <1>1, <1>2, <1>7

Wide == 4294967296

\* What fits into 32 bits is read back.
LEMMA ReadBackFour ==
  ASSUME NEW n \in Nat, n < Wide
  PROVE  Number(Le(n, 4)) = n
  <1> DEFINE a == n % 256
             b == (n \div 256) % 256
             c == (n \div 65536) % 256
             d == (n \div 16777216) % 256
  <1>1. n = a + 256 * (b + 256 * (c + 256 * d))
    BY SMTT(30) DEF Wide
  <1>2. Le(n, 4) = <<a, b, c, d>>
    BY FourDigits, SMT
  <1> HIDE DEF a, b, c, d
  <1>3. Le(n, 4) \in Bytes /\ Len(Le(n, 4)) = 4
    BY LeBytes
  <1> QED
    BY <1>1, <1>2, <1>3, NumberOfFour, SMT

\* Hashes as the code has them.
Digests == {s \in Bytes : Len(s) = HashLen}

ByteAt(bytes, i) == IF i <= Len(bytes) THEN bytes[i] ELSE 0
EightAt(bytes, i) ==
  2 * ByteAt(bytes, i) + 3 * ByteAt(bytes, i + 1) + 5 * ByteAt(bytes, i + 2)
  + 7 * ByteAt(bytes, i + 3) + 11 * ByteAt(bytes, i + 4) + 13 * ByteAt(bytes, i + 5)
  + 17 * ByteAt(bytes, i + 6) + 19 * ByteAt(bytes, i + 7)
Mixing(bytes, value, k) == (value * 241 + EightAt(bytes, 8 * k - 7)) % Modulus
Rounds(bytes) == (Len(bytes) + 7) \div 8
IsMixingLoop(bytes, f) ==
  f = [k \in 0..Rounds(bytes) |-> IF k = 0 THEN Len(bytes) ELSE Mixing(bytes, f[k - 1], k)]

LEMMA MixingIsNumber ==
  ASSUME NEW bytes \in Bytes, NEW value \in Nat, NEW k \in Nat, k >= 1
  PROVE  Mixing(bytes, value, k) \in Nat
  <1>1. \A i \in Nat : i >= 1 => ByteAt(bytes, i) \in Nat
    <2>1. \A i \in 1..Len(bytes) : bytes[i] \in Nat
      <3>1. \A i \in 1..Len(bytes) : bytes[i] \in Byte
        BY DEF Bytes
      <3> QED
        BY <3>1, ByteIs
    <2>2. Len(bytes) \in Nat
      BY DEF Bytes
    <2> QED
      BY <2>1, <2>2 DEF ByteAt
  <1> DEFINE i == 8 * k - 7
  <1>2. /\ i \in Nat /\ i >= 1
        /\ i + 1 \in Nat /\ i + 2 \in Nat /\ i + 3 \in Nat /\ i + 4 \in Nat
        /\ i + 5 \in Nat /\ i + 6 \in Nat /\ i + 7 \in Nat
    OBVIOUS
  <1> HIDE DEF i
  <1>3. /\ ByteAt(bytes, i) \in Nat /\ ByteAt(bytes, i + 1) \in Nat /\ ByteAt(bytes, i + 2) \in Nat
        /\ ByteAt(bytes, i + 3) \in Nat /\ ByteAt(bytes, i + 4) \in Nat /\ ByteAt(bytes, i + 5) \in Nat
        /\ ByteAt(bytes, i + 6) \in Nat /\ ByteAt(bytes, i + 7) \in Nat
    BY <1>1, <1>2
  <1>4. EightAt(bytes, i) \in Nat
    BY <1>3 DEF EightAt
  <1>5. value * 241 + EightAt(bytes, i) \in Nat
    BY <1>4
  <1>6. Modulus \in Nat \ {0}
    BY SMT DEF Modulus
  <1> QED
    BY <1>5, <1>6 DEF Mixing, i

LEMMA DigestBytes ==
  ASSUME NEW bytes \in Bytes
  PROVE  Digest(bytes) \in Digests
  <1> DEFINE n == Rounds(bytes)
             S == [k \in 0..n |-> Nat]
             step == [k \in 1..n |-> [x \in S[k - 1] |-> Mixing(bytes, x, k)]]
             loop == CHOOSE g : IsMixingLoop(bytes, g)
             mix == loop[n]
             digit(i) == (mix \div 256^((i - 1) % 3) + i) % 256
  <1>1. n \in Nat /\ Len(bytes) \in Nat
    BY DEF Bytes, Rounds
  <1>2. ASSUME NEW k \in 1..n, NEW x \in S[k - 1]
        PROVE  step[k][x] = Mixing(bytes, x, k) /\ Mixing(bytes, x, k) \in S[k]
    <2>1. k \in 0..n /\ k - 1 \in 0..n /\ k \in Nat /\ k >= 1
      BY <1>1
    <2>2. Mixing(bytes, x, k) \in Nat
      BY <2>1, MixingIsNumber
    <2> QED
      BY <2>1, <2>2
  <1> HIDE DEF step
  <1>3. PICK g : IsLoop(g, n, S, Len(bytes), step)
    <2>1. Len(bytes) \in S[0]
      BY <1>1
    <2>2. \A k \in 1..n : \A x \in S[k - 1] : step[k][x] \in S[k]
      BY <1>2
    <2> HIDE DEF n, S, loop
    <2> QED
      BY <1>1, <2>1, <2>2, LoopRuns
  <1> HIDE DEF S
  <1>4. IsMixingLoop(bytes, g)
    <2> HIDE DEF n, loop
    <2>1. \A k \in 1..n : k - 1 \in 0..n
      BY <1>1
    <2>2. \A k \in 1..n : g[k] = Mixing(bytes, g[k - 1], k)
      BY <1>2, <1>3, <2>1 DEF IsLoop
    <2>3. \A k \in 0..n : g[k] = IF k = 0 THEN Len(bytes) ELSE Mixing(bytes, g[k - 1], k)
      BY <1>1, <1>3, <2>2 DEF IsLoop
    <2> QED
      BY <1>3, <2>3 DEF n, IsLoop, IsMixingLoop
  <1>5. IsMixingLoop(bytes, loop)
    BY <1>4, Zenon
  <1>6. Digest(bytes) = [i \in 1..HashLen |-> digit(i)]
    BY DEF Digest, IsMixingLoop, Mixing, EightAt, ByteAt, Rounds
  <1> HIDE DEF loop
  <1>7. loop[0] = Len(bytes) /\ \A k \in 1..n : loop[k] = Mixing(bytes, loop[k - 1], k)
    BY <1>1, <1>5 DEF IsMixingLoop
  <1>8. \A k \in 0..n : loop[k] \in S[k]
    <2> HIDE DEF n
    <2> DEFINE start == Len(bytes)
    <2>1. IsLoop(g, n, S, start, step) /\ loop[0] = start
      BY <1>3, <1>7
    <2> HIDE DEF start, mix, digit
    <2>2. RunsLike(loop, n, S, start, step)
      BY <1>2, <1>7, <2>1 DEF RunsLike
    <2> QED
      BY <1>1, <2>1, <2>2, LoopAgain
  <1>9. mix \in Nat
    BY <1>1, <1>8 DEF S
  <1> HIDE DEF mix
  <1>10. \A i \in 1..HashLen : digit(i) \in Byte
    <2> SUFFICES ASSUME NEW i \in 1..HashLen PROVE digit(i) \in Byte
      OBVIOUS
    <2> DEFINE p == 256^((i - 1) % 3)
    <2>1. ((i - 1) % 3) + 1 \in 1..4 /\ (((i - 1) % 3) + 1) - 1 = (i - 1) % 3 /\ i \in Nat
      BY DEF HashLen
    <2>2. p \in Nat /\ p > 0
      BY <2>1, PowersOf256
    <2> HIDE DEF p
    <2>3. (mix \div p + i) % 256 \in Byte
      BY <1>9, <2>1, <2>2, ByteIs
    <2> QED
      BY <2>3 DEF p
  <1> HIDE DEF digit
  <1>11. [i \in 1..HashLen |-> digit(i)] \in Bytes /\ Len([i \in 1..HashLen |-> digit(i)]) = HashLen
    BY <1>10 DEF Bytes, HashLen
  <1> QED
    BY <1>6, <1>11 DEF Digests

Joined(before, word) == before \o word

\* The loop of FlattenSeq, which starts with the first word.
IsFlattening(words, f) ==
  f = [k \in 1..Len(words) |-> IF k = 1 THEN words[k] ELSE Joined(f[k - 1], words[k])]

FlattenRun(words, f) ==
  /\ f[0] = <<>>
  /\ \A k \in 1..Len(words) : f[k] = Joined(f[k - 1], words[k])
  /\ \A k \in 0..Len(words) : f[k] \in Bytes
  /\ FlattenSeq(words) = f[Len(words)]

LEMMA JoinNothing ==
  ASSUME NEW s \in Bytes
  PROVE  <<>> \o s = s /\ s \o <<>> = s /\ <<>> \in Bytes
  BY DEF Bytes

LEMMA FlattenLoop ==
  ASSUME NEW words \in Seq(Bytes)
  PROVE  \E f : FlattenRun(words, f)
  <1> DEFINE n == Len(words)
             S == [k \in 0..n |-> Bytes]
             step == [k \in 1..n |-> [x \in S[k - 1] |-> Joined(x, words[k])]]
             loop == CHOOSE g : IsFlattening(words, g)
  <1>1. n \in Nat /\ \A k \in 1..n : words[k] \in Bytes
    BY ElementOfSeq
  <1>2. ASSUME NEW k \in 1..n, NEW x \in S[k - 1]
        PROVE  step[k][x] = Joined(x, words[k]) /\ Joined(x, words[k]) \in S[k]
    <2>1. k \in 0..n /\ k - 1 \in 0..n
      BY <1>1
    <2>2. Joined(x, words[k]) \in Bytes
      BY <1>1, <2>1, JoinBytes DEF Joined
    <2> QED
      BY <2>1, <2>2
  <1> HIDE DEF step
  <1>3. PICK g : IsLoop(g, n, S, <<>>, step)
    <2>1. <<>> \in S[0]
      BY <1>1 DEF Bytes
    <2>2. \A k \in 1..n : \A x \in S[k - 1] : step[k][x] \in S[k]
      BY <1>2
    <2> DEFINE start == <<>>
    <2> HIDE DEF n, S, loop, start
    <2>3. \E g : IsLoop(g, n, S, start, step)
      BY <1>1, <2>1, <2>2, LoopRuns DEF start
    <2> QED
      BY <2>3 DEF start
  <1>4. /\ g[0] = <<>> /\ \A k \in 1..n : g[k] = Joined(g[k - 1], words[k])
        /\ \A k \in 0..n : g[k] \in Bytes
    <2> HIDE DEF n, loop
    <2>1. \A k \in 1..n : k - 1 \in 0..n
      BY <1>1
    <2>2. \A k \in 1..n : g[k] = Joined(g[k - 1], words[k])
      <3> HIDE DEF S
      <3> QED
        BY <1>2, <1>3, <2>1 DEF IsLoop
    <2> QED
      BY <1>3, <2>2 DEF IsLoop
  <1> HIDE DEF S
  <1>5. n >= 1 => g[1] = words[1]
    <2> HIDE DEF n, loop
    <2> SUFFICES ASSUME n >= 1 PROVE g[1] = words[1]
      OBVIOUS
    <2>1. 1 \in 1..n /\ 1 - 1 = 0
      BY <1>1
    <2>2. g[1] = Joined(<<>>, words[1])
      BY <1>4, <2>1
    <2> QED
      BY <1>1, <2>1, <2>2, JoinNothing DEF Joined
  <1> DEFINE h == [k \in 1..n |-> g[k]]
  <1>6. IsFlattening(words, h)
    <2>1. \A k \in 1..n : h[k] = IF k = 1 THEN words[k] ELSE Joined(h[k - 1], words[k])
      <3> HIDE DEF n, loop
      <3> SUFFICES ASSUME NEW k \in 1..n
                   PROVE  h[k] = IF k = 1 THEN words[k] ELSE Joined(h[k - 1], words[k])
        OBVIOUS
      <3>1. CASE k = 1
        BY <1>1, <1>5, <3>1
      <3>2. CASE k # 1
        <4>1. k - 1 \in 1..n
          BY <1>1, <3>2
        <4>2. h[k] = g[k] /\ h[k - 1] = g[k - 1]
          BY <4>1
        <4> QED
          BY <1>4, <3>2, <4>2
      <3> QED
        BY <3>1, <3>2
    <2>2. h = [k \in 1..n |-> h[k]]
      OBVIOUS
    <2> HIDE DEF h
    <2> QED
      BY <2>1, <2>2 DEF IsFlattening
  <1>7. IsFlattening(words, loop)
    <2> HIDE DEF h
    <2> QED
      BY <1>6, Zenon
  <1>8. FlattenSeq(words) = IF n = 0 THEN words ELSE loop[n]
    BY DEF FlattenSeq, IsFlattening, Joined
  <1> HIDE DEF loop, h
  <1>9. \A k \in 1..n : loop[k] = IF k = 1 THEN words[k] ELSE Joined(loop[k - 1], words[k])
    BY <1>7 DEF IsFlattening
  <1> DEFINE f == [k \in 0..n |-> IF k = 0 THEN <<>> ELSE loop[k]]
  <1>10. \A k \in 0..n : f[k] = g[k]
    <2> HIDE DEF n
    <2>1. f[0] = g[0]
      BY <1>1, <1>4
    <2>2. ASSUME NEW k \in 1..n, f[k - 1] = g[k - 1]
          PROVE  f[k] = g[k]
      <3>1. f[k] = loop[k]
        BY <1>1
      <3>2. CASE k = 1
        <4>1. loop[1] = words[1] /\ n >= 1
          BY <1>9, <3>2
        <4> QED
          BY <1>5, <3>1, <3>2, <4>1
      <3>3. CASE k # 1
        <4>1. f[k - 1] = loop[k - 1]
          BY <1>1, <3>3
        <4>2. loop[k] = Joined(loop[k - 1], words[k])
          BY <1>9, <3>3
        <4> QED
          BY <1>4, <2>2, <3>1, <4>1, <4>2
      <3> QED
        BY <3>2, <3>3
    <2> HIDE DEF f
    <2>3. SameRounds(f, g, n)
      BY <2>1, <2>2 DEF SameRounds
    <2> QED
      BY <1>1, <2>3, SameLoop
  <1>11. FlattenSeq(words) = g[n]
    <2>1. CASE n = 0
      <3>1. words = <<>>
        BY <2>1, EmptySeq
      <3> QED
        BY <1>4, <1>8, <2>1, <3>1
    <2>2. CASE n # 0
      <3>1. f[n] = loop[n] /\ f[n] = g[n]
        BY <1>1, <1>10, <2>2
      <3> QED
        BY <1>8, <2>2, <3>1
    <2> QED
      BY <2>1, <2>2
  <1> QED
    BY <1>4, <1>11 DEF FlattenRun

LEMMA FlattenBytes ==
  ASSUME NEW words \in Seq(Bytes)
  PROVE  FlattenSeq(words) \in Bytes
  <1>1. PICK f : FlattenRun(words, f)
    BY FlattenLoop
  <1>2. Len(words) \in 0..Len(words)
    BY LenProperties
  <1> QED
    BY <1>1, <1>2 DEF FlattenRun

\* Numbers of so many bytes.
Two == 65536
Three == 16777216

LEMMA NumbersOfBytes == Two \in Nat /\ Three \in Nat /\ 256 <= Two /\ Two <= Three /\ Three < Wide
  BY SMT DEF Two, Three, Wide

LEMMA ByteLens ==
  ASSUME NEW n \in Nat
  PROVE  /\ n < 256 => ByteLen(n) = 1
         /\ n >= 256 /\ n < Two => ByteLen(n) = 2
         /\ n >= Two /\ n < Three => ByteLen(n) = 3
         /\ n >= Three => ByteLen(n) = 4
  <1> DEFINE W == {w \in 1..3 : n >= 256^w}
  <1>1. 256^1 = 256 /\ 256^2 = Two
    BY SMT DEF Two
  <1>2. 256^3 = Three
    BY SMT DEF Three
  <1>3. /\ 1 \in W <=> n >= 256
        /\ 2 \in W <=> n >= Two
    BY <1>1
  <1>14. \A x : x \in W => x = 1 \/ x = 2 \/ x = 3
    OBVIOUS
  <1>13. 3 \in W <=> n >= Three
    BY <1>2, SMT
  <1>4. ByteLen(n) = 1 + Cardinality(W)
    BY DEF ByteLen
  <1> HIDE DEF W
  <1>5. Cardinality({}) = 0 /\ IsFiniteSet({})
    BY FS_EmptySet
  <1>6. Cardinality({1}) = 1 /\ IsFiniteSet({1})
    BY FS_Singleton
  <1>7. Cardinality({1, 2}) = 2 /\ IsFiniteSet({1, 2})
    <2>1. {1, 2} = {1} \union {2} /\ 2 \notin {1}
      OBVIOUS
    <2> QED
      BY <1>6, <2>1, FS_AddElement
  <1>8. Cardinality({1, 2, 3}) = 3
    <2>1. {1, 2, 3} = {1, 2} \union {3} /\ 3 \notin {1, 2}
      OBVIOUS
    <2> QED
      BY <1>7, <2>1, FS_AddElement
  <1>9. n < 256 => W = {}
    <2> SUFFICES ASSUME n < 256 PROVE W = {}
      OBVIOUS
    <2>1. 1 \notin W /\ 2 \notin W /\ 3 \notin W
      BY <1>3, <1>13, NumbersOfBytes, SMT
    <2> QED
      BY <1>14, <2>1, Zenon
  <1>10. n >= 256 /\ n < Two => W = {1}
    <2> SUFFICES ASSUME n >= 256 /\ n < Two PROVE W = {1}
      OBVIOUS
    <2>1. 1 \in W /\ 2 \notin W /\ 3 \notin W
      BY <1>3, <1>13, NumbersOfBytes, SMT
    <2> QED
      BY <1>14, <2>1, Zenon
  <1>11. n >= Two /\ n < Three => W = {1, 2}
    <2> SUFFICES ASSUME n >= Two /\ n < Three PROVE W = {1, 2}
      OBVIOUS
    <2>1. 1 \in W /\ 2 \in W /\ 3 \notin W
      BY <1>3, <1>13, NumbersOfBytes, SMT
    <2> QED
      BY <1>14, <2>1, Zenon
  <1>12. n >= Three => W = {1, 2, 3}
    <2> SUFFICES ASSUME n >= Three PROVE W = {1, 2, 3}
      OBVIOUS
    <2>1. 1 \in W /\ 2 \in W /\ 3 \in W
      BY <1>3, <1>13, NumbersOfBytes, SMT
    <2> QED
      BY <1>14, <2>1, Zenon
  <1> QED
    BY <1>4, <1>5, <1>6, <1>7, <1>8, <1>9, <1>10, <1>11, <1>12, NumbersOfBytes

LEMMA OneByte ==
  ASSUME NEW b \in Byte
  PROVE  <<b>> \in Bytes /\ Len(<<b>>) = 1
  BY DEF Bytes

LEMMA VarintBytes ==
  ASSUME NEW n \in Nat
  PROVE  Varint(n) \in Bytes
  <1>1. Le(n, 2) \in Bytes /\ Le(n, 4) \in Bytes
    BY LeBytes
  <1>2. <<253>> \in Bytes /\ <<254>> \in Bytes
    BY OneByte, ByteIs
  <1>3. n <= 252 => <<n>> \in Bytes
    BY OneByte, ByteIs
  <1>4. <<253>> \o Le(n, 2) \in Bytes /\ <<254>> \o Le(n, 4) \in Bytes
    BY <1>1, <1>2, JoinBytes
  <1> QED
    BY <1>3, <1>4, SMT DEF Varint

LEMMA PushBytes ==
  ASSUME NEW data \in Bytes
  PROVE  PushHeader(Len(data)) \in Bytes /\ PushData(data) \in Bytes
  <1> DEFINE n == Len(data)
  <1>1. n \in Nat
    BY DEF Bytes
  <1> HIDE DEF n
  <1>2. Le(n, 2) \in Bytes
    BY <1>1, LeBytes
  <1>3. <<77>> \in Bytes
    BY OneByte, ByteIs
  <1>4. n < 76 => <<n>> \in Bytes
    BY <1>1, OneByte, ByteIs
  <1>5. n <= 255 => <<76, n>> \in Bytes
    <2> SUFFICES ASSUME n <= 255 PROVE <<76, n>> \in Bytes
      OBVIOUS
    <2>1. 76 \in Byte /\ n \in Byte
      BY <1>1, ByteIs
    <2> QED
      BY <2>1 DEF Bytes
  <1>6. <<77>> \o Le(n, 2) \in Bytes
    BY <1>2, <1>3, JoinBytes
  <1>7. PushHeader(n) \in Bytes
    BY <1>4, <1>5, <1>6 DEF PushHeader
  <1> QED
    BY <1>7, JoinBytes DEF PushData, n

LEMMA ScriptNumberBytes ==
  ASSUME NEW n \in Nat
  PROVE  PushScriptNum(n) \in Bytes /\ PushScriptNum(n) # <<>>
  <1>1. ByteLen(n) \in Nat
    BY ByteLens, NumbersOfBytes
  <1> DEFINE bytes == Le(n, ByteLen(n))
  <1>2. bytes \in Bytes
    BY <1>1, LeBytes
  <1> HIDE DEF bytes
  <1>3. Append(bytes, 0) \in Bytes
    <2>1. 0 \in Byte
      BY ByteIs
    <2> QED
      BY <1>2, <2>1 DEF Bytes
  <1>4. ScriptNumBytes(n) = bytes \/ ScriptNumBytes(n) = Append(bytes, 0)
    BY DEF ScriptNumBytes, bytes
  <1>5. ScriptNumBytes(n) \in Bytes
    BY <1>2, <1>3, <1>4
  <1> DEFINE s == ScriptNumBytes(n)
  <1>6. PushData(s) \in Bytes /\ PushData(s) # <<>>
    <2> HIDE DEF s
    <2>1. PushHeader(Len(s)) \in Bytes /\ s \in Bytes
      BY <1>5, PushBytes DEF s
    <2>2. PushHeader(Len(s)) # <<>>
      <3>1. \A x : <<x>> # <<>> /\ <<76, x>> # <<>>
        OBVIOUS
      <3>2. Len(s) \in Nat
        BY <2>1 DEF Bytes
      <3>3. <<77>> \in Bytes /\ Len(<<77>>) = 1
        <4>1. 77 \in Byte
          BY ByteIs
        <4> QED
          BY <4>1, OneByte
      <3>6. Le(Len(s), 2) \in Bytes
        BY <3>2, LeBytes
      <3>4. Len(<<77>> \o Le(Len(s), 2)) >= 1
        BY <3>3, <3>6, JoinBytes
      <3>5. <<77>> \o Le(Len(s), 2) # <<>>
        BY <3>4
      <3> QED
        BY <3>1, <3>5 DEF PushHeader
    <2>3. Len(PushHeader(Len(s))) >= 1
      BY <2>1, <2>2 DEF Bytes
    <2>4. Len(PushHeader(Len(s)) \o s) >= 1 /\ PushHeader(Len(s)) \o s \in Bytes
      BY <2>1, <2>3, JoinBytes
    <2>5. PushHeader(Len(s)) \o s # <<>>
      BY <2>4
    <2> QED
      BY <2>4, <2>5 DEF PushData
  <1>7. n <= 16 => <<80 + n>> \in Bytes /\ <<80 + n>> # <<>>
    BY OneByte, ByteIs
  <1> QED
    BY <1>6, <1>7 DEF PushScriptNum

-----------------------------------------------------------------------------
(* What the nodes read. *)

\* The reader takes these bytes for the item, whatever follows them.
Reads(reader, item, bytes) ==
  /\ bytes \in Bytes
  /\ \A rest \in Bytes : reader[bytes \o rest] = [item |-> item, rest |-> rest]

LEMMA SplitJoined ==
  ASSUME NEW item, NEW a \in Bytes, NEW b \in Bytes
  PROVE  Split(item, a \o b, Len(a)) = [item |-> item, rest |-> b]
  BY JoinBytes DEF Split

LEMMA ReadsBytes ==
  ASSUME NEW s \in Bytes
  PROVE  Reads(ReadBytes(Len(s)), s, s)
  <1> SUFFICES ASSUME NEW rest \in Bytes
               PROVE  ReadBytes(Len(s))[s \o rest] = [item |-> s, rest |-> rest]
    BY DEF Reads
  <1>1. s \o rest \in Bytes /\ Taken(s \o rest, Len(s)) = s
    BY JoinBytes DEF Taken
  <1> QED
    BY <1>1, SplitJoined DEF ReadBytes

LEMMA ReadsNumber ==
  ASSUME NEW s \in Bytes
  PROVE  Reads(ReadNumber(Len(s)), Number(s), s)
  <1> SUFFICES ASSUME NEW rest \in Bytes
               PROVE  ReadNumber(Len(s))[s \o rest] = [item |-> Number(s), rest |-> rest]
    BY DEF Reads
  <1>1. s \o rest \in Bytes /\ Taken(s \o rest, Len(s)) = s
    BY JoinBytes DEF Taken
  <1> QED
    BY <1>1, SplitJoined DEF ReadNumber

-----------------------------------------------------------------------------
(* Fields, one after the other. *)

NextField(fields, got, k) == ThenField(got, fields[k][1], fields[k][2][got.rest])
IsFieldLoop(fields, bytes, f) ==
  f = [k \in 0..Len(fields) |->
         IF k = 0 THEN [item |-> <<>>, rest |-> bytes] ELSE NextField(fields, f[k - 1], k)]

LEMMA FieldLoop ==
  ASSUME NEW fields, Len(fields) \in Nat, NEW bytes \in Bytes, NEW v,
         v[0] = [item |-> <<>>, rest |-> bytes],
         \A k \in 1..Len(fields) : v[k] = NextField(fields, v[k - 1], k)
  PROVE  ReadFields(fields)[bytes] = v[Len(fields)]
  <1> DEFINE n == Len(fields)
             first == [item |-> <<>>, rest |-> bytes]
             w == [k \in 0..n |-> v[k]]
             loop == CHOOSE g : IsFieldLoop(fields, bytes, g)
  <1>1. \A k \in 1..n : k \in 0..n /\ k - 1 \in 0..n /\ k # 0
    OBVIOUS
  <1>2. IsFieldLoop(fields, bytes, w)
    <2> HIDE DEF loop
    <2>1. \A k \in 0..n : w[k] = IF k = 0 THEN first ELSE NextField(fields, w[k - 1], k)
      <3> HIDE DEF n, first
      <3> SUFFICES ASSUME NEW k \in 0..n
                   PROVE  w[k] = IF k = 0 THEN first ELSE NextField(fields, w[k - 1], k)
        OBVIOUS
      <3>1. CASE k = 0
        BY <3>1 DEF first
      <3>2. CASE k # 0
        <4>1. k \in 1..n
          BY <3>2 DEF n
        <4>2. w[k] = v[k] /\ w[k - 1] = v[k - 1] /\ v[k] = NextField(fields, v[k - 1], k)
          BY <1>1, <4>1 DEF n
        <4> QED
          BY <3>2, <4>2
      <3> QED
        BY <3>1, <3>2
    <2>2. w = [k \in 0..n |-> w[k]]
      OBVIOUS
    <2> HIDE DEF w
    <2> QED
      BY <2>1, <2>2 DEF IsFieldLoop
  <1>3. IsFieldLoop(fields, bytes, loop)
    <2> HIDE DEF w
    <2> QED
      BY <1>2, Zenon
  <1>4. ReadFields(fields)[bytes] = loop[n]
    BY DEF ReadFields, IsFieldLoop, NextField
  <1> HIDE DEF loop, w
  <1>5. loop[0] = first /\ \A k \in 1..n : loop[k] = NextField(fields, loop[k - 1], k)
    BY <1>1, <1>3 DEF IsFieldLoop
  <1> HIDE DEF first
  <1>6. \A k \in 0..n : loop[k] = v[k]
    <2>1. SameRounds(loop, v, n)
      BY <1>5 DEF SameRounds, first
    <2> HIDE DEF n
    <2>2. n \in Nat
      BY DEF n
    <2> QED
      BY <2>1, <2>2, SameLoop
  <1> QED
    BY <1>4, <1>6

LEMMA JoinAgain ==
  ASSUME NEW a \in Bytes, NEW b \in Bytes, NEW c \in Bytes
  PROVE  (a \o b) \o c = a \o (b \o c)
  BY DEF Bytes

Regroups(a, b, c) == (a \o b) \o c = a \o (b \o c)

LEMMA AllRegroup == \A a, b, c \in Bytes : Regroups(a, b, c)
  BY JoinAgain DEF Regroups

\* What is left after each of the words.
AreLeft(words, rest, s) ==
  /\ s[0] = FlattenSeq(words) \o rest
  /\ s[Len(words)] = rest
  /\ \A k \in 1..Len(words) : s[k - 1] = words[k] \o s[k]
  /\ \A k \in 0..Len(words) : s[k] \in Bytes

LEMMA LeftOfWords ==
  ASSUME NEW words \in Seq(Bytes), NEW rest \in Bytes
  PROVE  \E s : AreLeft(words, rest, s)
  <1> DEFINE n == Len(words)
             S == [k \in 0..n |-> Bytes]
             step == [k \in 1..n |-> [x \in S[k - 1] |-> Joined(words[n + 1 - k], x)]]
  <1>1. n \in Nat /\ \A k \in 1..n : words[k] \in Bytes
    BY ElementOfSeq
  <1>2. ASSUME NEW k \in 1..n, NEW x \in S[k - 1]
        PROVE  step[k][x] = Joined(words[n + 1 - k], x) /\ Joined(words[n + 1 - k], x) \in S[k]
    <2>1. k \in 0..n /\ k - 1 \in 0..n /\ n + 1 - k \in 1..n
      BY <1>1
    <2>2. Joined(words[n + 1 - k], x) \in Bytes
      BY <1>1, <2>1, JoinBytes DEF Joined
    <2> QED
      BY <2>1, <2>2
  <1> HIDE DEF step
  <1>3. PICK t : IsLoop(t, n, S, rest, step)
    <2>1. rest \in S[0]
      BY <1>1
    <2>2. \A k \in 1..n : \A x \in S[k - 1] : step[k][x] \in S[k]
      BY <1>2
    <2> HIDE DEF n, S
    <2> QED
      BY <1>1, <2>1, <2>2, LoopRuns
  <1>4. /\ t[0] = rest
        /\ \A k \in 1..n : t[k] = Joined(words[n + 1 - k], t[k - 1])
        /\ \A k \in 0..n : t[k] \in Bytes
    <2> HIDE DEF n
    <2>1. \A k \in 1..n : k - 1 \in 0..n
      BY <1>1
    <2>2. \A k \in 1..n : t[k] = Joined(words[n + 1 - k], t[k - 1])
      <3> HIDE DEF S
      <3> QED
        BY <1>2, <1>3, <2>1 DEF IsLoop
    <2> QED
      BY <1>3, <2>2 DEF IsLoop
  <1>5. PICK f : FlattenRun(words, f)
    BY FlattenLoop
  <1> HIDE DEF S
  <1> DEFINE all == FlattenSeq(words) \o rest
             Whole(j) == f[n - j] \o t[j] = all
             N == {j \in Nat : j <= n => Whole(j)}
  <1>6. 0 \in N
    <2>1. n - 0 = n /\ f[n] = FlattenSeq(words) /\ t[0] = rest
      BY <1>1, <1>4, <1>5 DEF FlattenRun
    <2>2. Whole(0)
      BY <2>1
    <2> HIDE DEF Whole
    <2> QED
      BY <2>2
  <1>7. ASSUME NEW j \in Nat, j \in N
        PROVE  j + 1 \in N
    <2> HIDE DEF Whole, n
    <2> SUFFICES ASSUME j + 1 <= n PROVE Whole(j + 1)
      OBVIOUS
    <2>6. n \in Nat
      BY <1>1
    <2> DEFINE i == n - j
    <2>1. /\ i \in 1..n /\ i - 1 \in 0..n /\ i \in 0..n /\ n - (j + 1) = i - 1
          /\ j \in 0..n /\ j + 1 \in 1..n /\ (j + 1) - 1 = j /\ n + 1 - (j + 1) = i
      BY <2>6
    <2>7. Whole(j)
      BY <1>7, <2>1
    <2>2. f[i] \o t[j] = all
      BY <2>7 DEF Whole
    <2> HIDE DEF i, N, all
    <2>3. f[i] = f[i - 1] \o words[i] /\ f[i - 1] \in Bytes
      BY <1>5, <2>1 DEF FlattenRun, Joined, n
    <2>4. t[j + 1] = words[i] \o t[j] /\ t[j] \in Bytes /\ words[i] \in Bytes
      BY <1>1, <1>4, <2>1 DEF Joined
    <2>5. (f[i - 1] \o words[i]) \o t[j] = f[i - 1] \o (words[i] \o t[j])
      BY <2>3, <2>4, JoinAgain
    <2> QED
      BY <2>1, <2>2, <2>3, <2>4, <2>5 DEF Whole
  <1>8. n \in N
    <2> HIDE DEF N
    <2> QED
      BY <1>1, <1>6, <1>7, NumberInduction
  <1>9. t[n] = all
    <2>3. Whole(n) /\ n - n = 0
      <3> HIDE DEF Whole
      <3> QED
        BY <1>1, <1>8
    <2>1. f[0] \o t[n] = all
      BY <2>3
    <2>2. f[0] = <<>> /\ t[n] \in Bytes
      BY <1>1, <1>4, <1>5 DEF FlattenRun
    <2> QED
      BY <2>1, <2>2, JoinNothing
  <1> DEFINE s == [k \in 0..n |-> t[n - k]]
  <1>10. s[0] = all /\ s[n] = rest
    BY <1>1, <1>4, <1>9
  <1>11. ASSUME NEW k \in 1..n
         PROVE  s[k - 1] = words[k] \o s[k]
    <2> HIDE DEF n
    <2>1. /\ k - 1 \in 0..n /\ k \in 0..n /\ n - (k - 1) \in 1..n /\ n + 1 - (n - (k - 1)) = k
          /\ (n - (k - 1)) - 1 = n - k
      BY <1>1
    <2>2. s[k - 1] = t[n - (k - 1)] /\ s[k] = t[n - k]
      BY <2>1
    <2>3. t[n - (k - 1)] = Joined(words[k], t[n - k])
      BY <1>4, <2>1
    <2> QED
      BY <2>2, <2>3 DEF Joined
  <1>12. \A k \in 0..n : s[k] \in Bytes
    <2> HIDE DEF n
    <2>1. \A k \in 0..n : n - k \in 0..n
      BY <1>1
    <2> QED
      BY <1>4, <2>1
  <1> HIDE DEF s
  <1> QED
    BY <1>10, <1>11, <1>12 DEF AreLeft

\* The record of the first fields.
Gathered(fields, items, k) ==
  [x \in {fields[j][1] : j \in 1..k} |-> items[CHOOSE j \in 1..k : fields[j][1] = x]]

Widened(fields, items, k) ==
  [x \in DOMAIN Gathered(fields, items, k - 1) \union {fields[k][1]} |->
     IF x = fields[k][1] THEN items[k] ELSE Gathered(fields, items, k - 1)[x]]

DifferentNames(fields, k) == \A i, j \in 1..k : fields[i][1] = fields[j][1] => i = j

LEMMA GatherNext ==
  ASSUME NEW fields, NEW items, NEW k \in Nat, k > 0, DifferentNames(fields, k)
  PROVE  Gathered(fields, items, k) = Widened(fields, items, k)
  <1> DEFINE g == Gathered(fields, items, k)
             h == Gathered(fields, items, k - 1)
             new == fields[k][1]
  <1>1. \A j : j \in 1..k <=> j \in 1..(k - 1) \/ j = k
    OBVIOUS
  <1>2. k \notin 1..(k - 1)
    OBVIOUS
  <1>3. DOMAIN g = DOMAIN h \union {new}
    BY <1>1 DEF Gathered
  <1>4. g[new] = items[k]
    <2>1. new \in {fields[j][1] : j \in 1..k} /\ k \in 1..k
      BY <1>1
    <2>2. (CHOOSE j \in 1..k : fields[j][1] = new) = k
      BY <2>1 DEF DifferentNames
    <2> QED
      BY <2>1, <2>2 DEF Gathered
  <1>5. ASSUME NEW x \in DOMAIN h, x # new
        PROVE  g[x] = h[x]
    <2>1. PICK i \in 1..(k - 1) : fields[i][1] = x
      BY <1>5 DEF Gathered
    <2>2. i \in 1..k /\ x \in DOMAIN g
      BY <1>1, <1>3, <2>1
    <2>3. (CHOOSE j \in 1..k : fields[j][1] = x) = i
      BY <2>1, <2>2 DEF DifferentNames
    <2>4. (CHOOSE j \in 1..(k - 1) : fields[j][1] = x) = i
      BY <1>1, <2>1 DEF DifferentNames
    <2>5. g[x] = items[i]
      BY <2>2, <2>3 DEF Gathered
    <2>6. h[x] = items[i]
      BY <1>5, <2>4 DEF Gathered
    <2> QED
      BY <2>5, <2>6
  <1>6. g = [x \in DOMAIN g |-> g[x]]
    BY DEF Gathered
  <1> HIDE DEF g, h
  <1>7. g = [x \in DOMAIN h \union {new} |-> IF x = new THEN items[k] ELSE h[x]]
    BY <1>3, <1>4, <1>5, <1>6
  <1> QED
    BY <1>7 DEF g, h, Widened

LEMMA FieldsRead ==
  ASSUME NEW fields, NEW words \in Seq(Bytes), NEW items, Len(fields) = Len(words),
         DifferentNames(fields, Len(words)),
         \A k \in 1..Len(words) : Reads(fields[k][2], items[k], words[k])
  PROVE  Reads(ReadFields(fields), Gathered(fields, items, Len(words)), FlattenSeq(words))
  <1> DEFINE n == Len(words)
  <1>1. n \in Nat
    BY LenProperties
  <1> SUFFICES ASSUME NEW rest \in Bytes
               PROVE  ReadFields(fields)[FlattenSeq(words) \o rest]
                        = [item |-> Gathered(fields, items, n), rest |-> rest]
    BY FlattenBytes DEF Reads
  <1>2. PICK s : AreLeft(words, rest, s)
    BY LeftOfWords
  <1> DEFINE v == [k \in 0..n |-> [item |-> Gathered(fields, items, k), rest |-> s[k]]]
             bytes == FlattenSeq(words) \o rest
  <1>3. v[0] = [item |-> <<>>, rest |-> bytes]
    <2>1. s[0] = bytes
      BY <1>2 DEF AreLeft
    <2>2. Gathered(fields, items, 0) = <<>>
      BY DEF Gathered
    <2>3. v[0] = [item |-> Gathered(fields, items, 0), rest |-> s[0]]
      BY <1>1
    <2> HIDE DEF v
    <2> QED
      BY <2>1, <2>2, <2>3
  <1>4. ASSUME NEW k \in 1..n
        PROVE  v[k] = NextField(fields, v[k - 1], k)
    <2>1. k \in 0..n /\ k - 1 \in 0..n /\ k \in Nat /\ k > 0 /\ 1..k \subseteq 1..n
      BY <1>1
    <2> HIDE DEF n
    <2>2. v[k - 1].rest = words[k] \o s[k] /\ s[k] \in Bytes
      BY <1>2, <2>1 DEF AreLeft, n
    <2>3. Reads(fields[k][2], items[k], words[k])
      BY DEF n
    <2>4. fields[k][2][v[k - 1].rest] = [item |-> items[k], rest |-> s[k]]
      BY <2>2, <2>3 DEF Reads
    <2>5. DifferentNames(fields, k)
      BY <2>1 DEF n, DifferentNames
    <2>6. Gathered(fields, items, k) = Widened(fields, items, k)
      BY <2>1, <2>5, GatherNext
    <2>7. v[k - 1].item = Gathered(fields, items, k - 1)
      BY <2>1
    <2>8. v[k] = [item |-> Gathered(fields, items, k), rest |-> s[k]]
      BY <2>1
    <2> DEFINE next == fields[k][2][v[k - 1].rest]
    <2>9. next.item = items[k] /\ next.rest = s[k]
      BY <2>4
    <2> HIDE DEF next, v
    <2>10. ThenField(v[k - 1], fields[k][1], next) =
             [item |-> [x \in DOMAIN v[k - 1].item \union {fields[k][1]} |->
                          IF x = fields[k][1] THEN next.item ELSE v[k - 1].item[x]],
              rest |-> next.rest]
      BY DEF ThenField
    <2> QED
      BY <2>6, <2>7, <2>8, <2>9, <2>10 DEF NextField, next, Widened
  <1>5. bytes \in Bytes
    BY FlattenBytes, JoinBytes
  <1>6. ReadFields(fields)[bytes] = v[n]
    <2> HIDE DEF v, bytes
    <2>1. Len(fields) \in Nat /\ n = Len(fields)
      BY <1>1
    <2> QED
      BY <1>3, <1>4, <1>5, <2>1, FieldLoop
  <1>7. s[n] = rest
    BY <1>2 DEF AreLeft
  <1> QED
    BY <1>1, <1>6, <1>7

-----------------------------------------------------------------------------
(* A block's header. *)

\* Names, and what reads the field.
HeaderFields ==
  << <<"version", ReadNumber(4)>>, <<"prev", ReadBytes(HashLen)>>, <<"root", ReadBytes(HashLen)>>,
     <<"time", ReadNumber(4)>>, <<"bits", ReadNumber(4)>>, <<"nonce", ReadNumber(4)>> >>
HeaderWords(h) ==
  << Le(h.version, 4), h.prev, h.root, Le(h.time, 4), Le(h.bits, 4), Le(h.nonce, 4) >>
HeaderItems(h) ==
  << Number(Le(h.version, 4)), h.prev, h.root, Number(Le(h.time, 4)), Number(Le(h.bits, 4)),
     Number(Le(h.nonce, 4)) >>

Header == [version : Nat, prev : Digests, root : Digests, time : Nat, bits : Nat, nonce : Nat]

LEMMA SixWords ==
  ASSUME NEW words \in Seq(Bytes), Len(words) = 6
  PROVE  FlattenSeq(words) = words[1] \o words[2] \o words[3] \o words[4] \o words[5] \o words[6]
  <1>1. /\ words[1] \in Bytes /\ 1 \in 1..Len(words)
    BY ElementOfSeq
  <1>2. PICK f : FlattenRun(words, f)
    BY FlattenLoop
  <1>3. /\ f[0] = <<>> /\ f[1] = Joined(f[0], words[1]) /\ f[2] = Joined(f[1], words[2])
        /\ f[3] = Joined(f[2], words[3]) /\ f[4] = Joined(f[3], words[4])
        /\ f[5] = Joined(f[4], words[5]) /\ f[6] = Joined(f[5], words[6])
        /\ FlattenSeq(words) = f[6]
    BY <1>2 DEF FlattenRun
  <1>4. f[1] = words[1]
    BY <1>1, <1>3, JoinNothing DEF Joined
  <1> QED
    BY <1>3, <1>4, Zenon DEF Joined

LEMMA HeaderIsWords ==
  ASSUME NEW h \in Header
  PROVE  /\ HeaderWords(h) \in Seq(Bytes) /\ Len(HeaderWords(h)) = 6
         /\ FlattenSeq(HeaderWords(h)) = WriteHeader(h)
         /\ WriteHeader(h) \in Bytes
  <1>1. h.prev \in Bytes /\ h.root \in Bytes
    BY DEF Header, Digests
  <1>2. h.version \in Nat /\ h.time \in Nat /\ h.bits \in Nat /\ h.nonce \in Nat
    BY DEF Header
  <1>3. Le(h.version, 4) \in Bytes /\ Le(h.time, 4) \in Bytes /\ Le(h.bits, 4) \in Bytes /\ Le(h.nonce, 4) \in Bytes
    BY <1>2, LeBytes
  <1> DEFINE words == HeaderWords(h)
  <1>4. /\ words[1] = Le(h.version, 4) /\ words[2] = h.prev /\ words[3] = h.root
        /\ words[4] = Le(h.time, 4) /\ words[5] = Le(h.bits, 4) /\ words[6] = Le(h.nonce, 4)
        /\ Len(words) = 6
    BY DEF HeaderWords
  <1>5. words \in Seq(Bytes)
    <2>1. \A a, b, c, d, e, g \in Bytes : <<a, b, c, d, e, g>> \in Seq(Bytes)
      OBVIOUS
    <2> QED
      BY <1>1, <1>3, <2>1 DEF HeaderWords
  <1> HIDE DEF words
  <1>6. FlattenSeq(words) = words[1] \o words[2] \o words[3] \o words[4] \o words[5] \o words[6]
    BY <1>4, <1>5, SixWords
  <1>7. FlattenSeq(words) = WriteHeader(h)
    BY <1>4, <1>6, Zenon DEF WriteHeader
  <1> QED
    BY <1>4, <1>5, <1>7, FlattenBytes DEF words

LEMMA HeaderNames ==
  /\ Len(HeaderFields) = 6 /\ DifferentNames(HeaderFields, 6) /\ HeaderFields[5][1] = "bits"
  <1>1. /\ HeaderFields[1][1] = "version" /\ HeaderFields[2][1] = "prev" /\ HeaderFields[3][1] = "root"
        /\ HeaderFields[4][1] = "time" /\ HeaderFields[5][1] = "bits" /\ HeaderFields[6][1] = "nonce"
        /\ Len(HeaderFields) = 6
    BY DEF HeaderFields
  <1>2. \A i : i \in 1..6 => i = 1 \/ i = 2 \/ i = 3 \/ i = 4 \/ i = 5 \/ i = 6
    OBVIOUS
  <1>3. DifferentNames(HeaderFields, 6)
    <2> SUFFICES ASSUME NEW i \in 1..6, NEW j \in 1..6, HeaderFields[i][1] = HeaderFields[j][1]
                 PROVE  i = j
      BY DEF DifferentNames
    <2> QED
      BY <1>1, <1>2
  <1> QED
    BY <1>1, <1>3

LEMMA HeaderReads ==
  ASSUME NEW h \in Header, h.bits < Wide
  PROVE  /\ Reads(ReadHeader, Gathered(HeaderFields, HeaderItems(h), 6), WriteHeader(h))
         /\ Gathered(HeaderFields, HeaderItems(h), 6).bits = h.bits
  <1> DEFINE words == HeaderWords(h)
             items == HeaderItems(h)
  <1>1. words \in Seq(Bytes) /\ Len(words) = 6 /\ FlattenSeq(words) = WriteHeader(h)
    BY HeaderIsWords
  <1>2. \A k \in 1..6 : Reads(HeaderFields[k][2], items[k], words[k])
    <2>1. h.version \in Nat /\ h.time \in Nat /\ h.bits \in Nat /\ h.nonce \in Nat
      BY DEF Header
    <2>8. \A n \in Nat : Reads(ReadNumber(4), Number(Le(n, 4)), Le(n, 4))
      <3> SUFFICES ASSUME NEW n \in Nat PROVE Reads(ReadNumber(4), Number(Le(n, 4)), Le(n, 4))
        OBVIOUS
      <3>1. Le(n, 4) \in Bytes /\ Len(Le(n, 4)) = 4
        BY LeBytes
      <3> QED
        BY <3>1, ReadsNumber
    <2>2. /\ Reads(ReadNumber(4), Number(Le(h.version, 4)), Le(h.version, 4))
          /\ Reads(ReadNumber(4), Number(Le(h.time, 4)), Le(h.time, 4))
          /\ Reads(ReadNumber(4), Number(Le(h.bits, 4)), Le(h.bits, 4))
          /\ Reads(ReadNumber(4), Number(Le(h.nonce, 4)), Le(h.nonce, 4))
      BY <2>1, <2>8
    <2>3. Reads(ReadBytes(HashLen), h.prev, h.prev) /\ Reads(ReadBytes(HashLen), h.root, h.root)
      <3>1. h.prev \in Bytes /\ Len(h.prev) = HashLen /\ h.root \in Bytes /\ Len(h.root) = HashLen
        BY DEF Header, Digests
      <3> QED
        BY <3>1, ReadsBytes
    <2>4. /\ HeaderFields[1][2] = ReadNumber(4) /\ HeaderFields[2][2] = ReadBytes(HashLen)
          /\ HeaderFields[3][2] = ReadBytes(HashLen) /\ HeaderFields[4][2] = ReadNumber(4)
          /\ HeaderFields[5][2] = ReadNumber(4) /\ HeaderFields[6][2] = ReadNumber(4)
      BY DEF HeaderFields
    <2>5. /\ items[1] = Number(Le(h.version, 4)) /\ items[2] = h.prev /\ items[3] = h.root
          /\ items[4] = Number(Le(h.time, 4)) /\ items[5] = Number(Le(h.bits, 4))
          /\ items[6] = Number(Le(h.nonce, 4))
      BY DEF HeaderItems
    <2>6. /\ words[1] = Le(h.version, 4) /\ words[2] = h.prev /\ words[3] = h.root
          /\ words[4] = Le(h.time, 4) /\ words[5] = Le(h.bits, 4) /\ words[6] = Le(h.nonce, 4)
      BY DEF HeaderWords
    <2>7. \A k : k \in 1..6 => k = 1 \/ k = 2 \/ k = 3 \/ k = 4 \/ k = 5 \/ k = 6
      OBVIOUS
    <2> HIDE DEF words, items
    <2> SUFFICES ASSUME NEW k \in 1..6 PROVE Reads(HeaderFields[k][2], items[k], words[k])
      OBVIOUS
    <2> QED
      BY <2>2, <2>3, <2>4, <2>5, <2>6, <2>7
  <1>3. ReadHeader = ReadFields(HeaderFields)
    BY DEF ReadHeader, HeaderFields
  <1> DEFINE got == Gathered(HeaderFields, items, 6)
  <1>4. got.bits = h.bits
    <2>1. "bits" \in {HeaderFields[j][1] : j \in 1..6}
      BY HeaderNames
    <2>2. (CHOOSE j \in 1..6 : HeaderFields[j][1] = "bits") = 5
      BY HeaderNames DEF DifferentNames
    <2>3. items[5] = h.bits
      <3>1. items[5] = Number(Le(h.bits, 4))
        BY DEF HeaderItems
      <3>2. h.bits \in Nat
        BY DEF Header
      <3> QED
        BY <3>1, <3>2, ReadBackFour
    <2> HIDE DEF items
    <2> QED
      BY <2>1, <2>2, <2>3 DEF Gathered
  <1> HIDE DEF words, items
  <1>5. Reads(ReadFields(HeaderFields), Gathered(HeaderFields, items, Len(words)), FlattenSeq(words))
    BY <1>1, <1>2, HeaderNames, FieldsRead
  <1> QED
    BY <1>1, <1>3, <1>4, <1>5 DEF items

LEMMA FieldKept ==
  ASSUME NEW got, NEW name, NEW next
  PROVE  /\ ThenField(got, name, next).item[name] = next.item
         /\ name \in DOMAIN ThenField(got, name, next).item
         /\ \A x \in DOMAIN got.item : x # name => /\ ThenField(got, name, next).item[x] = got.item[x]
                                                   /\ x \in DOMAIN ThenField(got, name, next).item
  <1> DEFINE item == [x \in DOMAIN got.item \union {name} |-> IF x = name THEN next.item ELSE got.item[x]]
  <1>1. ThenField(got, name, next).item = item
    BY DEF ThenField
  <1>2. item[name] = next.item /\ name \in DOMAIN item
    OBVIOUS
  <1>3. \A x \in DOMAIN got.item : x # name => item[x] = got.item[x] /\ x \in DOMAIN item
    OBVIOUS
  <1> HIDE DEF item
  <1> QED
    BY <1>1, <1>2, <1>3

\* Whatever comes after its header, and whatever is made of that.
LEMMA BlockHeaderReads ==
  ASSUME NEW h \in Header, h.bits < Wide, NEW rest \in Bytes
  PROVE  ReadBlock(WriteHeader(h) \o rest).header.bits = h.bits
  <1> DEFINE bytes == WriteHeader(h) \o rest
             proof == IF (Number(Taken(bytes, 4)) \div 256) % 2 = 1 THEN ReadProof ELSE ReadNothing
             fields == << <<"header", ReadHeader>>, <<"proof", proof>>, <<"txs", ReadMany(ReadTx)>> >>
             item == Gathered(HeaderFields, HeaderItems(h), 6)
  <1>1. bytes \in Bytes /\ ReadHeader[bytes].item = item /\ item.bits = h.bits
    <2>1. Reads(ReadHeader, item, WriteHeader(h)) /\ item.bits = h.bits
      BY HeaderReads
    <2> HIDE DEF item
    <2>2. ReadHeader[bytes] = [item |-> item, rest |-> rest]
      BY <2>1 DEF Reads
    <2>3. bytes \in Bytes
      BY HeaderIsWords, JoinBytes
    <2> QED
      BY <2>1, <2>2, <2>3
  <1>2. ReadBlock(bytes).header = ReadFields(fields)[bytes].item.header
    <2>1. ReadBlock(bytes).header = ReadBlockAs(proof)[bytes].item.header
      BY DEF ReadBlock
    <2> QED
      BY <2>1 DEF ReadBlockAs
  <1>3. Len(fields) = 3 /\ fields[1][1] = "header" /\ fields[2][1] = "proof" /\ fields[3][1] = "txs"
        /\ fields[1][2] = ReadHeader
    OBVIOUS
  <1> HIDE DEF proof, fields, bytes, item
  <1> DEFINE first == [item |-> <<>>, rest |-> bytes]
             one == NextField(fields, first, 1)
             two == NextField(fields, one, 2)
             three == NextField(fields, two, 3)
             v == [k \in 0..3 |-> IF k = 0 THEN first ELSE IF k = 1 THEN one ELSE IF k = 2 THEN two ELSE three]
  <1>4. v[0] = first /\ v[1] = one /\ v[2] = two /\ v[3] = three
    OBVIOUS
  <1>5. ReadFields(fields)[bytes] = three
    <2>1. v[0] = [item |-> <<>>, rest |-> bytes]
      BY <1>4
    <2> HIDE DEF v
    <2>2. \A k \in 1..3 : v[k] = NextField(fields, v[k - 1], k)
      <3>1. \A k \in 1..3 : k = 1 \/ k = 2 \/ k = 3
        OBVIOUS
      <3>2. 1 - 1 = 0 /\ 2 - 1 = 1 /\ 3 - 1 = 2
        OBVIOUS
      <3>3. v[1] = NextField(fields, v[0], 1) /\ v[2] = NextField(fields, v[1], 2) /\ v[3] = NextField(fields, v[2], 3)
        BY <1>4
      <3> HIDE DEF first, one, two, three
      <3> SUFFICES ASSUME NEW k \in 1..3 PROVE v[k] = NextField(fields, v[k - 1], k)
        OBVIOUS
      <3> QED
        BY <3>1, <3>2, <3>3
    <2> HIDE DEF three
    <2>3. Len(fields) \in Nat
      BY <1>3
    <2>4. \A k \in 1..Len(fields) : v[k] = NextField(fields, v[k - 1], k)
      BY <1>3, <2>2
    <2>5. ReadFields(fields)[bytes] = v[Len(fields)]
      BY <1>1, <2>1, <2>3, <2>4, FieldLoop
    <2> QED
      BY <1>3, <1>4, <2>5
  <1>6. one.item["header"] = item /\ "header" \in DOMAIN one.item
    <2>1. one = ThenField(first, "header", ReadHeader[bytes])
      BY <1>3 DEF NextField
    <2> HIDE DEF first, one
    <2> QED
      BY <1>1, <2>1, FieldKept
  <1>7. two.item["header"] = item /\ "header" \in DOMAIN two.item
    <2>1. two = ThenField(one, "proof", fields[2][2][one.rest])
      BY <1>3 DEF NextField
    <2>2. "header" # "proof"
      OBVIOUS
    <2> HIDE DEF one, two
    <2> QED
      BY <1>6, <2>1, <2>2, FieldKept
  <1>8. three.item["header"] = item
    <2>1. three = ThenField(two, "txs", fields[3][2][two.rest])
      BY <1>3 DEF NextField
    <2>2. "header" # "txs"
      OBVIOUS
    <2> HIDE DEF two, three
    <2> QED
      BY <1>7, <2>1, <2>2, FieldKept
  <1> HIDE DEF three
  <1>9. ReadBlock(bytes).header = item
    BY <1>2, <1>5, <1>8
  <1> QED
    BY <1>1, <1>9 DEF bytes

-----------------------------------------------------------------------------
(* A hash meets a target when the node takes it for at most the target. *)

\* The bytes of 256-bit numbers.
Value == [1..HashLen -> Int]

LEMMA HashBytes == HashLen \in Nat /\ HashLen = 32
  BY DEF HashLen

LEMMA SequenceOfLength ==
  ASSUME NEW n \in Nat, NEW a \in [1..n -> Int]
  PROVE  Len(a) = n /\ a \in Seq(Int)
  OBVIOUS

LEMMA ReversedValue ==
  ASSUME NEW a \in Value
  PROVE  /\ Len(a) = HashLen /\ Reverse(a) \in Value /\ Len(Reverse(a)) = HashLen
         /\ \A i \in 1..HashLen : Reverse(a)[i] = a[HashLen + 1 - i]
         /\ a \in Seq(Int) /\ Reverse(a) \in Seq(Int)
  <1>1. Len(a) = HashLen /\ a \in Seq(Int)
    BY HashBytes, SequenceOfLength DEF Value
  <1>2. Reverse(a) = [i \in 1..HashLen |-> a[HashLen + 1 - i]]
    <2>1. Reverse(a) = [i \in 1..HashLen |-> a[(HashLen - i) + 1]]
      BY <1>1 DEF Reverse
    <2>2. \A i \in 1..HashLen : (HashLen - i) + 1 = HashLen + 1 - i
      BY HashBytes
    <2> QED
      BY <2>1, <2>2
  <1>3. \A i \in 1..HashLen : HashLen + 1 - i \in 1..HashLen
    BY HashBytes
  <1>4. Reverse(a) \in Value
    BY <1>2, <1>3 DEF Value
  <1>5. Reverse(a) \in Seq(Int) /\ Len(Reverse(a)) = HashLen
    BY <1>4, HashBytes, SequenceOfLength DEF Value
  <1> QED
    BY <1>1, <1>2, <1>4, <1>5

LEMMA SamePrefix ==
  ASSUME NEW a \in Seq(Int), NEW b \in Seq(Int), NEW n \in Nat, n <= Len(a), n <= Len(b)
  PROVE  SubSeq(a, 1, n) = SubSeq(b, 1, n) <=> \A j \in 1..n : a[j] = b[j]
  <1>1. SubSeq(a, 1, n) = [j \in 1..n |-> a[j]] /\ SubSeq(b, 1, n) = [j \in 1..n |-> b[j]]
    OBVIOUS
  <1> QED
    BY <1>1

LEMMA MetIsAtMost ==
  ASSUME NEW hash \in Value, NEW target \in Value
  PROVE  IsMetBy(target, hash) <=> AtMost(Reverse(hash), Reverse(target))
  <1> DEFINE a == Reverse(hash)
             b == Reverse(target)
  <1>1. /\ a \in Seq(Int) /\ b \in Seq(Int) /\ Len(a) = HashLen /\ Len(b) = HashLen
        /\ a \in Value /\ b \in Value
    BY ReversedValue
  <1>2. \A i \in 1..HashLen : a[i] = hash[HashLen + 1 - i] /\ b[i] = target[HashLen + 1 - i]
    BY ReversedValue
  <1> HIDE DEF a, b
  <1>3. \A i \in 1..HashLen : HashLen + 1 - i \in 1..HashLen /\ HashLen + 1 - (HashLen + 1 - i) = i
    BY HashBytes
  <1>4. a = b <=> hash = target
    <2>1. ASSUME a = b PROVE \A i \in 1..HashLen : hash[i] = target[i]
      BY <1>2, <1>3, <2>1
    <2>2. ASSUME hash = target PROVE \A i \in 1..HashLen : a[i] = b[i]
      BY <1>2, <2>2
    <2>3. hash = [i \in 1..HashLen |-> hash[i]] /\ target = [i \in 1..HashLen |-> target[i]]
      BY DEF Value
    <2>4. a = [i \in 1..HashLen |-> a[i]] /\ b = [i \in 1..HashLen |-> b[i]]
      BY <1>1 DEF Value
    <2> QED
      BY <2>1, <2>2, <2>3, <2>4
  <1>5. Below(hash, target) <=> \E i \in DOMAIN a : a[i] < b[i] /\ SubSeq(a, 1, i - 1) = SubSeq(b, 1, i - 1)
    <2>1. DOMAIN a = 1..HashLen
      BY <1>1 DEF Value
    <2>2. \A i \in 1..HashLen : SubSeq(a, 1, i - 1) = SubSeq(b, 1, i - 1) <=> \A j \in 1..(i - 1) : a[j] = b[j]
      <3> SUFFICES ASSUME NEW i \in 1..HashLen
                   PROVE  SubSeq(a, 1, i - 1) = SubSeq(b, 1, i - 1) <=> \A j \in 1..(i - 1) : a[j] = b[j]
        OBVIOUS
      <3> DEFINE n == i - 1
      <3>1. n \in Nat /\ n <= Len(a) /\ n <= Len(b)
        BY <1>1, HashBytes
      <3> HIDE DEF n
      <3>2. SubSeq(a, 1, n) = SubSeq(b, 1, n) <=> \A j \in 1..n : a[j] = b[j]
        BY <1>1, <3>1, SamePrefix
      <3> QED
        BY <3>2 DEF n
    <2>3. ASSUME NEW i \in 1..HashLen
          PROVE  (\A j \in 1..(i - 1) : a[j] = b[j])
                   <=> \A j \in ((HashLen + 1 - i) + 1)..HashLen : hash[j] = target[j]
      <3>1. ASSUME \A j \in 1..(i - 1) : a[j] = b[j], NEW j \in ((HashLen + 1 - i) + 1)..HashLen
            PROVE  hash[j] = target[j]
        <4>1. HashLen + 1 - j \in 1..(i - 1) /\ HashLen + 1 - j \in 1..HashLen /\ HashLen + 1 - (HashLen + 1 - j) = j
          BY HashBytes
        <4> QED
          BY <1>2, <3>1, <4>1
      <3>2. ASSUME \A j \in ((HashLen + 1 - i) + 1)..HashLen : hash[j] = target[j], NEW j \in 1..(i - 1)
            PROVE  a[j] = b[j]
        <4>1. HashLen + 1 - j \in ((HashLen + 1 - i) + 1)..HashLen /\ j \in 1..HashLen
          BY HashBytes
        <4> QED
          BY <1>2, <3>2, <4>1
      <3> QED
        BY <3>1, <3>2
    <2>4. \A i \in 1..HashLen : a[i] < b[i] <=> hash[HashLen + 1 - i] < target[HashLen + 1 - i]
      BY <1>2
    <2>5. ASSUME NEW i \in 1..HashLen, a[i] < b[i], SubSeq(a, 1, i - 1) = SubSeq(b, 1, i - 1)
          PROVE  Below(hash, target)
      <3> DEFINE m == HashLen + 1 - i
      <3>1. m \in 1..HashLen
        BY <1>3
      <3>2. hash[m] < target[m] /\ \A j \in (m + 1)..HashLen : hash[j] = target[j]
        BY <2>2, <2>3, <2>4, <2>5
      <3> HIDE DEF m
      <3> QED
        BY <3>1, <3>2 DEF Below
    <2>6. ASSUME Below(hash, target)
          PROVE  \E i \in 1..HashLen : a[i] < b[i] /\ SubSeq(a, 1, i - 1) = SubSeq(b, 1, i - 1)
      <3>1. PICK m \in 1..HashLen : hash[m] < target[m] /\ \A j \in (m + 1)..HashLen : hash[j] = target[j]
        BY <2>6 DEF Below
      <3> DEFINE i == HashLen + 1 - m
      <3>2. i \in 1..HashLen /\ HashLen + 1 - i = m
        BY <1>3
      <3> HIDE DEF i
      <3>3. a[i] < b[i]
        BY <2>4, <3>1, <3>2
      <3>4. \A j \in 1..(i - 1) : a[j] = b[j]
        BY <2>3, <3>1, <3>2
      <3> QED
        BY <2>2, <3>2, <3>3, <3>4
    <2> QED
      BY <2>1, <2>5, <2>6
  <1> QED
    BY <1>4, <1>5 DEF IsMetBy, AtMost, a, b

\* A hash that meets one target meets one that is no lower.
LEMMA MeetsHigher ==
  ASSUME NEW hash \in Value, NEW low \in Value, NEW high \in Value,
         IsMetBy(low, hash), IsMetBy(high, low)
  PROVE  IsMetBy(high, hash)
  <1>1. CASE Below(hash, low) /\ Below(low, high)
    <2>1. PICK i \in 1..HashLen : hash[i] < low[i] /\ \A j \in (i + 1)..HashLen : hash[j] = low[j]
      BY <1>1 DEF Below
    <2>2. PICK k \in 1..HashLen : low[k] < high[k] /\ \A j \in (k + 1)..HashLen : low[j] = high[j]
      BY <1>1 DEF Below
    <2>3. \A j \in 1..HashLen : hash[j] \in Int /\ low[j] \in Int /\ high[j] \in Int
      BY DEF Value
    <2>4. CASE i = k
      <3>1. hash[i] < high[i] /\ \A j \in (i + 1)..HashLen : hash[j] = high[j]
        BY <2>1, <2>2, <2>3, <2>4
      <3> QED
        BY <3>1 DEF Below, IsMetBy
    <2>5. CASE i < k
      <3>1. k \in (i + 1)..HashLen /\ \A j \in (k + 1)..HashLen : j \in (i + 1)..HashLen
        BY <2>5, HashBytes
      <3>2. hash[k] < high[k] /\ \A j \in (k + 1)..HashLen : hash[j] = high[j]
        BY <2>1, <2>2, <3>1
      <3> QED
        BY <3>2 DEF Below, IsMetBy
    <2>6. CASE k < i
      <3>1. i \in (k + 1)..HashLen /\ \A j \in (i + 1)..HashLen : j \in (k + 1)..HashLen
        BY <2>6, HashBytes
      <3>2. hash[i] < high[i] /\ \A j \in (i + 1)..HashLen : hash[j] = high[j]
        BY <2>1, <2>2, <3>1
      <3> QED
        BY <3>2 DEF Below, IsMetBy
    <2>7. i \in Nat /\ k \in Nat
      BY HashBytes
    <2> QED
      BY <2>4, <2>5, <2>6, <2>7
  <1> QED
    BY <1>1 DEF IsMetBy

-----------------------------------------------------------------------------
(* The node's target is the pool's, back to front. *)

Half == 8388608

LEMMA PartsOfBits ==
  ASSUME NEW bits \in Nat
  PROVE  /\ 2^24 = Three /\ 2^23 = Half /\ MaxBits \in Nat
         /\ bits \div 2^24 \in Nat /\ bits % 2^24 \in Nat /\ bits % 2^23 \in Nat
         /\ bits <= MaxBits => bits \div 2^24 <= 127
         /\ ((bits % 2^24) \div 65536) % 256 < 128 => bits % 2^23 = bits % 2^24
  <1>1. 2^24 = Three /\ 2^23 = Half
    BY SMT DEF Three, Half
  <1>2. /\ bits \div Three \in Nat /\ bits % Three \in Nat /\ bits % Half \in Nat
        /\ bits <= MaxBits => bits \div Three <= 127
    BY SMT DEF Three, Half, MaxBits
  <1>3. ((bits % Three) \div 65536) % 256 < 128 => bits % Half = bits % Three
    BY SMTT(30) DEF Three, Half
  <1>4. MaxBits \in Nat
    BY SMT DEF MaxBits
  <1> QED
    BY <1>1, <1>2, <1>3, <1>4

\* The three bytes of the mantissa, most significant first.
LEMMA MantissaBytes ==
  ASSUME NEW bits \in Nat
  PROVE  /\ Mantissa(bits) \in Bytes /\ Len(Mantissa(bits)) = 3
         /\ \A i \in 1..3 : Mantissa(bits)[i] = Le(bits % 2^24, 3)[4 - i]
         /\ ~Negative(bits) => bits % 2^23 = bits % 2^24
  <1> DEFINE low == bits % 2^24
             digits == Le(low, 3)
  <1>1. low \in Nat
    BY PartsOfBits
  <1> HIDE DEF low
  <1>2. digits \in Bytes /\ Len(digits) = 3
    BY <1>1, LeBytes
  <1>3. digits[3] = (low \div 65536) % 256
    <2>1. 256^(3 - 1) = 65536
      BY SMT
    <2> QED
      BY <1>1, <2>1, SMT DEF Le
  <1> HIDE DEF digits
  <1>4. Mantissa(bits) = [i \in 1..3 |-> digits[(3 - i) + 1]]
    BY <1>2 DEF Mantissa, Reverse, digits, low
  <1>5. \A i \in 1..3 : (3 - i) + 1 = 4 - i /\ 4 - i \in 1..3
    OBVIOUS
  <1>6. \A i \in 1..3 : digits[i] \in Byte
    <2>1. digits \in Seq(Byte)
      BY <1>2 DEF Bytes
    <2> QED
      BY <1>2, <2>1, ElementOfSeq
  <1>7. Mantissa(bits) \in Bytes /\ Len(Mantissa(bits)) = 3
    <2> DEFINE f(i) == digits[(3 - i) + 1]
    <2>1. \A i \in 1..3 : f(i) \in Byte
      BY <1>5, <1>6
    <2>2. Mantissa(bits) = [i \in 1..3 |-> f(i)]
      BY <1>4
    <2> HIDE DEF f
    <2> QED
      BY <2>1, <2>2 DEF Bytes
  <1>8. \A i \in 1..3 : Mantissa(bits)[i] = digits[4 - i]
    BY <1>4, <1>5
  <1>9. ~Negative(bits) => (low \div 65536) % 256 < 128
    <2>1. Mantissa(bits)[1] = digits[3]
      BY <1>8
    <2>2. digits[3] \in Nat
      BY <1>6, ByteIs
    <2>3. ~Negative(bits) => digits[3] < 128
      BY <2>1, <2>2 DEF Negative
    <2> QED
      BY <1>3, <2>3
  <1> QED
    BY <1>7, <1>8, <1>9, PartsOfBits DEF low, digits

\* The last of a sequence after another of the same length as what is wanted.
IsLastPart(t, a, b, n, size) ==
  /\ t \in Bytes /\ Len(t) = n
  /\ \A j \in 1..n : t[j] = IF size + j <= n THEN a[size + j] ELSE b[size + j - n]

LEMMA LastPart ==
  ASSUME NEW n \in Nat, NEW size \in Nat, NEW a \in Bytes, NEW b \in Bytes,
         Len(a) = n, Len(b) = size
  PROVE  IsLastPart(SubSeq(a \o b, size + 1, size + n), a, b, n, size)
  <1> DEFINE d == a \o b
             t == SubSeq(d, size + 1, size + n)
  <1>1. d \in Bytes /\ Len(d) = n + size
    BY JoinBytes
  <1>2. \A k \in 1..(n + size) : d[k] = IF k <= n THEN a[k] ELSE b[k - n]
    BY DEF Bytes
  <1> HIDE DEF d
  <1>3. t = [j \in 1..n |-> d[size + j]]
    <2>1. t = [j \in 1..((size + n) - (size + 1) + 1) |-> d[j + (size + 1) - 1]]
      BY <1>1 DEF Bytes
    <2>2. (size + n) - (size + 1) + 1 = n /\ \A j \in 1..n : j + (size + 1) - 1 = size + j
      OBVIOUS
    <2> QED
      BY <2>1, <2>2
  <1>4. \A j \in 1..n : size + j \in 1..(n + size)
    OBVIOUS
  <1>5. \A j \in 1..n : d[size + j] \in Byte
    <2>1. d \in Seq(Byte)
      BY <1>1 DEF Bytes
    <2> QED
      BY <1>1, <1>4, <2>1, ElementOfSeq
  <1>6. t \in Bytes /\ Len(t) = n
    <2> DEFINE f(j) == d[size + j]
    <2>1. \A j \in 1..n : f(j) \in Byte
      BY <1>5
    <2>2. t = [j \in 1..n |-> f(j)]
      BY <1>3
    <2> HIDE DEF f, t
    <2> QED
      BY <2>1, <2>2 DEF Bytes
  <1>7. \A j \in 1..n : t[j] = d[size + j]
    BY <1>3
  <1>8. \A j \in 1..n : t[j] = IF size + j <= n THEN a[size + j] ELSE b[size + j - n]
    <2> HIDE DEF t
    <2> QED
      BY <1>2, <1>4, <1>7
  <1> QED
    BY <1>6, <1>8 DEF d, IsLastPart

\* SetCompact of bits that are not negative.
LEMMA TargetIsReversed ==
  ASSUME NEW bits \in Nat, bits <= MaxBits, ~Negative(bits)
  PROVE  /\ FromCompact(bits) \in Value
         /\ TargetOf(bits) = Reverse(FromCompact(bits))
  <1> DEFINE size == bits \div 2^24
             word == Le(bits % 2^23, 3)
             zeros == Fill(0, HashLen)
             pad == Mantissa(bits) \o Fill(0, 253)
             front == SubSeq(pad, 1, size)
             target == FromCompact(bits)
  <1>1. size \in Nat /\ size <= 127
    BY PartsOfBits
  <1>2. word \in Bytes /\ Len(word) = 3 /\ \A i \in 1..3 : word[i] \in Int
    <2> DEFINE low == bits % 2^23
    <2>4. low \in Nat
      BY PartsOfBits
    <2> HIDE DEF low
    <2>1. word \in Bytes /\ Len(word) = 3
      BY <2>4, LeBytes DEF low
    <2> HIDE DEF word
    <2>2. word \in Seq(Byte)
      BY <2>1 DEF Bytes
    <2>3. \A i \in 1..3 : word[i] \in Byte
      BY <2>1, <2>2, ElementOfSeq
    <2> QED
      BY <2>1, <2>3, ByteIs
  <1>3. \A i \in 1..3 : Mantissa(bits)[i] = word[4 - i]
    BY MantissaBytes
  <1>4. zeros \in Bytes /\ Len(zeros) = HashLen /\ \A i \in 1..HashLen : zeros[i] = 0
    <2>1. 0 \in Byte /\ HashLen \in Nat
      BY ByteIs, HashBytes
    <2> QED
      BY <2>1, FillBytes
  <1>5. /\ pad \in Bytes /\ Len(pad) >= 127 /\ Len(pad) \in Nat
        /\ \A i \in 1..Len(pad) : pad[i] = IF i <= 3 THEN word[4 - i] ELSE 0
    <2> DEFINE some == Mantissa(bits)
               rest == Fill(0, 253)
    <2>0. 0 \in Byte /\ 253 \in Nat
      BY ByteIs
    <2>1. rest \in Bytes /\ Len(rest) = 253 /\ \A i \in 1..Len(rest) : rest[i] = 0
      <3> DEFINE n == 253
      <3> HIDE DEF n
      <3>1. n \in Nat /\ n = 253
        BY DEF n
      <3>2. IsFilled(Fill(0, n), 0, n)
        BY <2>0, <3>1, AllFilled
      <3>3. rest = Fill(0, n)
        BY <3>1
      <3> HIDE DEF rest
      <3> QED
        BY <3>1, <3>2, <3>3 DEF IsFilled
    <2>2. some \in Bytes /\ Len(some) = 3
      BY MantissaBytes
    <2> HIDE DEF some, rest
    <2>3. /\ pad \in Bytes /\ Len(pad) = Len(some) + Len(rest)
          /\ \A i \in 1..Len(some) : pad[i] = some[i]
          /\ \A i \in 1..Len(rest) : pad[Len(some) + i] = rest[i]
      <3>1. /\ some \o rest \in Bytes /\ Len(some \o rest) = Len(some) + Len(rest)
            /\ \A i \in 1..Len(some) : (some \o rest)[i] = some[i]
            /\ \A i \in 1..Len(rest) : (some \o rest)[Len(some) + i] = rest[i]
        <4>1. some \in Bytes /\ rest \in Bytes
          BY <2>1, <2>2
        <4> QED
          BY <4>1, JoinBytes
      <3>2. pad = some \o rest
        BY DEF some, rest
      <3> HIDE DEF pad
      <3> QED
        BY <3>1, <3>2
    <2> HIDE DEF pad, word
    <2> SUFFICES ASSUME NEW i \in 1..Len(pad) PROVE pad[i] = IF i <= 3 THEN word[4 - i] ELSE 0
      BY <2>1, <2>2, <2>3
    <2>4. CASE i <= 3
      <3>1. i \in 1..Len(some) /\ i \in 1..3
        BY <2>2, <2>4
      <3> QED
        BY <1>3, <2>3, <2>4, <3>1 DEF some
    <2>5. CASE ~(i <= 3)
      <3>1. i - 3 \in 1..Len(rest) /\ Len(some) + (i - 3) = i
        BY <2>1, <2>2, <2>3, <2>5
      <3>3. pad[Len(some) + (i - 3)] = rest[i - 3]
        BY <2>3, <3>1
      <3>2. pad[i] = rest[i - 3] /\ rest[i - 3] = 0
        BY <2>1, <3>1, <3>3
      <3> QED
        BY <2>5, <3>2
    <2> QED
      BY <2>4, <2>5
  <1> HIDE DEF size, word, zeros, pad
  <1>6. front \in Bytes /\ Len(front) = size /\ \A i \in 1..size : front[i] = IF i <= 3 THEN word[4 - i] ELSE 0
    <2>1. front = [i \in 1..size |-> pad[i]]
      BY <1>1, <1>5 DEF Bytes
    <2>2. pad \in Seq(Byte)
      BY <1>5 DEF Bytes
    <2>5. \A i \in 1..size : i \in 1..Len(pad)
      BY <1>1, <1>5
    <2>3. \A i \in 1..size : i \in 1..Len(pad) /\ pad[i] \in Byte
      BY <2>2, <2>5, ElementOfSeq
    <2>4. front \in Bytes /\ Len(front) = size
      <3> DEFINE f(i) == pad[i]
      <3>1. front = [i \in 1..size |-> f(i)] /\ \A i \in 1..size : f(i) \in Byte
        BY <2>1, <2>3
      <3> HIDE DEF f, front
      <3> QED
        BY <1>1, <3>1 DEF Bytes
    <2> HIDE DEF front
    <2>6. \A i \in 1..size : front[i] = pad[i]
      BY <2>1
    <2> QED
      BY <1>5, <2>3, <2>4, <2>6
  <1> HIDE DEF front
  <1> DEFINE shown == SubSeq(zeros \o front, size + 1, size + HashLen)
  <1>7. /\ shown \in Bytes /\ Len(shown) = HashLen
        /\ \A j \in 1..HashLen : shown[j] = IF size + j <= HashLen THEN zeros[size + j] ELSE front[size + j - HashLen]
    <2>1. HashLen \in Nat
      BY HashBytes
    <2> QED
      <3>1. zeros \in Bytes /\ Len(zeros) = HashLen /\ front \in Bytes /\ Len(front) = size /\ size \in Nat
        BY <1>1, <1>4, <1>6
      <3>2. IsLastPart(shown, zeros, front, HashLen, size)
        BY <2>1, <3>1, LastPart
      <3> HIDE DEF shown
      <3> QED
        BY <3>2 DEF IsLastPart
  <1>8. TargetOf(bits) = shown
    <2>1. Decoded(bits) = zeros \o front
      BY DEF Decoded, zeros, front, pad, size
    <2>2. Len(zeros \o front) = HashLen + size
      BY <1>4, <1>6, JoinBytes
    <2>3. Len(zeros \o front) - HashLen + 1 = size + 1 /\ Len(zeros \o front) = size + HashLen
      BY <1>1, <2>2, HashBytes
    <2> QED
      BY <2>1, <2>3 DEF TargetOf
  <1> HIDE DEF shown
  <1>9. target = [i \in 1..HashLen |-> IF i + 3 - size \in 1..3 THEN word[i + 3 - size] ELSE 0]
    BY DEF FromCompact, size, word
  <1> HIDE DEF target
  <1>10. target \in Value
    BY <1>2, <1>9 DEF Value
  <1>11. /\ Reverse(target) \in Value
         /\ \A j \in 1..HashLen : Reverse(target)[j] = target[HashLen + 1 - j]
    BY <1>10, ReversedValue
  <1>12. ASSUME NEW j \in 1..HashLen
         PROVE  shown[j] = target[HashLen + 1 - j]
    <2> DEFINE i == HashLen + 1 - j
               m == size + j - HashLen
    <2>1. i \in 1..HashLen /\ i + 3 - size = 4 - m /\ m \in Int /\ (size + j <= HashLen <=> m <= 0) /\ m <= size
      BY <1>1, HashBytes
    <2>2. target[i] = IF 4 - m \in 1..3 THEN word[4 - m] ELSE 0
      BY <1>9, <2>1
    <2>3. CASE m <= 0
      <3>1. size + j \in 1..HashLen /\ ~(4 - m \in 1..3)
        BY <1>1, <2>1, <2>3, HashBytes
      <3> HIDE DEF i, m
      <3>2. shown[j] = zeros[size + j]
        BY <1>7, <3>1
      <3> QED
        BY <1>4, <2>2, <3>1, <3>2 DEF i
    <2>4. CASE m > 0
      <3>1. m \in 1..size /\ shown[j] = front[m]
        BY <1>7, <2>1, <2>4
      <3>2. 4 - m \in 1..3 <=> m <= 3
        BY <2>1, <2>4
      <3> HIDE DEF i, m
      <3>3. front[m] = IF m <= 3 THEN word[4 - m] ELSE 0
        BY <1>6, <3>1
      <3> QED
        BY <2>2, <3>1, <3>2, <3>3 DEF i
    <2> HIDE DEF i, m
    <2> QED
      BY <2>1, <2>3, <2>4 DEF i
  <1>13. shown = [j \in 1..HashLen |-> shown[j]]
    BY <1>7 DEF Bytes
  <1>14. Reverse(target) = [j \in 1..HashLen |-> Reverse(target)[j]]
    BY <1>11 DEF Value
  <1>15. shown = Reverse(target)
    BY <1>11, <1>12, <1>13, <1>14
  <1> QED
    BY <1>8, <1>10, <1>15 DEF target

LEMMA CompactIsValue ==
  ASSUME NEW bits \in Nat
  PROVE  FromCompact(bits) \in Value
  <1> DEFINE size == bits \div 2^24
             low == bits % 2^23
             word == Le(low, 3)
  <1>1. size \in Nat /\ low \in Nat
    BY PartsOfBits
  <1>2. FromCompact(bits) = [i \in 1..HashLen |-> IF i + 3 - size \in 1..3 THEN word[i + 3 - size] ELSE 0]
    BY DEF FromCompact
  <1> HIDE DEF size, low
  <1>3. word \in Bytes /\ Len(word) = 3
    BY <1>1, LeBytes
  <1> HIDE DEF word
  <1>4. \A i \in 1..3 : word[i] \in Int
    <2>1. word \in Seq(Byte)
      BY <1>3 DEF Bytes
    <2>2. \A i \in 1..3 : word[i] \in Byte
      BY <1>3, <2>1, ElementOfSeq
    <2> QED
      BY <2>2, ByteIs
  <1> QED
    BY <1>2, <1>4 DEF Value

Remained(value, byte, divisor) == (value * 256 + byte) % divisor

\* The loop of a long division, from the most significant byte on.
IsDivision(bytes, divisor, f) ==
  f = [k \in 0..Len(bytes) |-> IF k = 0 THEN 0 ELSE Remained(f[k - 1], bytes[Len(bytes) + 1 - k], divisor)]

LEMMA QuotientIsValue ==
  ASSUME NEW bytes \in Value, NEW divisor \in Nat, divisor > 0
  PROVE  Quotient(bytes, divisor) \in Value
  <1> DEFINE n == Len(bytes)
             S == [k \in 0..n |-> Int]
             step == [k \in 1..n |-> [x \in S[k - 1] |-> Remained(x, bytes[n + 1 - k], divisor)]]
             loop == CHOOSE g : IsDivision(bytes, divisor, g)
  <1>1. n \in Nat /\ n = HashLen
    BY HashBytes, ReversedValue
  <1>10. \A i \in 1..n : bytes[i] \in Int
    BY <1>1 DEF Value
  <1>2. ASSUME NEW k \in 1..n, NEW x \in S[k - 1]
        PROVE  step[k][x] = Remained(x, bytes[n + 1 - k], divisor) /\ Remained(x, bytes[n + 1 - k], divisor) \in S[k]
    <2>1. k \in 0..n /\ k - 1 \in 0..n /\ n + 1 - k \in 1..n
      BY <1>1
    <2>2. bytes[n + 1 - k] \in Int /\ x \in Int
      BY <1>10, <2>1
    <2>4. x * 256 + bytes[n + 1 - k] \in Int
      BY <2>2
    <2>3. Remained(x, bytes[n + 1 - k], divisor) \in Int
      BY <2>4 DEF Remained
    <2> QED
      BY <2>1, <2>3
  <1> HIDE DEF step
  <1>3. PICK g : IsLoop(g, n, S, 0, step)
    <2>1. 0 \in S[0]
      BY <1>1
    <2>2. \A k \in 1..n : \A x \in S[k - 1] : step[k][x] \in S[k]
      BY <1>2
    <2> HIDE DEF n, S, loop
    <2> QED
      BY <1>1, <2>1, <2>2, LoopRuns
  <1> HIDE DEF S
  <1>4. IsDivision(bytes, divisor, g)
    <2> HIDE DEF n, loop
    <2>1. \A k \in 1..n : k - 1 \in 0..n
      BY <1>1
    <2>2. \A k \in 1..n : g[k] = Remained(g[k - 1], bytes[n + 1 - k], divisor)
      BY <1>2, <1>3, <2>1 DEF IsLoop
    <2>3. \A k \in 0..n : g[k] = IF k = 0 THEN 0 ELSE Remained(g[k - 1], bytes[n + 1 - k], divisor)
      <3> SUFFICES ASSUME NEW k \in 0..n
                   PROVE  g[k] = IF k = 0 THEN 0 ELSE Remained(g[k - 1], bytes[n + 1 - k], divisor)
        OBVIOUS
      <3>1. CASE k = 0
        BY <1>3, <3>1 DEF IsLoop
      <3>2. CASE k # 0
        <4>1. k \in 1..n
          BY <1>1, <3>2
        <4> QED
          BY <2>2, <3>2, <4>1
      <3> QED
        BY <3>1, <3>2
    <2> QED
      BY <1>3, <2>3 DEF n, IsLoop, IsDivision
  <1>5. IsDivision(bytes, divisor, loop)
    BY <1>4, Zenon
  <1>6. Quotient(bytes, divisor) = [i \in 1..n |-> (loop[n - i] * 256 + bytes[i]) \div divisor]
    BY DEF Quotient, IsDivision, Remained
  <1> HIDE DEF loop
  <1>7. loop[0] = 0 /\ \A k \in 1..n : loop[k] = Remained(loop[k - 1], bytes[n + 1 - k], divisor)
    BY <1>1, <1>5 DEF IsDivision
  <1>8. \A k \in 0..n : loop[k] \in Int
    <2> HIDE DEF n
    <2>1. RunsLike(loop, n, S, 0, step)
      BY <1>2, <1>7 DEF RunsLike
    <2>2. \A k \in 0..n : loop[k] \in S[k]
      BY <1>1, <1>3, <2>1, LoopAgain
    <2> QED
      BY <2>2 DEF S
  <1>9. \A i \in 1..n : (loop[n - i] * 256 + bytes[i]) \div divisor \in Int
    <2> HIDE DEF n
    <2> SUFFICES ASSUME NEW i \in 1..n PROVE (loop[n - i] * 256 + bytes[i]) \div divisor \in Int
      OBVIOUS
    <2>1. loop[n - i] \in Int /\ bytes[i] \in Int
      <3>1. n - i \in 0..n
        BY <1>1
      <3> QED
        BY <1>8, <1>10, <3>1
    <2>2. loop[n - i] * 256 + bytes[i] \in Int
      BY <2>1
    <2>3. \A x \in Int : x \div divisor \in Int
      OBVIOUS
    <2> QED
      BY <2>2, <2>3
  <1> QED
    BY <1>1, <1>6, <1>9 DEF Value

\* Any number of units, times 256 as often as you like.
Scaled == [units : Nat, shift : Nat]

LEMMA ShareTargetIsValue ==
  ASSUME NEW difficulty \in Scaled
  PROVE  ShareTarget(difficulty) \in Value
  <1> DEFINE scaled == IF difficulty.units = 0 THEN Difficulty(1, 0) ELSE difficulty
             divisor == scaled.units
             from(i) == i + scaled.shift - 4
             bytes == [i \in 1..HashLen |-> IF from(i) \in 1..HashLen THEN DIFF1[from(i)] ELSE 0]
  <1>1. DIFF1 \in Value
    <2>1. 486604799 \in Nat
      BY SMT
    <2> QED
      BY <2>1, CompactIsValue, SMT DEF DIFF1
  <1>2. \A i \in 1..HashLen : from(i) \in 1..HashLen => DIFF1[from(i)] \in Int
    BY <1>1 DEF Value
  <1>3. bytes \in Value
    <2> HIDE DEF from
    <2> QED
      BY <1>2 DEF Value
  <1>4. divisor \in Nat /\ divisor > 0
    BY DEF Scaled, Difficulty
  <1>5. ShareTarget(difficulty) = Quotient(bytes, divisor)
    BY DEF ShareTarget
  <1> HIDE DEF bytes, divisor
  <1> QED
    BY <1>3, <1>4, <1>5, QuotientIsValue

-----------------------------------------------------------------------------
(* What is handed to miners and nodes is bytes, whatever hash_pair is as long as it makes hashes. *)

HashesAreBytes == Closed(Digests) /\ NoHash \in Digests

LEMMA BytesJoin == \A a, b \in Bytes : a \o b \in Bytes
  BY JoinBytes

LEMMA FewBytes == \A a, b \in Byte : <<a>> \in Bytes /\ <<a, b>> \in Bytes /\ <<>> \in Bytes
  BY DEF Bytes

LEMMA NumberBytes == \A n, width \in Nat : Le(n, width) \in Bytes /\ Len(Le(n, width)) = width
  BY LeBytes

LEMMA TxBytes ==
  ASSUME NEW k \in Nat
  PROVE  Tx(k) \in Bytes
  <1> DEFINE version == Le(2, 4)
             one == <<1>>
             prev == Fill(k % 256, 36)
             single == Varint(1)
             script == <<5>>
             sequence == Fill(255, 4)
             paid == Le(k, 8)
             two == Varint(2)
             payee == <<81, 82>>
             locktime == Le(0, 4)
  <1>1. version \in Bytes /\ paid \in Bytes /\ locktime \in Bytes
    BY NumberBytes
  <1>2. one \in Bytes /\ script \in Bytes /\ payee \in Bytes
    <2>1. 1 \in Byte /\ 5 \in Byte /\ 81 \in Byte /\ 82 \in Byte
      BY ByteIs
    <2> QED
      BY <2>1, FewBytes
  <1>3. prev \in Bytes /\ sequence \in Bytes
    <2>1. k % 256 \in Byte /\ 255 \in Byte
      BY ByteIs
    <2> QED
      BY <2>1, FillBytes
  <1>4. single \in Bytes /\ two \in Bytes
    BY VarintBytes
  <1>5. Tx(k) = version \o one \o prev \o single \o script \o sequence \o one \o paid \o two \o payee \o locktime
    BY DEF Tx
  <1> HIDE DEF version, one, prev, single, script, sequence, paid, two, payee, locktime
  <1> QED
    BY <1>1, <1>2, <1>3, <1>4, <1>5, BytesJoin

LEMMA TxDataBytes ==
  ASSUME NEW n \in Nat
  PROVE  TxData(n) \in Seq(Bytes) /\ Len(TxData(n)) = n
  <1>1. TxData(n) = [k \in 1..n |-> Tx(k)]
    BY DEF TxData
  <1>2. \A k \in 1..n : Tx(k) \in Bytes
    BY TxBytes
  <1> QED
    BY <1>1, <1>2

\* What every hash of a tree is.
LEMMA RootIsHash ==
  ASSUME NEW Hash, Closed(Hash), NEW hashes \in Seq(Hash), hashes # <<>>
  PROVE  MerkleRoot(hashes) \in Hash
  <1> DEFINE n == Len(hashes)
  <1>1. n \in 0..n
    BY LenProperties
  <1>2. PICK levels : IsLevels(Hash, hashes, levels) /\ MerkleRoot(hashes) = levels[n][1]
    BY RootLoop
  <1>3. levels[n] \in Seq(Hash) /\ Len(levels[n]) >= 1
    BY <1>1, <1>2 DEF IsLevels, LevelIn
  <1>4. 1 \in 1..Len(levels[n])
    BY <1>3, LenProperties
  <1> QED
    BY <1>2, <1>3, <1>4, ElementOfSeq

LEMMA BranchIsHashes ==
  ASSUME NEW Hash, Closed(Hash), NEW hashes \in Seq(Hash), NEW index \in 0..(Len(hashes) - 1)
  PROVE  BranchAt(hashes, index) \in Seq(Hash)
  <1> DEFINE n == Len(hashes)
  <1>1. n \in Nat /\ n \in 0..n /\ hashes # <<>> /\ hashes[index + 1] \in Hash /\ index \in Nat
    <2>1. n \in Nat
      BY LenProperties
    <2>2. n >= 1 /\ index + 1 \in 1..n
      BY <2>1
    <2> QED
      BY <2>1, <2>2, EmptySeq, ElementOfSeq
  <1>2. PICK levels : IsLevels(Hash, hashes, levels)
    BY <1>1, RootLoop
  <1>3. PICK f : /\ f[0] = [level |-> hashes, index |-> index, steps |-> <<>>]
                 /\ \A k \in 1..n : f[k] = NextStep(f[k - 1])
                 /\ \A k \in 0..n : f[k] \in OnTheWay(Hash, hashes[index + 1], index, levels[k])
                 /\ BranchAt(hashes, index) = f[n].steps
    BY <1>1, <1>2, BranchLoop
  <1>4. f[n] \in OnTheWay(Hash, hashes[index + 1], index, levels[n])
    BY <1>1, <1>3
  <1> QED
    BY <1>3, <1>4 DEF OnTheWay

LEMMA CoinbaseBranchIsHashes ==
  ASSUME NEW Hash, Closed(Hash), NEW leaf \in Hash, NEW hashes \in Seq(Hash)
  PROVE  CoinbaseBranch(hashes) \in Seq(Hash)
  <1> DEFINE all == <<leaf>> \o hashes
             n == Len(hashes)
  <1>1. all \in Seq(Hash) /\ all # <<>> /\ n \in 0..n
    BY LeafFirst, LenProperties
  <1>2. PICK levels : IsLevels(Hash, all, levels)
    <2> HIDE DEF all
    <2> QED
      BY <1>1, RootLoop
  <1>3. \E f : /\ f[0] = [rest |-> hashes, steps |-> <<>>]
               /\ \A k \in 1..n : f[k] = NextRest(f[k - 1])
               /\ \A k \in 0..n : f[k] \in BesideTheWay(Hash, leaf, levels[k])
               /\ CoinbaseBranch(hashes) = f[n].steps
    BY <1>2, CoinbaseLoop
  <1>4. PICK f : f[n] \in BesideTheWay(Hash, leaf, levels[n]) /\ CoinbaseBranch(hashes) = f[n].steps
    BY <1>1, <1>3
  <1> QED
    BY <1>4 DEF BesideTheWay

LEMMA LedIsHash ==
  ASSUME NEW Hash, Closed(Hash), NEW leaf \in Hash, NEW branch \in Seq(Hash)
  PROVE  RootFromBranch(leaf, branch) \in Hash
  <1>1. PICK f : /\ f[0] = leaf
                 /\ \A k \in 1..Len(branch) : f[k] = HashedWith(f[k - 1], branch[k])
                 /\ \A k \in 0..Len(branch) : f[k] \in Hash
                 /\ RootFromBranch(leaf, branch) = f[Len(branch)]
    BY LeftLoop
  <1>2. Len(branch) \in 0..Len(branch)
    BY LenProperties
  <1> QED
    BY <1>1, <1>2

LEMMA TurnedHash ==
  ASSUME NEW d \in Digests
  PROVE  FromDisplayHex(Shown(d)) \in Digests
  <1>1. ASSUME NEW h \in Digests PROVE BackToFront(h) \in Digests
    <2>1. h \in Seq(Byte) /\ Len(h) = HashLen /\ HashLen \in Nat
      BY HashBytes DEF Digests, Bytes
    <2>2. \A i \in 1..HashLen : HashLen + 1 - i \in 1..HashLen
      BY <2>1
    <2> DEFINE f(i) == h[HashLen + 1 - i]
    <2>3. \A i \in 1..HashLen : f(i) \in Byte
      BY <2>1, <2>2, ElementOfSeq
    <2>4. BackToFront(h) = [i \in 1..HashLen |-> f(i)]
      BY DEF BackToFront
    <2> HIDE DEF f
    <2> QED
      BY <2>1, <2>3, <2>4 DEF Digests, Bytes
  <1> QED
    BY <1>1 DEF FromDisplayHex, Shown

LEMMA BranchesAreHashes ==
  ASSUME HashesAreBytes, NEW n \in Nat
  PROVE  Branch(n) \in Seq(Digests)
  <1> DEFINE ids == [k \in 1..n |-> FromDisplayHex(Shown(Digest(Tx(k))))]
  <1>1. \A k \in 1..n : FromDisplayHex(Shown(Digest(Tx(k)))) \in Digests
    BY TxBytes, DigestBytes, TurnedHash
  <1>2. ids \in Seq(Digests)
    BY <1>1
  <1>3. Branch(n) = CoinbaseBranch(ids)
    BY DEF Branch
  <1> HIDE DEF ids
  <1> QED
    BY <1>2, <1>3, CoinbaseBranchIsHashes DEF HashesAreBytes

LEMMA HeadersAre ==
  ASSUME HashesAreBytes, NEW version \in Nat, NEW coinbase \in Bytes, NEW txs \in Nat,
         NEW bits \in Nat, NEW solution \in Nat
  PROVE  /\ BlockHeader(version, coinbase, txs, bits, solution) \in Header
         /\ BlockHeader(version, coinbase, txs, bits, solution).bits = bits
  <1> DEFINE prev == FromDisplayHex(Shown(TipHash(version)))
             root == RootFromBranch(Digest(coinbase), Branch(txs))
             h == BlockHeader(version, coinbase, txs, bits, solution)
  <1>1. prev \in Digests
    <2>1. version % 256 \in Byte
      BY ByteIs
    <2>2. TipHash(version) \in Digests
      BY <2>1, FewBytes, DigestBytes DEF TipHash
    <2> QED
      BY <2>2, TurnedHash
  <1>2. root \in Digests
    <2>1. Digest(coinbase) \in Digests /\ Branch(txs) \in Seq(Digests) /\ Closed(Digests)
      BY DigestBytes, BranchesAreHashes DEF HashesAreBytes
    <2> QED
      BY <2>1, LedIsHash
  <1> DEFINE time == 1700000000
  <1>3. time \in Nat
    BY SMT
  <1>4. h = [version |-> version, prev |-> prev, root |-> root, time |-> time, bits |-> bits, nonce |-> solution]
    BY SMT DEF BlockHeader
  <1> HIDE DEF prev, root, time, h
  <1> QED
    BY <1>1, <1>2, <1>3, <1>4 DEF Header, h

\* A coinbase around an extranonce.
LongEnough(s) == s \in Bytes /\ Len(s) >= 4
Halves(parts) == LongEnough(parts.coinb1) /\ LongEnough(parts.coinb2)

LEMMA JoinedLong ==
  /\ \A a, b \in Bytes : LongEnough(a) => LongEnough(a \o b)
  /\ \A a, b \in Bytes : LongEnough(b) => LongEnough(a \o b)
  <1>1. \A a, b \in Bytes : a \o b \in Bytes /\ Len(a) \in Nat /\ Len(b) \in Nat /\ Len(a \o b) = Len(a) + Len(b)
    BY JoinBytes
  <1>2. ASSUME NEW a \in Bytes, NEW b \in Bytes, Len(a) >= 4 \/ Len(b) >= 4
        PROVE  a \o b \in Bytes /\ Len(a \o b) >= 4
    <2>1. /\ a \o b \in Bytes /\ Len(a) \in Nat /\ Len(b) \in Nat
          /\ Len(a \o b) = Len(a) + Len(b)
      BY <1>1
    <2>2. \A m, n \in Nat : m >= 4 \/ n >= 4 => m + n >= 4
      OBVIOUS
    <2> QED
      BY <1>2, <2>1, <2>2
  <1> QED
    BY <1>2 DEF LongEnough

LEMMA OneBytes == <<1>> \in Bytes /\ <<0, 1>> \in Bytes /\ <<>> \in Bytes
  <1>1. 0 \in Byte /\ 1 \in Byte
    BY ByteIs
  <1> QED
    BY <1>1, FewBytes

LEMMA NullPrevoutBytes == NullPrevout \in Bytes /\ WitnessCommitment \in Bytes
  <1>1. 0 \in Byte /\ 255 \in Byte /\ HashLen \in Nat
    BY ByteIs, HashBytes
  <1>2. Fill(0, HashLen) \in Bytes /\ Fill(255, 4) \in Bytes
    BY <1>1, FillBytes
  <1>3. NullPrevout \in Bytes
    BY <1>2, BytesJoin DEF NullPrevout
  <1> DEFINE six == <<106, 36, 170, 33, 169, 237>>
  <1>4. six \in Bytes
    <2>1. 106 \in Byte /\ 36 \in Byte /\ 170 \in Byte /\ 33 \in Byte /\ 169 \in Byte /\ 237 \in Byte
      BY ByteIs
    <2> QED
      BY <2>1 DEF Bytes
  <1>5. Digest(<<1>>) \in Bytes
    <2>1. <<1>> \in Bytes
      BY OneBytes
    <2> QED
      BY <2>1, DigestBytes DEF Digests
  <1>6. WitnessCommitment = six \o Digest(<<1>>)
    BY DEF WitnessCommitment
  <1> HIDE DEF six
  <1> QED
    BY <1>3, <1>4, <1>5, <1>6, BytesJoin

LEMMA PartsBytes ==
  ASSUME NEW before \in Bytes, NEW payee \in Bytes, NEW witness, NEW commitment \in Bytes,
         NEW extranonceLen \in Nat
  PROVE  Halves(Parts(before, payee, witness, commitment, extranonceLen))
  <1> DEFINE parts == Parts(before, payee, witness, commitment, extranonceLen)
             scriptLen == Len(before) + PushedLen(commitment) + extranonceLen
             pushed == IF commitment = <<>> THEN <<>> ELSE PushData(commitment)
             version == Le(1, 4)
             one == <<1>>
             len == Varint(scriptLen)
             sequence == Fill(255, 4)
             outputs == Varint(IF witness THEN 2 ELSE 1)
             paid == Le(CoinbaseValue, 8)
             payeeLen == Varint(Len(payee))
             unpaid == Le(0, 8)
             committedLen == Varint(Len(WitnessCommitment))
             committed == IF witness THEN unpaid \o committedLen \o WitnessCommitment ELSE <<>>
             locktime == Le(0, 4)
  <1>1. /\ parts.coinb1 = version \o one \o NullPrevout \o len \o before \o pushed
        /\ parts.coinb2 = sequence \o outputs \o paid \o payeeLen \o payee \o committed \o locktime
    BY DEF Parts
  <1>2. LongEnough(version) /\ LongEnough(locktime)
    BY NumberBytes DEF LongEnough
  <1>3. one \in Bytes /\ <<>> \in Bytes
    BY OneBytes
  <1>4. len \in Bytes
    <2>1. Len(before) \in Nat /\ Len(commitment) \in Nat
      BY DEF Bytes
    <2>2. scriptLen \in Nat
      BY <2>1 DEF PushedLen
    <2> QED
      BY <2>2, VarintBytes
  <1>5. pushed \in Bytes
    BY <1>3, PushBytes
  <1>6. sequence \in Bytes
    <2>1. 255 \in Byte
      BY ByteIs
    <2> QED
      BY <2>1, FillBytes
  <1>7. outputs \in Bytes /\ payeeLen \in Bytes /\ committedLen \in Bytes
    <2>1. Len(payee) \in Nat /\ Len(WitnessCommitment) \in Nat
      BY NullPrevoutBytes DEF Bytes
    <2>2. (IF witness THEN 2 ELSE 1) \in Nat
      OBVIOUS
    <2> QED
      BY <2>1, <2>2, VarintBytes
  <1>8. paid \in Bytes /\ unpaid \in Bytes
    <2>1. CoinbaseValue \in Nat
      BY SMT DEF CoinbaseValue
    <2> QED
      BY <2>1, NumberBytes
  <1> HIDE DEF parts, scriptLen, pushed, version, one, len, sequence, outputs, paid, payeeLen,
               unpaid, committedLen, locktime
  <1>9. committed \in Bytes
    BY <1>3, <1>7, <1>8, NullPrevoutBytes, BytesJoin
  <1> HIDE DEF committed
  <1>10. LongEnough(parts.coinb1)
    <2>1. version \in Bytes /\ NullPrevout \in Bytes
      BY <1>2, NullPrevoutBytes DEF LongEnough
    <2>2. LongEnough(version \o one) /\ version \o one \in Bytes
      BY <1>2, <1>3, <2>1, BytesJoin, JoinedLong
    <2>3. LongEnough(version \o one \o NullPrevout) /\ version \o one \o NullPrevout \in Bytes
      BY <2>1, <2>2, BytesJoin, JoinedLong
    <2>4. LongEnough(version \o one \o NullPrevout \o len) /\ version \o one \o NullPrevout \o len \in Bytes
      BY <1>4, <2>3, BytesJoin, JoinedLong
    <2>5. /\ LongEnough(version \o one \o NullPrevout \o len \o before)
          /\ version \o one \o NullPrevout \o len \o before \in Bytes
      BY <2>4, BytesJoin, JoinedLong
    <2> QED
      BY <1>1, <1>5, <2>5, JoinedLong
  <1>11. LongEnough(parts.coinb2)
    <2>1. sequence \o outputs \o paid \o payeeLen \o payee \o committed \in Bytes /\ locktime \in Bytes
      BY <1>2, <1>6, <1>7, <1>8, <1>9, BytesJoin DEF LongEnough
    <2> QED
      BY <1>1, <1>2, <2>1, JoinedLong
  <1> QED
    BY <1>10, <1>11 DEF Halves, parts

LEMMA CutBytes ==
  ASSUME NEW s \in Bytes, NEW m \in Nat, m <= Len(s)
  PROVE  SubSeq(s, 1, m) \in Bytes /\ SubSeq(s, m + 1, Len(s)) \in Bytes
  BY DEF Bytes

LEMMA CoinbaseBytes ==
  ASSUME NEW parts, Halves(parts), NEW extranonce \in Bytes
  PROVE  Serialize(parts, extranonce) \in Bytes /\ SerializeForBlock(parts, extranonce) \in Bytes
  <1> DEFINE one == parts.coinb1
             two == parts.coinb2
             bodyEnd == Len(two) - 4
             head == SubSeq(one, 1, 4)
             marker == <<0, 1>>
             start == SubSeq(one, 5, Len(one))
             body == SubSeq(two, 1, bodyEnd)
             single == <<1>>
             reserved == PushData(Fill(0, 32))
             tail == SubSeq(two, bodyEnd + 1, Len(two))
  <1>1. one \in Bytes /\ two \in Bytes /\ Len(one) >= 4 /\ Len(two) >= 4
    BY DEF Halves, LongEnough
  <1>2. Serialize(parts, extranonce) = one \o extranonce \o two
    BY DEF Serialize
  <1>3. /\ parts.witness => SerializeForBlock(parts, extranonce)
                              = head \o marker \o start \o extranonce \o body \o single \o reserved \o tail
        /\ ~parts.witness => SerializeForBlock(parts, extranonce) = Serialize(parts, extranonce)
    BY DEF SerializeForBlock
  <1>4. marker \in Bytes /\ single \in Bytes
    BY OneBytes
  <1>5. reserved \in Bytes
    <2>1. 0 \in Byte
      BY ByteIs
    <2>2. Fill(0, 32) \in Bytes
      BY <2>1, FillBytes
    <2> QED
      BY <2>2, PushBytes
  <1> HIDE DEF one, two
  <1>6. head \in Bytes /\ start \in Bytes
    <2>1. 4 + 1 = 5 /\ 4 \in Nat
      OBVIOUS
    <2>2. SubSeq(one, 1, 4) \in Bytes /\ SubSeq(one, 4 + 1, Len(one)) \in Bytes
      BY <1>1, CutBytes
    <2> QED
      BY <2>1, <2>2
  <1>7. body \in Bytes /\ tail \in Bytes
    <2>1. bodyEnd \in Nat /\ bodyEnd <= Len(two)
      BY <1>1 DEF Bytes
    <2> HIDE DEF bodyEnd
    <2> QED
      BY <1>1, <2>1, CutBytes
  <1> HIDE DEF head, marker, start, body, single, reserved, tail
  <1>8. Serialize(parts, extranonce) \in Bytes
    BY <1>1, <1>2, BytesJoin
  <1>9. head \o marker \o start \o extranonce \o body \o single \o reserved \o tail \in Bytes
    BY <1>4, <1>5, <1>6, <1>7, BytesJoin
  <1> QED
    BY <1>3, <1>8, <1>9

LEMMA LeavesAreHashes ==
  ASSUME NEW Hash, NoHash \in Hash, NEW tried \in Nat, NEW h \in Nat,
         NEW ids \in Seq(Nat), NEW hashes \in Seq(Hash), Len(hashes) = Len(ids)
  PROVE  /\ Leaves(ids, hashes, tried, h) \in Seq(Hash)
         /\ Len(Leaves(ids, hashes, tried, h)) = PowerOf2(h)
         /\ \A i \in 1..Len(ids) : Slots(ids, tried, h)[i] \in 0..(PowerOf2(h) - 1)
  <1> DEFINE size == PowerOf2(h)
             slots == Slots(ids, tried, h)
             leaf(k) == IF \E i \in DOMAIN ids : slots[i] = k - 1
                        THEN hashes[CHOOSE i \in DOMAIN ids : slots[i] = k - 1]
                        ELSE NoHash
  <1>1. size \in Nat /\ size > 0
    <2>1. size \in Nat /\ size >= h + 1
      BY PowerAbove
    <2> HIDE DEF size
    <2> QED
      BY <2>1
  <1>2. DOMAIN ids = 1..Len(ids) /\ Len(ids) \in Nat
    BY LenProperties
  <1>3. \A i \in 1..Len(ids) : ids[i] \in Nat /\ hashes[i] \in Hash
    BY ElementOfSeq
  <1>4. \A i \in 1..Len(ids) : slots[i] = ExpectedIndex(tried, ids[i], size)
    BY <1>2 DEF Slots
  <1>5. \A i \in 1..Len(ids) : slots[i] \in 0..(size - 1)
    <2> HIDE DEF size, slots
    <2> QED
      BY <1>1, <1>3, <1>4, SlotInTree
  <1>6. Leaves(ids, hashes, tried, h) = [k \in 1..size |-> leaf(k)]
    BY DEF Leaves
  <1> HIDE DEF size, slots
  <1>7. \A k \in 1..size : leaf(k) \in Hash
    <2> SUFFICES ASSUME NEW k \in 1..size
                 PROVE  leaf(k) \in Hash
      OBVIOUS
    <2>1. CASE \E i \in DOMAIN ids : slots[i] = k - 1
      <3>1. (CHOOSE i \in DOMAIN ids : slots[i] = k - 1) \in DOMAIN ids
        BY <2>1
      <3>2. hashes[CHOOSE i \in DOMAIN ids : slots[i] = k - 1] \in Hash
        BY <1>2, <1>3, <3>1
      <3> QED
        BY <2>1, <3>2
    <2>2. CASE ~ \E i \in DOMAIN ids : slots[i] = k - 1
      BY <2>2
    <2> QED
      BY <2>1, <2>2
  <1> DEFINE leaves == [k \in 1..size |-> leaf(k)]
  <1>8. leaves \in Seq(Hash) /\ Len(leaves) = size
    <2> HIDE DEF leaf
    <2> QED
      BY <1>1, <1>7, IsASeq
  <1> HIDE DEF leaf, leaves
  <1>9. leaves = Leaves(ids, hashes, tried, h)
    BY <1>6 DEF leaves
  <1> QED
    BY <1>5, <1>8, <1>9 DEF size, slots

LEMMA DigestReversed ==
  ASSUME NEW d \in Digests
  PROVE  Reverse(d) \in Bytes
  <1>1. d \in Seq(Byte) /\ Len(d) = HashLen /\ HashLen \in Nat
    BY HashBytes DEF Digests, Bytes
  <1>2. Reverse(d) = [i \in 1..HashLen |-> d[(HashLen - i) + 1]]
    BY <1>1 DEF Reverse
  <1>3. \A i \in 1..HashLen : (HashLen - i) + 1 \in 1..HashLen
    BY <1>1
  <1> DEFINE f(i) == d[(HashLen - i) + 1]
  <1>4. \A i \in 1..HashLen : f(i) \in Byte
    BY <1>1, <1>3, ElementOfSeq
  <1>5. Reverse(d) = [i \in 1..HashLen |-> f(i)]
    BY <1>2
  <1> HIDE DEF f
  <1> QED
    BY <1>1, <1>4, <1>5 DEF Bytes

LEMMA MagicBytes == Magic \in Bytes
  <1>1. 250 \in Byte /\ 190 \in Byte /\ 109 \in Byte
    BY ByteIs
  <1> QED
    BY <1>1 DEF Magic, Bytes

\* What the parent's coinbase commits to, and each chain's proof of it.
ProofsOf(proofs, n) ==
  \A i \in 1..n : proofs[i].branch \in Seq(Digests) /\ proofs[i].index \in Nat

LEMMA TreeBytes ==
  ASSUME HashesAreBytes, NEW tried \in Nat, NEW h \in Nat,
         NEW ids \in Seq(Nat), NEW hashes \in Seq(Digests), Len(hashes) = Len(ids)
  PROVE  /\ Commitment(Tree(ids, hashes, tried, h)) \in Bytes
         /\ ProofsOf(Tree(ids, hashes, tried, h).proofs, Len(ids))
  <1> DEFINE tree == Tree(ids, hashes, tried, h)
             leaves == Leaves(ids, hashes, tried, h)
             slots == Slots(ids, tried, h)
  <1>0. Closed(Digests) /\ NoHash \in Digests
    BY DEF HashesAreBytes
  <1>1. /\ leaves \in Seq(Digests) /\ Len(leaves) = PowerOf2(h)
        /\ \A i \in 1..Len(ids) : slots[i] \in 0..(PowerOf2(h) - 1)
    BY <1>0, LeavesAreHashes
  <1>2. PowerOf2(h) \in Nat /\ PowerOf2(h) > 0
    <2>1. PowerOf2(h) \in Nat /\ PowerOf2(h) >= h + 1
      BY PowerAbove
    <2> QED
      BY <2>1
  <1>3. /\ tree.root = MerkleRoot(leaves) /\ tree.size = PowerOf2(h) /\ tree.nonce = tried
        /\ \A i \in DOMAIN ids : tree.proofs[i] = [index |-> slots[i], branch |-> BranchAt(leaves, slots[i])]
    BY DEF Tree
  <1> HIDE DEF tree, leaves, slots
  <1>4. MerkleRoot(leaves) \in Digests
    <2>1. leaves # <<>>
      BY <1>1, <1>2, EmptySeq
    <2> QED
      BY <1>0, <1>1, <2>1, RootIsHash
  <1>5. Commitment(tree) \in Bytes
    <2> DEFINE shown == ShownRoot(tree.root)
               size == Le(tree.size, 4)
               nonced == Le(tree.nonce, 4)
    <2>1. shown \in Bytes
      BY <1>3, <1>4, DigestReversed DEF ShownRoot
    <2>2. size \in Bytes /\ nonced \in Bytes
      BY <1>2, <1>3, NumberBytes
    <2>3. Magic \in Bytes
      BY MagicBytes
    <2>4. Commitment(tree) = Magic \o shown \o size \o nonced
      BY DEF Commitment
    <2> HIDE DEF shown, size, nonced
    <2> QED
      BY <2>1, <2>2, <2>3, <2>4, BytesJoin
  <1>6. ASSUME NEW i \in 1..Len(ids)
        PROVE  tree.proofs[i].branch \in Seq(Digests) /\ tree.proofs[i].index \in Nat
    <2>1. i \in DOMAIN ids
      BY LenProperties
    <2>2. tree.proofs[i].index = slots[i] /\ tree.proofs[i].branch = BranchAt(leaves, slots[i])
      <3> DEFINE proof == [index |-> slots[i], branch |-> BranchAt(leaves, slots[i])]
      <3>1. tree.proofs[i] = proof
        BY <1>3, <2>1
      <3>2. proof.index = slots[i] /\ proof.branch = BranchAt(leaves, slots[i])
        OBVIOUS
      <3> HIDE DEF proof
      <3> QED
        BY <3>1, <3>2
    <2> DEFINE slot == slots[i]
    <2>3. slot \in 0..(Len(leaves) - 1) /\ slot \in Nat
      BY <1>1, <1>2
    <2> HIDE DEF slot
    <2>4. BranchAt(leaves, slot) \in Seq(Digests)
      BY <1>0, <1>1, <2>3, BranchIsHashes
    <2> QED
      BY <2>2, <2>3, <2>4 DEF slot
  <1> QED
    BY <1>5, <1>6 DEF ProofsOf, tree

LEMMA BranchBytes ==
  ASSUME NEW hashes \in Seq(Digests)
  PROVE  WriteBranch(hashes) \in Bytes
  <1>1. Digests \subseteq Bytes
    BY DEF Digests
  <1>2. hashes \in Seq(Bytes) /\ Len(hashes) \in Nat
    BY <1>1, WithinSeq
  <1>3. FlattenSeq(hashes) \in Bytes /\ Varint(Len(hashes)) \in Bytes
    BY <1>2, FlattenBytes, VarintBytes
  <1> QED
    BY <1>3, BytesJoin DEF WriteBranch

LEMMA AuxPowBytes ==
  ASSUME NEW p, p.coinbase \in Bytes, p.branch \in Seq(Digests), p.chain \in Seq(Digests),
         p.index \in Nat, p.parent \in Header
  PROVE  WriteAuxPow(p) \in Bytes
  <1> DEFINE coinbase == p.coinbase
             hash == BlockHash(p.parent)
             branch == WriteBranch(p.branch)
             zero == Le(0, 4)
             chained == WriteBranch(p.chain)
             index == Le(p.index, 4)
             parent == WriteHeader(p.parent)
  <1>1. parent \in Bytes
    BY HeaderIsWords
  <1>2. hash \in Bytes
    BY <1>1, DigestBytes DEF BlockHash, Digests
  <1>3. branch \in Bytes /\ chained \in Bytes
    BY BranchBytes
  <1>4. zero \in Bytes /\ index \in Bytes
    BY NumberBytes
  <1>6. coinbase \in Bytes
    OBVIOUS
  <1>5. WriteAuxPow(p) = coinbase \o hash \o branch \o zero \o chained \o index \o parent
    BY DEF WriteAuxPow
  <1> HIDE DEF coinbase, hash, branch, zero, chained, index, parent
  <1>7. coinbase \o hash \o branch \in Bytes
    BY <1>2, <1>3, <1>6, BytesJoin
  <1>8. coinbase \o hash \o branch \o zero \o chained \in Bytes
    BY <1>3, <1>4, <1>7, BytesJoin
  <1>9. coinbase \o hash \o branch \o zero \o chained \o index \o parent \in Bytes
    BY <1>1, <1>4, <1>8, BytesJoin
  <1> QED
    BY <1>5, <1>9

\* A block is not empty, and its node reads the bits of its header.
BlockOf(block, bits) == block # <<>> /\ ReadBlock(block).header.bits = bits

LEMMA BlockRead ==
  ASSUME NEW h \in Header, h.bits < Wide, NEW auxpow \in Bytes, NEW coinbase \in Bytes,
         NEW txs \in Seq(Bytes), NEW payload \in Bytes
  PROVE  BlockOf(AssembleBlock(h, auxpow, coinbase, txs, payload), h.bits)
  <1> DEFINE front == WriteHeader(h)
             count == Varint(1 + Len(txs))
             flat == FlattenSeq(txs)
             rest == auxpow \o count \o coinbase \o flat \o payload
             block == AssembleBlock(h, auxpow, coinbase, txs, payload)
  <1>1. front \in Bytes /\ flat \in Bytes
    BY HeaderIsWords, FlattenBytes
  <1>2. count \in Bytes
    <2>1. 1 + Len(txs) \in Nat
      BY LenProperties
    <2> QED
      BY <2>1, VarintBytes
  <1>3. block = front \o auxpow \o count \o coinbase \o flat \o payload
    BY DEF AssembleBlock
  <1>4. Len(front) > 0
    <2> DEFINE version == Le(h.version, 4)
               more == h.prev \o h.root \o Le(h.time, 4) \o Le(h.bits, 4) \o Le(h.nonce, 4)
    <2>0. h.prev \in Bytes /\ h.root \in Bytes /\ h.version \in Nat /\ h.time \in Nat /\ h.bits \in Nat /\ h.nonce \in Nat
      BY DEF Header, Digests
    <2>1. LongEnough(version)
      BY <2>0, NumberBytes DEF LongEnough
    <2>2. LongEnough(version \o h.prev)
      BY <2>0, <2>1, JoinedLong DEF LongEnough
    <2>3. LongEnough(version \o h.prev \o h.root)
      BY <2>0, <2>2, JoinedLong DEF LongEnough
    <2> DEFINE start == version \o h.prev \o h.root
               time == Le(h.time, 4)
               bits == Le(h.bits, 4)
               nonced == Le(h.nonce, 4)
    <2>4. time \in Bytes /\ bits \in Bytes /\ nonced \in Bytes
      BY <2>0, NumberBytes
    <2>5. front = start \o time \o bits \o nonced
      BY DEF WriteHeader
    <2>6. LongEnough(start)
      BY <2>3
    <2> HIDE DEF start, time, bits, nonced, front
    <2>7. LongEnough(start \o time)
      BY <2>4, <2>6, JoinedLong DEF LongEnough
    <2>8. LongEnough(start \o time \o bits)
      BY <2>4, <2>7, JoinedLong DEF LongEnough
    <2>9. LongEnough(front)
      BY <2>4, <2>5, <2>8, JoinedLong DEF LongEnough
    <2> QED
      BY <2>9 DEF LongEnough, Bytes
  <1> HIDE DEF front, count, flat, block
  <1>5. rest \in Bytes
    BY <1>1, <1>2, BytesJoin
  <1>6. block = front \o rest
    <2> DEFINE two == auxpow \o count
               three == two \o coinbase
               four == three \o flat
    <2>1. two \in Bytes /\ three \in Bytes /\ four \in Bytes
      BY <1>1, <1>2, BytesJoin
    <2>2. (front \o auxpow) \o count = front \o two
      <3>1. front \in Bytes /\ auxpow \in Bytes /\ count \in Bytes
        BY <1>1, <1>2
      <3>2. Regroups(front, auxpow, count)
        BY <3>1, AllRegroup
      <3> QED
        BY <3>2 DEF Regroups
    <2>3. two \o coinbase = three /\ three \o flat = four /\ four \o payload = rest
      OBVIOUS
    <2> HIDE DEF two, three, four, rest
    <2>4. (front \o two) \o coinbase = front \o three
      <3>1. front \in Bytes /\ two \in Bytes /\ coinbase \in Bytes
        BY <1>1, <2>1
      <3>2. Regroups(front, two, coinbase)
        BY <3>1, AllRegroup
      <3> QED
        BY <2>3, <3>2 DEF Regroups
    <2>5. (front \o three) \o flat = front \o four
      <3>1. front \in Bytes /\ three \in Bytes /\ flat \in Bytes
        BY <1>1, <2>1
      <3>2. Regroups(front, three, flat)
        BY <3>1, AllRegroup
      <3> QED
        BY <2>3, <3>2 DEF Regroups
    <2>6. (front \o four) \o payload = front \o rest
      <3>1. front \in Bytes /\ four \in Bytes /\ payload \in Bytes
        BY <1>1, <2>1
      <3>2. Regroups(front, four, payload)
        BY <3>1, AllRegroup
      <3> QED
        BY <2>3, <3>2 DEF Regroups
    <2> QED
      BY <1>3, <2>2, <2>4, <2>5, <2>6
  <1> HIDE DEF rest
  <1>7. ReadBlock(front \o rest).header.bits = h.bits
    BY <1>5, BlockHeaderReads DEF front
  <1>8. front \o rest # <<>>
    <2>1. Len(front \o rest) = Len(front) + Len(rest) /\ Len(rest) \in Nat /\ Len(front) \in Nat
      BY <1>1, <1>5, JoinBytes
    <2>2. Len(front \o rest) # 0
      BY <1>4, <2>1
    <2> QED
      BY <2>2
  <1> QED
    BY <1>6, <1>7, <1>8 DEF BlockOf, block

-----------------------------------------------------------------------------
(* What is given, and whom the blocks pay. *)

LEMMA ScriptBytes ==
  ASSUME NEW a \in Address, NEW params
  PROVE  PayoutScript(a, params) \in Bytes
  <1>1. Hash160 \in Bytes
    <2>1. 9 \in Byte /\ Hash160 = Fill(9, 20)
      BY ByteIs DEF Hash160, Fill
    <2> QED
      BY <2>1, FillBytes
  <1>2. P2pkh \in Bytes
    <2> DEFINE front == <<118, 169, 20>>
               back == <<136, 172>>
    <2>1. front \in Bytes
      <3>1. 118 \in Byte /\ 169 \in Byte /\ 20 \in Byte
        BY ByteIs
      <3> QED
        BY <3>1 DEF Bytes
    <2>2. back \in Bytes
      <3>1. 136 \in Byte /\ 172 \in Byte
        BY ByteIs
      <3> QED
        BY <3>1, FewBytes
    <2>3. P2pkh = front \o Hash160 \o back
      BY DEF P2pkh
    <2> HIDE DEF front, back
    <2> QED
      BY <1>1, <2>1, <2>2, <2>3, BytesJoin
  <1>3. P2sh \in Bytes
    <2> DEFINE front == <<169, 20>>
               back == <<135>>
    <2>1. front \in Bytes /\ back \in Bytes
      <3>1. 169 \in Byte /\ 20 \in Byte /\ 135 \in Byte
        BY ByteIs
      <3> QED
        BY <3>1, FewBytes
    <2>3. P2sh = front \o Hash160 \o back
      BY DEF P2sh
    <2> HIDE DEF front, back
    <2> QED
      BY <1>1, <2>1, <2>3, BytesJoin
  <1>4. OwnVersion(a, params) \in Bytes
    BY <1>2, <1>3, OneBytes DEF OwnVersion
  <1>5. ValidProgram(a) => <<WitnessOpcode(a.version), a.len>> \o Program(a.len) \in Bytes
    <2> SUFFICES ASSUME ValidProgram(a)
                 PROVE  <<WitnessOpcode(a.version), a.len>> \o Program(a.len) \in Bytes
      OBVIOUS
    <2>1. a.version \in Nat /\ a.len \in Nat
      BY DEF Address
    <2>2. a.version \in 0..16 /\ a.len \in 2..40
      BY <2>1, ProgramRules
    <2>3. WitnessOpcode(a.version) \in Nat /\ WitnessOpcode(a.version) <= 255 /\ a.len <= 255
      BY <2>2 DEF WitnessOpcode
    <2>4. WitnessOpcode(a.version) \in Byte /\ a.len \in Byte
      BY <2>1, <2>3, ByteIs
    <2>5. <<WitnessOpcode(a.version), a.len>> \in Bytes
      BY <2>4, FewBytes
    <2>6. Program(a.len) \in Bytes
      <3>1. 9 \in Byte /\ Program(a.len) = Fill(9, a.len)
        BY ByteIs DEF Program, Fill
      <3> QED
        BY <2>1, <3>1, FillBytes
    <2> QED
      BY <2>5, <2>6, BytesJoin
  <1> QED
    BY <1>4, <1>5, OneBytes DEF PayoutScript

LEMMA ResolvedScripts ==
  ASSUME NEW user \in Address, NEW tokens \in Seq(Token)
  PROVE  /\ Resolve(user, tokens).parent.script \in Bytes
         /\ Resolve(user, tokens).aux.script \in Bytes
  <1> DEFINE usable == {i \in DOMAIN tokens : KeyFits(tokens[i]) /\ Valid(tokens[i].value, DogeParams)}
             first == CHOOSE i \in usable : \A j \in usable : i <= j
             paid == Resolve(user, tokens)
  <1>1. DOMAIN tokens \subseteq Nat /\ \A i \in DOMAIN tokens : tokens[i].value \in Address
    <2>1. DOMAIN tokens = 1..Len(tokens) /\ \A i \in DOMAIN tokens : tokens[i] \in Token
      BY ElementOfSeq
    <2>2. \A t \in Token : t.value \in Address
      BY DEF Token
    <2> QED
      BY <2>1, <2>2
  <1>2. /\ paid.parent = IF Valid(user, LtcParams) THEN Parse(user, LtcParams) ELSE Fallback(LtcFallback, LtcParams)
        /\ paid.aux = IF usable # {} THEN Parse(tokens[first].value, DogeParams)
                      ELSE Fallback(DogeFallback, DogeParams)
    BY DEF Resolve
  <1>3. usable # {} => first \in usable
    <2>1. usable \subseteq Nat
      BY <1>1
    <2> HIDE DEF usable
    <2>2. usable # {} => \E i \in usable : \A j \in usable : i <= j
      BY <2>1, LeastNumber
    <2> QED
      BY <2>2
  <1>4. usable # {} => tokens[first].value \in Address
    BY <1>1, <1>3
  <1> HIDE DEF usable, first, paid
  <1>5. \A params : \A a \in Address : /\ Parse(a, params).script \in Bytes
                                       /\ Fallback(a, params).script \in Bytes
    BY ScriptBytes DEF Parse, Fallback
  <1>6. paid.parent.script \in Bytes
    BY <1>2, <1>5, FallbacksAreOwn
  <1>7. paid.aux.script \in Bytes
    BY <1>2, <1>4, <1>5, FallbacksAreOwn
  <1> QED
    BY <1>6, <1>7 DEF paid

LEMMA BitsAsked ==
  ASSUME NEW bits \in Bits
  PROVE  /\ bits \in Nat /\ bits < Wide
         /\ FromCompact(bits) \in Value
         /\ TargetOf(bits) = Reverse(FromCompact(bits))
         /\ ~Negative(bits) /\ ~Overflows(bits) /\ TargetOf(bits) # ZeroHash
  <1>1. bits \in Nat /\ bits <= MaxBits
    <2>1. Bits \subseteq 1..MaxBits
      BY BuildingAssumption
    <2>2. MaxBits \in Nat
      BY PartsOfBits
    <2> QED
      BY <2>1, <2>2
  <1>2. ~Negative(bits) /\ ~Overflows(bits) /\ TargetOf(bits) # ZeroHash
    BY BuildingAssumption
  <1>3. bits < Wide
    <2>1. MaxBits < Wide /\ MaxBits \in Int /\ Wide \in Int
      BY SMT DEF MaxBits, Wide
    <2> QED
      BY <1>1, <2>1
  <1> QED
    BY <1>1, <1>2, <1>3, TargetIsReversed

\* What the shares are made of, whichever aspect is varied.
GivenTypes(g) ==
  /\ g.height \in Nat /\ g.tag \in Nat /\ g.txs \in Nat /\ g.payload \in Bytes
  /\ g.bits \in Bits /\ g.auxBits \in Bits /\ g.difficulty \in Scaled /\ g.pow \in Value

LEMMA HashesTried ==
  ASSUME NEW target \in Value
  PROVE  HashesAt(target) \subseteq Value
  <1>1. ASSUME NEW i, NEW byte \in Int, NEW step \in Int
        PROVE  Carried(target, i, byte, step) \in Value
    BY DEF Carried, Value
  <1>2. Reverse(target) \in Value
    BY ReversedValue
  <1>3. 255 \in Int /\ 0 \in Int /\ 1 \in Int /\ -1 \in Int
    OBVIOUS
  <1> QED
    BY <1>1, <1>2, <1>3 DEF HashesAt

LEMMA NearHashes ==
  ASSUME NEW bits \in Bits, NEW difficulty \in Difficulties
  PROVE  HashesNear(bits, difficulty) \subseteq Value /\ difficulty \in Scaled
  <1>1. difficulty \in Scaled
    <2>1. Units \subseteq Nat /\ MaxShift \in Nat
      BY BuildingAssumption
    <2> QED
      BY <2>1 DEF Difficulties, Difficulty, Scaled
  <1>2. ShareTarget(difficulty) \in Value
    BY <1>1, ShareTargetIsValue
  <1>3. Reverse(TargetOf(bits)) \in Value
    BY BitsAsked, ReversedValue
  <1> QED
    BY <1>1, <1>2, <1>3, HashesTried DEF HashesNear

\* Whatever is varied, the rest of what is given is the plain case's.
LEMMA PlainWork ==
  /\ Plain.height \in Nat /\ Plain.tag \in Nat /\ Plain.txs \in Nat /\ Plain.payload = <<>>
  /\ Plain.bits = EasyBits /\ Plain.auxBits = EasyBits /\ Plain.difficulty = Difficulty(2^16, 0)
  /\ Plain.pow = Fill(0, HashLen)
  BY SMT DEF Plain

SameWork(g) ==
  /\ g.height = Plain.height /\ g.tag = Plain.tag /\ g.txs = Plain.txs /\ g.payload = Plain.payload
  /\ g.bits = Plain.bits /\ g.auxBits = Plain.auxBits
  /\ g.difficulty = Plain.difficulty /\ g.pow = Plain.pow

LEMMA SameWorkGiven ==
  /\ \A u, p : SameWork(Miner(u, p))
  /\ \A s : SameWork(Merging(s))
  BY SMT DEF SameWork, Plain, Miner, Merging

LEMMA TemplateGiven ==
  ASSUME NEW s, NEW h, NEW t, NEW w, NEW p
  PROVE  LET g == Template(s, h, t, w, p) IN
         /\ g.height = h /\ g.tag = t /\ g.txs = Plain.txs /\ g.payload = p
         /\ g.bits = Plain.bits /\ g.auxBits = Plain.auxBits
         /\ g.difficulty = Plain.difficulty /\ g.pow = Plain.pow
  BY SMT DEF Plain, Template

LEMMA CarryingGiven ==
  ASSUME NEW n
  PROVE  LET g == Carrying(n) IN
         /\ g.height = Plain.height /\ g.tag = Plain.tag /\ g.txs = n /\ g.payload = Plain.payload
         /\ g.bits = Plain.bits /\ g.auxBits = Plain.auxBits
         /\ g.difficulty = Plain.difficulty /\ g.pow = Plain.pow
  BY SMT DEF Plain, Carrying

LEMMA ShareGiven ==
  ASSUME NEW b, NEW a, NEW d, NEW hash
  PROVE  LET g == Share(b, a, d, hash) IN
         /\ g.height = Plain.height /\ g.tag = Plain.tag /\ g.txs = Plain.txs
         /\ g.payload = Plain.payload
         /\ g.bits = b /\ g.auxBits = a /\ g.difficulty = d /\ g.pow = hash
  BY SMT DEF Plain, Share

LEMMA PlainTypes == GivenTypes(Plain)
  <1>1. EasyBits \in Bits
    BY BuildingAssumption
  <1>2. Difficulty(2^16, 0) \in Scaled
    <2>1. 2^16 \in Nat
      BY SMT
    <2> QED
      BY <2>1 DEF Difficulty, Scaled
  <1>3. Fill(0, HashLen) \in Value
    BY HashBytes DEF Fill, Value
  <1>4. <<>> \in Bytes
    BY OneBytes
  <1> QED
    BY <1>1, <1>2, <1>3, <1>4, PlainWork DEF GivenTypes

LEMMA InitWork == BuildInit => GivenTypes(given)
  <1> SUFFICES ASSUME BuildInit PROVE GivenTypes(given)
    OBVIOUS
  <1>1. given \in Miners \union Chains \union Templates \union Shares
    BY DEF BuildInit
  <1>2. ASSUME SameWork(given) PROVE GivenTypes(given)
    BY <1>2, PlainTypes DEF SameWork, GivenTypes
  <1>3. CASE given \in Miners \union Chains
    <2>1. (\E u, p : given = Miner(u, p)) \/ (\E s : given = Merging(s))
      BY <1>3 DEF Miners, Chains
    <2> QED
      BY <1>2, <2>1, SameWorkGiven
  <1>4. CASE given \in Templates
    <2>1. Heights \subseteq Nat /\ TagSizes \subseteq Nat /\ TxCounts \subseteq Nat
      BY BuildingAssumption
    <2>2. Payloads \subseteq Bytes
      <3>1. 1 \in Byte /\ 66 \in Byte /\ 67 \in Byte
        BY ByteIs
      <3>2. <<1, 66, 67>> \in Bytes /\ <<>> \in Bytes
        BY <3>1 DEF Bytes
      <3> QED
        BY <3>2 DEF Payloads
    <2>3. \/ \E s, w : \E h \in Heights, t \in TagSizes, p \in Payloads : given = Template(s, h, t, w, p)
          \/ \E n \in TxCounts : given = Carrying(n)
      BY <1>4 DEF Templates
    <2>4. ASSUME NEW s, NEW w, NEW h \in Heights, NEW t \in TagSizes, NEW p \in Payloads,
                 given = Template(s, h, t, w, p)
          PROVE  GivenTypes(given)
      BY <2>1, <2>2, <2>4, TemplateGiven, PlainTypes DEF GivenTypes
    <2>5. ASSUME NEW n \in TxCounts, given = Carrying(n)
          PROVE  GivenTypes(given)
      BY <2>1, <2>5, CarryingGiven, PlainTypes DEF GivenTypes
    <2> QED
      BY <2>3, <2>4, <2>5
  <1>5. CASE given \in Shares
    <2>1. PICK b \in Bits, d \in Difficulties : \E a \in Bits : \E hash \in HashesNear(b, d) :
                 given = Share(b, a, d, hash)
      BY <1>5 DEF Shares
    <2>2. PICK a \in Bits, hash \in HashesNear(b, d) : given = Share(b, a, d, hash)
      BY <2>1
    <2>3. hash \in Value /\ d \in Scaled
      BY NearHashes
    <2> QED
      BY <2>2, <2>3, ShareGiven, PlainTypes DEF GivenTypes
  <1> QED
    BY <1>1, <1>3, <1>4, <1>5

HeaderWith(h, bits) == h \in Header /\ h.bits = bits

LEMMA AllHeadersAre ==
  ASSUME HashesAreBytes
  PROVE  \A version, txs, bits, solution \in Nat, coinbase \in Bytes :
           HeaderWith(BlockHeader(version, coinbase, txs, bits, solution), bits)
  BY HeadersAre DEF HeaderWith

LEMMA AuxHeadersAre ==
  ASSUME HashesAreBytes, GivenTypes(given), given.ids \in Seq(Nat), AuxCoinbase \in Bytes
  PROVE  /\ \A i \in DOMAIN given.ids : /\ AuxHeader(i) \in Header
                                        /\ AuxHeader(i).bits = given.auxBits
         /\ AuxHashes \in Seq(Digests) /\ Len(AuxHashes) = Len(given.ids)
  <1>1. given.auxBits \in Nat
    BY BitsAsked DEF GivenTypes
  <1>2. ASSUME NEW i \in DOMAIN given.ids
        PROVE  AuxHeader(i) \in Header /\ AuxHeader(i).bits = given.auxBits
    <2>1. given.ids[i] \in Nat
      BY ElementOfSeq
    <2>2. AuxVersion(AuxTemplateVersion, given.ids[i]) \in Nat
      BY <2>1, SMT DEF AuxVersion, AuxTemplateVersion
    <2>3. AuxTxs \in Nat /\ 0 \in Nat
      BY DEF AuxTxs
    <2> DEFINE version == AuxVersion(AuxTemplateVersion, given.ids[i])
               bits == given.auxBits
    <2>4. AuxHeader(i) = BlockHeader(version, AuxCoinbase, AuxTxs, bits, 0)
      BY DEF AuxHeader
    <2>5. version \in Nat /\ bits \in Nat
      BY <1>1, <2>2
    <2> HIDE DEF version, bits
    <2>6. HeaderWith(BlockHeader(version, AuxCoinbase, AuxTxs, bits, 0), bits)
      BY <2>3, <2>5, AllHeadersAre
    <2> QED
      BY <2>4, <2>6 DEF bits, HeaderWith
  <1>3. \A i \in DOMAIN given.ids : BlockHash(AuxHeader(i)) \in Digests
    BY <1>2, HeaderIsWords, DigestBytes DEF BlockHash
  <1>4. DOMAIN given.ids = 1..Len(given.ids) /\ Len(given.ids) \in Nat
    BY WithinSeq
  <1>5. AuxHashes \in Seq(Digests) /\ Len(AuxHashes) = Len(given.ids)
    BY <1>3, <1>4 DEF AuxHashes
  <1> QED
    BY <1>2, <1>5

-----------------------------------------------------------------------------
(* What is submitted. *)

BitsOf(i) == IF i = 1 THEN given.bits ELSE given.auxBits

\* Each chain whose target the hash meets has a block, which reads as asking for its bits.
BlocksOfMet ==
  /\ DOMAIN blocks = 1..(1 + Len(given.ids))
  /\ \A i \in 1..(1 + Len(given.ids)) :
       IF IsMetBy(Target(i), given.pow) THEN BlockOf(blocks[i], BitsOf(i)) ELSE blocks[i] = <<>>

SolveInv ==
  /\ GivenTypes(given) /\ prefix \in Bytes
  /\ stage # "waiting" => payout # <<>>
  /\ stage = "job" => Halves(job.parts) /\ ProofsOf(job.proofs, Len(given.ids))
  /\ stage # "found" => blocks = <<>>
  /\ stage = "found" => BlocksOfMet
  /\ stage = "low" => ~IsMetBy(ShareTarget(given.difficulty), given.pow)

FoundInv == SearchInv /\ RewardInv /\ SolveInv

LEMMA PayeesAreBytes ==
  ASSUME RewardInv, payout # <<>>
  PROVE  payout[1].parent.script \in Bytes /\ payout[1].aux.script \in Bytes
  <1>1. given.user \in Address /\ given.tokens \in Seq(Token)
    BY DEF RewardInv
  <1>2. payout[1] = Resolve(given.user, given.tokens)
    BY DEF RewardInv
  <1> QED
    BY <1>1, <1>2, ResolvedScripts

LEMMA IdsAreNumbers ==
  ASSUME SearchInv
  PROVE  given.ids \in Seq(Nat) /\ Len(given.ids) \in Nat
  <1>1. Ids \subseteq Nat
    BY BuildingBounds, PowerAbove DEF Ids
  <1>2. given.ids \in Seq(Ids)
    BY DEF SearchInv
  <1> QED
    BY <1>1, <1>2, WithinSeq

LEMMA AuxCoinbaseBytes ==
  ASSUME FoundInv, payout # <<>>
  PROVE  AuxCoinbase \in Bytes
  <1>1. prefix \in Bytes /\ payout[1].aux.script \in Bytes
    BY PayeesAreBytes DEF FoundInv, SolveInv
  <1>2. 0 \in Nat /\ <<>> \in Bytes
    BY OneBytes
  <1>3. Halves(AuxParts)
    BY <1>1, <1>2, PartsBytes DEF AuxParts
  <1> QED
    BY <1>2, <1>3, CoinbaseBytes DEF AuxCoinbase

LEMMA ExtranonceBytes == Extranonce \in Bytes /\ Len(Extranonce) \in Nat
  <1>1. /\ 1 \in Byte /\ 2 \in Byte /\ 3 \in Byte /\ 4 \in Byte
        /\ 250 \in Byte /\ 190 \in Byte /\ 109 \in Byte /\ 200 \in Byte
    BY ByteIs
  <1> QED
    BY <1>1 DEF Extranonce, Bytes

LEMMA InitSolve == BuildInit => SolveInv
  <1> SUFFICES ASSUME BuildInit PROVE SolveInv
    OBVIOUS
  <1>1. prefix = <<>> /\ stage = "waiting" /\ blocks = <<>>
    BY DEF BuildInit
  <1> QED
    BY <1>1, InitWork, OneBytes DEF SolveInv

LEMMA ConvertBytes ==
  ASSUME SolveInv, Convert
  PROVE  prefix' \in Bytes
  <1>1. given.height \in Nat /\ given.tag \in Nat
    BY DEF SolveInv, GivenTypes
  <1>2. PushScriptNum(given.height) \in Bytes
    BY <1>1, ScriptNumberBytes
  <1>3. 65 \in Byte
    BY ByteIs
  <1>4. Fill(65, given.tag) \in Bytes
    BY <1>1, <1>3, FillBytes
  <1>5. PushData(Fill(65, given.tag)) \in Bytes
    BY <1>4, PushBytes
  <1> DEFINE tag == IF given.tag = 0 THEN <<>> ELSE PushData(Fill(65, given.tag))
  <1>6. tag \in Bytes
    BY <1>5, OneBytes
  <1>7. prefix' = PushScriptNum(given.height) \o tag
    BY DEF Convert
  <1> HIDE DEF tag
  <1> QED
    BY <1>2, <1>6, <1>7, BytesJoin

LEMMA JobBytes ==
  ASSUME HashesAreBytes, FoundInv, SendJob
  PROVE  Halves(job'.parts) /\ ProofsOf(job'.proofs, Len(given.ids))
  <1> DEFINE tree == Tree(AuxIds, AuxHashes, nonce, height)
             commitment == IF given.ids = <<>> THEN <<>> ELSE Commitment(tree)
             parts == Parts(prefix, payout[1].parent.script, given.witness, commitment, Len(Extranonce))
  <1>1. job' = [parts |-> parts, proofs |-> IF given.ids = <<>> THEN <<>> ELSE tree.proofs]
    BY DEF SendJob
  <1>2. stage = "committed" /\ payout # <<>> /\ prefix \in Bytes /\ GivenTypes(given)
    BY DEF SendJob, FoundInv, SolveInv
  <1>3. given.ids \in Seq(Nat) /\ Len(given.ids) \in Nat
    BY IdsAreNumbers DEF FoundInv
  <1>4. nonce \in Nat /\ height \in Nat
    BY BuildingBounds DEF FoundInv, SearchInv
  <1>5. AuxHashes \in Seq(Digests) /\ Len(AuxHashes) = Len(given.ids)
    BY <1>2, <1>3, AuxCoinbaseBytes, AuxHeadersAre
  <1>6. AuxIds = given.ids
    BY <1>3, IdsReadBack
  <1>7. Commitment(tree) \in Bytes /\ ProofsOf(tree.proofs, Len(given.ids))
    BY <1>3, <1>4, <1>5, <1>6, TreeBytes
  <1> HIDE DEF tree
  <1>8. commitment \in Bytes
    BY <1>7, OneBytes
  <1>9. payout[1].parent.script \in Bytes
    BY <1>2, PayeesAreBytes DEF FoundInv
  <1> HIDE DEF commitment
  <1>10. Halves(parts)
    BY <1>2, <1>8, <1>9, ExtranonceBytes, PartsBytes
  <1>11. ProofsOf(IF given.ids = <<>> THEN <<>> ELSE tree.proofs, Len(given.ids))
    <2>1. given.ids = <<>> => Len(given.ids) = 0
      OBVIOUS
    <2> QED
      BY <1>7, <2>1 DEF ProofsOf
  <1> HIDE DEF parts
  <1> QED
    BY <1>1, <1>10, <1>11

\* BlockRead, for any of the blocks.
LEMMA BlocksRead ==
  \A h \in Header, auxpow \in Bytes, coinbase \in Bytes, txs \in Seq(Bytes), payload \in Bytes :
    h.bits < Wide => BlockOf(AssembleBlock(h, auxpow, coinbase, txs, payload), h.bits)
  BY BlockRead

LEMMA ProofsAreBytes ==
  \A coinbase \in Bytes, branch, above \in Seq(Digests), index \in Nat, parent \in Header :
    WriteAuxPow([coinbase |-> coinbase, branch |-> branch, chain |-> above, index |-> index,
                 parent |-> parent]) \in Bytes
  <1> TAKE coinbase \in Bytes, branch \in Seq(Digests), above \in Seq(Digests), index \in Nat,
           parent \in Header
  <1> DEFINE p == [coinbase |-> coinbase, branch |-> branch, chain |-> above, index |-> index,
                   parent |-> parent]
  <1>1. /\ p.coinbase \in Bytes /\ p.branch \in Seq(Digests) /\ p.chain \in Seq(Digests)
        /\ p.index \in Nat /\ p.parent \in Header
    OBVIOUS
  <1> HIDE DEF p
  <1>2. WriteAuxPow(p) \in Bytes
    BY <1>1, AuxPowBytes
  <1> QED
    BY <1>2 DEF p

LEMMA ParentRead ==
  ASSUME HashesAreBytes, FoundInv, stage = "job"
  PROVE  ParentHeader \in Header /\ BlockOf(ParentBlock, given.bits)
  <1>1. GivenTypes(given) /\ Halves(job.parts)
    BY DEF FoundInv, SolveInv
  <1>2. /\ given.txs \in Nat /\ given.payload \in Bytes /\ given.bits \in Nat /\ given.bits < Wide
    BY <1>1, BitsAsked DEF GivenTypes
  <1>3. Serialize(job.parts, Extranonce) \in Bytes /\ CoinbaseOfBlock \in Bytes
    BY <1>1, ExtranonceBytes, CoinbaseBytes DEF CoinbaseOfBlock
  <1>4. HeaderWith(ParentHeader, given.bits)
    <2>1. ParentVersion \in Nat /\ 77 \in Nat
      BY SMT DEF ParentVersion
    <2> DEFINE coinbase == Serialize(job.parts, Extranonce)
               solution == 77
    <2>2. ParentHeader = BlockHeader(ParentVersion, coinbase, given.txs, given.bits, solution)
      BY DEF ParentHeader
    <2>3. coinbase \in Bytes /\ solution \in Nat
      BY <1>3
    <2> HIDE DEF coinbase, solution
    <2> QED
      BY <1>2, <2>1, <2>2, <2>3, AllHeadersAre
  <1>5. ParentHeader \in Header /\ ParentHeader.bits = given.bits
    BY <1>4 DEF HeaderWith
  <1>6. TxData(given.txs) \in Seq(Bytes) /\ <<>> \in Bytes
    BY <1>2, TxDataBytes, OneBytes
  <1>7. ParentBlock = AssembleBlock(ParentHeader, <<>>, CoinbaseOfBlock, TxData(given.txs), given.payload)
    BY DEF ParentBlock
  <1>8. BlockOf(AssembleBlock(ParentHeader, <<>>, CoinbaseOfBlock, TxData(given.txs), given.payload),
                ParentHeader.bits)
    BY <1>2, <1>3, <1>5, <1>6, BlocksRead
  <1> QED
    BY <1>5, <1>7, <1>8

LEMMA AuxRead ==
  ASSUME HashesAreBytes, FoundInv, stage = "job", NEW i \in 1..Len(given.ids)
  PROVE  BlockOf(AuxBlock(i), given.auxBits)
  <1>1. /\ GivenTypes(given) /\ Halves(job.parts) /\ payout # <<>>
        /\ ProofsOf(job.proofs, Len(given.ids))
    BY DEF FoundInv, SolveInv
  <1>2. given.txs \in Nat /\ given.auxBits \in Nat /\ given.auxBits < Wide
    BY <1>1, BitsAsked DEF GivenTypes
  <1>3. given.ids \in Seq(Nat) /\ DOMAIN given.ids = 1..Len(given.ids)
    BY IdsAreNumbers DEF FoundInv
  <1>4. AuxCoinbase \in Bytes
    BY <1>1, AuxCoinbaseBytes
  <1>5. AuxHeader(i) \in Header /\ AuxHeader(i).bits = given.auxBits
    BY <1>1, <1>3, <1>4, AuxHeadersAre
  <1>6. ProvenCoinbase \in Bytes
    BY <1>1, ExtranonceBytes, CoinbaseBytes DEF ProvenCoinbase
  <1>7. Branch(given.txs) \in Seq(Digests)
    BY <1>2, BranchesAreHashes
  <1>8. job.proofs[i].branch \in Seq(Digests) /\ job.proofs[i].index \in Nat
    BY <1>1 DEF ProofsOf
  <1>9. ParentHeader \in Header
    BY ParentRead
  <1> DEFINE proof == [coinbase |-> ProvenCoinbase, branch |-> Branch(given.txs),
                       chain |-> job.proofs[i].branch, index |-> job.proofs[i].index,
                       parent |-> ParentHeader]
             auxpow == WriteAuxPow(proof)
  <1>10. auxpow \in Bytes
    BY <1>6, <1>7, <1>8, <1>9, ProofsAreBytes
  <1>11. TxData(AuxTxs) \in Seq(Bytes) /\ <<>> \in Bytes
    <2>1. AuxTxs \in Nat
      BY DEF AuxTxs
    <2> QED
      BY <2>1, TxDataBytes, OneBytes
  <1>12. AuxBlock(i) = AssembleBlock(AuxHeader(i), auxpow, AuxCoinbase, TxData(AuxTxs), <<>>)
    BY DEF AuxBlock
  <1> HIDE DEF auxpow
  <1>13. BlockOf(AssembleBlock(AuxHeader(i), auxpow, AuxCoinbase, TxData(AuxTxs), <<>>), AuxHeader(i).bits)
    BY <1>2, <1>4, <1>5, <1>10, <1>11, BlocksRead
  <1> QED
    BY <1>5, <1>12, <1>13

LEMMA CandidatesRead ==
  ASSUME HashesAreBytes, FoundInv, stage = "job", NEW i \in 1..(1 + Len(given.ids))
  PROVE  IF IsMetBy(Target(i), given.pow) THEN BlockOf(Candidate(i), BitsOf(i)) ELSE Candidate(i) = <<>>
  <1>1. Len(given.ids) \in Nat
    BY IdsAreNumbers DEF FoundInv
  <1>2. CASE i = 1
    BY <1>2, ParentRead DEF Candidate, BitsOf
  <1>3. CASE i # 1
    <2>1. i - 1 \in 1..Len(given.ids)
      BY <1>1, <1>3
    <2>2. BlockOf(AuxBlock(i - 1), given.auxBits)
      BY <2>1, AuxRead
    <2> QED
      BY <1>3, <2>2 DEF Candidate, BitsOf
  <1> QED
    BY <1>2, <1>3

LEMMA ValidateSolves ==
  ASSUME HashesAreBytes, FoundInv, Validate
  PROVE  SolveInv'
  <1>1. stage = "job" /\ UNCHANGED <<given, payout, prefix>>
    BY DEF Validate
  <1>2. GivenTypes(given) /\ prefix \in Bytes /\ payout # <<>> /\ blocks = <<>>
    BY <1>1 DEF FoundInv, SolveInv
  <1>3. CASE IsMetBy(ShareTarget(given.difficulty), given.pow)
    <2>1. stage' = "found" /\ blocks' = [i \in 1..(1 + Len(given.ids)) |-> Candidate(i)]
      BY <1>3 DEF Validate
    <2>2. \A i : Target(i)' = Target(i) /\ BitsOf(i)' = BitsOf(i)
      BY <1>1 DEF Target, BitsOf
    <2>3. BlocksOfMet'
      BY <1>1, <2>1, <2>2, CandidatesRead DEF BlocksOfMet
    <2> QED
      BY <1>1, <1>2, <2>1, <2>3 DEF SolveInv
  <1>4. CASE ~IsMetBy(ShareTarget(given.difficulty), given.pow)
    <2>1. stage' = "low" /\ blocks' = blocks
      BY <1>4 DEF Validate
    <2> QED
      BY <1>1, <1>2, <1>4, <2>1 DEF SolveInv
  <1> QED
    BY <1>3, <1>4

LEMMA NextSolve ==
  ASSUME HashesAreBytes, FoundInv, [BuildNext]_buildVars
  PROVE  SolveInv'
  <1>1. SolveInv /\ SearchInv
    BY DEF FoundInv
  <1>2. CASE Authorize
    BY <1>1, <1>2 DEF Authorize, SolveInv, BlocksOfMet, Target, BitsOf
  <1>3. CASE Convert
    <2>1. prefix' \in Bytes
      BY <1>1, <1>3, ConvertBytes
    <2>2. UNCHANGED <<given, payout, stage, job, blocks>>
      BY <1>3 DEF Convert
    <2> QED
      BY <1>1, <2>1, <2>2 DEF SolveInv, BlocksOfMet, Target, BitsOf
  <1>4. CASE StartJob
    BY <1>1, <1>4 DEF StartJob, SolveInv
  <1>5. CASE TryNextNonce
    BY <1>1, <1>5 DEF TryNextNonce, SolveInv
  <1>6. CASE Widen
    BY <1>1, <1>6 DEF Widen, SolveInv
  <1>7. CASE Build
    BY <1>1, <1>7 DEF Build, SolveInv
  <1>8. CASE SendJob
    <2>1. Halves(job'.parts) /\ ProofsOf(job'.proofs, Len(given.ids))
      BY <1>8, JobBytes
    <2>2. stage = "committed" /\ stage' \in {"job", "closed"} /\ UNCHANGED <<given, payout, prefix, blocks>>
      BY <1>8 DEF SendJob
    <2> QED
      BY <1>1, <2>1, <2>2 DEF SolveInv
  <1>9. CASE Validate
    BY <1>9, ValidateSolves
  <1>10. CASE UNCHANGED buildVars
    BY <1>1, <1>10 DEF buildVars, SolveInv, BlocksOfMet, Target, BitsOf
  <1> QED
    BY <1>2, <1>3, <1>4, <1>5, <1>6, <1>7, <1>8, <1>9, <1>10 DEF BuildNext

\* A hash meets a chain's target as the pool compares them exactly when it is a proof of work as
\* the chain's node compares them.
LEMMA NodesAgree ==
  ASSUME NEW bits \in Bits, NEW hash \in Value
  PROVE  CheckProofOfWork(Reverse(hash), bits) <=> IsMetBy(FromCompact(bits), hash)
  <1>1. /\ FromCompact(bits) \in Value /\ TargetOf(bits) = Reverse(FromCompact(bits))
        /\ ~Negative(bits) /\ ~Overflows(bits) /\ TargetOf(bits) # ZeroHash
    BY BitsAsked
  <1>2. IsMetBy(FromCompact(bits), hash) <=> AtMost(Reverse(hash), Reverse(FromCompact(bits)))
    BY <1>1, MetIsAtMost
  <1> QED
    BY <1>1, <1>2 DEF CheckProofOfWork

LEMMA SolutionsReach ==
  ASSUME FoundInv
  PROVE  SolutionsAreSubmitted
  <1>1. SolveInv /\ GivenTypes(given) /\ Len(given.ids) \in Nat
    BY IdsAreNumbers DEF FoundInv, SolveInv
  <1>2. given.pow \in Value /\ given.difficulty \in Scaled /\ given.bits \in Bits /\ given.auxBits \in Bits
    BY <1>1 DEF GivenTypes
  <1>3. \A i : BitsOf(i) \in Bits /\ Target(i) = FromCompact(BitsOf(i))
    BY <1>2 DEF BitsOf, Target
  <1>4. \A i : CheckProofOfWork(Reverse(given.pow), BitsOf(i)) <=> IsMetBy(Target(i), given.pow)
    BY <1>2, <1>3, NodesAgree
  <1>5. stage # "found" => Submitted = {}
    <2>1. stage # "found" => blocks = <<>>
      BY <1>1 DEF SolveInv
    <2> QED
      BY <2>1 DEF Submitted
  <1>6. ASSUME stage = "found", NEW i \in 1..(1 + Len(given.ids))
        PROVE  /\ i \in Submitted <=> IsMetBy(Target(i), given.pow)
               /\ i \in Submitted => ReadBlock(blocks[i]).header.bits = BitsOf(i)
    <2>1. BlocksOfMet
      BY <1>1, <1>6 DEF SolveInv
    <2>2. DOMAIN blocks = 1..(1 + Len(given.ids))
      BY <2>1 DEF BlocksOfMet
    <2>3. IF IsMetBy(Target(i), given.pow) THEN BlockOf(blocks[i], BitsOf(i)) ELSE blocks[i] = <<>>
      BY <2>1 DEF BlocksOfMet
    <2> QED
      BY <2>2, <2>3 DEF Submitted, BlockOf
  <1>7. ASSUME NEW i \in Submitted
        PROVE  CheckProofOfWork(Reverse(given.pow), ReadBlock(blocks[i]).header.bits)
    <2>1. stage = "found"
      BY <1>5
    <2>2. i \in 1..(1 + Len(given.ids))
      BY <1>1, <2>1 DEF Submitted, SolveInv, BlocksOfMet
    <2>3. IsMetBy(Target(i), given.pow) /\ ReadBlock(blocks[i]).header.bits = BitsOf(i)
      BY <1>6, <2>1, <2>2
    <2> QED
      BY <1>4, <2>3
  <1>8. ASSUME stage \in {"found", "low"}, NEW i \in 1..(1 + Len(given.ids)),
               AtMost(TargetOf(BitsOf(i)), Reverse(ShareTarget(given.difficulty))),
               CheckProofOfWork(Reverse(given.pow), BitsOf(i))
        PROVE  i \in Submitted
    <2> DEFINE share == ShareTarget(given.difficulty)
               target == Target(i)
    <2>1. share \in Value
      BY <1>2, ShareTargetIsValue
    <2>2. target \in Value /\ TargetOf(BitsOf(i)) = Reverse(target)
      BY <1>3, BitsAsked
    <2>3. AtMost(Reverse(target), Reverse(share))
      BY <1>8, <2>2
    <2>4. IsMetBy(target, given.pow)
      BY <1>4, <1>8
    <2>5. share = ShareTarget(given.difficulty)
      OBVIOUS
    <2> HIDE DEF share, target
    <2>6. IsMetBy(share, target)
      BY <2>1, <2>2, <2>3, MetIsAtMost
    <2>7. IsMetBy(share, given.pow)
      BY <1>2, <2>1, <2>2, <2>4, <2>6, MeetsHigher
    <2>8. stage = "found"
      BY <1>1, <1>8, <2>5, <2>7 DEF SolveInv
    <2> QED
      BY <1>6, <2>4, <2>8 DEF target
  <1> QED
    BY <1>7, <1>8 DEF SolutionsAreSubmitted, BitsOf

\* The hashes of the code, 32 bytes, are hashes as the theorem supposes: those of pairs are made
\* of bytes, and the hash of an empty slot is zeroes.
LEMMA PairsAreHashes == (\A a, b \in Digests : Pair(a, b) \in Digests) /\ ZeroHash \in Digests
  <1>1. \A a, b \in Digests : a \o b \in Bytes
    BY BytesJoin DEF Digests
  <1>2. 0 \in Byte
    BY ByteIs
  <1>3. ZeroHash \in Digests
    BY <1>2, HashBytes, FillBytes DEF ZeroHash, Digests
  <1> QED
    BY <1>1, <1>3, DigestBytes DEF Pair

\* Whatever is mined with whichever template, aux chains, bits and difficulty, every block the pool
\* submits asks, as its node reads it, for no more work than its hash is; and no hash that is work
\* enough for a chain is kept from its node, unless the chain asks for less than the shares do
\* (validate in validate.rs, assemble_block, Target::from_compact and is_met_by).
THEOREM SolutionsReachNodes ==
  ASSUME HashesAreBytes
  PROVE  BuildSpec => []SolutionsAreSubmitted
  <1>1. BuildInit => FoundInv
    BY InitSearch, InitRewards, InitSolve DEF FoundInv
  <1>2. FoundInv /\ [BuildNext]_buildVars => FoundInv'
    BY NextSearch, NextRewards, NextSolve DEF FoundInv
  <1>3. FoundInv => SolutionsAreSubmitted
    BY SolutionsReach
  <1> QED
    BY <1>1, <1>2, <1>3, PTL DEF BuildSpec
=============================================================================
