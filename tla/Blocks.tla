------------------------------- MODULE Blocks -------------------------------
(***************************************************************************)
(* The life of a block the pool found, for one coin: sessions put it in    *)
(* the blocks channel, the submitter hands it to the coin's node and       *)
(* records the verdict, and the tracker re-checks accepted rows against    *)
(* the chain every 30 seconds (alamo::pool, alamo-store::blocks).          *)
(*                                                                         *)
(* Hashes are the blocks the miners can find.  Several shares of one job   *)
(* can solve the same aux block, whose hash does not cover the share's     *)
(* nonce; a parent block is found once.  The height order in which the     *)
(* tracker walks the rows is left open.  A call to the node can fail       *)
(* before the node saw it or after (the client gives up after 30 seconds); *)
(* an insert can fail; the process can be stopped or killed and started    *)
(* again.                                                                  *)
(***************************************************************************)
EXTENDS Integers, Sequences, SequencesExt

CONSTANTS Hashes,      \* the block hashes the pool's miners can solve
          Repeated,    \* those among them that two candidates can carry
          Capacity,    \* the blocks channel's capacity (64)
          Maturity,    \* confirmations at which a block is final
          MaxFailures, \* bound on failed calls and inserts
          MaxStops,    \* bound on restarts of the process
          MaxReorgs    \* bound on reorganisations of the chain

ASSUME BlocksAssumption ==
  /\ Repeated \subseteq Hashes /\ Capacity \in Nat \ {0} /\ Maturity \in Nat \ {0}
  /\ MaxFailures \in Nat /\ MaxStops \in Nat /\ MaxReorgs \in Nat

VARIABLES
  found,     \* how many candidates of each hash the sessions have sent
  queue,     \* the blocks channel
  submitter, \* what the submitter is doing with the candidate it took
  chain,     \* where the node has each block: its depth on the active chain,
             \* Side off it, Absent when the node does not have it
  row,       \* the blocks table: the status of each hash's row
  tracker,   \* the pass of the confirmation tracker: what is left, what it read
  failures, stops, reorgs,
  matured,   \* history: blocks that have once been Maturity deep
  detached,  \* history: blocks that have once been off the active chain
  lost       \* history: candidates dropped by a stop or by a failed insert

node  == <<chain, matured, detached, reorgs>>
vars  == <<found, queue, submitter, row, tracker, failures, stops, lost, node>>

Statuses == {"accepted", "rejected", "confirmed", "orphaned"}
Answers  == {"accepted", "rejected"}
NoBlock  == "none"

Idle     == [at |-> "idle"]
NoPass   == [at |-> "idle"]

(* The submitter is busy with a candidate that carries hash h.             *)
Holds(h) == submitter # Idle /\ submitter.hash = h

Absent == 0
Side   == -1
Depths == 1..Maturity
Knows(h) == chain[h] # Absent

(* What getblock reports of a block the node has: its depth, or -1 off the *)
(* active chain.                                                           *)
Confirmations(h) == chain[h]

Init ==
  /\ found = [h \in Hashes |-> 0] /\ queue = <<>> /\ submitter = Idle
  /\ chain = [h \in Hashes |-> Absent]
  /\ row = [h \in Hashes |-> NoBlock] /\ tracker = NoPass
  /\ failures = 0 /\ stops = 0 /\ reorgs = 0
  /\ matured = {} /\ detached = {} /\ lost = {}

Copies(h) == IF h \in Repeated THEN 2 ELSE 1

(* A session's share solves block h and its send finds room; a full        *)
(* channel holds the session until the submitter takes one.                *)
Find(h) ==
  /\ found[h] < Copies(h) /\ Len(queue) < Capacity
  /\ found' = [found EXCEPT ![h] = @ + 1]
  /\ queue' = Append(queue, h)
  /\ UNCHANGED <<submitter, row, tracker, failures, stops, lost, node>>

(* The submitter takes the next candidate and calls submitblock.           *)
Take ==
  /\ submitter = Idle /\ queue # <<>>
  /\ submitter' = [at |-> "calling", hash |-> Head(queue)]
  /\ queue' = Tail(queue)
  /\ UNCHANGED <<found, row, tracker, failures, stops, lost, node>>

Answered(h, answer) == [at |-> "answered", hash |-> h, answer |-> answer]

(* The node connects a block it did not have, and answers null.            *)
NodeAccepts ==
  /\ submitter.at = "calling"
  /\ LET h == submitter.hash IN
       /\ ~ Knows(h)
       /\ chain' = [chain EXCEPT ![h] = 1]
       /\ matured' = IF Maturity = 1 THEN matured \union {h} ELSE matured
       /\ submitter' = Answered(h, "accepted")
  /\ UNCHANGED <<found, queue, row, tracker, failures, stops, lost, reorgs, detached>>

(* The node refuses the block: it is stale, or the node has it already     *)
(* ("duplicate").                                                          *)
NodeRefuses ==
  /\ submitter.at = "calling"
  /\ submitter' = Answered(submitter.hash, "rejected")
  /\ UNCHANGED <<found, queue, row, tracker, failures, stops, lost, node>>

(* The call fails before the node sees the block, or the node's answer     *)
(* does not come back in time: either way the outcome is Rejected.         *)
OutcomeOfError(s) == Answered(s.hash, "rejected")

CallFails ==
  /\ submitter.at \in {"calling", "answered"}
  /\ failures < MaxFailures
  /\ failures' = failures + 1
  /\ submitter' = OutcomeOfError(submitter)
  /\ UNCHANGED <<found, queue, row, tracker, stops, lost, node>>

(* insert_block: the row is created with the verdict, or, when the hash    *)
(* has one already, its status is replaced.                                *)
Inserted(h, status) == [row EXCEPT ![h] = status]

Record ==
  /\ submitter.at = "answered"
  /\ row' = Inserted(submitter.hash, submitter.answer)
  /\ submitter' = Idle
  /\ UNCHANGED <<found, queue, tracker, failures, stops, lost, node>>

RecordFails ==
  /\ submitter.at = "answered" /\ failures < MaxFailures
  /\ failures' = failures + 1
  /\ lost' = lost \union {submitter.hash}
  /\ submitter' = Idle
  /\ UNCHANGED <<found, queue, row, tracker, stops, node>>

----------------------------------------------------------------------------
(* unsettled_blocks: the rows a pass of the tracker walks.                 *)
NotFinal  == {h \in Hashes : row[h] \in {"accepted", "orphaned"}}
Unsettled == {h \in Hashes : row[h] = "accepted"}

StartPass ==
  /\ tracker = NoPass /\ Unsettled # {}
  /\ tracker' = [at |-> "next", todo |-> Unsettled]
  /\ UNCHANGED <<found, queue, submitter, row, failures, stops, lost, node>>

(* getblock for the next row.  A block the node does not have, or a failed *)
(* call, is skipped until the next pass.                                   *)
AfterRow(todo) ==
  IF todo = {} THEN NoPass ELSE [at |-> "next", todo |-> todo]

Check(h) ==
  /\ tracker.at = "next" /\ h \in tracker.todo
  /\ Knows(h)
  /\ tracker' = [at |-> "read", todo |-> tracker.todo \ {h}, hash |-> h,
                 confirmations |-> Confirmations(h)]
  /\ UNCHANGED <<found, queue, submitter, row, failures, stops, lost, node>>

CheckFails(h) ==
  /\ tracker.at = "next" /\ h \in tracker.todo
  /\ \/ ~ Knows(h) /\ failures' = failures
     \/ Knows(h) /\ failures < MaxFailures /\ failures' = failures + 1
  /\ tracker' = AfterRow(tracker.todo \ {h})
  /\ UNCHANGED <<found, queue, submitter, row, stops, lost, node>>

VerdictEarly(confirmations) ==
  IF confirmations < 0 THEN "orphaned"
  ELSE IF confirmations >= Maturity - 1 THEN "confirmed"
  ELSE "accepted"

VerdictLate(confirmations) ==
  IF confirmations < 0 THEN "orphaned"
  ELSE IF confirmations > Maturity THEN "confirmed"
  ELSE "accepted"

Verdict(confirmations) ==
  IF confirmations < 0 THEN "orphaned"
  ELSE IF confirmations >= Maturity THEN "confirmed"
  ELSE "accepted"

(* set_block_status writes by row id, whatever the status has become since *)
(* the pass read the list.                                                 *)
SetStatus ==
  /\ tracker.at = "read"
  /\ row' = [row EXCEPT ![tracker.hash] = Verdict(tracker.confirmations)]
  /\ tracker' = AfterRow(tracker.todo)
  /\ UNCHANGED <<found, queue, submitter, failures, stops, lost, node>>

(* A failed update ends the pass.                                          *)
SetStatusFails ==
  /\ tracker.at = "read" /\ failures < MaxFailures
  /\ failures' = failures + 1
  /\ tracker' = NoPass
  /\ UNCHANGED <<found, queue, submitter, row, stops, lost, node>>

----------------------------------------------------------------------------
(* Shutdown: the submitter and the tracker finish what they hold, the rest *)
(* of the channel is dropped; then the daemon starts again.                *)
Shutdown ==
  /\ stops < MaxStops /\ submitter = Idle /\ tracker = NoPass
  /\ stops' = stops + 1
  /\ lost' = lost \union ToSet(queue)
  /\ queue' = <<>>
  /\ UNCHANGED <<found, submitter, row, tracker, failures, node>>

(* The process is killed and started again.  A block already handed to the *)
(* node stays with the node.                                               *)
Kill ==
  /\ stops < MaxStops
  /\ stops' = stops + 1
  /\ lost' = lost \union ToSet(queue)
                  \union (IF submitter = Idle THEN {} ELSE {submitter.hash})
  /\ queue' = <<>> /\ submitter' = Idle /\ tracker' = NoPass
  /\ UNCHANGED <<found, row, failures, node>>

----------------------------------------------------------------------------
(* The chain grows: every block on it is one deeper (capped at Maturity).  *)
Deeper(h) == IF chain[h] \in 1..(Maturity - 1) THEN chain[h] + 1 ELSE chain[h]

Extend ==
  /\ \E h \in Hashes : Deeper(h) # chain[h]
  /\ chain' = [h \in Hashes |-> Deeper(h)]
  /\ matured' = matured \union {h \in Hashes : Deeper(h) = Maturity}
  /\ UNCHANGED <<found, queue, submitter, row, tracker, failures, stops, lost,
                 reorgs, detached>>

(* The network reorganises past one of the pool's immature blocks, or back *)
(* to it.                                                                  *)
Reorg(h) ==
  /\ reorgs < MaxReorgs
  /\ \/ chain[h] \in 1..(Maturity - 1) /\ chain' = [chain EXCEPT ![h] = Side]
     \/ chain[h] = Side /\ Maturity > 1 /\ chain' = [chain EXCEPT ![h] = 1]
  /\ detached' = detached \union {h}
  /\ reorgs' = reorgs + 1
  /\ UNCHANGED <<found, queue, submitter, row, tracker, failures, stops, lost, matured>>

Submitter == Take \/ NodeAccepts \/ NodeRefuses \/ CallFails \/ Record \/ RecordFails

Tracker ==
  \/ StartPass \/ SetStatus \/ SetStatusFails
  \/ \E h \in Hashes : Check(h) \/ CheckFails(h)

Next ==
  \/ \E h \in Hashes : Find(h) \/ Reorg(h)
  \/ Submitter \/ Tracker \/ Shutdown \/ Kill \/ Extend

(* The submitter and the tracker are tasks the runtime always schedules,   *)
(* every call ends within the client's 30 seconds, and the chain grows.    *)
Fairness ==
  /\ WF_vars(Submitter) /\ WF_vars(Tracker) /\ WF_vars(Extend)

Spec     == Init /\ [][Next]_vars
LiveSpec == Spec /\ Fairness

----------------------------------------------------------------------------
SubmitterStates ==
  {Idle} \union [at : {"calling"}, hash : Hashes]
         \union [at : {"answered"}, hash : Hashes, answer : Answers]

TrackerStates ==
  {NoPass} \union [at : {"next"}, todo : (SUBSET Hashes) \ {{}}]
           \union [at : {"read"}, todo : SUBSET Hashes, hash : Hashes,
                   confirmations : Depths \union {Side}]

\* The blocks table (blocks.rs), the queue of candidates and the states of submitter and tracker
\* (pool.rs) keep their types: one status a hash, and a pass only over hashes the table may hold.
TypeOK ==
  /\ found \in [Hashes -> 0..2]
  /\ queue \in Seq(Hashes) /\ Len(queue) <= Capacity
  /\ submitter \in SubmitterStates
  /\ chain \in [Hashes -> {Absent, Side} \union Depths]
  /\ row \in [Hashes -> {NoBlock} \union Statuses]
  /\ tracker \in TrackerStates
  /\ failures \in 0..MaxFailures /\ stops \in 0..MaxStops /\ reorgs \in 0..MaxReorgs
  /\ matured \subseteq Hashes /\ detached \subseteq Hashes /\ lost \subseteq Hashes

(* A final status was true of the chain when the tracker looked, although  *)
(* the row is written later, and whatever duplicates, failures and         *)
(* restarts came between: a confirmed block has been Maturity deep, an     *)
(* orphaned one has been off the active chain, and an accepted one is a    *)
(* block the node has.                                                     *)
VerdictsWereTrue == \A h \in Hashes :
  /\ row[h] = "confirmed" => h \in matured
  /\ row[h] = "orphaned"  => h \in detached
  /\ row[h] = "accepted"  => Knows(h)

(* No block the node took goes missing from the table: it has a row, or    *)
(* the submitter still holds it, or a stop or a failed insert dropped it.  *)
NothingUnrecorded == \A h \in Hashes :
  Knows(h) => \/ row[h] # NoBlock
              \/ Holds(h)
              \/ h \in lost

(* Table and chain agree: what a row says was true, and no block is        *)
(* without one.                                                            *)
TableAgrees == VerdictsWereTrue /\ NothingUnrecorded

(* A settled row of a hash that is submitted once is never written again:  *)
(* neither the submitter nor a tracker pass that read its list before      *)
(* takes a verdict back.                                                   *)
SettledStays ==
  [][\A h \in Hashes \ Repeated :
       row[h] \in {"rejected", "confirmed", "orphaned"} => row'[h] = row[h]]_vars

(* Every candidate is answered for: it ends in the table unless a stop or  *)
(* a failed insert dropped it.                                             *)
CandidatesAreRecorded == \A h \in Hashes :
  found[h] > 0 ~> (row[h] # NoBlock \/ h \in lost)

(* Every accepted row settles, as the chain grows past it.                 *)
AcceptedSettles == \A h \in Hashes :
  row[h] = "accepted" ~> row[h] \in {"confirmed", "orphaned", "rejected"}

(* No candidate is left out or open for ever.                              *)
CandidatesSettle == CandidatesAreRecorded /\ AcceptedSettles

(* What docs/OPERATING.md says of a row shown as rejected: "The node       *)
(* refused it".                                                            *)
RejectedWasRefused == \A h \in Hashes :
  row[h] = "rejected" /\ ~ Holds(h) => ~ Knows(h)
=============================================================================
