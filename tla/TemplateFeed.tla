---------------------------- MODULE TemplateFeed ----------------------------
(***************************************************************************)
(* What one chain's template source promises to the readers of its watch   *)
(* channel, whatever its polling does: the channel holds no template or    *)
(* the latest one; the tip a template builds on never goes back; and a     *)
(* template on a tip that no clean template has announced leaves a debt,   *)
(* which the next template pays by being clean.                            *)
(*                                                                         *)
(* Tips are numbered in the order the node adopts them (a node's best      *)
(* block hash does not return to one it left for a chain with more work).  *)
(***************************************************************************)
EXTENDS Naturals

CONSTANTS
  MaxTip,     \* bound: how many tips the chain goes through
  NoWork      \* the empty value of the channel

VARIABLES
  out,        \* the channel's latest value: NoWork or [prev, clean]
  lastPrev,   \* tip of the last template published, 0 before the first
  announced   \* tip for which the last clean template was published, 0 before it

feedVars == <<out, lastPrev, announced>>

Tips == 1 .. MaxTip
Templates == [prev : Tips, clean : BOOLEAN]

FeedInit ==
  /\ out = NoWork
  /\ lastPrev = 0
  /\ announced = 0

\* A template on a tip nobody was told to switch to.
InDebt == lastPrev # announced

PublishClean(prev) ==
  /\ prev \in Tips
  /\ prev >= lastPrev
  /\ announced' \in (announced + 1) .. prev
  /\ lastPrev' = prev
  /\ out' = [prev |-> prev, clean |-> TRUE]

PublishSameJob(prev) ==
  /\ prev \in Tips
  /\ announced # 0
  /\ ~InDebt
  /\ prev >= lastPrev
  /\ lastPrev' = prev
  /\ out' = [prev |-> prev, clean |-> FALSE]
  /\ UNCHANGED announced

Withdraw ==
  /\ out # NoWork
  /\ out' = NoWork
  /\ UNCHANGED <<lastPrev, announced>>

FeedNext ==
  \/ \E prev \in Tips : PublishClean(prev) \/ PublishSameJob(prev)
  \/ Withdraw

FeedSpec == FeedInit /\ [][FeedNext]_feedVars

-----------------------------------------------------------------------------
\* What is published, and what is remembered of it, keeps its types.
FeedTypes ==
  /\ out \in Templates \cup {NoWork}
  /\ lastPrev \in 0 .. MaxTip /\ announced \in 0 .. MaxTip
=============================================================================
