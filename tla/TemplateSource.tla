--------------------------- MODULE TemplateSource ---------------------------
(***************************************************************************)
(* The polling loop that turns one node's templates into a watch channel   *)
(* (crates/alamo-coins/src/template.rs).  The loop asks the node for its   *)
(* best block and, when the tip, the coinbase tag or the refresh interval  *)
(* calls for it, for a template: two calls, between which the node may     *)
(* move on.  It waits for a timer, a block notification or a new tag, and  *)
(* withdraws the template of a node that stays unreachable.                *)
(*                                                                         *)
(* Time is counted in ticks.  Calls to a node that is up take none; calls  *)
(* to one that is down fail, at once or after RpcTimeout ticks.            *)
(***************************************************************************)
EXTENDS Naturals, FiniteSetsExt

CONSTANTS
  Tags,             \* values of the coinbase tag setting
  MaxTip,           \* bound: how many tips the node goes through
  NoWork,           \* the empty value of the channel
  PollDelay,        \* poll_interval
  ZmqDelay,         \* ZMQ_FALLBACK_POLL
  FailureDelay,     \* FAILURE_POLL
  RefreshAfter,     \* refresh_interval
  StaleAfter,       \* stale_after
  RpcTimeout        \* the RPC client's own timeout

ASSUME SourceAssumption ==
  /\ MaxTip \in Nat \ {0}
  /\ {PollDelay, ZmqDelay, FailureDelay, RefreshAfter, StaleAfter, RpcTimeout}
        \subseteq Nat \ {0}
  /\ NoWork \notin [prev : 1 .. MaxTip, tag : Tags, clean : BOOLEAN]
  /\ NoWork \notin [prev : 1 .. MaxTip, clean : BOOLEAN]

VARIABLES
  up, tip, dropped,          \* the node: answering, best block, lost the call in progress
  zmqUp, notified,           \* subscription connected; a block count not yet seen by wait
  tag, tagChanged,           \* the setting; a change not yet seen by wait
  pc, seen,                  \* where the loop is; tip and tag read by the call in progress
  lastTip, lastTag,          \* last_tip, last_tag (0 and the empty set for None)
  health,                    \* connected / failures > 0 / neither yet
  withdrawn,                 \* health.withdrawn
  refreshAge, okAge,         \* time since last_refresh and last_ok
  delay, rpcAge,             \* time left of the sleep; time spent in the call
  out,                       \* the channel's latest value
  lastPrev, announced, lag   \* history: tip of the last template, tip the last clean one
                             \* was fetched for, age of a tip not announced so

nodeVars   == <<up, tip, dropped>>
signalVars == <<zmqUp, notified, tag, tagChanged>>
loopVars   == <<pc, seen, lastTip, lastTag, health, withdrawn, out, lastPrev, announced>>
clockVars  == <<refreshAge, okAge, delay, rpcAge, lag>>
vars == <<nodeVars, signalVars, loopVars, clockVars>>

Tips == 1 .. MaxTip
NoTag == {}
NothingSeen == [tip |-> 0, tag |-> NoTag]
Templates == [prev : Tips, tag : Tags, clean : BOOLEAN]

LongestDelay == Max({PollDelay, ZmqDelay, FailureDelay})
RetryDelay == Max({PollDelay, FailureDelay})
\* The longest a template may outlive the last successful poll: a failure just short of
\* stale_after (or the first one after a long sleep), and a retry whose two calls both
\* take as long as the RPC client lets them.
StaleBound == Max({StaleAfter - 1 + RetryDelay, LongestDelay}) + 2 * RpcTimeout

\* The node, the signals and the loop of a template source (template.rs) keep their types, and the
\* next poll is never later than the longest delay.
TypeOK ==
  /\ up \in BOOLEAN /\ tip \in Tips /\ dropped \in BOOLEAN
  /\ zmqUp \in BOOLEAN /\ notified \in BOOLEAN
  /\ tag \in Tags /\ tagChanged \in BOOLEAN
  /\ pc \in {"ask_tip", "ask_template", "wait"}
  /\ seen \in [tip : 0 .. MaxTip, tag : Tags \cup {NoTag}]
  /\ lastTip \in 0 .. MaxTip /\ lastTag \in Tags \cup {NoTag}
  /\ health \in {"unknown", "ok", "failing"}
  /\ withdrawn \in BOOLEAN
  /\ refreshAge \in 0 .. RefreshAfter /\ okAge \in 0 .. StaleBound + 1
  /\ delay \in 0 .. LongestDelay /\ rpcAge \in 0 .. RpcTimeout
  /\ out \in Templates \cup {NoWork}
  /\ lastPrev \in 0 .. MaxTip /\ announced \in 0 .. MaxTip
  /\ lag \in 0 .. LongestDelay + 1

Init ==
  /\ up \in BOOLEAN /\ tip = 1 /\ dropped = ~up
  /\ zmqUp = FALSE /\ notified = FALSE
  /\ tag \in Tags /\ tagChanged = FALSE
  /\ pc = "ask_tip" /\ seen = NothingSeen
  /\ lastTip = 0 /\ lastTag = NoTag
  /\ health = "unknown" /\ withdrawn = FALSE
  /\ refreshAge = RefreshAfter /\ okAge = StaleBound + 1
  /\ delay = 0 /\ rpcAge = 0
  /\ out = NoWork
  /\ lastPrev = 0 /\ announced = 0 /\ lag = 0

-----------------------------------------------------------------------------
(* The loop. *)

\* The sleep before the next poll, given how this one went.
Delay(h) ==
  IF h = "failing" THEN RetryDelay
  ELSE IF zmqUp THEN Max({PollDelay, ZmqDelay}) ELSE PollDelay

TipChangedVsTemplate(t) == lastPrev # t
TipChanged(t) == lastTip # t

FetchDueOnChange(t, g) == TipChanged(t) \/ lastTag # g
FetchDue(t, g) == TipChanged(t) \/ lastTag # g \/ refreshAge >= RefreshAfter

\* Every pass of the loop ends here: its calls are over; health, then the sleep.
EndPass(h) ==
  /\ seen' = NothingSeen /\ dropped' = FALSE
  /\ health' = h
  /\ delay' = Delay(h)
  /\ rpcAge' = 0
  /\ pc' = "wait"

\* getbestblockhash answered; nothing to fetch, or on to getblocktemplate.
TipAnswered ==
  /\ pc = "ask_tip" /\ up
  /\ IF FetchDue(tip, tag)
     THEN /\ pc' = "ask_template"
          /\ seen' = [tip |-> tip, tag |-> tag]
          /\ rpcAge' = 0
          /\ dropped' = FALSE
          /\ UNCHANGED <<health, delay, okAge>>
     ELSE /\ EndPass("ok")
          /\ okAge' = 0
  /\ UNCHANGED <<up, tip, signalVars, lastTip, lastTag, withdrawn, out, lastPrev,
                 announced, refreshAge, lag>>

\* getblocktemplate answered: published on the node's tip of now, clean if the tip of
\* the first call was new.
TemplateAnswered ==
  /\ pc = "ask_template" /\ up
  /\ out' = [prev |-> tip, tag |-> seen.tag, clean |-> TipChanged(seen.tip)]
  /\ lastTip' = seen.tip
  /\ lastTag' = seen.tag
  /\ lastPrev' = tip
  /\ announced' = IF TipChanged(seen.tip) THEN seen.tip ELSE announced
  /\ withdrawn' = FALSE
  /\ refreshAge' = 0 /\ okAge' = 0
  /\ lag' = IF announced' = tip THEN 0 ELSE lag
  /\ EndPass("ok")
  /\ UNCHANGED <<up, tip, signalVars>>

WithdrawDueLate == ~withdrawn /\ lastTip # 0 /\ okAge > StaleAfter
WithdrawDue == ~withdrawn /\ lastTip # 0 /\ okAge >= StaleAfter

\* Withdrawing forces a full refetch once the node is back, whatever the tip.
RefreshForced == RefreshAfter

\* Either call failed.
CallFailed ==
  /\ pc \in {"ask_tip", "ask_template"}
  /\ ~up \/ dropped
  /\ IF WithdrawDue
     THEN /\ withdrawn' = TRUE
          /\ refreshAge' = RefreshForced
          /\ out' = NoWork
     ELSE UNCHANGED <<withdrawn, refreshAge, out>>
  /\ EndPass("failing")
  /\ UNCHANGED <<up, tip, signalVars, lastTip, lastTag, lastPrev, announced,
                 okAge, lag>>

\* wait returns, for the timer, the tag or a block notification; a signal that did not
\* end this wait is still there for the next.
StartPass ==
  /\ pc' = "ask_tip"
  /\ dropped' = ~up
  /\ delay' = 0
  /\ UNCHANGED <<up, tip, zmqUp, tag, seen, lastTip, lastTag, health, withdrawn, out,
                 lastPrev, announced, refreshAge, okAge, rpcAge, lag>>

WakeByTimer == pc = "wait" /\ delay = 0 /\ StartPass /\ UNCHANGED <<notified, tagChanged>>
WakeByTag   == pc = "wait" /\ tagChanged /\ tagChanged' = FALSE /\ StartPass /\ UNCHANGED notified
WakeByZmq   == pc = "wait" /\ notified /\ notified' = FALSE /\ StartPass /\ UNCHANGED tagChanged

Loop == TipAnswered \/ TemplateAnswered \/ CallFailed \/ WakeByTimer \/ WakeByTag \/ WakeByZmq

-----------------------------------------------------------------------------
(* The node, the subscription, the setting and the clock. *)

\* A block arrives.
MineBlock ==
  /\ tip < MaxTip
  /\ tip' = tip + 1
  /\ lag' = 0
  /\ UNCHANGED <<up, dropped, signalVars, loopVars, refreshAge, okAge, delay, rpcAge>>

\* The subscriber has counted a notification: late, or of no block the loop does not know
\* yet, or never for one it does not (NodeFeed says which).
Notify ==
  /\ zmqUp
  /\ notified' = TRUE
  /\ UNCHANGED <<nodeVars, zmqUp, tag, tagChanged, loopVars, clockVars>>

NodeDown ==
  /\ up
  /\ up' = FALSE /\ dropped' = (pc # "wait")
  /\ UNCHANGED <<tip, signalVars, loopVars, clockVars>>

NodeUp ==
  /\ ~up
  /\ up' = TRUE /\ lag' = 0
  /\ UNCHANGED <<tip, dropped, signalVars, loopVars, refreshAge, okAge, delay, rpcAge>>

ZmqToggles ==
  /\ zmqUp' = ~zmqUp
  /\ UNCHANGED <<nodeVars, notified, tag, tagChanged, loopVars, clockVars>>

SetTag ==
  /\ \E t \in Tags \ {tag} : tag' = t
  /\ tagChanged' = TRUE
  /\ UNCHANGED <<nodeVars, zmqUp, notified, loopVars, clockVars>>

\* Time passes only while the loop sleeps with nothing to wake it, or in a call to a node
\* that does not answer.
Tick ==
  /\ \/ pc = "wait" /\ delay > 0 /\ ~tagChanged /\ ~notified
     \/ pc # "wait" /\ ~up /\ rpcAge < RpcTimeout
  /\ IF pc = "wait" THEN delay' = delay - 1 /\ UNCHANGED rpcAge
                    ELSE rpcAge' = rpcAge + 1 /\ UNCHANGED delay
  /\ refreshAge' = Min({refreshAge + 1, RefreshAfter})
  /\ okAge' = Min({okAge + 1, StaleBound + 1})
  /\ lag' = IF up /\ announced # tip THEN Min({lag + 1, LongestDelay + 1}) ELSE lag
  /\ UNCHANGED <<nodeVars, signalVars, loopVars>>

Next == Loop \/ MineBlock \/ Notify \/ NodeDown \/ NodeUp \/ ZmqToggles \/ SetTag \/ Tick

Spec == Init /\ [][Next]_vars
FairSpec == Spec /\ WF_vars(Loop) /\ WF_vars(Tick)

-----------------------------------------------------------------------------
(* Properties. *)

\* A tip the node has had for longer than the longest sleep has been announced by a clean
\* template, even if its notification was lost or it arrived between the two calls of a
\* pass (ZMQ is only a hint; the poll is the fallback).
TipLagBounded == lag <= LongestDelay

\* A template is never left on the channel when the node has not completed a poll for
\* stale_after, beyond the one retry already under way then.
StalenessBounded == out # NoWork => okAge <= StaleBound

\* After a poll that succeeded there is a template: one withdrawn during an outage is
\* fetched again although neither tip nor tag changed.
ReachableHasTemplate ==
  /\ health = "ok" => out # NoWork
  /\ lastTip # 0 => (withdrawn <=> out = NoWork)

\* A template is withdrawn only from a node unreachable for stale_after.
NotWithdrawnEarly == [][withdrawn' /\ ~withdrawn => okAge >= StaleAfter]_vars

Feed == INSTANCE TemplateFeed
          WITH out <- IF out = NoWork THEN NoWork ELSE [prev |-> out.prev, clean |-> out.clean]
\* The source keeps the promise of its channel.
ImplementsFeed == Feed!FeedSpec

\* Once the node stays up and its tip and the tag settle, the channel settles on a template
\* for them that a clean one announced.
Settled == out # NoWork /\ out.prev = tip /\ announced = tip /\ out.tag = tag
EventuallySettled ==
  \A g \in Tags : <>[](up /\ tag = g) => <>[]Settled
=============================================================================
