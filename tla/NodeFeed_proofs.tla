--------------------------- MODULE NodeFeed_proofs ---------------------------
(***************************************************************************)
(* Proofs about a node's feed, for any delays, ages, tags and number of    *)
(* tips.  First of TemplateSource, the polling loop: it keeps the promise  *)
(* of TemplateFeed, and its template is neither late nor stale for long.   *)
(* Then of NodeFeed, the loop with its subscriber: whatever the network    *)
(* does to the subscription, the two implement TemplateSource, so what is  *)
(* proved of TemplateSource is true of them, and the subscriber does what  *)
(* the loop relies on.                                                     *)
(***************************************************************************)
EXTENDS NodeFeed, TLAPS, WellFoundedInduction

-----------------------------------------------------------------------------
(* The inductive invariant, in named parts. *)

\* The tips the source knows, in the order the node had them: last_tip is the one last
\* announced; the last template may already have been on a later one; a call in progress
\* has seen that one or a later one.
TipsInOrder ==
  /\ announced = lastTip
  /\ lastTip <= lastPrev /\ lastPrev <= tip
  /\ pc = "ask_template" => /\ 0 < seen.tip /\ lastPrev <= seen.tip /\ seen.tip <= tip
                            /\ seen.tag \in Tags

\* The channel is empty before the first template and while one is withdrawn.
ChannelHolds ==
  /\ lastTip = 0 => out = NoWork /\ lastPrev = 0 /\ health # "ok"
  /\ lastTip # 0 => (withdrawn <=> out = NoWork)
  /\ out # NoWork => lastTip # 0
  /\ out = NoWork => refreshAge = RefreshAfter
  /\ health = "ok" => out # NoWork

SourceInv == TypeOK /\ TipsInOrder /\ ChannelHolds

-----------------------------------------------------------------------------
(* Facts about the delays. *)

LEMMA MinOfTwo ==
  ASSUME NEW a \in Nat, NEW b \in Nat
  PROVE  Min({a, b}) \in Nat /\ Min({a, b}) <= a /\ Min({a, b}) <= b /\ Min({a, b}) \in {a, b}
  <1>1. \E x \in {a, b} : \A y \in {a, b} : x <= y
    BY a <= b \/ b <= a
  <1>2. Min({a, b}) \in {a, b} /\ \A y \in {a, b} : Min({a, b}) <= y
    BY <1>1 DEF Min
  <1> QED
    BY <1>2

LEMMA MaxOfTwo ==
  ASSUME NEW a \in Nat, NEW b \in Nat
  PROVE  Max({a, b}) \in {a, b} /\ a <= Max({a, b}) /\ b <= Max({a, b})
  <1>1. \E x \in {a, b} : \A y \in {a, b} : x >= y
    BY a <= b \/ b <= a
  <1>2. Max({a, b}) \in {a, b} /\ \A y \in {a, b} : Max({a, b}) >= y
    BY <1>1 DEF Max
  <1> QED
    BY <1>2

LEMMA MaxOfThree ==
  ASSUME NEW a \in Nat, NEW b \in Nat, NEW c \in Nat
  PROVE  /\ Max({a, b, c}) \in {a, b, c}
         /\ a <= Max({a, b, c}) /\ b <= Max({a, b, c}) /\ c <= Max({a, b, c})
  <1>1. \E x \in {a, b, c} : \A y \in {a, b, c} : x >= y
    <2>1. CASE a >= b /\ a >= c
      BY <2>1
    <2>2. CASE b >= a /\ b >= c
      BY <2>2
    <2>3. CASE c >= a /\ c >= b
      BY <2>3
    <2> QED
      BY <2>1, <2>2, <2>3
  <1>2. Max({a, b, c}) \in {a, b, c} /\ \A y \in {a, b, c} : Max({a, b, c}) >= y
    BY <1>1 DEF Max
  <1> QED
    BY <1>2

\* The sleeps are within the longest, and the bounds are numbers.
LEMMA DelayTypes ==
  /\ MaxTip \in Nat /\ MaxTip # 0
  /\ PollDelay \in Nat /\ RefreshAfter \in Nat \ {0} /\ StaleAfter \in Nat /\ RpcTimeout \in Nat
  /\ LongestDelay \in Nat /\ StaleBound \in Nat
  /\ \A h : Delay(h) \in 0 .. LongestDelay
  <1>1. /\ MaxTip \in Nat /\ MaxTip # 0
        /\ PollDelay \in Nat \ {0} /\ ZmqDelay \in Nat \ {0} /\ FailureDelay \in Nat \ {0}
        /\ RefreshAfter \in Nat \ {0} /\ StaleAfter \in Nat \ {0} /\ RpcTimeout \in Nat \ {0}
    BY SourceAssumption
  <1>2. /\ LongestDelay \in Nat
        /\ PollDelay <= LongestDelay /\ ZmqDelay <= LongestDelay /\ FailureDelay <= LongestDelay
    BY <1>1, MaxOfThree DEF LongestDelay
  <1>3. RetryDelay \in {PollDelay, FailureDelay} /\ Max({PollDelay, ZmqDelay}) \in {PollDelay, ZmqDelay}
    BY <1>1, MaxOfTwo DEF RetryDelay
  <1>4. \A h : Delay(h) \in {RetryDelay, Max({PollDelay, ZmqDelay}), PollDelay}
    BY DEF Delay
  <1>5. \A h : Delay(h) \in 0 .. LongestDelay
    BY <1>1, <1>2, <1>3, <1>4
  <1>6. StaleAfter - 1 + RetryDelay \in Nat
    BY <1>1, <1>3
  <1>7. Max({StaleAfter - 1 + RetryDelay, LongestDelay}) \in Nat
    BY <1>2, <1>6, MaxOfTwo
  <1>8. StaleBound \in Nat
    BY <1>1, <1>7 DEF StaleBound
  <1> QED
    BY <1>1, <1>2, <1>5, <1>8

LEMMA NothingType == NothingSeen \in [tip : 0 .. MaxTip, tag : Tags \cup {NoTag}]
  BY DelayTypes DEF NothingSeen

-----------------------------------------------------------------------------
(* Every step keeps the invariant. *)

LEMMA InitSource == Init => SourceInv
  <1> SUFFICES ASSUME Init PROVE SourceInv
    OBVIOUS
  <1>1. TypeOK
    <2>1. seen \in [tip : 0 .. MaxTip, tag : Tags \cup {NoTag}] /\ tip \in Tips
      BY DelayTypes, NothingType DEF Init, Tips
    <2>2. up \in BOOLEAN /\ dropped \in BOOLEAN
      BY DEF Init
    <2>3. /\ refreshAge \in 0 .. RefreshAfter /\ okAge \in 0 .. StaleBound + 1
          /\ delay \in 0 .. LongestDelay /\ rpcAge \in 0 .. RpcTimeout
          /\ lag \in 0 .. LongestDelay + 1
          /\ lastTip \in 0 .. MaxTip /\ lastPrev \in 0 .. MaxTip /\ announced \in 0 .. MaxTip
      BY DelayTypes DEF Init
    <2> QED
      BY <2>1, <2>2, <2>3 DEF Init, TypeOK
  <1>2. TipsInOrder /\ ChannelHolds
    BY DelayTypes DEF Init, TipsInOrder, ChannelHolds
  <1> QED
    BY <1>1, <1>2 DEF SourceInv

LEMMA TipAnsweredKeeps ==
  ASSUME SourceInv, TipAnswered PROVE SourceInv'
  <1>1. /\ UNCHANGED <<up, tip, signalVars, lastTip, lastTag, withdrawn, out, lastPrev,
                       announced, refreshAge, lag>>
        /\ pc = "ask_tip"
    BY DEF TipAnswered
  <1>2. CASE FetchDue(tip, tag)
    <2>1. /\ pc' = "ask_template" /\ rpcAge' = 0 /\ dropped' = FALSE
          /\ seen' = [tip |-> tip, tag |-> tag]
          /\ UNCHANGED <<health, delay, okAge>>
      BY <1>2 DEF TipAnswered
    <2>2. seen' \in [tip : 0 .. MaxTip, tag : Tags \cup {NoTag}] /\ 0 \in 0 .. RpcTimeout
      BY <2>1, DelayTypes DEF SourceInv, TypeOK, Tips
    <2>3. TypeOK'
      BY <1>1, <2>1, <2>2 DEF SourceInv, TypeOK, signalVars
    <2>4. TipsInOrder' /\ ChannelHolds'
      BY <1>1, <2>1 DEF SourceInv, TypeOK, TipsInOrder, ChannelHolds, Tips, signalVars
    <2> QED
      BY <2>3, <2>4 DEF SourceInv
  <1>3. CASE ~FetchDue(tip, tag)
    <2>1. /\ pc' = "wait" /\ rpcAge' = 0 /\ health' = "ok" /\ delay' \in 0 .. LongestDelay
          /\ okAge' = 0 /\ dropped' = FALSE /\ seen' = NothingSeen
      BY <1>3, DelayTypes DEF TipAnswered, EndPass
    <2>2. lastTip # 0 /\ refreshAge # RefreshAfter
      BY <1>3, DelayTypes DEF FetchDue, TipChanged, SourceInv, TypeOK, Tips
    <2>3. /\ seen' \in [tip : 0 .. MaxTip, tag : Tags \cup {NoTag}]
          /\ 0 \in 0 .. RpcTimeout /\ 0 \in 0 .. StaleBound + 1
      BY <2>1, DelayTypes, NothingType DEF SourceInv, TypeOK, Tips
    <2>4. TypeOK'
      BY <1>1, <2>1, <2>3 DEF SourceInv, TypeOK, signalVars
    <2>5. TipsInOrder' /\ ChannelHolds'
      BY <1>1, <2>1, <2>2 DEF SourceInv, TipsInOrder, ChannelHolds
    <2> QED
      BY <2>4, <2>5 DEF SourceInv
  <1> QED
    BY <1>2, <1>3

LEMMA TemplateAnsweredKeeps ==
  ASSUME SourceInv, TemplateAnswered PROVE SourceInv'
  <1>1. /\ UNCHANGED <<up, tip, signalVars>> /\ pc = "ask_template"
        /\ seen' = NothingSeen /\ dropped' = FALSE
        /\ lastTip' = seen.tip /\ lastTag' = seen.tag /\ lastPrev' = tip
        /\ announced' = IF TipChanged(seen.tip) THEN seen.tip ELSE announced
        /\ withdrawn' = FALSE /\ refreshAge' = 0 /\ okAge' = 0
        /\ lag' = IF announced' = tip THEN 0 ELSE lag
        /\ pc' = "wait" /\ rpcAge' = 0 /\ health' = "ok" /\ delay' \in 0 .. LongestDelay
    BY DelayTypes DEF TemplateAnswered, EndPass
  <1>2. out' \in Templates
    <2>1. tip \in Tips /\ seen.tag \in Tags
      BY <1>1 DEF SourceInv, TypeOK, TipsInOrder
    <2> QED
      BY <2>1 DEF TemplateAnswered, Templates, TipChanged
  <1>3. out' # NoWork
    BY <1>2, SourceAssumption DEF Templates, Tips
  <1>4. announced' = seen.tip
    BY <1>1 DEF SourceInv, TipsInOrder, TipChanged
  <1>5. TypeOK'
    <2>1. /\ seen.tip \in 0 .. MaxTip /\ seen.tag \in Tags /\ tip \in 0 .. MaxTip
          /\ lag' \in 0 .. LongestDelay + 1
          /\ 0 \in 0 .. RpcTimeout /\ 0 \in 0 .. StaleBound + 1 /\ 0 \in 0 .. RefreshAfter
      BY <1>1, DelayTypes DEF SourceInv, TypeOK, TipsInOrder, Tips
    <2> QED
      BY <1>1, <1>2, <1>4, <2>1, NothingType DEF SourceInv, TypeOK, signalVars
  <1>6. TipsInOrder' /\ ChannelHolds'
    <2>1. tip \in Tips /\ seen.tip \in 0 .. MaxTip /\ 0 < seen.tip /\ seen.tip <= tip
      BY <1>1 DEF SourceInv, TypeOK, TipsInOrder
    <2> QED
      BY <1>1, <1>3, <1>4, <2>1, DelayTypes DEF TipsInOrder, ChannelHolds, Tips
  <1> QED
    BY <1>5, <1>6 DEF SourceInv

LEMMA CallFailedKeeps ==
  ASSUME SourceInv, CallFailed PROVE SourceInv'
  <1>1. /\ UNCHANGED <<up, tip, signalVars, lastTip, lastTag, lastPrev, announced,
                       okAge, lag>>
        /\ seen' = NothingSeen /\ dropped' = FALSE
        /\ pc' = "wait" /\ rpcAge' = 0 /\ health' = "failing" /\ delay' \in 0 .. LongestDelay
    BY DelayTypes DEF CallFailed, EndPass
  <1>2. \/ WithdrawDue /\ withdrawn' = TRUE /\ refreshAge' = RefreshAfter /\ out' = NoWork
        \/ UNCHANGED <<withdrawn, refreshAge, out>>
    BY DEF CallFailed, RefreshForced
  <1>3. TypeOK'
    <2>1. /\ withdrawn' \in BOOLEAN /\ refreshAge' \in 0 .. RefreshAfter
          /\ out' \in Templates \cup {NoWork} /\ 0 \in 0 .. RpcTimeout
      <3>1. RefreshAfter \in 0 .. RefreshAfter /\ 0 \in 0 .. RpcTimeout
        BY DelayTypes
      <3>2. withdrawn \in BOOLEAN /\ refreshAge \in 0 .. RefreshAfter /\ out \in Templates \cup {NoWork}
        BY DEF SourceInv, TypeOK
      <3> QED
        BY <1>2, <3>1, <3>2
    <2> QED
      BY <1>1, <2>1, NothingType DEF SourceInv, TypeOK, signalVars
  <1>4. TipsInOrder'
    BY <1>1 DEF SourceInv, TipsInOrder
  <1>5. ChannelHolds'
    BY <1>1, <1>2 DEF SourceInv, ChannelHolds, WithdrawDue
  <1> QED
    BY <1>3, <1>4, <1>5 DEF SourceInv

LEMMA WakeKeeps ==
  ASSUME SourceInv, WakeByTimer \/ WakeByTag \/ WakeByZmq PROVE SourceInv'
  <1>1. /\ UNCHANGED <<up, tip, zmqUp, tag, seen, lastTip, lastTag, health, withdrawn, out,
                       lastPrev, announced, refreshAge, okAge, rpcAge, lag>>
        /\ pc' = "ask_tip" /\ delay' = 0
    BY DEF WakeByTimer, WakeByTag, WakeByZmq, StartPass
  <1>2. TypeOK'
    <2>1. dropped' \in BOOLEAN /\ notified' \in BOOLEAN /\ tagChanged' \in BOOLEAN
      BY DEF WakeByTimer, WakeByTag, WakeByZmq, StartPass, SourceInv, TypeOK
    <2>2. 0 \in 0 .. LongestDelay
      BY DelayTypes
    <2> QED
      BY <1>1, <2>1, <2>2 DEF SourceInv, TypeOK
  <1>3. TipsInOrder' /\ ChannelHolds'
    BY <1>1 DEF SourceInv, TipsInOrder, ChannelHolds
  <1> QED
    BY <1>2, <1>3 DEF SourceInv

LEMMA MineBlockKeeps ==
  ASSUME SourceInv, MineBlock PROVE SourceInv'
  <1>1. /\ UNCHANGED <<up, dropped, signalVars, loopVars, refreshAge, okAge, delay, rpcAge>>
        /\ tip < MaxTip /\ tip' = tip + 1 /\ lag' = 0
    BY DEF MineBlock
  <1>2. tip' \in Tips
    BY <1>1, DelayTypes DEF SourceInv, TypeOK, Tips
  <1>3. TypeOK'
    BY <1>1, <1>2, DelayTypes DEF SourceInv, TypeOK, signalVars, loopVars
  <1>4. TipsInOrder'
    BY <1>1 DEF SourceInv, TypeOK, TipsInOrder, Tips, loopVars
  <1>5. ChannelHolds'
    BY <1>1 DEF SourceInv, ChannelHolds, loopVars
  <1> QED
    BY <1>3, <1>4, <1>5 DEF SourceInv

LEMMA EnvironmentKeeps ==
  ASSUME SourceInv, Notify \/ NodeDown \/ NodeUp \/ ZmqToggles \/ SetTag PROVE SourceInv'
  <1>1. /\ UNCHANGED <<tip, loopVars, refreshAge, okAge, delay, rpcAge>>
        /\ up' \in BOOLEAN /\ dropped' \in BOOLEAN /\ lag' \in {lag, 0}
        /\ zmqUp' \in BOOLEAN /\ notified' \in BOOLEAN
        /\ tag' \in Tags /\ tagChanged' \in BOOLEAN
    <2>1. up \in BOOLEAN /\ dropped \in BOOLEAN /\ zmqUp \in BOOLEAN /\ tag \in Tags
          /\ tagChanged \in BOOLEAN /\ notified \in BOOLEAN
      BY DEF SourceInv, TypeOK
    <2>2. CASE NodeDown
      BY <2>1, <2>2 DEF NodeDown, clockVars, signalVars
    <2>3. CASE NodeUp
      BY <2>1, <2>3 DEF NodeUp, signalVars
    <2>4. CASE ZmqToggles
      BY <2>1, <2>4 DEF ZmqToggles, nodeVars, clockVars
    <2>5. CASE SetTag
      BY <2>1, <2>5 DEF SetTag, nodeVars, clockVars
    <2>6. CASE Notify
      BY <2>1, <2>6 DEF Notify, nodeVars, clockVars
    <2> QED
      BY <2>2, <2>3, <2>4, <2>5, <2>6
  <1>2. TypeOK'
    BY <1>1, DelayTypes DEF SourceInv, TypeOK, loopVars
  <1>3. TipsInOrder' /\ ChannelHolds'
    BY <1>1 DEF SourceInv, TipsInOrder, ChannelHolds, loopVars
  <1> QED
    BY <1>2, <1>3 DEF SourceInv

LEMMA TickKeeps ==
  ASSUME SourceInv, Tick PROVE SourceInv'
  <1>1. UNCHANGED <<nodeVars, signalVars, loopVars>>
    BY DEF Tick
  <1>2. refreshAge \in 0 .. RefreshAfter /\ okAge \in 0 .. StaleBound + 1
        /\ delay \in 0 .. LongestDelay /\ rpcAge \in 0 .. RpcTimeout /\ lag \in 0 .. LongestDelay + 1
    BY DEF SourceInv, TypeOK
  <1>3. refreshAge' \in 0 .. RefreshAfter /\ (refreshAge = RefreshAfter => refreshAge' = RefreshAfter)
    <2>1. refreshAge' = Min({refreshAge + 1, RefreshAfter})
      BY DEF Tick
    <2> QED
      BY <1>2, <2>1, MinOfTwo, DelayTypes
  <1>4. okAge' \in 0 .. StaleBound + 1
    <2>1. okAge' = Min({okAge + 1, StaleBound + 1})
      BY DEF Tick
    <2> QED
      BY <1>2, <2>1, MinOfTwo, DelayTypes
  <1>5. lag' \in 0 .. LongestDelay + 1
    <2>1. lag' \in {Min({lag + 1, LongestDelay + 1}), lag}
      BY DEF Tick
    <2> QED
      BY <1>2, <2>1, MinOfTwo, DelayTypes
  <1>6. delay' \in 0 .. LongestDelay /\ rpcAge' \in 0 .. RpcTimeout
    BY <1>2, DelayTypes DEF Tick
  <1>7. TypeOK'
    BY <1>1, <1>3, <1>4, <1>5, <1>6 DEF SourceInv, TypeOK, nodeVars, signalVars, loopVars
  <1>8. TipsInOrder' /\ ChannelHolds'
    BY <1>1, <1>3 DEF SourceInv, TipsInOrder, ChannelHolds, nodeVars, loopVars
  <1> QED
    BY <1>7, <1>8 DEF SourceInv

LEMMA NextSource == SourceInv /\ [Next]_vars => SourceInv'
  <1> SUFFICES ASSUME SourceInv, [Next]_vars PROVE SourceInv'
    OBVIOUS
  <1>1. CASE Loop
    BY <1>1, TipAnsweredKeeps, TemplateAnsweredKeeps, CallFailedKeeps, WakeKeeps DEF Loop
  <1>2. CASE MineBlock \/ Tick
    BY <1>2, MineBlockKeeps, TickKeeps
  <1>3. CASE Notify \/ NodeDown \/ NodeUp \/ ZmqToggles \/ SetTag
    BY <1>3, EnvironmentKeeps
  <1>4. CASE UNCHANGED vars
    <2>1. TypeOK'
      BY <1>4 DEF SourceInv, TypeOK, vars, nodeVars, signalVars, loopVars, clockVars
    <2>2. TipsInOrder' /\ ChannelHolds'
      BY <1>4 DEF SourceInv, TipsInOrder, ChannelHolds, vars, nodeVars, loopVars, clockVars
    <2> QED
      BY <2>1, <2>2 DEF SourceInv
  <1> QED
    BY <1>1, <1>2, <1>3, <1>4 DEF Next

-----------------------------------------------------------------------------
(* The theorems. *)

\* The inductive invariant holds in every behaviour of the polling loop.
THEOREM SourceInvariant == Spec => []SourceInv
  BY InitSource, NextSource, PTL DEF Spec

\* Every variable keeps its type; in particular the clocks stay within their bounds.
THEOREM SourceTypes == Spec => []TypeOK
  <1>1. SourceInv => TypeOK
    BY DEF SourceInv
  <1> QED
    BY <1>1, SourceInvariant, PTL

\* Once poll_loop has polled successfully the channel has a template, whatever was
\* withdrawn before: the forced refresh brings it back.
THEOREM ReachableTemplate == Spec => []ReachableHasTemplate
  <1>1. SourceInv => ReachableHasTemplate
    BY DEF SourceInv, ChannelHolds, ReachableHasTemplate
  <1> QED
    BY <1>1, SourceInvariant, PTL

\* poll_loop's error arm withdraws a template only when stale_after has passed.
THEOREM WithdrawnLate == Spec => NotWithdrawnEarly
  <1>1. SourceInv /\ [Next]_vars => [withdrawn' /\ ~withdrawn => okAge >= StaleAfter]_vars
    <2> SUFFICES ASSUME SourceInv, Next, withdrawn', ~withdrawn PROVE okAge >= StaleAfter
      OBVIOUS
    <2>1. CASE CallFailed
      BY <2>1 DEF CallFailed, WithdrawDue
    <2>2. CASE TipAnswered \/ TemplateAnswered
      BY <2>2 DEF TipAnswered, TemplateAnswered
    <2>3. CASE WakeByTimer \/ WakeByTag \/ WakeByZmq
      BY <2>3 DEF WakeByTimer, WakeByTag, WakeByZmq, StartPass
    <2>4. CASE MineBlock \/ Notify \/ NodeDown \/ NodeUp \/ ZmqToggles \/ SetTag \/ Tick
      BY <2>4 DEF MineBlock, Notify, NodeDown, NodeUp, ZmqToggles, SetTag, Tick, loopVars
    <2> QED
      BY <2>1, <2>2, <2>3, <2>4 DEF Next, Loop
  <1> QED
    BY <1>1, SourceInvariant, PTL DEF Spec, NotWithdrawnEarly

-----------------------------------------------------------------------------
(* How late a tip is announced. *)

\* A tip is due within the longest sleep: what has passed and what is left of the sleep fit
\* into it, and nothing passes for a tip that came, or a node that came back, in a pass.
LagFits ==
  /\ lag <= LongestDelay
  /\ announced = tip => lag = 0
  /\ pc = "wait" /\ up => lag + delay <= LongestDelay
  /\ pc = "ask_template" /\ seen.tip # tip => lag = 0
  /\ pc # "wait" /\ up /\ dropped => lag = 0

\* What the proofs below need of the types.
LEMMA Clocks ==
  ASSUME SourceInv
  PROVE  /\ lag \in Nat /\ delay \in Nat /\ delay <= LongestDelay /\ okAge \in Nat
         /\ rpcAge \in Nat /\ rpcAge <= RpcTimeout
         /\ tip \in Nat /\ announced \in Nat /\ announced <= tip
         /\ up \in BOOLEAN /\ dropped \in BOOLEAN /\ LongestDelay \in Nat /\ RpcTimeout \in Nat
  <1>1. /\ lag \in 0 .. LongestDelay + 1 /\ delay \in 0 .. LongestDelay
        /\ okAge \in 0 .. StaleBound + 1 /\ rpcAge \in 0 .. RpcTimeout
        /\ tip \in 1 .. MaxTip /\ announced \in 0 .. MaxTip /\ up \in BOOLEAN /\ dropped \in BOOLEAN
    BY DEF SourceInv, TypeOK, Tips
  <1>2. announced <= tip
    BY <1>1, DelayTypes DEF SourceInv, TypeOK, TipsInOrder
  <1> QED
    BY <1>1, <1>2, DelayTypes

LEMMA NextSleep ==
  ASSUME NEW h, EndPass(h)
  PROVE  pc' = "wait" /\ rpcAge' = 0 /\ delay' \in Nat /\ delay' <= LongestDelay
  <1>1. delay' \in 0 .. LongestDelay /\ LongestDelay \in Nat
    BY DelayTypes DEF EndPass
  <1> QED
    BY <1>1 DEF EndPass

\* A pass that ends with the lag at nothing leaves a sleep that fits.
LEMMA EndPassFits ==
  ASSUME NEW h, SourceInv, EndPass(h), lag' = 0
  PROVE  LagFits'
  <1>1. pc' = "wait" /\ lag' + delay' <= LongestDelay /\ lag' <= LongestDelay
    BY NextSleep, Clocks
  <1> QED
    BY <1>1 DEF LagFits

LEMMA LoopLag == ASSUME SourceInv, LagFits, Loop PROVE LagFits'
  <1>1. CASE TipAnswered
    <2>1. up /\ tip' = tip /\ lag' = lag /\ announced' = announced /\ up' = up /\ pc = "ask_tip"
      BY <1>1 DEF TipAnswered
    <2>2. CASE FetchDue(tip, tag)
      <3>1. pc' = "ask_template" /\ seen' = [tip |-> tip, tag |-> tag] /\ dropped' = FALSE
        BY <1>1, <2>2 DEF TipAnswered
      <3> QED
        BY <2>1, <3>1 DEF LagFits
    <2>3. CASE ~FetchDue(tip, tag)
      <3>1. EndPass("ok")
        BY <1>1, <2>3 DEF TipAnswered
      <3>2. announced = tip
        BY <2>3 DEF FetchDue, TipChanged, SourceInv, TipsInOrder
      <3> QED
        BY <2>1, <3>1, <3>2, EndPassFits DEF LagFits
    <2> QED
      BY <2>2, <2>3
  <1>2. CASE TemplateAnswered
    <2>1. /\ EndPass("ok") /\ tip' = tip /\ pc = "ask_template"
          /\ announced' = IF TipChanged(seen.tip) THEN seen.tip ELSE announced
          /\ lag' = IF announced' = tip THEN 0 ELSE lag
      BY <1>2 DEF TemplateAnswered
    <2>2. announced' = seen.tip
      BY <2>1 DEF TipChanged, SourceInv, TipsInOrder
    <2>3. lag' = 0
      BY <2>1, <2>2 DEF LagFits
    <2> QED
      BY <2>1, <2>3, EndPassFits
  <1>3. CASE CallFailed
    <2>1. /\ EndPass("failing") /\ UNCHANGED <<up, tip, announced, lag>>
          /\ pc # "wait" /\ (~up \/ dropped)
      BY <1>3 DEF CallFailed
    <2>2. CASE up
      <3>1. lag' = 0
        BY <2>1, <2>2 DEF LagFits
      <3> QED
        BY <2>1, <3>1, EndPassFits
    <2>3. CASE ~up
      <3>1. pc' = "wait"
        BY <2>1 DEF EndPass
      <3> QED
        BY <2>1, <2>3, <3>1 DEF LagFits
    <2> QED
      BY <2>2, <2>3
  <1>4. CASE WakeByTimer \/ WakeByTag \/ WakeByZmq
    <2>1. pc' = "ask_tip" /\ dropped' = ~up /\ UNCHANGED <<up, tip, announced, lag>>
      BY <1>4 DEF WakeByTimer, WakeByTag, WakeByZmq, StartPass
    <2> QED
      BY <2>1 DEF LagFits
  <1> QED
    BY <1>1, <1>2, <1>3, <1>4 DEF Loop

LEMMA TickLag == ASSUME SourceInv, LagFits, Tick PROVE LagFits'
  <1>1. UNCHANGED <<up, tip, dropped, pc, announced, seen>>
    BY DEF Tick, nodeVars, loopVars
  <1>2. Min({lag + 1, LongestDelay + 1}) <= lag + 1
    <2>1. lag + 1 \in Nat /\ LongestDelay + 1 \in Nat
      BY Clocks
    <2> QED
      BY <2>1, MinOfTwo
  <1>3. lag' \in Nat
    BY TickKeeps, Clocks DEF SourceInv, TypeOK
  <1>4. CASE pc = "wait"
    <2>1. delay > 0 /\ delay' = delay - 1
      BY <1>4 DEF Tick
    <2>2. CASE up /\ announced # tip
      <3>1. lag' <= lag + 1
        BY <1>2, <2>2 DEF Tick
      <3> QED
        BY <1>1, <1>3, <1>4, <2>1, <2>2, <3>1, Clocks DEF LagFits
    <2>3. CASE ~(up /\ announced # tip)
      <3>1. lag' = lag
        BY <2>3 DEF Tick
      <3> QED
        BY <1>1, <1>4, <2>1, <2>3, <3>1, Clocks DEF LagFits
    <2> QED
      BY <2>2, <2>3
  <1>5. CASE pc # "wait"
    <2>1. ~up /\ lag' = lag
      BY <1>5 DEF Tick
    <2> QED
      BY <1>1, <1>5, <2>1 DEF LagFits
  <1> QED
    BY <1>4, <1>5

LEMMA NextLag == SourceInv /\ LagFits /\ [Next]_vars => LagFits'
  <1> SUFFICES ASSUME SourceInv, LagFits, [Next]_vars PROVE LagFits'
    OBVIOUS
  <1>1. CASE Loop \/ Tick
    BY <1>1, LoopLag, TickLag
  <1>2. CASE MineBlock \/ NodeUp
    <2>1. lag' = 0 /\ UNCHANGED <<pc, delay>>
      BY <1>2 DEF MineBlock, NodeUp, loopVars
    <2> QED
      BY <2>1, Clocks DEF LagFits
  <1>3. CASE NodeDown
    <2>1. up' = FALSE /\ UNCHANGED <<tip, pc, seen, announced, lag>>
      BY <1>3 DEF NodeDown, loopVars, clockVars
    <2> QED
      BY <2>1 DEF LagFits
  <1>4. CASE Notify \/ ZmqToggles \/ SetTag
    <2>1. UNCHANGED <<nodeVars, loopVars, clockVars>>
      BY <1>4 DEF Notify, ZmqToggles, SetTag
    <2> QED
      BY <2>1 DEF LagFits, nodeVars, loopVars, clockVars
  <1>5. CASE UNCHANGED vars
    BY <1>5 DEF LagFits, vars, nodeVars, loopVars, clockVars
  <1> QED
    BY <1>1, <1>2, <1>3, <1>4, <1>5 DEF Next

\* However the polls, notifications and outages fall, a node that is up has each tip announced
\* within the longest sleep: the poll is the fallback of a notification that was lost or that
\* came between the two calls of poll_loop.
THEOREM TipsInTime == Spec => []TipLagBounded
  <1>1. Init => LagFits
    BY DelayTypes DEF Init, LagFits
  <1>2. LagFits => TipLagBounded
    BY DEF LagFits, TipLagBounded
  <1> QED
    BY <1>1, <1>2, NextLag, SourceInvariant, PTL DEF Spec

-----------------------------------------------------------------------------
(* How long a template outlives its node. *)

\* The longest a template can be past its last successful poll when a pass begins.
LongestRest == Max({StaleAfter - 1 + RetryDelay, LongestDelay})

\* A template on the channel is at most that old when its sleep is over, and the two calls of
\* the pass take RpcTimeout each.
AgesFit ==
  /\ pc = "wait" => rpcAge = 0
  /\ out # NoWork =>
       /\ pc = "wait" => okAge + delay <= LongestRest
       /\ pc = "ask_tip" => okAge <= LongestRest + rpcAge
       /\ pc = "ask_template" => okAge <= LongestRest + RpcTimeout + rpcAge

LEMMA RestTypes ==
  /\ LongestRest \in Nat /\ RetryDelay \in Nat
  /\ StaleAfter - 1 + RetryDelay <= LongestRest /\ LongestDelay <= LongestRest
  /\ StaleBound = LongestRest + 2 * RpcTimeout
  <1>1. /\ PollDelay \in Nat /\ FailureDelay \in Nat /\ StaleAfter \in Nat \ {0}
    BY SourceAssumption
  <1>2. RetryDelay \in Nat
    BY <1>1, MaxOfTwo DEF RetryDelay
  <1>3. StaleAfter - 1 + RetryDelay \in Nat /\ LongestDelay \in Nat
    BY <1>1, <1>2, DelayTypes
  <1> QED
    BY <1>2, <1>3, MaxOfTwo DEF LongestRest, StaleBound

\* A template left on the channel by a failure is not yet stale_after old.
LEMMA FailureRest ==
  ASSUME SourceInv, CallFailed, out' # NoWork
  PROVE  okAge' = okAge /\ okAge < StaleAfter /\ delay' = RetryDelay
  <1>1. ~WithdrawDue /\ out' = out
    BY DEF CallFailed
  <1>2. ~withdrawn /\ lastTip # 0
    BY <1>1 DEF SourceInv, ChannelHolds
  <1>3. okAge < StaleAfter
    BY <1>1, <1>2, Clocks, DelayTypes DEF WithdrawDue
  <1> QED
    BY <1>3 DEF CallFailed, EndPass, Delay

\* A poll that succeeded leaves a template no older than the sleep.
LEMMA PolledAges ==
  ASSUME NEW h, EndPass(h), okAge' = 0
  PROVE  AgesFit'
  <1>1. pc' = "wait" /\ rpcAge' = 0 /\ okAge' + delay' <= LongestRest
    <2>1. LongestDelay \in Nat /\ LongestRest \in Nat /\ LongestDelay <= LongestRest
      BY RestTypes, DelayTypes
    <2> QED
      BY <2>1, NextSleep
  <1> QED
    BY <1>1 DEF AgesFit

LEMMA LoopAges == ASSUME SourceInv, AgesFit, Loop PROVE AgesFit'
  <1>1. CASE TipAnswered
    <2>1. pc = "ask_tip" /\ out' = out
      BY <1>1 DEF TipAnswered
    <2>2. CASE FetchDue(tip, tag)
      <3>1. pc' = "ask_template" /\ rpcAge' = 0 /\ okAge' = okAge
        BY <1>1, <2>2 DEF TipAnswered
      <3> QED
        BY <2>1, <3>1, Clocks, RestTypes DEF AgesFit
    <2>3. CASE ~FetchDue(tip, tag)
      <3>1. EndPass("ok") /\ okAge' = 0
        BY <1>1, <2>3 DEF TipAnswered
      <3> QED
        BY <3>1, PolledAges
    <2> QED
      BY <2>2, <2>3
  <1>2. CASE TemplateAnswered
    <2>1. EndPass("ok") /\ okAge' = 0
      BY <1>2 DEF TemplateAnswered
    <2> QED
      BY <2>1, PolledAges
  <1>3. CASE CallFailed
    <2>1. pc' = "wait" /\ rpcAge' = 0
      BY <1>3 DEF CallFailed, EndPass
    <2>2. out' # NoWork => okAge' + delay' <= LongestRest
      BY <1>3, FailureRest, Clocks, RestTypes, DelayTypes
    <2> QED
      BY <2>1, <2>2 DEF AgesFit
  <1>4. CASE WakeByTimer \/ WakeByTag \/ WakeByZmq
    <2>1. pc = "wait" /\ pc' = "ask_tip" /\ UNCHANGED <<out, okAge, rpcAge>>
      BY <1>4 DEF WakeByTimer, WakeByTag, WakeByZmq, StartPass
    <2> QED
      BY <2>1, Clocks, RestTypes DEF AgesFit
  <1> QED
    BY <1>1, <1>2, <1>3, <1>4 DEF Loop

LEMMA TickAges == ASSUME SourceInv, AgesFit, Tick PROVE AgesFit'
  <1>1. UNCHANGED <<pc, out>>
    BY DEF Tick, loopVars
  <1>2. okAge' \in Nat /\ okAge' <= okAge + 1
    <2>1. okAge + 1 \in Nat /\ StaleBound + 1 \in Nat
      BY Clocks, DelayTypes
    <2>2. okAge' = Min({okAge + 1, StaleBound + 1})
      BY DEF Tick
    <2> QED
      BY <2>1, <2>2, MinOfTwo
  <1>3. CASE pc = "wait"
    <2>1. delay > 0 /\ delay' = delay - 1 /\ rpcAge' = rpcAge
      BY <1>3 DEF Tick
    <2> QED
      BY <1>1, <1>2, <1>3, <2>1, Clocks, RestTypes DEF AgesFit
  <1>4. CASE pc # "wait"
    <2>1. rpcAge' = rpcAge + 1
      BY <1>4 DEF Tick
    <2> QED
      BY <1>1, <1>2, <1>4, <2>1, Clocks, RestTypes DEF AgesFit
  <1> QED
    BY <1>3, <1>4

LEMMA NextAges == SourceInv /\ AgesFit /\ [Next]_vars => AgesFit'
  <1> SUFFICES ASSUME SourceInv, AgesFit, [Next]_vars PROVE AgesFit'
    OBVIOUS
  <1>1. CASE Loop \/ Tick
    BY <1>1, LoopAges, TickAges
  <1>2. CASE MineBlock \/ Notify \/ NodeDown \/ NodeUp \/ ZmqToggles \/ SetTag
    <2>1. UNCHANGED <<pc, out, rpcAge, okAge, delay>>
      BY <1>2 DEF MineBlock, Notify, NodeDown, NodeUp, ZmqToggles, SetTag, loopVars, clockVars
    <2> QED
      BY <2>1 DEF AgesFit
  <1>3. CASE UNCHANGED vars
    BY <1>3 DEF AgesFit, vars, loopVars, clockVars
  <1> QED
    BY <1>1, <1>2, <1>3 DEF Next

\* poll_loop never leaves a template on the channel for longer than StaleBound after the last
\* poll its node answered, whenever the node fails and however long each call takes to.
THEOREM NeverStale == Spec => []StalenessBounded
  <1>1. Init => AgesFit
    BY DEF Init, AgesFit
  <1>2. SourceInv /\ AgesFit => StalenessBounded
    <2> SUFFICES ASSUME SourceInv, AgesFit, out # NoWork PROVE okAge <= StaleBound
      BY DEF StalenessBounded
    <2>1. pc \in {"ask_tip", "ask_template", "wait"}
      BY DEF SourceInv, TypeOK
    <2> QED
      BY <2>1, Clocks, RestTypes DEF AgesFit
  <1> QED
    BY <1>1, <1>2, NextAges, SourceInvariant, PTL DEF Spec

-----------------------------------------------------------------------------
(* The promise of the channel. *)

\* What readers of the channel see of the value o.
FeedValue(o) == IF o = NoWork THEN NoWork ELSE [prev |-> o.prev, clean |-> o.clean]

\* The loop's steps as steps of the feed: an answered template is a publication, clean when
\* the tip of the first call was new; a failed call withdraws or does nothing.
LEMMA AnswerPublishes ==
  ASSUME SourceInv, TemplateAnswered
  PROVE  Feed!PublishClean(tip) \/ Feed!PublishSameJob(tip)
  <1>1. /\ tip \in Feed!Tips /\ tip \in Nat /\ lastTip \in Nat /\ lastPrev \in Nat /\ seen.tip \in Nat
        /\ announced = lastTip /\ lastTip <= lastPrev /\ lastPrev <= seen.tip
        /\ 0 < seen.tip /\ seen.tip <= tip
    BY DelayTypes DEF SourceInv, TypeOK, TipsInOrder, Tips, Feed!Tips, TemplateAnswered
  <1>2. /\ lastPrev' = tip
        /\ announced' = IF lastTip # seen.tip THEN seen.tip ELSE announced
    BY DEF TemplateAnswered, TipChanged
  <1>3. out' = [prev |-> tip, tag |-> seen.tag, clean |-> lastTip # seen.tip]
    BY DEF TemplateAnswered, TipChanged
  <1>4. out' # NoWork
    <2>1. tip \in Tips /\ seen.tag \in Tags
      BY DEF SourceInv, TypeOK, TipsInOrder, TemplateAnswered
    <2>2. out' \in [prev : 1 .. MaxTip, tag : Tags, clean : BOOLEAN]
      BY <1>3, <2>1 DEF Tips
    <2> QED
      BY <2>2, SourceAssumption
  <1>5. FeedValue(out)' = [prev |-> tip, clean |-> lastTip # seen.tip]
    BY <1>3, <1>4 DEF FeedValue
  <1>6. CASE lastTip # seen.tip
    <2>1. FeedValue(out)' = [prev |-> tip, clean |-> TRUE]
      BY <1>5, <1>6
    <2>2. announced' \in (announced + 1) .. tip
      BY <1>1, <1>2, <1>6
    <2> QED
      BY <1>1, <1>2, <2>1, <2>2 DEF Feed!PublishClean, FeedValue
  <1>7. CASE lastTip = seen.tip
    <2>1. FeedValue(out)' = [prev |-> tip, clean |-> FALSE]
      BY <1>5, <1>7
    <2>2. announced # 0 /\ lastPrev = announced /\ announced' = announced
      BY <1>1, <1>2, <1>7
    <2> QED
      BY <1>1, <1>2, <2>1, <2>2 DEF Feed!PublishSameJob, Feed!InDebt, FeedValue
  <1> QED
    BY <1>6, <1>7

LEMMA FailureWithdraws ==
  ASSUME SourceInv, CallFailed
  PROVE  Feed!Withdraw \/ UNCHANGED <<out, lastPrev, announced>>
  <1>1. UNCHANGED <<lastPrev, announced>>
    BY DEF CallFailed
  <1>2. CASE WithdrawDue
    <2>1. out # NoWork /\ out' = NoWork
      BY <1>2 DEF CallFailed, WithdrawDue, SourceInv, ChannelHolds
    <2>2. out \in Templates
      BY <2>1 DEF SourceInv, TypeOK
    <2>3. [prev |-> out.prev, clean |-> out.clean] \in [prev : 1 .. MaxTip, clean : BOOLEAN]
      BY <2>2 DEF Templates, Tips
    <2>4. FeedValue(out) # NoWork /\ FeedValue(out)' = NoWork
      BY <2>1, <2>3, SourceAssumption DEF FeedValue
    <2> QED
      BY <1>1, <2>4 DEF Feed!Withdraw, FeedValue
  <1>3. CASE ~WithdrawDue
    BY <1>1, <1>3 DEF CallFailed
  <1> QED
    BY <1>2, <1>3

\* poll_loop keeps the promise of its channel to merge and the sessions: TemplateFeed, with
\* the tag hidden.
THEOREM SourceImplementsFeed == Spec => ImplementsFeed
  <1>1. Init => Feed!FeedInit
    BY DEF Init, Feed!FeedInit
  <1>2. SourceInv /\ [Next]_vars => [Feed!FeedNext]_(Feed!feedVars)
    <2> SUFFICES ASSUME SourceInv, [Next]_vars
                 PROVE  Feed!FeedNext \/ UNCHANGED <<out, lastPrev, announced>>
      BY DEF Feed!feedVars
    <2>1. CASE TemplateAnswered
      <3>1. tip \in Feed!Tips
        BY DEF SourceInv, TypeOK, Tips, Feed!Tips
      <3> QED
        BY <2>1, <3>1, AnswerPublishes DEF Feed!FeedNext
    <2>2. CASE CallFailed
      BY <2>2, FailureWithdraws DEF Feed!FeedNext
    <2>3. CASE TipAnswered
      BY <2>3 DEF TipAnswered
    <2>4. CASE WakeByTimer \/ WakeByTag \/ WakeByZmq
      BY <2>4 DEF WakeByTimer, WakeByTag, WakeByZmq, StartPass
    <2>5. CASE MineBlock \/ Notify \/ NodeDown \/ NodeUp \/ ZmqToggles \/ SetTag \/ Tick
      BY <2>5 DEF MineBlock, Notify, NodeDown, NodeUp, ZmqToggles, SetTag, Tick, loopVars
    <2>6. CASE UNCHANGED vars
      BY <2>6 DEF vars, loopVars
    <2> QED
      BY <2>1, <2>2, <2>3, <2>4, <2>5, <2>6 DEF Next, Loop
  <1> QED
    BY <1>1, <1>2, SourceInvariant, PTL DEF Spec, ImplementsFeed, Feed!FeedSpec

-----------------------------------------------------------------------------
(* NodeFeed: the loop and its subscriber. *)

\* The status on the watch channel is the session's.
StatusAgrees == zmqUp \in BOOLEAN /\ (zmqUp <=> Subscribed)

-----------------------------------------------------------------------------
(* The subscriber's steps, one by one. *)

\* A session that fails takes the subscription down, if it was up.
LEMMA FailureDisconnects ==
  ASSUME StatusAgrees, SessionFails, notified' = notified, KeepsSource
  PROVE  StatusAgrees' /\ (ZmqToggles \/ UNCHANGED vars)
  <1>1. phase' = "waiting" /\ zmqUp' = FALSE
    BY DEF SessionFails, Disconnected
  <1>2. UNCHANGED <<nodeVars, tag, tagChanged, loopVars, clockVars>>
    BY DEF KeepsSource
  <1>3. StatusAgrees'
    BY <1>1 DEF StatusAgrees, Subscribed
  <1>4. CASE zmqUp = TRUE
    <2>1. zmqUp' = ~zmqUp
      BY <1>1, <1>4
    <2> QED
      BY <1>2, <1>3, <2>1 DEF ZmqToggles
  <1>5. CASE zmqUp = FALSE
    <2>1. zmqUp' = zmqUp
      BY <1>1, <1>5
    <2> QED
      BY <1>2, <1>3, <2>1 DEF vars, signalVars
  <1> QED
    BY <1>4, <1>5 DEF StatusAgrees

\* A frame that is read counts a notification, does nothing the loop can see, or ends the
\* session.
LEMMA ReadingNotifies ==
  ASSUME StatusAgrees, ReadFrame
  PROVE  StatusAgrees' /\ (Notify \/ ZmqToggles \/ UNCHANGED vars)
  <1>1. phase = "streaming" /\ KeepsSource
    BY DEF ReadFrame
  <1>2. CASE Head(wire).part = "oversized"
    <2>1. SessionFails /\ notified' = notified
      BY <1>2 DEF ReadFrame
    <2> QED
      BY <1>1, <2>1, FailureDisconnects
  <1>3. CASE Head(wire).part # "oversized"
    <2>1. /\ phase' = phase /\ zmqUp' = zmqUp
          /\ notified' = TRUE \/ notified' = notified
      BY <1>3 DEF ReadFrame
    <2>2. UNCHANGED <<nodeVars, tag, tagChanged, loopVars, clockVars>>
      BY <1>1 DEF KeepsSource
    <2>3. zmqUp
      BY <1>1 DEF StatusAgrees, Subscribed
    <2>4. StatusAgrees'
      BY <2>1 DEF StatusAgrees, Subscribed
    <2>5. CASE notified' = TRUE
      BY <2>1, <2>2, <2>3, <2>4, <2>5 DEF Notify
    <2>6. CASE notified' = notified
      BY <2>1, <2>2, <2>4, <2>6 DEF vars, signalVars
    <2> QED
      BY <2>1, <2>5, <2>6
  <1> QED
    BY <1>2, <1>3

LEMMA SubscriberStep ==
  ASSUME StatusAgrees, Subscriber
  PROVE  StatusAgrees' /\ (Notify \/ ZmqToggles \/ UNCHANGED vars)
  <1>1. CASE Connect
    <2>1. phase = "connecting" /\ phase' = "streaming" /\ zmqUp' = TRUE /\ notified' = notified
      BY <1>1 DEF Connect
    <2>2. UNCHANGED <<nodeVars, tag, tagChanged, loopVars, clockVars>>
      BY <1>1 DEF Connect, KeepsSource
    <2>3. zmqUp = FALSE
      BY <2>1 DEF StatusAgrees, Subscribed
    <2>4. ZmqToggles
      BY <2>1, <2>2, <2>3 DEF ZmqToggles
    <2> QED
      BY <2>1, <2>4 DEF StatusAgrees, Subscribed
  <1>2. CASE ConnectRefused \/ ConnectTimesOut \/ ConnectionEnds
    BY <1>2, FailureDisconnects DEF ConnectRefused, ConnectTimesOut, ConnectionEnds
  <1>3. CASE ConnectHangs \/ Retry
    <2>1. /\ phase \in {"connecting", "waiting"} /\ phase' \in {"hanging", "connecting"}
          /\ UNCHANGED <<zmqUp, notified>> /\ KeepsSource
      BY <1>3 DEF ConnectHangs, Retry
    <2> QED
      BY <2>1 DEF StatusAgrees, Subscribed, KeepsSource, vars, signalVars
  <1>4. CASE ReadFrame
    BY <1>4, ReadingNotifies
  <1> QED
    BY <1>1, <1>2, <1>3, <1>4 DEF Subscriber

-----------------------------------------------------------------------------
(* Every step is one of TemplateSource's, or none. *)

LEMMA StepImplements ==
  ASSUME StatusAgrees, [NodeFeedNext]_bothVars
  PROVE  StatusAgrees' /\ [Next]_vars
  <1>1. CASE Subscriber
    BY <1>1, SubscriberStep DEF Next
  <1>2. CASE LoopStep
    <2>1. Loop /\ phase' = phase
      BY <1>2 DEF LoopStep, sessionVars
    <2>2. zmqUp' = zmqUp
      BY <2>1 DEF Loop, TipAnswered, TemplateAnswered, CallFailed, WakeByTimer, WakeByTag,
                  WakeByZmq, StartPass, signalVars
    <2> QED
      BY <2>1, <2>2 DEF Next, StatusAgrees, Subscribed
  <1>3. CASE NodeChanges
    <2>1. (NodeDown \/ NodeUp) /\ phase' = phase
      BY <1>3 DEF NodeChanges, sessionVars
    <2>2. zmqUp' = zmqUp
      BY <2>1 DEF NodeDown, NodeUp, signalVars
    <2> QED
      BY <2>1, <2>2 DEF Next, StatusAgrees, Subscribed
  <1>4. CASE TagChanges
    <2>1. SetTag /\ phase' = phase
      BY <1>4 DEF TagChanges, sessionVars
    <2> QED
      BY <2>1 DEF Next, StatusAgrees, Subscribed, SetTag
  <1>5. CASE PublishBlock
    <2>1. MineBlock /\ phase' = phase
      BY <1>5 DEF PublishBlock
    <2> QED
      BY <2>1 DEF Next, StatusAgrees, Subscribed, MineBlock, signalVars
  <1>6. CASE PublishOther \/ PeerVanishes
    <2>1. /\ UNCHANGED vars
          /\ phase = "streaming" /\ phase' \in {"streaming", "vanished"}
      BY <1>6 DEF PublishOther, PeerVanishes
    <2> QED
      BY <2>1 DEF StatusAgrees, Subscribed, vars, signalVars
  <1>7. CASE FeedTick
    <2>1. Tick /\ phase' = phase
      BY <1>7 DEF FeedTick
    <2> QED
      BY <2>1 DEF Next, StatusAgrees, Subscribed, Tick, signalVars
  <1>8. CASE UNCHANGED bothVars
    BY <1>8 DEF bothVars, subscriberVars, sessionVars, vars, signalVars, StatusAgrees, Subscribed
  <1> QED
    BY <1>1, <1>2, <1>3, <1>4, <1>5, <1>6, <1>7, <1>8 DEF NodeFeedNext

-----------------------------------------------------------------------------
(* The theorems. *)

\* node_feed's polling loop with its ZmqSubscriber (zmq.rs), whose connection may fail, hang
\* or vanish at any point, behaves as TemplateSource allows, and the subscription it sleeps
\* by is up exactly while the session believes so.
THEOREM NodeFeedImplementsSource == NodeFeedSpec => Spec /\ []StatusAgrees
  <1>1. NodeFeedInit => Init /\ StatusAgrees
    BY DEF NodeFeedInit, Init, StatusAgrees, Subscribed
  <1>2. StatusAgrees /\ [NodeFeedNext]_bothVars => [Next]_vars /\ StatusAgrees'
    BY StepImplements
  <1> QED
    BY <1>1, <1>2, PTL DEF NodeFeedSpec, Spec

\* What the loop and its subscriber publish keeps the promise of TemplateFeed to merge and
\* the sessions.
THEOREM NodeFeedImplementsFeed == NodeFeedSpec => ImplementsFeed
  BY NodeFeedImplementsSource, SourceImplementsFeed, PTL

\* After a poll that succeeded there is a template, whatever the subscription does.
THEOREM NodeFeedHasTemplate == NodeFeedSpec => []ReachableHasTemplate
  BY NodeFeedImplementsSource, ReachableTemplate, PTL

-----------------------------------------------------------------------------
(* The longest back-off. *)

Below == {p \in Nat \X Nat : p[1] < p[2]}

LEMMA BelowIsWellFounded == IsWellFoundedOn(Below, Nat)
  BY NatLessThanWellFounded DEF OpToRel, Below

\* Every set of numbers has a least one: induction, in a form without an operator parameter.
LEMMA LeastNumber ==
  ASSUME NEW N, N \subseteq Nat, N # {}
  PROVE  \E x \in N : \A y \in N : x <= y
  <1>1. PICK x \in N : \A y \in N : ~ (<<y, x>> \in Below)
    <2>1. N \in SUBSET Nat
      OBVIOUS
    <2> QED
      BY <2>1, WFMin, BelowIsWellFounded
  <1>2. \A y \in N : ~ (y < x)
    BY <1>1 DEF Below
  <1> QED
    BY <1>2

\* The longest of a sequence of waits is one of them: the shortest prefix without a longest
\* element would have one.
LEMMA LongestOfSequence ==
  ASSUME NEW s \in Seq(Nat), s # <<>>
  PROVE  \E m \in DOMAIN s : \A i \in DOMAIN s : s[i] <= s[m]
  <1> DEFINE Longest(n) == \E m \in 1 .. n : \A i \in 1 .. n : s[i] <= s[m]
             Without == {n \in 1 .. Len(s) : ~ Longest(n)}
  <1>1. /\ Len(s) \in Nat \ {0} /\ DOMAIN s = 1 .. Len(s)
        /\ \A i \in 1 .. Len(s) : s[i] \in Nat
    OBVIOUS
  <1>2. ASSUME Without # {} PROVE FALSE
    <2>1. Without \subseteq Nat
      OBVIOUS
    <2>2. PICK n \in Without : \A k \in Without : n <= k
      <3> HIDE DEF Without
      <3> QED
        BY <1>2, <2>1, LeastNumber
    <2>3. n \in 1 .. Len(s) /\ ~ Longest(n)
      BY <2>2
    <2>4. n # 1
      <3>1. Longest(1)
        BY <1>1
      <3> QED
        BY <2>3, <3>1
    <2>5. n - 1 \in 1 .. Len(s) /\ n - 1 \notin Without
      <3>1. n - 1 \in 1 .. Len(s)
        BY <1>1, <2>3, <2>4
      <3>2. ~ (n <= n - 1)
        BY <2>3
      <3> HIDE DEF Without
      <3> QED
        BY <2>2, <3>1, <3>2
    <2>6. PICK m \in 1 .. n - 1 : \A i \in 1 .. n - 1 : s[i] <= s[m]
      BY <2>5
    <2>7. Longest(n)
      <3>1. n \in Nat /\ Len(s) \in Nat /\ 1 <= n /\ n <= Len(s)
        BY <1>1, <2>3
      <3>2. \A i \in 1 .. n : i = n \/ i \in 1 .. n - 1
        BY <3>1
      <3>3. m \in 1 .. n /\ m \in 1 .. Len(s) /\ n \in 1 .. n /\ n \in 1 .. Len(s)
        BY <3>1, <2>6
      <3>4. \A i \in 1 .. n - 1 : i \in 1 .. Len(s)
        BY <3>1
      <3>5. /\ s[m] \in Nat /\ s[n] \in Nat
            /\ \A i \in 1 .. n - 1 : s[i] \in Nat
        BY <1>1, <3>3, <3>4
      <3>6. CASE s[n] <= s[m]
        <4>1. \A i \in 1 .. n : s[i] <= s[m]
          BY <2>6, <3>2, <3>6
        <4> QED
          BY <3>3, <4>1
      <3>7. CASE s[m] <= s[n]
        <4>1. \A i \in 1 .. n - 1 : s[i] <= s[n]
          <5>1. \A a, b, c \in Nat : a <= b /\ b <= c => a <= c
            OBVIOUS
          <5> QED
            BY <2>6, <3>5, <3>7, <5>1
        <4>2. s[n] <= s[n]
          BY <3>5, SMTT(20)
        <4>3. \A i \in 1 .. n : s[i] <= s[n]
          BY <3>2, <4>1, <4>2
        <4> QED
          BY <3>3, <4>3
      <3>8. s[n] <= s[m] \/ s[m] <= s[n]
        <4>1. \A a, b \in Nat : a <= b \/ b <= a
          OBVIOUS
        <4> QED
          BY <3>5, <4>1
      <3> QED
        BY <3>6, <3>7, <3>8
    <2> QED
      BY <2>3, <2>7
  <1>3. Len(s) \notin Without
    BY <1>2
  <1>4. Longest(Len(s))
    BY <1>1, <1>3
  <1> QED
    BY <1>1, <1>4

\* No back-off is longer than the longest.
LEMMA BackoffBounded ==
  /\ LongestBackoff \in Nat /\ ConnectTimeout \in Nat
  /\ \A i \in DOMAIN Backoff : Backoff[i] \in Nat /\ Backoff[i] <= LongestBackoff
  /\ DOMAIN Backoff = 1 .. Len(Backoff) /\ Len(Backoff) \in Nat \ {0}
  <1> DEFINE Waits == {Backoff[i] : i \in DOMAIN Backoff}
  <1>1. /\ Backoff \in Seq(Nat) /\ Backoff # <<>> /\ ConnectTimeout \in Nat
        /\ DOMAIN Backoff = 1 .. Len(Backoff) /\ Len(Backoff) \in Nat \ {0}
    BY FeedAssumption
  <1>2. \A i \in DOMAIN Backoff : Backoff[i] \in Nat
    BY <1>1
  <1>3. \E x \in Waits : \A y \in Waits : x >= y
    <2>1. PICK m \in DOMAIN Backoff : \A i \in DOMAIN Backoff : Backoff[i] <= Backoff[m]
      BY <1>1, LongestOfSequence
    <2> QED
      BY <1>2, <2>1
  <1>4. LongestBackoff \in Waits /\ \A y \in Waits : LongestBackoff >= y
    BY <1>3 DEF LongestBackoff, Max
  <1> QED
    BY <1>1, <1>2, <1>4

LEMMA ReconnectBounded ==
  ASSUME attempt \in 0 .. Len(Backoff)
  PROVE  /\ ReconnectDelay(attempt) \in Nat /\ ReconnectDelay(attempt) <= LongestBackoff
         /\ Min({attempt + 1, Len(Backoff)}) \in 0 .. Len(Backoff)
  <1>1. attempt \in Nat /\ Len(Backoff) - 1 \in Nat /\ Len(Backoff) \in Nat \ {0} /\ attempt + 1 \in Nat
    BY BackoffBounded
  <1>2. Min({attempt, Len(Backoff) - 1}) + 1 \in DOMAIN Backoff
    <2>1. /\ Min({attempt, Len(Backoff) - 1}) \in Nat
          /\ Min({attempt, Len(Backoff) - 1}) <= Len(Backoff) - 1
      BY <1>1, MinOfTwo
    <2> QED
      BY <1>1, <2>1, BackoffBounded
  <1>3. Min({attempt + 1, Len(Backoff)}) \in 0 .. Len(Backoff)
    <2>1. /\ Min({attempt + 1, Len(Backoff)}) \in Nat
          /\ Min({attempt + 1, Len(Backoff)}) <= Len(Backoff)
      BY <1>1, MinOfTwo
    <2> QED
      BY <1>1, <2>1
  <1> QED
    BY <1>2, <1>3, BackoffBounded DEF ReconnectDelay

-----------------------------------------------------------------------------
(* The inductive invariant of the subscription, in named parts. *)

FeedTypes ==
  /\ phase \in {"absent", "connecting", "hanging", "streaming", "vanished", "waiting"}
  /\ timer \in Nat /\ attempt \in 0 .. Len(Backoff) /\ outage \in Nat
  /\ missed \in BOOLEAN

\* The parts a message may begin with, and end with; Frames is what read_frame may return.
Begins == {"hashblock", "other topic", "command", "oversized"}
Ends   == {"sequence", "body", "command", "oversized"}
Longer == {"hashblock", "hash", "other topic"}
Parts  == Begins \cup Ends \cup Longer
Frames ==
  {f \in [part : Parts, more : BOOLEAN, command : BOOLEAN] :
     (f.more <=> f.part \in Longer) /\ (f.command <=> f.part = "command")}

FollowedBy(p, q) ==
  \/ p = "hashblock" /\ q = "hash"
  \/ p = "hash" /\ q = "sequence"
  \/ p = "other topic" /\ q = "body"
  \/ p \in Ends /\ q \in Begins

\* Frames that are messages one after the other, the first perhaps without its beginning.
Messages(w) ==
  /\ w \in Seq(Frames)
  /\ \A i \in 1 .. Len(w) - 1 : FollowedBy(w[i].part, w[i + 1].part)
  /\ w # <<>> => w[Len(w)].part \in Ends

\* A frame with that part may stand before the frames w.
Before(p, w) == IF w = <<>> THEN p \in Ends ELSE FollowedBy(p, w[1].part)

\* What the session may have read of a message.
Begun(f) ==
  /\ f \in Seq(Parts)
  /\ \/ Len(f) = 0
     \/ Len(f) = 1 /\ f[1] \in {"hashblock", "other topic"}
     \/ Len(f) = 2 /\ f[1] = "hashblock"

\* The rest of that message is on the wire.
Continues(f, w) ==
  /\ Len(f) = 0 => w = <<>> \/ w[1].part \in Begins
  /\ Len(f) = 1 /\ f[1] = "hashblock" => w # <<>> /\ w[1].part = "hash"
  /\ Len(f) = 1 /\ f[1] = "other topic" => w # <<>> /\ w[1].part = "body"
  /\ Len(f) = 2 => w # <<>> /\ w[1].part = "sequence"

WireInOrder ==
  /\ Messages(wire)
  /\ Begun(frames)
  /\ phase = "streaming" => Continues(frames, wire)
  /\ phase # "streaming" => wire = <<>>
  /\ ~Subscribed => frames = <<>>
  /\ blocks = whole

\* The time without a subscription fits into the connection attempt and the back-off that
\* are under way.
OutageFits ==
  /\ ~up \/ Subscribed \/ phase = "absent" => outage = 0
  /\ phase = "hanging" => outage + timer <= ConnectTimeout
  /\ phase = "waiting" => outage + timer <= ConnectTimeout + LongestBackoff
  /\ phase = "connecting" => outage <= ConnectTimeout + LongestBackoff

\* The tip's notification is on the wire, or has been counted, or has started a pass.
Underway ==
  \/ Unread \/ notified
  \/ pc = "ask_tip"
  \/ pc = "ask_template" /\ seen.tip = tip

Heard == ~missed => lag = 0 /\ (announced # tip => Underway)

FeedInv == StatusAgrees /\ FeedTypes /\ WireInOrder /\ OutageFits /\ Heard

-----------------------------------------------------------------------------
(* Frames on the wire. *)

\* One frame read leaves messages, and those that end in a sequence number with it.
LEMMA ReadingInOrder ==
  ASSUME NEW w, Messages(w), w # <<>>
  PROVE  /\ Head(w) = w[1] /\ Head(w) \in Frames /\ Messages(Tail(w))
         /\ Before(Head(w).part, Tail(w))
         /\ (\E i \in DOMAIN w : w[i].part = "sequence") /\ Head(w).part # "sequence"
               => \E i \in DOMAIN Tail(w) : Tail(w)[i].part = "sequence"
  <1>1. /\ w \in Seq(Frames) /\ Len(w) \in Nat \ {0} /\ DOMAIN w = 1 .. Len(w)
        /\ Head(w) = w[1] /\ w[1] \in Frames
    BY DEF Messages
  <1>2. /\ Tail(w) \in Seq(Frames) /\ Len(Tail(w)) = Len(w) - 1
        /\ DOMAIN Tail(w) = 1 .. Len(w) - 1
        /\ \A i \in 1 .. Len(w) - 1 : Tail(w)[i] = w[i + 1]
    BY <1>1
  <1>3. CASE Len(w) = 1
    <2>1. Tail(w) = <<>>
      BY <1>2, <1>3
    <2>2. w[1].part \in Ends
      BY <1>3 DEF Messages
    <2>3. (\E i \in DOMAIN w : w[i].part = "sequence") => w[1].part = "sequence"
      BY <1>1, <1>3
    <2>4. Messages(<<>>)
      BY DEF Messages
    <2> QED
      BY <1>1, <2>1, <2>2, <2>3, <2>4 DEF Before
  <1>4. CASE Len(w) # 1
    <2>1. Tail(w) # <<>> /\ 1 \in 1 .. Len(w) - 1 /\ Len(w) - 1 \in 1 .. Len(w) - 1
      <3>1. Len(w) - 1 \in Nat \ {0}
        BY <1>1, <1>4
      <3>2. Tail(w) # <<>>
        BY <1>2, <3>1
      <3>3. 1 \in 1 .. Len(w) - 1 /\ Len(w) - 1 \in 1 .. Len(w) - 1
        BY <3>1
      <3> QED
        BY <3>2, <3>3
    <2>2. FollowedBy(w[1].part, Tail(w)[1].part)
      <3>1. FollowedBy(w[1].part, w[1 + 1].part)
        BY <2>1 DEF Messages
      <3> QED
        BY <1>2, <2>1, <3>1
    <2>3. \A i \in 1 .. Len(Tail(w)) - 1 : FollowedBy(Tail(w)[i].part, Tail(w)[i + 1].part)
      <3> TAKE i \in 1 .. Len(Tail(w)) - 1
      <3>1. i \in 1 .. Len(w) - 1 /\ i + 1 \in 1 .. Len(w) - 1
        BY <1>1, <1>2
      <3>2. FollowedBy(w[i + 1].part, w[(i + 1) + 1].part)
        BY <3>1 DEF Messages
      <3> QED
        BY <1>2, <3>1, <3>2
    <2>4. Tail(w)[Len(Tail(w))].part \in Ends
      <3>1. Tail(w)[Len(Tail(w))] = w[Len(w)]
        <4>1. (Len(w) - 1) + 1 = Len(w)
          BY <1>1
        <4> QED
          BY <1>2, <2>1, <4>1
      <3> QED
        BY <3>1, <1>1 DEF Messages
    <2>5. (\E i \in DOMAIN w : w[i].part = "sequence") /\ w[1].part # "sequence"
            => \E i \in DOMAIN Tail(w) : Tail(w)[i].part = "sequence"
      <3> SUFFICES ASSUME NEW i \in DOMAIN w, w[i].part = "sequence", w[1].part # "sequence"
                   PROVE  \E k \in DOMAIN Tail(w) : Tail(w)[k].part = "sequence"
        OBVIOUS
      <3>1. i - 1 \in 1 .. Len(w) - 1 /\ (i - 1) + 1 = i
        BY <1>1
      <3>2. Tail(w)[i - 1] = w[i]
        BY <1>2, <3>1
      <3> QED
        BY <1>2, <3>1, <3>2
    <2>6. Messages(Tail(w))
      BY <1>2, <2>3, <2>4 DEF Messages
    <2> QED
      BY <1>1, <2>1, <2>2, <2>5, <2>6 DEF Before
  <1> QED
    BY <1>3, <1>4

LEMMA ThreeAppended ==
  ASSUME NEW S, NEW w \in Seq(S), NEW a \in S, NEW b \in S, NEW c \in S
  PROVE  /\ w \o <<a, b, c>> \in Seq(S) /\ Len(w \o <<a, b, c>>) = Len(w) + 3
         /\ DOMAIN (w \o <<a, b, c>>) = 1 .. Len(w) + 3
         /\ \A i \in 1 .. Len(w) : (w \o <<a, b, c>>)[i] = w[i]
         /\ (w \o <<a, b, c>>)[Len(w) + 1] = a /\ (w \o <<a, b, c>>)[Len(w) + 2] = b
         /\ (w \o <<a, b, c>>)[Len(w) + 3] = c
         /\ <<a, b, c>>[1] = a /\ <<a, b, c>>[2] = b /\ <<a, b, c>>[3] = c
  <1>1. /\ <<a, b, c>> \in Seq(S) /\ Len(<<a, b, c>>) = 3 /\ Len(w) \in Nat
        /\ <<a, b, c>>[1] = a /\ <<a, b, c>>[2] = b /\ <<a, b, c>>[3] = c
    OBVIOUS
  <1>2. /\ w \o <<a, b, c>> \in Seq(S) /\ Len(w \o <<a, b, c>>) = Len(w) + 3
        /\ \A i \in 1 .. Len(w) + 3 :
             (w \o <<a, b, c>>)[i] = IF i <= Len(w) THEN w[i] ELSE <<a, b, c>>[i - Len(w)]
    BY <1>1
  <1>3. /\ Len(w) + 1 \in 1 .. Len(w) + 3 /\ Len(w) + 2 \in 1 .. Len(w) + 3
        /\ Len(w) + 3 \in 1 .. Len(w) + 3
        /\ (Len(w) + 1) - Len(w) = 1 /\ (Len(w) + 2) - Len(w) = 2 /\ (Len(w) + 3) - Len(w) = 3
        /\ ~ (Len(w) + 1 <= Len(w)) /\ ~ (Len(w) + 2 <= Len(w)) /\ ~ (Len(w) + 3 <= Len(w))
    BY <1>1
  <1>4. DOMAIN (w \o <<a, b, c>>) = 1 .. Len(w) + 3
    BY <1>2
  <1>5. \A i \in 1 .. Len(w) : (w \o <<a, b, c>>)[i] = w[i]
    BY <1>1, <1>2
  <1> QED
    BY <1>1, <1>2, <1>3, <1>4, <1>5

\* What is appended to the wire is a message of its own.
LEMMA SendingInOrder ==
  ASSUME NEW w, Messages(w)
  PROVE  /\ Messages(w \o Hashblock)
         /\ w \o Hashblock # <<>>
         /\ w = <<>> => (w \o Hashblock)[1].part = "hashblock"
         /\ w # <<>> => (w \o Hashblock)[1] = w[1]
         /\ \E i \in DOMAIN (w \o Hashblock) : (w \o Hashblock)[i].part = "sequence"
  <1>1. /\ w \in Seq(Frames) /\ Len(w) \in Nat
        /\ Frame("hashblock", TRUE) \in Frames /\ Frame("hash", TRUE) \in Frames
        /\ Frame("sequence", FALSE) \in Frames
        /\ Hashblock[1].part = "hashblock" /\ Hashblock[2].part = "hash"
        /\ Hashblock[3].part = "sequence"
    <2>1. /\ Frame("hashblock", TRUE) \in Frames /\ Frame("hash", TRUE) \in Frames
          /\ Frame("sequence", FALSE) \in Frames
      BY DEF Frame, Frames, Parts, Begins, Ends, Longer
    <2>2. /\ Hashblock[1].part = "hashblock" /\ Hashblock[2].part = "hash"
          /\ Hashblock[3].part = "sequence"
      BY DEF Hashblock, Frame
    <2>3. w \in Seq(Frames)
      BY DEF Messages
    <2>4. Len(w) \in Nat
      BY <2>3
    <2> QED
      BY <2>1, <2>2, <2>3, <2>4
  <1>2. /\ w \o Hashblock \in Seq(Frames) /\ Len(w \o Hashblock) = Len(w) + 3
        /\ DOMAIN (w \o Hashblock) = 1 .. Len(w) + 3
        /\ \A i \in 1 .. Len(w) : (w \o Hashblock)[i] = w[i]
        /\ (w \o Hashblock)[Len(w) + 1] = Hashblock[1]
        /\ (w \o Hashblock)[Len(w) + 2] = Hashblock[2]
        /\ (w \o Hashblock)[Len(w) + 3] = Hashblock[3]
    <2> DEFINE a == Frame("hashblock", TRUE)
               b == Frame("hash", TRUE)
               c == Frame("sequence", FALSE)
    <2>1. a \in Frames /\ b \in Frames /\ c \in Frames
      BY <1>1
    <2>2. Hashblock = <<a, b, c>>
      BY DEF Hashblock
    <2> HIDE DEF a, b, c
    <2>3. /\ w \o <<a, b, c>> \in Seq(Frames) /\ Len(w \o <<a, b, c>>) = Len(w) + 3
          /\ DOMAIN (w \o <<a, b, c>>) = 1 .. Len(w) + 3
          /\ \A i \in 1 .. Len(w) : (w \o <<a, b, c>>)[i] = w[i]
          /\ (w \o <<a, b, c>>)[Len(w) + 1] = <<a, b, c>>[1]
          /\ (w \o <<a, b, c>>)[Len(w) + 2] = <<a, b, c>>[2]
          /\ (w \o <<a, b, c>>)[Len(w) + 3] = <<a, b, c>>[3]
      BY <1>1, <2>1, ThreeAppended
    <2> QED
      BY <2>2, <2>3
  <1>3. ASSUME NEW i \in 1 .. Len(w \o Hashblock) - 1
        PROVE  FollowedBy((w \o Hashblock)[i].part, (w \o Hashblock)[i + 1].part)
    <2>1. i \in Nat /\ 1 <= i /\ i <= Len(w) + 2
      BY <1>1, <1>2
    <2>2. CASE i <= Len(w) - 1
      <3>1. i \in 1 .. Len(w) - 1 /\ i \in 1 .. Len(w) /\ i + 1 \in 1 .. Len(w)
        BY <1>1, <2>1, <2>2
      <3>2. FollowedBy(w[i].part, w[i + 1].part)
        BY <3>1 DEF Messages
      <3> QED
        BY <1>2, <3>1, <3>2
    <2>3. CASE i = Len(w)
      <3>1. w # <<>> /\ i \in 1 .. Len(w)
        BY <1>1, <2>1, <2>3
      <3>2. w[i].part \in Ends
        BY <2>3, <3>1 DEF Messages
      <3> QED
        BY <1>1, <1>2, <2>3, <3>1, <3>2 DEF FollowedBy, Begins
    <2>4. CASE i = Len(w) + 1
      <3>1. i + 1 = Len(w) + 2
        BY <1>1, <2>4
      <3> QED
        BY <1>1, <1>2, <2>4, <3>1 DEF FollowedBy
    <2>5. CASE i = Len(w) + 2
      <3>1. i + 1 = Len(w) + 3
        BY <1>1, <2>5
      <3> QED
        BY <1>1, <1>2, <2>5, <3>1 DEF FollowedBy
    <2> QED
      BY <1>1, <2>1, <2>2, <2>3, <2>4, <2>5
  <1>4. Messages(w \o Hashblock)
    <2>1. (w \o Hashblock)[Len(w \o Hashblock)].part \in Ends
      BY <1>1, <1>2 DEF Ends
    <2> QED
      BY <1>2, <1>3, <2>1 DEF Messages
  <1>5. CASE w = <<>>
    BY <1>1, <1>2, <1>4, <1>5, Len(<<>>) = 0
  <1>6. CASE w # <<>>
    BY <1>1, <1>2, <1>4, <1>6
  <1>7. Len(w) + 3 \in DOMAIN (w \o Hashblock)
    BY <1>1, <1>2
  <1> QED
    BY <1>1, <1>2, <1>4, <1>5, <1>6, <1>7

-----------------------------------------------------------------------------
(* The subscriber's steps keep the invariant. *)

LEMMA EmptyWire == Messages(<<>>) /\ ~ \E i \in DOMAIN <<>> : <<>>[i].part = "sequence"
  BY DEF Messages

LEMMA NothingBegun ==
  ASSUME NEW w, w = <<>> \/ w[1].part \in Begins
  PROVE  Begun(<<>>) /\ Continues(<<>>, w)
  <1>1. <<>> \in Seq(Parts) /\ Len(<<>>) = 0
    OBVIOUS
  <1> QED
    BY <1>1 DEF Begun, Continues

\* A step of the subscriber that changes neither the wire nor what is missed.
LEMMA HeardKept ==
  ASSUME Heard, UNCHANGED <<missed, lag, announced, tip, wire, notified, pc, seen>>
  PROVE  Heard'
  BY DEF Heard, Underway, Unread

LEMMA FailureKeeps ==
  ASSUME FeedInv, SessionFails, notified' = notified, KeepsSource, outage <= ConnectTimeout
  PROVE  FeedInv'
  <1>1. /\ phase' = "waiting" /\ timer' = ReconnectDelay(attempt)
        /\ attempt' = Min({attempt + 1, Len(Backoff)})
        /\ wire' = <<>> /\ frames' = <<>> /\ missed' = (missed \/ Unread)
        /\ UNCHANGED <<blocks, whole, outage>>
    BY DEF SessionFails
  <1>2. UNCHANGED <<up, tip, pc, seen, announced, lag>>
    BY DEF KeepsSource, nodeVars, loopVars, clockVars
  <1>3. attempt \in 0 .. Len(Backoff) /\ outage \in Nat
    BY DEF FeedInv, FeedTypes
  <1>4. /\ timer' \in Nat /\ timer' <= LongestBackoff /\ attempt' \in 0 .. Len(Backoff)
    BY <1>1, <1>3, ReconnectBounded
  <1>5. StatusAgrees'
    BY FailureDisconnects DEF FeedInv
  <1>6. FeedTypes'
    <2>1. missed' \in BOOLEAN
      BY <1>1
    <2> QED
      BY <1>1, <1>3, <1>4, <2>1 DEF FeedTypes
  <1>7. WireInOrder'
    BY <1>1, EmptyWire, NothingBegun DEF FeedInv, WireInOrder
  <1>8. OutageFits'
    <2>1. outage' + timer' <= ConnectTimeout + LongestBackoff
      BY <1>1, <1>3, <1>4, BackoffBounded
    <2>2. ~up' \/ Subscribed' => outage' = 0
      BY <1>1, <1>2 DEF Subscribed, FeedInv, OutageFits
    <2> QED
      BY <1>1, <2>1, <2>2 DEF OutageFits
  <1>9. Heard'
    <2> SUFFICES ASSUME ~missed' PROVE lag' = 0 /\ (announced' # tip' => Underway')
      BY DEF Heard
    <2>1. ~missed /\ ~Unread
      BY <1>1
    <2> QED
      BY <1>2, <2>1 DEF FeedInv, Heard, Underway
  <1> QED
    BY <1>5, <1>6, <1>7, <1>8, <1>9 DEF FeedInv

LEMMA OneAppended ==
  ASSUME NEW S, NEW s \in Seq(S), NEW e \in S
  PROVE  /\ Len(s) \in Nat /\ Append(s, e) \in Seq(S) /\ Len(Append(s, e)) = Len(s) + 1
         /\ Len(s) = 0 => Append(s, e)[1] = e
         /\ Len(s) # 0 => Append(s, e)[1] = s[1]
  OBVIOUS

\* What a frame adds to the message, and to the count.
LEMMA FrameCounted ==
  ASSUME NEW f \in Frames, NEW read, NEW w, NEW rest, w # <<>>, w[1] = f,
         Begun(read), Continues(read, w), f.part # "oversized", Before(f.part, rest)
  PROVE  LET message == Append(read, f.part)
             more    == f.command \/ f.more
             left    == IF f.command THEN read ELSE IF f.more THEN message ELSE <<>>
         IN  /\ Begun(left) /\ Continues(left, rest)
             /\ (~more /\ Counts(message)) <=> f.part = "sequence"
  <1> DEFINE message == Append(read, f.part)
             more    == f.command \/ f.more
             left    == IF f.command THEN read ELSE IF f.more THEN message ELSE <<>>
  <1>1. /\ f.part \in Parts
        /\ f.more \in BOOLEAN /\ f.command \in BOOLEAN
        /\ (f.more <=> f.part \in Longer) /\ (f.command <=> f.part = "command")
    BY DEF Frames
  <1>2. /\ read \in Seq(Parts)
        /\ \/ Len(read) = 0
           \/ Len(read) = 1 /\ read[1] \in {"hashblock", "other topic"}
           \/ Len(read) = 2 /\ read[1] = "hashblock"
    BY DEF Begun
  <1>3. f.part \in Parts
    BY <1>1
  <1>4. /\ message \in Seq(Parts)
        /\ Len(read) \in Nat /\ Len(message) = Len(read) + 1
        /\ Len(read) = 0 => message[1] = f.part
        /\ Len(read) # 0 => message[1] = read[1]
    BY <1>2, <1>3, OneAppended
  <1> HIDE DEF message
  <1>5. CASE f.part \in {"hashblock", "other topic"}
    <2>1. Len(read) = 0 /\ f.more /\ ~f.command
      BY <1>1, <1>2, <1>5 DEF Continues, Longer, Begins
    <2>2. rest # <<>> /\ FollowedBy(f.part, rest[1].part)
      BY <1>5 DEF Ends, Before
    <2>3. Len(message) = 1 /\ message[1] = f.part /\ message \in Seq(Parts)
      BY <1>1, <1>4, <2>1
    <2>4. Begun(message)
      BY <1>5, <2>3 DEF Begun
    <2>5. Continues(message, rest)
      <3>1. Len(message) # 0 /\ Len(message) # 2
        BY <2>3
      <3> QED
        BY <1>5, <2>2, <2>3, <3>1 DEF Continues, FollowedBy, Ends
    <2> QED
      BY <1>5, <2>1, <2>4, <2>5 DEF message
  <1>6. CASE f.part = "hash"
    <2>1. Len(read) = 1 /\ read[1] = "hashblock" /\ f.more /\ ~f.command
      BY <1>1, <1>2, <1>6 DEF Continues, Longer, Begins
    <2>2. rest # <<>> /\ rest[1].part = "sequence"
      BY <1>6 DEF Ends, FollowedBy, Before
    <2>3. Len(message) = 2 /\ message[1] = "hashblock" /\ message \in Seq(Parts)
      BY <1>1, <1>4, <2>1
    <2>4. Begun(message) /\ Continues(message, rest)
      <3>1. Len(message) # 0 /\ Len(message) # 1
        BY <2>3
      <3> QED
        BY <2>2, <2>3, <3>1 DEF Begun, Continues
    <2> QED
      BY <1>6, <2>1, <2>4 DEF message
  <1>7. CASE f.part \in {"sequence", "body"}
    <2>1. /\ Len(read) # 0
          /\ read[1] = IF f.part = "sequence" THEN "hashblock" ELSE "other topic"
          /\ ~f.more /\ ~f.command
      BY <1>1, <1>2, <1>7 DEF Continues, Longer, Begins
    <2>2. rest = <<>> \/ rest[1].part \in Begins
      BY <1>7 DEF FollowedBy, Before
    <2>3. message[1] = read[1]
      BY <1>4, <2>1
    <2>4. Counts(message) <=> f.part = "sequence"
      BY <1>7, <2>1, <2>3 DEF Counts
    <2> QED
      BY <2>1, <2>2, <2>4, NothingBegun DEF message
  <1>8. CASE f.part = "command"
    <2>1. Len(read) = 0 /\ ~f.more /\ f.command
      BY <1>1, <1>2, <1>8 DEF Continues, Longer
    <2>2. rest = <<>> \/ rest[1].part \in Begins
      BY <1>8 DEF FollowedBy, Before
    <2>3. Continues(read, rest)
      BY <2>1, <2>2 DEF Continues
    <2> QED
      BY <1>8, <2>1, <2>3
  <1> QED
    BY <1>1, <1>5, <1>6, <1>7, <1>8 DEF Parts, Begins, Ends, Longer

LEMMA ReadKeeps == ASSUME FeedInv, ReadFrame PROVE FeedInv'
  <1>1. phase = "streaming" /\ wire # <<>> /\ KeepsSource /\ Subscribed
    BY DEF ReadFrame, Subscribed
  <1>2. CASE Head(wire).part = "oversized"
    <2>1. SessionFails /\ notified' = notified
      BY <1>2 DEF ReadFrame
    <2>2. outage <= ConnectTimeout
      BY <1>1, BackoffBounded DEF FeedInv, OutageFits
    <2> QED
      BY <1>1, <2>1, <2>2, FailureKeeps
  <1>3. CASE Head(wire).part # "oversized"
    <2> DEFINE frame   == Head(wire)
               message == Append(frames, frame.part)
               more    == frame.command \/ frame.more
               left    == IF frame.command THEN frames ELSE IF frame.more THEN message ELSE <<>>
    <2>1. /\ wire' = Tail(wire) /\ frames' = left
          /\ IF ~more /\ Counts(message)
             THEN blocks' = blocks + 1 /\ notified' = TRUE
             ELSE UNCHANGED <<blocks, notified>>
          /\ whole' = IF frame.part = "sequence" THEN whole + 1 ELSE whole
          /\ UNCHANGED <<phase, timer, attempt, zmqUp, missed, outage>>
      BY <1>3 DEF ReadFrame, AfterMessage
    <2>2. UNCHANGED <<up, tip, pc, seen, announced, lag>>
      BY <1>1 DEF KeepsSource, nodeVars, loopVars, clockVars
    <2>3. /\ Messages(wire) /\ Continues(frames, wire) /\ blocks = whole
          /\ Begun(frames)
      BY <1>1 DEF FeedInv, WireInOrder
    <2>4. /\ frame = wire[1] /\ frame \in Frames /\ Messages(Tail(wire))
          /\ Before(frame.part, Tail(wire))
          /\ Unread /\ frame.part # "sequence"
                => \E i \in DOMAIN Tail(wire) : Tail(wire)[i].part = "sequence"
      BY <1>1, <2>3, ReadingInOrder DEF Unread
    <2>5. /\ Begun(left) /\ Continues(left, Tail(wire))
          /\ (~more /\ Counts(message)) <=> frame.part = "sequence"
      <3> HIDE DEF frame
      <3> QED
        BY <1>1, <1>3, <2>3, <2>4, FrameCounted DEF frame
    <2>6. WireInOrder'
      <3>1. blocks' = whole'
        BY <2>1, <2>3, <2>5
      <3>2. Begun(frames') /\ Continues(frames', wire')
        BY <2>1, <2>5
      <3>3. phase' = "streaming" /\ Subscribed'
        BY <1>1, <2>1 DEF Subscribed
      <3>4. Messages(wire')
        BY <2>1, <2>4
      <3> QED
        BY <3>1, <3>2, <3>3, <3>4 DEF WireInOrder
    <2>7. Heard'
      <3>1. CASE frame.part = "sequence"
        <4>1. notified'
          BY <2>1, <2>5, <3>1
        <4> QED
          BY <2>1, <2>2, <4>1 DEF FeedInv, Heard, Underway
      <3>2. CASE frame.part # "sequence"
        <4>1. notified' = notified
          BY <2>1, <2>5, <3>2
        <4>2. Unread => Unread'
          BY <2>1, <2>4, <3>2 DEF Unread
        <4> QED
          BY <2>1, <2>2, <4>1, <4>2 DEF FeedInv, Heard, Underway
      <3> QED
        BY <3>1, <3>2
    <2>8. StatusAgrees' /\ FeedTypes' /\ OutageFits'
      BY <2>1, <2>2 DEF FeedInv, StatusAgrees, FeedTypes, OutageFits, Subscribed
    <2> QED
      BY <2>6, <2>7, <2>8 DEF FeedInv
  <1> QED
    BY <1>2, <1>3

LEMMA ConnectKeeps == ASSUME FeedInv, Connect PROVE FeedInv'
  <1>1. /\ phase = "connecting" /\ phase' = "streaming" /\ zmqUp' = TRUE /\ outage' = 0
        /\ UNCHANGED <<timer, attempt, wire, frames, blocks, whole, missed, notified>>
        /\ UNCHANGED <<up, tip, pc, seen, announced, lag>>
    BY DEF Connect, KeepsSource, nodeVars, loopVars, clockVars
  <1>2. wire = <<>> /\ frames = <<>>
    BY <1>1 DEF FeedInv, WireInOrder, Subscribed
  <1>3. WireInOrder'
    BY <1>1, <1>2, EmptyWire, NothingBegun DEF FeedInv, WireInOrder, Subscribed
  <1>4. StatusAgrees' /\ FeedTypes' /\ OutageFits'
    BY <1>1 DEF FeedInv, StatusAgrees, FeedTypes, OutageFits, Subscribed
  <1>5. Heard'
    BY <1>1, HeardKept DEF FeedInv
  <1> QED
    BY <1>3, <1>4, <1>5 DEF FeedInv

LEMMA AttemptKeeps == ASSUME FeedInv, ConnectHangs \/ Retry PROVE FeedInv'
  <1>1. /\ UNCHANGED <<attempt, wire, frames, blocks, whole, missed, outage, zmqUp, notified>>
        /\ UNCHANGED <<up, tip, pc, seen, announced, lag>>
        /\ phase \in {"connecting", "waiting"} /\ phase' \in {"hanging", "connecting"}
    BY DEF ConnectHangs, Retry, KeepsSource, historyVars, nodeVars, loopVars, clockVars
  <1>2. WireInOrder'
    BY <1>1 DEF FeedInv, WireInOrder, Subscribed
  <1>3. Heard'
    BY <1>1, HeardKept DEF FeedInv
  <1>4. CASE ConnectHangs
    <2>1. ~up /\ phase' = "hanging" /\ timer' = ConnectTimeout
      BY <1>4 DEF ConnectHangs
    <2>2. outage' = 0 /\ timer' \in Nat /\ ConnectTimeout \in Nat
      BY <1>1, <2>1, BackoffBounded DEF FeedInv, OutageFits
    <2>3. StatusAgrees' /\ FeedTypes'
      BY <1>1, <2>1, <2>2 DEF FeedInv, StatusAgrees, FeedTypes, Subscribed
    <2>4. OutageFits'
      BY <2>1, <2>2 DEF OutageFits, Subscribed
    <2> QED
      BY <1>2, <1>3, <2>3, <2>4 DEF FeedInv
  <1>5. CASE Retry
    <2>1. phase = "waiting" /\ timer = 0 /\ phase' = "connecting" /\ timer' = timer
      BY <1>5 DEF Retry
    <2>2. StatusAgrees' /\ FeedTypes'
      BY <1>1, <2>1 DEF FeedInv, StatusAgrees, FeedTypes, Subscribed
    <2>3. outage + 0 <= ConnectTimeout + LongestBackoff /\ outage \in Nat
      BY <2>1 DEF FeedInv, FeedTypes, OutageFits
    <2>4. OutageFits'
      BY <1>1, <2>1, <2>3, BackoffBounded DEF FeedInv, OutageFits, Subscribed
    <2> QED
      BY <1>2, <1>3, <2>2, <2>4 DEF FeedInv
  <1> QED
    BY <1>4, <1>5

LEMMA SubscriberKeeps == ASSUME FeedInv, Subscriber PROVE FeedInv'
  <1>1. CASE Connect \/ ConnectHangs \/ Retry \/ ReadFrame
    BY <1>1, ConnectKeeps, AttemptKeeps, ReadKeeps
  <1>2. CASE ConnectRefused \/ ConnectTimesOut \/ ConnectionEnds
    <2>1. SessionFails /\ notified' = notified /\ KeepsSource
      BY <1>2 DEF ConnectRefused, ConnectTimesOut, ConnectionEnds
    <2>2. outage <= ConnectTimeout
      <3>1. outage \in Nat /\ timer \in Nat /\ ConnectTimeout \in Nat
        BY BackoffBounded DEF FeedInv, FeedTypes
      <3>2. outage = 0 \/ outage + timer <= ConnectTimeout
        BY <1>2 DEF ConnectRefused, ConnectTimesOut, ConnectionEnds, FeedInv, OutageFits, Subscribed
      <3> QED
        BY <3>1, <3>2
    <2> QED
      BY <2>1, <2>2, FailureKeeps
  <1> QED
    BY <1>1, <1>2 DEF Subscriber

-----------------------------------------------------------------------------
(* The other steps keep it. *)

\* The polling loop hears of a tip it has been notified of, or a call has failed.
LEMMA LoopKeeps == ASSUME FeedInv, SourceInv, LoopStep PROVE FeedInv'
  <1>1. /\ Loop /\ UNCHANGED <<phase, timer, attempt, wire, frames, blocks, whole, outage>>
        /\ missed' = (missed \/ (pc # "wait" /\ pc' = "wait" /\ health' = "failing"))
    BY DEF LoopStep, sessionVars
  <1>2. UNCHANGED <<up, tip, zmqUp>>
    BY <1>1 DEF Loop, TipAnswered, TemplateAnswered, CallFailed, WakeByTimer, WakeByTag,
                WakeByZmq, StartPass, signalVars
  <1>3. StatusAgrees' /\ FeedTypes' /\ OutageFits'
    <2>1. missed' \in BOOLEAN
      BY <1>1
    <2> QED
      BY <1>1, <1>2, <2>1 DEF FeedInv, StatusAgrees, FeedTypes, OutageFits, Subscribed
  <1>4. WireInOrder'
    BY <1>1 DEF FeedInv, WireInOrder, Subscribed
  <1>5. Heard'
    <2> SUFFICES ASSUME ~missed' PROVE lag' = 0 /\ (announced' # tip' => Underway')
      BY DEF Heard
    <2>1. ~missed /\ ~(pc # "wait" /\ pc' = "wait" /\ health' = "failing")
      BY <1>1
    <2>2. lag = 0 /\ (announced # tip => Underway)
      BY <2>1 DEF FeedInv, Heard
    <2>3. Unread' <=> Unread
      BY <1>1 DEF Unread
    <2>4. CASE TipAnswered
      <3>1. UNCHANGED <<announced, lag, notified>> /\ pc = "ask_tip"
        BY <2>4 DEF TipAnswered, signalVars
      <3>2. CASE announced = tip
        BY <1>2, <2>2, <3>1, <3>2
      <3>3. CASE announced # tip
        <4>1. FetchDue(tip, tag)
          BY <3>3 DEF FetchDue, TipChanged, SourceInv, TipsInOrder
        <4>2. pc' = "ask_template" /\ seen' = [tip |-> tip, tag |-> tag]
          BY <2>4, <4>1 DEF TipAnswered
        <4> QED
          BY <1>2, <2>2, <3>1, <4>2 DEF Underway
      <3> QED
        BY <3>2, <3>3
    <2>5. CASE TemplateAnswered
      <3>1. /\ pc = "ask_template" /\ UNCHANGED <<notified>> /\ lag' \in {0, lag}
            /\ announced' = IF TipChanged(seen.tip) THEN seen.tip ELSE announced
        BY <2>5 DEF TemplateAnswered, signalVars
      <3>2. announced' = seen.tip
        BY <3>1 DEF TipChanged, SourceInv, TipsInOrder
      <3>3. CASE seen.tip = tip
        BY <1>2, <2>2, <3>1, <3>2, <3>3
      <3>4. CASE seen.tip # tip
        <4>1. announced <= seen.tip /\ seen.tip <= tip /\ announced \in Nat /\ tip \in Nat
              /\ seen.tip \in Nat
          <5>1. /\ announced = lastTip /\ lastTip <= lastPrev /\ lastPrev <= seen.tip
                /\ seen.tip <= tip
            BY <3>1 DEF SourceInv, TipsInOrder
          <5>2. announced \in Nat /\ lastTip \in Nat /\ lastPrev \in Nat /\ seen.tip \in Nat
                /\ tip \in Nat
            BY DelayTypes DEF SourceInv, TypeOK, Tips
          <5> QED
            BY <5>1, <5>2
        <4>2. announced # tip
          BY <3>4, <4>1
        <4>3. Unread \/ notified
          BY <2>2, <3>1, <3>4, <4>2 DEF Underway
        <4> QED
          BY <2>2, <2>3, <3>1, <4>3 DEF Underway
      <3> QED
        BY <3>3, <3>4
    <2>6. CASE CallFailed
      BY <2>1, <2>6 DEF CallFailed, EndPass
    <2>7. CASE WakeByTimer \/ WakeByTag \/ WakeByZmq
      <3>1. pc' = "ask_tip" /\ lag' = lag
        BY <2>7 DEF WakeByTimer, WakeByTag, WakeByZmq, StartPass
      <3> QED
        BY <2>2, <3>1 DEF Underway
    <2> QED
      BY <1>1, <2>4, <2>5, <2>6, <2>7 DEF Loop
  <1> QED
    BY <1>3, <1>4, <1>5 DEF FeedInv

\* A block of which the subscriber is told is missed by nobody yet.
LEMMA PublishKeeps == ASSUME FeedInv, PublishBlock PROVE FeedInv'
  <1>1. /\ wire' = IF phase = "streaming" THEN wire \o Hashblock ELSE wire
        /\ missed' = (phase # "streaming")
        /\ UNCHANGED <<phase, timer, attempt, frames, blocks, whole, outage, up, zmqUp>>
        /\ lag' = 0
    BY DEF PublishBlock, MineBlock, signalVars
  <1>2. StatusAgrees' /\ FeedTypes' /\ OutageFits'
    <2>1. missed' \in BOOLEAN
      BY <1>1
    <2> QED
      BY <1>1, <2>1 DEF FeedInv, StatusAgrees, FeedTypes, OutageFits, Subscribed
  <1>3. CASE phase = "streaming"
    <2>1. Messages(wire) /\ Begun(frames) /\ Continues(frames, wire)
      BY <1>3 DEF FeedInv, WireInOrder
    <2>2. /\ Messages(wire') /\ wire' # <<>>
          /\ wire = <<>> => wire'[1].part = "hashblock"
          /\ wire # <<>> => wire'[1] = wire[1]
          /\ \E i \in DOMAIN wire' : wire'[i].part = "sequence"
      BY <1>1, <1>3, <2>1, SendingInOrder
    <2>3. Continues(frames, wire')
      BY <2>1, <2>2 DEF Continues, Begins
    <2>4. WireInOrder'
      BY <1>1, <1>3, <2>1, <2>2, <2>3 DEF FeedInv, WireInOrder, Subscribed
    <2>5. Unread'
      BY <2>2 DEF Unread
    <2> QED
      BY <1>1, <1>2, <2>4, <2>5 DEF FeedInv, Heard, Underway
  <1>4. CASE phase # "streaming"
    <2>1. WireInOrder'
      BY <1>1, <1>4 DEF FeedInv, WireInOrder, Subscribed
    <2> QED
      BY <1>1, <1>2, <1>4, <2>1 DEF FeedInv, Heard
  <1> QED
    BY <1>3, <1>4

LEMMA OneFrame ==
  ASSUME NEW a \in Frames, a.part \in Ends
  PROVE  Messages(<<a>>) /\ <<a>> # <<>> /\ <<a>>[1] = a
  <1>1. <<a>> \in Seq(Frames) /\ Len(<<a>>) = 1 /\ <<a>> # <<>> /\ <<a>>[1] = a
    OBVIOUS
  <1>2. \A i \in 1 .. Len(<<a>>) - 1 : FALSE
    BY <1>1
  <1> QED
    BY <1>1, <1>2 DEF Messages

LEMMA TwoFrames ==
  ASSUME NEW a \in Frames, NEW b \in Frames, FollowedBy(a.part, b.part), b.part \in Ends
  PROVE  Messages(<<a, b>>) /\ <<a, b>> # <<>> /\ <<a, b>>[1] = a
  <1>1. /\ <<a, b>> \in Seq(Frames) /\ Len(<<a, b>>) = 2 /\ <<a, b>> # <<>>
        /\ <<a, b>>[1] = a /\ <<a, b>>[2] = b
    OBVIOUS
  <1>2. \A i \in 1 .. Len(<<a, b>>) - 1 : i = 1
    BY <1>1
  <1>3. FollowedBy(<<a, b>>[1].part, <<a, b>>[1 + 1].part)
    BY <1>1
  <1> QED
    BY <1>1, <1>2, <1>3 DEF Messages

LEMMA OtherMessages ==
  ASSUME NEW w \in {Other, Command, Oversized}
  PROVE  Messages(w) /\ w # <<>> /\ w[1].part \in Begins
  <1> DEFINE topic == Frame("other topic", TRUE)
             body  == Frame("body", FALSE)
             ping  == [Frame("command", FALSE) EXCEPT !.command = TRUE]
             large == Frame("oversized", FALSE)
  <1>1. /\ topic \in Frames /\ body \in Frames /\ ping \in Frames /\ large \in Frames
        /\ FollowedBy(topic.part, body.part) /\ body.part \in Ends
        /\ ping.part \in Ends /\ large.part \in Ends
        /\ topic.part \in Begins /\ ping.part \in Begins /\ large.part \in Begins
    BY DEF Frame, Frames, FollowedBy, Parts, Begins, Ends, Longer
  <1>2. Other = <<topic, body>> /\ Command = <<ping>> /\ Oversized = <<large>>
    BY DEF Other, Command, Oversized
  <1> HIDE DEF topic, body, ping, large
  <1>3. Messages(<<topic, body>>) /\ <<topic, body>> # <<>> /\ <<topic, body>>[1] = topic
    BY <1>1, TwoFrames
  <1>4. Messages(<<ping>>) /\ <<ping>> # <<>> /\ <<ping>>[1] = ping
    BY <1>1, OneFrame
  <1>5. Messages(<<large>>) /\ <<large>> # <<>> /\ <<large>>[1] = large
    BY <1>1, OneFrame
  <1> QED
    BY <1>1, <1>2, <1>3, <1>4, <1>5

LEMMA PeerKeeps == ASSUME FeedInv, PublishOther \/ PeerVanishes PROVE FeedInv'
  <1>1. /\ phase = "streaming" /\ UNCHANGED vars
        /\ UNCHANGED <<timer, attempt, frames, blocks, whole, outage>>
    BY DEF PublishOther, PeerVanishes, historyVars
  <1>2. UNCHANGED <<up, tip, zmqUp, notified, pc, seen, announced, lag>>
    BY <1>1 DEF vars, nodeVars, signalVars, loopVars, clockVars
  <1>3. CASE PublishOther
    <2>1. /\ phase' = phase /\ missed' = missed /\ wire = <<>>
          /\ wire' \in {Other, Command, Oversized}
      BY <1>3 DEF PublishOther, historyVars
    <2>2. Messages(wire') /\ wire' # <<>> /\ wire'[1].part \in Begins
      BY <2>1, OtherMessages
    <2>3. Len(frames) = 0 /\ Begun(frames)
      BY <1>1, <2>1 DEF FeedInv, WireInOrder, Begun, Continues
    <2>4. Continues(frames, wire')
      BY <2>2, <2>3 DEF Continues
    <2>5. WireInOrder'
      BY <1>1, <2>1, <2>2, <2>3, <2>4 DEF FeedInv, WireInOrder, Subscribed
    <2>6. ~Unread
      BY <2>1, EmptyWire DEF Unread
    <2>7. Heard'
      BY <1>2, <2>1, <2>6 DEF FeedInv, Heard, Underway
    <2>8. StatusAgrees' /\ FeedTypes' /\ OutageFits'
      BY <1>1, <1>2, <2>1 DEF FeedInv, StatusAgrees, FeedTypes, OutageFits, Subscribed
    <2> QED
      BY <2>5, <2>7, <2>8 DEF FeedInv
  <1>4. CASE PeerVanishes
    <2>1. phase' = "vanished" /\ wire' = <<>> /\ missed' = (missed \/ Unread)
      BY <1>4 DEF PeerVanishes
    <2>2. WireInOrder'
      BY <1>1, <2>1, EmptyWire DEF FeedInv, WireInOrder, Subscribed
    <2>3. Heard'
      <3> SUFFICES ASSUME ~missed' PROVE lag' = 0 /\ (announced' # tip' => Underway')
        BY DEF Heard
      <3>1. ~missed /\ ~Unread
        BY <2>1
      <3> QED
        BY <1>2, <3>1 DEF FeedInv, Heard, Underway
    <2>4. missed' \in BOOLEAN
      BY <2>1
    <2>5. StatusAgrees' /\ FeedTypes' /\ OutageFits'
      BY <1>1, <1>2, <2>1, <2>4 DEF FeedInv, StatusAgrees, FeedTypes, OutageFits, Subscribed
    <2> QED
      BY <2>2, <2>3, <2>5 DEF FeedInv
  <1> QED
    BY <1>3, <1>4

LEMMA NodeChangesKeeps == ASSUME FeedInv, NodeChanges PROVE FeedInv'
  <1>1. /\ outage' = 0 /\ lag' \in {0, lag}
        /\ UNCHANGED <<phase, timer, attempt, wire, frames, blocks, whole, missed>>
        /\ UNCHANGED <<tip, zmqUp, notified, pc, seen, announced>>
    BY DEF NodeChanges, NodeDown, NodeUp, sessionVars, signalVars, loopVars, clockVars
  <1>2. WireInOrder'
    BY <1>1 DEF FeedInv, WireInOrder, Subscribed
  <1>3. Heard'
    BY <1>1 DEF FeedInv, Heard, Underway, Unread
  <1>4. StatusAgrees' /\ FeedTypes'
    BY <1>1 DEF FeedInv, StatusAgrees, FeedTypes, Subscribed
  <1>5. OutageFits'
    <2>1. timer \in Nat /\ outage \in Nat /\ LongestBackoff \in Nat /\ ConnectTimeout \in Nat
      BY BackoffBounded DEF FeedInv, FeedTypes
    <2> QED
      BY <1>1, <2>1 DEF FeedInv, OutageFits, Subscribed
  <1> QED
    BY <1>2, <1>3, <1>4, <1>5 DEF FeedInv

LEMMA TagKeeps == ASSUME FeedInv, TagChanges PROVE FeedInv'
  <1>1. /\ UNCHANGED <<phase, timer, attempt, wire, frames, blocks, whole, missed, outage>>
        /\ UNCHANGED <<up, tip, zmqUp, notified, pc, seen, announced, lag>>
    BY DEF TagChanges, SetTag, sessionVars, historyVars, nodeVars, loopVars, clockVars
  <1> QED
    BY <1>1 DEF FeedInv, StatusAgrees, FeedTypes, WireInOrder, OutageFits, Heard, Underway,
                Unread, Subscribed

\* Time passes for a session that waits, and for a tip nobody has announced, only when its
\* notification is lost.
LEMMA FeedTickKeeps == ASSUME FeedInv, SourceInv, FeedTick PROVE FeedInv'
  <1>1. /\ UNCHANGED <<phase, attempt, wire, frames, blocks, whole, missed>>
        /\ UNCHANGED <<up, tip, zmqUp, notified, pc, seen, announced>>
        /\ wire = <<>> /\ Tick
        /\ phase = "connecting" => ~up
        /\ phase \in {"hanging", "waiting"} => timer > 0
        /\ timer' = IF phase \in {"hanging", "waiting"} THEN timer - 1 ELSE timer
        /\ outage' = IF up /\ ~Subscribed /\ phase # "absent" THEN outage + 1 ELSE 0
    BY DEF FeedTick, Tick, nodeVars, signalVars, loopVars
  <1>2. /\ timer \in Nat /\ outage \in Nat /\ LongestBackoff \in Nat /\ ConnectTimeout \in Nat
        /\ timer' \in Nat /\ outage' \in Nat
    <2>1. timer \in Nat /\ outage \in Nat /\ LongestBackoff \in Nat /\ ConnectTimeout \in Nat
      BY BackoffBounded DEF FeedInv, FeedTypes
    <2> QED
      BY <1>1, <2>1
  <1>3. StatusAgrees' /\ FeedTypes'
    BY <1>1, <1>2 DEF FeedInv, StatusAgrees, FeedTypes, Subscribed
  <1>4. WireInOrder'
    BY <1>1 DEF FeedInv, WireInOrder, Subscribed
  <1>5. OutageFits'
    <2>1. CASE up /\ ~Subscribed /\ phase # "absent"
      <3>1. phase \in {"hanging", "waiting"} /\ timer > 0 /\ timer' = timer - 1
            /\ outage' = outage + 1
        BY <1>1, <2>1 DEF FeedInv, FeedTypes, Subscribed
      <3>2. outage' + timer' = outage + timer
        BY <1>2, <3>1
      <3> QED
        BY <1>1, <2>1, <3>1, <3>2 DEF FeedInv, OutageFits, Subscribed
    <2>2. CASE ~(up /\ ~Subscribed /\ phase # "absent")
      <3>1. outage' = 0
        BY <1>1, <2>2
      <3>2. phase' \in {"hanging", "waiting"} => timer' <= outage + timer
        BY <1>1, <1>2
      <3>3. phase' = "hanging" => outage' + timer' <= ConnectTimeout
        BY <1>1, <1>2, <3>1, <3>2 DEF FeedInv, OutageFits
      <3>4. phase' = "waiting" => outage' + timer' <= ConnectTimeout + LongestBackoff
        BY <1>1, <1>2, <3>1, <3>2 DEF FeedInv, OutageFits
      <3>5. outage' <= ConnectTimeout + LongestBackoff
        BY <1>2, <3>1
      <3> QED
        BY <3>1, <3>3, <3>4, <3>5 DEF OutageFits
    <2> QED
      BY <2>1, <2>2
  <1>6. Heard'
    <2> SUFFICES ASSUME ~missed' PROVE lag' = 0 /\ (announced' # tip' => Underway')
      BY DEF Heard
    <2>1. lag = 0 /\ (announced # tip => Underway)
      BY <1>1 DEF FeedInv, Heard
    <2>2. ~Unread /\ (Underway => Underway')
      BY <1>1, EmptyWire DEF Unread, Underway
    <2>3. lag' = lag
      <3>1. CASE up
        <4>1. pc = "wait" /\ ~notified
          BY <1>1, <3>1 DEF Tick
        <4>2. announced = tip
          BY <2>1, <2>2, <4>1 DEF Underway
        <4> QED
          BY <1>1, <4>2 DEF Tick
      <3>2. CASE ~up
        BY <1>1, <3>2 DEF Tick
      <3> QED
        BY <3>1, <3>2
    <2> QED
      BY <1>1, <2>1, <2>2, <2>3
  <1> QED
    BY <1>3, <1>4, <1>5, <1>6 DEF FeedInv

LEMMA InitFeed == NodeFeedInit => FeedInv
  <1> SUFFICES ASSUME NodeFeedInit PROVE FeedInv
    OBVIOUS
  <1>1. /\ phase \in {"absent", "connecting"} /\ timer = 0 /\ attempt = 0 /\ wire = <<>>
        /\ frames = <<>> /\ blocks = 0 /\ whole = 0 /\ missed = TRUE /\ outage = 0
        /\ zmqUp = FALSE
    BY DEF NodeFeedInit, Init
  <1>2. StatusAgrees /\ Heard
    BY <1>1 DEF StatusAgrees, Subscribed, Heard
  <1>3. WireInOrder
    BY <1>1, EmptyWire, NothingBegun DEF WireInOrder
  <1>4. FeedTypes
    <2>1. 0 \in 0 .. Len(Backoff)
      BY BackoffBounded
    <2> QED
      BY <1>1, <2>1 DEF FeedTypes
  <1>5. OutageFits
    BY <1>1, BackoffBounded DEF OutageFits
  <1> QED
    BY <1>2, <1>3, <1>4, <1>5 DEF FeedInv

LEMMA NextFeed == FeedInv /\ SourceInv /\ [NodeFeedNext]_bothVars => FeedInv'
  <1> SUFFICES ASSUME FeedInv, SourceInv, [NodeFeedNext]_bothVars PROVE FeedInv'
    OBVIOUS
  <1>1. CASE NodeFeedNext
    BY <1>1, SubscriberKeeps, LoopKeeps, PublishKeeps, PeerKeeps, NodeChangesKeeps, TagKeeps,
       FeedTickKeeps DEF NodeFeedNext
  <1>2. CASE UNCHANGED bothVars
    BY <1>2 DEF bothVars, subscriberVars, sessionVars, historyVars, vars, nodeVars, signalVars,
                loopVars, clockVars, FeedInv, StatusAgrees, FeedTypes, WireInOrder, OutageFits,
                Heard, Underway, Unread, Subscribed
  <1> QED
    BY <1>1, <1>2

-----------------------------------------------------------------------------
(* The theorems about the subscription. *)

\* The inductive invariant of the subscription holds beside that of the loop.
THEOREM FeedInvariant == NodeFeedSpec => []FeedInv
  <1>1. NodeFeedSpec => []SourceInv
    BY NodeFeedImplementsSource, SourceInvariant, PTL
  <1> QED
    BY <1>1, InitFeed, NextFeed, PTL DEF NodeFeedSpec

\* The subscription that zmq.rs reports is the one it has, each hashblock message read to its
\* end is counted once whatever stands around it, and a node that stays up is subscribed to
\* again within CONNECT_TIMEOUT and the longest BACKOFF.
THEOREM SubscriptionKeptUp == NodeFeedSpec => []SubscriptionWorks
  <1>1. FeedInv => SubscriptionWorks
    <2> SUFFICES ASSUME FeedInv PROVE SubscriptionWorks
      OBVIOUS
    <2>1. SubscriptionAgrees
      BY DEF FeedInv, StatusAgrees, WireInOrder, SubscriptionAgrees
    <2>2. ResubscribesInTime
      <3>1. /\ outage \in Nat /\ timer \in Nat /\ LongestBackoff \in Nat /\ ConnectTimeout \in Nat
            /\ phase \in {"absent", "connecting", "hanging", "streaming", "vanished", "waiting"}
        BY BackoffBounded DEF FeedInv, FeedTypes
      <3> QED
        BY <3>1 DEF FeedInv, OutageFits, ResubscribesInTime, Subscribed
    <2> QED
      BY <2>1, <2>2 DEF SubscriptionWorks
  <1> QED
    BY <1>1, FeedInvariant, PTL

\* A tip is announced at once when its notification arrives and the node answers the calls it
\* starts, and within the longest sleep when the notification is lost.
THEOREM TipsAnnounced == NodeFeedSpec => []TipsArriveInTime
  <1>1. NodeFeedSpec => []TipLagBounded
    BY NodeFeedImplementsSource, TipsInTime, PTL
  <1>2. FeedInv /\ TipLagBounded => TipsArriveInTime
    BY DEF FeedInv, Heard, TipsArriveInTime
  <1> QED
    BY <1>1, <1>2, FeedInvariant, PTL

\* No template outlives its node's last answer by more than StaleBound, whatever the
\* subscription does.
THEOREM NodeFeedNeverStale == NodeFeedSpec => []StalenessBounded
  BY NodeFeedImplementsSource, NeverStale, PTL
=============================================================================
