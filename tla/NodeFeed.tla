------------------------------ MODULE NodeFeed ------------------------------
(***************************************************************************)
(* What feeds the pool the work of one chain (crates/alamo/src/pool.rs,    *)
(* node_feed and spawn_feed): the polling loop of TemplateSource and, when *)
(* the node's endpoint is configured, the subscriber to its hashblock      *)
(* notifications (crates/alamo-coins/src/zmq.rs).  The two tasks share a   *)
(* watch channel: whether the subscription is up and how many blocks it    *)
(* has heard of.                                                           *)
(*                                                                         *)
(* A peer that closes the connection is noticed by the read in progress;   *)
(* one that vanishes is not, and the subscription counts as up for ever.   *)
(* The bytes of a frame are abstracted to what the session asks of them.   *)
(***************************************************************************)
EXTENDS TemplateSource, Sequences

CONSTANTS
  Backoff,          \* BACKOFF, in ticks
  ConnectTimeout,   \* CONNECT_TIMEOUT
  FirstTag,         \* bound: the tag the pool starts with (tags are interchangeable)
  MaxTagSets        \* bound: how often the tag setting changes

ASSUME FeedAssumption ==
  /\ Backoff \in Seq(Nat \ {0}) /\ Backoff # <<>>
  /\ ConnectTimeout \in Nat \ {0} /\ FirstTag \in Tags /\ MaxTagSets \in Nat

VARIABLES
  phase,     \* the session: absent, connecting, hanging (nobody answers), streaming,
             \* vanished (streaming, the peer gone unnoticed) or waiting to reconnect
  timer,     \* time left of the back-off or of the connection attempt
  attempt,   \* failures so far, counted up to the length of BACKOFF
  wire,      \* frames sent and not yet read
  frames,    \* the parts of the message being read
  blocks,    \* status.blocks
  tagSets,   \* how often the tag has changed
  whole,     \* history: hashblock messages read to their end
  missed,    \* history: the tip's notification was not read, or a call failed after it
  outage     \* history: how long the node has been up without a subscription to it

sessionVars == <<phase, timer, attempt, wire, frames, blocks>>
historyVars == <<whole, missed, outage>>
subscriberVars == <<sessionVars, tagSets, historyVars>>

Frame(part, more) == [part |-> part, more |-> more, command |-> FALSE]
Hashblock == <<Frame("hashblock", TRUE), Frame("hash", TRUE), Frame("sequence", FALSE)>>
Other     == <<Frame("other topic", TRUE), Frame("body", FALSE)>>
Command   == <<[Frame("command", FALSE) EXCEPT !.command = TRUE]>>
Oversized == <<Frame("oversized", FALSE)>>

\* A notification is on its way, at least its last frame.
Unread == \E i \in DOMAIN wire : wire[i].part = "sequence"

Subscribed == phase \in {"streaming", "vanished"}
LongestBackoff == Max({Backoff[i] : i \in DOMAIN Backoff})

NodeFeedInit ==
  /\ Init
  /\ tag = FirstTag
  /\ phase \in {"absent", "connecting"}
  /\ timer = 0 /\ attempt = 0 /\ wire = <<>> /\ frames = <<>> /\ blocks = 0
  /\ tagSets = 0
  /\ whole = 0 /\ missed = TRUE /\ outage = 0

-----------------------------------------------------------------------------
(* The subscriber. *)

GrowingDelay(n) == IF n < Len(Backoff) THEN Backoff[n + 1] ELSE n + LongestBackoff
ReconnectDelay(n) == Backoff[Min({n, Len(Backoff) - 1}) + 1]
Disconnected == FALSE

\* connect_loop after a session that failed: report it, and wait longer each time; nothing
\* ever resets the count.
SessionFails ==
  /\ phase' = "waiting"
  /\ timer' = ReconnectDelay(attempt)
  /\ attempt' = Min({attempt + 1, Len(Backoff)})
  /\ wire' = <<>> /\ frames' = <<>>
  /\ zmqUp' = Disconnected
  /\ missed' = (missed \/ Unread)
  /\ UNCHANGED <<blocks, whole, outage>>

\* What a subscriber's step leaves to the polling loop and its node.
KeepsSource == UNCHANGED <<nodeVars, tag, tagChanged, loopVars, clockVars, tagSets>>

\* The node accepts the connection and shakes hands.
Connect ==
  /\ phase = "connecting" /\ up
  /\ phase' = "streaming"
  /\ zmqUp' = TRUE
  /\ outage' = 0
  /\ UNCHANGED <<timer, attempt, wire, frames, blocks, whole, missed, notified>>
  /\ KeepsSource

ConnectRefused == phase = "connecting" /\ ~up /\ SessionFails /\ UNCHANGED notified /\ KeepsSource

\* Nobody answers, and the attempt goes on even when the node is back.
ConnectHangs ==
  /\ phase = "connecting" /\ ~up
  /\ phase' = "hanging" /\ timer' = ConnectTimeout
  /\ UNCHANGED <<attempt, wire, frames, blocks, historyVars, zmqUp, notified>>
  /\ KeepsSource

ConnectTimesOut ==
  phase = "hanging" /\ timer = 0 /\ SessionFails /\ UNCHANGED notified /\ KeepsSource

Retry ==
  /\ phase = "waiting" /\ timer = 0
  /\ phase' = "connecting"
  /\ UNCHANGED <<timer, attempt, wire, frames, blocks, historyVars, zmqUp, notified>>
  /\ KeepsSource

\* The message is complete: counted if it is a hashblock, and put away.
Counts(message) == message[1] = "hashblock"
LeftAfterOther(message) == IF message[1] = "hashblock" THEN <<>> ELSE message
AfterMessage(message) == <<>>

\* read_frame returned a frame of this connection: a command is skipped, a part kept until
\* the last one, and one that is too large ends the session.
ReadFrame ==
  /\ phase = "streaming" /\ wire # <<>>
  /\ LET frame   == Head(wire)
         message == Append(frames, frame.part)
         more    == frame.command \/ frame.more
     IN IF frame.part = "oversized"
        THEN SessionFails /\ UNCHANGED notified
        ELSE /\ wire' = Tail(wire)
             /\ frames' = IF frame.command THEN frames
                          ELSE IF frame.more THEN message ELSE AfterMessage(message)
             /\ IF ~more /\ Counts(message)
                THEN blocks' = blocks + 1 /\ notified' = TRUE
                ELSE UNCHANGED <<blocks, notified>>
             /\ whole' = IF frame.part = "sequence" THEN whole + 1 ELSE whole
             /\ UNCHANGED <<phase, timer, attempt, zmqUp, missed, outage>>
  /\ KeepsSource

\* The peer closes the connection, or breaks it.
ConnectionEnds == phase = "streaming" /\ SessionFails /\ UNCHANGED notified /\ KeepsSource

Subscriber ==
  \/ Connect \/ ConnectRefused \/ ConnectHangs \/ ConnectTimesOut \/ Retry
  \/ ReadFrame \/ ConnectionEnds

-----------------------------------------------------------------------------
(* The node's publisher, and the clock of both tasks. *)

\* A block arrives, and its notification goes to a subscriber that is there.
PublishBlock ==
  /\ MineBlock
  /\ wire' = IF phase = "streaming" THEN wire \o Hashblock ELSE wire
  /\ missed' = (phase # "streaming")
  /\ UNCHANGED <<phase, timer, attempt, frames, blocks, tagSets, whole, outage>>

PublishOther ==
  /\ phase = "streaming" /\ wire = <<>>
  /\ wire' \in {Other, Command, Oversized}
  /\ UNCHANGED <<phase, timer, attempt, frames, blocks, tagSets, historyVars, vars>>

\* The connection is gone without a word; what was on its way is lost with it.
PeerVanishes ==
  /\ phase = "streaming"
  /\ phase' = "vanished" /\ wire' = <<>>
  /\ missed' = (missed \/ Unread)
  /\ UNCHANGED <<timer, attempt, frames, blocks, tagSets, whole, outage, vars>>

\* The loop does not touch the subscriber.  A call that fails may be the one the
\* notification asked for.
LoopStep ==
  /\ Loop
  /\ missed' = (missed \/ (pc # "wait" /\ pc' = "wait" /\ health' = "failing"))
  /\ UNCHANGED <<sessionVars, tagSets, whole, outage>>

NodeChanges ==
  /\ NodeDown \/ NodeUp
  /\ outage' = 0
  /\ UNCHANGED <<sessionVars, tagSets, whole, missed>>

TagChanges ==
  /\ tagSets < MaxTagSets /\ tagSets' = tagSets + 1
  /\ SetTag
  /\ UNCHANGED <<sessionVars, historyVars>>

\* A node that is there shakes hands, and frames that are there are read, in no time.
FeedTick ==
  /\ Tick
  /\ phase = "connecting" => ~up
  /\ phase \in {"hanging", "waiting"} => timer > 0
  /\ wire = <<>>
  /\ timer' = IF phase \in {"hanging", "waiting"} THEN timer - 1 ELSE timer
  /\ outage' = IF up /\ ~Subscribed /\ phase # "absent" THEN outage + 1 ELSE 0
  /\ UNCHANGED <<phase, attempt, wire, frames, blocks, tagSets, whole, missed>>

NodeFeedNext ==
  \/ LoopStep \/ Subscriber
  \/ NodeChanges \/ TagChanges \/ PublishBlock \/ PublishOther \/ PeerVanishes \/ FeedTick

bothVars == <<vars, subscriberVars>>
NodeFeedSpec == NodeFeedInit /\ [][NodeFeedNext]_bothVars
FairSpecOfBoth ==
  /\ NodeFeedSpec
  /\ WF_bothVars(LoopStep) /\ SF_bothVars(FeedTick)
  /\ WF_bothVars(Connect \/ ConnectTimesOut \/ Retry) /\ WF_bothVars(ReadFrame)

-----------------------------------------------------------------------------
(* Properties. *)

\* The status the loop sleeps by is the session's (until a peer vanishes unnoticed), and
\* each hashblock message that arrives whole is counted once: none that broke off, and
\* none of another topic, before or after it.
SubscriptionAgrees ==
  /\ zmqUp <=> Subscribed
  /\ blocks = whole

\* A tip is announced at once when its notification arrives and the node answers, and
\* otherwise after the longest sleep, also when the subscription is dead and the loop does
\* not know.
TipsArriveInTime ==
  /\ TipLagBounded
  /\ ~missed => lag = 0

\* A node that stays up is subscribed to again within a connection attempt to its absence
\* and the longest back-off, however often the connection has failed before.
ResubscribesInTime == outage <= ConnectTimeout + LongestBackoff

\* The subscriber tells the loop the truth about itself and counts each block once, and a
\* node that stays up is never left without a subscription for long.
SubscriptionWorks == SubscriptionAgrees /\ ResubscribesInTime
=============================================================================
