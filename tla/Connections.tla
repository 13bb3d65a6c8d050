---------------------------- MODULE Connections ----------------------------
(***************************************************************************)
(* What a connection passes on, and what becomes of it: the connection     *)
(* tasks of the stratum server (crates/alamo-stratum/src/server.rs), the   *)
(* events channel to the publisher, which keeps the workers' live sessions *)
(* (crates/alamo/src/pool.rs, stats.rs), the blocks channel to the         *)
(* submitter, and the operator's command to remove a worker, which the API *)
(* checks against the last published snapshot (crates/alamo-web).          *)
(*                                                                         *)
(* A connection handles one request at a time, and its effects in order:   *)
(* it writes the responses, tries to send the events one by one, then      *)
(* sends the blocks one by one.  A failed write ends the connection on the *)
(* spot, and a write lasts for as long as the miner does not read.  What a *)
(* request is about is reduced to its effects: an authorization, a share,  *)
(* which may solve a block of every chain, or a new difficulty.            *)
(***************************************************************************)
EXTENDS Naturals, Sequences, SequencesExt, FiniteSets

CONSTANTS Sessions,    \* connections the listener accepts
          Workers,     \* worker names
          Chains,      \* the chains of a job, in the order in which a share is tried on them
          EventCap,    \* capacity of the events channel (4096)
          BlockCap,    \* capacity of the blocks channel (64)
          CommandCap,  \* capacity of the commands channel (8)
          MaxRequests, \* bound on the requests of one connection
          MaxRemovals  \* bound on the operator's removals

ASSUME ConnectionsAssumption ==
  /\ EventCap \in Nat \ {0} /\ BlockCap \in Nat \ {0} /\ CommandCap \in Nat \ {0}
  /\ MaxRequests \in Nat /\ MaxRemovals \in Nat
  /\ Chains \subseteq Nat

VARIABLES
  at,        \* where each connection task is
  workers,   \* the workers each connection has authorized
  fx,        \* the effects a connection is applying
  requests,  \* how many requests each connection has handled
  events,    \* the events channel
  blocks,    \* the blocks channel
  sessions,  \* stats: each known worker's live sessions
  snapshot,  \* the snapshot the API reads: worker -> number of connections
  commands,  \* the commands channel
  removals,
  stopping,  \* shutdown has been requested
  listener, publisher, submitter, \* whether each of the three tasks runs
  found,     \* history: blocks that shares solved
  broken,    \* history: connections that ended on a failed write
  dropped,   \* history: connections an authorization of which found the channel full
  submitted, \* history: blocks the submitter took
  lostBlocks \* history: blocks dropped, by a failed write or by the shutdown

connVars == <<at, workers, fx, requests, found, broken>>
statVars == <<sessions, snapshot, commands, removals>>
taskVars == <<stopping, listener, publisher, submitter>>
vars == <<connVars, events, blocks, statVars, taskVars, dropped, submitted, lostBlocks>>

Block == [session : Sessions, request : 1..MaxRequests, chain : Chains]

Authorized(s, w) == [kind |-> "authorized", session |-> s, worker |-> w]
Share(s, w)      == [kind |-> "share", session |-> s, worker |-> w]
Changed(s)       == [kind |-> "difficulty", session |-> s]
Disconnected(s)  == [kind |-> "disconnected", session |-> s, workers |-> workers[s]]

NoEffects == [events |-> <<>>, blocks |-> {}]

Init ==
  /\ at = [s \in Sessions |-> "new"]
  /\ workers = [s \in Sessions |-> {}]
  /\ fx = [s \in Sessions |-> NoEffects]
  /\ requests = [s \in Sessions |-> 0]
  /\ events = <<>> /\ blocks = <<>>
  /\ sessions = <<>> /\ snapshot = <<>>
  /\ commands = <<>> /\ removals = 0
  /\ stopping = FALSE /\ listener = TRUE /\ publisher = TRUE /\ submitter = TRUE
  /\ found = {} /\ broken = {} /\ dropped = {} /\ submitted = {} /\ lostBlocks = {}

Known == DOMAIN sessions
Put(f, w, value) == [x \in DOMAIN f \union {w} |-> IF x = w THEN value ELSE f[x]]

----------------------------------------------------------------------------
(* The listener accepts connections until it sees the shutdown.            *)
Accept(s) ==
  /\ at[s] = "new" /\ listener
  /\ at' = [at EXCEPT ![s] = "select"]
  /\ UNCHANGED <<workers, fx, requests, found, broken, events, blocks, statVars, taskVars,
                 dropped, submitted, lostBlocks>>

(* The session has handled what the connection's loop woke up for.         *)
Handled(s, evs, blks) ==
  /\ at[s] = "select"
  /\ at' = [at EXCEPT ![s] = "writing"]
  /\ fx' = [fx EXCEPT ![s] = [events |-> evs, blocks |-> blks]]
  /\ found' = found \union blks
  /\ UNCHANGED <<broken, events, blocks, statVars, taskVars, dropped, submitted, lostBlocks>>

Counted(s) ==
  /\ requests[s] < MaxRequests
  /\ requests' = [requests EXCEPT ![s] = @ + 1]

(* The first authorization also sets the difficulty.                       *)
AuthorizeEvents(s, w) ==
  IF workers[s] = {} THEN <<Authorized(s, w), Changed(s)>> ELSE <<Authorized(s, w)>>

Authorize(s, w) ==
  /\ Counted(s)
  /\ workers' = [workers EXCEPT ![s] = @ \union {w}]
  /\ Handled(s, AuthorizeEvents(s, w), {})

(* A share solves the blocks of the chains whose targets it met, and may   *)
(* change the difficulty.                                                  *)
Solved(s, met) == {[session |-> s, request |-> requests[s] + 1, chain |-> c] : c \in met}

Submit(s, w) ==
  /\ w \in workers[s] /\ Counted(s) /\ UNCHANGED workers
  /\ \E met \in SUBSET Chains :
       \E evs \in {<<Share(s, w)>>, <<Share(s, w), Changed(s)>>} :
         Handled(s, evs, Solved(s, met))

(* New work, the vardiff tick, or a request that changes at most the       *)
(* difficulty: mining.suggest_difficulty does so at any time.              *)
Push(s) ==
  /\ UNCHANGED <<requests, workers>>
  /\ \E evs \in {<<>>, <<Changed(s)>>} : Handled(s, evs, {})

(* The messages are written and flushed.                                   *)
Written(s) ==
  /\ at[s] = "writing"
  /\ at' = [at EXCEPT ![s] = "sending"]
  /\ UNCHANGED <<workers, fx, requests, found, broken, events, blocks, statVars, taskVars,
                 dropped, submitted, lostBlocks>>

(* The write fails and the task returns: no event, no block, and no        *)
(* Disconnected either.                                                    *)
WriteFails(s) ==
  /\ at[s] = "writing"
  /\ at' = [at EXCEPT ![s] = "gone"]
  /\ broken' = broken \union {s}
  /\ lostBlocks' = lostBlocks \union fx[s].blocks
  /\ fx' = [fx EXCEPT ![s] = NoEffects]
  /\ UNCHANGED <<workers, requests, found, events, blocks, statVars, taskVars, dropped, submitted>>

(* try_send: an event that finds the channel full, or the publisher gone,  *)
(* is dropped; the next one may find room again.                           *)
TakesEvents == publisher /\ Len(events) < EventCap

TrySend(s) ==
  /\ at[s] = "sending" /\ fx[s].events # <<>>
  /\ LET e == Head(fx[s].events) IN
       \/ TakesEvents /\ events' = Append(events, e) /\ dropped' = dropped
       \/ /\ ~ TakesEvents /\ events' = events
          /\ dropped' = IF e.kind = "authorized" THEN dropped \union {s} ELSE dropped
  /\ fx' = [fx EXCEPT ![s].events = Tail(@)]
  /\ UNCHANGED <<at, workers, requests, found, broken, blocks, statVars, taskVars,
                 submitted, lostBlocks>>

(* send: a block waits for room, and is lost only when the submitter is    *)
(* gone.  The parent's block is sent first, then those of the aux chains.  *)
RoomForBlock == Len(blocks) < BlockCap
DropsWhenFull(b) == ~ submitter \/ ~ RoomForBlock
Drops(b) == ~ submitter

SendBlock(s) ==
  /\ at[s] = "sending" /\ fx[s].events = <<>>
  /\ \E b \in fx[s].blocks :
       /\ \A c \in fx[s].blocks : b.chain <= c.chain
       /\ \/ Drops(b) /\ lostBlocks' = lostBlocks \union {b} /\ blocks' = blocks
          \/ ~ Drops(b) /\ RoomForBlock /\ blocks' = Append(blocks, b) /\ lostBlocks' = lostBlocks
       /\ fx' = [fx EXCEPT ![s].blocks = @ \ {b}]
  /\ UNCHANGED <<at, workers, requests, found, broken, events, statVars, taskVars,
                 dropped, submitted>>

Applied(s) ==
  /\ at[s] = "sending" /\ fx[s] = NoEffects
  /\ at' = [at EXCEPT ![s] = "select"]
  /\ UNCHANGED <<workers, fx, requests, found, broken, events, blocks, statVars, taskVars,
                 dropped, submitted, lostBlocks>>

(* The miner hangs up or sends what cannot be read, or shutdown is         *)
(* requested: the loop ends.                                               *)
Leave(s) ==
  /\ at[s] = "select"
  /\ at' = [at EXCEPT ![s] = "leaving"]
  /\ UNCHANGED <<workers, fx, requests, found, broken, events, blocks, statVars, taskVars,
                 dropped, submitted, lostBlocks>>

(* Disconnected waits for room in the channel; it is not sent when the     *)
(* publisher is gone.                                                      *)
SendDisconnectedAlways(s) ==
  /\ at[s] = "leaving"
  /\ Len(events) < EventCap /\ events' = Append(events, Disconnected(s))
  /\ at' = [at EXCEPT ![s] = "gone"]
  /\ UNCHANGED <<workers, fx, requests, found, broken, blocks, statVars, taskVars,
                 dropped, submitted, lostBlocks>>

SendDisconnected(s) ==
  /\ at[s] = "leaving"
  /\ \/ publisher /\ Len(events) < EventCap /\ events' = Append(events, Disconnected(s))
     \/ ~ publisher /\ events' = events
  /\ at' = [at EXCEPT ![s] = "gone"]
  /\ UNCHANGED <<workers, fx, requests, found, broken, blocks, statVars, taskVars,
                 dropped, submitted, lostBlocks>>

(* What a connection does by itself, whatever its miner does.              *)
Connection(s) == TrySend(s) \/ SendBlock(s) \/ Applied(s) \/ SendDisconnected(s)

----------------------------------------------------------------------------
(* Stats::apply.  The difficulty shown for a worker is left out.           *)
After(e) ==
  CASE e.kind = "authorized" ->
         Put(sessions, e.worker,
             (IF e.worker \in Known THEN sessions[e.worker] ELSE {}) \union {e.session})
    [] e.kind = "share" ->
         IF e.worker \in Known THEN sessions ELSE Put(sessions, e.worker, {})
    [] e.kind = "disconnected" ->
         [w \in Known |-> IF w \in e.workers THEN sessions[w] \ {e.session} ELSE sessions[w]]
    [] e.kind = "difficulty" -> sessions

ApplyEvent ==
  /\ publisher /\ events # <<>>
  /\ sessions' = After(Head(events))
  /\ events' = Tail(events)
  /\ UNCHANGED <<connVars, blocks, snapshot, commands, removals, taskVars,
                 dropped, submitted, lostBlocks>>

Shown(known) == [w \in DOMAIN known |-> Cardinality(known[w])]

Publish ==
  /\ publisher /\ snapshot # Shown(sessions)
  /\ snapshot' = Shown(sessions)
  /\ UNCHANGED <<connVars, events, blocks, sessions, commands, removals, taskVars,
                 dropped, submitted, lostBlocks>>

(* DELETE /api/workers/{name}: refused unless the last snapshot shows the  *)
(* worker without connections, and when the channel is full.               *)
RequestRemoval(w) ==
  /\ removals < MaxRemovals
  /\ w \in DOMAIN snapshot /\ snapshot[w] = 0
  /\ Len(commands) < CommandCap
  /\ commands' = Append(commands, w)
  /\ removals' = removals + 1
  /\ UNCHANGED <<connVars, events, blocks, sessions, snapshot, taskVars,
                 dropped, submitted, lostBlocks>>

Without(f, w) == [x \in DOMAIN f \ {w} |-> f[x]]

(* The publisher checks again: a session may have arrived since.  The      *)
(* store may fail to remove the row; the worker then stays.                *)
Connected(w) == w \in Known /\ sessions[w] # {}
ShownConnected(w) == w \in DOMAIN snapshot /\ snapshot[w] > 0

RefusesRemoval(w) == Connected(w)

RemoveWorker ==
  /\ publisher /\ commands # <<>>
  /\ commands' = Tail(commands)
  /\ LET w == Head(commands) IN
       \/ RefusesRemoval(w) /\ UNCHANGED <<sessions, snapshot>>
       \/ /\ ~ RefusesRemoval(w)
          /\ sessions' \in {Without(sessions, w), sessions}
          /\ snapshot' = Shown(sessions')
  /\ UNCHANGED <<connVars, events, blocks, removals, taskVars, dropped, submitted, lostBlocks>>

(* Shutdown: pending accounting is flushed, and the events still in the    *)
(* channel go with the receiver.                                           *)
PublisherStops ==
  /\ publisher /\ stopping
  /\ publisher' = FALSE
  /\ UNCHANGED <<connVars, events, blocks, statVars, stopping, listener, submitter,
                 dropped, submitted, lostBlocks>>

TakeBlock ==
  /\ submitter /\ blocks # <<>>
  /\ submitted' = submitted \union {Head(blocks)}
  /\ blocks' = Tail(blocks)
  /\ UNCHANGED <<connVars, events, statVars, taskVars, dropped, lostBlocks>>

SubmitterStops ==
  /\ submitter /\ stopping
  /\ submitter' = FALSE
  /\ lostBlocks' = lostBlocks \union ToSet(blocks)
  /\ blocks' = <<>>
  /\ UNCHANGED <<connVars, events, statVars, stopping, listener, publisher, dropped, submitted>>

ListenerStops ==
  /\ listener /\ stopping
  /\ listener' = FALSE
  /\ UNCHANGED <<connVars, events, blocks, statVars, stopping, publisher, submitter,
                 dropped, submitted, lostBlocks>>

RequestShutdown ==
  /\ ~ stopping /\ stopping' = TRUE
  /\ UNCHANGED <<connVars, events, blocks, statVars, listener, publisher, submitter,
                 dropped, submitted, lostBlocks>>

Next ==
  \/ \E s \in Sessions : Accept(s) \/ Push(s) \/ Connection(s) \/ Leave(s)
  \/ \E s \in Sessions : Written(s) \/ WriteFails(s)
  \/ \E s \in Sessions, w \in Workers : Authorize(s, w) \/ Submit(s, w)
  \/ ApplyEvent \/ Publish \/ RemoveWorker \/ PublisherStops
  \/ TakeBlock \/ SubmitterStops \/ ListenerStops \/ RequestShutdown
  \/ \E w \in Workers : RequestRemoval(w)

(* The runtime schedules every task that can run, and the submitter goes   *)
(* on taking blocks.  Nothing says that a write ends: it has no time-out,  *)
(* and a miner need not read.                                              *)
TasksRun == WF_vars(TakeBlock) /\ \A s \in Sessions : WF_vars(Connection(s))

(* select! polls its branches in random order, so that no task overlooks a *)
(* cancelled token for ever, however busy its other branches are.          *)
StopsAreSeen ==
  /\ WF_vars(ApplyEvent)
  /\ WF_vars(ListenerStops) /\ WF_vars(PublisherStops) /\ WF_vars(SubmitterStops)
  /\ \A s \in Sessions : SF_vars(stopping /\ Leave(s))

Spec     == Init /\ [][Next]_vars
LiveSpec == Spec /\ TasksRun /\ StopsAreSeen

----------------------------------------------------------------------------
Events ==
  [kind : {"authorized", "share"}, session : Sessions, worker : Workers]
    \union [kind : {"difficulty"}, session : Sessions]
    \union [kind : {"disconnected"}, session : Sessions, workers : SUBSET Workers]

\* Connections, channels and tables (server.rs, stats.rs) keep their types, and no channel ever
\* holds more than its capacity.
TypeOK ==
  /\ at \in [Sessions -> {"new", "select", "writing", "sending", "leaving", "gone"}]
  /\ workers \in [Sessions -> SUBSET Workers]
  /\ \A s \in Sessions : fx[s].events \in Seq(Events) /\ fx[s].blocks \subseteq Block
  /\ requests \in [Sessions -> 0..MaxRequests]
  /\ events \in Seq(Events) /\ Len(events) <= EventCap
  /\ blocks \in Seq(Block) /\ Len(blocks) <= BlockCap
  /\ Known \subseteq Workers /\ \A w \in Known : sessions[w] \subseteq Sessions
  /\ DOMAIN snapshot \subseteq Workers /\ \A w \in DOMAIN snapshot : snapshot[w] \in Nat
  /\ commands \in Seq(Workers) /\ Len(commands) <= CommandCap /\ removals \in 0..MaxRemovals
  /\ stopping \in BOOLEAN /\ listener \in BOOLEAN
  /\ publisher \in BOOLEAN /\ submitter \in BOOLEAN
  /\ found \subseteq Block /\ broken \subseteq Sessions /\ dropped \subseteq Sessions
  /\ submitted \subseteq Block /\ lostBlocks \subseteq Block

(* The publisher knows what happened to connection s up to the events it   *)
(* has not applied yet.                                                    *)
Pending(s) == \E i \in DOMAIN events : events[i].session = s

(* A connection that ended without a failed write is no worker's session   *)
(* any more, once its events are applied: not even after removals and      *)
(* other connections of the same worker.                                   *)
NoGhostSession == \A s \in Sessions \ broken :
  publisher /\ at[s] = "gone" /\ ~ Pending(s)
    => \A w \in Known : s \notin sessions[w]

(* Every worker a live connection has authorized is shown with that        *)
(* connection, once its events are applied, whatever the operator removes  *)
(* meanwhile; only an authorization dropped under backpressure can hide    *)
(* it.                                                                     *)
LiveSessionKnown == \A s \in Sessions \ dropped :
  publisher /\ at[s] = "select" /\ ~ Pending(s)
    => \A w \in workers[s] : w \in Known /\ s \in sessions[w]

(* The connections shown for a worker are those it has.                    *)
ShownAsConnected == NoGhostSession /\ LiveSessionKnown

(* Where a block can be once its connection has passed it on.              *)
Handed == ToSet(blocks) \union submitted \union lostBlocks
WithConnections == UNION {fx[s].blocks : s \in Sessions}

(* Every block that a share solved, of whatever chain, is in one place,    *)
(* and there once: with its connection, in the channel, with the           *)
(* submitter, or lost.  A full channel loses none: one is lost only when   *)
(* the write before it failed, or at shutdown.                             *)
BlocksAreHandedOn ==
  /\ found = WithConnections \union Handed
  /\ WithConnections \intersect Handed = {}
  /\ ToSet(blocks) \intersect submitted = {}
  /\ lostBlocks \intersect (submitted \union ToSet(blocks)) = {}
  /\ IsInjective(blocks)
  /\ \A b \in lostBlocks : stopping \/ b.session \in broken

(* A requested shutdown ends the three tasks and every connection,         *)
(* although connections wait on the channels those tasks read, except a    *)
(* connection whose miner never reads what is being written to it: that    *)
(* one stays in its write, and does nothing else any more.                 *)
ShutdownCompletes ==
  <>[](stopping => /\ ~ listener /\ ~ publisher /\ ~ submitter
                   /\ \A s \in Sessions : at[s] \in {"new", "writing", "gone"})
=============================================================================
