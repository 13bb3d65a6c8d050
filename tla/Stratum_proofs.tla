-------------------------- MODULE Stratum_proofs --------------------------
(***************************************************************************)
(* Proofs about Connections and, in the second half, Vardiff.              *)
(*                                                                         *)
(* Of the former, for any connections, workers, channel capacities and     *)
(* bounds: what the publisher knows of the connections once it has read    *)
(* their events, and where a solved block can be.  That a shutdown         *)
(* completes is left to TLC.                                               *)
(*                                                                         *)
(* Of the latter, for any configurations, windows, caps and miners: the    *)
(* bounds of the difficulty, and that no retarget goes against the work a  *)
(* miner really did.  That a steady miner comes to rest is left to TLC.    *)
(***************************************************************************)
EXTENDS Connections, Vardiff, TLAPS, SequenceTheorems, FiniteSetTheorems, WellFoundedInduction

-----------------------------------------------------------------------------
(* The inductive invariant, in named parts. *)

Places == {"new", "select", "writing", "sending", "leaving", "gone"}

Shapes ==
  /\ at \in [Sessions -> Places]
  /\ workers \in [Sessions -> SUBSET Workers]
  /\ fx \in [Sessions -> [events : Seq(Events), blocks : SUBSET Block]]
  /\ requests \in [Sessions -> 0..MaxRequests]
  /\ events \in Seq(Events) /\ blocks \in Seq(Block)
  /\ Known \subseteq Workers /\ \A w \in Known : sessions[w] \subseteq Sessions
  /\ commands \in Seq(Workers)
  /\ stopping \in BOOLEAN /\ listener \in BOOLEAN
  /\ publisher \in BOOLEAN /\ submitter \in BOOLEAN
  /\ found \subseteq Block /\ broken \subseteq Sessions /\ submitted \subseteq Block /\ lostBlocks \subseteq Block

\* An event of connection s, not its last, that tells of no worker it has not authorized.
Tells(s, e) ==
  /\ e.session = s /\ e.kind # "disconnected"
  /\ e.kind # "difficulty" => e.worker \in workers[s]

\* A connection has effects left only while it applies them.
EffectsInOrder(s) ==
  /\ fx[s].events # <<>> => at[s] \in {"writing", "sending"}
  /\ fx[s].blocks # {} => at[s] \in {"writing", "sending"}
  /\ \A i \in 1 .. Len(fx[s].events) : Tells(s, fx[s].events[i])

\* A queued event of connection s tells of its workers, or is its last one and takes them back.
EventsInOrder(s) == \A i \in 1 .. Len(events) :
  events[i].session = s =>
    \/ Tells(s, events[i])
    \/ /\ events[i].kind = "disconnected" /\ events[i].workers = workers[s] /\ at[s] = "gone"
       /\ \A j \in (i + 1) .. Len(events) : events[j].session # s

\* The statistics attribute connection s to worker w: only ever to one it has authorized.
Attributed(s, w) == w \in Known /\ s \in sessions[w]
SessionsAreTrue(s) == \A w \in Workers : Attributed(s, w) => w \in workers[s]

\* The end of a connection is known, or on its way.
EndIsKnown(s) == publisher /\ s \notin broken /\ at[s] = "gone" =>
  \/ \E i \in 1 .. Len(events) : events[i].session = s /\ events[i].kind = "disconnected"
  \/ /\ \A i \in 1 .. Len(events) : events[i].session # s
     /\ \A w \in Workers : ~Attributed(s, w)

\* Each worker of a connection is known, or an event that tells of it is on its way.
Announces(e, s, w) == e.kind = "authorized" /\ e.session = s /\ e.worker = w
WorkersAreKnown(s) == publisher /\ s \notin dropped /\ at[s] # "gone" =>
  \A w \in workers[s] :
    \/ Attributed(s, w)
    \/ \E i \in 1 .. Len(events) : Announces(events[i], s, w)
    \/ \E i \in 1 .. Len(fx[s].events) : Announces(fx[s].events[i], s, w)

\* The blocks a connection still has are its own.
OwnBlocks(s) == \A b \in fx[s].blocks : b.session = s

\* Every solved block is of a request that was made, is in one place, and lost only by a failed
\* write or at shutdown.
BlocksInOnePlace ==
  /\ \A b \in found : b.request <= requests[b.session]
  /\ BlocksAreHandedOn
  /\ ~submitter => stopping

ConnectionsInv ==
  /\ Shapes
  /\ \A s \in Sessions : EffectsInOrder(s) /\ EventsInOrder(s) /\ SessionsAreTrue(s)
  /\ \A s \in Sessions : EndIsKnown(s) /\ WorkersAreKnown(s)
  /\ \A s \in Sessions : OwnBlocks(s)
  /\ BlocksInOnePlace
-----------------------------------------------------------------------------
(* Queues. *)

\* A send puts one element behind those that wait.
LEMMA Appended ==
  ASSUME NEW S, NEW q \in Seq(S), NEW e \in S
  PROVE  /\ Append(q, e) \in Seq(S) /\ Len(q) \in Nat /\ Len(Append(q, e)) = Len(q) + 1
         /\ \A i \in 1 .. Len(q) : Append(q, e)[i] = q[i]
         /\ Append(q, e)[Len(q) + 1] = e
         /\ ToSet(Append(q, e)) = ToSet(q) \union {e}
  <1>1. /\ Append(q, e) \in Seq(S) /\ Len(q) \in Nat /\ Len(Append(q, e)) = Len(q) + 1
        /\ \A i \in 1 .. Len(q) : Append(q, e)[i] = q[i]
        /\ Append(q, e)[Len(q) + 1] = e
    BY AppendProperties, LenProperties
  <1>2. DOMAIN q = 1 .. Len(q) /\ DOMAIN Append(q, e) = 1 .. Len(q) + 1
    BY <1>1, LenProperties
  <1>3. ToSet(Append(q, e)) = ToSet(q) \union {e}
    <2> DEFINE r == Append(q, e)
    <2>1. ASSUME NEW i \in 1 .. Len(q) + 1 PROVE r[i] \in ToSet(q) \union {e}
      <3>1. CASE i \in 1 .. Len(q)
        BY <1>1, <1>2, <3>1 DEF ToSet
      <3>2. CASE i = Len(q) + 1
        BY <1>1, <3>2
      <3> QED
        BY <1>1, <3>1, <3>2
    <2>2. ASSUME NEW i \in 1 .. Len(q) PROVE q[i] \in ToSet(r)
      <3>1. i \in 1 .. Len(q) + 1 /\ r[i] = q[i]
        BY <1>1
      <3> QED
        BY <1>2, <3>1 DEF ToSet
    <2>3. e \in ToSet(r)
      <3>1. Len(q) + 1 \in 1 .. Len(q) + 1 /\ r[Len(q) + 1] = e
        BY <1>1
      <3> QED
        BY <1>2, <3>1 DEF ToSet
    <2>4. ToSet(q) = {q[i] : i \in 1 .. Len(q)} /\ ToSet(r) = {r[i] : i \in 1 .. Len(q) + 1}
      BY <1>2 DEF ToSet
    <2> HIDE DEF r
    <2>5. ToSet(r) \subseteq ToSet(q) \union {e}
      BY <2>1, <2>4
    <2>6. ToSet(q) \union {e} \subseteq ToSet(r)
      BY <2>2, <2>3, <2>4
    <2> QED
      BY <2>5, <2>6 DEF r
  <1> QED
    BY <1>1, <1>3

\* A receive takes the first element.
LEMMA Taken ==
  ASSUME NEW S, NEW q \in Seq(S), q # <<>>
  PROVE  /\ Tail(q) \in Seq(S) /\ Len(q) \in Nat /\ Len(q) >= 1 /\ Len(Tail(q)) = Len(q) - 1
         /\ Head(q) = q[1] /\ Head(q) \in S
         /\ \A i \in 1 .. Len(Tail(q)) : Tail(q)[i] = q[i + 1]
         /\ ToSet(q) = ToSet(Tail(q)) \union {Head(q)}
  <1>1. /\ Tail(q) \in Seq(S) /\ Len(Tail(q)) = Len(q) - 1 /\ Head(q) \in S
        /\ \A i \in 1 .. Len(Tail(q)) : Tail(q)[i] = q[i + 1]
    BY HeadTailProperties
  <1>2. Len(q) \in Nat /\ Len(q) >= 1 /\ Head(q) = q[1]
    BY EmptySeq, LenProperties
  <1>3. DOMAIN q = 1 .. Len(q) /\ DOMAIN Tail(q) = 1 .. Len(q) - 1
    BY <1>1, LenProperties
  <1>4. ToSet(q) = ToSet(Tail(q)) \union {Head(q)}
    <2> DEFINE r == Tail(q)
    <2>1. ASSUME NEW i \in 1 .. Len(q) PROVE q[i] \in ToSet(r) \union {q[1]}
      <3>1. CASE i = 1
        BY <3>1
      <3>2. CASE i # 1
        <4>1. i - 1 \in 1 .. Len(q) - 1 /\ (i - 1) + 1 = i
          BY <1>2, <3>2
        <4>2. r[i - 1] = q[i]
          BY <1>1, <4>1
        <4> QED
          BY <1>3, <4>1, <4>2 DEF ToSet
      <3> QED
        BY <3>1, <3>2
    <2>2. ASSUME NEW i \in 1 .. Len(q) - 1 PROVE r[i] \in ToSet(q)
      <3>1. i + 1 \in 1 .. Len(q) /\ r[i] = q[i + 1]
        BY <1>1, <1>2
      <3> QED
        BY <1>3, <3>1 DEF ToSet
    <2>3. q[1] \in ToSet(q)
      BY <1>2, <1>3 DEF ToSet
    <2>4. ToSet(q) = {q[i] : i \in 1 .. Len(q)} /\ ToSet(r) = {r[i] : i \in 1 .. Len(q) - 1}
      BY <1>3 DEF ToSet
    <2> HIDE DEF r
    <2>5. ToSet(q) = ToSet(r) \union {q[1]}
      BY <2>1, <2>2, <2>3, <2>4
    <2> QED
      BY <1>2, <2>5 DEF r
  <1> QED
    BY <1>1, <1>2, <1>4

LEMMA NobodyWaits == ToSet(<<>>) = {} /\ Len(<<>>) = 0
  BY DEF ToSet

LEMMA Waiting ==
  ASSUME NEW S, NEW q \in Seq(S)
  PROVE  /\ Len(q) \in Nat /\ ToSet(q) \subseteq S
         /\ \A i \in 1 .. Len(q) : q[i] \in S /\ q[i] \in ToSet(q)
         /\ \A b \in ToSet(q) : \E i \in 1 .. Len(q) : q[i] = b
         /\ q # <<>> <=> Len(q) > 0
  <1>1. Len(q) \in Nat /\ DOMAIN q = 1 .. Len(q) /\ q \in [1 .. Len(q) -> S]
    BY LenProperties
  <1>2. q # <<>> <=> Len(q) > 0
    BY EmptySeq, <1>1
  <1> QED
    BY <1>1, <1>2 DEF ToSet

-----------------------------------------------------------------------------
(* Parts of the invariant. *)

EventPart(s) ==
  /\ EffectsInOrder(s) /\ EventsInOrder(s) /\ SessionsAreTrue(s)
  /\ EndIsKnown(s) /\ WorkersAreKnown(s)

BlockPart == (\A s \in Sessions : OwnBlocks(s)) /\ BlocksInOnePlace

LEMMA Parts ==
  /\ ConnectionsInv <=> Shapes /\ (\A s \in Sessions : EventPart(s)) /\ BlockPart
  /\ ConnectionsInv' <=> Shapes' /\ (\A s \in Sessions : EventPart(s)') /\ BlockPart'
  BY DEF ConnectionsInv, EventPart, BlockPart

\* What an event carries.
LEMMA EventFields ==
  /\ \A e \in Events :
       /\ e.session \in Sessions
       /\ e.kind \in {"authorized", "share", "difficulty", "disconnected"}
       /\ e.kind = "disconnected" => e.workers \subseteq Workers
       /\ e.kind \in {"authorized", "share"} => e.worker \in Workers
  /\ \A s \in Sessions, w \in Workers :
       Authorized(s, w) \in Events /\ Share(s, w) \in Events /\ Changed(s) \in Events
  BY DEF Events, Authorized, Share, Changed

\* What a block carries, and which blocks are with the connections.
LEMMA BlockFields ==
  /\ \A b \in Block : b.session \in Sessions /\ b.request \in Nat /\ b.chain \in Chains
  /\ \A b : b \in WithConnections <=> \E s \in Sessions : b \in fx[s].blocks
  /\ \A b : b \in WithConnections' <=> \E s \in Sessions : b \in fx'[s].blocks
  BY DEF Block, WithConnections

\* With blocks, requests and histories left alone, their part of the invariant stays.
LEMMA BlocksIdle ==
  ASSUME ConnectionsInv, \A s \in Sessions : fx'[s].blocks = fx[s].blocks,
         stopping => stopping', submitter' = submitter,
         UNCHANGED <<requests, found, blocks, submitted, lostBlocks, broken>>
  PROVE  BlockPart'
  <1>1. Handed' = Handed
    BY DEF Handed
  <1>2. WithConnections' = WithConnections
    BY BlockFields
  <1>3. BlocksInOnePlace'
    BY <1>1, <1>2 DEF ConnectionsInv, BlocksInOnePlace, BlocksAreHandedOn
  <1>4. \A s \in Sessions : OwnBlocks(s)'
    BY DEF ConnectionsInv, OwnBlocks
  <1> QED
    BY <1>3, <1>4 DEF BlockPart

\* With events, workers and statistics left alone, a connection that has not come to its end
\* and has no more effects than before keeps its part of the invariant.
LEMMA EventsIdle ==
  ASSUME ConnectionsInv, NEW s \in Sessions, EffectsInOrder(s)',
         at'[s] = "gone" <=> at[s] = "gone", workers'[s] = workers[s],
         fx'[s].events = fx[s].events, publisher' => publisher, broken \subseteq broken',
         dropped \subseteq dropped', UNCHANGED events,
         \A w \in Workers : Attributed(s, w)' <=> Attributed(s, w)
  PROVE  EventPart(s)'
  <1>1. EventPart(s) /\ workers[s] \subseteq Workers
    BY Parts DEF Shapes
  <1>2. EventsInOrder(s)'
    BY <1>1 DEF EventPart, EventsInOrder, Tells
  <1>3. SessionsAreTrue(s)'
    BY <1>1 DEF EventPart, SessionsAreTrue
  <1>4. EndIsKnown(s)'
    BY <1>1 DEF EventPart, EndIsKnown
  <1>5. WorkersAreKnown(s)'
    BY <1>1 DEF EventPart, WorkersAreKnown
  <1> QED
    BY <1>2, <1>3, <1>4, <1>5 DEF EventPart

\* So does a connection while others send their events.
LEMMA EventsGrow ==
  ASSUME ConnectionsInv, NEW s \in Sessions, EffectsInOrder(s)',
         Len(events') \in Nat, Len(events) \in Nat, Len(events) <= Len(events'),
         \A i \in 1 .. Len(events) : events'[i] = events[i],
         \A i \in (Len(events) + 1) .. Len(events') : events'[i].session # s,
         at'[s] = at[s], workers'[s] = workers[s], fx'[s].events = fx[s].events,
         UNCHANGED <<publisher, broken, dropped>>,
         \A w \in Workers : Attributed(s, w)' <=> Attributed(s, w)
  PROVE  EventPart(s)'
  <1>1. EventPart(s) /\ workers[s] \subseteq Workers
    BY Parts DEF Shapes
  <1>2. EventsInOrder(s)'
    <2> SUFFICES ASSUME NEW i \in 1 .. Len(events'), events'[i].session = s
                 PROVE  \/ Tells(s, events[i])'
                        \/ /\ events'[i].kind = "disconnected" /\ events'[i].workers = workers'[s]
                           /\ at'[s] = "gone"
                           /\ \A j \in (i + 1) .. Len(events') : events'[j].session # s
      BY DEF EventsInOrder
    <2>1. i \in 1 .. Len(events) /\ events'[i] = events[i]
      OBVIOUS
    <2>2. CASE Tells(s, events[i])
      BY <2>1, <2>2 DEF Tells
    <2>3. CASE /\ events[i].kind = "disconnected" /\ events[i].workers = workers[s] /\ at[s] = "gone"
               /\ \A j \in (i + 1) .. Len(events) : events[j].session # s
      BY <2>1, <2>3
    <2> QED
      BY <1>1, <2>1, <2>2, <2>3 DEF EventPart, EventsInOrder
  <1>3. SessionsAreTrue(s)'
    BY <1>1 DEF EventPart, SessionsAreTrue
  <1>4. EndIsKnown(s)'
    BY <1>1 DEF EventPart, EndIsKnown
  <1>5. WorkersAreKnown(s)'
    <2>1. \A i \in 1 .. Len(events) : i \in 1 .. Len(events')
      OBVIOUS
    <2> QED
      BY <1>1, <2>1 DEF EventPart, WorkersAreKnown
  <1> QED
    BY <1>2, <1>3, <1>4, <1>5 DEF EventPart

-----------------------------------------------------------------------------
(* The steps. *)

LEMMA InitConnections == Init => ConnectionsInv
  <1> SUFFICES ASSUME Init PROVE ConnectionsInv
    OBVIOUS
  <1>1. <<>> \in Seq(Events) /\ <<>> \in Seq(Block) /\ <<>> \in Seq(Workers) /\ DOMAIN <<>> = {}
    BY EmptySeq
  <1>2. NoEffects \in [events : Seq(Events), blocks : SUBSET Block]
    BY <1>1 DEF NoEffects
  <1>3. Known = {}
    BY <1>1 DEF Init, Known
  <1>4. Shapes
    <2>1. at \in [Sessions -> Places] /\ fx \in [Sessions -> [events : Seq(Events), blocks : SUBSET Block]]
      BY <1>2 DEF Init, Places
    <2>2. workers \in [Sessions -> SUBSET Workers] /\ requests \in [Sessions -> 0..MaxRequests]
      BY ConnectionsAssumption DEF Init
    <2>3. events \in Seq(Events) /\ blocks \in Seq(Block) /\ commands \in Seq(Workers)
      BY <1>1 DEF Init
    <2> QED
      BY <1>3, <2>1, <2>2, <2>3 DEF Init, Shapes
  <1>5. ASSUME NEW s \in Sessions PROVE EventPart(s) /\ OwnBlocks(s)
    <2>1. /\ fx[s].events = <<>> /\ fx[s].blocks = {} /\ events = <<>>
          /\ workers[s] = {} /\ at[s] = "new" /\ \A w \in Workers : ~Attributed(s, w)
      BY <1>3 DEF Init, NoEffects, Attributed
    <2> QED
      BY <2>1, NobodyWaits DEF EventPart, EffectsInOrder, EventsInOrder, SessionsAreTrue,
         EndIsKnown, WorkersAreKnown, OwnBlocks
  <1>6. BlocksInOnePlace
    <2>1. Handed = {} /\ ToSet(blocks) = {} /\ submitter
      BY NobodyWaits DEF Init, Handed
    <2>2. WithConnections = {}
      BY BlockFields DEF Init, NoEffects
    <2>3. IsInjective(blocks)
      BY <1>1 DEF Init, IsInjective
    <2> QED
      BY <2>1, <2>2, <2>3 DEF Init, BlocksInOnePlace, BlocksAreHandedOn
  <1> QED
    BY <1>4, <1>5, <1>6, Parts DEF BlockPart

\* A connection task goes from one point of its loop to the next.
LEMMA MoveKeeps ==
  ASSUME ConnectionsInv, NEW s \in Sessions, NEW place \in Places \ {"gone"}, at[s] # "gone",
         at' = [at EXCEPT ![s] = place],
         fx[s].events # <<>> => place \in {"writing", "sending"},
         fx[s].blocks # {} => place \in {"writing", "sending"},
         UNCHANGED <<workers, fx, requests, found, broken, events, blocks, statVars, taskVars,
                     dropped, submitted, lostBlocks>>
  PROVE  ConnectionsInv'
  <1>1. Shapes /\ \A u \in Sessions : EventPart(u)
    BY Parts
  <1>2. at'[s] = place /\ \A u \in Sessions \ {s} : at'[u] = at[u]
    BY <1>1 DEF Shapes
  <1>3. Shapes'
    BY <1>1 DEF Shapes, statVars, taskVars, Known
  <1>4. BlockPart'
    BY BlocksIdle DEF taskVars
  <1>5. ASSUME NEW u \in Sessions PROVE EventPart(u)'
    <2>1. EffectsInOrder(u)'
      BY <1>1, <1>2 DEF EventPart, EffectsInOrder, Tells
    <2>2. \A w \in Workers : Attributed(u, w)' <=> Attributed(u, w)
      BY DEF Attributed, Known, statVars
    <2>3. at'[u] = "gone" <=> at[u] = "gone"
      BY <1>2
    <2> QED
      BY <2>1, <2>2, <2>3, EventsIdle DEF taskVars
  <1> QED
    BY <1>3, <1>4, <1>5, Parts

\* Accepting, writing, finishing and leaving.
LEMMA MovesKeep ==
  ASSUME ConnectionsInv, NEW s \in Sessions,
         Accept(s) \/ Written(s) \/ Applied(s) \/ Leave(s)
  PROVE  ConnectionsInv'
  <1>1. EffectsInOrder(s)
    BY Parts DEF EventPart
  <1>2. CASE Accept(s)
    <2>1. "select" \in Places \ {"gone"}
      BY DEF Places
    <2> QED
      BY <1>1, <1>2, <2>1, MoveKeeps DEF Accept, EffectsInOrder
  <1>3. CASE Written(s)
    <2>1. "sending" \in Places \ {"gone"}
      BY DEF Places
    <2> QED
      BY <1>1, <1>3, <2>1, MoveKeeps DEF Written, EffectsInOrder
  <1>4. CASE Applied(s)
    <2>1. "select" \in Places \ {"gone"}
      BY DEF Places
    <2>2. fx[s].events = <<>> /\ fx[s].blocks = {}
      BY <1>4 DEF Applied, NoEffects
    <2> QED
      BY <1>1, <1>4, <2>1, <2>2, MoveKeeps DEF Applied, EffectsInOrder
  <1>5. CASE Leave(s)
    <2>1. "leaving" \in Places \ {"gone"}
      BY DEF Places
    <2> QED
      BY <1>1, <1>5, <2>1, MoveKeeps DEF Leave, EffectsInOrder
  <1> QED
    BY <1>2, <1>3, <1>4, <1>5

\* What the session answers with gives a connection its effects.  The blocks are the first of
\* their request.
LEMMA HandledKeeps ==
  ASSUME ConnectionsInv, NEW s \in Sessions, NEW evs \in Seq(Events), NEW blks \in SUBSET Block,
         NEW names \in SUBSET Workers, Handled(s, evs, blks),
         workers' \in [Sessions -> SUBSET Workers], workers'[s] = workers[s] \union names,
         \A u \in Sessions \ {s} : workers'[u] = workers[u],
         requests' \in [Sessions -> 0..MaxRequests],
         \A u \in Sessions : requests[u] <= requests'[u],
         \A i \in 1 .. Len(evs) : Tells(s, evs[i])',
         \A w \in names : w \in workers[s] \/ \E i \in 1 .. Len(evs) : Announces(evs[i], s, w),
         \A b \in blks : b.session = s /\ requests[s] < b.request /\ b.request <= requests'[s]
  PROVE  ConnectionsInv'
  <1>1. Shapes /\ (\A u \in Sessions : EventPart(u)) /\ BlockPart
    BY Parts
  <1>2. /\ at[s] = "select" /\ at' = [at EXCEPT ![s] = "writing"]
        /\ fx' = [fx EXCEPT ![s] = [events |-> evs, blocks |-> blks]]
        /\ found' = found \union blks
        /\ UNCHANGED <<broken, events, blocks, statVars, taskVars, dropped, submitted, lostBlocks>>
    BY DEF Handled
  <1>3. /\ at'[s] = "writing" /\ fx'[s].events = evs /\ fx'[s].blocks = blks
        /\ \A u \in Sessions \ {s} : at'[u] = at[u] /\ fx'[u] = fx[u]
    BY <1>1, <1>2 DEF Shapes
  <1>4. fx[s].events = <<>> /\ fx[s].blocks = {} /\ Len(fx[s].events) = 0
    <2>1. fx[s].events = <<>> /\ fx[s].blocks = {}
      BY <1>1, <1>2 DEF EventPart, EffectsInOrder
    <2> QED
      BY <2>1
  <1>5. workers[s] \subseteq Workers /\ \A u \in Sessions : requests[u] \in Nat /\ requests'[u] \in Nat
    BY <1>1, ConnectionsAssumption DEF Shapes
  <1>6. Shapes'
    <2>1. fx' \in [Sessions -> [events : Seq(Events), blocks : SUBSET Block]]
      BY <1>1, <1>2 DEF Shapes
    <2>2. at' \in [Sessions -> Places] /\ found' \subseteq Block
      BY <1>1, <1>2 DEF Shapes, Places
    <2> QED
      BY <1>1, <1>2, <2>1, <2>2 DEF Shapes, statVars, taskVars, Known
  <1>7. \A u \in Sessions, w \in Workers : Attributed(u, w)' <=> Attributed(u, w)
    BY <1>2 DEF Attributed, Known, statVars
  <1>8. ASSUME NEW u \in Sessions, u # s PROVE EventPart(u)'
    <2>1. EffectsInOrder(u)'
      BY <1>1, <1>3, <1>8 DEF EventPart, EffectsInOrder, Tells
    <2> QED
      BY <1>2, <1>3, <1>7, <1>8, <2>1, EventsIdle DEF taskVars
  <1>9. EventPart(s)'
    <2>1. EffectsInOrder(s)'
      BY <1>3 DEF EffectsInOrder, Tells
    <2>2. EventsInOrder(s)'
      BY <1>1, <1>2, <1>3 DEF EventPart, EventsInOrder, Tells
    <2>3. SessionsAreTrue(s)' /\ EndIsKnown(s)'
      BY <1>1, <1>3, <1>7 DEF EventPart, SessionsAreTrue, EndIsKnown
    <2>4. WorkersAreKnown(s)'
      <3> SUFFICES ASSUME publisher', s \notin dropped', NEW w \in workers'[s]
                   PROVE  \/ Attributed(s, w)'
                          \/ \E i \in 1 .. Len(events') : Announces(events'[i], s, w)
                          \/ \E i \in 1 .. Len(fx'[s].events) : Announces(fx'[s].events[i], s, w)
        BY DEF WorkersAreKnown
      <3>1. CASE w \in workers[s]
        <4>1. Attributed(s, w) \/ \E i \in 1 .. Len(events) : Announces(events[i], s, w)
          BY <1>1, <1>2, <1>4, <3>1 DEF EventPart, WorkersAreKnown, taskVars
        <4> QED
          BY <1>2, <1>5, <1>7, <3>1, <4>1
      <3>2. CASE w \notin workers[s]
        BY <1>3, <3>2
      <3> QED
        BY <3>1, <3>2
    <2> QED
      BY <2>1, <2>2, <2>3, <2>4 DEF EventPart
  <1>10. BlockPart'
    <2>1. Handed' = Handed
      BY <1>2 DEF Handed
    <2>2. WithConnections' = WithConnections \union blks
      BY <1>3, <1>4, BlockFields
    <2>3. BlocksInOnePlace /\ BlocksAreHandedOn
      BY <1>1 DEF BlockPart, BlocksInOnePlace
    <2>4. \A b \in blks : b \notin found
      <3> SUFFICES ASSUME NEW b \in blks, b \in found PROVE FALSE
        OBVIOUS
      <3>1. b.session = s /\ requests[s] < b.request /\ b.request <= requests[s] /\ b.request \in Nat
        BY <2>3, BlockFields DEF BlocksInOnePlace
      <3> QED
        BY <1>5, <3>1
    <2>5. blks \intersect Handed = {}
      BY <2>3, <2>4 DEF BlocksAreHandedOn
    <2>6. \A b \in found' : b.request <= requests'[b.session]
      <3> TAKE b \in found'
      <3>1. CASE b \in blks
        BY <3>1
      <3>2. CASE b \in found
        <4>1. b.request \in Nat /\ b.session \in Sessions /\ b.request <= requests[b.session]
          BY <1>1, <2>3, <3>2, BlockFields DEF Shapes, BlocksInOnePlace
        <4> QED
          BY <1>5, <4>1
      <3> QED
        BY <1>2, <3>1, <3>2
    <2>7. BlocksAreHandedOn'
      BY <1>2, <2>1, <2>2, <2>3, <2>5 DEF BlocksAreHandedOn, taskVars
    <2>8. ASSUME NEW u \in Sessions PROVE OwnBlocks(u)'
      BY <1>1, <1>3 DEF BlockPart, OwnBlocks
    <2> QED
      BY <1>2, <2>3, <2>6, <2>7, <2>8 DEF BlockPart, BlocksInOnePlace, taskVars
  <1> QED
    BY <1>6, <1>8, <1>9, <1>10, Parts

\* New work, a tick, or a request about the difficulty alone.
LEMMA PushKeeps ==
  ASSUME ConnectionsInv, NEW s \in Sessions, Push(s)
  PROVE  ConnectionsInv'
  <1>1. Shapes
    BY Parts
  <1>2. PICK evs \in {<<>>, <<Changed(s)>>} : Handled(s, evs, {})
    BY DEF Push
  <1>3. UNCHANGED <<requests, workers>>
    BY DEF Push
  <1>4. evs \in Seq(Events) /\ \A i \in 1 .. Len(evs) : evs[i] = Changed(s)
    <2>1. Changed(s) \in Events
      BY DEF Changed, Events
    <2>2. CASE evs = <<>>
      BY <2>2
    <2>3. CASE evs = <<Changed(s)>>
      BY <2>1, <2>3
    <2> QED
      BY <1>2, <2>2, <2>3
  <1>5. \A i \in 1 .. Len(evs) : Tells(s, evs[i])'
    BY <1>4 DEF Tells, Changed
  <1> DEFINE none == {}
  <1>6. /\ none \in SUBSET Block /\ none \in SUBSET Workers /\ Handled(s, evs, none)
        /\ \A b \in none : b.session = s /\ requests[s] < b.request /\ b.request <= requests'[s]
        /\ \A w \in none : w \in workers[s] \/ \E i \in 1 .. Len(evs) : Announces(evs[i], s, w)
        /\ workers'[s] = workers[s] \union none
    BY <1>2, <1>3
  <1>7. /\ workers' \in [Sessions -> SUBSET Workers] /\ requests' \in [Sessions -> 0..MaxRequests]
        /\ \A u \in Sessions \ {s} : workers'[u] = workers[u]
        /\ \A u \in Sessions : requests[u] <= requests'[u]
    BY <1>1, <1>3, ConnectionsAssumption DEF Shapes
  <1> HIDE DEF none
  <1> QED
    BY <1>4, <1>5, <1>6, <1>7, HandledKeeps

\* The number of a request is the connection's next.
LEMMA Numbered ==
  ASSUME Shapes, NEW s \in Sessions, Counted(s)
  PROVE  /\ requests[s] \in Nat /\ requests'[s] = requests[s] + 1
         /\ requests[s] + 1 \in 1..MaxRequests /\ requests' \in [Sessions -> 0..MaxRequests]
         /\ \A u \in Sessions : requests[u] <= requests'[u]
  <1>1. MaxRequests \in Nat /\ requests \in [Sessions -> 0..MaxRequests]
    BY ConnectionsAssumption DEF Shapes
  <1>2. requests[s] < MaxRequests /\ requests' = [requests EXCEPT ![s] = @ + 1]
    BY DEF Counted
  <1>3. requests[s] \in Nat /\ requests'[s] = requests[s] + 1 /\ requests[s] + 1 \in 1..MaxRequests
        /\ requests[s] + 1 \in 0..MaxRequests
    BY <1>1, <1>2
  <1>4. requests' \in [Sessions -> 0..MaxRequests]
    BY <1>1, <1>2, <1>3
  <1>5. ASSUME NEW u \in Sessions PROVE requests[u] <= requests'[u]
    BY <1>1, <1>2, <1>3
  <1> QED
    BY <1>3, <1>4, <1>5

LEMMA AuthorizeKeeps ==
  ASSUME ConnectionsInv, NEW s \in Sessions, NEW w \in Workers, Authorize(s, w)
  PROVE  ConnectionsInv'
  <1>1. Shapes
    BY Parts
  <1> DEFINE none == {}
             names == {w}
  <1>2. /\ Counted(s) /\ workers' = [workers EXCEPT ![s] = @ \union names]
        /\ Handled(s, AuthorizeEvents(s, w), none)
    BY DEF Authorize
  <1>3. Authorized(s, w) \in Events /\ Changed(s) \in Events
    BY EventFields
  <1>4. PICK evs \in Seq(Events) :
          /\ evs = AuthorizeEvents(s, w) /\ 1 \in 1 .. Len(evs) /\ evs[1] = Authorized(s, w)
          /\ \A i \in 1 .. Len(evs) : evs[i] \in {Authorized(s, w), Changed(s)}
    <2> DEFINE told == AuthorizeEvents(s, w)
    <2>1. /\ told \in Seq(Events) /\ 1 \in 1 .. Len(told) /\ told[1] = Authorized(s, w)
          /\ \A i \in 1 .. Len(told) : told[i] \in {Authorized(s, w), Changed(s)}
      <3>1. CASE told = <<Authorized(s, w)>>
        <4> HIDE DEF told
        <4> QED
          BY <1>3, <3>1
      <3>2. CASE told = <<Authorized(s, w), Changed(s)>>
        <4> HIDE DEF told
        <4> QED
          BY <1>3, <3>2
      <3> QED
        BY <3>1, <3>2 DEF AuthorizeEvents
    <2> HIDE DEF told
    <2>2. told = AuthorizeEvents(s, w)
      BY DEF told
    <2> QED
      BY <2>1, <2>2
  <1>5. /\ workers' \in [Sessions -> SUBSET Workers] /\ workers'[s] = workers[s] \union names
        /\ \A u \in Sessions \ {s} : workers'[u] = workers[u]
    BY <1>1, <1>2 DEF Shapes
  <1>6. \A i \in 1 .. Len(evs) : Tells(s, evs[i])'
    <2>1. w \in workers'[s]
      BY <1>5
    <2>2. Tells(s, Authorized(s, w))' /\ Tells(s, Changed(s))'
      BY <2>1 DEF Tells, Authorized, Changed
    <2>3. ASSUME NEW i \in 1 .. Len(evs) PROVE Tells(s, evs[i])'
      <3>1. evs[i] = Authorized(s, w) \/ evs[i] = Changed(s)
        BY <1>4
      <3> QED
        BY <2>2, <3>1
    <2> QED
      BY <2>3
  <1>7. Announces(evs[1], s, w)
    BY <1>4 DEF Announces, Authorized
  <1>8. /\ none \in SUBSET Block /\ names \in SUBSET Workers /\ Handled(s, evs, none)
        /\ \A b \in none : b.session = s /\ requests[s] < b.request /\ b.request <= requests'[s]
        /\ \A v \in names : v \in workers[s] \/ \E i \in 1 .. Len(evs) : Announces(evs[i], s, v)
    BY <1>2, <1>4, <1>7
  <1>9. requests' \in [Sessions -> 0..MaxRequests] /\ \A u \in Sessions : requests[u] <= requests'[u]
    BY <1>1, <1>2, Numbered
  <1> HIDE DEF names, none
  <1> QED
    BY <1>5, <1>6, <1>8, <1>9, HandledKeeps

LEMMA SubmitKeepsConnections ==
  ASSUME ConnectionsInv, NEW s \in Sessions, NEW w \in Workers, Submit(s, w)
  PROVE  ConnectionsInv'
  <1>1. Shapes
    BY Parts
  <1>2. w \in workers[s] /\ Counted(s) /\ workers' = workers
    BY DEF Submit
  <1>3. PICK met \in SUBSET Chains, evs \in {<<Share(s, w)>>, <<Share(s, w), Changed(s)>>} :
          Handled(s, evs, Solved(s, met))
    BY DEF Submit
  <1> DEFINE blks == Solved(s, met)
             names == {}
  <1>4. Share(s, w) \in Events /\ Changed(s) \in Events
    BY EventFields
  <1>5. evs \in Seq(Events) /\ \A i \in 1 .. Len(evs) : evs[i] \in {Share(s, w), Changed(s)}
    <2>1. CASE evs = <<Share(s, w)>>
      BY <1>4, <2>1
    <2>2. CASE evs = <<Share(s, w), Changed(s)>>
      BY <1>4, <2>2
    <2> QED
      BY <1>3, <2>1, <2>2
  <1>6. /\ requests[s] \in Nat /\ requests'[s] = requests[s] + 1 /\ requests[s] + 1 \in 1..MaxRequests
        /\ requests' \in [Sessions -> 0..MaxRequests] /\ \A u \in Sessions : requests[u] <= requests'[u]
    BY <1>1, <1>2, Numbered
  <1>7. blks \in SUBSET Block
    BY <1>6 DEF Solved, Block
  <1>8. \A b \in blks : b.session = s /\ b.request = requests[s] + 1
    BY DEF Solved
  <1>9. \A b \in blks : b.session = s /\ requests[s] < b.request /\ b.request <= requests'[s]
    <2> HIDE DEF blks
    <2> QED
      BY <1>6, <1>8
  <1>10. \A i \in 1 .. Len(evs) : Tells(s, evs[i])'
    BY <1>2, <1>5 DEF Tells, Share, Changed
  <1>11. /\ names \in SUBSET Workers /\ workers'[s] = workers[s] \union names
         /\ \A v \in names : v \in workers[s] \/ \E i \in 1 .. Len(evs) : Announces(evs[i], s, v)
    BY <1>2
  <1>12. workers' \in [Sessions -> SUBSET Workers] /\ \A u \in Sessions \ {s} : workers'[u] = workers[u]
    BY <1>1, <1>2 DEF Shapes
  <1> HIDE DEF blks, names
  <1>13. Handled(s, evs, blks)
    BY <1>3 DEF blks
  <1> QED
    BY <1>5, <1>6, <1>7, <1>9, <1>10, <1>11, <1>12, <1>13, HandledKeeps

\* A failed write ends a connection and loses the blocks it had not sent.
LEMMA WriteFailsKeeps ==
  ASSUME ConnectionsInv, NEW s \in Sessions, WriteFails(s) PROVE ConnectionsInv'
  <1>1. Shapes /\ (\A u \in Sessions : EventPart(u)) /\ BlockPart
    BY Parts
  <1> DEFINE own == fx[s].blocks
  <1>2. /\ at[s] = "writing" /\ at' = [at EXCEPT ![s] = "gone"]
        /\ broken' = broken \union {s}
        /\ lostBlocks' = lostBlocks \union own
        /\ fx' = [fx EXCEPT ![s] = NoEffects]
        /\ UNCHANGED <<workers, requests, found, events, blocks, statVars, taskVars, dropped, submitted>>
    BY DEF WriteFails
  <1>3. /\ at'[s] = "gone" /\ fx'[s] = NoEffects
        /\ \A u \in Sessions \ {s} : at'[u] = at[u] /\ fx'[u] = fx[u]
    BY <1>1, <1>2 DEF Shapes
  <1>4. NoEffects \in [events : Seq(Events), blocks : SUBSET Block]
        /\ NoEffects.events = <<>> /\ NoEffects.blocks = {}
    BY EmptySeq DEF NoEffects
  <1>5. Shapes'
    <2>1. fx' \in [Sessions -> [events : Seq(Events), blocks : SUBSET Block]]
      BY <1>1, <1>2, <1>4 DEF Shapes
    <2>2. at' \in [Sessions -> Places] /\ broken' \subseteq Sessions /\ lostBlocks' \subseteq Block
      BY <1>1, <1>2 DEF Shapes, Places
    <2> QED
      BY <1>1, <1>2, <2>1, <2>2 DEF Shapes, statVars, taskVars, Known
  <1>6. \A u \in Sessions, w \in Workers : Attributed(u, w)' <=> Attributed(u, w)
    BY <1>2 DEF Attributed, Known, statVars
  <1>7. ASSUME NEW u \in Sessions, u # s PROVE EventPart(u)'
    <2>1. EffectsInOrder(u)'
      BY <1>1, <1>2, <1>3, <1>7 DEF EventPart, EffectsInOrder, Tells
    <2> QED
      BY <1>2, <1>3, <1>6, <1>7, <2>1, EventsIdle DEF taskVars
  <1>8. EventPart(s)'
    <2>1. EffectsInOrder(s)'
      BY <1>3, <1>4, NobodyWaits DEF EffectsInOrder
    <2>2. EventsInOrder(s)'
      BY <1>1, <1>2, <1>3 DEF EventPart, EventsInOrder, Tells
    <2>3. SessionsAreTrue(s)'
      BY <1>1, <1>2, <1>6 DEF EventPart, SessionsAreTrue
    <2> QED
      BY <1>2, <1>3, <2>1, <2>2, <2>3 DEF EventPart, EndIsKnown, WorkersAreKnown
  <1>9. BlockPart'
    <2>1. BlocksInOnePlace /\ BlocksAreHandedOn /\ \A u \in Sessions : \A b \in fx[u].blocks : b.session = u
      BY <1>1 DEF BlockPart, BlocksInOnePlace, OwnBlocks
    <2>2. Handed' = Handed \union own
      BY <1>2 DEF Handed
    <2>3. own \subseteq WithConnections /\ WithConnections' = WithConnections \ own
      BY <1>3, <1>4, <2>1, BlockFields
    <2>4. own \intersect Handed = {}
      BY <2>1, <2>3 DEF BlocksAreHandedOn
    <2>5. lostBlocks' \intersect (submitted' \union ToSet(blocks')) = {}
      BY <1>2, <2>1, <2>4 DEF BlocksAreHandedOn, Handed
    <2>6. found' = WithConnections' \union Handed' /\ WithConnections' \intersect Handed' = {}
      BY <1>2, <2>1, <2>2, <2>3 DEF BlocksAreHandedOn
    <2>7. \A b \in lostBlocks' : stopping' \/ b.session \in broken'
      BY <1>2, <2>1 DEF BlocksAreHandedOn, taskVars
    <2>8. BlocksAreHandedOn'
      BY <1>2, <2>1, <2>5, <2>6, <2>7 DEF BlocksAreHandedOn
    <2>9. ASSUME NEW u \in Sessions PROVE OwnBlocks(u)'
      BY <1>3, <1>4, <2>1 DEF OwnBlocks
    <2> QED
      BY <1>2, <2>1, <2>8, <2>9 DEF BlockPart, BlocksInOnePlace, taskVars
  <1> QED
    BY <1>5, <1>7, <1>8, <1>9, Parts

\* An event goes to the channel, or is dropped.
LEMMA TrySendKeeps ==
  ASSUME ConnectionsInv, NEW s \in Sessions, TrySend(s) PROVE ConnectionsInv'
  <1>1. Shapes /\ (\A u \in Sessions : EventPart(u)) /\ BlockPart
    BY Parts
  <1> DEFINE own == fx[s].events
             e == Head(own)
  <1>2. /\ at[s] = "sending" /\ own # <<>> /\ fx' = [fx EXCEPT ![s].events = Tail(own)]
        /\ \/ events' = Append(events, e) /\ dropped' = dropped
           \/ /\ events' = events /\ dropped \subseteq dropped'
              /\ e.kind = "authorized" => s \in dropped'
        /\ UNCHANGED <<at, workers, requests, found, broken, blocks, statVars, taskVars,
                       submitted, lostBlocks>>
    BY DEF TrySend
  <1>3. own \in Seq(Events) /\ fx[s] \in [events : Seq(Events), blocks : SUBSET Block]
        /\ events \in Seq(Events)
    BY <1>1 DEF Shapes
  <1>4. /\ Tail(own) \in Seq(Events) /\ Len(own) \in Nat /\ Len(own) >= 1
        /\ Len(Tail(own)) = Len(own) - 1 /\ e = own[1] /\ e \in Events
        /\ \A i \in 1 .. Len(Tail(own)) : Tail(own)[i] = own[i + 1]
    <2> HIDE DEF own
    <2> QED
      BY <1>2, <1>3, Taken
  <1>5. /\ fx'[s].events = Tail(own) /\ \A u \in Sessions : fx'[u].blocks = fx[u].blocks
        /\ \A u \in Sessions \ {s} : fx'[u] = fx[u]
    BY <1>1, <1>2, <1>3 DEF Shapes
  <1>6. /\ 1 \in 1 .. Len(own) /\ \A i \in 1 .. Len(Tail(own)) : i + 1 \in 1 .. Len(own)
        /\ \A i \in 1 .. Len(own) : i = 1 \/ (i - 1 \in 1 .. Len(Tail(own)) /\ Tail(own)[i - 1] = own[i])
    <2> HIDE DEF own, e
    <2>1. 1 \in 1 .. Len(own) /\ \A i \in 1 .. Len(Tail(own)) : i + 1 \in 1 .. Len(own)
      BY <1>4
    <2>2. ASSUME NEW i \in 1 .. Len(own), i # 1
          PROVE  i - 1 \in 1 .. Len(Tail(own)) /\ Tail(own)[i - 1] = own[i]
      <3>1. i - 1 \in 1 .. Len(Tail(own)) /\ (i - 1) + 1 = i
        BY <1>4, <2>2
      <3> QED
        BY <1>4, <3>1
    <2> QED
      BY <2>1, <2>2
  <1>7. \A i \in 1 .. Len(own) : Tells(s, own[i])
    BY <1>1 DEF EventPart, EffectsInOrder
  <1>8. Tells(s, e) /\ e.session = s
    BY <1>4, <1>6, <1>7 DEF Tells
  <1>9. /\ Append(events, e) \in Seq(Events) /\ Len(events) \in Nat
        /\ Len(Append(events, e)) = Len(events) + 1
        /\ \A i \in 1 .. Len(events) : Append(events, e)[i] = events[i]
        /\ Append(events, e)[Len(events) + 1] = e
    <2> HIDE DEF e
    <2> QED
      BY <1>3, <1>4, Appended
  <1>10. Shapes'
    <2>1. fx' \in [Sessions -> [events : Seq(Events), blocks : SUBSET Block]]
      BY <1>1, <1>2, <1>3, <1>4 DEF Shapes
    <2>2. events' \in Seq(Events)
      BY <1>2, <1>3, <1>9
    <2> QED
      BY <1>1, <1>2, <2>1, <2>2 DEF Shapes, statVars, taskVars, Known
  <1>11. BlockPart'
    BY <1>2, <1>5, BlocksIdle DEF taskVars
  <1>12. \A u \in Sessions, w \in Workers : Attributed(u, w)' <=> Attributed(u, w)
    BY <1>2 DEF Attributed, Known, statVars
  <1>13. EffectsInOrder(s)' /\ \A u \in Sessions \ {s} : EffectsInOrder(u)'
    <2>1. EffectsInOrder(s)'
      <3>1. EffectsInOrder(s)
        BY <1>1 DEF EventPart
      <3>2. \A i \in 1 .. Len(Tail(own)) : Tells(s, Tail(own)[i])
        BY <1>4, <1>6, <1>7
      <3>3. \A i \in 1 .. Len(fx'[s].events) : Tells(s, fx[s].events[i])'
        <4> HIDE DEF own
        <4> QED
          BY <1>2, <1>5, <3>2 DEF Tells
      <3> QED
        BY <1>2, <1>5, <3>1, <3>3 DEF EffectsInOrder
    <2>2. \A u \in Sessions \ {s} : EffectsInOrder(u)'
      BY <1>1, <1>2, <1>5 DEF EventPart, EffectsInOrder, Tells
    <2> QED
      BY <2>1, <2>2
  <1>14. SessionsAreTrue(s)' /\ EndIsKnown(s)'
    BY <1>1, <1>2, <1>12 DEF EventPart, SessionsAreTrue, EndIsKnown
  <1>15. ASSUME publisher', s \notin dropped, NEW w \in workers'[s]
         PROVE  \/ Attributed(s, w)'
                \/ \E i \in 1 .. Len(events) : Announces(events[i], s, w)
                \/ Announces(e, s, w)
                \/ \E i \in 1 .. Len(fx'[s].events) : Announces(fx'[s].events[i], s, w)
    <2>1. w \in workers[s] /\ w \in Workers /\ publisher
      BY <1>1, <1>2, <1>15 DEF Shapes, taskVars
    <2>2. \/ Attributed(s, w)
          \/ \E i \in 1 .. Len(events) : Announces(events[i], s, w)
          \/ \E i \in 1 .. Len(own) : Announces(own[i], s, w)
      BY <1>1, <1>2, <1>15, <2>1 DEF EventPart, WorkersAreKnown
    <2>3. ASSUME NEW i \in 1 .. Len(own), Announces(own[i], s, w)
          PROVE  \/ Announces(e, s, w)
                 \/ \E k \in 1 .. Len(fx'[s].events) : Announces(fx'[s].events[k], s, w)
      <3>1. CASE i = 1
        BY <1>4, <2>3, <3>1
      <3>2. CASE i # 1
        <4>1. i - 1 \in 1 .. Len(Tail(own)) /\ Tail(own)[i - 1] = own[i]
          BY <1>6, <3>2
        <4>2. i - 1 \in 1 .. Len(fx'[s].events) /\ fx'[s].events[i - 1] = own[i]
          <5> HIDE DEF own
          <5> QED
            BY <1>5, <4>1
        <4>3. Announces(fx'[s].events[i - 1], s, w)
          BY <2>3, <4>2
        <4> QED
          BY <4>2, <4>3
      <3> QED
        BY <3>1, <3>2
    <2> QED
      BY <1>12, <2>1, <2>2, <2>3
  <1> HIDE DEF own, e
  <1>16. CASE events' = Append(events, e) /\ dropped' = dropped
    <2>1. /\ Len(events') = Len(events) + 1 /\ events'[Len(events) + 1] = e
          /\ \A i \in 1 .. Len(events) : events'[i] = events[i]
      BY <1>9, <1>16
    <2>2. /\ Len(events') \in Nat /\ Len(events) <= Len(events')
          /\ \A i \in (Len(events) + 1) .. Len(events') : i = Len(events) + 1
          /\ \A i \in 1 .. Len(events') : i \in 1 .. Len(events) \/ i = Len(events) + 1
          /\ \A i \in 1 .. Len(events) : i \in 1 .. Len(events')
          /\ Len(events) + 1 \in 1 .. Len(events')
      BY <1>9, <2>1
    <2>3. ASSUME NEW u \in Sessions, u # s PROVE EventPart(u)'
      <3>1. \A i \in (Len(events) + 1) .. Len(events') : events'[i].session # u
        BY <1>8, <2>1, <2>2, <2>3
      <3> QED
        BY <1>2, <1>5, <1>9, <1>12, <1>13, <1>16, <2>1, <2>2, <2>3, <3>1, EventsGrow DEF taskVars
    <2>4. EventsInOrder(s)'
      <3> SUFFICES ASSUME NEW i \in 1 .. Len(events'), events'[i].session = s
                   PROVE  Tells(s, events[i])'
        BY DEF EventsInOrder
      <3>1. CASE i \in 1 .. Len(events)
        <4>1. events'[i] = events[i] /\ Tells(s, events[i])
          BY <1>1, <1>2, <2>1, <3>1 DEF EventPart, EventsInOrder
        <4> QED
          BY <1>2, <4>1 DEF Tells
      <3>2. CASE i = Len(events) + 1
        BY <1>2, <1>8, <2>1, <3>2 DEF Tells
      <3> QED
        BY <2>2, <3>1, <3>2
    <2>5. WorkersAreKnown(s)'
      <3> SUFFICES ASSUME publisher', s \notin dropped', NEW w \in workers'[s]
                   PROVE  \/ Attributed(s, w)'
                          \/ \E i \in 1 .. Len(events') : Announces(events'[i], s, w)
                          \/ \E i \in 1 .. Len(fx'[s].events) : Announces(fx'[s].events[i], s, w)
        BY DEF WorkersAreKnown
      <3> QED
        BY <1>15, <1>16, <2>1, <2>2
    <2> QED
      BY <1>10, <1>11, <1>13, <1>14, <2>3, <2>4, <2>5, Parts DEF EventPart
  <1>17. CASE /\ events' = events /\ dropped \subseteq dropped'
              /\ e.kind = "authorized" => s \in dropped'
    <2>1. ASSUME NEW u \in Sessions, u # s PROVE EventPart(u)'
      BY <1>2, <1>5, <1>12, <1>13, <1>17, <2>1, EventsIdle DEF taskVars
    <2>2. EventsInOrder(s)'
      BY <1>1, <1>2, <1>17 DEF EventPart, EventsInOrder, Tells
    <2>3. WorkersAreKnown(s)'
      <3> SUFFICES ASSUME publisher', s \notin dropped', NEW w \in workers'[s]
                   PROVE  \/ Attributed(s, w)'
                          \/ \E i \in 1 .. Len(events') : Announces(events'[i], s, w)
                          \/ \E i \in 1 .. Len(fx'[s].events) : Announces(fx'[s].events[i], s, w)
        BY DEF WorkersAreKnown
      <3>1. ~ Announces(e, s, w) /\ s \notin dropped
        BY <1>17 DEF Announces
      <3> QED
        BY <1>15, <1>17, <3>1
    <2> QED
      BY <1>10, <1>11, <1>13, <1>14, <2>1, <2>2, <2>3, Parts DEF EventPart
  <1> QED
    BY <1>2, <1>16, <1>17

\* A block goes to the channel, or is lost with a submitter that is gone.
LEMMA SendBlockKeeps ==
  ASSUME ConnectionsInv, NEW s \in Sessions, SendBlock(s) PROVE ConnectionsInv'
  <1>1. Shapes /\ (\A u \in Sessions : EventPart(u)) /\ BlockPart
    BY Parts
  <1>2. PICK b \in fx[s].blocks :
          /\ fx' = [fx EXCEPT ![s].blocks = @ \ {b}]
          /\ \/ ~submitter /\ lostBlocks' = lostBlocks \union {b} /\ blocks' = blocks
             \/ submitter /\ blocks' = Append(blocks, b) /\ lostBlocks' = lostBlocks
    BY DEF SendBlock, Drops
  <1>3. UNCHANGED <<at, workers, requests, found, broken, events, statVars, taskVars, dropped, submitted>>
    BY DEF SendBlock
  <1>4. fx[s] \in [events : Seq(Events), blocks : SUBSET Block] /\ b \in Block /\ blocks \in Seq(Block)
    BY <1>1 DEF Shapes
  <1>5. /\ at[s] \in {"writing", "sending"} /\ fx'[s].events = fx[s].events
        /\ fx'[s].blocks = fx[s].blocks \ {b} /\ \A u \in Sessions \ {s} : fx'[u] = fx[u]
    BY <1>1, <1>2, <1>4 DEF Shapes, EventPart, EffectsInOrder
  <1>6. /\ Append(blocks, b) \in Seq(Block) /\ Len(blocks) \in Nat
        /\ Len(Append(blocks, b)) = Len(blocks) + 1
        /\ \A i \in 1 .. Len(blocks) : Append(blocks, b)[i] = blocks[i] /\ blocks[i] \in ToSet(blocks)
        /\ Append(blocks, b)[Len(blocks) + 1] = b
        /\ ToSet(Append(blocks, b)) = ToSet(blocks) \union {b}
    BY <1>4, Appended, Waiting
  <1>7. Shapes'
    <2>1. fx' \in [Sessions -> [events : Seq(Events), blocks : SUBSET Block]]
      BY <1>1, <1>2, <1>4 DEF Shapes
    <2>2. blocks' \in Seq(Block) /\ lostBlocks' \subseteq Block
      BY <1>1, <1>2, <1>4, <1>6 DEF Shapes
    <2> QED
      BY <1>1, <1>3, <2>1, <2>2 DEF Shapes, statVars, taskVars, Known
  <1>8. ASSUME NEW u \in Sessions PROVE EventPart(u)'
    <2>1. EffectsInOrder(u)'
      <3>1. CASE u = s
        <4>1. EffectsInOrder(s)
          BY <1>1 DEF EventPart
        <4>2. \A i \in 1 .. Len(fx'[s].events) : Tells(s, fx[s].events[i])'
          BY <1>3, <1>5, <4>1 DEF EffectsInOrder, Tells
        <4> QED
          BY <1>3, <1>5, <3>1, <4>1, <4>2 DEF EffectsInOrder
      <3>2. CASE u # s
        BY <1>1, <1>3, <1>5, <3>2 DEF EventPart, EffectsInOrder, Tells
      <3> QED
        BY <3>1, <3>2
    <2>2. \A w \in Workers : Attributed(u, w)' <=> Attributed(u, w)
      BY <1>3 DEF Attributed, Known, statVars
    <2>3. fx'[u].events = fx[u].events
      BY <1>5
    <2> QED
      BY <1>3, <2>1, <2>2, <2>3, EventsIdle DEF taskVars
  <1>9. BlocksInOnePlace /\ BlocksAreHandedOn /\ \A u \in Sessions : \A c \in fx[u].blocks : c.session = u
    BY <1>1 DEF BlockPart, BlocksInOnePlace, OwnBlocks
  <1>10. WithConnections' = WithConnections \ {b} /\ b \in WithConnections
    BY <1>2, <1>5, <1>9, BlockFields
  <1>11. Handed' = Handed \union {b}
    BY <1>2, <1>3, <1>6 DEF Handed
  <1>12. b \notin ToSet(blocks) /\ b \notin submitted /\ b \notin lostBlocks
    BY <1>9, <1>10 DEF BlocksAreHandedOn, Handed
  <1>13. found' = WithConnections' \union Handed' /\ WithConnections' \intersect Handed' = {}
    BY <1>3, <1>9, <1>10, <1>11 DEF BlocksAreHandedOn
  <1>14. BlocksInOnePlace'
    <2>1. CASE ~submitter /\ lostBlocks' = lostBlocks \union {b} /\ blocks' = blocks
      BY <1>3, <1>9, <1>12, <1>13, <2>1 DEF BlocksInOnePlace, BlocksAreHandedOn, taskVars
    <2>2. CASE submitter /\ blocks' = Append(blocks, b) /\ lostBlocks' = lostBlocks
      <3>1. DOMAIN blocks = 1 .. Len(blocks) /\ DOMAIN blocks' = 1 .. Len(blocks) + 1
        BY <1>4, <1>6, <2>2, LenProperties
      <3>2. ASSUME NEW k \in DOMAIN blocks'
            PROVE  \/ /\ k \in DOMAIN blocks /\ blocks'[k] = blocks[k] /\ blocks'[k] # b
                   \/ /\ k = Len(blocks) + 1 /\ blocks'[k] = b
        <4>1. k \in 1 .. Len(blocks) \/ k = Len(blocks) + 1
          BY <1>6, <3>1
        <4> QED
          BY <1>6, <1>12, <2>2, <3>1, <4>1
      <3>3. IsInjective(blocks')
        BY <1>9, <3>2 DEF BlocksAreHandedOn, IsInjective
      <3>4. ToSet(blocks') = ToSet(blocks) \union {b}
        BY <1>6, <2>2
      <3> QED
        BY <1>3, <1>9, <1>12, <1>13, <2>2, <3>3, <3>4 DEF BlocksInOnePlace, BlocksAreHandedOn, taskVars
    <2> QED
      BY <1>2, <2>1, <2>2
  <1>15. ASSUME NEW u \in Sessions PROVE OwnBlocks(u)'
    BY <1>5, <1>9 DEF OwnBlocks
  <1> QED
    BY <1>7, <1>8, <1>14, <1>15, Parts DEF BlockPart

\* A connection reports its end, unless the publisher is gone.
LEMMA SendDisconnectedKeeps ==
  ASSUME ConnectionsInv, NEW s \in Sessions, SendDisconnected(s) PROVE ConnectionsInv'
  <1>1. Shapes /\ (\A u \in Sessions : EventPart(u)) /\ BlockPart
    BY Parts
  <1> DEFINE e == Disconnected(s)
  <1>2. /\ at[s] = "leaving" /\ at' = [at EXCEPT ![s] = "gone"]
        /\ \/ publisher /\ events' = Append(events, e)
           \/ ~publisher /\ events' = events
        /\ UNCHANGED <<workers, fx, requests, found, broken, blocks, statVars, taskVars,
                       dropped, submitted, lostBlocks>>
    BY DEF SendDisconnected
  <1>3. e \in Events /\ e.session = s /\ e.kind = "disconnected" /\ e.workers = workers[s]
    BY <1>1 DEF Shapes, Disconnected, Events
  <1> HIDE DEF e
  <1>4. at'[s] = "gone" /\ \A u \in Sessions \ {s} : at'[u] = at[u]
    BY <1>1, <1>2 DEF Shapes
  <1>5. /\ Append(events, e) \in Seq(Events) /\ Len(events) \in Nat
        /\ Len(Append(events, e)) = Len(events) + 1
        /\ \A i \in 1 .. Len(events) : Append(events, e)[i] = events[i]
        /\ Append(events, e)[Len(events) + 1] = e
    BY <1>1, <1>3, Appended DEF Shapes
  <1>6. Shapes'
    <2>1. at' \in [Sessions -> Places] /\ events' \in Seq(Events)
      BY <1>1, <1>2, <1>5 DEF Shapes, Places
    <2> QED
      BY <1>1, <1>2, <2>1 DEF Shapes, statVars, taskVars, Known
  <1>7. BlockPart'
    BY <1>2, BlocksIdle DEF taskVars
  <1>8. \A u \in Sessions, w \in Workers : Attributed(u, w)' <=> Attributed(u, w)
    BY <1>2 DEF Attributed, Known, statVars
  <1>9. \A u \in Sessions \ {s} : EffectsInOrder(u)'
    BY <1>1, <1>2, <1>4 DEF EventPart, EffectsInOrder, Tells
  <1>10. EffectsInOrder(s)'
    BY <1>1, <1>2, <1>4 DEF EventPart, EffectsInOrder, Tells
  <1>11. SessionsAreTrue(s)' /\ WorkersAreKnown(s)'
    BY <1>1, <1>2, <1>4, <1>8 DEF EventPart, SessionsAreTrue, WorkersAreKnown
  <1>12. CASE publisher /\ events' = Append(events, e)
    <2>1. /\ Len(events') = Len(events) + 1 /\ events'[Len(events) + 1] = e
          /\ \A i \in 1 .. Len(events) : events'[i] = events[i]
      BY <1>5, <1>12
    <2>2. ASSUME NEW u \in Sessions, u # s PROVE EventPart(u)'
      <3>1. \A i \in (Len(events) + 1) .. Len(events') : events'[i].session # u
        <4> TAKE i \in (Len(events) + 1) .. Len(events')
        <4>1. i = Len(events) + 1
          BY <1>5, <2>1
        <4> QED
          BY <1>3, <2>1, <2>2, <4>1
      <3>2. Len(events') \in Nat /\ Len(events) <= Len(events')
        BY <1>5, <2>1
      <3> QED
        BY <1>2, <1>4, <1>5, <1>8, <1>9, <2>1, <2>2, <3>1, <3>2, EventsGrow DEF taskVars
    <2>3. EventPart(s)'
      <3>1. EventsInOrder(s)'
        <4> SUFFICES ASSUME NEW i \in 1 .. Len(events'), events'[i].session = s
                     PROVE  \/ Tells(s, events[i])'
                            \/ /\ events'[i].kind = "disconnected" /\ events'[i].workers = workers'[s]
                               /\ at'[s] = "gone"
                               /\ \A j \in (i + 1) .. Len(events') : events'[j].session # s
          BY DEF EventsInOrder
        <4>1. CASE i \in 1 .. Len(events)
          <5>1. Tells(s, events[i]) /\ events'[i] = events[i]
            BY <1>1, <1>2, <2>1, <4>1 DEF EventPart, EventsInOrder
          <5> QED
            BY <1>2, <5>1 DEF Tells
        <4>2. CASE i = Len(events) + 1
          BY <1>2, <1>3, <1>4, <1>5, <2>1, <4>2
        <4> QED
          BY <1>5, <2>1, <4>1, <4>2
      <3>2. EndIsKnown(s)'
        <4>1. Len(events) + 1 \in 1 .. Len(events')
          BY <1>5, <2>1
        <4> QED
          BY <1>3, <2>1, <4>1 DEF EndIsKnown
      <3> QED
        BY <1>10, <1>11, <3>1, <3>2 DEF EventPart
    <2> QED
      BY <1>6, <1>7, <2>2, <2>3, Parts
  <1>13. CASE ~publisher /\ events' = events
    <2>1. ASSUME NEW u \in Sessions, u # s PROVE EventPart(u)'
      BY <1>2, <1>4, <1>8, <1>9, <1>13, <2>1, EventsIdle DEF taskVars
    <2>2. EventsInOrder(s)'
      BY <1>1, <1>2, <1>13 DEF EventPart, EventsInOrder, Tells
    <2>3. EndIsKnown(s)'
      BY <1>2, <1>13 DEF EndIsKnown, taskVars
    <2> QED
      BY <1>6, <1>7, <1>10, <1>11, <2>1, <2>2, <2>3, Parts DEF EventPart
  <1> QED
    BY <1>2, <1>12, <1>13

-----------------------------------------------------------------------------
(* The publisher. *)

\* What an event changes of the workers' sessions.
LEMMA Applies ==
  ASSUME Shapes, NEW e \in Events, sessions' = After(e)
  PROVE  /\ Known' \subseteq Workers /\ \A w \in Known' : sessions'[w] \subseteq Sessions
         /\ \A u \in Sessions, w \in Workers :
              Attributed(u, w)' <=>
                IF e.kind = "disconnected"
                  THEN Attributed(u, w) /\ ~ (u = e.session /\ w \in e.workers)
                  ELSE Attributed(u, w) \/ Announces(e, u, w)
  <1>1. /\ e.session \in Sessions
        /\ e.kind \in {"authorized", "share", "difficulty", "disconnected"}
        /\ e.kind \in {"authorized", "share"} => e.worker \in Workers
    BY EventFields
  <1>2. Known \subseteq Workers /\ \A w \in Known : sessions[w] \subseteq Sessions
    BY DEF Shapes
  <1>3. CASE e.kind = "authorized"
    <2> DEFINE old == IF e.worker \in Known THEN sessions[e.worker] ELSE {}
               added == old \union {e.session}
    <2>1. sessions' = Put(sessions, e.worker, added)
      BY <1>3 DEF After
    <2>2. old \subseteq Sessions /\ \A u : u \in old <=> Attributed(u, e.worker)
      BY <1>2 DEF Attributed
    <2> HIDE DEF old
    <2>3. /\ Known' = Known \union {e.worker}
          /\ \A w \in Known' : sessions'[w] = IF w = e.worker THEN added ELSE sessions[w]
      BY <2>1 DEF Put, Known
    <2>4. \A u \in Sessions, w \in Workers :
            Attributed(u, w)' <=> Attributed(u, w) \/ (u = e.session /\ w = e.worker)
      BY <2>2, <2>3 DEF Attributed
    <2> QED
      BY <1>1, <1>2, <1>3, <2>2, <2>3, <2>4 DEF Announces
  <1>4. CASE e.kind = "share"
    <2>1. CASE e.worker \in Known
      <3>1. sessions' = sessions
        BY <1>4, <2>1 DEF After
      <3> QED
        BY <1>2, <1>4, <3>1 DEF Attributed, Announces, Known
    <2>2. CASE e.worker \notin Known
      <3>1. sessions' = Put(sessions, e.worker, {})
        BY <1>4, <2>2 DEF After
      <3>2. /\ Known' = Known \union {e.worker}
            /\ \A w \in Known' : sessions'[w] = IF w = e.worker THEN {} ELSE sessions[w]
        BY <3>1 DEF Put, Known
      <3> QED
        BY <1>1, <1>2, <1>4, <2>2, <3>2 DEF Attributed, Announces
    <2> QED
      BY <2>1, <2>2
  <1>5. CASE e.kind = "disconnected"
    <2>1. sessions' = [w \in Known |-> IF w \in e.workers THEN sessions[w] \ {e.session} ELSE sessions[w]]
      BY <1>5 DEF After
    <2>2. /\ Known' = Known
          /\ \A w \in Known : sessions'[w] = IF w \in e.workers THEN sessions[w] \ {e.session}
                                                                ELSE sessions[w]
      BY <2>1 DEF Known
    <2> QED
      BY <1>2, <1>5, <2>2 DEF Attributed
  <1>6. CASE e.kind = "difficulty"
    <2>1. sessions' = sessions
      BY <1>6 DEF After
    <2> QED
      BY <1>2, <1>6, <2>1 DEF Attributed, Announces, Known
  <1> QED
    BY <1>1, <1>3, <1>4, <1>5, <1>6

\* The publisher takes the first event.
LEMMA ApplyEventKeeps == ConnectionsInv /\ ApplyEvent => ConnectionsInv'
  <1> SUFFICES ASSUME ConnectionsInv, ApplyEvent PROVE ConnectionsInv'
    OBVIOUS
  <1>1. Shapes /\ (\A u \in Sessions : EventPart(u)) /\ BlockPart
    BY Parts
  <1> DEFINE e == Head(events)
  <1>2. /\ publisher /\ events # <<>> /\ sessions' = After(e) /\ events' = Tail(events)
        /\ UNCHANGED <<connVars, blocks, snapshot, commands, removals, taskVars,
                       dropped, submitted, lostBlocks>>
    BY DEF ApplyEvent
  <1>3. /\ events' \in Seq(Events) /\ Len(events) \in Nat /\ Len(events) >= 1
        /\ Len(events') = Len(events) - 1 /\ e = events[1] /\ e \in Events
        /\ \A i \in 1 .. Len(events') : events'[i] = events[i + 1]
    BY <1>1, <1>2, Taken DEF Shapes
  <1> HIDE DEF e
  <1>4. /\ 1 \in 1 .. Len(events)
        /\ \A i \in 1 .. Len(events') : i + 1 \in 1 .. Len(events) /\ i + 1 # 1
    BY <1>3
  <1>5. ASSUME NEW i \in 1 .. Len(events), i # 1
        PROVE  i - 1 \in 1 .. Len(events') /\ events'[i - 1] = events[i]
    <2>1. i - 1 \in 1 .. Len(events') /\ (i - 1) + 1 = i
      BY <1>3, <1>5
    <2> QED
      BY <1>3, <2>1
  <1>6. /\ Known' \subseteq Workers /\ \A w \in Known' : sessions'[w] \subseteq Sessions
        /\ \A u \in Sessions, w \in Workers :
             Attributed(u, w)' <=>
               IF e.kind = "disconnected"
                 THEN Attributed(u, w) /\ ~ (u = e.session /\ w \in e.workers)
                 ELSE Attributed(u, w) \/ Announces(e, u, w)
    BY <1>1, <1>2, <1>3, Applies
  <1>7. Shapes'
    BY <1>1, <1>2, <1>3, <1>6 DEF Shapes, connVars, taskVars
  <1>8. BlockPart'
    BY <1>2, BlocksIdle DEF connVars, taskVars
  <1>9. ASSUME NEW u \in Sessions PROVE EventPart(u)'
    <2>1. EventPart(u) /\ workers[u] \subseteq Workers
      BY <1>1 DEF Shapes
    <2>2. EffectsInOrder(u)'
      BY <1>2, <2>1 DEF EventPart, EffectsInOrder, Tells, connVars
    <2>3. e.session = u => \/ Tells(u, e)
                           \/ /\ e.kind = "disconnected" /\ e.workers = workers[u] /\ at[u] = "gone"
                              /\ \A j \in (1 + 1) .. Len(events) : events[j].session # u
      BY <1>3, <1>4, <2>1 DEF EventPart, EventsInOrder
    <2>4. EventsInOrder(u)'
      <3> SUFFICES ASSUME NEW i \in 1 .. Len(events'), events'[i].session = u
                   PROVE  \/ Tells(u, events[i])'
                          \/ /\ events'[i].kind = "disconnected" /\ events'[i].workers = workers'[u]
                             /\ at'[u] = "gone"
                             /\ \A j \in (i + 1) .. Len(events') : events'[j].session # u
        BY DEF EventsInOrder
      <3>1. i + 1 \in 1 .. Len(events) /\ events'[i] = events[i + 1]
        BY <1>3, <1>4
      <3>2. CASE Tells(u, events[i + 1])
        BY <1>2, <3>1, <3>2 DEF Tells, connVars
      <3>3. CASE /\ events[i + 1].kind = "disconnected" /\ events[i + 1].workers = workers[u]
                 /\ at[u] = "gone"
                 /\ \A j \in ((i + 1) + 1) .. Len(events) : events[j].session # u
        <4>1. ASSUME NEW j \in (i + 1) .. Len(events') PROVE events'[j].session # u
          <5>1. j \in 1 .. Len(events') /\ j + 1 \in ((i + 1) + 1) .. Len(events)
            BY <1>3
          <5> QED
            BY <1>3, <3>3, <5>1
        <4> QED
          BY <1>2, <3>1, <3>3, <4>1 DEF connVars
      <3> QED
        BY <2>1, <3>1, <3>2, <3>3 DEF EventPart, EventsInOrder
    <2>5. SessionsAreTrue(u)'
      <3> SUFFICES ASSUME NEW w \in Workers, Attributed(u, w)' PROVE w \in workers[u]
        BY <1>2 DEF SessionsAreTrue, connVars
      <3>1. CASE Attributed(u, w)
        BY <2>1, <3>1 DEF EventPart, SessionsAreTrue
      <3>2. CASE Announces(e, u, w)
        BY <2>3, <3>2 DEF Announces, Tells
      <3> QED
        BY <1>6, <3>1, <3>2
    <2>6. EndIsKnown(u)'
      <3> SUFFICES ASSUME publisher, u \notin broken, at[u] = "gone"
                   PROVE  \/ \E i \in 1 .. Len(events') : /\ events'[i].session = u
                                                          /\ events'[i].kind = "disconnected"
                          \/ /\ \A i \in 1 .. Len(events') : events'[i].session # u
                             /\ \A w \in Workers : ~Attributed(u, w)'
        BY <1>2 DEF EndIsKnown, connVars, taskVars
      <3>1. ASSUME NEW i \in 1 .. Len(events), events[i].session = u, events[i].kind = "disconnected",
                   i # 1
            PROVE  \E k \in 1 .. Len(events') : events'[k].session = u /\ events'[k].kind = "disconnected"
        BY <1>5, <3>1
      <3>2. CASE e.session = u /\ e.kind = "disconnected"
        <4>1. e.workers = workers[u] /\ \A j \in (1 + 1) .. Len(events) : events[j].session # u
          BY <2>3, <3>2 DEF Tells
        <4>2. ASSUME NEW i \in 1 .. Len(events') PROVE events'[i].session # u
          <5>1. i + 1 \in (1 + 1) .. Len(events) /\ events'[i] = events[i + 1]
            BY <1>3
          <5> QED
            BY <4>1, <5>1
        <4>3. \A w \in Workers : Attributed(u, w)' => Attributed(u, w) /\ w \notin workers[u]
          BY <1>6, <3>2, <4>1
        <4> QED
          BY <2>1, <4>2, <4>3 DEF EventPart, SessionsAreTrue
      <3>3. CASE /\ \A i \in 1 .. Len(events) : events[i].session # u
                 /\ \A w \in Workers : ~Attributed(u, w)
        <4>1. e.session # u
          BY <1>3, <1>4, <3>3
        <4>2. \A w \in Workers : ~Announces(e, u, w)
          BY <4>1 DEF Announces
        <4>3. \A i \in 1 .. Len(events') : events'[i].session # u
          BY <1>3, <1>4, <3>3
        <4> QED
          BY <1>6, <3>3, <4>2, <4>3
      <3>4. \/ \E i \in 1 .. Len(events) : events[i].session = u /\ events[i].kind = "disconnected"
            \/ /\ \A i \in 1 .. Len(events) : events[i].session # u
               /\ \A w \in Workers : ~Attributed(u, w)
        BY <2>1 DEF EventPart, EndIsKnown
      <3> QED
        BY <1>3, <3>1, <3>2, <3>3, <3>4
    <2>7. WorkersAreKnown(u)'
      <3> SUFFICES ASSUME publisher, u \notin dropped, at[u] # "gone", NEW w \in workers[u]
                   PROVE  \/ Attributed(u, w)'
                          \/ \E i \in 1 .. Len(events') : Announces(events'[i], u, w)
                          \/ \E i \in 1 .. Len(fx[u].events) : Announces(fx[u].events[i], u, w)
        BY <1>2 DEF WorkersAreKnown, connVars, taskVars
      <3>1. w \in Workers
        BY <2>1
      <3>2. ~ (e.session = u /\ e.kind = "disconnected")
        BY <2>3 DEF Tells
      <3>3. CASE Attributed(u, w)
        BY <1>6, <3>1, <3>2, <3>3
      <3>4. ASSUME NEW i \in 1 .. Len(events), Announces(events[i], u, w)
            PROVE  Attributed(u, w)' \/ \E k \in 1 .. Len(events') : Announces(events'[k], u, w)
        <4>1. CASE i = 1
          <5>1. Announces(e, u, w) /\ e.kind # "disconnected"
            BY <1>3, <3>4, <4>1 DEF Announces
          <5> QED
            BY <1>6, <3>1, <5>1
        <4>2. CASE i # 1
          BY <1>5, <3>4, <4>2
        <4> QED
          BY <4>1, <4>2
      <3>5. \/ Attributed(u, w)
            \/ \E i \in 1 .. Len(events) : Announces(events[i], u, w)
            \/ \E i \in 1 .. Len(fx[u].events) : Announces(fx[u].events[i], u, w)
        BY <2>1 DEF EventPart, WorkersAreKnown
      <3> QED
        BY <3>3, <3>4, <3>5
    <2> QED
      BY <2>2, <2>4, <2>5, <2>6, <2>7 DEF EventPart
  <1> QED
    BY <1>7, <1>8, <1>9, Parts

\* The statistics lose only a worker without connections.
LEMMA RemoveWorkerKeeps == ConnectionsInv /\ RemoveWorker => ConnectionsInv'
  <1> SUFFICES ASSUME ConnectionsInv, RemoveWorker PROVE ConnectionsInv'
    OBVIOUS
  <1>1. Shapes /\ (\A u \in Sessions : EventPart(u)) /\ BlockPart
    BY Parts
  <1> DEFINE w == Head(commands)
  <1>2. /\ commands # <<>> /\ commands' = Tail(commands)
        /\ \/ sessions' = sessions
           \/ ~Connected(w) /\ sessions' = Without(sessions, w)
        /\ UNCHANGED <<connVars, events, blocks, removals, taskVars, dropped, submitted, lostBlocks>>
    BY DEF RemoveWorker, RefusesRemoval
  <1> HIDE DEF w
  <1>3. commands' \in Seq(Workers)
    BY <1>1, <1>2, Taken DEF Shapes
  <1>4. Known' \subseteq Known /\ \A v \in Known' : sessions'[v] = sessions[v]
    <2>1. CASE sessions' = sessions
      BY <2>1 DEF Known
    <2>2. CASE sessions' = Without(sessions, w)
      BY <2>2 DEF Without, Known
    <2> QED
      BY <1>2, <2>1, <2>2
  <1>5. ASSUME NEW u \in Sessions, NEW v \in Workers PROVE Attributed(u, v)' <=> Attributed(u, v)
    <2>1. CASE sessions' = sessions
      BY <2>1 DEF Attributed, Known
    <2>2. CASE ~Connected(w) /\ sessions' = Without(sessions, w)
      <3>1. Known' = Known \ {w} /\ \A x \in Known' : sessions'[x] = sessions[x]
        BY <2>2 DEF Without, Known
      <3> QED
        BY <2>2, <3>1 DEF Attributed, Connected
    <2> QED
      BY <1>2, <2>1, <2>2
  <1>6. Shapes'
    BY <1>1, <1>2, <1>3, <1>4 DEF Shapes, connVars, taskVars
  <1>7. BlockPart'
    BY <1>2, BlocksIdle DEF connVars, taskVars
  <1>8. ASSUME NEW u \in Sessions PROVE EventPart(u)'
    <2>1. EffectsInOrder(u)'
      BY <1>1, <1>2 DEF EventPart, EffectsInOrder, Tells, connVars
    <2> QED
      BY <1>2, <1>5, <2>1, EventsIdle DEF connVars, taskVars
  <1> QED
    BY <1>6, <1>7, <1>8, Parts

\* Whatever touches neither connections nor events, blocks or sessions.
LEMMA OthersKeep ==
  ASSUME ConnectionsInv, commands' \in Seq(Workers), stopping' \in BOOLEAN, publisher' \in BOOLEAN,
         listener' \in BOOLEAN, publisher' => publisher, stopping => stopping',
         UNCHANGED <<connVars, events, blocks, sessions, submitter, dropped, submitted, lostBlocks>>
  PROVE  ConnectionsInv'
  <1>1. Shapes /\ \A u \in Sessions : EventPart(u)
    BY Parts
  <1>2. Shapes'
    BY <1>1 DEF Shapes, connVars, Known
  <1>3. BlockPart'
    BY BlocksIdle DEF connVars
  <1>4. \A u \in Sessions, w \in Workers : Attributed(u, w)' <=> Attributed(u, w)
    BY DEF Attributed, Known
  <1>5. ASSUME NEW u \in Sessions PROVE EventPart(u)'
    <2>1. EffectsInOrder(u)'
      BY <1>1 DEF EventPart, EffectsInOrder, Tells, connVars
    <2> QED
      BY <1>4, <2>1, EventsIdle DEF connVars
  <1> QED
    BY <1>2, <1>3, <1>5, Parts

-----------------------------------------------------------------------------
(* The submitter. *)

\* The submitter's steps are none of the publisher's business.
LEMMA SubmitterApart ==
  ASSUME ConnectionsInv,
         UNCHANGED <<connVars, events, statVars, stopping, publisher, dropped>>
  PROVE  \A u \in Sessions : EventPart(u)'
  <1>1. \A u \in Sessions : EventPart(u)
    BY Parts
  <1>2. \A u \in Sessions, w \in Workers : Attributed(u, w)' <=> Attributed(u, w)
    BY DEF Attributed, Known, statVars
  <1>3. ASSUME NEW u \in Sessions PROVE EventPart(u)'
    <2>1. EffectsInOrder(u)'
      BY <1>1 DEF EventPart, EffectsInOrder, Tells, connVars
    <2> QED
      BY <1>2, <2>1, EventsIdle DEF connVars
  <1> QED
    BY <1>3

\* The submitter takes the first block.
LEMMA TakeBlockKeeps == ConnectionsInv /\ TakeBlock => ConnectionsInv'
  <1> SUFFICES ASSUME ConnectionsInv, TakeBlock PROVE ConnectionsInv'
    OBVIOUS
  <1>1. Shapes /\ BlockPart /\ BlocksInOnePlace /\ BlocksAreHandedOn
    BY Parts DEF BlockPart, BlocksInOnePlace
  <1> DEFINE b == Head(blocks)
  <1>2. /\ blocks # <<>> /\ submitted' = submitted \union {b} /\ blocks' = Tail(blocks)
        /\ UNCHANGED <<connVars, events, statVars, taskVars, dropped, lostBlocks>>
    BY DEF TakeBlock
  <1>3. /\ blocks' \in Seq(Block) /\ Len(blocks) \in Nat /\ Len(blocks) >= 1
        /\ Len(blocks') = Len(blocks) - 1 /\ b = blocks[1] /\ b \in Block
        /\ \A i \in 1 .. Len(blocks') : blocks'[i] = blocks[i + 1]
        /\ ToSet(blocks) = ToSet(blocks') \union {b}
    BY <1>1, <1>2, Taken DEF Shapes
  <1> HIDE DEF b
  <1>4. Shapes'
    BY <1>1, <1>2, <1>3 DEF Shapes, connVars, statVars, taskVars, Known
  <1>5. \A u \in Sessions : EventPart(u)'
    BY <1>2, SubmitterApart DEF taskVars
  <1>6. Handed' = Handed /\ WithConnections' = WithConnections
    <2>1. Handed' = Handed
      BY <1>2, <1>3 DEF Handed
    <2>2. fx' = fx
      BY <1>2 DEF connVars
    <2> QED
      BY <2>1, <2>2 DEF WithConnections
  <1>7. \A u \in Sessions : OwnBlocks(u)'
    BY <1>1, <1>2 DEF BlockPart, OwnBlocks, connVars
  <1>8. /\ DOMAIN blocks = 1 .. Len(blocks) /\ DOMAIN blocks' = 1 .. Len(blocks')
        /\ 1 \in DOMAIN blocks /\ \A i \in 1 .. Len(blocks') : i + 1 \in DOMAIN blocks
    <2>1. DOMAIN blocks = 1 .. Len(blocks) /\ DOMAIN blocks' = 1 .. Len(blocks')
      BY <1>1, <1>3, LenProperties DEF Shapes
    <2> QED
      BY <1>3, <2>1
  <1>9. IsInjective(blocks')
    <2> SUFFICES ASSUME NEW i \in 1 .. Len(blocks'), NEW j \in 1 .. Len(blocks'), blocks'[i] = blocks'[j]
                 PROVE  i = j
      BY <1>8 DEF IsInjective
    <2>1. i + 1 = j + 1
      BY <1>1, <1>3, <1>8 DEF BlocksAreHandedOn, IsInjective
    <2> QED
      BY <2>1
  <1>10. b \notin ToSet(blocks')
    <2> SUFFICES ASSUME NEW i \in 1 .. Len(blocks'), blocks'[i] = b PROVE FALSE
      BY <1>3, Waiting
    <2>1. 1 \in DOMAIN blocks /\ i + 1 \in DOMAIN blocks /\ blocks[1] = blocks[i + 1]
      BY <1>3, <1>8
    <2>2. 1 = i + 1
      BY <1>1, <2>1 DEF BlocksAreHandedOn, IsInjective
    <2> QED
      BY <2>2
  <1>11. BlocksInOnePlace'
    <2>1. submitted' \union ToSet(blocks') = submitted \union ToSet(blocks)
      BY <1>2, <1>3
    <2>2. ToSet(blocks') \intersect submitted' = {}
      BY <1>1, <1>2, <1>3, <1>10 DEF BlocksAreHandedOn
    <2>3. BlocksAreHandedOn'
      BY <1>1, <1>2, <1>6, <1>9, <2>1, <2>2 DEF BlocksAreHandedOn, connVars, taskVars
    <2> QED
      BY <1>1, <1>2, <2>3 DEF BlocksInOnePlace, connVars, taskVars
  <1> QED
    BY <1>4, <1>5, <1>7, <1>11, Parts DEF BlockPart

\* At shutdown the submitter leaves behind the blocks that wait.
LEMMA SubmitterStopsKeeps == ConnectionsInv /\ SubmitterStops => ConnectionsInv'
  <1> SUFFICES ASSUME ConnectionsInv, SubmitterStops PROVE ConnectionsInv'
    OBVIOUS
  <1>1. Shapes /\ BlockPart /\ BlocksInOnePlace /\ BlocksAreHandedOn
    BY Parts DEF BlockPart, BlocksInOnePlace
  <1>2. /\ stopping /\ ~submitter' /\ lostBlocks' = lostBlocks \union ToSet(blocks)
        /\ blocks' = <<>>
        /\ UNCHANGED <<connVars, events, statVars, stopping, listener, publisher, dropped, submitted>>
    BY DEF SubmitterStops
  <1>3. submitter' \in BOOLEAN
    BY DEF SubmitterStops
  <1>4. blocks' \in Seq(Block) /\ ToSet(blocks') = {} /\ IsInjective(blocks')
    <2>1. blocks' \in Seq(Block) /\ ToSet(blocks') = {} /\ DOMAIN blocks' = {}
      BY <1>2, EmptySeq, NobodyWaits
    <2> QED
      BY <2>1 DEF IsInjective
  <1>5. Shapes'
    <2>1. lostBlocks' \subseteq Block
      BY <1>1, <1>2, Waiting DEF Shapes
    <2> QED
      BY <1>1, <1>2, <1>3, <1>4, <2>1 DEF Shapes, connVars, statVars, Known
  <1>6. \A u \in Sessions : EventPart(u)'
    BY <1>2, SubmitterApart
  <1>7. Handed' = Handed /\ WithConnections' = WithConnections
    <2>1. Handed' = Handed
      BY <1>2, <1>4 DEF Handed
    <2>2. fx' = fx
      BY <1>2 DEF connVars
    <2> QED
      BY <2>1, <2>2 DEF WithConnections
  <1>8. \A u \in Sessions : OwnBlocks(u)'
    BY <1>1, <1>2 DEF BlockPart, OwnBlocks, connVars
  <1>9. BlocksInOnePlace'
    BY <1>1, <1>2, <1>4, <1>7 DEF BlocksInOnePlace, BlocksAreHandedOn, connVars
  <1> QED
    BY <1>5, <1>6, <1>8, <1>9, Parts DEF BlockPart

-----------------------------------------------------------------------------

LEMMA NextConnections == ConnectionsInv /\ [Next]_vars => ConnectionsInv'
  <1> SUFFICES ASSUME ConnectionsInv, [Next]_vars PROVE ConnectionsInv'
    OBVIOUS
  <1>1. commands \in Seq(Workers) /\ stopping \in BOOLEAN /\ publisher \in BOOLEAN
        /\ listener \in BOOLEAN
    BY Parts DEF Shapes
  <1>2. ASSUME NEW s \in Sessions,
               Accept(s) \/ Push(s) \/ Written(s) \/ Applied(s) \/ Leave(s)
        PROVE  ConnectionsInv'
    BY <1>2, MovesKeep, PushKeeps
  <1>3. ASSUME NEW s \in Sessions,
               WriteFails(s) \/ TrySend(s) \/ SendBlock(s) \/ SendDisconnected(s)
        PROVE  ConnectionsInv'
    BY <1>3, WriteFailsKeeps, TrySendKeeps, SendBlockKeeps, SendDisconnectedKeeps
  <1>4. ASSUME NEW s \in Sessions, NEW w \in Workers, Authorize(s, w) \/ Submit(s, w)
        PROVE  ConnectionsInv'
    BY <1>4, AuthorizeKeeps, SubmitKeepsConnections
  <1>5. CASE Publish
    BY <1>1, <1>5, OthersKeep DEF Publish, taskVars
  <1>6. CASE PublisherStops
    BY <1>1, <1>6, OthersKeep DEF PublisherStops, statVars
  <1>7. CASE RequestShutdown \/ ListenerStops
    <2>1. CASE RequestShutdown
      BY <1>1, <2>1, OthersKeep DEF RequestShutdown, statVars
    <2>2. CASE ListenerStops
      BY <1>1, <2>2, OthersKeep DEF ListenerStops, statVars
    <2> QED
      BY <1>7, <2>1, <2>2
  <1>8. ASSUME NEW w \in Workers, RequestRemoval(w) PROVE ConnectionsInv'
    <2>1. commands' \in Seq(Workers)
      BY <1>1, <1>8, Appended DEF RequestRemoval
    <2> QED
      BY <1>1, <1>8, <2>1, OthersKeep DEF RequestRemoval, taskVars
  <1>9. CASE UNCHANGED vars
    BY <1>1, <1>9, OthersKeep DEF vars, statVars, taskVars
  <1> QED
    BY <1>2, <1>3, <1>4, <1>5, <1>6, <1>7, <1>8, <1>9, ApplyEventKeeps, RemoveWorkerKeeps,
       TakeBlockKeeps, SubmitterStopsKeeps DEF Next, Connection

\* In every reachable state the statistics and the queued events together say what each
\* connection has done, and a solved block is in one place (server.rs, pool.rs, stats.rs).
THEOREM ConnectionsInvariant == Spec => []ConnectionsInv
  BY InitConnections, NextConnections, PTL DEF Spec

\* A connection that has ended is no worker's session any more once its events are applied,
\* and a live one is shown with every worker it has authorized, through any removals
\* (the publisher's event, removal and snapshot handling in pool.rs and stats.rs).
THEOREM ShownIsConnected == Spec => []ShownAsConnected
  <1>1. ConnectionsInv => ShownAsConnected
    <2> SUFFICES ASSUME ConnectionsInv PROVE ShownAsConnected
      OBVIOUS
    <2>1. Shapes /\ \A s \in Sessions : EventPart(s)
      BY Parts
    <2>2. DOMAIN events = 1 .. Len(events)
      BY <2>1, LenProperties DEF Shapes
    <2>3. NoGhostSession
      <3> SUFFICES ASSUME NEW s \in Sessions \ broken, publisher, at[s] = "gone", ~Pending(s),
                          NEW w \in Known
                   PROVE  s \notin sessions[w]
        BY DEF NoGhostSession
      <3>1. \A i \in 1 .. Len(events) : events[i].session # s
        BY <2>2 DEF Pending
      <3>2. w \in Workers /\ ~Attributed(s, w)
        BY <2>1, <3>1 DEF Shapes, EventPart, EndIsKnown
      <3> QED
        BY <3>2 DEF Attributed
    <2>4. LiveSessionKnown
      <3> SUFFICES ASSUME NEW s \in Sessions \ dropped, publisher, at[s] = "select", ~Pending(s),
                          NEW w \in workers[s]
                   PROVE  w \in Known /\ s \in sessions[w]
        BY DEF LiveSessionKnown
      <3>1. \A i \in 1 .. Len(events) : ~Announces(events[i], s, w)
        BY <2>2 DEF Pending, Announces
      <3>2. fx[s].events = <<>>
        BY <2>1 DEF EventPart, EffectsInOrder
      <3>3. Len(fx[s].events) = 0
        BY <3>2
      <3> QED
        BY <2>1, <3>1, <3>3 DEF EventPart, WorkersAreKnown, Attributed
    <2> QED
      BY <2>3, <2>4 DEF ShownAsConnected
  <1> QED
    BY <1>1, ConnectionsInvariant, PTL

\* Every solved block, of whatever chain, is with its connection, in the channel, with the
\* submitter or lost, in one of them and there once; it is lost only on a failed write or at
\* shutdown (the blocks channel of server.rs and pool.rs).
THEOREM BlocksAccountedFor == Spec => []BlocksAreHandedOn
  <1>1. ConnectionsInv => BlocksAreHandedOn
    BY DEF ConnectionsInv, BlocksInOnePlace
  <1> QED
    BY <1>1, ConnectionsInvariant, PTL

-----------------------------------------------------------------------------
(* Capacities. *)

\* What the types say beyond the shapes: the bounds of the channels, and that a worker's
\* sessions can be counted, for each event brings at most one.
Bounded ==
  /\ Len(events) <= EventCap /\ Len(blocks) <= BlockCap /\ Len(commands) <= CommandCap
  /\ removals \in 0..MaxRemovals /\ dropped \subseteq Sessions
  /\ \A w \in Known : IsFiniteSet(sessions[w])
  /\ DOMAIN snapshot \subseteq Workers /\ \A w \in DOMAIN snapshot : snapshot[w] \in Nat

LEMMA ShownCounts ==
  ASSUME NEW known, DOMAIN known \subseteq Workers, \A w \in DOMAIN known : IsFiniteSet(known[w])
  PROVE  /\ DOMAIN Shown(known) \subseteq Workers
         /\ \A w \in DOMAIN Shown(known) : Shown(known)[w] \in Nat
  BY FS_CardinalityType DEF Shown

LEMMA InitBounded == Init => Bounded
  <1> SUFFICES ASSUME Init PROVE Bounded
    OBVIOUS
  <1>1. DOMAIN <<>> = {} /\ Len(<<>>) = 0
    BY NobodyWaits, EmptySeq
  <1>3. Len(events) = 0 /\ Len(blocks) = 0 /\ Len(commands) = 0
    BY <1>1 DEF Init
  <1>4. Known = {} /\ DOMAIN snapshot = {}
    BY <1>1 DEF Init, Known
  <1> QED
    BY <1>3, <1>4, ConnectionsAssumption DEF Init, Bounded

LEMMA NextBounded ==
  ASSUME ConnectionsInv, ConnectionsInv', Bounded, [Next]_vars PROVE Bounded'
  <1>1. Shapes /\ Shapes'
    BY Parts
  <1>2. Len(events) \in Nat /\ Len(blocks) \in Nat /\ Len(commands) \in Nat
    BY <1>1, LenProperties DEF Shapes
  <1>3. ASSUME NEW s \in Sessions,
               Accept(s) \/ Written(s) \/ WriteFails(s) \/ Applied(s) \/ Leave(s)
        PROVE  Bounded'
    BY <1>3 DEF Accept, Written, WriteFails, Applied, Leave, Bounded, statVars, taskVars, Known
  <1>4. ASSUME NEW s \in Sessions, NEW evs, NEW blks, Handled(s, evs, blks)
        PROVE  Bounded'
    BY <1>4 DEF Handled, Bounded, statVars, Known
  <1>5. ASSUME NEW s \in Sessions, NEW w \in Workers, Authorize(s, w) \/ Submit(s, w)
        PROVE  Bounded'
    BY <1>4, <1>5 DEF Authorize, Submit
  <1>6. ASSUME NEW s \in Sessions, Push(s) PROVE Bounded'
    BY <1>4, <1>6 DEF Push
  <1>7. ASSUME NEW s \in Sessions, TrySend(s) PROVE Bounded'
    <2>1. Len(events') <= EventCap
      <3> DEFINE own == fx[s].events
                 e == Head(own)
      <3>1. own \in Seq(Events) /\ own # <<>>
        BY <1>1, <1>7 DEF Shapes, TrySend
      <3>2. \/ events' = events
            \/ Len(events) < EventCap /\ events' = Append(events, e)
        BY <1>7 DEF TrySend, TakesEvents
      <3> HIDE DEF own
      <3>3. e \in Events
        BY <3>1, Taken
      <3> HIDE DEF e
      <3>4. Len(Append(events, e)) = Len(events) + 1
        BY <1>1, <3>3, Appended DEF Shapes
      <3> QED
        BY <1>2, <3>2, <3>4, ConnectionsAssumption DEF Bounded
    <2>2. dropped' \subseteq Sessions
      BY <1>7 DEF TrySend, Bounded
    <2> QED
      BY <1>7, <2>1, <2>2 DEF TrySend, Bounded, statVars, Known
  <1>8. ASSUME NEW s \in Sessions, SendBlock(s) PROVE Bounded'
    <2>1. Len(blocks') <= BlockCap
      <3>1. PICK b \in fx[s].blocks :
              \/ blocks' = blocks
              \/ Len(blocks) < BlockCap /\ blocks' = Append(blocks, b)
        BY <1>8 DEF SendBlock, RoomForBlock
      <3>2. b \in Block
        BY <1>1, <3>1 DEF Shapes
      <3>3. Len(Append(blocks, b)) = Len(blocks) + 1
        BY <1>1, <3>2, Appended DEF Shapes
      <3> QED
        BY <1>2, <3>1, <3>3, ConnectionsAssumption DEF Bounded
    <2> QED
      BY <1>8, <2>1 DEF SendBlock, Bounded, statVars, Known
  <1>9. ASSUME NEW s \in Sessions, SendDisconnected(s) PROVE Bounded'
    <2>1. Len(events') <= EventCap
      <3> DEFINE e == Disconnected(s)
      <3>1. e \in Events
        BY <1>1 DEF Shapes, Disconnected, Events
      <3>2. \/ events' = events
            \/ Len(events) < EventCap /\ events' = Append(events, e)
        BY <1>9 DEF SendDisconnected
      <3> HIDE DEF e
      <3>3. Len(Append(events, e)) = Len(events) + 1
        BY <1>1, <3>1, Appended DEF Shapes
      <3> QED
        BY <1>2, <3>2, <3>3, ConnectionsAssumption DEF Bounded
    <2> QED
      BY <1>9, <2>1 DEF SendDisconnected, Bounded, statVars, Known
  <1>10. CASE ApplyEvent
    <2> DEFINE e == Head(events)
    <2>1. e \in Events /\ Len(events') <= EventCap
      BY <1>1, <1>2, <1>10, Taken, ConnectionsAssumption DEF Shapes, Bounded, ApplyEvent
    <2>2. sessions' = After(e)
      BY <1>10 DEF ApplyEvent
    <2> HIDE DEF e
    <2>3. \A w \in Known' : IsFiniteSet(sessions'[w])
      <3>1. \A w \in Known : IsFiniteSet(sessions[w])
        BY DEF Bounded
      <3>2. e.kind \in {"authorized", "share", "difficulty", "disconnected"}
        BY <2>1, EventFields
      <3>3. CASE e.kind = "authorized"
        <4> DEFINE old == IF e.worker \in Known THEN sessions[e.worker] ELSE {}
                   added == old \union {e.session}
        <4>1. sessions' = Put(sessions, e.worker, added)
          BY <2>2, <3>3 DEF After
        <4>2. IsFiniteSet(old)
          BY <3>1, FS_EmptySet
        <4> HIDE DEF old
        <4>3. IsFiniteSet(added)
          BY <4>2, FS_AddElement
        <4> HIDE DEF added
        <4> QED
          BY <3>1, <4>1, <4>3 DEF Put, Known
      <3>4. CASE e.kind = "share"
        <4>1. sessions' = sessions \/ sessions' = Put(sessions, e.worker, {})
          BY <2>2, <3>4 DEF After
        <4> QED
          BY <3>1, <4>1, FS_EmptySet DEF Put, Known
      <3>5. CASE e.kind = "disconnected"
        <4>1. sessions' = [w \in Known |->
                             IF w \in e.workers THEN sessions[w] \ {e.session} ELSE sessions[w]]
          BY <2>2, <3>5 DEF After
        <4>2. \A w \in Known : IsFiniteSet(sessions[w] \ {e.session})
          BY <3>1, FS_RemoveElement
        <4> QED
          BY <3>1, <4>1, <4>2 DEF Known
      <3>6. CASE e.kind = "difficulty"
        <4>1. sessions' = sessions
          BY <2>2, <3>6 DEF After
        <4> QED
          BY <3>1, <4>1 DEF Known
      <3> QED
        BY <3>2, <3>3, <3>4, <3>5, <3>6
    <2> QED
      BY <1>10, <2>1, <2>3 DEF ApplyEvent, Bounded, connVars
  <1>11. CASE Publish
    <2>1. DOMAIN sessions \subseteq Workers /\ \A w \in DOMAIN sessions : IsFiniteSet(sessions[w])
      BY <1>1 DEF Shapes, Bounded, Known
    <2>2. DOMAIN snapshot' \subseteq Workers /\ \A w \in DOMAIN snapshot' : snapshot'[w] \in Nat
      BY <1>11, <2>1, ShownCounts DEF Publish
    <2> QED
      BY <1>11, <2>2 DEF Publish, Bounded, connVars, Known
  <1>12. ASSUME NEW w \in Workers, RequestRemoval(w) PROVE Bounded'
    <2>1. Len(commands') = Len(commands) + 1 /\ Len(commands) < CommandCap
      BY <1>1, <1>12, Appended DEF Shapes, RequestRemoval
    <2>2. removals' \in 0..MaxRemovals
      BY <1>12, ConnectionsAssumption DEF RequestRemoval, Bounded
    <2>3. Len(commands') <= CommandCap
      BY <1>2, <2>1, ConnectionsAssumption
    <2> QED
      BY <1>12, <2>2, <2>3 DEF RequestRemoval, Bounded, connVars, Known
  <1>13. CASE RemoveWorker
    <2>1. Len(commands') <= CommandCap
      BY <1>1, <1>2, <1>13, Taken, ConnectionsAssumption DEF Shapes, Bounded, RemoveWorker
    <2>2. \/ UNCHANGED <<sessions, snapshot>>
          \/ (sessions' = sessions \/ \E w : sessions' = Without(sessions, w)) /\ snapshot' = Shown(sessions')
      BY <1>13 DEF RemoveWorker
    <2>3. \A w \in Known' : IsFiniteSet(sessions'[w])
      BY <2>2 DEF Bounded, Without, Known
    <2>4. DOMAIN sessions' \subseteq Workers /\ \A w \in DOMAIN sessions' : IsFiniteSet(sessions'[w])
      BY <1>1, <2>3 DEF Shapes, Known
    <2>5. DOMAIN snapshot' \subseteq Workers /\ \A w \in DOMAIN snapshot' : snapshot'[w] \in Nat
      <3> DEFINE after == sessions'
      <3>1. DOMAIN after \subseteq Workers /\ \A w \in DOMAIN after : IsFiniteSet(after[w])
        BY <2>4
      <3>2. UNCHANGED snapshot \/ snapshot' = Shown(after)
        BY <2>2
      <3> HIDE DEF after
      <3> QED
        BY <3>1, <3>2, ShownCounts DEF Bounded
    <2> QED
      BY <1>13, <2>1, <2>3, <2>5 DEF RemoveWorker, Bounded, connVars
  <1>14. CASE TakeBlock
    <2>1. Len(blocks') <= BlockCap
      BY <1>1, <1>2, <1>14, Taken, ConnectionsAssumption DEF Shapes, Bounded, TakeBlock
    <2> QED
      BY <1>14, <2>1 DEF TakeBlock, Bounded, connVars, statVars, Known
  <1>15. CASE SubmitterStops
    <2>1. Len(blocks') = 0
      BY <1>15, NobodyWaits DEF SubmitterStops
    <2> QED
      BY <1>15, <2>1, ConnectionsAssumption DEF SubmitterStops, Bounded, connVars, statVars, Known
  <1>16. CASE PublisherStops \/ ListenerStops \/ RequestShutdown \/ UNCHANGED vars
    BY <1>16 DEF PublisherStops, ListenerStops, RequestShutdown, vars, Bounded, connVars, statVars, Known
  <1> QED
    BY <1>3, <1>5, <1>6, <1>7, <1>8, <1>9, <1>10, <1>11, <1>12, <1>13, <1>14, <1>15, <1>16
       DEF Next, Connection

\* Connections, channels and tables keep their types, no channel ever holds more than its
\* capacity, and the snapshot's counts are numbers although the model bounds no one's sessions
\* (server.rs, pool.rs, stats.rs).
THEOREM TypesKept == Spec => []TypeOK
  <1>1. ConnectionsInv /\ Bounded => TypeOK
    <2> SUFFICES ASSUME Shapes, Bounded PROVE TypeOK
      BY Parts
    <2>1. \A s \in Sessions : fx[s].events \in Seq(Events) /\ fx[s].blocks \subseteq Block
      BY DEF Shapes
    <2> QED
      BY <2>1 DEF Shapes, Places, Bounded, TypeOK
  <1>2. Init => ConnectionsInv /\ Bounded
    BY InitConnections, InitBounded
  <1>3. ConnectionsInv /\ Bounded /\ [Next]_vars => (ConnectionsInv /\ Bounded)'
    BY NextConnections, NextBounded
  <1> QED
    BY <1>1, <1>2, <1>3, PTL DEF Spec

-----------------------------------------------------------------------------
(* Induction over the numbers, in a form without an operator parameter. *)

Below == {p \in Nat \X Nat : p[1] < p[2]}

\* Every set of numbers has a least one.
LEMMA LeastNumber ==
  ASSUME NEW N, N \subseteq Nat, N # {}
  PROVE  \E x \in N : \A y \in N : x <= y
  <1>1. IsWellFoundedOn(Below, Nat)
    BY NatLessThanWellFounded DEF OpToRel, Below
  <1>2. PICK x \in N : \A y \in N : ~ (<<y, x>> \in Below)
    BY <1>1, WFMin
  <1>3. \A y \in N : ~ (y < x)
    BY <1>2 DEF Below
  <1> QED
    BY <1>3

\* A set with 0 and every successor has all the numbers.
LEMMA NumberInduction ==
  ASSUME NEW N, 0 \in N, \A n \in Nat : n \in N => n + 1 \in N
  PROVE  Nat \subseteq N
  <1> SUFFICES ASSUME Nat \ N # {}
               PROVE  FALSE
    OBVIOUS
  <1>1. PICK x \in Nat \ N : \A y \in Nat \ N : x <= y
    BY LeastNumber
  <1>2. x # 0 /\ x - 1 \in Nat
    BY <1>1
  <1>3. x - 1 \in N
    BY <1>1, <1>2
  <1> QED
    BY <1>1, <1>2, <1>3

-----------------------------------------------------------------------------
(* What Work computes. *)

Adds(s, w, n) ==
  w = [i \in 0..n |-> IF i = 0 THEN 0 ELSE w[i - 1] + s[i].difficulty]

\* The recursion of Work has a solution, which Work then takes.
LEMMA SumsExist ==
  ASSUME NEW s, NEW len \in Nat
  PROVE  \E w : Adds(s, w, len)
  <1> DEFINE N == {n \in Nat : \E w : Adds(s, w, n)}
  <1>1. 0 \in N
    <2> DEFINE w == [i \in 0..0 |-> 0]
    <2>1. Adds(s, w, 0)
      BY DEF Adds
    <2> QED
      BY <2>1
  <1>2. ASSUME NEW n \in Nat, n \in N
        PROVE  n + 1 \in N
    <2>1. PICK w : Adds(s, w, n)
      BY <1>2
    <2> DEFINE longer == [i \in 0..(n + 1) |-> IF i = n + 1 THEN w[n] + s[n + 1].difficulty ELSE w[i]]
    <2>2. Adds(s, longer, n + 1)
      <3>1. \A i \in 0..n : longer[i] = IF i = 0 THEN 0 ELSE longer[i - 1] + s[i].difficulty
        BY <2>1 DEF Adds
      <3>2. longer[n + 1] = longer[n] + s[n + 1].difficulty
        OBVIOUS
      <3>3. longer = [i \in 0..(n + 1) |-> IF i = 0 THEN 0 ELSE longer[i - 1] + s[i].difficulty]
        BY <3>1, <3>2
      <3> QED
        BY <3>3 DEF Adds
    <2> QED
      BY <2>2
  <1>3. Nat \subseteq N
    <2> HIDE DEF N
    <2> QED
      BY <1>1, <1>2, NumberInduction
  <1> QED
    BY <1>3

\* Work is the last of the sums, which are numbers.
LEMMA WorkIsSum ==
  ASSUME NEW D, NEW s \in Seq(D), \A d \in D : d.difficulty \in Nat
  PROVE  \E w \in [0..Len(s) -> Nat] :
           /\ w[0] = 0
           /\ \A i \in 1..Len(s) : w[i] = w[i - 1] + s[i].difficulty
           /\ Work(s) = w[Len(s)]
  <1> DEFINE w == CHOOSE v : Adds(s, v, Len(s))
  <1>1. Len(s) \in Nat /\ \A i \in 1..Len(s) : s[i].difficulty \in Nat
    BY LenProperties, ElementOfSeq
  <1>2. Adds(s, w, Len(s))
    BY <1>1, SumsExist, Zenon
  <1>3. Work(s) = w[Len(s)]
    BY DEF Work, Adds
  <1>4. /\ w[0] = 0
        /\ \A i \in 1..Len(s) : w[i] = w[i - 1] + s[i].difficulty
        /\ DOMAIN w = 0..Len(s)
    <2> HIDE DEF w
    <2> QED
      BY <1>1, <1>2 DEF Adds
  <1> HIDE DEF w
  <1>5. \A i \in 0..Len(s) : w[i] \in Nat
    <2> DEFINE N == {n \in Nat : n <= Len(s) => w[n] \in Nat}
    <2>1. 0 \in N
      BY <1>4
    <2>2. \A n \in Nat : n \in N => n + 1 \in N
      BY <1>1, <1>4
    <2>3. Nat \subseteq N
      <3> HIDE DEF N
      <3> QED
        BY <2>1, <2>2, NumberInduction
    <2> QED
      BY <1>1, <2>3
  <1>6. w \in [0..Len(s) -> Nat]
    <2>1. w = [i \in 0..Len(s) |-> w[i]]
      BY <1>2 DEF Adds
    <2> QED
      BY <1>5, <2>1
  <1> QED
    BY <1>3, <1>4, <1>6

LEMMA WorkType ==
  ASSUME NEW D, NEW s \in Seq(D), \A d \in D : d.difficulty \in Nat
  PROVE  /\ Work(s) \in Nat
         /\ s = <<>> => Work(s) = 0
  <1>1. PICK w \in [0..Len(s) -> Nat] : w[0] = 0 /\ Work(s) = w[Len(s)]
    BY WorkIsSum
  <1> QED
    BY <1>1, LenProperties

\* The last shares of a sequence are at most the work of all of them.
LEMMA WorkOfLast ==
  ASSUME NEW D, NEW s \in Seq(D), NEW a \in Seq(D), \A d \in D : d.difficulty \in Nat,
         Len(s) <= Len(a),
         \A j \in 0..(Len(s) - 1) : s[Len(s) - j] = a[Len(a) - j]
  PROVE  Work(s) <= Work(a)
  <1>1. PICK v \in [0..Len(s) -> Nat] :
           /\ v[0] = 0
           /\ \A i \in 1..Len(s) : v[i] = v[i - 1] + s[i].difficulty
           /\ Work(s) = v[Len(s)]
    BY WorkIsSum
  <1>2. PICK w \in [0..Len(a) -> Nat] :
           /\ \A i \in 1..Len(a) : w[i] = w[i - 1] + a[i].difficulty
           /\ Work(a) = w[Len(a)]
    BY WorkIsSum
  <1>3. Len(s) \in Nat /\ Len(a) \in Nat
    BY LenProperties
  <1> DEFINE skipped == Len(a) - Len(s)
             N == {n \in Nat : n <= Len(s) => v[n] <= w[skipped + n]}
  <1>4. \A i \in 1..Len(s) : s[i] = a[skipped + i] /\ s[i].difficulty \in Nat
    <2> SUFFICES ASSUME NEW i \in 1..Len(s)
                 PROVE  s[i] = a[skipped + i] /\ s[i].difficulty \in Nat
      OBVIOUS
    <2>1. Len(s) - i \in 0..(Len(s) - 1) /\ Len(s) - (Len(s) - i) = i
          /\ Len(a) - (Len(s) - i) = skipped + i
      BY <1>3
    <2> QED
      BY <2>1, ElementOfSeq
  <1>5. skipped \in Nat /\ skipped + Len(s) = Len(a)
    BY <1>3
  <1> HIDE DEF skipped
  <1>6. v[0] <= w[skipped + 0]
    <2>1. skipped + 0 \in 0..Len(a)
      BY <1>3, <1>5
    <2>2. w[skipped + 0] \in Nat
      BY <2>1
    <2> QED
      BY <1>1, <2>2
  <1>7. ASSUME NEW n \in Nat, v[n] <= w[skipped + n], n + 1 <= Len(s)
        PROVE  v[n + 1] <= w[skipped + (n + 1)]
    <2>1. /\ n + 1 \in 1..Len(s) /\ n \in 0..Len(s)
          /\ skipped + (n + 1) \in 1..Len(a) /\ skipped + n \in 0..Len(a)
          /\ (skipped + (n + 1)) - 1 = skipped + n
      BY <1>3, <1>5, <1>7
    <2>2. v[n + 1] = v[n] + s[n + 1].difficulty
      BY <1>1, <2>1
    <2>3. w[skipped + (n + 1)] = w[skipped + n] + a[skipped + (n + 1)].difficulty
      BY <1>2, <2>1
    <2>4. s[n + 1] = a[skipped + (n + 1)] /\ s[n + 1].difficulty \in Nat
      BY <1>4, <2>1
    <2>5. v[n] \in Nat /\ w[skipped + n] \in Nat
      BY <2>1
    <2> QED
      BY <1>7, <2>2, <2>3, <2>4, <2>5
  <1>8. v[Len(s)] <= w[skipped + Len(s)]
    <2>1. 0 \in N
      BY <1>6
    <2>2. ASSUME NEW n \in Nat, n \in N
          PROVE  n + 1 \in N
      <3>1. n + 1 <= Len(s) => v[n] <= w[skipped + n]
        BY <1>3, <2>2
      <3> QED
        BY <1>7, <3>1
    <2>3. Nat \subseteq N
      <3> HIDE DEF N
      <3> QED
        BY <2>1, <2>2, NumberInduction
    <2> QED
      BY <1>3, <2>3
  <1> QED
    BY <1>1, <1>2, <1>3, <1>5, <1>8

-----------------------------------------------------------------------------
(* The inductive invariant, in named parts. *)

RateShapes ==
  /\ cfg \in Configs
  /\ difficulty \in cfg.min_difficulty..cfg.max_difficulty
  /\ job \in cfg.min_difficulty..cfg.max_difficulty
  /\ shares \in Seq(Shares) /\ all \in Seq(Shares)
  /\ Len(shares) <= cfg.MAX_WINDOW_SHARES
  /\ age \in 0..Window /\ sinceChange \in 0..RetargetTime
  /\ thisTick \in 0..MaxPerTick
  /\ moved \in {"no", "suggested", "measured", "quiet"}

InWindow(a) == \A i \in 1..Len(a) : a[i].age <= Window

\* The remembered shares s end like those of the window, a, and begin with outdated ones or none.
Remembers(s, a) ==
  /\ \A j \in 0..(Len(s) - 1) : j < Len(a) => s[Len(s) - j] = a[Len(a) - j]
  /\ \A i \in 1..(Len(s) - Len(a)) : s[i].age > Window
  /\ a # <<>> => s # <<>>

\* The shares are in the order they came in.
Ordered(a) == \A i, j \in 1..Len(a) : i <= j => a[j].age <= a[i].age

\* No more shares have come since a share of the window than its age allows.
Paced == \A i \in 1..Len(all) : Len(all) - i + 1 <= MaxPerTick * all[i].age + thisTick

\* The memory has room for every share of a window.
Roomy(c) == MaxPerTick * (c.retarget_seconds * c.WINDOW_RETARGETS + 1) <= c.MAX_WINDOW_SHARES
Complete == Roomy(cfg) => Len(all) <= Len(shares)

RateInv ==
  RateShapes /\ InWindow(all) /\ Ordered(all) /\ Remembers(shares, all) /\ Paced /\ Complete

-----------------------------------------------------------------------------
(* The configuration and the operators. *)

LEMMA Numbers ==
  ASSUME cfg \in Configs
  PROVE  /\ cfg.min_difficulty \in Nat \ {0} /\ cfg.max_difficulty \in Nat
         /\ cfg.min_difficulty <= cfg.max_difficulty
         /\ cfg.initial_difficulties \subseteq cfg.min_difficulty..cfg.max_difficulty
         /\ TargetTime \in Nat \ {0} /\ RetargetTime \in Nat \ {0}
         /\ cfg.WINDOW_RETARGETS \in Nat \ {0} /\ cfg.MAX_WINDOW_SHARES \in Nat \ {0}
         /\ cfg.variance_percent \in Nat /\ cfg.MIN_SHARES_TO_RAISE \in Nat
         /\ Window \in Nat /\ MaxPerTick \in Nat
  <1>1. cfg \in Config /\ MaxPerTick \in Nat /\ cfg.min_difficulty <= cfg.max_difficulty
        /\ cfg.initial_difficulties \subseteq cfg.min_difficulty..cfg.max_difficulty
    BY VardiffAssumption
  <1>2. cfg.retarget_seconds * cfg.WINDOW_RETARGETS \in Nat
    <2>1. \A m, n \in Nat : m * n \in Nat
      OBVIOUS
    <2>2. cfg.retarget_seconds \in Nat /\ cfg.WINDOW_RETARGETS \in Nat
      BY <1>1 DEF Config
    <2> QED
      BY <2>1, <2>2
  <1> QED
    BY <1>1, <1>2 DEF Config, TargetTime, RetargetTime, Window

LEMMA Clamps ==
  ASSUME cfg \in Configs, NEW d \in Int
  PROVE  /\ Clamp(d) \in cfg.min_difficulty..cfg.max_difficulty
         /\ Clamp(d) > cfg.min_difficulty => Clamp(d) <= d
         /\ Clamp(d) < cfg.max_difficulty => Clamp(d) >= d
  BY Numbers DEF Clamp, AtMost, AtLeast

LEMMA Spans ==
  ASSUME cfg \in Configs, age \in 0..Window
  PROVE  Span \in Nat \ {0} /\ Span = IF age = 0 THEN 1 ELSE age
  <1>1. Window \in Nat /\ age \in Nat /\ age <= Window
    BY Numbers
  <1>2. AtMost(age, Window) = age
    BY <1>1 DEF AtMost
  <1> QED
    BY <1>1, <1>2 DEF Span, AtLeast

LEMMA SharesHaveDifficulties ==
  ASSUME cfg \in Configs
  PROVE  \A d \in Shares : d.difficulty \in Nat /\ d.age \in Nat
  BY Numbers DEF Shares

\* The shares that trimming leaves are the last ones, from the first that is not outdated.
LEMMA TrimStart ==
  ASSUME cfg \in Configs, NEW s \in Seq(Shares)
  PROVE  /\ From(s, Window) \in 1..(Len(s) + 1)
         /\ From(s, Window) <= Len(s) => s[From(s, Window)].age <= Window
         /\ \A j \in 1..(From(s, Window) - 1) : s[j].age > Window
  <1>1. Len(s) \in Nat /\ \A i \in 1..Len(s) : s[i].age \in Nat
    BY LenProperties, ElementOfSeq, SharesHaveDifficulties
  <1>2. Window \in Nat
    BY Numbers
  <1> DEFINE Stops == {i \in 1..(Len(s) + 1) : i <= Len(s) => s[i].age <= Window}
  <1>3. Stops \subseteq Nat /\ Len(s) + 1 \in Stops
    BY <1>1
  <1>4. PICK first \in Stops : \A i \in Stops : first <= i
    <2> HIDE DEF Stops
    <2> QED
      BY <1>3, LeastNumber
  <1>5. \A j \in 1..(first - 1) : s[j].age > Window
    <2> SUFFICES ASSUME NEW j \in 1..(first - 1), ~ (s[j].age > Window)
                 PROVE  FALSE
      OBVIOUS
    <2>1. j \in 1..Len(s) /\ s[j].age \in Nat
      BY <1>1, <1>4
    <2>2. j \in Stops
      BY <1>1, <1>2, <2>1
    <2> QED
      BY <1>1, <1>4, <2>1, <2>2
  <1>6. \E i \in 1..(Len(s) + 1) :
          (i <= Len(s) => s[i].age <= Window) /\ \A j \in 1..(i - 1) : s[j].age > Window
    BY <1>4, <1>5
  <1> QED
    BY <1>6 DEF From

LEMMA TrimRemembers ==
  ASSUME cfg \in Configs, NEW s \in Seq(Shares), NEW a \in Seq(Shares),
         InWindow(a), Remembers(s, a)
  PROVE  /\ Trimmed(s) \in Seq(Shares) /\ Remembers(Trimmed(s), a)
         /\ Len(Trimmed(s)) <= Len(a) /\ Len(Trimmed(s)) <= Len(s)
         /\ Len(a) <= Len(s) => Len(Trimmed(s)) = Len(a)
  <1> DEFINE f == From(s, Window)
             t == Trimmed(s)
  <1>1. Len(s) \in Nat /\ Len(a) \in Nat /\ \A i \in 1..Len(s) : s[i] \in Shares /\ s[i].age \in Nat
    BY LenProperties, ElementOfSeq, SharesHaveDifficulties
  <1>2. Window \in Nat
    BY Numbers
  <1>3. /\ f \in 1..(Len(s) + 1)
        /\ f <= Len(s) => s[f].age <= Window
        /\ \A j \in 1..(f - 1) : s[j].age > Window
    BY TrimStart
  <1>4. /\ t \in Seq(Shares) /\ Len(t) = Len(s) - f + 1
        /\ \A i \in 1..Len(t) : t[i] = s[f + i - 1]
    <2>1. f \in Int /\ Len(s) \in Int /\ \A i \in f..Len(s) : s[i] \in Shares
      BY <1>1, <1>3
    <2>2. /\ t \in Seq(Shares)
          /\ Len(t) = IF f <= Len(s) THEN Len(s) - f + 1 ELSE 0
          /\ \A i \in 1..(Len(s) - f + 1) : t[i] = s[f + i - 1]
      <3> HIDE DEF f
      <3> QED
        BY <2>1, SubSeqProperties DEF Trimmed, f
    <2>3. Len(t) = Len(s) - f + 1
      BY <1>1, <1>3, <2>2
    <2> QED
      BY <2>2, <2>3
  <1> HIDE DEF f, t
  \* What is cut off is outdated, and what is outdated is cut off.
  <1>5. f > Len(s) - Len(a)
    <2>1. CASE f <= Len(s)
      <3>1. ~ (s[f].age > Window)
        BY <1>1, <1>2, <1>3, <2>1
      <3> QED
        BY <1>1, <1>3, <2>1, <3>1 DEF Remembers
    <2>2. CASE f > Len(s)
      BY <1>1, <1>3, <2>2
    <2> QED
      BY <1>1, <1>3, <2>1, <2>2
  <1>6. ASSUME NEW j \in 0..(Len(s) - 1), j < Len(a)
        PROVE  Len(s) - j >= f
    <2> SUFFICES ASSUME Len(s) - j < f
                 PROVE  FALSE
      BY <1>1, <1>3
    <2>1. Len(s) - j \in 1..(f - 1) /\ Len(a) - j \in 1..Len(a)
      BY <1>1, <1>3, <1>6
    <2>2. s[Len(s) - j].age > Window
      BY <1>3, <2>1
    <2>3. s[Len(s) - j] = a[Len(a) - j]
      BY <1>6 DEF Remembers
    <2>4. a[Len(a) - j].age <= Window /\ a[Len(a) - j].age \in Nat
      BY <2>1, ElementOfSeq, SharesHaveDifficulties DEF InWindow
    <2> QED
      BY <1>2, <2>2, <2>3, <2>4
  <1>7. Len(t) <= Len(a) /\ Len(t) <= Len(s)
    BY <1>1, <1>3, <1>4, <1>5
  <1>8. Len(a) <= Len(s) => Len(t) = Len(a)
    <2> SUFFICES ASSUME Len(a) <= Len(s), Len(t) < Len(a)
                 PROVE  FALSE
      BY <1>1, <1>4, <1>7, LenProperties
    <2>1. Len(a) - 1 \in 0..(Len(s) - 1) /\ Len(a) - 1 < Len(a)
      BY <1>1, <1>3, <1>4
    <2>2. Len(s) - (Len(a) - 1) >= f
      BY <1>6, <2>1
    <2> QED
      BY <1>1, <1>3, <1>4, <2>2
  <1>9. ASSUME NEW j \in 0..(Len(t) - 1), j < Len(a)
        PROVE  t[Len(t) - j] = a[Len(a) - j]
    <2>1. Len(t) - j \in 1..Len(t) /\ f + (Len(t) - j) - 1 = Len(s) - j /\ j \in 0..(Len(s) - 1)
      BY <1>1, <1>3, <1>4
    <2>2. t[Len(t) - j] = s[Len(s) - j]
      BY <1>4, <2>1
    <2> QED
      BY <1>9, <2>1, <2>2 DEF Remembers
  <1>10. a # <<>> => t # <<>>
    <2> SUFFICES ASSUME a # <<>>
                 PROVE  Len(t) > 0
      BY <1>4, EmptySeq
    <2>1. Len(a) > 0 /\ Len(s) > 0
      BY EmptySeq DEF Remembers
    <2>2. Len(s) - 0 >= f
      BY <1>1, <1>6, <2>1
    <2> QED
      BY <1>1, <1>3, <1>4, <2>2
  <1>11. Remembers(t, a)
    BY <1>1, <1>4, <1>7, <1>9, <1>10 DEF Remembers
  <1> QED
    BY <1>4, <1>7, <1>8, <1>11 DEF t

-----------------------------------------------------------------------------
(* What evaluate proposes. *)

LEMMA Quotients ==
  ASSUME NEW a \in Nat, NEW b \in Nat \ {0}
  PROVE  /\ a \div b \in Nat
         /\ \A d \in Nat : a \div b < d => a < d * b
         /\ \A d \in Nat : a \div b > d => a > d * b
  <1> DEFINE q == a \div b
  <1>1. q \in Nat /\ q * b <= a /\ a < q * b + b
    <2>1. q \in Int /\ a % b \in 0..(b - 1) /\ a = b * q + (a % b)
      OBVIOUS
    <2> QED
      BY <2>1
  <1> HIDE DEF q
  <1>2. ASSUME NEW d \in Nat, q < d
        PROVE  a < d * b
    <2>1. (q + 1) * b <= d * b
      BY <1>1, <1>2
    <2>2. (q + 1) * b = q * b + b
      BY <1>1
    <2> QED
      BY <1>1, <2>1, <2>2
  <1>3. ASSUME NEW d \in Nat, q > d
        PROVE  a > d * b
    <2>1. (d + 1) * b <= q * b
      BY <1>1, <1>3
    <2>2. (d + 1) * b = d * b + b
      BY <1>1
    <2> QED
      BY <1>1, <2>1, <2>2
  <1> QED
    BY <1>1, <1>2, <1>3 DEF q

\* The three outcomes of evaluate: the quiet step, no reason to move, and the measured step.
Estimate(s) == (Work(s) * TargetTime) \div Span
Measured(s) == AtMost(AtLeast(Estimate(s), difficulty \div MaxStep), difficulty * MaxStep)

LEMMA Outcomes ==
  ASSUME RateShapes, NEW s \in Seq(Shares)
  PROVE  /\ Work(s) \in Nat /\ Estimate(s) \in Nat
         /\ \/ s = <<>> /\ Proposed(s) = Clamp(difficulty \div QuietStep)
            \/ s # <<>> /\ Proposed(s) = difficulty
            \/ s # <<>> /\ Proposed(s) = Clamp(Measured(s))
  <1>1. Work(s) \in Nat
    BY WorkType, SharesHaveDifficulties DEF RateShapes
  <1>2. TargetTime \in Nat /\ Span \in Nat \ {0}
    BY Numbers, Spans DEF RateShapes
  <1>3. Work(s) * TargetTime \in Nat
    BY <1>1, <1>2
  <1> QED
    BY <1>1, <1>2, <1>3, Quotients DEF Proposed, Measured, Estimate

LEMMA Steps ==
  ASSUME RateShapes
  PROVE  /\ difficulty \in Nat \ {0}
         /\ difficulty \div QuietStep \in Nat /\ difficulty \div QuietStep <= difficulty
         /\ difficulty \div MaxStep \in Nat /\ difficulty \div MaxStep < difficulty
  <1>1. difficulty \in Nat \ {0}
    BY Numbers DEF RateShapes
  <1> QED
    BY <1>1 DEF QuietStep, MaxStep

LEMMA ProposedType ==
  ASSUME RateShapes, NEW s \in Seq(Shares)
  PROVE  Proposed(s) \in cfg.min_difficulty..cfg.max_difficulty
  <1>1. difficulty \in Nat /\ difficulty \div QuietStep \in Int /\ difficulty \div MaxStep \in Int
    BY Steps
  <1>2. Estimate(s) \in Nat
    BY Outcomes
  <1>3. Measured(s) \in Int
    BY <1>1, <1>2 DEF Measured, AtMost, AtLeast, MaxStep
  <1> QED
    BY <1>1, <1>3, Outcomes, Clamps DEF RateShapes

LEMMA RaisesOnSurplus ==
  ASSUME RateShapes, NEW s \in Seq(Shares), Proposed(s) > difficulty
  PROVE  Work(s) * TargetTime > difficulty * Span
  <1>1. difficulty \in Nat \ {0} /\ difficulty \div QuietStep \in Nat /\ difficulty \div MaxStep \in Nat
        /\ difficulty \div QuietStep <= difficulty /\ difficulty \div MaxStep < difficulty
    BY Steps
  <1>2. Estimate(s) \in Nat /\ Work(s) \in Nat
    BY Outcomes
  <1>3. Measured(s) \in Int
    BY <1>1, <1>2 DEF Measured, AtMost, AtLeast, MaxStep
  <1>4. difficulty \in cfg.min_difficulty..cfg.max_difficulty /\ cfg \in Configs
    BY DEF RateShapes
  <1>5. s # <<>> /\ Proposed(s) = Clamp(Measured(s))
    <2> DEFINE quarter == difficulty \div QuietStep
    <2>1. /\ Clamp(quarter) \in cfg.min_difficulty..cfg.max_difficulty
          /\ Clamp(quarter) > cfg.min_difficulty => Clamp(quarter) <= quarter
      <3>1. quarter \in Int
        BY <1>1
      <3> HIDE DEF quarter
      <3> QED
        BY <1>4, <3>1, Clamps
    <2>2. Clamp(difficulty \div QuietStep) <= difficulty
      BY <1>1, <1>4, <2>1, Numbers
    <2>3. Proposed(s) # Clamp(difficulty \div QuietStep) /\ Proposed(s) # difficulty
      BY <1>1, <1>4, <2>1, <2>2, Numbers
    <2> QED
      BY <2>3, Outcomes
  <1>6. Measured(s) > difficulty
    <2>1. /\ Clamp(Measured(s)) \in cfg.min_difficulty..cfg.max_difficulty
          /\ Clamp(Measured(s)) > cfg.min_difficulty => Clamp(Measured(s)) <= Measured(s)
      BY <1>3, <1>4, Clamps
    <2> QED
      BY <1>1, <1>3, <1>4, <1>5, <2>1, Numbers
  <1>7. Estimate(s) > difficulty
    BY <1>1, <1>2, <1>6 DEF Measured, AtMost, AtLeast, MaxStep
  <1>8. Work(s) * TargetTime \in Nat /\ Span \in Nat \ {0}
    BY <1>2, Numbers, Spans, SMTT(20) DEF RateShapes
  <1> QED
    BY <1>1, <1>7, <1>8, Quotients DEF Estimate

LEMMA LowersOnDeficit ==
  ASSUME RateShapes, NEW s \in Seq(Shares), Proposed(s) < difficulty
  PROVE  Work(s) * TargetTime <= difficulty * Span
  <1>1. difficulty \in Nat \ {0} /\ difficulty \div MaxStep \in Nat
        /\ difficulty \div MaxStep < difficulty
    BY Steps
  <1>2. Estimate(s) \in Nat /\ Work(s) \in Nat
    BY Outcomes
  <1>3. TargetTime \in Nat /\ Span \in Nat \ {0}
    BY Numbers, Spans DEF RateShapes
  <1>4. CASE s = <<>>
    <2>1. Work(s) = 0
      BY <1>4, WorkType, SharesHaveDifficulties DEF RateShapes
    <2>2. difficulty * Span \in Nat /\ 0 * TargetTime = 0
      BY <1>1, <1>3
    <2> QED
      BY <2>1, <2>2
  <1>5. CASE s # <<>>
    <2>1. Proposed(s) = Clamp(Measured(s))
      BY <1>1, <1>5, Outcomes
    <2>2. Measured(s) \in Int
      BY <1>1, <1>2 DEF Measured, AtMost, AtLeast, MaxStep
    <2>3. difficulty <= cfg.max_difficulty /\ cfg \in Configs /\ cfg.max_difficulty \in Nat
      BY Numbers DEF RateShapes
    <2>4. Measured(s) < difficulty
      <3>1. /\ Clamp(Measured(s)) \in cfg.min_difficulty..cfg.max_difficulty
            /\ Clamp(Measured(s)) < cfg.max_difficulty => Clamp(Measured(s)) >= Measured(s)
        BY <2>2, <2>3, Clamps
      <3> QED
        BY <1>1, <2>1, <2>2, <2>3, <3>1, Numbers
    <2>5. Estimate(s) < difficulty
      BY <1>1, <1>2, <2>4 DEF Measured, AtMost, AtLeast, MaxStep
    <2>6. Work(s) * TargetTime \in Nat
      BY <1>2, <1>3
    <2>7. Work(s) * TargetTime < difficulty * Span
      BY <1>1, <1>3, <2>5, <2>6, Quotients DEF Estimate
    <2>8. difficulty * Span \in Nat
      BY <1>1, <1>3
    <2> QED
      BY <2>6, <2>7, <2>8
  <1> QED
    BY <1>4, <1>5

LEMMA FallsFarWhenQuiet ==
  ASSUME RateShapes, NEW s \in Seq(Shares), Proposed(s) < difficulty \div MaxStep
  PROVE  s = <<>>
  <1> SUFFICES ASSUME s # <<>>
               PROVE  FALSE
    OBVIOUS
  <1>1. difficulty \in Nat \ {0} /\ difficulty \div MaxStep \in Nat
        /\ difficulty \div MaxStep < difficulty
    BY Steps
  <1>2. Estimate(s) \in Nat
    BY Outcomes
  <1>3. Proposed(s) = Clamp(Measured(s))
    BY <1>1, ProposedType, Outcomes
  <1>4. Measured(s) \in Int /\ Measured(s) >= difficulty \div MaxStep
    BY <1>1, <1>2 DEF Measured, AtMost, AtLeast, MaxStep
  <1>5. difficulty <= cfg.max_difficulty /\ cfg \in Configs /\ cfg.max_difficulty \in Nat
        /\ cfg.min_difficulty \in Nat
    BY Numbers DEF RateShapes
  <1>6. Clamp(Measured(s)) < cfg.max_difficulty
    BY <1>1, <1>3, <1>5, ProposedType
  <1>7. Clamp(Measured(s)) >= Measured(s)
    BY <1>4, <1>5, <1>6, Clamps
  <1> QED
    BY <1>1, <1>3, <1>4, <1>7, ProposedType, <1>5

-----------------------------------------------------------------------------
(* The inductive steps. *)

LEMMA InitInv == VardiffInit => RateInv
  <1> SUFFICES ASSUME VardiffInit
               PROVE  RateInv
    OBVIOUS
  <1>1. cfg \in Configs /\ shares = <<>> /\ all = <<>>
    BY DEF VardiffInit
  <1>2. RateShapes
    BY <1>1, Numbers, EmptySeq DEF VardiffInit, RateShapes
  <1>3. Len(<<>>) = 0
    BY EmptySeq
  <1>4. InWindow(all) /\ Ordered(all) /\ Remembers(shares, all) /\ Paced /\ Complete
    BY <1>1, <1>3 DEF InWindow, Ordered, Remembers, Paced, Complete
  <1> QED
    BY <1>2, <1>4 DEF RateInv

\* What a change of the difficulty can do to the types.
LEMMA RetargetedTypes ==
  ASSUME RateShapes, cfg' = cfg, shares' \in Seq(Shares), Retargeted(shares')
  PROVE  /\ difficulty' \in cfg.min_difficulty..cfg.max_difficulty
         /\ sinceChange' \in 0..RetargetTime
         /\ moved' \in {"no", "suggested", "measured", "quiet"}
  <1> DEFINE s == shares'
  <1>1. Proposed(s) \in cfg.min_difficulty..cfg.max_difficulty
    <2>1. s \in Seq(Shares)
      OBVIOUS
    <2> HIDE DEF s
    <2> QED
      BY <2>1, ProposedType
  <1>2. RetargetTime \in Nat
    BY Numbers DEF RateShapes
  <1>3. Retargeted(s)
    OBVIOUS
  <1> HIDE DEF s
  <1> QED
    BY <1>1, <1>2, <1>3 DEF Retargeted, RateShapes

\* The configuration's parts do not change.
LEMMA SameConfig ==
  ASSUME cfg' = cfg
  PROVE  /\ Window' = Window /\ RetargetTime' = RetargetTime /\ Shares' = Shares
         /\ Roomy(cfg)' <=> Roomy(cfg)
  BY DEF Window, RetargetTime, Shares, Roomy

LEMMA SubmitKeeps ==
  ASSUME RateInv, thisTick < MaxPerTick, SubmitShare
  PROVE  /\ RateInv'
         /\ Len(shares') <= Len(all')
         /\ Roomy(cfg) => Len(all') <= Len(shares')
  <1> DEFINE share == [age |-> 0, difficulty |-> job]
             longer == Append(shares, share)
             capped == Capped(longer)
  <1>1. /\ cfg' = cfg /\ job' = job /\ age' = age /\ thisTick' = thisTick + 1
        /\ shares' = Trimmed(capped) /\ all' = Append(all, share) /\ Retargeted(shares')
    BY DEF SubmitShare
  <1>2. RateShapes /\ InWindow(all) /\ Ordered(all) /\ Remembers(shares, all) /\ Paced /\ Complete
    BY DEF RateInv
  <1>3. cfg \in Configs /\ Window \in Nat /\ MaxPerTick \in Nat /\ cfg.MAX_WINDOW_SHARES \in Nat \ {0}
        /\ thisTick \in Nat
    BY <1>2, Numbers DEF RateShapes
  <1>4. share \in Shares /\ share.age = 0
    BY <1>2, <1>3 DEF RateShapes, Shares
  <1>5. Len(shares) \in Nat /\ Len(all) \in Nat /\ shares \in Seq(Shares) /\ all \in Seq(Shares)
    BY <1>2, LenProperties DEF RateShapes
  <1> HIDE DEF share
  <1>6. /\ longer \in Seq(Shares) /\ Len(longer) = Len(shares) + 1
        /\ \A i \in 1..Len(shares) : longer[i] = shares[i]
        /\ longer[Len(longer)] = share
    BY <1>4, <1>5, AppendProperties
  <1>7. /\ all' \in Seq(Shares) /\ Len(all') = Len(all) + 1
        /\ \A i \in 1..Len(all) : all'[i] = all[i]
        /\ all'[Len(all')] = share
    BY <1>1, <1>4, <1>5, AppendProperties
  <1> HIDE DEF longer
  <1>8. Remembers(longer, all')
    <2>1. ASSUME NEW j \in 0..(Len(longer) - 1), j < Len(all')
          PROVE  longer[Len(longer) - j] = all'[Len(all') - j]
      <3>1. CASE j = 0
        BY <1>5, <1>6, <1>7, <3>1
      <3>2. CASE j # 0
        <4>1. /\ j - 1 \in 0..(Len(shares) - 1) /\ j - 1 < Len(all)
              /\ Len(longer) - j = Len(shares) - (j - 1) /\ Len(all') - j = Len(all) - (j - 1)
              /\ Len(shares) - (j - 1) \in 1..Len(shares) /\ Len(all) - (j - 1) \in 1..Len(all)
          BY <1>5, <1>6, <1>7, <2>1, <3>2
        <4>2. shares[Len(shares) - (j - 1)] = all[Len(all) - (j - 1)]
          BY <1>2, <4>1 DEF Remembers
        <4> QED
          BY <1>6, <1>7, <4>1, <4>2
      <3> QED
        BY <3>1, <3>2
    <2>2. ASSUME NEW i \in 1..(Len(longer) - Len(all'))
          PROVE  longer[i].age > Window
      <3>1. i \in 1..(Len(shares) - Len(all)) /\ i \in 1..Len(shares)
        BY <1>5, <1>6, <1>7
      <3> QED
        BY <1>2, <1>6, <3>1 DEF Remembers
    <2>3. longer # <<>>
      BY <1>5, <1>6, EmptySeq
    <2> QED
      BY <2>1, <2>2, <2>3 DEF Remembers
  <1>9. /\ capped \in Seq(Shares) /\ Remembers(capped, all')
        /\ Len(capped) <= cfg.MAX_WINDOW_SHARES
        /\ Len(capped) >= Len(longer) \/ Len(capped) >= cfg.MAX_WINDOW_SHARES
    <2>1. CASE Len(longer) > cfg.MAX_WINDOW_SHARES
      <3>1. capped = Tail(longer) /\ longer # <<>>
        BY <1>3, <2>1, EmptySeq DEF Capped
      <3>2. /\ capped \in Seq(Shares) /\ Len(capped) = Len(longer) - 1
            /\ \A i \in 1..Len(capped) : capped[i] = longer[i + 1]
        BY <1>6, <3>1, HeadTailProperties
      <3> HIDE DEF capped
      <3>3. Len(longer) = cfg.MAX_WINDOW_SHARES + 1
        BY <1>2, <1>3, <1>5, <1>6, <2>1 DEF RateShapes
      <3>4. ASSUME NEW j \in 0..(Len(capped) - 1), j < Len(all')
            PROVE  capped[Len(capped) - j] = all'[Len(all') - j]
        <4>1. Len(capped) - j \in 1..Len(capped) /\ (Len(capped) - j) + 1 = Len(longer) - j
              /\ j \in 0..(Len(longer) - 1)
          BY <1>5, <1>6, <3>2
        <4> QED
          BY <1>8, <3>2, <3>4, <4>1 DEF Remembers
      <3>5. ASSUME NEW i \in 1..(Len(capped) - Len(all'))
            PROVE  capped[i].age > Window
        <4>1. i \in 1..Len(capped) /\ i + 1 \in 1..(Len(longer) - Len(all'))
          BY <1>5, <1>6, <1>7, <3>2
        <4> QED
          BY <1>8, <3>2, <4>1 DEF Remembers
      <3>6. capped # <<>>
        BY <1>3, <3>2, <3>3, EmptySeq
      <3>7. Remembers(capped, all')
        BY <3>4, <3>5, <3>6 DEF Remembers
      <3> QED
        BY <1>3, <3>2, <3>3, <3>7
    <2>2. CASE ~ (Len(longer) > cfg.MAX_WINDOW_SHARES)
      <3>1. capped = longer
        BY <2>2 DEF Capped
      <3> HIDE DEF capped
      <3> QED
        BY <1>3, <1>5, <1>6, <1>8, <2>2, <3>1
    <2> QED
      BY <2>1, <2>2
  <1> HIDE DEF capped
  <1>10. InWindow(all')
    <2>1. ASSUME NEW i \in 1..Len(all')
          PROVE  all'[i].age <= Window
      <3>1. i \in 1..Len(all) \/ i = Len(all')
        BY <1>5, <1>7
      <3> QED
        BY <1>2, <1>3, <1>4, <1>7, <3>1 DEF InWindow
    <2> QED
      BY <2>1 DEF InWindow
  <1>11. /\ shares' \in Seq(Shares) /\ Remembers(shares', all')
         /\ Len(shares') <= Len(capped) /\ Len(shares') <= Len(all')
         /\ Len(all') <= Len(capped) => Len(shares') = Len(all')
    BY <1>1, <1>3, <1>7, <1>9, <1>10, TrimRemembers
  <1>12. RateShapes'
    <2>1. /\ difficulty' \in cfg.min_difficulty..cfg.max_difficulty
          /\ sinceChange' \in 0..RetargetTime
          /\ moved' \in {"no", "suggested", "measured", "quiet"}
      BY <1>1, <1>2, <1>11, RetargetedTypes
    <2>2. thisTick' \in 0..MaxPerTick
      BY <1>1, <1>3
    <2>3. Len(shares') <= cfg.MAX_WINDOW_SHARES
      BY <1>3, <1>9, <1>11, LenProperties
    <2> QED
      BY <1>1, <1>2, <1>7, <1>11, <2>1, <2>2, <2>3, SameConfig DEF RateShapes
  <1>13. Paced'
    <2> SUFFICES ASSUME NEW i \in 1..Len(all')
                 PROVE  Len(all') - i + 1 <= MaxPerTick * all'[i].age + thisTick'
      BY DEF Paced
    <2>1. CASE i = Len(all')
      <3>1. MaxPerTick * 0 = 0
        BY <1>3
      <3> QED
        BY <1>1, <1>3, <1>4, <1>5, <1>7, <2>1, <3>1
    <2>2. CASE i # Len(all')
      <3>1. i \in 1..Len(all) /\ all'[i] = all[i]
        BY <1>5, <1>7, <2>2
      <3>2. all[i].age \in Nat
        BY <1>3, <1>5, <3>1, ElementOfSeq, SharesHaveDifficulties
      <3>3. MaxPerTick * all[i].age \in Nat
        BY <1>3, <3>2
      <3>4. Len(all) - i + 1 <= MaxPerTick * all[i].age + thisTick
        BY <1>2, <3>1 DEF Paced
      <3> QED
        BY <1>1, <1>3, <1>5, <1>7, <3>1, <3>3, <3>4
    <2> QED
      BY <2>1, <2>2
  <1>14. Roomy(cfg) => Len(all') <= Len(shares')
    <2> SUFFICES ASSUME Roomy(cfg)
                 PROVE  Len(all') <= Len(capped)
      BY <1>5, <1>7, <1>11
    \* No more than the cap are in the window: the oldest of them says so.
    <2>1. Len(all') <= cfg.MAX_WINDOW_SHARES
      <3>1. 1 \in 1..Len(all') /\ all'[1].age \in 0..Window
        <4>1. 1 \in 1..Len(all')
          BY <1>5, <1>7
        <4> QED
          BY <1>3, <1>7, <1>10, <4>1, ElementOfSeq, SharesHaveDifficulties DEF InWindow
      <3>2. Len(all') - 1 + 1 <= MaxPerTick * all'[1].age + thisTick'
        BY <1>13, <3>1 DEF Paced
      <3>3. MaxPerTick * all'[1].age <= MaxPerTick * Window
        BY <1>3, <3>1
      <3>4. MaxPerTick * (Window + 1) = MaxPerTick * Window + MaxPerTick
        BY <1>3
      <3>5. MaxPerTick * (Window + 1) <= cfg.MAX_WINDOW_SHARES
        BY DEF Roomy, Window, RetargetTime
      <3>6. MaxPerTick * Window \in Nat /\ MaxPerTick * all'[1].age \in Nat
        BY <1>3, <3>1
      <3> QED
        BY <1>1, <1>3, <1>5, <1>7, <3>2, <3>3, <3>4, <3>5, <3>6
    <2>2. Len(all') <= Len(longer)
      BY <1>2, <1>5, <1>6, <1>7 DEF Complete
    <2>3. Len(capped) \in Nat
      BY <1>9, LenProperties
    <2> QED
      BY <1>3, <1>5, <1>6, <1>7, <1>9, <2>1, <2>2, <2>3
  <1>15. Ordered(all')
    <2> SUFFICES ASSUME NEW i \in 1..Len(all'), NEW j \in 1..Len(all'), i <= j
                 PROVE  all'[j].age <= all'[i].age
      BY DEF Ordered
    <2>1. CASE j = Len(all')
      <3>1. all'[i].age \in Nat
        BY <1>3, <1>7, ElementOfSeq, SharesHaveDifficulties
      <3> QED
        BY <1>4, <1>7, <2>1, <3>1
    <2>2. CASE j # Len(all')
      <3>1. i \in 1..Len(all) /\ j \in 1..Len(all)
        BY <1>5, <1>7, <2>2
      <3> QED
        BY <1>2, <1>7, <3>1 DEF Ordered
    <2> QED
      BY <2>1, <2>2
  <1>16. RateInv'
    BY <1>1, <1>10, <1>11, <1>12, <1>13, <1>14, <1>15, SameConfig
       DEF RateInv, InWindow, Ordered, Remembers, Complete
  <1> QED
    BY <1>11, <1>14, <1>16

LEMMA EvaluateKeeps ==
  ASSUME RateInv, Evaluate
  PROVE  /\ RateInv'
         /\ Due => Len(shares') <= Len(all') /\ (Roomy(cfg) => Len(all') <= Len(shares'))
  <1>1. /\ cfg' = cfg /\ job' = job /\ age' = age /\ all' = all /\ thisTick' = thisTick
        /\ shares' = IF Due THEN Trimmed(shares) ELSE shares
        /\ Retargeted(shares')
    BY DEF Evaluate
  <1>2. RateShapes /\ InWindow(all) /\ Ordered(all) /\ Remembers(shares, all) /\ Paced /\ Complete
    BY DEF RateInv
  <1>3. cfg \in Configs /\ cfg.MAX_WINDOW_SHARES \in Nat
    BY <1>2, Numbers DEF RateShapes
  <1>4. Len(shares) \in Nat /\ Len(all) \in Nat /\ shares \in Seq(Shares) /\ all \in Seq(Shares)
    BY <1>2, LenProperties DEF RateShapes
  <1>5. /\ Trimmed(shares) \in Seq(Shares) /\ Remembers(Trimmed(shares), all)
        /\ Len(Trimmed(shares)) <= Len(all) /\ Len(Trimmed(shares)) <= Len(shares)
        /\ Len(all) <= Len(shares) => Len(Trimmed(shares)) = Len(all)
    BY <1>2, <1>3, <1>4, TrimRemembers
  <1>6. /\ shares' \in Seq(Shares) /\ Remembers(shares', all)
        /\ Len(shares') <= Len(shares)
        /\ Due => Len(shares') <= Len(all)
        /\ Roomy(cfg) => Len(all) <= Len(shares')
    <2>1. CASE Due
      BY <1>1, <1>2, <1>4, <1>5, <2>1 DEF Complete
    <2>2. CASE ~Due
      BY <1>1, <1>2, <1>4, <2>2 DEF Complete
    <2> QED
      BY <2>1, <2>2
  <1>7. RateShapes'
    <2>1. /\ difficulty' \in cfg.min_difficulty..cfg.max_difficulty
          /\ sinceChange' \in 0..RetargetTime
          /\ moved' \in {"no", "suggested", "measured", "quiet"}
      BY <1>1, <1>2, <1>6, RetargetedTypes
    <2>2. Len(shares') <= cfg.MAX_WINDOW_SHARES
      BY <1>2, <1>3, <1>4, <1>6, LenProperties DEF RateShapes
    <2> QED
      BY <1>1, <1>2, <1>6, <2>1, <2>2, SameConfig DEF RateShapes
  <1>8. RateInv'
    BY <1>1, <1>2, <1>6, <1>7, SameConfig DEF RateInv, InWindow, Ordered, Remembers, Paced, Complete
  <1> QED
    BY <1>1, <1>6, <1>8

\* Steps that leave the shares alone: a suggestion and new work.
LEMMA OtherKeeps ==
  ASSUME RateInv, (\E d \in Suggestions : Suggest(d)) \/ NewJob \/ UNCHANGED vardiffVars
  PROVE  RateInv'
  <1>1. RateShapes /\ cfg \in Configs
    BY DEF RateInv, RateShapes
  <1>2. /\ cfg' = cfg /\ shares' = shares /\ all' = all /\ age' = age
        /\ sinceChange' = sinceChange /\ thisTick' = thisTick
    BY DEF Suggest, NewJob, vardiffVars
  <1>3. /\ difficulty' \in cfg.min_difficulty..cfg.max_difficulty
        /\ job' \in cfg.min_difficulty..cfg.max_difficulty
        /\ moved' \in {"no", "suggested", "measured", "quiet"}
    <2>1. CASE \E d \in Suggestions : Suggest(d)
      <3>1. PICK d \in Suggestions : Suggest(d)
        BY <2>1
      <3>2. d \in Int
        BY VardiffAssumption
      <3>3. Clamp(d) \in cfg.min_difficulty..cfg.max_difficulty
        BY <1>1, <3>2, Clamps
      <3> QED
        BY <1>1, <3>1, <3>3 DEF Suggest, RateShapes
    <2>2. CASE NewJob
      BY <1>1, <2>2 DEF NewJob, RateShapes
    <2>3. CASE UNCHANGED vardiffVars
      BY <1>1, <2>3 DEF vardiffVars, RateShapes
    <2> QED
      BY <2>1, <2>2, <2>3
  <1>4. RateShapes'
    BY <1>1, <1>2, <1>3, SameConfig DEF RateShapes
  <1> QED
    BY <1>2, <1>4, SameConfig DEF RateInv, InWindow, Ordered, Remembers, Paced, Complete

\* What the passing of time does to shares.
LEMMA OlderShares ==
  ASSUME cfg \in Configs, NEW s \in Seq(Shares)
  PROVE  /\ Older(s) \in Seq(Shares) /\ Len(Older(s)) = Len(s)
         /\ \A i \in 1..Len(s) :
              /\ Older(s)[i] = [s[i] EXCEPT !.age = AtMost(s[i].age + 1, Window + 1)]
              /\ Older(s)[i].age = AtMost(s[i].age + 1, Window + 1)
  <1>1. Len(s) \in Nat /\ DOMAIN s = 1..Len(s)
    BY LenProperties
  <1>2. Window \in Nat
    BY Numbers
  <1> DEFINE o == Older(s)
  <1>3. o = [i \in 1..Len(s) |-> [s[i] EXCEPT !.age = AtMost(s[i].age + 1, Window + 1)]]
    BY <1>1 DEF Older
  <1>4. ASSUME NEW i \in 1..Len(s)
        PROVE  o[i] \in Shares /\ o[i].age = AtMost(s[i].age + 1, Window + 1)
    <2>1. s[i] \in Shares
      BY ElementOfSeq
    <2>2. AtMost(s[i].age + 1, Window + 1) \in 0..(Window + 1)
      BY <1>2, <2>1 DEF Shares, AtMost
    <2> QED
      BY <1>3, <2>1, <2>2 DEF Shares
  <1> HIDE DEF o
  <1>5. o \in [1..Len(s) -> Shares]
    BY <1>3, <1>4
  <1>6. o \in Seq(Shares) /\ Len(o) = Len(s)
    BY <1>1, <1>5, <1>3
  <1> QED
    BY <1>3, <1>4, <1>6 DEF o

LEMMA TickKeeps ==
  ASSUME RateInv, Tick
  PROVE  RateInv'
  <1> DEFINE old == Older(shares)
             older == Older(all)
             start == From(older, Window)
  <1>1. /\ cfg' = cfg /\ job' = job /\ difficulty' = difficulty /\ thisTick' = 0 /\ moved' = "no"
        /\ shares' = old /\ all' = Trimmed(older)
        /\ age' = AtMost(age + 1, Window) /\ sinceChange' = AtMost(sinceChange + 1, RetargetTime)
    BY DEF Tick
  <1>2. RateShapes /\ InWindow(all) /\ Ordered(all) /\ Remembers(shares, all) /\ Paced /\ Complete
    BY DEF RateInv
  <1>3. cfg \in Configs /\ Window \in Nat /\ RetargetTime \in Nat /\ MaxPerTick \in Nat
    BY <1>2, Numbers DEF RateShapes
  <1>4. Len(shares) \in Nat /\ Len(all) \in Nat /\ shares \in Seq(Shares) /\ all \in Seq(Shares)
    BY <1>2, LenProperties DEF RateShapes
  <1>5. /\ old \in Seq(Shares) /\ Len(old) = Len(shares)
        /\ \A i \in 1..Len(shares) :
             /\ old[i] = [shares[i] EXCEPT !.age = AtMost(shares[i].age + 1, Window + 1)]
             /\ old[i].age = AtMost(shares[i].age + 1, Window + 1)
    BY <1>3, <1>4, OlderShares
  <1>6. /\ older \in Seq(Shares) /\ Len(older) = Len(all)
        /\ \A i \in 1..Len(all) :
             /\ older[i] = [all[i] EXCEPT !.age = AtMost(all[i].age + 1, Window + 1)]
             /\ older[i].age = AtMost(all[i].age + 1, Window + 1)
    BY <1>3, <1>4, OlderShares
  <1>7. /\ start \in 1..(Len(older) + 1)
        /\ \A j \in 1..(start - 1) : older[j].age > Window
    BY <1>3, <1>6, TrimStart
  <1> HIDE DEF old, older
  <1>8. /\ all' \in Seq(Shares) /\ Len(all') = Len(all) - start + 1
        /\ \A i \in 1..Len(all') : all'[i] = older[start + i - 1]
    <2>1. start \in Int /\ Len(older) \in Int /\ \A i \in start..Len(older) : older[i] \in Shares
      BY <1>4, <1>6, <1>7, ElementOfSeq
    <2>2. /\ all' \in Seq(Shares)
          /\ Len(all') = IF start <= Len(older) THEN Len(older) - start + 1 ELSE 0
          /\ \A i \in 1..(Len(older) - start + 1) : all'[i] = older[start + i - 1]
      <3>1. all' = SubSeq(older, start, Len(older))
        BY <1>1 DEF Trimmed
      <3> HIDE DEF start
      <3> QED
        BY <2>1, <3>1, SubSeqProperties
    <2> QED
      BY <1>4, <1>6, <1>7, <2>2
  <1> HIDE DEF start
  \* The shares that stay are those that were younger than the window.
  <1>9. \A i \in 1..Len(all) : all[i].age \in 0..Window /\ older[i].age = all[i].age + 1
    <2> SUFFICES ASSUME NEW i \in 1..Len(all)
                 PROVE  all[i].age \in 0..Window /\ older[i].age = all[i].age + 1
      OBVIOUS
    <2>1. all[i].age \in 0..Window
      BY <1>2, <1>3, <1>4, ElementOfSeq, SharesHaveDifficulties DEF InWindow
    <2>2. older[i].age = AtMost(all[i].age + 1, Window + 1)
      BY <1>6
    <2>3. AtMost(all[i].age + 1, Window + 1) = all[i].age + 1
      BY <1>3, <2>1 DEF AtMost
    <2> QED
      BY <2>1, <2>2, <2>3
  <1>10. \A i \in 1..Len(all') :
           /\ start + i - 1 \in 1..Len(all) /\ all'[i] = older[start + i - 1]
           /\ all'[i].age = all[start + i - 1].age + 1
    BY <1>4, <1>6, <1>7, <1>8, <1>9
  <1>11. start <= Len(all) => older[start].age <= Window
    BY <1>3, <1>6, TrimStart DEF start
  <1>12. InWindow(all')
    <2> SUFFICES ASSUME NEW i \in 1..Len(all')
                 PROVE  all'[i].age <= Window
      BY DEF InWindow
    <2>1. start \in 1..Len(all) /\ start + i - 1 \in 1..Len(all) /\ start <= start + i - 1
      BY <1>4, <1>6, <1>7, <1>10
    <2>2. all[start + i - 1].age <= all[start].age
      BY <1>2, <2>1 DEF Ordered
    <2>3. all[start].age + 1 <= Window /\ all[start].age \in Nat
      BY <1>9, <1>11, <2>1
    <2>4. all'[i].age = all[start + i - 1].age + 1 /\ all[start + i - 1].age \in Nat
      BY <1>9, <1>10, <2>1
    <2> QED
      BY <1>3, <2>2, <2>3, <2>4
  <1>13. Ordered(all')
    <2> SUFFICES ASSUME NEW i \in 1..Len(all'), NEW j \in 1..Len(all'), i <= j
                 PROVE  all'[j].age <= all'[i].age
      BY DEF Ordered
    <2>1. start + i - 1 \in 1..Len(all) /\ start + j - 1 \in 1..Len(all)
          /\ start + i - 1 <= start + j - 1
      BY <1>7, <1>10
    <2>2. all[start + j - 1].age <= all[start + i - 1].age
      BY <1>2, <2>1 DEF Ordered
    <2> QED
      BY <1>9, <1>10, <2>1, <2>2, SMTT(20)
  <1>14. Remembers(old, older)
    <2>1. ASSUME NEW j \in 0..(Len(old) - 1), j < Len(older)
          PROVE  old[Len(old) - j] = older[Len(older) - j]
      <3>1. /\ Len(shares) - j \in 1..Len(shares) /\ Len(all) - j \in 1..Len(all)
            /\ j \in 0..(Len(shares) - 1) /\ j < Len(all)
        BY <1>4, <1>5, <1>6, <2>1
      <3>2. shares[Len(shares) - j] = all[Len(all) - j]
        BY <1>2, <3>1 DEF Remembers
      <3>3. /\ old[Len(shares) - j] = [shares[Len(shares) - j] EXCEPT
                 !.age = AtMost(shares[Len(shares) - j].age + 1, Window + 1)]
            /\ older[Len(all) - j] = [all[Len(all) - j] EXCEPT
                 !.age = AtMost(all[Len(all) - j].age + 1, Window + 1)]
        BY <1>5, <1>6, <3>1
      <3> QED
        BY <1>5, <1>6, <3>2, <3>3
    <2>2. ASSUME NEW i \in 1..(Len(old) - Len(older))
          PROVE  old[i].age > Window
      <3>1. i \in 1..Len(shares) /\ i \in 1..(Len(shares) - Len(all))
        BY <1>4, <1>5, <1>6
      <3>2. shares[i].age > Window /\ shares[i].age \in Nat
        BY <1>2, <1>3, <1>4, <3>1, ElementOfSeq, SharesHaveDifficulties DEF Remembers
      <3>3. old[i].age = AtMost(shares[i].age + 1, Window + 1)
        BY <1>5, <3>1
      <3> QED
        BY <1>3, <3>2, <3>3 DEF AtMost
    <2>3. older # <<>> => old # <<>>
      BY <1>2, <1>4, <1>5, <1>6, EmptySeq DEF Remembers
    <2> QED
      BY <2>1, <2>2, <2>3 DEF Remembers
  <1>15. Remembers(old, all')
    <2>1. ASSUME NEW j \in 0..(Len(old) - 1), j < Len(all')
          PROVE  old[Len(old) - j] = all'[Len(all') - j]
      <3>1. /\ j < Len(older) /\ Len(all') - j \in 1..Len(all')
            /\ start + (Len(all') - j) - 1 = Len(older) - j
        BY <1>4, <1>6, <1>7, <1>8, <2>1
      <3>2. old[Len(old) - j] = older[Len(older) - j]
        BY <1>14, <2>1, <3>1 DEF Remembers
      <3>3. all'[Len(all') - j] = older[start + (Len(all') - j) - 1]
        BY <1>8, <3>1
      <3> QED
        BY <3>1, <3>2, <3>3
    <2>2. ASSUME NEW i \in 1..(Len(old) - Len(all'))
          PROVE  old[i].age > Window
      <3>1. CASE i <= Len(old) - Len(older)
        BY <1>4, <1>5, <1>6, <1>14, <3>1 DEF Remembers
      <3>2. CASE ~ (i <= Len(old) - Len(older))
        <4> DEFINE j == Len(old) - i
        <4>1. /\ j \in 0..(Len(old) - 1) /\ j < Len(older) /\ Len(old) - j = i
              /\ Len(older) - j \in 1..(start - 1)
          BY <1>4, <1>5, <1>6, <1>7, <1>8, <3>2
        <4> HIDE DEF j
        <4>2. old[Len(old) - j] = older[Len(older) - j]
          BY <1>14, <4>1 DEF Remembers
        <4> QED
          BY <1>7, <4>1, <4>2
      <3> QED
        BY <3>1, <3>2
    <2>3. all' # <<>> => old # <<>>
      <3> SUFFICES ASSUME all' # <<>>
                   PROVE  old # <<>>
        OBVIOUS
      <3>1. Len(all') > 0
        BY <1>8, EmptySeq
      <3>2. Len(older) > 0
        BY <1>4, <1>6, <1>7, <1>8, <3>1
      <3> QED
        BY <1>6, <1>14, <3>2, EmptySeq DEF Remembers
    <2> QED
      BY <2>1, <2>2, <2>3 DEF Remembers
  <1>16. Paced'
    <2> SUFFICES ASSUME NEW i \in 1..Len(all')
                 PROVE  Len(all') - i + 1 <= MaxPerTick * all'[i].age + thisTick'
      BY DEF Paced
    <2> DEFINE k == start + i - 1
    <2>1. /\ k \in 1..Len(all) /\ all'[i].age = all[k].age + 1
          /\ Len(all') - i + 1 = Len(all) - k + 1
      BY <1>4, <1>7, <1>8, <1>10
    <2>2. all[k].age \in Nat
      BY <1>9, <2>1
    <2>3. Len(all) - k + 1 <= MaxPerTick * all[k].age + thisTick
      BY <1>2, <2>1 DEF Paced
    <2> HIDE DEF k
    <2>4. MaxPerTick * (all[k].age + 1) = MaxPerTick * all[k].age + MaxPerTick
          /\ MaxPerTick * all[k].age \in Nat
      BY <1>3, <2>2
    <2>5. thisTick \in Nat /\ thisTick <= MaxPerTick
      BY <1>2, <1>3 DEF RateShapes
    <2> QED
      BY <1>1, <1>3, <1>4, <2>1, <2>3, <2>4, <2>5, SMTT(20)
  <1>17. RateShapes'
    <2>1. age' \in 0..Window /\ sinceChange' \in 0..RetargetTime
      BY <1>1, <1>2, <1>3 DEF RateShapes, AtMost
    <2> QED
      BY <1>1, <1>2, <1>3, <1>5, <1>8, <2>1, SameConfig DEF RateShapes
  <1>18. Complete'
    <2>1. Len(all') <= Len(all)
      BY <1>4, <1>6, <1>7, <1>8
    <2> QED
      BY <1>1, <1>2, <1>4, <1>5, <1>8, <2>1, SameConfig, LenProperties DEF Complete
  <1> QED
    BY <1>1, <1>12, <1>13, <1>15, <1>16, <1>17, <1>18, SameConfig
       DEF RateInv, InWindow, Ordered, Remembers

LEMMA NextKeeps ==
  ASSUME RateInv, [VardiffNext]_vardiffVars
  PROVE  RateInv'
  BY SubmitKeeps, EvaluateKeeps, OtherKeeps, TickKeeps DEF VardiffNext

-----------------------------------------------------------------------------
(* The theorems. *)

\* The types of the state and the bounds of the difficulty: what is sent to the miner and what its
\* job has always lie between the configured bounds, and the memory never exceeds its cap.
THEOREM VardiffTypesKept == VardiffSpec => [](RateInv /\ VardiffTypeOK)
  <1>1. VardiffInit => RateInv
    BY InitInv
  <1>2. RateInv /\ [VardiffNext]_vardiffVars => RateInv'
    BY NextKeeps
  <1>3. RateInv => VardiffTypeOK
    <2> SUFFICES ASSUME RateInv
                 PROVE  VardiffTypeOK
      OBVIOUS
    <2>1. \A i \in DOMAIN shares : shares[i] \in Shares
      BY LenProperties, ElementOfSeq DEF RateInv, RateShapes
    <2>2. \A i \in DOMAIN all : all[i] \in Shares
      BY LenProperties, ElementOfSeq DEF RateInv, RateShapes
    <2>3. thisTick \in Nat
      BY Numbers DEF RateInv, RateShapes
    <2> QED
      BY <2>1, <2>2, <2>3 DEF RateInv, RateShapes, VardiffTypeOK
  <1> QED
    BY <1>1, <1>2, <1>3, PTL DEF VardiffSpec

\* What a retarget goes by: the last of the window's shares, all of them if the memory has room, and
\* not none unless there are none.
LEMMA RetargetSees ==
  ASSUME RateInv, [VardiffNext]_vardiffVars, moved' \in {"measured", "quiet"}, difficulty' # difficulty
  PROVE  /\ cfg' = cfg /\ age' = age
         /\ shares' \in Seq(Shares) /\ all' \in Seq(Shares)
         /\ difficulty' = Proposed(shares')
         /\ Work(shares') <= Work(all')
         /\ Roomy(cfg) => Work(all') <= Work(shares')
         /\ all' # <<>> => shares' # <<>>
  <1>1. RateInv'
    BY NextKeeps
  <1>2. \/ thisTick < MaxPerTick /\ SubmitShare
        \/ Evaluate
    BY DEF VardiffNext, vardiffVars, NewJob, Tick, Suggest
  <1>3. cfg' = cfg /\ age' = age /\ Retargeted(shares')
    BY <1>2 DEF SubmitShare, Evaluate
  <1>4. Due /\ difficulty' = Proposed(shares')
    BY <1>3 DEF Retargeted
  <1>5. Len(shares') <= Len(all') /\ (Roomy(cfg) => Len(all') <= Len(shares'))
    BY <1>2, <1>4, SubmitKeeps, EvaluateKeeps
  <1>6. shares' \in Seq(Shares) /\ all' \in Seq(Shares) /\ Remembers(shares', all')
        /\ cfg \in Configs
    BY <1>1, <1>3, SameConfig DEF RateInv, RateShapes, Remembers
  <1>7. \A d \in Shares : d.difficulty \in Nat
    BY <1>6, SharesHaveDifficulties
  <1>8. Len(shares') \in Nat /\ Len(all') \in Nat
    BY <1>6, LenProperties
  <1>9. \A j \in 0..(Len(shares') - 1) : shares'[Len(shares') - j] = all'[Len(all') - j]
    BY <1>5, <1>6, <1>8 DEF Remembers
  <1>10. Work(shares') <= Work(all')
    BY <1>5, <1>6, <1>7, <1>9, WorkOfLast
  <1>11. ASSUME Roomy(cfg)
         PROVE  Work(all') <= Work(shares')
    <2>1. Len(all') = Len(shares')
      BY <1>5, <1>8, <1>11
    <2>2. \A j \in 0..(Len(all') - 1) : all'[Len(all') - j] = shares'[Len(shares') - j]
      BY <1>9, <2>1
    <2> QED
      BY <1>6, <1>7, <2>1, <2>2, WorkOfLast
  <1>12. all' # <<>> => shares' # <<>>
    BY <1>6 DEF Remembers
  <1> QED
    BY <1>3, <1>4, <1>6, <1>10, <1>11, <1>12

LEMMA RealAndTargetWork ==
  ASSUME RateInv, [VardiffNext]_vardiffVars, moved' \in {"measured", "quiet"}, difficulty' # difficulty
  PROVE  /\ Work(shares') * TargetTime <= RealWork
         /\ Roomy(cfg) => RealWork = Work(shares') * TargetTime
         /\ TargetWork = difficulty * Span
         /\ Work(shares') * TargetTime \in Nat /\ RealWork \in Nat /\ TargetWork \in Nat
  <1>1. cfg \in Configs /\ age \in 0..Window /\ difficulty \in Nat /\ TargetTime \in Nat
    BY Numbers DEF RateInv, RateShapes
  <1>2. /\ shares' \in Seq(Shares) /\ all' \in Seq(Shares)
        /\ Work(shares') <= Work(all')
        /\ Roomy(cfg) => Work(all') <= Work(shares')
    BY RetargetSees
  <1>3. Work(shares') \in Nat /\ Work(all') \in Nat
    BY <1>1, <1>2, WorkType, SharesHaveDifficulties
  <1>4. \A m, n \in Nat : m <= n => m * TargetTime <= n * TargetTime /\ m * TargetTime \in Nat
    BY <1>1
  <1>5. Span \in Nat /\ TargetWork = difficulty * Span
    BY <1>1, Spans DEF TargetWork
  <1>6. difficulty * Span \in Nat
    BY <1>1, <1>5
  <1> QED
    BY <1>2, <1>3, <1>4, <1>5, <1>6 DEF RealWork

\* Whatever the miner sends and however much of it, a retarget makes its work harder only if what it
\* really did in the window was more than target (vardiff.rs 76-109).
THEOREM SlowMinersNotRaised == VardiffSpec => NeverRaisesSlowMiner
  <1>1. ASSUME RateInv, [VardiffNext]_vardiffVars, moved' \in {"measured", "quiet"},
               difficulty' > difficulty
        PROVE  RealWork > TargetWork
    <2>1. difficulty \in Nat /\ RateShapes
      BY <1>1, Steps DEF RateInv
    <2>2. difficulty' # difficulty
      BY <1>1, <2>1
    <2>3. shares' \in Seq(Shares) /\ Proposed(shares') > difficulty
      BY <1>1, <2>2, RetargetSees
    <2>4. Work(shares') * TargetTime > difficulty * Span
      BY <2>1, <2>3, RaisesOnSurplus
    <2> QED
      BY <1>1, <2>2, <2>4, RealAndTargetWork
  <1>2. RateInv /\ [VardiffNext]_vardiffVars =>
          [moved' \in {"measured", "quiet"} /\ difficulty' > difficulty
             => RealWork > TargetWork]_vardiffVars
    BY <1>1
  <1> QED
    BY <1>2, VardiffTypesKept, PTL DEF VardiffSpec, NeverRaisesSlowMiner

\* A retarget by more than MaxStep is of a miner that sent nothing in the whole window.
THEOREM OnlyQuietMinersFallFar == VardiffSpec => OnlyQuietFallsFar
  <1>1. ASSUME RateInv, [VardiffNext]_vardiffVars, moved' \in {"measured", "quiet"},
               difficulty' < difficulty \div MaxStep
        PROVE  all' = <<>>
    <2>1. RateShapes /\ difficulty \in Nat /\ difficulty \div MaxStep \in Nat
          /\ difficulty \div MaxStep < difficulty
      BY <1>1, Steps DEF RateInv
    <2>2. difficulty' # difficulty
      BY <1>1, <2>1
    <2>3. shares' \in Seq(Shares) /\ Proposed(shares') < difficulty \div MaxStep
          /\ (all' # <<>> => shares' # <<>>)
      BY <1>1, <2>2, RetargetSees
    <2>4. shares' = <<>>
      BY <2>1, <2>3, FallsFarWhenQuiet
    <2> QED
      BY <2>3, <2>4
  <1>2. RateInv /\ [VardiffNext]_vardiffVars =>
          [moved' \in {"measured", "quiet"} /\ difficulty' < difficulty \div MaxStep
             => all' = <<>>]_vardiffVars
    BY <1>1
  <1> QED
    BY <1>2, VardiffTypesKept, PTL DEF VardiffSpec, OnlyQuietFallsFar

\* If the memory has room for a window's shares, a retarget makes the work of a miner easier only if
\* what it really did in the window was at most target.
THEOREM FastMinersNotLowered ==
  ASSUME \A c \in Configs : Roomy(c)
  PROVE  VardiffSpec => NeverLowersFastMiner
  <1>1. ASSUME RateInv, [VardiffNext]_vardiffVars, moved' \in {"measured", "quiet"},
               difficulty' < difficulty
        PROVE  RealWork <= TargetWork
    <2>1. difficulty \in Nat /\ RateShapes /\ Roomy(cfg)
      BY <1>1, Steps DEF RateInv, RateShapes
    <2>2. difficulty' # difficulty
      BY <1>1, <2>1
    <2>3. shares' \in Seq(Shares) /\ Proposed(shares') < difficulty
      BY <1>1, <2>2, RetargetSees
    <2>4. Work(shares') * TargetTime <= difficulty * Span
      BY <2>1, <2>3, LowersOnDeficit
    <2> QED
      BY <1>1, <2>1, <2>2, <2>4, RealAndTargetWork
  <1>2. RateInv /\ [VardiffNext]_vardiffVars =>
          [moved' \in {"measured", "quiet"} /\ difficulty' < difficulty
             => RealWork <= TargetWork]_vardiffVars
    BY <1>1
  <1> QED
    BY <1>2, VardiffTypesKept, PTL DEF VardiffSpec, NeverLowersFastMiner

\* If the memory has room for a window's shares, no retarget goes against what the miner really did.
THEOREM RetargetsAgree ==
  ASSUME \A c \in Configs : Roomy(c)
  PROVE  VardiffSpec => RetargetsAgreeWithWork
  BY FastMinersNotLowered, SlowMinersNotRaised, OnlyQuietMinersFallFar DEF RetargetsAgreeWithWork
=============================================================================
