# Formal models of the Alamo mining pool

Alamo is a solo mining pool for Litecoin with merge-mined Dogecoin: one Rust process that
asks two nodes for block templates, hands jobs to miners over the Stratum protocol, counts
their shares in SQLite and submits the blocks they find. This directory holds TLA+ modules
of the parts whose correctness depends on order, failure and arithmetic at boundaries, TLC
configurations that check them on small instances, and proofs, checked by TLAPS, of the
main invariants for every value of the constants.

`PROJECT.json` lists components, runs, properties, theorems, hazards and, for every
definition that stands for code, the lines it stands for. Paths below are relative to
`src/crates/` unless they start with `docs/` or `web/`.

To check a module: `tlc -config Blocks.cfg Blocks`; to check its proofs:
`tlapm Accounting_proofs.tla`.

## 1. The system

```
 node (LTC) --rpc/zmq--> template source --watch--+
                                                  +--> merge --watch--> sessions <--tcp--> miners
 node (DOGE) -rpc/zmq--> template source --watch--+                       |   |
      ^                                                            events |   | blocks
      |                                                            (4096) v   v (64)
      |                                  operator --commands(8)--> publisher  submitter --> node
      |                                                             |     |       |
      +--------- confirmation tracker <-------- SQLite <------------+     |       |
                                                  ^-----------------------|-------+
                                                                          v
                                                       snapshot --watch--> web API, dashboard
```

| Component | State it keeps | Operations | Talks to |
|---|---|---|---|
| template source (`alamo-coins/src/template.rs`) | last tip and tag, time of last refresh and success, withdrawn | poll, wait for timer / notification / tag, publish, withdraw | node by RPC, ZMQ subscriber and tag setting by watch channels, merge by a watch channel |
| ZMQ subscriber (`alamo-coins/src/zmq.rs`) | the session with the node's publisher, back-off, blocks counted | connect, read a frame, fail and wait, connect again | node by TCP, its template source by a watch channel |
| merger (`alamo-coins/src/merged.rs`) | id of the last parent template | wait for a parent, combine, publish | template channels, sessions |
| Stratum session (`alamo-stratum/src/session.rs`, `job.rs`, `validate.rs`) | payout, workers, difficulty, the last 8 jobs and their submissions | authorize, suggest_difficulty, submit, on_work, tick | miner; events and block candidates to the pool |
| variable difficulty (`alamo-stratum/src/vardiff.rs`) | shares of a window, time of last change | on_share, evaluate, suggest | its session |
| connection (`alamo-stratum/src/server.rs`) | the session, what is left to write | read, write, send events and blocks one by one, disconnect | bounded events and blocks channels |
| publisher (`alamo/src/pool.rs`, `stats.rs`, `persist.rs`) | statistics per worker, queued rows | apply event, flush, sample, retain, command | SQLite, snapshot channel |
| store (`alamo-store/src/accounting.rs`, `blocks.rs`, `retention.rs`, `settings.rs`) | tables | transactions and single statements | publisher, submitter, tracker, settings |
| submitter and confirmation tracker (`alamo/src/pool.rs`) | the candidate or pass in hand | submitblock and insert; getblock and update | nodes, blocks table |
| operator settings (`alamo/src/settings.rs`) | overrides | start, patch | settings table, every component's live values |
| process (`alamo/src/main.rs`, `pool.rs` `run`) | tokens, task handles | start, signal, fail, drain | everything |
| block building (`alamo-core`) | none | coinbase, merkle branch, aux tree, commitment, proof, block | sessions |
| payouts (`alamo-core/src/payout.rs`, `address.rs`) | tables of fallbacks | resolve user name and password | sessions |
| hashrate window (`stats.rs`, `persist.rs`) | per worker, the accepted shares of ten minutes; the log of shares | apply a share, trim, restore | publisher, SQLite |
| status stream and page (`alamo-web/src/api.rs`, `web/src/lib/live.svelte.ts`) | the document shown, the socket, requests in flight | upgrade, send, poll, connect again | snapshot channel; the operator's browser |

What is hard about them, and what makes each correct:

* **Watch channels keep one value.** A reader that is late sees only the last value, so
  anything said by *one* value (its `clean_jobs` flag) may never be seen. Correct: a session
  that has caught up works on the present tips and offers no aux block on an outdated one.
* **A poll is two calls.** The node moves on between them, goes down in either, loses
  notifications. Correct: the published tip lags by a bounded time, a stale template does
  not outlive its node for long, and it comes back.
* **Notifications are hints.** The subscription may break, hang, or be dead without either end
  knowing; the loop sleeps longer while it counts as up. Correct: it says what it is, comes
  back within its back-off, and polling covers what it misses.
* **Two accounts of the same shares.** Memory, queue and database are changed by events,
  flushes that fail, operator commands and restarts. Correct: they agree, in their two units.
* **A block has two outcomes and two writers.** Submitter and tracker write the same row
  around calls that fail after they took effect. Correct: what the row says was true.
* **Effects are applied in order and may break in the middle**: a write fails, or lasts as long
  as a miner does not read; events find their channel full one by one; the blocks that one
  share solved on several chains are sent one after the other; and an operator removes workers
  by a snapshot that is a tick old. Correct: the table of live sessions is that of the
  connections, and every block is somewhere, once.
* **Shutdown** may come in any state, a call to a node or a web client may hold it up, and
  a task may fail instead. Correct: the process ends, and what it counted is written.
* **Statements are not transactions**: retention and settings write in several, and a
  restart may come between two.
* **Estimation with feedback**: the difficulty computed from shares of mixed difficulties
  must neither mislead nor oscillate.
* **Bytes at boundaries**: sign bits, push widths, odd merkle levels, slots that collide,
  compact targets whose mantissa is shifted out.
* **Two ways to the same document**: a page's socket and its polls fail and overtake each
  other. Correct: the newest document wins in the end, and the label says how it came.

The hazards in `PROJECT.json` are these, each at its line with the properties that watch it. Those
without a property are of two kinds: what no bound reaches, and what the code does by design
or by an oversight named in section 6, which a property can only leave out.

## 2. Plan, and where it stands

The order is by importance: first the way of work to the miner, the shares and blocks that
come back, then what surrounds them.

1. `TemplateFeed`, `TemplateSource`, `NodeFeed`, `WorkPipeline`: done; safety proved.
2. `Session`: done; safety proved.
3. `Ledger`, `Accounting`: done; safety and refinement proved.
4. `Blocks`, `Connections`, `Supervision`: done; safety proved.
5. `Settings`, `Retention`, `ShareWindow`: done; safety proved.
6. `Vardiff`: done; safety proved. `SteadyMiner`: done; model-checked. `Merkle`, `AuxTree`:
   done; proved for any hash. `Encoding`, `Coinbase`, `Addresses`, `Targets`, `NodeRules`,
   `BlockBuilding`: done; whom blocks pay, the search for a tree and which blocks are
   submitted proved, what else is said of bytes model-checked.
7. `Dashboard`: done; safety proved.
8. A proof worth trying next: what the nodes read of a block after its header (`BlocksReadBack`),
   reader by reader, as it is done for the header.

## 3. The modules

The names of constants, variables and actions follow the code where they can. In most
modules one action is one handler or one step up to the next await. Variables marked
*history* in a module are read by properties only. Some definitions stand beside a mapped
one, have its parameters and are used by nothing (`WithdrawDueLate` next to `WithdrawDue`):
each is a slip one could make in that definition, kept with the property that would notice it.

**TemplateFeed** is the promise of a template channel: tips never go back, and a template on
a tip that no clean template announced leaves a debt that the next template pays by being
clean. **TemplateSource** is `poll_loop`: `pc` is where the loop is, `seen` the tip and tag
of the pass in progress, and time is in ticks, which pass only while the loop sleeps or
waits for a node that does not answer. The node mines, fails and comes back at any
point, also between the two calls; a notification is lost at will. `ImplementsFeed` says
that it implements `TemplateFeed` with the tag left out of the channel's value.

**NodeFeed** is what `node_feed` and `spawn_feed` build for one chain: the loop of
`TemplateSource` and the subscriber of `zmq.rs`, which share the status channel. The subscriber
reads frames (of blocks, other topics, commands, and one that is too large), its peer
refuses, hangs, closes or vanishes, and each failure makes it wait longer. What
`TemplateSource` leaves open (when a notification comes, what the status says) is decided
here, and the composition is shown to implement it. A vanished peer is never noticed, as in
the code. **MCNodeFeed** holds the back-off table.

**WorkPipeline** composes two channels that behave as any `TemplateFeed` does with `merge`
(`MergeWaits`, `MergePublishes`) and sessions that are busy and therefore late. A template may be
published again on the tip it had, refreshed or back after an outage, and an aux template then
returns to jobs that were made without it. `hidden`
remembers for which readers a clean value was overwritten by one that is not. A job
is reduced to the tips it builds on and its two flags.

**Session** is one connection and its miner. A submit takes a solution with a level its hash
achieves, in a good or a bad form, and may retarget. The miner is what it knows after
reading all that was sent to it, and may hold jobs of an earlier session with the same ids.
Works are numbered by publication: the refresh of an unchanged template is another one, and a
job of it knows nothing of what was credited before, in the code as in the model.

**Ledger** is the abstract account of work (volatile, banked); **Accounting** is the
publisher: shares, rejects, authorizations, disconnects, the tick with its flush, reset of
one or all, removal, the block stamp and restart. A flush writes the whole queue or nothing
(one transaction); a command goes on after a flush that failed, as the code does.
**MCAccounting** adds symmetry.

**Blocks** is one coin's candidates from `Find` to the settled row. A call fails before the
node saw the block or after; the tracker reads, asks and writes in three steps; the
process is stopped or killed between any two. A hash in `Repeated` is one an aux block has
that two shares of one job solve.

**Connections** is the connection loop's order: the write, which ends only when the miner reads
and may fail; then each event by a `try_send` of its own; then each block by a `send` that waits.
An authorization makes one event, or two if it is the connection's first and sets the
difficulty; a share makes one, or two if it changes the difficulty, and solves the blocks of any
of the chains; new work, the timer and `mining.suggest_difficulty` may change the difficulty
(`Push`). Beyond the channels are the publisher's table of live sessions, the snapshot and the
API's check against it, the command channel, the submitter, and shutdown: listener, publisher
and submitter are tasks that `pool::run` joins; connections are spawned and nobody waits for them.
**MCConnections** adds symmetry.

**Supervision** is `main` and `pool::run`: the `select!`s, the join set and what dropping it
aborts, the drain with its five seconds.

**Dashboard** is a page open on the server: the publisher's documents, numbered; the task that
streams them to a socket; the page's `LiveStatus` with its handlers, its timer and requests
in flight that may overtake each other; a network that breaks a connection or lets its peer
vanish; and a process that closes its listener and goes. **MCSupervision** runs it beside
`Supervision`.

**Settings** is `LiveSettings::start` and `apply_patch`, key by key. Five keys stand for
all: the three difficulties that constrain each other, one whose validity depends on the
node's network, and one checked by the dashboard but not by the loader of the file. `Doc` is
the document the dashboard shows. A text may be written with blanks around it: patch, table and
document keep them, `validate` trims them off for the running pool. A patch ends half way when a write fails and when its
client goes away.

**ShareWindow** is what is done to sequences of shares: the window in memory, the two deletions
of `trim_shares`, and what a start reads of the log and makes of it. **Retention** is one
tick of persistence over time: `maybe_sample`, the flush of shares, and the seven
statements of a pass, each of which may fail or be the last one before a kill; averages are
exact fractions, `covers` says which samples a row stands for, and `arrived` which shares
reached the pool. `scenario` picks the table that fills. **MCStore** runs `Settings` and
`Retention`, one while the other rests.

**Vardiff** is `on_share`, `evaluate` and `suggest_difficulty` over integers; **SteadyMiner**
runs it under an erratic miner (any shares, any suggestion) and under miners of constant
speed; **MCVardiff** holds the two configurations.

**Encoding**, **Merkle**, **AuxTree**, **Coinbase** and **Addresses** are the pure functions.
The trees are over any hash of pairs, and their loops are functions of the number of rounds,
so that they can be proved about; the others are byte for byte.
Double SHA-256 is `Digest`, 32 bytes that depend on every byte and its place; collisions of
it would make a property fail, not hold. **Targets** is 256-bit targets as bytes: the compact
form, the target of a share difficulty, and the comparison. **NodeRules** is the other side:
what the nodes deserialize, format by format, and check, written from their formats and
marked external. **BlockBuilding** lets authorization and template arrive in either order,
searches the aux tree nonce by nonce and level by level, builds the job, and validates a
share whose hash is chosen around the targets: it is turned down, or makes a block for each
chain whose target it meets; the nodes' readings of the blocks are compared with what was mined.
That an aux block may have gone stale before its share comes (`validate.rs:98`) is in `Session`.
Hashes come from a node back to front and are turned (`FromDisplayHex`); a template whose hex
cannot be read fails its poll, which is in `TemplateSource`.

## 4. What TLC checks

All runs pass but the last, which shows a disagreement with the documentation. A
property written as `A /\ B` in the table is one definition, made of parts that have their
own definitions and comments.

| Run | Properties, in words |
|---|---|
| `source` | `TipsArriveInTime`: a tip is announced at once if its notification arrives and otherwise within one longest delay, also over a subscription that is dead. `StalenessBounded`: a template outlives the last successful poll by a bound worked out from the delays and the client's time-out. `ReachableHasTemplate`: what was withdrawn comes back on the same tip. `SubscriptionWorks` (`SubscriptionAgrees /\ ResubscribesInTime`): the status is the session's, each block that arrives is counted once, and a node that stays up is subscribed to again in time. `ImplementsFeed`. `EventuallySettled`: a node that settles is followed. |
| `pipeline` | `TypeOK`. `NoOutdatedAuxBlock`, `NewestJobIsCurrent` of sessions that have caught up. `OldTipJobsStale`: jobs older than the announced tip are stale unless the flag was overwritten unread. `CleanOncePerTemplate`: aux changes make nobody drop jobs. `EventuallyCurrent`. |
| `session` | `JobsAgree` (`LiveJobsAgree /\ TargetsAgree`): session and miner mean the same jobs at the same difficulty. `NoDoubleCredit`: a solution is credited once for each publication of work, under whichever jobs it is sent. `CandidatesAreGood` (`JobsPayOneAddress /\ CandidatesOnCurrentTips`): what is sent to a node pays the worker who mined it and builds on tips of its day. `WorkReachesMiner`. |
| `accounting` | `WorkAccountedFor`, `CountsAgree`: memory is row plus queue. `NothingUnderflows` (`PoolCountsAreSums /\ RoundWorkNotNegative`): no unsigned subtraction takes more than there is. `ImplementsLedger`. |
| `blocks` | `TableAgrees` (`VerdictsWereTrue /\ NothingUnrecorded`): rows say what was true, and no block of the node's goes missing. `SettledStays`. `CandidatesSettle` (`CandidatesAreRecorded /\ AcceptedSettles`): each candidate gets its row and each accepted row its end. |
| `connections` | `ShownAsConnected` (`NoGhostSession /\ LiveSessionKnown`): the table of live sessions is that of the connections, whatever the operator removes; left out are connections whose write failed and those whose authorization was dropped. `BlocksAreHandedOn`: the blocks that shares solved, of every chain, are those with the connections, in the channel, with the submitter and lost, no block in two of these places or twice in the channel; one is lost only by a failed write or at a shutdown. |
| `connections_shutdown` | `ShutdownCompletes`: listener, publisher and submitter end, and every connection but those whose miner never reads what is being written. |
| `supervision` | `ReturnedIsDone` (`NoTaskOutlivesPool /\ ReturnedIsWritten`). `ProcessEnds`: a signal ends the process, and a failure ends it with an error. `PageFollows` (`LabelIsHonest`, `LiveSnapshotsWin`, `FollowsPool`, `NoticesEnd`): an open socket's documents are never replaced by an older answer, the newest document is shown in the end, and a page says when its process is gone. |
| `store` | `ConfigurationAgrees` (`ShownIsLive /\ ShownIsStored`): what the document shows is what the pool uses and what the table restores. `ValidFileStarts`, whatever the table holds. `SamplesAreCovered` between any two statements. `RowsAreBuckets` (`FoldedByAge /\ AveragesExact`): after a pass only bucket starts are left, and while nothing fails each is an exact mean. `WindowIsNewest`: after any restart the hashrate is estimated from a worker's latest shares without a gap. |
| `vardiff` | `RetargetsAgreeWithWork` (`NeverLowersFastMiner /\ NeverRaisesSlowMiner /\ OnlyQuietFallsFar`). `Rests` (`Settles /\ SettlesNearTarget`) of steady miners. |
| `block_building` | `RewardsAreMeant` (`PaysOwnChain /\ MinersAreHeard`) of every user name and password. `BlocksReadBack` (of each block `ParentBlockReads` or `AuxBlockReads`, `HeightReads`, `HeaderMatchesBlock`): the nodes read what was mined. `ProofsAreAccepted` (`TreeIsFound /\ EveryNodeAccepts`): a proof at its slot, leading to the root that follows the only merged-mining header of the coinbase. `SolutionsAreSubmitted`: a chain's node gets a block exactly when it takes its hash for a proof of work, unless the chain is easier than the shares the miner was asked for (such a share is turned down first). |
| `blocks_rejected` (violation) | `RejectedWasRefused`: see section 6. |

`TypeOK` (`PageTypeOK` in `Dashboard`) gives the domains of each module's variables. It is checked in the core module's
run and proved, for all values of the constants, for `TemplateSource`, `WorkPipeline`, `Session`,
`Accounting`, `Blocks`, `Connections`, `Supervision`, `Dashboard` and `Settings`, as a part of
each invariant below. `WithdrawnLate` is likewise proved and not listed: a template is withdrawn
only after the stale time.

### Bounds

* `source`: two tips and two tags, which are interchangeable (`FirstTag`), one change of the tag
  (`MaxTagSets`); the delays are small numbers in the order of the defaults, so that every
  comparison between them goes both ways; a back-off of two steps, the second kept for good;
  at most one message that is no block in the subscriber's buffer.
* `pipeline`: one session (sessions do not affect one another: `SessionStep` in the proofs
  shows it for any number), two tips a chain, four parent templates, two jobs kept, so that
  a clean template, its refresh, an aux template that is withdrawn and comes back on its tip,
  and a job dropped for age all occur.
* `session`: two workers with two payouts, two difficulties, two works, two jobs kept and one
  solution, which is enough to submit it twice under different jobs.
* `accounting`: two workers under symmetry, three shares, a flush threshold of two, `Mult` 2.
* `blocks`: a hash found once and one found twice, two failures, two reorganisations (away
  and back), one stop, maturity 2.
* `connections`: two connections of one worker under symmetry, two requests each, one removal,
  two chains, and room for one event and one block: the channel takes one event of an
  authorization and drops the other, in either order, and a share's second block waits behind
  its first while a write fails or a shutdown comes between them. `connections_shutdown`: one
  chain and no removal, as the property is of tasks, every channel holding one, so that each
  is full at some point of most behaviours.
* `supervision`: two nodes, two connections, two panics, a web failure. Of the page: three
  documents, two requests in flight, two faults of the network: enough for an answer two
  documents old to arrive after a socket has opened, delivered and closed. A page changes
  nothing of the process and sees of it only whether it answers and is there, so each is run
  while the other rests (`MCSupervision`).
* `store`, of the settings: three values and two more with blanks, two patches of up to two
  changes, one failure, restart and edit each: a patch can meet what a refused one and an edit
  of the file left behind.
  For samples, buckets of 2 and 4, ages of 1, 3 and 4, a pass every tick, time from 4 to 12: a
  sample can be folded twice and expire, one pass is broken off, and passes end in the middle
  of a bucket, so that folding a part of one would show. For shares, two workers under
  symmetry, four shares, time to 7, a log of three rows kept for two ticks, as long as the
  window, and a start that reads two rows: each cap is exceeded and shares are trimmed by age.
  No statement touches two of these tables and none is read for another, so a behaviour fills
  one of them (`part`, `scenario`).
* `vardiff`: for the erratic miner four difficulties and a window of four time units with at
  most one share in each; for the steady ones three speeds, below, within and above the
  configured range of 4 to 16.
* `block_building`: heights, tags and transaction counts at the edges of every encoding
  (`0x7f`/`0x80`, 252/253, 75/76), every set of up to three chain ids of three bits in every
  order. Chain ids and the tree's height are cut to what the height can tell apart: slots
  are taken modulo 2^h, so only the low bits of an id matter in a tree of that height. Four
  compact targets, from regtest's to a mainnet one; share difficulties of 1, 1.5 and 4 times
  256^k for k to 3, among them the code's least, initial and largest one (1024, 65536 and
  16777216, `config.rs:40`), and one too small to count; and hashes that are one of the targets,
  one above or one below.

Deadlock is checked in `source`, `pipeline` and `accounting`, which never stop. The
others may: a session closes, candidates, requests, failures and the clock are bounded, a
process exits, a block is built once.

### Fairness

What tokio and the client guarantee is assumed, and in one run a miner that reads.

* Weak fairness of a task's own steps: the runtime polls every task that is ready
  (`TasksRun`, `Fairness` in `Blocks`, `Supervision`, `TemplateSource`'s `Loop`), and a call
  ends within the RPC client's 30 seconds.
* A write to a miner has no time-out and ends when the miner reads. `Connections` assumes
  nothing of it (neither of `Written` nor of `WriteFails`), so `ShutdownCompletes` leaves a
  connection in its write; `main` gives such a process up after five seconds (`ProcessEnds`).
  `EventuallyCurrent` of `WorkPipeline` is about sessions that are not for ever in one write,
  and `WorkReachesMiner` of `Session` about a miner that reads what is sent to it.
* Strong fairness where a `select!` has several branches: tokio picks among ready branches
  at random, so one that is ready again and again is taken (`OnWork` in `WorkPipeline` and
  `Session`, the cancelled token in `Connections`).
* Time passes: `Tick` in `TemplateSource`, and strongly `FeedTick` in `NodeFeed`, which the
  subscriber's steps disable again and again, as each of them is done in no time. `Extend` in
  `Blocks`: the chain grows.
* In `Dashboard` the browser runs its handlers and timers and the server its tasks, and a request
  is answered or fails. An attempt to connect may hang for ever (`PeerVanishes`).
* In `SteadyMiner` the miner goes on working and gets its jobs.

Nothing else is assumed of miners, and nothing of web clients, the operator or the health of nodes.

## 5. What is proved

TLAPS proves these for any constants that satisfy the named `ASSUME` of the module. The
assumptions say that bounds are numbers, that capacities and intervals are positive, how the
defaults of the configuration are ordered, and that a value that stands for none is no member of
the set it is none of (`NoneAssumption`, `"merge" \notin Sessions`). In every module the
property is a consequence of an inductive invariant, which was first checked by TLC; the
properties themselves are seldom inductive, because they speak of the ends of a chain of
channels and handlers and the invariant has to say what holds at each link.

**NodeFeed_proofs**, from `SourceAssumption` and `FeedAssumption`. First the polling loop alone.
`SourceInv` adds to `TypeOK` that remembered tips are in order (`TipsInOrder`) and that channel,
`withdrawn` and last tip belong together (`ChannelHolds`). From it: `SourceTypes`,
`ReachableTemplate`, `WithdrawnLate` and `SourceImplementsFeed`, the refinement: initial states
map to initial states and each step to a step of `TemplateFeed` or a stutter. The bounds on time
come from accounts of it: what has passed of a delay and what is left of it fit into the longest
one (`LagFits`, hence `TipsInTime`), and the age of a template at each place of the loop fits
into the rest of the stale time (`AgesFit`, hence `NeverStale`). Then the composition: each step
of loop, subscriber and network is a step of `TemplateSource` or a stutter
(`NodeFeedImplementsSource`), so that what is proved of the loop is true of it
(`NodeFeedImplementsFeed`, `NodeFeedHasTemplate`, `NodeFeedNeverStale`). `FeedInv` says that the
status is the session's, that the wire carries whole messages and the session is in the middle
of one (`WireInOrder`), that an outage fits into the back-off (`OutageFits`), and that a
notified tip is under way (`Heard`). From it: `SubscriptionKeptUp` and `TipsAnnounced`.

**WorkPipeline_proofs**, from `PipelineAssumption`. `PipelineInv`: what merge published is of the
present templates unless a channel is unread (`MergedIsCurrent`); a session's work is the merged
value unless it is unread (`WorkIsCurrent`); every job not marked has the aux tip of the
session's work (`JobsFollowWork`); the newest job is that work's (`LastJobIsWork`). From it:
`TypeCorrect`, `AuxBlocksCurrent`, `NewestJobCurrent`, `CleanAtMostOnce`. `AnnouncedInv`: at each
link the announced tip has arrived, or is owed, unread or was overwritten (`hidden`). From both:
`OldJobsStale`.

**Session_proofs**, from `SessionAssumption` and `NoneAssumption`. `SessionInv`: ids are given out
once and session and miner mean the same by them (`IdsAreFresh`, `LiveAgree`, `DiffsAgree`); works
are read in the order of their publication (`WorksInOrder`), a work is one job (`JobsOfWorks`),
a job remembers what was credited to its work (`CreditsAreSeen`), and one that may be worked on
builds on current tips (`UsableJobs`). From it: `MinerAgrees`, `CreditedOnce` (once for each
publication of work), `GoodCandidates`.

**Accounting_proofs**, from `AccountingAssumption`. `AccountInv` says, worker by worker, that
memory times `Mult` is row plus queue and, which makes it inductive, that every stored figure is
a whole number of network units, so that the integer division at a restart loses nothing; and
that a row which does not exist is zero everywhere. From it: `TypesKept`, `WorkIsAccountedFor`,
`CountsDoAgree`. `TotalsInv` adds the pool's totals, which are sums over the workers; what a
change of one worker does to a sum is proved once, by looking at the least set for which it
fails. From it: `NeverUnderflows`, and the refinement `KeepsTheLedger`.

**Blocks_proofs**, from `BlocksAssumption`. `TableInv`: the chain's history, the answer a
submitter holds and the reading a tracker holds are true, so the row written later is
(`TableAgreesWithChain`). `OnceInv`: a hash found once is in the channel, with the submitter or in
the table, and the tracker walks its row while it is open (`InOnePlace`); hence
`SettledRowsStay`. Then the trees in a found block, for any `HashPair` and any set of hashes it
does not leave (`Closed`). A loop whose k-th round takes the set S[k - 1] to S[k] runs and is in
S[k] (`LoopRuns`), by induction over the numbers; what a loop keeps is then its S. `branch_at`
is at a node to which the steps it has made lead from its leaf (`OnTheWay`), and
`coinbase_branch` holds all but the first node of its level (`BesideTheWay`), until the level is
the root: `BranchGivesRoot`, `CoinbaseBranchGivesRoot`. With `LeavesOfChains` and `BranchLength`
these give `AuxProofsLead`, which is what the nodes ask of an aux block's proof. That a nonce and
a height with distinct slots are found follows from the arithmetic of `expected_index`: its factor
is odd and a tree's size a power of two, so it keeps apart what differs modulo the size
(`OddFactor`, `StirredApart`), and ids of h bits have slots of their own in a tree of height h
(`WideTreesAreDistinct`). Hence a nonce is counted only below that height (`SearchInv`), and the
search ends in time: `TreeIsAlwaysFound`, from `BuildingAssumption` (`IdBits <= MaxHeight`; a
chain id has 16 bits and `MAX_CHAIN_BRANCH_LEN` is 30). Last, what a session pays is what the
miner gave, resolved once (`RewardInv`), and an address for which `payout_script` makes a script
is one that the chain's own node takes for its own (`OwnAddress`): `RewardsGoWhereMeant`.

Which blocks are submitted is a matter of bytes, for any `HashPair` that makes hashes of hashes
and a `NoHash` that is one (`HashesAreBytes`; `PairsAreHashes` shows it of the code's). The pool
compares a hash with a target from the last byte down, the node from the first up: one is met
exactly when the other is (`MetIsAtMost`), an order in which what meets a target meets a higher
one (`MeetsHigher`). Its node decodes compact bits into a mantissa with zeros behind it, the pool
into one with zeros below it, and both get the same 32 bytes for bits that are neither negative
nor too large (`TargetIsReversed`), which is what `BuildingAssumption` says of the bits nodes ask
for. It bounds no difficulty: shares may be of any number of units of 2^-16, and of 256^k times
that for any k. Reading fields one after the other gives back what was written if each field's reader gives
back its own (`FieldsRead`), so the bits read of a block are those of its header, whatever comes
after it (`BlockHeaderReads`), provided that everything is bytes at all: coinbase, tree,
commitment, proof and transactions (`PartsBytes`, `TreeBytes`, `AuxPowBytes`, `TxDataBytes`).
`SolveInv` carries this from the job to the found blocks; with `SearchInv` and `RewardInv` it is
inductive, and gives `SolutionsReachNodes`.

**Stratum_proofs**, from `ConnectionsAssumption` and `VardiffAssumption`. `ConnectionsInv`, connection by connection:
effects are applied in order, its events stand in the channel in order and the last one takes
its workers back (`EventsInOrder`), its end is known or on its way (`EndIsKnown`), each of its
workers too (`WorkersAreKnown`), and every block that was found is in one place and of a request
that was made, so that the next request finds a new one (`BlocksInOnePlace`); for any set of
chains, sessions and workers. From it: `ShownIsConnected`, `BlocksAccountedFor`; with the channels' capacities (`Bounded`), `TypesKept`.
Of the difficulty, `RateInv`: the remembered shares end like those of the window and begin with
outdated ones or none (`Remembers`), which trimming from the front turns into the window's last;
and no more shares have come since one of the window than its age allows (`Paced`), which bounds
them by the cap if it is `Roomy`. `Work` is a recursive function: that it is a sum, and that of
the last shares of a window no more than of all, is proved by induction over the numbers. From
these `SlowMinersNotRaised`, `OnlyQuietMinersFallFar` and, where the cap is `Roomy`,
`FastMinersNotLowered`; together `RetargetsAgree`. Without room the last fails (section 6).

**Supervision_proofs**, from `SupervisionAssumption` and `DashboardAssumption`. `SupervisionInv`: tokens, outcome and tasks
belong together. From it: `TypesKept`, `NothingLeftBehind`, `SuccessOnlyOnSignal`. Of the page,
`PageInv`: a socket's messages come in order, none of its documents is older than what the page
shows once one has been heard (`WireInOrder`), no answer is newer than the newest document
(`AnswersAreKnown`). From it: `PageIsHonest`, and the action property `NoStepBack`.

**Store_proofs**, from `SettingsAssumption` and `RetentionAssumption`.
`SettingsInv`: at a start the table holds the keys kept and those still to be tried
(`StartAgrees`), and during a patch what it has written (`PatchAgrees`). From it:
`ConfigurationsAgree`, `ValidFilesStart`. `RetentionInv`: a row stands for samples of its own
long bucket (`RowsStartTheirSamples`), and between the two statements of a fold each row of
the range has gone into its bucket's (`Absorbed`); long buckets end where mid buckets begin.
From it: `NoSampleLost`, and `RowsFoldedByAge`, the first half of `RowsAreBuckets`. The second,
`AveragesExact`, needs to know which rows there are: while the pool runs steadily they are, up to
where the statements of the pass have come, all the hours, minutes and samples of their windows
and no others, each the exact mean of its span (`SteadyInv`). A fold then meets whole rows that
tile its bucket in equal spans (`HoursTiled`, `MinutesTiled`), and the mean of the means of such
spans is the mean of the whole (`MeanOfMeans`, by induction over sums of fractions):
`AveragesStayExact`, hence `RowsStayBuckets`. They assume that a pass comes at least as often as
a row takes from the first age to the second (`RetainInterval <= MidAge - RawAge`; ten minutes at
`persist.rs:14`, a day and a week at `retention.rs:26`, none of them an operator's setting). The
assumption is needed: with buckets of 2 and 4, ages of 1, 2 and 3 and a pass every 3 ticks TLC
finds an hour averaged from a minute and single samples, each weighing the same.
`SharesInv`: the queue has the last of the shares that arrived (`LastQueued`), the table the last
of the others (`NewestStored`), each window the last accepted ones of its worker
(`NewestInWindow`), and a share that is missing is too old or has too many after it. It rests on
lemmas about `Kept`, the elements of a sequence that are in a set (kept twice, of a concatenation,
split where the last ones begin), proved by induction over sequences, and on what `Newest` leaves
of a sequence in order (`NewestIs`). From it: `WindowsAreNewest`.

Only model-checked: every liveness property, among them the second half of `PageFollows`; and
what `BlockBuilding` says of a block's bytes after the header (`BlocksReadBack`, `EveryNodeAccepts`).

## 6. What the models found

Run `blocks_rejected`: `docs/OPERATING.md:263` says of a block shown as rejected "The node
refused it". Two ways lead to a rejected row of a block its node has. A submitblock call
whose answer is lost is recorded like a refusal and never looked at again
(`alamo/src/pool.rs:226`); and of two candidates with one aux hash the node answers
"duplicate" to the second, whose verdict replaces the first
(`alamo-store/src/blocks.rs:108`).

Other places where code and words part, met while modelling. The models do what the code
does, and the properties are stated so that they hold with it:

* A clean flag overwritten on a watch channel leaves jobs on the old tip live
  (`session.rs:323`; `docs/ARCHITECTURE.md:31`). `OldTipJobsStale` excludes exactly these.
* A reset goes ahead after its flush failed, and the queue is added to the zeroed rows
  later (`pool.rs:578`, comment at 576). `CountsAgree` has `intact` for it.
* A block is stamped with the work in the table, without what is queued (`blocks.rs:104`;
  `docs/ARCHITECTURE.md:69`).
* A session whose write fails sends no `Disconnected` and stays in the worker's set
  (`server.rs:221`; `docs/OPERATING.md:224`), and its candidates are lost. A write has no
  time-out: behind a miner that stops reading, the blocks of its last share wait as long, and
  its connection does not see a shutdown.
* A solution may be credited again under the job of a refreshed, unchanged template
  (`validate.rs:54` remembers for each job); `NoDoubleCredit` is about one publication.
* An aux coinbase has a scriptSig of one byte, below the least that consensus allows, at heights
  to 16 with an empty tag (`coinbase.rs:42`); `HeightReads` excepts it.
* An extranonce2 that holds the merged-mining magic makes the aux nodes refuse the proof
  (`auxpow.rs:153`); no check keeps a miner from it.
* Events still in the channel at a shutdown are not written (`pool.rs:647`;
  `docs/OPERATING.md:235`), and on a signal `run` may see a returned task before the token
  and abort the publisher before its last flush (`pool.rs:466`; `main.rs:135`).
* A config file with a pool name only `LiveSettings::validate` refuses passes `--check` and
  panics at start (`settings.rs:154`); overrides valid only together are dropped on a
  restart (`settings.rs:138`).
* A retention pass killed between averaging and deleting averages twice
  (`retention.rs:119`; `docs/ARCHITECTURE.md:66`).
* With `4 * retarget_seconds / target_share_seconds` above 512 the cap on remembered shares
  makes a miner look slower than it is (`vardiff.rs:24`).
* Two chains' slots in the aux tree differ by a number that does not depend on the nonce:
  only widening separates them (`auxpow.rs:104` speaks of unlucky nonces).
* The longest tag allowed without aux chains is a byte too long from height 2^23 on
  (`settings.rs:188`).
* A worker that stopped keeps a slowly falling hashrate (`stats.rs:415`); the last share
  shown after a restart may be an authorization (`stats.rs:100`).
* The ZMQ subscriber does not notice a peer that vanishes (`zmq.rs:145`): the loop goes on
  sleeping its longer delay, which `TipsArriveInTime` allows for. Nor does a page whose socket is
  half open (`live.svelte.ts:95`): it shows its last document as live. `PageFollows` leaves
  such pages out (`Deceived`).
* An answer asked for before a socket opened, delivered and closed replaces the newer document
  (`live.svelte.ts:84`) until the next one; `PageFollows` says that there is a next one.
* A share is turned down before it is compared with the chains (`validate.rs:74`): with shares
  harder than a chain, blocks of that chain are thrown away.
* A client that goes away in the middle of a patch leaves some of its keys stored, and shown as
  they were before (`settings.rs:491`); `ShownIsStored` has `torn` for it.

## 7. What is not modelled

The RPC client, the wire format and the configuration loader are parsing and I/O; other
models have their effects (answers, errors, time-outs, bad messages). The scrypt and SHA-256
hashes are stand-ins; odds, reported difficulties and the hashrate estimate are floating-point
quotients. Of the web API, metrics and log ring format a snapshot or keep lines under one
lock; of the dashboard, everything but its live status is presentation. Store opening,
migrations and deployment have no logic of their own. Within modelled parts: settings
backups and the node probe read only; several coins' candidates share one submitter, of which
`Blocks` sees one coin; extranonces repeat after 2^24 connections, which no bound reaches; the
room for a coinbase tag without aux chains is a byte too large from height 2^23 on, where
`BlockBuilding` stops.
