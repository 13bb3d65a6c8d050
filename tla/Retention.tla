----------------------------- MODULE Retention -----------------------------
(***************************************************************************)
(* What the pool remembers of its workers' hashrate: the samples of one    *)
(* worker, the log of shares from which the window in memory is restored,  *)
(* and the pass that trims the log and folds old samples into coarser      *)
(* buckets (crates/alamo-store/src/retention.rs, called by                 *)
(* crates/alamo/src/persist.rs on the publisher's tick).  A pass is a      *)
(* sequence of statements, each a transaction of its own; a statement can  *)
(* fail and the process can be killed between two of them.                 *)
(*                                                                         *)
(* The unit of time is the interval between samples.  An average is an     *)
(* exact fraction.  The clock starts at a bucket boundary: with no sample  *)
(* missed, every bucket is complete.  No statement touches both tables, so *)
(* a behaviour fills one of them: "steady", with samples, never down and   *)
(* no pass failing; "samples", with outages that miss samples and passes;  *)
(* "shares", with outages too.                                             *)
(***************************************************************************)
EXTENDS FiniteSets, ShareWindow

CONSTANTS Rates,      \* the hashrates a sample can have
          MidBucket, LongBucket,      \* sample_mid_bucket, sample_long_bucket
          RawAge, MidAge, LongAge,    \* sample_raw_secs, _mid_secs, _long_secs
          RetainInterval,
          Workers,    \* the workers whose shares arrive
          MaxTime,    \* bound on the clock
          MaxShareTime, MaxShares,  \* bounds on the clock and the shares of "shares"
          MaxAborts   \* bound on passes that do not finish

ASSUME RetentionAssumption ==
  /\ MidBucket \in Nat \ {0} /\ LongBucket \in Nat \ {0} /\ LongBucket % MidBucket = 0
  /\ RawAge \in Nat /\ MidAge \in Nat /\ LongAge \in Nat
  /\ RawAge < MidAge /\ MidAge < LongAge
  /\ RetainInterval \in Nat
  /\ MaxTime \in Nat /\ LongBucket <= MaxTime /\ MaxShareTime \in Nat /\ MaxShares \in Nat /\ MaxAborts \in Nat /\ Rates \subseteq Nat

VARIABLES
  scenario,   \* which table fills, and how
  now,
  samples,    \* hashrate_samples: the value of the row at each timestamp
  pass,       \* the retention pass: the next statement, and its time
  lastSample, \* last_sample_ts
  lastRetain, \* last_retain_at
  aborts,
  window,     \* per worker, the accepted shares in memory, oldest first
  queue,      \* the shares Persistence holds for the next flush
  shares,     \* the shares table, in the order of (ts, id)
  arrived,    \* history: the shares that no crash lost
  recorded,   \* history: what was sampled at each timestamp
  covers,     \* history: the timestamps whose samples each row averages
  folded      \* history: the time of the last pass that finished

rows == <<samples, covers>>
shareVars == <<window, queue, shares, arrived>>
sampleVars == <<rows, lastSample, recorded>>
retentionVars == <<scenario, now, sampleVars, shareVars, pass, lastRetain, aborts, folded>>

steady == scenario = "steady"

(* Fractions, not reduced: two of them can be the same number. *)
Plus(p, q) == <<p[1] * q[2] + q[1] * p[2], p[2] * q[2]>>
Same(p, q) == p[1] * q[2] = q[1] * p[2]

(* SQLite's AVG: the sum of the rows at the times of T by their number. *)
Mean(f, T) ==
  LET sum[t \in 0..(MaxTime + 1)] ==
        IF t = 0 THEN <<0, 1>>
        ELSE IF t - 1 \in T THEN Plus(sum[t - 1], f[t - 1]) ELSE sum[t - 1]
      total == sum[MaxTime + 1]
  IN <<total[1], total[2] * Cardinality(T)>>

Idle == [step |-> "idle"]

RetentionInit ==
  /\ scenario \in {"steady", "samples", "shares"} /\ now = LongBucket /\ samples = <<>> /\ covers = <<>> /\ recorded = <<>>
  /\ pass = Idle /\ lastSample = 0 /\ lastRetain = LongBucket /\ aborts = 0 /\ folded = 0
  /\ window = [w \in Workers |-> <<>>] /\ queue = <<>> /\ shares = <<>> /\ arrived = <<>>

Write(f, t, v) == [x \in DOMAIN f \union {t} |-> IF x = t THEN v ELSE f[x]]

(* What the hashrates are matters to the averages alone, which are looked  *)
(* at while the pool runs steadily.                                        *)
RatesNow == IF steady THEN Rates ELSE {CHOOSE rate \in Rates : TRUE}

(* maybe_sample.                                                           *)
Sample ==
  /\ scenario # "shares"
  /\ pass = Idle /\ now > lastSample
  /\ \E rate \in RatesNow :
       /\ samples' = Write(samples, now, <<rate, 1>>)
       /\ recorded' = Write(recorded, now, <<rate, 1>>)
  /\ covers' = Write(covers, now, {now})
  /\ lastSample' = now
  /\ UNCHANGED <<scenario, now, pass, lastRetain, aborts, folded, shareVars>>

RetainDue == now - lastRetain >= RetainInterval

(* on_tick comes every two seconds: while the pool is up no sample is      *)
(* missed and a pass that is due runs at once, to its end.                 *)
Tick ==
  /\ now < (IF scenario = "shares" THEN MaxShareTime ELSE MaxTime) /\ pass = Idle
  /\ steady => lastSample = now /\ ~RetainDue
  /\ now' = now + 1
  /\ UNCHANGED <<scenario, sampleVars, shareVars, pass, lastRetain, aborts, folded>>

\* The publisher counts a share and queues it for the store.
Share(w, accepted) ==
  /\ scenario = "shares" /\ pass = Idle /\ Len(arrived) < MaxShares
  /\ LET share == [id |-> Len(arrived) + 1, worker |-> w, accepted |-> accepted, at |-> now]
     IN /\ window' = [window EXCEPT ![w] = Applied(@, share, now)]
        /\ queue' = Append(queue, share)
        /\ arrived' = Append(arrived, share)
  /\ UNCHANGED <<scenario, now, sampleVars, shares, pass, lastRetain, aborts, folded>>

\* persist_batch: one transaction.
Flush ==
  /\ pass = Idle /\ queue # <<>>
  /\ shares' = shares \o queue
  /\ queue' = <<>>
  /\ UNCHANGED <<scenario, now, sampleVars, window, arrived, pass, lastRetain, aborts, folded>>

----------------------------------------------------------------------------
AlignDown(t, bucket) == (t \div bucket) * bucket

LongStart == AlignDown(pass.at - LongAge, LongBucket)
LongEnd   == AlignDown(pass.at - MidAge, LongBucket)
MidStart  == AlignDown(pass.at - MidAge, MidBucket)
MidEnd    == AlignDown(pass.at - RawAge, MidBucket)

Between(lo, hi) == {t \in DOMAIN samples : lo <= t /\ t < hi}
BucketOf(t, bucket) == (t \div bucket) * bucket

(* downsample_range's first statement: the average of each bucket becomes  *)
(* the row at the bucket's start.                                          *)
Fold(lo, hi, bucket) ==
  LET starts == {BucketOf(t, bucket) : t \in Between(lo, hi)}
      Of(b)  == {t \in Between(lo, hi) : BucketOf(t, bucket) = b}
  IN /\ samples' = [t \in DOMAIN samples \union starts |->
                      IF t \in starts THEN Mean(samples, Of(t)) ELSE samples[t]]
     /\ covers'  = [t \in DOMAIN samples \union starts |->
                      IF t \in starts THEN UNION {covers[x] : x \in Of(t)} ELSE covers[t]]

Keep(T) ==
  /\ samples' = [t \in T |-> samples[t]]
  /\ covers'  = [t \in T |-> covers[t]]

(* Its second: the rows that are not at a bucket's start go.               *)
DropNothing(lo, hi, bucket) == UNCHANGED rows

Drop(lo, hi, bucket) ==
  Keep({t \in DOMAIN samples : t \in Between(lo, hi) => BucketOf(t, bucket) = t})

(* maybe_retain is due.                                                    *)
StartPass ==
  /\ pass = Idle /\ RetainDue
  /\ scenario = "shares" => queue = <<>>
  /\ pass' = [step |-> "trim", at |-> now]
  /\ UNCHANGED <<scenario, now, sampleVars, shareVars, lastRetain, aborts, folded>>

Statement(step, next) ==
  /\ pass.step = step
  /\ pass' = [pass EXCEPT !.step = next]
  /\ UNCHANGED <<scenario, now, lastSample, lastRetain, aborts, recorded, folded>>

\* trim_shares deletes by age, then counts and deletes the oldest above the maximum.
TrimShares ==
  /\ Statement("trim", "cap")
  /\ shares' = Aged(shares, pass.at)
  /\ UNCHANGED <<rows, window, queue, arrived>>
CapShares ==
  /\ Statement("cap", "fold long")
  /\ shares' = Capped(shares)
  /\ UNCHANGED <<rows, window, queue, arrived>>

FoldLong ==
  Statement("fold long", "drop long") /\ Fold(LongStart, LongEnd, LongBucket) /\ UNCHANGED shareVars
DropLong ==
  Statement("drop long", "fold mid") /\ Drop(LongStart, LongEnd, LongBucket) /\ UNCHANGED shareVars
FoldMid ==
  Statement("fold mid", "drop mid") /\ Fold(MidStart, MidEnd, MidBucket) /\ UNCHANGED shareVars
DropMid ==
  Statement("drop mid", "expire") /\ Drop(MidStart, MidEnd, MidBucket) /\ UNCHANGED shareVars

(* The last statement: rows before the long window go.                     *)
UnalignedHorizon == pass.at - LongAge
Horizon == LongStart

Expire ==
  /\ pass.step = "expire"
  /\ Keep({t \in DOMAIN samples : t >= Horizon})
  /\ pass' = Idle /\ lastRetain' = pass.at /\ folded' = pass.at
  /\ UNCHANGED <<scenario, now, lastSample, aborts, recorded, shareVars>>

(* A statement fails; the pass is tried again on a later tick.             *)
StatementFails ==
  /\ ~steady /\ pass # Idle /\ aborts < MaxAborts
  /\ aborts' = aborts + 1 /\ pass' = Idle
  /\ UNCHANGED <<scenario, now, sampleVars, shareVars, lastRetain, folded>>

(* The process is killed, or stops, and starts again: Stats::load.  What   *)
(* was queued is lost.                                                     *)
Kill ==
  /\ ~steady /\ aborts < MaxAborts
  /\ aborts' = aborts + 1 /\ pass' = Idle
  /\ lastSample' = 0 /\ lastRetain' = now
  /\ queue' = <<>>
  /\ arrived' = Kept(arrived, ToSet(arrived) \ ToSet(queue))
  /\ window' = [w \in Workers |-> Restored(shares, w, now)]
  /\ UNCHANGED <<scenario, now, rows, shares, recorded, folded>>

RetentionNext ==
  \/ Sample \/ Tick \/ Flush
  \/ \E w \in Workers, accepted \in BOOLEAN : Share(w, accepted)
  \/ StartPass \/ TrimShares \/ CapShares \/ FoldLong \/ DropLong \/ FoldMid \/ DropMid \/ Expire
  \/ StatementFails \/ Kill

RetentionSpec == RetentionInit /\ [][RetentionNext]_retentionVars

----------------------------------------------------------------------------
Times == 0..MaxTime
Steps == {"trim", "cap", "fold long", "drop long", "fold mid", "drop mid", "expire"}

\* Samples and the passes over them (retention.rs) keep their types: every row stands for
\* at least one sample that was recorded, and a pass is before one of its statements.
RetentionTypeOK ==
  /\ scenario \in {"steady", "samples", "shares"} /\ now \in Times /\ lastSample \in Times /\ lastRetain \in Times /\ folded \in Times
  /\ DOMAIN samples \subseteq Times
  /\ \A t \in DOMAIN samples : samples[t] \in Nat \X (Nat \ {0})
  /\ DOMAIN covers = DOMAIN samples
  /\ \A t \in DOMAIN covers : covers[t] \subseteq DOMAIN recorded
  /\ pass = Idle \/ (pass.step \in Steps /\ pass.at \in Times)
  /\ aborts \in 0..MaxAborts
  /\ \A s \in {queue, shares, arrived} : \A i \in DOMAIN s : s[i].worker \in Workers

(* Nothing is folded away: at every moment, also between the statements of *)
(* a pass and after passes that did not finish, each sample that is        *)
(* younger than the long window is part of some row's average.             *)
SamplesAreCovered ==
  \A t \in DOMAIN recorded :
    t >= now - LongAge => \E r \in DOMAIN covers : t \in covers[r]

(* The table stays small: once a pass has finished, and however many did   *)
(* not before it, the rows of the mid and of the long window are at the    *)
(* starts of their buckets, and no row is older than the long window.      *)
(* (A row that no pass met in the mid window, because the pool was down    *)
(* all that time, can sit between the two until its hour is complete.)     *)
FoldedByAge ==
  pass = Idle /\ folded > 0 => \A t \in DOMAIN samples :
    LET InWindow(oldest, youngest, bucket) ==
          AlignDown(folded - oldest, bucket) <= t /\ t < AlignDown(folded - youngest, bucket)
    IN /\ t >= AlignDown(folded - LongAge, LongBucket)
       /\ InWindow(MidAge, RawAge, MidBucket) => t % MidBucket = 0
       /\ InWindow(LongAge, MidAge, LongBucket) => t % LongBucket = 0

(* Averages never drift: between passes a row is the mean of the samples   *)
(* it stands for, however often it was folded, as long as no sample is     *)
(* missed and every pass finishes (docs/ARCHITECTURE.md: "only complete    *)
(* buckets, so averages never drift").                                     *)
AveragesExact ==
  steady /\ pass = Idle => \A t \in DOMAIN samples : Same(samples[t], Mean(recorded, covers[t]))

(* The rows are what the documentation says they are: the buckets of their *)
(* windows, and exact means.                                               *)
RowsAreBuckets == FoldedByAge /\ AveragesExact

(* Whatever was trimmed, capped or lost, the shares a hashrate is estimated *)
(* from are the worker's latest, with none missing in between (dividing    *)
(* their work by the time since the oldest gives the average since then),  *)
(* and include every share of the last Window seconds after which no more  *)
(* came than the log keeps and a start reads.                              *)
WindowIsNewest ==
  \A w \in Workers :
    LET accepted == AcceptedOf(arrived, w)
        After(share) == Kept(arrived, {other \in ToSet(arrived) : other.id >= share.id})
        AcceptedAfter(share) == Kept(After(share), {other \in ToSet(arrived) : other.accepted})
    IN /\ IsSuffix(window[w], accepted)
       /\ \A i \in DOMAIN accepted :
            /\ now - accepted[i].at <= Window
            /\ Len(After(accepted[i])) <= ShareMaxRows
            /\ Len(AcceptedAfter(accepted[i])) <= RestoreCap
            => Contains(window[w], accepted[i])
=============================================================================
