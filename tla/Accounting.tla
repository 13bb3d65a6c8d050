----------------------------- MODULE Accounting -----------------------------
(***************************************************************************)
(* Share accounting: the publisher task (crates/alamo/src/pool.rs) applies *)
(* every stratum event to the statistics in memory (stats.rs) and to a     *)
(* queue of rows (persist.rs) that is flushed to the database in one       *)
(* transaction (crates/alamo-store/src/accounting.rs); the operator's      *)
(* commands change both; a restart rebuilds the statistics from the        *)
(* database.  A flush may fail, and the process may end at any time.       *)
(*                                                                         *)
(* Difficulties in events, queue and database are stratum difficulties;    *)
(* memory is in network units, Mult times smaller.  The queue is kept as   *)
(* what it adds to each row, and retired work by the worker it came from   *)
(* (the code keeps the sum).  A row that does not exist is all zero.       *)
(***************************************************************************)
EXTENDS Naturals, FiniteSetsExt

CONSTANTS
  Workers, Sessions,
  Mult,              \* share_multiplier: stratum difficulty per network difficulty
  FlushThreshold,    \* FLUSH_THRESHOLD
  JobDiffs,          \* difficulties of jobs and of shares, in network units
  ShareDiffs,
  MaxShares          \* bound: shares in the behaviour

ASSUME AccountingAssumption ==
  /\ IsFiniteSet(Workers)
  /\ Mult \in Nat \ {0} /\ FlushThreshold \in Nat \ {0}
  /\ JobDiffs \subseteq Nat /\ ShareDiffs \subseteq Nat /\ MaxShares \in Nat

VARIABLES
  db, dbRetired,          \* workers table; pool_counters.retired_work
  stamp,                  \* work_at_found of the last block recorded
  pend,                   \* Persistence: queued authorizations and shares
  mem, memRetired,        \* Stats.workers, Stats.retired_work
  poolAcc, poolRej,       \* Stats.shares_accepted, shares_rejected
  shares,                 \* bound: shares so far
  restored, intact        \* history: memory began as the database's; no command since
                          \* went ahead although its flush had failed

storeVars == <<db, dbRetired, stamp>>
statVars  == <<mem, memRetired, poolAcc, poolRej>>
vars == <<storeVars, pend, statVars, shares, restored, intact>>

Figures == [acc : Nat, rej : Nat, best : Nat, work : Nat, here : BOOLEAN]
Nothing == [acc |-> 0, rej |-> 0, best |-> 0, work |-> 0, here |-> FALSE]
Offline == {}
NoWorker == [figures |-> Nothing, sessions |-> Offline]

Larger(a, b) == IF a >= b THEN a ELSE b

Plus(a, b) == [acc |-> a.acc + b.acc, rej |-> a.rej + b.rej, best |-> Larger(a.best, b.best),
               work |-> a.work + b.work, here |-> a.here \/ b.here]

\* From stratum to network units.
ToNetwork(d) == d \div Mult

\* What an event adds to a worker's row; the worker exists from then on.
AuthorizedRow == [Nothing EXCEPT !.here = TRUE]
RejectedRow == [AuthorizedRow EXCEPT !.rej = 1]
AcceptedRow(jobDiff, shareDiff) == [AuthorizedRow EXCEPT !.acc = 1, !.work = jobDiff, !.best = shareDiff]

InNetwork(f) == [f EXCEPT !.best = ToNetwork(@), !.work = ToNetwork(@)]

DbTotal == SumFunction([w \in Workers |-> db[w].work + dbRetired[w]])
PendTotal == SumFunction([w \in Workers |-> pend[w].work])
MemTotal == SumFunction([w \in Workers |-> mem[w].figures.work + memRetired[w]])
QueuedShares(p) == SumFunction([w \in Workers |-> p[w].acc + p[w].rej])

\* A row that does not exist is all zero, on disk, in the queue and in memory.
RowTypes ==
  /\ db \in [Workers -> Figures] /\ pend \in [Workers -> Figures]
  /\ dbRetired \in [Workers -> Nat] /\ memRetired \in [Workers -> Nat]
  /\ mem \in [Workers -> [figures : Figures, sessions : SUBSET Sessions]]
  /\ \A w \in Workers : /\ ~db[w].here => db[w] = Nothing
                        /\ ~pend[w].here => pend[w] = Nothing
                        /\ ~mem[w].figures.here => mem[w] = NoWorker
  /\ shares \in Nat /\ restored \in BOOLEAN /\ intact \in BOOLEAN

\* Rows, queue and memory hold figures of their types, a worker without a row has an empty one
\* (accounting.rs), and the pool counts never go below zero (stats.rs).
TypeOK == RowTypes /\ stamp \in Nat /\ poolAcc \in Nat /\ poolRej \in Nat

EmptyQueue == [w \in Workers |-> Nothing]

Init ==
  /\ db = EmptyQueue /\ pend = EmptyQueue
  /\ dbRetired = [w \in Workers |-> 0] /\ memRetired = [w \in Workers |-> 0]
  /\ mem = [w \in Workers |-> NoWorker]
  /\ stamp = 0 /\ poolAcc = 0 /\ poolRej = 0 /\ shares = 0
  /\ restored = TRUE /\ intact = TRUE

-----------------------------------------------------------------------------
(* Writing the queue: one transaction, all of it or nothing. *)

QueueClearedAlways(p, ok) == EmptyQueue
\* On failure the queue is kept for retry.
QueueAfter(p, ok) == IF ok THEN EmptyQueue ELSE p

Written(p) == [w \in Workers |-> Plus(db[w], p[w])]

Flushed(p, ok) ==
  /\ db' = IF ok THEN Written(p) ELSE db
  /\ pend' = QueueAfter(p, ok)

-----------------------------------------------------------------------------
(* Events. *)

\* Stats::apply and Persistence::observe add the same share, in their own units; a full
\* queue is flushed at once.
Count(w, row) ==
  LET queue == [pend EXCEPT ![w] = Plus(@, row)]
  IN  /\ shares < MaxShares
      /\ shares' = shares + 1
      /\ mem' = [mem EXCEPT ![w].figures = Plus(@, InNetwork(row))]
      /\ poolAcc' = poolAcc + row.acc
      /\ poolRej' = poolRej + row.rej
      /\ IF QueuedShares(queue) >= FlushThreshold
         THEN \E ok \in BOOLEAN : Flushed(queue, ok)
         ELSE pend' = queue /\ UNCHANGED db
      /\ UNCHANGED <<dbRetired, stamp, memRetired, restored, intact>>

ShareAccepted ==
  \E w \in Workers, d \in JobDiffs, best \in ShareDiffs :
    best >= d /\ Count(w, AcceptedRow(Mult * d, Mult * best))

ShareRejected == \E w \in Workers : Count(w, RejectedRow)

Authorized ==
  \E w \in Workers, s \in Sessions :
    /\ pend' = [pend EXCEPT ![w] = Plus(@, AuthorizedRow)]
    /\ mem' = [mem EXCEPT ![w].figures.here = TRUE, ![w].sessions = @ \cup {s}]
    /\ UNCHANGED <<storeVars, memRetired, poolAcc, poolRej, shares, restored, intact>>

Disconnected ==
  \E s \in Sessions, ws \in SUBSET Workers :
    /\ mem' = [w \in Workers |->
                 IF w \in ws THEN [mem[w] EXCEPT !.sessions = @ \ {s}] ELSE mem[w]]
    /\ UNCHANGED <<storeVars, pend, memRetired, poolAcc, poolRej, shares, restored, intact>>

\* The publisher's tick.
Tick ==
  /\ \E ok \in BOOLEAN : Flushed(pend, ok)
  /\ UNCHANGED <<dbRetired, stamp, statVars, shares, restored, intact>>

-----------------------------------------------------------------------------
(* Operator commands.  Queued shares are flushed first; a failure of that is logged and *)
(* the command goes on.                                                                  *)

ZeroedWithWork(f) == [f EXCEPT !.acc = 0, !.rej = 0, !.best = 0, !.work = 0]
\* Counts and best share go; work is kept.
Zeroed(f) == [f EXCEPT !.acc = 0, !.rej = 0, !.best = 0]

FlushedFirst(ok) == ok \/ pend = EmptyQueue

ResetStats ==
  \E ok, done \in BOOLEAN :
    LET rows == IF ok THEN Written(pend) ELSE db
    IN  /\ pend' = QueueAfter(pend, ok)
        /\ IF done
           THEN /\ db' = [w \in Workers |-> Zeroed(rows[w])]
                /\ mem' = [w \in Workers |-> [mem[w] EXCEPT !.figures = Zeroed(@)]]
                /\ poolAcc' = 0 /\ poolRej' = 0
                /\ intact' = (intact /\ FlushedFirst(ok))
           ELSE db' = rows /\ UNCHANGED <<mem, poolAcc, poolRej, intact>>
        /\ UNCHANGED <<dbRetired, stamp, memRetired, shares, restored>>

DroppedWork(retired, work) == retired
\* Work of a removed worker is kept for the pool's total.
Retired(retired, work) == retired + work

IsConnected(w) == mem[w].sessions # {}

RemoveWorker ==
  \E w \in Workers, ok, done \in BOOLEAN :
    /\ ~IsConnected(w)
    /\ LET rows == IF ok THEN Written(pend) ELSE db
       IN  /\ pend' = QueueAfter(pend, ok)
           /\ IF done
              THEN /\ dbRetired' = [dbRetired EXCEPT ![w] = Retired(@, rows[w].work)]
                   /\ db' = [rows EXCEPT ![w] = Nothing]
                   /\ memRetired' = [memRetired EXCEPT ![w] = Retired(@, mem[w].figures.work)]
                   /\ mem' = [mem EXCEPT ![w] = NoWorker]
                   /\ poolAcc' = poolAcc - mem[w].figures.acc
                   /\ poolRej' = poolRej - mem[w].figures.rej
                   /\ intact' = (intact /\ FlushedFirst(ok))
              ELSE db' = rows /\ UNCHANGED <<dbRetired, statVars, intact>>
    /\ UNCHANGED <<stamp, shares, restored>>

-----------------------------------------------------------------------------
(* Blocks and restarts. *)

\* insert_block stamps the block with the database's total.
BlockRecorded ==
  /\ stamp' = DbTotal
  /\ UNCHANGED <<db, dbRetired, pend, statVars, shares, restored, intact>>

LoadedInShareUnits(f) == f
\* Stats::restore of one row.
Loaded(f) == InNetwork(f)

\* The process ends, losing its memory, and starts again; if the statistics cannot be read
\* it starts with none.
Restart ==
  \E ok \in BOOLEAN :
    /\ mem' = [w \in Workers |->
                 IF ok /\ db[w].here THEN [figures |-> Loaded(db[w]), sessions |-> {}] ELSE NoWorker]
    /\ memRetired' = [w \in Workers |-> IF ok THEN ToNetwork(dbRetired[w]) ELSE 0]
    /\ poolAcc' = IF ok THEN SumFunction([w \in Workers |-> db[w].acc]) ELSE 0
    /\ poolRej' = IF ok THEN SumFunction([w \in Workers |-> db[w].rej]) ELSE 0
    /\ pend' = EmptyQueue
    /\ restored' = ok /\ intact' = TRUE
    /\ UNCHANGED <<storeVars, shares>>

Next ==
  \/ ShareAccepted \/ ShareRejected \/ Authorized \/ Disconnected \/ Tick
  \/ ResetStats \/ RemoveWorker \/ BlockRecorded \/ Restart

Spec == Init /\ [][Next]_vars

-----------------------------------------------------------------------------
(* Properties. *)

\* The dashboard's lifetime work is what is banked and queued, per worker and therefore in
\* total, whatever flushes failed, whoever was removed and however often.
WorkAccountedFor ==
  restored => \A w \in Workers :
    Mult * (mem[w].figures.work + memRetired[w]) = db[w].work + dbRetired[w] + pend[w].work

\* A worker's counts and best share are those of its row and of the queue, as long as no
\* command went ahead after a failed flush.
CountsAgree ==
  restored /\ intact => \A w \in Workers :
    LET stored == Plus(db[w], pend[w])
    IN  /\ mem[w].figures.acc = stored.acc
        /\ mem[w].figures.rej = stored.rej
        /\ Mult * mem[w].figures.best = stored.best
        /\ mem[w].figures.here = stored.here

\* The pool's counters are the sums of the workers', so a removal never takes more from
\* them than they hold (they are unsigned).
PoolCountsAreSums ==
  /\ poolAcc = SumFunction([w \in Workers |-> mem[w].figures.acc])
  /\ poolRej = SumFunction([w \in Workers |-> mem[w].figures.rej])

\* The round in progress never has negative work: the total never falls below what the
\* last block was stamped with (round_status clamps at zero).
RoundWorkNotNegative == restored => stamp <= Mult * MemTotal

\* No subtraction of unsigned numbers takes more than there is: a removal from the pool's
\* counts, or the last block's stamp from the total work.
NothingUnderflows == PoolCountsAreSums /\ RoundWorkNotNegative

\* Banked work survives everything; queued work is lost only by a restart.
Books == INSTANCE Ledger WITH banked <- DbTotal, volatile <- PendTotal
ImplementsLedger == Books!LedgerSpec
=============================================================================
