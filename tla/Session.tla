------------------------------- MODULE Session -------------------------------
(***************************************************************************)
(* The stratum protocol state of one connection                            *)
(* (crates/alamo-stratum/src/session.rs, validate.rs, job.rs), against the *)
(* miner at its other end.  Every handler is one action: requests are      *)
(* handled one at a time, and their messages are written, in order, before *)
(* the next.  The miner is what it knows after reading all of them; it may *)
(* still hold jobs of an earlier connection.  A reconnect is a new session *)
(* with a new behaviour.                                                   *)
(*                                                                         *)
(* A work is numbered by its publication; a solution stands for an         *)
(* (extranonce2, ntime, nonce), and its level for the difficulty its hash  *)
(* achieves.  How vardiff picks a difficulty is left open.                 *)
(***************************************************************************)
EXTENDS Naturals, FiniteSets

CONSTANTS
  Workers, Payouts,       \* usernames; what a username and password resolve to
  Solutions,
  MinDiff, MaxDiff,       \* vardiff.min_difficulty, max_difficulty
  ParentDiff, AuxDiff,    \* network difficulties of the two chains
  MAX_JOBS,               \* jobs kept for late submissions
  None,
  MaxWork, MaxAuxTip      \* bounds: works published, tips of the aux chain

ASSUME SessionAssumption ==
  /\ {MinDiff, MaxDiff, ParentDiff, AuxDiff, MaxWork, MaxAuxTip} \subseteq Nat
  /\ MinDiff <= MaxDiff
  /\ MAX_JOBS \in Nat \ {0}
  /\ None \notin Payouts

VARIABLES
  latest, unread,         \* the merged work channel: its value; not yet read by the session
  phase,                  \* the connection: "new", "open" or "closed"
  payout, workers, difficulty, nextJob, jobs, work,     \* Session's fields
  blocks,                 \* candidates the last request handed on
  miner,                  \* what the miner knows: the difficulty, the jobs it may work on,
                          \* and whether it still has some of an earlier connection
  credited, doubled,      \* history: solutions credited, per work; one credited twice
  cleanPrev               \* history: parent tip of the last clean work read

sessionVars == <<payout, workers, difficulty, nextJob, jobs, work>>
vars == <<latest, unread, phase, sessionVars, blocks, miner, credited, doubled, cleanPrev>>

Tips == 0 .. MaxWork
Diffs == MinDiff .. MaxDiff
Levels == 0 .. MaxDiff
\* A merged work: its number, the parent tip, the aux tip (0: no aux template), and
\* whether a coinbase fits the template.
MergedWork == [n : 1 .. MaxWork, prev : Tips, aux : 0 .. MaxAuxTip, clean : BOOLEAN, fits : BOOLEAN]
NoAux == 0

ASSUME NoneAssumption == None \notin MergedWork

\* Jobs, difficulties and the queue to the miner (session.rs) keep their types: the difficulty
\* stays within its bounds and every job and candidate is of work that was published.
TypeOK ==
  /\ latest \in MergedWork \cup {None} /\ unread \in BOOLEAN
  /\ phase \in {"new", "open", "closed"}
  /\ payout \in Payouts \cup {None} /\ workers \subseteq Workers
  /\ difficulty \in Diffs /\ nextJob \in Nat \ {0}
  /\ jobs \subseteq [id : Nat, work : MergedWork, payout : Payouts, diff : Diffs,
                     stale : BOOLEAN, auxStale : BOOLEAN, seen : SUBSET Solutions]
  /\ work \in MergedWork \cup {None}
  /\ blocks \subseteq [chain : {"parent", "aux"}, prev : Tips \cup 0 .. MaxAuxTip]
  /\ miner \in [diff : Diffs \cup {0}, jobs : SUBSET [id : Nat, diff : Diffs \cup {0}],
                leftover : BOOLEAN]
  /\ credited \subseteq (1 .. MaxWork) \X Solutions /\ doubled \in BOOLEAN
  /\ cleanPrev \in Tips

Init ==
  /\ latest = None /\ unread = FALSE /\ phase = "new"
  /\ payout = None /\ workers = {} /\ difficulty \in Diffs /\ nextJob = 1 /\ jobs = {}
  /\ work = None /\ blocks = {} /\ credited = {} /\ doubled = FALSE /\ cleanPrev = 0
  /\ miner \in [diff : {0}, jobs : {{}}, leftover : BOOLEAN]

-----------------------------------------------------------------------------
(* What a message does to the miner. *)

AfterSetDifficulty(m, d) == [m EXCEPT !.diff = d]

AfterCleanNotify(m, job, clean) ==
  IF clean THEN [m EXCEPT !.jobs = {[id |-> job.id, diff |-> m.diff]}, !.leftover = FALSE] ELSE m
AfterNotify(m, job, clean) ==
  [m EXCEPT !.jobs = (IF clean THEN {} ELSE @) \cup {[id |-> job.id, diff |-> m.diff]},
            !.leftover = @ /\ ~clean]

-----------------------------------------------------------------------------
(* Jobs. *)

NewJob(w, p, d) ==
  [id |-> nextJob, work |-> w, payout |-> p, diff |-> d, stale |-> FALSE,
   auxStale |-> FALSE, seen |-> {}]

CleanFlagOnly(clean, kept) == clean
\* The notify's clean flag: a session starts with a clean job so that the miner drops work
\* of a previous connection.
NotifyClean(clean, kept) == clean \/ kept = {}

\* send_job for work w to miner m; a template no coinbase fits closes the connection.
SendJob(m, w, p, d, clean, kept) ==
  IF ~w.fits
  THEN phase' = "closed" /\ jobs' = kept /\ miner' = m /\ UNCHANGED nextJob
  ELSE LET job == NewJob(w, p, d)
       IN  /\ jobs' = {j \in kept \cup {job} : j.id + MAX_JOBS > nextJob}
           /\ miner' = AfterNotify(m, job, NotifyClean(clean, kept))
           /\ nextJob' = nextJob + 1
           /\ UNCHANGED phase

\* on_work's effect on a job already sent.
Superseded(j, w) == [j EXCEPT !.stale = @ \/ w.clean, !.auxStale = @ \/ j.work.aux # w.aux]

OnWork ==
  /\ phase = "open" /\ unread
  /\ unread' = FALSE
  /\ work' = latest
  /\ cleanPrev' = IF latest.clean THEN latest.prev ELSE cleanPrev
  /\ LET kept == {Superseded(j, latest) : j \in jobs}
     IN  IF payout = None THEN jobs' = kept /\ UNCHANGED <<phase, miner, nextJob>>
         ELSE SendJob(miner, latest, payout, difficulty, latest.clean, kept)
  /\ blocks' = {}
  /\ UNCHANGED <<latest, payout, workers, difficulty, credited, doubled>>

-----------------------------------------------------------------------------
(* Requests. *)

Connect ==
  /\ phase = "new"
  /\ phase' = "open"
  /\ work' = latest /\ unread' = FALSE
  /\ UNCHANGED <<latest, payout, workers, difficulty, nextJob, jobs, blocks, miner, credited,
                 doubled, cleanPrev>>

\* An address the session does not already pay is refused.
Disagrees(p) == payout # None /\ payout # p

Authorize ==
  /\ phase = "open"
  /\ \E w \in Workers, p \in Payouts :
       /\ ~Disagrees(p)
       /\ workers' = workers \cup {w}
       /\ payout' = p
       /\ IF payout # None THEN UNCHANGED <<phase, miner, jobs, nextJob>>
          ELSE LET m == AfterSetDifficulty(miner, difficulty)
               IN  IF work = None
                   THEN miner' = m /\ UNCHANGED <<phase, jobs, nextJob>>
                   ELSE SendJob(m, work, p, difficulty, FALSE, jobs)
  /\ blocks' = {}
  /\ UNCHANGED <<latest, unread, difficulty, work, credited, doubled, cleanPrev>>

Clamp(d) == IF d < MinDiff THEN MinDiff ELSE IF d > MaxDiff THEN MaxDiff ELSE d

RetargetedResending(d, jobsNow) ==
  /\ difficulty' = d
  /\ IF d = difficulty \/ work = None \/ nextJob > MaxWork + 1
     THEN miner' = miner /\ jobs' = jobsNow /\ UNCHANGED <<phase, nextJob>>
     ELSE SendJob(AfterSetDifficulty(miner, d), work, payout, d, FALSE, jobsNow)

\* A retarget changes the difficulty of the next job only.
Retargeted(d, jobsNow) ==
  /\ difficulty' = d
  /\ miner' = IF d = difficulty THEN miner ELSE AfterSetDifficulty(miner, d)
  /\ jobs' = jobsNow
  /\ UNCHANGED <<phase, nextJob>>

SuggestDifficulty ==
  /\ phase = "open"
  /\ \E d \in 1 .. MaxDiff + 1 : Retargeted(Clamp(d), jobs)
  /\ blocks' = {}
  /\ UNCHANGED <<latest, unread, payout, workers, work, credited, doubled, cleanPrev>>

Outcome(j, sol, form, level) ==
  IF j.stale THEN "stale"
  ELSE IF form # "valid" THEN form
  ELSE IF sol \in j.seen THEN "duplicate"
  ELSE IF level < j.diff THEN "low"
  ELSE "accepted"

AnyChain(j, level) ==
  {b \in [chain : {"parent", "aux"}, prev : Tips \cup 0 .. MaxAuxTip] :
     \/ b.chain = "parent" /\ b.prev = j.work.prev /\ level >= ParentDiff
     \/ b.chain = "aux" /\ b.prev = j.work.aux /\ b.prev # NoAux /\ level >= AuxDiff}
\* A candidate for every chain whose target the share met.
Candidates(j, level) ==
  {b \in [chain : {"parent", "aux"}, prev : Tips \cup 0 .. MaxAuxTip] :
     \/ b.chain = "parent" /\ b.prev = j.work.prev /\ level >= ParentDiff
     \/ /\ b.chain = "aux" /\ b.prev = j.work.aux /\ b.prev # NoAux
        /\ ~j.auxStale /\ level >= AuxDiff}

Remembered(j, sol) == [j EXCEPT !.seen = @ \cup {sol}]

\* A submit of an authorized worker for a job the session knows; any other is answered
\* with an error and changes nothing.
Submit ==
  /\ phase = "open" /\ payout # None /\ workers # {}
  /\ \E j \in jobs, sol \in Solutions, level \in Levels,
        form \in {"valid", "extranonce2", "ntime"}, d \in Diffs :
       LET outcome == Outcome(j, sol, form, level)
           checked == outcome \in {"duplicate", "low", "accepted"}
       IN  /\ Retargeted(d, IF checked THEN (jobs \ {j}) \cup {Remembered(j, sol)} ELSE jobs)
           /\ IF outcome = "accepted"
              THEN /\ blocks' = Candidates(j, level)
                   /\ credited' = credited \cup {<<j.work.n, sol>>}
                   /\ doubled' = (doubled \/ <<j.work.n, sol>> \in credited)
              ELSE blocks' = {} /\ UNCHANGED <<credited, doubled>>
  /\ UNCHANGED <<latest, unread, payout, workers, work, cleanPrev>>

Tick ==
  /\ phase = "open" /\ payout # None
  /\ \E d \in Diffs : Retargeted(d, jobs)
  /\ blocks' = {}
  /\ UNCHANGED <<latest, unread, payout, workers, work, credited, doubled, cleanPrev>>

Disconnect ==
  /\ phase = "open"
  /\ phase' = "closed"
  /\ UNCHANGED <<latest, unread, sessionVars, blocks, miner, credited, doubled, cleanPrev>>

\* merge publishes: the parent tip never goes back, and an aux tip may come and go.  What
\* comes after the connection closed is left out.
Publish ==
  /\ phase # "closed"
  /\ LET n == IF latest = None THEN 1 ELSE latest.n + 1
         tip == IF latest = None THEN 1 ELSE latest.prev
     IN  /\ n <= MaxWork
         /\ \E w \in [n : {n}, prev : {tip, tip + 1} \cap Tips, aux : 0 .. MaxAuxTip,
                      clean : BOOLEAN, fits : BOOLEAN] :
              latest' = w
  /\ unread' = (phase = "open")
  /\ blocks' = {}
  /\ UNCHANGED <<phase, sessionVars, miner, credited, doubled, cleanPrev>>

Request == Authorize \/ SuggestDifficulty \/ Submit \/ Tick
Next == Publish \/ Connect \/ OnWork \/ Request \/ Disconnect

Spec == Init /\ [][Next]_vars
\* select! picks among ready branches at random: unread work is read although requests
\* keep arriving.  That a handler's messages are written at all, and the next one is handled,
\* takes a miner that reads.
FairSpec == Spec /\ SF_vars(OnWork)

-----------------------------------------------------------------------------
(* Properties. *)

Holds(j) == \E m \in miner.jobs : m.id = j.id

\* Miner and session agree on the jobs that may be worked on: of the jobs kept, the live
\* ones are those the miner was not told to drop; and the miner has nothing left of an
\* earlier connection once it was sent a job.
LiveJobsAgree ==
  phase = "open" /\ jobs # {} => ~miner.leftover /\ \A j \in jobs : ~j.stale <=> Holds(j)

\* A job's share target is the one the miner was told to use for it, however the difficulty
\* was changed meanwhile.
TargetsAgree ==
  \A j \in jobs, m \in miner.jobs : m.id = j.id => m.diff = j.diff

\* Miner and session mean the same by a job: which may be worked on, and at what target.
JobsAgree == LiveJobsAgree /\ TargetsAgree

\* A solution is credited once per publication of work, whatever the jobs that publication was
\* sent as.  The refresh of an unchanged template is a new publication, under which the
\* session takes the same solution again.
NoDoubleCredit == ~doubled

\* Every job pays what every worker of the session resolved to.
JobsPayOneAddress == \A j \in jobs : j.payout = payout

\* A candidate builds on a tip no work read by the session has replaced.
CandidatesOnCurrentTips ==
  \A b \in blocks : /\ b.chain = "parent" => b.prev >= cleanPrev
                    /\ b.chain = "aux" => b.prev = work.aux

\* What a miner finds is worth having: it pays as authorized, on a tip that is not replaced.
CandidatesAreGood == JobsPayOneAddress /\ CandidatesOnCurrentTips

Offered(n) == phase = "open" /\ payout # None /\ latest # None /\ latest.n = n

\* Work published to an authorized session that stays connected, and whose miner reads,
\* becomes a job of the miner's.
WorkReachesMiner ==
  \A n \in 1 .. MaxWork :
    Offered(n) ~> (~Offered(n) \/ \E j \in jobs : j.work.n = n /\ Holds(j))
=============================================================================
