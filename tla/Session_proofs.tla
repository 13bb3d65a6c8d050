--------------------------- MODULE Session_proofs ---------------------------
(***************************************************************************)
(* Proofs about Session: for any workers, addresses, solutions, number of  *)
(* kept jobs, difficulties and bounds.                                     *)
(***************************************************************************)
EXTENDS Session, TLAPS

SessionJob == [id : Nat, work : MergedWork, payout : Payouts, diff : Diffs,
               stale : BOOLEAN, auxStale : BOOLEAN, seen : SUBSET Solutions]
MinerJob == [id : Nat, diff : Diffs \cup {0}]
Miners == [diff : Diffs \cup {0}, jobs : SUBSET MinerJob, leftover : BOOLEAN]

-----------------------------------------------------------------------------
(* The inductive invariant, in named parts.  Those about jobs are stated   *)
(* of any set of jobs js and miner m, for the jobs on_work has superseded  *)
(* and not yet followed by a new one.                                      *)

\* Ids are given out in order and once.
IdsAreFresh(js, m) ==
  /\ \A j \in js : j.id < nextJob
  /\ \A x \in m.jobs : x.id < nextJob
  /\ \A j, k \in js : j.id = k.id => j = k

\* Session and miner agree on the live jobs, and on every job's target.
LiveAgree(js, m) ==
  js # {} => ~m.leftover /\ \A j \in js : ~j.stale <=> \E x \in m.jobs : x.id = j.id
DiffsAgree(js, m) ==
  \A j \in js, x \in m.jobs : x.id = j.id => x.diff = j.diff

\* Nothing is sent before authorization, and nothing happens before the connection opens.
Beginning ==
  /\ payout = None => jobs = {} /\ credited = {}
  /\ payout # None => miner.diff = difficulty
  /\ phase = "new" => /\ payout = None /\ work = None /\ blocks = {}
                      /\ cleanPrev = 0 /\ ~unread

\* The works read come in the order of their publication, on parent tips that only rise.
WorksInOrder ==
  /\ unread => latest # None
  /\ IF latest = None THEN cleanPrev = 0 ELSE cleanPrev <= latest.prev
  /\ work # None => /\ latest # None /\ work.n <= latest.n /\ work.prev <= latest.prev
                    /\ unread => work.n < latest.n
                    /\ cleanPrev <= work.prev
  /\ jobs # {} \/ credited # {} => work # None

\* A job's work was read no later than the present work, and is sent as one job.
JobsOfWorks ==
  /\ \A j \in jobs : j.work.n <= work.n
  /\ \A j, k \in jobs : j.work.n = k.work.n => j = k

\* A job remembers every solution credited to its work.
CreditsAreSeen ==
  /\ \A c \in credited : c[1] <= work.n
  /\ \A j \in jobs, s \in Solutions : <<j.work.n, s>> \in credited => s \in j.seen

\* A job that may be worked on builds on current tips.
UsableJobs ==
  \A j \in jobs : /\ ~j.stale => cleanPrev <= j.work.prev
                  /\ ~j.auxStale => j.work.aux = work.aux

SessionInv ==
  /\ TypeOK
  /\ IdsAreFresh(jobs, miner) /\ (phase = "open" => LiveAgree(jobs, miner)) /\ DiffsAgree(jobs, miner)
  /\ Beginning /\ WorksInOrder /\ JobsOfWorks /\ CreditsAreSeen /\ UsableJobs
  /\ NoDoubleCredit /\ JobsPayOneAddress /\ CandidatesOnCurrentTips
-----------------------------------------------------------------------------
(* Facts about jobs. *)

\* A new job has the next id and the fields it is given, and is neither stale nor seen.
LEMMA NewJobFields ==
  ASSUME NEW w \in MergedWork, NEW p \in Payouts, NEW d \in Diffs, nextJob \in Nat \ {0}
  PROVE  /\ NewJob(w, p, d) \in SessionJob
         /\ NewJob(w, p, d).id = nextJob /\ NewJob(w, p, d).work = w
         /\ NewJob(w, p, d).payout = p /\ NewJob(w, p, d).diff = d
         /\ ~NewJob(w, p, d).stale /\ NewJob(w, p, d).seen = {}
  BY DEF NewJob, SessionJob

\* Superseding a job changes its two flags only: a clean work makes it stale, and it stays
\* usable for the aux chain only on the new work's aux tip.
LEMMA SupersededFields ==
  ASSUME NEW j \in SessionJob, NEW w \in MergedWork
  PROVE  /\ Superseded(j, w) \in SessionJob
         /\ Superseded(j, w).id = j.id /\ Superseded(j, w).work = j.work
         /\ Superseded(j, w).payout = j.payout /\ Superseded(j, w).diff = j.diff
         /\ Superseded(j, w).seen = j.seen
         /\ Superseded(j, w).stale <=> j.stale \/ w.clean
         /\ ~Superseded(j, w).auxStale => j.work.aux = w.aux
  BY DEF Superseded, SessionJob, MergedWork

\* Remembering a solution changes what the job has seen only.
LEMMA RememberedFields ==
  ASSUME NEW j \in SessionJob, NEW sol \in Solutions
  PROVE  /\ Remembered(j, sol) \in SessionJob
         /\ Remembered(j, sol).id = j.id /\ Remembered(j, sol).work = j.work
         /\ Remembered(j, sol).payout = j.payout /\ Remembered(j, sol).diff = j.diff
         /\ Remembered(j, sol).stale = j.stale /\ Remembered(j, sol).auxStale = j.auxStale
         /\ Remembered(j, sol).seen = j.seen \cup {sol}
  BY DEF Remembered, SessionJob

\* What a message makes of the miner.
LEMMA MinerFields ==
  ASSUME NEW m \in Miners, NEW d \in Diffs, NEW j \in SessionJob, NEW clean \in BOOLEAN
  PROVE  /\ AfterSetDifficulty(m, d) \in Miners
         /\ AfterSetDifficulty(m, d).diff = d
         /\ AfterSetDifficulty(m, d).jobs = m.jobs
         /\ AfterSetDifficulty(m, d).leftover = m.leftover
         /\ AfterNotify(m, j, clean) \in Miners
         /\ AfterNotify(m, j, clean).diff = m.diff
         /\ AfterNotify(m, j, clean).jobs
              = (IF clean THEN {} ELSE m.jobs) \cup {[id |-> j.id, diff |-> m.diff]}
         /\ AfterNotify(m, j, clean).leftover = (m.leftover /\ ~clean)
  <1>1. m.jobs \in SUBSET MinerJob /\ m.leftover \in BOOLEAN /\ m.diff \in Diffs \cup {0}
    BY DEF Miners
  <1>2. /\ AfterSetDifficulty(m, d) \in Miners
        /\ AfterSetDifficulty(m, d).diff = d
        /\ AfterSetDifficulty(m, d).jobs = m.jobs
        /\ AfterSetDifficulty(m, d).leftover = m.leftover
    BY DEF AfterSetDifficulty, Miners
  <1>3. [id |-> j.id, diff |-> m.diff] \in MinerJob
    BY <1>1 DEF MinerJob, SessionJob
  <1> DEFINE rest == IF clean THEN {} ELSE m.jobs
  <1>4. AfterNotify(m, j, clean)
          = [m EXCEPT !.jobs = rest \cup {[id |-> j.id, diff |-> m.diff]},
                      !.leftover = m.leftover /\ ~clean]
    BY DEF AfterNotify, Miners
  <1>5. rest \cup {[id |-> j.id, diff |-> m.diff]} \in SUBSET MinerJob
    BY <1>1, <1>3
  <1> HIDE DEF rest
  <1>6. /\ AfterNotify(m, j, clean) \in Miners
        /\ AfterNotify(m, j, clean).diff = m.diff
        /\ AfterNotify(m, j, clean).jobs = rest \cup {[id |-> j.id, diff |-> m.diff]}
        /\ AfterNotify(m, j, clean).leftover = (m.leftover /\ ~clean)
    BY <1>1, <1>4, <1>5 DEF Miners
  <1> QED
    BY <1>2, <1>6 DEF rest

\* Sending a job: what is kept and the new job are all there is; ids stay fresh; and miner
\* and session agree, if they did, or if the job is a clean one and what is kept is stale.
LEMMA SendJobKeeps ==
  ASSUME NEW m \in Miners, NEW w \in MergedWork, NEW p \in Payouts, NEW d \in Diffs,
         NEW clean \in BOOLEAN, NEW kept \in SUBSET SessionJob,
         nextJob \in Nat \ {0}, phase = "open", m.diff = d,
         SendJob(m, w, p, d, clean, kept),
         IdsAreFresh(kept, m), DiffsAgree(kept, m),
         clean => \A j \in kept : j.stale,
         ~clean => LiveAgree(kept, m)
  PROVE  /\ jobs' \in SUBSET SessionJob /\ miner' \in Miners /\ miner'.diff = d
         /\ nextJob' \in Nat \ {0} /\ phase' \in {"open", "closed"}
         /\ jobs' \subseteq kept \cup {NewJob(w, p, d)}
         /\ IdsAreFresh(jobs, miner)' /\ DiffsAgree(jobs, miner)'
         /\ phase' = "open" => LiveAgree(jobs, miner)'
  <1>1. CASE ~w.fits
    <2>1. phase' = "closed" /\ jobs' = kept /\ miner' = m /\ nextJob' = nextJob
      BY <1>1 DEF SendJob
    <2> QED
      BY <2>1 DEF IdsAreFresh, DiffsAgree
  <1>2. CASE w.fits
    <2> DEFINE job == NewJob(w, p, d)
               flag == NotifyClean(clean, kept)
    <2>1. /\ jobs' = {j \in kept \cup {job} : j.id + MAX_JOBS > nextJob}
          /\ miner' = AfterNotify(m, job, flag)
          /\ nextJob' = nextJob + 1 /\ phase' = phase
      BY <1>2 DEF SendJob
    <2>2. /\ job \in SessionJob /\ job.id = nextJob /\ job.diff = d /\ ~job.stale
          /\ flag \in BOOLEAN /\ jobs' \subseteq kept \cup {job}
      BY <2>1, NewJobFields DEF NotifyClean
    <2> DEFINE entry == [id |-> nextJob, diff |-> d]
    <2>3. /\ miner' \in Miners /\ miner'.diff = d
          /\ miner'.jobs = (IF flag THEN {} ELSE m.jobs) \cup {entry}
          /\ miner'.leftover = (m.leftover /\ ~flag)
      BY <2>1, <2>2, MinerFields
    <2>4. entry.id = nextJob /\ entry.diff = d
      OBVIOUS
    <2> HIDE DEF job, entry, flag
    <2>5. \A j \in SessionJob : j.id \in Nat
      BY DEF SessionJob
    <2>6. \A x \in m.jobs : x.id \in Nat
      BY DEF Miners, MinerJob
    <2>7. IdsAreFresh(jobs, miner)'
      BY <2>1, <2>2, <2>3, <2>4, <2>5, <2>6 DEF IdsAreFresh
    <2>8. /\ \A j \in kept : j.id # nextJob
          /\ \A x \in m.jobs : x.id # nextJob
      BY <2>5, <2>6 DEF IdsAreFresh
    <2>9. DiffsAgree(jobs, miner)'
      <3> SUFFICES ASSUME NEW j \in jobs', NEW x \in miner'.jobs, x.id = j.id
                   PROVE  x.diff = j.diff
        BY DEF DiffsAgree
      <3>1. CASE j \in kept
        <4>1. x # entry
          BY <2>4, <2>8, <3>1, <2>5
        <4> QED
          BY <2>3, <3>1, <4>1 DEF DiffsAgree
      <3>2. CASE j = job
        <4>1. x = entry
          BY <2>2, <2>3, <2>8, <3>2
        <4> QED
          BY <2>2, <2>4, <3>2, <4>1
      <3> QED
        BY <2>2, <3>1, <3>2
    <2>10. LiveAgree(jobs, miner)'
      <3>1. CASE flag
        <4>1. \A j \in kept : j.stale
          BY <3>1 DEF flag, NotifyClean
        <4>2. miner'.jobs = {entry} /\ ~miner'.leftover
          BY <2>3, <3>1
        <4> QED
          BY <2>2, <2>4, <2>8, <4>1, <4>2 DEF LiveAgree
      <3>2. CASE ~flag
        <4>1. LiveAgree(kept, m) /\ kept # {}
          BY <3>2 DEF flag, NotifyClean
        <4>2. miner'.jobs = m.jobs \cup {entry} /\ miner'.leftover = m.leftover
          BY <2>3, <3>2 DEF Miners
        <4> QED
          BY <2>2, <2>4, <2>8, <4>1, <4>2 DEF LiveAgree
      <3> QED
        BY <3>1, <3>2
    <2> QED
      BY <2>1, <2>2, <2>3, <2>7, <2>9, <2>10 DEF job
  <1> QED
    BY <1>1, <1>2

-----------------------------------------------------------------------------
(* Init, and the steps that send no job. *)

\* The types of jobs and miner, as the lemmas state them.
LEMMA FieldTypes ==
  TypeOK <=> /\ latest \in MergedWork \cup {None} /\ unread \in BOOLEAN
             /\ phase \in {"new", "open", "closed"}
             /\ payout \in Payouts \cup {None} /\ workers \subseteq Workers
             /\ difficulty \in Diffs /\ nextJob \in Nat \ {0}
             /\ jobs \in SUBSET SessionJob
             /\ work \in MergedWork \cup {None}
             /\ blocks \subseteq [chain : {"parent", "aux"}, prev : Tips \cup 0 .. MaxAuxTip]
             /\ miner \in Miners
             /\ credited \subseteq (1 .. MaxWork) \X Solutions /\ doubled \in BOOLEAN
             /\ cleanPrev \in Tips
  BY DEF TypeOK, SessionJob, Miners, MinerJob

LEMMA InitInv == Init => SessionInv
  <1> SUFFICES ASSUME Init PROVE SessionInv
    OBVIOUS
  <1>1. TypeOK
    <2>1. 0 \in Tips
      BY SessionAssumption DEF Tips
    <2>2. miner \in Miners
      BY DEF Init, Miners
    <2> QED
      <3>1. /\ latest = None /\ unread = FALSE /\ phase = "new" /\ payout = None /\ workers = {}
            /\ difficulty \in Diffs /\ nextJob = 1 /\ jobs = {} /\ work = None /\ blocks = {}
            /\ credited = {} /\ doubled = FALSE /\ cleanPrev = 0
        BY DEF Init
      <3>2. unread \in BOOLEAN /\ doubled \in BOOLEAN
        BY DEF Init
      <3>3. /\ latest \in MergedWork \cup {None} /\ payout \in Payouts \cup {None}
            /\ work \in MergedWork \cup {None} /\ nextJob \in Nat \ {0}
        BY <3>1
      <3> QED
        BY <2>1, <2>2, <3>1, <3>2, <3>3, FieldTypes
  <1> QED
    BY <1>1 DEF Init, SessionInv, IdsAreFresh, LiveAgree, DiffsAgree, Beginning, WorksInOrder,
                JobsOfWorks, CreditsAreSeen, UsableJobs, NoDoubleCredit, JobsPayOneAddress,
                CandidatesOnCurrentTips, Tips

LEMMA PublishKeeps ==
  ASSUME SessionInv, Publish PROVE SessionInv'
  <1> USE DEF SessionInv
  <1>1. /\ phase # "closed" /\ unread' = (phase = "open") /\ blocks' = {}
        /\ UNCHANGED <<phase, payout, workers, difficulty, nextJob, jobs, work, miner,
                       credited, doubled, cleanPrev>>
    BY DEF Publish, sessionVars
  <1>2. /\ latest' \in MergedWork
        /\ latest # None => latest'.n = latest.n + 1 /\ latest.prev <= latest'.prev
    <2>1. latest # None => latest \in MergedWork /\ latest.n \in Nat /\ latest.prev \in Nat
      BY DEF TypeOK, MergedWork, Tips
    <2>2. CASE latest = None
      <3>1. \E w \in [n : {1}, prev : {1, 2} \cap Tips, aux : 0 .. MaxAuxTip,
                      clean : BOOLEAN, fits : BOOLEAN] : 1 <= MaxWork /\ latest' = w
        BY <2>2 DEF Publish
      <3> QED
        BY <2>2, <3>1, SessionAssumption DEF MergedWork, Tips
    <2>3. CASE latest # None
      <3>1. \E w \in [n : {latest.n + 1}, prev : {latest.prev, latest.prev + 1} \cap Tips,
                      aux : 0 .. MaxAuxTip, clean : BOOLEAN, fits : BOOLEAN] :
               latest.n + 1 <= MaxWork /\ latest' = w
        BY <2>3 DEF Publish
      <3> QED
        BY <2>1, <2>3, <3>1, SessionAssumption DEF MergedWork, Tips
    <2> QED
      BY <2>2, <2>3
  <1>3. TypeOK'
    BY <1>1, <1>2 DEF TypeOK
  <1>4. WorksInOrder'
    <2>1. latest' # None
      BY <1>2, NoneAssumption
    <2>2. /\ cleanPrev \in Nat /\ latest'.prev \in Nat /\ latest'.n \in Nat
          /\ latest # None => latest.prev \in Nat /\ latest.n \in Nat
          /\ work # None => work.prev \in Nat /\ work.n \in Nat
      BY <1>2 DEF TypeOK, MergedWork, Tips
    <2>3. latest = None => cleanPrev = 0
      BY DEF WorksInOrder
    <2> QED
      BY <1>1, <1>2, <2>1, <2>2, <2>3 DEF WorksInOrder
  <1>5. Beginning'
    BY <1>1 DEF Beginning
  <1> QED
    BY <1>1, <1>3, <1>4, <1>5
       DEF IdsAreFresh, LiveAgree, DiffsAgree, JobsOfWorks, CreditsAreSeen, UsableJobs,
           NoDoubleCredit, JobsPayOneAddress, CandidatesOnCurrentTips
LEMMA ConnectKeeps ==
  ASSUME SessionInv, Connect PROVE SessionInv'
  <1> USE DEF SessionInv
  <1>1. /\ phase = "new" /\ phase' = "open" /\ work' = latest /\ unread' = FALSE
        /\ UNCHANGED <<latest, payout, workers, difficulty, nextJob, jobs, blocks, miner,
                       credited, doubled, cleanPrev>>
    BY DEF Connect
  <1>2. payout = None /\ jobs = {} /\ credited = {} /\ blocks = {}
    BY <1>1 DEF Beginning
  <1>3. TypeOK'
    <2>1. unread' \in BOOLEAN
      BY <1>1
    <2> QED
      BY <1>1, <2>1 DEF TypeOK
  <1>4. WorksInOrder'
    <2>1. latest # None => latest.n \in Nat /\ latest.prev \in Nat
      BY DEF TypeOK, MergedWork, Tips
    <2>2. ~unread'
      BY <1>1
    <2> QED
      BY <1>1, <1>2, <2>1, <2>2 DEF WorksInOrder
  <1> QED
    BY <1>1, <1>2, <1>3, <1>4
       DEF Beginning, IdsAreFresh, LiveAgree, DiffsAgree, JobsOfWorks, CreditsAreSeen, UsableJobs,
           NoDoubleCredit, JobsPayOneAddress, CandidatesOnCurrentTips

LEMMA DisconnectKeeps ==
  ASSUME SessionInv, Disconnect PROVE SessionInv'
  BY DEF Disconnect, sessionVars, SessionInv, TypeOK, Beginning, WorksInOrder, IdsAreFresh,
         LiveAgree, DiffsAgree, JobsOfWorks, CreditsAreSeen, UsableJobs, NoDoubleCredit,
         JobsPayOneAddress, CandidatesOnCurrentTips

\* A retarget moves the difficulty and tells the miner, and leaves its jobs as they were.
LEMMA RetargetedKeeps ==
  ASSUME SessionInv, NEW d \in Diffs, NEW js, Retargeted(d, js)
  PROVE  /\ difficulty' = d /\ jobs' = js /\ UNCHANGED <<phase, nextJob>>
         /\ miner' \in Miners /\ miner'.jobs = miner.jobs /\ miner'.leftover = miner.leftover
         /\ payout # None => miner'.diff = d
  <1>1. miner \in Miners
    BY FieldTypes DEF SessionInv
  <1>2. /\ AfterSetDifficulty(miner, d) \in Miners /\ AfterSetDifficulty(miner, d).diff = d
        /\ AfterSetDifficulty(miner, d).jobs = miner.jobs
        /\ AfterSetDifficulty(miner, d).leftover = miner.leftover
    BY <1>1 DEF AfterSetDifficulty, Miners
  <1> QED
    BY <1>1, <1>2 DEF Retargeted, SessionInv, Beginning

\* Suggestions and the timer (session.rs) only retarget.
LEMMA RetargetKeeps ==
  ASSUME SessionInv, SuggestDifficulty \/ Tick PROVE SessionInv'
  <1> USE DEF SessionInv
  <1>1. /\ phase = "open" /\ blocks' = {}
        /\ UNCHANGED <<latest, unread, payout, workers, work, credited, doubled, cleanPrev>>
    BY DEF SuggestDifficulty, Tick
  <1>2. PICK d \in Diffs : Retargeted(d, jobs)
    <2>1. \A d \in 1 .. MaxDiff + 1 : Clamp(d) \in Diffs
      BY SessionAssumption DEF Clamp, Diffs
    <2> QED
      BY <2>1 DEF SuggestDifficulty, Tick
  <1>3. /\ difficulty' = d /\ UNCHANGED <<jobs, phase, nextJob>>
        /\ miner' \in Miners /\ miner'.jobs = miner.jobs /\ miner'.leftover = miner.leftover
        /\ payout # None => miner'.diff = d
    BY <1>2, RetargetedKeeps
  <1>4. TypeOK'
    BY <1>1, <1>3 DEF TypeOK, Miners, MinerJob
  <1> QED
    BY <1>1, <1>3, <1>4
       DEF Beginning, WorksInOrder, IdsAreFresh, LiveAgree, DiffsAgree, JobsOfWorks,
           CreditsAreSeen, UsableJobs, NoDoubleCredit, JobsPayOneAddress, CandidatesOnCurrentTips

-----------------------------------------------------------------------------
(* New work. *)

\* What on_work makes of the jobs already sent.
LEMMA SupersededJobs ==
  ASSUME SessionInv, latest \in MergedWork, phase = "open",
         NEW kept, kept = {Superseded(j, latest) : j \in jobs}
  PROVE  /\ kept \in SUBSET SessionJob
         /\ IdsAreFresh(kept, miner) /\ DiffsAgree(kept, miner)
         /\ latest.clean => \A k \in kept : k.stale
         /\ ~latest.clean => LiveAgree(kept, miner)
         /\ \A k \in kept : \E j \in jobs :
              /\ k.id = j.id /\ k.work = j.work /\ k.payout = j.payout /\ k.seen = j.seen
              /\ k.stale <=> j.stale \/ latest.clean
              /\ ~k.auxStale => j.work.aux = latest.aux
         /\ kept = {} <=> jobs = {}
         /\ \A k, l \in kept : k.work.n = l.work.n => k = l
  <1>1. jobs \in SUBSET SessionJob
    BY FieldTypes DEF SessionInv
  <1>2. \A k \in kept : \E j \in jobs : k = Superseded(j, latest)
    OBVIOUS
  <1>3. \A j \in jobs :
          /\ Superseded(j, latest) \in SessionJob
          /\ Superseded(j, latest).id = j.id /\ Superseded(j, latest).work = j.work
          /\ Superseded(j, latest).payout = j.payout /\ Superseded(j, latest).diff = j.diff
          /\ Superseded(j, latest).seen = j.seen
          /\ Superseded(j, latest).stale <=> j.stale \/ latest.clean
          /\ ~Superseded(j, latest).auxStale => j.work.aux = latest.aux
    BY <1>1, SupersededFields
  <1>4. kept \in SUBSET SessionJob /\ (kept = {} <=> jobs = {})
    BY <1>3
  <1>5. IdsAreFresh(kept, miner)
    BY <1>2, <1>3 DEF SessionInv, IdsAreFresh
  <1>6. DiffsAgree(kept, miner)
    BY <1>2, <1>3 DEF SessionInv, DiffsAgree
  <1>7. latest.clean => \A k \in kept : k.stale
    BY <1>2, <1>3
  <1>8. ~latest.clean => LiveAgree(kept, miner)
    <2> SUFFICES ASSUME ~latest.clean, kept # {}
                 PROVE  ~miner.leftover /\ \A k \in kept : ~k.stale <=> \E x \in miner.jobs : x.id = k.id
      BY DEF LiveAgree
    <2>1. ~miner.leftover /\ \A j \in jobs : ~j.stale <=> \E x \in miner.jobs : x.id = j.id
      BY <1>4 DEF SessionInv, LiveAgree
    <2> QED
      BY <1>2, <1>3, <2>1
  <1>9. \A k, l \in kept : k.work.n = l.work.n => k = l
    BY <1>2, <1>3 DEF SessionInv, JobsOfWorks
  <1> QED
    BY <1>2, <1>3, <1>4, <1>5, <1>6, <1>7, <1>8, <1>9

LEMMA OnWorkKeeps ==
  ASSUME SessionInv, OnWork PROVE SessionInv'
  <1> DEFINE kept == {Superseded(j, latest) : j \in jobs}
             job == NewJob(latest, payout, difficulty)
  <1>1. /\ phase = "open" /\ unread /\ unread' = FALSE /\ work' = latest /\ blocks' = {}
        /\ cleanPrev' = (IF latest.clean THEN latest.prev ELSE cleanPrev)
        /\ UNCHANGED <<latest, payout, workers, difficulty, credited, doubled>>
    BY DEF OnWork
  <1>2. /\ TypeOK /\ latest \in MergedWork /\ latest # None /\ latest.clean \in BOOLEAN
        /\ latest.prev \in Tips /\ miner \in Miners /\ nextJob \in Nat \ {0}
        /\ difficulty \in Diffs /\ payout \in Payouts \cup {None}
    BY <1>1, FieldTypes DEF SessionInv, WorksInOrder, TypeOK, MergedWork
  <1>3. /\ kept \in SUBSET SessionJob
        /\ IdsAreFresh(kept, miner) /\ DiffsAgree(kept, miner)
        /\ latest.clean => \A k \in kept : k.stale
        /\ ~latest.clean => LiveAgree(kept, miner)
        /\ \A k \in kept : \E j \in jobs :
             /\ k.id = j.id /\ k.work = j.work /\ k.payout = j.payout /\ k.seen = j.seen
             /\ k.stale <=> j.stale \/ latest.clean
             /\ ~k.auxStale => j.work.aux = latest.aux
        /\ kept = {} <=> jobs = {}
        /\ \A k, l \in kept : k.work.n = l.work.n => k = l
    <2> HIDE DEF kept
    <2> QED
      BY <1>1, <1>2, SupersededJobs DEF kept
  <1>4. /\ jobs' \in SUBSET SessionJob /\ miner' \in Miners
        /\ payout # None => miner'.diff = difficulty
        /\ nextJob' \in Nat \ {0} /\ phase' \in {"open", "closed"}
        /\ jobs' \subseteq kept \cup (IF payout = None THEN {} ELSE {job})
        /\ IdsAreFresh(jobs, miner)' /\ DiffsAgree(jobs, miner)'
        /\ phase' = "open" => LiveAgree(jobs, miner)'
    <2>1. CASE payout = None
      <3>1. jobs' = kept /\ UNCHANGED <<phase, miner, nextJob>>
        BY <2>1 DEF OnWork
      <3>2. kept = {}
        BY <2>1, <1>3 DEF SessionInv, Beginning
      <3> QED
        BY <1>1, <1>2, <1>3, <2>1, <3>1, <3>2 DEF IdsAreFresh, DiffsAgree, LiveAgree
    <2>2. CASE payout # None
      <3>1. SendJob(miner, latest, payout, difficulty, latest.clean, kept)
        BY <2>2 DEF OnWork
      <3>2. miner.diff = difficulty /\ payout \in Payouts
        BY <1>2, <2>2 DEF SessionInv, Beginning
      <3> HIDE DEF kept
      <3>3. /\ jobs' \in SUBSET SessionJob /\ miner' \in Miners /\ miner'.diff = difficulty
            /\ nextJob' \in Nat \ {0} /\ phase' \in {"open", "closed"}
            /\ jobs' \subseteq kept \cup {job}
            /\ IdsAreFresh(jobs, miner)' /\ DiffsAgree(jobs, miner)'
            /\ phase' = "open" => LiveAgree(jobs, miner)'
        BY <1>1, <1>2, <1>3, <3>1, <3>2, SendJobKeeps
      <3> QED
        BY <2>2, <3>3
    <2> QED
      BY <2>1, <2>2
  <1> HIDE DEF kept
  <1>5. payout # None => /\ job.work = latest /\ job.payout = payout /\ job.seen = {}
                         /\ ~job.stale
    BY <1>2, NewJobFields
  <1> HIDE DEF job
  <1>6. \A k \in jobs' :
          \/ \E j \in jobs :
               /\ k \in kept
               /\ k.id = j.id /\ k.work = j.work /\ k.payout = j.payout /\ k.seen = j.seen
               /\ k.stale <=> j.stale \/ latest.clean
               /\ ~k.auxStale => j.work.aux = latest.aux
          \/ payout # None /\ k = job
    BY <1>3, <1>4
  <1>7. TypeOK'
    <2>1. unread' \in BOOLEAN /\ cleanPrev' \in Tips
      BY <1>1, <1>2 DEF TypeOK
    <2>2. /\ latest' \in MergedWork \cup {None} /\ phase' \in {"new", "open", "closed"}
          /\ payout' \in Payouts \cup {None} /\ workers' \subseteq Workers
          /\ difficulty' \in Diffs /\ work' \in MergedWork \cup {None} /\ blocks' = {}
          /\ credited' \subseteq (1 .. MaxWork) \X Solutions /\ doubled' \in BOOLEAN
      BY <1>1, <1>2, <1>4 DEF TypeOK
    <2> QED
      BY <1>4, <2>1, <2>2 DEF TypeOK, SessionJob, Miners, MinerJob
  <1>8. \A w \in MergedWork : w.n \in Nat /\ w.prev \in Nat
    BY DEF MergedWork, Tips
  <1>9. /\ cleanPrev \in Nat /\ cleanPrev <= latest.prev /\ latest.prev \in Nat
        /\ work # None => work \in MergedWork /\ work.n < latest.n
    BY <1>1, <1>2, <1>8 DEF SessionInv, WorksInOrder, TypeOK, Tips
  <1>10. Beginning'
    <2>1. payout = None => jobs' = {}
      BY <1>3, <1>4 DEF SessionInv, Beginning
    <2> QED
      BY <1>1, <1>4, <2>1 DEF SessionInv, Beginning
  <1>11. WorksInOrder'
    <2>1. ~unread' /\ cleanPrev' <= latest.prev
      BY <1>1, <1>9
    <2> QED
      BY <1>1, <1>2, <1>8, <1>9, <2>1 DEF WorksInOrder
  <1>12. \A j \in jobs : j \in SessionJob /\ j.work \in MergedWork /\ j.work.n < latest.n
    <2>1. \A j \in jobs : j \in SessionJob /\ j.work \in MergedWork
      BY FieldTypes DEF SessionInv, SessionJob
    <2>2. \A j \in jobs : work # None /\ j.work.n <= work.n
      BY DEF SessionInv, WorksInOrder, JobsOfWorks
    <2> QED
      BY <1>2, <1>8, <1>9, <2>1, <2>2
  <1>13. JobsOfWorks'
    <2>1. \A k \in jobs' : k.work.n <= latest.n
      BY <1>2, <1>5, <1>6, <1>8, <1>12
    <2>2. \A k, l \in jobs' : k.work.n = l.work.n => k = l
      BY <1>2, <1>3, <1>5, <1>6, <1>8, <1>12
    <2> QED
      BY <1>1, <2>1, <2>2 DEF JobsOfWorks
  <1>14. CreditsAreSeen'
    <2>1. \A c \in credited : c[1] < latest.n /\ c[1] \in Nat
      <3>1. \A c \in credited : c[1] \in 1 .. MaxWork /\ c[1] <= work.n /\ work # None
        BY DEF SessionInv, TypeOK, CreditsAreSeen, WorksInOrder
      <3> QED
        BY <1>2, <1>8, <1>9, <3>1
    <2>2. ASSUME NEW k \in jobs', NEW sol \in Solutions, <<k.work.n, sol>> \in credited
          PROVE  sol \in k.seen
      <3>1. k.work.n < latest.n
        BY <2>1, <2>2
      <3>2. ~(payout # None /\ k = job)
        BY <1>2, <1>5, <1>8, <3>1
      <3> QED
        BY <1>6, <2>2, <3>2 DEF SessionInv, CreditsAreSeen
    <2> QED
      BY <1>1, <1>2, <1>8, <2>1, <2>2 DEF CreditsAreSeen
  <1>15. UsableJobs'
    <2>1. ASSUME NEW k \in jobs'
          PROVE  (~k.stale => cleanPrev' <= k.work.prev) /\ (~k.auxStale => k.work.aux = latest.aux)
      <3>1. CASE payout # None /\ k = job
        BY <1>1, <1>5, <1>9, <3>1
      <3>2. CASE ~(payout # None /\ k = job)
        BY <1>1, <1>6, <3>2 DEF SessionInv, UsableJobs
      <3> QED
        BY <3>1, <3>2
    <2> QED
      BY <1>1, <2>1 DEF UsableJobs
  <1>16. NoDoubleCredit' /\ JobsPayOneAddress' /\ CandidatesOnCurrentTips'
    BY <1>1, <1>5, <1>6 DEF SessionInv, NoDoubleCredit, JobsPayOneAddress, CandidatesOnCurrentTips
  <1> QED
    BY <1>4, <1>7, <1>10, <1>11, <1>13, <1>14, <1>15, <1>16 DEF SessionInv
-----------------------------------------------------------------------------
(* Authorization and submits. *)

LEMMA AuthorizeKeeps ==
  ASSUME SessionInv, Authorize PROVE SessionInv'
  <1>1. PICK p \in Payouts :
          /\ ~Disagrees(p) /\ payout' = p
          /\ IF payout # None THEN UNCHANGED <<phase, miner, jobs, nextJob>>
             ELSE IF work = None
                  THEN miner' = AfterSetDifficulty(miner, difficulty) /\ UNCHANGED <<phase, jobs, nextJob>>
                  ELSE SendJob(AfterSetDifficulty(miner, difficulty), work, p, difficulty, FALSE, jobs)
    BY DEF Authorize
  <1>2. /\ phase = "open" /\ workers' \subseteq Workers /\ blocks' = {} /\ p # None
        /\ UNCHANGED <<latest, unread, difficulty, work, credited, doubled, cleanPrev>>
    BY SessionAssumption DEF Authorize, SessionInv, TypeOK
  <1>3. /\ miner \in Miners /\ difficulty \in Diffs /\ nextJob \in Nat \ {0}
        /\ jobs \in SUBSET SessionJob /\ work \in MergedWork \cup {None}
    BY FieldTypes DEF SessionInv
  <1>4. /\ AfterSetDifficulty(miner, difficulty) \in Miners
        /\ AfterSetDifficulty(miner, difficulty).diff = difficulty
        /\ AfterSetDifficulty(miner, difficulty).jobs = miner.jobs
        /\ AfterSetDifficulty(miner, difficulty).leftover = miner.leftover
    BY <1>3 DEF AfterSetDifficulty, Miners
  <1>5. /\ jobs' \in SUBSET SessionJob /\ miner' \in Miners /\ miner'.diff = difficulty
        /\ nextJob' \in Nat \ {0} /\ phase' \in {"open", "closed"}
        /\ IdsAreFresh(jobs, miner)' /\ DiffsAgree(jobs, miner)'
        /\ phase' = "open" => LiveAgree(jobs, miner)'
        /\ \/ jobs' = jobs /\ payout # None
           \/ jobs' = {} /\ payout = None
           \/ /\ jobs' \subseteq {NewJob(work, p, difficulty)}
              /\ payout = None /\ work # None
    <2>1. CASE payout # None
      BY <1>1, <1>2, <1>3, <2>1 DEF SessionInv, Beginning, IdsAreFresh, DiffsAgree, LiveAgree
    <2>2. CASE payout = None /\ work = None
      <3>1. jobs = {} /\ miner' = AfterSetDifficulty(miner, difficulty)
            /\ UNCHANGED <<phase, jobs, nextJob>>
        BY <1>1, <2>2 DEF SessionInv, Beginning
      <3> QED
        BY <1>2, <1>3, <1>4, <2>2, <3>1 DEF SessionInv, IdsAreFresh, DiffsAgree, LiveAgree
    <2>3. CASE payout = None /\ work # None
      <3> DEFINE m == AfterSetDifficulty(miner, difficulty)
                 clean == FALSE
      <3>1. jobs = {} /\ SendJob(m, work, p, difficulty, clean, jobs)
        BY <1>1, <2>3 DEF SessionInv, Beginning
      <3>2. IdsAreFresh(jobs, m) /\ DiffsAgree(jobs, m) /\ LiveAgree(jobs, m)
        BY <1>4, <3>1 DEF SessionInv, IdsAreFresh, DiffsAgree, LiveAgree
      <3>3. m \in Miners /\ m.diff = difficulty /\ work \in MergedWork
        BY <1>3, <1>4, <2>3
      <3>4. clean \in BOOLEAN
        OBVIOUS
      <3> HIDE DEF m, clean
      <3>5. /\ jobs' \in SUBSET SessionJob /\ miner' \in Miners /\ miner'.diff = difficulty
            /\ nextJob' \in Nat \ {0} /\ phase' \in {"open", "closed"}
            /\ jobs' \subseteq jobs \cup {NewJob(work, p, difficulty)}
            /\ IdsAreFresh(jobs, miner)' /\ DiffsAgree(jobs, miner)'
            /\ phase' = "open" => LiveAgree(jobs, miner)'
        BY <1>1, <1>2, <1>3, <3>1, <3>2, <3>3, <3>4, SendJobKeeps
      <3> QED
        BY <2>3, <3>1, <3>5
    <2> QED
      BY <2>1, <2>2, <2>3
  <1>6. work # None => /\ work \in MergedWork /\ work.n \in Nat /\ work.prev \in Nat
                       /\ NewJob(work, p, difficulty).work = work
                       /\ NewJob(work, p, difficulty).payout = p
    BY <1>3, NewJobFields DEF MergedWork, Tips
  <1>7. payout = None => credited = {}
    BY DEF SessionInv, Beginning
  <1>8. TypeOK'
    <2>1. /\ latest' \in MergedWork \cup {None} /\ unread' \in BOOLEAN
          /\ phase' \in {"new", "open", "closed"} /\ payout' \in Payouts \cup {None}
          /\ difficulty' \in Diffs /\ work' \in MergedWork \cup {None} /\ blocks' = {}
          /\ credited' \subseteq (1 .. MaxWork) \X Solutions /\ doubled' \in BOOLEAN
          /\ cleanPrev' \in Tips
      BY <1>1, <1>2, <1>5 DEF SessionInv, TypeOK
    <2> QED
      BY <1>2, <1>5, <2>1 DEF TypeOK, SessionJob, Miners, MinerJob
  <1>9. Beginning' /\ WorksInOrder'
    BY <1>1, <1>2, <1>5, <1>7 DEF SessionInv, Beginning, WorksInOrder
  <1>10. JobsOfWorks'
    <2>1. CASE jobs' = jobs
      BY <1>2, <2>1 DEF SessionInv, JobsOfWorks
    <2>2. CASE jobs' # jobs /\ jobs' # {}
      BY <1>2, <1>5, <1>6, <2>2 DEF JobsOfWorks
    <2> QED
      BY <2>1, <2>2 DEF JobsOfWorks
  <1>11. CreditsAreSeen'
    BY <1>2, <1>5, <1>7 DEF SessionInv, CreditsAreSeen
  <1>12. UsableJobs'
    BY <1>2, <1>5, <1>6 DEF SessionInv, UsableJobs, WorksInOrder
  <1>13. JobsPayOneAddress'
    <2>1. payout # None => payout' = payout
      BY <1>1 DEF Disagrees
    <2> QED
      BY <1>1, <1>5, <1>6, <2>1 DEF SessionInv, JobsPayOneAddress
  <1> QED
    BY <1>2, <1>5, <1>8, <1>9, <1>10, <1>11, <1>12, <1>13
       DEF SessionInv, NoDoubleCredit, CandidatesOnCurrentTips

LEMMA SubmitKeeps ==
  ASSUME SessionInv, Submit PROVE SessionInv'
  <1>1. PICK j \in jobs, sol \in Solutions, level \in Levels,
             form \in {"valid", "extranonce2", "ntime"}, d \in Diffs :
          LET outcome == Outcome(j, sol, form, level)
              checked == outcome \in {"duplicate", "low", "accepted"}
          IN  /\ Retargeted(d, IF checked THEN (jobs \ {j}) \cup {Remembered(j, sol)} ELSE jobs)
              /\ IF outcome = "accepted"
                 THEN /\ blocks' = Candidates(j, level)
                      /\ credited' = credited \cup {<<j.work.n, sol>>}
                      /\ doubled' = (doubled \/ <<j.work.n, sol>> \in credited)
                 ELSE blocks' = {} /\ UNCHANGED <<credited, doubled>>
    BY DEF Submit
  <1> DEFINE outcome == Outcome(j, sol, form, level)
             js == IF outcome \in {"duplicate", "low", "accepted"}
                   THEN (jobs \ {j}) \cup {Remembered(j, sol)} ELSE jobs
  <1>2. /\ phase = "open" /\ payout # None
        /\ UNCHANGED <<latest, unread, payout, workers, work, cleanPrev>>
    BY DEF Submit
  <1>3. /\ Retargeted(d, js)
        /\ outcome = "accepted" => /\ blocks' = Candidates(j, level)
                                   /\ credited' = credited \cup {<<j.work.n, sol>>}
                                   /\ doubled' = (doubled \/ <<j.work.n, sol>> \in credited)
        /\ outcome # "accepted" => blocks' = {} /\ UNCHANGED <<credited, doubled>>
    BY <1>1
  <1>4. outcome = "accepted" => ~j.stale /\ sol \notin j.seen
    BY DEF Outcome
  <1>5. /\ difficulty' = d /\ jobs' = js /\ UNCHANGED <<phase, nextJob>>
        /\ miner' \in Miners /\ miner'.jobs = miner.jobs /\ miner'.leftover = miner.leftover
        /\ miner'.diff = d
    <2> HIDE DEF js
    <2> QED
      BY <1>2, <1>3, RetargetedKeeps
  <1>6. /\ jobs \in SUBSET SessionJob /\ j \in SessionJob /\ j.work \in MergedWork
        /\ j.work.n \in 1 .. MaxWork /\ j.work.prev \in Tips
    BY FieldTypes DEF SessionInv, SessionJob, MergedWork
  <1>7. /\ Remembered(j, sol) \in SessionJob
        /\ Remembered(j, sol).id = j.id /\ Remembered(j, sol).work = j.work
        /\ Remembered(j, sol).payout = j.payout /\ Remembered(j, sol).diff = j.diff
        /\ Remembered(j, sol).stale = j.stale /\ Remembered(j, sol).auxStale = j.auxStale
        /\ Remembered(j, sol).seen = j.seen \cup {sol}
    BY <1>6, RememberedFields
  \* The jobs afterwards are those before, each with as much seen or more.
  <1>8. /\ jobs' \in SUBSET SessionJob /\ jobs # {}
        /\ \A k \in jobs' :
             \/ k \in jobs /\ (outcome = "accepted" => k # j)
             \/ k = Remembered(j, sol) /\ jobs' = (jobs \ {j}) \cup {Remembered(j, sol)}
    BY <1>5, <1>6, <1>7
  <1> HIDE DEF js, outcome
  <1>9. \A k, l \in jobs' : k.id = l.id \/ k.work.n = l.work.n => k = l
    <2>1. \A k, l \in jobs : k.id = l.id \/ k.work.n = l.work.n => k = l
      BY DEF SessionInv, IdsAreFresh, JobsOfWorks
    <2>2. \A k \in jobs' : \/ k \in jobs
                           \/ k.id = j.id /\ k.work = j.work /\ k = Remembered(j, sol)
      BY <1>7, <1>8
    <2>3. ASSUME NEW k \in jobs', NEW l \in jobs', k.id = l.id \/ k.work.n = l.work.n,
                 k = Remembered(j, sol)
          PROVE  k = l
      <3>1. CASE jobs' = (jobs \ {j}) \cup {Remembered(j, sol)}
        BY <1>7, <2>1, <2>3, <3>1
      <3>2. CASE jobs' # (jobs \ {j}) \cup {Remembered(j, sol)}
        BY <1>8, <2>1, <2>3, <3>2
      <3> QED
        BY <3>1, <3>2
    <2>4. \A k, l \in jobs' : \/ k \in jobs /\ l \in jobs
                             \/ k = Remembered(j, sol) \/ l = Remembered(j, sol)
      BY <2>2
    <2> QED
      BY <2>1, <2>3, <2>4
  <1>10. \A k \in jobs' : \E l \in jobs :
           /\ k.id = l.id /\ k.work = l.work /\ k.payout = l.payout /\ k.diff = l.diff
           /\ k.stale = l.stale /\ k.auxStale = l.auxStale
    BY <1>7, <1>8
  <1>11. TypeOK'
    <2>1. blocks' \subseteq [chain : {"parent", "aux"}, prev : Tips \cup 0 .. MaxAuxTip]
      BY <1>3 DEF Candidates
    <2>2. credited' \subseteq (1 .. MaxWork) \X Solutions
      BY <1>3, <1>6 DEF SessionInv, TypeOK
    <2>3. doubled' \in BOOLEAN
      BY <1>3 DEF SessionInv, TypeOK
    <2>4. /\ latest' \in MergedWork \cup {None} /\ unread' \in BOOLEAN
          /\ phase' \in {"new", "open", "closed"} /\ payout' \in Payouts \cup {None}
          /\ workers' \subseteq Workers /\ nextJob' \in Nat \ {0}
          /\ work' \in MergedWork \cup {None} /\ cleanPrev' \in Tips
      BY <1>2, <1>5 DEF SessionInv, TypeOK
    <2> QED
      BY <1>5, <1>8, <2>1, <2>2, <2>3, <2>4 DEF TypeOK, SessionJob, Miners, MinerJob
  <1>12. IdsAreFresh(jobs, miner)'
    BY <1>5, <1>9, <1>10 DEF SessionInv, IdsAreFresh
  <1>13. DiffsAgree(jobs, miner)' /\ (phase' = "open" => LiveAgree(jobs, miner)')
    <2>1. DiffsAgree(jobs, miner)'
      BY <1>5, <1>10 DEF SessionInv, DiffsAgree
    <2>2. ~miner.leftover /\ \A l \in jobs : ~l.stale <=> \E x \in miner.jobs : x.id = l.id
      BY <1>2, <1>8 DEF SessionInv, LiveAgree
    <2>3. LiveAgree(jobs, miner)'
      <3> SUFFICES ASSUME NEW k \in jobs'
                   PROVE  ~miner'.leftover /\ (~k.stale <=> \E x \in miner'.jobs : x.id = k.id)
        BY DEF LiveAgree
      <3>1. PICK l \in jobs : k.id = l.id /\ k.stale = l.stale
        BY <1>10
      <3>2. ~miner'.leftover /\ (~l.stale <=> \E x \in miner'.jobs : x.id = l.id)
        BY <1>5, <2>2
      <3> QED
        BY <3>1, <3>2
    <2> QED
      BY <2>1, <2>3
  <1>14. Beginning' /\ WorksInOrder'
    <2>1. work # None
      BY <1>8 DEF SessionInv, WorksInOrder
    <2> QED
      BY <1>2, <1>5, <2>1 DEF SessionInv, Beginning, WorksInOrder
  <1>15. JobsOfWorks'
    BY <1>2, <1>9, <1>10 DEF SessionInv, JobsOfWorks
  <1>16. CreditsAreSeen'
    <2>1. \A c \in credited' : c[1] <= work.n
      BY <1>3 DEF SessionInv, CreditsAreSeen, JobsOfWorks
    <2>2. ASSUME NEW k \in jobs', NEW s \in Solutions, <<k.work.n, s>> \in credited'
          PROVE  s \in k.seen
      <3>1. CASE <<k.work.n, s>> \in credited
        <4>1. \A l \in jobs : <<l.work.n, s>> \in credited => s \in l.seen
          BY DEF SessionInv, CreditsAreSeen
        <4> QED
          BY <1>7, <1>8, <3>1, <4>1
      <3>2. CASE <<k.work.n, s>> \notin credited
        <4>1. outcome = "accepted" /\ k.work.n = j.work.n /\ s = sol
          BY <1>3, <2>2, <3>2
        <4>2. k \notin jobs \/ k = j
          BY <4>1 DEF SessionInv, JobsOfWorks
        <4>3. k = Remembered(j, sol)
          BY <1>8, <4>1, <4>2
        <4> QED
          BY <1>7, <4>1, <4>3
      <3> QED
        BY <3>1, <3>2
    <2> QED
      BY <1>2, <2>1, <2>2 DEF CreditsAreSeen
  <1>17. UsableJobs'
    BY <1>2, <1>10 DEF SessionInv, UsableJobs
  <1>18. NoDoubleCredit'
    <2>1. outcome = "accepted" => <<j.work.n, sol>> \notin credited
      BY <1>4 DEF SessionInv, CreditsAreSeen, outcome
    <2>2. ~doubled
      BY DEF SessionInv, NoDoubleCredit
    <2> QED
      BY <1>3, <2>1, <2>2 DEF NoDoubleCredit
  <1>19. JobsPayOneAddress'
    BY <1>2, <1>10 DEF SessionInv, JobsPayOneAddress
  <1>20. CandidatesOnCurrentTips'
    <2>1. \A b \in blocks' : /\ outcome = "accepted"
                             /\ b.chain = "parent" => b.prev = j.work.prev
                             /\ b.chain = "aux" => b.prev = j.work.aux /\ ~j.auxStale
      BY <1>3 DEF Candidates
    <2>2. /\ ~j.stale => j.work.prev >= cleanPrev
          /\ ~j.auxStale => j.work.aux = work.aux
      BY <1>6 DEF SessionInv, UsableJobs, TypeOK, Tips
    <2> QED
      BY <1>2, <1>4, <2>1, <2>2 DEF CandidatesOnCurrentTips, outcome
  <1> QED
    BY <1>11, <1>12, <1>13, <1>14, <1>15, <1>16, <1>17, <1>18, <1>19, <1>20 DEF SessionInv

-----------------------------------------------------------------------------
(* The theorems. *)

LEMMA NextInv == SessionInv /\ [Next]_vars => SessionInv'
  <1> SUFFICES ASSUME SessionInv, [Next]_vars PROVE SessionInv'
    OBVIOUS
  <1>1. CASE UNCHANGED vars
    BY <1>1 DEF vars, sessionVars, SessionInv, TypeOK, Beginning, WorksInOrder, IdsAreFresh,
                LiveAgree, DiffsAgree, JobsOfWorks, CreditsAreSeen, UsableJobs, NoDoubleCredit,
                JobsPayOneAddress, CandidatesOnCurrentTips
  <1>2. CASE Next
    BY <1>2, PublishKeeps, ConnectKeeps, OnWorkKeeps, AuthorizeKeeps, RetargetKeeps, SubmitKeeps,
       DisconnectKeeps
       DEF Next, Request
  <1> QED
    BY <1>1, <1>2

LEMMA SessionInvHolds == Spec => []SessionInv
  BY InitInv, NextInv, PTL DEF Spec

\* The session's fields, the jobs it keeps and what the miner was told keep their types
\* (session.rs): difficulties within the bounds, jobs only of published work.
THEOREM TypesKept == Spec => []TypeOK
  <1>1. SessionInv => TypeOK
    BY DEF SessionInv
  <1> QED
    BY <1>1, SessionInvHolds, PTL

\* Miner and session mean the same by a job, whatever requests and work come in what order:
\* which jobs may be worked on, and at what target (send_job, on_work, retarget).
THEOREM MinerAgrees == Spec => []JobsAgree
  <1>1. SessionInv => JobsAgree
    BY DEF SessionInv, LiveAgree, DiffsAgree, JobsAgree, LiveJobsAgree, TargetsAgree, Holds
  <1> QED
    BY <1>1, SessionInvHolds, PTL

\* No solution is credited twice for one publication of work, although it may be submitted any
\* number of times (validate.rs).  A later publication, of the same template even, has jobs of
\* its own, which know nothing of the solutions seen before.
THEOREM CreditedOnce == Spec => []NoDoubleCredit
  <1>1. SessionInv => NoDoubleCredit
    BY DEF SessionInv
  <1> QED
    BY <1>1, SessionInvHolds, PTL

\* Every candidate pays the address its session was authorized with, on the parent tip of
\* the last clean work or a later one, and on the present aux tip.
THEOREM GoodCandidates == Spec => []CandidatesAreGood
  <1>1. SessionInv => CandidatesAreGood
    BY DEF SessionInv, CandidatesAreGood
  <1> QED
    BY <1>1, SessionInvHolds, PTL
=============================================================================
