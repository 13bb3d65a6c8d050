------------------------ MODULE WorkPipeline_proofs ------------------------
(***************************************************************************)
(* Proofs about WorkPipeline: for any sessions, any number of kept jobs    *)
(* and any bounds.                                                         *)
(***************************************************************************)
EXTENDS WorkPipeline, TLAPS

-----------------------------------------------------------------------------
(* The inductive invariant, in named parts. *)

\* The merged channel follows the template channels but for what merge has yet to read.
MergedIsCurrent ==
  /\ ~auxNew /\ merged # NoWork => merged.aux = AuxTip
  /\ ~parentNew /\ parent # NoWork => merged # NoWork /\ merged.prev = parent.prev
  /\ merged # NoWork => merged.parent = lastParent
  /\ lastParent <= parentId

\* A session's work is the merged channel's but for what the session has yet to read.
WorkIsCurrent(s) ==
  /\ conn[s] # "closed" /\ s \notin unread => work[s] = merged
  /\ s \in unread => conn[s] # "closed" /\ merged # NoWork

\* Jobs come after authorization and work; one on another aux tip than the work's is aux-stale.
JobsFollowWork(s) ==
  \A j \in jobs[s] : /\ conn[s] = "authorized" /\ work[s] # NoWork
                     /\ ~j.auxStale => j.aux = work[s].aux

\* The last job sent is the present work's.
LastJobIsWork(s) ==
  conn[s] = "authorized" /\ work[s] # NoWork =>
    \E j \in jobs[s] : /\ j.id + 1 = nextJob[s]
                       /\ j.prev = work[s].prev /\ j.aux = work[s].aux
                       /\ ~j.stale /\ ~j.auxStale

PipelineInv ==
  /\ TypeOK
  /\ MergedIsCurrent
  /\ \A s \in Sessions : WorkIsCurrent(s) /\ JobsFollowWork(s) /\ LastJobIsWork(s)

-----------------------------------------------------------------------------
(* Facts about jobs. *)

\* Work is given job fields of their types, and an id below the next one.
LEMMA NewJobType ==
  ASSUME TypeOK, NEW s \in Sessions, NEW w \in MergedWork
  PROVE  /\ NewJob(s, w) \in SessionJob
         /\ NewJob(s, w).id = nextJob[s]
         /\ NewJob(s, w).prev = w.prev /\ NewJob(s, w).aux = w.aux
         /\ ~NewJob(s, w).stale /\ ~NewJob(s, w).auxStale
  BY DEF TypeOK, NewJob, SessionJob, MergedWork, Tips

\* Superseding a job changes its two flags only, and leaves it usable for the aux chain
\* only on the new work's aux tip.
LEMMA SupersededJob ==
  ASSUME NEW j \in SessionJob, NEW w \in MergedWork
  PROVE  /\ Superseded(j, w) \in SessionJob
         /\ Superseded(j, w).id = j.id
         /\ ~Superseded(j, w).auxStale => Superseded(j, w).aux = w.aux
  BY DEF Superseded, SessionJob, MergedWork

\* Sending a job: the job is kept whatever is dropped, and the jobs kept are recent.
LEMMA WithJobKeeps ==
  ASSUME TypeOK, NEW s \in Sessions, NEW w \in MergedWork, NEW kept \in SUBSET SessionJob,
         \A j \in kept : j.id < nextJob[s]
  PROVE  /\ WithJob(s, kept, w) \in SUBSET SessionJob
         /\ NewJob(s, w) \in WithJob(s, kept, w)
         /\ WithJob(s, kept, w) \subseteq kept \cup {NewJob(s, w)}
         /\ \A j \in WithJob(s, kept, w) :
              j.id < nextJob[s] + 1 /\ nextJob[s] + 1 <= j.id + MAX_JOBS
  <1>1. nextJob[s] \in Nat /\ MAX_JOBS \in Nat \ {0}
    BY PipelineAssumption DEF TypeOK
  <1>2. NewJob(s, w) \in SessionJob /\ NewJob(s, w).id = nextJob[s]
    BY NewJobType
  <1>3. \A j \in SessionJob : j.id \in Nat
    BY DEF SessionJob
  <1> QED
    BY <1>1, <1>2, <1>3 DEF WithJob

-----------------------------------------------------------------------------
(* Init and the steps of the template sources and of merge. *)

\* Empty channels and sessions not yet connected satisfy the invariant.
LEMMA InitInv == Init => PipelineInv
  <1> SUFFICES ASSUME Init PROVE PipelineInv
    OBVIOUS
  <1> USE DEF Init, Parent!FeedInit, Aux!FeedInit
  <1>1. TypeOK
    <2>1. 0 \in 0 .. MaxTip
      BY PipelineAssumption
    <2>2. \A s \in Sessions : \A j \in jobs[s] :
            j.id < nextJob[s] /\ nextJob[s] <= j.id + MAX_JOBS
      OBVIOUS
    <2>3. /\ conn \in [Sessions -> {"closed", "open", "authorized"}]
          /\ work \in [Sessions -> MergedWork \cup {NoWork}]
          /\ jobs \in [Sessions -> SUBSET SessionJob]
          /\ nextJob \in [Sessions -> Nat \ {0}]
      OBVIOUS
    <2> QED
      BY <2>1, <2>2, <2>3 DEF TypeOK
  <1>2. MergedIsCurrent
    BY DEF MergedIsCurrent
  <1>3. \A s \in Sessions : WorkIsCurrent(s) /\ JobsFollowWork(s) /\ LastJobIsWork(s)
    BY DEF WorkIsCurrent, JobsFollowWork, LastJobIsWork
  <1> QED
    BY <1>1, <1>2, <1>3 DEF PipelineInv

\* The value types: the channels' empty value is no template and no work.
LEMMA EmptyValue ==
  /\ NoWork \notin Parent!Templates
  /\ NoWork \notin Aux!Templates
  /\ NoWork \notin MergedWork
  BY PipelineAssumption DEF Parent!Templates, Aux!Templates, Parent!Tips, Aux!Tips, MergedWork, Tips, NoAux

\* What a step leaves alone when it changes neither work, jobs nor the merged channel.
SessionsIdle == UNCHANGED <<merged, unread, conn, busy, work, jobs, nextJob>>

\* A step that leaves a session's work and jobs and the merged channel alone keeps its part.
LEMMA IdleSessions ==
  ASSUME PipelineInv, SessionsIdle
  PROVE  \A s \in Sessions : (WorkIsCurrent(s) /\ JobsFollowWork(s) /\ LastJobIsWork(s))'
  BY DEF SessionsIdle, PipelineInv, WorkIsCurrent, JobsFollowWork, LastJobIsWork

\* A publication puts a template on the parent's channel and keeps the types of the rest.
LEMMA ParentPublished ==
  ASSUME Parent!FeedTypes, NEW prev \in Tips, Parent!PublishClean(prev) \/ Parent!PublishSameJob(prev)
  PROVE  Parent!FeedTypes' /\ parent' \in Parent!Templates
  <1>1. parent' \in Parent!Templates
    <2>1. CASE Parent!PublishClean(prev)
      BY <2>1 DEF Parent!PublishClean, Parent!Templates
    <2>2. CASE Parent!PublishSameJob(prev)
      BY <2>2 DEF Parent!PublishSameJob, Parent!Templates
    <2> QED
      BY <2>1, <2>2
  <1>2. pPrev' = prev /\ (pAnnounced' = pAnnounced \/ pAnnounced' \in (pAnnounced + 1) .. prev)
    BY DEF Parent!PublishClean, Parent!PublishSameJob
  <1>3. pPrev' \in 0 .. MaxTip /\ pAnnounced' \in 0 .. MaxTip
    BY <1>2, PipelineAssumption DEF Parent!FeedTypes, Tips
  <1> QED
    BY <1>1, <1>3 DEF Parent!FeedTypes

\* So does one on the aux chain's.
LEMMA AuxPublished ==
  ASSUME Aux!FeedTypes, NEW prev \in Tips, Aux!PublishClean(prev) \/ Aux!PublishSameJob(prev)
  PROVE  Aux!FeedTypes' /\ aux' \in Aux!Templates
  <1>1. aux' \in Aux!Templates
    <2>1. CASE Aux!PublishClean(prev)
      BY <2>1 DEF Aux!PublishClean, Aux!Templates
    <2>2. CASE Aux!PublishSameJob(prev)
      BY <2>2 DEF Aux!PublishSameJob, Aux!Templates
    <2> QED
      BY <2>1, <2>2
  <1>2. aPrev' = prev /\ (aAnnounced' = aAnnounced \/ aAnnounced' \in (aAnnounced + 1) .. prev)
    BY DEF Aux!PublishClean, Aux!PublishSameJob
  <1>3. aPrev' \in 0 .. MaxTip /\ aAnnounced' \in 0 .. MaxTip
    BY <1>2, PipelineAssumption DEF Aux!FeedTypes, Tips
  <1> QED
    BY <1>1, <1>3 DEF Aux!FeedTypes

\* Publishing a parent template (template.rs) keeps the invariant.
LEMMA PublishParentKeeps ==
  ASSUME PipelineInv, PublishParent PROVE PipelineInv'
  <1>1. /\ parent' \in Parent!Templates /\ pPrev' \in 0 .. MaxTip /\ pAnnounced' \in 0 .. MaxTip
        /\ hidden' \subseteq Sessions \cup {Merge}
        /\ parentId' \in Nat /\ parentId < parentId' /\ parentNew' = TRUE
    <2>1. Parent!FeedTypes /\ parentId \in Nat /\ hidden \subseteq Sessions \cup {Merge}
      BY DEF PipelineInv, TypeOK, Parent!FeedTypes
    <2>2. PICK prev \in Tips : Parent!PublishClean(prev) \/ Parent!PublishSameJob(prev)
      BY DEF PublishParent
    <2>3. /\ parent' \in Parent!Templates /\ pPrev' \in 0 .. MaxTip /\ pAnnounced' \in 0 .. MaxTip
      BY <2>1, <2>2, ParentPublished, PipelineAssumption DEF Parent!FeedTypes, Tips, Parent!Tips
    <2>4. hidden' \subseteq Sessions \cup {Merge} /\ parentId' = parentId + 1 /\ parentNew' = TRUE
      BY <2>1 DEF PublishParent
    <2> QED
      BY <2>1, <2>3, <2>4
  <1>2. UNCHANGED <<auxVars, mergeVars>> /\ SessionsIdle
    BY DEF PublishParent, mergeVars, sessionVars, SessionsIdle
  <1>3. TypeOK'
    BY <1>1, <1>2 DEF PipelineInv, TypeOK, auxVars, mergeVars, SessionsIdle
  <1>4. MergedIsCurrent'
    BY <1>1, <1>2 DEF PipelineInv, TypeOK, MergedIsCurrent, AuxTip, auxVars, mergeVars
  <1> QED
    BY <1>2, <1>3, <1>4, IdleSessions DEF PipelineInv

\* Withdrawing the parent template after a long failure keeps the invariant.
LEMMA WithdrawParentKeeps ==
  ASSUME PipelineInv, WithdrawParent PROVE PipelineInv'
  <1>1. UNCHANGED <<parentId, auxVars, mergeVars>> /\ SessionsIdle
    BY DEF WithdrawParent, mergeVars, sessionVars, SessionsIdle
  <1>2. /\ parent' = NoWork /\ UNCHANGED <<pPrev, pAnnounced>> /\ parentNew' = TRUE
        /\ hidden' \subseteq Sessions \cup {Merge}
    BY DEF WithdrawParent, Parent!Withdraw, PipelineInv, TypeOK
  <1>3. TypeOK'
    BY <1>1, <1>2 DEF PipelineInv, TypeOK, auxVars, mergeVars, SessionsIdle
  <1>4. MergedIsCurrent'
    BY <1>1, <1>2 DEF PipelineInv, MergedIsCurrent, AuxTip, auxVars, mergeVars
  <1> QED
    BY <1>1, <1>3, <1>4, IdleSessions DEF PipelineInv

\* Whatever becomes of the aux channel, merge has yet to read it.
LEMMA AuxChanges ==
  ASSUME PipelineInv, PublishAux \/ WithdrawAux PROVE PipelineInv'
  <1>1. /\ aux' \in Aux!Templates \cup {NoWork} /\ aPrev' \in 0 .. MaxTip
        /\ aAnnounced' \in 0 .. MaxTip
        /\ auxNew' = TRUE
    <2>1. Aux!FeedTypes
      BY DEF PipelineInv, TypeOK, Aux!FeedTypes
    <2>2. CASE PublishAux
      <3>1. PICK prev \in Tips : Aux!PublishClean(prev) \/ Aux!PublishSameJob(prev)
        BY <2>2 DEF PublishAux
      <3>2. auxNew' = TRUE
        BY <2>2 DEF PublishAux
      <3> QED
        BY <2>1, <3>1, <3>2, AuxPublished, PipelineAssumption DEF Aux!FeedTypes, Tips, Aux!Tips
    <2>3. CASE WithdrawAux
      BY <2>1, <2>3 DEF WithdrawAux, Aux!Withdraw, Aux!FeedTypes
    <2> QED
      BY <2>2, <2>3
  <1>2. UNCHANGED <<parentVars, mergeVars, hidden>> /\ SessionsIdle
    BY DEF PublishAux, WithdrawAux, mergeVars, sessionVars, SessionsIdle
  <1>3. TypeOK'
    BY <1>1, <1>2 DEF PipelineInv, TypeOK, parentVars, mergeVars, SessionsIdle
  <1>4. MergedIsCurrent'
    BY <1>1, <1>2 DEF PipelineInv, MergedIsCurrent, parentVars, mergeVars
  <1> QED
    BY <1>2, <1>3, <1>4, IdleSessions DEF PipelineInv

\* merge waiting for a parent template keeps the invariant.
LEMMA MergeWaitsKeeps ==
  ASSUME PipelineInv, MergeWaits PROVE PipelineInv'
  <1>1. SessionsIdle
    BY DEF MergeWaits, sessionVars, SessionsIdle
  <1>2. TypeOK'
    BY DEF MergeWaits, PipelineInv, TypeOK, auxVars, sessionVars
  <1>3. MergedIsCurrent'
    BY DEF MergeWaits, PipelineInv, MergedIsCurrent, AuxTip, auxVars
  <1> QED
    BY <1>1, <1>2, <1>3, IdleSessions DEF PipelineInv

\* merge publishing parent and aux together (merged.rs) keeps the invariant.
LEMMA MergePublishesKeeps ==
  ASSUME PipelineInv, MergePublishes PROVE PipelineInv'
  <1> USE DEF MergePublishes, sessionVars
  <1>1. merged' \in MergedWork /\ merged'.prev = parent.prev /\ merged'.parent = parentId
        /\ merged'.aux = AuxTip
    BY DEF PipelineInv, TypeOK, MergedWork, AuxTip, MergedClean, Parent!Templates, Parent!Tips,
           Aux!Templates, Aux!Tips, Tips
  <1>2. merged' # NoWork
    BY <1>1, EmptyValue
  <1>3. TypeOK'
    <2>1. hidden' \subseteq Sessions \cup {Merge}
      BY DEF PipelineInv, TypeOK
    <2> QED
      BY <1>1, <2>1 DEF PipelineInv, TypeOK
  <1>4. MergedIsCurrent'
    BY <1>1, <1>2 DEF PipelineInv, TypeOK, MergedIsCurrent, AuxTip
  <1>5. ASSUME NEW s \in Sessions
        PROVE  (WorkIsCurrent(s) /\ JobsFollowWork(s) /\ LastJobIsWork(s))'
    BY <1>2 DEF PipelineInv, WorkIsCurrent, JobsFollowWork, LastJobIsWork
  <1> QED
    BY <1>3, <1>4, <1>5 DEF PipelineInv

-----------------------------------------------------------------------------
(* The steps of a session. *)

\* A session's steps leave the channels alone, so only the session's own parts are at stake.
ChannelsIdle == UNCHANGED <<parentVars, auxVars, mergeVars>>

\* A step of one session keeps the invariant if it keeps that session's own parts.
LEMMA SessionStep ==
  ASSUME PipelineInv, ChannelsIdle, TypeOK', NEW s \in Sessions,
         (WorkIsCurrent(s) /\ JobsFollowWork(s) /\ LastJobIsWork(s))',
         \A t \in Sessions \ {s} :
           /\ conn'[t] = conn[t] /\ work'[t] = work[t] /\ jobs'[t] = jobs[t]
           /\ nextJob'[t] = nextJob[t] /\ (t \in unread' <=> t \in unread)
  PROVE  PipelineInv'
  <1>1. MergedIsCurrent'
    BY DEF PipelineInv, ChannelsIdle, MergedIsCurrent, AuxTip, parentVars, auxVars, mergeVars
  <1>2. ASSUME NEW t \in Sessions \ {s}
        PROVE  (WorkIsCurrent(t) /\ JobsFollowWork(t) /\ LastJobIsWork(t))'
    BY DEF PipelineInv, ChannelsIdle, mergeVars, WorkIsCurrent, JobsFollowWork, LastJobIsWork
  <1> QED
    BY <1>1, <1>2 DEF PipelineInv

\* A new connection, which marks the merged work unread, keeps the invariant.
LEMMA ConnectKeeps ==
  ASSUME PipelineInv, NEW s \in Sessions, Connect(s) PROVE PipelineInv'
  <1>1. ChannelsIdle
    BY DEF Connect, ChannelsIdle
  <1>2. TypeOK'
    BY DEF Connect, PipelineInv, TypeOK, parentVars, auxVars, mergeVars
  <1>3. (WorkIsCurrent(s) /\ JobsFollowWork(s) /\ LastJobIsWork(s))'
    BY DEF Connect, PipelineInv, TypeOK, mergeVars, WorkIsCurrent, JobsFollowWork, LastJobIsWork
  <1>4. \A t \in Sessions \ {s} :
          /\ conn'[t] = conn[t] /\ work'[t] = work[t] /\ jobs'[t] = jobs[t]
          /\ nextJob'[t] = nextJob[t] /\ (t \in unread' <=> t \in unread)
    BY DEF Connect, PipelineInv, TypeOK
  <1> QED
    BY <1>1, <1>2, <1>3, <1>4, SessionStep

\* A session that ends keeps the invariant.
LEMMA DisconnectKeeps ==
  ASSUME PipelineInv, NEW s \in Sessions, Disconnect(s) PROVE PipelineInv'
  <1>1. ChannelsIdle
    BY DEF Disconnect, ChannelsIdle
  <1>2. TypeOK'
    BY DEF Disconnect, PipelineInv, TypeOK, parentVars, auxVars, mergeVars
  <1>3. (WorkIsCurrent(s) /\ JobsFollowWork(s) /\ LastJobIsWork(s))'
    BY DEF Disconnect, PipelineInv, TypeOK, WorkIsCurrent, JobsFollowWork, LastJobIsWork
  <1>4. \A t \in Sessions \ {s} :
          /\ conn'[t] = conn[t] /\ work'[t] = work[t] /\ jobs'[t] = jobs[t]
          /\ nextJob'[t] = nextJob[t] /\ (t \in unread' <=> t \in unread)
    BY DEF Disconnect, PipelineInv, TypeOK
  <1> QED
    BY <1>1, <1>2, <1>3, <1>4, SessionStep

\* A session busy with a request keeps the invariant.
LEMMA ServeKeeps ==
  ASSUME PipelineInv, NEW s \in Sessions, Serve(s) \/ Applied(s) PROVE PipelineInv'
  <1>1. ChannelsIdle /\ UNCHANGED <<unread, conn, work, jobs, nextJob>>
    BY DEF Serve, Applied, ChannelsIdle
  <1>2. TypeOK'
    BY DEF Serve, Applied, PipelineInv, TypeOK, parentVars, auxVars, mergeVars
  <1>3. (WorkIsCurrent(s) /\ JobsFollowWork(s) /\ LastJobIsWork(s))'
    BY DEF Serve, Applied, mergeVars, PipelineInv, WorkIsCurrent, JobsFollowWork, LastJobIsWork
  <1> QED
    BY <1>1, <1>2, <1>3, SessionStep

\* The job sent to s for work w, with the jobs it kept, is the last and follows w.
LEMMA SendKeeps ==
  ASSUME TypeOK, NEW s \in Sessions, NEW kept \in SUBSET SessionJob, NEW w \in MergedWork,
         \A j \in kept : j.id < nextJob[s] /\ (~j.auxStale => j.aux = w.aux),
         work'[s] = w, conn'[s] = "authorized",
         jobs' = [jobs EXCEPT ![s] = WithJob(s, kept, w)],
         nextJob' = [nextJob EXCEPT ![s] = @ + 1]
  PROVE  /\ jobs' \in [Sessions -> SUBSET SessionJob]
         /\ nextJob' \in [Sessions -> Nat \ {0}]
         /\ \A t \in Sessions : \A j \in jobs'[t] :
              j.id < nextJob'[t] /\ nextJob'[t] <= j.id + MAX_JOBS
         /\ (JobsFollowWork(s) /\ LastJobIsWork(s))'
  <1> DEFINE new == NewJob(s, w)
  <1>1. /\ jobs'[s] = WithJob(s, kept, w) /\ nextJob'[s] = nextJob[s] + 1
        /\ \A t \in Sessions \ {s} : jobs'[t] = jobs[t] /\ nextJob'[t] = nextJob[t]
    BY DEF TypeOK
  <1>2. /\ jobs'[s] \in SUBSET SessionJob /\ new \in jobs'[s]
        /\ jobs'[s] \subseteq kept \cup {new}
        /\ \A j \in jobs'[s] : j.id < nextJob[s] + 1 /\ nextJob[s] + 1 <= j.id + MAX_JOBS
    BY <1>1, WithJobKeeps
  <1>3. /\ new.id = nextJob[s] /\ new.prev = w.prev /\ new.aux = w.aux
        /\ ~new.stale /\ ~new.auxStale
    BY NewJobType
  <1>4. jobs' \in [Sessions -> SUBSET SessionJob]
    BY <1>1, <1>2 DEF TypeOK
  <1>5. nextJob' \in [Sessions -> Nat \ {0}]
    BY DEF TypeOK
  <1>6. \A t \in Sessions : \A j \in jobs'[t] :
          j.id < nextJob'[t] /\ nextJob'[t] <= j.id + MAX_JOBS
    BY <1>1, <1>2 DEF TypeOK
  <1>7. JobsFollowWork(s)'
    BY <1>2, <1>3, EmptyValue DEF JobsFollowWork
  <1>8. LastJobIsWork(s)'
    BY <1>1, <1>2, <1>3 DEF LastJobIsWork
  <1> HIDE DEF new
  <1> QED
    BY <1>4, <1>5, <1>6, <1>7, <1>8

\* An authorize, which sends a first job, keeps the invariant.
LEMMA AuthorizeKeeps ==
  ASSUME PipelineInv, NEW s \in Sessions, Authorize(s) PROVE PipelineInv'
  <1>1. TypeOK /\ WorkIsCurrent(s) /\ JobsFollowWork(s)
    BY DEF PipelineInv
  <1>2. ChannelsIdle /\ UNCHANGED <<unread, work, hidden>> /\ busy' = busy \cup {s}
        /\ conn[s] = "open" /\ conn' = [conn EXCEPT ![s] = "authorized"]
    BY DEF Authorize, ChannelsIdle
  <1>3. conn' \in [Sessions -> {"closed", "open", "authorized"}] /\ conn'[s] = "authorized"
    BY <1>1, <1>2 DEF TypeOK
  <1>4. /\ jobs' \in [Sessions -> SUBSET SessionJob]
        /\ nextJob' \in [Sessions -> Nat \ {0}]
        /\ \A t \in Sessions : \A j \in jobs'[t] :
             j.id < nextJob'[t] /\ nextJob'[t] <= j.id + MAX_JOBS
        /\ (JobsFollowWork(s) /\ LastJobIsWork(s))'
    <2>1. CASE work[s] = NoWork
      <3>1. jobs' = jobs /\ nextJob' = nextJob
        BY <2>1 DEF Authorize
      <3> QED
        BY <1>1, <1>2, <2>1, <3>1 DEF TypeOK, JobsFollowWork, LastJobIsWork
    <2>2. CASE work[s] # NoWork
      <3> DEFINE w == work[s]
                 kept == {}
      <3>1. w \in MergedWork /\ work'[s] = w
        BY <1>1, <1>2, <2>2 DEF TypeOK
      <3>2. /\ jobs' = [jobs EXCEPT ![s] = WithJob(s, kept, w)]
            /\ nextJob' = [nextJob EXCEPT ![s] = @ + 1]
        BY <2>2 DEF Authorize
      <3>3. /\ kept \in SUBSET SessionJob
            /\ \A j \in kept : j.id < nextJob[s] /\ (~j.auxStale => j.aux = w.aux)
        OBVIOUS
      <3> HIDE DEF w, kept
      <3> QED
        BY <1>1, <1>3, <3>1, <3>2, <3>3, SendKeeps
    <2> QED
      BY <2>1, <2>2
  <1>5. TypeOK'
    BY <1>1, <1>2, <1>3, <1>4 DEF TypeOK, ChannelsIdle, parentVars, auxVars, mergeVars
  <1>6. WorkIsCurrent(s)'
    BY <1>1, <1>2 DEF WorkIsCurrent, ChannelsIdle, mergeVars
  <1>7. \A t \in Sessions \ {s} :
          /\ conn'[t] = conn[t] /\ work'[t] = work[t] /\ jobs'[t] = jobs[t]
          /\ nextJob'[t] = nextJob[t] /\ (t \in unread' <=> t \in unread)
    BY <1>1, <1>2 DEF Authorize, TypeOK
  <1> QED
    BY <1>2, <1>4, <1>5, <1>6, <1>7, SessionStep

\* on_work, which supersedes jobs and sends a new one, keeps the invariant.
LEMMA OnWorkKeeps ==
  ASSUME PipelineInv, NEW s \in Sessions, OnWork(s) PROVE PipelineInv'
  <1>1. TypeOK /\ WorkIsCurrent(s) /\ JobsFollowWork(s) /\ s \in unread
    BY DEF PipelineInv, OnWork
  <1>2. ChannelsIdle /\ conn' = conn /\ unread' = unread \ {s} /\ busy' = busy \cup {s}
        /\ work' = [work EXCEPT ![s] = merged] /\ hidden' \subseteq hidden
    BY DEF OnWork, ChannelsIdle
  <1>3. merged' = merged /\ merged \in MergedWork /\ conn[s] # "closed"
    BY <1>1, <1>2 DEF WorkIsCurrent, TypeOK, ChannelsIdle, mergeVars
  <1>4. work' \in [Sessions -> MergedWork \cup {NoWork}] /\ work'[s] = merged
    BY <1>1, <1>2 DEF TypeOK
  <1>5. /\ jobs' \in [Sessions -> SUBSET SessionJob]
        /\ nextJob' \in [Sessions -> Nat \ {0}]
        /\ \A t \in Sessions : \A j \in jobs'[t] :
             j.id < nextJob'[t] /\ nextJob'[t] <= j.id + MAX_JOBS
        /\ (JobsFollowWork(s) /\ LastJobIsWork(s))'
    <2>1. CASE conn[s] = "authorized"
      <3> DEFINE kept == {Superseded(j, merged) : j \in jobs[s]}
      <3>1. jobs[s] \in SUBSET SessionJob /\ \A j \in jobs[s] : j.id < nextJob[s]
        BY <1>1 DEF TypeOK
      <3>2. /\ kept \in SUBSET SessionJob
            /\ \A j \in kept : j.id < nextJob[s] /\ (~j.auxStale => j.aux = merged.aux)
        BY <1>3, <3>1, SupersededJob
      <3>3. /\ jobs' = [jobs EXCEPT ![s] = WithJob(s, kept, merged)]
            /\ nextJob' = [nextJob EXCEPT ![s] = @ + 1]
        BY <2>1 DEF OnWork
      <3> HIDE DEF kept
      <3> QED
        BY <1>1, <1>2, <1>3, <1>4, <2>1, <3>2, <3>3, SendKeeps, ZenonT(30)
    <2>2. CASE conn[s] # "authorized"
      <3>1. jobs' = jobs /\ nextJob' = nextJob
        BY <2>2 DEF OnWork
      <3> QED
        BY <1>1, <1>2, <2>2, <3>1 DEF TypeOK, JobsFollowWork, LastJobIsWork
    <2> QED
      BY <2>1, <2>2
  <1>6. TypeOK'
    BY <1>1, <1>2, <1>4, <1>5 DEF TypeOK, ChannelsIdle, parentVars, auxVars, mergeVars
  <1>7. WorkIsCurrent(s)'
    BY <1>2, <1>3, <1>4 DEF WorkIsCurrent
  <1>8. \A t \in Sessions \ {s} :
          /\ conn'[t] = conn[t] /\ work'[t] = work[t] /\ jobs'[t] = jobs[t]
          /\ nextJob'[t] = nextJob[t] /\ (t \in unread' <=> t \in unread)
    BY <1>1, <1>2 DEF OnWork, TypeOK
  <1> QED
    BY <1>2, <1>5, <1>6, <1>7, <1>8, SessionStep

-----------------------------------------------------------------------------
(* The theorems. *)

\* Every step keeps the invariant.
LEMMA NextKeeps == PipelineInv /\ [Next]_vars => PipelineInv'
  <1> SUFFICES ASSUME PipelineInv, [Next]_vars PROVE PipelineInv'
    OBVIOUS
  <1>1. CASE PublishParent \/ WithdrawParent \/ PublishAux \/ WithdrawAux
    BY <1>1, PublishParentKeeps, WithdrawParentKeeps, AuxChanges
  <1>2. CASE MergeWaits \/ MergePublishes
    BY <1>2, MergeWaitsKeeps, MergePublishesKeeps
  <1>3. ASSUME NEW s \in Sessions, SessionNext(s) PROVE PipelineInv'
    BY <1>3, ConnectKeeps, AuthorizeKeeps, OnWorkKeeps, ServeKeeps, DisconnectKeeps
       DEF SessionNext
  <1>4. CASE UNCHANGED vars
    <2>1. ChannelsIdle /\ SessionsIdle /\ hidden' = hidden
      BY <1>4 DEF vars, ChannelsIdle, SessionsIdle, mergeVars, sessionVars
    <2>2. TypeOK'
      BY <2>1 DEF PipelineInv, TypeOK, ChannelsIdle, SessionsIdle, parentVars, auxVars, mergeVars
    <2>3. MergedIsCurrent'
      BY <2>1 DEF PipelineInv, MergedIsCurrent, AuxTip, ChannelsIdle, parentVars, auxVars, mergeVars
    <2> QED
      BY <2>1, <2>2, <2>3, IdleSessions DEF PipelineInv
  <1> QED
    BY <1>1, <1>2, <1>3, <1>4 DEF Next

\* The inductive invariant holds in every behaviour of channels, merge and sessions.
THEOREM PipelineInvariant == Spec => []PipelineInv
  BY InitInv, NextKeeps, PTL DEF Spec

\* Every variable keeps its type, and a session keeps at most the MAX_JOBS latest jobs.
THEOREM TypeCorrect == Spec => []TypeOK
  <1>1. PipelineInv => TypeOK
    BY DEF PipelineInv
  <1> QED
    BY <1>1, PipelineInvariant, PTL

\* A session that has read everything published offers no aux block (validate's candidates)
\* on anything but the aux chain's present tip.
THEOREM AuxBlocksCurrent == Spec => []NoOutdatedAuxBlock
  <1>1. PipelineInv => NoOutdatedAuxBlock
    <2> SUFFICES ASSUME PipelineInv, NEW s \in Sessions, CaughtUp(s), NEW j \in jobs[s],
                        j.aux # NoAux, ~j.auxStale
                 PROVE  aux # NoWork /\ j.aux = aux.prev
      BY DEF NoOutdatedAuxBlock
    <2>1. work[s] = merged /\ j.aux = work[s].aux
      BY DEF PipelineInv, CaughtUp, WorkIsCurrent, JobsFollowWork
    <2>2. merged.aux = AuxTip
      BY DEF PipelineInv, CaughtUp, MergedIsCurrent
    <2> QED
      BY <2>1, <2>2 DEF AuxTip
  <1> QED
    BY <1>1, PipelineInvariant, PTL

\* The last job of a session that has read everything published (on_work's, or authorize's)
\* is on both chains' present tips.
THEOREM NewestJobCurrent == Spec => []NewestJobIsCurrent
  <1>1. PipelineInv => NewestJobIsCurrent
    <2> SUFFICES ASSUME PipelineInv, NEW s \in Sessions, CaughtUp(s)
                 PROVE  \E j \in Live(s) : /\ \A k \in jobs[s] : k.id <= j.id
                                           /\ j.prev = parent.prev /\ j.aux = AuxTip
                                           /\ ~j.auxStale
      BY DEF NewestJobIsCurrent
    <2>1. merged # NoWork /\ merged.prev = parent.prev /\ merged.aux = AuxTip
      BY DEF PipelineInv, CaughtUp, MergedIsCurrent
    <2>2. work[s] = merged /\ conn[s] = "authorized"
      BY DEF PipelineInv, CaughtUp, WorkIsCurrent
    <2>3. PICK j \in jobs[s] : /\ j.id + 1 = nextJob[s]
                               /\ j.prev = work[s].prev /\ j.aux = work[s].aux
                               /\ ~j.stale /\ ~j.auxStale
      BY <2>1, <2>2 DEF PipelineInv, LastJobIsWork
    <2>4. \A k \in jobs[s] : k.id <= j.id
      <3>1. \A k \in jobs[s] : k.id \in Nat /\ k.id < nextJob[s]
        BY DEF PipelineInv, TypeOK, SessionJob
      <3> QED
        BY <2>3, <3>1
    <2> QED
      BY <2>1, <2>2, <2>3, <2>4 DEF Live
  <1> QED
    BY <1>1, PipelineInvariant, PTL

\* Miners are told to drop their jobs at most once per parent template, by merge's
\* comparison with last_parent, and never for an aux template.
THEOREM CleanAtMostOnce == Spec => CleanOncePerTemplate
  <1> DEFINE A == merged' # merged /\ merged'.clean =>
                    parent.clean /\ (merged # NoWork => merged'.parent > merged.parent)
  <1>1. PipelineInv /\ [Next]_vars => [A]_vars
    <2> SUFFICES ASSUME PipelineInv, Next, merged' # merged, merged'.clean
                 PROVE  parent.clean /\ (merged # NoWork => merged'.parent > merged.parent)
      OBVIOUS
    <2>1. MergePublishes
      <3>1. ASSUME NEW s \in Sessions, SessionNext(s) PROVE FALSE
        BY <3>1 DEF SessionNext, Connect, Authorize, OnWork, Serve, Applied, Disconnect, mergeVars
      <3>2. CASE PublishParent \/ WithdrawParent \/ PublishAux \/ WithdrawAux \/ MergeWaits
        BY <3>2 DEF PublishParent, WithdrawParent, PublishAux, WithdrawAux, MergeWaits, mergeVars
      <3> QED
        BY <3>1, <3>2 DEF Next
    <2>2. lastParent # parentId /\ parent.clean /\ merged'.parent = parentId
      BY <2>1 DEF MergePublishes, MergedClean
    <2>3. lastParent \in Nat /\ parentId \in Nat /\ lastParent <= parentId
          /\ (merged # NoWork => merged.parent = lastParent)
      BY DEF PipelineInv, TypeOK, MergedIsCurrent
    <2> QED
      BY <2>2, <2>3
  <1> QED
    BY <1>1, PipelineInvariant, PTL DEF Spec, CleanOncePerTemplate

-----------------------------------------------------------------------------
(* Tips that were announced.  What merge or a session holds is on the tip  *)
(* last announced, or something clean is still to reach it, or a clean     *)
(* value was overwritten before it did.                                    *)

\* Merge has yet to make a clean work of the tip announced, or will never know.
Owed ==
  \/ Merge \in hidden
  \/ parentNew /\ parent # NoWork /\ parent.clean /\ lastParent # parentId

ChannelsOnTip ==
  /\ parent # NoWork => pAnnounced <= parent.prev
  /\ Merge \in hidden /\ parent # NoWork => parentNew
  /\ merged # NoWork => pAnnounced <= merged.prev \/ Owed

\* The work s has, and the jobs it takes shares on, are on the tip announced.
HasTip(s) ==
  /\ work[s] # NoWork => pAnnounced <= work[s].prev
  /\ \A j \in Live(s) : pAnnounced <= j.prev

OnTip(s) ==
  /\ HasTip(s) \/ Owed \/ s \in hidden \/ (s \in unread /\ merged.clean)
  /\ conn[s] = "closed" => work[s] = NoWork /\ jobs[s] = {}

AnnouncedInv == ChannelsOnTip /\ \A s \in Sessions : OnTip(s)

\* Tips are numbers, and merge is no session.
LEMMA TipTypes ==
  ASSUME TypeOK
  PROVE  /\ pAnnounced \in Nat /\ Merge \notin Sessions
         /\ parent # NoWork => parent.prev \in Nat /\ parent.clean \in BOOLEAN
         /\ merged # NoWork => merged.prev \in Nat /\ merged.clean \in BOOLEAN
         /\ \A s \in Sessions : /\ work[s] # NoWork => work[s].prev \in Nat
                                /\ \A j \in jobs[s] : j \in SessionJob /\ j.prev \in Nat
  BY PipelineAssumption
     DEF TypeOK, Parent!Templates, Parent!Tips, MergedWork, SessionJob, Tips, Merge

LEMMA InitAnnounced == Init => AnnouncedInv
  BY DEF Init, Parent!FeedInit, AnnouncedInv, ChannelsOnTip, OnTip, HasTip, Live

\* A step that leaves the channels alone keeps a session's part if it keeps the session's
\* fields, or gives it work and live jobs on the tip announced.
LEMMA SameSession ==
  ASSUME NEW s \in Sessions, OnTip(s), Owed => Owed', pAnnounced' = pAnnounced,
         merged' = merged, conn'[s] = conn[s], work'[s] = work[s], jobs'[s] = jobs[s],
         s \in hidden => s \in hidden', s \in unread => s \in unread'
  PROVE  OnTip(s)'
  BY DEF OnTip, HasTip, Live

\* A parent template published (template.rs): the tip it announces is owed to the readers.
LEMMA PublishAnnounced ==
  ASSUME PipelineInv, AnnouncedInv, PublishParent PROVE AnnouncedInv'
  <1>1. PICK prev \in Tips : Parent!PublishClean(prev) \/ Parent!PublishSameJob(prev)
    BY DEF PublishParent
  <1>2. /\ parentId' = parentId + 1 /\ parentNew' = TRUE
        /\ hidden' = (IF parent'.clean THEN hidden \ {Merge}
                      ELSE IF parentNew /\ parent # NoWork /\ parent.clean THEN hidden \cup {Merge}
                      ELSE hidden)
        /\ UNCHANGED <<lastParent, merged, unread, conn, work, jobs>>
    BY DEF PublishParent, mergeVars, sessionVars
  <1>3. TypeOK /\ lastParent <= parentId /\ lastParent \in Nat /\ parentId \in Nat /\ prev \in Nat
    BY DEF PipelineInv, MergedIsCurrent, TypeOK, Tips
  <1>4. parent' # NoWork
    <2>1. parent' \in Parent!Templates
      <3>1. Parent!FeedTypes
        BY DEF PipelineInv, TypeOK, Parent!FeedTypes
      <3> QED
        BY <1>1, <3>1, ParentPublished, PipelineAssumption DEF Tips, Parent!Tips
    <2> QED
      BY <2>1, EmptyValue
  <1>5. CASE Parent!PublishClean(prev)
    <2>1. parent'.prev = prev /\ parent'.clean /\ pAnnounced' <= prev
      BY <1>3, <1>5, TipTypes DEF Parent!PublishClean
    <2>2. Owed' /\ Merge \notin hidden'
      BY <1>2, <1>3, <1>4, <2>1 DEF Owed
    <2> QED
      BY <1>2, <2>1, <2>2 DEF AnnouncedInv, ChannelsOnTip, OnTip
  <1>6. CASE Parent!PublishSameJob(prev)
    <2>1. parent'.prev = prev /\ ~parent'.clean /\ pAnnounced' = pAnnounced /\ pAnnounced <= prev
      BY <1>3, <1>6, TipTypes DEF Parent!PublishSameJob, Parent!InDebt
    <2>2. Owed => Owed'
      BY <1>2, <2>1 DEF Owed
    <2>3. hidden \subseteq hidden'
      BY <1>2, <2>1
    <2> QED
      BY <1>2, <2>1, <2>2, <2>3, SameSession DEF AnnouncedInv, ChannelsOnTip
  <1> QED
    BY <1>1, <1>5, <1>6

\* A step that changes neither the sessions nor what merge made keeps the invariant, if
\* it does not forget what is owed.
LEMMA QuietAnnounced ==
  ASSUME AnnouncedInv, WithdrawParent \/ PublishAux \/ WithdrawAux \/ MergeWaits \/ UNCHANGED vars
  PROVE  AnnouncedInv'
  <1>1. /\ UNCHANGED <<pAnnounced, merged, unread, conn, work, jobs>> /\ hidden \subseteq hidden'
        /\ Owed => Owed'
    <2>1. CASE WithdrawParent
      BY <2>1 DEF WithdrawParent, Parent!Withdraw, mergeVars, sessionVars, Owed
    <2>2. CASE PublishAux \/ WithdrawAux \/ UNCHANGED vars
      BY <2>2 DEF PublishAux, WithdrawAux, vars, parentVars, mergeVars, sessionVars, Owed
    <2>3. CASE MergeWaits
      BY <2>3 DEF MergeWaits, sessionVars, Owed
    <2> QED
      BY <2>1, <2>2, <2>3
  <1>2. ChannelsOnTip'
    <2>1. parent' = NoWork \/ (parent' = parent /\ parentNew' = parentNew /\ hidden' = hidden)
      BY DEF WithdrawParent, Parent!Withdraw, PublishAux, WithdrawAux, MergeWaits, vars, parentVars
    <2> QED
      BY <1>1, <2>1 DEF AnnouncedInv, ChannelsOnTip
  <1> QED
    BY <1>1, <1>2, SameSession DEF AnnouncedInv

\* merge (merged.rs) pays what is owed, or it is hidden from every session from then on.
LEMMA MergeAnnounced ==
  ASSUME PipelineInv, AnnouncedInv, MergePublishes PROVE AnnouncedInv'
  <1>1. /\ parent # NoWork /\ parent' = parent /\ parentId' = parentId
        /\ merged' = [parent |-> parentId, prev |-> parent.prev, aux |-> AuxTip,
                      clean |-> MergedClean]
        /\ unread' = {s \in Sessions : conn[s] # "closed"}
        /\ hidden' = (IF merged'.clean THEN {}
                      ELSE IF Merge \in hidden THEN Sessions
                      ELSE IF merged # NoWork /\ merged.clean THEN hidden \cup unread
                      ELSE hidden)
        /\ UNCHANGED <<pAnnounced, conn, work, jobs>>
    BY DEF MergePublishes, sessionVars
  <1>2. TypeOK /\ merged'.prev = parent.prev /\ (merged'.clean <=> MergedClean)
    BY <1>1 DEF PipelineInv
  <1>3. pAnnounced <= parent.prev
    BY <1>1 DEF AnnouncedInv, ChannelsOnTip
  <1>4. Merge \notin hidden'
    <2>1. Merge \notin Sessions /\ unread \subseteq Sessions
      BY <1>2, TipTypes DEF TypeOK
    <2> QED
      BY <1>1, <2>1
  <1>5. ChannelsOnTip'
    BY <1>1, <1>2, <1>3, <1>4 DEF ChannelsOnTip
  <1>6. ASSUME NEW s \in Sessions PROVE OnTip(s)'
    <2>1. CASE conn[s] = "closed"
      <3>1. work'[s] = NoWork /\ Live(s)' = {}
        BY <1>1, <2>1 DEF AnnouncedInv, OnTip, Live
      <3> QED
        BY <1>1, <2>1, <3>1 DEF AnnouncedInv, OnTip, HasTip
    <2>2. CASE conn[s] # "closed" /\ MergedClean
      BY <1>1, <1>2, <2>2 DEF OnTip
    <2>3. CASE conn[s] # "closed" /\ ~MergedClean
      <3>1. Owed => Merge \in hidden
        BY <2>3 DEF Owed, MergedClean
      <3>2. s \in unread => merged # NoWork
        BY DEF PipelineInv, WorkIsCurrent
      <3>3. HasTip(s) => HasTip(s)'
        BY <1>1 DEF HasTip, Live
      <3>4. OnTip(s)
        BY DEF AnnouncedInv
      <3> QED
        BY <1>1, <1>2, <2>3, <3>1, <3>2, <3>3, <3>4 DEF OnTip
    <2> QED
      BY <2>1, <2>2, <2>3
  <1> QED
    BY <1>5, <1>6 DEF AnnouncedInv

\* A session's step: the channels keep their part, and so do the other sessions.
LEMMA SessionAnnounced ==
  ASSUME AnnouncedInv, TypeOK, NEW s \in Sessions, SessionNext(s), OnTip(s)'
  PROVE  AnnouncedInv'
  <1>1. ChannelsIdle
    BY DEF SessionNext, Connect, Authorize, OnWork, Serve, Applied, Disconnect, ChannelsIdle
  <1>2. hidden \ {s} \subseteq hidden' /\ hidden' \subseteq hidden /\ unread \ {s} \subseteq unread'
    BY DEF SessionNext, Connect, Authorize, OnWork, Serve, Applied, Disconnect
  <1>3. Merge \in hidden' <=> Merge \in hidden
    BY <1>2, TipTypes
  <1>4. Owed' <=> Owed
    BY <1>1, <1>3 DEF Owed, ChannelsIdle, parentVars, mergeVars
  <1>5. ChannelsOnTip'
    BY <1>1, <1>3, <1>4 DEF AnnouncedInv, ChannelsOnTip, ChannelsIdle, parentVars, mergeVars
  <1>6. ASSUME NEW t \in Sessions \ {s} PROVE OnTip(t)'
    <2>1. conn'[t] = conn[t] /\ work'[t] = work[t] /\ jobs'[t] = jobs[t]
      BY DEF SessionNext, Connect, Authorize, OnWork, Serve, Applied, Disconnect, TypeOK
    <2> QED
      BY <1>1, <1>2, <1>4, <2>1, SameSession
         DEF AnnouncedInv, ChannelsIdle, parentVars, mergeVars
  <1> QED
    BY <1>5, <1>6 DEF AnnouncedInv

\* The session itself: it takes the merged work as it is, and its clean flag to heart.
LEMMA OwnStepAnnounced ==
  ASSUME PipelineInv, AnnouncedInv, NEW s \in Sessions, SessionNext(s) PROVE OnTip(s)'
  <1>1. TypeOK /\ OnTip(s) /\ ChannelsOnTip /\ WorkIsCurrent(s)
    BY DEF PipelineInv, AnnouncedInv
  <1>2. /\ UNCHANGED <<pAnnounced, merged>>
        /\ Owed => Owed'
    <2>1. ChannelsIdle
      BY DEF SessionNext, Connect, Authorize, OnWork, Serve, Applied, Disconnect, ChannelsIdle
    <2>2. hidden \ {s} \subseteq hidden'
      BY DEF SessionNext, Connect, Authorize, OnWork, Serve, Applied, Disconnect
    <2> QED
      BY <1>1, <2>1, <2>2, TipTypes DEF ChannelsIdle, parentVars, mergeVars, Owed
  <1>3. CASE Connect(s)
    <2>1. conn'[s] = "open" /\ work'[s] = merged /\ jobs'[s] = {}
      BY <1>1, <1>3 DEF Connect, TypeOK, OnTip
    <2> QED
      BY <1>1, <1>2, <2>1 DEF ChannelsOnTip, OnTip, HasTip, Live
  <1>4. CASE Disconnect(s)
    BY <1>1, <1>4 DEF Disconnect, TypeOK, OnTip, HasTip, Live
  <1>5. CASE Serve(s) \/ Applied(s)
    <2>1. UNCHANGED <<unread, conn, work, jobs, hidden>>
      BY <1>5 DEF Serve, Applied
    <2> QED
      BY <1>1, <1>2, <2>1, SameSession
  <1>6. CASE Authorize(s)
    <2>1. conn'[s] = "authorized" /\ UNCHANGED <<unread, work, hidden>> /\ conn[s] = "open"
      BY <1>1, <1>6 DEF Authorize, TypeOK
    <2>2. HasTip(s) => HasTip(s)'
      <3>1. CASE work[s] = NoWork
        BY <1>2, <1>6, <2>1, <3>1 DEF Authorize, HasTip, Live
      <3>2. CASE work[s] # NoWork
        <4>1. jobs'[s] \subseteq {NewJob(s, work[s])} /\ NewJob(s, work[s]).prev = work[s].prev
          BY <1>1, <1>6, <3>2 DEF Authorize, TypeOK, WithJob, NewJob
        <4> QED
          BY <1>2, <2>1, <3>2, <4>1 DEF HasTip, Live
      <3> QED
        BY <3>1, <3>2
    <2> QED
      BY <1>1, <1>2, <2>1, <2>2 DEF OnTip
  <1>7. CASE OnWork(s)
    <2>1. /\ merged # NoWork /\ conn[s] # "closed" /\ merged \in MergedWork
          /\ work'[s] = merged /\ conn' = conn
          /\ hidden' = (IF merged.clean THEN hidden \ {s} ELSE hidden)
      BY <1>1, <1>7 DEF OnWork, WorkIsCurrent, TypeOK
    <2>2. CASE Owed \/ (~merged.clean /\ s \in hidden)
      BY <1>2, <2>1, <2>2 DEF OnTip
    <2>3. CASE ~Owed /\ (merged.clean \/ s \notin hidden)
      <3>1. pAnnounced <= merged.prev
        BY <1>1, <2>1, <2>3 DEF ChannelsOnTip
      <3>2. merged.clean \/ HasTip(s)
        BY <1>1, <2>3 DEF OnTip
      <3>3. \A j \in Live(s)' : pAnnounced <= j.prev
        <4>1. CASE conn[s] # "authorized"
          <5>1. jobs[s] = {}
            BY <1>1, <4>1 DEF PipelineInv, JobsFollowWork
          <5> QED
            BY <1>7, <4>1, <5>1 DEF OnWork, Live
        <4>2. CASE conn[s] = "authorized"
          <5>1. jobs'[s] = WithJob(s, {Superseded(j, merged) : j \in jobs[s]}, merged)
            BY <1>1, <1>7, <4>2 DEF OnWork, TypeOK
          <5>2. \A k \in jobs'[s] : \/ k = NewJob(s, merged)
                                    \/ \E j \in jobs[s] : k = Superseded(j, merged)
            BY <5>1 DEF WithJob
          <5>3. NewJob(s, merged).prev = merged.prev
            BY DEF NewJob
          <5>4. \A j \in jobs[s] : /\ Superseded(j, merged).prev = j.prev
                                   /\ Superseded(j, merged).stale <=> j.stale \/ merged.clean
            BY <1>1, <2>1, TipTypes DEF Superseded, SessionJob, MergedWork
          <5> QED
            BY <3>1, <3>2, <5>2, <5>3, <5>4 DEF Live, HasTip
        <4> QED
          BY <4>1, <4>2
      <3> QED
        BY <1>2, <2>1, <3>1, <3>3 DEF OnTip, HasTip
    <2> QED
      BY <2>2, <2>3
  <1> QED
    BY <1>3, <1>4, <1>5, <1>6, <1>7 DEF SessionNext

LEMMA NextAnnounced == PipelineInv /\ AnnouncedInv /\ [Next]_vars => AnnouncedInv'
  <1> SUFFICES ASSUME PipelineInv, AnnouncedInv, [Next]_vars PROVE AnnouncedInv'
    OBVIOUS
  <1>1. CASE PublishParent \/ MergePublishes
    BY <1>1, PublishAnnounced, MergeAnnounced
  <1>2. CASE WithdrawParent \/ PublishAux \/ WithdrawAux \/ MergeWaits \/ UNCHANGED vars
    BY <1>2, QuietAnnounced
  <1>3. ASSUME NEW s \in Sessions, SessionNext(s) PROVE AnnouncedInv'
    BY <1>3, OwnStepAnnounced, SessionAnnounced DEF PipelineInv
  <1> QED
    BY <1>1, <1>2, <1>3 DEF Next

\* A session that has read everything published takes no share on a job older than the tip
\* last announced (on_work marks the rest stale), unless a clean value was overwritten by
\* one that is not before it, or merge, read it.
THEOREM OldJobsStale == Spec => []OldTipJobsStale
  <1>1. AnnouncedInv => OldTipJobsStale
    <2> SUFFICES ASSUME AnnouncedInv, NEW s \in Sessions, CaughtUp(s), s \notin hidden
                 PROVE  \A j \in Live(s) : j.prev >= pAnnounced
      BY DEF OldTipJobsStale
    <2>1. ~Owed /\ s \notin unread
      BY DEF AnnouncedInv, ChannelsOnTip, CaughtUp, Owed
    <2>2. HasTip(s)
      BY <2>1 DEF AnnouncedInv, OnTip
    <2> QED
      BY <2>2 DEF HasTip
  <1> QED
    BY <1>1, PipelineInvariant, InitAnnounced, NextAnnounced, PTL DEF Spec
=============================================================================
