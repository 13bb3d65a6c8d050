---------------------------- MODULE WorkPipeline ----------------------------
(***************************************************************************)
(* How work reaches the miners: a parent chain's template channel and an   *)
(* aux chain's, the merge task that combines them                          *)
(* (crates/alamo-coins/src/merged.rs), and the stratum sessions that turn  *)
(* merged work into jobs (crates/alamo-stratum/src/session.rs, server.rs). *)
(* The channels are watch channels: they hold one value, and a reader that *)
(* is late sees only the last of those published meanwhile.  A session is  *)
(* late whenever it is writing to its miner or handing on a block.         *)
(*                                                                         *)
(* Each template channel is a TemplateFeed, which TemplateSource           *)
(* implements.                                                             *)
(***************************************************************************)
EXTENDS Naturals, FiniteSets

CONSTANTS
  Sessions,
  NoWork,        \* the empty value of a channel
  MAX_JOBS,      \* jobs a session keeps for late submissions
  MaxTip,        \* bound: tips of each chain
  MaxTemplates,  \* bound: parent templates published
  MaxJobId       \* bound: jobs of one session

ASSUME PipelineAssumption ==
  /\ MaxTip \in Nat \ {0}
  /\ MAX_JOBS \in Nat \ {0}
  /\ NoWork \notin [prev : 1 .. MaxTip, clean : BOOLEAN]
  /\ NoWork \notin [parent : Nat, prev : 1 .. MaxTip, aux : 0 .. MaxTip, clean : BOOLEAN]
  /\ "merge" \notin Sessions

VARIABLES
  parent, pPrev, pAnnounced,  \* the parent's template channel (a TemplateFeed)
  parentId, parentNew,        \* id of its last template; not yet read by merge
  aux, aPrev, aAnnounced,     \* the aux chain's template channel (a TemplateFeed)
  auxNew,                     \* not yet read by merge
  parentOnly,                 \* merge waits for a parent template
  lastParent,                 \* merge's last_parent, 0 for None
  merged,                     \* the merged channel's latest value
  unread,                     \* sessions that have not read it
  conn,                       \* "closed", "open" or "authorized"
  busy,                       \* sessions writing to their miner or handing on a block
  work, jobs, nextJob,        \* Session's fields
  hidden                      \* history: readers for which a clean value was overwritten
                              \* by one that is not before they read it

parentVars  == <<parent, pPrev, pAnnounced, parentId, parentNew>>
auxVars     == <<aux, aPrev, aAnnounced, auxNew>>
mergeVars   == <<parentOnly, lastParent, merged>>
sessionVars == <<conn, busy, work, jobs, nextJob>>
vars == <<parentVars, auxVars, mergeVars, unread, sessionVars, hidden>>

Parent == INSTANCE TemplateFeed WITH out <- parent, lastPrev <- pPrev, announced <- pAnnounced
Aux    == INSTANCE TemplateFeed WITH out <- aux, lastPrev <- aPrev, announced <- aAnnounced

Tips == 1 .. MaxTip
NoAux == 0
Merge == "merge"           \* merge as a reader of the parent channel

MergedWork == [parent : Nat, prev : Tips, aux : Tips \cup {NoAux}, clean : BOOLEAN]
SessionJob == [id : Nat, prev : Tips, aux : Tips \cup {NoAux}, stale : BOOLEAN, auxStale : BOOLEAN]

\* Channels, sessions and their jobs (template.rs, merged.rs, session.rs) keep their types, and a
\* session never holds more than MAX_JOBS jobs.
TypeOK ==
  /\ parent \in Parent!Templates \cup {NoWork} /\ pPrev \in 0 .. MaxTip /\ pAnnounced \in 0 .. MaxTip
  /\ aux \in Aux!Templates \cup {NoWork} /\ aPrev \in 0 .. MaxTip /\ aAnnounced \in 0 .. MaxTip
  /\ parentId \in Nat /\ parentNew \in BOOLEAN /\ auxNew \in BOOLEAN
  /\ parentOnly \in BOOLEAN /\ lastParent \in Nat
  /\ merged \in MergedWork \cup {NoWork}
  /\ unread \subseteq Sessions /\ busy \subseteq Sessions
  /\ conn \in [Sessions -> {"closed", "open", "authorized"}]
  /\ work \in [Sessions -> MergedWork \cup {NoWork}]
  /\ jobs \in [Sessions -> SUBSET SessionJob]
  /\ nextJob \in [Sessions -> Nat \ {0}]
  /\ \A s \in Sessions : \A j \in jobs[s] : j.id < nextJob[s] /\ nextJob[s] <= j.id + MAX_JOBS
  /\ hidden \subseteq Sessions \cup {Merge}

Init ==
  /\ Parent!FeedInit /\ Aux!FeedInit
  /\ parentId = 0 /\ parentNew = FALSE /\ auxNew = FALSE
  /\ parentOnly = TRUE /\ lastParent = 0 /\ merged = NoWork
  /\ unread = {} /\ busy = {} /\ hidden = {}
  /\ conn = [s \in Sessions |-> "closed"]
  /\ work = [s \in Sessions |-> NoWork]
  /\ jobs = [s \in Sessions |-> {}]
  /\ nextJob = [s \in Sessions |-> 1]

-----------------------------------------------------------------------------
(* The template sources. *)

PublishParent ==
  /\ parentId < MaxTemplates
  /\ \E prev \in Tips : Parent!PublishClean(prev) \/ Parent!PublishSameJob(prev)
  /\ parentId' = parentId + 1
  /\ parentNew' = TRUE
  /\ hidden' = IF parent'.clean THEN hidden \ {Merge}
               ELSE IF parentNew /\ parent # NoWork /\ parent.clean THEN hidden \cup {Merge}
               ELSE hidden
  /\ UNCHANGED <<auxVars, mergeVars, unread, sessionVars>>

WithdrawParent ==
  /\ Parent!Withdraw
  /\ parentNew' = TRUE
  /\ hidden' = IF parentNew /\ parent.clean THEN hidden \cup {Merge} ELSE hidden
  /\ UNCHANGED <<parentId, auxVars, mergeVars, unread, sessionVars>>

PublishAux ==
  /\ \E prev \in Tips : Aux!PublishClean(prev) \/ Aux!PublishSameJob(prev)
  /\ auxNew' = TRUE
  /\ UNCHANGED <<parentVars, mergeVars, unread, sessionVars, hidden>>

WithdrawAux ==
  /\ Aux!Withdraw
  /\ auxNew' = TRUE
  /\ UNCHANGED <<parentVars, mergeVars, unread, sessionVars, hidden>>

-----------------------------------------------------------------------------
(* merge. *)

CleanWithoutLastParent == parent.clean
\* Only a parent template not merged before can make the merged work clean.
MergedClean == lastParent # parentId /\ parent.clean

\* What merge puts in MergedWork's aux list.
AuxTip == IF aux = NoWork THEN NoAux ELSE aux.prev

\* No parent template: wait for one, leaving the aux channel alone and the last merged
\* work in place.
MergeWaits ==
  /\ parentNew /\ parent = NoWork
  /\ parentNew' = FALSE
  /\ parentOnly' = TRUE
  /\ UNCHANGED <<parent, pPrev, pAnnounced, parentId, auxVars, lastParent, merged, unread,
                 sessionVars, hidden>>

MergeAwakeByParent == parentNew
MergeAwake == parentNew \/ (auxNew /\ ~parentOnly)

MergePublishes ==
  /\ MergeAwake /\ parent # NoWork
  /\ parentNew' = FALSE /\ auxNew' = FALSE /\ parentOnly' = FALSE
  /\ merged' = [parent |-> parentId, prev |-> parent.prev, aux |-> AuxTip, clean |-> MergedClean]
  /\ lastParent' = parentId
  /\ unread' = {s \in Sessions : conn[s] # "closed"}
  /\ hidden' = IF merged'.clean THEN {}
               ELSE IF Merge \in hidden THEN Sessions
               ELSE IF merged # NoWork /\ merged.clean THEN hidden \cup unread
               ELSE hidden
  /\ UNCHANGED <<parent, pPrev, pAnnounced, parentId, aux, aPrev, aAnnounced, sessionVars>>

-----------------------------------------------------------------------------
(* Sessions. *)

NewJobOfOldWork(s, w) ==
  LET v == IF work[s] = NoWork THEN w ELSE work[s]
  IN  [id |-> nextJob[s], prev |-> v.prev, aux |-> v.aux, stale |-> FALSE, auxStale |-> FALSE]
\* The fields of the job sent for work w.
NewJob(s, w) ==
  [id |-> nextJob[s], prev |-> w.prev, aux |-> w.aux, stale |-> FALSE, auxStale |-> FALSE]

WithJobOverfull(s, kept, w) == {j \in kept \cup {NewJob(s, w)} : j.id + MAX_JOBS >= nextJob[s]}
\* Push a job and drop the oldest beyond MAX_JOBS; ids are consecutive.
WithJob(s, kept, w) == {j \in kept \cup {NewJob(s, w)} : j.id + MAX_JOBS > nextJob[s]}

OnlyCleanStales(j, w) ==
  [j EXCEPT !.stale = @ \/ w.clean, !.auxStale = @ \/ w.clean]
NeverStale(j, w) == [j EXCEPT !.auxStale = @ \/ j.aux # w.aux]
\* on_work's effect on a job already sent.
Superseded(j, w) == [j EXCEPT !.stale = @ \/ w.clean, !.auxStale = @ \/ j.aux # w.aux]

\* A miner connects; the session takes the work already current.
Connect(s) ==
  /\ conn[s] = "closed"
  /\ conn' = [conn EXCEPT ![s] = "open"]
  /\ work' = [work EXCEPT ![s] = merged]
  /\ unread' = unread \ {s}
  /\ hidden' = hidden \ {s}
  /\ UNCHANGED <<parentVars, auxVars, mergeVars, busy, jobs, nextJob>>

\* The first authorize sends the current work as a job.
Authorize(s) ==
  /\ conn[s] = "open" /\ s \notin busy
  /\ conn' = [conn EXCEPT ![s] = "authorized"]
  /\ busy' = busy \cup {s}
  /\ IF work[s] = NoWork THEN UNCHANGED <<jobs, nextJob>>
     ELSE /\ jobs' = [jobs EXCEPT ![s] = WithJob(s, {}, work[s])]
          /\ nextJob' = [nextJob EXCEPT ![s] = @ + 1]
  /\ UNCHANGED <<parentVars, auxVars, mergeVars, unread, work, hidden>>

\* The session reads the merged channel: on_work.
OnWork(s) ==
  /\ s \in unread /\ s \notin busy
  /\ nextJob[s] <= MaxJobId
  /\ unread' = unread \ {s}
  /\ hidden' = IF merged.clean THEN hidden \ {s} ELSE hidden
  /\ work' = [work EXCEPT ![s] = merged]
  /\ busy' = busy \cup {s}
  /\ IF conn[s] = "authorized"
     THEN /\ jobs' = [jobs EXCEPT ![s] =
                        WithJob(s, {Superseded(j, merged) : j \in jobs[s]}, merged)]
          /\ nextJob' = [nextJob EXCEPT ![s] = @ + 1]
     ELSE UNCHANGED <<jobs, nextJob>>
  /\ UNCHANGED <<parentVars, auxVars, mergeVars, conn>>

\* A request or a tick keeps the session busy; then it is idle again.
Serve(s) ==
  /\ conn[s] # "closed" /\ s \notin busy
  /\ busy' = busy \cup {s}
  /\ UNCHANGED <<parentVars, auxVars, mergeVars, unread, conn, work, jobs, nextJob, hidden>>

Applied(s) ==
  /\ s \in busy
  /\ busy' = busy \ {s}
  /\ UNCHANGED <<parentVars, auxVars, mergeVars, unread, conn, work, jobs, nextJob, hidden>>

Disconnect(s) ==
  /\ conn[s] # "closed"
  /\ conn' = [conn EXCEPT ![s] = "closed"]
  /\ busy' = busy \ {s} /\ unread' = unread \ {s} /\ hidden' = hidden \ {s}
  /\ work' = [work EXCEPT ![s] = NoWork]
  /\ jobs' = [jobs EXCEPT ![s] = {}]
  /\ nextJob' = [nextJob EXCEPT ![s] = 1]
  /\ UNCHANGED <<parentVars, auxVars, mergeVars>>

SessionNext(s) ==
  Connect(s) \/ Authorize(s) \/ OnWork(s) \/ Serve(s) \/ Applied(s) \/ Disconnect(s)

Next ==
  \/ PublishParent \/ WithdrawParent \/ PublishAux \/ WithdrawAux
  \/ MergeWaits \/ MergePublishes
  \/ \E s \in Sessions : SessionNext(s)

Spec == Init /\ [][Next]_vars

\* select! picks among ready branches at random: work that stays unread is read although
\* the session keeps being busy with requests.  Nothing is assumed of Applied: a write ends
\* only when the miner reads.
Fairness ==
  /\ WF_vars(MergeWaits) /\ WF_vars(MergePublishes)
  /\ \A s \in Sessions : SF_vars(OnWork(s))
FairSpec == Spec /\ Fairness

-----------------------------------------------------------------------------
(* Properties. *)

\* Everything published has been read along the way to session s.
CaughtUp(s) ==
  /\ ~parentNew /\ parent # NoWork /\ ~auxNew
  /\ conn[s] = "authorized" /\ s \notin unread

Live(s) == {j \in jobs[s] : ~j.stale}

\* A session that has caught up offers no aux block on anything but the aux chain's present
\* tip, however many templates it never saw.
NoOutdatedAuxBlock ==
  \A s \in Sessions : CaughtUp(s) =>
    \A j \in jobs[s] : j.aux # NoAux /\ ~j.auxStale => aux # NoWork /\ j.aux = aux.prev

\* The newest job of a session that has caught up is on the present tips of both chains.
NewestJobIsCurrent ==
  \A s \in Sessions : CaughtUp(s) =>
    \E j \in Live(s) : /\ \A k \in jobs[s] : k.id <= j.id
                       /\ j.prev = parent.prev /\ j.aux = AuxTip /\ ~j.auxStale

\* A session that has caught up takes no share on a job older than the tip last announced,
\* unless a clean value was overwritten by another before it, or merge, read it.
OldTipJobsStale ==
  \A s \in Sessions : CaughtUp(s) /\ s \notin hidden =>
    \A j \in Live(s) : j.prev >= pAnnounced

\* Aux templates and refreshes never make miners drop their jobs: at most one merged work
\* is clean per parent template, and only for a clean template.
CleanOncePerTemplate ==
  [][merged' # merged /\ merged'.clean =>
       /\ parent.clean
       /\ merged # NoWork => merged'.parent > merged.parent]_vars

StaysConnected(s) ==
  <>[](parent # NoWork /\ conn[s] = "authorized" /\ nextJob[s] <= MaxJobId)

\* When publishing stops, a session that stays connected and is not for ever in one write
\* ends with the present work.
EventuallyCurrent ==
  \A s \in Sessions :
    StaysConnected(s) /\ []<>(s \notin busy)
      => <>[](parent # NoWork /\ \E j \in Live(s) : j.prev = parent.prev /\ j.aux = AuxTip)
=============================================================================
