------------------------- MODULE Supervision_proofs -------------------------
(***************************************************************************)
(* Proofs about Supervision and Dashboard, for any number of nodes and any *)
(* bounds: what a pool that has returned leaves behind, which status the   *)
(* process exits with, and what a page that watches it shows meanwhile.    *)
(* That the process does exit, and that the page learns of it, is left to  *)
(* TLC.                                                                    *)
(***************************************************************************)
EXTENDS Supervision, Dashboard, TLAPS, SequenceTheorems

-----------------------------------------------------------------------------
(* The inductive invariant. *)

\* Tasks are spawned when pool::run begins to supervise them, and none is left when it returns.
TasksOfPool ==
  /\ pool = "connecting" => \A t \in Tasks : task[t] = "unspawned"
  /\ NoTaskOutlivesPool

\* A publisher that returned, or never ran, holds no share.
PublisherWrote == task["publisher"] \in {"unspawned", "finished"} => pending = 0

\* main cancels its token as it leaves its select!; pool::run its own as it starts to join,
\* and it returns success only when it was told to stop.
TokensAgree ==
  /\ token <=> main # "selecting"
  /\ poolToken => pool \in {"joining", "returned"}
  /\ result = "ok" => token

\* main learns of a success only from a signal.
OutcomeAgrees ==
  /\ main = "selecting" => outcome = "none"
  /\ outcome = "ok" => signalled

SupervisionInv ==
  /\ TypeOK /\ TasksOfPool /\ PublisherWrote
  /\ TokensAgree /\ OutcomeAgrees

-----------------------------------------------------------------------------
(* The tasks. *)

TaskStates == Alive \union {"unspawned", "finished", "panicked", "aborted"}

LEMMA InitSupervision == Init => SupervisionInv
  <1> SUFFICES ASSUME Init PROVE SupervisionInv
    OBVIOUS
  <1>1. TypeOK
    <2>1. /\ Nodes \in 0..Nodes /\ 0 \in 0..MaxPending /\ 0 \in 0..MaxConns
          /\ 0 \in 0..MaxPanics /\ 0 \in 0..MaxWebFails
      BY SupervisionAssumption
    <2>2. task \in [Tasks -> TaskStates]
      BY DEF Init, TaskStates
    <2> QED
      BY <2>1, <2>2 DEF Init, TypeOK, TaskStates
  <1>2. TasksOfPool /\ PublisherWrote
    BY DEF Init, TasksOfPool, NoTaskOutlivesPool, PublisherWrote, Tasks
  <1>3. TokensAgree /\ OutcomeAgrees
    BY DEF Init, TokensAgree, OutcomeAgrees
  <1> QED
    BY <1>1, <1>2, <1>3 DEF SupervisionInv

\* Connecting to the nodes, and the tasks that are spawned when all are reached.
LEMMA ConnectKeeps ==
  ASSUME SupervisionInv, ReachNode \/ StartFails \/ StartCancelled \/ Spawn
  PROVE  SupervisionInv'
  <1>1. pool = "connecting" /\ (\A t \in Tasks : task[t] = "unspawned") /\ ~poolToken
    BY DEF SupervisionInv, TasksOfPool, TokensAgree, ReachNode, StartFails, StartCancelled, Spawn
  <1>2. UNCHANGED <<main, outcome, signalled, token, web, poolToken, conns, pending, panics, webFails>>
    BY DEF ReachNode, StartFails, StartCancelled, Spawn, mainVars
  <1>3. CASE ReachNode
    <2>1. nodes' \in 0..Nodes
      BY <1>3, SupervisionAssumption DEF SupervisionInv, TypeOK, ReachNode
    <2>2. TypeOK'
      BY <1>2, <1>3, <2>1 DEF SupervisionInv, TypeOK, ReachNode
    <2> QED
      BY <1>2, <1>3, <2>2 DEF ReachNode, SupervisionInv, TasksOfPool, NoTaskOutlivesPool,
         PublisherWrote, TokensAgree, OutcomeAgrees
  <1>4. CASE StartFails
    <2>1. TypeOK'
      BY <1>2, <1>4 DEF SupervisionInv, TypeOK, StartFails
    <2>2. NoTaskOutlivesPool'
      BY <1>1, <1>4 DEF StartFails, NoTaskOutlivesPool, Alive
    <2> QED
      BY <1>1, <1>2, <1>4, <2>1, <2>2 DEF StartFails, SupervisionInv, TasksOfPool,
         PublisherWrote, TokensAgree, OutcomeAgrees
  <1>5. CASE StartCancelled
    <2>1. TypeOK'
      BY <1>2, <1>5 DEF SupervisionInv, TypeOK, StartCancelled
    <2>2. NoTaskOutlivesPool'
      BY <1>1, <1>5 DEF StartCancelled, NoTaskOutlivesPool, Alive
    <2> QED
      BY <1>1, <1>2, <1>5, <2>1, <2>2 DEF StartCancelled, Cancelled, SupervisionInv, TasksOfPool,
         PublisherWrote, TokensAgree, OutcomeAgrees
  <1>6. CASE Spawn
    <2>1. /\ task' = [t \in Tasks |-> "running"] /\ pool' = "supervising"
          /\ UNCHANGED <<result, nodes>>
      BY <1>6 DEF Spawn
    <2>2. TypeOK'
      BY <1>2, <2>1 DEF SupervisionInv, TypeOK, Alive
    <2>3. PublisherWrote'
      BY <2>1 DEF PublisherWrote, Tasks
    <2> QED
      BY <1>1, <1>2, <2>1, <2>2, <2>3 DEF SupervisionInv, TasksOfPool, NoTaskOutlivesPool,
         TokensAgree, OutcomeAgrees
  <1> QED
    BY <1>3, <1>4, <1>5, <1>6

\* Miners come and go, shares are counted and written.
LEMMA ServeKeeps ==
  ASSUME SupervisionInv, Accept \/ ConnEnds \/ Earn \/ Flush
  PROVE  SupervisionInv'
  <1>1. UNCHANGED <<mainVars, web, poolVars, task, panics, webFails>>
    BY DEF Accept, ConnEnds, Earn, Flush
  <1>2. conns' \in 0..MaxConns /\ pending' \in 0..MaxPending
    BY SupervisionAssumption DEF SupervisionInv, TypeOK, Accept, ConnEnds, Earn, Flush
  <1>3. TypeOK'
    BY <1>1, <1>2 DEF SupervisionInv, TypeOK, mainVars, poolVars
  <1>4. PublisherWrote'
    BY <1>1 DEF SupervisionInv, PublisherWrote, Accept, ConnEnds, Earn, Flush
  <1> QED
    BY <1>1, <1>3, <1>4 DEF SupervisionInv, TasksOfPool, NoTaskOutlivesPool, TokensAgree,
       OutcomeAgrees, mainVars, poolVars

\* A task goes from one state to another, none of them from a state without a process.
LEMMA TaskKeeps ==
  ASSUME SupervisionInv, NEW t \in Tasks, task[t] \in Alive,
         NEW state \in TaskStates \ {"unspawned"}, task' = [task EXCEPT ![t] = state],
         pending' \in 0..MaxPending, panics' \in 0..MaxPanics,
         state = "finished" /\ t = "publisher" => pending' = 0,
         t # "publisher" \/ state # "finished" => pending' = pending,
         UNCHANGED <<mainVars, web, poolVars, conns, webFails>>
  PROVE  SupervisionInv'
  <1>1. task \in [Tasks -> TaskStates]
    BY DEF SupervisionInv, TypeOK, TaskStates
  <1>2. /\ task' \in [Tasks -> TaskStates] /\ task'[t] = state
        /\ \A u \in Tasks \ {t} : task'[u] = task[u]
    BY <1>1
  <1>3. pool \notin {"connecting", "returned"}
    BY DEF SupervisionInv, TasksOfPool, NoTaskOutlivesPool, Alive
  <1>4. TypeOK'
    BY <1>2 DEF SupervisionInv, TypeOK, mainVars, poolVars, TaskStates
  <1>5. PublisherWrote'
    BY <1>2 DEF SupervisionInv, PublisherWrote, Tasks
  <1> QED
    BY <1>3, <1>4, <1>5 DEF SupervisionInv, TasksOfPool, NoTaskOutlivesPool, TokensAgree,
       OutcomeAgrees, mainVars, poolVars

\* Calls begin and end, tasks return and panic.
LEMMA TasksKeep ==
  ASSUME SupervisionInv, Call \/ CallEnds \/ \E t \in Tasks : TaskReturns(t) \/ TaskPanics(t)
  PROVE  SupervisionInv'
  <1>1. pending \in 0..MaxPending /\ panics \in 0..MaxPanics /\ 0 \in 0..MaxPending
    BY SupervisionAssumption DEF SupervisionInv, TypeOK
  <1>2. "submitter" \in Tasks
    BY DEF Tasks
  <1>3. ASSUME Call PROVE SupervisionInv'
    <2>1. "calling" \in TaskStates \ {"unspawned"} /\ task["submitter"] \in Alive
      BY <1>3 DEF Call, TaskStates, Alive
    <2> QED
      BY <1>1, <1>2, <1>3, <2>1, TaskKeeps DEF Call
  <1>4. ASSUME CallEnds PROVE SupervisionInv'
    <2>1. "running" \in TaskStates \ {"unspawned"} /\ task["submitter"] \in Alive
      BY <1>4 DEF CallEnds, TaskStates, Alive
    <2> QED
      BY <1>1, <1>2, <1>4, <2>1, TaskKeeps DEF CallEnds
  <1>5. ASSUME NEW t \in Tasks, TaskReturns(t) PROVE SupervisionInv'
    <2>1. "finished" \in TaskStates \ {"unspawned"} /\ task[t] \in Alive
      BY <1>5 DEF TaskReturns, TaskStates, Alive
    <2>2. /\ task' = [task EXCEPT ![t] = "finished"]
          /\ pending' = IF t = "publisher" THEN 0 ELSE pending
          /\ UNCHANGED <<mainVars, web, poolVars, conns, panics, webFails>>
      BY <1>5 DEF TaskReturns, PendingAtStop
    <2> QED
      BY <1>1, <2>1, <2>2, TaskKeeps
  <1>6. ASSUME NEW t \in Tasks, TaskPanics(t) PROVE SupervisionInv'
    <2>1. "panicked" \in TaskStates \ {"unspawned"} /\ task[t] \in Alive
      BY <1>6 DEF TaskPanics, TaskStates, Alive
    <2>2. panics' \in 0..MaxPanics
      BY <1>1, <1>6, SupervisionAssumption DEF TaskPanics
    <2> QED
      BY <1>1, <1>6, <2>1, <2>2, TaskKeeps DEF TaskPanics
  <1> QED
    BY <1>3, <1>4, <1>5, <1>6

\* pool::run notices a cancelled token, or a task that is gone.
LEMMA PoolKeeps ==
  ASSUME SupervisionInv, SeesToken \/ SeesReturned \/ SeesPanic \/ Joined
  PROVE  SupervisionInv'
  <1>1. pool \in {"supervising", "joining"} /\ (pool = "supervising" => ~poolToken)
    BY DEF SupervisionInv, TokensAgree, SeesToken, SeesReturned, SeesPanic, Joined
  <1>2. UNCHANGED <<mainVars, web, nodes, conns, pending, panics, webFails>>
    BY DEF SeesToken, SeesReturned, SeesPanic, Joined
  <1>3. ASSUME SeesToken PROVE SupervisionInv'
    <2>1. token /\ pool' = "joining" /\ result' = "ok" /\ poolToken' = TRUE /\ task' = task
      BY <1>1, <1>3 DEF SeesToken, Cancelled
    <2>2. TypeOK'
      BY <1>2, <2>1 DEF SupervisionInv, TypeOK, mainVars
    <2> QED
      BY <1>2, <2>1, <2>2 DEF SupervisionInv, TasksOfPool, NoTaskOutlivesPool, PublisherWrote,
         TokensAgree, OutcomeAgrees, mainVars
  <1>4. ASSUME SeesReturned PROVE SupervisionInv'
    <2>1. pool' = "returned" /\ result' = "error" /\ poolToken' = poolToken /\ task' = Aborted
      BY <1>4 DEF SeesReturned
    <2>2. /\ Aborted \in [Tasks -> TaskStates]
          /\ \A t \in Tasks : /\ Aborted[t] \notin Alive
                              /\ Aborted[t] \in {"unspawned", "finished"} => Aborted[t] = task[t]
      <3>1. task \in [Tasks -> TaskStates]
        BY DEF SupervisionInv, TypeOK, TaskStates
      <3> QED
        BY <3>1 DEF Aborted, TaskStates, Alive
    <2>3. TypeOK'
      BY <1>2, <2>1, <2>2 DEF SupervisionInv, TypeOK, mainVars, TaskStates
    <2>4. PublisherWrote'
      BY <1>2, <2>1, <2>2 DEF SupervisionInv, PublisherWrote, Tasks
    <2> QED
      BY <1>2, <2>1, <2>2, <2>3, <2>4 DEF SupervisionInv, TasksOfPool, NoTaskOutlivesPool,
         TokensAgree, OutcomeAgrees, mainVars
  <1>5. ASSUME SeesPanic PROVE SupervisionInv'
    <2>1. pool' = "joining" /\ result' = "error" /\ poolToken' = TRUE /\ task' = task
      BY <1>5 DEF SeesPanic, TokenCancelled
    <2>2. TypeOK'
      BY <1>2, <2>1 DEF SupervisionInv, TypeOK, mainVars
    <2> QED
      BY <1>2, <2>1, <2>2 DEF SupervisionInv, TasksOfPool, NoTaskOutlivesPool, PublisherWrote,
         TokensAgree, OutcomeAgrees, mainVars
  <1>6. ASSUME Joined PROVE SupervisionInv'
    <2>1. /\ pool' = "returned" /\ \A t \in Tasks : task[t] \notin Alive
          /\ UNCHANGED <<result, poolToken, task>>
      BY <1>6 DEF Joined
    <2>2. TypeOK'
      BY <1>2, <2>1 DEF SupervisionInv, TypeOK, mainVars
    <2> QED
      BY <1>2, <2>1, <2>2 DEF SupervisionInv, TasksOfPool, NoTaskOutlivesPool, PublisherWrote,
         TokensAgree, OutcomeAgrees, mainVars
  <1> QED
    BY <1>3, <1>4, <1>5, <1>6

\* The web server, main's select! and the exit.
LEMMA MainKeeps ==
  ASSUME SupervisionInv,
         WebFails \/ WebStops \/ Signal \/ PoolEnds \/ WebEnds \/ Drained \/ DrainTimesOut
  PROVE  SupervisionInv'
  <1>1. UNCHANGED <<poolVars, task, conns, pending, panics>>
    BY DEF WebFails, WebStops, Signal, PoolEnds, WebEnds, Drained, DrainTimesOut, Exit
  <1>2. TasksOfPool' /\ PublisherWrote'
    BY <1>1 DEF SupervisionInv, TasksOfPool, NoTaskOutlivesPool, PublisherWrote, poolVars
  <1>3. ASSUME WebFails \/ WebStops PROVE SupervisionInv'
    <2>1. mainVars' = mainVars /\ web' = "finished" /\ webFails' \in 0..MaxWebFails
      BY <1>3, SupervisionAssumption DEF SupervisionInv, TypeOK, WebFails, WebStops
    <2>2. TypeOK'
      BY <1>1, <2>1 DEF SupervisionInv, TypeOK, mainVars, poolVars
    <2> QED
      BY <1>1, <1>2, <2>1, <2>2 DEF SupervisionInv, TokensAgree, OutcomeAgrees, mainVars, poolVars
  <1>4. ASSUME Signal \/ PoolEnds \/ WebEnds PROVE SupervisionInv'
    <2>1. /\ main = "selecting" /\ ~token
          /\ main' = "draining" /\ token' = TRUE
          /\ UNCHANGED <<web, webFails>>
      BY <1>4 DEF SupervisionInv, TokensAgree, Signal, PoolEnds, WebEnds, Drain
    <2>2. /\ signalled' \in BOOLEAN /\ outcome' \in {"none", "ok", "error"}
          /\ outcome' = "ok" => signalled'
      <3>1. CASE Signal
        BY <3>1 DEF Signal, Drain
      <3>2. CASE PoolEnds
        <4>1. result # "ok" /\ outcome' = result /\ signalled' = signalled
          BY <2>1, <3>2 DEF SupervisionInv, TokensAgree, PoolEnds, Drain
        <4> QED
          BY <4>1 DEF SupervisionInv, TypeOK
      <3>3. CASE WebEnds
        BY <3>3 DEF WebEnds, Drain, SupervisionInv, TypeOK
      <3> QED
        BY <1>4, <3>1, <3>2, <3>3
    <2>3. TypeOK'
      BY <1>1, <2>1, <2>2 DEF SupervisionInv, TypeOK, poolVars
    <2> QED
      BY <1>1, <1>2, <2>1, <2>2, <2>3 DEF SupervisionInv, TokensAgree, OutcomeAgrees, poolVars
  <1>5. ASSUME Drained \/ DrainTimesOut PROVE SupervisionInv'
    <2>1. main = "draining" /\ main' = "exited" /\ UNCHANGED <<outcome, signalled, token, web, webFails>>
      BY <1>5 DEF Drained, DrainTimesOut, Exit
    <2>2. TypeOK'
      BY <1>1, <2>1 DEF SupervisionInv, TypeOK, poolVars
    <2> QED
      BY <1>1, <1>2, <2>1, <2>2 DEF SupervisionInv, TokensAgree, OutcomeAgrees, poolVars
  <1> QED
    BY <1>3, <1>4, <1>5

\* Every step of main, the pool and its tasks keeps the invariant.
LEMMA NextSupervision == SupervisionInv /\ [Next]_vars => SupervisionInv'
  <1> SUFFICES ASSUME SupervisionInv, [Next]_vars PROVE SupervisionInv'
    OBVIOUS
  <1>1. CASE UNCHANGED vars
    <2>1. TypeOK'
      BY <1>1 DEF SupervisionInv, TypeOK, vars, mainVars, poolVars
    <2> QED
      BY <1>1, <2>1 DEF SupervisionInv, TasksOfPool, NoTaskOutlivesPool, PublisherWrote, TokensAgree,
         OutcomeAgrees, vars, mainVars, poolVars
  <1>2. CASE Next
    BY <1>2, ConnectKeeps, ServeKeeps, TasksKeep, PoolKeeps, MainKeeps DEF Next
  <1> QED
    BY <1>1, <1>2

-----------------------------------------------------------------------------
(* The theorems. *)

\* The inductive invariant holds whatever signals, failures and panics come, in any order.
THEOREM SupervisionInvariant == Spec => []SupervisionInv
  BY InitSupervision, NextSupervision, PTL DEF Spec

\* main's, the pool's and the tasks' states (main.rs, pool.rs) are always of their types.
THEOREM TypesKept == Spec => []TypeOK
  <1>1. SupervisionInv => TypeOK
    BY DEF SupervisionInv
  <1> QED
    BY <1>1, SupervisionInvariant, PTL

\* Once pool::run has returned no component goes on, and every share of a publisher that was
\* not aborted is written, however it came to return.
THEOREM NothingLeftBehind == Spec => []ReturnedIsDone
  <1>1. SupervisionInv => ReturnedIsDone
    <2> SUFFICES ASSUME SupervisionInv, pool = "returned",
                        task["publisher"] \notin {"aborted", "panicked"}
                 PROVE  pending = 0
      BY DEF SupervisionInv, TasksOfPool, ReturnedIsDone, ReturnedIsWritten
    <2>1. task["publisher"] \in TaskStates \ Alive
      BY DEF SupervisionInv, TasksOfPool, NoTaskOutlivesPool, TypeOK, Tasks, TaskStates
    <2> QED
      BY <2>1 DEF SupervisionInv, PublisherWrote, TaskStates
  <1> QED
    BY <1>1, SupervisionInvariant, PTL

\* The process exits with success only when it was told to stop, so that its unit restarts it
\* after everything else.
THEOREM SuccessOnlyOnSignal == Spec => []SuccessMeansSignalled
  <1>1. SupervisionInv => SuccessMeansSignalled
    BY DEF SupervisionInv, OutcomeAgrees, SuccessMeansSignalled
  <1> QED
    BY <1>1, SupervisionInvariant, PTL

-----------------------------------------------------------------------------
(* The page. *)

Messages == {Opened, Closed} \union {Document(d) : d \in Documents}
Answers  == {Idle, Asked, Failed} \union {Document(d) : d \in Documents}

IsDocument(m) == m[1] = "document"

\* A socket that opens says so first, one that closes says so last, and between the documents
\* come in the order they were published; while the page listens none of them is older than
\* what it shows.
WireInOrder ==
  /\ \A i \in 1 .. Len(wire) :
       /\ wire[i] = Opened => i = 1 /\ socket = "opening"
       /\ wire[i] = Closed => i = Len(wire) /\ stream = "none"
       /\ IsDocument(wire[i]) =>
            /\ wire[i][2] <= published
            /\ socket = "open" /\ heard => shown <= wire[i][2]
            /\ \A j \in (i + 1) .. Len(wire) : IsDocument(wire[j]) => wire[i][2] <= wire[j][2]
  /\ socket = "none" => wire = <<>> /\ stream = "none"

\* No answer is newer than the newest document.
AnswersAreKnown ==
  \A i \in Polls : IsDocument(polls[i]) => polls[i][2] <= published

PageInv == PageTypeOK /\ WireInOrder /\ AnswersAreKnown /\ LabelIsHonest

-----------------------------------------------------------------------------
\* A message is one of three, and a document is told from the rest by its tag.
LEMMA MessageKinds ==
  /\ Opened \in Messages /\ Closed \in Messages /\ Opened # Closed
  /\ ~IsDocument(Opened) /\ ~IsDocument(Closed)
  /\ \A d \in Documents : /\ Document(d) \in Messages /\ IsDocument(Document(d)) /\ Document(d)[2] = d
                          /\ Document(d) # Opened /\ Document(d) # Closed
  /\ \A m \in Messages : IsDocument(m) => m[2] \in Documents
  BY DEF Messages, IsDocument, Opened, Closed, Document

LEMMA AnswerKinds ==
  /\ Idle \in Answers /\ Asked \in Answers /\ Failed \in Answers
  /\ ~IsDocument(Idle) /\ ~IsDocument(Asked) /\ ~IsDocument(Failed)
  /\ \A d \in Documents : Document(d) \in Answers /\ IsDocument(Document(d)) /\ Document(d)[2] = d
  /\ \A a \in Answers : IsDocument(a) => a[2] \in Documents
  /\ \A a \in Answers : a \notin {Idle, Asked} /\ a # Failed => IsDocument(a)
  BY DEF Answers, IsDocument, Idle, Asked, Failed, Document

\* The types the proofs use: PageTypeOK in terms of Messages and Answers.
LEMMA PageTypes ==
  PageTypeOK =>
    /\ published \in Documents /\ published \in Nat /\ shown \in Nat /\ shown <= published
    /\ wire \in Seq(Messages) /\ Len(wire) \in Nat
    /\ polls \in [Polls -> Answers]
  <1> SUFFICES ASSUME PageTypeOK
               PROVE  /\ published \in Documents /\ published \in Nat /\ shown \in Nat /\ shown <= published
                      /\ wire \in Seq(Messages) /\ Len(wire) \in Nat
                      /\ polls \in [Polls -> Answers]
    OBVIOUS
  <1>1. wire \in Seq(Messages) /\ polls \in [Polls -> Answers] /\ published \in Documents /\ shown \in 0 .. published
    BY DEF PageTypeOK, Messages, Answers
  <1>2. Len(wire) \in Nat
    BY <1>1, LenProperties
  <1> QED
    BY <1>1, <1>2, DashboardAssumption DEF Documents

LEMMA InitPage == PageInit => PageInv
  <1> SUFFICES ASSUME PageInit PROVE PageInv
    OBVIOUS
  <1>1. PageTypeOK
    <2>1. 1 \in Documents /\ 0 \in 0 .. 1
      BY DashboardAssumption DEF Documents
    <2>2. /\ polls \in [Polls -> {Idle, Asked, Failed} \union {Document(d) : d \in Documents}]
          /\ wire \in Seq({Opened, Closed} \union {Document(d) : d \in Documents})
      BY DEF PageInit
    <2>3. socket \in {"none", "opening", "open"} /\ (page # "open" => socket = "none")
      BY DEF PageInit
    <2>4. shown \in 0 .. published /\ published \in Documents /\ breaks \in 0 .. MaxBreaks
      BY <2>1, DashboardAssumption DEF PageInit, Nothing
    <2> QED
      BY <2>2, <2>3, <2>4 DEF PageInit, PageTypeOK
  <1>2. WireInOrder
    BY DEF PageInit, WireInOrder
  <1>3. AnswersAreKnown
    BY AnswerKinds DEF PageInit, AnswersAreKnown
  <1> QED
    BY <1>1, <1>2, <1>3 DEF PageInv, PageInit, LabelIsHonest

\* What an action that changes neither socket, wire nor requests has to show.
LEMMA PageKept ==
  ASSUME PageInv, UNCHANGED <<page, socket, wire, heard, shown, label, polls>>,
         published' \in Nat, published <= published', stream' = "none" \/ stream # "none"
  PROVE  WireInOrder' /\ AnswersAreKnown' /\ LabelIsHonest'
  <1> USE PageTypes, MessageKinds, AnswerKinds DEF PageInv
  <1>1. WireInOrder'
    <2>1. ASSUME NEW i \in 1 .. Len(wire), IsDocument(wire[i]) PROVE wire[i][2] \in Nat
      BY <2>1, ElementOfSeq DEF Documents
    <2> QED
      BY <2>1 DEF WireInOrder
  <1>2. AnswersAreKnown'
    BY DEF AnswersAreKnown, Documents
  <1> QED
    BY <1>1, <1>2 DEF LabelIsHonest

LEMMA PublishPage == PageInv /\ Publish => PageInv'
  <1> SUFFICES ASSUME PageInv, Publish PROVE PageInv'
    OBVIOUS
  <1>1. PageTypeOK'
    BY DashboardAssumption DEF PageInv, PageTypeOK, Publish, socketVars, showVars, Documents
  <1>2. published' \in Nat /\ published <= published'
    BY PageTypes DEF PageInv, Publish
  <1> QED
    BY <1>1, <1>2, PageKept DEF PageInv, Publish, socketVars, showVars

LEMMA WakesPage == PageInv /\ StreamWakes => PageInv'
  <1> SUFFICES ASSUME PageInv, StreamWakes PROVE PageInv'
    OBVIOUS
  <1>1. PageTypeOK'
    BY DEF PageInv, PageTypeOK, StreamWakes, socketVars, showVars
  <1>2. published' \in Nat /\ published <= published'
    BY PageTypes DEF PageInv, StreamWakes
  <1> QED
    BY <1>1, <1>2, PageKept DEF PageInv, StreamWakes, socketVars, showVars

LEMMA EndingPage == PageInv /\ ProcessEnding => PageInv'
  <1> SUFFICES ASSUME PageInv, ProcessEnding PROVE PageInv'
    OBVIOUS
  <1>1. PageTypeOK'
    BY DEF PageInv, PageTypeOK, ProcessEnding, Drains, Goes, streamVars, socketVars, showVars
  <1>2. published' \in Nat /\ published <= published'
    BY PageTypes DEF PageInv, ProcessEnding, streamVars
  <1> QED
    BY <1>1, <1>2, PageKept DEF PageInv, ProcessEnding, streamVars, socketVars, showVars

LEMMA UpgradePage == PageInv /\ Upgrade => PageInv'
  <1> SUFFICES ASSUME PageInv, Upgrade PROVE PageInv'
    OBVIOUS
  <1>0. wire' \in Seq(Messages) /\ Len(wire') = 1 /\ wire'[1] = Opened
    BY MessageKinds DEF Upgrade
  <1>1. PageTypeOK'
    BY <1>0 DEF PageInv, PageTypeOK, Upgrade, showVars, Messages
  <1>2. WireInOrder'
    BY <1>0, MessageKinds DEF PageInv, WireInOrder, Upgrade
  <1> QED
    BY <1>1, <1>2 DEF PageInv, AnswersAreKnown, LabelIsHonest, Upgrade, showVars

\* A document that is sent is the newest.
LEMMA SendsPage == PageInv /\ StreamSends => PageInv'
  <1> SUFFICES ASSUME PageInv, StreamSends PROVE PageInv'
    OBVIOUS
  <1> USE PageTypes, MessageKinds DEF PageInv
  <1>0. /\ wire' \in Seq(Messages) /\ Len(wire') = Len(wire) + 1
        /\ \A i \in 1 .. Len(wire) : wire'[i] = wire[i]
        /\ wire'[Len(wire) + 1] = Document(published)
    BY AppendProperties DEF StreamSends
  <1>1. PageTypeOK'
    BY <1>0 DEF PageTypeOK, StreamSends, showVars, Messages
  <1>2. WireInOrder'
    <2>1. ASSUME NEW i \in 1 .. Len(wire')
          PROVE  /\ wire'[i] = Opened => i = 1 /\ socket' = "opening"
                 /\ wire'[i] # Closed
                 /\ IsDocument(wire'[i]) =>
                      /\ wire'[i][2] <= published'
                      /\ socket' = "open" /\ heard' => shown' <= wire'[i][2]
                      /\ \A j \in (i + 1) .. Len(wire') : IsDocument(wire'[j]) => wire'[i][2] <= wire'[j][2]
      <3>1. CASE i = Len(wire) + 1
        BY <1>0, <3>1 DEF StreamSends, showVars
      <3>2. CASE i \in 1 .. Len(wire)
        <4>1. wire'[i] = wire[i]
          BY <1>0, <3>2
        <4>2. \A j \in (i + 1) .. Len(wire') :
                \/ j \in (i + 1) .. Len(wire) /\ wire'[j] = wire[j]
                \/ j = Len(wire) + 1 /\ wire'[j][2] = published
          BY <1>0, <3>2
        <4> QED
          BY <3>2, <4>1, <4>2 DEF WireInOrder, StreamSends, showVars
      <3> QED
        BY <1>0, <3>1, <3>2
    <2>2. socket' # "none"
      BY DEF WireInOrder, StreamSends
    <2> QED
      BY <2>1, <2>2 DEF WireInOrder
  <1> QED
    BY <1>1, <1>2 DEF AnswersAreKnown, LabelIsHonest, StreamSends, showVars

\* However a socket ends, nothing comes after that.
LEMMA SocketEnds ==
  ASSUME PageInv, Ends(wire) \/ Ends(<<>>), breaks' \in 0 .. MaxBreaks
  PROVE  PageInv'
  <1> USE PageTypes, MessageKinds DEF PageInv
  <1>1. PICK rest \in {wire, <<>>} : Ends(rest)
    OBVIOUS
  <1>2. /\ rest \in Seq(Messages) /\ Len(rest) \in Nat /\ Len(rest) <= Len(wire)
        /\ \A i \in 1 .. Len(rest) : i \in 1 .. Len(wire) /\ rest[i] = wire[i]
    <2>1. CASE rest = wire
      BY <2>1
    <2>2. CASE rest = <<>>
      <3>1. rest \in Seq(Messages) /\ Len(rest) = 0
        BY <2>2, EmptySeq
      <3> QED
        BY <3>1
    <2> QED
      BY <2>1, <2>2
  <1>3. /\ wire' \in Seq(Messages) /\ Len(wire') = Len(rest) + 1
        /\ \A i \in 1 .. Len(rest) : wire'[i] = wire[i]
        /\ wire'[Len(rest) + 1] = Closed
    BY <1>1, <1>2, AppendProperties DEF Ends
  <1>4. \A i \in 1 .. Len(wire) : wire[i] # Closed
    BY <1>1, LenProperties DEF Ends
  <1>5. PageTypeOK'
    BY <1>1, <1>3 DEF PageTypeOK, Ends, showVars, Messages
  <1>6. WireInOrder'
    <2>1. ASSUME NEW i \in 1 .. Len(wire')
          PROVE  /\ wire'[i] = Opened => i = 1 /\ socket' = "opening"
                 /\ wire'[i] = Closed => i = Len(wire')
                 /\ IsDocument(wire'[i]) =>
                      /\ wire'[i][2] <= published'
                      /\ socket' = "open" /\ heard' => shown' <= wire'[i][2]
                      /\ \A j \in (i + 1) .. Len(wire') : IsDocument(wire'[j]) => wire'[i][2] <= wire'[j][2]
      <3>1. CASE i = Len(rest) + 1
        BY <1>3, <3>1
      <3>2. CASE i \in 1 .. Len(rest)
        <4>1. wire'[i] = wire[i] /\ i \in 1 .. Len(wire)
          BY <1>2, <1>3, <3>2
        <4>2. \A j \in (i + 1) .. Len(wire') :
                \/ j \in (i + 1) .. Len(wire) /\ wire'[j] = wire[j]
                \/ wire'[j] = Closed
          BY <1>2, <1>3, <3>2
        <4> QED
          BY <1>1, <1>4, <4>1, <4>2 DEF WireInOrder, Ends, showVars
      <3> QED
        BY <1>2, <1>3, <3>1, <3>2
    <2>2. socket' # "none" /\ stream' = "none"
      BY <1>1 DEF Ends
    <2> QED
      BY <2>1, <2>2 DEF WireInOrder
  <1> QED
    BY <1>1, <1>5, <1>6 DEF AnswersAreKnown, LabelIsHonest, Ends, showVars

LEMMA ClosingPage == PageInv /\ (ServerCloses \/ Refused \/ SocketBreaks \/ GivesUp) => PageInv'
  <1> SUFFICES ASSUME PageInv, ServerCloses \/ Refused \/ SocketBreaks \/ GivesUp PROVE PageInv'
    OBVIOUS
  <1>1. breaks' \in 0 .. MaxBreaks
    BY DashboardAssumption DEF PageInv, PageTypeOK, ServerCloses, Refused, SocketBreaks, GivesUp
  <1>2. Ends(wire) \/ Ends(<<>>)
    BY DEF ServerCloses, Refused, SocketBreaks, GivesUp
  <1> QED
    BY <1>1, <1>2, SocketEnds

LEMMA VanishesPage == PageInv /\ PeerVanishes => PageInv'
  <1> SUFFICES ASSUME PageInv, PeerVanishes PROVE PageInv'
    OBVIOUS
  <1>1. PageTypeOK'
    <2>1. breaks' \in 0 .. MaxBreaks /\ wire' \in Seq({Opened, Closed} \union {Document(d) : d \in Documents})
      BY DashboardAssumption, EmptySeq DEF PageInv, PageTypeOK, PeerVanishes
    <2> QED
      BY <2>1 DEF PageInv, PageTypeOK, PeerVanishes, showVars
  <1>2. WireInOrder'
    BY DEF PageInv, WireInOrder, PeerVanishes
  <1> QED
    BY <1>1, <1>2 DEF PageInv, AnswersAreKnown, LabelIsHonest, PeerVanishes, showVars

\* What is left of the wire once its first message has been handled.
LEMMA Received ==
  ASSUME PageInv, NEW m \in Messages, Receive(m)
  PROVE  /\ wire' \in Seq(Messages) /\ Len(wire) >= 1 /\ Len(wire') = Len(wire) - 1
         /\ wire[1] = m
         /\ \A i \in 1 .. Len(wire') : i + 1 \in 1 .. Len(wire) /\ wire'[i] = wire[i + 1]
  <1> USE PageTypes DEF PageInv
  <1>1. Len(wire) >= 1
    BY EmptySeq, LenProperties DEF Receive
  <1>2. /\ wire' \in Seq(Messages) /\ Len(wire') = Len(wire) - 1
        /\ \A i \in 1 .. Len(wire') : wire'[i] = wire[i + 1]
    BY HeadTailProperties DEF Receive
  <1>3. wire[1] = m
    BY HeadTailProperties DEF Receive
  <1> QED
    BY <1>1, <1>2, <1>3

\* After its first message has been handled the wire is still in order, if the page shows
\* nothing newer than what is left.
LEMMA RestInOrder ==
  ASSUME PageInv, NEW m \in Messages, Receive(m),
         \A i \in 1 .. Len(wire') : IsDocument(wire'[i]) => (socket' = "open" /\ heard' => shown' <= wire'[i][2]),
         socket' = "none" => Len(wire') = 0 /\ stream = "none"
  PROVE  WireInOrder'
  <1> USE PageTypes, MessageKinds DEF PageInv
  <1>1. ASSUME NEW i \in 1 .. Len(wire')
        PROVE  /\ wire'[i] = Opened => i = 1 /\ socket' = "opening"
               /\ wire'[i] = Closed => i = Len(wire') /\ stream' = "none"
               /\ IsDocument(wire'[i]) =>
                    /\ wire'[i][2] <= published'
                    /\ \A j \in (i + 1) .. Len(wire') : IsDocument(wire'[j]) => wire'[i][2] <= wire'[j][2]
    <2>1. wire'[i] = wire[i + 1] /\ i + 1 \in 1 .. Len(wire) /\ i + 1 # 1
      BY Received
    <2>2. \A j \in (i + 1) .. Len(wire') : j + 1 \in (i + 2) .. Len(wire) /\ wire'[j] = wire[j + 1]
      BY Received
    <2> QED
      BY <2>1, <2>2, Received DEF WireInOrder, Receive, streamVars
  <1>2. socket' = "none" => wire' = <<>>
    BY Received, EmptySeq, LenProperties
  <1> QED
    BY <1>1, <1>2 DEF WireInOrder, Receive, streamVars

LEMMA OpenPage == PageInv /\ OnOpen => PageInv'
  <1> SUFFICES ASSUME PageInv, OnOpen PROVE PageInv'
    OBVIOUS
  <1> USE MessageKinds
  <1>1. PageTypeOK'
    BY Received DEF PageInv, PageTypeOK, OnOpen, Receive, streamVars, Messages
  <1>2. WireInOrder'
    BY RestInOrder DEF OnOpen
  <1> QED
    BY <1>1, <1>2 DEF PageInv, AnswersAreKnown, LabelIsHonest, OnOpen, Receive, streamVars

LEMMA MessagePage == ASSUME NEW d \in Documents PROVE PageInv /\ OnMessage(d) => PageInv'
  <1> SUFFICES ASSUME PageInv, OnMessage(d) PROVE PageInv'
    OBVIOUS
  <1> USE MessageKinds
  <1>1. Receive(Document(d)) /\ Document(d) \in Messages
    BY DEF OnMessage
  <1>2. d <= published /\ d \in Nat /\ wire # <<>>
    BY <1>1, Received, PageTypes DEF PageInv, WireInOrder, Receive, Documents
  <1>3. PageTypeOK'
    BY <1>1, <1>2, Received DEF PageInv, PageTypeOK, OnMessage, Receive, streamVars, Messages
  <1>4. WireInOrder'
    <2>1. ASSUME NEW i \in 1 .. Len(wire'), IsDocument(wire'[i]) PROVE d <= wire'[i][2]
      <3>1. i + 1 \in (1 + 1) .. Len(wire) /\ wire'[i] = wire[i + 1] /\ wire[1] = Document(d) /\ 1 \in 1 .. Len(wire)
        BY <1>1, Received, PageTypes DEF PageInv
      <3> QED
        BY <2>1, <3>1 DEF PageInv, WireInOrder
    <2>2. socket' # "none"
      BY <1>2 DEF OnMessage, PageInv, WireInOrder
    <2> QED
      BY <1>1, <2>1, <2>2, RestInOrder DEF OnMessage
  <1> QED
    BY <1>3, <1>4 DEF PageInv, AnswersAreKnown, LabelIsHonest, OnMessage, Receive, streamVars

LEMMA ClosePage == PageInv /\ OnClose => PageInv'
  <1> SUFFICES ASSUME PageInv, OnClose PROVE PageInv'
    OBVIOUS
  <1> USE MessageKinds
  <1>1. PageTypeOK'
    BY Received DEF PageInv, PageTypeOK, OnClose, LabelAfterClose, Receive, streamVars, Messages
  <1>2. Len(wire') = 0 /\ stream = "none"
    BY Received, PageTypes DEF PageInv, WireInOrder, OnClose
  <1>3. WireInOrder'
    BY <1>2, RestInOrder DEF OnClose
  <1> QED
    BY <1>1, <1>3 DEF PageInv, AnswersAreKnown, LabelIsHonest, LabelAfterClose, OnClose, Receive, streamVars

LEMMA ConnectPage == PageInv /\ Connect => PageInv'
  <1> SUFFICES ASSUME PageInv, Connect PROVE PageInv'
    OBVIOUS
  <1>1. PageTypeOK'
    BY DEF PageInv, PageTypeOK, Connect, streamVars, showVars
  <1>2. WireInOrder'
    <2>1. wire' = <<>>
      BY DEF PageInv, WireInOrder, Connect
    <2> QED
      BY <2>1 DEF WireInOrder, Connect
  <1> QED
    BY <1>1, <1>2 DEF PageInv, AnswersAreKnown, LabelIsHonest, Connect, streamVars, showVars

LEMMA LeavePage == PageInv /\ Leave => PageInv'
  <1> SUFFICES ASSUME PageInv, Leave PROVE PageInv'
    OBVIOUS
  <1>1. PageTypeOK'
    <2>1. wire' \in Seq({Opened, Closed} \union {Document(d) : d \in Documents})
      BY DEF Leave
    <2> QED
      BY <2>1 DEF PageInv, PageTypeOK, Leave, showVars
  <1>2. WireInOrder'
    BY DEF WireInOrder, Leave
  <1> QED
    BY <1>1, <1>2 DEF PageInv, AnswersAreKnown, LabelIsHonest, Leave, showVars

-----------------------------------------------------------------------------
LEMMA AnswerTypes == Answers = {Idle, Asked, Failed} \union {Document(d) : d \in Documents}
  BY DEF Answers

LEMMA RequestPage ==
  ASSUME NEW i \in Polls
  PROVE  PageInv /\ (Poll(i) \/ Request(i)) => PageInv'
  <1> SUFFICES ASSUME PageInv, Poll(i) \/ Request(i) PROVE PageInv'
    OBVIOUS
  <1> USE AnswerKinds, PageTypes, DashboardAssumption DEF PageInv
  <1>0. PICK a \in {Asked, Failed, Document(published)} : polls' = [polls EXCEPT ![i] = a]
    BY DEF Poll, Request, Answer, PollFails
  <1>1. UNCHANGED <<PollVars, showVars>> /\ breaks' \in 0 .. MaxBreaks
    BY DEF PageTypeOK, Poll, Request, Answer, PollFails
  <1>2. a \in Answers /\ (IsDocument(a) => a[2] <= published)
    OBVIOUS
  <1>3. polls' \in [Polls -> Answers]
    BY <1>0, <1>2
  <1>4. PageTypeOK'
    BY <1>1, <1>3, AnswerTypes DEF PageTypeOK, PollVars, streamVars, socketVars, showVars
  <1>5. AnswersAreKnown'
    BY <1>0, <1>1, <1>2 DEF AnswersAreKnown, PollVars, streamVars
  <1> QED
    BY <1>1, <1>4, <1>5 DEF WireInOrder, LabelIsHonest, PollVars, streamVars, socketVars, showVars

LEMMA ReturnsPage == ASSUME NEW i \in Polls PROVE PageInv /\ PollReturns(i) => PageInv'
  <1> SUFFICES ASSUME PageInv, PollReturns(i) PROVE PageInv'
    OBVIOUS
  <1> USE AnswerKinds, PageTypes DEF PageInv
  <1>1. polls' \in [Polls -> Answers] /\ polls' = [polls EXCEPT ![i] = Idle] /\ UNCHANGED <<PollVars, breaks>>
    BY DEF PollReturns
  <1>2. ~isLive /\ polls[i] # Failed => polls[i][2] \in 0 .. published
    BY DEF PollReturns, AnswersAreKnown, Documents
  <1>3. /\ shown' \in 0 .. published /\ label' \in {"connecting", "live", "polling", "offline"}
        /\ isLive => UNCHANGED showVars
        /\ ~isLive => label' \in {"offline", "polling"}
    BY <1>2 DEF PollReturns, AfterAnswer, showVars, PageTypeOK
  <1>4. PageTypeOK'
    BY <1>1, <1>3, AnswerTypes DEF PageTypeOK, PollVars, streamVars, socketVars
  <1>5. WireInOrder'
    BY <1>1, <1>3 DEF WireInOrder, isLive, PollVars, streamVars, socketVars, showVars
  <1>6. AnswersAreKnown'
    BY <1>1 DEF AnswersAreKnown, PollVars, streamVars
  <1>7. LabelIsHonest'
    BY <1>1, <1>3 DEF LabelIsHonest, isLive, PollVars, streamVars, socketVars, showVars
  <1> QED
    BY <1>4, <1>5, <1>6, <1>7

-----------------------------------------------------------------------------
\* What a step of the page, its server or the network preserves.
LEMMA NextPage == PageInv /\ [PageNext]_pageVars => PageInv'
  <1> SUFFICES ASSUME PageInv, [PageNext]_pageVars PROVE PageInv'
    OBVIOUS
  <1>1. CASE UNCHANGED pageVars
    BY <1>1 DEF PageInv, PageTypeOK, WireInOrder, AnswersAreKnown, LabelIsHonest, pageVars,
                streamVars, socketVars, showVars
  <1>2. CASE Server
    BY <1>2, UpgradePage, SendsPage, WakesPage, ClosingPage DEF Server
  <1>3. CASE Handler
    BY <1>3, OpenPage, ClosePage, MessagePage DEF Handler
  <1>4. CASE Network
    BY <1>4, ClosingPage, VanishesPage DEF Network
  <1>5. CASE Publish \/ Connect \/ Leave \/ ProcessEnding
    BY <1>5, PublishPage, ConnectPage, LeavePage, EndingPage
  <1>6. CASE \E i \in Polls : Poll(i) \/ Request(i) \/ PollReturns(i)
    BY <1>6, RequestPage, ReturnsPage
  <1> QED
    BY <1>1, <1>2, <1>3, <1>4, <1>5, <1>6 DEF PageNext

\* A page, its socket and its requests keep the invariant, whatever breaks and vanishes.
THEOREM PageInvariant == PageSpec => []PageInv
  BY InitPage, NextPage, PTL DEF PageSpec

\* The label says "live" exactly while the socket is open (live.svelte.ts), although polls
\* that were sent before are still answered and old sockets close.
THEOREM PageIsHonest == PageSpec => []LabelIsHonest
  <1>1. PageInv => LabelIsHonest
    BY DEF PageInv
  <1> QED
    BY <1>1, PageInvariant, PTL

\* While a socket delivers, no document gives way to an older one, whatever the polls and the
\* socket before it still bring.
THEOREM NoStepBack == PageSpec => LiveSnapshotsWin
  <1> DEFINE Forward == socket = "open" /\ heard /\ heard' => shown' >= shown
  <1>1. PageInv /\ [PageNext]_pageVars => [Forward]_pageVars
    <2> SUFFICES ASSUME PageInv, PageNext, socket = "open", heard, heard' PROVE shown' >= shown
      OBVIOUS
    <2> USE PageTypes, MessageKinds DEF PageInv
    <2>1. CASE \E d \in Documents : OnMessage(d)
      <3>1. PICK d \in Documents : OnMessage(d)
        BY <2>1
      <3>2. wire[1] = Document(d) /\ 1 \in 1 .. Len(wire)
        BY <3>1, Received DEF OnMessage
      <3> QED
        BY <3>1, <3>2 DEF WireInOrder, OnMessage, Documents
    <2>2. CASE \E i \in Polls : PollReturns(i)
      BY <2>2 DEF PollReturns, AfterAnswer, isLive, showVars
    <2>3. CASE ~(\E d \in Documents : OnMessage(d)) /\ ~(\E i \in Polls : PollReturns(i))
      <3>1. UNCHANGED shown
        BY <2>3 DEF PageNext, Publish, Server, Upgrade, Refused, StreamSends, StreamWakes, ServerCloses,
             Handler, OnOpen, OnClose, Network, SocketBreaks, PeerVanishes, GivesUp, Ends, Connect, Leave,
             ProcessEnding, Poll, Request, Answer, PollFails, showVars
      <3> QED
        BY <3>1
    <2> QED
      BY <2>1, <2>2, <2>3
  <1> QED
    BY <1>1, PageInvariant, PTL DEF PageSpec, LiveSnapshotsWin
=============================================================================
