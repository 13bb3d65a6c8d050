---------------------------- MODULE Supervision ----------------------------
(***************************************************************************)
(* The life of the process: main starts the web server and the pool, waits *)
(* for a signal or for one of them to end, cancels the shutdown token and  *)
(* gives both five seconds (crates/alamo/src/main.rs).  pool::run connects *)
(* to the nodes, starts the component tasks in a JoinSet and watches them: *)
(* a cancelled token or a panicked task makes it cancel and join the rest, *)
(* a task that returned makes it return at once, and the JoinSet it drops  *)
(* aborts the rest (crates/alamo/src/pool.rs).                             *)
(*                                                                         *)
(* "source" stands for the parent's template source, and for the aux       *)
(* sources, the ZMQ subscribers and the trackers, which like it end only   *)
(* when cancelled or by a panic.  Connections are tasks of their own,      *)
(* outside the JoinSet; they hold the channels the publisher and the       *)
(* submitter read.                                                         *)
(***************************************************************************)
EXTENDS Naturals, FiniteSets

CONSTANTS Nodes,       \* how many nodes the pool connects to
          MaxPending,  \* bound on the shares waiting to be written
          MaxConns,    \* bound on miners connected at once
          MaxPanics,   \* bound on panics
          MaxWebFails  \* bound on failures of the web server (0 or 1)

ASSUME SupervisionAssumption ==
  /\ Nodes \in Nat \ {0} /\ MaxPending \in Nat /\ MaxConns \in Nat
  /\ MaxPanics \in Nat /\ MaxWebFails \in Nat

VARIABLES
  main,      \* "selecting", "draining" or "exited"
  outcome,   \* main's outcome: "none", "ok" or "error"
  signalled, \* SIGINT or SIGTERM has arrived
  token,     \* main's shutdown token is cancelled
  web,       \* the web server: "running" or "finished"
  pool,      \* pool::run: "connecting", "supervising", "joining" or "returned"
  result,    \* what pool::run returns
  nodes,     \* the nodes pool::run has not reached yet
  poolToken, \* pool::run has cancelled its own token
  task,      \* the component tasks
  conns,     \* the connections
  pending,   \* shares the publisher holds in memory
  panics, webFails

mainVars == <<main, outcome, signalled, token>>
poolVars == <<pool, result, nodes, poolToken>>
vars == <<mainVars, web, poolVars, task, conns, pending, panics, webFails>>

Tasks == {"source", "merger", "stratum", "submitter", "publisher"}
Alive == {"running", "calling"}

Cancelled == token \/ poolToken

(* Once main has returned there is no process to take a step.              *)
Running == main # "exited"

Init ==
  /\ main = "selecting" /\ outcome = "none" /\ signalled = FALSE /\ token = FALSE
  /\ web = "running"
  /\ pool = "connecting" /\ result = "none" /\ nodes = Nodes /\ poolToken = FALSE
  /\ task = [t \in Tasks |-> "unspawned"]
  /\ conns = 0 /\ pending = 0 /\ panics = 0 /\ webFails = 0

----------------------------------------------------------------------------
(* connect_chains: each node in turn, for as long as it takes.             *)
ReachNode ==
  /\ pool = "connecting" /\ nodes > 0
  /\ nodes' = nodes - 1
  /\ Running
  /\ UNCHANGED <<mainVars, web, pool, result, poolToken, task, conns, pending, panics, webFails>>

(* A node of the wrong network, an address it refuses, settings that       *)
(* cannot be loaded, a listener that cannot be bound.                      *)
StartFails ==
  /\ pool = "connecting"
  /\ pool' = "returned" /\ result' = "error"
  /\ Running
  /\ UNCHANGED <<mainVars, web, nodes, poolToken, task, conns, pending, panics, webFails>>

StartCancelled ==
  /\ pool = "connecting" /\ nodes > 0 /\ Cancelled
  /\ pool' = "returned" /\ result' = "ok"
  /\ Running
  /\ UNCHANGED <<mainVars, web, nodes, poolToken, task, conns, pending, panics, webFails>>

Spawn ==
  /\ pool = "connecting" /\ nodes = 0
  /\ pool' = "supervising"
  /\ task' = [t \in Tasks |-> "running"]
  /\ Running
  /\ UNCHANGED <<mainVars, web, result, nodes, poolToken, conns, pending, panics, webFails>>

----------------------------------------------------------------------------
(* Miners come and go.  A connection also ends when the token is cancelled *)
(* or the merger, which holds the work channel, is gone.                   *)
Accept ==
  /\ task["stratum"] = "running" /\ conns < MaxConns
  /\ conns' = conns + 1
  /\ Running
  /\ UNCHANGED <<mainVars, web, poolVars, task, pending, panics, webFails>>

ConnEnds ==
  /\ conns > 0
  /\ conns' = conns - 1
  /\ Running
  /\ UNCHANGED <<mainVars, web, poolVars, task, pending, panics, webFails>>

ConnMustEnd == Cancelled \/ task["merger"] # "running"

(* The publisher applies a share, and writes what it holds.                *)
Earn ==
  /\ task["publisher"] = "running" /\ conns > 0 /\ pending < MaxPending
  /\ pending' = pending + 1
  /\ Running
  /\ UNCHANGED <<mainVars, web, poolVars, task, conns, panics, webFails>>

Flush ==
  /\ task["publisher"] = "running" /\ pending > 0
  /\ pending' = 0
  /\ Running
  /\ UNCHANGED <<mainVars, web, poolVars, task, conns, panics, webFails>>

(* The submitter is inside a call to a node, which lasts up to 30 seconds; *)
(* it looks at its token again when the call has ended, as a tracker does. *)
Call ==
  /\ task["submitter"] = "running" /\ conns > 0
  /\ task' = [task EXCEPT !["submitter"] = "calling"]
  /\ Running
  /\ UNCHANGED <<mainVars, web, poolVars, conns, pending, panics, webFails>>

CallEnds ==
  /\ task["submitter"] = "calling"
  /\ task' = [task EXCEPT !["submitter"] = "running"]
  /\ Running
  /\ UNCHANGED <<mainVars, web, poolVars, conns, pending, panics, webFails>>

(* What makes a task return: its token, or that the other end of the       *)
(* channel it reads is gone.  The publisher writes what it holds first (a  *)
(* write that fails is the subject of Accounting).                         *)
Orphaned(t) ==
  \/ t = "merger" /\ task["source"] # "running"
  \/ t \in {"submitter", "publisher"} /\ task["stratum"] # "running" /\ conns = 0

UnwrittenAtStop(t) == pending
PendingAtStop(t) == IF t = "publisher" THEN 0 ELSE pending

TaskReturns(t) ==
  /\ task[t] = "running"
  /\ Cancelled \/ Orphaned(t)
  /\ task' = [task EXCEPT ![t] = "finished"]
  /\ pending' = PendingAtStop(t)
  /\ Running
  /\ UNCHANGED <<mainVars, web, poolVars, conns, panics, webFails>>

TaskPanics(t) ==
  /\ task[t] \in Alive /\ panics < MaxPanics
  /\ panics' = panics + 1
  /\ task' = [task EXCEPT ![t] = "panicked"]
  /\ Running
  /\ UNCHANGED <<mainVars, web, poolVars, conns, pending, webFails>>

----------------------------------------------------------------------------
(* The select! in pool::run, which takes any branch that is ready.         *)
SeesToken ==
  /\ pool = "supervising" /\ Cancelled
  /\ pool' = "joining" /\ result' = "ok" /\ poolToken' = TRUE
  /\ Running
  /\ UNCHANGED <<mainVars, web, nodes, task, conns, pending, panics, webFails>>

(* A task returned: bail! leaves pool::run, and dropping the JoinSet       *)
(* aborts the tasks that still run.                                        *)
Aborted == [t \in Tasks |-> IF task[t] \in Alive THEN "aborted" ELSE task[t]]

SeesReturned ==
  /\ pool = "supervising" /\ \E t \in Tasks : task[t] = "finished"
  /\ pool' = "returned" /\ result' = "error"
  /\ task' = Aborted
  /\ Running
  /\ UNCHANGED <<mainVars, web, nodes, poolToken, conns, pending, panics, webFails>>

TokenCancelled == TRUE

SeesPanic ==
  /\ pool = "supervising" /\ \E t \in Tasks : task[t] = "panicked"
  /\ pool' = "joining" /\ result' = "error" /\ poolToken' = TokenCancelled
  /\ Running
  /\ UNCHANGED <<mainVars, web, nodes, task, conns, pending, panics, webFails>>

Joined ==
  /\ pool = "joining" /\ \A t \in Tasks : task[t] \notin Alive
  /\ pool' = "returned"
  /\ Running
  /\ UNCHANGED <<mainVars, web, result, nodes, poolToken, task, conns, pending, panics, webFails>>

----------------------------------------------------------------------------
WebFails ==
  /\ web = "running" /\ webFails < MaxWebFails
  /\ web' = "finished" /\ webFails' = webFails + 1
  /\ Running
  /\ UNCHANGED <<mainVars, poolVars, task, conns, pending, panics>>

WebStops ==
  /\ web = "running" /\ token
  /\ web' = "finished"
  /\ Running
  /\ UNCHANGED <<mainVars, poolVars, task, conns, pending, panics, webFails>>

Drain(how) ==
  /\ main = "selecting"
  /\ main' = "draining" /\ outcome' = how /\ token' = TRUE

Signal ==
  /\ Drain("ok") /\ signalled' = TRUE
  /\ UNCHANGED <<web, poolVars, task, conns, pending, panics, webFails>>

PoolEnds ==
  /\ pool = "returned" /\ Drain(result)
  /\ UNCHANGED <<signalled, web, poolVars, task, conns, pending, panics, webFails>>

WebEnds ==
  /\ web = "finished" /\ Drain("error")
  /\ UNCHANGED <<signalled, web, poolVars, task, conns, pending, panics, webFails>>

Exit ==
  /\ main' = "exited"
  /\ UNCHANGED <<outcome, signalled, token, web, poolVars, task, conns, pending,
                 panics, webFails>>

Drained == main = "draining" /\ web = "finished" /\ pool = "returned" /\ Exit

(* Five seconds have passed.  Of what is waited for, only a call to a node *)
(* (the submitter's, or connect_node's, which does not watch the token     *)
(* while it waits for an answer) and a web client that keeps its           *)
(* connection can take that long.                                          *)
SlowPool == task["submitter"] = "calling" \/ pool = "connecting"
SlowEnd == task["submitter"] = "calling" \/ pool = "connecting" \/ web = "running"
DrainTimesOut == main = "draining" /\ SlowEnd /\ Exit

Next ==
  \/ ReachNode \/ StartFails \/ StartCancelled \/ Spawn
  \/ Accept \/ ConnEnds \/ Earn \/ Flush \/ Call \/ CallEnds
  \/ \E t \in Tasks : TaskReturns(t) \/ TaskPanics(t)
  \/ SeesToken \/ SeesReturned \/ SeesPanic \/ Joined
  \/ WebFails \/ WebStops
  \/ Signal \/ PoolEnds \/ WebEnds \/ Drained \/ DrainTimesOut

(* The runtime polls every task that is ready, a call ends within the      *)
(* client's 30 seconds, and the drain's timer fires.  Nothing is assumed   *)
(* of the nodes (they may never be reached), the miners or web clients.    *)
Fairness ==
  /\ WF_vars(CallEnds)
  /\ WF_vars(ConnMustEnd /\ ConnEnds)
  /\ \A t \in Tasks : WF_vars(TaskReturns(t))
  /\ WF_vars(StartCancelled \/ Spawn)
  /\ WF_vars(SeesToken \/ SeesReturned \/ SeesPanic \/ Joined)
  /\ WF_vars(PoolEnds \/ WebEnds \/ Drained) /\ WF_vars(DrainTimesOut)

Spec     == Init /\ [][Next]_vars
LiveSpec == Spec /\ Fairness

----------------------------------------------------------------------------
\* The states of process, pool and tasks (main.rs, pool.rs) keep their types, and no more nodes
\* are reached than there are.
TypeOK ==
  /\ main \in {"selecting", "draining", "exited"}
  /\ outcome \in {"none", "ok", "error"} /\ result \in {"none", "ok", "error"}
  /\ signalled \in BOOLEAN /\ token \in BOOLEAN /\ poolToken \in BOOLEAN
  /\ web \in {"running", "finished"}
  /\ pool \in {"connecting", "supervising", "joining", "returned"}
  /\ nodes \in 0..Nodes
  /\ task \in [Tasks -> Alive \union {"unspawned", "finished", "panicked", "aborted"}]
  /\ conns \in 0..MaxConns /\ pending \in 0..MaxPending
  /\ panics \in 0..MaxPanics /\ webFails \in 0..MaxWebFails

(* The unit restarts the daemon only when it exits with an error: a pool   *)
(* that stopped for any other reason than a signal never exits with        *)
(* success.                                                                *)
SuccessMeansSignalled == main = "exited" /\ outcome = "ok" => signalled

(* No component goes on after the pool has returned, although main may     *)
(* wait for the web server then.                                           *)
NoTaskOutlivesPool == pool = "returned" => \A t \in Tasks : task[t] \notin Alive

(* Also when another component panicked, the pool returns only after its   *)
(* pending accounting is written, unless the publisher was aborted or      *)
(* panicked itself.                                                        *)
ReturnedIsWritten ==
  pool = "returned" /\ task["publisher"] \notin {"aborted", "panicked"} => pending = 0

(* A pool that has returned has left nothing behind: no task, and no share *)
(* that is not written.                                                    *)
ReturnedIsDone == NoTaskOutlivesPool /\ ReturnedIsWritten

(* A signal ends the process, in whatever state it finds the pool: while   *)
(* it waits for a node, during a call, with a web client that stays.       *)
SignalEndsProcess == signalled ~> main = "exited"

(* A component that is gone ends the process: the pool never goes on       *)
(* without its merger or its submitter.                                    *)
FailureEndsProcess ==
  (\E t \in Tasks : task[t] \in {"finished", "panicked"}) ~> main = "exited"

(* A failure ends the process, and ends it with an error, so that the unit *)
(* starts it again.                                                        *)
FailureIsReported == FailureEndsProcess /\ []SuccessMeansSignalled

(* What ends, ends the process, with the status it deserves.               *)
ProcessEnds == SignalEndsProcess /\ FailureIsReported
=============================================================================
