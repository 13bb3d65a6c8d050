------------------------------ MODULE Dashboard ------------------------------
(***************************************************************************)
(* A dashboard page and the server it watches: the publisher's status      *)
(* documents, the stream of one WebSocket (crates/alamo-web/src/api.rs),   *)
(* and the page's LiveStatus, which shows what the socket sends, polls     *)
(* while no socket is open and connects again (web/src/lib/                *)
(* live.svelte.ts).  Of the process, which Supervision models, the page    *)
(* sees whether its web server answers and whether it is there at all.     *)
(*                                                                         *)
(* A document is its number; 0 is none at all.  Polls are sent every five  *)
(* seconds, so that one that is slow is in flight with the next, and may   *)
(* be overtaken; how long the page waits before it connects again is left  *)
(* open.  The error text is left out: it is there while the label is       *)
(* "offline".                                                              *)
(***************************************************************************)
EXTENDS Naturals, Sequences

CONSTANTS MaxDocuments, \* bound on the documents published
          Polls,        \* bound on the requests in flight at once
          MaxBreaks     \* bound on the faults of the network

ASSUME DashboardAssumption == MaxDocuments \in Nat \ {0} /\ MaxBreaks \in Nat

VARIABLES
  process,   \* "serving", "draining" (its listener is closed) or "gone"
  page,      \* "never" opened, "open" or "closed"
  published, \* the number of the document in the watch channel
  stream,    \* the socket's task in the server: "none", "reading" or "waiting"
  unseen,    \* the channel holds a document the stream has not been woken for
  socket,    \* the page's socket: "none", "opening" or "open"
  wire,      \* what the socket still delivers
  polls,     \* the requests in flight and their answers
  shown,     \* the document the page shows
  label,     \* what the page calls its connection
  heard,     \* history: the socket that is open has delivered a document
  vanished,  \* history: the peer went without closing the socket
  breaks

streamVars == <<published, stream, unseen>>
socketVars == <<socket, wire, heard, vanished>>
showVars   == <<shown, label>>
pageVars   == <<process, page, streamVars, socketVars, polls, showVars, breaks>>

Nothing   == 0
Documents == 1..MaxDocuments

(* What a socket delivers, and the states of a request.                    *)
Opened      == <<"opened">>
Document(d) == <<"document", d>>
Closed      == <<"closed">>
Idle        == <<"idle">>
Asked       == <<"asked">>
Failed      == <<"failed">>

(* The page's start() connects and polls at once.                          *)
PageInit ==
  /\ process = "serving"
  /\ page \in {"never", "open"}
  /\ published = 1 /\ stream = "none" /\ unseen = FALSE
  /\ socket = IF page = "open" THEN "opening" ELSE "none"
  /\ wire = <<>> /\ heard = FALSE /\ vanished = FALSE
  /\ polls = [i \in Polls |-> Idle]
  /\ shown = Nothing /\ label = "connecting"
  /\ breaks = 0

Serving == process = "serving"
There   == process # "gone"

(* A socket is no good before it is open: an attempt to connect may hang.  *)
HasSocket == socket # "none"
isLive    == socket = "open"

----------------------------------------------------------------------------
(* The publisher replaces the document, and wakes the stream.              *)
Publish ==
  /\ There /\ page = "open" /\ published < MaxDocuments
  /\ published' = published + 1
  /\ unseen' = (stream # "none")
  /\ UNCHANGED <<process, page, stream, socketVars, polls, showVars, breaks>>

(* The server upgrades the connection; its task subscribes before it reads *)
(* the first document.                                                     *)
Upgrade ==
  /\ Serving /\ socket = "opening" /\ wire = <<>> /\ ~ vanished
  /\ stream' = "reading" /\ unseen' = FALSE /\ wire' = <<Opened>>
  /\ UNCHANGED <<process, page, published, socket, heard, vanished, polls, showVars, breaks>>

StreamSends ==
  /\ There /\ stream = "reading"
  /\ wire' = Append(wire, Document(published))
  /\ stream' = "waiting"
  /\ UNCHANGED <<process, page, published, unseen, socket, heard, vanished, polls, showVars, breaks>>

StreamWakes ==
  /\ There /\ stream = "waiting" /\ unseen
  /\ unseen' = FALSE /\ stream' = "reading"
  /\ UNCHANGED <<process, page, published, socketVars, polls, showVars, breaks>>

----------------------------------------------------------------------------
(* The connection cannot be made, or breaks: what was on its way may       *)
(* arrive before the end of it.  A process that is gone closes its         *)
(* sockets.  stream stands for a task whose messages arrive.               *)
Ends(rest) ==
  /\ socket # "none"
  /\ \A i \in DOMAIN wire : wire[i] # Closed
  /\ wire' = Append(rest, Closed) /\ stream' = "none" /\ unseen' = FALSE
  /\ UNCHANGED <<process, page, published, socket, heard, vanished, polls, showVars>>

ServerCloses == ~ There /\ stream # "none" /\ Ends(wire) /\ UNCHANGED breaks
Refused == ~ Serving /\ socket = "opening" /\ wire = <<>> /\ ~ vanished /\ Ends(wire) /\ UNCHANGED breaks
SocketBreaks ==
  breaks < MaxBreaks /\ breaks' = breaks + 1 /\ (Ends(wire) \/ Ends(<<>>))

(* Or the peer is gone, and nothing tells the page; the browser may give   *)
(* up on it at some time.                                                  *)
PeerVanishes ==
  /\ breaks < MaxBreaks /\ breaks' = breaks + 1
  /\ socket # "none" /\ ~ vanished
  /\ vanished' = TRUE /\ wire' = <<>> /\ stream' = "none" /\ unseen' = FALSE
  /\ UNCHANGED <<process, page, published, socket, heard, polls, showVars>>

GivesUp == vanished /\ Ends(wire) /\ UNCHANGED breaks

----------------------------------------------------------------------------
(* The handlers of the socket.                                             *)
Receive(message) ==
  /\ page = "open" /\ wire # <<>> /\ Head(wire) = message
  /\ wire' = Tail(wire)
  /\ UNCHANGED <<process, page, streamVars, vanished, polls, breaks>>

OnOpen ==
  /\ Receive(Opened)
  /\ socket' = "open" /\ heard' = FALSE /\ label' = "live" /\ UNCHANGED shown

OnMessage(d) ==
  /\ Receive(Document(d))
  /\ shown' = d /\ heard' = TRUE /\ UNCHANGED <<socket, label>>

LabelAfterClose == IF label = "live" THEN "polling" ELSE label

OnClose ==
  /\ Receive(Closed)
  /\ socket' = "none" /\ heard' = FALSE
  /\ label' = LabelAfterClose /\ UNCHANGED shown

Connect ==
  /\ page = "open" /\ socket = "none"
  /\ socket' = "opening" /\ vanished' = FALSE
  /\ UNCHANGED <<process, page, streamVars, wire, heard, polls, showVars, breaks>>

(* pollOnce, up to its request, the server's answer, and what is done with *)
(* it: nothing if a socket has opened since.                               *)
PollVars == <<process, page, streamVars, socketVars>>

Poll(i) ==
  /\ page = "open" /\ polls[i] = Idle /\ ~ isLive
  /\ polls' = [polls EXCEPT ![i] = Asked]
  /\ UNCHANGED <<PollVars, showVars, breaks>>

Answer(i) ==
  /\ polls[i] = Asked /\ Serving
  /\ polls' = [polls EXCEPT ![i] = Document(published)]
  /\ UNCHANGED <<PollVars, showVars, breaks>>

PollFails(i) ==
  /\ polls[i] = Asked
  /\ breaks' = IF Serving THEN breaks + 1 ELSE breaks
  /\ breaks' <= MaxBreaks
  /\ polls' = [polls EXCEPT ![i] = Failed]
  /\ UNCHANGED <<PollVars, showVars>>

(* isLive() again: a socket that has opened since wins.                    *)
AfterAnswer(answer) ==
  IF isLive THEN UNCHANGED showVars
  ELSE IF answer = Failed THEN label' = "offline" /\ UNCHANGED shown
  ELSE shown' = answer[2] /\ label' = "polling"

PollReturns(i) ==
  /\ polls[i] \notin {Idle, Asked}
  /\ polls' = [polls EXCEPT ![i] = Idle]
  /\ AfterAnswer(polls[i])
  /\ UNCHANGED <<PollVars, breaks>>

(* stop(): the timers go, and the socket.                                  *)
Leave ==
  /\ page = "open" /\ page' = "closed"
  /\ socket' = "none" /\ wire' = <<>> /\ heard' = FALSE
  /\ stream' = "none" /\ unseen' = FALSE
  /\ UNCHANGED <<process, published, vanished, polls, showVars, breaks>>

Server == Upgrade \/ Refused \/ StreamSends \/ StreamWakes \/ ServerCloses
Handler == OnOpen \/ OnClose \/ \E d \in Documents : OnMessage(d)
Network == SocketBreaks \/ PeerVanishes \/ GivesUp
Request(i) == Answer(i) \/ PollFails(i)

(* The listener is closed while the process drains; streams go on until    *)
(* it is gone.                                                             *)
Drains == Serving /\ process' = "draining"
Goes   == There /\ process' = "gone"
ProcessEnding ==
  (Drains \/ Goes) /\ page = "open"
  /\ UNCHANGED <<page, streamVars, socketVars, polls, showVars, breaks>>

PageNext ==
  \/ Publish \/ Server \/ Handler \/ Network \/ Connect \/ Leave \/ ProcessEnding
  \/ \E i \in Polls : Poll(i) \/ Request(i) \/ PollReturns(i)

(* The browser runs handlers and timers, the server its tasks, and a       *)
(* request is answered or fails.  An attempt to connect that hangs is a    *)
(* peer that vanishes.                                                     *)
PageFairness ==
  /\ WF_pageVars(Server) /\ WF_pageVars(Handler) /\ WF_pageVars(Connect)
  /\ WF_pageVars(\E i \in Polls : Poll(i))
  /\ \A i \in Polls : WF_pageVars(Request(i)) /\ WF_pageVars(PollReturns(i))

PageSpec == PageInit /\ [][PageNext]_pageVars /\ PageFairness

----------------------------------------------------------------------------
\* Page, stream and requests (live.svelte.ts, api.rs) keep their types, and only a page that
\* is open has a socket.
PageTypeOK ==
  /\ process \in {"serving", "draining", "gone"} /\ page \in {"never", "open", "closed"}
  /\ published \in Documents /\ shown \in 0..published
  /\ stream \in {"none", "reading", "waiting"} /\ unseen \in BOOLEAN
  /\ socket \in {"none", "opening", "open"} /\ (page # "open" => socket = "none")
  /\ wire \in Seq({Opened, Closed} \union {Document(d) : d \in Documents})
  /\ polls \in [Polls -> {Idle, Asked, Failed} \union {Document(d) : d \in Documents}]
  /\ label \in {"connecting", "live", "polling", "offline"}
  /\ heard \in BOOLEAN /\ vanished \in BOOLEAN /\ breaks \in 0..MaxBreaks

(* The label says "live" exactly while the socket is open, although polls  *)
(* that were sent before are still answered, and old sockets close.        *)
LabelIsHonest == page = "open" => (label = "live" <=> socket = "open")

(* While a socket delivers, no document gives way to an older one: the     *)
(* answers to polls sent earlier are passed over.                          *)
LiveSnapshotsWin ==
  [][socket = "open" /\ heard /\ heard' => shown' >= shown]_pageVars

(* Half open: the page takes a socket for open whose peer has vanished.    *)
Deceived == socket = "open" /\ vanished

(* A page on a process that goes on serving ends up with the newest        *)
(* document and keeps it, whichever way the documents come, and although   *)
(* polls overtake each other and sockets break.                            *)
FollowsPool ==
  <>[](Serving /\ page = "open" /\ ~ Deceived) => <>[](shown = published)

(* A page notices that the process is gone, and does not change its mind   *)
(* on answers that were still on their way.                                *)
NoticesEnd ==
  <>[](page = "open" /\ ~ There /\ ~ Deceived) => <>[](label = "offline")

(* What the page shows and says is the pool's state.                       *)
PageFollows == []LabelIsHonest /\ LiveSnapshotsWin /\ FollowsPool /\ NoticesEnd
=============================================================================
