------------------------------ MODULE CdpProxy ------------------------------
(***************************************************************************)
(* CDPProxyHandler (cdp_proxy_handler.cc) and the WebSocket side of        *)
(* WorkspaceApiHandler: sessions that proxy a WebSocket of an API client   *)
(* to the CDP endpoint of a child browser.                                 *)
(*                                                                         *)
(* Everything runs on the API thread, one action per task or callback,     *)
(* except the look-up of the workspace, a task of the UI thread.  A socket *)
(* call that completes synchronously is the pending call completing in the *)
(* next step.  Connection ids are never used twice.                        *)
(***************************************************************************)
EXTENDS Naturals, Sequences, FiniteSets

CONSTANTS
  Conns,        \* ids HttpServer gives to connections
  Workspaces,   \* workspace ids in the paths of upgrade requests
  NoSession,    \* no entry in sessions_
  MaxFrames,    \* bound of the model: frames a child sends on a connection
  MaxMessages   \* bound of the model: messages a client sends

ASSUME ProxyAssumption ==
  /\ MaxFrames \in Nat
  /\ MaxMessages \in Nat

VARIABLES
  status, open,  \* RunningWorkspaceManager, as WorkspaceLifecycle promises it
  client,        \* the client's end of each connection
  task,          \* the look-up of the workspace or its reply, under way
  session,       \* sessions_
  upgrade,       \* what the child answered to the upgrade request
  inbound,       \* pieces of the child's stream not read yet
  peer,          \* the child's end of the connection
  sent,          \* messages the client has sent
  relayed,       \* the ones written to the child
  frames,        \* frames the child has sent
  received       \* frames sent over the client's WebSocket

managerVars == <<status, open>>
clientVars == <<client, sent, received>>
proxyVars == <<task, session>>
childVars == <<upgrade, inbound, peer, relayed, frames>>
vars == <<managerVars, clientVars, proxyVars, childVars>>

Manager == INSTANCE WorkspaceLifecycle
             WITH Ids <- Workspaces, state <- status

\* ProxySession: target_socket, handshake_complete and the number of Reads
\* outstanding on the socket.
ProxySession == [socket : {"none", "connecting", "connected"},
                 handshake : {"waiting", "complete"},
                 reads : Nat]

\* The child's stream: the parts of its response that OnTargetRead looks for,
\* which may arrive in separate reads, and then frames.
Pieces == {"HTTP/1.1", "101", "Switching Protocols", "404", "end", "frame"}
Accepts == <<"HTTP/1.1", "101", "Switching Protocols", "end">>
Refuses == <<"HTTP/1.1", "404", "end">>

\* The look-up of a workspace, and its two replies.
Tasks == {"none", "connect", "drop"} \cup Workspaces

TypeOK ==
  /\ status \in [Workspaces -> {"stopped", "running", "crashed"}]
  /\ open \in BOOLEAN
  /\ client \in [Conns -> {"none", "open", "refused", "gone"}]
  /\ task \in [Conns -> Tasks]
  /\ session \in [Conns -> ProxySession \cup {NoSession}]
  /\ upgrade \in [Conns -> {"none", "accepted", "refused"}]
  /\ inbound \in [Conns -> Seq(Pieces)]
  /\ peer \in [Conns -> {"up", "closed"}]
  /\ sent \in [Conns -> 0 .. MaxMessages]
  /\ relayed \in [Conns -> 0 .. MaxMessages]
  /\ frames \in [Conns -> 0 .. MaxFrames]
  /\ received \in [Conns -> 0 .. MaxFrames]

Init ==
  /\ Manager!Init
  /\ client = [c \in Conns |-> "none"]
  /\ task = [c \in Conns |-> "none"]
  /\ session = [c \in Conns |-> NoSession]
  /\ upgrade = [c \in Conns |-> "none"]
  /\ inbound = [c \in Conns |-> <<>>]
  /\ peer = [c \in Conns |-> "closed"]
  /\ sent = [c \in Conns |-> 0]
  /\ relayed = [c \in Conns |-> 0]
  /\ frames = [c \in Conns |-> 0]
  /\ received = [c \in Conns |-> 0]

-----------------------------------------------------------------------------
(***************************************************************************)
(* Sessions.                                                               *)
(***************************************************************************)

\* The proxy with its HttpServer wired up.
HasServerWired == TRUE

\* server_ is not null: CDPProxyHandler::set_server has no caller.
HasServer == FALSE

GetSession(c) == session[c] # NoSession

\* A session whose flag is not initialised.
CreateSessionUninitialised(c) ==
  session' = [session EXCEPT ![c] = [socket |-> "none", handshake |-> "garbage",
                                     reads |-> 0]]

CreateSession(c) ==
  session' = [session EXCEPT ![c] = [socket |-> "none", handshake |-> "waiting",
                                     reads |-> 0]]

\* The socket goes with its session, and takes its callbacks along.
DestroySession(c) ==
  /\ session' = [session EXCEPT ![c] = NoSession]
  /\ client' = IF HasServer /\ GetSession(c)
               THEN [client EXCEPT ![c] = "gone"] ELSE client

-----------------------------------------------------------------------------
(***************************************************************************)
(* The client.                                                             *)
(***************************************************************************)

\* OnWebSocketRequest for a .../cdp/... path: the upgrade is accepted at once,
\* the look-up of the workspace is posted to the UI thread.
HandleWebSocketUpgrade(c, w) ==
  /\ client[c] = "none"
  /\ client' = [client EXCEPT ![c] = "open"]
  /\ CreateSession(c)
  /\ task' = [task EXCEPT ![c] = w]
  /\ UNCHANGED <<managerVars, sent, received, childVars>>

\* OnWebSocketRequest for any other path: 404.
RefuseUpgrade(c) ==
  /\ client[c] = "none"
  /\ client' = [client EXCEPT ![c] = "refused"]
  /\ UNCHANGED <<managerVars, sent, received, proxyVars, childVars>>

\* The payload is written to the socket as it is, or the write fails at once.
\* A write that fails later is only logged.
ForwardToTarget(c) ==
  \/ /\ relayed' = [relayed EXCEPT ![c] = @ + 1]
     /\ UNCHANGED <<client, session>>
  \/ /\ peer[c] = "closed"
     /\ DestroySession(c)
     /\ UNCHANGED relayed

\* A message is relayed as soon as there is a socket for it.
MayForwardUnready(c) == GetSession(c) /\ session[c].socket = "connected"

MayForward(c) == GetSession(c) /\ session[c].handshake = "complete"

\* Messages that come before the handshake is complete are dropped.
OnWebSocketMessage(c) ==
  /\ client[c] = "open"
  /\ sent[c] < MaxMessages
  /\ sent' = [sent EXCEPT ![c] = @ + 1]
  /\ \/ MayForward(c) /\ ForwardToTarget(c)
     \/ ~MayForward(c) /\ UNCHANGED <<client, session, relayed>>
  /\ UNCHANGED <<managerVars, received, task, upgrade, inbound, peer, frames>>

\* The client goes away: OnClose, OnClientDisconnect.
OnClose(c) ==
  /\ client[c] \in {"open", "refused"}
  /\ client' = [client EXCEPT ![c] = "gone"]
  /\ session' = [session EXCEPT ![c] = NoSession]
  /\ UNCHANGED <<managerVars, sent, received, task, childVars>>

-----------------------------------------------------------------------------
(***************************************************************************)
(* Finding the child and connecting to it.                                 *)
(***************************************************************************)

\* The task on the UI thread, which runs only while the manager exists.
LookUpWorkspace(c) ==
  /\ open
  /\ task[c] \in Workspaces
  /\ task' = [task EXCEPT ![c] =
                IF status[task[c]] = "running" THEN "connect" ELSE "drop"]
  /\ UNCHANGED <<managerVars, clientVars, session, childVars>>

\* The reply for a workspace that is not running: OnClientDisconnect.
DropSession(c) ==
  /\ task[c] = "drop"
  /\ task' = [task EXCEPT ![c] = "none"]
  /\ DestroySession(c)
  /\ UNCHANGED <<managerVars, sent, received, childVars>>

\* A reply that makes the session it does not find.
ConnectToTargetUnchecked(c) ==
  /\ task[c] = "connect"
  /\ task' = [task EXCEPT ![c] = "none"]
  /\ session' = [session EXCEPT ![c] = [socket |-> "connecting",
                   handshake |-> "waiting", reads |-> 0]]
  /\ UNCHANGED <<managerVars, clientVars, childVars>>

\* The reply for a running one.  The client may have left in the meantime.
ConnectToTarget(c) ==
  /\ task[c] = "connect"
  /\ task' = [task EXCEPT ![c] = "none"]
  /\ session' = IF GetSession(c)
                THEN [session EXCEPT ![c] = [socket |-> "connecting",
                        handshake |-> "waiting", reads |-> 0]]
                ELSE session
  /\ UNCHANGED <<managerVars, clientVars, childVars>>

StartTargetRead(s) == [s EXCEPT !.reads = @ + 1]

\* OnTargetConnected with OK: SendHandshake writes the upgrade request and
\* starts the first read.
OnTargetConnected(c) ==
  /\ GetSession(c)
  /\ session[c].socket = "connecting"
  /\ session' = [session EXCEPT ![c] =
                   StartTargetRead([@ EXCEPT !.socket = "connected"])]
  /\ peer' = [peer EXCEPT ![c] = "up"]
  /\ UNCHANGED <<managerVars, clientVars, task, upgrade, inbound, relayed, frames>>

\* OnTargetConnected with an error, or a handshake that cannot be written.
ConnectFails(c) ==
  /\ GetSession(c)
  /\ session[c].socket = "connecting"
  /\ DestroySession(c)
  /\ UNCHANGED <<managerVars, sent, received, task, childVars>>

-----------------------------------------------------------------------------
(***************************************************************************)
(* Reading from the child.                                                 *)
(***************************************************************************)

Has(data, piece) == \E k \in 1 .. Len(data) : data[k] = piece
FramesIn(data) == Cardinality({k \in 1 .. Len(data) : data[k] = "frame"})

\* ForwardToClient, on the session s of c: without a server nothing is sent
\* and the next read is not started either.
ForwardToClient(c, s, n) ==
  IF HasServer
  THEN /\ received' = [received EXCEPT ![c] = @ + n]
       /\ session' = [session EXCEPT ![c] = StartTargetRead(s)]
  ELSE /\ session' = [session EXCEPT ![c] = s]
       /\ UNCHANGED received

\* The 101 response: what follows it in the buffer is forwarded first, then
\* the next read is started.
CompleteHandshake(c, s, data) ==
  LET ready == StartTargetRead([s EXCEPT !.handshake = "complete"])
  IN IF FramesIn(data) > 0
     THEN ForwardToClient(c, ready, FramesIn(data))
     ELSE session' = [session EXCEPT ![c] = ready] /\ UNCHANGED received

\* Giving up on a header that comes in two reads, without closing.
ReadMoreHeaderNot(c, s) == session' = [session EXCEPT ![c] = s]

\* A partial header: what was read of it is not kept for the next read.
ReadMoreHeader(c, s) == session' = [session EXCEPT ![c] = StartTargetRead(s)]

\* OnTargetRead with data: the first n pieces of the stream.
OnTargetRead(c, n) ==
  LET data == SubSeq(inbound[c], 1, n)
      s == [session[c] EXCEPT !.reads = @ - 1]
      complete == Has(data, "101") /\ Has(data, "Switching Protocols")
      failed == Has(data, "HTTP/1.1") /\ ~Has(data, "101")
  IN
  /\ GetSession(c)
  /\ session[c].reads > 0
  /\ n \in 1 .. Len(inbound[c])
  /\ inbound' = [inbound EXCEPT ![c] = SubSeq(@, n + 1, Len(@))]
  /\ \/ /\ s.handshake = "complete"
        /\ ForwardToClient(c, s, FramesIn(data))
        /\ UNCHANGED client
     \/ /\ s.handshake = "waiting" /\ complete
        /\ CompleteHandshake(c, s, data)
        /\ UNCHANGED client
     \/ /\ s.handshake = "waiting" /\ ~complete /\ failed
        /\ DestroySession(c)
        /\ UNCHANGED received
     \/ /\ s.handshake = "waiting" /\ ~complete /\ ~failed
        /\ ReadMoreHeader(c, s)
        /\ UNCHANGED <<client, received>>
  /\ UNCHANGED <<managerVars, sent, task, upgrade, peer, relayed, frames>>

\* OnTargetRead with 0 or an error.
OnTargetClosed(c) ==
  /\ GetSession(c)
  /\ session[c].reads > 0
  /\ inbound[c] = <<>>
  /\ peer[c] = "closed"
  /\ DestroySession(c)
  /\ UNCHANGED <<managerVars, sent, received, task, childVars>>

-----------------------------------------------------------------------------
(***************************************************************************)
(* The child, as the proxy meets it.                                       *)
(***************************************************************************)

ChildAnswers(c, a) ==
  /\ peer[c] = "up"
  /\ upgrade[c] = "none"
  /\ upgrade' = [upgrade EXCEPT ![c] = a]
  /\ inbound' = [inbound EXCEPT ![c] =
                   IF a = "accepted" THEN Accepts ELSE Refuses]
  /\ UNCHANGED <<managerVars, clientVars, proxyVars, peer, relayed, frames>>

ChildSendsFrame(c) ==
  /\ peer[c] = "up"
  /\ upgrade[c] = "accepted"
  /\ frames[c] < MaxFrames
  /\ frames' = [frames EXCEPT ![c] = @ + 1]
  /\ inbound' = [inbound EXCEPT ![c] = Append(@, "frame")]
  /\ UNCHANGED <<managerVars, clientVars, proxyVars, upgrade, peer, relayed>>

ChildCloses(c) ==
  /\ peer[c] = "up"
  /\ peer' = [peer EXCEPT ![c] = "closed"]
  /\ UNCHANGED <<managerVars, clientVars, proxyVars, upgrade, inbound, relayed,
                 frames>>

ManagerStep ==
  /\ Manager!Next
  /\ UNCHANGED <<clientVars, proxyVars, childVars>>

-----------------------------------------------------------------------------
Next ==
  \/ \E c \in Conns, w \in Workspaces : HandleWebSocketUpgrade(c, w)
  \/ \E c \in Conns : RefuseUpgrade(c)
  \/ \E c \in Conns : OnWebSocketMessage(c)
  \/ \E c \in Conns : OnClose(c)
  \/ \E c \in Conns : LookUpWorkspace(c)
  \/ \E c \in Conns : DropSession(c)
  \/ \E c \in Conns : ConnectToTarget(c)
  \/ \E c \in Conns : OnTargetConnected(c)
  \/ \E c \in Conns : ConnectFails(c)
  \/ \E c \in Conns : \E n \in 1 .. Len(inbound[c]) : OnTargetRead(c, n)
  \/ \E c \in Conns : OnTargetClosed(c)
  \/ \E c \in Conns, a \in {"accepted", "refused"} : ChildAnswers(c, a)
  \/ \E c \in Conns : ChildSendsFrame(c)
  \/ \E c \in Conns : ChildCloses(c)
  \/ ManagerStep

Spec == Init /\ [][Next]_vars

\* Posted tasks run, a connect ends one way or the other and a read with
\* something to return returns.  Clients, children and the manager owe nothing.
Fairness ==
  \A c \in Conns :
    /\ WF_vars(LookUpWorkspace(c))
    /\ WF_vars(DropSession(c))
    /\ WF_vars(ConnectToTarget(c))
    /\ WF_vars(OnTargetConnected(c) \/ ConnectFails(c))
    /\ WF_vars(\E n \in 1 .. Len(inbound[c]) : OnTargetRead(c, n))
    /\ WF_vars(OnTargetClosed(c))

FairSpec == Spec /\ Fairness

-----------------------------------------------------------------------------
(***************************************************************************)
(* Properties.                                                             *)
(***************************************************************************)

\* A target socket never has two reads outstanding, although OnTargetRead and
\* ForwardToClient both start the next one (a StreamSocket takes one at a time).
OneRead == \A c \in Conns : GetSession(c) => session[c].reads <= 1

\* The proxy keeps no session, and so no socket to a child, for a client that
\* has gone, whatever was still under way when it went.
NoZombieSession == \A c \in Conns : GetSession(c) => client[c] = "open"

\* A child gets nothing from the client before it has accepted the upgrade,
\* and nothing at all if it has refused.
NoPayloadBeforeUpgrade ==
  \A c \in Conns : relayed[c] > 0 => upgrade[c] = "accepted"

\* A child that closes while the handshake is under way ends the session,
\* unless its answer was already on its way.
CloseDuringHandshakeNoticed ==
  \A c \in Conns :
    (GetSession(c) /\ session[c].socket = "connected" /\ peer[c] = "closed"
       /\ session[c].handshake = "waiting")
      ~> (GetSession(c) => session[c].handshake = "complete")

\* "Frames are relayed bidirectionally until either side disconnects": a frame
\* of the child reaches the client, or one of them has gone.
FramesRelayed ==
  \A c \in Conns : \A n \in 1 .. MaxFrames :
    (GetSession(c) /\ session[c].handshake = "complete" /\ frames[c] >= n)
      ~> (received[c] >= n \/ ~GetSession(c) \/ peer[c] = "closed")
=============================================================================
