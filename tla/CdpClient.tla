----------------------------- MODULE CdpClient -----------------------------
(***************************************************************************)
(* CDPWebSocketClient::SendCommands (cdp_websocket_client.cc): a blocking  *)
(* client that finds the page target of a child, opens a WebSocket to it,  *)
(* sends one command after the other and reads until it has the reply.     *)
(*                                                                         *)
(* The child is external: it works on what it receives in order, answers   *)
(* every command, sends events and pings in between, may be slow, may stop *)
(* in the middle of a frame, and may close the connection.                 *)
(***************************************************************************)
EXTENDS Naturals, Sequences, FiniteSets

CONSTANTS
  MaxReads,   \* frames read while waiting for one reply (20)
  MaxNoise    \* bound of the model: frames that are no replies

ASSUME ClientAssumption == MaxReads \in Nat \ {0} /\ MaxNoise \in Nat

VARIABLES
  pc,        \* what SendCommands does next
  count,     \* number of commands; the id of the i-th is i
  next,      \* the command that is sent or waited for
  reads,     \* frames read for it
  answered,  \* what the client has read of each command: "none", "ok", "error"
  result,    \* "none" yet, a socket, or -1
  inbox,     \* commands on their way to the child
  outbox,    \* frames on their way to the client
  opened,    \* the child has its end of the connection open
  synced,    \* the client reads at a frame boundary
  noise,     \* frames sent that are no replies
  executed,  \* the child's results: "none", "ok", "error"
  doneAt     \* order in which it worked on the commands

clientVars == <<pc, count, next, reads, answered, result>>
netVars == <<inbox, outbox, opened, synced, noise>>
targetVars == <<executed, doneAt>>
cdpVars == <<clientVars, netVars, targetVars>>

Outcomes == {"none", "ok", "error"}
Reply(i, r) == [kind |-> "reply", id |-> i, result |-> r]
Frames == [kind : {"reply"}, id : Nat, result : Outcomes]
            \cup [kind : {"event", "ping", "malformed", "half"}]

ClientTypeOK ==
  /\ pc \in {"idle", "discover", "targets", "connect", "handshake", "send", "read", "returned"}
  /\ count \in Nat
  /\ next \in 1 .. count + 1
  /\ reads \in 0 .. MaxReads
  /\ answered \in [1 .. count -> Outcomes]
  /\ result \in {"none", "fd", "error"}
  /\ inbox \in Seq(1 .. count)
  /\ outbox \in Seq(Frames)
  /\ opened \in BOOLEAN
  /\ synced \in BOOLEAN
  /\ noise \in 0 .. MaxNoise
  /\ executed \in [1 .. count -> Outcomes]
  /\ doneAt \in Seq(1 .. count)

ClientInit ==
  /\ pc = "idle"
  /\ count = 0
  /\ next = 1
  /\ reads = 0
  /\ answered = <<>>
  /\ result = "none"
  /\ inbox = <<>>
  /\ outbox = <<>>
  /\ opened = FALSE
  /\ synced = TRUE
  /\ noise = 0
  /\ executed = <<>>
  /\ doneAt = <<>>

-----------------------------------------------------------------------------
(***************************************************************************)
(* SendCommands.                                                           *)
(***************************************************************************)

\* A call with n commands; none is refused at once.
SendCommands(n) ==
  /\ pc = "idle"
  /\ count' = n
  /\ next' = 1
  /\ reads' = 0
  /\ answered' = [i \in 1 .. n |-> "none"]
  /\ executed' = [i \in 1 .. n |-> "none"]
  /\ IF n = 0 THEN pc' = "returned" /\ result' = "error"
     ELSE pc' = "discover" /\ result' = "none"
  /\ UNCHANGED <<netVars, doneAt>>

\* close(sock) and -1.
Fail ==
  /\ pc' = "returned"
  /\ result' = "error"
  /\ opened' = FALSE
  /\ UNCHANGED <<count, next, reads, answered, inbox, outbox, synced, noise, targetVars>>

GoTo(step) ==
  /\ pc' = step
  /\ UNCHANGED <<count, next, reads, answered, result, targetVars>>

\* The target list, over a connection of its own: no connection, no answer or
\* one without a body is "".
HttpGet ==
  /\ pc = "discover"
  /\ Fail \/ (GoTo("targets") /\ UNCHANGED netVars)

\* A list that does not parse, or has no target with a WebSocket URL; a page
\* is preferred, any target will do.
GetPageWebSocketUrl ==
  /\ pc = "targets"
  /\ Fail \/ (GoTo("connect") /\ UNCHANGED netVars)

TcpConnect ==
  /\ pc = "connect"
  /\ \/ Fail
     \/ /\ GoTo("handshake")
        /\ opened' = TRUE
        /\ UNCHANGED <<inbox, outbox, synced, noise>>

\* A reply without 101 or without Upgrade, one that is too long, or none.
WebSocketHandshake ==
  /\ pc = "handshake"
  /\ Fail \/ (opened /\ GoTo("send") /\ UNCHANGED netVars)

\* SendFrame fails, on a closed connection or when a child that does not read
\* lets the send time out: all_success is cleared and the loop left.
SendFails ==
  /\ pc = "send"
  /\ Fail

\* A frame sent to a child that has just closed is accepted by the kernel and
\* lost.
SendFrame ==
  /\ pc = "send"
  /\ pc' = "read"
  /\ reads' = 0
  /\ inbox' = IF opened THEN Append(inbox, next) ELSE inbox
  /\ UNCHANGED <<count, next, answered, result, outbox, opened, synced, noise, targetVars>>

\* A loop whose bound is one too large.
NextCommandPastEnd ==
  /\ next' = next + 1
  /\ IF next = count + 1 THEN pc' = "returned" /\ result' = "fd"
     ELSE pc' = "send" /\ UNCHANGED result
  /\ UNCHANGED <<count, reads>>

\* The loop over the commands, when one is done with.
NextCommand ==
  /\ next' = next + 1
  /\ IF next = count THEN pc' = "returned" /\ result' = "fd"
     ELSE pc' = "send" /\ UNCHANGED result
  /\ UNCHANGED <<count, reads>>

\* A loop that reads until a reply comes.
SkipForever == UNCHANGED <<pc, count, next, reads, answered, result>>

\* A frame that is no reply to the command: read on, or give up waiting for it
\* and go on with the next.
Skip ==
  /\ IF reads + 1 < MaxReads
     THEN reads' = reads + 1 /\ UNCHANGED <<pc, count, next, result>>
     ELSE NextCommand
  /\ UNCHANGED answered

\* Any reply will do.
IsReplyAny(f) == f.kind = "reply"

\* response_id == expected_id.
IsReply(f) == f.kind = "reply" /\ f.id = next

\* ReadFrame finds the next frame whole.  A ping yields "", an event, a
\* malformed text and a reply to another command are skipped.
ReadFrame ==
  /\ pc = "read"
  /\ synced
  /\ outbox # <<>>
  /\ Head(outbox).kind # "half"
  /\ outbox' = Tail(outbox)
  /\ IF IsReply(Head(outbox))
     THEN /\ answered' = [answered EXCEPT ![next] = Head(outbox).result]
          /\ NextCommand
     ELSE Skip
  /\ UNCHANGED <<inbox, opened, synced, noise, targetVars>>

\* ReadFrame times out, or finds the connection closed: "".
ReadNothing ==
  /\ pc = "read"
  /\ outbox = <<>>
  /\ Skip
  /\ UNCHANGED <<netVars, targetVars>>

\* RecvAll times out within a frame, or the frame is too large: what was read
\* of it is dropped, and the next read takes the rest of it for a header.  That
\* read may happen to end where a frame does.
ReadTorn ==
  /\ pc = "read"
  /\ outbox # <<>>
  /\ Head(outbox).kind = "half" \/ ~synced
  /\ synced' \in IF synced THEN {FALSE} ELSE BOOLEAN
  /\ outbox' = Tail(outbox)
  /\ Skip
  /\ UNCHANGED <<inbox, opened, noise, targetVars>>

ClientStep ==
  \/ HttpGet
  \/ GetPageWebSocketUrl
  \/ TcpConnect
  \/ WebSocketHandshake
  \/ SendFails
  \/ SendFrame
  \/ ReadFrame
  \/ ReadNothing
  \/ ReadTorn

-----------------------------------------------------------------------------
(***************************************************************************)
(* The child's end.                                                        *)
(***************************************************************************)

\* The child works on a command and answers, with an error perhaps.
TargetExecutes ==
  /\ opened
  /\ inbox # <<>>
  /\ \E r \in {"ok", "error"} :
       /\ executed' = [executed EXCEPT ![Head(inbox)] = r]
       /\ outbox' = Append(outbox, Reply(Head(inbox), r))
  /\ doneAt' = Append(doneAt, Head(inbox))
  /\ inbox' = Tail(inbox)
  /\ UNCHANGED <<clientVars, opened, synced, noise>>

\* An event, a ping, a frame of something else, or half a frame before a
\* stall.
TargetNoise ==
  /\ opened
  /\ noise < MaxNoise
  /\ pc \in {"send", "read"}
  /\ noise' = noise + 1
  /\ \E k \in {"event", "ping", "malformed", "half"} : outbox' = Append(outbox, [kind |-> k])
  /\ UNCHANGED <<clientVars, inbox, opened, synced, targetVars>>

\* The child is gone, or its page: what it was sent is lost.
TargetCloses ==
  /\ opened
  /\ opened' = FALSE
  /\ inbox' = <<>>
  /\ UNCHANGED <<clientVars, outbox, synced, noise, targetVars>>

TargetStep == TargetExecutes \/ TargetNoise \/ TargetCloses
=============================================================================
