-------------------------- MODULE Injection_proofs --------------------------
(***************************************************************************)
(* Proofs about Injection, for any bodies, any number of frames read for   *)
(* one reply and any number of frames that are no replies.                 *)
(***************************************************************************)
EXTENDS Injection, PageEnvironment_proofs, SequenceTheorems, TLAPS

-----------------------------------------------------------------------------
(***************************************************************************)
(* The inductive invariant.                                                *)
(***************************************************************************)

\* Nothing is on its way before SendCommands is called.
IdleIsQuiet ==
  pc = "idle" => inbox = <<>> /\ outbox = <<>> /\ doneAt = <<>> /\ result = "none"

\* The call works on the batch of the workspace, within its end.
InBatch ==
  /\ pc # "idle" => count = Len(Batch)
  /\ pc \notin {"idle", "returned"} => next <= count

\* The last command that was sent.
LastSent == IF pc = "read" THEN next ELSE next - 1

\* Commands are sent, received and worked on in the order of the batch, each of
\* them at most once.
InOrder ==
  /\ \A k, l \in 1 .. Len(doneAt) : k < l => doneAt[k] < doneAt[l]
  /\ \A k, l \in 1 .. Len(inbox) : k < l => inbox[k] < inbox[l]
  /\ \A k \in 1 .. Len(doneAt), l \in 1 .. Len(inbox) : doneAt[k] < inbox[l]
  /\ \A k \in 1 .. Len(doneAt) : doneAt[k] <= LastSent
  /\ \A k \in 1 .. Len(inbox) : inbox[k] <= LastSent

\* A command has a result when the child has worked on it.
ResultsAreReal ==
  \A i \in 1 .. count : executed[i] # "none" => \E k \in 1 .. Len(doneAt) : doneAt[k] = i

\* A reply on its way carries the result of the command it names.
RepliesAreReal ==
  \A k \in 1 .. Len(outbox) :
    outbox[k].kind = "reply" =>
      /\ outbox[k].id \in 1 .. count
      /\ outbox[k].result # "none"
      /\ outbox[k].result = executed[outbox[k].id]

\* Every setting of a workspace has a value its member can have; the lists are
\* empty, because no body sets them, and no time is less than a millisecond after
\* the null time.
Typed(w) ==
  /\ \A k \in Text \cup Numbers \cup Flags : w[k] # Bad
  /\ \A k \in Lists : w[k] = <<>>
  /\ \A k \in Times : w[k] \in Nat /\ (w[k] = 0 \/ w[k] >= TicksPerMilli)
  /\ w["type"] \in {"kNormal", "kFingerprint"}
  /\ w["color"] \in 0 .. 2^ColorBits - 1

\* Settings that are stored as they come in a body.
Plain == (Text \cup Numbers \cup Flags) \ {"id", "fingerprint_seed"}

\* The workspace has what the client configured, also after a reload.
StoredAsConfigured == \A k \in Plain : Finds(body, k) => ws[k] = body[k]

\* It keeps the seed it was created with, without which the engine's part of the
\* script is empty.
Seeded == ws["fingerprint_seed"] # 0

ExchangeInv ==
  /\ IdleIsQuiet /\ InBatch
  /\ InOrder /\ ResultsAreReal
  /\ RepliesAreReal /\ AnswersAreReal

InjectionInv == TypeOK /\ Typed(ws) /\ StoredAsConfigured /\ Seeded /\ ExchangeInv

-----------------------------------------------------------------------------
(***************************************************************************)
(* What steps do.                                                          *)
(***************************************************************************)

\* A step of the client works on no command itself, sends the next one or none,
\* takes at most one frame and believes only the reply it waits for.
LEMMA ClientEffects ==
  ASSUME TypeOK, ClientStep
  PROVE  /\ UNCHANGED <<count, executed, doneAt, noise>>
         /\ pc \notin {"idle", "returned"} /\ pc' # "idle"
         /\ SendFrame \/ (UNCHANGED inbox /\ LastSent' = LastSent)
         /\ UNCHANGED outbox \/ (outbox # <<>> /\ outbox' = Tail(outbox))
         /\ \/ UNCHANGED answered
            \/ /\ pc = "read" /\ outbox # <<>> /\ IsReply(Head(outbox))
               /\ answered' = [answered EXCEPT ![next] = Head(outbox).result]
<1>a. next \in Nat
  BY DEF TypeOK, ClientTypeOK
<1> USE DEF LastSent, clientVars, netVars, targetVars
<1>1. CASE HttpGet \/ GetPageWebSocketUrl \/ TcpConnect \/ WebSocketHandshake
  BY <1>1 DEF HttpGet, GetPageWebSocketUrl, TcpConnect, WebSocketHandshake, Fail, GoTo
<1>2. CASE SendFails
  BY <1>2 DEF SendFails, Fail
<1>3. CASE SendFrame
  BY <1>3 DEF SendFrame
<1>4. Skip /\ pc = "read" => /\ pc' # "idle" /\ LastSent' = LastSent
                             /\ UNCHANGED <<count, answered>>
  BY <1>a DEF Skip, NextCommand
<1>5. CASE ReadFrame
  <2>1. CASE IsReply(Head(outbox))
    BY <1>5, <2>1, <1>a DEF ReadFrame, NextCommand
  <2>2. CASE ~IsReply(Head(outbox))
    BY <1>5, <2>2, <1>4 DEF ReadFrame
  <2> QED
    BY <2>1, <2>2
<1>6. CASE ReadNothing
  BY <1>6, <1>4 DEF ReadNothing
<1>7. CASE ReadTorn
  BY <1>7, <1>4 DEF ReadTorn
<1> QED
  BY <1>1, <1>2, <1>3, <1>5, <1>6, <1>7 DEF ClientStep

-----------------------------------------------------------------------------
(***************************************************************************)
(* Preservation, one lemma for each part of the invariant.                 *)
(***************************************************************************)

\* The call stays within the batch: another command is sent only while there
\* is one.
LEMMA InBatchStep ==
  ASSUME TypeOK, IdleIsQuiet, InBatch, [Next]_vars
  PROVE  IdleIsQuiet' /\ InBatch'
<1>a. next \in Nat /\ count \in Nat
  BY DEF TypeOK, ClientTypeOK
<1> USE DEF IdleIsQuiet, InBatch
<1>1. CASE Reload
  BY <1>1 DEF Reload, cdpVars, clientVars, netVars, targetVars
<1>2. CASE Apply
  <2>1. Batch' = Batch /\ Len(Batch) >= 2 /\ Len(Batch) \in Nat
    BY <1>2, BatchShape DEF Apply, Batch
  <2> QED
    BY <1>2, <2>1 DEF Apply, SendCommands
<1>3. CASE ClientStep /\ UNCHANGED <<body, ws>>
  <2>1. Batch' = Batch
    BY <1>3 DEF Batch
  <2>2. pc' \notin {"idle", "returned"} => next' <= count
    <3>1. CASE Fail \/ \E step : GoTo(step)
      BY <1>3, <3>1, ClientEffects DEF Fail, GoTo
    <3>2. CASE Skip \/ NextCommand
      BY <1>3, <3>2, <1>a, ClientEffects DEF Skip, NextCommand
    <3>3. CASE SendFrame
      BY <3>3 DEF SendFrame
    <3> QED
      BY <1>3, <3>1, <3>2, <3>3
         DEF ClientStep, HttpGet, GetPageWebSocketUrl, TcpConnect, WebSocketHandshake,
             SendFails, ReadFrame, ReadNothing, ReadTorn
  <2> QED
    BY <1>3, <2>1, <2>2, ClientEffects
<1>4. CASE TargetStep /\ UNCHANGED <<body, ws>>
  <2>1. pc' = pc /\ count' = count /\ next' = next /\ Batch' = Batch /\ result' = result
    BY <1>4 DEF TargetStep, TargetExecutes, TargetNoise, TargetCloses, clientVars, Batch
  <2>2. pc = "idle" => UNCHANGED <<outbox, doneAt>> /\ inbox' = <<>>
    BY <1>4 DEF TargetStep, TargetExecutes, TargetNoise, TargetCloses, targetVars
  <2> QED
    BY <2>1, <2>2
<1>5. CASE UNCHANGED vars
  BY <1>5 DEF vars, cdpVars, clientVars, netVars, targetVars, Batch
<1> QED
  BY <1>1, <1>2, <1>3, <1>4, <1>5 DEF Next

\* The client and the connection keep their types.
LEMMA ClientTypeStep ==
  ASSUME TypeOK, IdleIsQuiet, InBatch, [Next]_vars
  PROVE  ClientTypeOK'
<1>a. ClientTypeOK
  BY DEF TypeOK
<1>b. MaxReads \in Nat \ {0} /\ MaxNoise \in Nat
  BY ClientAssumption
<1> USE DEF ClientTypeOK
<1>c. next \in 1 .. count + 1 /\ count \in Nat
  BY <1>a
<1>1. CASE Reload \/ UNCHANGED vars
  BY <1>1, <1>a DEF Reload, vars, cdpVars, clientVars, netVars, targetVars
<1>2. CASE Apply
  <2>1. Len(Batch) \in Nat /\ Len(Batch) >= 2
    BY BatchShape DEF Batch
  <2>2. inbox = <<>> /\ doneAt = <<>>
    BY <1>2 DEF Apply, SendCommands, IdleIsQuiet
  <2>3. /\ pc' \in {"idle", "discover", "targets", "connect", "handshake", "send", "read",
                    "returned"}
        /\ count' \in Nat /\ next' \in 1 .. count' + 1 /\ reads' \in 0 .. MaxReads
        /\ result' \in {"none", "fd", "error"}
    BY <1>2, <2>1, <1>b DEF Apply, SendCommands
  <2>4. /\ answered' \in [1 .. count' -> Outcomes] /\ executed' \in [1 .. count' -> Outcomes]
    BY <1>2, <2>1 DEF Apply, SendCommands, Outcomes
  <2>5. /\ inbox' \in Seq(1 .. count') /\ doneAt' \in Seq(1 .. count')
        /\ outbox' \in Seq(Frames) /\ opened' \in BOOLEAN /\ synced' \in BOOLEAN
        /\ noise' \in 0 .. MaxNoise
    BY <1>2, <2>2, <1>a DEF Apply, SendCommands, netVars
  <2> QED
    BY <2>3, <2>4, <2>5
<1>3. CASE ClientStep
  <2>1. outbox' \in Seq(Frames)
    <3>1. outbox \in Seq(Frames)
      BY <1>a
    <3>2. CASE outbox # <<>> /\ outbox' = Tail(outbox)
      BY <3>1, <3>2, HeadTailProperties
    <3> QED
      BY <1>3, <3>1, <3>2, ClientEffects
  <2>2. answered' \in [1 .. count -> Outcomes]
    <3>1. CASE UNCHANGED answered
      BY <3>1, <1>a
    <3>2. CASE /\ outbox # <<>> /\ IsReply(Head(outbox))
               /\ answered' = [answered EXCEPT ![next] = Head(outbox).result]
      <4>1. Head(outbox) \in Frames
        BY <3>2, <1>a
      <4>2. Head(outbox).result \in Outcomes
        BY <3>2, <4>1 DEF Frames, IsReply
      <4> QED
        BY <3>2, <4>2, <1>a
    <3> QED
      BY <1>3, <3>1, <3>2, ClientEffects
  <2>3. inbox' \in Seq(1 .. count)
    <3>1. CASE SendFrame
      <4>1. next \in 1 .. count
        BY <3>1, <1>c DEF SendFrame, InBatch
      <4>2. inbox \in Seq(1 .. count)
        BY <1>a
      <4> QED
        BY <3>1, <4>1, <4>2, AppendProperties DEF SendFrame
    <3> QED
      BY <1>3, <3>1, <1>a, ClientEffects
  <2>4. /\ pc' \in {"idle", "discover", "targets", "connect", "handshake", "send", "read",
                    "returned"}
        /\ next' \in 1 .. count + 1 /\ reads' \in 0 .. MaxReads
        /\ result' \in {"none", "fd", "error"}
    <3>1. CASE Fail
      BY <3>1, <1>a DEF Fail
    <3>2. CASE SendFrame
      BY <3>2, <1>a, <1>b DEF SendFrame
    <3>3. CASE pc = "read" /\ (Skip \/ NextCommand)
      BY <3>3, <1>a, <1>b, <1>c DEF Skip, NextCommand, InBatch
    <3>4. CASE \E step \in {"targets", "connect", "handshake", "send"} : GoTo(step)
      BY <3>4, <1>a DEF GoTo
    <3> QED
      BY <1>3, <3>1, <3>2, <3>3, <3>4
         DEF ClientStep, HttpGet, GetPageWebSocketUrl, TcpConnect, WebSocketHandshake,
             SendFails, ReadFrame, ReadNothing, ReadTorn
  <2>5. opened' \in BOOLEAN /\ synced' \in BOOLEAN
    BY <1>3, <1>a
       DEF ClientStep, HttpGet, GetPageWebSocketUrl, TcpConnect, WebSocketHandshake,
           SendFails, SendFrame, ReadFrame, ReadNothing, ReadTorn, Fail, netVars
  <2> QED
    BY <1>3, <2>1, <2>2, <2>3, <2>4, <2>5, <1>a, ClientEffects
<1>4. CASE TargetExecutes
  <2>1. PICK r \in {"ok", "error"} :
          /\ executed' = [executed EXCEPT ![Head(inbox)] = r]
          /\ outbox' = Append(outbox, Reply(Head(inbox), r))
    BY <1>4 DEF TargetExecutes
  <2>2. Head(inbox) \in 1 .. count /\ Tail(inbox) \in Seq(1 .. count)
    BY <1>4, <1>a DEF TargetExecutes
  <2>3. Reply(Head(inbox), r) \in Frames
    BY <2>2 DEF Reply, Frames, Outcomes
  <2>4. executed' \in [1 .. count -> Outcomes] /\ outbox' \in Seq(Frames)
    BY <2>1, <2>2, <2>3, <1>a DEF Outcomes
  <2>5. inbox' \in Seq(1 .. count) /\ doneAt' \in Seq(1 .. count)
    BY <1>4, <2>2, <1>a DEF TargetExecutes
  <2> QED
    BY <1>4, <2>4, <2>5, <1>a DEF TargetExecutes, clientVars
<1>5. CASE TargetNoise
  <2>1. \A k \in {"event", "ping", "malformed", "half"} : [kind |-> k] \in Frames
    BY DEF Frames
  <2>2. outbox' \in Seq(Frames)
    BY <1>5, <2>1, <1>a DEF TargetNoise
  <2>3. noise' \in 0 .. MaxNoise
    BY <1>5, <1>a, <1>b DEF TargetNoise
  <2> QED
    BY <1>5, <2>2, <2>3, <1>a DEF TargetNoise, clientVars, targetVars
<1>6. CASE TargetCloses
  <2>1. inbox' \in Seq(1 .. count)
    BY <1>6, EmptySeq DEF TargetCloses
  <2> QED
    BY <1>6, <2>1, <1>a DEF TargetCloses, clientVars, targetVars
<1> QED
  BY <1>1, <1>2, <1>3, <1>4, <1>5, <1>6 DEF Next, TargetStep

\* Commands go to the child one after the other, and it takes the first one it
\* has not worked on.
LEMMA InOrderStep ==
  ASSUME TypeOK, IdleIsQuiet, InOrder, [Next]_vars
  PROVE  InOrder'
<1>a. /\ count \in Nat /\ next \in Nat
      /\ inbox \in Seq(1 .. count) /\ doneAt \in Seq(1 .. count)
  BY DEF TypeOK, ClientTypeOK
<1>b. LastSent \in Int
  BY <1>a DEF LastSent
<1>c. /\ Len(inbox) \in Nat /\ Len(doneAt) \in Nat
      /\ \A k \in 1 .. Len(inbox) : inbox[k] \in Int
      /\ \A k \in 1 .. Len(doneAt) : doneAt[k] \in Int
      /\ next \in Int
  BY <1>a
<1>1. CASE UNCHANGED <<inbox, doneAt>> /\ LastSent' = LastSent
  BY <1>1 DEF InOrder
<1>2. CASE Apply
  BY <1>2 DEF Apply, SendCommands, IdleIsQuiet, InOrder, netVars
<1>3. CASE SendFrame /\ opened
  <2>1. inbox' = Append(inbox, next) /\ doneAt' = doneAt
    BY <1>3 DEF SendFrame, targetVars
  <2>2. /\ Len(inbox') = Len(inbox) + 1
        /\ \A k \in 1 .. Len(inbox) : inbox'[k] = inbox[k]
        /\ inbox'[Len(inbox) + 1] = next
    BY <2>1, <1>a
  <2>3. LastSent = next - 1 /\ LastSent' = next
    BY <1>3 DEF SendFrame, LastSent
  <2>4. \A k \in 1 .. Len(inbox') : k \in 1 .. Len(inbox) \/ k = Len(inbox) + 1
    BY <2>2, <1>c
  <2>5. /\ \A k \in 1 .. Len(inbox) : inbox[k] < next
        /\ \A k \in 1 .. Len(doneAt) : doneAt[k] < next
    BY <2>3, <1>a, <1>c DEF InOrder
  <2>6. ASSUME NEW k \in 1 .. Len(inbox'), NEW l \in 1 .. Len(inbox'), k < l
        PROVE  inbox'[k] < inbox'[l]
    <3>1. k \in 1 .. Len(inbox)
      BY <2>2, <2>6, <1>c
    <3>2. CASE l \in 1 .. Len(inbox)
      <4>1. inbox[k] < inbox[l]
        BY <2>6, <3>1, <3>2 DEF InOrder
      <4> QED
        BY <2>2, <3>1, <3>2, <4>1
    <3>3. CASE l = Len(inbox) + 1
      BY <2>2, <2>5, <3>1, <3>3
    <3> QED
      BY <2>4, <3>2, <3>3
  <2>7. ASSUME NEW k \in 1 .. Len(doneAt), NEW l \in 1 .. Len(inbox')
        PROVE  doneAt[k] < inbox'[l]
    <3>1. CASE l \in 1 .. Len(inbox)
      <4>1. doneAt[k] < inbox[l]
        BY <3>1 DEF InOrder
      <4> QED
        BY <2>2, <3>1, <4>1
    <3>2. CASE l = Len(inbox) + 1
      BY <2>2, <2>5, <3>2
    <3> QED
      BY <2>4, <3>1, <3>2
  <2>8. ASSUME NEW l \in 1 .. Len(inbox')
        PROVE  inbox'[l] <= next
    <3>1. CASE l \in 1 .. Len(inbox)
      <4>1. inbox[l] < next
        BY <2>5, <3>1
      <4> QED
        BY <2>2, <3>1, <4>1, <1>c
    <3>2. CASE l = Len(inbox) + 1
      BY <2>2, <3>2, <1>a
    <3> QED
      BY <2>4, <3>1, <3>2
  <2>9. \A k \in 1 .. Len(doneAt) : doneAt[k] <= next
    BY <2>5, <1>c
  <2> QED
    BY <2>1, <2>3, <2>6, <2>7, <2>8, <2>9 DEF InOrder
<1>4. CASE SendFrame /\ ~opened
  <2>1. UNCHANGED <<inbox, doneAt>>
    BY <1>4 DEF SendFrame, targetVars
  <2>2. LastSent = next - 1 /\ LastSent' = next
    BY <1>4 DEF SendFrame, LastSent
  <2>3. /\ \A k \in 1 .. Len(doneAt) : doneAt[k] <= next
        /\ \A k \in 1 .. Len(inbox) : inbox[k] <= next
    BY <2>2, <1>c DEF InOrder
  <2> QED
    BY <2>1, <2>2, <2>3 DEF InOrder
<1>5. CASE TargetExecutes
  <2>1. /\ inbox # <<>> /\ inbox' = Tail(inbox) /\ doneAt' = Append(doneAt, Head(inbox))
        /\ LastSent' = LastSent
    BY <1>5 DEF TargetExecutes, clientVars, LastSent
  <2>2. /\ Len(inbox) # 0 /\ Head(inbox) = inbox[1] /\ Head(inbox) \in 1 .. count
        /\ Len(inbox') = Len(inbox) - 1
        /\ \A k \in 1 .. Len(inbox') : inbox'[k] = inbox[k + 1]
    BY <2>1, <1>a
  <2>3. /\ Len(doneAt') = Len(doneAt) + 1
        /\ \A k \in 1 .. Len(doneAt) : doneAt'[k] = doneAt[k]
        /\ doneAt'[Len(doneAt) + 1] = inbox[1]
    BY <2>1, <2>2, <1>a
  <2>4. /\ \A k \in 1 .. Len(doneAt') : k \in 1 .. Len(doneAt) \/ k = Len(doneAt) + 1
        /\ \A k \in 1 .. Len(inbox') : k + 1 \in 1 .. Len(inbox) /\ 1 < k + 1
        /\ 1 \in 1 .. Len(inbox)
    BY <2>2, <2>3, <1>c
  <2>5. /\ \A k, l \in 1 .. Len(doneAt') : k < l => doneAt'[k] < doneAt'[l]
        /\ \A k \in 1 .. Len(doneAt') : doneAt'[k] <= LastSent'
    BY <2>1, <2>3, <2>4, <1>c DEF InOrder
  <2>6. /\ \A k, l \in 1 .. Len(inbox') : k < l => inbox'[k] < inbox'[l]
        /\ \A k \in 1 .. Len(inbox') : inbox'[k] <= LastSent'
    <3>1. ASSUME NEW k \in 1 .. Len(inbox'), NEW l \in 1 .. Len(inbox'), k < l
          PROVE  inbox'[k] < inbox'[l]
      <4>1. k + 1 \in 1 .. Len(inbox) /\ l + 1 \in 1 .. Len(inbox) /\ k + 1 < l + 1
        BY <2>4, <3>1
      <4>2. inbox[k + 1] < inbox[l + 1]
        BY <4>1 DEF InOrder
      <4> QED
        BY <2>2, <4>2
    <3>2. ASSUME NEW k \in 1 .. Len(inbox')
          PROVE  inbox'[k] <= LastSent'
      <4>1. k + 1 \in 1 .. Len(inbox) /\ inbox'[k] = inbox[k + 1]
        BY <2>2, <2>4
      <4> QED
        BY <2>1, <4>1 DEF InOrder
    <3> QED
      BY <3>1, <3>2
  <2>7. ASSUME NEW k \in 1 .. Len(doneAt'), NEW l \in 1 .. Len(inbox')
        PROVE  doneAt'[k] < inbox'[l]
    <3>1. l + 1 \in 1 .. Len(inbox) /\ 1 < l + 1 /\ inbox'[l] = inbox[l + 1]
      BY <2>2, <2>4
    <3>2. CASE k \in 1 .. Len(doneAt)
      <4>1. doneAt[k] < inbox[l + 1]
        BY <3>1, <3>2 DEF InOrder
      <4> QED
        BY <2>3, <3>1, <3>2, <4>1
    <3>3. CASE k = Len(doneAt) + 1
      <4>1. inbox[1] < inbox[l + 1]
        BY <2>4, <3>1 DEF InOrder
      <4> QED
        BY <2>3, <3>1, <3>3, <4>1
    <3> QED
      BY <2>4, <3>2, <3>3
  <2> QED
    BY <2>5, <2>6, <2>7 DEF InOrder
<1>6. CASE TargetCloses
  <2>1. inbox' = <<>> /\ doneAt' = doneAt /\ LastSent' = LastSent
    BY <1>6 DEF TargetCloses, clientVars, targetVars, LastSent
  <2>2. Len(inbox') = 0
    BY <2>1
  <2> QED
    BY <2>1, <2>2 DEF InOrder
<1>7. CASE TargetNoise \/ Reload \/ UNCHANGED vars
  BY <1>1, <1>7 DEF TargetNoise, Reload, vars, cdpVars, clientVars, netVars, targetVars,
     LastSent
<1>8. CASE ClientStep
  BY <1>1, <1>3, <1>4, <1>8, ClientEffects
<1> QED
  BY <1>2, <1>5, <1>6, <1>7, <1>8 DEF Next, TargetStep

\* The command the child works on has no result yet.
LEMMA FirstIsNew ==
  ASSUME TypeOK, InOrder, ResultsAreReal, inbox # <<>>
  PROVE  Head(inbox) \in 1 .. count /\ executed[Head(inbox)] = "none"
<1>1. inbox \in Seq(1 .. count) /\ doneAt \in Seq(1 .. count) /\ count \in Nat
  BY DEF TypeOK, ClientTypeOK
<1>2. 1 \in 1 .. Len(inbox) /\ Head(inbox) = inbox[1] /\ inbox[1] \in 1 .. count
  BY <1>1
<1>3. \A k \in 1 .. Len(doneAt) : doneAt[k] < inbox[1] /\ doneAt[k] \in Int
  BY <1>1, <1>2 DEF InOrder
<1>4. \A k \in 1 .. Len(doneAt) : doneAt[k] # inbox[1]
  BY <1>2, <1>3
<1> QED
  BY <1>2, <1>4 DEF ResultsAreReal

\* Results, replies and answers change together: a result once there stays, the
\* reply to it carries it, and the client takes it from the reply that has the
\* id of the command it waits for.
LEMMA RealStep ==
  ASSUME TypeOK, IdleIsQuiet, InBatch, InOrder, ResultsAreReal, RepliesAreReal,
         AnswersAreReal, [Next]_vars
  PROVE  ResultsAreReal' /\ RepliesAreReal' /\ AnswersAreReal'
<1>a. /\ count \in Nat /\ next \in Nat
      /\ inbox \in Seq(1 .. count) /\ doneAt \in Seq(1 .. count)
      /\ outbox \in Seq(Frames)
      /\ executed \in [1 .. count -> Outcomes]
      /\ answered \in [1 .. count -> Outcomes]
  BY DEF TypeOK, ClientTypeOK
<1>1. CASE UNCHANGED <<count, executed, doneAt, outbox, answered>>
  BY <1>1 DEF ResultsAreReal, RepliesAreReal, AnswersAreReal
<1>2. CASE Apply
  <2>1. outbox' = <<>> /\ Len(outbox') = 0
    BY <1>2 DEF Apply, SendCommands, IdleIsQuiet, netVars
  <2>2. \A i \in 1 .. count' : executed'[i] = "none" /\ answered'[i] = "none"
    BY <1>2 DEF Apply, SendCommands
  <2> QED
    BY <2>1, <2>2 DEF ResultsAreReal, RepliesAreReal, AnswersAreReal
<1>3. CASE ClientStep
  <2>1. UNCHANGED <<count, executed, doneAt>>
    BY <1>3, ClientEffects
  <2>2. ResultsAreReal'
    BY <2>1 DEF ResultsAreReal
  <2>3. RepliesAreReal'
    <3>1. CASE UNCHANGED outbox
      BY <2>1, <3>1 DEF RepliesAreReal
    <3>2. CASE outbox # <<>> /\ outbox' = Tail(outbox)
      <4>1. \A k \in 1 .. Len(outbox') :
              k + 1 \in 1 .. Len(outbox) /\ outbox'[k] = outbox[k + 1]
        BY <3>2, <1>a
      <4> QED
        BY <2>1, <4>1 DEF RepliesAreReal
    <3> QED
      BY <1>3, <3>1, <3>2, ClientEffects
  <2>4. AnswersAreReal'
    <3>1. CASE UNCHANGED answered
      BY <2>1, <3>1 DEF AnswersAreReal
    <3>2. CASE /\ outbox # <<>> /\ IsReply(Head(outbox))
               /\ answered' = [answered EXCEPT ![next] = Head(outbox).result]
      <4>1. 1 \in 1 .. Len(outbox) /\ Head(outbox) = outbox[1]
        BY <3>2, <1>a
      <4>2. Head(outbox).result = executed[next]
        BY <3>2, <4>1 DEF RepliesAreReal, IsReply
      <4> QED
        BY <2>1, <3>2, <4>2, <1>a DEF AnswersAreReal
    <3> QED
      BY <1>3, <3>1, <3>2, ClientEffects
  <2> QED
    BY <2>2, <2>3, <2>4
<1>4. CASE TargetExecutes
  <2> DEFINE h == Head(inbox)
  <2>1. PICK r \in {"ok", "error"} :
          /\ executed' = [executed EXCEPT ![h] = r]
          /\ outbox' = Append(outbox, Reply(h, r))
    BY <1>4 DEF TargetExecutes
  <2>2. doneAt' = Append(doneAt, h) /\ count' = count /\ answered' = answered
    BY <1>4 DEF TargetExecutes, clientVars
  <2>3. h \in 1 .. count /\ executed[h] = "none"
    BY <1>4, FirstIsNew DEF TargetExecutes
  <2>4. executed'[h] = r /\ \A i \in 1 .. count : i # h => executed'[i] = executed[i]
    BY <2>1, <2>3, <1>a
  <2>5. /\ Len(doneAt') = Len(doneAt) + 1 /\ Len(doneAt) \in Nat
        /\ \A k \in 1 .. Len(doneAt) : doneAt'[k] = doneAt[k]
        /\ doneAt'[Len(doneAt) + 1] = h
    BY <2>2, <2>3, <1>a
  <2>6. Reply(h, r).id = h /\ Reply(h, r).result = r /\ Reply(h, r) \in Frames
    BY <2>3 DEF Reply, Frames, Outcomes
  <2>7. /\ Len(outbox') = Len(outbox) + 1 /\ Len(outbox) \in Nat
        /\ \A k \in 1 .. Len(outbox) : outbox'[k] = outbox[k]
        /\ outbox'[Len(outbox) + 1] = Reply(h, r)
    BY <2>1, <2>6, <1>a
  <2> HIDE DEF h
  <2>8. ResultsAreReal'
    <3> SUFFICES ASSUME NEW i \in 1 .. count, executed'[i] # "none"
                 PROVE  \E k \in 1 .. Len(doneAt') : doneAt'[k] = i
      BY <2>2 DEF ResultsAreReal
    <3>1. CASE i = h
      BY <2>5, <3>1
    <3>2. CASE i # h
      <4>1. PICK k \in 1 .. Len(doneAt) : doneAt[k] = i
        BY <2>4, <3>2 DEF ResultsAreReal
      <4> QED
        BY <2>5, <4>1
    <3> QED
      BY <3>1, <3>2
  <2>9. RepliesAreReal'
    <3> SUFFICES ASSUME NEW k \in 1 .. Len(outbox'), outbox'[k].kind = "reply"
                 PROVE  /\ outbox'[k].id \in 1 .. count
                        /\ outbox'[k].result # "none"
                        /\ outbox'[k].result = executed'[outbox'[k].id]
      BY <2>2 DEF RepliesAreReal
    <3>1. CASE k \in 1 .. Len(outbox)
      BY <2>3, <2>4, <2>7, <3>1 DEF RepliesAreReal
    <3>2. CASE k = Len(outbox) + 1
      BY <2>3, <2>4, <2>6, <2>7, <3>2
    <3> QED
      BY <2>7, <3>1, <3>2
  <2>10. AnswersAreReal'
    BY <2>2, <2>3, <2>4 DEF AnswersAreReal
  <2> QED
    BY <2>8, <2>9, <2>10
<1>5. CASE TargetNoise
  <2>1. PICK f : f \in {"event", "ping", "malformed", "half"}
                 /\ outbox' = Append(outbox, [kind |-> f])
    BY <1>5 DEF TargetNoise
  <2>2. [kind |-> f] \in Frames /\ [kind |-> f].kind # "reply"
    BY <2>1 DEF Frames
  <2>3. /\ Len(outbox') = Len(outbox) + 1 /\ Len(outbox) \in Nat
        /\ \A k \in 1 .. Len(outbox) : outbox'[k] = outbox[k]
        /\ outbox'[Len(outbox) + 1].kind # "reply"
    BY <2>1, <2>2, <1>a
  <2>4. \A k \in 1 .. Len(outbox') : k \in 1 .. Len(outbox) \/ k = Len(outbox) + 1
    BY <2>3
  <2>5. UNCHANGED <<count, executed, doneAt, answered>>
    BY <1>5 DEF TargetNoise, clientVars, targetVars
  <2> QED
    BY <2>3, <2>4, <2>5 DEF ResultsAreReal, RepliesAreReal, AnswersAreReal
<1>6. CASE TargetCloses \/ Reload \/ UNCHANGED vars
  BY <1>1, <1>6 DEF TargetCloses, Reload, vars, cdpVars, clientVars, netVars, targetVars
<1> QED
  BY <1>2, <1>3, <1>4, <1>5, <1>6 DEF Next, TargetStep

-----------------------------------------------------------------------------
(***************************************************************************)
(* The workspace and its file.                                             *)
(***************************************************************************)

\* A key that ToDict writes is read back decoded, one that it leaves out falls
\* back to its default.
LEMMA ReadBack ==
  ASSUME NEW w, NEW k \in Persisted
  PROVE  /\ k \in Fields
         /\ ~Written(k, w[k]) => FromDict(ToDict(w))[k] = Default[k]
         /\ Written(k, w[k]) /\ ToDict(w)[k] # Bad =>
              FromDict(ToDict(w))[k] = Decode(k, ToDict(w)[k])
<1>1. k \in Fields
  BY DEF Fields
<1>2. DOMAIN ToDict(w) = {j \in Persisted : Written(j, w[j])}
  BY DEF ToDict
<1>3. FromDict(ToDict(w))[k] = IF k \in Persisted /\ Finds(ToDict(w), k)
                               THEN Decode(k, ToDict(w)[k]) ELSE Default[k]
  BY <1>1 DEF FromDict
<1> QED
  BY <1>1, <1>2, <1>3 DEF Finds

\* The defaults of the members, kind by kind.
LEMMA Defaults ==
  /\ \A k \in Text : Default[k] = ""
  /\ \A k \in Numbers : Default[k] \in Int
  /\ Default["hardware_concurrency"] = 0
  /\ \A k \in Flags : Default[k] \in BOOLEAN
  /\ \A k \in Lists : Default[k] = <<>>
  /\ \A k \in Times : Default[k] = 0
  /\ Default["type"] = "kNormal" /\ Default["color"] = kIndigo
<1>1. \A k \in Fields : Default[k] = DefaultOf(k)
  BY DEF Default
<1>2. \A k \in Persisted : k \in Fields
  BY DEF Fields
<1>3. ASSUME NEW k \in Text PROVE DefaultOf(k) = ""
  <2>1. /\ k \notin Flags /\ k \notin Lists /\ k \notin Times
        /\ k \notin {"fingerprint_seed", "hardware_concurrency"}
        /\ k # "screen_width" /\ k # "screen_height" /\ k # "type" /\ k # "color"
    BY DEF Text, Flags, Lists, Times
  <2> QED
    BY <2>1 DEF DefaultOf
<1>4. ASSUME NEW k \in Numbers PROVE DefaultOf(k) \in Int
  <2>1. /\ k \notin Text \cup Runtime /\ k \notin Flags /\ k \notin Lists
        /\ k \notin Times /\ k # "type" /\ k # "color"
    BY DEF Text, Runtime, Numbers, Flags, Lists, Times
  <2>2. CASE k = "screen_width"
    BY <2>1, <2>2 DEF DefaultOf
  <2>3. CASE k = "screen_height"
    BY <2>1, <2>3 DEF DefaultOf
  <2>4. CASE k \in {"fingerprint_seed", "hardware_concurrency"}
    BY <2>1, <2>4 DEF DefaultOf
  <2> QED
    BY <2>2, <2>3, <2>4 DEF Numbers
<1>5. DefaultOf("hardware_concurrency") = 0
  BY DEF DefaultOf, Text, Flags, Lists, Times, Runtime
<1>6. ASSUME NEW k \in Flags PROVE DefaultOf(k) \in BOOLEAN
  <2>1. /\ k \notin Text \cup Runtime /\ k \notin Lists /\ k \notin Times
        /\ k \notin {"fingerprint_seed", "hardware_concurrency"}
        /\ k # "screen_width" /\ k # "screen_height" /\ k # "type" /\ k # "color"
    BY DEF Text, Runtime, Flags, Lists, Times
  <2>2. DefaultOf(k) = (k = "clipboard_sync")
    BY <2>1 DEF DefaultOf
  <2> QED
    BY <2>2
<1>7. \A k \in Lists : DefaultOf(k) = <<>>
  BY DEF DefaultOf, Text, Flags, Lists, Times, Runtime
<1>8. \A k \in Times : DefaultOf(k) = 0
  BY DEF DefaultOf, Text, Flags, Lists, Times, Runtime
<1>9. DefaultOf("type") = "kNormal"
  BY DEF DefaultOf, Text, Flags, Lists, Times, Runtime
<1>10. DefaultOf("color") = kIndigo
  BY DEF DefaultOf, Text, Flags, Lists, Times, Runtime
<1>11. /\ \A k \in Text \cup Numbers \cup Flags \cup Lists \cup Times : k \in Persisted
       /\ "type" \in Persisted /\ "color" \in Persisted
       /\ "hardware_concurrency" \in Numbers
  BY DEF Persisted, Numbers
<1> QED
  BY <1>1, <1>2, <1>3, <1>4, <1>5, <1>6, <1>7, <1>8, <1>9, <1>10, <1>11

\* Text, numbers and flags are written as they are, unless they are what a
\* missing key stands for.
LEMMA PlainReadBack ==
  ASSUME NEW w, Typed(w), NEW k \in Text \cup Numbers \cup Flags
  PROVE  FromDict(ToDict(w))[k] = w[k]
<1>1. k \in Persisted /\ k \notin {"type", "color", "tags", "launch_args"} /\ k \notin Times
  BY DEF Persisted, Text, Numbers, Flags, Times
<1>2. w[k] # Bad
  BY DEF Typed
<1>3. CASE Written(k, w[k])
  <2>1. ToDict(w)[k] = w[k]
    BY <1>1, <1>3 DEF ToDict, Times
  <2>2. Decode(k, w[k]) = w[k]
    BY <1>1 DEF Decode
  <2> QED
    BY <1>1, <1>2, <1>3, <2>1, <2>2, ReadBack
<1>4. CASE ~Written(k, w[k])
  <2>1. \/ k \in Text /\ w[k] = ""
        \/ k = "hardware_concurrency" /\ w[k] = 0
    BY <1>4 DEF Written
  <2>2. Default[k] = w[k]
    BY <2>1, Defaults
  <2> QED
    BY <1>1, <1>4, <2>2, ReadBack
<1> QED
  BY <1>3, <1>4

\* A list that is empty, the type and the colour are written always and decoded
\* to what they were.
LEMMA CodedReadBack ==
  ASSUME NEW w, Typed(w), NEW k \in Lists \cup {"type", "color"}
  PROVE  FromDict(ToDict(w))[k] = w[k]
<1>1. k \in Persisted /\ Written(k, w[k])
  BY DEF Persisted, Lists, Text, Written
<1>2. CASE k = "type"
  <2>1. w[k] \in {"kNormal", "kFingerprint"}
    BY <1>2 DEF Typed
  <2>2. ToDict(w)[k] = TypeToString(w[k])
    BY <1>1, <1>2 DEF ToDict, Times
  <2>3. TypeToString(w[k]) # Bad /\ StringToType(TypeToString(w[k])) = w[k]
    BY <2>1, BadAssumption DEF TypeToString, StringToType
  <2>4. Decode(k, ToDict(w)[k]) = StringToType(ToDict(w)[k])
    BY <1>2 DEF Decode, Times
  <2> QED
    BY <1>1, <2>2, <2>3, <2>4, ReadBack
<1>3. CASE k = "color"
  <2>0. w["color"] \in 0 .. 2^ColorBits - 1
    BY DEF Typed
  <2>1. w[k] \in 0 .. 255
    BY <1>3, <2>0 DEF ColorBits
  <2>2. ToDict(w)[k] = ColorToInt(w[k])
    BY <1>1, <1>3 DEF ToDict, Times
  <2>3. ColorToInt(w[k]) \in Int /\ IntToColor(ColorToInt(w[k])) = w[k]
    BY <2>1 DEF ColorToInt, IntToColor, ColorBits
  <2>4. Decode(k, ToDict(w)[k]) = IntToColor(ToDict(w)[k])
    BY <1>3 DEF Decode, Times
  <2> QED
    BY <1>1, <2>2, <2>3, <2>4, ReadBack, BadAssumption
<1>4. CASE k \in Lists
  <2>1. w[k] = <<>> /\ Len(w[k]) = 0
    BY <1>4 DEF Typed
  <2>2. ToDict(w)[k] = <<>>
    <3>1. CASE k = "tags"
      <4>1. ToDict(w)[k] = [n \in 1 .. Len(w[k]) |-> TagToDict(w[k][n])]
        BY <1>1, <3>1 DEF ToDict, Times
      <4> QED
        BY <2>1, <4>1
    <3>2. CASE k = "launch_args"
      BY <1>1, <2>1, <3>2 DEF ToDict, Times
    <3> QED
      BY <1>4, <3>1, <3>2 DEF Lists
  <2>3. <<>> # Bad
    <3>1. <<>> \in Seq(Int)
      BY EmptySeq
    <3> QED
      BY <3>1, BadAssumption
  <2>4. ReadItems(<<>>) = <<>>
    BY DEF ReadItems
  <2>5. Decode(k, <<>>) = <<>>
    <3>1. CASE k = "tags"
      BY <2>4, <3>1 DEF Decode, Times
    <3>2. CASE k = "launch_args"
      BY <2>4, <3>2 DEF Decode, Times
    <3> QED
      BY <1>4, <3>1, <3>2 DEF Lists
  <2> QED
    BY <1>1, <2>1, <2>2, <2>3, <2>5, ReadBack
<1> QED
  BY <1>2, <1>3, <1>4

\* A time loses what is below the millisecond, once.
LEMMA TimeReadBack ==
  ASSUME NEW w, Typed(w), NEW k \in Times
  PROVE  /\ FromDict(ToDict(w))[k] \in Nat
         /\ FromDict(ToDict(w))[k] = 0 \/ FromDict(ToDict(w))[k] >= TicksPerMilli
         /\ TimeToString(FromDict(ToDict(w))[k]) = TimeToString(w[k])
<1>1. k \in Persisted /\ Written(k, w[k])
  BY DEF Persisted, Times, Text, Written
<1>2. w[k] \in Nat /\ (w[k] = 0 \/ w[k] >= 4)
  BY DEF Typed, TicksPerMilli
<1>3. ToDict(w)[k] = TimeToString(w[k])
  BY <1>1 DEF ToDict, Times
<1>4. TimeToString(w[k]) # Bad
  <2>1. <<>> \in Seq(Int) /\ <<w[k] \div TicksPerMilli>> \in Seq(Int)
    BY <1>2 DEF TicksPerMilli
  <2> QED
    BY <2>1, BadAssumption DEF TimeToString
<1>5. Decode(k, TimeToString(w[k])) = TimeFromString(TimeToString(w[k]))
  BY DEF Decode, Times
<1>6. FromDict(ToDict(w))[k] = TimeFromString(TimeToString(w[k]))
  BY <1>1, <1>3, <1>4, <1>5, ReadBack
<1>7. CASE w[k] = 0
  BY <1>6, <1>7 DEF TimeToString, TimeFromString
<1>8. CASE w[k] # 0
  <2>1. TimeFromString(TimeToString(w[k])) = (w[k] \div 4) * 4
    BY <1>8 DEF TimeToString, TimeFromString, TicksPerMilli
  <2>2. (w[k] \div 4) * 4 \in Nat /\ (w[k] \div 4) * 4 >= 4
    BY <1>2, <1>8
  <2>3. ((w[k] \div 4) * 4) \div 4 = w[k] \div 4
    BY <1>2
  <2> QED
    BY <1>6, <1>8, <2>1, <2>2, <2>3 DEF TimeToString, TicksPerMilli
<1> QED
  BY <1>7, <1>8

\* A workspace read back from its file is one again, and differs from what it
\* was in nothing but the part of a time below the millisecond.
LEMMA RoundTrip ==
  ASSUME NEW w, Typed(w)
  PROVE  /\ Typed(FromDict(ToDict(w)))
         /\ SameSettings(FromDict(ToDict(w)), w)
<1> DEFINE v == FromDict(ToDict(w))
<1>1. \A k \in Text \cup Numbers \cup Flags \cup Lists \cup {"type", "color"} : v[k] = w[k]
  BY PlainReadBack, CodedReadBack
<1>2. \A k \in Times : /\ v[k] \in Nat /\ (v[k] = 0 \/ v[k] >= TicksPerMilli)
                       /\ TimeToString(v[k]) = TimeToString(w[k])
  BY TimeReadBack
<1> HIDE DEF v
<1>3. Typed(v)
  BY <1>1, <1>2 DEF Typed
<1>4. SameSettings(v, w)
  BY <1>1, <1>2 DEF SameSettings, Persisted
<1> QED
  BY <1>3, <1>4 DEF v

\* A body's plain settings are taken over as they are.
LEMMA BodyIsTaken ==
  ASSUME NEW w, NEW b, NEW k \in Plain, Finds(b, k)
  PROVE  ApplyBodyToWorkspace(w, b)[k] = b[k]
<1>1. k \in Fields /\ k \in Settable
  BY DEF Plain, Fields, Persisted, Settable
<1>2. k \notin Times /\ k # "type" /\ k # "color" /\ k # "tags" /\ k # "launch_args"
  BY DEF Plain, Text, Numbers, Flags, Times
<1>3. Decode(k, b[k]) = b[k]
  BY <1>2 DEF Decode
<1> QED
  BY <1>1, <1>3 DEF ApplyBodyToWorkspace

\* A workspace made by CreateBasic from a body is one.
LEMMA CreatedIsTyped ==
  ASSUME NEW b \in Bodies, NEW seed \in Seeds
  PROVE  Typed(ApplyBodyToWorkspace(CreateBasic("id", "w", "kFingerprint", seed, Now), b))
<1> DEFINE c == CreateBasic("id", "w", "kFingerprint", seed, Now)
           v == ApplyBodyToWorkspace(c, b)
<1>1. \A k \in Fields : v[k] = IF k \in Settable /\ Finds(b, k) THEN Decode(k, b[k]) ELSE c[k]
  BY DEF ApplyBodyToWorkspace
<1>2. Default = [k \in Fields |-> Default[k]]
  BY DEF Default
<1>3. \A k \in Fields :
        c[k] = CASE k = "id" -> "id"
                 [] k = "name" -> "w"
                 [] k = "type" -> "kFingerprint"
                 [] k = "fingerprint_seed" -> seed
                 [] k = "platform" -> "windows"
                 [] k = "human_preset" -> "default"
                 [] k \in {"created_at", "updated_at"} -> Now
                 [] OTHER -> Default[k]
  BY <1>2 DEF CreateBasic
<1>4. \A k \in Text \cup Numbers \cup Flags : k \in Fields /\ Decode(k, b[k]) = b[k]
  <2> SUFFICES ASSUME NEW k \in Text \cup Numbers \cup Flags
               PROVE  k \in Fields /\ Decode(k, b[k]) = b[k]
    OBVIOUS
  <2>1. k \in Fields
    BY DEF Fields, Persisted
  <2>2. k \notin Times /\ k # "type" /\ k # "color" /\ k # "tags" /\ k # "launch_args"
    BY DEF Text, Numbers, Flags, Times
  <2> QED
    BY <2>1, <2>2 DEF Decode
<1> HIDE DEF c, v
<1>5. \A k \in Text \cup Numbers \cup Flags : c[k] # Bad
  <2> SUFFICES ASSUME NEW k \in Text \cup Numbers \cup Flags PROVE c[k] # Bad
    OBVIOUS
  <2>1. Default[k] # Bad
    BY Defaults, BadAssumption
  <2>2. seed # Bad
    <3>1. seed = 10000
      BY DEF Seeds
    <3>2. seed \in Int
      BY <3>1
    <3>3. Bad \notin Int
      BY BadAssumption
    <3> QED
      BY <3>2, <3>3
  <2>3. k # "type" /\ k \notin {"created_at", "updated_at"}
    BY DEF Text, Numbers, Flags
  <2> QED
    BY <1>3, <1>4, <2>1, <2>2, <2>3, BadAssumption
<1>6. \A k \in Text \cup Numbers \cup Flags : v[k] # Bad
  BY <1>1, <1>4, <1>5 DEF Finds
<1>7. \A k \in Lists \cup Times \cup {"type"} : k \in Fields /\ k \notin Settable
  BY DEF Fields, Persisted, Settable, Lists, Times, Text, Flags, Numbers
<1>8. \A k \in Lists : v[k] = <<>>
  <2> SUFFICES ASSUME NEW k \in Lists PROVE v[k] = <<>>
    OBVIOUS
  <2>1. c[k] = Default[k]
    BY <1>3, <1>7 DEF Lists
  <2> QED
    BY <1>1, <1>7, <2>1, Defaults
<1>9. \A k \in Times : v[k] = Now
  BY <1>1, <1>3, <1>7 DEF Times
<1>10. v["type"] = "kFingerprint"
  BY <1>1, <1>3, <1>7
<1>11. v["color"] \in 0 .. 255
  <2>1. "color" \in Fields
    BY DEF Fields, Persisted
  <2>2. c["color"] = 241
    <3>1. c["color"] = Default["color"]
      BY <1>3, <2>1
    <3> QED
      BY <3>1, Defaults DEF kIndigo
  <2>3. CASE Finds(b, "color")
    <3>1. b["color"] \in Int
      BY <2>3, BodiesAssumption
    <3>2. Decode("color", b["color"]) = b["color"] % 256
      BY DEF Decode, Times, IntToColor, ColorBits
    <3> QED
      BY <1>1, <2>1, <2>3, <3>1, <3>2 DEF Settable
  <2>4. CASE ~Finds(b, "color")
    BY <1>1, <2>1, <2>2, <2>4
  <2> QED
    BY <2>3, <2>4
<1> QED
  <2>1. 0 .. 2^ColorBits - 1 = 0 .. 255
    BY DEF ColorBits
  <2>2. Now \in Nat /\ Now >= TicksPerMilli
    BY DEF Now, TicksPerMilli
  <2>3. Typed(v)
    BY <1>6, <1>8, <1>9, <1>10, <1>11, <2>1, <2>2 DEF Typed
  <2> QED
    BY <2>3 DEF v, c

\* No body sets the seed that GenerateSeed has drawn.
LEMMA CreatedIsSeeded ==
  ASSUME NEW b, NEW seed \in Seeds
  PROVE  ApplyBodyToWorkspace(CreateBasic("id", "w", "kFingerprint", seed, Now), b)
           ["fingerprint_seed"] # 0
<1> DEFINE c == CreateBasic("id", "w", "kFingerprint", seed, Now)
           k == "fingerprint_seed"
<1>1. k \in Fields /\ k \notin Settable
  BY DEF Fields, Persisted, Settable, Text, Flags, Numbers
<1>2. ApplyBodyToWorkspace(c, b)[k] = c[k]
  BY <1>1 DEF ApplyBodyToWorkspace
<1>3. Default = [f \in Fields |-> Default[f]]
  BY DEF Default
<1>4. c[k] = seed
  BY <1>1, <1>3 DEF CreateBasic
<1>5. seed # 0
  BY DEF Seeds
<1> QED
  BY <1>2, <1>4, <1>5

-----------------------------------------------------------------------------
(***************************************************************************)
(* The theorems.                                                           *)
(***************************************************************************)

\* The inductive invariant holds, whatever the child does to the connection.
THEOREM InjectionInvariant == Spec => []InjectionInv
<1>1. Init => InjectionInv
  <2> SUFFICES ASSUME Init PROVE InjectionInv
    OBVIOUS
  <2>1. PICK seed \in Seeds :
          ws = ApplyBodyToWorkspace(CreateBasic("id", "w", "kFingerprint", seed, Now), body)
    BY DEF Init
  <2>2. Typed(ws)
    BY <2>1, CreatedIsTyped DEF Init
  <2>3. DOMAIN ws = Fields /\ body \in Bodies
    BY <2>1 DEF Init, ApplyBodyToWorkspace
  <2>4. ClientTypeOK
    <3>1. 1 .. 0 = {} /\ answered \in [1 .. 0 -> Outcomes] /\ executed \in [1 .. 0 -> Outcomes]
      BY DEF Init, ClientInit
    <3>2. /\ inbox \in Seq(1 .. 0) /\ doneAt \in Seq(1 .. 0) /\ outbox \in Seq(Frames)
      BY EmptySeq DEF Init, ClientInit
    <3>3. /\ count = 0 /\ next \in 1 .. count + 1
          /\ reads \in 0 .. MaxReads /\ noise \in 0 .. MaxNoise
      BY ClientAssumption DEF Init, ClientInit
    <3>4. opened \in BOOLEAN /\ synced \in BOOLEAN
      BY DEF Init, ClientInit
    <3> QED
      BY <3>1, <3>2, <3>3, <3>4 DEF Init, ClientInit, ClientTypeOK
  <2>5. ExchangeInv
    BY DEF Init, ClientInit, ExchangeInv, IdleIsQuiet, InBatch, InOrder, LastSent,
       ResultsAreReal, RepliesAreReal, AnswersAreReal
  <2>6. StoredAsConfigured
    BY <2>1, BodyIsTaken DEF StoredAsConfigured
  <2>7. Seeded
    BY <2>1, CreatedIsSeeded DEF Seeded
  <2> QED
    BY <2>2, <2>3, <2>4, <2>5, <2>6, <2>7 DEF InjectionInv, TypeOK
<1>2. InjectionInv /\ [Next]_vars => InjectionInv'
  <2> SUFFICES ASSUME InjectionInv, [Next]_vars PROVE InjectionInv'
    OBVIOUS
  <2> USE DEF InjectionInv, ExchangeInv
  <2>1. ClientTypeOK'
    BY ClientTypeStep
  <2>2. Typed(ws)' /\ (DOMAIN ws = Fields)' /\ (body \in Bodies)'
    <3>1. CASE Reload
      BY <3>1, RoundTrip DEF Reload, FromDict, TypeOK
    <3>2. CASE UNCHANGED <<body, ws>>
      BY <3>2 DEF TypeOK, Typed
    <3> QED
      BY <3>1, <3>2 DEF Next, Apply, vars
  <2>3. StoredAsConfigured'
    <3>1. \A k \in Plain : k \in Text \cup Numbers \cup Flags
      BY DEF Plain
    <3>2. CASE Reload
      BY <3>1, <3>2, PlainReadBack DEF Reload, StoredAsConfigured
    <3>3. CASE UNCHANGED <<body, ws>>
      BY <3>3 DEF StoredAsConfigured
    <3> QED
      BY <3>2, <3>3 DEF Next, Apply, vars
  <2>4. Seeded'
    <3>1. "fingerprint_seed" \in Text \cup Numbers \cup Flags
      BY DEF Numbers
    <3>2. CASE Reload
      BY <3>1, <3>2, PlainReadBack DEF Reload, Seeded
    <3>3. CASE UNCHANGED ws
      BY <3>3 DEF Seeded
    <3> QED
      BY <3>2, <3>3 DEF Next, Apply, vars
  <2>5. IdleIsQuiet' /\ InBatch'
    BY InBatchStep
  <2>6. InOrder'
    BY InOrderStep
  <2>7. ResultsAreReal' /\ RepliesAreReal' /\ AnswersAreReal'
    BY RealStep
  <2> QED
    BY <2>1, <2>2, <2>3, <2>4, <2>5, <2>6, <2>7 DEF TypeOK
<1> QED
  BY <1>1, <1>2, PTL DEF Spec

\* The client, the connection, the child's results and the workspace have their
\* types.
THEOREM InjectionTypeCorrect == Spec => []TypeOK
<1>1. InjectionInv => TypeOK
  BY DEF InjectionInv
<1> QED
  BY <1>1, InjectionInvariant, PTL

\* What SendCommands takes for the result of a command is what came of that
\* command, for any delays, noise and torn frames.
THEOREM InjectionAnswersAreReal == Spec => []AnswersAreReal
<1>1. InjectionInv => AnswersAreReal
  BY DEF InjectionInv, ExchangeInv
<1> QED
  BY <1>1, InjectionInvariant, PTL

\* Once the client has seen every command succeed, each command of the batch is in
\* effect, and new documents get the script, since Page.enable was done before it
\* was added.
LEMMA AppliedIsInEffect ==
  ASSUME InjectionInv, Applied
  PROVE  /\ count = Len(Batch) /\ ScriptRuns
         /\ Effect("script", <<>>) = GenerateInjectionScript(ws)
         /\ ws["timezone"] # "" => Effect("timezone", "") = ws["timezone"]
         /\ Effect("metrics", <<>>) # <<>> =>
              /\ BothPositive(ws)
              /\ Effect("metrics", <<>>) = <<ws["screen_width"], ws["screen_height"]>>
<1>1. count = Len(Batch)
  BY DEF InjectionInv, ExchangeInv, IdleIsQuiet, InBatch, Applied
<1>2. /\ count \in Nat /\ count >= 2
      /\ Batch[1].method = "enable" /\ Batch[count].method = "script"
  BY <1>1, BatchShape DEF Batch
<1>3. /\ \A i \in 1 .. count :
           /\ Batch[i].method = "timezone" => Batch[i].params = ws["timezone"]
           /\ Batch[i].method = "script" => Batch[i].params = GenerateInjectionScript(ws)
           /\ Batch[i].method = "metrics" =>
                /\ BothPositive(ws)
                /\ Batch[i].params = <<ws["screen_width"], ws["screen_height"]>>
      /\ ws["timezone"] # "" => \E i \in 1 .. count : Batch[i].method = "timezone"
  BY <1>1, BatchShape DEF Batch
<1>4. opened /\ \A i \in 1 .. count : executed[i] = "ok"
  BY DEF InjectionInv, ExchangeInv, AnswersAreReal, Applied
<1>5. 1 \in 1 .. count /\ count \in 1 .. count
  BY <1>2
<1>6. InEffect("enable") /\ InEffect("script")
  BY <1>2, <1>4, <1>5 DEF InEffect
<1>7. ScriptRuns
  <2>1. \A i \in 1 .. count : \E k \in 1 .. Len(doneAt) : doneAt[k] = i
    BY <1>4 DEF InjectionInv, ExchangeInv, ResultsAreReal
  <2> DEFINE Done(c) == \E k \in 1 .. Len(doneAt) : doneAt[k] = c
  <2>2. Done(1) /\ Done(count)
    BY <1>5, <2>1
  <2>3. PICK i \in 1 .. Len(doneAt) : doneAt[i] = 1
    BY <2>2
  <2>4. PICK j \in 1 .. Len(doneAt) : doneAt[j] = count
    BY <2>2
  <2>5. Len(doneAt) \in Nat
    BY DEF InjectionInv, TypeOK, ClientTypeOK
  <2>6. i < j
    BY <1>2, <2>3, <2>4, <2>5 DEF InjectionInv, ExchangeInv, InOrder
  <2> QED
    BY <1>2, <1>6, <2>3, <2>4, <2>6 DEF ScriptRuns
<1> DEFINE At(m) == CHOOSE i \in 1 .. count : Batch[i].method = m
<1>8. ASSUME NEW m, NEW i \in 1 .. count, Batch[i].method = m
      PROVE  At(m) \in 1 .. count /\ Batch[At(m)].method = m
  BY <1>8
<1>9. \A m, none : Effect(m, none) = IF InEffect(m) THEN Batch[At(m)].params ELSE none
  BY DEF Effect
<1>10. \A m : InEffect(m) => At(m) \in 1 .. count /\ Batch[At(m)].method = m
  BY <1>8 DEF InEffect
<1> HIDE DEF At
<1>11. Effect("script", <<>>) = GenerateInjectionScript(ws)
  BY <1>3, <1>6, <1>9, <1>10
<1>12. ws["timezone"] # "" => Effect("timezone", "") = ws["timezone"]
  <2>1. ws["timezone"] # "" => InEffect("timezone")
    BY <1>3, <1>4 DEF InEffect
  <2> QED
    BY <1>3, <1>9, <1>10, <2>1
<1>13. Effect("metrics", <<>>) # <<>> =>
         /\ BothPositive(ws)
         /\ Effect("metrics", <<>>) = <<ws["screen_width"], ws["screen_height"]>>
  BY <1>3, <1>9, <1>10
<1> QED
  BY <1>1, <1>7, <1>11, <1>12, <1>13

\* Once the client has seen every command succeed, a new document sees what the
\* client configured, for any body whose platform and time zone read as written in
\* the script's literals: what reloads of the store, the order of the commands and
\* the statements of the script do comes to the same in the switches, the emulation
\* and the script (Apply, GenerateCDPCommands, GenerateInjectionScript,
\* BuildCommandLine).
THEOREM InjectionConfiguredIsSeen == Spec => []ConfiguredIsSeen
<1>1. InjectionInv => ConfiguredIsSeen
  <2> SUFFICES ASSUME InjectionInv, Applied, ReadAsWritten(ws) PROVE ConfiguredIsSeen
    BY DEF ConfiguredIsSeen
  <2> DEFINE doc == Document
             e == Evaluate(GenerateInjectionScript(ws))
  <2>1. /\ ScriptRuns
        /\ Effect("script", <<>>) = GenerateInjectionScript(ws)
        /\ ws["timezone"] # "" => Effect("timezone", "") = ws["timezone"]
        /\ Effect("metrics", <<>>) # <<>> =>
             /\ BothPositive(ws)
             /\ Effect("metrics", <<>>) = <<ws["screen_width"], ws["screen_height"]>>
    BY AppliedIsInEffect
  <2>2. /\ doc.scripted = ScriptRuns
        /\ doc.metrics = Effect("metrics", <<>>)
        /\ doc.timezone = Effect("timezone", "")
        /\ doc.switches.user_agent = ws["user_agent"]
        /\ BothPositive(ws) =>
             doc.switches.window_size = <<ws["screen_width"], ws["screen_height"]>>
        /\ doc.props = e
    BY <2>1 DEF Document, BuildCommandLine
  <2>3. /\ Told(ws, e)
        /\ PlatformRead(ws) = JsPlatform(ws["platform"])
        /\ ws["timezone"] # "" => ZoneRead(ws) = ws["timezone"]
    BY ScriptTellsSettings DEF InjectionInv, Seeded, ReadAsWritten, PlatformRead, ZoneRead
  <2>4. \A k \in {"platform", "hardware_concurrency", "user_agent", "timezone",
                   "color_scheme", "gpu_vendor"} : Finds(body, k) => ws[k] = body[k]
    BY DEF InjectionInv, StoredAsConfigured, Plain, Text, Numbers
  <2> HIDE DEF doc, e
  <2>5. Finds(body, "platform") =>
          /\ "platform" \in DOMAIN e
          /\ e["platform"] = JsPlatform(body["platform"])
    BY <2>3, <2>4 DEF Told
  <2>6. Finds(body, "hardware_concurrency") /\ body["hardware_concurrency"] > 0 =>
          /\ "hardwareConcurrency" \in DOMAIN e
          /\ e["hardwareConcurrency"] = body["hardware_concurrency"]
    BY <2>3, <2>4 DEF Told
  <2>7. Finds(body, "user_agent") /\ body["user_agent"] # "" =>
          /\ "userAgent" \in DOMAIN e /\ e["userAgent"] = body["user_agent"]
          /\ doc.switches.user_agent = body["user_agent"]
    BY <2>2, <2>3, <2>4 DEF Told
  <2>8. doc.metrics # <<>> =>
          /\ "screen" \in DOMAIN e /\ e["screen"] = doc.metrics
          /\ doc.switches.window_size = doc.metrics
    BY <2>1, <2>2, <2>3 DEF Told
  <2>9. Finds(body, "timezone") /\ body["timezone"] # "" =>
          /\ doc.timezone = body["timezone"]
          /\ "resolvedOptions" \in DOMAIN e /\ e["resolvedOptions"] = body["timezone"]
          /\ body["timezone"] \in DOMAIN UtcOffset \ {"Brazil/East"} =>
               /\ "timezoneOffset" \in DOMAIN e
               /\ e["timezoneOffset"] = -UtcOffset[body["timezone"]]
    BY <2>1, <2>2, <2>3, <2>4 DEF Told
  <2>10. Finds(body, "color_scheme") /\ body["color_scheme"] # "" =>
           "prefersDark" \in DOMAIN e /\ e["prefersDark"] = (body["color_scheme"] = "dark")
    <3>1. ws["color_scheme"] # "" =>
            "prefersDark" \in DOMAIN e /\ e["prefersDark"] = (ws["color_scheme"] = "dark")
      BY <2>3 DEF Told
    <3>2. Finds(body, "color_scheme") => ws["color_scheme"] = body["color_scheme"]
      BY <2>4
    <3> SUFFICES ASSUME Finds(body, "color_scheme"), body["color_scheme"] # ""
                 PROVE  "prefersDark" \in DOMAIN e
                        /\ e["prefersDark"] = (body["color_scheme"] = "dark")
      BY Zenon
    <3>3. ws["color_scheme"] = body["color_scheme"]
      BY <3>2
    <3>4. ws["color_scheme"] # ""
      BY <3>3
    <3>5. (ws["color_scheme"] = "dark") = (body["color_scheme"] = "dark")
      BY <3>3
    <3> QED
      BY <3>1, <3>4, <3>5, Zenon
  <2>11. Finds(body, "gpu_vendor") /\ body["gpu_vendor"] # "" =>
           "unmaskedVendor" \in DOMAIN e /\ e["unmaskedVendor"] = body["gpu_vendor"]
    BY <2>3, <2>4 DEF Told
  <2>12. "connection" \in DOMAIN e /\ e["connection"] = "4g"
    BY <2>3 DEF Told
  <2> QED
    BY <2>1, <2>2, <2>5, <2>6, <2>7, <2>8, <2>9, <2>10, <2>11, <2>12
    DEF ConfiguredIsSeen, doc
<1> QED
  BY <1>1, InjectionInvariant, PTL

\* No setting is lost between the store and its file, for any body a client
\* sends (ToDict, FromDict).
THEOREM InjectionSettingsSurvive == Spec => SettingsSurvive
<1>1. InjectionInv /\ [Next]_vars => [SameSettings(ws', ws)]_vars
  <2> SUFFICES ASSUME InjectionInv, Next PROVE SameSettings(ws', ws)
    OBVIOUS
  <2>1. CASE Reload
    BY <2>1, RoundTrip DEF Reload, InjectionInv
  <2>2. CASE UNCHANGED ws
    BY <2>2 DEF SameSettings
  <2> QED
    BY <2>1, <2>2 DEF Next, Apply
<1> QED
  BY <1>1, InjectionInvariant, PTL DEF Spec, SettingsSurvive

=============================================================================
