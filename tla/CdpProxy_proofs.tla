--------------------------- MODULE CdpProxy_proofs ---------------------------
(***************************************************************************)
(* Proofs about CdpProxy, for any number of connections and workspaces and *)
(* any streams of the children.                                            *)
(***************************************************************************)
EXTENDS CdpProxy, SequenceTheorems, TLAPS

-----------------------------------------------------------------------------
(***************************************************************************)
(* The inductive invariant.                                                *)
(***************************************************************************)

\* A socket is read from only when it is connected, once at a time.
Reads(c) ==
  GetSession(c) =>
    /\ session[c].reads <= 1
    /\ session[c].socket # "connected" => session[c].reads = 0

\* The status line of an accepted upgrade is on its way, the handshake is
\* complete or a message was relayed only if the child has accepted.
Accepted(c) ==
  \/ Has(inbound[c], "101")
  \/ GetSession(c) /\ session[c].handshake = "complete"
  \/ relayed[c] > 0
  => upgrade[c] = "accepted"

ProxyInv ==
  /\ TypeOK
  /\ NoZombieSession
  /\ \A c \in Conns : Reads(c)
  /\ \A c \in Conns : Accepted(c)
  /\ \A c \in Conns : relayed[c] <= sent[c]

-----------------------------------------------------------------------------
(***************************************************************************)
(* The child's stream.                                                     *)
(***************************************************************************)

\* A read of n pieces takes them from the front of the stream: what it returns
\* and what it leaves are parts of the stream.
LEMMA ReadPieces ==
  ASSUME NEW s \in Seq(Pieces), NEW n \in 1 .. Len(s), NEW x
  PROVE  /\ SubSeq(s, n + 1, Len(s)) \in Seq(Pieces)
         /\ Has(SubSeq(s, 1, n), x) => Has(s, x)
         /\ Has(SubSeq(s, n + 1, Len(s)), x) => Has(s, x)
<1>1. Len(s) \in Nat /\ \A k \in 1 .. Len(s) : s[k] \in Pieces
  BY LenProperties, ElementOfSeq
<1>2. /\ Len(SubSeq(s, 1, n)) = n
      /\ \A k \in 1 .. n : SubSeq(s, 1, n)[k] = s[k]
  BY <1>1, SubSeqProperties
<1>3. SubSeq(s, n + 1, Len(s)) \in Seq(Pieces)
  BY <1>1, SubSeqProperties
<1>4. /\ Len(SubSeq(s, n + 1, Len(s))) = Len(s) - n
      /\ \A k \in 1 .. Len(s) - n : SubSeq(s, n + 1, Len(s))[k] = s[n + k]
  BY <1>1, SubSeqProperties
<1> QED
  BY <1>1, <1>2, <1>3, <1>4 DEF Has

\* A frame at the end of the stream is no status line.
LEMMA AppendFrame ==
  ASSUME NEW s \in Seq(Pieces)
  PROVE  /\ Append(s, "frame") \in Seq(Pieces)
         /\ Has(Append(s, "frame"), "101") => Has(s, "101")
<1>1. "frame" \in Pieces
  BY DEF Pieces
<1> QED
  BY <1>1, AppendProperties, LenProperties DEF Has

\* A refusal carries no 101.
LEMMA AnswerPieces ==
  Accepts \in Seq(Pieces) /\ Refuses \in Seq(Pieces) /\ ~Has(Refuses, "101")
BY DEF Accepts, Refuses, Pieces, Has

\* StartTargetRead changes the number of reads and nothing else.
LEMMA StartReadEffect ==
  ASSUME NEW s \in ProxySession
  PROVE  /\ StartTargetRead(s) \in ProxySession
         /\ StartTargetRead(s).socket = s.socket
         /\ StartTargetRead(s).handshake = s.handshake
         /\ StartTargetRead(s).reads = s.reads + 1
<1>1. s.reads + 1 \in Nat
  BY DEF ProxySession
<1> QED
  BY <1>1 DEF ProxySession, StartTargetRead

\* What a read does to its session: it ends it, or it takes the one read
\* outstanding off and may start one more; the handshake is complete only by a
\* 101 in the stream.
LEMMA ReadEffect ==
  ASSUME TypeOK, NEW c \in Conns, NEW n \in 1 .. Len(inbound[c]), OnTargetRead(c, n)
  PROVE  /\ session[c] \in ProxySession /\ session[c].reads > 0
         /\ UNCHANGED <<received, client>>
         /\ \E t \in ProxySession \cup {NoSession} :
              /\ session' = [session EXCEPT ![c] = t]
              /\ t # NoSession =>
                   /\ t.socket = session[c].socket
                   /\ t.reads <= session[c].reads
                   /\ t.handshake = session[c].handshake \/ Has(inbound[c], "101")
<1> USE DEF HasServer
<1> DEFINE s == [session[c] EXCEPT !.reads = @ - 1]
           data == SubSeq(inbound[c], 1, n)
<1>1. session[c] \in ProxySession /\ session[c].reads > 0
  BY DEF OnTargetRead, GetSession, TypeOK
<1>2. /\ session[c].reads \in Nat /\ session[c].reads - 1 \in Nat
      /\ s \in ProxySession /\ s.socket = session[c].socket
      /\ s.reads = session[c].reads - 1 /\ s.handshake = session[c].handshake
  BY <1>1 DEF ProxySession
<1>a. s.reads + 1 = session[c].reads
  BY <1>2
<1> HIDE DEF s
<1>3. /\ StartTargetRead(s) \in ProxySession
      /\ StartTargetRead(s).socket = session[c].socket
      /\ StartTargetRead(s).reads = session[c].reads
      /\ StartTargetRead(s).handshake = session[c].handshake
  <2>1. /\ StartTargetRead(s) \in ProxySession
        /\ StartTargetRead(s).socket = s.socket
        /\ StartTargetRead(s).handshake = s.handshake
        /\ StartTargetRead(s).reads = s.reads + 1
    BY <1>2, StartReadEffect
  <2> QED
    BY <1>2, <1>a, <2>1
<1>4. /\ [s EXCEPT !.handshake = "complete"] \in ProxySession
      /\ [s EXCEPT !.handshake = "complete"].socket = s.socket
      /\ [s EXCEPT !.handshake = "complete"].reads = s.reads
  BY <1>2 DEF ProxySession
<1>5. /\ StartTargetRead([s EXCEPT !.handshake = "complete"]) \in ProxySession
      /\ StartTargetRead([s EXCEPT !.handshake = "complete"]).socket = session[c].socket
      /\ StartTargetRead([s EXCEPT !.handshake = "complete"]).reads = session[c].reads
  <2> DEFINE r == [s EXCEPT !.handshake = "complete"]
  <2>1. r \in ProxySession /\ r.socket = s.socket /\ r.reads = s.reads
    BY <1>4
  <2> HIDE DEF r
  <2>2. /\ StartTargetRead(r) \in ProxySession
        /\ StartTargetRead(r).socket = r.socket
        /\ StartTargetRead(r).reads = r.reads + 1
    BY <2>1, StartReadEffect
  <2>3. /\ StartTargetRead(r) \in ProxySession
        /\ StartTargetRead(r).socket = session[c].socket
        /\ StartTargetRead(r).reads = session[c].reads
    BY <1>2, <1>a, <2>1, <2>2
  <2> QED
    BY <2>3 DEF r
<1>6. Has(data, "101") => Has(inbound[c], "101")
  BY ReadPieces DEF TypeOK
<1>7. \/ session' = [session EXCEPT ![c] = s]
      \/ session' = [session EXCEPT ![c] = StartTargetRead(s)]
      \/ session' = [session EXCEPT ![c] = NoSession]
      \/ /\ Has(data, "101")
         /\ session' = [session EXCEPT ![c] =
                          StartTargetRead([s EXCEPT !.handshake = "complete"])]
  BY DEF OnTargetRead, ForwardToClient, CompleteHandshake, ReadMoreHeader,
     DestroySession, s
<1>8. UNCHANGED <<received, client>>
  BY DEF OnTargetRead, ForwardToClient, CompleteHandshake, DestroySession
<1> QED
  BY <1>1, <1>2, <1>3, <1>5, <1>6, <1>7, <1>8

-----------------------------------------------------------------------------
(***************************************************************************)
(* Preservation.                                                           *)
(***************************************************************************)

\* Every step of the proxy, its clients and children and the manager keeps the
\* types: no read count below zero, no counter past its bound.
LEMMA ProxyTypeStep ==
  ASSUME ProxyInv, [Next]_vars
  PROVE  TypeOK'
<1> USE ProxyAssumption DEF managerVars, clientVars, proxyVars, childVars, GetSession,
        Tasks, DestroySession, HasServer
<1>a. TypeOK
  BY DEF ProxyInv
<1>1. CASE \E c \in Conns, w \in Workspaces : HandleWebSocketUpgrade(c, w)
  BY <1>1, <1>a DEF HandleWebSocketUpgrade, CreateSession, ProxySession, TypeOK
<1>2. CASE \E c \in Conns : RefuseUpgrade(c)
  BY <1>2, <1>a DEF RefuseUpgrade, TypeOK
<1>3. CASE \E c \in Conns : OnWebSocketMessage(c)
  <2>1. PICK c \in Conns : OnWebSocketMessage(c)
    BY <1>3
  <2>2. relayed[c] <= sent[c]
    BY DEF ProxyInv
  <2>3. sent' \in [Conns -> 0 .. MaxMessages]
    BY <2>1, <1>a DEF OnWebSocketMessage, TypeOK
  <2>4. relayed' \in [Conns -> 0 .. MaxMessages]
    <3>1. relayed[c] + 1 \in 0 .. MaxMessages
      BY <2>1, <2>2, <1>a DEF OnWebSocketMessage, TypeOK
    <3>2. relayed' = relayed \/ relayed' = [relayed EXCEPT ![c] = @ + 1]
      BY <2>1 DEF OnWebSocketMessage, ForwardToTarget
    <3> QED
      BY <3>1, <3>2, <1>a DEF TypeOK
  <2>5. session' \in [Conns -> ProxySession \cup {NoSession}] /\ client' = client
    BY <2>1, <1>a DEF OnWebSocketMessage, ForwardToTarget, TypeOK
  <2> QED
    BY <2>1, <2>3, <2>4, <2>5, <1>a DEF OnWebSocketMessage, TypeOK
<1>4. CASE \E c \in Conns : OnClose(c)
  BY <1>4, <1>a DEF OnClose, TypeOK
<1>5. CASE \E c \in Conns : LookUpWorkspace(c)
  BY <1>5, <1>a DEF LookUpWorkspace, TypeOK
<1>6. CASE \E c \in Conns : DropSession(c)
  BY <1>6, <1>a DEF DropSession, TypeOK
<1>7. CASE \E c \in Conns : ConnectToTarget(c)
  BY <1>7, <1>a DEF ConnectToTarget, ProxySession, TypeOK
<1>8. CASE \E c \in Conns : OnTargetConnected(c)
  <2>1. PICK c \in Conns : OnTargetConnected(c)
    BY <1>8
  <2>2. [session[c] EXCEPT !.socket = "connected"] \in ProxySession
    BY <2>1, <1>a DEF OnTargetConnected, ProxySession, TypeOK
  <2>3. session' \in [Conns -> ProxySession \cup {NoSession}]
    BY <2>1, <2>2, <1>a, StartReadEffect DEF OnTargetConnected, TypeOK
  <2> QED
    BY <2>1, <2>3, <1>a DEF OnTargetConnected, TypeOK
<1>9. CASE \E c \in Conns : ConnectFails(c)
  BY <1>9, <1>a DEF ConnectFails, TypeOK
<1>10. CASE \E c \in Conns : \E n \in 1 .. Len(inbound[c]) : OnTargetRead(c, n)
  <2>0. PICK c \in Conns : \E n \in 1 .. Len(inbound[c]) : OnTargetRead(c, n)
    BY <1>10
  <2>1. PICK n \in 1 .. Len(inbound[c]) : OnTargetRead(c, n)
    BY <2>0
  <2>2. PICK t \in ProxySession \cup {NoSession} : session' = [session EXCEPT ![c] = t]
    BY <2>1, <1>a, ReadEffect
  <2>3. inbound' \in [Conns -> Seq(Pieces)]
    BY <2>1, <1>a, ReadPieces DEF OnTargetRead, TypeOK
  <2>4. session' \in [Conns -> ProxySession \cup {NoSession}]
    BY <2>2, <1>a DEF TypeOK
  <2>5. UNCHANGED <<received, client>>
    BY <2>1, <1>a, ReadEffect
  <2> QED
    BY <2>1, <2>3, <2>4, <2>5, <1>a DEF OnTargetRead, TypeOK
<1>11. CASE \E c \in Conns : OnTargetClosed(c)
  BY <1>11, <1>a DEF OnTargetClosed, TypeOK
<1>12. CASE \E c \in Conns, a \in {"accepted", "refused"} : ChildAnswers(c, a)
  <2>1. PICK c \in Conns, a \in {"accepted", "refused"} : ChildAnswers(c, a)
    BY <1>12
  <2>2. inbound' \in [Conns -> Seq(Pieces)]
    BY <2>1, <1>a, AnswerPieces DEF ChildAnswers, TypeOK
  <2>3. upgrade' \in [Conns -> {"none", "accepted", "refused"}]
    BY <2>1, <1>a DEF ChildAnswers, TypeOK
  <2> QED
    BY <2>1, <2>2, <2>3, <1>a DEF ChildAnswers, TypeOK
<1>13. CASE \E c \in Conns : ChildSendsFrame(c)
  <2>1. PICK c \in Conns : ChildSendsFrame(c)
    BY <1>13
  <2>2. inbound' \in [Conns -> Seq(Pieces)]
    BY <2>1, <1>a, AppendFrame DEF ChildSendsFrame, TypeOK
  <2>3. frames' \in [Conns -> 0 .. MaxFrames]
    BY <2>1, <1>a DEF ChildSendsFrame, TypeOK
  <2> QED
    BY <2>1, <2>2, <2>3, <1>a DEF ChildSendsFrame, TypeOK
<1>14. CASE \E c \in Conns : ChildCloses(c)
  BY <1>14, <1>a DEF ChildCloses, TypeOK
<1>15. CASE ManagerStep
  <2>1. status' \in [Workspaces -> {"stopped", "running", "crashed"}] /\ open' \in BOOLEAN
    <3>1. CASE \E S \in SUBSET Workspaces : Manager!Crash(S) \/ Manager!Stop(S)
      BY <3>1, <1>a DEF Manager!Crash, Manager!Stop, TypeOK
    <3>2. CASE \E w \in Workspaces : Manager!Launch(w)
      BY <3>2, <1>a DEF Manager!Launch, TypeOK
    <3>3. CASE Manager!Close
      BY <3>3, <1>a DEF Manager!Close, TypeOK
    <3> QED
      BY <1>15, <3>1, <3>2, <3>3 DEF ManagerStep, Manager!Next
  <2> QED
    BY <1>15, <2>1, <1>a DEF ManagerStep, TypeOK
<1>16. CASE UNCHANGED vars
  BY <1>16, <1>a DEF vars, TypeOK
<1> QED
  BY <1>1, <1>2, <1>3, <1>4, <1>5, <1>6, <1>7, <1>8, <1>9, <1>10, <1>11, <1>12,
     <1>13, <1>14, <1>15, <1>16 DEF Next

\* A session changes, or comes into being, only for a client that is there, and
\* a client goes together with its session.
LEMMA ZombieStep ==
  ASSUME ProxyInv, [Next]_vars
  PROVE  NoZombieSession'
<1> USE DEF managerVars, clientVars, proxyVars, childVars, GetSession, DestroySession,
        HasServer, NoZombieSession
<1>a. TypeOK /\ NoZombieSession
  BY DEF ProxyInv
<1>1. CASE \E c \in Conns, w \in Workspaces : HandleWebSocketUpgrade(c, w)
  BY <1>1, <1>a DEF HandleWebSocketUpgrade, CreateSession, TypeOK
<1>2. CASE \E c \in Conns : RefuseUpgrade(c)
  BY <1>2, <1>a DEF RefuseUpgrade, TypeOK
<1>3. CASE \E c \in Conns : OnWebSocketMessage(c)
  BY <1>3, <1>a DEF OnWebSocketMessage, ForwardToTarget, TypeOK
<1>4. CASE \E c \in Conns : OnClose(c)
  BY <1>4, <1>a DEF OnClose, TypeOK
<1>5. CASE \E c \in Conns : LookUpWorkspace(c)
  BY <1>5, <1>a DEF LookUpWorkspace, TypeOK
<1>6. CASE \E c \in Conns : DropSession(c)
  BY <1>6, <1>a DEF DropSession, TypeOK
<1>7. CASE \E c \in Conns : ConnectToTarget(c)
  BY <1>7, <1>a DEF ConnectToTarget, TypeOK
<1>8. CASE \E c \in Conns : OnTargetConnected(c)
  BY <1>8, <1>a DEF OnTargetConnected, TypeOK
<1>9. CASE \E c \in Conns : ConnectFails(c)
  BY <1>9, <1>a DEF ConnectFails, TypeOK
<1>10. CASE \E c \in Conns : \E n \in 1 .. Len(inbound[c]) : OnTargetRead(c, n)
  <2>0. PICK c \in Conns : \E n \in 1 .. Len(inbound[c]) : OnTargetRead(c, n)
    BY <1>10
  <2>1. PICK n \in 1 .. Len(inbound[c]) : OnTargetRead(c, n)
    BY <2>0
  <2>2. PICK t \in ProxySession \cup {NoSession} : session' = [session EXCEPT ![c] = t]
    BY <2>1, <1>a, ReadEffect
  <2>3. GetSession(c) /\ client' = client
    BY <2>1, <1>a, ReadEffect DEF OnTargetRead
  <2> QED
    BY <2>2, <2>3, <1>a DEF TypeOK
<1>11. CASE \E c \in Conns : OnTargetClosed(c)
  BY <1>11, <1>a DEF OnTargetClosed, TypeOK
<1>12. CASE UNCHANGED <<client, session>>
  BY <1>12, <1>a
<1> QED
  BY <1>1, <1>2, <1>3, <1>4, <1>5, <1>6, <1>7, <1>8, <1>9, <1>10, <1>11, <1>12
     DEF Next, ChildAnswers, ChildSendsFrame, ChildCloses, ManagerStep, vars

\* No step starts a read on a socket that has one outstanding.
LEMMA ReadsStep ==
  ASSUME ProxyInv, [Next]_vars
  PROVE  (\A c \in Conns : Reads(c))'
<1> USE DEF managerVars, clientVars, proxyVars, childVars, GetSession, DestroySession,
        HasServer, Reads
<1>a. TypeOK /\ \A c \in Conns : Reads(c)
  BY DEF ProxyInv
<1>1. CASE \E c \in Conns, w \in Workspaces : HandleWebSocketUpgrade(c, w)
  BY <1>1, <1>a DEF HandleWebSocketUpgrade, CreateSession, TypeOK
<1>2. CASE \E c \in Conns : OnWebSocketMessage(c)
  BY <1>2, <1>a DEF OnWebSocketMessage, ForwardToTarget, TypeOK
<1>3. CASE \E c \in Conns : OnClose(c)
  BY <1>3, <1>a DEF OnClose, TypeOK
<1>4. CASE \E c \in Conns : DropSession(c)
  BY <1>4, <1>a DEF DropSession, TypeOK
<1>5. CASE \E c \in Conns : ConnectToTarget(c)
  BY <1>5, <1>a DEF ConnectToTarget, TypeOK
<1>6. CASE \E c \in Conns : OnTargetConnected(c)
  <2>1. PICK c \in Conns : OnTargetConnected(c)
    BY <1>6
  <2> DEFINE s == [session[c] EXCEPT !.socket = "connected"]
  <2>2. s \in ProxySession /\ s.reads = 0 /\ s.socket = "connected"
    BY <2>1, <1>a DEF OnTargetConnected, ProxySession, TypeOK
  <2>3. session' = [session EXCEPT ![c] = StartTargetRead(s)]
    BY <2>1 DEF OnTargetConnected
  <2> HIDE DEF s
  <2>4. StartTargetRead(s).socket = "connected" /\ StartTargetRead(s).reads = 1
    BY <2>2, StartReadEffect
  <2> QED
    BY <2>3, <2>4, <1>a DEF TypeOK
<1>7. CASE \E c \in Conns : ConnectFails(c)
  BY <1>7, <1>a DEF ConnectFails, TypeOK
<1>8. CASE \E c \in Conns : \E n \in 1 .. Len(inbound[c]) : OnTargetRead(c, n)
  <2>0. PICK c \in Conns : \E n \in 1 .. Len(inbound[c]) : OnTargetRead(c, n)
    BY <1>8
  <2>1. PICK n \in 1 .. Len(inbound[c]) : OnTargetRead(c, n)
    BY <2>0
  <2>2. PICK t \in ProxySession \cup {NoSession} :
          /\ session' = [session EXCEPT ![c] = t]
          /\ t # NoSession =>
               t.socket = session[c].socket /\ t.reads <= session[c].reads
    BY <2>1, <1>a, ReadEffect
  <2>3. session[c] \in ProxySession /\ session[c].reads > 0 /\ GetSession(c)
    BY <2>1, <1>a, ReadEffect DEF OnTargetRead
  <2>4. session[c].reads = 1 /\ session[c].socket = "connected"
    BY <2>3, <1>a DEF ProxySession
  <2>5. t # NoSession => t.reads <= 1 /\ t.socket = "connected"
    BY <2>2, <2>4
  <2> QED
    BY <2>2, <2>5, <1>a DEF TypeOK
<1>9. CASE \E c \in Conns : OnTargetClosed(c)
  BY <1>9, <1>a DEF OnTargetClosed, TypeOK
<1>10. CASE UNCHANGED session
  BY <1>10, <1>a
<1> QED
  BY <1>1, <1>2, <1>3, <1>4, <1>5, <1>6, <1>7, <1>8, <1>9, <1>10
     DEF Next, RefuseUpgrade, LookUpWorkspace, ChildAnswers, ChildSendsFrame,
         ChildCloses, ManagerStep, vars

\* Nothing is relayed, and no handshake completed, before the child accepts.
LEMMA AcceptedStep ==
  ASSUME ProxyInv, [Next]_vars
  PROVE  (\A c \in Conns : Accepted(c))'
<1> USE DEF managerVars, clientVars, proxyVars, childVars, GetSession, DestroySession,
        HasServer, Accepted
<1>a. TypeOK /\ \A c \in Conns : Accepted(c)
  BY DEF ProxyInv
<1>1. CASE \E c \in Conns, w \in Workspaces : HandleWebSocketUpgrade(c, w)
  BY <1>1, <1>a DEF HandleWebSocketUpgrade, CreateSession, TypeOK
<1>2. CASE \E c \in Conns : OnWebSocketMessage(c)
  <2>1. PICK c \in Conns : OnWebSocketMessage(c)
    BY <1>2
  <2>2. UNCHANGED <<upgrade, inbound>>
    BY <2>1 DEF OnWebSocketMessage
  <2>3. CASE UNCHANGED relayed
    <3>1. session' = session \/ session' = [session EXCEPT ![c] = NoSession]
      BY <2>1 DEF OnWebSocketMessage, ForwardToTarget
    <3> QED
      BY <2>2, <2>3, <3>1, <1>a DEF TypeOK
  <2>4. CASE relayed' = [relayed EXCEPT ![c] = @ + 1] /\ MayForward(c) /\ session' = session
    BY <2>2, <2>4, <1>a DEF MayForward, TypeOK
  <2> QED
    BY <2>1, <2>3, <2>4 DEF OnWebSocketMessage, ForwardToTarget
<1>3. CASE \E c \in Conns : OnClose(c)
  BY <1>3, <1>a DEF OnClose, TypeOK
<1>4. CASE \E c \in Conns : DropSession(c)
  BY <1>4, <1>a DEF DropSession, TypeOK
<1>5. CASE \E c \in Conns : ConnectToTarget(c)
  BY <1>5, <1>a DEF ConnectToTarget, TypeOK
<1>6. CASE \E c \in Conns : OnTargetConnected(c)
  <2>1. PICK c \in Conns : OnTargetConnected(c)
    BY <1>6
  <2> DEFINE s == [session[c] EXCEPT !.socket = "connected"]
  <2>0. session[c] \in ProxySession
    BY <2>1, <1>a DEF OnTargetConnected, TypeOK
  <2>2. s \in ProxySession /\ s.handshake = session[c].handshake
    BY <2>0 DEF ProxySession
  <2>3. session' = [session EXCEPT ![c] = StartTargetRead(s)] /\ GetSession(c)
    BY <2>1 DEF OnTargetConnected
  <2>4. UNCHANGED <<upgrade, inbound, relayed>>
    BY <2>1 DEF OnTargetConnected
  <2> HIDE DEF s
  <2>5. StartTargetRead(s).handshake = session[c].handshake
    BY <2>2, StartReadEffect
  <2> QED
    BY <2>3, <2>4, <2>5, <1>a DEF TypeOK
<1>7. CASE \E c \in Conns : ConnectFails(c)
  BY <1>7, <1>a DEF ConnectFails, TypeOK
<1>8. CASE \E c \in Conns : \E n \in 1 .. Len(inbound[c]) : OnTargetRead(c, n)
  <2>0. PICK c \in Conns : \E n \in 1 .. Len(inbound[c]) : OnTargetRead(c, n)
    BY <1>8
  <2>1. PICK n \in 1 .. Len(inbound[c]) : OnTargetRead(c, n)
    BY <2>0
  <2>2. PICK t \in ProxySession \cup {NoSession} :
          /\ session' = [session EXCEPT ![c] = t]
          /\ t # NoSession =>
               t.handshake = session[c].handshake \/ Has(inbound[c], "101")
    BY <2>1, <1>a, ReadEffect
  <2>3. GetSession(c) /\ UNCHANGED <<upgrade, relayed>>
    BY <2>1 DEF OnTargetRead
  <2>4. inbound' = [inbound EXCEPT ![c] = SubSeq(inbound[c], n + 1, Len(inbound[c]))]
    BY <2>1 DEF OnTargetRead
  <2>5. Has(SubSeq(inbound[c], n + 1, Len(inbound[c])), "101") => Has(inbound[c], "101")
    BY <1>a, ReadPieces DEF TypeOK
  <2> QED
    BY <2>2, <2>3, <2>4, <2>5, <1>a DEF TypeOK
<1>9. CASE \E c \in Conns : OnTargetClosed(c)
  BY <1>9, <1>a DEF OnTargetClosed, TypeOK
<1>10. CASE \E c \in Conns, a \in {"accepted", "refused"} : ChildAnswers(c, a)
  <2>1. PICK c \in Conns, a \in {"accepted", "refused"} : ChildAnswers(c, a)
    BY <1>10
  <2>2. /\ upgrade[c] = "none" /\ UNCHANGED <<session, relayed>>
        /\ upgrade' = [upgrade EXCEPT ![c] = a]
        /\ inbound' = [inbound EXCEPT ![c] = IF a = "accepted" THEN Accepts ELSE Refuses]
    BY <2>1 DEF ChildAnswers
  <2> QED
    BY <2>2, <1>a, AnswerPieces DEF TypeOK
<1>11. CASE \E c \in Conns : ChildSendsFrame(c)
  <2>1. PICK c \in Conns : ChildSendsFrame(c)
    BY <1>11
  <2>2. UNCHANGED <<upgrade, session, relayed>>
    BY <2>1 DEF ChildSendsFrame
  <2>3. inbound' = [inbound EXCEPT ![c] = Append(inbound[c], "frame")]
    BY <2>1 DEF ChildSendsFrame
  <2>4. Has(Append(inbound[c], "frame"), "101") => Has(inbound[c], "101")
    BY <1>a, AppendFrame DEF TypeOK
  <2> QED
    BY <2>2, <2>3, <2>4, <1>a DEF TypeOK
<1>12. CASE UNCHANGED <<session, upgrade, inbound, relayed>>
  BY <1>12, <1>a
<1> QED
  BY <1>1, <1>2, <1>3, <1>4, <1>5, <1>6, <1>7, <1>8, <1>9, <1>10, <1>11, <1>12
     DEF Next, RefuseUpgrade, LookUpWorkspace, ChildCloses, ManagerStep, vars

\* At most the messages a client has sent are relayed.
LEMMA RelayedStep ==
  ASSUME ProxyInv, [Next]_vars
  PROVE  \A c \in Conns : relayed'[c] <= sent'[c]
<1> USE DEF managerVars, clientVars, proxyVars, childVars
<1>a. TypeOK /\ \A c \in Conns : relayed[c] <= sent[c]
  BY DEF ProxyInv
<1>1. CASE \E c \in Conns : OnWebSocketMessage(c)
  <2>1. PICK c \in Conns : OnWebSocketMessage(c)
    BY <1>1
  <2>2. /\ sent' = [sent EXCEPT ![c] = @ + 1]
        /\ relayed' = relayed \/ relayed' = [relayed EXCEPT ![c] = @ + 1]
    BY <2>1 DEF OnWebSocketMessage, ForwardToTarget
  <2>3. \A d \in Conns : relayed[d] \in Nat /\ sent[d] \in Nat
    BY <1>a, ProxyAssumption DEF TypeOK
  <2> QED
    BY <2>2, <2>3, <1>a DEF TypeOK
<1>2. CASE UNCHANGED <<relayed, sent>>
  BY <1>2, <1>a
<1> QED
  BY <1>1, <1>2 DEF Next, HandleWebSocketUpgrade, RefuseUpgrade, OnClose,
     LookUpWorkspace, DropSession, ConnectToTarget, OnTargetConnected, ConnectFails,
     OnTargetRead, OnTargetClosed, ChildAnswers, ChildSendsFrame, ChildCloses,
     ManagerStep, vars

-----------------------------------------------------------------------------
(***************************************************************************)
(* Theorems.                                                               *)
(***************************************************************************)

\* The inductive invariant of the proxy holds of every interleaving of clients,
\* look-ups, connects, reads, children and the manager.
THEOREM ProxyInvariant == Spec => []ProxyInv
<1>1. Init => ProxyInv
  <2> SUFFICES ASSUME Init PROVE ProxyInv
    OBVIOUS
  <2> USE ProxyAssumption DEF Init
  <2>1. TypeOK
    BY EmptySeq DEF Manager!Init, Tasks, TypeOK
  <2>2. \A c \in Conns : ~GetSession(c) /\ ~Has(inbound[c], "101")
    BY DEF GetSession, Has
  <2>3. \A c \in Conns : Reads(c) /\ Accepted(c)
    BY <2>2 DEF Reads, Accepted
  <2> QED
    BY <2>1, <2>2, <2>3 DEF ProxyInv, NoZombieSession
<1>2. ProxyInv /\ [Next]_vars => ProxyInv'
  BY ProxyTypeStep, ZombieStep, ReadsStep, AcceptedStep, RelayedStep DEF ProxyInv
<1> QED
  BY <1>1, <1>2, PTL DEF Spec

\* The proxy's state is well typed: a session is never left half initialised,
\* and OnTargetRead never counts below zero.
THEOREM ProxyTypeCorrect == Spec => []TypeOK
<1>1. ProxyInv => TypeOK
  BY DEF ProxyInv
<1> QED
  BY <1>1, ProxyInvariant, PTL

\* OnTargetRead and ForwardToClient between them never start two reads on one
\* target socket, as long as server_ is null and only one of them does.
THEOREM ProxyOneRead == Spec => []OneRead
<1>1. ProxyInv => OneRead
  BY DEF ProxyInv, Reads, OneRead
<1> QED
  BY <1>1, ProxyInvariant, PTL

\* No reply of the look-up and no callback of the socket leaves a session behind
\* for a client that OnClose has seen go.
THEOREM ProxyNoZombieSession == Spec => []NoZombieSession
<1>1. ProxyInv => NoZombieSession
  BY DEF ProxyInv
<1> QED
  BY <1>1, ProxyInvariant, PTL

\* OnWebSocketMessage passes nothing on to a child that has not accepted the
\* upgrade, however its response is cut into reads.
THEOREM ProxyNoPayloadBeforeUpgrade == Spec => []NoPayloadBeforeUpgrade
<1>1. ProxyInv => NoPayloadBeforeUpgrade
  BY DEF ProxyInv, Accepted, NoPayloadBeforeUpgrade
<1> QED
  BY <1>1, ProxyInvariant, PTL
=============================================================================
