------------------------ MODULE ProfileApplier_proofs ------------------------
(***************************************************************************)
(* Proofs about ProfileApplier, for every number of retries and of checks  *)
(* under way.                                                              *)
(***************************************************************************)
EXTENDS ProfileApplier, TLAPS

USE DEF Answers, Batches, Results, batchVars, timerVars, checkVars, sendVars

\* A reply taken off the queue leaves the counts of replies well typed.
LEMMA TakeReplyType ==
  ASSUME TypeOK, NEW a \in Answers, TakeReply(a)
  PROVE  checks' \in Nat /\ checked' \in [Answers -> Nat]
<1>1. checked[a] - 1 \in Nat
  BY DEF TypeOK, TakeReply
<1> QED
  BY <1>1 DEF TypeOK, TakeReply

\* Running pending_callback_ leaves it null and the browser up or down.
LEMMA RunCallbackType ==
  ASSUME RunCallback
  PROVE  callback' \in {"unset", "set", "run"} /\ aborted' \in BOOLEAN
BY Zenon DEF RunCallback

\* The applier's inductive invariant is preserved by every step of the code.
LEMMA ApplierStep ==
  ASSUME ApplierInv, [Next]_vars
  PROVE  ApplierInv'
<1> USE ApplierAssumption DEF ApplierInv, OneSocket, AlwaysACommand,
        SocketMonitored, NeverIdleUnanswered, Phases, Batch, Up
<1>1. CASE Apply
  BY <1>1 DEF Apply, TypeOK
<1>2. CASE OnPollTick
  BY <1>2 DEF OnPollTick, TypeOK
<1>3. CASE RunCheck
  BY <1>3 DEF RunCheck, TypeOK
<1>4. CASE \E a \in Answers : CheckIgnored(a)
  <2>a. PICK a \in Answers : CheckIgnored(a)
    BY <1>4
  <2> USE <2>a DEF CheckIgnored
  <2>1. TypeOK'
    <3>1. checks' \in Nat /\ checked' \in [Answers -> Nat]
      BY TakeReplyType
    <3> QED
      BY <3>1 DEF TypeOK
  <2> USE DEF TakeReply, HandlesReply
  <2>2. OneSocket'
    BY DEF TypeOK
  <2>3. AlwaysACommand'
    BY DEF TypeOK
  <2>4. SocketMonitored'
    BY DEF TypeOK
  <2>5. NeverIdleUnanswered'
    BY DEF TypeOK
  <2>6. Phases'
    BY DEF TypeOK
  <2>7. Batch'
    BY DEF TypeOK
  <2> QED
    BY <2>1, <2>2, <2>3, <2>4, <2>5, <2>6, <2>7
<1>5. CASE CheckAvailable
  <2>a. pollTimer /\ hasBatch
    BY <1>5 DEF CheckAvailable, TakeReply, HandlesReply, TypeOK
  <2> USE <1>5 DEF CheckAvailable
  <2>1. TypeOK'
    <3>1. checks' \in Nat /\ checked' \in [Answers -> Nat]
      BY TakeReplyType
    <3>2. hasBatch' \in BOOLEAN /\ hasSaved' \in BOOLEAN
      BY Zenon DEF TakeBatch, TypeOK
    <3>3. sends' \in [Batches -> Nat]
      BY <2>a DEF TypeOK
    <3> QED
      BY <3>1, <3>2, <3>3 DEF TypeOK
  <2> USE <2>a DEF TakeReply, HandlesReply, TakeBatch
  <2>2. OneSocket'
    BY DEF TypeOK
  <2>3. AlwaysACommand'
    BY DEF TypeOK
  <2>4. SocketMonitored'
    BY DEF TypeOK
  <2>5. NeverIdleUnanswered'
    BY DEF TypeOK
  <2>6. Phases'
    BY DEF TypeOK
  <2>7. Batch'
    BY DEF TypeOK
  <2> QED
    BY <2>1, <2>2, <2>3, <2>4, <2>5, <2>6, <2>7
<1>6. CASE CheckFailed
  <2>a. pollTimer /\ retries > 0
    BY <1>6 DEF CheckFailed, TakeReply, HandlesReply, TypeOK
  <2> USE <1>6 DEF CheckFailed
  <2>1. TypeOK'
    <3>1. checks' \in Nat /\ checked' \in [Answers -> Nat]
      BY TakeReplyType
    <3>2. callback' \in {"unset", "set", "run"} /\ aborted' \in BOOLEAN
      BY RunCallbackType, Zenon DEF GiveUp, TypeOK
    <3>3. started' \in BOOLEAN /\ pollTimer' \in BOOLEAN
      BY Zenon DEF GiveUp, TypeOK
    <3>4. retries' \in Nat
      BY <2>a DEF TypeOK
    <3> QED
      BY <3>1, <3>2, <3>3, <3>4 DEF TypeOK
  <2> USE <2>a DEF TakeReply, HandlesReply, GiveUp, RunCallback
  <2>2. OneSocket'
    BY DEF TypeOK
  <2>3. AlwaysACommand'
    BY DEF TypeOK
  <2>4. SocketMonitored'
    BY DEF TypeOK
  <2>5. NeverIdleUnanswered'
    BY DEF TypeOK
  <2>6. Phases'
    <3>1. callback # "unset" /\ callback' # "unset"
      BY DEF TypeOK
    <3>2. CASE UNCHANGED <<started, pollTimer, callback, aborted>>
      BY <3>1, <3>2 DEF TypeOK
    <3>3. CASE GiveUp
      <4>1. started' = TRUE /\ pollTimer' = FALSE
        BY <3>3
      <4> QED
        BY <3>1, <4>1 DEF TypeOK
    <3> QED
      BY <3>2, <3>3
  <2>7. Batch'
    BY DEF TypeOK
  <2> QED
    BY <2>1, <2>2, <2>3, <2>4, <2>5, <2>6, <2>7
<1>7. CASE \E b \in Batches : RunSend(b)
  BY <1>7 DEF RunSend, TypeOK
<1>8. CASE \E x \in Results : OnCommandsSent(x)
  <2>a. PICK x \in Results : OnCommandsSent(x)
    BY <1>8
  <2>b. sent[x] - 1 \in Nat
    BY <2>a DEF OnCommandsSent, TypeOK
  <2> USE <2>a DEF OnCommandsSent
  <2>1. TypeOK'
    <3>1. sent' \in [Results -> Nat]
      BY <2>b DEF TypeOK
    <3>2. callback' \in {"unset", "set", "run"} /\ aborted' \in BOOLEAN
      BY RunCallbackType
    <3>3. lost' \in Nat /\ socket' \in {"none", "open", "hungup"} /\ healthTimer' \in BOOLEAN
      <4>1. CASE x = "fd"
        BY <4>1 DEF KeepSocket, TypeOK
      <4>2. CASE x = "error"
        BY <4>2 DEF TypeOK
      <4> QED
        BY <4>1, <4>2
    <3> QED
      BY <3>1, <3>2, <3>3 DEF TypeOK
  <2> USE <2>b DEF KeepSocket, RunCallback
  <2>2. OneSocket'
    BY DEF TypeOK
  <2>3. AlwaysACommand'
    BY DEF TypeOK
  <2>4. SocketMonitored'
    BY DEF TypeOK
  <2>5. NeverIdleUnanswered'
    BY DEF TypeOK
  <2>6. Phases'
    <3>0. started
      BY <2>a, <2>b DEF TypeOK
    <3>1. callback # "unset"
      BY <3>0
    <3>2. callback' = "run" /\ started' /\ ~pollTimer'
      BY <3>0, <3>1 DEF TypeOK
    <3> QED
      BY <3>2 DEF TypeOK
  <2>7. Batch'
    BY DEF TypeOK
  <2> QED
    BY <2>1, <2>2, <2>3, <2>4, <2>5, <2>6, <2>7
<1>9. CASE OnHealthCheck
  <2> USE <1>9 DEF OnHealthCheck
  <2>1. TypeOK'
    <3>1. hasBatch' \in BOOLEAN /\ hasSaved' \in BOOLEAN
      BY Zenon DEF RestoreBatch, TypeOK
    <3> QED
      BY <3>1 DEF TypeOK
  <2> USE DEF RestoreBatch
  <2>2. OneSocket'
    BY DEF TypeOK
  <2>3. AlwaysACommand'
    BY DEF TypeOK
  <2>4. SocketMonitored'
    BY DEF TypeOK
  <2>5. NeverIdleUnanswered'
    BY DEF TypeOK
  <2>6. Phases'
    BY DEF TypeOK
  <2>7. Batch'
    BY DEF TypeOK
  <2> QED
    BY <2>1, <2>2, <2>3, <2>4, <2>5, <2>6, <2>7
<1>10. CASE HangUp
  BY <1>10 DEF HangUp, TypeOK
<1>11. CASE Destroy
  BY <1>11 DEF Destroy, TypeOK
<1>12. CASE \E x \in Results : DropSent(x)
  BY <1>12 DEF DropSent, TypeOK
<1>13. CASE UNCHANGED vars
  BY <1>13 DEF vars, TypeOK
<1> QED
  BY <1>1, <1>2, <1>3, <1>4, <1>5, <1>6, <1>7, <1>8, <1>9, <1>10, <1>11, <1>12,
     <1>13 DEF Next

\* The inductive invariant holds in every state of the applier.
THEOREM ApplierInvariant == Spec => []ApplierInv
<1>1. Init => ApplierInv
  <2> SUFFICES ASSUME Init PROVE ApplierInv
    OBVIOUS
  <2>1. TypeOK
    BY DEF Init, TypeOK
  <2>2. OneSocket /\ AlwaysACommand
    BY DEF Init, OneSocket, AlwaysACommand
  <2>3. SocketMonitored /\ NeverIdleUnanswered
    BY DEF Init, SocketMonitored, NeverIdleUnanswered
  <2>4. Phases
    BY DEF Init, Phases, Up
  <2>5. Batch
    BY DEF Init, Batch
  <2> QED
    BY <2>1, <2>2, <2>3, <2>4, <2>5 DEF ApplierInv
<1>2. ApplierInv /\ [Next]_vars => ApplierInv'
  BY ApplierStep
<1> QED
  BY <1>1, <1>2, PTL DEF Spec

\* The applier's variables keep their types.
THEOREM ApplierTypeCorrect == Spec => []TypeOK
<1>1. ApplierInv => TypeOK
  BY DEF ApplierInv
<1> QED
  BY <1>1, ApplierInvariant, PTL

\* An applier never has two WebSockets and never forgets an open one, however
\* many availability checks race (commands_started_).
THEOREM SocketNeverDoubled == Spec => []OneSocket
<1>1. ApplierInv => OneSocket
  BY DEF ApplierInv
<1> QED
  BY <1>1, ApplierInvariant, PTL

\* SendCommands never runs without the commands, before and after reconnecting
\* (saved_command_jsons_).
THEOREM CommandsNeverLost == Spec => []AlwaysACommand
<1>1. ApplierInv => AlwaysACommand
  BY DEF ApplierInv
<1> QED
  BY <1>1, ApplierInvariant, PTL

\* The health timer runs exactly while a WebSocket is held.
THEOREM HealthTimerCorrect == Spec => []SocketMonitored
<1>1. ApplierInv => SocketMonitored
  BY DEF ApplierInv
<1> QED
  BY <1>1, ApplierInvariant, PTL

\* No caller of Apply waits for an applier that has nothing left to do.
THEOREM CallerNeverForgotten == Spec => []NeverIdleUnanswered
<1>1. ApplierInv => NeverIdleUnanswered
  BY DEF ApplierInv
<1> QED
  BY <1>1, ApplierInvariant, PTL
=============================================================================
