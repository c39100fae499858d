--------------------------- MODULE ProfileApplier ---------------------------
(***************************************************************************)
(* WorkspaceProfileApplier (workspace_profile_applier.cc): waits for the   *)
(* CDP endpoint of a child, sends it the workspace's commands, keeps the   *)
(* WebSocket open and sends the commands again when it hangs up.           *)
(*                                                                         *)
(* The applier lives on the UI sequence.  IsCDPAvailable and SendCommands  *)
(* block, so they run on the thread pool and reply through a WeakPtr; poll *)
(* ticks do not wait for the previous check, so checks pile up and their   *)
(* replies arrive in any order.  The endpoint's answers are up to the      *)
(* child.                                                                  *)
(***************************************************************************)
EXTENDS Integers

CONSTANTS
  ApplyRetries,      \* poll_retries_left_ set by Apply (30)
  ReconnectRetries,  \* poll_retries_left_ set by ReconnectCDP (60)
  MaxChecks          \* bound of the model: checks and their replies under way

ASSUME ApplierAssumption ==
  /\ ApplyRetries \in Nat \ {0}
  /\ ReconnectRetries \in Nat \ {0}
  /\ MaxChecks \in Nat \ {0}

VARIABLES
  alive,        \* the applier exists
  aborted,      \* a CHECK failed: the browser is gone
  callback,     \* pending_callback_: "unset", "set", or "run" and null again
  hasBatch,     \* pending_command_jsons_ holds the commands
  hasSaved,     \* saved_command_jsons_ holds the commands
  retries,      \* poll_retries_left_
  started,      \* commands_started_
  pollTimer,    \* cdp_poll_timer_ is running
  healthTimer,  \* cdp_health_timer_ is running
  socket,       \* cdp_socket_: "none", "open" or "hungup"
  checks,       \* IsCDPAvailable tasks under way
  checked,      \* their replies on the way to OnCDPCheckResult, per answer
  sends,        \* SendCommands tasks under way, with and without commands
  sent,         \* their replies on the way to OnCommandsSent, per result
  lost          \* open sockets nobody holds any more

batchVars == <<hasBatch, hasSaved>>
timerVars == <<pollTimer, healthTimer>>
checkVars == <<checks, checked>>
sendVars == <<sends, sent>>
vars == <<alive, aborted, callback, batchVars, retries, started, timerVars,
          socket, checkVars, sendVars, lost>>

Answers == {"up", "down"}
Batches == {"commands", "nothing"}
Results == {"fd", "error"}

\* An applier that exists, in a browser that runs.
Up == alive /\ ~aborted

TypeOK ==
  /\ alive \in BOOLEAN
  /\ aborted \in BOOLEAN
  /\ callback \in {"unset", "set", "run"}
  /\ hasBatch \in BOOLEAN
  /\ hasSaved \in BOOLEAN
  /\ retries \in Nat
  /\ started \in BOOLEAN
  /\ pollTimer \in BOOLEAN
  /\ healthTimer \in BOOLEAN
  /\ socket \in {"none", "open", "hungup"}
  /\ checks \in Nat
  /\ checked \in [Answers -> Nat]
  /\ sends \in [Batches -> Nat]
  /\ sent \in [Results -> Nat]
  /\ lost \in Nat

Init ==
  /\ alive = TRUE
  /\ aborted = FALSE
  /\ callback = "unset"
  /\ hasBatch = FALSE
  /\ hasSaved = FALSE
  /\ retries = 0
  /\ started = FALSE
  /\ pollTimer = FALSE
  /\ healthTimer = FALSE
  /\ socket = "none"
  /\ checks = 0
  /\ checked = [a \in Answers |-> 0]
  /\ sends = [b \in Batches |-> 0]
  /\ sent = [x \in Results |-> 0]
  /\ lost = 0

-----------------------------------------------------------------------------
\* Apply, called once per applier by ContinueStart and always with a workspace;
\* the batch is never empty, as Page.enable is put in front of it.
Apply ==
  /\ Up
  /\ callback = "unset"
  /\ callback' = "set"
  /\ hasBatch' = TRUE
  /\ retries' = ApplyRetries
  /\ pollTimer' = TRUE
  /\ UNCHANGED <<alive, aborted, hasSaved, started, healthTimer, socket,
                 checkVars, sendVars, lost>>

OnPollTick ==
  /\ Up
  /\ pollTimer
  /\ checks + checked["up"] + checked["down"] < MaxChecks
  /\ checks' = checks + 1
  /\ UNCHANGED <<alive, aborted, callback, batchVars, retries, started,
                 timerVars, socket, checked, sendVars, lost>>

\* IsCDPAvailable on the thread pool.
RunCheck ==
  /\ ~aborted
  /\ checks > 0
  /\ checks' = checks - 1
  /\ \E a \in Answers : checked' = [checked EXCEPT ![a] = @ + 1]
  /\ UNCHANGED <<alive, aborted, callback, batchVars, retries, started,
                 timerVars, socket, sendVars, lost>>

TakeReply(a) ==
  /\ Up
  /\ checked[a] > 0
  /\ checked' = [checked EXCEPT ![a] = @ - 1]
  /\ UNCHANGED checks

\* std::move(pending_callback_).Run(...): a null OnceCallback fails a CHECK.
RunCallback ==
  /\ callback' = "run"
  /\ aborted' = (callback = "run")

\* No guard against the replies of further checks.
HandlesReplyAlways == TRUE

\* if (commands_started_) return, negated.
HandlesReply == ~started

\* OnCDPCheckResult: a reply nobody waits for any more.
CheckIgnored(a) ==
  /\ TakeReply(a)
  /\ ~HandlesReply
  /\ UNCHANGED <<alive, aborted, callback, batchVars, retries, started,
                 timerVars, socket, sendVars, lost>>

\* The batch is moved to the task before it is saved.
TakeBatchUnsaved == hasBatch' = FALSE /\ UNCHANGED hasSaved

\* saved = pending; std::move(pending).
TakeBatch == hasBatch' = FALSE /\ hasSaved' = hasBatch

\* OnCDPCheckResult(true): SendCommands is posted.
CheckAvailable ==
  /\ TakeReply("up")
  /\ HandlesReply
  /\ started' = TRUE
  /\ pollTimer' = FALSE
  /\ TakeBatch
  /\ sends' = [sends EXCEPT ![IF hasBatch THEN "commands" ELSE "nothing"] = @ + 1]
  /\ UNCHANGED <<alive, aborted, callback, retries, healthTimer, socket, sent,
                 lost>>

\* The last retry only stops the timer.
GiveUpSilently ==
  /\ started' = TRUE
  /\ pollTimer' = FALSE
  /\ UNCHANGED <<callback, aborted>>

\* The last retry: no more polling, and the callback hears of the failure.
GiveUp ==
  /\ started' = TRUE
  /\ pollTimer' = FALSE
  /\ RunCallback

\* OnCDPCheckResult(false).
CheckFailed ==
  /\ TakeReply("down")
  /\ HandlesReply
  /\ retries' = retries - 1
  /\ \/ retries' > 0 /\ UNCHANGED <<started, pollTimer, callback, aborted>>
     \/ retries' <= 0 /\ GiveUp
  /\ UNCHANGED <<alive, batchVars, healthTimer, socket, sendVars, lost>>

-----------------------------------------------------------------------------
\* SendCommands on the thread pool: the socket it leaves open, or -1; with no
\* commands, -1 at once.
RunSend(b) ==
  /\ ~aborted
  /\ sends[b] > 0
  /\ sends' = [sends EXCEPT ![b] = @ - 1]
  /\ \E x \in IF b = "commands" THEN Results ELSE {"error"} :
       sent' = [sent EXCEPT ![x] = @ + 1]
  /\ UNCHANGED <<alive, aborted, callback, batchVars, retries, started,
                 timerVars, socket, checkVars, lost>>

\* The socket is kept and nobody looks after it.
KeepSocketUnmonitored == socket' = "open" /\ UNCHANGED healthTimer

KeepSocket == socket' = "open" /\ healthTimer' = TRUE

\* OnCommandsSent; a socket already held would be overwritten unclosed.
OnCommandsSent(x) ==
  /\ Up
  /\ sent[x] > 0
  /\ sent' = [sent EXCEPT ![x] = @ - 1]
  /\ \/ /\ x = "fd"
        /\ lost' = IF socket = "none" THEN lost ELSE lost + 1
        /\ KeepSocket
     \/ /\ x = "error"
        /\ UNCHANGED <<lost, socket, healthTimer>>
  /\ RunCallback
  /\ UNCHANGED <<alive, batchVars, retries, started, pollTimer, checkVars, sends>>

\* Reconnecting without putting the saved commands back.
RestoreNothing == UNCHANGED batchVars

\* pending_command_jsons_ = saved_command_jsons_
RestoreBatch == hasBatch' = hasSaved /\ UNCHANGED hasSaved

\* OnHealthCheck finds the socket hung up (or poll(2) failing on it) and calls
\* ReconnectCDP.  On a healthy socket it does nothing.
OnHealthCheck ==
  /\ Up
  /\ healthTimer
  /\ socket # "none"
  /\ socket = "hungup"
  /\ healthTimer' = FALSE
  /\ socket' = "none"
  /\ RestoreBatch
  /\ started' = FALSE
  /\ retries' = ReconnectRetries
  /\ pollTimer' = TRUE
  /\ UNCHANGED <<alive, aborted, callback, checkVars, sendVars, lost>>

\* The child exits, or closes the page the WebSocket belongs to.
HangUp ==
  /\ ~aborted
  /\ socket = "open"
  /\ socket' = "hungup"
  /\ UNCHANGED <<alive, aborted, callback, batchVars, retries, started,
                 timerVars, checkVars, sendVars, lost>>

\* Stop, StopAll, or the next ContinueStart of the workspace destroys the
\* applier: the socket is closed, the timers go, replies find no applier.
Destroy ==
  /\ Up
  /\ alive' = FALSE
  /\ socket' = "none"
  /\ pollTimer' = FALSE
  /\ healthTimer' = FALSE
  /\ UNCHANGED <<aborted, callback, batchVars, retries, started, checkVars,
                 sendVars, lost>>

\* A reply of SendCommands whose WeakPtr is dead: its socket is nobody's.
DropSent(x) ==
  /\ ~alive
  /\ sent[x] > 0
  /\ sent' = [sent EXCEPT ![x] = @ - 1]
  /\ lost' = IF x = "fd" THEN lost + 1 ELSE lost
  /\ UNCHANGED <<alive, aborted, callback, batchVars, retries, started,
                 timerVars, socket, checkVars, sends>>

Next ==
  \/ Apply
  \/ OnPollTick
  \/ RunCheck
  \/ \E a \in Answers : CheckIgnored(a)
  \/ CheckAvailable
  \/ CheckFailed
  \/ \E b \in Batches : RunSend(b)
  \/ \E x \in Results : OnCommandsSent(x)
  \/ OnHealthCheck
  \/ HangUp
  \/ Destroy
  \/ \E x \in Results : DropSent(x)

Spec == Init /\ [][Next]_vars

\* Running timers fire, pool tasks end (every socket call has a five-second
\* timeout) and replies run.  The child owes nothing.
Fairness ==
  /\ WF_vars(OnPollTick)
  /\ WF_vars(RunCheck)
  /\ \A a \in Answers : WF_vars(CheckIgnored(a))
  /\ WF_vars(CheckAvailable)
  /\ WF_vars(CheckFailed)
  /\ \A b \in Batches : WF_vars(RunSend(b))
  /\ \A x \in Results : WF_vars(OnCommandsSent(x))
  /\ WF_vars(OnHealthCheck)

FairSpec == Spec /\ Fairness

-----------------------------------------------------------------------------
(***************************************************************************)
(* Properties.                                                             *)
(***************************************************************************)

\* While the applier exists there is at most one WebSocket: one SendCommands
\* under way, or its result on the way, or the socket held; and none is ever
\* overwritten unclosed, although any number of late checks may still report
\* the endpoint available ("multiple OnPollTick calls may race").
OneSocket ==
  alive =>
    /\ lost = 0
    /\ sends["commands"] + sends["nothing"] + sent["fd"] + sent["error"]
         + (IF socket = "none" THEN 0 ELSE 1) <= 1

\* SendCommands always gets the commands, the first time and after every
\* reconnection ("Saved command JSONs for reconnection").
AlwaysACommand == sends["nothing"] = 0

\* A held WebSocket is always being monitored, so a hang-up cannot go unnoticed
\* and leave the child without its session-scoped scripts.
SocketMonitored == Up => (healthTimer <=> socket # "none")

\* An applier whose caller still waits is polling or sending: no order of
\* checks, results and timeouts leaves it idle with its callback unanswered.
NeverIdleUnanswered ==
  (Up /\ callback = "set") =>
    \/ pollTimer
    \/ \E b \in Batches : sends[b] > 0
    \/ \E x \in Results : sent[x] > 0

\* The ApplyCallback, a OnceCallback, is never run when it has been run before:
\* an applier that reconnects does not bring the browser down.
CallbackRunOnce == ~aborted

\* Apply is answered: the commands are sent, or the retries run out.
ApplyAnswered == callback = "set" ~> callback = "run" \/ ~alive

\* A WebSocket that hung up is noticed and closed.
HangUpNoticed == socket = "hungup" ~> socket # "hungup"

-----------------------------------------------------------------------------
(***************************************************************************)
(* The inductive invariant behind the safety properties.                   *)
(***************************************************************************)

\* commands_started_ separates polling from sending and holding a socket.
Phases ==
  /\ Up => (pollTimer <=> callback # "unset" /\ ~started)
  /\ alive /\ ~started =>
       /\ socket = "none"
       /\ \A b \in Batches : sends[b] = 0
       /\ \A x \in Results : sent[x] = 0
  /\ callback = "unset" =>
       ~started /\ checks = 0 /\ checked["up"] = 0 /\ checked["down"] = 0

\* The commands are with the applier while it polls, and saved once sent.
Batch ==
  /\ pollTimer => hasBatch /\ retries > 0
  /\ (socket # "none" \/ \E b \in Batches : sends[b] > 0
        \/ \E x \in Results : sent[x] > 0) => hasSaved

ApplierInv ==
  /\ TypeOK
  /\ OneSocket
  /\ AlwaysACommand
  /\ SocketMonitored
  /\ NeverIdleUnanswered
  /\ Phases
  /\ Batch
=============================================================================
