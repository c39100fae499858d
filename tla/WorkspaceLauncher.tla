------------------------- MODULE WorkspaceLauncher -------------------------
(***************************************************************************)
(* RunningWorkspaceManager (workspace_launcher.cc) with its watchdog       *)
(* (workspace_launcher_watchdog.cc), the thread-pool tasks it posts and    *)
(* the child browsers it launches.                                         *)
(*                                                                         *)
(* The manager and the watchdog live on the UI sequence: one action is one *)
(* UI task, run to completion.  Concurrent with it are the thread pool     *)
(* (directory preparation and deletion, posted without a sequence, so in   *)
(* any order) and the children, which bind their CDP port and exit on      *)
(* their own.                                                              *)
(*                                                                         *)
(* Every call of Start is identified by a number; the child it may launch  *)
(* bears the same number.                                                  *)
(***************************************************************************)
EXTENDS Integers, FiniteSets

CONSTANTS
  Workspaces,     \* workspace ids callers may name
  NoWorkspace,    \* target of a call of Start not made yet
  Ports,          \* kMinCdpPort .. kMaxCdpPort
  ForeignPorts,   \* ports of the range held by somebody else, such as the
                  \* API server's own default port
  MaxConcurrent,  \* kMaxConcurrentWorkspaces
  MaxPending,     \* calls of Start the callers have outstanding at a time
                  \* (1: every caller waits for the answer first)
  MaxStarts       \* bound of the model: calls of Start in a behaviour

ASSUME LauncherAssumption ==
  /\ IsFiniteSet(Workspaces)
  /\ NoWorkspace \notin Workspaces
  /\ Ports \subseteq Nat \ {0}
  /\ ForeignPorts \subseteq Ports
  /\ MaxConcurrent \in Nat \ {0}
  /\ MaxPending \in Nat \ {0}
  /\ MaxStarts \in Nat

VARIABLES
  alive,      \* the manager exists (and so does what its WeakPtr points to)
  phase,      \* progress of each call of Start
  target,     \* the workspace each call of Start names
  port,       \* the CDP port each call of Start was given (0: none)
  answer,     \* what the StartCallback was run with
  record,     \* workspaces_: the child recorded for each workspace
  status,     \* RunningWorkspace::status, "stopped" where no record exists
  watched,    \* watchdog_->watched_
  timer,      \* watchdog_->poll_timer_ is running
  proc,       \* state of each child
  cdp,        \* the child's remote debugging listener
  dir,        \* the workspace's user-data-dir exists
  deletions   \* posted DeletePathRecursively tasks, per workspace

managerVars == <<alive, record, status>>
watchdogVars == <<watched, timer>>
requestVars == <<phase, target, port, answer>>
childVars == <<proc, cdp>>
diskVars == <<dir, deletions>>
vars == <<managerVars, watchdogVars, requestVars, childVars, diskVars>>

Starts == 1 .. MaxStarts
NoProc == 0
NoPort == 0

\* kStarting and kStopped are assigned and overtaken (or the record erased)
\* within one UI task, so between tasks a record is running or crashed.
Statuses == {"stopped", "running", "crashed"}

-----------------------------------------------------------------------------
Pending == {r \in Starts : phase[r] \in {"preparing", "prepared"}}
Recorded == {w \in Workspaces : record[w] # NoProc}
Live == {r \in Starts : proc[r] \in {"running", "signalled"}}
Listening == {r \in Live : cdp[r] = "listening"}
BoundPorts == ForeignPorts \cup {port[r] : r \in Listening}

TypeOK ==
  /\ alive \in BOOLEAN
  /\ phase \in [Starts -> {"unused", "preparing", "prepared", "done"}]
  /\ target \in [Starts -> Workspaces \cup {NoWorkspace}]
  /\ port \in [Starts -> Ports \cup {NoPort}]
  /\ answer \in [Starts -> {"none", "ok", "error"}]
  /\ record \in [Workspaces -> Starts \cup {NoProc}]
  /\ status \in [Workspaces -> Statuses]
  /\ watched \in SUBSET Workspaces
  /\ timer \in BOOLEAN
  /\ proc \in [Starts -> {"none", "running", "signalled", "exited"}]
  /\ cdp \in [Starts -> {"unbound", "listening", "failed"}]
  /\ dir \in [Workspaces -> BOOLEAN]
  /\ deletions \in [Workspaces -> Nat]

Init ==
  /\ alive = TRUE
  /\ phase = [r \in Starts |-> "unused"]
  /\ target = [r \in Starts |-> NoWorkspace]
  /\ port = [r \in Starts |-> NoPort]
  /\ answer = [r \in Starts |-> "none"]
  /\ record = [w \in Workspaces |-> NoProc]
  /\ status = [w \in Workspaces |-> "stopped"]
  /\ watched = {}
  /\ timer = FALSE
  /\ proc = [r \in Starts |-> "none"]
  /\ cdp = [r \in Starts |-> "unbound"]
  /\ dir = [w \in Workspaces |-> FALSE]
  /\ deletions = [w \in Workspaces |-> 0]

-----------------------------------------------------------------------------
(***************************************************************************)
(* The watchdog.                                                           *)
(***************************************************************************)

\* A watchdog that forgets to restart a stopped timer.
StartWatchingNoTimer(w) ==
  /\ watched' = watched \cup {w}
  /\ UNCHANGED timer

StartWatching(w) ==
  /\ watched' = watched \cup {w}
  /\ timer' = TRUE

StopWatching(S) ==
  /\ watched' = watched \ S
  /\ timer' = (timer /\ watched' # {})

StopAllWatching ==
  /\ watched' = {}
  /\ timer' = FALSE

\* A check that takes the wait's "still running" for an exit.
HasExitedMaybe(w) == proc[record[w]] # "none"

\* WaitForExitWithTimeout(0) of the recorded process.
HasExited(w) == proc[record[w]] = "exited"

\* OnPoll runs CheckProcess on a copy of watched_.  A child exiting while the
\* loop runs is a child exiting just before or just after the poll.
OnPoll ==
  LET gone == {w \in watched \cap Recorded : HasExited(w)}
      unknown == watched \ Recorded
  IN
  /\ timer
  /\ gone \cup unknown # {}
  /\ StopWatching(gone \cup unknown)
  /\ status' = [w \in Workspaces |-> IF w \in gone THEN "crashed" ELSE status[w]]
  /\ UNCHANGED <<alive, record, requestVars, childVars, diskVars>>

-----------------------------------------------------------------------------
(***************************************************************************)
(* RunningWorkspaceManager::Start.                                         *)
(***************************************************************************)

\* A search that falls through its loop when every port is taken.
FindAvailablePortPastEnd ==
  LET free == (Ports \cup {p + 1 : p \in Ports}) \ BoundPorts
  IN CHOOSE p \in free : \A q \in free : p <= q

\* FindAvailablePort: the lowest port of the range a probe socket can bind.
FindAvailablePort ==
  LET free == Ports \ BoundPorts
  IN IF free = {} THEN NoPort ELSE CHOOSE p \in free : \A q \in free : p <= q

\* The callback is run in the call itself: already running, or refused.
AnswerAtOnce(r, w, result) ==
  /\ phase' = [phase EXCEPT ![r] = "done"]
  /\ target' = [target EXCEPT ![r] = w]
  /\ answer' = [answer EXCEPT ![r] = result]
  /\ UNCHANGED <<port, managerVars, watchdogVars, childVars, diskVars>>

PostPreparation(r, w, p) ==
  /\ phase' = [phase EXCEPT ![r] = "preparing"]
  /\ target' = [target EXCEPT ![r] = w]
  /\ port' = [port EXCEPT ![r] = p]
  /\ UNCHANGED <<answer, managerVars, watchdogVars, childVars, diskVars>>

\* A limit off by one.
AtLimitOffByOne == Cardinality(Recorded) > MaxConcurrent

\* workspaces_.size() >= kMaxConcurrentWorkspaces: crashed records count,
\* starts under way do not.
AtLimit == Cardinality(Recorded) >= MaxConcurrent

\* The running check forgotten: a second child for a running workspace.
IsRunningNever(w) == FALSE

IsRunning(w) == status[w] = "running"

Start(r, w) ==
  /\ alive
  /\ phase[r] = "unused"
  /\ \A q \in Starts : q < r => phase[q] # "unused"
  /\ Cardinality(Pending) < MaxPending
  /\ \/ /\ IsRunning(w)
        /\ AnswerAtOnce(r, w, "ok")
     \/ /\ ~IsRunning(w)
        /\ AtLimit \/ FindAvailablePort = NoPort
        /\ AnswerAtOnce(r, w, "error")
     \/ /\ ~IsRunning(w)
        /\ ~AtLimit
        /\ FindAvailablePort # NoPort
        /\ PostPreparation(r, w, FindAvailablePort)

\* The thread-pool task posted by Start: it reports success whatever happens.
PrepareDir(r) ==
  /\ phase[r] = "preparing"
  /\ phase' = [phase EXCEPT ![r] = "prepared"]
  /\ dir' = [dir EXCEPT ![target[r]] = TRUE]
  /\ UNCHANGED <<target, port, answer, deletions, managerVars, watchdogVars,
                 childVars>>

AnswerReply(r, result) ==
  /\ phase' = [phase EXCEPT ![r] = "done"]
  /\ answer' = [answer EXCEPT ![r] = result]
  /\ UNCHANGED <<target, port>>

\* The reply finds its WeakPtr dead.
StartAborted(r) ==
  /\ phase[r] = "prepared"
  /\ ~alive
  /\ AnswerReply(r, "error")
  /\ UNCHANGED <<managerVars, watchdogVars, childVars, diskVars>>

\* A failed launch that is logged, and its callback forgotten.
LaunchFailsSilently(r) ==
  /\ phase[r] = "prepared"
  /\ alive
  /\ phase' = [phase EXCEPT ![r] = "done"]
  /\ UNCHANGED <<target, port, answer, managerVars, watchdogVars, childVars,
                 diskVars>>

LaunchFails(r) ==
  /\ phase[r] = "prepared"
  /\ alive
  /\ AnswerReply(r, "error")
  /\ UNCHANGED <<managerVars, watchdogVars, childVars, diskVars>>

\* A reply that does not look at its WeakPtr.
ReplyUnchecked == TRUE

\* if (!self): the manager the reply belongs to is still there.
ReplyFindsManager == alive

\* The record of the workspace is overwritten without another look at it.
ContinueStart(r) ==
  LET w == target[r]
  IN
  /\ phase[r] = "prepared"
  /\ ReplyFindsManager
  /\ proc' = [proc EXCEPT ![r] = "running"]
  /\ record' = [record EXCEPT ![w] = r]
  /\ StartWatching(w)
  /\ status' = [status EXCEPT ![w] = "running"]
  /\ AnswerReply(r, "ok")
  /\ UNCHANGED <<alive, cdp, diskVars>>

-----------------------------------------------------------------------------
(***************************************************************************)
(* Stop, StopAll and the deletions they post.                              *)
(***************************************************************************)

\* Stop without the kill.
TerminateNothing(S) == UNCHANGED proc

\* Process::Terminate(0, wait = false) on the recorded children of S.
Terminate(S) ==
  proc' = [r \in Starts |->
             IF proc[r] = "running" /\ \E w \in S : record[w] = r
             THEN "signalled" ELSE proc[r]]

PostDeletions(S) ==
  deletions' = [w \in Workspaces |->
                  IF w \in S THEN deletions[w] + 1 ELSE deletions[w]]

Stop(w) ==
  /\ alive
  /\ w \in Recorded
  /\ StopWatching({w})
  /\ Terminate({w})
  /\ PostDeletions({w})
  /\ status' = [status EXCEPT ![w] = "stopped"]
  /\ record' = [record EXCEPT ![w] = NoProc]
  /\ UNCHANGED <<alive, requestVars, cdp, dir>>

\* ~RunningWorkspaceManager: StopAll, after which every WeakPtr is dead.
DestroyManager ==
  /\ alive
  /\ alive' = FALSE
  /\ StopAllWatching
  /\ Terminate(Recorded)
  /\ PostDeletions(Recorded)
  /\ status' = [w \in Workspaces |-> "stopped"]
  /\ record' = [w \in Workspaces |-> NoProc]
  /\ UNCHANGED <<requestVars, cdp, dir>>

RunDeletion(w) ==
  /\ deletions[w] > 0
  /\ deletions' = [deletions EXCEPT ![w] = @ - 1]
  /\ dir' = [dir EXCEPT ![w] = FALSE]
  /\ UNCHANGED <<managerVars, watchdogVars, requestVars, childVars>>

-----------------------------------------------------------------------------
(***************************************************************************)
(* The children, as the manager meets them.                                *)
(***************************************************************************)

\* --remote-debugging-port: a child that cannot bind it runs on without CDP.
ChildBinds(r) ==
  /\ r \in Live
  /\ cdp[r] = "unbound"
  /\ cdp' = [cdp EXCEPT ![r] =
               IF port[r] \in BoundPorts THEN "failed" ELSE "listening"]
  /\ UNCHANGED <<proc, managerVars, watchdogVars, requestVars, diskVars>>

\* A crash, a user closing the last window, or SIGTERM taking effect.
ChildExits(r) ==
  /\ r \in Live
  /\ proc' = [proc EXCEPT ![r] = "exited"]
  /\ UNCHANGED <<cdp, managerVars, watchdogVars, requestVars, diskVars>>

-----------------------------------------------------------------------------
Next ==
  \/ \E r \in Starts, w \in Workspaces : Start(r, w)
  \/ \E r \in Starts : PrepareDir(r)
  \/ \E r \in Starts : StartAborted(r)
  \/ \E r \in Starts : LaunchFails(r)
  \/ \E r \in Starts : ContinueStart(r)
  \/ \E w \in Workspaces : Stop(w)
  \/ DestroyManager
  \/ OnPoll
  \/ \E w \in Workspaces : RunDeletion(w)
  \/ \E r \in Starts : ChildBinds(r)
  \/ \E r \in Starts : ChildExits(r)

Spec == Init /\ [][Next]_vars

\* What the platform guarantees while the manager lives: posted tasks and replies
\* run and a running RepeatingTimer fires.  The manager dies when the browser is
\* torn down: the pool skips a task that has only MayBlock at shutdown, and no
\* reply reaches the UI thread behind the main loop, so that nothing posted is owed
\* then.  A child that was sent SIGTERM exits.  Callers and healthy children owe
\* nothing.
Fairness ==
  /\ WF_vars(OnPoll)
  /\ \A r \in Starts :
       /\ WF_vars(alive /\ PrepareDir(r))
       /\ WF_vars(alive /\ (LaunchFails(r) \/ ContinueStart(r)))
       /\ WF_vars(proc[r] = "signalled" /\ ChildExits(r))
  /\ \A w \in Workspaces : WF_vars(alive /\ RunDeletion(w))

FairSpec == Spec /\ Fairness

-----------------------------------------------------------------------------
(***************************************************************************)
(* Properties.                                                             *)
(***************************************************************************)

\* The watchdog watches exactly the workspaces whose record says "running",
\* and its timer runs exactly while it has something to watch: no running
\* child can die unnoticed because of a Start, Stop or crash of another
\* workspace (StartWatching, StopWatching, OnPoll).
WatchCoverage ==
  /\ watched = {w \in Workspaces : status[w] = "running"}
  /\ timer <=> watched # {}

\* A workspace reported as crashed has a recorded child that really exited:
\* the watchdog raises no false alarm, not even when a second start has
\* overwritten the record since the last poll (CheckProcess).
CrashIsReal ==
  \A w \in Workspaces :
    status[w] = "crashed" => w \in Recorded /\ proc[record[w]] = "exited"

\* Records and starts under way together never exceed the limit by more than
\* the callers' own concurrency: Start admits a call against the records
\* alone, ContinueStart does not check again (kMaxConcurrentWorkspaces).
SlotBound ==
  Cardinality(Recorded) + Cardinality(Pending) <= MaxConcurrent - 1 + MaxPending

\* Once the manager is gone no child is launched and no answer says "ok":
\* the reply of a directory preparation that outlives it only reports failure.
NoLaunchAfterDestruction ==
  [][~alive => /\ \A r \in Starts : proc[r] = "none" => proc'[r] = "none"
               /\ \A r \in Starts : answer'[r] = "ok" => answer[r] = "ok"]_vars

Lifecycle == INSTANCE WorkspaceLifecycle
               WITH Ids <- Workspaces, state <- status, open <- alive

\* The manager implements the abstract lifecycle: a workspace crashes only
\* while running, is launched only by a manager that exists, and no status
\* changes after the manager's destruction (Start, ContinueStart, Stop,
\* StopAll, NotifyStatusChanged).
ImplementsLifecycle == Lifecycle!Spec

\* kMaxConcurrentWorkspaces is a limit: the manager never has more records.
ConcurrencyLimit == Cardinality(Recorded) <= MaxConcurrent

\* Every child that runs and was not asked to stop is the child recorded for
\* its workspace, so that Stop, StopAll and the watchdog can reach it; at most
\* one such child exists per workspace ("Each Workspace maps to one PureCloak
\* subprocess").
NoOrphanProcess ==
  \A r \in Starts : proc[r] = "running" => record[target[r]] = r

\* Two running workspaces have different CDP ports.
DistinctCdpPorts ==
  \A v, w \in Workspaces :
    (v # w /\ status[v] = "running" /\ status[w] = "running")
      => port[record[v]] # port[record[w]]

\* A child that died is noticed: its record does not stay "running" for ever.
CrashNoticed ==
  \A w \in Workspaces :
    (status[w] = "running" /\ proc[record[w]] = "exited")
      ~> ~(status[w] = "running" /\ proc[record[w]] = "exited")

\* Every StartCallback is eventually run while the manager lives, whether the
\* launch fails or not, and whatever is stopped, crashes or is started between the
\* call and the reply.  One that is under way when the browser is torn down may
\* never be run: its task or its reply is dropped.
EveryStartAnswered ==
  \A r \in Starts : r \in Pending ~> (answer[r] # "none" \/ ~alive)

\* After the manager is destroyed every child it launched eventually exits.
ShutdownStopsChildren == ~alive ~> Live = {}

-----------------------------------------------------------------------------
(***************************************************************************)
(* The inductive invariants behind the safety properties.                  *)
(***************************************************************************)

\* A record exists exactly where the status is not "stopped", and the manager
\* takes all of them with it.
RecordStatus ==
  /\ \A w \in Workspaces : status[w] = "stopped" <=> record[w] = NoProc
  /\ ~alive => \A w \in Workspaces : record[w] = NoProc

\* A call of Start names a workspace, and has no child before it is done.
StartProgress ==
  \A r \in Starts :
    /\ phase[r] # "unused" => target[r] \in Workspaces
    /\ phase[r] # "done" => proc[r] = "none"

LauncherInv ==
  /\ TypeOK
  /\ RecordStatus
  /\ StartProgress
  /\ WatchCoverage
  /\ CrashIsReal

\* What serial callers add: the target of a start under way is not running.
SerialInv ==
  /\ Cardinality(Pending) <= 1
  /\ \A r \in Pending : status[target[r]] # "running"
  /\ NoOrphanProcess
=============================================================================
