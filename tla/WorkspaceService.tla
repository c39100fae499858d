-------------------------- MODULE WorkspaceService --------------------------
(***************************************************************************)
(* What the front ends of PureCloak share: the life of the browser process *)
(* (chrome_browser_main.cc, purecloak_browser_main_parts.cc), the API      *)
(* server it owns, and the store and the manager every request ends up in. *)
(*                                                                         *)
(* The manager is the one WorkspaceLifecycle promises, with the calls of   *)
(* Start whose callback is still to run.  The store is its map in memory;  *)
(* its file is WorkspaceStore's subject.  WorkspaceApi and WorkspaceViews  *)
(* extend this module, FrontEnds composes them.                            *)
(***************************************************************************)
EXTENDS Naturals, FiniteSets, Sequences

CONSTANTS
  Ids,       \* the workspace ids the model follows; GenerateId gives out each
             \* of them at most once
  Reqs       \* connections of the API server, with one request at a time on
             \* each

VARIABLES
  phase,        \* progress of the browser process
  server,       \* g_api_server
  status, open, \* the manager, see WorkspaceLifecycle
  starts,       \* calls of Start whose StartCallback has not run
  store,        \* workspaces_: 0 for no entry, else 1 or 2, which differ
                \* between an entry and the same entry edited
  file,         \* the ids in the store's file when the browser starts
  loaded,       \* initialized_
  used,         \* history: ids given out
  deleted,      \* history: ids deleted
  wanted        \* history: ids started and not stopped since

processVars == <<phase, server>>
managerVars == <<status, open, starts, wanted>>
storeVars == <<store, file, loaded, used, deleted>>
serviceVars == <<processVars, managerVars, storeVars>>

\* Who called Start: a request, the page, or a page closed since.
Callers == Reqs \cup {"page", "nobody"}
Phases == {"starting", "profile", "loop", "leaving", "torn down", "exited", "crashed"}

Manager == INSTANCE WorkspaceLifecycle WITH state <- status

ServiceTypeOK ==
  /\ phase \in Phases
  /\ server \in {"none", "up", "failed", "stopped"}
  /\ status \in [Ids -> {"stopped", "running", "crashed"}]
  /\ open \in BOOLEAN
  /\ starts \subseteq [by : Callers, ws : Ids]
  /\ store \in [Ids -> 0 .. 2]
  /\ loaded \in BOOLEAN
  /\ file \subseteq Ids /\ used \subseteq Ids /\ deleted \subseteq Ids /\ wanted \subseteq Ids

ServiceInit ==
  /\ phase = "starting"
  /\ server = "none"
  /\ Manager!Init
  /\ starts = {}
  /\ store = [i \in Ids |-> 0]
  /\ loaded = FALSE
  /\ file \in SUBSET Ids
  /\ used = file
  /\ deleted = {}
  /\ wanted = {}

-----------------------------------------------------------------------------
(***************************************************************************)
(* The browser process.                                                    *)
(***************************************************************************)

\* StartPureCloakApiServer: a port that cannot be bound is not tried again.
StartPureCloakApiServer ==
  /\ server = "none"
  /\ server' \in {"up", "failed"}

\* PostProfileInit, of which only the last lines concern PureCloak.
PostProfileInit == StartPureCloakApiServer

\* The early returns of PreMainMessageLoopRunImpl: no profile, no API server.
LeaveEarly ==
  /\ phase = "starting"
  /\ phase' = "leaving"
  /\ UNCHANGED <<server, managerVars, storeVars>>

\* The initial profile, and PostProfileInit for it.
CreateInitialProfile ==
  /\ phase = "starting"
  /\ phase' = "profile"
  /\ PostProfileInit
  /\ UNCHANGED <<managerVars, storeVars>>

\* The profile picker is shown: PostProfileInit waits for a profile.
ShowProfilePicker ==
  /\ phase = "starting"
  /\ phase' = "profile"
  /\ UNCHANGED <<server, managerVars, storeVars>>

\* CallPostProfileInit, for a profile picked later.  Only the first profile of
\* the process is the initial one.
CallPostProfileInit ==
  /\ phase = "loop"
  /\ PostProfileInit
  /\ UNCHANGED <<phase, managerVars, storeVars>>

\* browser_creator_->Start opened a window: the main loop is created and run.
RunMainMessageLoop ==
  /\ phase = "profile"
  /\ phase' = "loop"
  /\ UNCHANGED <<server, managerVars, storeVars>>

\* No window, or a quit during first run; later, the last window closes.
QuitMainMessageLoop ==
  /\ phase \in {"profile", "loop"}
  /\ phase' = "leaving"
  /\ UNCHANGED <<server, managerVars, storeVars>>

\* StartTearDown destroys the profiles, and the manager with its profile.
PostMainMessageLoopRun ==
  /\ phase = "leaving"
  /\ phase' = "torn down"
  /\ Manager!Close
  /\ UNCHANGED <<server, starts, wanted, storeVars>>

\* StopPureCloakApiServer is the last but one thing the browser does.
PostDestroyThreads ==
  /\ phase = "torn down"
  /\ phase' = "exited"
  /\ server' = IF server = "up" THEN "stopped" ELSE server
  /\ UNCHANGED <<managerVars, storeVars>>

ServerUp == server = "up" /\ phase # "crashed"

\* Tasks of the UI thread run in the main loop, and in the nested loop of a
\* first-run dialog before it.
UiRuns == phase \in {"profile", "loop"}

-----------------------------------------------------------------------------
(***************************************************************************)
(* The store.                                                              *)
(***************************************************************************)

\* OnInitData: entries in memory win, and no observer is told.
OnInitData ==
  /\ UiRuns
  /\ ~loaded
  /\ loaded' = TRUE
  /\ store' = [i \in Ids |-> IF store[i] = 0 /\ i \in file THEN 1 ELSE store[i]]
  /\ UNCHANGED <<processVars, managerVars, file, used, deleted>>

GetWorkspace(i) == i \in Ids /\ store[i] # 0

Edit(i) == store' = [store EXCEPT ![i] = IF @ = 1 THEN 2 ELSE 1]

CreateAll(S) ==
  /\ S \subseteq Ids \ used
  /\ store' = [i \in Ids |-> IF i \in S THEN 1 ELSE store[i]]
  /\ used' = used \cup S
  /\ UNCHANGED <<file, loaded, deleted>>

\* When no followed id is left, the new one is not followed.
CreateWorkspace ==
  \/ \E i \in Ids \ used : CreateAll({i})
  \/ Ids = used /\ UNCHANGED storeVars

\* An update that inserts what it does not find.
UpdateWorkspaceOrInsert(i) ==
  /\ IF i \in Ids THEN Edit(i) ELSE UNCHANGED store
  /\ UNCHANGED <<file, loaded, used, deleted>>

UpdateWorkspace(i) ==
  /\ IF GetWorkspace(i) THEN Edit(i) ELSE UNCHANGED store
  /\ UNCHANGED <<file, loaded, used, deleted>>

DeleteAll(S) ==
  LET there == {i \in S : GetWorkspace(i)}
  IN /\ store' = [i \in Ids |-> IF i \in there THEN 0 ELSE store[i]]
     /\ deleted' = deleted \cup there
     /\ UNCHANGED <<file, loaded, used>>

DeleteWorkspace(i) == DeleteAll({i} \cap Ids)

-----------------------------------------------------------------------------
(***************************************************************************)
(* The manager.                                                            *)
(***************************************************************************)

\* Start answers at once for a running workspace, or when it refuses the call.
StartAnswersOk(w) ==
  /\ status[w] = "running"
  /\ UNCHANGED managerVars

StartRefuses(w) ==
  /\ status[w] # "running"
  /\ UNCHANGED managerVars

StartProceeds(c, w) ==
  /\ status[w] # "running"
  /\ starts' = starts \cup {[by |-> c, ws |-> w]}
  /\ wanted' = wanted \cup {w}
  /\ UNCHANGED <<status, open>>

Starting == {s.ws : s \in starts}

\* Stop finds nothing to stop while a Start is still preparing.
StopAll(S) ==
  /\ status' = [w \in Ids |-> IF w \in S THEN "stopped" ELSE status[w]]
  /\ wanted' = wanted \ (S \ Starting)
  /\ UNCHANGED <<open, starts>>

Stop(w) == StopAll({w} \cap Ids)

\* The status a launch sets first is never replaced.
StartEndsStarting(s, ok) ==
  /\ UiRuns
  /\ s \in starts
  /\ starts' = starts \ {s}
  /\ status' = IF ok THEN [status EXCEPT ![s.ws] = "starting"] ELSE status
  /\ UNCHANGED <<open, wanted>>

\* A pending Start ends: the child runs, or the launch failed.
StartEnds(s, ok) ==
  /\ UiRuns
  /\ s \in starts
  /\ starts' = starts \ {s}
  /\ status' = IF ok THEN [status EXCEPT ![s.ws] = "running"] ELSE status
  /\ UNCHANGED <<open, wanted>>

\* The watchdog finds children gone.
OnPoll(S) ==
  /\ UiRuns
  /\ S # {}
  /\ Manager!Crash(S)
  /\ UNCHANGED <<starts, wanted, processVars, storeVars>>
=============================================================================
