------------------------ MODULE WorkspaceLifecycle ------------------------
(***************************************************************************)
(* What RunningWorkspaceManager promises about the status of a workspace,  *)
(* without ports, tasks, directories or processes: the statuses GetStatus  *)
(* answers and observers hear, and the steps between them.                 *)
(***************************************************************************)
CONSTANT Ids

VARIABLES
  state,   \* status of each workspace
  open     \* the manager accepts calls

lifecycleVars == <<state, open>>

Init ==
  /\ state = [i \in Ids |-> "stopped"]
  /\ open = TRUE

\* Only a workspace that is not running is launched.
Launch(i) ==
  /\ open
  /\ state[i] \in {"stopped", "crashed"}
  /\ state' = [state EXCEPT ![i] = "running"]
  /\ UNCHANGED open

\* One poll of the watchdog may find several children gone; only a running
\* workspace crashes.
Crash(S) ==
  /\ open
  /\ \A i \in S : state[i] = "running"
  /\ state' = [i \in Ids |-> IF i \in S THEN "crashed" ELSE state[i]]
  /\ UNCHANGED open

\* One message of the page may stop several workspaces.
Stop(S) ==
  /\ open
  /\ state' = [i \in Ids |-> IF i \in S THEN "stopped" ELSE state[i]]
  /\ UNCHANGED open

Close ==
  /\ open
  /\ open' = FALSE
  /\ state' = [i \in Ids |-> "stopped"]

Next ==
  \/ \E i \in Ids : Launch(i)
  \/ \E S \in SUBSET Ids : Crash(S)
  \/ \E S \in SUBSET Ids : Stop(S)
  \/ Close

Spec == Init /\ [][Next]_lifecycleVars
=============================================================================
