----------------------------- MODULE DurableMap -----------------------------
(***************************************************************************)
(* What WorkspaceStore promises callers that wait for it to load (the      *)
(* public section of workspace_store.h), without tasks, snapshots, files   *)
(* and processes: a map whose entries are created once, keep their origin, *)
(* and outlive the process that made them.                                 *)
(***************************************************************************)
CONSTANTS
  Ids,        \* identifiers of entries
  Entries,    \* records with a type and a created_at among others
  Absent,     \* no entry
  NotLoaded,  \* no process has loaded the map
  Lossy       \* a process may die, or a write fail

VARIABLES
  contents,   \* what the calls that returned have made of the map
  view,       \* what callers are shown
  versions,   \* every map that calls have made
  orderly     \* every call so far has waited for the load

mapVars == <<contents, view, versions, orderly>>

Init ==
  /\ contents = [i \in Ids |-> Absent]
  /\ view = NotLoaded
  /\ versions = {contents}
  /\ orderly = TRUE

\* A call returns: the entry, what is shown and what will be there later agree.
Put(i, entry) ==
  /\ view = contents
  /\ contents' = [contents EXCEPT ![i] = entry]
  /\ view' = contents'
  /\ versions' = versions \cup {contents'}

\* An identifier is used once.
Create(i) ==
  /\ \A m \in versions : m[i] = Absent
  /\ \E entry \in Entries : Put(i, entry)

\* Type locking: an update keeps where the entry comes from.
Update(i) ==
  /\ contents[i] # Absent
  /\ \E entry \in Entries :
       /\ entry.type = contents[i].type
       /\ entry.created_at = contents[i].created_at
       /\ Put(i, entry)

Delete(i) ==
  /\ contents[i] # Absent
  /\ Put(i, Absent)

\* A process has the map again.
Load ==
  /\ view = NotLoaded
  /\ view' = contents
  /\ UNCHANGED <<contents, versions>>

\* The process is gone.
Close ==
  /\ view' = NotLoaded
  /\ UNCHANGED <<contents, versions>>

\* When a process dies or a write fails, calls are lost, but what is left is a
\* map as some call had left it, and never a mix.
Lose ==
  /\ Lossy
  /\ view = NotLoaded
  /\ contents' \in versions
  /\ UNCHANGED <<view, versions>>

Next ==
  \/ \E i \in Ids : Create(i) \/ Update(i) \/ Delete(i)
  \/ Load
  \/ Close
  \/ Lose

\* Nothing is promised once a call has not waited.
Spec == Init /\ [][orderly' => Next]_mapVars
=============================================================================
