--------------------------- MODULE WorkspaceStore ---------------------------
(***************************************************************************)
(* WorkspaceStore (workspace_store.cc): the in-memory map of workspaces,   *)
(* its JSON file, and the sequenced task runner between them, over several *)
(* runs of the browser.                                                    *)
(*                                                                         *)
(* CRUD calls and OnInitData run on the UI sequence, file tasks one after  *)
(* another on their own sequence.  Nothing makes a caller wait for         *)
(* initialized_.                                                           *)
(***************************************************************************)
EXTENDS Naturals, Sequences

CONSTANTS
  Ids,        \* UUIDs GenerateId hands out, each of them once
  Types,      \* Workspace::Type
  Absent,     \* no entry in the map
  NoFile,     \* what ReadWorkspacesFile returns for a missing or torn file
  NoReply,    \* no reply of the read task is on its way to OnInitData
  Faults,     \* which of "crash", "torn", "write_error" may happen
  MaxOps,     \* bound of the model: CRUD calls in a behaviour
  MaxSessions \* bound of the model: runs of the browser

ASSUME StoreAssumption ==
  /\ Faults \subseteq {"crash", "torn", "write_error"}
  /\ MaxOps \in Nat
  /\ MaxSessions \in Nat \ {0}

VARIABLES
  up,           \* the browser runs
  mem,          \* workspaces_
  initialized,  \* initialized_
  queue,        \* tasks posted to file_task_runner_
  reply,        \* result of the read task, posted back to the UI sequence
  file,         \* what workspaces.json parses to
  ops,          \* CRUD calls made, which stands for base::Time::Now()
  session,      \* runs of the browser so far
  expected,     \* history: the map according to the calls that returned
  damaged,      \* history: the last write failed or the browser died
  early,        \* history: a call was made before OnInitData had run
  past          \* history: every map a call has made

processVars == <<up, session>>
storeVars == <<mem, initialized>>
diskVars == <<queue, reply, file>>
historyVars == <<ops, expected, past, damaged, early>>
vars == <<processVars, storeVars, diskVars, historyVars>>

\* A stored workspace: its locked type, created_at, and updated_at standing
\* for all the other fields.
Workspace == [type : Types, created_at : 0 .. MaxOps, updated_at : 0 .. MaxOps]
Maps == [Ids -> Workspace \cup {Absent}]
EmptyMap == [i \in Ids |-> Absent]
ReadTask == [kind |-> "read"]
WriteTask(m) == [kind |-> "write", data |-> m]
Tasks == {ReadTask} \cup [kind : {"write"}, data : Maps]

\* The three markers are none of the things they stand in for.
ASSUME MarkerAssumption ==
  /\ Absent \notin Workspace
  /\ NoFile \notin Maps
  /\ NoReply \notin Maps \cup {NoFile}

TypeOK ==
  /\ up \in BOOLEAN
  /\ mem \in Maps
  /\ initialized \in BOOLEAN
  /\ queue \in Seq(Tasks)
  /\ reply \in Maps \cup {NoFile, NoReply}
  /\ file \in Maps \cup {NoFile}
  /\ ops \in 0 .. MaxOps
  /\ session \in 0 .. MaxSessions
  /\ expected \in Maps
  /\ damaged \in BOOLEAN
  /\ early \in BOOLEAN
  /\ past \in SUBSET Maps

\* The first run of the browser: StoreProvider has created the store and
\* called Init, which posted the read.
Init ==
  /\ up = TRUE
  /\ mem = EmptyMap
  /\ initialized = FALSE
  /\ queue = <<ReadTask>>
  /\ reply = NoReply
  /\ file = NoFile
  /\ ops = 0
  /\ session = 1
  /\ expected = EmptyMap
  /\ damaged = FALSE
  /\ early = FALSE
  /\ past = {EmptyMap}

-----------------------------------------------------------------------------
(***************************************************************************)
(* CRUD calls.                                                             *)
(***************************************************************************)

\* A newer snapshot that overtakes the ones still queued.
SaveToDiskInFront(m) == queue' = <<WriteTask(m)>> \o queue

\* SaveToDisk posts a copy of the whole map.
SaveToDisk(m) == queue' = Append(queue, WriteTask(m))

\* What every successful CRUD call does: the change, then SaveToDisk.
Commit(i, ws) ==
  /\ mem' = [mem EXCEPT ![i] = ws]
  /\ SaveToDisk(mem')
  /\ ops' = ops + 1
  /\ expected' = [expected EXCEPT ![i] = ws]
  /\ past' = past \cup {expected'}
  /\ early' = (early \/ ~initialized)
  /\ UNCHANGED <<processVars, initialized, reply, file, damaged>>

CallerMayAct ==
  /\ up
  /\ ops < MaxOps

CreateWorkspace(i, t) ==
  /\ CallerMayAct
  /\ \A m \in past : m[i] = Absent
  /\ Commit(i, [type |-> t, created_at |-> ops + 1, updated_at |-> ops + 1])

\* UpdateWorkspace(id, new_name)
RenameWorkspace(i) ==
  /\ CallerMayAct
  /\ mem[i] # Absent
  /\ Commit(i, [mem[i] EXCEPT !.updated_at = ops + 1])

\* A full update that copies the caller's type as well.
MergeUpdateAll(old, t) == [type |-> t, created_at |-> old.created_at,
                           updated_at |-> ops + 1]

\* A full update that builds the entry anew and forgets its creation time.
MergeUpdateNoCreation(old, t) == [type |-> old.type, updated_at |-> ops + 1]

\* The fields a full update keeps: type and created_at.
MergeUpdate(old, t) == [type |-> old.type, created_at |-> old.created_at,
                        updated_at |-> ops + 1]

\* UpdateWorkspace(workspace), whose argument carries a type t of its own
UpdateWorkspace(i, t) ==
  /\ CallerMayAct
  /\ mem[i] # Absent
  /\ Commit(i, MergeUpdate(mem[i], t))

DeleteWorkspace(i) ==
  /\ CallerMayAct
  /\ mem[i] # Absent
  /\ Commit(i, Absent)

-----------------------------------------------------------------------------
(***************************************************************************)
(* The file sequence and OnInitData.                                       *)
(***************************************************************************)

\* A read that posts no reply when there is nothing to load.
RunReadSilent ==
  /\ queue # <<>>
  /\ Head(queue).kind = "read"
  /\ reply' = IF file = NoFile THEN reply ELSE file
  /\ queue' = Tail(queue)
  /\ UNCHANGED <<processVars, storeVars, file, historyVars>>

\* ReadWorkspacesFile and the posting of its reply.
RunRead ==
  /\ queue # <<>>
  /\ Head(queue).kind = "read"
  /\ reply' = file
  /\ queue' = Tail(queue)
  /\ UNCHANGED <<processVars, storeVars, file, historyVars>>

\* WriteWorkspacesFile: its result is dropped, so a failed write (directory
\* not creatable, disk full) only shows in the file.
RunWrite ==
  /\ queue # <<>>
  /\ Head(queue).kind = "write"
  /\ queue' = Tail(queue)
  /\ \/ file' = Head(queue).data /\ damaged' = FALSE
     \/ /\ "write_error" \in Faults
        /\ file' \in {file, NoFile}
        /\ damaged' = TRUE
  /\ UNCHANGED <<processVars, storeVars, reply, ops, expected, past, early>>

\* OnInitData that believes the file.
MergeBlindly(m, loaded) == loaded

\* Entries already in memory win (try_emplace; with an empty memory this is
\* the fast path).
MergeLoaded(m, loaded) ==
  [i \in Ids |-> IF m[i] # Absent THEN m[i] ELSE loaded[i]]

\* Nothing is saved and no observer is told.
OnInitData ==
  /\ up
  /\ reply # NoReply
  /\ initialized' = TRUE
  /\ mem' = IF reply = NoFile THEN mem ELSE MergeLoaded(mem, reply)
  /\ reply' = NoReply
  /\ UNCHANGED <<processVars, queue, file, historyVars>>

-----------------------------------------------------------------------------
(***************************************************************************)
(* The life of the browser process.                                        *)
(***************************************************************************)

\* A regular exit: the tasks are BLOCK_SHUTDOWN and still run.
Exit ==
  /\ up
  /\ session < MaxSessions
  /\ up' = FALSE
  /\ UNCHANGED <<session, storeVars, diskVars, historyVars>>

\* The browser dies: queued tasks are lost, and a write under way leaves a
\* torn file, since WriteFile truncates before it writes.
Crash ==
  /\ "crash" \in Faults
  /\ up
  /\ session < MaxSessions
  /\ up' = FALSE
  /\ queue' = <<>>
  /\ \/ UNCHANGED file
     \/ /\ "torn" \in Faults
        /\ queue # <<>>
        /\ Head(queue).kind = "write"
        /\ file' = NoFile
  /\ damaged' = TRUE
  /\ UNCHANGED <<session, storeVars, reply, ops, expected, past, early>>

\* What a file means to the store: nothing readable is an empty store.
Contents(f) == IF f = NoFile THEN EmptyMap ELSE f

\* A new process: StoreProvider creates the store and calls Init.  After damage
\* the file is all that can be expected back.
Restart ==
  /\ ~up
  /\ queue = <<>>
  /\ up' = TRUE
  /\ session' = session + 1
  /\ mem' = EmptyMap
  /\ initialized' = FALSE
  /\ queue' = <<ReadTask>>
  /\ reply' = NoReply
  /\ expected' = IF damaged THEN Contents(file) ELSE expected
  /\ damaged' = FALSE
  /\ UNCHANGED <<file, ops, past, early>>

Next ==
  \/ \E i \in Ids, t \in Types : CreateWorkspace(i, t)
  \/ \E i \in Ids : RenameWorkspace(i)
  \/ \E i \in Ids, t \in Types : UpdateWorkspace(i, t)
  \/ \E i \in Ids : DeleteWorkspace(i)
  \/ RunRead
  \/ RunWrite
  \/ OnInitData
  \/ Exit
  \/ Crash
  \/ Restart

Spec == Init /\ [][Next]_vars

\* Posted tasks run and a browser that went down is started again.
FairSpec ==
  Spec /\ WF_vars(RunRead) /\ WF_vars(RunWrite) /\ WF_vars(OnInitData)
       /\ WF_vars(Restart)

-----------------------------------------------------------------------------
(***************************************************************************)
(* Properties.                                                             *)
(***************************************************************************)

\* As long as callers wait for the load, the loaded store holds exactly what
\* the calls that returned made of it, in this run of the browser and in all
\* the earlier ones.  Only a crash, or a last write that failed, may take
\* something, and then no more than what the file did not have; a failed write
\* followed by a good one takes nothing.
KeepsEverything == up /\ initialized /\ ~early => mem = expected

\* The same of every caller, as OnInitData's merge has it.
KeepsEarlyCalls == up /\ initialized => mem = expected

\* What the file will hold when the queued tasks have run.
EventualFile ==
  IF queue # <<>> /\ queue[Len(queue)].kind = "write"
  THEN queue[Len(queue)].data
  ELSE Contents(file)

\* Even when callers act before the file is read, the file never ends up with
\* an entry the loaded store does not have, or has in another version: no
\* deleted entry and no outdated one waits on disk to come back, unless the
\* last write failed.
DiskWithinMemory ==
  up /\ initialized /\ ~damaged =>
    \A i \in Ids : EventualFile[i] # Absent => mem[i] = EventualFile[i]

\* Type locking, over restarts as well: as far as callers have been told, an
\* entry keeps the type and the creation time it was created with.
TypeLocked ==
  \A i \in Ids :
    mem[i] # Absent =>
      \A m \in past :
        m[i] # Absent => /\ m[i].type = mem[i].type
                         /\ m[i].created_at = mem[i].created_at

\* Map n is no older than map m: no entry of m is in n in an earlier version,
\* and an entry only n has was created after all that m knows.
NotOlder(m, n) ==
  \A i \in Ids :
    n[i] # Absent =>
      IF m[i] # Absent
      THEN n[i].updated_at >= m[i].updated_at
      ELSE \A j \in Ids : m[j] # Absent => n[i].created_at > m[j].updated_at

\* Whatever fails and whenever the browser dies, as long as callers wait for
\* the load a readable file never gives way to an older one: no entry of it
\* returns to an earlier version, and none that was deleted before it was
\* written comes back (the sequenced file_task_runner_ keeps SaveToDisk's
\* snapshots in order).
DiskNeverGoesBack ==
  [][~early' /\ file # NoFile /\ file' # NoFile => NotOlder(file, file')]_vars

\* What callers that wait for the load are shown.
Shown == IF up /\ initialized THEN mem ELSE NoReply

Durable == INSTANCE DurableMap WITH
  Entries <- Workspace, NotLoaded <- NoReply, Lossy <- Faults # {},
  contents <- expected, view <- Shown, versions <- past, orderly <- ~early

\* To callers that wait for the load, the queue of snapshots, the file and the
\* restarts are one durable map.  A crash or a failed write takes it back to a map
\* that calls had made, whole, and everything else that happens to the file is
\* invisible.
ImplementsDurableMap == Durable!Spec

\* Every run of the browser gets its store loaded, unless it ends first.
EventuallyLoaded == up ~> initialized \/ ~up
=============================================================================
