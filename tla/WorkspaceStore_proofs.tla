------------------------ MODULE WorkspaceStore_proofs ------------------------
(***************************************************************************)
(* Proofs about WorkspaceStore, for any workspaces, any number of calls    *)
(* and of runs of the browser, and whichever faults may happen.            *)
(***************************************************************************)
EXTENDS WorkspaceStore, SequenceTheorems, TLAPS

-----------------------------------------------------------------------------
(***************************************************************************)
(* The inductive invariant.                                                *)
(***************************************************************************)

IsWrite(t) == t.kind = "write"

LastWrite == queue # <<>> /\ IsWrite(queue[Len(queue)])

\* Init posts the read before anything else, so that it is at the head of the
\* queue until it runs; its reply is posted once and gone when initialized_ is
\* set.
QueueShape ==
  /\ \A k \in 1 .. Len(queue) : k > 1 \/ initialized => IsWrite(queue[k])
  /\ initialized \/ (queue # <<>> /\ ~IsWrite(queue[1])) => reply = NoReply
  /\ ~up => session < MaxSessions

\* Until a call is made in this run of the browser, memory is empty and the
\* read, or its reply, finds the file as it is.
Untouched ==
  /\ mem = EmptyMap
  /\ \/ queue = <<ReadTask>>
     \/ queue = <<>> /\ reply = file

\* m has every entry of f, in the same version.
Within(f, m) == \A i \in Ids : f[i] # Absent => m[i] = f[i]

\* While the browser runs, the last snapshot posted is within memory, and so is
\* the file once all the tasks have run.  Before the load it is memory itself,
\* which MergeLoaded keeps whatever the file says.
SnapshotWithinMemory ==
  up =>
    /\ LastWrite => Within(queue[Len(queue)].data, mem)
    /\ initialized /\ queue = <<>> /\ ~damaged => Within(Contents(file), mem)
    /\ ~initialized =>
         \/ Untouched
         \/ LastWrite
         \/ queue = <<>> /\ (damaged \/ Within(Contents(file), mem))

\* With callers that wait for the load: the last snapshot posted, or the file
\* once the tasks have run, is what the calls have made of the store.
SnapshotIsExpected ==
  ~early =>
    /\ LastWrite => queue[Len(queue)].data = expected
    /\ ~LastWrite => damaged \/ Contents(file) = expected
    /\ up /\ initialized => mem = expected
    /\ ~initialized => mem = EmptyMap /\ ~LastWrite
    /\ up /\ ~initialized => Untouched /\ ~damaged

\* Every entry of m is one that some call has made.
Known(m) == \A i \in Ids : m[i] # Absent => \E p \in past : p[i] = m[i]

\* All maps, in memory, on disk and on their way, consist of entries that calls
\* have made, and the versions of an entry agree on what is locked.
EntriesKnown ==
  /\ Known(mem)
  /\ Known(expected)
  /\ file # NoFile => Known(file)
  /\ reply \notin {NoFile, NoReply} => Known(reply)
  /\ \A k \in 1 .. Len(queue) : IsWrite(queue[k]) => Known(queue[k].data)

PastLocked ==
  \A p, q \in past : \A i \in Ids :
    p[i] # Absent /\ q[i] # Absent =>
      p[i].type = q[i].type /\ p[i].created_at = q[i].created_at

PastBounded ==
  \A p \in past : \A i \in Ids : p[i] # Absent => p[i].updated_at <= ops

\* The file, the snapshots in the queue and memory are in the order in which
\* they were made.
SnapshotsInOrder ==
  ~early =>
    /\ file # NoFile => NotOlder(file, mem)
    /\ \A k \in 1 .. Len(queue) :
         IsWrite(queue[k]) =>
           /\ file # NoFile => NotOlder(file, queue[k].data)
           /\ NotOlder(queue[k].data, mem)
           /\ \A l \in 1 .. Len(queue) :
                k < l => NotOlder(queue[k].data, queue[l].data)

\* With callers that wait for the load, every snapshot is a map that calls have
\* made, whole, and so is what a crash leaves of the file; without faults nothing
\* is damaged.
SnapshotsAreVersions ==
  /\ EmptyMap \in past
  /\ damaged => Faults # {}
  /\ ~early =>
       /\ expected \in past
       /\ file # NoFile => file \in past
       /\ \A k \in 1 .. Len(queue) : IsWrite(queue[k]) => queue[k].data \in past

StoreInv ==
  /\ TypeOK
  /\ QueueShape
  /\ SnapshotWithinMemory
  /\ SnapshotIsExpected
  /\ EntriesKnown
  /\ PastLocked
  /\ PastBounded
  /\ SnapshotsInOrder
  /\ SnapshotsAreVersions

-----------------------------------------------------------------------------
(***************************************************************************)
(* What the steps do to the maps and to the queue.                         *)
(***************************************************************************)

\* The four CRUD calls.
Call ==
  \/ \E i \in Ids, t \in Types : CreateWorkspace(i, t)
  \/ \E i \in Ids : RenameWorkspace(i)
  \/ \E i \in Ids, t \in Types : UpdateWorkspace(i, t)
  \/ \E i \in Ids : DeleteWorkspace(i)

\* The value ws that a call may give to entry i: nothing, a new entry, or a new
\* version of the entry that memory has.
Version(i, ws) ==
  /\ ws = Absent => mem[i] # Absent
  /\ ws # Absent =>
       /\ ws.updated_at = ops + 1
       /\ \/ /\ \A m \in past : m[i] = Absent
             /\ ws.created_at = ops + 1
          \/ /\ mem[i] # Absent
             /\ ws.created_at = mem[i].created_at
             /\ ws.type = mem[i].type

\* Every CRUD call commits one such value (CreateWorkspace, both forms of
\* UpdateWorkspace, DeleteWorkspace).
LEMMA CallCommits ==
  ASSUME TypeOK, Call
  PROVE  /\ up /\ ops < MaxOps
         /\ \E i \in Ids : \E ws \in Workspace \cup {Absent} :
              Commit(i, ws) /\ Version(i, ws)
<1> USE StoreAssumption, MarkerAssumption DEF CallerMayAct, TypeOK
<1>1. ASSUME NEW i \in Ids, NEW t \in Types, CreateWorkspace(i, t)
      PROVE  /\ up /\ ops < MaxOps
             /\ \E ws \in Workspace \cup {Absent} : Commit(i, ws) /\ Version(i, ws)
  <2> DEFINE ws == [type |-> t, created_at |-> ops + 1, updated_at |-> ops + 1]
  <2>1. up /\ ops < MaxOps /\ Commit(i, ws) /\ (\A m \in past : m[i] = Absent)
    BY <1>1 DEF CreateWorkspace
  <2>2. ws \in Workspace
    BY <2>1 DEF Workspace
  <2>3. Version(i, ws)
    <3>1. ws # Absent
      BY <2>2
    <3> QED
      BY <2>1, <3>1 DEF Version
  <2> QED
    BY <2>1, <2>2, <2>3
<1>2. ASSUME NEW i \in Ids, RenameWorkspace(i)
      PROVE  /\ up /\ ops < MaxOps
             /\ \E ws \in Workspace \cup {Absent} : Commit(i, ws) /\ Version(i, ws)
  <2> DEFINE ws == [mem[i] EXCEPT !.updated_at = ops + 1]
  <2>1. up /\ ops < MaxOps /\ Commit(i, ws) /\ mem[i] # Absent
    BY <1>2 DEF RenameWorkspace
  <2>2. mem[i] \in Workspace
    BY <2>1 DEF Maps
  <2>3. ws \in Workspace
    BY <2>1, <2>2 DEF Workspace
  <2>4. Version(i, ws)
    BY <2>1, <2>2 DEF Version, Workspace
  <2> QED
    BY <2>1, <2>3, <2>4
<1>3. ASSUME NEW i \in Ids, NEW t \in Types, UpdateWorkspace(i, t)
      PROVE  /\ up /\ ops < MaxOps
             /\ \E ws \in Workspace \cup {Absent} : Commit(i, ws) /\ Version(i, ws)
  <2> DEFINE ws == MergeUpdate(mem[i], t)
  <2>1. up /\ ops < MaxOps /\ Commit(i, ws) /\ mem[i] # Absent
    BY <1>3 DEF UpdateWorkspace
  <2>2. mem[i] \in Workspace
    BY <2>1 DEF Maps
  <2>3. ws \in Workspace
    BY <2>1, <2>2 DEF Workspace, MergeUpdate
  <2>4. Version(i, ws)
    BY <2>1, <2>2 DEF Version, MergeUpdate
  <2> QED
    BY <2>1, <2>3, <2>4
<1>4. ASSUME NEW i \in Ids, DeleteWorkspace(i)
      PROVE  /\ up /\ ops < MaxOps
             /\ \E ws \in Workspace \cup {Absent} : Commit(i, ws) /\ Version(i, ws)
  <2>1. up /\ ops < MaxOps /\ Commit(i, Absent) /\ Version(i, Absent)
    BY <1>4 DEF DeleteWorkspace, Version
  <2> QED
    BY <2>1
<1> QED
  BY <1>1, <1>2, <1>3, <1>4 DEF Call

\* A commit changes one entry of memory and of what is expected, and posts the
\* new memory behind all other tasks (SaveToDisk).
LEMMA CommitEffect ==
  ASSUME TypeOK, NEW i \in Ids, NEW ws \in Workspace \cup {Absent}, Commit(i, ws)
  PROVE  /\ mem' \in Maps /\ expected' \in Maps
         /\ mem'[i] = ws /\ expected'[i] = ws
         /\ \A j \in Ids \ {i} : mem'[j] = mem[j] /\ expected'[j] = expected[j]
         /\ mem = expected => mem' = expected'
         /\ queue' \in Seq(Tasks)
         /\ Len(queue') = Len(queue) + 1
         /\ queue' # <<>>
         /\ queue'[Len(queue')] = WriteTask(mem')
         /\ \A k \in 1 .. Len(queue) : queue'[k] = queue[k]
<1>1. mem' \in Maps /\ expected' \in Maps
  BY DEF Commit, TypeOK, Maps
<1>2. mem'[i] = ws /\ expected'[i] = ws
  BY DEF Commit, TypeOK, Maps
<1>3. \A j \in Ids \ {i} : mem'[j] = mem[j] /\ expected'[j] = expected[j]
  BY DEF Commit, TypeOK, Maps
<1>4. mem = expected => mem' = expected'
  BY DEF Commit
<1>5. WriteTask(mem') \in Tasks
  BY <1>1 DEF WriteTask, Tasks
<1>6. queue' = Append(queue, WriteTask(mem'))
  BY DEF Commit, SaveToDisk
<1> QED
  BY <1>1, <1>2, <1>3, <1>4, <1>5, <1>6, AppendProperties DEF TypeOK

\* Taking the first task leaves the others in order.
LEMMA DequeueEffect ==
  ASSUME TypeOK, queue # <<>>, queue' = Tail(queue)
  PROVE  /\ queue' \in Seq(Tasks)
         /\ Len(queue) \in Nat \ {0}
         /\ Len(queue') = Len(queue) - 1
         /\ Head(queue) = queue[1]
         /\ Head(queue) \in Tasks
         /\ \A k \in 1 .. Len(queue') : queue'[k] = queue[k + 1]
         /\ queue' = <<>> <=> Len(queue) = 1
         /\ queue' # <<>> => queue'[Len(queue')] = queue[Len(queue)]
<1>1. /\ queue' \in Seq(Tasks)
      /\ Len(queue) \in Nat \ {0}
      /\ Len(queue') = Len(queue) - 1
      /\ Head(queue) \in Tasks
      /\ \A k \in 1 .. Len(queue') : queue'[k] = queue[k + 1]
  BY HeadTailProperties, EmptySeq DEF TypeOK
<1>2. Head(queue) = queue[1]
  BY DEF TypeOK
<1>3. queue' = <<>> <=> Len(queue) = 1
  <2>1. queue' = <<>> => Len(queue') = 0
    BY EmptySeq
  <2>2. queue' # <<>> => Len(queue') # 0
    BY <1>1, EmptySeq
  <2> QED
    BY <1>1, <2>1, <2>2
<1>4. queue' # <<>> => queue'[Len(queue')] = queue[Len(queue)]
  BY <1>1, <1>3
<1> QED
  BY <1>1, <1>2, <1>3, <1>4

\* A task is the read, or a write with its snapshot.
LEMMA TaskKinds ==
  ASSUME NEW t \in Tasks
  PROVE  /\ t.kind \in {"read", "write"}
         /\ t.kind = "write" => t.data \in Maps
         /\ t.kind = "read" => t = ReadTask
BY DEF Tasks, ReadTask

-----------------------------------------------------------------------------
(***************************************************************************)
(* Preservation, one lemma for each part of the invariant.                 *)
(***************************************************************************)

\* Next, with the calls taken together.
LEMMA NextCases ==
  ASSUME [Next]_vars
  PROVE  \/ Call \/ RunRead \/ RunWrite \/ OnInitData
         \/ Exit \/ Crash \/ Restart \/ UNCHANGED vars
BY DEF Next, Call

\* The result of OnInitData's merge is a map, which keeps all that memory has
\* and adds what only the file has.
LEMMA MergeEffect ==
  ASSUME NEW m \in Maps, NEW loaded \in Maps
  PROVE  /\ MergeLoaded(m, loaded) \in Maps
         /\ \A i \in Ids : m[i] # Absent => MergeLoaded(m, loaded)[i] = m[i]
         /\ \A i \in Ids : m[i] = Absent => MergeLoaded(m, loaded)[i] = loaded[i]
BY DEF MergeLoaded, Maps

\* The empty map is a map without entries.
LEMMA EmptyMapType ==
  EmptyMap \in Maps /\ \A i \in Ids : EmptyMap[i] = Absent
BY DEF EmptyMap, Maps

\* Merging a loaded file into an empty memory gives the file.
LEMMA MergeIntoEmpty ==
  ASSUME NEW loaded \in Maps
  PROVE  MergeLoaded(EmptyMap, loaded) = loaded
BY DEF MergeLoaded, EmptyMap, Maps

\* Types are preserved, and a browser that is down may be started again.
LEMMA TypeStep ==
  ASSUME StoreInv, [Next]_vars
  PROVE  TypeOK'
<1> USE StoreAssumption, MarkerAssumption DEF processVars, storeVars, diskVars,
        historyVars
<1>a. TypeOK /\ QueueShape
  BY DEF StoreInv
<1>1. CASE Call
  <2>1. PICK i \in Ids, ws \in Workspace \cup {Absent} : Commit(i, ws)
    BY <1>1, <1>a, CallCommits
  <2>2. mem' \in Maps /\ expected' \in Maps /\ queue' \in Seq(Tasks)
    BY <2>1, <1>a, CommitEffect
  <2>3. ops' \in 0 .. MaxOps
    BY <2>1, <1>1, <1>a, CallCommits DEF Commit, TypeOK
  <2>4. past' \in SUBSET Maps
    BY <2>1, <2>2, <1>a DEF Commit, TypeOK
  <2>5. early' \in BOOLEAN
    BY <2>1, <1>a, Zenon DEF Commit, TypeOK
  <2> QED
    BY <2>1, <2>2, <2>3, <2>4, <2>5, <1>a DEF Commit, TypeOK
<1>2. CASE RunRead
  BY <1>2, <1>a, DequeueEffect DEF RunRead, TypeOK
<1>3. CASE RunWrite
  <2>1. queue' \in Seq(Tasks) /\ Head(queue).data \in Maps
    BY <1>3, <1>a, DequeueEffect, TaskKinds DEF RunWrite
  <2> QED
    BY <1>3, <2>1, <1>a DEF RunWrite, TypeOK
<1>4. CASE OnInitData
  <2>1. mem' \in Maps
    BY <1>4, <1>a, MergeEffect DEF OnInitData, TypeOK
  <2> QED
    BY <1>4, <2>1, <1>a DEF OnInitData, TypeOK
<1>5. CASE Exit
  BY <1>5, <1>a DEF Exit, TypeOK
<1>6. CASE Crash
  BY <1>6, <1>a, EmptySeq DEF Crash, TypeOK
<1>7. CASE Restart
  <2>1. queue' \in Seq(Tasks)
    BY <1>7 DEF Restart, Tasks
  <2>2. expected' \in Maps
    BY <1>7, <1>a, EmptyMapType DEF Restart, TypeOK, Contents
  <2>3. session' \in 0 .. MaxSessions
    BY <1>7, <1>a DEF Restart, TypeOK, QueueShape
  <2> QED
    BY <1>7, <2>1, <2>2, <2>3, <1>a, EmptyMapType DEF Restart, TypeOK
<1>8. CASE UNCHANGED vars
  BY <1>8, <1>a DEF vars, TypeOK
<1> QED
  BY <1>1, <1>2, <1>3, <1>4, <1>5, <1>6, <1>7, <1>8, NextCases

\* The read stays at the head of the queue, and is answered once.
LEMMA ShapeStep ==
  ASSUME StoreInv, [Next]_vars
  PROVE  QueueShape'
<1> USE StoreAssumption DEF processVars, storeVars, diskVars, historyVars
<1>a. TypeOK /\ QueueShape
  BY DEF StoreInv
<1>b. Len(queue) \in Nat /\ \A k \in 1 .. Len(queue) : queue[k] \in Tasks
  BY <1>a, LenProperties, ElementOfSeq DEF TypeOK
<1>1. CASE Call
  <2>1. PICK i \in Ids, ws \in Workspace \cup {Absent} : Commit(i, ws)
    BY <1>1, <1>a, CallCommits
  <2>2. /\ Len(queue') = Len(queue) + 1
        /\ queue'[Len(queue')] = WriteTask(mem')
        /\ \A k \in 1 .. Len(queue) : queue'[k] = queue[k]
    BY <2>1, <1>a, CommitEffect
  <2>3. UNCHANGED <<up, session, initialized, reply>>
    BY <2>1 DEF Commit
  <2>4. IsWrite(queue'[Len(queue')])
    BY <2>2 DEF WriteTask, IsWrite
  <2>5. ~IsWrite(queue'[1]) => queue # <<>> /\ ~IsWrite(queue[1])
    BY <2>2, <2>4, <1>b, EmptySeq
  <2>6. \A k \in 1 .. Len(queue') : k > 1 \/ initialized' => IsWrite(queue'[k])
    BY <2>2, <2>3, <2>4, <1>a, <1>b DEF QueueShape
  <2> QED
    BY <2>3, <2>5, <2>6, <1>a DEF QueueShape
<1>2. CASE RunRead
  <2>1. /\ Len(queue) \in Nat \ {0}
        /\ Len(queue') = Len(queue) - 1
        /\ \A k \in 1 .. Len(queue') : queue'[k] = queue[k + 1]
        /\ ~IsWrite(queue[1])
        /\ queue' # <<>> => Len(queue') > 0
    BY <1>2, <1>a, DequeueEffect, EmptySeq DEF RunRead, IsWrite
  <2>2. UNCHANGED <<up, session, initialized>>
    BY <1>2 DEF RunRead
  <2>3. \A k \in 1 .. Len(queue') : IsWrite(queue'[k])
    BY <2>1, <1>a DEF QueueShape
  <2>4. ~initialized
    BY <2>1, <1>a DEF QueueShape
  <2> QED
    BY <2>1, <2>2, <2>3, <2>4, <1>a DEF QueueShape
<1>3. CASE RunWrite
  <2>1. /\ Len(queue) \in Nat \ {0}
        /\ Len(queue') = Len(queue) - 1
        /\ \A k \in 1 .. Len(queue') : queue'[k] = queue[k + 1]
        /\ queue' # <<>> => Len(queue') > 0
    BY <1>3, <1>a, DequeueEffect, EmptySeq DEF RunWrite
  <2>2. UNCHANGED <<up, session, initialized, reply>>
    BY <1>3 DEF RunWrite
  <2>3. \A k \in 1 .. Len(queue') : IsWrite(queue'[k])
    BY <2>1, <1>a DEF QueueShape
  <2> QED
    BY <2>1, <2>2, <2>3, <1>a DEF QueueShape
<1>4. CASE OnInitData
  <2>1. UNCHANGED <<up, session, queue>> /\ reply' = NoReply /\ reply # NoReply
    BY <1>4 DEF OnInitData
  <2>2. \A k \in 1 .. Len(queue) : IsWrite(queue[k])
    <3>1. queue # <<>> => IsWrite(queue[1])
      BY <2>1, <1>a DEF QueueShape
    <3>2. Len(queue) > 0 => queue # <<>>
      BY EmptySeq
    <3> QED
      BY <3>1, <3>2, <1>a, <1>b DEF QueueShape
  <2> QED
    BY <2>1, <2>2, <1>a DEF QueueShape
<1>5. CASE Exit
  BY <1>5, <1>a DEF Exit, QueueShape
<1>6. CASE Crash
  BY <1>6, <1>a, EmptySeq DEF Crash, QueueShape
<1>7. CASE Restart
  <2>1. Len(<<ReadTask>>) = 1
    OBVIOUS
  <2> QED
    BY <1>7, <2>1, <1>a DEF Restart, QueueShape
<1>8. CASE UNCHANGED vars
  BY <1>8, <1>a DEF vars, QueueShape
<1> QED
  BY <1>1, <1>2, <1>3, <1>4, <1>5, <1>6, <1>7, <1>8, NextCases

\* The last snapshot posted stays within memory.
LEMMA WithinStep ==
  ASSUME StoreInv, [Next]_vars
  PROVE  SnapshotWithinMemory'
<1> USE MarkerAssumption DEF processVars, storeVars, diskVars, historyVars
<1>a. TypeOK /\ QueueShape /\ SnapshotWithinMemory
  BY DEF StoreInv
<1>b. Len(queue) \in Nat /\ \A k \in 1 .. Len(queue) : queue[k] \in Tasks
  BY <1>a, LenProperties, ElementOfSeq DEF TypeOK
<1>c. queue = <<>> \/ Len(queue) > 0
  BY <1>a, EmptySeq DEF TypeOK
<1>1. CASE Call
  <2>1. PICK i \in Ids, ws \in Workspace \cup {Absent} : Commit(i, ws)
    BY <1>1, <1>a, CallCommits
  <2>2. queue' # <<>> /\ queue'[Len(queue')] = WriteTask(mem')
    BY <2>1, <1>a, CommitEffect
  <2>3. LastWrite' /\ queue'[Len(queue')].data = mem'
    BY <2>2 DEF WriteTask, IsWrite, LastWrite
  <2>4. Within(mem', mem')
    BY DEF Within
  <2> QED
    BY <2>2, <2>3, <2>4 DEF SnapshotWithinMemory
<1>2. CASE RunRead
  <2>1. /\ Head(queue) = queue[1] /\ queue # <<>>
        /\ queue' = <<>> <=> Len(queue) = 1
        /\ queue' # <<>> => queue'[Len(queue')] = queue[Len(queue)]
    BY <1>2, <1>a, DequeueEffect DEF RunRead
  <2>2. UNCHANGED <<up, mem, initialized, file, damaged>> /\ reply' = file
    BY <1>2 DEF RunRead
  <2>3. ~IsWrite(queue[1]) /\ ~initialized
    BY <1>2, <2>1, <1>a, <1>b, <1>c DEF RunRead, IsWrite, QueueShape
  <2>4. CASE queue' = <<>>
    BY <2>1, <2>2, <2>3, <2>4, <1>a, Zenon DEF SnapshotWithinMemory, LastWrite, Untouched
  <2>5. CASE queue' # <<>>
    <3>1. Len(queue) > 1
      BY <2>1, <2>5, <1>b, <1>c
    <3>2. LastWrite /\ LastWrite'
      BY <2>1, <2>5, <3>1, <1>a, <1>b DEF QueueShape, LastWrite
    <3> QED
      BY <2>1, <2>2, <2>3, <2>5, <3>2, <1>a DEF SnapshotWithinMemory
  <2> QED
    BY <2>4, <2>5
<1>3. CASE RunWrite
  <2>1. /\ Head(queue) = queue[1] /\ queue # <<>>
        /\ queue' = <<>> <=> Len(queue) = 1
        /\ queue' # <<>> => queue'[Len(queue')] = queue[Len(queue)]
    BY <1>3, <1>a, DequeueEffect DEF RunWrite
  <2>2. /\ UNCHANGED <<up, mem, initialized, reply>>
        /\ damaged' = TRUE \/ file' = queue[1].data
        /\ IsWrite(queue[1])
    BY <1>3, <2>1 DEF RunWrite, IsWrite
  <2>3. CASE queue' = <<>>
    <3>1. LastWrite /\ Len(queue) = 1
      BY <2>1, <2>2, <2>3 DEF LastWrite
    <3>2. up => Within(queue[1].data, mem)
      BY <3>1, <1>a DEF SnapshotWithinMemory
    <3>3. Contents(queue[1].data) = queue[1].data
      BY <2>2, <1>b, <3>1, TaskKinds DEF IsWrite, Contents
    <3> QED
      BY <2>2, <2>3, <3>2, <3>3, Zenon DEF SnapshotWithinMemory, LastWrite
  <2>4. CASE queue' # <<>>
    <3>1. Len(queue) > 1
      BY <2>1, <2>4, <1>b, <1>c
    <3>2. LastWrite /\ LastWrite'
      BY <2>1, <2>4, <3>1, <1>a, <1>b DEF QueueShape, LastWrite
    <3> QED
      BY <2>1, <2>2, <2>4, <3>2, <1>a DEF SnapshotWithinMemory
  <2> QED
    BY <2>3, <2>4
<1>4. CASE OnInitData
  <2>1. /\ up /\ UNCHANGED <<up, queue, file, damaged>>
        /\ reply # NoReply /\ ~initialized /\ initialized'
    BY <1>4, <1>a DEF OnInitData, QueueShape
  <2>2. \A i \in Ids : mem[i] # Absent => mem'[i] = mem[i]
    BY <1>4, <1>a, MergeEffect DEF OnInitData, TypeOK
  <2>3. \A f : Within(f, mem) => Within(f, mem')
    BY <2>2 DEF Within
  <2>4. ASSUME queue = <<>>, ~damaged
        PROVE  Within(Contents(file), mem')
    <3>1. CASE Untouched
      <4>1. mem = EmptyMap /\ reply = file
        BY <3>1, <2>4, <2>1 DEF Untouched
      <4>2. CASE file = NoFile
        BY <4>2, EmptyMapType DEF Contents, Within
      <4>3. CASE file # NoFile
        <5>1. mem' = file
          BY <1>4, <4>1, <4>3, <1>a, MergeIntoEmpty DEF OnInitData, TypeOK
        <5> QED
          BY <5>1, <4>3 DEF Contents, Within
      <4> QED
        BY <4>2, <4>3
    <3>2. CASE ~Untouched
      BY <3>2, <2>1, <2>3, <2>4, <1>a DEF SnapshotWithinMemory, LastWrite
    <3> QED
      BY <3>1, <3>2
  <2>5. LastWrite => Within(queue[Len(queue)].data, mem')
    BY <2>1, <2>3, <1>a DEF SnapshotWithinMemory
  <2> QED
    BY <2>1, <2>4, <2>5, Zenon DEF SnapshotWithinMemory, LastWrite
<1>5. CASE Exit
  BY <1>5 DEF Exit, SnapshotWithinMemory
<1>6. CASE Crash
  BY <1>6 DEF Crash, SnapshotWithinMemory
<1>7. CASE Restart
  <2>1. ~LastWrite'
    BY <1>7 DEF Restart, LastWrite, ReadTask, IsWrite
  <2>2. Untouched' /\ ~initialized'
    BY <1>7 DEF Restart, Untouched
  <2> QED
    BY <2>1, <2>2 DEF SnapshotWithinMemory
<1>8. CASE UNCHANGED vars
  BY <1>8, <1>a DEF vars, SnapshotWithinMemory, LastWrite, Untouched
<1> QED
  BY <1>1, <1>2, <1>3, <1>4, <1>5, <1>6, <1>7, <1>8, NextCases

\* With callers that wait for the load, the last snapshot stays what the calls
\* have made of the store.
LEMMA ExpectedStep ==
  ASSUME StoreInv, [Next]_vars
  PROVE  SnapshotIsExpected'
<1> USE MarkerAssumption DEF processVars, storeVars, diskVars, historyVars
<1>a. TypeOK /\ QueueShape /\ SnapshotIsExpected
  BY DEF StoreInv
<1>b. Len(queue) \in Nat /\ \A k \in 1 .. Len(queue) : queue[k] \in Tasks
  BY <1>a, LenProperties, ElementOfSeq DEF TypeOK
<1>c. queue = <<>> \/ Len(queue) > 0
  BY <1>a, EmptySeq DEF TypeOK
<1> SUFFICES ASSUME ~early' PROVE SnapshotIsExpected'
  BY DEF SnapshotIsExpected
<1>d. ~early
  BY CallCommits, NextCases, <1>a DEF Commit, RunRead, RunWrite, OnInitData, Exit,
     Crash, Restart, vars, TypeOK
<1>1. CASE Call
  <2>1. PICK i \in Ids, ws \in Workspace \cup {Absent} : Commit(i, ws)
    BY <1>1, <1>a, CallCommits
  <2>2. initialized /\ initialized' /\ up /\ up'
    BY <2>1, <1>1, <1>a, CallCommits DEF Commit, TypeOK
  <2>3. mem' = expected'
    BY <2>1, <2>2, <1>a, <1>d, CommitEffect DEF SnapshotIsExpected
  <2>4. queue' # <<>> /\ queue'[Len(queue')] = WriteTask(mem')
    BY <2>1, <1>a, CommitEffect
  <2>5. LastWrite' /\ queue'[Len(queue')].data = mem'
    BY <2>4 DEF WriteTask, IsWrite, LastWrite
  <2> QED
    BY <2>2, <2>3, <2>5 DEF SnapshotIsExpected
<1>2. CASE RunRead
  <2>1. queue # <<>> /\ Head(queue) = queue[1] /\ (queue' = <<>> <=> Len(queue) = 1)
    BY <1>2, <1>a, DequeueEffect DEF RunRead
  <2>2. /\ UNCHANGED <<up, mem, initialized, file, damaged, expected>>
        /\ reply' = file
    BY <1>2 DEF RunRead
  <2>3. ~IsWrite(queue[1]) /\ ~initialized
    BY <1>2, <2>1, <1>a, <1>b, <1>c DEF RunRead, IsWrite, QueueShape
  <2>4. ~LastWrite
    BY <2>3, <1>a, <1>d DEF SnapshotIsExpected
  <2>5. queue' = <<>>
    BY <2>1, <2>4, <1>a, <1>b, <1>c DEF QueueShape, LastWrite
  <2>6. ~LastWrite'
    BY <2>5 DEF LastWrite
  <2> QED
    BY <2>2, <2>3, <2>4, <2>5, <2>6, <1>a, <1>d DEF SnapshotIsExpected, Untouched
<1>3. CASE RunWrite
  <2>1. /\ Head(queue) = queue[1] /\ queue # <<>>
        /\ queue' = <<>> <=> Len(queue) = 1
        /\ queue' # <<>> => queue'[Len(queue')] = queue[Len(queue)]
    BY <1>3, <1>a, DequeueEffect DEF RunWrite
  <2>2. /\ UNCHANGED <<up, mem, initialized, reply, expected>>
        /\ damaged' = TRUE \/ file' = queue[1].data
        /\ IsWrite(queue[1])
    BY <1>3, <2>1 DEF RunWrite, IsWrite
  <2>3. LastWrite
    BY <2>1, <2>2, <1>a, <1>b, <1>c DEF LastWrite, QueueShape
  <2>4. initialized
    BY <2>3, <1>a, <1>d DEF SnapshotIsExpected, TypeOK
  <2>5. LastWrite' => queue'[Len(queue')].data = expected'
    BY <2>1, <2>2, <2>3, <1>a, <1>d DEF SnapshotIsExpected, LastWrite
  <2>6. ~LastWrite' => damaged' \/ Contents(file') = expected'
    <3> SUFFICES ASSUME ~LastWrite' PROVE damaged' \/ Contents(file') = expected'
      OBVIOUS
    <3>1. queue' = <<>>
      BY <2>1, <2>3 DEF LastWrite
    <3>2. queue[1].data = expected
      BY <2>1, <2>3, <3>1, <1>a, <1>d DEF SnapshotIsExpected
    <3>3. Contents(expected) = expected
      BY <1>a DEF Contents, TypeOK
    <3> QED
      BY <2>2, <3>2, <3>3
  <2> QED
    BY <2>2, <2>4, <2>5, <2>6, <1>a, <1>d DEF SnapshotIsExpected
<1>4. CASE OnInitData
  <2>1. /\ up /\ UNCHANGED <<up, queue, file, damaged, expected>>
        /\ reply # NoReply /\ ~initialized /\ initialized'
    BY <1>4, <1>a DEF OnInitData, QueueShape
  <2>2. queue = <<>> /\ reply = file /\ mem = EmptyMap
    <3>1. queue # <<ReadTask>>
      BY <2>1, <1>a DEF QueueShape, ReadTask, IsWrite
    <3> QED
      BY <2>1, <3>1, <1>a, <1>d DEF SnapshotIsExpected, Untouched
  <2>3. ~damaged /\ Contents(file) = expected
    BY <2>1, <2>2, <1>a, <1>d DEF SnapshotIsExpected, LastWrite
  <2>4. mem' = expected
    BY <1>4, <2>2, <2>3, <1>a, MergeIntoEmpty DEF OnInitData, Contents, TypeOK
  <2>5. ~LastWrite'
    BY <2>1, <2>2 DEF LastWrite
  <2> QED
    BY <2>1, <2>3, <2>4, <2>5 DEF SnapshotIsExpected
<1>5. CASE Exit
  BY <1>5, <1>a, <1>d DEF Exit, SnapshotIsExpected, LastWrite
<1>6. CASE Crash
  <2>1. ~LastWrite' /\ damaged' /\ ~up'
    BY <1>6 DEF Crash, LastWrite
  <2>2. UNCHANGED <<mem, initialized>>
    BY <1>6 DEF Crash
  <2> QED
    BY <2>1, <2>2, <1>a, <1>d DEF SnapshotIsExpected
<1>7. CASE Restart
  <2>1. ~LastWrite'
    BY <1>7 DEF Restart, LastWrite, ReadTask, IsWrite
  <2>2. Untouched' /\ ~initialized' /\ ~damaged' /\ mem' = EmptyMap
    BY <1>7 DEF Restart, Untouched
  <2>3. Contents(file') = expected'
    <3>1. ~LastWrite
      BY <1>7 DEF Restart, LastWrite
    <3> QED
      BY <1>7, <3>1, <1>a, <1>d DEF Restart, SnapshotIsExpected
  <2> QED
    BY <2>1, <2>2, <2>3 DEF SnapshotIsExpected
<1>8. CASE UNCHANGED vars
  BY <1>8, <1>a DEF vars, SnapshotIsExpected, LastWrite, Untouched
<1> QED
  BY <1>1, <1>2, <1>3, <1>4, <1>5, <1>6, <1>7, <1>8, NextCases

\* Only calls make maps known, and what is known stays known.
LEMMA PastGrows ==
  ASSUME StoreInv, [Next]_vars
  PROVE  past \subseteq past' /\ (Call \/ past' = past)
<1> USE DEF processVars, storeVars, diskVars, historyVars
<1>1. CASE Call
  <2>1. PICK i \in Ids, ws \in Workspace \cup {Absent} : Commit(i, ws)
    BY <1>1, CallCommits DEF StoreInv
  <2> QED
    BY <1>1, <2>1 DEF Commit
<1> QED
  BY <1>1, NextCases DEF RunRead, RunWrite, OnInitData, Exit, Crash, Restart, vars

\* No map ever holds an entry that no call has made.
LEMMA KnownStep ==
  ASSUME StoreInv, [Next]_vars
  PROVE  EntriesKnown'
<1> USE MarkerAssumption DEF processVars, storeVars, diskVars, historyVars
<1>a. TypeOK /\ QueueShape /\ EntriesKnown
  BY DEF StoreInv
<1>b. \A k \in 1 .. Len(queue) : queue[k] \in Tasks
  BY <1>a, ElementOfSeq DEF TypeOK
<1>c. \A m : Known(m) => \A i \in Ids : m[i] # Absent => \E p \in past' : p[i] = m[i]
  BY PastGrows DEF Known
<1>1. CASE Call
  <2>1. PICK i \in Ids, ws \in Workspace \cup {Absent} : Commit(i, ws)
    BY <1>1, <1>a, CallCommits
  <2>2. /\ mem'[i] = ws /\ expected'[i] = ws
        /\ \A j \in Ids \ {i} : mem'[j] = mem[j] /\ expected'[j] = expected[j]
        /\ Len(queue') = Len(queue) + 1
        /\ queue'[Len(queue')] = WriteTask(mem')
        /\ \A k \in 1 .. Len(queue) : queue'[k] = queue[k]
    BY <2>1, <1>a, CommitEffect
  <2>3. expected' \in past' /\ UNCHANGED <<file, reply>>
    BY <2>1 DEF Commit
  <2>4. Known(mem)' /\ Known(expected)'
    BY <2>2, <2>3, <1>a, <1>c DEF EntriesKnown, Known
  <2>5. \A k \in 1 .. Len(queue') : IsWrite(queue'[k]) => Known(queue[k].data)'
    <3> SUFFICES ASSUME NEW k \in 1 .. Len(queue'), IsWrite(queue'[k])
                 PROVE  Known(queue[k].data)'
      OBVIOUS
    <3>1. Len(queue) \in Nat
      BY <1>a, LenProperties DEF TypeOK
    <3>2. CASE k = Len(queue')
      <4>1. queue'[k].data = mem'
        BY <2>2, <3>2 DEF WriteTask
      <4> QED
        BY <2>4, <4>1 DEF Known
    <3>3. CASE k # Len(queue')
      <4>1. k \in 1 .. Len(queue) /\ queue'[k] = queue[k]
        BY <2>2, <3>1, <3>3
      <4> QED
        BY <4>1, <1>a, <1>c DEF EntriesKnown, Known
    <3> QED
      BY <3>2, <3>3
  <2> QED
    BY <2>3, <2>4, <2>5, <1>a, <1>c DEF EntriesKnown, Known
<1>2. CASE RunRead
  <2>1. \A k \in 1 .. Len(queue') : k + 1 \in 1 .. Len(queue) /\ queue'[k] = queue[k + 1]
    BY <1>2, <1>a, DequeueEffect DEF RunRead
  <2> QED
    BY <1>2, <2>1, <1>a DEF RunRead, EntriesKnown, Known
<1>3. CASE RunWrite
  <2>1. \A k \in 1 .. Len(queue') : k + 1 \in 1 .. Len(queue) /\ queue'[k] = queue[k + 1]
    BY <1>3, <1>a, DequeueEffect DEF RunWrite
  <2>2. Known(Head(queue).data)
    BY <1>3, <1>a, DequeueEffect DEF RunWrite, EntriesKnown, IsWrite
  <2> QED
    BY <1>3, <2>1, <2>2, <1>a DEF RunWrite, EntriesKnown, Known
<1>4. CASE OnInitData
  <2>1. Known(mem)'
    <3>1. CASE reply = NoFile
      BY <1>4, <3>1, <1>a DEF OnInitData, EntriesKnown, Known
    <3>2. CASE reply # NoFile
      <4>1. /\ reply \in Maps /\ Known(reply) /\ Known(mem) /\ past' = past
            /\ mem' = MergeLoaded(mem, reply)
        BY <1>4, <3>2, <1>a DEF OnInitData, EntriesKnown, TypeOK
      <4> QED
        BY <4>1, <1>a, MergeEffect DEF Known, TypeOK
    <3> QED
      BY <3>1, <3>2
  <2> QED
    BY <1>4, <2>1, <1>a DEF OnInitData, EntriesKnown, Known
<1>5. CASE Exit
  BY <1>5, <1>a DEF Exit, EntriesKnown, Known
<1>6. CASE Crash
  BY <1>6, <1>a DEF Crash, EntriesKnown, Known
<1>7. CASE Restart
  <2>1. Known(mem)' /\ Known(expected)'
    BY <1>7, <1>a, EmptyMapType DEF Restart, EntriesKnown, Known, Contents
  <2>2. \A k \in 1 .. Len(queue') : ~IsWrite(queue'[k])
    BY <1>7 DEF Restart, IsWrite, ReadTask
  <2> QED
    BY <1>7, <2>1, <2>2, <1>a DEF Restart, EntriesKnown, Known
<1>8. CASE UNCHANGED vars
  BY <1>8, <1>a DEF vars, EntriesKnown, Known
<1> QED
  BY <1>1, <1>2, <1>3, <1>4, <1>5, <1>6, <1>7, <1>8, NextCases

\* A call changes neither the type nor the creation time of an entry, and
\* stamps it with the current time.
LEMMA PastStep ==
  ASSUME StoreInv, [Next]_vars
  PROVE  PastLocked' /\ PastBounded'
<1> USE StoreAssumption, MarkerAssumption DEF processVars, storeVars, diskVars,
        historyVars
<1>a. TypeOK /\ EntriesKnown /\ PastLocked /\ PastBounded
  BY DEF StoreInv
<1>1. CASE Call
  <2>1. PICK i \in Ids, ws \in Workspace \cup {Absent} : Commit(i, ws) /\ Version(i, ws)
    BY <1>1, <1>a, CallCommits
  <2>2. /\ expected'[i] = ws
        /\ \A j \in Ids \ {i} : expected'[j] = expected[j]
    BY <2>1, <1>a, CommitEffect
  <2>3. past' = past \cup {expected'} /\ ops' = ops + 1 /\ ops \in Nat
    BY <2>1, <1>a DEF Commit, TypeOK
  <2>4. past \in SUBSET Maps
    BY <1>a DEF TypeOK
  <2>5. Known(mem) /\ Known(expected)
    BY <1>a DEF EntriesKnown
  <2>6. ASSUME NEW p \in past, NEW j \in Ids, p[j] # Absent, expected'[j] # Absent
        PROVE  /\ p[j].type = expected'[j].type
               /\ p[j].created_at = expected'[j].created_at
    <3>1. CASE j = i
      <4>1. mem[i] # Absent /\ ws.created_at = mem[i].created_at /\ ws.type = mem[i].type
        BY <2>1, <2>2, <2>6, <3>1 DEF Version
      <4>2. PICK q \in past : q[i] = mem[i]
        BY <2>5, <4>1 DEF Known
      <4> QED
        BY <2>2, <2>6, <3>1, <4>1, <4>2, <1>a DEF PastLocked
    <3>2. CASE j # i
      <4>1. PICK q \in past : q[j] = expected[j]
        BY <2>2, <2>5, <2>6, <3>2 DEF Known
      <4> QED
        BY <2>2, <2>6, <3>2, <4>1, <1>a DEF PastLocked
    <3> QED
      BY <3>1, <3>2
  <2>7. ASSUME NEW j \in Ids, expected'[j] # Absent
        PROVE  expected'[j].updated_at <= ops + 1
    <3>1. CASE j = i
      BY <2>1, <2>2, <2>3, <2>7, <3>1 DEF Version
    <3>2. CASE j # i
      <4>1. PICK q \in past : q[j] = expected[j]
        BY <2>2, <2>5, <2>7, <3>2 DEF Known
      <4>2. q[j] \in Workspace /\ q[j].updated_at <= ops
        BY <2>2, <2>4, <2>7, <3>2, <4>1, <1>a DEF PastBounded, Maps
      <4> QED
        BY <2>2, <2>3, <3>2, <4>1, <4>2 DEF Workspace
    <3> QED
      BY <3>1, <3>2
  <2>8. PastLocked'
    BY <2>3, <2>6, <1>a DEF PastLocked
  <2>9. PastBounded'
    <3>1. ASSUME NEW p \in past, NEW j \in Ids, p[j] # Absent
          PROVE  p[j].updated_at <= ops + 1
      <4>1. p[j] \in Workspace /\ p[j].updated_at <= ops
        BY <2>4, <3>1, <1>a DEF PastBounded, Maps
      <4> QED
        BY <2>3, <4>1 DEF Workspace
    <3> QED
      BY <2>3, <2>7, <3>1 DEF PastBounded
  <2> QED
    BY <2>8, <2>9
<1>2. CASE UNCHANGED <<past, ops>>
  BY <1>2, <1>a DEF PastLocked, PastBounded
<1> QED
  BY <1>1, <1>2, NextCases DEF RunRead, RunWrite, OnInitData, Exit, Crash, Restart, vars

\* Entries of a known map are no later than the last call.
LEMMA KnownBounded ==
  ASSUME TypeOK, PastBounded, NEW m \in Maps, Known(m), NEW i \in Ids, m[i] # Absent
  PROVE  m[i] \in Workspace /\ m[i].updated_at <= ops
BY DEF Known, PastBounded, Maps

\* The new memory of a call is no older than any known map that the old memory
\* was no older than.
LEMMA CallNotOlder ==
  ASSUME StoreInv, NEW i \in Ids, NEW ws \in Workspace \cup {Absent},
         Commit(i, ws), Version(i, ws),
         NEW m \in Maps, Known(m), NotOlder(m, mem)
  PROVE  NotOlder(m, mem')
<1> USE StoreAssumption, MarkerAssumption
<1>a. TypeOK /\ PastBounded /\ ops \in Nat
  BY DEF StoreInv, TypeOK
<1>b. mem'[i] = ws /\ \A j \in Ids \ {i} : mem'[j] = mem[j]
  BY <1>a, CommitEffect
<1>c. \A j \in Ids : m[j] # Absent => m[j] \in Workspace /\ m[j].updated_at <= ops
  BY <1>a, KnownBounded
<1> SUFFICES ASSUME NEW j \in Ids, mem'[j] # Absent
             PROVE  IF m[j] # Absent
                    THEN mem'[j].updated_at >= m[j].updated_at
                    ELSE \A l \in Ids : m[l] # Absent =>
                           mem'[j].created_at > m[l].updated_at
  BY DEF NotOlder
<1>1. CASE j # i
  BY <1>1, <1>b DEF NotOlder
<1>2. CASE j = i
  <2>1. ws.updated_at = ops + 1
    BY <1>2, <1>b DEF Version
  <2>2. CASE m[i] # Absent
    BY <1>a, <1>b, <1>c, <1>2, <2>1, <2>2 DEF Workspace
  <2>3. CASE m[i] = Absent
    <3>1. CASE ws.created_at = ops + 1
      BY <1>a, <1>b, <1>c, <1>2, <2>3, <3>1 DEF Workspace
    <3>2. CASE mem[i] # Absent /\ ws.created_at = mem[i].created_at
      BY <1>b, <1>2, <2>3, <3>2 DEF NotOlder
    <3> QED
      BY <1>2, <1>b, <3>1, <3>2 DEF Version
  <2> QED
    BY <2>2, <2>3
<1> QED
  BY <1>1, <1>2

\* A map is no older than itself, and an empty one than anything.
LEMMA NotOlderBase ==
  ASSUME NEW m \in Maps
  PROVE  NotOlder(m, m) /\ NotOlder(m, EmptyMap)
BY MarkerAssumption, EmptyMapType DEF NotOlder, Maps, Workspace

\* The file, the snapshots posted and memory stay in order.
LEMMA OrderStep ==
  ASSUME StoreInv, [Next]_vars
  PROVE  SnapshotsInOrder'
<1> USE MarkerAssumption DEF processVars, storeVars, diskVars, historyVars
<1>a. TypeOK /\ QueueShape /\ EntriesKnown /\ SnapshotIsExpected /\ SnapshotsInOrder
  BY DEF StoreInv
<1>b. /\ Len(queue) \in Nat
      /\ \A k \in 1 .. Len(queue) :
           queue[k] \in Tasks /\ (IsWrite(queue[k]) => queue[k].data \in Maps)
  BY <1>a, LenProperties, ElementOfSeq, TaskKinds DEF TypeOK, IsWrite
<1> SUFFICES ASSUME ~early' PROVE SnapshotsInOrder'
  BY DEF SnapshotsInOrder
<1>c. ~early
  BY CallCommits, NextCases, <1>a DEF Commit, RunRead, RunWrite, OnInitData, Exit,
     Crash, Restart, vars, TypeOK
<1>1. CASE Call
  <2>1. PICK i \in Ids, ws \in Workspace \cup {Absent} : Commit(i, ws) /\ Version(i, ws)
    BY <1>1, <1>a, CallCommits
  <2>2. /\ mem' \in Maps
        /\ Len(queue') = Len(queue) + 1
        /\ queue'[Len(queue')] = WriteTask(mem')
        /\ \A k \in 1 .. Len(queue) : queue'[k] = queue[k]
    BY <2>1, <1>a, CommitEffect
  <2>3. queue'[Len(queue')].data = mem'
    BY <2>2 DEF WriteTask
  <2>4. UNCHANGED file
    BY <2>1 DEF Commit
  <2>5. file # NoFile => NotOlder(file, mem')
    BY <2>1, <1>a, <1>c, CallNotOlder DEF SnapshotsInOrder, EntriesKnown, TypeOK
  <2>6. \A k \in 1 .. Len(queue) : IsWrite(queue[k]) => NotOlder(queue[k].data, mem')
    BY <2>1, <1>a, <1>b, <1>c, CallNotOlder DEF SnapshotsInOrder, EntriesKnown
  <2>7. NotOlder(mem', mem')
    BY <2>2, NotOlderBase
  <2> SUFFICES ASSUME NEW k \in 1 .. Len(queue'), IsWrite(queue'[k])
               PROVE  /\ file' # NoFile => NotOlder(file', queue'[k].data)
                      /\ NotOlder(queue'[k].data, mem')
                      /\ \A l \in 1 .. Len(queue') :
                           k < l => NotOlder(queue'[k].data, queue'[l].data)
    BY <2>4, <2>5 DEF SnapshotsInOrder, NotOlder
  <2>8. CASE k = Len(queue')
    BY <2>2, <2>3, <2>4, <2>5, <2>7, <2>8, <1>b
  <2>9. CASE k # Len(queue')
    <3>1. k \in 1 .. Len(queue) /\ queue'[k] = queue[k]
      BY <2>2, <2>9, <1>b
    <3>2. ASSUME NEW l \in 1 .. Len(queue'), k < l
          PROVE  NotOlder(queue'[k].data, queue'[l].data)
      <4>1. CASE l = Len(queue')
        BY <2>3, <2>6, <3>1, <4>1
      <4>2. CASE l # Len(queue')
        <5>1. l \in 1 .. Len(queue) /\ queue'[l] = queue[l]
          BY <2>2, <4>2, <1>b
        <5> QED
          BY <3>1, <3>2, <5>1, <1>a, <1>c DEF SnapshotsInOrder
      <4> QED
        BY <4>1, <4>2
    <3> QED
      BY <2>4, <2>6, <3>1, <3>2, <1>a, <1>c DEF SnapshotsInOrder
  <2> QED
    BY <2>8, <2>9
<1>2. CASE RunRead
  <2>1. \A k \in 1 .. Len(queue') : k + 1 \in 1 .. Len(queue) /\ queue'[k] = queue[k + 1]
    BY <1>2, <1>a, DequeueEffect DEF RunRead
  <2>2. Len(queue') \in Nat /\ UNCHANGED <<file, mem>>
    BY <1>2, <1>a, DequeueEffect DEF RunRead
  <2>3. \A k \in 1 .. Len(queue') :
          IsWrite(queue'[k]) =>
            /\ file' # NoFile => NotOlder(file', queue'[k].data)
            /\ NotOlder(queue'[k].data, mem')
            /\ \A l \in 1 .. Len(queue') :
                 k < l => NotOlder(queue'[k].data, queue'[l].data)
    <3> SUFFICES ASSUME NEW k \in 1 .. Len(queue'), IsWrite(queue'[k])
                 PROVE  /\ file' # NoFile => NotOlder(file', queue'[k].data)
                        /\ NotOlder(queue'[k].data, mem')
                        /\ \A l \in 1 .. Len(queue') :
                             k < l => NotOlder(queue'[k].data, queue'[l].data)
      OBVIOUS
    <3>1. \A l \in 1 .. Len(queue') : k < l => k + 1 < l + 1
      BY <2>2
    <3> QED
      BY <2>1, <2>2, <3>1, <1>a, <1>c DEF SnapshotsInOrder
  <2> QED
    BY <2>2, <2>3, <1>a, <1>c DEF SnapshotsInOrder, NotOlder
<1>3. CASE RunWrite
  <2>1. \A k \in 1 .. Len(queue') : k + 1 \in 1 .. Len(queue) /\ queue'[k] = queue[k + 1]
    BY <1>3, <1>a, DequeueEffect DEF RunWrite
  <2>2. /\ Len(queue) \in Nat \ {0} /\ IsWrite(queue[1])
        /\ Len(queue') \in Nat /\ UNCHANGED mem
        /\ file' \in {queue[1].data, file, NoFile}
    BY <1>3, <1>a, DequeueEffect DEF RunWrite, IsWrite
  <2>3. file' # NoFile => NotOlder(file', mem')
    BY <2>2, <1>a, <1>c DEF SnapshotsInOrder
  <2>4. ASSUME NEW k \in 1 .. Len(queue'), IsWrite(queue'[k])
        PROVE  /\ file' # NoFile => NotOlder(file', queue'[k].data)
               /\ NotOlder(queue'[k].data, mem')
               /\ \A l \in 1 .. Len(queue') :
                    k < l => NotOlder(queue'[k].data, queue'[l].data)
    <3>1. \A l \in 1 .. Len(queue') : k < l => k + 1 < l + 1
      BY <2>2
    <3>2. 1 \in 1 .. Len(queue) /\ 1 < k + 1
      BY <2>2
    <3>3. file' # NoFile => NotOlder(file', queue'[k].data)
      BY <2>1, <2>2, <2>4, <3>2, <1>a, <1>c DEF SnapshotsInOrder
    <3> QED
      BY <2>1, <2>2, <2>4, <3>1, <3>3, <1>a, <1>c DEF SnapshotsInOrder
  <2> QED
    BY <2>3, <2>4 DEF SnapshotsInOrder, NotOlder
<1>4. CASE OnInitData
  <2>1. /\ up /\ UNCHANGED <<queue, file>> /\ reply # NoReply /\ ~initialized
    BY <1>4, <1>a DEF OnInitData, QueueShape
  <2>2. queue = <<>> /\ reply = file /\ mem = EmptyMap
    <3>1. queue # <<ReadTask>>
      BY <2>1, <1>a DEF QueueShape, ReadTask, IsWrite
    <3> QED
      BY <2>1, <3>1, <1>a, <1>c DEF SnapshotIsExpected, Untouched
  <2>3. file # NoFile => mem' = file
    BY <1>4, <2>2, <1>a, MergeIntoEmpty DEF OnInitData, TypeOK
  <2>4. file # NoFile => NotOlder(file, mem)'
    BY <2>1, <2>3, <1>a, NotOlderBase DEF TypeOK, NotOlder
  <2> QED
    BY <2>1, <2>2, <2>4, EmptySeq DEF SnapshotsInOrder
<1>5. CASE Exit
  BY <1>5, <1>a, <1>c DEF Exit, SnapshotsInOrder, NotOlder
<1>6. CASE Crash
  <2>1. queue' = <<>> /\ UNCHANGED mem /\ file' \in {file, NoFile}
    BY <1>6 DEF Crash
  <2> QED
    BY <2>1, <1>a, <1>c, EmptySeq DEF SnapshotsInOrder, NotOlder
<1>7. CASE Restart
  <2>1. mem' = EmptyMap /\ UNCHANGED file /\ queue' = <<ReadTask>>
    BY <1>7 DEF Restart
  <2>2. file' # NoFile => NotOlder(file, mem)'
    BY <2>1, <1>a, NotOlderBase DEF TypeOK, NotOlder
  <2>3. \A k \in 1 .. Len(queue') : ~IsWrite(queue'[k])
    BY <2>1 DEF IsWrite, ReadTask
  <2> QED
    BY <2>2, <2>3 DEF SnapshotsInOrder
<1>8. CASE UNCHANGED vars
  BY <1>8, <1>a DEF vars, SnapshotsInOrder, NotOlder
<1> QED
  BY <1>1, <1>2, <1>3, <1>4, <1>5, <1>6, <1>7, <1>8, NextCases

\* Snapshots, the file and what is expected stay maps that calls have made.
LEMMA VersionsStep ==
  ASSUME StoreInv, [Next]_vars
  PROVE  SnapshotsAreVersions'
<1> USE MarkerAssumption DEF processVars, storeVars, diskVars, historyVars
<1>a. TypeOK /\ QueueShape /\ SnapshotIsExpected /\ SnapshotsAreVersions
  BY DEF StoreInv
<1>b. Len(queue) \in Nat
  BY <1>a DEF TypeOK
<1>1. CASE Call
  <2>1. PICK i \in Ids, ws \in Workspace \cup {Absent} : Commit(i, ws)
    BY <1>1, <1>a, CallCommits
  <2>2. /\ mem = expected => mem' = expected'
        /\ Len(queue') = Len(queue) + 1
        /\ queue'[Len(queue')] = WriteTask(mem')
        /\ \A k \in 1 .. Len(queue) : queue'[k] = queue[k]
    BY <2>1, <1>a, CommitEffect
  <2>3. /\ past' = past \cup {expected'} /\ early' = (early \/ ~initialized)
        /\ UNCHANGED <<file, damaged>>
    BY <2>1 DEF Commit
  <2>4. EmptyMap \in past' /\ (damaged' => Faults # {})
    BY <2>3, <1>a DEF SnapshotsAreVersions
  <2>5. ASSUME ~early'
        PROVE  /\ expected' \in past' /\ (file' # NoFile => file' \in past')
               /\ \A k \in 1 .. Len(queue') : IsWrite(queue'[k]) => queue'[k].data \in past'
    <3>1. ~early /\ initialized /\ up
      BY <2>3, <2>5, <1>1, <1>a, CallCommits DEF TypeOK
    <3>2. mem' = expected'
      BY <2>2, <3>1, <1>a DEF SnapshotIsExpected
    <3>3. queue'[Len(queue')].data \in past'
      BY <2>2, <2>3, <3>2 DEF WriteTask
    <3>4. \A k \in 1 .. Len(queue') : IsWrite(queue'[k]) => queue'[k].data \in past'
      <4> SUFFICES ASSUME NEW k \in 1 .. Len(queue'), IsWrite(queue'[k])
                   PROVE  queue'[k].data \in past'
        OBVIOUS
      <4>1. k = Len(queue') \/ k \in 1 .. Len(queue)
        BY <2>2, <1>b
      <4> QED
        BY <2>2, <2>3, <3>1, <3>3, <4>1, <1>a DEF SnapshotsAreVersions
    <3> QED
      BY <2>3, <3>1, <3>4, <1>a DEF SnapshotsAreVersions
  <2> QED
    BY <2>4, <2>5 DEF SnapshotsAreVersions
<1>2. CASE RunRead
  <2>1. \A k \in 1 .. Len(queue') : k + 1 \in 1 .. Len(queue) /\ queue'[k] = queue[k + 1]
    BY <1>2, <1>a, DequeueEffect DEF RunRead
  <2>2. UNCHANGED <<expected, past, damaged, early, file>>
    BY <1>2 DEF RunRead
  <2> QED
    BY <2>1, <2>2, <1>a DEF SnapshotsAreVersions
<1>3. CASE RunWrite
  <2>1. \A k \in 1 .. Len(queue') : k + 1 \in 1 .. Len(queue) /\ queue'[k] = queue[k + 1]
    BY <1>3, <1>a, DequeueEffect DEF RunWrite
  <2>2. /\ 1 \in 1 .. Len(queue) /\ IsWrite(queue[1])
        /\ file' \in {queue[1].data, file, NoFile}
        /\ damaged' => Faults # {}
    BY <1>3, <1>a, DequeueEffect DEF RunWrite, IsWrite
  <2>3. UNCHANGED <<expected, past, early>>
    BY <1>3 DEF RunWrite
  <2> QED
    BY <2>1, <2>2, <2>3, <1>a DEF SnapshotsAreVersions
<1>4. CASE OnInitData \/ Exit
  BY <1>4, <1>a DEF OnInitData, Exit, SnapshotsAreVersions
<1>5. CASE Crash
  <2>1. /\ queue' = <<>> /\ file' \in {file, NoFile} /\ Faults # {}
        /\ UNCHANGED <<expected, past, early>>
    BY <1>5 DEF Crash
  <2> QED
    BY <2>1, <1>a, EmptySeq DEF SnapshotsAreVersions
<1>6. CASE Restart
  <2>1. /\ queue' = <<ReadTask>> /\ ~damaged'
        /\ expected' \in {expected, Contents(file)}
        /\ UNCHANGED <<file, past, early>>
    BY <1>6 DEF Restart
  <2>2. \A k \in 1 .. Len(queue') : ~IsWrite(queue'[k])
    BY <2>1 DEF IsWrite, ReadTask
  <2>3. ~early => expected' \in past
    BY <2>1, <1>a DEF SnapshotsAreVersions, Contents
  <2> QED
    BY <2>1, <2>2, <2>3, <1>a DEF SnapshotsAreVersions
<1>7. CASE UNCHANGED vars
  BY <1>7, <1>a DEF vars, SnapshotsAreVersions
<1> QED
  BY <1>1, <1>2, <1>3, <1>4, <1>5, <1>6, <1>7, NextCases

-----------------------------------------------------------------------------
(***************************************************************************)
(* Theorems.                                                               *)
(***************************************************************************)

\* The inductive invariant holds of every behaviour of the store, through
\* exits, crashes, torn files and failing writes.
THEOREM StoreInvariant == Spec => []StoreInv
<1>1. Init => StoreInv
  <2> SUFFICES ASSUME Init PROVE StoreInv
    OBVIOUS
  <2> USE StoreAssumption, MarkerAssumption, EmptyMapType DEF Init
  <2>1. Len(queue) = 1 /\ ~IsWrite(queue[1]) /\ ~LastWrite
    BY DEF IsWrite, LastWrite, ReadTask
  <2>2. TypeOK
    <3>1. queue \in Seq(Tasks)
      BY DEF Tasks
    <3>2. past \in SUBSET Maps
      OBVIOUS
    <3>3. ops \in 0 .. MaxOps /\ session \in 0 .. MaxSessions
      OBVIOUS
    <3> QED
      BY <3>1, <3>2, <3>3, Zenon DEF TypeOK
  <2>3. QueueShape
    BY <2>1 DEF QueueShape
  <2>4. Untouched
    BY DEF Untouched
  <2>5. SnapshotWithinMemory /\ SnapshotIsExpected
    BY <2>1, <2>4 DEF SnapshotWithinMemory, SnapshotIsExpected, Contents
  <2>6. EntriesKnown
    BY <2>1 DEF EntriesKnown, Known
  <2>7. PastLocked /\ PastBounded
    BY DEF PastLocked, PastBounded
  <2>8. SnapshotsInOrder /\ SnapshotsAreVersions
    BY <2>1 DEF SnapshotsInOrder, SnapshotsAreVersions
  <2> QED
    BY <2>2, <2>3, <2>5, <2>6, <2>7, <2>8 DEF StoreInv
<1>2. StoreInv /\ [Next]_vars => StoreInv'
  BY TypeStep, ShapeStep, WithinStep, ExpectedStep, KnownStep, PastStep, OrderStep,
     VersionsStep DEF StoreInv
<1> QED
  BY <1>1, <1>2, PTL DEF Spec

\* Memory, the queue, the reply and the file always hold well-formed maps.
THEOREM StoreTypeCorrect == Spec => []TypeOK
<1>1. StoreInv => TypeOK
  BY DEF StoreInv
<1> QED
  BY <1>1, StoreInvariant, PTL

\* As long as callers wait for OnInitData, the loaded store is what the calls
\* that returned have made of it, over any number of restarts.
THEOREM StoreKeepsEverything == Spec => []KeepsEverything
<1>1. StoreInv => KeepsEverything
  BY DEF StoreInv, SnapshotIsExpected, KeepsEverything
<1> QED
  BY <1>1, StoreInvariant, PTL

\* Also with callers that do not wait, the file never ends up with a deleted or
\* outdated entry: SaveToDisk posts the whole map and OnInitData only adds.
THEOREM StoreDiskWithinMemory == Spec => []DiskWithinMemory
<1>1. StoreInv => DiskWithinMemory
  <2> SUFFICES ASSUME StoreInv, up, initialized, ~damaged
               PROVE  Within(EventualFile, mem)
    BY DEF DiskWithinMemory, Within
  <2>1. TypeOK /\ QueueShape /\ SnapshotWithinMemory
    BY DEF StoreInv
  <2>2. CASE queue = <<>>
    BY <2>1, <2>2 DEF SnapshotWithinMemory, EventualFile
  <2>3. CASE queue # <<>>
    <3>1. Len(queue) \in 1 .. Len(queue)
      BY <2>1, <2>3, EmptySeq DEF TypeOK
    <3>2. LastWrite
      BY <2>1, <2>3, <3>1 DEF QueueShape, LastWrite
    <3> QED
      BY <2>1, <3>2 DEF SnapshotWithinMemory, EventualFile, LastWrite, IsWrite
  <2> QED
    BY <2>2, <2>3
<1> QED
  BY <1>1, StoreInvariant, PTL

\* No call, load, crash or restart changes the type or the creation time of a
\* workspace (UpdateWorkspace keeps both, whatever its argument says).
THEOREM StoreTypeLocked == Spec => []TypeLocked
<1>1. StoreInv => TypeLocked
  <2> SUFFICES ASSUME StoreInv, NEW i \in Ids, mem[i] # Absent,
                      NEW m \in past, m[i] # Absent
               PROVE  /\ m[i].type = mem[i].type
                      /\ m[i].created_at = mem[i].created_at
    BY DEF TypeLocked
  <2>1. PICK p \in past : p[i] = mem[i]
    BY DEF StoreInv, EntriesKnown, Known
  <2> QED
    BY <2>1 DEF StoreInv, PastLocked
<1> QED
  BY <1>1, StoreInvariant, PTL

\* With callers that wait for the load no write puts an older state of the
\* store on disk: the sequenced task runner keeps the snapshots in order.
THEOREM StoreDiskNeverGoesBack == Spec => DiskNeverGoesBack
<1>1. StoreInv /\ [Next]_vars =>
        [~early' /\ file # NoFile /\ file' # NoFile => NotOlder(file, file')]_vars
  <2> SUFFICES ASSUME StoreInv, [Next]_vars, ~early', file # NoFile, file' # NoFile
               PROVE  NotOlder(file, file')
    OBVIOUS
  <2> USE DEF processVars, storeVars, diskVars, historyVars
  <2>1. TypeOK /\ SnapshotsInOrder
    BY DEF StoreInv
  <2>2. CASE file' = file
    BY <2>1, <2>2, NotOlderBase DEF TypeOK
  <2>3. CASE RunWrite /\ file' # file
    <3>1. /\ ~early /\ 1 \in 1 .. Len(queue)
          /\ IsWrite(queue[1]) /\ file' = queue[1].data
      BY <2>1, <2>3, DequeueEffect DEF RunWrite, IsWrite
    <3> QED
      BY <2>1, <3>1 DEF SnapshotsInOrder
  <2>4. Call => file' = file
    BY <2>1, CallCommits DEF Commit
  <2> QED
    BY <2>2, <2>3, <2>4, NextCases
       DEF RunRead, OnInitData, Exit, Crash, Restart, vars
<1> QED
  BY <1>1, StoreInvariant, PTL DEF Spec, DiskNeverGoesBack

\* To callers that wait for the load, the store with its queue, its file and its
\* restarts implements a durable map, for any faults: every step of it is a call,
\* a load, an end, a loss that leaves a map calls had made, or invisible.
THEOREM StoreImplementsDurableMap == Spec => ImplementsDurableMap
<1> USE DEF processVars, storeVars, diskVars, historyVars
<1>1. Init => Durable!Init
  BY DEF Init, Durable!Init, Shown, EmptyMap
<1>2. StoreInv /\ StoreInv' /\ [Next]_vars => [(~early)' => Durable!Next]_(Durable!mapVars)
  <2> SUFFICES ASSUME StoreInv, StoreInv', [Next]_vars, ~early'
               PROVE  Durable!Next \/ UNCHANGED <<expected, Shown, past, early>>
    BY DEF Durable!mapVars
  <2>a. /\ TypeOK /\ QueueShape /\ SnapshotIsExpected /\ SnapshotsAreVersions
        /\ TypeOK' /\ SnapshotIsExpected'
    BY DEF StoreInv
  <2>b. Shown # NoReply <=> up /\ initialized
    BY <2>a, MarkerAssumption DEF Shown, TypeOK
  <2>1. CASE Call
    <3>1. PICK i \in Ids, ws \in Workspace \cup {Absent} : Commit(i, ws) /\ Version(i, ws)
      BY <2>1, <2>a, CallCommits
    <3>2. up /\ initialized /\ ~early /\ up' /\ initialized'
      BY <2>1, <2>a, <3>1, CallCommits DEF Commit, TypeOK
    <3>3. mem = expected /\ mem' = expected' /\ Shown = mem /\ Shown' = mem'
      BY <2>a, <3>2 DEF SnapshotIsExpected, Shown
    <3>4. Durable!Put(i, ws)
      BY <3>1, <3>3 DEF Durable!Put, Commit
    <3>5. CASE ws = Absent
      <4>1. expected[i] # Absent
        BY <3>1, <3>3, <3>5 DEF Version
      <4>2. Durable!Delete(i)
        BY <3>4, <3>5, <4>1 DEF Durable!Delete
      <4> QED
        BY <4>2 DEF Durable!Next
    <3>6. CASE ws # Absent
      <4>1. ws \in Workspace
        BY <3>6
      <4>2. CASE \A m \in past : m[i] = Absent
        <5>1. Durable!Create(i)
          BY <3>4, <4>1, <4>2 DEF Durable!Create
        <5> QED
          BY <5>1 DEF Durable!Next
      <4>3. CASE /\ mem[i] # Absent
                 /\ ws.created_at = mem[i].created_at /\ ws.type = mem[i].type
        <5>1. Durable!Update(i)
          BY <3>3, <3>4, <4>1, <4>3 DEF Durable!Update
        <5> QED
          BY <5>1 DEF Durable!Next
      <4> QED
        BY <3>1, <3>6, <4>2, <4>3 DEF Version
    <3> QED
      BY <3>5, <3>6
  <2>2. CASE RunRead \/ RunWrite
    BY <2>2 DEF RunRead, RunWrite, Shown
  <2>3. CASE OnInitData
    <3>1. UNCHANGED <<expected, past, early>> /\ up' /\ initialized' /\ ~initialized
      BY <2>3, <2>a DEF OnInitData, QueueShape
    <3>2. Shown = NoReply /\ Shown' = expected
      BY <3>1, <2>a DEF SnapshotIsExpected, Shown
    <3>3. Durable!Load
      BY <3>1, <3>2 DEF Durable!Load
    <3> QED
      BY <3>3 DEF Durable!Next
  <2>4. CASE Exit \/ Crash
    <3>1. UNCHANGED <<expected, past, early>> /\ Shown' = NoReply
      BY <2>4 DEF Exit, Crash, Shown
    <3>2. Durable!Close
      BY <3>1 DEF Durable!Close
    <3> QED
      BY <3>2 DEF Durable!Next
  <2>5. CASE Restart
    <3>1. /\ UNCHANGED <<past, early>> /\ Shown = NoReply /\ Shown' = NoReply
          /\ expected' # expected => damaged /\ expected' = Contents(file)
      BY <2>5 DEF Restart, Shown
    <3>2. CASE expected' # expected
      <4>1. Contents(file) \in past /\ Faults # {}
        BY <2>a, <3>1, <3>2 DEF SnapshotsAreVersions, Contents
      <4>2. Durable!Lose
        BY <3>1, <3>2, <4>1 DEF Durable!Lose
      <4> QED
        BY <4>2 DEF Durable!Next
    <3> QED
      BY <3>1, <3>2
  <2>6. CASE UNCHANGED vars
    BY <2>6 DEF vars, Shown
  <2> QED
    BY <2>1, <2>2, <2>3, <2>4, <2>5, <2>6, NextCases
<1> QED
  BY <1>1, <1>2, StoreInvariant, PTL DEF Spec, ImplementsDurableMap, Durable!Spec
=============================================================================
