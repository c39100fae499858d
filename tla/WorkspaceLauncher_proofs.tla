---------------------- MODULE WorkspaceLauncher_proofs ----------------------
(***************************************************************************)
(* Proofs about WorkspaceLauncher, for every set of workspaces, range of   *)
(* ports, limit and number of calls.                                       *)
(***************************************************************************)
EXTENDS WorkspaceLauncher, FiniteSetTheorems, WellFoundedInduction, TLAPS

USE DEF Starts, NoProc, NoPort, Statuses

-----------------------------------------------------------------------------
\* Every non-empty set of naturals has a least element.
LEMMA LeastNatural ==
  ASSUME NEW S \in SUBSET Nat, S # {}
  PROVE  \E n \in S : \A q \in S : n <= q
<1>1. PICK n \in S : \A q \in S : ~(<<q, n>> \in OpToRel(<, Nat))
  BY NatLessThanWellFounded, WFMin
<1>2. \A q \in S : ~(q < n)
  BY <1>1 DEF OpToRel
<1> QED BY <1>2

\* The port a call of Start is given is one of the range, or none
\* (FindAvailablePort never leaves the range).
LEMMA FindAvailablePortType == FindAvailablePort \in Ports \cup {NoPort}
<1> DEFINE free == Ports \ BoundPorts
<1>1. ASSUME free # {}
      PROVE  (CHOOSE p \in free : \A q \in free : p <= q) \in free
  <2>1. free \in SUBSET Nat
    BY LauncherAssumption
  <2> HIDE DEF free
  <2>2. \E n \in free : \A q \in free : n <= q
    BY <1>1, <2>1, LeastNatural
  <2> QED BY <2>2
<1> QED BY <1>1 DEF FindAvailablePort

\* The sets counted by the limit are finite.
LEMMA FiniteSets ==
  /\ IsFiniteSet(Pending) /\ Cardinality(Pending) \in Nat
  /\ IsFiniteSet(Recorded) /\ Cardinality(Recorded) \in Nat
<1>1. IsFiniteSet(1 .. MaxStarts)
  BY LauncherAssumption, FS_Interval
<1>2. Pending \in SUBSET (1 .. MaxStarts) /\ Recorded \in SUBSET Workspaces
  BY DEF Pending, Recorded
<1> QED BY <1>1, <1>2, LauncherAssumption, FS_Subset, FS_CardinalityType

\* Adding to and removing from a finite set, as the provers need it.
LEMMA CountOne ==
  ASSUME NEW S, IsFiniteSet(S), NEW x
  PROVE  /\ x \notin S => Cardinality(S \cup {x}) = Cardinality(S) + 1
         /\ x \in S => /\ IsFiniteSet(S \ {x}) /\ Cardinality(S \ {x}) \in Nat
                       /\ Cardinality(S \ {x}) = Cardinality(S) - 1
BY FS_AddElement, FS_RemoveElement, FS_CardinalityType

-----------------------------------------------------------------------------
\* Every action preserves the type invariant (with what StartProgress says of
\* the target of a start under way).
LEMMA TypeStep == TypeOK /\ StartProgress /\ [Next]_vars => TypeOK'
<1> SUFFICES ASSUME TypeOK, StartProgress, [Next]_vars
             PROVE  TypeOK'
  OBVIOUS
<1> USE DEF TypeOK, managerVars, watchdogVars, requestVars, childVars, diskVars
<1>1. ASSUME NEW r \in Starts, NEW w \in Workspaces, Start(r, w)
      PROVE  TypeOK'
  <2>1. ASSUME NEW result \in {"ok", "error"}, AnswerAtOnce(r, w, result)
        PROVE  TypeOK'
    BY <2>1 DEF AnswerAtOnce
  <2>2. ASSUME NEW p \in Ports \cup {NoPort}, PostPreparation(r, w, p)
        PROVE  TypeOK'
    BY <2>2 DEF PostPreparation
  <2> QED BY <1>1, <2>1, <2>2, FindAvailablePortType DEF Start
<1>2. ASSUME NEW r \in Starts, PrepareDir(r)
      PROVE  TypeOK'
  BY <1>2 DEF PrepareDir
<1>3. ASSUME NEW r \in Starts, StartAborted(r) \/ LaunchFails(r)
      PROVE  TypeOK'
  <2>1. CASE StartAborted(r)
    BY <2>1 DEF StartAborted, AnswerReply
  <2>2. CASE LaunchFails(r)
    BY <2>2 DEF LaunchFails, AnswerReply
  <2> QED BY <1>3, <2>1, <2>2
<1>4. ASSUME NEW r \in Starts, ContinueStart(r)
      PROVE  TypeOK'
  <2>1. target[r] \in Workspaces
    BY <1>4 DEF ContinueStart, StartProgress
  <2> QED BY <1>4, <2>1 DEF ContinueStart, StartWatching, AnswerReply
<1>5. ASSUME NEW w \in Workspaces, Stop(w)
      PROVE  TypeOK'
  BY <1>5 DEF Stop, StopWatching, Terminate, PostDeletions
<1>6. CASE DestroyManager
  <2>1. Terminate(Recorded) /\ PostDeletions(Recorded)
    BY <1>6 DEF DestroyManager
  <2>2. proc' \in [Starts -> {"none", "running", "signalled", "exited"}]
    BY <2>1 DEF Terminate
  <2>3. deletions' \in [Workspaces -> Nat]
    BY <2>1 DEF PostDeletions
  <2>4. alive' \in BOOLEAN /\ timer' \in BOOLEAN /\ watched' \in SUBSET Workspaces
    BY <1>6 DEF DestroyManager, StopAllWatching
  <2> QED BY <1>6, <2>2, <2>3, <2>4 DEF DestroyManager
<1>7. CASE OnPoll
  BY <1>7 DEF OnPoll, StopWatching
<1>8. ASSUME NEW w \in Workspaces, RunDeletion(w)
      PROVE  TypeOK'
  BY <1>8 DEF RunDeletion
<1>9. ASSUME NEW r \in Starts, ChildBinds(r) \/ ChildExits(r)
      PROVE  TypeOK'
  <2>1. CASE ChildBinds(r)
    BY <2>1 DEF ChildBinds
  <2>2. CASE ChildExits(r)
    BY <2>2 DEF ChildExits
  <2> QED BY <1>9, <2>1, <2>2
<1>10. CASE UNCHANGED vars
  BY <1>10 DEF vars
<1> QED
  BY <1>1, <1>2, <1>3, <1>4, <1>5, <1>6, <1>7, <1>8, <1>9, <1>10 DEF Next

\* The calls of Start move forward only: a child exists only once its call is
\* done, and a call that was made names a workspace.
LEMMA StartProgressStep ==
  TypeOK /\ StartProgress /\ [Next]_vars => StartProgress'
<1> SUFFICES ASSUME TypeOK, StartProgress, [Next]_vars
             PROVE  StartProgress'
  OBVIOUS
<1> USE DEF TypeOK, StartProgress, managerVars, watchdogVars, requestVars,
            childVars, diskVars
<1>1. ASSUME NEW r \in Starts, NEW w \in Workspaces, Start(r, w)
      PROVE  StartProgress'
  <2>1. ASSUME NEW result, AnswerAtOnce(r, w, result)
        PROVE  StartProgress'
    BY <1>1, <2>1 DEF Start, AnswerAtOnce
  <2>2. ASSUME NEW p, PostPreparation(r, w, p)
        PROVE  StartProgress'
    BY <1>1, <2>2 DEF Start, PostPreparation
  <2> QED BY <1>1, <2>1, <2>2 DEF Start
<1>2. ASSUME NEW r \in Starts,
             PrepareDir(r) \/ StartAborted(r) \/ LaunchFails(r)
      PROVE  StartProgress'
  BY <1>2 DEF PrepareDir, StartAborted, LaunchFails, AnswerReply
<1>3. ASSUME NEW r \in Starts, ContinueStart(r)
      PROVE  StartProgress'
  BY <1>3 DEF ContinueStart, AnswerReply
<1>4. ASSUME NEW w \in Workspaces, Stop(w)
      PROVE  StartProgress'
  BY <1>4 DEF Stop, Terminate
<1>5. CASE DestroyManager
  BY <1>5 DEF DestroyManager, Terminate
<1>6. CASE OnPoll
  BY <1>6 DEF OnPoll
<1>7. ASSUME NEW w \in Workspaces, RunDeletion(w)
      PROVE  StartProgress'
  BY <1>7 DEF RunDeletion
<1>8. ASSUME NEW r \in Starts, ChildBinds(r) \/ ChildExits(r)
      PROVE  StartProgress'
  BY <1>8 DEF ChildBinds, ChildExits, Live
<1>9. CASE UNCHANGED vars
  BY <1>9 DEF vars
<1> QED
  BY <1>1, <1>2, <1>3, <1>4, <1>5, <1>6, <1>7, <1>8, <1>9 DEF Next

\* No action separates a record from its status.
LEMMA RecordStatusStep ==
  TypeOK /\ StartProgress /\ RecordStatus /\ WatchCoverage /\ [Next]_vars
    => RecordStatus'
<1> SUFFICES ASSUME TypeOK, StartProgress, RecordStatus, WatchCoverage,
                    [Next]_vars
             PROVE  RecordStatus'
  OBVIOUS
<1> USE DEF TypeOK, RecordStatus, managerVars, watchdogVars, requestVars,
            childVars, diskVars
<1>1. ASSUME UNCHANGED managerVars
      PROVE  RecordStatus'
  BY <1>1
<1>2. ASSUME NEW r \in Starts, ContinueStart(r)
      PROVE  RecordStatus'
  <2>1. target[r] \in Workspaces /\ alive' = alive /\ alive
    BY <1>2 DEF ContinueStart, StartProgress, ReplyFindsManager
  <2>2. /\ record' = [record EXCEPT ![target[r]] = r]
        /\ status' = [status EXCEPT ![target[r]] = "running"]
    BY <1>2 DEF ContinueStart
  <2> QED BY <2>1, <2>2
<1>3. ASSUME NEW w \in Workspaces, Stop(w)
      PROVE  RecordStatus'
  BY <1>3 DEF Stop
<1>4. CASE DestroyManager
  BY <1>4 DEF DestroyManager
<1>5. CASE OnPoll
  <2> DEFINE gone == {w \in watched \cap Recorded : HasExited(w)}
  <2>1. /\ record' = record /\ alive' = alive
        /\ status' = [w \in Workspaces |->
                        IF w \in gone THEN "crashed" ELSE status[w]]
    BY <1>5 DEF OnPoll
  <2>2. \A w \in gone : status[w] # "stopped"
    BY DEF WatchCoverage
  <2> QED BY <2>1, <2>2
<1>6. ASSUME NEW r \in Starts, NEW w \in Workspaces, Start(r, w)
      PROVE  UNCHANGED managerVars
  BY <1>6 DEF Start, AnswerAtOnce, PostPreparation
<1>7. ASSUME NEW r \in Starts,
             \/ PrepareDir(r) \/ StartAborted(r) \/ LaunchFails(r)
             \/ ChildBinds(r) \/ ChildExits(r)
      PROVE  UNCHANGED managerVars
  BY <1>7 DEF PrepareDir, StartAborted, LaunchFails, ChildBinds, ChildExits
<1>8. ASSUME NEW w \in Workspaces, RunDeletion(w)
      PROVE  UNCHANGED managerVars
  BY <1>8 DEF RunDeletion
<1>9. CASE UNCHANGED vars
  BY <1>9 DEF vars
<1> QED
  BY <1>1, <1>2, <1>3, <1>4, <1>5, <1>6, <1>7, <1>8, <1>9 DEF Next

\* The watchdog keeps watching what runs, and its timer follows.
LEMMA WatchCoverageStep ==
  TypeOK /\ StartProgress /\ RecordStatus /\ WatchCoverage /\ [Next]_vars
    => WatchCoverage'
<1> SUFFICES ASSUME TypeOK, StartProgress, RecordStatus, WatchCoverage,
                    [Next]_vars
             PROVE  WatchCoverage'
  OBVIOUS
<1> USE DEF TypeOK, WatchCoverage, managerVars, watchdogVars, requestVars,
            childVars, diskVars
<1>1. ASSUME UNCHANGED <<managerVars, watchdogVars>>
      PROVE  WatchCoverage'
  BY <1>1
<1>2. ASSUME NEW r \in Starts, ContinueStart(r)
      PROVE  WatchCoverage'
  <2>1. target[r] \in Workspaces
    BY <1>2 DEF ContinueStart, StartProgress
  <2>2. /\ status' = [status EXCEPT ![target[r]] = "running"]
        /\ watched' = watched \cup {target[r]}
        /\ timer' = TRUE
    BY <1>2 DEF ContinueStart, StartWatching
  <2> QED BY <2>1, <2>2
<1>3. ASSUME NEW w \in Workspaces, Stop(w)
      PROVE  WatchCoverage'
  <2>1. /\ status' = [status EXCEPT ![w] = "stopped"]
        /\ watched' = watched \ {w}
        /\ timer' = (timer /\ watched' # {})
    BY <1>3 DEF Stop, StopWatching
  <2>2. watched' = {v \in Workspaces : status'[v] = "running"}
    BY <2>1
  <2>3. timer' <=> watched' # {}
    BY <2>1
  <2> QED BY <2>2, <2>3
<1>4. CASE DestroyManager
  BY <1>4 DEF DestroyManager, StopAllWatching
<1>5. CASE OnPoll
  <2> DEFINE gone == {w \in watched \cap Recorded : HasExited(w)}
  <2>1. watched \ Recorded = {}
    BY DEF Recorded, RecordStatus
  <2>2. /\ status' = [w \in Workspaces |->
                        IF w \in gone THEN "crashed" ELSE status[w]]
        /\ watched' = watched \ gone
        /\ timer' = (timer /\ watched' # {})
    BY <1>5, <2>1 DEF OnPoll, StopWatching
  <2> HIDE DEF gone
  <2>3. watched' = {v \in Workspaces : status'[v] = "running"}
    BY <2>2
  <2>4. timer' <=> watched' # {}
    BY <2>2
  <2> QED BY <2>3, <2>4
<1>6. ASSUME NEW r \in Starts, NEW w \in Workspaces, Start(r, w)
      PROVE  UNCHANGED <<managerVars, watchdogVars>>
  BY <1>6 DEF Start, AnswerAtOnce, PostPreparation
<1>7. ASSUME NEW r \in Starts,
             \/ PrepareDir(r) \/ StartAborted(r) \/ LaunchFails(r)
             \/ ChildBinds(r) \/ ChildExits(r)
      PROVE  UNCHANGED <<managerVars, watchdogVars>>
  BY <1>7 DEF PrepareDir, StartAborted, LaunchFails, ChildBinds, ChildExits
<1>8. ASSUME NEW w \in Workspaces, RunDeletion(w)
      PROVE  UNCHANGED <<managerVars, watchdogVars>>
  BY <1>8 DEF RunDeletion
<1>9. CASE UNCHANGED vars
  BY <1>9 DEF vars
<1> QED
  BY <1>1, <1>2, <1>3, <1>4, <1>5, <1>6, <1>7, <1>8, <1>9 DEF Next

\* A crashed record keeps its exited child, and only such children are called
\* crashed.
LEMMA CrashIsRealStep ==
  LauncherInv /\ [Next]_vars => CrashIsReal'
<1> SUFFICES ASSUME LauncherInv, [Next]_vars
             PROVE  CrashIsReal'
  OBVIOUS
<1> USE DEF LauncherInv, TypeOK, CrashIsReal, Recorded, managerVars,
            watchdogVars, requestVars, childVars, diskVars
<1>1. ASSUME UNCHANGED <<managerVars, proc>>
      PROVE  CrashIsReal'
  BY <1>1
<1>2. ASSUME NEW r \in Starts, ContinueStart(r)
      PROVE  CrashIsReal'
  <2>1. /\ target[r] \in Workspaces
        /\ proc[r] = "none"
    BY <1>2 DEF ContinueStart, StartProgress
  <2>2. /\ record' = [record EXCEPT ![target[r]] = r]
        /\ status' = [status EXCEPT ![target[r]] = "running"]
        /\ proc' = [proc EXCEPT ![r] = "running"]
    BY <1>2 DEF ContinueStart
  <2> QED BY <2>1, <2>2
<1>3. ASSUME NEW S, Terminate(S)
      PROVE  \A r \in Starts : proc[r] = "exited" => proc'[r] = "exited"
  BY <1>3 DEF Terminate
<1>4. ASSUME NEW w \in Workspaces, Stop(w)
      PROVE  CrashIsReal'
  <2>1. /\ record' = [record EXCEPT ![w] = NoProc]
        /\ status' = [status EXCEPT ![w] = "stopped"]
        /\ \A r \in Starts : proc[r] = "exited" => proc'[r] = "exited"
    BY <1>3, <1>4 DEF Stop
  <2> QED BY <2>1
<1>5. CASE DestroyManager
  BY <1>5 DEF DestroyManager
<1>6. CASE OnPoll
  <2> DEFINE gone == {w \in watched \cap Recorded : HasExited(w)}
  <2>1. /\ status' = [w \in Workspaces |->
                        IF w \in gone THEN "crashed" ELSE status[w]]
        /\ record' = record
        /\ proc' = proc
    BY <1>6 DEF OnPoll
  <2>2. \A w \in gone : w \in Recorded /\ proc[record[w]] = "exited"
    BY DEF HasExited
  <2> HIDE DEF gone
  <2> QED BY <2>1, <2>2
<1>7. ASSUME NEW r \in Starts, ChildExits(r)
      PROVE  CrashIsReal'
  BY <1>7 DEF ChildExits
<1>8. ASSUME NEW r \in Starts, NEW w \in Workspaces, Start(r, w)
      PROVE  UNCHANGED <<managerVars, proc>>
  BY <1>8 DEF Start, AnswerAtOnce, PostPreparation
<1>9. ASSUME NEW r \in Starts,
             PrepareDir(r) \/ StartAborted(r) \/ LaunchFails(r) \/ ChildBinds(r)
      PROVE  UNCHANGED <<managerVars, proc>>
  BY <1>9 DEF PrepareDir, StartAborted, LaunchFails, ChildBinds
<1>10. ASSUME NEW w \in Workspaces, RunDeletion(w)
       PROVE  UNCHANGED <<managerVars, proc>>
  BY <1>10 DEF RunDeletion
<1>11. CASE UNCHANGED vars
  BY <1>11 DEF vars
<1> QED
  BY <1>1, <1>2, <1>4, <1>5, <1>6, <1>7, <1>8, <1>9, <1>10, <1>11 DEF Next

-----------------------------------------------------------------------------
\* The inductive invariant holds in every behaviour of the launcher.
THEOREM LauncherInvariant == Spec => []LauncherInv
<1>1. Init => LauncherInv
  <2> SUFFICES ASSUME Init PROVE LauncherInv
    OBVIOUS
  <2>1. TypeOK
    BY DEF Init, TypeOK
  <2>2. RecordStatus /\ StartProgress /\ CrashIsReal
    BY DEF Init, RecordStatus, StartProgress, CrashIsReal
  <2>3. WatchCoverage
    BY DEF Init, WatchCoverage
  <2> QED BY <2>1, <2>2, <2>3 DEF LauncherInv
<1>2. LauncherInv /\ [Next]_vars => LauncherInv'
  BY TypeStep, StartProgressStep, RecordStatusStep, WatchCoverageStep,
     CrashIsRealStep DEF LauncherInv
<1> QED BY <1>1, <1>2, PTL DEF Spec

\* Every variable of the manager, the watchdog and the children has its type.
THEOREM TypeCorrect == Spec => []TypeOK
BY LauncherInvariant, PTL DEF LauncherInv

\* The watchdog watches exactly the running workspaces, for any number of
\* workspaces and any interleaving of starts, stops, crashes and polls.
THEOREM WatchCorrect == Spec => []WatchCoverage
BY LauncherInvariant, PTL DEF LauncherInv

\* No workspace is ever reported crashed while its recorded child lives.
THEOREM NoFalseAlarm == Spec => []CrashIsReal
BY LauncherInvariant, PTL DEF LauncherInv

-----------------------------------------------------------------------------
\* How each step changes the two sets the limit is about.
LEMMA SlotStep ==
  ASSUME LauncherInv, [Next]_vars
  PROVE  \/ Pending' = Pending /\ Recorded' = Recorded
         \/ \E r \in Starts \ Pending :
              /\ Pending' = Pending \cup {r} /\ Recorded' = Recorded
              /\ ~AtLimit /\ Cardinality(Pending) < MaxPending
         \/ \E r \in Pending : Pending' = Pending \ {r} /\ Recorded' = Recorded
         \/ \E r \in Pending, w \in Workspaces :
              Pending' = Pending \ {r} /\ Recorded' = Recorded \cup {w}
         \/ \E w \in Recorded : Pending' = Pending /\ Recorded' = Recorded \ {w}
         \/ Pending' = Pending /\ Recorded' = {}
<1> USE DEF LauncherInv, TypeOK, Pending, Recorded, managerVars,
            watchdogVars, requestVars, childVars, diskVars
<1>1. ASSUME NEW r \in Starts, NEW w \in Workspaces, Start(r, w)
      PROVE  \/ Pending' = Pending /\ Recorded' = Recorded
             \/ /\ r \notin Pending
                /\ Pending' = Pending \cup {r} /\ Recorded' = Recorded
                /\ ~AtLimit /\ Cardinality(Pending) < MaxPending
  <2>1. phase[r] = "unused" /\ Cardinality(Pending) < MaxPending
    BY <1>1 DEF Start
  <2>2. ASSUME NEW result, AnswerAtOnce(r, w, result)
        PROVE  Pending' = Pending /\ Recorded' = Recorded
    BY <2>1, <2>2 DEF AnswerAtOnce
  <2>3. ASSUME NEW p, PostPreparation(r, w, p)
        PROVE  Pending' = Pending \cup {r} /\ Recorded' = Recorded
    BY <2>1, <2>3 DEF PostPreparation
  <2>4. r \notin Pending
    BY <2>1
  <2> HIDE DEF Pending, Recorded
  <2> QED BY <1>1, <2>1, <2>2, <2>3, <2>4 DEF Start
<1>2. ASSUME NEW r \in Starts, PrepareDir(r)
      PROVE  Pending' = Pending /\ Recorded' = Recorded
  BY <1>2 DEF PrepareDir
<1>3. ASSUME NEW r \in Starts, StartAborted(r) \/ LaunchFails(r)
      PROVE  r \in Pending /\ Pending' = Pending \ {r} /\ Recorded' = Recorded
  <2>1. /\ phase[r] = "prepared" /\ record' = record
        /\ phase' = [phase EXCEPT ![r] = "done"]
    BY <1>3 DEF StartAborted, LaunchFails, AnswerReply
  <2> QED BY <2>1
<1>4. ASSUME NEW r \in Starts, ContinueStart(r)
      PROVE  /\ r \in Pending /\ target[r] \in Workspaces
             /\ Pending' = Pending \ {r}
             /\ Recorded' = Recorded \cup {target[r]}
  <2>1. r \in Pending /\ Pending' = Pending \ {r}
    BY <1>4 DEF ContinueStart, AnswerReply
  <2>2. target[r] \in Workspaces /\ record' = [record EXCEPT ![target[r]] = r]
    BY <1>4 DEF ContinueStart, StartProgress
  <2> QED BY <2>1, <2>2
<1>5. ASSUME NEW w \in Workspaces, Stop(w)
      PROVE  w \in Recorded /\ Pending' = Pending /\ Recorded' = Recorded \ {w}
  BY <1>5 DEF Stop
<1>6. ASSUME DestroyManager
      PROVE  Pending' = Pending /\ Recorded' = {}
  BY <1>6 DEF DestroyManager
<1>7. ASSUME OnPoll \/ UNCHANGED vars
      PROVE  Pending' = Pending /\ Recorded' = Recorded
  <2>1. phase' = phase /\ record' = record
    BY <1>7 DEF OnPoll, vars
  <2> QED BY <2>1
<1>8. ASSUME NEW w \in Workspaces, RunDeletion(w)
      PROVE  Pending' = Pending /\ Recorded' = Recorded
  BY <1>8 DEF RunDeletion
<1>9. ASSUME NEW r \in Starts, ChildBinds(r) \/ ChildExits(r)
      PROVE  Pending' = Pending /\ Recorded' = Recorded
  <2>1. phase' = phase /\ record' = record
    BY <1>9 DEF ChildBinds, ChildExits
  <2> QED BY <2>1
<1> HIDE DEF Pending, Recorded, LauncherInv, TypeOK
<1> QED
  BY <1>1, <1>2, <1>3, <1>4, <1>5, <1>6, <1>7, <1>8, <1>9 DEF Next

\* Records and starts under way stay within the limit plus what the callers
\* themselves keep outstanding beyond one call.
THEOREM SlotsBounded == Spec => []SlotBound
<1>1. Init => SlotBound
  <2> SUFFICES ASSUME Init PROVE SlotBound
    OBVIOUS
  <2>1. Pending = {} /\ Recorded = {}
    BY DEF Init, Pending, Recorded
  <2> QED BY <2>1, FS_EmptySet, LauncherAssumption DEF SlotBound
<1>2. LauncherInv /\ SlotBound /\ [Next]_vars => SlotBound'
  <2> SUFFICES ASSUME LauncherInv, SlotBound, [Next]_vars
               PROVE  Cardinality(Recorded') + Cardinality(Pending')
                        <= MaxConcurrent - 1 + MaxPending
    BY DEF SlotBound
  <2> DEFINE P == Cardinality(Pending)  R == Cardinality(Recorded)
  <2>1. /\ P \in Nat /\ R \in Nat
        /\ MaxConcurrent \in Nat /\ MaxPending \in Nat
        /\ R + P <= MaxConcurrent - 1 + MaxPending
    BY FiniteSets, LauncherAssumption DEF SlotBound
  <2>2. ASSUME NEW r
        PROVE  /\ r \notin Pending => Cardinality(Pending \cup {r}) = P + 1
               /\ r \in Pending => Cardinality(Pending \ {r}) = P - 1
    BY FiniteSets, CountOne
  <2>3. ASSUME NEW w
        PROVE  /\ Cardinality(Recorded \cup {w}) \in {R, R + 1}
               /\ w \in Recorded => Cardinality(Recorded \ {w}) = R - 1
    BY FiniteSets, FS_AddElement, FS_RemoveElement
  <2>4. ~AtLimit => R <= MaxConcurrent - 1
    BY <2>1 DEF AtLimit
  <2>5. Cardinality({}) = 0
    BY FS_EmptySet
  <2>6. CASE Pending' = Pending /\ (Recorded' = Recorded \/ Recorded' = {})
    BY <2>1, <2>5, <2>6
  <2>7. CASE \E r \in Starts \ Pending :
               /\ Pending' = Pending \cup {r} /\ Recorded' = Recorded
               /\ ~AtLimit /\ P < MaxPending
    BY <2>1, <2>2, <2>4, <2>7
  <2>8. CASE \E r \in Pending : Pending' = Pending \ {r} /\ Recorded' = Recorded
    BY <2>1, <2>2, <2>8
  <2>9. CASE \E r \in Pending, w \in Workspaces :
               Pending' = Pending \ {r} /\ Recorded' = Recorded \cup {w}
    <3>1. PICK r \in Pending, w \in Workspaces :
                 Pending' = Pending \ {r} /\ Recorded' = Recorded \cup {w}
      BY <2>9
    <3>2. Cardinality(Pending') = P - 1 /\ Cardinality(Recorded') \in {R, R + 1}
      BY <3>1, <2>2, <2>3
    <3> HIDE DEF P, R
    <3> QED BY <2>1, <3>2
  <2>10. CASE \E w \in Recorded :
                Pending' = Pending /\ Recorded' = Recorded \ {w}
    BY <2>1, <2>3, <2>10
  <2> QED BY <2>6, <2>7, <2>8, <2>9, <2>10, SlotStep
<1> QED BY <1>1, <1>2, LauncherInvariant, PTL DEF Spec

\* Callers that wait for each answer never get more than the limit.
THEOREM SerialLimit ==
  ASSUME MaxPending = 1
  PROVE  Spec => []ConcurrencyLimit
<1>1. SlotBound => ConcurrencyLimit
  BY FiniteSets, LauncherAssumption DEF SlotBound, ConcurrencyLimit
<1> QED BY <1>1, SlotsBounded, PTL

-----------------------------------------------------------------------------
\* A destroyed manager launches nothing and answers no call with success.
THEOREM DestroyedLaunchesNothing == Spec => NoLaunchAfterDestruction
<1> DEFINE A == ~alive =>
                  /\ \A r \in Starts : proc[r] = "none" => proc'[r] = "none"
                  /\ \A r \in Starts : answer'[r] = "ok" => answer[r] = "ok"
<1>1. LauncherInv /\ [Next]_vars => [A]_vars
  <2> SUFFICES ASSUME LauncherInv, Next, ~alive
               PROVE  /\ \A r \in Starts : proc[r] = "none" => proc'[r] = "none"
                      /\ \A r \in Starts : answer'[r] = "ok" => answer[r] = "ok"
    OBVIOUS
  <2> USE DEF LauncherInv, TypeOK, managerVars, watchdogVars, requestVars,
              childVars, diskVars
  <2>1. ASSUME NEW r \in Starts, StartAborted(r)
        PROVE  proc' = proc /\ answer' = [answer EXCEPT ![r] = "error"]
    BY <2>1 DEF StartAborted, AnswerReply
  <2>2. ASSUME NEW r \in Starts, PrepareDir(r) \/ ChildBinds(r)
        PROVE  UNCHANGED <<proc, answer>>
    BY <2>2 DEF PrepareDir, ChildBinds
  <2>3. ASSUME NEW r \in Starts, ChildExits(r)
        PROVE  /\ answer' = answer
               /\ proc[r] # "none" /\ proc' = [proc EXCEPT ![r] = "exited"]
    BY <2>3 DEF ChildExits, Live
  <2>4. ASSUME OnPoll \/ \E w \in Workspaces : RunDeletion(w)
        PROVE  UNCHANGED <<proc, answer>>
    BY <2>4 DEF OnPoll, RunDeletion
  <2>5. ~DestroyManager /\ (\A w \in Workspaces : ~Stop(w))
    BY DEF DestroyManager, Stop
  <2>6. \A r \in Starts :
          /\ ~LaunchFails(r) /\ ~ContinueStart(r)
          /\ \A w \in Workspaces : ~Start(r, w)
    BY DEF LaunchFails, ContinueStart, ReplyFindsManager, Start
  <2> QED BY <2>1, <2>2, <2>3, <2>4, <2>5, <2>6 DEF Next
<1> QED
  BY <1>1, LauncherInvariant, PTL DEF Spec, NoLaunchAfterDestruction

-----------------------------------------------------------------------------
\* With one call of Start outstanding at a time, the start under way is alone
\* and its workspace is not running, so overwriting the record orphans nobody.
LEMMA SerialStep ==
  ASSUME MaxPending = 1, LauncherInv, SerialInv, [Next]_vars
  PROVE  SerialInv'
<1> USE DEF managerVars, watchdogVars, requestVars, childVars, diskVars
<1> DEFINE Fresh == \A r \in Pending : status[target[r]] # "running"
<1>0. /\ Cardinality(Pending) <= 1 /\ Fresh /\ NoOrphanProcess
      /\ TypeOK /\ RecordStatus /\ StartProgress /\ CrashIsReal
      /\ IsFiniteSet(Pending) /\ Cardinality(Pending) \in Nat
  BY FiniteSets DEF SerialInv, LauncherInv
<1>1. ASSUME NEW r \in Pending
      PROVE  Pending = {r}
  <2>1. Cardinality(Pending \ {r}) = 0 /\ IsFiniteSet(Pending \ {r})
    BY <1>0, <1>1, CountOne
  <2> QED BY <2>1, FS_EmptySet
<1>2. Cardinality(Pending') <= 1
  <2>1. CASE Pending' = Pending
    BY <1>0, <2>1
  <2>2. CASE \E r \in Pending : Pending' = Pending \ {r}
    BY <1>0, <2>2, CountOne
  <2>3. CASE \E r \in Starts \ Pending :
               Pending' = Pending \cup {r} /\ Cardinality(Pending) < MaxPending
    <3>1. PICK r \in Starts \ Pending :
                 Pending' = Pending \cup {r} /\ Cardinality(Pending) < MaxPending
      BY <2>3
    <3>2. Cardinality(Pending') = Cardinality(Pending) + 1
      BY <1>0, <3>1, CountOne
    <3> QED BY <1>0, <3>1, <3>2
  <2> QED BY <2>1, <2>2, <2>3, SlotStep
<1>3. Fresh' /\ NoOrphanProcess'
  <2> USE <1>0 DEF TypeOK, NoOrphanProcess
  <2>1. ASSUME NEW r \in Starts, NEW w \in Workspaces, Start(r, w)
        PROVE  Fresh' /\ NoOrphanProcess'
    <3>1. phase[r] = "unused" /\ proc[r] = "none"
      BY <2>1 DEF Start, StartProgress
    <3>2. ASSUME NEW result, AnswerAtOnce(r, w, result)
          PROVE  Fresh' /\ NoOrphanProcess'
      BY <3>1, <3>2 DEF AnswerAtOnce, Pending
    <3>3. ASSUME NEW p, PostPreparation(r, w, p), status[w] # "running"
          PROVE  Fresh' /\ NoOrphanProcess'
      BY <3>1, <3>3 DEF PostPreparation, Pending
    <3> QED BY <2>1, <3>2, <3>3 DEF Start, IsRunning
  <2>2. ASSUME NEW r \in Starts,
               PrepareDir(r) \/ StartAborted(r) \/ LaunchFails(r)
        PROVE  Fresh' /\ NoOrphanProcess'
    <3>1. /\ UNCHANGED <<target, status, record, proc>>
          /\ Pending' \subseteq Pending
      BY <2>2 DEF PrepareDir, StartAborted, LaunchFails, AnswerReply, Pending
    <3> QED BY <3>1
  <2>3. ASSUME NEW r \in Starts, ContinueStart(r)
        PROVE  Fresh' /\ NoOrphanProcess'
    <3> DEFINE w == target[r]
    <3>1. /\ r \in Pending /\ w \in Workspaces /\ target' = target
          /\ proc' = [proc EXCEPT ![r] = "running"]
          /\ record' = [record EXCEPT ![w] = r]
          /\ phase' = [phase EXCEPT ![r] = "done"]
      BY <2>3 DEF ContinueStart, AnswerReply, Pending, StartProgress
    <3>2. Pending' = {}
      BY <3>1, <1>1 DEF Pending
    <3>3. status[w] # "running"
      BY <3>1
    <3>4. ASSUME NEW q \in Starts, proc[q] = "running"
          PROVE  target[q] # w /\ target[q] \in Workspaces
      <4>1. record[target[q]] = q /\ target[q] \in Workspaces
        BY <3>4 DEF StartProgress
      <4>2. status[target[q]] = "running"
        BY <3>4, <4>1 DEF RecordStatus, CrashIsReal
      <4> QED BY <3>3, <4>1, <4>2
    <3>5. NoOrphanProcess'
      BY <3>1, <3>4
    <3> QED BY <3>2, <3>5
  <2>4. ASSUME NEW w \in Workspaces, Stop(w)
        PROVE  Fresh' /\ NoOrphanProcess'
    <3>1. /\ UNCHANGED <<phase, target>>
          /\ status' = [status EXCEPT ![w] = "stopped"]
          /\ record' = [record EXCEPT ![w] = NoProc]
          /\ Terminate({w})
      BY <2>4 DEF Stop
    <3>2. \A q \in Starts :
            proc'[q] = "running" => proc[q] = "running" /\ record[w] # q
      BY <3>1 DEF Terminate
    <3>3. \A q \in Starts : proc[q] = "running" => target[q] \in Workspaces
      BY DEF StartProgress
    <3>4. NoOrphanProcess'
      BY <3>1, <3>2, <3>3
    <3>5. Fresh'
      BY <3>1 DEF Pending, StartProgress
    <3> QED BY <3>4, <3>5
  <2>5. ASSUME DestroyManager
        PROVE  Fresh' /\ NoOrphanProcess'
    <3>1. /\ UNCHANGED <<phase, target>>
          /\ status' = [w \in Workspaces |-> "stopped"]
          /\ Terminate(Recorded)
      BY <2>5 DEF DestroyManager
    <3>2. \A q \in Starts : proc'[q] # "running"
      <4>1. ASSUME NEW q \in Starts, proc[q] = "running"
            PROVE  \E w \in Recorded : record[w] = q
        <5>1. target[q] \in Workspaces
          BY <4>1 DEF StartProgress
        <5>2. record[target[q]] = q
          BY <4>1
        <5>3. q # NoProc
          BY DEF Starts, NoProc
        <5>4. target[q] \in Recorded
          BY <5>1, <5>2, <5>3 DEF Recorded
        <5> QED BY <5>2, <5>4
      <4>2. ASSUME NEW q \in Starts
            PROVE  proc'[q] = IF proc[q] = "running" /\ \E w \in Recorded : record[w] = q
                              THEN "signalled" ELSE proc[q]
        BY <3>1, Zenon DEF Terminate
      <4>3. ASSUME NEW q \in Starts
            PROVE  proc'[q] # "running"
        <5>1. CASE proc[q] = "running"
          BY <4>1, <4>2, <5>1
        <5>2. CASE proc[q] # "running"
          BY <4>2, <5>2
        <5> QED BY <5>1, <5>2
      <4> QED BY <4>3
    <3>3. Fresh'
      BY <3>1 DEF Pending, StartProgress
    <3> QED BY <3>2, <3>3
  <2>6. ASSUME OnPoll
        PROVE  Fresh' /\ NoOrphanProcess'
    <3>1. /\ UNCHANGED <<phase, target, record, proc>>
          /\ \A w \in Workspaces : status'[w] = "running" => status[w] = "running"
      BY <2>6 DEF OnPoll
    <3>2. Fresh'
      BY <3>1 DEF Pending, StartProgress
    <3> QED BY <3>1, <3>2
  <2>7. ASSUME NEW r \in Starts, ChildExits(r)
        PROVE  Fresh' /\ NoOrphanProcess'
    <3>1. /\ UNCHANGED <<phase, target, record, status>>
          /\ proc' = [proc EXCEPT ![r] = "exited"]
      BY <2>7 DEF ChildExits
    <3> QED BY <3>1 DEF Pending
  <2>8. ASSUME UNCHANGED <<phase, target, record, status, proc>>
        PROVE  Fresh' /\ NoOrphanProcess'
    BY <2>8 DEF Pending
  <2>9. ASSUME \/ UNCHANGED vars
               \/ \E w \in Workspaces : RunDeletion(w)
               \/ \E r \in Starts : ChildBinds(r)
        PROVE  UNCHANGED <<phase, target, record, status, proc>>
    BY <2>9 DEF vars, RunDeletion, ChildBinds
  <2> QED
    BY <2>1, <2>2, <2>3, <2>4, <2>5, <2>6, <2>7, <2>8, <2>9 DEF Next
<1> QED BY <1>2, <1>3 DEF SerialInv

\* Callers that wait for each answer never orphan a child: every child not yet
\* asked to stop is recorded, watched and within reach of Stop and StopAll.
THEOREM SerialNoOrphan ==
  ASSUME MaxPending = 1
  PROVE  Spec => []NoOrphanProcess
<1>1. Init => SerialInv
  <2> SUFFICES ASSUME Init PROVE SerialInv
    OBVIOUS
  <2>1. Pending = {} /\ \A r \in Starts : proc[r] = "none"
    BY DEF Init, Pending
  <2> QED BY <2>1, FS_EmptySet DEF SerialInv, NoOrphanProcess
<1>2. LauncherInv /\ SerialInv /\ [Next]_vars => SerialInv'
  BY SerialStep
<1>3. SerialInv => NoOrphanProcess
  BY DEF SerialInv
<1> QED BY <1>1, <1>2, <1>3, LauncherInvariant, PTL DEF Spec

-----------------------------------------------------------------------------
\* Every step of the launcher is a step of the abstract lifecycle or leaves the
\* statuses alone.
THEOREM LauncherImplementsLifecycle == Spec => ImplementsLifecycle
<1>1. Init => Lifecycle!Init
  BY DEF Init, Lifecycle!Init
<1>2. LauncherInv /\ [Next]_vars => [Lifecycle!Next]_(Lifecycle!lifecycleVars)
  <2> SUFFICES ASSUME LauncherInv, [Next]_vars
               PROVE  Lifecycle!Next \/ UNCHANGED <<status, alive>>
    BY DEF Lifecycle!lifecycleVars
  <2> USE DEF LauncherInv, TypeOK, managerVars, watchdogVars, requestVars,
              childVars, diskVars
  <2>1. ASSUME NEW r \in Starts, ContinueStart(r)
        PROVE  Lifecycle!Next \/ UNCHANGED <<status, alive>>
    <3>1. /\ target[r] \in Workspaces /\ alive /\ alive' = alive
          /\ status' = [status EXCEPT ![target[r]] = "running"]
      BY <2>1 DEF ContinueStart, ReplyFindsManager, StartProgress
    <3>2. CASE status[target[r]] = "running"
      BY <3>1, <3>2
    <3>3. CASE status[target[r]] \in {"stopped", "crashed"}
      <4>1. Lifecycle!Launch(target[r])
        BY <3>1, <3>3 DEF Lifecycle!Launch
      <4> QED BY <3>1, <4>1 DEF Lifecycle!Next
    <3> QED BY <3>1, <3>2, <3>3
  <2>2. ASSUME NEW w \in Workspaces, Stop(w)
        PROVE  Lifecycle!Next
    <3>1. Lifecycle!Stop({w})
      BY <2>2 DEF Stop, Lifecycle!Stop
    <3>2. {w} \in SUBSET Workspaces
      OBVIOUS
    <3> QED BY <3>1, <3>2 DEF Lifecycle!Next
  <2>3. ASSUME DestroyManager
        PROVE  Lifecycle!Next
    BY <2>3 DEF DestroyManager, Lifecycle!Next, Lifecycle!Close
  <2>4. ASSUME OnPoll
        PROVE  Lifecycle!Next
    <3> DEFINE gone == {w \in watched \cap Recorded : HasExited(w)}
    <3>1. /\ alive' = alive
          /\ status' = [w \in Workspaces |->
                          IF w \in gone THEN "crashed" ELSE status[w]]
      BY <2>4 DEF OnPoll
    <3>2. gone \in SUBSET Workspaces /\ \A w \in gone : status[w] = "running"
      BY DEF WatchCoverage
    <3>3. alive
      <4>1. watched # {}
        BY <2>4 DEF OnPoll, WatchCoverage
      <4> QED BY <4>1 DEF WatchCoverage, RecordStatus
    <3>4. Lifecycle!Crash(gone)
      BY <3>1, <3>2, <3>3 DEF Lifecycle!Crash
    <3> QED BY <3>2, <3>4 DEF Lifecycle!Next
  <2>5. ASSUME NEW r \in Starts, NEW w \in Workspaces, Start(r, w)
        PROVE  UNCHANGED <<status, alive>>
    BY <2>5 DEF Start, AnswerAtOnce, PostPreparation
  <2>6. ASSUME NEW r \in Starts,
               \/ PrepareDir(r) \/ StartAborted(r) \/ LaunchFails(r)
               \/ ChildBinds(r) \/ ChildExits(r)
        PROVE  UNCHANGED <<status, alive>>
    BY <2>6 DEF PrepareDir, StartAborted, LaunchFails, ChildBinds, ChildExits
  <2>7. ASSUME UNCHANGED vars \/ \E w \in Workspaces : RunDeletion(w)
        PROVE  UNCHANGED <<status, alive>>
    BY <2>7 DEF RunDeletion, vars
  <2> QED BY <2>1, <2>2, <2>3, <2>4, <2>5, <2>6, <2>7 DEF Next
<1> QED
  BY <1>1, <1>2, LauncherInvariant, PTL
     DEF Spec, ImplementsLifecycle, Lifecycle!Spec

=============================================================================
