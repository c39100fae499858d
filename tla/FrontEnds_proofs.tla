-------------------------- MODULE FrontEnds_proofs --------------------------
(***************************************************************************)
(* Proofs about FrontEnds, for any number of workspaces, of connections    *)
(* and of kinds of requests.                                               *)
(*                                                                         *)
(* Next has some fifty actions, but each of them does one of a few things  *)
(* to the store, to the manager, to what is under way for a request and to *)
(* what the views show.  NextEffects says so; the parts of the invariant   *)
(* are proved from these effects.                                          *)
(***************************************************************************)
EXTENDS FrontEnds, FiniteSetTheorems, TLAPS

-----------------------------------------------------------------------------
(***************************************************************************)
(* The inductive invariant.                                                *)
(***************************************************************************)

\* Either nothing is under way for a request, or one step and no response yet.
OneStep(r) ==
  \/ work[r] = {} /\ answers[r] <= 1
  \/ answers[r] = 0 /\ \E s \in Steps : work[r] = {s}

\* A Start that is still pending is wanted.
StartsWanted == Starting \subseteq wanted

\* GenerateId gives out no id twice, and the entries of a file not loaded yet
\* are neither in memory nor deleted.
Ledger ==
  /\ file \subseteq used
  /\ deleted \subseteq used
  /\ \A i \in Ids : store[i] # 0 => i \in used
  /\ ~loaded => \A i \in file : store[i] = 0 /\ i \notin deleted

\* Cards are built from the store as it is.
CardsLoaded == cardsLoaded => loaded

\* The phases in which the manager exists.
WithProfile == {"starting", "profile", "loop", "leaving"}

\* The manager is there until the profiles are destroyed, and leaves nothing
\* running.
ManagerThere ==
  /\ phase \in WithProfile => open
  /\ ~open => \A w \in Ids : status[w] = "stopped"

\* A page knows nothing until its handler allows JavaScript, and there is one
\* only while the main loop runs.
PageKnows ==
  /\ page # "live" => shown = Unknown
  /\ phase \notin {"loop", "crashed"} => page = "closed"

FrontEndsInv ==
  /\ TypeOK
  /\ \A r \in Reqs : OneStep(r)
  /\ StopSticks /\ StartsWanted
  /\ NoResurrection /\ Ledger
  /\ PanelFresh /\ CardsLoaded
  /\ PageFresh /\ PageKnows
  /\ ManagerThere

-----------------------------------------------------------------------------
(***************************************************************************)
(* What steps do.                                                          *)
(***************************************************************************)

StoreEffect ==
  \/ UNCHANGED storeVars
  \/ OnInitData
  \/ \E S \in SUBSET Ids : CreateAll(S)
  \/ \E i \in Ids : UpdateWorkspace(i)
  \/ \E S \in SUBSET Ids : DeleteAll(S)

ManagerEffect ==
  \/ UNCHANGED managerVars
  \/ \E c \in Callers, w \in Ids : StartProceeds(c, w)
  \/ \E S \in SUBSET Ids : StopAll(S)
  \/ \E s \in starts, ok \in BOOLEAN : StartEnds(s, ok)
  \/ \E S \in SUBSET Ids : Manager!Crash(S) /\ UNCHANGED <<starts, wanted>>
  \/ PostMainMessageLoopRun
  \/ ClosePage

ApiEffect ==
  \/ UNCHANGED apiVars
  \/ \E r \in Reqs, q \in Requests : OnHttpRequest(r, q)
  \/ \E r \in Reqs, s \in Steps, t \in Steps : Run(r, s, {t})
  \/ \E r \in Reqs, s \in Steps : AnswerStep(r, s)

\* The panel is toggled, or hears of the change of the store, if there is one.
PanelEffect ==
  \/ UNCHANGED <<store, loaded, panelOpen, cards, cardsLoaded>>
  \/ UNCHANGED panelOpen /\ OnWorkspacesChanged
  \/ ToggleSidePanel

\* The page hears of a change of status, sends a message, comes or goes.
PageEffect ==
  \/ page' = page /\ phase' \in {phase, "crashed"} /\ OnWorkspaceStatusChanged
  \/ UNCHANGED <<page, shown, phase, status>>
  \/ /\ UNCHANGED <<page, shown, status>>
     /\ phase' \in WithProfile => phase \in WithProfile
     /\ phase' = "loop" \/ phase \notin {"loop", "crashed"} \/ page = "closed"
  \/ UNCHANGED <<page, shown>> /\ PostMainMessageLoopRun
  \/ /\ UNCHANGED <<phase, status>> /\ shown' = Unknown
     /\ page' = "closed" \/ (page' = "loaded" /\ phase = "loop")
  \/ /\ Message
     /\ \/ UNCHANGED <<status, shown>>
        \/ PageHears
        \/ \E w \in Ids : shown' = [shown EXCEPT ![w] = status[w]] /\ UNCHANGED status

Effects == StoreEffect /\ ManagerEffect /\ ApiEffect /\ PanelEffect /\ PageEffect

\* The store's calls have one of the store's effects.
LEMMA StoreCalls ==
  /\ CreateWorkspace => StoreEffect
  /\ \A i : UpdateWorkspace(i) => StoreEffect
  /\ \A i : DeleteWorkspace(i) => StoreEffect
<1>1. CreateWorkspace => StoreEffect
  <2>1. ASSUME NEW i \in Ids \ used, CreateAll({i}) PROVE StoreEffect
    <3>1. {i} \in SUBSET Ids
      OBVIOUS
    <3> QED
      BY <2>1, <3>1 DEF StoreEffect
  <2> QED
    BY <2>1 DEF CreateWorkspace, StoreEffect
<1>2. \A i : UpdateWorkspace(i) => StoreEffect
  BY DEF UpdateWorkspace, GetWorkspace, StoreEffect, storeVars
<1>3. \A i : DeleteWorkspace(i) => StoreEffect
  BY DEF DeleteWorkspace, StoreEffect
<1> QED
  BY <1>1, <1>2, <1>3

\* The manager's calls have one of the manager's effects.
LEMMA ManagerCalls ==
  /\ \A w : StartAnswersOk(w) => ManagerEffect
  /\ \A w : StartRefuses(w) => ManagerEffect
  /\ \A c \in Callers, w \in Ids : StartProceeds(c, w) => ManagerEffect
  /\ \A w : Stop(w) => ManagerEffect
  /\ \A s \in starts, ok \in BOOLEAN : StartEnds(s, ok) => ManagerEffect
<1>1. \A w : Stop(w) => ManagerEffect
  BY DEF Stop, ManagerEffect
<1> QED
  BY <1>1 DEF StartAnswersOk, StartRefuses, ManagerEffect

\* The task of a handler on the UI thread has the effects of the calls it makes,
\* and posts exactly one step: its answer, a retry, or the wait for Start.
LEMMA UiEffects ==
  ASSUME NEW r \in Reqs, UiStep(r)
  PROVE  /\ StoreEffect /\ ManagerEffect
         /\ \E s \in Steps, t \in Steps : Run(r, s, {t})
         /\ UNCHANGED phase
<1> USE DEF UiTask, FoundOr, processVars, serviceVars, Steps
<1>a. UNCHANGED storeVars => StoreEffect
  BY DEF StoreEffect
<1>b. UNCHANGED managerVars => ManagerEffect
  BY DEF ManagerEffect
<1>1. CASE HandleGetAllWorkspaces(r)
  BY <1>1, <1>a, <1>b DEF HandleGetAllWorkspaces
<1>2. CASE HandleCreateWorkspace(r)
  BY <1>2, <1>b, StoreCalls DEF HandleCreateWorkspace
<1>3. CASE HandleGetWorkspace(r)
  BY <1>3, <1>a, <1>b DEF HandleGetWorkspace
<1>4. CASE HandleUpdateWorkspace(r)
  BY <1>4, <1>b, StoreCalls DEF HandleUpdateWorkspace
<1>5. CASE HandleDeleteWorkspace(r)
  BY <1>5, <1>b, StoreCalls DEF HandleDeleteWorkspace
<1>6. CASE HandleLaunchWorkspace(r)
  <2>1. GetWorkspace(WsId(r)) => WsId(r) \in Ids /\ r \in Callers
    BY DEF GetWorkspace, Callers
  <2> QED
    BY <1>6, <2>1, <1>a, <1>b, ManagerCalls DEF HandleLaunchWorkspace, LaunchNotFound
<1>7. CASE HandleStopWorkspace(r)
  BY <1>7, <1>a, ManagerCalls DEF HandleStopWorkspace
<1>8. CASE HandleGetWorkspaceStatus(r)
  BY <1>8, <1>a, <1>b DEF HandleGetWorkspaceStatus
<1>9. CASE HandleSystemStatus(r)
  BY <1>9, <1>a, <1>b DEF HandleSystemStatus
<1>10. CASE HandleImportWorkspaces(r)
  <2>1. StoreEffect
    BY <1>10 DEF HandleImportWorkspaces, StoreEffect
  <2> QED
    BY <1>10, <2>1, <1>b DEF HandleImportWorkspaces
<1>11. CASE HandleCDPRequest(r)
  BY <1>11, <1>a, <1>b DEF HandleCDPRequest, CdpSteps
<1>12. CASE SecondLook(r)
  BY <1>12, <1>a, <1>b DEF SecondLook
<1> QED
  BY <1>1, <1>2, <1>3, <1>4, <1>5, <1>6, <1>7, <1>8, <1>9, <1>10, <1>11, <1>12
     DEF UiStep

\* A step of the page or of the side panel has the effects of the calls it
\* makes, and the panel hears of them.
LEMMA ViewEffects ==
  ASSUME ViewStep
  PROVE  StoreEffect /\ ManagerEffect /\ PanelEffect /\ PageEffect
<1>a. UNCHANGED storeVars => StoreEffect
  BY DEF StoreEffect
<1>b. UNCHANGED managerVars => ManagerEffect
  BY DEF ManagerEffect
<1>c. OnWorkspacesChanged /\ UNCHANGED panelOpen => PanelEffect
  BY DEF PanelEffect
<1>d. UNCHANGED storeVars /\ UNCHANGED <<panelOpen, cards, cardsLoaded>> => PanelEffect
  BY DEF PanelEffect, storeVars
<1>e. Message /\ (UNCHANGED <<status, shown>> \/ PageHears) => PageEffect
  BY DEF PageEffect
<1>f. UNCHANGED <<page, shown, phase, status>> => PageEffect
  BY DEF PageEffect
<1>1. CASE LoadPage
  <2>1. PageEffect
    BY <1>1 DEF LoadPage, PageEffect, serviceVars, processVars, managerVars
  <2> QED
    BY <1>1, <2>1, <1>a, <1>b, <1>d DEF LoadPage, serviceVars
<1>2. CASE ClosePage
  <2>1. PageEffect
    BY <1>2 DEF ClosePage, PageEffect, processVars
  <2>2. ManagerEffect
    BY <1>2 DEF ManagerEffect
  <2> QED
    BY <1>2, <2>1, <2>2, <1>a, <1>d DEF ClosePage
<1>3. CASE PageReads
  BY <1>3, <1>a, <1>b, <1>d, <1>e DEF PageReads, Message, managerVars
<1>4. CASE \E w \in Ids : PageGetWorkspaceStatus(w)
  <2>1. PageEffect
    BY <1>4 DEF PageGetWorkspaceStatus, PageEffect, managerVars
  <2> QED
    BY <1>4, <2>1, <1>a, <1>b, <1>d DEF PageGetWorkspaceStatus, Message
<1>5. CASE PageCreateWorkspace
  BY <1>5, <1>b, <1>c, <1>e, StoreCalls DEF PageCreateWorkspace, Message, managerVars
<1>6. CASE \E w \in Ids : PageUpdateWorkspace(w)
  BY <1>6, <1>b, <1>c, <1>e, StoreCalls DEF PageUpdateWorkspace, Message, managerVars
<1>7. CASE \E S \in SUBSET Ids : PageBatchDeleteWorkspaces(S)
  <2>1. StoreEffect
    BY <1>7 DEF PageBatchDeleteWorkspaces, StoreEffect
  <2> QED
    BY <1>7, <2>1, <1>b, <1>c, <1>e DEF PageBatchDeleteWorkspaces, Message, managerVars
<1>8. CASE \E w \in Ids : PageDeleteWorkspace(w)
  <2>1. \A w \in Ids : {w} \in SUBSET Ids
    OBVIOUS
  <2> QED
    BY <1>7, <1>8, <2>1 DEF PageDeleteWorkspace
<1>9. CASE \E S \in SUBSET Ids : PageBatchStopWorkspaces(S)
  <2>1. ManagerEffect
    BY <1>9 DEF PageBatchStopWorkspaces, ManagerEffect
  <2> QED
    BY <1>9, <2>1, <1>a, <1>d, <1>e DEF PageBatchStopWorkspaces, Message
<1>10. CASE \E w \in Ids : PageStopWorkspace(w)
  <2>1. \A w \in Ids : {w} \in SUBSET Ids
    OBVIOUS
  <2> QED
    BY <1>9, <1>10, <2>1 DEF PageStopWorkspace
<1>11. CASE \E w \in Ids : PageLaunchWorkspace(w)
  <2>1. PICK w \in Ids : PageLaunchWorkspace(w)
    BY <1>11
  <2>2. ManagerEffect
    BY <2>1, <1>b, ManagerCalls DEF PageLaunchWorkspace, Callers
  <2>3. UNCHANGED <<status, shown>>
    BY <2>1 DEF PageLaunchWorkspace, StartAnswersOk, StartRefuses, StartProceeds,
       managerVars
  <2> QED
    BY <2>1, <2>2, <2>3, <1>a, <1>d, <1>e DEF PageLaunchWorkspace, Message
<1>12. CASE \E s \in starts, ok \in BOOLEAN : OnPageStarted(s, ok)
  <2>1. ManagerEffect
    BY <1>12, ManagerCalls DEF OnPageStarted
  <2>2. PageEffect
    BY <1>12 DEF OnPageStarted, ViewsNotified, PageEffect
  <2> QED
    BY <1>12, <2>1, <2>2, <1>a, <1>c DEF OnPageStarted, ViewsNotified
<1>13. CASE ToggleSidePanel
  <2>1. PanelEffect
    BY <1>13 DEF PanelEffect
  <2> QED
    BY <1>13, <2>1, <1>a, <1>b, <1>f DEF ToggleSidePanel, serviceVars, processVars,
       managerVars
<1>14. CASE \E d : OpenDialog(d)
  BY <1>14, <1>a, <1>b, <1>d, <1>f DEF OpenDialog, serviceVars, processVars, managerVars
<1>15. CASE CloseDialog
  <2>1. StoreEffect
    BY <1>15, <1>a, StoreCalls DEF CloseDialog
  <2> QED
    BY <1>15, <2>1, <1>b, <1>c, <1>f DEF CloseDialog, processVars, managerVars
<1> QED
  BY <1>1, <1>2, <1>3, <1>4, <1>5, <1>6, <1>7, <1>8, <1>9, <1>10, <1>11, <1>12, <1>13,
     <1>14, <1>15
     DEF ViewStep, PageGetAllWorkspaces, PageSearchWorkspaces,
         PageBatchLaunchWorkspaces, PageGetAllTags, PageProxyTest, PageGetTemplates,
         PageSaveTemplate, PageDeleteTemplate, PageGetDashboardStats,
         OnCreateWorkspaceClicked, OnRenameWorkspace, OnDeleteWorkspace

\* Every step of the front ends has one of the effects of each kind.
LEMMA NextEffects ==
  ASSUME [Next]_vars
  PROVE  Effects
<1>a. UNCHANGED storeVars => StoreEffect
  BY DEF StoreEffect
<1>b. UNCHANGED managerVars => ManagerEffect
  BY DEF ManagerEffect
<1>c. UNCHANGED apiVars => ApiEffect
  BY DEF ApiEffect
<1>d. ViewsNotified => PanelEffect
  BY DEF ViewsNotified, PanelEffect
<1>e. ViewsNotified /\ UNCHANGED phase => PageEffect
  BY DEF ViewsNotified, PageEffect
<1>f. UNCHANGED <<storeVars, viewVars>> => PanelEffect
  BY DEF PanelEffect, storeVars, viewVars
<1>g. UNCHANGED <<serviceVars, viewVars>> => PageEffect
  BY DEF PageEffect, serviceVars, processVars, managerVars, viewVars
<1>1. CASE ProcessStep
  <2>1. StoreEffect /\ PanelEffect /\ ApiEffect
    BY <1>1, <1>a, <1>c, <1>f DEF ProcessStep, LeaveEarly, CreateInitialProfile,
       ShowProfilePicker, CallPostProfileInit, RunMainMessageLoop, QuitMainMessageLoop,
       PostMainMessageLoopRun, PostDestroyThreads
  <2>2. ManagerEffect
    <3>1. CASE UNCHANGED managerVars
      BY <3>1, <1>b
    <3>2. CASE PostMainMessageLoopRun
      BY <3>2 DEF PostMainMessageLoopRun, ManagerEffect
    <3> QED
      BY <1>1, <3>1, <3>2 DEF ProcessStep, LeaveEarly, CreateInitialProfile,
         ShowProfilePicker, CallPostProfileInit, RunMainMessageLoop,
         QuitMainMessageLoop, PostDestroyThreads
  <2>3. UNCHANGED <<page, shown>>
    BY <1>1 DEF ProcessStep, viewVars
  <2>4. PageEffect
    <3>1. CASE PostMainMessageLoopRun
      BY <2>3, <3>1 DEF PageEffect
    <3>2. CASE CallPostProfileInit
      BY <2>3, <3>2 DEF PageEffect, CallPostProfileInit, managerVars
    <3>3. CASE RunMainMessageLoop
      BY <2>3, <3>3 DEF WithProfile, PageEffect, RunMainMessageLoop, managerVars
    <3>4. CASE QuitMainMessageLoop /\ WindowsClosed
      BY <2>3, <3>4 DEF WithProfile, PageEffect, QuitMainMessageLoop, WindowsClosed, managerVars
    <3>5. CASE LeaveEarly \/ CreateInitialProfile \/ ShowProfilePicker
      BY <2>3, <3>5 DEF WithProfile, PageEffect, LeaveEarly, CreateInitialProfile, ShowProfilePicker,
         managerVars
    <3>6. CASE PostDestroyThreads
      BY <2>3, <3>6 DEF WithProfile, PageEffect, PostDestroyThreads, managerVars
    <3> QED
      BY <1>1, <3>1, <3>2, <3>3, <3>4, <3>5, <3>6 DEF ProcessStep
  <2> QED
    BY <2>1, <2>2, <2>4 DEF Effects
<1>2. CASE ServiceStep
  <2>1. UNCHANGED phase
    BY <1>2 DEF ServiceStep, OnInitData, OnPoll, processVars
  <2>2. PanelEffect /\ PageEffect /\ ApiEffect
    BY <1>2, <2>1, <1>c, <1>d, <1>e DEF ServiceStep
  <2>3. CASE OnInitData
    <3>1. StoreEffect
      BY <2>3 DEF StoreEffect
    <3>2. ManagerEffect
      BY <2>3, <1>b DEF OnInitData
    <3> QED
      BY <2>2, <3>1, <3>2 DEF Effects
  <2>4. CASE \E S \in SUBSET Ids : OnPoll(S)
    <3>1. ManagerEffect
      BY <2>4 DEF OnPoll, ManagerEffect
    <3>2. StoreEffect
      BY <2>4, <1>a DEF OnPoll
    <3> QED
      BY <2>2, <3>1, <3>2 DEF Effects
  <2> QED
    BY <1>2, <2>3, <2>4 DEF ServiceStep
<1>3. CASE RequestArrives
  <2>1. UNCHANGED <<serviceVars, viewVars>>
    BY <1>3 DEF RequestArrives, OnHttpRequest
  <2>2. ApiEffect
    BY <1>3 DEF RequestArrives, ApiEffect
  <2> QED
    BY <2>1, <2>2, <1>a, <1>b, <1>f, <1>g DEF Effects, serviceVars
<1>4. CASE \E r \in Reqs : RequestUiStep(r)
  <2>1. PICK r \in Reqs : RequestUiStep(r)
    BY <1>4
  <2>2. CASE UiStep(r)
    <3>1. ApiEffect
      BY <2>2, UiEffects DEF ApiEffect
    <3> QED
      BY <2>1, <2>2, <3>1, <1>d, <1>e, UiEffects DEF RequestUiStep, Effects
  <2>3. CASE \E s \in starts, ok \in BOOLEAN : OnStarted(r, s, ok)
    <3>1. PICK s \in starts, ok \in BOOLEAN : OnStarted(r, s, ok)
      BY <2>3
    <3>2. ManagerEffect
      BY <3>1, ManagerCalls DEF OnStarted
    <3>3. "start" \in Steps /\ (IF ok THEN "200" ELSE "400") \in Steps
      BY DEF Steps
    <3>4. ApiEffect
      BY <3>1, <3>3, Zenon DEF OnStarted, ApiEffect
    <3>5. UNCHANGED phase /\ UNCHANGED storeVars
      BY <3>1 DEF OnStarted, processVars
    <3> QED
      BY <2>1, <3>2, <3>4, <3>5, <1>a, <1>d, <1>e DEF RequestUiStep, Effects
  <2> QED
    BY <2>1, <2>2, <2>3 DEF RequestUiStep
<1>5. CASE \E r \in Reqs : RequestApiStep(r)
  <2>1. PICK r \in Reqs : RequestApiStep(r)
    BY <1>5
  <2>2. UNCHANGED <<serviceVars, viewVars>>
    BY <2>1 DEF RequestApiStep, ApiStep, RetryCDPRequest, ForwardToChild, Respond,
       AnswerStep
  <2>3. CASE RetryCDPRequest(r)
    <3>1. ApiEffect
      BY <2>3 DEF RetryCDPRequest, ApiEffect, Steps
    <3> QED
      BY <2>2, <3>1, <1>a, <1>b, <1>f, <1>g DEF Effects, serviceVars
  <2>4. CASE \E s \in Steps : AnswerStep(r, s)
    <3>1. ApiEffect
      BY <2>4 DEF ApiEffect
    <3> QED
      BY <2>2, <3>1, <1>a, <1>b, <1>f, <1>g DEF Effects, serviceVars
  <2> QED
    BY <2>1, <2>3, <2>4 DEF RequestApiStep, ApiStep, ForwardToChild, Respond, Steps
<1>6. CASE ViewStep /\ UNCHANGED apiVars
  BY <1>6, <1>c, ViewEffects DEF Effects
<1>7. CASE UNCHANGED vars
  BY <1>7, <1>a, <1>b, <1>c, <1>f, <1>g DEF Effects, vars, serviceVars
<1> QED
  BY <1>1, <1>2, <1>3, <1>4, <1>5, <1>6, <1>7 DEF Next

-----------------------------------------------------------------------------
(***************************************************************************)
(* Preservation, one lemma for each part of the invariant.                 *)
(***************************************************************************)

\* The store's map, its file and the ids given out stay what they are.
LEMMA StoreTypeStep ==
  ASSUME TypeOK, StoreEffect
  PROVE  /\ store' \in [Ids -> 0 .. 2] /\ loaded' \in BOOLEAN
         /\ file' \subseteq Ids /\ used' \subseteq Ids /\ deleted' \subseteq Ids
<1>a. /\ store \in [Ids -> 0 .. 2] /\ loaded \in BOOLEAN
      /\ file \subseteq Ids /\ used \subseteq Ids /\ deleted \subseteq Ids
  BY DEF TypeOK, ServiceTypeOK
<1>1. CASE UNCHANGED storeVars
  BY <1>1, <1>a DEF storeVars
<1>2. CASE OnInitData
  BY <1>2, <1>a DEF OnInitData
<1>3. CASE \E S \in SUBSET Ids : CreateAll(S)
  BY <1>3, <1>a DEF CreateAll
<1>4. CASE \E i \in Ids : UpdateWorkspace(i)
  BY <1>4, <1>a DEF UpdateWorkspace, Edit
<1>5. CASE \E S \in SUBSET Ids : DeleteAll(S)
  BY <1>5, <1>a DEF DeleteAll
<1> QED
  BY <1>1, <1>2, <1>3, <1>4, <1>5 DEF StoreEffect

\* Statuses and pending Starts stay what they are.
LEMMA ManagerTypeStep ==
  ASSUME TypeOK, ManagerEffect
  PROVE  /\ status' \in [Ids -> {"stopped", "running", "crashed"}] /\ open' \in BOOLEAN
         /\ starts' \subseteq [by : Callers, ws : Ids] /\ wanted' \subseteq Ids
<1>a. /\ status \in [Ids -> {"stopped", "running", "crashed"}] /\ open \in BOOLEAN
      /\ starts \subseteq [by : Callers, ws : Ids] /\ wanted \subseteq Ids
  BY DEF TypeOK, ServiceTypeOK
<1>1. CASE UNCHANGED managerVars
  BY <1>1, <1>a DEF managerVars
<1>2. CASE \E c \in Callers, w \in Ids : StartProceeds(c, w)
  BY <1>2, <1>a DEF StartProceeds
<1>3. CASE \E S \in SUBSET Ids : StopAll(S)
  BY <1>3, <1>a DEF StopAll
<1>4. CASE \E s \in starts, ok \in BOOLEAN : StartEnds(s, ok)
  BY <1>4, <1>a DEF StartEnds
<1>5. CASE \E S \in SUBSET Ids : Manager!Crash(S) /\ UNCHANGED <<starts, wanted>>
  BY <1>5, <1>a DEF Manager!Crash
<1>6. CASE PostMainMessageLoopRun
  BY <1>6, <1>a DEF PostMainMessageLoopRun, Manager!Close
<1>7. CASE ClosePage
  BY <1>7, <1>a DEF ClosePage, Callers
<1> QED
  BY <1>1, <1>2, <1>3, <1>4, <1>5, <1>6, <1>7 DEF ManagerEffect

\* What is under way for requests stays what it is.
LEMMA ApiTypeStep ==
  ASSUME TypeOK, ApiEffect
  PROVE  ApiTypeOK'
<1>a. ApiTypeOK
  BY DEF TypeOK
<1> DEFINE Request == [to : {"none"} \cup {Route[q] : q \in Requests},
                       ws : {"none"} \cup {WsIdOf(q) : q \in Requests}]
<1>1. CASE UNCHANGED apiVars
  BY <1>1, <1>a DEF apiVars, ApiTypeOK
<1>2. CASE \E r \in Reqs, q \in Requests : OnHttpRequest(r, q)
  <2>1. PICK r \in Reqs, q \in Requests : OnHttpRequest(r, q)
    BY <1>2
  <2>2. [to |-> Route[q], ws |-> WsIdOf(q)] \in Request
    OBVIOUS
  <2> HIDE DEF Request
  <2>3. request \in [Reqs -> Request] => request' \in [Reqs -> Request]
    BY <2>1, <2>2 DEF OnHttpRequest
  <2>4. answers' \in [Reqs -> Nat]
    BY <2>1, <1>a DEF OnHttpRequest, SendError, ApiTypeOK
  <2>5. {"ui"} \in SUBSET Steps
    BY DEF Steps
  <2>6. work' \in [Reqs -> SUBSET Steps]
    BY <2>1, <2>5, <1>a DEF OnHttpRequest, ApiTypeOK
  <2> QED
    BY <2>3, <2>4, <2>6, <1>a DEF ApiTypeOK, Request
<1>3. CASE \E r \in Reqs, s \in Steps, t \in Steps : Run(r, s, {t})
  <2>1. NoRequest \in Request
    BY DEF NoRequest
  <2> HIDE DEF Request
  <2>2. request \in [Reqs -> Request] => request' \in [Reqs -> Request]
    BY <1>3, <2>1 DEF Run
  <2>3. answers' \in [Reqs -> Nat] /\ work' \in [Reqs -> SUBSET Steps]
    BY <1>3, <1>a DEF Run, ApiTypeOK
  <2> QED
    BY <2>2, <2>3, <1>a DEF ApiTypeOK, Request
<1>4. CASE \E r \in Reqs, s \in Steps : AnswerStep(r, s)
  BY <1>4, <1>a DEF AnswerStep, SendJson, ApiTypeOK
<1> QED
  BY <1>1, <1>2, <1>3, <1>4 DEF ApiEffect

\* The phases of the process, the page and the dialogs stay what they are.
LEMMA ScalarTypeStep ==
  ASSUME TypeOK, [Next]_vars
  PROVE  /\ phase' \in Phases /\ server' \in {"none", "up", "failed", "stopped"}
         /\ page' \in {"closed", "loaded", "live"}
         /\ panelOpen' \in BOOLEAN /\ dialog' \in Dialogs
<1>a. /\ phase \in Phases /\ server \in {"none", "up", "failed", "stopped"}
      /\ page \in {"closed", "loaded", "live"}
      /\ panelOpen \in BOOLEAN /\ dialog \in Dialogs
  BY DEF TypeOK, ServiceTypeOK, ViewsTypeOK
<1>1. CASE ProcessStep
  BY <1>1, <1>a DEF ProcessStep, LeaveEarly, CreateInitialProfile, ShowProfilePicker,
     CallPostProfileInit, RunMainMessageLoop, QuitMainMessageLoop,
     PostMainMessageLoopRun, PostDestroyThreads, PostProfileInit,
     StartPureCloakApiServer, Phases, viewVars
<1>2. CASE UNCHANGED processVars /\ UNCHANGED <<page, panelOpen, dialog>>
  BY <1>2, <1>a DEF processVars
<1>3. CASE ViewStep
  <2>1. CASE LoadPage
    BY <2>1, <1>a DEF LoadPage, serviceVars, processVars
  <2>2. CASE ClosePage
    BY <2>2, <1>a DEF ClosePage, processVars
  <2>3. CASE Message
    BY <2>3, <1>a DEF Message, processVars
  <2>4. CASE \E s \in starts, ok \in BOOLEAN : OnPageStarted(s, ok)
    BY <2>4, <1>a DEF OnPageStarted, ViewsNotified, Phases
  <2>5. CASE ToggleSidePanel
    BY <2>5, <1>a DEF ToggleSidePanel, serviceVars, processVars
  <2>6. CASE \E d \in Dialogs : OpenDialog(d)
    BY <2>6, <1>a DEF OpenDialog, serviceVars, processVars
  <2>7. CASE CloseDialog
    BY <2>7, <1>a DEF CloseDialog, processVars, Dialogs
  <2>8. /\ OnCreateWorkspaceClicked => \E d \in Dialogs : OpenDialog(d)
        /\ \A i \in Ids : OnRenameWorkspace(i) => \E d \in Dialogs : OpenDialog(d)
        /\ \A i \in Ids : OnDeleteWorkspace(i) => \E d \in Dialogs : OpenDialog(d)
    BY DEF OnCreateWorkspaceClicked, OnRenameWorkspace, OnDeleteWorkspace, Dialogs
  <2> QED
    BY <1>3, <2>1, <2>2, <2>3, <2>4, <2>5, <2>6, <2>7, <2>8
       DEF ViewStep, PageReads, PageGetAllWorkspaces, PageSearchWorkspaces,
           PageBatchLaunchWorkspaces, PageGetAllTags, PageProxyTest, PageGetTemplates,
           PageSaveTemplate, PageDeleteTemplate, PageGetDashboardStats,
           PageGetWorkspaceStatus, PageCreateWorkspace, PageUpdateWorkspace,
           PageDeleteWorkspace, PageBatchDeleteWorkspaces, PageStopWorkspace,
           PageBatchStopWorkspaces, PageLaunchWorkspace
<1>4. \A r \in Reqs : UiStep(r) => UNCHANGED processVars
  BY DEF UiStep, UiTask, HandleGetAllWorkspaces, HandleCreateWorkspace,
     HandleGetWorkspace, HandleUpdateWorkspace, HandleDeleteWorkspace,
     HandleLaunchWorkspace, LaunchNotFound, HandleStopWorkspace,
     HandleGetWorkspaceStatus, HandleSystemStatus, HandleImportWorkspaces,
     HandleCDPRequest, SecondLook, serviceVars
<1> QED
  BY <1>1, <1>2, <1>3, <1>4
     DEF Next, ServiceStep, OnInitData, OnPoll, ViewsNotified, RequestArrives,
         OnHttpRequest, RequestUiStep, OnStarted, RequestApiStep, ApiStep,
         RetryCDPRequest, ForwardToChild, Respond, AnswerStep, serviceVars, viewVars, vars

\* So do the cards of the panel, built from the store.
LEMMA CardsTypeStep ==
  ASSUME TypeOK, StoreEffect, PanelEffect
  PROVE  cards' \in [Ids -> 0 .. 2] /\ cardsLoaded' \in BOOLEAN
<1>a. cards \in [Ids -> 0 .. 2] /\ cardsLoaded \in BOOLEAN
  BY DEF TypeOK, ViewsTypeOK
<1>b. store \in [Ids -> 0 .. 2] /\ loaded \in BOOLEAN
  BY DEF TypeOK, ServiceTypeOK
<1>c. store' \in [Ids -> 0 .. 2] /\ loaded' \in BOOLEAN
  BY StoreTypeStep
<1> QED
  BY <1>a, <1>b, <1>c DEF PanelEffect, OnWorkspacesChanged, ToggleSidePanel

\* And what the page was told, since all of it is a status.
LEMMA ShownTypeStep ==
  ASSUME TypeOK, ManagerEffect, PageEffect
  PROVE  shown' \in [Ids -> {"unknown", "stopped", "running", "crashed"}]
<1> DEFINE Told == {"unknown", "stopped", "running", "crashed"}
<1>a. shown \in [Ids -> Told]
  BY DEF TypeOK, ViewsTypeOK
<1>b. \A w \in Ids : status[w] \in Told
  BY DEF TypeOK, ServiceTypeOK
<1>c. \A w \in Ids : status'[w] \in Told
  BY ManagerTypeStep
<1>d. Unknown \in [Ids -> Told]
  BY DEF Unknown
<1> HIDE DEF Told
<1>1. shown' \in [Ids -> Told]
  BY <1>a, <1>b, <1>c, <1>d DEF PageEffect, OnWorkspaceStatusChanged, PageHears
<1> QED
  BY <1>1 DEF Told

\* Every step keeps the types.
LEMMA TypeStep ==
  ASSUME TypeOK, [Next]_vars
  PROVE  TypeOK'
<1>1. Effects
  BY NextEffects
<1>2. ServiceTypeOK'
  BY <1>1, StoreTypeStep, ManagerTypeStep, ScalarTypeStep DEF Effects, ServiceTypeOK
<1>3. ApiTypeOK'
  BY <1>1, ApiTypeStep DEF Effects
<1>4. ViewsTypeOK'
  BY <1>1, CardsTypeStep, ShownTypeStep, ScalarTypeStep DEF Effects, ViewsTypeOK
<1> QED
  BY <1>2, <1>3, <1>4 DEF TypeOK

\* A request with nothing under way is dispatched into one step or into its one
\* response; a step ends in one step or in a response.
LEMMA OneStepStep ==
  ASSUME TypeOK, \A r \in Reqs : OneStep(r), ApiEffect
  PROVE  \A r \in Reqs : OneStep(r)'
<1>a. /\ work \in [Reqs -> SUBSET Steps]
      /\ answers \in [Reqs -> Nat]
  BY DEF TypeOK, ApiTypeOK
<1> SUFFICES ASSUME NEW x \in Reqs PROVE OneStep(x)'
  OBVIOUS
<1>b. OneStep(x)
  OBVIOUS
<1>1. CASE UNCHANGED apiVars
  BY <1>1, <1>b DEF apiVars, OneStep
<1>2. CASE \E r \in Reqs, q \in Requests : OnHttpRequest(r, q)
  <2>1. "ui" \in Steps
    BY DEF Steps
  <2> QED
    BY <1>2, <2>1, <1>a, <1>b DEF OnHttpRequest, SendError, OneStep
<1>3. CASE \E r \in Reqs, s \in Steps, t \in Steps : Run(r, s, {t})
  <2>1. PICK r \in Reqs, s \in Steps, t \in Steps : Run(r, s, {t})
    BY <1>3
  <2>2. CASE x = r
    <3>1. answers[x] = 0 /\ work[x] = {s}
      BY <2>1, <2>2, <1>b DEF Run, OneStep
    <3>2. work'[x] = {t} /\ answers'[x] = 0
      BY <2>1, <2>2, <3>1, <1>a DEF Run
    <3> QED
      BY <3>2 DEF OneStep
  <2>3. CASE x # r
    BY <2>1, <2>3, <1>a, <1>b DEF Run, OneStep
  <2> QED
    BY <2>2, <2>3
<1>4. CASE \E r \in Reqs, s \in Steps : AnswerStep(r, s)
  <2>1. PICK r \in Reqs, s \in Steps : AnswerStep(r, s)
    BY <1>4
  <2>2. CASE x = r
    <3>1. answers[x] = 0 /\ work[x] = {s}
      BY <2>1, <2>2, <1>b DEF AnswerStep, OneStep
    <3>2. work'[x] = {} /\ answers'[x] = 1
      BY <2>1, <2>2, <3>1, <1>a DEF AnswerStep, SendJson
    <3> QED
      BY <3>2 DEF OneStep
  <2>3. CASE x # r
    BY <2>1, <2>3, <1>a, <1>b DEF AnswerStep, SendJson, OneStep
  <2> QED
    BY <2>2, <2>3
<1> QED
  BY <1>1, <1>2, <1>3, <1>4 DEF ApiEffect

\* A workspace runs only at the end of a Start, and a stop that finds one
\* pending leaves it wanted.
LEMMA WantedStep ==
  ASSUME TypeOK, StopSticks, StartsWanted, ManagerEffect
  PROVE  StopSticks' /\ StartsWanted'
<1>a. /\ status \in [Ids -> {"stopped", "running", "crashed"}]
      /\ starts \subseteq [by : Callers, ws : Ids] /\ wanted \subseteq Ids
  BY DEF TypeOK, ServiceTypeOK
<1>b. \A s \in starts : s.ws \in wanted
  BY DEF StartsWanted, Starting
<1> USE DEF StopSticks, StartsWanted, Starting
<1>1. CASE UNCHANGED managerVars
  BY <1>1 DEF managerVars
<1>2. CASE \E c \in Callers, w \in Ids : StartProceeds(c, w)
  BY <1>2, <1>a, <1>b DEF StartProceeds
<1>3. CASE \E S \in SUBSET Ids : StopAll(S)
  BY <1>3, <1>a, <1>b DEF StopAll
<1>4. CASE \E s \in starts, ok \in BOOLEAN : StartEnds(s, ok)
  BY <1>4, <1>a, <1>b DEF StartEnds
<1>5. CASE \E S \in SUBSET Ids : Manager!Crash(S) /\ UNCHANGED <<starts, wanted>>
  BY <1>5, <1>a DEF Manager!Crash
<1>6. CASE PostMainMessageLoopRun
  BY <1>6, <1>a DEF PostMainMessageLoopRun, Manager!Close
<1>7. CASE ClosePage
  <2>1. \A s \in starts : [s EXCEPT !.by = "nobody"].ws = s.ws
    BY <1>a
  <2>2. \A s \in starts' : s.ws \in wanted
    BY <1>7, <1>b, <2>1 DEF ClosePage
  <2> QED
    BY <1>7, <2>2 DEF ClosePage
<1> QED
  BY <1>1, <1>2, <1>3, <1>4, <1>5, <1>6, <1>7 DEF ManagerEffect

\* Only ids that were never given out are created, and only entries that are
\* there are edited; the file is read once, before its entries can be deleted.
LEMMA LedgerStep ==
  ASSUME TypeOK, NoResurrection, Ledger, StoreEffect
  PROVE  NoResurrection' /\ Ledger'
<1>a. /\ store \in [Ids -> 0 .. 2] /\ loaded \in BOOLEAN
      /\ file \subseteq Ids /\ used \subseteq Ids /\ deleted \subseteq Ids
  BY DEF TypeOK, ServiceTypeOK
<1> USE DEF NoResurrection, Ledger
<1>1. CASE UNCHANGED storeVars
  BY <1>1 DEF storeVars
<1>2. CASE OnInitData
  BY <1>2, <1>a DEF OnInitData
<1>3. CASE \E S \in SUBSET Ids : CreateAll(S)
  BY <1>3, <1>a DEF CreateAll
<1>4. CASE \E i \in Ids : UpdateWorkspace(i)
  BY <1>4, <1>a DEF UpdateWorkspace, GetWorkspace, Edit
<1>5. CASE \E S \in SUBSET Ids : DeleteAll(S)
  BY <1>5, <1>a DEF DeleteAll, GetWorkspace
<1> QED
  BY <1>1, <1>2, <1>3, <1>4, <1>5 DEF StoreEffect

\* Whoever changes the store, an open panel rebuilds its cards in the same step;
\* only the load passes it by, and it makes the store loaded where the cards
\* were not.
LEMMA PanelStep ==
  ASSUME TypeOK, PanelFresh, CardsLoaded, StoreEffect, PanelEffect
  PROVE  PanelFresh' /\ CardsLoaded'
<1>a. loaded \in BOOLEAN /\ cardsLoaded \in BOOLEAN /\ panelOpen \in BOOLEAN
  BY DEF TypeOK, ServiceTypeOK, ViewsTypeOK
<1>b. loaded' = loaded \/ (~loaded /\ loaded')
  BY DEF StoreEffect, storeVars, OnInitData, CreateAll, UpdateWorkspace, DeleteAll
<1> USE DEF PanelFresh, CardsLoaded
<1>1. CASE UNCHANGED <<store, loaded, panelOpen, cards, cardsLoaded>>
  BY <1>1
<1>2. CASE UNCHANGED panelOpen /\ OnWorkspacesChanged
  <2>1. CASE cards' = store' /\ cardsLoaded' = loaded'
    BY <2>1
  <2>2. CASE UNCHANGED <<cards, cardsLoaded>> /\ ~panelOpen
    BY <1>2, <2>2, <1>a, <1>b
  <2>3. CASE UNCHANGED <<cards, cardsLoaded>> /\ store' = store /\ loaded' = loaded
    BY <1>2, <2>3
  <2>4. CASE UNCHANGED <<cards, cardsLoaded>> /\ loaded' # loaded
    BY <1>2, <2>4, <1>a, <1>b
  <2> QED
    BY <1>2, <2>1, <2>2, <2>3, <2>4 DEF OnWorkspacesChanged
<1>3. CASE ToggleSidePanel
  BY <1>3 DEF ToggleSidePanel, serviceVars, storeVars
<1> QED
  BY <1>1, <1>2, <1>3 DEF PanelEffect

\* A live page hears of every change of status, a page that is not live knows
\* nothing, and when the manager closes there is no page.
LEMMA PageStep ==
  ASSUME TypeOK, PageFresh, PageKnows, PageEffect
  PROVE  PageFresh' /\ PageKnows'
<1>a. shown \in [Ids -> {"unknown", "stopped", "running", "crashed"}]
  BY DEF TypeOK, ViewsTypeOK
<1>b. Unknown = [w \in Ids |-> "unknown"]
  BY DEF Unknown
<1> USE DEF PageFresh, PageKnows
<1>1. CASE page' = page /\ phase' \in {phase, "crashed"} /\ OnWorkspaceStatusChanged
  <2>1. CASE page = "live"
    BY <1>1, <2>1, <1>a DEF OnWorkspaceStatusChanged
  <2>2. CASE page # "live"
    <3>1. shown' = Unknown
      BY <1>1, <2>2, <1>b DEF OnWorkspaceStatusChanged
    <3> QED
      BY <1>1, <2>2, <3>1, <1>b
  <2> QED
    BY <2>1, <2>2
<1>2. CASE UNCHANGED <<page, shown, phase, status>>
  BY <1>2
<1>3. CASE /\ UNCHANGED <<page, shown, status>>
           /\ phase' = "loop" \/ phase \notin {"loop", "crashed"} \/ page = "closed"
  BY <1>3
<1>4. CASE UNCHANGED <<page, shown>> /\ PostMainMessageLoopRun
  <2>1. page = "closed" /\ shown = Unknown
    BY <1>4 DEF PostMainMessageLoopRun
  <2> QED
    BY <1>4, <2>1, <1>b
<1>5. CASE /\ UNCHANGED <<phase, status>> /\ shown' = Unknown
           /\ page' = "closed" \/ (page' = "loaded" /\ phase = "loop")
  BY <1>5, <1>b
<1>6. CASE Message
  <2>1. page' = "live" /\ phase' = "loop"
    BY <1>6 DEF Message, processVars
  <2>2. CASE UNCHANGED <<status, shown>>
    BY <2>1, <2>2
  <2>3. CASE PageHears
    BY <2>1, <2>3, <1>a DEF PageHears
  <2>4. CASE \E w \in Ids : shown' = [shown EXCEPT ![w] = status[w]] /\ UNCHANGED status
    BY <2>1, <2>4, <1>a
  <2> QED
    BY <2>2, <2>3, <2>4, <1>1, <1>2, <1>3, <1>4, <1>5 DEF PageEffect
<1> QED
  BY <1>1, <1>2, <1>3, <1>4, <1>5, <1>6 DEF PageEffect

\* The manager goes with the profiles, and only once they are destroyed is
\* nothing launched any more.
LEMMA ManagerThereStep ==
  ASSUME TypeOK, ManagerThere, ManagerEffect, PageEffect
  PROVE  ManagerThere'
<1>a. /\ status \in [Ids -> {"stopped", "running", "crashed"}] /\ open \in BOOLEAN
      /\ starts \subseteq [by : Callers, ws : Ids]
  BY DEF TypeOK, ServiceTypeOK
<1>b. phase' \in WithProfile => phase \in WithProfile
  BY DEF PageEffect, PostMainMessageLoopRun, WithProfile, Message, processVars
<1> USE DEF ManagerThere
<1>1. CASE PostMainMessageLoopRun
  BY <1>1 DEF PostMainMessageLoopRun, Manager!Close, WithProfile
<1>2. CASE UNCHANGED <<status, open>>
  BY <1>2, <1>b
<1>3. CASE \E S \in SUBSET Ids : StopAll(S)
  BY <1>3, <1>a, <1>b DEF StopAll
<1>4. CASE \E s \in starts, ok \in BOOLEAN : StartEnds(s, ok)
  <2>1. open /\ open'
    BY <1>4 DEF StartEnds, UiRuns, WithProfile
  <2> QED
    BY <2>1
<1>5. CASE \E S \in SUBSET Ids : Manager!Crash(S)
  BY <1>5 DEF Manager!Crash
<1> QED
  BY <1>1, <1>2, <1>3, <1>4, <1>5 DEF ManagerEffect, managerVars, StartProceeds, ClosePage

-----------------------------------------------------------------------------
(***************************************************************************)
(* The theorems.                                                           *)
(***************************************************************************)

\* The inductive invariant holds: requests, Starts, the store's ids, the panel
\* and the page keep what the parts of FrontEndsInv say, through every
\* handler, observer and phase of the process.
THEOREM FrontEndsInvariant == Spec => []FrontEndsInv
<1>1. Init => FrontEndsInv
  <2> SUFFICES ASSUME Init PROVE FrontEndsInv
    OBVIOUS
  <2>1. ServiceTypeOK
    <3>1. /\ status \in [Ids -> {"stopped", "running", "crashed"}] /\ open \in BOOLEAN
          /\ store \in [Ids -> 0 .. 2]
      BY DEF Init, ServiceInit, Manager!Init
    <3>2. /\ phase \in Phases /\ server \in {"none", "up", "failed", "stopped"}
          /\ loaded \in BOOLEAN
      BY DEF Init, ServiceInit, Phases
    <3> QED
      BY <3>1, <3>2 DEF Init, ServiceInit, ServiceTypeOK
  <2>2. ApiTypeOK
    BY DEF Init, ApiInit, ApiTypeOK, NoRequest
  <2>3. ViewsTypeOK
    <3>1. /\ shown \in [Ids -> {"unknown", "stopped", "running", "crashed"}]
          /\ cards \in [Ids -> 0 .. 2]
      BY DEF Init, ViewsInit, Unknown
    <3>2. /\ page \in {"closed", "loaded", "live"} /\ dialog \in Dialogs
          /\ panelOpen \in BOOLEAN /\ cardsLoaded \in BOOLEAN
      BY DEF Init, ViewsInit, Dialogs
    <3> QED
      BY <3>1, <3>2 DEF ViewsTypeOK
  <2>4. \A r \in Reqs : OneStep(r)
    BY DEF Init, ApiInit, OneStep
  <2>5. StopSticks /\ StartsWanted
    BY DEF Init, ServiceInit, Manager!Init, StopSticks, StartsWanted, Starting
  <2>6. NoResurrection /\ Ledger
    BY DEF Init, ServiceInit, NoResurrection, Ledger
  <2>7. PanelFresh /\ CardsLoaded
    BY DEF Init, ViewsInit, PanelFresh, CardsLoaded
  <2>8. PageFresh /\ PageKnows
    BY DEF Init, ViewsInit, Unknown, PageFresh, PageKnows
  <2>9. ManagerThere
    BY DEF Init, ServiceInit, Manager!Init, ManagerThere
  <2> QED
    BY <2>1, <2>2, <2>3, <2>4, <2>5, <2>6, <2>7, <2>8, <2>9 DEF FrontEndsInv, TypeOK
<1>2. FrontEndsInv /\ [Next]_vars => FrontEndsInv'
  <2> SUFFICES ASSUME FrontEndsInv, [Next]_vars PROVE FrontEndsInv'
    OBVIOUS
  <2> USE DEF FrontEndsInv
  <2>1. StoreEffect /\ ManagerEffect /\ ApiEffect /\ PanelEffect /\ PageEffect
    BY NextEffects DEF Effects
  <2>2. TypeOK'
    BY TypeStep
  <2>3. \A r \in Reqs : OneStep(r)'
    BY <2>1, OneStepStep
  <2>4. StopSticks' /\ StartsWanted'
    BY <2>1, WantedStep
  <2>5. NoResurrection' /\ Ledger'
    BY <2>1, LedgerStep
  <2>6. PanelFresh' /\ CardsLoaded'
    BY <2>1, PanelStep
  <2>7. PageFresh' /\ PageKnows'
    BY <2>1, PageStep
  <2>8. ManagerThere'
    BY <2>1, ManagerThereStep
  <2> QED
    BY <2>2, <2>3, <2>4, <2>5, <2>6, <2>7, <2>8
<1> QED
  BY <1>1, <1>2, PTL DEF Spec

\* Process, store, manager, requests and views have their types.
THEOREM FrontEndsTypeCorrect == Spec => []TypeOK
<1>1. FrontEndsInv => TypeOK
  BY DEF FrontEndsInv
<1> QED
  BY <1>1, FrontEndsInvariant, PTL

\* A request gets at most one response, and nothing is left to do for it after
\* that (DispatchRequest, the handlers, the retry and the StartCallback).
THEOREM FrontEndsAnsweredOnce == Spec => []AnsweredOnce
<1>1. FrontEndsInv => AnsweredOnce
  <2> SUFFICES ASSUME FrontEndsInv, NEW r \in Reqs
               PROVE  answers[r] + Cardinality(work[r]) <= 1
    BY DEF AnsweredOnce
  <2>1. answers[r] \in Nat
    BY DEF FrontEndsInv, TypeOK, ApiTypeOK
  <2>2. OneStep(r)
    BY DEF FrontEndsInv
  <2>3. CASE work[r] = {} /\ answers[r] <= 1
    <3>1. Cardinality(work[r]) = 0
      BY <2>3, FS_EmptySet
    <3> QED
      BY <2>1, <2>3, <3>1
  <2>4. CASE answers[r] = 0 /\ \E s \in Steps : work[r] = {s}
    <3>1. Cardinality(work[r]) = 1
      BY <2>4, FS_Singleton
    <3> QED
      BY <2>4, <3>1
  <2> QED
    BY <2>2, <2>3, <2>4 DEF OneStep
<1> QED
  BY <1>1, FrontEndsInvariant, PTL

\* A workspace that runs was started and not stopped since, unless the stop came
\* while its Start was still preparing (Start, Stop).
THEOREM FrontEndsStopSticks == Spec => []StopSticks
<1>1. FrontEndsInv => StopSticks
  BY DEF FrontEndsInv
<1> QED
  BY <1>1, FrontEndsInvariant, PTL

\* No dialog, update, import or late load brings a deleted workspace back
\* (UpdateWorkspace, OnInitData, GenerateId).
THEOREM FrontEndsNoResurrection == Spec => []NoResurrection
<1>1. FrontEndsInv => NoResurrection
  BY DEF FrontEndsInv
<1> QED
  BY <1>1, FrontEndsInvariant, PTL

\* The cards of an open panel are what the store holds, whoever changed it,
\* except for cards built before the load (RebuildWorkspaceList).
THEOREM FrontEndsPanelFresh == Spec => []PanelFresh
<1>1. FrontEndsInv => PanelFresh
  BY DEF FrontEndsInv
<1> QED
  BY <1>1, FrontEndsInvariant, PTL

\* What the page was told of a workspace is its status, whoever changed it
\* (OnWorkspaceStatusChanged, OnWorkspaceLaunched, OnWorkspaceStopped).
THEOREM FrontEndsPageFresh == Spec => []PageFresh
<1>1. FrontEndsInv => PageFresh
  BY DEF FrontEndsInv
<1> QED
  BY <1>1, FrontEndsInvariant, PTL

\* Whatever requests, the page and the process do, the statuses go the way the
\* abstract lifecycle allows, so that what is proved of it, by the launcher from
\* the inside and for the front ends from the outside, meets in one place.
THEOREM FrontEndsImplementLifecycle == Spec => ImplementsLifecycle
<1>1. Init => Manager!Init
  BY DEF Init, ServiceInit
<1>2. FrontEndsInv /\ [Next]_vars => [Manager!Next]_(Manager!lifecycleVars)
  <2> SUFFICES ASSUME FrontEndsInv, [Next]_vars
               PROVE  Manager!Next \/ UNCHANGED <<status, open>>
    BY DEF Manager!lifecycleVars
  <2>a. /\ status \in [Ids -> {"stopped", "running", "crashed"}]
        /\ starts \subseteq [by : Callers, ws : Ids] /\ ManagerThere
    BY DEF FrontEndsInv, TypeOK, ServiceTypeOK
  <2>1. ManagerEffect
    BY NextEffects DEF Effects
  <2>2. ASSUME NEW S \in SUBSET Ids, StopAll(S)
        PROVE  Manager!Next \/ UNCHANGED <<status, open>>
    <3>1. CASE open
      <4>1. Manager!Stop(S)
        BY <2>2, <3>1 DEF StopAll, Manager!Stop
      <4> QED
        BY <4>1 DEF Manager!Next
    <3>2. CASE ~open
      BY <2>2, <2>a, <3>2 DEF StopAll, ManagerThere
    <3> QED
      BY <3>1, <3>2
  <2>3. ASSUME NEW s \in starts, NEW ok \in BOOLEAN, StartEnds(s, ok)
        PROVE  Manager!Next \/ UNCHANGED <<status, open>>
    <3>1. open /\ s.ws \in Ids /\ open' = open
      BY <2>3, <2>a DEF StartEnds, UiRuns, ManagerThere, WithProfile
    <3>2. CASE status' = status
      BY <3>1, <3>2
    <3>3. CASE status' = [status EXCEPT ![s.ws] = "running"] /\ status[s.ws] = "running"
      BY <2>a, <3>1, <3>3
    <3>4. CASE status' = [status EXCEPT ![s.ws] = "running"] /\ status[s.ws] # "running"
      <4>1. Manager!Launch(s.ws)
        BY <2>a, <3>1, <3>4 DEF Manager!Launch
      <4> QED
        BY <3>1, <4>1 DEF Manager!Next
    <3> QED
      BY <2>3, <3>2, <3>3, <3>4 DEF StartEnds
  <2>4. CASE \E S \in SUBSET Ids : Manager!Crash(S)
    BY <2>4 DEF Manager!Next
  <2>5. CASE PostMainMessageLoopRun
    BY <2>5 DEF PostMainMessageLoopRun, Manager!Next
  <2>6. CASE UNCHANGED <<status, open>>
    BY <2>6
  <2> QED
    BY <2>1, <2>2, <2>3, <2>4, <2>5, <2>6
       DEF ManagerEffect, managerVars, StartProceeds, ClosePage
<1> QED
  BY <1>1, <1>2, FrontEndsInvariant, PTL DEF Spec, ImplementsLifecycle, Manager!Spec
=============================================================================
