--------------------------- MODULE WorkspaceViews ---------------------------
(***************************************************************************)
(* The views: the purecloak:// page with its message handler               *)
(* (purecloak_handler.cc) and the side panel with its dialogs              *)
(* (purecloak_side_panel_view.cc, workspace_management_dialogs.cc).        *)
(*                                                                         *)
(* All of it runs on the UI thread.  Observers are called within the task  *)
(* that changes what they observe: ViewsNotified is part of every step.    *)
(***************************************************************************)
EXTENDS WorkspaceService

VARIABLES
  page,        \* the page: "live" once its handler has allowed JavaScript
  shown,       \* the status the page was last told for each workspace
  panelOpen,   \* the side panel is shown
  cards,       \* the entries its cards were built from
  cardsLoaded, \* the store was loaded when they were built
  dialog       \* the dialog of the side panel, if any

viewVars == <<page, shown, panelOpen, cards, cardsLoaded, dialog>>

NoDialog == [kind |-> "none", ws |-> "none"]
Dialogs == {NoDialog, [kind |-> "create", ws |-> "none"]}
             \cup [kind : {"rename", "delete"}, ws : Ids]
Unknown == [w \in Ids |-> "unknown"]

ViewsTypeOK ==
  /\ page \in {"closed", "loaded", "live"}
  /\ shown \in [Ids -> {"unknown", "stopped", "running", "crashed"}]
  /\ panelOpen \in BOOLEAN
  /\ cards \in [Ids -> 0 .. 2]
  /\ cardsLoaded \in BOOLEAN
  /\ dialog \in Dialogs

ViewsInit ==
  /\ page = "closed"
  /\ shown = Unknown
  /\ panelOpen = FALSE
  /\ cards = [i \in Ids |-> 0]
  /\ cardsLoaded = FALSE
  /\ dialog = NoDialog

-----------------------------------------------------------------------------
(***************************************************************************)
(* What observers do with a step.                                          *)
(***************************************************************************)

\* A panel that does not rebuild when the store changes.
OnWorkspacesChangedNot == UNCHANGED <<cards, cardsLoaded>>

\* RebuildWorkspaceList.  CRUD calls notify, OnInitData does not.
OnWorkspacesChanged ==
  IF panelOpen /\ store' # store /\ loaded' = loaded
  THEN cards' = store' /\ cardsLoaded' = loaded'
  ELSE UNCHANGED <<cards, cardsLoaded>>

\* A page that hears of launches and stops, but of no crash.
OnWorkspaceStatusChangedNot ==
  shown' = [w \in Ids |->
              IF page = "live" /\ status'[w] # status[w] /\ status'[w] # "crashed"
              THEN status'[w] ELSE shown[w]]

\* OnWorkspaceStatusChanged, OnWorkspaceLaunched and OnWorkspaceStopped, only
\* while JavaScript is allowed.
OnWorkspaceStatusChanged ==
  shown' = [w \in Ids |->
              IF page = "live" /\ status'[w] # status[w]
              THEN status'[w] ELSE shown[w]]

ViewsNotified ==
  /\ OnWorkspacesChanged
  /\ OnWorkspaceStatusChanged
  /\ UNCHANGED <<page, panelOpen, dialog>>

-----------------------------------------------------------------------------
(***************************************************************************)
(* The page.                                                               *)
(***************************************************************************)

\* A new handler, or a reload, which withdraws JavaScript from the handler it
\* keeps.
LoadPage ==
  /\ phase = "loop"
  /\ page' = "loaded"
  /\ shown' = Unknown
  /\ UNCHANGED <<serviceVars, panelOpen, cards, cardsLoaded, dialog>>

\* The handler is destroyed: callbacks bound to its WeakPtr do nothing.
ClosePage ==
  /\ page # "closed"
  /\ page' = "closed"
  /\ shown' = Unknown
  /\ starts' = {IF s.by = "page" THEN [s EXCEPT !.by = "nobody"] ELSE s : s \in starts}
  /\ UNCHANGED <<processVars, status, open, wanted, storeVars, panelOpen, cards,
                 cardsLoaded, dialog>>

\* A message of the page: its handler allows JavaScript first.
Message ==
  /\ phase = "loop"
  /\ page # "closed"
  /\ page' = "live"
  /\ UNCHANGED <<processVars, panelOpen, dialog>>

\* Observers hear of a change while the message is handled, JavaScript allowed.
PageHears == shown' = [w \in Ids |-> IF status'[w] # status[w] THEN status'[w]
                                     ELSE shown[w]]

\* Messages that change nothing but the page itself.  batchLaunchWorkspaces
\* reports "launched" and calls no Start; templates and the proxy test are
\* placeholders that always report success.
PageReads == Message /\ UNCHANGED <<managerVars, storeVars, shown, cards, cardsLoaded>>

PageGetAllWorkspaces == PageReads
PageSearchWorkspaces == PageReads
PageBatchLaunchWorkspaces == PageReads
PageGetAllTags == PageReads
PageProxyTest == PageReads
PageGetTemplates == PageReads
PageSaveTemplate == PageReads
PageDeleteTemplate == PageReads
PageGetDashboardStats == PageReads

PageGetWorkspaceStatus(w) ==
  /\ Message
  /\ shown' = [shown EXCEPT ![w] = status[w]]
  /\ UNCHANGED <<managerVars, storeVars, cards, cardsLoaded>>

\* The page sends no id of its own.
PageCreateWorkspace ==
  Message /\ CreateWorkspace /\ OnWorkspacesChanged /\ UNCHANGED <<managerVars, shown>>

PageUpdateWorkspace(w) ==
  Message /\ UpdateWorkspace(w) /\ OnWorkspacesChanged /\ UNCHANGED <<managerVars, shown>>

PageBatchDeleteWorkspaces(S) ==
  Message /\ DeleteAll(S) /\ OnWorkspacesChanged /\ UNCHANGED <<managerVars, shown>>

PageDeleteWorkspace(w) == PageBatchDeleteWorkspaces({w})

PageBatchStopWorkspaces(S) ==
  Message /\ StopAll(S) /\ PageHears /\ UNCHANGED <<storeVars, cards, cardsLoaded>>

PageStopWorkspace(w) == PageBatchStopWorkspaces({w})

\* Answered at once when there is no such workspace.
PageLaunchWorkspace(w) ==
  /\ Message
  /\ \/ ~GetWorkspace(w) /\ UNCHANGED managerVars
     \/ GetWorkspace(w) /\ StartAnswersOk(w)
     \/ GetWorkspace(w) /\ StartRefuses(w)
     \/ GetWorkspace(w) /\ StartProceeds("page", w)
  /\ UNCHANGED <<storeVars, shown, cards, cardsLoaded>>

\* The StartCallback of a launch: the page gets its answer.  A handler without
\* JavaScript may not answer, and the attempt ends the browser (the CHECK of
\* CallJavascriptFunction).
OnPageStarted(s, ok) ==
  /\ s.by \in {"page", "nobody"}
  /\ StartEnds(s, ok)
  /\ phase' = IF s.by = "page" /\ page = "loaded" THEN "crashed" ELSE phase
  /\ UNCHANGED <<server, storeVars>>
  /\ ViewsNotified

-----------------------------------------------------------------------------
(***************************************************************************)
(* The side panel.                                                         *)
(***************************************************************************)

\* The toolbar button creates the view, which observes the store and builds
\* its cards, or closes it; not while a dialog, modal to the window, is open.
ToggleSidePanel ==
  /\ phase = "loop"
  /\ dialog = NoDialog
  /\ panelOpen' = ~panelOpen
  /\ cards' = store
  /\ cardsLoaded' = loaded
  /\ UNCHANGED <<serviceVars, page, shown, dialog>>

OpenDialog(d) ==
  /\ phase = "loop"
  /\ panelOpen
  /\ dialog = NoDialog
  /\ dialog' = d
  /\ UNCHANGED <<serviceVars, page, shown, panelOpen, cards, cardsLoaded>>

OnCreateWorkspaceClicked == OpenDialog([kind |-> "create", ws |-> "none"])

\* The buttons of a card; an entry deleted since the card was built opens no
\* dialog.
OnRenameWorkspace(i) ==
  cards[i] # 0 /\ GetWorkspace(i) /\ OpenDialog([kind |-> "rename", ws |-> i])

OnDeleteWorkspace(i) ==
  cards[i] # 0 /\ GetWorkspace(i) /\ OpenDialog([kind |-> "delete", ws |-> i])

\* The accept callback, or a cancel, or an empty name.  The entry may have
\* been edited or deleted while the dialog was open.
CloseDialog ==
  /\ phase = "loop"
  /\ dialog # NoDialog
  /\ dialog' = NoDialog
  /\ \/ dialog.kind = "create" /\ CreateWorkspace
     \/ dialog.kind = "rename" /\ UpdateWorkspace(dialog.ws)
     \/ dialog.kind = "delete" /\ DeleteWorkspace(dialog.ws)
     \/ UNCHANGED storeVars
  /\ OnWorkspacesChanged
  /\ UNCHANGED <<processVars, managerVars, page, shown, panelOpen>>

\* The windows go before the main loop ends.
WindowsClosed == page = "closed" /\ ~panelOpen /\ dialog = NoDialog

ViewStep ==
  \/ LoadPage
  \/ ClosePage
  \/ PageGetAllWorkspaces
  \/ PageSearchWorkspaces
  \/ PageBatchLaunchWorkspaces
  \/ PageGetAllTags
  \/ PageProxyTest
  \/ PageGetTemplates
  \/ PageSaveTemplate
  \/ PageDeleteTemplate
  \/ PageGetDashboardStats
  \/ \E w \in Ids : PageGetWorkspaceStatus(w)
  \/ PageCreateWorkspace
  \/ \E w \in Ids : PageUpdateWorkspace(w)
  \/ \E w \in Ids : PageDeleteWorkspace(w)
  \/ \E S \in SUBSET Ids : PageBatchDeleteWorkspaces(S)
  \/ \E w \in Ids : PageStopWorkspace(w)
  \/ \E S \in SUBSET Ids : PageBatchStopWorkspaces(S)
  \/ \E w \in Ids : PageLaunchWorkspace(w)
  \/ \E s \in starts, ok \in BOOLEAN : OnPageStarted(s, ok)
  \/ ToggleSidePanel
  \/ OnCreateWorkspaceClicked
  \/ \E i \in Ids : OnRenameWorkspace(i)
  \/ \E i \in Ids : OnDeleteWorkspace(i)
  \/ CloseDialog
=============================================================================
