----------------------------- MODULE FrontEnds -----------------------------
(***************************************************************************)
(* The REST API, the page and the side panel on the store and the manager  *)
(* they share, over the life of the browser process.                       *)
(***************************************************************************)
EXTENDS WorkspaceApi, WorkspaceViews

vars == <<serviceVars, apiVars, viewVars>>

TypeOK == ServiceTypeOK /\ ApiTypeOK /\ ViewsTypeOK

Init == ServiceInit /\ ApiInit /\ ViewsInit

\* The process: the main loop ends when the windows are gone.
ProcessStep ==
  /\ \/ LeaveEarly
     \/ CreateInitialProfile
     \/ ShowProfilePicker
     \/ CallPostProfileInit
     \/ RunMainMessageLoop
     \/ QuitMainMessageLoop /\ WindowsClosed
     \/ PostMainMessageLoopRun
     \/ PostDestroyThreads
  /\ UNCHANGED <<apiVars, viewVars>>

ServiceStep ==
  /\ OnInitData \/ \E S \in SUBSET Ids : OnPoll(S)
  /\ ViewsNotified
  /\ UNCHANGED apiVars

RequestArrives ==
  \E r \in Reqs, q \in Requests : OnHttpRequest(r, q) /\ UNCHANGED viewVars

RequestUiStep(r) ==
  /\ UiStep(r) \/ \E s \in starts, ok \in BOOLEAN : OnStarted(r, s, ok)
  /\ ViewsNotified

RequestApiStep(r) == ApiStep(r) /\ UNCHANGED viewVars

Next ==
  \/ ProcessStep
  \/ ServiceStep
  \/ RequestArrives
  \/ \E r \in Reqs : RequestUiStep(r)
  \/ \E r \in Reqs : RequestApiStep(r)
  \/ ViewStep /\ UNCHANGED apiVars

Spec == Init /\ [][Next]_vars

\* Posted tasks run: those of the UI thread while the main loop does, those of
\* the API thread while the server exists.  A browser that is starting ends up
\* in its main loop or leaves, and one that leaves gets to its end.
Fairness ==
  /\ \A r \in Reqs : WF_vars(phase = "loop" /\ RequestUiStep(r))
  /\ \A r \in Reqs : WF_vars(RequestApiStep(r))
  /\ WF_vars(phase # "loop" /\ ProcessStep)

FairSpec == Spec /\ Fairness

-----------------------------------------------------------------------------
(***************************************************************************)
(* Properties.                                                             *)
(***************************************************************************)

\* A request gets at most one response, and nothing is left to do for it
\* after that: no branch of a handler both answers and goes on, not even
\* through a retry or a StartCallback (DispatchRequest and the handlers).
AnsweredOnce ==
  \A r \in Reqs : answers[r] + Cardinality(work[r]) <= 1

\* Every request that got through dispatch is answered, unless the browser
\* goes away first.
EveryRequestAnswered ==
  \A r \in Reqs : work[r] # {} ~> (answers[r] > 0 \/ ~ServerUp)

\* A workspace that was stopped stays stopped until somebody starts it again:
\* only a Start that was pending when the stop came may still bring it up
\* (Stop returns early when it finds no record).
StopSticks == \A w \in Ids : status[w] = "running" => w \in wanted

\* Nothing brings a deleted workspace back: not a dialog opened before, not an
\* update on its way from an API client.
NoResurrection == \A i \in deleted : store[i] = 0

\* The cards of the panel are what the store holds, whoever changed it, unless
\* they were built before the store was loaded and no change came since.
PanelFresh == panelOpen /\ cardsLoaded = loaded => cards = store

\* To the front ends the manager is what WorkspaceLifecycle promises, whichever of
\* them call it: a workspace comes up only from a status that is not running and
\* only while the manager exists, several may be stopped or crash at once, and
\* nothing changes once the profile is gone.
ImplementsLifecycle == Manager!Spec

\* What the page was told of a workspace is what the manager says of it, even
\* when an API client or a crash changed it.
PageFresh == \A w \in Ids : shown[w] \in {"unknown", status[w]}
=============================================================================
