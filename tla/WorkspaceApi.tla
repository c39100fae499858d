---------------------------- MODULE WorkspaceApi ----------------------------
(***************************************************************************)
(* WorkspaceApiHandler (workspace_api_handler.cc): HTTP requests on the    *)
(* API thread.  A handler posts a task to the UI thread, which works on    *)
(* the store or the manager and posts the answer back to the API thread.   *)
(*                                                                         *)
(* What is under way for a request is a set of steps: tasks posted, the    *)
(* StartCallback, or an answer on its way to the API thread.               *)
(***************************************************************************)
EXTENDS WorkspaceService

CONSTANT Requests   \* the HTTP requests clients make

VARIABLES
  request,   \* where the request of each connection was routed, and the id in
             \* its path, while a step looks at them
  work,      \* steps posted for it and not run yet
  answers    \* how many responses the last request has got

apiVars == <<request, work, answers>>

NoRequest == [to |-> "none", ws |-> "none"]
Steps == {"ui", "retry", "retry ui", "start", "forward", "200", "400", "404"}

ApiInit ==
  /\ request = [r \in Reqs |-> NoRequest]
  /\ work = [r \in Reqs |-> {}]
  /\ answers = [r \in Reqs |-> 0]

-----------------------------------------------------------------------------
(***************************************************************************)
(* Dispatch.                                                               *)
(***************************************************************************)

\* Paths are sequences of segments, as ParsePath splits them.  A pattern
\* matches with "*" for any segment; "cdp" takes any method and tail.
RouteTable ==
  << [method |-> "GET",    path |-> <<"api", "status">>, to |-> "system status"],
     [method |-> "GET",    path |-> <<"api", "workspaces">>, to |-> "list"],
     [method |-> "POST",   path |-> <<"api", "workspaces">>, to |-> "create"],
     [method |-> "GET",    path |-> <<"api", "workspaces", "*">>, to |-> "get"],
     [method |-> "PUT",    path |-> <<"api", "workspaces", "*">>, to |-> "update"],
     [method |-> "DELETE", path |-> <<"api", "workspaces", "*">>, to |-> "delete"],
     [method |-> "POST",   path |-> <<"api", "workspaces", "*", "launch">>, to |-> "launch"],
     [method |-> "POST",   path |-> <<"api", "workspaces", "*", "stop">>, to |-> "stop"],
     [method |-> "GET",    path |-> <<"api", "workspaces", "*", "status">>, to |-> "status"],
     [method |-> "GET",    path |-> <<"api", "workspaces", "export">>, to |-> "export"],
     [method |-> "POST",   path |-> <<"api", "workspaces", "import">>, to |-> "import"],
     [method |-> "any",    path |-> <<"api", "workspaces", "*", "cdp">>, to |-> "cdp"] >>

Matches(q, e) ==
  /\ \/ q.method = e.method /\ Len(q.path) = Len(e.path)
     \/ e.method = "any" /\ Len(q.path) >= Len(e.path)
  /\ \A k \in 1 .. Len(e.path) : e.path[k] \in {"*", q.path[k]}

\* DispatchRequest: the first test that holds decides.
Route ==
  [q \in Requests |->
     LET hits == {k \in 1 .. Len(RouteTable) : Matches(q, RouteTable[k])}
         first == CHOOSE k \in hits : \A j \in hits : k <= j
     IN IF hits = {} THEN "none" ELSE RouteTable[first].to]

\* Requests answered on the API thread itself: no token, no route, no usable
\* body.
Rejected ==
  {q \in Requests : \/ q.auth = "bad"
                    \/ Route[q] = "none"
                    \/ Route[q] = "create" /\ q.body # "named"
                    \/ Route[q] = "import" /\ q.body # "list"}

\* The third segment of the path.
WsIdOf(q) == IF Len(q.path) >= 3 THEN q.path[3] ELSE "none"

ApiTypeOK ==
  /\ request \in [Reqs -> [to : {"none"} \cup {Route[q] : q \in Requests},
                          ws : {"none"} \cup {WsIdOf(q) : q \in Requests}]]
  /\ work \in [Reqs -> SUBSET Steps]
  /\ answers \in [Reqs -> Nat]

\* SendError, as the one response of a request that dispatch rejects.
SendError(r) == answers' = [answers EXCEPT ![r] = 1]

\* SendJson: one response.
SendJson(r) == answers' = [answers EXCEPT ![r] = @ + 1]

OnHttpRequest(r, q) ==
  /\ ServerUp
  /\ work[r] = {}
  /\ \/ /\ q \in Rejected
        /\ SendError(r)
        /\ UNCHANGED <<request, work>>
     \/ /\ q \notin Rejected
        /\ answers' = [answers EXCEPT ![r] = 0]
        /\ request' = [request EXCEPT ![r] = [to |-> Route[q], ws |-> WsIdOf(q)]]
        /\ work' = [work EXCEPT ![r] = {"ui"}]
  /\ UNCHANGED serviceVars

-----------------------------------------------------------------------------
(***************************************************************************)
(* The handlers' tasks on the UI thread.                                   *)
(***************************************************************************)

WsId(r) == request[r].ws

\* Step s of r runs and posts the steps in S.
Run(r, s, S) ==
  /\ s \in work[r]
  /\ work' = [work EXCEPT ![r] = (@ \ {s}) \cup S]
  /\ request' = IF "retry" \in S \/ s = "retry" THEN request
                ELSE [request EXCEPT ![r] = NoRequest]
  /\ UNCHANGED answers

\* The UI task of a request routed to handler h.
UiTask(r, h, S) ==
  /\ UiRuns
  /\ "ui" \in work[r]
  /\ request[r].to = h
  /\ Run(r, "ui", S)
  /\ UNCHANGED processVars

FoundOr(r, code) == IF GetWorkspace(WsId(r)) THEN "200" ELSE code

HandleGetAllWorkspaces(r) ==
  UiTask(r, "list", {"200"}) /\ UNCHANGED <<managerVars, storeVars>>

HandleCreateWorkspace(r) ==
  UiTask(r, "create", {"200"}) /\ CreateWorkspace
    /\ UNCHANGED managerVars

\* RespondWithWorkspace answers 404 for an empty result.
HandleGetWorkspace(r) ==
  UiTask(r, "get", {FoundOr(r, "404")}) /\ UNCHANGED <<managerVars, storeVars>>

HandleUpdateWorkspace(r) ==
  UiTask(r, "update", {FoundOr(r, "404")}) /\ UpdateWorkspace(WsId(r))
    /\ UNCHANGED managerVars

\* RespondWithStatus answers 400 for a failure.
HandleDeleteWorkspace(r) ==
  UiTask(r, "delete", {FoundOr(r, "400")}) /\ DeleteWorkspace(WsId(r))
    /\ UNCHANGED managerVars

\* A branch for a missing workspace that returns without an answer.
LaunchNotFoundSilently(r) ==
  /\ UiTask(r, "launch", {})
  /\ ~GetWorkspace(WsId(r))
  /\ UNCHANGED <<managerVars, storeVars>>

LaunchNotFound(r) ==
  /\ UiTask(r, "launch", {"400"})
  /\ ~GetWorkspace(WsId(r))
  /\ UNCHANGED <<managerVars, storeVars>>

\* The answer is the StartCallback's, which Start may run itself.
HandleLaunchWorkspace(r) ==
  LET Found(S) == UiTask(r, "launch", S) /\ GetWorkspace(WsId(r))
  IN \/ LaunchNotFound(r)
     \/ Found({"200"}) /\ StartAnswersOk(WsId(r)) /\ UNCHANGED storeVars
     \/ Found({"400"}) /\ StartRefuses(WsId(r)) /\ UNCHANGED storeVars
     \/ Found({"start"}) /\ StartProceeds(r, WsId(r)) /\ UNCHANGED storeVars

OnStarted(r, s, ok) ==
  /\ s.by = r
  /\ StartEnds(s, ok)
  /\ Run(r, "start", {IF ok THEN "200" ELSE "400"})
  /\ UNCHANGED <<processVars, storeVars>>

\* A stop that only answers.
HandleStopWorkspaceNot(r) ==
  UiTask(r, "stop", {"200"}) /\ wanted' = wanted \ {WsId(r)}
    /\ UNCHANGED <<status, open, starts, storeVars>>

\* Always "stopped", whatever there was to stop.
HandleStopWorkspace(r) ==
  UiTask(r, "stop", {"200"}) /\ Stop(WsId(r)) /\ UNCHANGED storeVars

HandleGetWorkspaceStatus(r) ==
  UiTask(r, "status", {"200"}) /\ UNCHANGED <<managerVars, storeVars>>

HandleSystemStatus(r) ==
  UiTask(r, "system status", {"200"}) /\ UNCHANGED <<managerVars, storeVars>>

\* Every entry of the list with a name gets an id of its own; the others are
\* skipped.
HandleImportWorkspaces(r) ==
  /\ UiTask(r, "import", {"200"})
  /\ \E S \in SUBSET (Ids \ used) : CreateAll(S)
  /\ UNCHANGED managerVars

-----------------------------------------------------------------------------
(***************************************************************************)
(* HTTP requests for the CDP endpoint of a child.                          *)
(***************************************************************************)

IsRunning(r) == WsId(r) \in Ids /\ status[WsId(r)] = "running"

\* A branch for a workspace that is not running that lacks its return.
CdpStepsBoth(r) == IF IsRunning(r) THEN {"forward"} ELSE {"retry", "forward"}

CdpSteps(r) == IF IsRunning(r) THEN {"forward"} ELSE {"retry"}

HandleCDPRequest(r) ==
  UiTask(r, "cdp", CdpSteps(r)) /\ UNCHANGED <<managerVars, storeVars>>

\* RetryCDPRequest on the API thread posts the second look, a second later.
RetryCDPRequest(r) ==
  /\ ServerUp
  /\ Run(r, "retry", {"retry ui"})
  /\ UNCHANGED serviceVars

SecondLook(r) ==
  /\ UiRuns
  /\ Run(r, "retry ui", {IF IsRunning(r) THEN "forward" ELSE "400"})
  /\ UNCHANGED serviceVars

\* The API thread ends step s of r with a response.
AnswerStep(r, s) ==
  /\ ServerUp
  /\ s \in work[r]
  /\ work' = [work EXCEPT ![r] = @ \ {s}]
  /\ SendJson(r)
  /\ UNCHANGED <<request, serviceVars>>

\* The API thread talks to the child and blocks meanwhile.  Whatever comes of
\* it is a response: 500 without a socket, 502 without a connection or without
\* data, else the child's own status.
ForwardToChild(r) == AnswerStep(r, "forward")

\* RespondWithWorkspaceList, RespondWithWorkspace and RespondWithStatus.
Respond(r, code) == AnswerStep(r, code)

-----------------------------------------------------------------------------
UiStep(r) ==
  \/ HandleGetAllWorkspaces(r)
  \/ HandleCreateWorkspace(r)
  \/ HandleGetWorkspace(r)
  \/ HandleUpdateWorkspace(r)
  \/ HandleDeleteWorkspace(r)
  \/ HandleLaunchWorkspace(r)
  \/ HandleStopWorkspace(r)
  \/ HandleGetWorkspaceStatus(r)
  \/ HandleSystemStatus(r)
  \/ HandleImportWorkspaces(r)
  \/ HandleCDPRequest(r)
  \/ SecondLook(r)

ApiStep(r) ==
  \/ RetryCDPRequest(r)
  \/ ForwardToChild(r)
  \/ \E code \in {"200", "400", "404"} : Respond(r, code)
=============================================================================
