----------------------------- MODULE Injection -----------------------------
(***************************************************************************)
(* From what an API client configures to what a page is told: a workspace  *)
(* is created, written to the store's file and read back, its child is     *)
(* launched, the commands are sent over CDP, and documents are loaded      *)
(* meanwhile.                                                              *)
(***************************************************************************)
EXTENDS CdpClient, PageEnvironment

CONSTANT Bodies   \* the JSON bodies of POST /api/workspaces

\* FindInt finds an int.
ASSUME BodiesAssumption ==
  \A b \in Bodies : Finds(b, "color") => b["color"] \in Int

VARIABLES
  body,    \* what the client configured
  ws       \* the workspace in the store

vars == <<cdpVars, body, ws>>

\* A time of creation within a millisecond.
Now == TicksPerMilli + 1

TypeOK ==
  /\ ClientTypeOK
  /\ DOMAIN ws = Fields
  /\ body \in Bodies

Init ==
  /\ ClientInit
  /\ body \in Bodies
  /\ \E seed \in Seeds :
       ws = ApplyBodyToWorkspace(CreateBasic("id", "w", "kFingerprint", seed, Now), body)

-----------------------------------------------------------------------------
Batch == CommandBatch(ws)

\* The main browser is restarted: SaveToDisk, then OnInitData.
Reload ==
  /\ pc = "idle"
  /\ ws' = FromDict(ToDict(ws))
  /\ UNCHANGED <<cdpVars, body>>

\* The child is launched and answers on its port.
Apply ==
  /\ SendCommands(Len(Batch))
  /\ UNCHANGED <<body, ws>>

\* What the session has set up in the child, gone with the session.
InEffect(method) ==
  \E i \in 1 .. count : Batch[i].method = method /\ opened /\ executed[i] = "ok"

Effect(method, none) ==
  IF InEffect(method)
  THEN Batch[CHOOSE i \in 1 .. count : Batch[i].method = method].params
  ELSE none

\* A script added before Page.enable is accepted and never run.
ScriptRuns ==
  \E i, j \in 1 .. Len(doneAt) :
    /\ i < j
    /\ Batch[doneAt[i]].method = "enable"
    /\ Batch[doneAt[j]].method = "script"
    /\ InEffect("enable") /\ InEffect("script")

\* The client has seen every command succeed and keeps the session.
Applied == result = "fd" /\ opened /\ \A i \in 1 .. count : answered[i] = "ok"

\* What a document is told that the page loads now.
Document ==
  [scripted  |-> ScriptRuns,
   metrics   |-> Effect("metrics", <<>>),
   timezone  |-> Effect("timezone", ""),
   switches  |-> BuildCommandLine(ws),
   props     |-> Evaluate(IF ScriptRuns THEN Effect("script", <<>>) ELSE <<>>)]

Next ==
  \/ Reload
  \/ Apply
  \/ (ClientStep \/ TargetStep) /\ UNCHANGED <<body, ws>>

Spec == Init /\ [][Next]_vars

\* The thread of SendCommands runs, and no call of it blocks for ever: its
\* sockets have timeouts.
FairSpec == Spec /\ WF_vars(ClientStep /\ UNCHANGED <<body, ws>>)

-----------------------------------------------------------------------------
(***************************************************************************)
(* Properties.                                                             *)
(***************************************************************************)

\* What the client takes for the result of a command is what came of that
\* command, however late, early or interrupted replies are.
AnswersAreReal == \A i \in 1 .. count : answered[i] \in {"none", executed[i]}

\* v has the settings of w, but for the part of a time below the millisecond.
SameSettings(v, w) ==
  \A k \in Persisted :
    v[k] # w[k] => k \in Times /\ TimeToString(v[k]) = TimeToString(w[k])

\* Writing the workspace to the file and reading it back changes nothing but
\* the part of a time below the millisecond: no setting falls back to its
\* default (ToDict leaves keys out, FromDict fills them in), and the colour
\* survives its cast to an int.
SettingsSurvive == [][SameSettings(ws', ws)]_vars

\* SendCommands returns, whatever the child does.
SendCommandsReturns == pc = "discover" ~> pc = "returned"

\* The texts that are not escaped, or half, are read as the texts they are.
ReadAsWritten(w) ==
  /\ ScriptParses(w)
  /\ Literal(JsPlatform(w["platform"])) = JsPlatform(w["platform"])
  /\ w["timezone"] # "" => Literal(EscapeQuotes(w["timezone"])) = w["timezone"]

\* A document loaded after the batch was applied sees what was configured, and
\* the rest of the script has run, whatever a reload of the store, the order of
\* the commands and of the script's statements do to it: the overrides of the
\* injector, the engine, the CDP emulation and the switches agree.  The platform
\* and the time zone have to be texts that survive in a literal: with another, a
\* quote in the platform for one, all commands succeed and no document sees
\* anything.  Of offsets it speaks where a zone has one; the table has but one
\* for a zone with two, and has the sign of Brazil/East wrong.
ConfiguredIsSeen ==
  Applied /\ ReadAsWritten(ws) =>
    LET doc == Document
        Set(k) == Finds(body, k)
        Sees(p, v) == p \in DOMAIN doc.props /\ doc.props[p] = v
    IN /\ doc.scripted /\ Sees("connection", "4g")
       /\ Set("platform") => Sees("platform", JsPlatform(body["platform"]))
       /\ Set("hardware_concurrency") /\ body["hardware_concurrency"] > 0 =>
            Sees("hardwareConcurrency", body["hardware_concurrency"])
       /\ Set("user_agent") /\ body["user_agent"] # "" =>
            /\ Sees("userAgent", body["user_agent"])
            /\ doc.switches.user_agent = body["user_agent"]
       /\ doc.metrics # <<>> =>
            /\ Sees("screen", doc.metrics)
            /\ doc.switches.window_size = doc.metrics
       /\ Set("timezone") /\ body["timezone"] # "" =>
            /\ doc.timezone = body["timezone"]
            /\ Sees("resolvedOptions", body["timezone"])
            /\ body["timezone"] \in DOMAIN UtcOffset \ {"Brazil/East"} =>
                 Sees("timezoneOffset", -UtcOffset[body["timezone"]])
       /\ Set("color_scheme") /\ body["color_scheme"] # "" =>
            Sees("prefersDark", body["color_scheme"] = "dark")
       /\ Set("gpu_vendor") /\ body["gpu_vendor"] # "" =>
            Sees("unmaskedVendor", body["gpu_vendor"])
=============================================================================
