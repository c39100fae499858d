# PureCloak: TLA+ models, model checking and proofs

PureCloak is a Chromium fork in which one *main browser* manages *workspaces*.
A workspace is a stored configuration (type, fingerprint, proxy, ...); launching
it starts a second browser process of its own, with its own user-data-dir and
its own CDP (remote debugging) port, which the main browser watches, configures
over CDP and stops. This directory models the main browser: the parts that carry
state and run concurrently with something (threads, child processes, the file
system, a restart), the front ends that call them, and the way a configuration
takes from an API request to what a page of a child is told. Paths below are
relative to `src/chromium_src/purecloak/`.

## Inventory

| Component | State it keeps | Operations | What is hard |
|---|---|---|---|
| Launcher, `browser/workspace_launcher.cc` | records of children, appliers | Start (asynchronous), Stop, StopAll, status queries | checks before, use after a thread-pool hop; unsequenced deletions; ports probed and bound at different times |
| Watchdog, `browser/workspace_launcher_watchdog.cc` | watched ids, poll timer | StartWatching, StopWatching, OnPoll | a timer stopped and started by others; crash detection racing stop and restart |
| Store, `browser/profiles/workspace_store.cc`, `store_provider.cc` | map of workspaces, one JSON file | create, rename, update, delete, load | calls before the load; write order; crash in the middle of a write; restarts |
| Profile applier, `browser/workspace_profile_applier.cc` | two timers, a WebSocket, a command batch, a callback | Apply, poll, send, health check, reconnect | overlapping checks, late replies, reconnection, destruction |
| CDP client, `content/cdp_websocket_client.cc` | a blocking call's position | discovery, handshake, command pipeline, framing | late and foreign replies, bounded reads, timeouts within a frame |
| REST API, `browser/api/workspace_api_server.cc`, `workspace_api_handler.cc` | server thread, requests under way | dispatch, twelve handlers, retried CDP requests | two threads, callbacks of launches, start-up and tear-down |
| CDP proxy, `browser/api/cdp_proxy_handler.cc` | sessions, sockets | upgrade, look-up, connect, handshake, relay, close | a look-up on another thread, handshakes in pieces, closing from either side |
| Page and its message handler, `browser/ui/webui/` | what the page was told, pending launches | seventeen messages, observers of manager | reloads, crashes, changes made elsewhere |
| Side panel, `browser/ui/views/side_panel/` | cards, an open dialog | create, rename, delete | cards and dialogs that outlive what they show |
| Workspace data, `browser/profiles/workspace.cc` | record of 31 fields | to and from JSON, API bodies | omitted keys, casts, values of a wrong type |
| Injector and engine, `content/profile_cdp_injector.cc`, `content/anti_detection/` | none | commands and script from the fields | order of commands, overrides that compete |
| Browser process, `browser/purecloak_browser_main_parts.cc`, `chrome/browser/chrome_browser_main.cc` | phase, API server | start-up, main loop, tear-down | requests before and after the main loop |
| Storage partitions, `content/storage_partition_controller.cc` | map of partitions | create, find, remove | not used by anything |
| Seed and PRNG, `common/` | a seed | read switches, draw | never initialised in the browser |
| Chromium patches (`src/patches`) | | | diffs against files outside the repository |

Interaction: the WebUI and the REST API call the store and the launcher on the
UI sequence. The launcher posts directory work to the thread pool, launches
children, registers them with the watchdog and gives each an applier. The
watchdog reports dead children back to the launcher, which tells its observers.
The store posts reads and writes to a sequence of its own. The applier posts
blocking socket work to the thread pool and gets replies through a `WeakPtr`.

What makes each part correct: a child is always reachable through its record,
the watchdog watches what runs, limits and ports are respected, nothing outlives
the manager (launcher); what a call returned stays true over restarts, no older
version returns (store); one socket, monitored, commands never lost, the caller
answered once (applier); one read at a time, no session without a client, nothing
relayed before the upgrade (proxy); every request answered once, deletions and
stops that hold for every front end, views that show what there is (front ends);
settings that survive the file, replies matched to commands, a document that sees
what was configured (injection).

## Modules

| Module | Content |
|---|---|
| `WorkspaceLauncher` | manager, watchdog, their pool tasks, children |
| `WorkspaceLifecycle` | abstract specification: statuses and the steps between them |
| `WorkspaceLauncher_proofs` | TLAPS proofs about the launcher |
| `WorkspaceStore` | store, file sequence, file, life of the browser process |
| `DurableMap` | abstract specification: the map the store is to callers that wait for the load |
| `WorkspaceStore_proofs` | TLAPS proofs about the store |
| `ProfileApplier` | applier, availability checks and sends in flight |
| `ProfileApplier_proofs` | TLAPS proofs about the applier |
| `CdpProxy` | proxy sessions, look-up, both directions; the manager is `WorkspaceLifecycle` |
| `CdpProxy_proofs` | TLAPS proofs about the proxy |
| `WorkspaceService` | browser process, API server, store and manager as the front ends meet them; the manager is `WorkspaceLifecycle` |
| `WorkspaceApi` | REST API: dispatch, handlers, their steps on two threads |
| `WorkspaceViews` | page, side panel, dialogs, observers |
| `FrontEnds` | composition of `WorkspaceApi` and `WorkspaceViews` on one `WorkspaceService` |
| `FrontEnds_proofs` | TLAPS proofs about the front ends |
| `WorkspaceData` | the record, its defaults and its JSON form (operators) |
| `PageEnvironment` | command line, CDP commands and script of a workspace (operators) |
| `PageEnvironment_proofs` | TLAPS proofs about the script and the batch of commands |
| `CdpClient` | `SendCommands` and the child's end of the connection |
| `Injection` | composition of `WorkspaceData`, `PageEnvironment` and `CdpClient` |
| `Injection_proofs` | TLAPS proofs about client and injection |
| `MC...` and `*.cfg` | instances for TLC |

Each module also holds a few definitions that are not used by its specification,
directly before the definition they vary: plausible bugs, each of which TLC
finds by one of the properties when put in its place (`mutants` in
`PROJECT.json`). They show that the properties can fail.

### WorkspaceLauncher

One action is one UI task; the UI sequence runs them one at a time.
`Start(r, w)` is the r-th call of `Start`, up to the posting of the directory
preparation; `PrepareDir(r)` is the pool task; its reply is one of
`ContinueStart(r)`, `LaunchFails(r)` and `StartAborted(r)` (dead `WeakPtr`).
`record` and `status` are `workspaces_`; `kStarting` and `kStopped` never survive
a UI task, so a record is running or crashed and "stopped" stands for no record,
as in `GetStatusDict`. `OnPoll` is a poll of all watched workspaces that finds
something; polls that find nothing change nothing. `Stop(w)` includes everything
the handler does: watchdog, signal, posted deletion, erasure. `DestroyManager` is
the destructor's `StopAll`. `RunDeletion(w)` runs a posted deletion; pool tasks
are not sequenced, so it runs at any time. Children (`ChildBinds`, `ChildExits`)
are outside the repository's code and owe nothing, except that a signalled one
exits. `ForeignPorts` are ports held by others: the API server's default port
9334 lies in the CDP range 9333-9352 itself.

`MaxPending` says how many calls of `Start` callers keep outstanding. Nothing in
the code limits it; `MaxPending = 1` describes callers that wait for each answer
and separates what the launcher guarantees by itself from what it guarantees
only to such callers.

### WorkspaceStore

A map from ids to absent or a record of type, creation time and update time; the
update time stands for every other field, and the number of the call stands for
the clock. `queue` is `file_task_runner_`, first in, first out. `RunRead` and
`OnInitData` are the two halves of the load, `RunWrite` writes a posted snapshot.
`Exit` is a regular exit, after which BLOCK_SHUTDOWN tasks still run; `Crash`
loses the queue and may tear the file, because `base::WriteFile` truncates and
writes in place; a failing write is reported to nobody. Ids come from
`GenerateId` and are new each time, as in every caller. `expected` and `past` are
history: what the calls that returned have made of the map (after a
crash or a last write that failed: what the file has), and every map a call has
made.

Callers may act before the load: none of them looks at `initialized_`. `early`
remembers that one did.

`DurableMap` has no queue, no file and no process: calls change a map whose entries
are created once and keep their type and creation time, a process that comes up is
shown the map, one that goes is not, and where something can fail the map may go
back to a version calls had made, while nobody is shown it. Its `contents` is
`expected`, its `view` is `Shown` (memory, once it is loaded). It promises nothing
after a call that did not wait.

### ProfileApplier

`checks` and `checked` count the availability checks under way and their
replies, `sends` and `sent` the same for `SendCommands`. The code bounds neither;
`MaxChecks` bounds the first in the model. What the child's endpoint answers is
free. `OnHealthCheck` includes `ReconnectCDP`. Running a `OnceCallback` that was
run before fails a CHECK: `aborted`. `lost` counts open sockets nobody holds.

### CdpProxy

One action is a task or a callback on the API thread, except `LookUpWorkspace`,
the task on the UI thread, whose reply is `ConnectToTarget` or `DropSession`.
The child's stream is a sequence of the pieces `OnTargetRead` looks for and of
frames; a read returns any prefix of it, so a header comes whole, in parts, or
with frames behind it. What was read of a partial header is not kept, as in the
code. `HasServer` is FALSE because nothing calls `set_server`; the mutant with TRUE
shows that wiring it up would put two reads on one socket (`OneRead`), since
`ForwardToClient` and `OnTargetRead` both start one. Statuses change by the steps
of `WorkspaceLifecycle`, which the launcher is proved to implement.

### WorkspaceService, WorkspaceApi, WorkspaceViews, FrontEnds

`phase` follows `PreMainMessageLoopRunImpl` to `PostDestroyThreads`: early exits,
the initial profile or the profile picker (which delays `PostProfileInit` and with
it the API server), the main loop, tear-down with the manager, and only then the
end of the API server. UI tasks run in the main loop and in the nested loop of a
first-run dialog. A request is the set of steps posted for it and not run
(`work`); a handler is its UI task, which works on store or manager and posts an
answer, a `StartCallback` or a CDP step. `RouteTable` lists the tests of
`DispatchRequest` in their order and `Route` takes the first that holds: GET
`/api/workspaces/export` is the id "export". A message of the page is one action
per handler; those that only read share a body. Observers run inside the task
that makes the change, so `ViewsNotified` is a conjunct of every UI step that is
not the views' own. A handler without JavaScript that gets the answer of a
launch fails a CHECK, which ends the process (`OnPageStarted`). The store keeps for
each id whether there is an entry and one bit that every edit flips; its file is
`WorkspaceStore`'s subject. `used`, `deleted` and `wanted` are history.

### WorkspaceData, PageEnvironment, CdpClient, Injection

A workspace is a function from field names to values, its JSON form a function
from keys; text is empty or not, a time counts fractions of a millisecond, which
the ISO form drops, and a colour has 8 bits instead of 32, so that the cast to a
signed int is visible. `Bad` is a JSON value of the wrong type. A script is the
sequence of its definitions: which property, which value, whether it can be
defined again, whether a failure is caught. `Evaluate` says without recursion what
JavaScript makes of such a sequence: a definition of a final property fails, an
uncaught failure ends the script, and of the statements that take effect the last
one for a property counts. Configured texts stand between single quotes:
`Literal` is what JavaScript reads of a text there and `EscapeQuotes` what the engine
does to a time zone before, both constants, so that the proofs hold for any; where
`Literal` is `NoLiteral` the whole script is a syntax error and defines nothing
(`ScriptParses`). The user agent and the names of the graphics card are escaped as
JSON, quotes too, and read back as they are. The offset table is the code's, in
minutes; `UtcOffset` is the time zone database's answer for the zones of the table
that have one offset all year. Which interfaces are hidden, and which place stands for
a zone, is left out, since no property depends on it. `EvaluateInterprets` in `MCInjection` compares it, when
TLC starts, with an interpreter that runs statement by statement, on every script
of up to three statements. `CdpClient` has one action per blocking call of `SendCommands`; the
child works on commands in order, answers at any time, sends events, pings,
malformed text and half frames, stalls, so that a send fails, and closes. A read that
times out within a frame loses the boundary; a later one may find it again. `Reload` in `Injection` is the round
trip through the store's file at a restart.

## Runs

| Run | Instance | Shows |
|---|---|---|
| `launcher_concurrent` | 2 workspaces, limit 1, 2 starts outstanding, 3 starts, 3 ports (1 foreign) | `WatchCoverage`, `CrashIsReal`, `SlotBound`, `NoLaunchAfterDestruction`, `ImplementsLifecycle` |
| `launcher_live` | 2 workspaces, limit 2, 1 outstanding, 3 starts, fairness | `NoOrphanProcess` for callers that wait; `CrashNoticed`, `EveryStartAnswered`, `ShutdownStopsChildren` |
| `launcher_ports` | violation | two running workspaces with one CDP port |
| `launcher_orphan` | violation | two children of one workspace, one unrecorded |
| `store` | 2 ids, 2 types, 4 calls, 3 runs of the browser, calls before the load, crashes, torn files, failing writes, fairness | `DiskWithinMemory`, `TypeLocked`, `ImplementsDurableMap`, `DiskNeverGoesBack`, `EventuallyLoaded` |
| `store_lost` | violation | a workspace lost after a call before the load |
| `applier` | 3 and 4 retries, 3 checks, fairness | `OneSocket`, `AlwaysACommand`, `SocketMonitored`, `NeverIdleUnanswered`, `ApplyAnswered`, `HangUpNoticed` |
| `applier_reconnect` | violation | the callback run twice after a reconnection |
| `proxy` | 2 connections, 1 frame and 1 message on each, fairness | `OneRead`, `NoZombieSession`, `NoPayloadBeforeUpgrade`, `CloseDuringHandshakeNoticed` |
| `proxy_relay` | violation | a frame of the child that never reaches the client |
| `frontends` | 1 followed id (others are created and not followed), 1 connection, every route and every rejection, fairness | `AnsweredOnce`, `StopSticks`, `NoResurrection`, `PanelFresh`, `PageFresh`, `EveryRequestAnswered` |
| `injection` | 7 request bodies, 2 reads for a reply, 1 frame that is none, fairness | `AnswersAreReal`, `SettingsSurvive`, `ConfiguredIsSeen`, `SendCommandsReturns` |

Deadlock is not checked: the numbers of starts, calls, frames and noise are
bounded, and an applier that gave up, a `SendCommands` that returned, or a browser
that stopped for good, is at rest.

Bounds. Two starts of one workspace, or of two, show every pairwise race of the
launcher; a third start is a restart after a stop or a crash of either. With two
workspaces, limit 1 is the one that matters (`launcher_concurrent`) and limit 2
the one that does not hide the check for a running workspace (`launcher_live`).
One of three ports is foreign, so the search skips a port and can run out of ports (children that were
signalled still listen). In the store, two ids are needed for an entry lost by
another's write, three runs of the browser for a loss that shows at the second
restart. In the applier, three checks allow replies left over from before a
reconnection to meet new ones, with fewer and with more retries than replies.
In the proxy, sessions share nothing but the manager, so two connections show
every interference; one frame may arrive with the header or after it. In the
front ends, races between two front ends need one request, one page and one
panel; one followed id suffices because every operation but the batch ones
touches a single entry, and those are folds of the single ones. In the
injection, two reads and one foreign frame are the least with which a reply
arrives in time, after other frames, and too late; the seven bodies leave
fields out, set them, empty them, get their types wrong, with a colour that is not the
default and has the sign bit set, and hold texts a JavaScript literal does not stand: a
quote in the platform, a quote and a backslash in the time zone.
Workspaces, ids and types are symmetric; symmetry is not used with liveness.

Fairness. While the process is not torn down, posted tasks and replies run,
running timers fire, blocking socket
calls end (their sockets have timeouts), signalled children exit, a browser that
went down is started again, a browser that is starting or leaving gets on with it.
The launcher's manager dies only at tear-down, where the pool skips tasks that have
only `MayBlock` and replies find no main loop: `WorkspaceLauncher` owes preparations,
their replies and deletions only while the manager lives, and `EveryStartAnswered`
excuses its end, when a callback may be dropped. In `FrontEnds` the UI thread's tasks are owed only in the main loop, the API
thread's only while the server exists: that is why `EveryRequestAnswered` excuses
a browser that goes away. Callers, healthy children, crashes and faults have no
fairness.

## What the violations show

The five violations are disagreements between the code and what the repository
says of it, with quotations in `PROJECT.json`:

* `launcher_ports`: the port is probed in `Start` and bound by the child much
  later; any start in between gets the same port.
* `launcher_orphan`: `Start` checks records, `ContinueStart`, one thread-pool hop
  later, does not check again. Callers that wait for their answers are safe
  (`launcher_live`, and proved). For the same reason the limit of running
  workspaces holds for such callers only (`SerialLimit`); `SlotBound` says by how
  much others can exceed it.
* `store_lost`: a call before the load saves a map without the entries still on
  disk; the merge in `OnInitData` restores them in memory and saves nothing.
* `applier_reconnect`: the `ApplyCallback` is moved out by the first answer and
  run again by the answer after a reconnection, as soon as a child died or closed
  its page.
* `proxy_relay`: `ForwardToClient` returns before it sends anything or starts the
  next read, because nothing sets its server.

Met while modelling, in the models as behaviour, and not stated by a run:

* `Stop` deletes the user-data-dir asynchronously, unsequenced with the
  preparation of the next `Start` of the same workspace (`RunDeletion` may come
  after `ContinueStart`).
* Deleting a workspace does not stop its child, although the API's design document
  says so; a launch while the page is reloaded ends in a failed CHECK; GET
  `/api/workspaces/export` is answered by the handler for a single workspace, and
  the export handler has no other route.
* `batchLaunchWorkspaces` of the page reports launches it does not make; templates
  and the proxy test are placeholders.
* The injected script sets `navigator.languages` to en-US whatever the locale;
  with only one screen dimension configured the script falls back for the other
  and the CDP override is not sent; the extension filter blocks the prefixes of
  every vendor, where its comment keeps the spoofed vendor's. `ConfiguredIsSeen`
  claims nothing about these.
* The offset table has one offset per zone, so a page in a zone with summer time
  reads an offset that disagrees with the emulated time zone for half of the year;
  Brazil/East has the sign wrong (lemma `BrazilEastIsWrong`), against the comment at
  the table.
* The platform is put into the script unescaped, and in the time zone only quotes
  are escaped: a quote or a backslash makes the whole script a syntax error. Every
  command succeeds, and no document sees any of the settings.
* A crashed workspace keeps its place under the limit until `Stop` is called.
* A panel opened before the load stays empty until the next change.

## Proofs

TLAPS checks the theorems for every value of the constants: any workspaces,
ports, limits, connections, requests, bodies, and any numbers of starts, calls,
runs of the browser, retries, frames and reads. Every safety invariant and action
property of the passing runs is proved, and so are the three refinements: launcher
and front ends implement `WorkspaceLifecycle`, the store implements `DurableMap`.
Nothing is assumed of `Literal`, `NoLiteral` and `EscapeQuotes`. The assumptions are
named in the modules and TLC evaluates them:

| Assumption | Says | Why |
|---|---|---|
| `LauncherAssumption`, `ApplierAssumption`, `ProxyAssumption`, `ClientAssumption` | bounds are natural numbers, workspaces finite, at least one read for a reply | types of the constants |
| `StoreAssumption` | the same; at least one run of the browser | the first run is the initial state |
| `MarkerAssumption` | `Absent`, `NoFile`, `NoReply` are no entries and no maps | the markers stand for what the code tells apart by types |
| `BadAssumption` | `Bad` is no text the code writes, no number, flag or list of numbers | it stands for a JSON value of a wrong type |
| `BodiesAssumption` | a colour that is found in a body is an integer | `FindInt` finds nothing else |

*Launcher.* `LauncherInv` is inductive: types, `WatchCoverage` and `CrashIsReal`,
strengthened by `RecordStatus` (a record exists exactly where the status is not
"stopped", and none without a manager) and `StartProgress` (a call under way
names a workspace and has no child). Without the former, `Stop` would not be known
to stop watching exactly what it erases; without the latter, a launch could
replace a crashed child's record by one that is not running. From it follow
`TypeCorrect`, `WatchCorrect`, `NoFalseAlarm`, `DestroyedLaunchesNothing` and
`LauncherImplementsLifecycle` (every step is a step of the abstract specification
or a stutter; the mapping is the identity on status and liveness of the manager).
`SlotsBounded` adds cardinalities: a start is admitted only below the limit, and
at most `MaxPending` are under way. `SerialLimit` and `SerialNoOrphan` assume
`MaxPending = 1`; the latter needs `SerialInv`: the workspace of the one start
under way is not running, so its record is free to be overwritten.

*Applier.* `ApplierInv` adds to the four safety properties `Phases`
(`commands_started_` separates polling from sending and holding a socket, and
nothing is under way before `Apply`) and `Batch` (the commands are with the
applier while it polls and saved once sent). With them a late "available" answer
is either ignored or finds the applier with its commands and without a socket.

*Store.* All results rest on `StoreInv`. The file is written by tasks that run
later, so the properties of memory and file are not inductive by themselves: a
write replaces the file by whatever was posted. `QueueShape` says that the read is
posted first and its reply comes once. `SnapshotWithinMemory` is
`DiskWithinMemory` moved from the file to the last snapshot in the queue, with the
case in which the load is still to come (memory untouched, or already posted, which
the merge keeps). `SnapshotIsExpected` does the same for `KeepsEverything`: what
memory, or else the file once the queue is empty, will hold is what the calls made.
`EntriesKnown`, `PastLocked` and `PastBounded` say that all maps on their way are
made of entries some call made, that their versions agree on type and creation time
and that none is from the future: without them a reply or a queued write could bring
in anything, and `TypeLocked` would fail at the next load. `SnapshotsInOrder` (the
file, the snapshots in their order and memory, each not older than the one before)
gives `DiskNeverGoesBack`; it compares all pairs because the relation is not
transitive over deletions. The parts about callers that wait for the load
hold under `~early`, as the properties do; `store_lost` shows why.

`StoreImplementsDurableMap` goes through the actions. A call of the store is the
call of the map with the same name because `SnapshotIsExpected` makes memory and
`expected` the same, and a creation uses a new id because every map in `past` is
made of entries calls made. Posting, writing and reading change nothing the map
shows; `OnInitData` is its `Load`, again by `SnapshotIsExpected`. The step that needs
more is a crash or a failed write at the end of a run, when `expected` becomes what
the file has: `SnapshotsAreVersions` says that the file and every snapshot in the
queue are whole maps that calls had made, so that `Lose` never leaves a mix of two.

*Proxy.* `ProxyInv` adds to the properties that only a connected socket is read
(`Reads`), without which the first read after a connection could be a second one,
and `Accepted`: a 101 that is on its way, a completed handshake or a relayed
message each imply that the child has accepted. The proof of `OneRead` uses that
`HasServer` is FALSE, which is a definition of the model as it is a fact of the code.

*Front ends.* Some fifty actions share a few effects. `NextEffects` shows that every
step does one of five things to the store, one of seven to the manager, one of four
to what is under way for a request, one of three to the panel and one of six to the
page; each part of `FrontEndsInv` is then proved from the effects it depends on.
The parts beyond the properties: one step at most is under way for a request
and none once it was answered (`OneStep`, of which `AnsweredOnce` is the count); a
pending start is wanted (`StartsWanted`), else its success would break
`StopSticks`; ids are not given out twice and the entries of a file that is not
loaded are neither in memory nor deleted (`Ledger`), else the load could bring back
what was deleted; cards built from a loaded store (`CardsLoaded`); a page without
JavaScript knows nothing, and none is open outside the main loop (`PageKnows`), so
that no status changes behind its back at tear-down. The manager effects also give
`FrontEndsImplementLifecycle`: each is a step of the lifecycle or leaves it alone, the
batch stop being its stop of a set. It needs `ManagerThere`: the manager exists
until `PostMainMessageLoopRun` and leaves nothing running, so that starts, stops and
crashes all find one and that step is its close.

*Injection.* `InjectionInv` has two halves. The exchange: commands are sent,
received and worked on in the order of the batch, each at most once (`InOrder`),
so that the result of a command does not change after its reply was written, and
replies on their way carry the result of the command they name (`RepliesAreReal`);
hence `InjectionAnswersAreReal`. The data: every setting has a value its member can
have (`Typed`) and what the client configured is in the workspace
(`StoredAsConfigured`); `RoundTrip` shows field by field that `FromDict` inverts
`ToDict` on such values, with defaults for keys left out, the colour's cast, and
times. Times need care: one of less than a millisecond after the null time would be
read back as the null time, and lost at the next write; `Typed` says that there is
none, as the clock is later than that. After a success the script, the user agent
and the time zone of the configuration are in effect in the child (lemma
`AppliedIsInEffect`, which uses that Page.enable comes first in the batch and the
script last). What the script then does is `ScriptTellsSettings`; it asks for a seed
that is not 0, which `Seeded` provides, since a workspace without one gets none of the
engine's protections, and for a script without a syntax error. Together they give
`InjectionConfiguredIsSeen`, for workspaces whose platform and time zone read as
written (`ReadAsWritten`). `TableIsRight` compares the offset table with the time
zone database, zone by zone.

*Script.* Injector and engine override the same properties twice, and a final
property that is defined again is an error, which ends the script unless it is
caught. `PageEnvironment_proofs` calls a sequence of statements a *part* when all
of them agree with the workspace, whatever is final is defined within try
everywhere, and `mediaDevices` is not touched. Every generator but WebRTC's returns a
part; that one makes `mediaDevices` final without try, which is harmless because
nothing defines it before (`Script`: at most one such statement). Parts and one
script, joined in any order, are a script. In a script no failure is uncaught, so
the first definition of each property takes effect, a last one that takes effect
exists, and it has the value on which all agree (`Seen`). First and last positions
exist because the natural numbers are well-founded, for which the library has a
theorem (`WFMin`); no induction over sequences is needed.

Only model-checked: liveness (`CrashNoticed`, `EveryStartAnswered`,
`ShutdownStopsChildren`, `EventuallyLoaded`, `ApplyAnswered`, `HangUpNoticed`,
`CloseDuringHandshakeNoticed`, `EveryRequestAnswered`, `SendCommandsReturns`), which
is out of the provers' reach, and the agreement of `Evaluate` with the interpreter,
which is recursive. `KeepsEverything` and the front ends' `ImplementsLifecycle` are the
other way round: proved, and not checked by a run, the former because
`ImplementsDurableMap` says more.

## Plan

Done: launcher with watchdog and abstract lifecycle, store with its abstract map,
applier, proxy, front ends on store and manager, client and injection; their runs;
proofs of every safety property and refinement.

Left:

1. A run for the deletion of a running workspace, in the place of a weaker one.
2. The store of `WorkspaceService` as an instance of `DurableMap`, as the manager
   already is one of `WorkspaceLifecycle`; the front ends do not wait for the load,
   so the abstract map would first have to say what it promises them.

## Not modelled

The storage partition controller, which nothing calls; the seed, which only tests
initialise; the text of scripts, command lines, dictionaries and responses beyond
what they define; layout of page, panel and dialogs; masking and lengths of
WebSocket frames, and how `base::Time` parses a time; `HandleExportWorkspaces`,
which cannot be reached; `WorkspaceStore::VerifyType`, `Flush` and
`GenerateDeviceMemoryProtector`, which have no callers; the humanize engine, which
is not in the repository; the Chromium patches, which change files that are not in
the repository; the parts of Chromium's own files that do not decide when
PureCloak's objects exist; stubs, branding and build scripts. Process ids, their
reuse and unreaped children are the operating system's.
