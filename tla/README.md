# TLA+ models of the terminal-app relay network

This directory specifies how the repository moves commands, results and remote
requests between a controller, the relay and a Windows agent, checks it with TLC
on small instances and proves its safety properties for all instances with TLAPS.

    tlc -config AgentWorkerSingle.cfg MCAgentWorker     # a run of PROJECT.json
    tlapm AgentWorkerProofs.tla                         # the proofs of a module

`PROJECT.json` lists the components, the runs, which source lines each
definition stands for, the findings, the hazards and the theorems.

## 1. The system

| Component | State it keeps | Operations | Talks to |
|---|---|---|---|
| Agent queue (`agent/internal/store`) | SQLite: `CommandQueue` (status, attempts, created), `ResultQueue` (exit code, synced) | `Enqueue`, `EnqueueWithID`, `ClaimNext`, `Complete`, `Requeue`, `SaveResult`, `RecoverStale`, `ListUnsyncedResults`, `MarkResultSynced` | worker, relay client |
| Agent worker (`agent/internal/worker`, `executor`) | the claimed command and its exit code, in memory | `Run`, `RunOnce`, `Drain` | queue; `onResult` callback into the relay client |
| Agent process (`cmd/terminal-agent`, `service`) | which goroutines run | start (`RecoverStale`), stop, service restart | everything on the agent |
| Relay client (`agent/internal/netclient`) | connection, send channel (64), kept across connections | `connectAndServe`, `readLoop`, `writePump`, `performSync`, `ReportResult` | relay hub over WebSocket |
| Hub, command delivery (`internal/hub`) | `agents`, `controllers`, a send channel per connection | `handleAuth`, `handleEnqueueCmd`, `EnqueueDirect`, `flushPendingCommands`, `handleCmdResult`, `handleSyncReq`, `unregister` | relay store, agents, controllers |
| Hub, device liveness (`internal/hub`) | `Devices.Status`, `LastHeartbeat` | `handleHeartbeat`, `livenessTracker`, registration, `unregister`, `handleGetDevices` | relay store, controllers |
| Hub, registry and ownership (`internal/hub`, `internal/store`) | `agents`, `controllers`, `Client.userID`, `Devices.UserId` | `handleAuth`, `BindDeviceToUser`, `unregister`, `broadcastDeviceResult` | relay store, agents, controllers |
| Hub, request routing (`internal/hub`) | `CloudFileCache`, `AuditLogs` | `routeToAgent`, `routeToControllers` | agents, controllers, relay store |
| Predefined responder and cloud sandbox (`internal/hub`) | none of its own | `tryExecutePredefinedOffline`, `executeCloudSandbox` | relay store |
| Relay store (`internal/store`) | SQLite or Supabase: command and result queues, devices, users, audit log, telemetry, file cache | one statement or request per method | hub, web |
| HTTP API and runner (`internal/web`, `internal/runner`) | none of its own | REST handlers, start-up | hub, store |
| Files, processes, screen (`agent/internal/filemgr`, ...) | none | request and response | hub routes both ways |

What makes it hard:

* **Concurrency.** At the relay each connection has its own reader goroutine that
  runs its handlers to the end; a command's handler runs in the reader of the
  *controller* (or in an HTTP handler) and sends on the *agent's* channel. Only
  the maps of the hub are under `h.mu`; the store is changed outside of it, one
  statement at a time. The tracker is one more goroutine.
* **Loss.** A full send channel drops a message; a broken connection loses what
  is in the channel and on the wire. Nothing is sent again on the same
  connection; `performSync` and `flushPendingCommands` run once per connection.
* **Crash.** The agent's queue survives a crash; what `RunOnce` has in local
  variables does not. The relay's store survives; its maps and channels do not.
* **Duplication.** A command can reach the agent by live dispatch, by the flush
  and by `SYNC_RESP`; a result can reach the relay by `CMD_RESULT` and
  `SYNC_REQ`.
* **Limits.** The relay reads messages up to 16 MB, the agent up to 10 MB, and
  a file is sent up to 50 MB: what is between ends a connection.
* **Accounts.** A device belongs to the account of the token its agent has sent
  last; the token changes when the installer runs again, and what was sent with
  the old one may be handled late.
* **Sharing.** `terminal-agent run --drain` may work on the queue file of the
  running service.

## 2. The modules

| Module | Models | Used by |
|---|---|---|
| `AgentWorker` | the agent's queue file and any number of agent processes on it | `CommandDelivery`, the proofs |
| `CommandJob` | abstract: the life cycle the queue promises for a command | `AgentWorker` (`Job == INSTANCE CommandJob WITH ...`) |
| `CommandDelivery` | extends `AgentWorker` with the relay's queue, hub, connections, the relay client, faults | |
| `DeviceLiveness` | the status of a device: registration, heartbeats, `unregister`, tracker, polled lists | |
| `HubRegistry` | the connections of a device, its account, the connected controllers, the agent's side of a connection | `RequestRouting` |
| `RemoteOperation` | abstract: what is promised about a request to a device | `RequestRouting` (`Promise == INSTANCE RemoteOperation WITH ...`) |
| `RequestRouting` | extends `HubRegistry` with requests, responses, the agent's operations, the file cache and the audit log | |
| `AgentWorkerProofs` | theorems about `AgentWorker` | `CommandDeliveryProofs` |
| `CommandDeliveryProofs` | theorems about `CommandDelivery` | |
| `DeviceLivenessProofs` | theorems about `DeviceLiveness` | |
| `RequestRoutingProofs` | theorems about `HubRegistry` and `RequestRouting`: types, accounts, the refinement | `FileCacheProofs` |
| `FileCacheProofs` | the order of responses and the file cache of `RequestRouting` | |
| `MCAgentWorker`, `MCCommandDelivery`, `MCDeviceLiveness`, `MCRequestRouting` | instances for TLC | the runs |

Definitions named `X_Something` before a definition `X` are variants of `X` with
a plausible bug; each shows that a property can fail. They are not part of any
specification.

### AgentWorker

`status`, `attempts`, `createdAt` are the columns of `CommandQueue` (`"NONE"`: no
row), `result[c][k]` is the row of `ResultQueue` that attempt `k` of `c` has
written. `pc`, `cur`, `att`, `exit` are where a process is in `RunOnce` and its
local variables. `executed` and `reported` are history: calls of `exec.Run` and
of `onResult`.

`RunOnce` is cut at each statement on the file: `ClaimNext` (one transaction),
`Execute`, `SaveResult`, `Settle` (`Complete` or `Requeue`), `OnResult`. A
process may stop between any two. `StoreError` is a statement that fails: each
caller treats the error as the code does (`SaveResult`'s error makes `RunOnce`
return and leaves the row `EXECUTING`; those of `Complete` and `Requeue`, and
that of `SaveResult` for an undecodable payload, are ignored; that of
`RecoverStale` is logged). Failing `ClaimNext` and `Enqueue` change nothing and
are stuttering steps. An exit code is `zero` or `nonzero`; not started and timed
out are `-1` in the code, so `nonzero`. Times are seconds, as in the `CreatedAt`
column; ids are numbers because the column's order decides ties.

`CommandJob` says: submitted once, tried at most `MaxAttempts` times, ends once,
as `done` after a try or as `failed` when tries are used up or the payload
cannot be decoded, and never changes again. `PENDING` and `EXECUTING` both map
to `open`.

### CommandDelivery

One device, with the agent process of `AgentWorker`. Each command has a handler
(`handler`, `found`), each connection a reader at the relay (`reader`, `work`).
The code of a handler is cut where another goroutine can see a difference the
properties care about: before and after each `Send`, before and after each
look-up of a connection. Store statements that follow
each other with no `Send` or look-up in between are one action
(`AnswerPredefined`: save, mark, audit; `HandleCmdResult`: save, mark, audit,
acknowledge; `HandleSyncReq`: save, list, mark). The `CancelPendingCommands` of a
clear-queue is a step of its own (`PurgeQueue`), since commands and results can
arrive before its answer is saved.

* `FindAgent` and `DispatchLive` are separate, so the connection may be
  unregistered in between: `Send` on the closed channel panics. In a `readPump`
  that ends the process (`RelayDies`); in a REST handler (`EnqueueDirect`) `net/http`
  recovers it, so only the handler ends and the command stays `PENDING`. The model
  allows both for every command.
* `Register` is `handleAuth` under `h.mu`; `SendAuthAck` comes after the unlock.
* `ReadPending`, `FlushFind`, `FlushSend`, `FlushMark` are `flushPendingCommands`: the
  list is read, then the connection is looked up, which need not be the one that
  is flushing any more.
* `down[n]` and `up[n]` join a send channel and the wire. A full channel drops
  (`Sent`, `Queued`), a broken link loses. `asend` is the agent's channel and is
  kept when the connection ends.
* `ReadAuthAck` reads the first message: anything but `AUTH_ACK` closes.
* `rows` holds `CloudResultQueue` by `ResultId`: `CMD_RESULT` carries no
  `ResultID`, so its row is under the CommandID, as is a row of the sandbox;
  a row that comes by `SYNC_REQ` is under the agent's own id.
* `Supabase` selects the other backend where its statements differ:
  `MarkCommandDispatched` has no guard, the sandbox's result and every result
  complete the command, each result gets a row of its own, an audit record
  replaces the one before, `CancelPendingCommands` does nothing.
* `Large` are commands whose result is above the relay's read limit: `readPump`
  ends instead of handling it. `SyncLimit` is the 50 of `performSync`.
* An insert of `EnqueueWithID` that fails in the agent (`Unstored`) is ignored, as in
  the code.
* Faults: `Break`, `RelayCrash`, and `AgentStops` (the stop of `AgentWorker`).

Abstractions: all happens within one second, so orders by `CreatedAt, CommandId`
are orders by `CommandId`; results of one command in a `SYNC_REQ` are in the
order they were saved; a connection's id is used again only when no goroutine
still refers to it; store statements of the relay do not fail; the DeviceId is
spelled as the agent spells it; a message that is too large is one that holds a
result of `Large`; broadcasts to controllers change no modelled state; heartbeats
are left out (they take no part in delivery, except for their place in the send
channels).

### DeviceLiveness

`cur` is `h.agents[deviceID]`, `conn` the reader of each connection, `dstatus`
and `age` the `Devices` row, `view` what controllers were last sent, `tracker`
the tracker's snapshot and verdict. `handleHeartbeat` writes the store, then
broadcasts. The tracker lists, tests the connection under `h.mu`, writes and
broadcasts, each a step of its own, so registrations and `unregister` happen in
between. A controller polls: `ReadList` is the query of `GetDevicesForUser`,
`MakeList` its loop under `h.mu`, `SendList` the `Send` after the unlock. Time
passes in tracker periods of 5 s; a pass of the tracker and the
handling of one heartbeat end within a period.

### HubRegistry and RequestRouting

One device, several connections of it, controllers with and without an account.
`cur` is `h.agents[deviceID]`, `owner` is `Devices.UserId`, `connUser` is
`Client.userID`. A connection's AUTH carries the token the agent had when it
dialled (`auth`), and `Register` may handle it late. `Register` is `handleAuth` up
to the unlock, with `GetUserByToken`, `BindDeviceToUser` and `UpsertDevice`;
`SendAuthAck` is the rest. `Setup` is the script of `handleDownloadInstaller`: it
stops the agent, replaces the token and starts it again. The 15 s the agent waits
for AUTH_ACK and the read deadlines are breaks of the connection (`Break`).

A request is handled in the readPump of its controller, one at a time:
`Check` (the ownership test on the row), `Lookup` (`getAgentClient`), then
`Forward` or `AnswerOffline` (the cache, or AGENT_OFFLINE). No lock is held from
one to the next, so the device may change hands, connect or be unregistered
in between; `Forward` to an unregistered connection ends the relay. The agent
handles requests in order (`HandleRequest`) and its responses wait in `asend`,
also across a reconnection. `RouteToControllers` caches, audits and broadcasts.

All file requests are about one path. `disk` is what is there, with a version
that grows with every change; a response carries the version it saw, and the
cache keeps the version of the listing and of the content it stores, and the
`IsDir` of the first of them. Process lists and screenshots are `QUERY`.
`RemoteOperation` maps a request to idle, granted, refused, performed or
reported; losing a request or its response is a stuttering step.

Left out: a second AUTH on one connection, requests of a connection that has not
authenticated, the failing of store statements, and that the account is read
before and the row is written under `h.mu` (no other goroutine writes it).

## 3. The runs

Passing runs (`-workers 2`, each about two minutes or less on two cores):

| Run | Instance | Shows |
|---|---|---|
| `agent_single` | 2 commands, 1 process, 2 attempts, 2 stops, 1 error, 2 seconds | `TypeOK`; `SuccessIsLast`: only a stop makes the agent go on after a saved success; `ImplementsCommandJob`: the queue refines `CommandJob`; `FirstAttemptsInOrder`; `EventuallySettled`: a command ends unless a store error has left it `EXECUTING` with no holder in a running agent |
| `agent_shared` | 2 commands (one undecodable), 2 processes, 2 attempts, 1 stop, 1 error | `ExecutionsBounded`, `ClaimsAreExclusive`, `ReportedIsSaved`, `FailedIsExhausted`, `CompletedHasSuccess` |
| `delivery_crashes` | 1 command, 2 attempts, 2 connections, 1 agent stop, 1 relay crash, failing inserts, sync of 1 result | `DeliveryTypeOK`, `OutcomeIsReal`, `RelayTerminalIsFinal`, `AckedIsReceived`, `AuditIsReal`: `EXEC_CMD` in the audit log stands for a run that ended its command |
| `delivery_two` | a command and a clear-queue whose own result is too large, 1 attempt, 2 connections | `PendingIsScheduled`, `OutcomeIsReal`, `EndsOnlyWhenHandled`, `CancelledIsNotTaken` |
| `delivery_ends` | 1 command, 2 connections, 1 break, failing inserts, channels of 4 | `PendingIsFlushed`, `OutcomeReachesRelay` |
| `liveness` | 2 connections, thresholds 20 s and 45 s | `LivenessTypeOK`, `OnlyStaleVerdictHides`, `GoneIsOffline`, `ConnectedIsOnline` |
| `accounts` | 2 connections, 2 accounts, 1 controller, 1 of 5 requests, 1 break, 1 run of the installer | `AccountsAgree`, `ImplementsRemoteOperation`, `EndsConnected`, `LiveRequestsAreAnswered` |
| `routing` | 2 connections, 2 controllers, 2 of 4 requests, 1 break, 1 local change | `RoutingTypeOK`, `OnlyOldConnectionsRewind` |

Bounds. Two commands are needed for order and for what one command's handler
does to another; a third adds no new relation between two. Two attempts give a
retry and a last attempt. Two processes are the service and a `--drain`. Two
connections are the one that ends and the one that replaces it. One fault of
each kind reaches every cut of a handler; `MaxStops`, `MaxErrors`, `MaxTime`,
`MaxBreaks` and `MaxRestarts` bound the faults. In the delivery runs the
only statement of the agent's store that fails is the insert of a command
(`Unstored`); the others fail in the agent runs. A channel of 2 fills up, which
stands for 64; in `delivery_ends` it is 4, which one command's messages do
not fill, since a dropped message waits for the next connection and the bounds
on faults would then let it wait for ever. In `accounts`
channels hold 1 message and in `routing` 2, so that AUTH_ACK and the requests fill
them and the responses of two requests can wait together; `MaxAsked` bounds the
requests that are made out of those of different types, and `MaxChanges` and
`MaxSetups` the changes of the path and the runs of the installer. One request is
enough for what is said of each request, two (with a change of the path in
between) for the order of what they bring back. `accounts` starts with a file that
can be sent or with one that is too large, and has a request that is too large for
the agent. Connections are symmetric in the
safety runs; no symmetry is used with liveness. The delivery and routing runs allow the end
of behaviours (`CHECK_DEADLOCK FALSE`): when every command has ended and the
faults are used up, nothing is left to do.

Fairness. The agent's service is installed to be restarted, and its worker polls
the queue every `PollInterval`: `WF` on `Start` and on `RunOnce`. A goroutine of
the relay that can go on does; a reader notices a dead connection by its read
deadline of 60 s and the pings of 20 s; the relay client redials for ever
(`Client.Run`): `WF` on each handler once it has begun, on each reader, on the
client's reader and write pump. Nothing forces a controller to send a command,
an agent to stop or a connection to break. `DeviceLiveness` assumes that time
passes, that the tracker runs and that a heartbeat's handler ends; no agent is
assumed to send heartbeats. The controller's page polls the list every 4 s
(`index.html`), so a list that is asked for is made and sent, again and again.
`RequestRouting` assumes the same of the pumps and of a handler once its request
is read, and that the agent redials for ever; nobody has to make requests, to
stay connected as a controller, or to run the installer.

### Where the code and its documentation differ

Each of these runs states what the documentation says and ends in a violation:

| Run | What happens |
|---|---|
| `delivery_dispatched` | `handleAuth` registers the connection before it sends `AUTH_ACK`. A dispatch in between arrives first, the agent takes it for a refusal and closes, and the relay, which has the command as `DISPATCHED`, never sends it again. |
| `delivery_synced` | `MarkResultSynced` marks all results of a command: the acknowledgement of one attempt covers the next one's result, whose message may be lost. |
| `delivery_supabase` | With the Supabase backend the result of the sandbox completes a command whose agent is offline; it is never dispatched. `store.go` says that `SaveSandboxResult` leaves the status `PENDING`. |
| `delivery_outcome` | After a crash in the last attempt `RecoverStale` marks `FAILED` without a result, so no sync carries the outcome: the relay keeps the command as `DISPATCHED`. |

Further differences were seen while modelling and have no run:

* Agent: a crash after `SaveResult` and before `Complete` on the last attempt
  makes `RecoverStale` mark `FAILED` a command whose saved result is a success.
  `Requeue` does not look at the status (`store.go` says it returns an *EXECUTING*
  command): with two processes it can reopen a command that has `COMPLETED`.
* A result above 16 MB (`Large`) ends the connection each time it is sent, and
  every `performSync` sends it again: `OutcomeReachesRelay` fails, and the agent
  reconnects for ever. `ReadFile` allows 50 MB, so files of more than about 12 MB
  end the connection instead of arriving.
* `handleCmdResult` acknowledges a result whether it was saved or not.
* A flush that has read its list sends commands a clear-queue has cancelled since,
  although the answer says that all pending commands are purged;
  `CancelledIsNotTaken` says that nobody else does.
* `getAgentClient` ignores the case of the DeviceId, `GetPendingCommands` does not:
  a command queued under another spelling stays `PENDING`.
* `mobile/README.md` says that every executed command and every file read is
  recorded in an immutable log. All records of a command have its CommandID as
  LogId. With SQLite the first one stays: when a command was queued for an offline
  agent, the sandbox's `CLOUD_SCRIPT_EXEC` takes the LogId and the `EXEC_CMD` of
  the run on the agent is silently dropped; with Supabase it replaces the
  sandbox's. Attempts that are retried are not reported and results that come by
  `SYNC_REQ` are not recorded, nor are file reads, and a relay that dies between
  `SaveResult` and `RecordAuditLog` leaves a gap. `AuditIsReal` is the direction
  that holds: what the log calls executed was.
* `unregister` sets a device `OFFLINE` but leaves its heartbeat, so the tracker sets
  it `ONLINE` again, then `DEGRADED`, then `OFFLINE` (`GoneIsOffline` says it ends
  there).
* The file cache keeps the `IsDir` of a path's first entry: a directory that became
  a file is stored and not served. Written and deleted files stay cached.
* Supabase: a late `MarkCommandDispatched` reopens a command that has ended, audit
  records are replaced, exit codes are ignored, clear-queue cancels nothing, the
  cache and telemetry tables are not in the schema, `ListCommands` uses the SQLite
  handle that is not open.
* `POST /api/commands` answers with an empty `commandId`.

So `OutcomeReachesRelay` and `EndsOnlyWhenHandled` hold in one run and fail in
another: the first holds while the agent is not stopped, the second with SQLite.

## 4. The proofs

Every safety invariant and every action property of the passing runs is also a
theorem, as are both refinements. The theorems hold for every set of commands,
requests, processes and connections, every capacity, every `MaxAttempts` and
every number of faults. Each module of proofs names its inductive invariant in
definitions with a comment, has one lemma per action or group of actions, and
ends in the theorems.

The assumptions are those of the modules, which TLC evaluates in the runs: ids
are positive numbers (0 stands for no command), sets of names that share a
variable are disjoint, capacities, limits and `MaxAttempts` are positive, bounds
are natural numbers. Where a theorem needs more, it says so:

| Hypothesis | Of | Why it is needed |
|---|---|---|
| `SoleProcess`: one process on the queue file | `QueueImplementsJob`, `QueueIsServedInOrder`, `SuccessesAreLast`, `DeliveryImplementsJob` | a second process recovers what the first is running, and both settle it |
| `~ Supabase`: the SQLite store | `RelayEndsAreFinal`, `EndsAreHandled`, `CancelledStaysOut`, `OutcomesAreReal` | the statements of the other store carry no guard on the status; the run `delivery_supabase` shows what happens |

### AgentWorkerProofs

* `TypeCorrect`, `ExecutionsAreBounded`, `ClaimsStayExclusive`, `ReportsAreSaved`,
  `FailuresAreExhausted`, `CompletionsSucceeded`: the invariants of `agent_single`
  and `agent_shared`;
* `QueueImplementsJob`: `Safety => ImplementsCommandJob`;
* `QueueIsServedInOrder`: `Safety => FirstAttemptsInOrder`;
* `SuccessesAreLast`: `Safety => []SuccessIsLast`.

None of the invariants is inductive alone. That an attempt runs once needs the
process that holds it to be the only one (`AttemptIsOwned`), which needs that a
new claim gets a number above all claims held (`ClaimIsPast`) and that nothing is
recorded for numbers not yet claimed (`FutureIsEmpty`). That a report or a
`COMPLETED` has a row needs the row to be saved before (`RowIsSaved`) and never
replaced (`RowIsFree`); `ExitIsKnown` says an undecodable payload never
succeeds. `AttemptsBounded` ties the counter to the row. `IInv` is their
conjunction with the invariants themselves; `Invariance` is its theorem.
`FrameKeeps` serves the actions that neither claim, run nor save.

The refinement needs `ClaimIsExecuting`: the row of a claimed command stays
`EXECUTING` until its process settles it. With two processes the start of the
second breaks it. Then each step is a step of `CommandJob`: new rows submit, a
start gives up what is exhausted, a claim tries, `Settle` finishes or gives up,
the others stutter. The order needs besides that, as long as no
statement has failed, an `EXECUTING` row is held by the process unless that is
down (`NoOrphan`), that the attempt
held is the row's latest (`AttemptIsLatest`) and that a `PENDING` row has
attempts left (`PendingHasTries`): then nothing older than what `ClaimNext` picks
is left but what has ended. `SuccessesAreLast` uses the same facts, and
that before its first start the process has run nothing (`NothingRun`) and
that an undecodable payload is never saved as a success (`UndecodableFails`): a
process that has saved a success settles it next.

### CommandDeliveryProofs

`AgentInTheSystem` is the composition: `DeliverySafety => Safety`, every step of the
whole system is a step of `AgentWorker` or leaves its variables alone. So the
theorems above hold of the agent that the relay drives, with its redeliveries and
restarts; `DeliveryImplementsJob` states the refinement.

All theorems rest on `DInv`: the types (`DeliveryTypes`), `IInv`, and three facts
about the goroutines: a `CMD_RESULT` carries one result, a flush has commands left
and, after its look-up, a connection to send on, a handler that found the agent
holds its connection.

* `AcknowledgedIsReceived`: every acknowledgement in a channel or about to be sent
  is of a command with a received result (`AcksAreTrue`), and what was received
  stays received.
* `PendingStaysScheduled`: the connection in `h.agents` is of a `readPump` that has
  registered it (`ConnIsOpen`). A handler that found no agent has stored its
  command before, so whoever registers later reads it in its flush; and a flush
  gives up a command only in the step that makes it `DISPATCHED`. The panic that
  `net/http` recovers ends a handler that has found a connection, so the
  invariant (`MissableIsScheduled`) also speaks of handlers that hold another
  connection than the device's: what they hold is scheduled already.
* `RelayEndsAreFinal`: no handler starts twice and a command without a handler has
  no row (`NewIsAbsent`), so the one unguarded write of a status is the first;
  the others test it. `CancelledStaysOut` adds that what was cancelled has ended
  (`CancelledIsOver`): no flush reads it again.
* `OutcomesAreReal`: each report on its way repeats a row of `ResultQueue` or is
  the -1 of an undecodable payload (`ReportsAreReal`), and rows are not replaced
  (from `AgentWorkerProofs`).
* `AuditNamesRuns`: a process past `exec.Run` has run its attempt once
  (`RunIsCounted`) and reports it only if that ends the command
  (`ReportIsFinal`); so each `CMD_RESULT` on its way carries such a run
  (`ReportsAreFinal`), and no run, row or received result is taken back. It holds
  with either store and any number of processes.

### DeviceLivenessProofs

`LivenessTypes` and `OnlyStaleVerdictsHide`. The second is about single steps: which
of them take `ONLINE` from a connected device, and when the tracker reaches such
a verdict. It needs the types only, because `unregister` compares connections.

### RequestRoutingProofs

* `RoutingTypes`: no channel exceeds its capacity.
* `AccountsAlwaysAgree`: `handleAuth` changes the row and the registered connection
  together; a late registration and a late `unregister` keep the agreement.
* `RoutingImplementsRemoteOperation`: `RouteInv` says that a request is in the
  channels to the agent at most once (`InFlightOnce`) and only while it was not
  handled (`InFlightIsFresh`), that what was handled was granted, sent and handled
  once (`HandledWasSent`), that a response is of a handled request
  (`ResponsesAreOfRuns`) and that the audit log has the routed ones
  (`AuditIsOfReports`). `FoundIsConn` gives `routeToAgent` its connection. Then
  every step grants, refuses, performs, records or stutters.

### FileCacheProofs

`CacheRewindsAreLate`: `OnlyOldConnectionsRewind`. Versions are numbers of the agent's
disk. `handleAuth` closes the connection it replaces, so of the accepted
connections only the device's own is still written to (`OneLiveConn`, with
`FreshConns` for a new one). Hence the responses leave in the order of their
versions: what is on a connection is older than what is still in the agent's
channel, and what is on a replaced connection older than what is on the device's
(`ResponsesInOrder`). The cache is never newer than what is still to come on the
device's connection (`CacheIsPast`), so only another connection can rewind it.

### Only model-checked

The liveness properties `EventuallySettled`, `PendingIsFlushed`,
`OutcomeReachesRelay`, `GoneIsOffline`, `ConnectedIsOnline`, `EndsConnected` and
`LiveRequestsAreAnswered`: they need fairness and `ENABLED`, which are outside of
what is proved here. The runs that expect a violation are counterexamples and
need no proof.

## 5. Not modelled

* Errors of the relay's store: most callers ignore them, as `handleCmdResult` does,
  and with them few properties of delivery would hold.
* Supabase beyond command delivery: rows of devices follow the same statements,
  and the cache has no table there.
* HTTP handlers and the web and mobile controllers: they call the modelled
  operations or read tables; layout and request decoding. Registration and login
  create accounts and tokens, which are given in the models.
* Health metrics and telemetry samples, process lists, screen capture: calls of the
  operating system with no state of their own.
* What can go wrong inside an operation on files: `WriteFile` leaves a file,
  whatever the content, and its I/O errors are left out. No property depends on
  it.
* The texts of the predefined responder and what the sandbox evaluates: only that
  an answer is saved, and what clear-queue does to the queue.

## 6. Plan

1. *Done:* `AgentWorker`, `CommandJob`, `CommandDelivery` with both backends,
   `DeviceLiveness`, `HubRegistry`, `RequestRouting`, `RemoteOperation`.
2. *Done:* the proofs of every safety invariant, action property and refinement that
   a passing run checks.
3. *Next:*
   * what holds with Supabase in place of the theorems that assume SQLite: the
     weaker forms that its statements do guarantee;
   * facts about the registry that are invariants of the proofs and worth a run
     and a theorem of their own, as `OneLiveConn`.
