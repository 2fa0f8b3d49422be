# A TLA+ model of the core of a VS Code fork

This directory is a verification development for this repository, a fork of
Visual Studio Code 1.96.2. The program is a large Electron and Node
application; its core is a set of processes (main process, windows, shared
process, extension hosts, a remote server) that talk to each other through
message protocols and share state through services. The development picks the
parts of that core that are concurrent, stateful and hard to test, models them
as TLA+ modules, checks them with TLC on small instances and proves the most
important invariants with TLAPS for all values of the constants.

All source paths below are relative to the repository; the TypeScript sources
are under `src/vs/`.

## 1. Inventory

### 1.1 Components

| component | where | state it keeps | operations |
|---|---|---|---|
| persistent protocol | `base/parts/ipc/common/ipc.net.ts` | ids of the last message sent, confirmed, received and acknowledged; queue of unconfirmed messages; ack timers; writer buffer; pause flag; reconnecting flag | `send`, `_receiveMessage`, `beginAcceptReconnection`, `endAcceptReconnection`, timers, `sendPause`, `sendResume`, keep-alives |
| remote connection | `platform/remote/common/remoteAgentConnection.ts`, `server/node/*` | connection state, reconnection token, attempts, permanent failure flag, grace timers, socket being handed over | handshake, reconnection loop, accept, hand-over to the extension host process |
| shared storage | `base/parts/storage/**`, `platform/storage/**` | per window and in the main process: cache, pending inserts and deletes, delayed and throttled flush; SQLite database | `set`, `delete`, `flush`, `whenFlushed`, `close`, `acceptExternal`, channel calls, change events, recovery |
| storage main service | `platform/storage/electron-main/storageMainService.ts` | the storages of the application, of profiles and of workspaces | handing them out, closing them at shutdown |
| storage scopes, profiles and migration | `platform/storage/**` | one Storage per scope, storage targets | switching profile and workspace, migration, idle flush |
| resource queues | `base/common/async.ts` | one queue of tasks per resource, promises of the drain | `queueFor`, `whenDrained`, `dispose` |
| throttled worker | `base/common/async.ts` | waiting units, timer | `work`, `dispose` |
| task sequentializer | `base/common/async.ts` | running and queued task | `run`, `queue`, `cancelRunning` |
| throttlers, delayers and other async primitives | `base/common/async.ts` | timers, active and queued promises | `Delayer`, `Throttler`, `ThrottledDelayer`, `Sequencer`, `Limiter` |
| events | `base/common/event.ts` | listeners, delivery queues, pauses | `fire`, `debounce`, `pause`, `resume` |
| ipc channels | `base/parts/ipc/common/ipc.ts` | pending requests, cancellations, subscriptions, channels not yet registered | call, listen, cancel, dispose |
| extension host rpc | `workbench/services/extensions/common/rpcProtocol.ts` | pending replies, unacknowledged requests, responsiveness | remote call, reply, cancel, dispose |
| stored file working copies | `workbench/services/workingCopy/common/storedFileWorkingCopy*.ts` | dirty, saved version, conflict and error flags, last stat; running and queued saves; queued reloads | resolve, save, revert, participants, reload after file change events |
| text file models | `workbench/services/textfile/common/textFileEditorModel.ts` | the same for text files, and the meta data of a backup | edit, undo, save, revert, open from a backup |
| working copy backups | `workbench/services/workingCopy/{common,electron-sandbox}/workingCopyBackup*.ts` | pending backup operations, content versions, unrestored backups; queues of file operations, known backups with version and meta data | schedule, discard, cancel, suspend, restore, hot exit |
| application lifecycle | `workbench/services/lifecycle/electron-sandbox/lifecycleService.ts`, `platform/lifecycle/electron-main/lifecycleMainService.ts` | quit request, pending unloads, vetoes, joiners | before and will shutdown, quit, unload, reload, relaunch |
| undo and redo | `platform/undoRedo/common/undoRedoService.ts` | stacks per resource, shared workspace elements, locks | push, undo, redo, split |
| settings sync | `platform/userDataSync/common/*` | last synced data, previews, remote refs | pull, merge, push, conflict |
| extension activation | `workbench/api/common/extHostExtensionActivator.ts` | pending and finished activations | activate, dependencies, failure |
| views in editors | `workbench/contrib/viewInEditor/browser/*`, `workbench/services/views/browser/viewDescriptorService.ts` | location of each container, open editors | move to editor, move back, restore (this fork's own feature) |
| terminal processes | `platform/terminal/node/ptyService.ts` | persistent processes, flow control, orphan state | attach, detach, reconnect |
| file service and watchers | `platform/files/common/fileService.ts` | providers, write queues | reads with an etag, writes checked against a stat, otherwise input and output |
| command line and tunnels | `cli/src` (Rust) | singleton lock, tunnel state | a program of its own |
| editor core, views, bundled extensions | `editor/`, `workbench/browser`, `extensions/` | text buffers, view state | sequential data structures and user interface |

### 1.2 Interactions and what is hard about them

* The **persistent protocol** runs on top of sockets that break. Both ends keep
  their protocol object and continue it on the next socket. Acknowledgements,
  resent messages and timers of the old socket meet those of the new one. The
  extension host is a further process behind the server, and the socket is sent
  to it while the client may already be writing. Hard: lost and repeated
  messages, timers that race a reconnection, an interval in which nobody reads.
* The **remote connection** decides when to replace a socket and when to give
  up. Hard: a late answer to an attempt that has timed out, two attempts in
  quick succession, a permanent failure during an attempt, grace timers on the
  server against a client that comes back.
* **Shared storage** is a replicated cache: each window answers from its own
  cache, the main process is the authority, writes go one way in batches and
  changes the other way in debounced events. Hard: an event older than the
  window's own write, a flush running while another is requested or while the
  Storage closes, an update that fails after its data was forgotten.
* **Async primitives and events** are used by every other component and carry
  much of its concurrency: who is told when a queued task fails, in which order
  listeners run, what happens to a delayed call on disposal.
* **Channels and rpc** turn messages into calls: cancellation races the reply,
  calls arrive before a channel is registered, disposal with pending calls.
* **Working copies, backups and lifecycle** form the path that must not lose
  the user's edits. A save awaits its participants, a snapshot, a validation, a
  write and a stat, and the content, the file and the flags can change at each
  of these points; a reload awaits a read and an update. A backup is scheduled,
  snapshotted, queued and written while the copy is edited, saved, reverted or
  closed, and each of these cancels what came before. A shutdown cancels and
  suspends all of it, decides what to save, back up or ask about, and can be
  vetoed, fail or be cut short by a crash in the middle of a write.

### 1.3 What makes each component correct

* persistent protocol: each end gets exactly what the other sent, once and in
  order; nothing unconfirmed is forgotten; a dead socket is noticed; no wake-up
  is lost.
* remote connection: at most one socket is used; a permanent failure is final;
  a client that returns within the grace period finds its connection.
* shared storage: caches converge; what was written before a close is stored;
  failing updates are repaired; who waits is told.
* queues, workers and other async primitives: every promise settles, tasks run
  one at a time and in order.
* channels and rpc: each request has at most one reply and one owner.
* working copies: what is marked saved is on disk; never two writes at a time;
  nothing that was not seen is overwritten; a save that was asked for is made.
* backups: a modified copy has a backup of what it shows, a clean one none; what
  a shutdown lets go the next window shows.
* lifecycle: a window that was asked to close stays or goes; the application
  quits only if no window vetoed.

## 2. Modules

| module | what it is |
|---|---|
| `MessageChannel` | abstract: a pair of reliable first-in first-out channels |
| `PersistentProtocol` | the two ends of the protocol, their writers and timers, the sockets between them, the reconnection and the hand-over to the extension host |
| `PersistentProtocolProofs` | what is sent arrives once and in order; the refinement |
| `PersistentProtocolOrderProofs` | timers, and the order of messages on sockets that lose none |
| `MCPersistentProtocol` | the instance for TLC |
| `RemoteConnection` | the window's reconnection loops, the handshake, the server's connections with their grace timers, the start of an extension host process and the sockets sent to it |
| `RemoteConnectionProofs` | its theorems |
| `MCRemoteConnection` | the instance for TLC |
| `SharedStorage` | Storage objects of windows and of the main process with their delayers, the channel between them and the SQLite database |
| `SharedStorageProofs` | its theorems |
| `MCSharedStorage` | the instance for TLC |
| `ResourceQueue` | one queue of tasks per resource, made and disposed of on demand |
| `ResourceQueueProofs`, `MCResourceQueue` | its theorems, the instance for TLC |
| `ThrottledWorker` | the bounded, resting buffer of the file watchers |
| `ThrottledWorkerProofs`, `MCThrottledWorker` | its theorems, the instance for TLC |
| `StoredFileWorkingCopy` | a file working copy with its saves, its reloads and its file; the task sequentializer |
| `StoredFileWorkingCopyProofs`, `MCStoredFileWorkingCopy` | its theorems, the instance for TLC |
| `WorkingCopyBackup` | hot exit: the backup tracker, the backup service and the shutdown of a window |
| `WorkingCopyBackupProofs`, `MCWorkingCopyBackup` | its theorems, the instance for TLC |

`PROJECT.json` maps every definition to the lines it translates.

### 2.1 PersistentProtocol

State. The variables keep the names of the fields of class
`PersistentProtocol` (`_outgoingUnackMsg`, `_outgoingMsgId`, `_outgoingAckId`,
`_incomingMsgId`, `_incomingAckId`, `_isReconnecting`) and of `ProtocolWriter`
(`_data` as `writerData`, `_isPaused`, `_writeNowTimeout`), each a function of
the end. A timer is a Boolean: armed or not. Three further Booleans stand for
the comparisons of clocks: `outgoingStale` (TimeoutTime has passed since the
oldest unacknowledged message was written, since data was read and since the
last socket timeout), `incomingFresh` (a message came after the acknowledgement
timer was armed) and `replayQuiet` (a ReplayRequest was written less than ten
seconds ago). `wire[k][e]` is what socket `k` carries towards `e`.

Actions. `send`, `writeNow`, the two timers `onOutgoingAckTimeout` and
`onIncomingAckTimeout`, `sendKeepAlive`, and one action for each case of
`_receiveMessage`: the expected Regular message, a duplicate, a gap, Ack and
KeepAlive, ReplayRequest, Pause, Resume and the Control message that answers a
reconnection. `reconnect` and `reconnectTimeout` are what the client's loop does
to the protocol, `acceptReconnection`, `receiveSocket` and `serverReconnected`
what the server and the extension host process do. `breakSocket`, `lose`,
`silence` and `replayQuietEnds` belong to the network and to the clock.

Abstractions:

* A socket carries whole messages. `ProtocolReader`'s framing is left out; a
  message that was partly received when the socket broke counts as lost.
* The load estimator's answer (`hasHighLoad`) is nondeterministic.
* The server calls `beginAcceptReconnection` and `endAcceptReconnection` in one
  task. The model makes two steps of them, because the data that came with the
  socket is read in between, and lets nothing else happen at the server in the
  meantime (`InTask`): no timer fires and nothing is sent.
* The auth and sign messages of the handshake carry no protocol state.
* Payloads are model values; ids are unbounded naturals (the code's counters
  are doubles written as 32 bit numbers; a connection would have to send 2^32
  messages to notice).
* `dispose` and `sendDisconnect` are in `RemoteConnection`. `BufferedEmitter` is
  left out: an application that listens is assumed.

### 2.2 RemoteConnection

A window has a management connection and one connection per remote extension
host. Each is a `PersistentConnection` whose loop replaces the socket when it
closes. `PersistentProtocol` takes any sequence of sockets as given and shows
what becomes of the data; `RemoteConnection` shows which sockets there are.
The two share the idea of a socket and of `acceptReconnection`, `receiveSocket`;
they are separate modules because their product is too large for TLC.

State. `loop` says where `_runReconnectingLoop` awaits (idle, waiting, resolving
the authority, connecting, in the handshake); `attempt`, `isDisposed` and the
static `permanentFailure` are the fields; `status` is the last event fired.
`socket`, `listening`, `closeSeen` and `didSendDisconnect` belong to the
client's protocol. `phase` is what of the handshake each socket carries: auth,
sign, connectionType, the answer or an error. On the server `known` is the
table of connections, `serverSocket` the socket that is served,
`disconnectRunner1` and `disconnectRunner2` the long and the short grace timer;
for an extension host these two live in its process. `process`, `ready`,
`connectionData`, `draining` and `ipc` are the start of the process and the
sockets on their way to it.

Actions. Of the client: the events `onSocketClose` and `onSocketTimeout`, each
await of the loop (`wakeUp`, `resolveConnectionOptions`, `createSocket`,
`receiveSign`, `receiveOk`, `receiveError`, `attemptTimesOut`, `attemptFails`),
`initialConnectionFails` for another connection of the window, and the ways to
end a connection (`disconnect`, `dispose`). Of the server: `receiveAuth`,
`receiveConnectionType`, `acceptReconnection`, `onServerSocketClose`,
`graceTimeExpires`, `start`, `receiveReady`, `sendSocket`, `onExit`. Of the
process: `sendReady`, `receiveIpc`, `receiveDisconnect`, `startTimerFires`,
`exit`. `breakSocket` is the network.

Abstractions:

* A socket has one flag, `alive`, for both ends; that one end notices a break
  much later than the other is the delay of its close event.
* Init is the state after the first handshake. Named pipes instead of sockets,
  tunnels, `debugTriggerReconnection` and the server's automatic shutdown are
  left out.
* The 360 attempts are `MaxAttempts`; all errors of an attempt that lead to
  another attempt are one action.
* `triggerPermanentFailure` walks over `_instances` while the management
  connection takes itself off that array, so that its neighbour is passed over.
  The order of the array is not modelled: any one extension host connection may
  be passed over.
* The termination of an extension host is one step, and so is what
  `_cleanResources` does. `Terminate` is resent after a reconnection like every
  control message that is queued, `Disconnect` is sent once. An extension host
  that is disposed before it was initialized says no good-bye.

### 2.3 SharedStorage

State. Per Storage: `cache`, `pendingInserts`, `pendingDeletes`, `state` and
`whenFlushedCallbacks` are the fields of class `Storage`. `deferred` is the
Delayer's timer, `activePromise` and `queuedPromise` are the Throttler's two
promises, and `closing` says which of them `doClose()` waits for. `toMain` and
`toWindow` are the two directions of a window's channel; `changedKeys` is what
the main process's `Event.debounce` has collected; `updating` is the request
SQLite works on; `isErroneous` is the field of `DatabaseConnection`.

Actions. `set`, `delete`, `flush`, `whenFlushed`, `close` for a Storage in any
process, `trigger` for the Delayer's timer; `call` for the channel of the main
process with its three commands; `receive` for what a window gets; `openWindow`
and `closeClient`; `fireChangeEvents`; `updateItems`, `updateItemsFails`,
`closeDatabase`, `closeDatabaseFails` for SQLite. `finished` is the common end
of an update: it releases waiters, lets `doClose()` go on and starts the queued
flush, in the order in which the promises do.

Abstractions:

* The application writes a window's Storage only after `init()`, because
  `desktop.main.ts` awaits `initialize()` before it hands out the service.
* Messages between a window and the main process arrive in order, one per task
  (Electron's IPC).
* The main process closes when no window is open, which is what the lifecycle
  service's `onWillShutdown` means.
* The in-memory hint, the fallbacks of `SQLiteStorageDatabase.connect` (backup
  and recreation of a broken file) and logging are left out.
* A failing update either fails as a whole and rejects, or loses its inserts or
  its deletes and only records the error: the two ways in which the statements
  of `doUpdateItems` report errors.

### 2.4 ResourceQueue

State. `queues`, `size`, `runningPromises` and `outstandingPromises` are the
map of a `ResourceQueue` and the fields of the `Queue` in it, per resource; a
Queue is known by the number of its drain listener, so that a task can tell
whether the Queue in the map is still its own (`Tracked`, the negation of
`_isDisposed`). `drainers` and `drained` are the promises of `whenDrained`.
`state` is what became of each task. `ticket` and `orphans` are ghosts: the
order of the calls, and the tasks that `dispose()` left running.

Actions. `queueFor` (with `Limiter.queue` and `consume`), `settle` (the task's
promise), `consumed` (its reaction, a step of its own), `whenDrained`,
`dispose`. A factory may always throw instead of returning a promise.

Abstractions: a task is queued once; whether it succeeds makes no difference to
the queue; `clear` and `whenIdle` have no caller on this path. After `dispose()`
the code accepts new tasks, and so does the model.

### 2.5 ThrottledWorker

State. `pendingWork` counts the waiting units, `throttler` says whether the timer
is set, `rested` whether `throttleDelay` has passed since `lastExecutionTime`.
The option `waitThrottleDelayBetweenWorkUnits` is chosen in the initial state and
never changes. `mark`, a ghost, follows one unit.

Actions. `work` with its three branches, `onTimeout` (the `RunOnceScheduler` and
its runner), `rest` (the clock), `dispose`. A refused call changes nothing and is
no action. The handler neither throws nor calls the worker: the two handlers of
the repository fire an event. `maxBufferedWork` is a number: without one there is
no bound to speak of.

### 2.6 StoredFileWorkingCopy

State. `contents` is what each version of the model holds, `version` the one it
is at (`model.versionId`, which undo brings back), `versionId` the number that
only grows. `flags` are `dirty`, `inConflictMode`, `inErrorMode` and
`savedVersionId`, kept together because `doSetDirty` returns a function that sets
all four back. `lastResolvedFileStat` is an mtime. `saves` is the
`TaskSequentializer` with the saves it has started: where each awaits, under
which two numbers it runs, whether it is cancelled. `resolving` and `reverting`
are the pending resolve and revert, `reloads` the size of the manager's queue,
`file` and `changed` the disk and the watcher. Ghosts: `stored` (what the file
ever held), `excused` (what the user gave up or typed into a reload), `asked`
(the version a save is owed), `raced` (a write of another program that nobody
can notice).

Actions. `edit`, `undo`; `save(o)` with all the early returns of `doSave`; the
awaits of a save: `delayEnds`, `participantsEnd`, `snapshot`,
`validateWriteFile`, `write`, `stat`, `saveFails`, and `cancel` for the progress
dialog; of a resolve: `readFile`, `resolveFromContent`, `updateModel`,
`resolveFails`; `onDidFilesChange` and `reload` of the manager; `revert`;
`externalWrite`. A queued save starts in the microtasks after the one it waits
for, within the same step (`doneRunning`).

Abstractions: the copy is resolved and its file exists; deletion, orphans,
readonly files, dispose, elevated writes and models with a `save` of their own
are left out; different contents have different sizes, so that etag and mtime
agree; one revert at a time.

### 2.7 WorkingCopyBackup

State. `copy` is a text file model as the tracker sees it, with the tracker's
content version; `disk` and `backupFile` are the two files, the latter absent,
torn (truncated and not yet written) or whole. `pending` is
`pendingBackupOperations`, `io` the service's `ioOperationQueues` (what
`ResourceQueue` is shown to guarantee: one task at a time, in order), `cache`
its `WorkingCopyBackupsModel`, `suspended`, `unrestored` and `isReady` fields of
the tracker. `shutdown` says which await of `onFinalBeforeShutdown` the window is
at. The ghosts say what may be asked of whom: `interrupted` are copies that the
tracker was kept from following until a backup of theirs ends: it was suspended, a
shutdown that was vetoed had cancelled the backup, a file operation failed, the
copy was taken off the list of unrestored backups before it was open, or it
opened while a shutdown's discard of its backup waited behind its editor;
`reused` are copies that count their versions anew under an older entry;
`excused` are copies that were changed after the shutdown began or given up;
`owed` is what the next window has to show, until the backup is deleted of a copy
that the tracker has given up (`GivenUp`): no longer waited for, or not readable.

Actions. Of the tracker `Changed` (`onDidChangeDirty`, `onDidChangeContent`),
`timer`, `snapshotTaken`, `close` (`onDidUnregister`),
`resolveBackupsToRestore`, `restoreBackups`; of the service `truncate`,
`written`, `deleted`, `noted`, `ioFails`; of the copies `edit`, `undo`, `save`,
`revert` in two steps, `open`, `opened` and `resolveFails`; of a shutdown
`onFinalBeforeShutdown`, the auto saves, the backups, the question with its three
answers, the error dialog, `cancelProgress`, the three ways to discard,
`onWillShutdown`, `joinBackups`; and `crash` at any point, `restart`.

`restoreBackups` deals with one handler of editors at a time: any of the unrestored
backups are what the handler can handle, any of these have visible editors, and
only the others are awaited before all of them leave the list. `resolveFails` is
the read of a backup or of a file that is rejected, by an I/O error or because the
file is gone while the service still lists it (`FileGone`): the model is disposed
of, and the tracker takes its end for a copy that was closed and discards its
backup.

Abstractions: a save is one step, its details being those of
`StoredFileWorkingCopy`; every copy has a file; the macOS rules for closing the
last window are the constant `lastWindow`; extension development windows,
untitled copies and the in-memory service are left out.

## 3. Runs

All bounds are constants of the modules. Deadlock is checked for the worker only:
the other models have finite bounds on sends, writes, tasks, sockets and windows,
and they stop when these are used up.

| run | instance | shows |
|---|---|---|
| `protocol_exthost` | extension host, two messages of the client, three sockets, fairness | `Consistent`, `TimersAreArmed`, `NoGap`, `StableDelivery`, `SilenceNoticed` |
| `protocol_lossy` | management connection, sockets that lose single messages, two messages, two sockets | `NothingLost`, `ChannelSpec` (refinement) |
| `remote_management` | one management connection, three sockets, one retry, fairness | `ConnectedIsServed`, `CloseIsHandled`, `FailureIsFinal`, `FailureStopsLoops`, `LostIsResolved` |
| `remote_exthost` | one extension host connection, two sockets, fairness | `GraceMeansDisconnected`, `SocketIsKept`, `AbandonedIsDisposed` |
| `storage_close` | a window and the main process, one key of two values, two failing operations, fairness | `Converged`, `ClosedIsFlushed`, `CacheIsAccounted`, `ClosedIsStored`, `WhenFlushedResolves`, `WindowCloses` |
| `storage_close_hangs` | main process only, one failure, fairness | `DatabaseCloses` is violated |
| `queue_order` | two resources, three tasks, one waiter, factories may throw, fairness | `InOrder`, `SizeIsExact`, `DrainedMeansDone`, `RunsUnlessBlocked`, `WaitersAreReleased` |
| `throttle_work` | chunks of 4, a buffer of 9, calls of up to 14 units, with and without a delay between calls, fairness | `BoundedBuffer`, `WorkIsScheduled`, `AcceptedIsHandled` |
| `working_copy` | three versions, three changes, two saves of any kind, two disturbances (writes of others, failures, cancellations, reverts), fairness | `OneSaveAtATime`, `CleanWasStored`, `ErrorMeansDirty`, `OverwritesOnlySeen`, `SaveIsHonoured`, `ReloadShows` |
| `working_copy_undo` | two versions, three changes, one save, no disturbance | `CleanIsOnDisk` is violated |
| `hot_exit` | a folder window with two copies, a scratchpad with a backup and an auto saved file; one edit, one other operation, one failure, one shutdown or crash; fairness | `TypeOK`, `QuietIsSafe`, `TrustedBackup`, `ReopenShowsWork`, `ShutdownDecides` |
| `hot_exit_restoring` | the same window, nothing but one shutdown | `UnrestoredIsKept` is violated |

Why the bounds are enough to be interesting. Two sockets give a message that
was received but not acknowledged when the socket broke, resent and received
again, and an answer that arrives after its attempt timed out; three sockets
add a second reconnection while the first socket is still on its way to the
extension host. In `RemoteConnection` three sockets are two reconnections: a
request of a first attempt that reaches the server after a second one. An
extension host gets two, a socket that replaces another while the process starts;
what its grace timers and its kept socket promise is proved for any number.
Three tasks are enough for a queue with one running and two waiting, for two
beside another resource, or for a queue that is made anew twice; a call of 14
units is one more than a chunk and the buffer hold. Two messages give gaps, a queue of which a prefix is confirmed
and an order to lose. In the storage two values of one key that a window and the main process
both write give opposite writes, events that are older than the cache they overwrite, and a key
that is set and deleted while a flush is running; two writes give a running and
a queued flush; two failures give a failing update and a failing recovery. Two
windows were explored once (1.6 million states); the theorems cover any number.
In the working copy three versions and two saves give a save that is cancelled
by the next and queued behind it while participants change the content, and two
disturbances a conflict, or a failed revert over a failed save. In the hot exit
the backup that is found, the edit, the other operation and the failure fall on
any two copies in any order, and the window that follows a shutdown or a crash
goes on with what is left of the bounds; closing asks the user about the file
and backs the scratchpad up, quitting backs up both. More than that is beyond the
time of a run; the invariants, those of the proofs included, were also explored
once with two backups that are found (1.5 million states), with two shutdowns and
with two failures.

Each property of a passing run has a mutant: a variant of a definition, next to
it in the module, that makes the mistake one could make in that code (a guard
dropped, an id off by one, a timer not armed again, a step not awaited). TLC
finds the property violated for each of them.

### 3.1 Fairness

`PersistentProtocol!Fairness`: timers that are armed fire (`setTimeout`), data
on a live socket is read, time passes, and the event loop is not under high
load for ever. Nothing is assumed of the network or of the user:
`StableDelivery` has "the ends finally stay connected" as its premise, and
`SilenceNoticed` speaks of a socket that is dead.

`SharedStorage!Fairness`: timers fire, messages between processes arrive,
database operations end, with or without an error. The application may stop
calling at any time.

`RemoteConnection!Fairness`: close events are reported, timers fire, processes
read their messages, the process of an extension host gets on with its start, and
an attempt ends, because what it awaits is raced with a timeout. The one await
that is not, the resolver of the authority, is assumed to answer. Nothing is
assumed of the network or of the success of an attempt.

`ResourceQueue!Fairness`: the promises of tasks settle, and their reactions run.
The first is the callers' duty; a write that never ends blocks its resource.

`ThrottledWorker!Fairness`: time passes, and a timer that is due fires.

`StoredFileWorkingCopy!FairSpec`: save participants, snapshots, file operations
and updates of the model end, with or without success, timers fire and file
change events arrive. The user may stop at any time.

`WorkingCopyBackup!FairSpec`: timers fire, file operations end, dialogs are
answered, and the main process follows up on a shutdown without a veto. Failures
and crashes are never owed.

### 3.2 Disagreements between the code and its comments

* **A queued flush that fails is never reported** (`storage_close_hangs`).
  `Throttler.queue` (`base/common/async.ts:248`) settles its queued promise
  with `.then(resolve)` only. `Storage.doClose` waits for that promise when a
  flush is running while the Storage closes. If the queued update is rejected
  `doClose` waits for ever, although its comment says that the database is
  closed "even if there is an error flushing".
* **An undo during a save leaves a clean copy that is not on disk**
  (`working_copy_undo`). Undoing to the saved version while a save is writing
  clears the dirty flag (`storedFileWorkingCopy.ts:752-757`). The save then ends,
  sees that `versionId` has changed, keeps `savedVersionId` and yet remembers the
  stat of the file it has written, so that the reload that follows finds the file
  not modified. The copy stays clean and differs from its file, until it is
  edited or the file changes again.

* **A backup that is being restored is discarded** (`hot_exit_restoring`).
  `restoreBackups` does not await editors that are visible
  (`workingCopyBackupTracker.ts:417-419`), but takes their backups off
  `unrestoredBackups` (`:424-427`). A window that is closed before such an editor
  has read its backup, with nothing else modified, has nothing to except and
  deletes the folder. The comment at
  `electron-sandbox/workingCopyBackupTracker.ts:434-435` says "we never want to
  discard backups that we know were not restored".

Other disagreements and weaknesses met while modelling, without a run of their
own:

* A restored copy loses its backup behind a slow editor. If the copy has left the
  list as above while other backups have not, the shutdown deletes file by file,
  and its discard waits behind the editor's read. When the user cancels the
  progress dialog and the window stays, the copy opens, its backup is taken for
  made because the service knows the entry, and then the discard deletes it.
* A backup that cannot be read is deleted. A rejected read disposes of the model
  (`textFileEditorModelManager.ts:420-429`), and the tracker takes that for a copy
  that was closed and discards its backup (`workingCopyBackupTracker.ts:120-132`),
  also when the error would have passed. `ReopenShowsWork` excuses this, the item
  before it and the finding above (`GivenUp`), and nothing else.

* A write may be dropped (`base/parts/storage/common/storage.ts:278`). A change
  event of a window's own older write sets its cache back while a newer value is
  pending. A `set` to the older value, or a `delete` of a key that the event
  removed, then returns early, and the pending value is what gets stored.
* A factory that throws blocks its queue (`base/common/async.ts:730`).
  `Limiter.consume` raises `runningPromises` before it calls the factory and
  lowers it only when the returned promise settles. `RunsUnlessBlocked` and
  `WaitersAreReleased` have it as their exception.
* A revert does not force the read (`storedFileWorkingCopyManager.ts:534`): the
  resolver given to the copy overwrites `reload`, from which the manager takes
  `force`, although `revert` asks for it.
* What is typed while `model.update` is awaited (`storedFileWorkingCopy.ts:712`)
  is not marked dirty. A change event that comes while the copy is dirty is
  ignored, and an undo then leaves it clean and stale (manager, `:277`). Another
  program's write between a write and the stat after it goes unnoticed
  (`fileService.ts:430`).
* Two callers that wait for the same pending resolve both resolve when it ends
  (manager, `:597-618`). A save that is asked for while the participants of one
  that the user has cancelled still run is dropped with it (`:877`, `:888`).
* An auto save at shutdown leaves a stale backup
  (`electron-sandbox/workingCopyBackupTracker.ts:127`). The tracker is suspended
  when the copy is saved; if another copy is backed up the shutdown returns
  before anything is discarded, and the next window restores the saved copy's
  older backup as unsaved changes. The comment at `:429-432` wants stale backups
  discarded.
* Content versions start at 0 again when a copy is closed and reopened. Under an
  entry of the service that survived, an edit gets a number that is already known
  and is not backed up.
* After "Save" the shutdown compares how many copies are modified (`:309`), not
  which: a failed save goes unnoticed if another copy became clean meanwhile.
* A vetoed shutdown has cancelled the pending backups (`:61`) and schedules none.
  A revert that fails makes the copy dirty again without an event
  (`textFileEditorModel.ts:262`). Either way there is no backup until the next
  edit.
* `discardBackups` without exceptions deletes the folder past the queue that is to
  order writes and deletes (`workingCopyBackupService.ts:329`, against `:201`).
* `whenFlushed` may return early (`base/parts/storage/common/storage.ts:406`).
  `flushPending` empties the pending data before the update starts, and
  `whenFlushed` looks at the pending data only. The documentation of
  `IStorageService.flush` speaks of all updates to the underlying storage.
* A disposed connection reconnects once more
  (`platform/remote/common/remoteAgentConnection.ts:656`). The loop looks at
  `_isDisposed` before its first attempt and after each one, not after the wait
  before an attempt. Disposed during that wait, it resolves and connects once
  more, and nobody owns the socket. The comment at the other two places is "no
  more attempts!".
* The user interface's list of state transitions
  (`workbench/contrib/remote/browser/remote.ts:883`) is incomplete. A failure of
  one connection takes others straight from `ConnectionGain` to
  `ReconnectionPermanentFailure`, and after a failed attempt
  `ReconnectionRunning` is followed by `ReconnectionWait`.
* An extension host connection that `triggerPermanentFailure` passes over is
  never told that it has failed, though its loop ends: `LostIsResolved` holds of
  management connections only.
* The contract of `ThrottledWorker` says that it rests after `maxWorkChunkSize`
  units. It does so only if a chunk leaves units waiting; calls of up to a chunk
  are handled one after the other without a rest, and a unit test relies on it.
* With `waitThrottleDelayBetweenWorkUnits` a call within the delay is accepted as
  if a chunk of it were handled at once, and then waits as a whole. The bound of
  `BoundedBuffer` is therefore a chunk larger with the option, which no caller in
  the repository sets.
* While an extension host process starts, a request of an older attempt that
  arrives late replaces the newer socket in `_connectionData`.
* A socket whose writes are being drained for a process that exits meanwhile is
  never closed.
* `ExtensionHostConnection.start` only logs an error. The connection stays known
  without a process; reconnecting to it succeeds and nobody reads.
* An extension host connection whose attempt is running when a failure becomes
  fatal, and which is passed over, may still report `ConnectionGain`.

## 4. Proofs

The constants' assumptions are the only ones: `BoundsAssumption`,
`MaxMessagesAssumption`, `PayloadAssumption`, `StorageAssumption`,
`ConnectionAssumption`, `KeyAssumption`, `SizesAssumption`, `OptionAssumption`
and `ConfigurationAssumption`. They say that bounds and sizes are naturals, that
the special values are not payloads, windows, values or keys, that settings have
one of their values and that a window has finitely many working copies. Sets of payloads, windows, keys and values may be
infinite, and so the theorems cover any number of messages, sockets, windows and
failures.

### 4.1 The protocol

* `TypeCorrect`: `Spec => []TypeOK`.
* `ConsistentAlways`: `Spec => []Consistent`.
* `NothingIsLost`: `Spec => []NothingLost`.
* `ProtocolImplementsChannel`: `Spec => ChannelSpec`.
* `NoWakeUpIsLost`: `Spec => []TimersAreArmed`.
* `NoGapWithoutLoss`: `~Lossy` implies `Spec => []NoGap`.

`NothingLost` is not inductive. Whether an acknowledgement may remove a message
depends on what the acknowledgement says, and that depends on every message
that is buffered or on some socket, however old. `Consistent` closes the circle:
ids are positions in the histories (`IdsArePositions`); no end believes more to
be confirmed than was received (`AcksAreReceipts`); the queue is exactly the
interval of unconfirmed ids (`QueueIsUnconfirmed`); everything in a writer or on
a socket confirms no more than its sender has received and carries what was sent
under its id (`WriterIsGenuine`, `WireIsGenuine`). The last two are stable
because histories only grow, which is the lemma that all steps use. The proof
has one step per action and below it one per conjunct that the action touches.
The refinement needs one more fact: a Regular message is handed over only when
its id is the next one, so that by `WireIsGenuine` it is the next element of
what the other end sent. The same argument covers lossy and lossless sockets
and both kinds of server.

`TimersAreArmed` is inductive once the types are known; a lemma per timer says
when it is set and when it may be absent.

`NoGap` is true only of sockets that lose no single messages, which the theorem
assumes and the run `protocol_lossy` shows to be needed: there `ReplayRequest`
exists because there are gaps. Its invariant `OrderInv` follows every message
from the writer to the reader. What the live socket of an end carries, followed
by what its writer holds, is its *line*. `WiresGapFree` and `LinesGapFree`: on
every socket and on every line, a Regular message whose id is beyond the next
one of the reader has its predecessor before it. `LinesComplete`: while the
socket is alive and the end is not reconnecting, the newest message was received
or is on the line, so that the next one to be sent leaves no gap. The rest says
what holds while sockets change. `UnopenedIsUnused`: a socket that was not opened
yet carries nothing. `RequestsAreFirst`: a request to reconnect that was not read
yet comes first on its socket, which the server has not used. `HandoffIsQuiet`: a
socket on its way to the extension host process, which nobody reads, carries no
Regular message and will not get one, because the client is paused or is about
to be. `AllRoutine`: only Regular messages have ids, and nobody asks for a replay.

### 4.2 The storage

* `StorageTypeCorrect`: `Spec => []TypeOK`, including that no key is pending
  both as an insert and as a delete.
* `CacheAlwaysAccounted`: `Spec => []CacheIsAccounted`.
* `ClosedAlwaysStored`: `Spec => []ClosedIsStored`.
* `NothingComesLate`: `Spec => []ClosedIsFlushed`.
* `WindowsConverge`: `Spec => []Converged`.

`ClosedIsStored` needs `CacheIsAccounted`, because the database equals the cache
only if nothing is running and nothing is pending, and it needs to know that
`doClose()` does not reach the database before that: `CloseOrder` says which
promise it waits for and what that promise guarantees. `ThrottlerOrder` says
that a flush is queued only behind a running one and that no update is in
progress otherwise. If an update failed, `isErroneous` takes the place of
`CacheIsAccounted`, and the recovery writes the cache.

`ClosedIsFlushed` rests on `Sessions`: each window is shut, starting or serving,
with what may be pending in it and on its way to and from it at each stage, and
once the main process has closed every window is shut. `Converged` rests on
`Truthful`. Writes, confirmations and change events of one key can cross, and
what the window shows meanwhile need not be the main process's value.
`LastIsTrue`: what a window will hear last of a key is the main process's value,
unless the key is among `changedKeys` and an event is still to be sent.
`Informed`: an initialized window that will hear nothing more of a key has the
main process's value, or its own last write is pending or on its way.

### 4.3 The remote connection

* `TypeCorrect`: `Spec => []TypeOK`.
* `GraceIsSafe`: `Spec => []GraceMeansDisconnected`.
* `SocketIsThere`: `Spec => []SocketIsKept`.
* `FailureStops`: `Spec => FailureStopsLoops`, an action property.
* `NoCloseIsLost`: `Spec => []CloseIsHandled`.
* `NothingAfterFailure`: `Spec => FailureIsFinal`, an action property.
* `BeliefIsTrue`: `Spec => []ConnectedIsServed`.

The inductive invariant is the conjunction of `TypeOK`, `GraceMeansDisconnected`
and two facts about the order of events. `ProcessIsStarted`: a process that was
not launched or does not listen has not asked for its socket, and a connection
that is known keeps a socket until it was asked for, so that `_connectionData!`
is there; `SocketIsKept` follows. `SocketsAreOpened`: every socket that is alive,
carries something, is served, kept, drained or on its way to a process has been
opened, so that opening a new one, which makes it alive, never concerns the
socket for which a grace timer runs. Without it `GraceMeansDisconnected` is not
inductive: a timer could be running for a socket that is only opened later.
`FailureStops` needs the types only, but it covers what the runs do not: a window
with several connections, one of which is passed over.

`CloseIsHandled` is inductive with the types. `FailureIsFinal` needs
`FailureIsFatal`: a failure that is fatal for the window, or that the window was
told of, has disposed the management connection. `ConnectedIsServed` is about two
processes that learn of a socket's end independently. Its invariant adds
`PortIsForHosts` (a port is looked for on behalf of extension hosts only) and
`AnswerIsServed`: whenever a management connection seems up to the window (its
socket is alive, and the server's answer is on it or the loop has ended without
its being disposed) the server knows the connection and uses that socket.

### 4.4 The resource queue

* `Invariance`: `Spec => []Inv`.
* `WritesAreInOrder`: `Spec => []InOrder`.
* `NoLostWakeUp`: `Spec => [](SizeIsExact /\ DrainersCanWake)`.
* `WaitersFindNothingLeft`: `Spec => DrainedMeansDone`, an action property.

`InOrder` speaks of tasks whose Queues are long gone. It is inductive together
with: `SizeIsExact`, by which a Queue in the map always has one task in its place
and so drains exactly when nothing is left; `OutstandingIsQueued`, by which the
waiting tasks are those in the list, in the order of their tickets;
`BusyIsFirst`, by which a task that runs and is no orphan runs in the Queue of
the map, alone, and came before all that wait; `OrphansAreUntracked`,
`QueuedHasPlace` and `QueueNumbers`, by which a task that `dispose()` left
running can never be taken for one of a newer Queue, because numbers only grow.
Two lemmas first resolve the branches of `consume`: `queueFor` starts the first
task of a new Queue and lets all others wait, `consumed` drains or starts the
next. Then there is one lemma per case.

### 4.5 The throttled worker

* `WorkIsAlwaysScheduled`: `Spec => []WorkIsScheduled`.
* `BufferIsBounded`: `Spec => []BoundedBuffer`.

A lemma says what `doWork` leaves waiting. The second theorem then turns on the
two sides of the check in `work()`: the chunk that it grants without a timer is
handled in the same call unless the option forbids it.

### 4.6 The stored file working copy

* `TypeCorrect`: `Spec => []TypeOK`.
* `SavesNeverOverlap`: `Spec => []OneSaveAtATime`.
* `CleanCopiesWereStored`: `Spec => []CleanWasStored`.
* `ErrorsKeepDirty`: `Spec => []ErrorMeansDirty`.
* `SavesReplaceSeenText`: `Spec => OverwritesOnlySeen`, an action property.

One invariant carries the first four, a conjunction of six parts. `InStep` is the
sequentializer's side: a save that is alive is the running one, it runs under the
outer number until its participants are done and under the inner one after that,
and nothing is queued while nothing runs. `OneSaveAtATime` follows, and so does
that a save which ends frees the sequentializer exactly once, whether its two
numbers are equal or not. `Faithful` and `ContentInv` say what is known of the
contents: the saved version holds something that was stored or excused, a save
past its snapshot whose number is still the copy's carries what the copy shows,
and once it has been written that is stored. `CleanWasStored` is not inductive
without them, because the step that makes the copy clean looks only at two
numbers. `ResolveInv` ties a pending resolve, the revert or the reload that waits
for it and the read that serves it together.
`ErrorInv` covers the flags that a revert may set back: those too have an error
only with dirty. Lemmas about `doSave`, `doneRunning` and `Settled` come first,
then one lemma per group of actions.

`OverwritesOnlySeen` needs a second invariant, `SeenInv`, inductive relative to
the first. The validation of a save compares numbers only; that they stand for
contents is `StatsSeen`: the stat a copy holds is at most that of the file, and
while the two are equal the copy has held the content of the file, or is between
taking the stat and taking the content (`resolving.phase = "update"`), in which
case what the read brought is that content. `SaveSeen` follows a save: the stat it
was run against is not newer than the copy's, what it carries was shown, once it is
validated the stat of the copy is that of the file, and once it has written the
file holds what was shown. The last two hold unless `raced`: a write by another
program after the validation leaves the stat behind, and one before the stat is
taken lets the copy remember the stat of a content that nobody has seen. A failed
update breaks `StatsSeen` for good, since the stat was taken and the content never
is.

### 4.7 The backups

* `TypeCorrect`: `Spec => []TypeOK`.
* `BackupsAreTrustworthy`: `Spec => []TrustedBackup`.
* `QuietBackupsAreSafe`: `Spec => []QuietIsSafe`.

The types include that a queue holds at most four tasks, and this needs to know
who may have a task in it. `Base` is the invariant. `Queues` (with `Line`): only
the first task runs, whoever has a task has one, a task without an owner runs
(it was cancelled while it did), and what runs was needed. `Owners`: a task of
the tracker is its pending operation, one of an editor belongs to a copy that is
being opened, a shutdown has backups while it makes them and discards at its
end, and nothing but these can come behind the task of an editor. `Dormant` and
`Suspension`: a copy that is not open has nothing to back up, and a tracker that
is suspended nothing pending. The first lemmas say what the operators on queues
do: `Skipped`, `Begun`, `Queued`, `Cancelled`.

`TrustedBackup` is far from inductive: whether an entry of the service may be
trusted depends on the write that is running, on the tasks behind it and on the
copies' versions. `Trust` says it for one copy. `Ordered`: the entry, the queued
backups in their order and the copy are in the order of their versions and
mtimes; of the version that the copy has there is one content, and if two
backups of it differ in their mtime the copy has been saved since. `Spares`: a
discard in the queue deletes nothing of the version that the copy has, unless
that is saved. `Written` and `Mirrored`: the file is what the phase of the
running task says, and the entry has the file's mtime. So a write that truncates
a file which the entry calls current can only be one of a saved content. The two
go on for as long as nobody but the owners of tasks deletes files (`Deciding`).
Steps that change no content do one of few things to a copy (`Swept`), one
lemma covers them; the others have a lemma each.

`QuietIsSafe` speaks of a copy with an empty queue; the invariant `Follow` says
what has to be true before that. For an open copy that the tracker was not kept
from following (`Followable`): `Sound`, the newest backup, the one at the copy's
version and mtime, is of what the copy shows, a copy that is not modified has
none, and no discard stands behind it; `UpToDate`, a backup is about to be made,
or what stands last in the queue is the newest backup (a discard, for a copy
that is not modified), or the queue is empty and the file is right; `Repeated`,
a shutdown that backs up behind another operation repeats the newest backup, so
that cancelling it loses nothing. `Sound` is what makes an early return safe: a
backup that the service takes for made (`Needed`) is really there. A copy that
is being reverted has no up to date backup until the read ends, and gets a new
version if nobody edits it meanwhile. A copy enters this state when an editor
opens it, and so the invariant also has to say what the editor finds
(`Openable`): every backup still queued for a copy that is not open is deleted
again by the tracker, and with nothing of that kind left the backup is whole,
known to the service, exempt from the shutdown's discards and waits to be
restored, or there is none that anyone could take for whole (`Restorable`). This
is claimed only of copies that the tracker still waits for, because
`restoreBackups` takes visible editors off the list before they have opened, and
from then on a shutdown may discard what they are about to read. Such a copy is
in `interrupted`. The steps that read a backup are looked at by themselves:
`ResolvedEffect` says what they do to the queue, and a copy that opens with
nothing queued behind its editor is followed from then on, whatever happened
before (`OpenedFollow`); if a shutdown's discard waits behind it, it stays in
`interrupted`, and `QuietIsSafe` would be false of it. A copy whose read failed is
not open and has the tracker's own discard in its queue (`FailedReadFollow`). A
copy that was interrupted, by a failed write or a suspended tracker, is followed
again when a backup of its version, or a discard, ends and nothing is queued
behind it (`NotedFollow`).

### 4.8 Only model-checked

Liveness (`StableDelivery`, `SilenceNoticed`, `WhenFlushedResolves`,
`WindowCloses`, `LostIsResolved`, `AbandonedIsDisposed`, `RunsUnlessBlocked`,
`WaitersAreReleased`, `AcceptedIsHandled`, `SaveIsHonoured`, `ReloadShows`,
`ShutdownDecides`) is outside the reach of the prover. The action property
`ReopenShowsWork` is checked by TLC and not yet proved.
It needs, besides `Trust` and `Follow`, what a shutdown has made sure of
at each of its stages, and what is known of backups that the next window finds.

## 5. Not modelled

* User interface, editor core, language features, bundled extensions:
  sequential and large, with no protocol to check.
* The Rust command line: a program of its own around an external service.
* Socket framing, compression, file input and output, logging, telemetry.
* Everything that section 6 plans.

## 6. Plan

1. Done: `PersistentProtocol`, `SharedStorage`, `RemoteConnection`,
   `ResourceQueue`, `ThrottledWorker`, `StoredFileWorkingCopy`,
   `WorkingCopyBackup`.
2. The rest of the async primitives: `Throttler`, `Delayer` and `Sequencer` with
   rejecting tasks and disposal against an abstract specification of serial
   execution; `SharedStorage`'s use of the Throttler then refers to it.
   `BufferedEmitter` belongs here.
3. What the working copies still lack: deletion and orphans, dispose, the first
   resolve from a backup, moves of files.
4. `Channels` and `RPCProtocol`: requests, replies, cancellation, calls before
   registration, disposal, responsiveness.
5. `Lifecycle`: quit and veto of several windows, composed with the storage's
   closing order.
6. `UndoRedo`, `ViewsInEditor`, `ExtensionActivation`, `UserDataSync`.
7. Proofs: `ReopenShowsWork`; that `ResourceQueue` implements an abstract lock
   per resource; the abstract specifications of item 2.
