# TLA+ specifications of the launcher

The repository is an archive of the Minecraft launcher for Linux and macOS: a
client that loads the Android game, an ELF linker and libc shim for it, JNI
replacements, a windowing layer, and a few libraries of its own. Most of its lines
are vendored or generated. The parts that are the launcher's own and have state,
threads or a protocol are modelled here:

* **cll-telemetry** takes events from any thread, stores them in memory and in
  files, and uploads them from two worker threads while the configuration that
  limits the uploads is itself downloaded, cached and replaced;
* **simple-ipc** and **daemon-utils** connect the launcher to helper daemons over a
  unix socket, start a daemon that is not there, and stop one nobody uses;
* **linux-gamepad** and the input part of **mcpelauncher-client** bring gamepads and
  text to the game.

Paths below are relative to `src/`.

## 1. Inventory

### cll-telemetry

| component | state | operations | hard behaviour | what makes it correct |
|---|---|---|---|---|
| `TaskWithDelayThread` | mutex, condition variable, `running`, `hasPendingTask`, `runImmediately`, `stopping`, the `std::thread` | `requestRun`, `terminate`, `~`, `sleep`, `isStopping`, `doThreadLoop` | a request against a worker that leaves; notify after unlock; join under the mutex | no request or wakeup lost, one worker at a time, terminate returns and leaves nothing |
| `FileEventBatch` | file, descriptor position, cached length, count, `streamAtEnd`, `finalized`, limits | constructor, `addEvent`, `getEventsForUpload`, `onEventsUploaded`, `setLimit`, `setFinalized` | death inside an append or the in-place copy; short and failing writes; stale caches | no stored event lost, no fragment, caches exact |
| `MultiFileEventBatch` | oldest, old and newest file, limits | constructor, `addEvent`, `getEventsForUpload`, `onEventsUploaded`, `hasEvents`, `setFileLimits` | rotation while a list is in flight, restarts, failing `open` | it is a FIFO queue; no file is forgotten |
| `MemoryEventBatch`, `BufferedEventBatch` | items; the wrapped batch | `addEvent`, `getEventsForUpload`, `onEventsUploaded`, `flush`, `transferAllEvents` | lists merged of two batches; flush while a list is in flight | it is a FIFO queue |
| `EventUploader` | none but its steps | two `sendEvents` | several looks at the batch without a lock, retries after 401, limits that change meanwhile | exactly once, in order; an unsendable event does not block |
| `EventManager` | two storages, a memory batch, two tasks, two limits | `add`, `start`, `uploadTasks`, `uploadRealtimeTasks`, `onConfigurationUpdated`, destructor | events that change place between batches, order of shutdown | an event is in one place, somebody will look there, none is left in memory |
| `Configuration`, `ConfigurationManager`, `FileConfigurationCache` | settings, expiry, back-off; entries and their file | `download`, `loadFromCache`, `downloadConfigs`, `load`, `store` | torn cache file, revalidation, exceptions, a status nobody set | nothing stale is kept, limits follow the configurations, retries are spaced |
| serializer, compressor, HTTP client | `seqNum` | `createEnvelopeFor`, `compress`, `send` | `seqNum++` on many threads | not modelled |

Interaction: `EventManager::add` serializes the event, puts it in a batch and
calls `requestRun` of the task for that batch. The worker calls
`updateConfigIfNeeded` (under `configUpdateMutex`) and `EventUploader::sendEvents`,
which takes a list of the batch, posts it and reports it uploaded. A failed
realtime upload moves the events to the storages and requests the main task.
`ConfigurationManager` calls back into `EventManager`, which gives new limits to
the files and to the uploader.

### simple-ipc and daemon-utils

| component | state | operations | hard behaviour | what makes it correct |
|---|---|---|---|---|
| client (`service_client`, `launchable_service_client`) | table of callbacks, `hello_response_value`, the connection, `shutting_down` | construct, call, `send_message`, `handle_message`, `connection_closed`, destroy | calls against the loss of the connection and its reopening on the epoll thread | a callback runs once, no call is forgotten, both ends agree on the encoding |
| connection and encodings | receive buffer with two offsets, current encoding | `handle_data_available`, `send_data` | messages cut by reads, growing and moving buffer, edge-triggered events, change of encoding | messages arrive whole, in order, and all of them |
| io handler (epoll) | table of descriptors, `cbm` | `add_socket`, `remove_socket`, `run` | callbacks run under the mutex that `remove_socket` waits for | part of the two above |
| server (`unix_service_impl`, `rpc_handler`) | listening socket, connections | `bind`, `close`, `handle_incoming`, `connection_closed`, `invoke` | the socket file is shared by all daemons of a path | a listening daemon is reachable |
| `daemon_launcher`, `auto_shutdown_service` | inotify watch, promise, child; count of connections | `open`, `start`; `run`, `request_stop` | two clients start daemons while one stops; time-outs; events on another thread | `open` ends, no wakeup missed, a client is served, an unused daemon stops |

A client opens through the launcher; the launcher's `open` calls `impl.open`, which
connects to the socket file. When a connection is lost, the epoll thread of the
client fails all calls and opens again.

### Input

| component | state | operations | hard behaviour | what makes it correct |
|---|---|---|---|---|
| `LinuxJoystickManager`, `LinuxJoystick` | udev monitor, joysticks, `hatValues` of each | `initialize`, `poll`, `onDeviceAdded`, `onDeviceRemoved` | devices that come and go at any point; events the kernel dropped; hats decoded into a table nothing initialises | one joystick per device; only directions that were reported are passed on |
| `GamepadManager` | the index given out next | `takeGamepadId`, `putGamepadIdBack` | indices given back out of order | indices are distinct |
| `LinuxGamepadJoystickManager`, `WindowCallbacks` | focused window, state of each gamepad, `needsQueueGamepadInput` | focus, `update`, `onGamepadState`, `onGamepadButton`, `onGamepadAxis` | one motion event for several changes, read later | the game's view is the device's state |
| `FakeInputQueue`, `FakeLooper` | two queues; the attached entry | `pollAll`, `getEvent`, `finishEvent` | keys overtake motion events; events before the queue is attached | everything arrives |
| `TextInputHandler`, `MainActivity` | text, byte and character position, selection, `ignoreNextHideKeyboard` | `enable`, `update`, `disable`, `onTextInput`, `onKeyPressed` | the game replaces the text from within the callback of an edit | positions stay on characters and agree |

### The rest of the repository

| component | why it is not modelled |
|---|---|
| mcpelauncher-core `hook.cpp` | chains of hooks of a library's symbols, sequential; the next candidate |
| libc-shim pthreads | wrappers of one call each; a candidate |
| msa-daemon-client, game-window (windows), mcpelauncher-common, file-util, properties-parser, base64, arg-parser, logger | thin, stateless or windowing code |
| eglut, epoll-shim, file-picker, errorwindow, webview, baron, fake-jni, libjnivm, mcpelauncher-linker, headers, symbol lists, binaries | vendored, generated, user interface, or projects of their own |

The hazards, each at its line, are listed in `PROJECT.json`.

## 2. Modules

| module | models | uses |
|---|---|---|
| `DelayedTask` | what a task promises: requested, executing, phase | |
| `TaskWithDelayThread` | the class, one step per critical section, join, notify or run | refines `DelayedTask` |
| `FileEventBatch` | one file, cell by cell | |
| `TelemetryProofs` | the theorems about `TaskWithDelayThread` and `FileEventBatch` | TLAPS |
| `EventQueue` | what a batch promises: a FIFO queue with a prefix in flight | |
| `EventFiles` | the operations of `MultiFileEventBatch` as functions on a storage | |
| `MultiFileEventBatch` | the storage used by several threads over restarts | `EventFiles`, refines `EventQueue` |
| `BufferedEventBatch` | the memory buffer in front of the storage | `MultiFileEventBatch` |
| `EventUploader` | `uploadTasks` and `sendEvents` against adds and new limits | `MultiFileEventBatch` |
| `EventStorageProofs` | the theorems about the storage, its buffer and its uploader | TLAPS |
| `EventManager` | `add`, both workers and the owner | `DelayedTask` twice |
| `EventManagerProofs` | its theorems | TLAPS |
| `Configuration` | download, cache and update of the configurations | |
| `ConfigurationProofs` | its theorems | TLAPS |
| `ServiceClient` | both ends of the client's connections, call by call | |
| `ServiceClientProofs` | its theorems | TLAPS |
| `ConnectionBuffer` | the receive buffer, byte by byte | |
| `ConnectionBufferProofs` | its theorem | TLAPS |
| `DaemonLauncher` | clients and daemons around one socket file | |
| `DaemonLauncherProofs` | its theorems | TLAPS |
| `GamepadInput` | gamepads from the kernel to the game | |
| `GamepadInputProofs` | its theorems | TLAPS |
| `TextInputHandler` | the text field | |
| `MC...` | the constants of the runs | |

How the levels fit. `FileEventBatch` shows that a file keeps a sequence of events
with exact length and count, so `EventFiles` takes a file to be that sequence.
`MultiFileEventBatch` implements `EventQueue` (until an `open` fails), so
`EventManager` takes the critical storage to be a queue; the normal storage is a
`BufferedEventBatch`, which is a queue only until the buffer is flushed during an
upload, so for it this is an assumption. `TaskWithDelayThread` implements
`DelayedTask` under the header's contract that no run is requested after
`terminate`; `EventManager` breaks that contract (the destructor stops the main
task before the realtime one, which may still hand events to it), and there
`Request` is also allowed afterwards, as the code would start a new worker.
`ConnectionBuffer` shows that a stream is cut into the messages that were sent, so
`ServiceClient` exchanges whole messages; it keeps the two writes of a message,
because they can be mixed. `DaemonLauncher` shows when a reopening succeeds;
`ServiceClient` lets it succeed or fail.

### Correspondence

*TaskWithDelayThread.* The four flags and `thread` are the members. `pc` is
where a worker is in `doThreadLoop`, `rpc` where a client is in `requestRun`,
`opc` where the owner is in `terminate`. A critical section is one step, except
that of `requestRun` that joins: there `mutex` stays taken. `wait_for` has no
predicate, so whatever wakes it lets the task be taken. `sleep` and `isStopping`,
called by the function, change nothing of the task and are left out.

*FileEventBatch.* A cell is a byte as far as it matters: which event, which part,
and whether it is the newline. Every operation is one step;
`crashInAddEvent` and `crashInCopy` are operations that stop after some of their
system calls. A `write` may be short, so the process may die at any cell of the copy.
Write errors in files longer than the copy buffer of 1 MiB, of which later pieces
would still be copied, are not considered (the limit of a file is a few kilobytes).

*EventFiles.* `bad` is the set of ids for which `open` fails in an operation. `Ascending` is
the order in which the constructor sorts the files it finds.

*MultiFileEventBatch.* `batch` is the object with its directory, `list` the list in
flight, `tried` the events `addEvent` was called with, `failures` the number of `open` calls
that failed so far, up to `MaxOpenErrors`. An operation is one step, since it holds the
mutex.

*BufferedEventBatch.* `batch` and `list` of `MultiFileEventBatch` are the wrapped batch and
its part of the list in flight, `mem` the `MemoryEventBatch`, `upload` the wrapping list with
the buffer's part and the events of both. Every `open` succeeds. An operation is one step: it
holds the mutex, and a flush is the wrapped batch's `addEvent` folded over the buffer. The file limits
change by `onConfigurationUpdated`. `refused` and `overlapped` record what ends the claim.

*EventUploader.* One step per look at the storage and per post, each look being the action of
`MultiFileEventBatch` with no failing `open`; `SizeMax` is `SIZE_MAX`; the two limits are
stored and read separately. A 401 may be retried once. `received` are the events the server
acknowledged: a post it took and whose answer was lost (an `HttpError`) counts as failed, and
the same events are sent again. `seen` remembers what was stored at the first of the two looks of
`sendEvents`. Compression and headers
are left out, and so is a `Retry-After` that `std::stoull` rejects.

*EventManager.* A post takes any non-empty prefix; `updateConfigIfNeeded` touches
nothing this module has. `add` is one step from the test whether the memory is full to the
storage's `addEvent`; the request that follows is another. `destroy` happens when no thread is in `add`.

*Configuration.* One property stands for the three; the settings are known by their
version, which is also the ETag. `until` and `failedAt` are history variables.
The status after an `HttpError` is a choice from `GarbageStatus`, because nothing
initializes it.

*ServiceClient.* `pc` says where each caller is in `call`, where the owner is in the
constructor or destructor, and where the epoll thread is in its callbacks. `cbs`,
`hello`, `cb`, `shutting_down` are the members, `swapped` the local map of
`connection_closed`. A step is a critical section, a load of an atomic or a `write`.
`link[k]` is connection `k`: the messages in flight, the encoding each end uses, and
`half`, the threads between their two writes. `over` means the process died (SIGPIPE,
an exception on the epoll thread, a use of freed memory) or the constructor threw.

*ConnectionBuffer.* Bytes are known by their position in the stream; `buf`, `start`
and `check` are the buffer up to `buffer_off`, `buffer_start_off` and `check_start`.
Each turn of the two loops is a step, so that bytes may arrive between any two reads. A message
arrives in pieces of any length. One byte stands for the varint of a length, which is
therefore never seen in part.

*DaemonLauncher.* `path` is the daemon whose socket the file names. One step per
system call that others can see: `unlink`, `bind`, `listen`, `accept`, `close`, the
watch, `fork`, the wait. `onIo` says that `open` runs on the epoll thread, which then
cannot handle the events it waits for. The policy is `no_connections`. A daemon is
"constructing" from the `listen` and `epoll` registration in the constructor of `service`
(`service.h:21`) to the end of that of `auto_shutdown_service`, whose `connections` and overrides do not
exist before; `count` is that `int`, and `uncounted` are the daemons that accepted a connection
in between.

*GamepadInput.* The steps of the game's thread are those between which a device can
change: each udev event, each evdev event, each end of a buffer. `view` is what the
game has been told. "A" is any button with a key code; the four directions are those of one
hat. A report is a pair of the buttons it is about, "A" or the two directions of an axis, and those of
them that are down. `HatEvent` merges the two bits of an axis into `hatValues` and passes all four
directions on, as `linux_joystick.cpp:100-116` does; as long as it is `Unwritten`, `hatValues` is any
member of `Garbage`, what uninitialised memory may hold. `known` is a history variable: what the device
reported since it was opened. `Shown` is what the axis function tells the game: left hides right
and up hides down. The sticks are left out, and an exception thrown by the constructor of
`LinuxJoystick` (the device went away between `open` and its ioctls) is not told apart from a
device that cannot be opened.

*TextInputHandler.* A byte is 0 if it continues a character, otherwise the length of
the character; every call is one step, the callback of `onTextInput` included, in which
the game may call `updateTextboxText` or `hideKeyboard`.

## 3. Runs

| run | shows | bounds |
|---|---|---|
| `task` | no lost request or wakeup, one worker, clean stop, no deadlock, refinement of `DelayedTask` with its fairness, `terminate` returns | 3 clients, 2 worker identities (a third is never needed: `OneWorker`), unbounded requests |
| `file_batch` | nothing lost, nothing foreign, caches exact over crashes; failing appends cost no older event, a failing copy leaves an exact length | 4 events of 1 to 3 cells, so that the rest is longer and shorter than what is cut; 2 file and 2 upload limits, one of which splits a line; one failing append, one failing copy and one death in the middle of the copy (`MaxCuts`), each at any cell |
| `multi_file` | refinement of `EventQueue`; every file of the directory that has an event is referred to and makes `hasEvents` true | 5 events (one that fits nowhere), files of 1 or 2 events: up to five files; one failing `open` |
| `buffered` | a queue over adds before, during and after uploads, flushes, new limits, restarts and crashes | 5 events (one that fits in no file), buffer of 2: two flushes; files of 1 or 2 events; a behaviour is followed to the step after which nothing is claimed |
| `uploader` | acknowledged exactly once and in order; what is dropped is unsendable or the stated exception; every event is received or given up | 2 events that fit and 2 that fit neither in a file nor in a post; 2 configurations that differ in both limits, one with a maximum of 0 events |
| `manager` | one place per event, memory empty at the end, every event received | 3 realtime events (one critical), memory of 2, so that it is full once; 1 refusal, 1 left-over event |
| `config` | limits are those of the configurations held | 2 configurations, 2 versions, 1 death, clock to 2; a view drops the history variables, which the invariant does not mention |
| `config_fresh` | nothing stale kept, retries spaced | 1 configuration, 3 versions, refresh 2 or 3, clock to 7: two refresh intervals and two back-offs |
| `ipc` | a callback runs at most once and is not forgotten, the encoding changes at the same message, every call ends | 2 callers, the owner, the epoll thread; 2 connections, of which the server may close the first at any point; 1 call per caller |
| `framing` | messages are delivered whole, in order, and all of them | 3 messages of 2 to 8 bytes, buffer of 4 growing to 7: shorter, equal, longer and too long, arriving in pieces of any length; the encoding changes after the first message or never |
| `daemon` | `open` ends and misses no file, a daemon is reachable, a client is served or told, an unused daemon stops | 2 clients, one of which connects twice, also while the daemon's object is still constructed; 2 daemons, one of which may be killed |
| `input` | joysticks, indices and buttons agree from the kernel to the game; input arrives; the cursor stands on a character | 2 devices, 4 changes, a kernel buffer of 2 events; the button pressed and released, and a move of each axis of the hat; uninitialised memory with no or all directions set; characters of 1, 3 and 4 bytes, texts of up to 7 bytes. The two parts share nothing, so a behaviour takes one |

Runs `ipc`, `framing` and `daemon` do not check for deadlock, because a client may
have nothing more to do, a peer may stop writing and daemons exit; what must not stop
is said by their liveness properties.

### Conditions under which the properties hold

The models follow the code also where its behaviour is doubtful; the properties say
where that ends them, by a history variable for each case.

* `FileEventBatch`: `NothingLost` and `ExactQueue` hold until a `write` fails, `CacheExact`
  until one of `addEvent` does: it cuts the file back and leaves the descriptor behind
  its end (`file_event_batch.cpp:87`), so that the next event stands after a hole of
  zero bytes. A process that dies in the middle of
  the in-place copy may lose the one event the copy had reached: its front is
  overwritten and it is not yet whole elsewhere (when it is longer than what was cut).
  `NothingLost` allows one such event per death and no more; `ExactQueue` does not
  speak of the files such a death leaves, in which events may stand twice.
* `MultiFileEventBatch`: a file whose `open` fails counts as empty, and
  `checkOldestBatch` (`multi_file_event_batch.cpp:66`) removes it with its events; `IsQueue`
  and `NoEventsForgotten` hold up to the first such failure.
* `BufferedEventBatch`: an add that flushes the buffer while a list of it is uploaded
  makes `MemoryEventBatch::onEventsUploaded` (`memory_event_batch.cpp:43`) erase events
  that were never sent, or run past the end (`overlapped`). This can happen whenever
  more than the buffer's limit is added during one post.
* An event larger than a file may be leaves an empty file, which can become `oldestBatch`. Then
  `hasEvents()` is true and no list can be had: `BufferedEventBatch` wraps a null list
  (`buffered_event_batch.cpp:31`), sends its buffer before the files (`refused`, and `NothingLost` ends).
  In `EventUploader` this is `AnyRefused`. `sendEvents` finds no list although nothing is too large, and an event
  added between its two looks is the one that is dropped (`event_uploader.cpp:78`):
  `DropsOnlyUnsendable` allows that only for events not in `seen`, and only after a refusal. The
  loop of `uploadTasks` may then not end (line 80), so `EventuallyUploaded` ends with a refusal. Run
  `uploader` has two such events.
* It has no event that a file takes and that is larger than the size limit of a post: for such a
  first event `getEventsForUpload` returns an empty list instead of none, `sendEvents` (line 74)
  posts it and drops nothing, and the queue is blocked.
* `EventManager`: the transfer of realtime events requests a run of a main task that was
  terminated (`event_manager.cpp:103`), against the comment of `terminate`.
* `Configuration`: after an `HttpError` the branches test a `response.status` nobody
  initialized (`configuration.cpp:69`). A left-over 304 prolongs an expired
  configuration, so that `NotStale` is checked with `GarbageStatus` without 304, and
  `LimitsAreApplied` with it; a 200 makes `asInt` throw. So does a body that is not JSON
  (action `invalidJson`): the process ends.
* `ServiceClient`: `early`: `connection_closed` runs the callback of a `.hello` that was not
  answered, which sets `hello_response_value` for a connection not yet greeted
  (`service_client.cpp:84`). `stale`: a call passes the check on one connection and is sent on
  the next. In both cases a call may be written in an encoding its reader has not switched
  to. `torn`: two writes of two messages are mixed, or a short write throws and leaves half a
  message. A call that throws leaves its callback registered. `over` is possible by SIGPIPE,
  by an exception on the epoll thread, by the two loads of `cb` around the destructor, and by
  the destructor's `close` of a descriptor that the epoll thread has closed.
* `ConnectionBuffer`: a message above `MAX_BUFFER_SIZE` is left unread for ever
  (`connection_internal.cpp:16`, "TODO: disconnect"; only the json encoding refuses to send
  it), and `memcpy` may move overlapping bytes (`garbled`, line 21).
* `DaemonLauncher`: `overlap`: two daemons alive at once; the one that stops, or fails to bind,
  removes the other's file. `coalesced`: two connections in one edge-triggered event, of which
  one is accepted. `foreign`: a second daemon's file sets the promise again, which throws on
  the epoll thread. `uncounted`: a client accepted while the daemon's object is still constructed
  (`auto_shutdown_service.h:30`) is not counted, its end takes the count to -1, and the daemon then never
  sees it at 0 and does not stop; `StopsWhenUnused` excepts such a daemon. SIGCHLD is not blocked, so that the signalfd never reports the
  child's end and the whole ten seconds pass.
* `GamepadInput`: `early`: a device between the start of the monitor and the enumeration is
  added twice. `gap`: `takenGamepadIds` is never filled, so an index in use is given again
  once a lower one was put back. `spoiled`: the game is not told of the keys that were down when a
  gamepad is removed, and events the kernel dropped are not recovered. `shadowed`: of
  two gamepads moved in one poll the second gets no motion event. Nothing initialises `hatValues`
  (`linux_joystick.cpp:105`), so the first event of one axis of a hat also passes on whatever the
  memory holds for the other: `GameIsRight` speaks only of the axes the device has reported since
  it was opened (`known`).
* `TextInputHandler`: `miscounted`: `getCharByteSize` does not know characters of four bytes; the
  character position becomes too large, and a backspace at the beginning then looks before
  the text (`text_input_handler.cpp:34`).

Met while modelling and outside of the models: `TaskWithDelayThread::sleep` tests the
pointer `currentIsStopping` instead of what it points to and therefore never waits
(`task_with_delay_thread.h:40`), so that the back-off between failed uploads is not made;
`LinuxJoystick::poll` writes the state of a button into the table of button numbers
(`linux_joystick.cpp:97`); `setGameControllerConnected` tests `connected` in both branches;
`seqNum++` (`event_serializer.cpp:40`) is not atomic, and two events may carry one number.

### Fairness

* `TaskWithDelayThread`: weak fairness of each step a thread can take on its own
  (the scheduler), of the timeout of `wait_for`, and of the return of the user
  function. Clients need not request, the owner need not terminate.
* `EventUploader`: weak fairness of the upload thread; strong fairness of an
  accepted post, i.e. a server that is asked for ever accepts at last.
* `EventManager`: weak fairness of both workers, of a call of `add` that has stored
  its event and of a destructor in progress; strong fairness of an accepted post.
* `ServiceClient`: weak fairness of every thread and of the server, which answers what it
  has received. Nothing makes a caller call, the server close or the owner destroy the client.
* `ConnectionBuffer`: weak fairness of the reader; the peer may stop at any byte.
* `DaemonLauncher`: weak fairness of both threads of clients and daemons; the timeout of the
  wait is one of the steps. Nothing makes a client appear or leave or a daemon die.
* `GamepadInput`: weak fairness of the thread that calls `pollAll` in a loop.

`Configuration`, the batches and `TextInputHandler` make no liveness claim.

## 4. Proofs

A run checks a property for the constants of its cfg; a theorem states it for all that
satisfy the named assumptions. Every inductive invariant was first checked with TLC on
the constants of the run, as far as TLC can evaluate it.

| module | theorem | property | holds for any |
|---|---|---|---|
| `TelemetryProofs` | `TypeCorrect`, `OneWorkerAtATime`, `RequestsAreNotLost`, `WakeupsAreNotLost`, `TerminateIsClean` | the safety invariants of run `task` | clients and workers |
| | `Implementation` | `ImplementsTask`, the refinement of `DelayedTask` | |
| | `CacheIsExact`, `OlderSurvive` | `CacheExact`, `OlderEventsSurvive` | events, sizes, limits, failed writes and deaths |
| | `FileIsQueue` | `ExactQueue` | events, sizes, limits and deaths outside the copy |
| | `PendingSurvive` | `NothingLost` of `FileEventBatch` without cut copies and without the order | the same |
| `ServiceClientProofs` | `CallbacksRunOnce`, `NoCallForgotten`, `EncodingsAgree` | `CallbackOnce`, `NothingForgotten`, `EncodingAgrees` | callers and connections |
| `DaemonLauncherProofs` | `NoMissedCreateHolds`, `ReachableHolds`, `PromiseSetOnceHolds` | `NoMissedCreate`, `Reachable`, `PromiseSetOnce` | clients, daemons, opens and kills |
| `ConfigurationProofs` | `LimitsHold`, `NotStaleHolds`, `RetriesHold` | `LimitsAreApplied`, `NotStale`, `RetriesAreSpaced` | configurations, versions, refresh intervals, deaths; back-off caps from 2 to 8 |
| `EventManagerProofs` | `MemoryIsSavedHolds`, `ExactlyOnePlaceHolds` | `MemoryIsSaved`, `ExactlyOnePlace` | events and their flags, limits, refusals |
| `ConnectionBufferProofs` | `MessagesWholeHolds` | `MessagesWhole` | messages, lengths, buffer and limit |
| `GamepadInputProofs` | `DevicesMatchHolds`, `GameIsRightHolds` | `DevicesMatch`, `GameIsRight` | devices, events, kernel buffer, reports and left-over memory |
| `EventStorageProofs` | `NothingForgotten`, `StorageIsQueue` | `NoEventsForgotten`, `IsQueue` (the refinement of `EventQueue`) | events, sizes, limits, files, restarts |
| | `UploadedExactlyOnce` | `ExactlyOnce` | events, sizes, limits, posts and failures |
| | `BufferLosesNothing` | `NothingLost` of `BufferedEventBatch` | events, sizes, file, buffer and upload limits, restarts and crashes |

### TaskWithDelayThread

From the one assumption that `Nobody` is neither a client nor a worker
(`IdentityAssumption`). The properties are not inductive one by one. The invariant `IInv`
adds to them: who holds the mutex (exactly a client that joins, and at most one), that
`running` is true exactly while a worker is in the loop or a client is about to start one,
that a worker waits only with a task pending, that a pending task keeps `running` set, and
that no client is in `requestRun` once `terminate` was called. `requestRun` needs the second
to know that the worker it joins is leaving; `terminateJoin` needs it to conclude that
nothing is pending once the worker has ended. Theorem `Invariance` is proved action by
action. The refinement maps `hasPendingTask` to `requested`, "some worker is inside the
function" to `executing` and the owner's position to `phase`; `OneWorker` makes `Begin` and
`End` exclusive.

### FileEventBatch

Assumed: events have at least one cell and are not `NoEvent`, the read cap is positive, limits
are pairs of natural numbers. The invariant is `FileInv`:

* `InBounds`, which holds whatever fails: the cached length is at most the file's, after a seek
  the descriptor stands at or behind it, and the list in flight ends within it and with a line.
  So an append, also one that fails and is cut back, touches neither the list nor anything
  before it.
* `Cached`, until a `write` of `addEvent` fails: `CacheExact`, and three facts it needs. The
  count of the list is the number of lines in its cells, or `onEventsUploaded` would spoil the
  count. The file ends with a line, or an append would not add one. While `streamAtEnd` is set
  the file is longer than the list in flight: `onEventsUploaded` of the whole file empties it
  and leaves the descriptor where it is, and only this shows that the next append seeks.
* `AllStand`, while no copy fails or is cut: every guarded event (`Guarded`: all that are
  pending, after a failed append those stored before) stands as a line of its own in the cells
  the object still looks at. The events stand behind the line end that the copy cuts at, or
  they were in the list and are reported (`Reported`, `StandBehind`); a death after the whole
  copy leaves them at the front.

`FileIsQueue` needs the order as well, which the second invariant `FileQueue` gives until a
`write` fails or a copy is cut: the events reported are the first `k` stored, the lines of the
others lie one behind the other from the first cell on (`Laid`, with the cell each one ends
at), and what a death in `addEvent` left behind them has no newline and is there only while
no object has the file open. The constructor cuts at the last newline, which is the end of the
last line laid out. A list ends with a line, so its report moves the boundary `k` and the
copy leaves the rest laid out (`QueueCut`). That no event is reported that the list did not
hold (`LaidEvents`) is where the layout is needed: the first cell of an event is found in its
own line only.

`LinesCounted`, `KthLine`, `LinesBehind` and `OneLineMore` say what the count of newlines is for
a prefix, a cut and an append.

### ServiceClient

Assumed: the threads differ (`ThreadsDiffer`), there is a connection
(`MaxConnIsPositive`), and an id is never used twice (`IdsDiffer`, which is
`next_message_id.fetch_add`).

* `CallbacksRunOnce`: a callback is in `cbs` or in `swapped`, not in both, one that is there
  has not run, and a call not yet made is in neither. Three actions run callbacks: a check
  that fails and a response (lemma `RunOne`), and `IoRunsCallbacks`; the others leave them
  alone (`QuietStep`).
* `NoCallForgotten`: the invariant `FInv` adds where the epoll thread and the destructor
  are when there is no connection, that a thread between its two writes has a connection
  in hand, and its core, `UnderWay`: a call that was sent and is still registered is carried
  by the connection the client holds, or the epoll thread is on its way to the swap. A call
  that the swap misses is one that had not been registered; it then finds the flag
  cleared or no connection.
* `EncodingsAgree`: `EncInv` says that the newest connection goes through four phases
  (`Fresh`, `Asked`, `Told`, `Agreed`), that only its greeter writes in the first, that
  `hello_response_value` and every call past its check mean the last, and that older
  connections are closed. All of this ends with `early` or `stale`, as the property does.

### DaemonLauncher

Assumed: the bounds are natural numbers. `NoMissedCreate` needs that a client that may wait
watches the directory (`Watches`) and has a child exactly from the fork on (`HasChild`);
`PromiseSetOnce` that it hears of its own child's file once (`HeardOnce`), which is where
`foreign` comes from; `Reachable` that without an overlap there is one daemon process
(`OneDaemon`), so that nobody else removes its file (`FileIsMine`).

### Configuration

Assumed: finitely many positive refresh intervals, and a cap of the back-off between 2
and 8 (8 in the code; the shift is `1 << min(attempt, 8)`, and powers of two are only
known to the provers case by case).

* `LimitsHold`: while an update is under way, either something was downloaded, and the
  callbacks are still to come, or the limits are already those of the configurations.
  `GarbageStatus` is arbitrary.
* `NotStaleHolds`: whatever is in the objects, in the cache, in the file or in a prefix of
  it may be used as long as it says (`FreshInv`): its version was the server's no longer
  than the longest refresh interval before its expiry. The theorem assumes that
  `GarbageStatus` does not contain 304: with it the property is false (see section 3).
* `RetriesHold`: a configuration whose last request failed has a retry time at least two
  seconds after that request's start (`SpacedInv`). The same hypothesis is needed: a failed
  request taken for a 304 sets no back-off.

### EventManager

Assumed: flags are about events, limits are natural numbers, and the events left over by
the previous process are pairwise different and new to this one (`LeftoverAssumption`).

* `MemoryIsSavedHolds`: events in memory always have a run of the realtime task ahead that
  will look at them, requested, under way or about to be requested by the thread in `add`
  (`MemoryIsWatched`); the destructor terminates that task before it is done, and no thread
  is in `add` by then (`NoAdds`).
* `ExactlyOnePlaceHolds`: the number of places of an event is a sum over the batches, the
  list in transfer and the server's acknowledgements (`Places`). Lemmas about `Occurrences`
  say what an append, a prefix and a tail do to a count; with `Sending` (the list in flight is
  still a prefix of its batch, although others append to it meanwhile) every action leaves
  the sum alone.

### ConnectionBuffer

Assumed: messages have two bytes or more and the buffer is not larger than its limit. First
comes the stream itself: `First` is a recursive function, whose equation (`FirstEquation`)
and monotonicity (`FirstFacts`) are shown with the least-number principle, and every byte
belongs to exactly one message (`MessageOfByte`, `ByteHasMessage`). The invariant says that
the buffer is a window of consecutive bytes in which the next message begins at `start`
(`Window`), that the reader reads on only when that message is not complete (`Incomplete`),
and that the end it looks for is not among the bytes it has already searched (`Searched`,
which is what makes it sound to continue at `check_start`). Lemma `CompleteIsRight` then says
that `check_read_message_complete` finds a message exactly when it is there, in both
encodings. As in the model, nothing is claimed of the steps after an overlapping `memcpy` has
garbled the buffer.

### GamepadInput

Assumed: finitely many devices, a kernel buffer of at least one event, reports that are about
the button or an axis of the hat with at most one of its directions down, and any left-over
directions in `hatValues`. The theorems are about `PadSpec`, the specification of the gamepads alone; run `input` takes them beside the
text field, with which they share no variable.

* `DevicesMatchHolds`: as long as no index below another was put back, the joystick at
  position `k` has index `k - 1` and `takenGamepadLowId` is their number (`Indices`): this
  is the state in which `takeGamepadId` cannot give an index out twice, and the removal that
  ends it is the one that sets `gap`. The events of a device that the monitor still has obey
  `Pending`: two "add" have a "remove" between them, the first event of a device with a
  joystick is "remove", and the last one will make the joysticks right. `Announced` and
  `ReadEvent` say that a new event and a read one keep this. Before the enumeration only
  devices that are gone have events (`OnlyRemoves`), which fails exactly when `early` is set.
  The enumeration is a `FoldLeft`; that it adds the devices one by one (`FoldOfOrder`,
  `EnumerateAdds`) is shown from the definition of the fold.
* `GameIsRightHolds`: a button passes two queues, the kernel's buffer and the game's key
  events. `Tells` says of the first and `Settles` of the second that the last event about a button
  is what is known at the far end, and that both ends agree if there is none; what an append and
  a read do to them are lemmas about sequences. `HatRight` is about the decoding: `hatValues` are the
  directions the window has or, while unwritten, every known direction still has an event in the
  kernel's buffer, so that garbage reaches only directions that are not known. `WholeAxes`: an
  axis is known as a whole and never has both of its directions down, so that `Shown` hides none of the
  known ones. A direction is looked up when its motion event is
  handled, so that `MotionsRight` needs only that such an event is queued, or that the
  gamepad is `shadowed`; `Asked` says that `needsQueueGamepadInput` is cleared only while
  one is queued.

### MultiFileEventBatch, EventUploader and BufferedEventBatch

Assumed: events have a positive size, limits are pairs of natural numbers, and so are
`MaxOpenErrors` and `SizeMax`; a buffer holds at least one event. The sizes and the limits are otherwise arbitrary: an event may
be larger than any file, and a limit may be 0.

The first part of the module is about what the operators compute. `TotalSize` and
`FlattenSeq` are folds of the community modules; `Recursion` and `Fold` show once that the
function a fold is defined by exists, and `SizeOf`, `Flatten`, `FlattenConcat` and
`WithoutConcat` say what an append or a concatenation does to the sum, to the joined
contents of files and to a sequence without some of its events.

* The invariant of a storage is `Sound`: the ids of the oldest, the old and the newest
  file ascend, the directory holds exactly these files, and the descriptors are those of the
  oldest and the newest. One lemma per operation says that it keeps `Sound` and what it does
  to `Contents`, the events of all files in order: `rotate`, `checkOldestBatch` (which skips
  and removes empty files) and the constructor leave it alone, `addEvent` appends,
  `onEventsUploaded` removes a prefix. `InFlight` adds that the list in flight is a prefix of
  the file that uploads are read from, and that this file stays the same while a list is out
  (`Settled`): without it `onEventsUploaded`, which only gets a count and a size, would cut
  events nobody has seen. `StorageInv` claims both while `failures` is 0; after a failed
  `open` the directory has a file the object believes empty and both properties end, as in
  section 3. That the directory holds no other file (lemma
  `KnownFiles`, from `Sound`), and that `hasEvents` is false only when the newest file is the only one and empty,
  give `NothingForgotten`; the refinement maps the queue to `Contents` and the number in
  flight to the list's count.
* `UploadedExactlyOnce`: the uploader's steps are those of the storage, so that `Works`
  (`StorageInv` and no failure) is kept by the same lemmas. `HoldInv` says that from the
  list to its report the upload thread carries the first events of the storage, although
  others append; `QueueInv` is `ExactlyOnce` with the list split off between the
  acknowledgement and the removal; `HistoryInv` that every event is accepted once, so that
  taking a dropped event out of `accepted` takes out that event and no other (`Without`).
* `BufferLosesNothing`: the steps on the files are again those of the storage (`Works`).
  `FlushAll` follows a flush event by event: if none is refused, the contents of the files
  grow by the whole buffer, and the list in flight keeps its events. The property needs two
  strengthenings, both only while nothing was refused or overlapped (`Claim`). `Lists` says
  that the list in flight holds the first events of the files and of the buffer, and events of
  the buffer only if it holds all of the files: otherwise its report, which removes by number
  from both, would remove events out of order. `Solid` says that an open oldest file is not
  empty: otherwise the files would give a null list although they have events behind it, and the
  buffer would be sent first. `BufferQueue` adds that every event was added once, so that the
  events a crash takes with the buffer are nowhere else (`BufferGone`).

### What is only model-checked

Everything with fairness, because the prover has no rule for it: `WrittenIsDelivered`,
`EventuallyReceived` and the other liveness properties, and the fairness of `DelayedTask`. Not
proved:

* `NothingLost` of `FileEventBatch`. `FileIsQueue` and `PendingSurvive` are what it says while
  no copy is cut in the middle; the one event that a cut copy may cost would need an
  invariant over the fragments such copies leave behind each other;
* `DropsOnlyUnsendable` of `EventUploader`: it would need that an empty file is in front only
  after a refusal, and which events stand behind it at each of the two looks;
* `CursorIsRight` of `TextInputHandler`, whose texts are folds over characters.

The library's induction theorems cannot be used, since they take an operator as a parameter; a
set of counterexamples and its least element take their place where induction is needed.
Folds are defined by recursion over sets, for which the same has to be done fold by fold.

## 5. Plan

Done: the modules above and the proofs about the task, the single file, the client, the daemons, the
configuration, the manager, the receive buffer, the gamepads, and the files with their
uploader and buffer.

Next, most important first:

1. `NothingLost` of `FileEventBatch` after a copy cut in the middle.
2. `EventManager` over two concrete `TaskWithDelayThread`s, for a request during the
   owner's `terminate`, where both may join the same `std::thread`.
3. `Hook` (mcpelauncher-core) and the pthread wrappers of libc-shim.
