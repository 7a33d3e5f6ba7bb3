# XFileTransit: verification project

XFileTransit moves files and folders between two computers of a local network.
This directory holds TLA+ modules that model the program under `src/`, the TLC
configurations that check them on small instances, and proofs, checked by the
TLA+ proof system, of what holds for every instance. Paths below are relative
to `src/src/`.

## 1. The system

| Component | State | Operations | Meets |
|---|---|---|---|
| File message builder (`FileMsgBuilder.cpp`) | `file_state`, item list and index, reader, sizes sent | `setFileInfo`, `getStream`, `cancelSending` | owned by a sender thread |
| Sender thread (`FileSender.cpp`) | `running`, `cancel`, `current_file_id`, socket, builder | loop: look for work, take it, send it, report | engine's queue (callbacks), peer (TCP), event bus |
| File engine (`FileSyncEngine.cpp`) | `pending_send_files` under `mtx`, `file_senders`, parsers by socket | queue a file, cancel a queued one, cancel one being sent, start, stop, change the number of senders | handlers on the event bus's pool threads |
| File parser (`FileParser.cpp`) | current file, open stream, directory, sizes received | one handler per message | receiver threads, disk, event bus |
| File receiver (`FileReceiver.cpp`) | listening socket, a thread and a socket per connection | accept, receive, close | engine (parsers), framing |
| Framing (`OuterMsgBuilder/Parser.cpp`) | none but the key | build a frame, read one | sockets, OpenSSL |
| Control connection (`TcpDriver.cpp`) | two listeners, two sockets, key, status | connect, listen, send, receive, reset | network controller |
| Network controller, control messages (`NetworkController.cpp`, `JsonParser.cpp`, `GlobalStatusManager.h`) | peer, id range, id to name map | request, answer, disconnect, errors | event bus, engine |
| Event bus and pool (`EventBus.hpp`, `ThreadPool.hpp`, `ThreadQueue.hpp`, `PriorityQueue.hpp`) | handlers, queues, worker counts | publish, add a task, grow, shrink, close | everything |
| File list (`FileListModel.cpp`) | status, progress and id of every file of both peers | add, remove, download, cancel, progress | user, event bus |
| Discovery (`ICMPScanner.cpp`, `DeviceListModel.cpp`) | found hosts, scanner threads | scan, stop | user |
| Settings (`SettingsModel.cpp`, `SettingsController.cpp`, `SettingsFile.cpp`) | cached values, the file | get, set, flush, repair | all models |
| Update (`UpdateManager.cpp`) | reply, timer, file | check, download, cancel | Qt network |

A file travels like this. The receiver's user asks for a file of the list; the
sender's file list publishes `/file/have_file_to_send`; the engine queues it;
one of its sender threads (four at first) takes it, and its builder makes one
message after another, which the thread writes to its own TCP connection. At
the peer a receiver thread per connection hands each message to the parser of
that socket, which writes the file. Both ends publish progress and completion.

### What is hard

- Every event handler runs on a pool thread, so handlers run against each
  other and against the sender and receiver threads. `running`, `cancel`,
  `current_file_id` and `file_senders` are shared without a lock.
- A cancel is found, flagged, seen by the thread, turned into a message and
  reset in five places.
- The builder is a state machine that is reused for every file, with two sets
  of counters, and its only notion of "over" is a call that returns nothing.
- Parsers are kept by socket number and outlive their connection.
- Send errors, skipped items and stops are absorbed silently.
- The program's start, stop and reconnect are events among others.

`PROJECT.json` lists each of these as a hazard at the line where it bites, with
the properties that cover it or the reason why none does.

### What makes each part correct

- Builder: the messages of a file are a header, its blocks (or items with their
  blocks) and one end; afterwards nothing of the file is left in it.
- Engine and senders: each request is handed out once, in order, and nothing
  is lost; a cancel stops what it was meant for; the session's end leaves
  nothing behind.
- Parser: what it calls complete is the file that was sent; what is cancelled
  is deleted whole.
- Both ends agree on complete and cancelled.
- File list: a file's status follows what the engine really does with it.
- Control connection and controller: one peer at a time, one key, the engine
  runs while and only while there is a connection.
- Pool: every task runs once; workers that are told to close do.
- Settings: what is shown is saved and comes back; a crash leaves a file that the
  program starts with.

## 2. The modules

| Part | Model | Properties and instances | Proofs |
|---|---|---|---|
| File engine, senders, builder, parser (section 3) | `FileMsgBuilder`, `FileParser`, `FileSync`; abstract: `TransferQueue` | `FileSyncProps`, `MCFileSync` | `FileSyncProofs` |
| Thread pool (section 4) | `ThreadPool` | `ThreadPoolProps`, `MCThreadPool` | `ThreadPoolProofs` |
| Framing (section 5) | `Framing`; abstract: `MessageChannel` | `FramingProps`, `MCFraming` | `FramingProofs` |
| Control connection and session (section 6) | `Session` | `SessionProps`, `MCSession` | `SessionInvariant`; `SessionProofs`, `SessionStepProofs`, `SessionLinkProofs` |
| File lists (section 7) | `FileList` | `FileListProps`, `MCFileList` | `FileListProofs` |
| Settings (section 8) | `Settings` | `SettingsProps`, `MCSettings` | `SettingsProofs` |

The modules rest on each other through what one promises and the next assumes:

- the pool runs each accepted task once and in no order, so that `Session`,
  `FileList` and `Settings` keep the tasks under way in `todo` and let any of
  them be the next;
- the framed connection hands over whole messages, in order while the stream is
  sound, so that `Session` and `FileList` have a sequence of messages on each
  connection;
- the engine hands out requests once and in order (`TransferQueue`), so that
  `FileList` has a queue and one transfer at a time;
- the session begins and ends for both peers (`Session`), which is `Connect`
  and `Close` in `FileList`.

What is left to do, in the order of its worth: a proof of `StatusAgree` in
`FileList`, whose inductive invariant has to follow every request and cancel of
a transfer through both engines; what the theorems about the data become when
some leaves do not open.

## 3. The file engine

### Modules

`FileMsgBuilder` is the builder as a record and `getStream` as an operator that
returns the next builder and the message. Each branch of `buildHeader`,
`buildBlock`, `buildEnd`, `buildCanceled` and of the switch in `getStream` is
an operator of the same name. A file is a model value with a sequence of leaves;
a folder's are what `findAllLeafFiles` finds. A block carries the range of bytes
read, so that position and identity of data are kept and the data itself is
not. `MoreItems` models the wrap of `dir_items.size() - 1`.

`FileParser` is the parser as a record and one operator per handler, on a disk
that maps a path to the sequence of bytes stored there. A stream that could not
be opened swallows writes, as an `ofstream` does.

`FileSync` has the state and the actions:

| Action | Code |
|---|---|
| `Submit`, `Withdraw` | `onHaveFileToSend`, `onCancelSendFile`, under `mtx` |
| `FindSender`, `FlagSender` | the two halves of `onCancelUploadFile`, which holds no lock |
| `LookForWork`, `TakeTask`, `BeginTask`, `StreamNext`, `ReportEnd`, `ForgetFile`, `ResetCancel` | the loop of `FileSender::start`, cut at every access to something shared |
| `Start`, `InitFileSenders` | `start`, `initFileSenders` |
| `Grow`, `Shrink`, `RemoveLast`, `JoinRemoved` | `setConcurrentTask`; removing a sender joins its thread |
| `Stop`, `JoinListed`, `StopDone` | `stop`; `file_senders.clear()` joins each thread |
| `Receive` | `haveFileMsg` and the parser's handler |
| `Break` | a connection that fails; the sender only logs it |

`upload`, `download`, `fate`, `born`, `asked` and the counters record events and
history. No action of the program reads them; the guards that bound the user's
input do.

`TransferQueue` is what the engine promises about requests, without threads,
builders or connections. `FileSyncProps` states the properties and the
refinement mapping, `MCFileSync` the instances.

### Properties

- `TypeOK`; in particular every message in transit is one of the protocol.
- `OneHolder`, `QueueInv`: a request is queued, held by one sender, or over.
- `ImplementsQueue`: requests are handed out in order, once, and only their
  holder completes them (refinement of `TransferQueue`).
- `InOrder`: each message fits the state of the parser it meets.
- `BuilderReady`: a builder remembers nothing of its last file.
- `EndMeansWhole`: a file the peer calls complete is there byte for byte.
- `CancelLeavesNoStump`: a cancelled one leaves no truncated leaf.
- `NoCancelAfterComplete`, `CompleteMeansDelivered`: both ends agree.
- `ProgressGrows`: the percentage beside the messages never goes back.
- `EveryRequestEnds`, `EveryTransferEnds`: liveness.
- `OnlyAskedIsCanceled`, `NoStaleTask`: refuted, see below.

### Runs

| Run | Instance | Shows |
|---|---|---|
| `sync_data` | 1 sender; a file of two blocks, a folder with a full, an empty and a short item | data arrives whole, both ends agree, progress grows, everything ends |
| `sync_resize` | 2 senders, 1 resize up or down; two files | hand-out, order and refinement under concurrency |
| `sync_sessions` | 2 names, 1 sender per session, 2 sessions, faults | nothing of one session spoils the next |
| `sync_empty_folder` | an empty folder | refutes `BuilderReady` |

Bounds. A block carries `BlockData = 2` bytes: files of 0, 1, 2 and 3 bytes give
every case of the builder's arithmetic (none, short, exact, exact and short).
Two senders are enough for every race over the queue, since a race is between
two threads; two requests are enough for order and for one file spoiling the
next; two sessions for what outlives one. Each request is a file of its own and
is made once, so that a property about a file is one about its transfer.
`MaxSessions`, `MaxStops`, `MaxResizes` and `Concurrency` bound the input and
nothing else. Sender names are interchangeable, and symmetry is used only in
runs without liveness properties. Deadlock is not checked: a program with
nothing left to send, or stopped, rightly does nothing.

Fairness. Weak fairness of each sender thread, of each receiver thread, of the
second half of a cancel and of the engine's handlers once begun: operating
system threads are scheduled, and TCP delivers while the connection lasts.
Nothing is assumed of the user, of faults, of stops or of the peer's answer.
The polling loop of a sender is a thread that is disabled while the queue is
empty, so no fairness stronger than weak is needed.

### What the code does not keep

`sync_empty_folder` shows that after an empty folder the builder stays in
`State::Header`; each later file is reported complete unsent. TLC refutes four
more on the instances named here, which are not among the listed runs:

- `OnlyAskedIsCanceled`, with one sender and two files: `onCancelUploadFile`
  finds a sender by its file and flags the sender. If the sender has gone on,
  another file is interrupted.
- `EveryTransferEnds`, with `Readable` without the last item of the folder: if
  the last items do not open, no `file_end` is sent and the peer waits for ever.
- `CompleteMeansDelivered`, with two senders and a resize: a sender removed by
  `setConcurrentTask` in the middle of a file stops sending and reports the file
  complete.
- `NoStaleTask`, with two sessions: `stop` leaves the queue; the next peer is
  sent the last peer's requests.

The passing runs therefore use folders with at least one item and leaves that
open (`sync_data`, `sync_sessions`, `sync_resize`), and `CompleteMeansDelivered`
is checked without faults, stops and resizes. The proofs state the first of
these as the assumption `AllOpen`.

## 4. The thread pool

Every event handler of the program is a task of this pool (`EventBus::publish`
calls `addTask` once for each subscriber), so what the pool promises is what the
other modules may assume: handlers run on several threads, each task once, in no
order.

`ThreadPool` models `ThreadPool.hpp` with the queue of `ThreadQueue.hpp`, one
action for each access to something shared:

| Action | Code |
|---|---|
| `Push`, `Count`, `Notify` | `addTask`: the queue under its own mutex, the counter after it, `notify_one` without `mtx` |
| `Test`, `Block`, `WakeUp` | `cv.wait`: the predicate under `mtx`, giving up `mtx` to wait, waking by itself |
| `Decide`, `CloseTest`, `TakeClose`, `Uncount`, `Leave` | the tests after the wait and the two ways out of the loop |
| `GetTask`, `CountTaken`, `Begin`, `Finish` | `getTask` and the call of the task |
| `Sample` to `NotifyAll` | one round of the manager and its end |
| `Close`, `CloseNotify`, `JoinAll` | the destructor |

`mtx` is held exactly while a worker is in `block` or the destructor notifies.
The atomics are integers of which `Unsigned` is what the code reads: a counter
below zero is a large one. `done` and `late` are history.

Properties: `RunOnce`, an accepted task is in one place; `CountsAgree`, the
counters differ from what they count by the steps under way only;
`AtMostCapacity`; `ThreadsOwned`, each thread is where it will be joined;
`CloseDrains` and `DestructorReturns`. Two are refuted, outside the listed runs.
`KeepsMinimum`, on the instance of `pool_close`: two workers may see the same
request to close one, both take it, the counter wraps and all workers leave.
`EveryTaskRuns`, with one task and one worker: a notification between a worker's
test and its wait is lost, and the task waits until something else wakes a
worker.

| Run | Instance | Shows |
|---|---|---|
| `pool` | 3 tasks, 1 worker, capacity 2, with and without manager, never closed | `RunOnce` and `AtMostCapacity` while workers come and leave and `size` wraps |
| `pool_close` | 2 tasks, 1 worker that may become 2 | the counters, the ownership of threads, draining and the destructor |

Bounds. `Workers` bounds the threads ever started, `AskLimit` the requests to
close that wait at one time. In `pool` the minimum is below the capacity: the
manager starts a second worker, one of the two leaves, which is counted after it
is decided, and the manager decides again; the third name is for the thread it
then starts, or must not start. Three tasks are needed for `size` to wrap there:
two that fetch a second worker and the one that is taken before it is counted.
The constraint `Open` leaves closing to `pool_close`. Fairness: threads that can
run do; nobody has to publish or to close, and a wait need not end by itself.

Assumed: `shutdown`, a plain `bool` read without lock, is read and written as if
it were atomic; a handler returns; threads outside the pool have left `addTask`
when the pool is destroyed; the two decisions of a manager's round are one step.
Left out: `getStatus`, which nothing in the program calls, and the priority
queue, which `EventBusManager` does not select.

## 5. Framing

`Framing` is one direction of the control connection: `OuterMsgBuilder::build`,
`TcpDriver::sendMsg`, which any number of pool threads may call at the same
time, and `OuterMsgParser::delegateRecv` in the peer's receiver thread. A frame
is a sequence of cells, one per byte; of a byte only its frame and its place
matter.

| Action | Code |
|---|---|
| `SendMsg`, `SendPart`, `SendFails` | `sendMsg`: build, then `send` until all is sent; no lock, and a socket that the receiver thread made non-blocking, so a full buffer ends it |
| `Close`, `Stop` | `resetConnection` of the sending and of the receiving peer |
| `Break` | the connection is reset or lost, also after a close: the receiver gets what is on its way up to some byte |
| `PeekHeader`, `Dump` | the peek at two bytes for the magic number, and `dump_buffer` |
| `ReadHeader`, `ReadPayload` | the two loops of `recv`, which return pieces of any length |
| `EndOfStream` | `recv` returns 0: `dcc_cb` |
| `RecvFails` | `dealRecvError`, from the peek and from both loops: `dcc_cb` for `ECONNRESET`, `dre_cb` for the errors it knows, nothing for others, after which `delegateRecv` begins anew |

`MessageChannel` is what the layers above rely on. `damage` records what
happened to the stream of frames: a header was missed because only one byte of
the magic number had arrived, a frame was cut off by a full buffer or a close,
or two writers mixed their frames. The mapping makes the channel sound exactly
while nothing of this has happened. `lost` are the bytes that a broken
connection took; a message that `sendMsg` tries after that is not counted as
sent.

Properties: `ImplementsChannel`, in whatever pieces the bytes arrive a message
is delivered whole, at most once, and, while the channel is sound, in order
without a gap; `ToldAfterAll`, a receiver told of the end of a sound stream, by
a close or by a reset, has handed over every message but those of which the
reset took a byte; `Delivers`, a message whose frame was begun arrives, unless
the stream is damaged or a peer or a reset ends the connection. `ToldOfClose`,
that nothing is lost when `dcc_cb` is called, is refuted: `dealRecvError` takes
`ECONNRESET` for an orderly end ("the peer has closed normally",
`OuterMsgParser.cpp:41`), and the layers above are told of a disconnect when
messages are missing.

The run `framing` has three messages of one and three cells after a header of
two, so that a header and a payload can both arrive in pieces; a buffer of
four cells, less than the longest frame, so that a frame has to be sent in parts
and a second writer can come between; `DumpSize = 2`, so that dumping takes
several steps; two writers, since frames are mixed by two; and `WrongSizes =
{0, 2}` for the length a header made of two frames may show, zero and one that
spans frames.
Fairness: a thread inside `sendMsg` goes on, and so does the receiver's loop,
which selects with a timeout; nobody has to send or close. Deadlock is not
checked: a closed connection rightly does nothing.

Taken as given: a byte inside a frame does not look like the magic number, and a
payload that is not whole fails its digest or decryption.

## 6. The control connection and the session

`Session` has, for each peer, the driver (`TcpDriver`: both listeners, the TLS
exchange, the sockets and flags), its receiving threads, the handlers of
`NetworkController`, what `JsonParser` publishes, `ConnectionManager` and
`DeviceListModel` as the window shows them, and the life of the file engine. A
handler is the sequence of the steps in which it touches what others touch, and
`todo` is the bag of what is left of each.

| Action | Code |
|---|---|
| `UserConnects`, `UserCancels`, `UserAnswers`, `UserDisconnects` | `connectToTarget`, `resetConnection`, the answer, disconnect |
| `Dial`, `Exchange`, `ExchangeAborted`, `ExchangeBreaks`, `Refused`, `Connect`, `Unconnected` | `connectTo` and `getAesKey`, with `dealTlsRequest` at the peer |
| `Accept`, `Establish` | `startTcpListen`, whose callback comes before its flag |
| `RecvMsg`, `Parse`, `SeesEnd`, `ReaderStops`, `ReaderTurns`, `Again` | `recvMsg` and the receiving thread |
| `Reset` | `resetConnection` |
| `Send`, `SetStatus`, `PublishEngine` | `NetworkController`'s sends and states |
| `StartEngine`, `StartSenders`, `StopEngine` | `FileSyncEngine`'s `start`, `initFileSenders` and `stop` |

Properties, of states in which nothing is left to do but for the users:
`Agreed`, both peers have the same view of the session (connection, key, id
range, engine, window); `ListensAgain`, a session leaves nothing behind in the
driver; `Answerable`, who waits for an answer is shown to the other user;
`CanSend`, the senders are connected.

`mishaps` names what gets in the way of a session: an end that comes while it
is begun, an accept of a request taken back, a request made before the last
end is dealt with or while the other peer is busy, an exchange that breaks, a
cancel that is sent before the request it takes back. The properties are about undisturbed behaviours, and that is not for want of
looking: with these mishaps the code does not keep them (below).

| Run | Instance | Shows |
|---|---|---|
| `session` | two peers, one of which connects; two requests or cancels; faults | the four properties over two sessions with handlers in any order |
| `session_visitor` | a third device that asks the one who connected | refutes `KeyKept`: the peer that made the connection never leaves `WAITING_TLS`, so that a visitor's exchange replaces the key of its session |

Bounds: `MaxRequests = 2` gives a session after a session, a session after a
cancelled or failed request, and a cancel that meets any step of a request. The
constraint `Explored` follows a second session until its end begins, and after
a cancel that met a beginning (or a request that met an end) until the next
session comes about; beyond them the steps repeat. There is no fairness and no
deadlock check: users may do nothing.

What the code does not keep, found with the same module:

- The steps of `onSendConnectRequest` and a cancel are tasks of their own in the
  pool. From the moment the driver has its connection a cancel goes out on it,
  and when it overtakes the request (mishap "order") the other user is shown a
  request that nobody waits for. This came up in the proof of `Answerable`,
  which without the mishap is false with three requests when both peers ask; the
  run, in which one peer asks, is too small for it.
- A cancel between the exchange and the second connection leaves the peer in
  `TLS_CONNECTED`: it accepts no other exchange until it is restarted.
- If `getAesKey` throws or the second connection fails, that is only logged, and
  the asker's window waits until its user cancels.
- `CancelAgreed`, refuted: the accept of a request that was taken back starts a
  session that nobody ends, since `CancelConnRequest` resets only the driver
  (`NetworkController.cpp:26`).
- `onConnectError` and the reader that goes on after `onConnClosed` come after
  the reset and may hit the next session.
- `receiver_init_done` may be handled before the own start: `std::stoi("")`
  throws, and the peer has no senders for the session (`early`).

## 7. The file lists

`FileList` has the lists of two connected peers, the tasks of their pools, the
control messages between them and, from `FileSync`, an engine with one sender
and no fault.

| Action | Code (`FileListModel.cpp` unless said) |
|---|---|
| `AddFile`, `DownloadFile`, `DownloadAll`, `CancelTransit`, `RemoveFile`, `SyncCurrentFiles`, `DeclineSync` | what the user does in the window |
| `AddRemoteFiles`, `HaveDownLoadRequest`, `OnHaveExpiredFile`, `RemoveFileById`, `OnHaveCancelFile` | handlers of the peer's messages |
| `OnUploadFileProgress`, `OnDownLoadProgress`, `NotFound` | reports of the two engines; a handler that finds no row throws |
| `Send`, `Receive` | `NetworkController`'s sends and `JsonParser` |
| `OnHaveFileToSend`, `OnCancelSendFile`, `OnCancelUploadFile`, `TakeTask` to `ReportEnd` | `FileSyncEngine`, `FileSender` |
| `Parse` | `FileParser`, with `getFileName` of `GlobalStatusManager.h` |
| `Connect`, `Close` | the session's beginning and its end at each peer |

Properties: `StatusAgree`, when nothing is left to do both windows tell the same
end of a transfer; `SameRows`, each shows exactly the other's files under their
ids; `RightFile`, what is stored under a file's name is that file; `FinalStays`,
a row that shows the end of its transfer does not go back.

| Run | Instance | Shows |
|---|---|---|
| `filelist` | a file of each peer, one fetched by `auto_download`, three gestures, files that may be gone, one session | the four properties |
| `list_declined` | two files of one peer, with a user who declines to sync | refutes `RightFile` |

Three gestures reach every pair of gestures on one file after it was added, at
any moment of its transfer. `Top = 9` stands for the largest id; ids of the two
ends do not meet below it. The constraint `Orderly` lets one thing get in the
way, and leaves out tasks that overtake earlier ones about the same file, lists
that were not announced, rows that are found by the id they had before the
session, and work left from a session: with those, nothing the properties say is
kept.

What the code does not keep, found with the same module:

- `list_declined`: the ids of rows are only renewed by `syncCurrentFiles`, but
  counted anew in every session, so that a request finds the wrong row.
- While a window asks whether to sync, its own rows have the ids they got before
  the session. A peer that removes its file 0 in the meantime removes the other's
  own row 0 instead (`FileListModel.cpp:333` takes the first row with the id), and
  its own file stays on the other's list (mishap "stale"). The first instance had
  both files with one peer and did not show it; the invariant for `SameRows` did.
- `id_filename` is not cleared when a session ends, and `insert` keeps what is
  there: with two sessions and four gestures a file is stored under the name
  another file had.
- A cancel of a file that still shows Pending but was taken by the sender
  withdraws nothing: the file is sent ("taken").
- A header for a file that was removed: `getFileName` throws, `delegateRecv`'s
  catch (`OuterMsgParser.cpp:269`) ends the thread of that connection, and what
  comes on it is never read ("removed").
- `onDownLoadProgress` leaves only RemoteDefault alone: a late report turns a
  cancelled file back to Downloading.
- `StatusAgree` needs tasks in order: the pool does not promise it.

Taken as given: handlers and the window exclude each other, though the list has
no lock; the menu's download of an own row, which it does not disable, and the
row index that a dialog keeps while rows change, are left out. `clearAll` and
`cancelAllTransit`, which sleep 100 ms between steps, and
`refreshAutoDownloadSize`, which downloads whatever `auto_download` says, are
not modelled.

## 8. The settings

`Settings` has the window's `SettingsModel`, the tasks of `SettingsController`
and `SettingsFile` in the pool, the file, and what `FileListModel` is told. Keys
that the code treats alike share one; a value is what is saved or shown, and
`Slash` is the path with "/" behind it.

| Action | Code |
|---|---|
| `Start`, `StartFails` | `loadSettingsFromFile`; `repairSettingsFile` where there is no file or it does not parse, and its failed copy, after which the program does not start |
| `Exit`, `Throw` | the end of the program at any step; a load whose `stoi` throws |
| `Set` | the setters, and `setCachePath`, which shows the folder with a slash and saves it without |
| `Found` | `checkUpdate` finds a version: `setIsUpdateAvailable`, `setNewVersion`, `setReleaseDate` |
| `SetCacheSize`, `Tick` | a change that is not saved but starts the timer; `flush_config_timer` |
| `Load` | `onConfigResult`: what each group takes of the file (`Taken`), the place that is chosen when none is set |
| `OnGetConfig`, `OnUpdateValue` | the controller's tasks; `setValue` adds no key that the file lacks |
| `OpenFile`, `OpenFails`, `WriteFile`, `WriteFails` | `flush`, an open that truncates and a write, each of which may fail |
| `Tell` | `onSettingsChanged`, with the case that goes on into the next |

`Taken` has what a restart changes on purpose or by oversight: the availability
of an update is never taken from the file (`SettingsModel.cpp:671`), version and
date only if the file says there is an update, the place without its slash, and
a text that is missing as empty.

Properties: `Kept`, when nothing is left to do, what is shown is in the file, of
each key that the file has; the place is the same if it is the same directory,
with or without the slash, and an update that is shown is in the file, but not
the reverse. `Healthy`, while the program runs and does not write, the file can
be read, also after a crash in the middle of a flush. `Resumes`, a restart shows
what was shown and saved: the directory, the version if the file says there is
one, and no update until one is found.

The run `settings` has five keys, one of each kind: the place and `auto_download`
in one group, `auto_expand` in the group that does not load to its end, and
`update_is_avaible` and `new_version` in the third. There is no file at first, or
one that an earlier version left: without a place and with an update known, or
without `update_is_avaible`. Two changes, an end of the program and two flushes
at one time: two changes are enough for one to overtake the other and two
flushes for one to tear the other's text. The constraint `Explored` lets one
thing get in the way, and stops at two flushes at once or a failed one, since
nothing is claimed of what follows them; the proofs have neither bound.

What the code does not keep, found with the same module:

- `Told`, that the file list acts by the settings that the window shows, is
  refuted in two ways: a missing `break` makes a change of `auto_download` one of
  `auto_expand` (`FileListModel.cpp:590`), and a member that nobody initialised
  may hold the value that is loaded, so that its setter returns and tells nobody
  (`SettingsModel.cpp:303`).
- `PlaceResumes`, that a restart shows the place as it was, is refuted: the slash
  that `setCachePath` puts behind the directory (`SettingsModel.cpp:256`) is not
  saved (`:269`). `FileParser.cpp:93-95` puts the file's name directly behind the
  place, so that after a restart files are stored beside the directory, under
  names that begin with its own.
- `setNotificationConfig` ends with `beginLoadConfig` (`SettingsModel.cpp:649`),
  so that changes of its group are never saved.
- A number that an earlier version's file lacks makes `stoi` throw at every
  start, which nobody catches; only a file that does not parse is repaired. A
  text that it lacks is never saved, since `setValue` adds no key.
- A flush that fails is not tried again, and what it has left is neither seen nor
  reported ("failed").
- Two flushes at once may leave a damaged file, which the next start replaces
  by the default (`CHANGELOG.md:17` promises its repair) ("overlap").
- A change within a second before quitting is lost ("unsaved"), two changes
  of one key may be saved in the wrong order ("order"), and what is changed or
  found before its group is loaded is not saved ("early").

Left out: `auto_start`, which is read from the system; `last_check_update`; that
choosing a folder moves the cache into it.

## 9. Proofs

Everything below holds for every number of peers, senders, requests, files,
leaves and sizes (the file lists for two peers), from the named assumptions on
the constants (`BuilderAssumption`, `ParserAssumption`, `SyncAssumption`,
`PoolAssumption`, `FramingAssumption`, `SettingsAssumption`, `ListAssumption`,
`SessionAssumption`), each of which TLC evaluates in the runs of its module.

- `FileSyncProofs`, the queue: `QueueInvariant` (`Spec => []QueueInv`), `OneHolderAlways`
  and `EngineImplementsQueue` (`Spec => ImplementsQueue`). `OneHolder` is not
  inductive: the argument needs that a thread has a task exactly while it is in
  the part of its loop that works on one, that a name is only given to a new
  sender when its thread is over, and for the order that waiting requests have
  different turns below those of later ones. That is `QueueIInv`, preserved by
  each action on its own. For the refinement, each action maps to a step of
  `TransferQueue` or leaves its five variables unchanged.
- `FileSyncProofs`, the builder: `GetStreamOK`, that `getStream` is safe in whatever
  state a builder is, by its branches; `StreamContinues` and
  `StreamContinuesCanceled`, that under `AllOpen` a stream that has not ended
  goes on with a message and leaves the builder `Consistent`; `StreamAdvances`
  and `StreamAdvancesCanceled`, what these messages are. A `Stage` says how far a
  transfer has come: its file, the leaf begun last and the bytes of it that were
  sent. `Sends(a, m, b)` is the protocol, the message `m` that takes stage `a` to
  `b`; `BuilderAt` ties a builder to its stage. Each branch of `getStream` builds
  a message that the protocol allows and leaves the builder at its other end.
- `FileSyncProofs`, the parser: `ParseOK`, that the parser's handlers are safe whatever
  arrives; `ParserFollows`, what they do if the messages follow the protocol:
  `Receiving` says that the disk holds exactly the part of the file that the
  stage names, with the stream open at its end, and every message keeps it so.
- `FileSyncProofs`, the types: `TypeCorrect` (`Spec => []TypeOK`). The invariant
  `TypeIInv` adds to the types that a reader stands inside its leaf (the length
  of a block is a natural number), that a thread in the do-while has a file and
  that no more senders are being removed than are listed (`listed[Len(listed)]`
  exists when `RemoveLast` takes it).
- `FileSyncProofs`: `BuilderReadyAlways`, `AllOpen` implies
  `Spec => []BuilderReady`. The invariant is that the builder is `Consistent`,
  and outside the do-while in the state Default. The assumption is needed:
  `sync_empty_folder` is the counterexample without it.
- `FileSyncProofs`, the data: `EndMeansWholeAlways`,
  `CancelLeavesNoStumpAlways` and `NoCancelAfterCompleteAlways`, with faults,
  cancels, stops, restarts and resizes; `InOrderAlways` and
  `CompleteMeansDeliveredAlways` when there are none of the first and the last
  two (`Undisturbed`), as in `sync_data`: a sender stopped in the middle of a file
  reports it complete, and the parser of a broken connection keeps its stream.
  The invariant `DataIInv` says that there is a stage between each two messages
  in transit (`reached`, chosen anew after each step), such that the messages
  follow the protocol from the parser's stage to the builder's. The builder's end
  may be loose: a stopped sender or a broken connection swallows messages while
  the builder goes on, and then nothing more is ever put on that connection, so
  that what arrives is the beginning of a transfer and never one with a gap.
  Besides: a file is on one connection in one piece (`OneStream`), the receiver
  has nothing of a file whose header has not arrived (`ComingInv`), nor of a
  request of which no message has been built (`UnsentInv`); what has been called
  ended is whole, what was cancelled has no stump (`EndsInv`), and a thread that
  has sent `file_canceled` still has its flag set when it decides what to report
  (`CancelsInv`). The steps fall into those that leave every connection as it is
  (`Quiet`), a turn of a thread that puts a message at the end
  (`LiveTurnData`), one that hands the parser the first (`ReceiveData`), and new
  senders (`LaunchData`).

  Three hypotheses say which files are meant. `AllOpen`: every leaf opens and no
  folder is empty, since a skipped item ends a folder without `file_end` and an
  empty one stops the builder (section 3). `Apart`: no two leaves of the files
  have the same path at the receiver, and all can be created there; the program
  stores every file under its name below one directory, so that two files of one
  name overwrite each other. `OwnFile`: a request names a file that no other
  request names; a file that is sent a second time is truncated while its first
  copy is called complete. The instances of the runs satisfy all three.

- `ThreadPoolProofs`, for any number of tasks and threads: `PoolTypeCorrect`,
  `RunOnceAlways`, `CountsAlwaysAgree`, `NeverOverCapacity`,
  `ThreadsAlwaysOwned` and `CloseAlwaysDrains`. `AtMostCapacity` is not inductive: it needs that the
  manager, when it has decided to add a thread, has fewer than the capacity at
  work, which holds because `threadSize` agrees with the workers at that point
  and workers only leave (`PoolIInv`). The counts are followed through each step
  by `WorkerCounts`: a worker that moves changes each number by what it leaves
  and what it enters.

- `FramingProofs`, for any messages, sizes, buffers and any number of threads
  that send: `StreamInvariant`, `ToldAfterAllAlways` and
  `FramingImplementsChannel` (`Spec => ImplementsChannel`). That nothing is
  delivered twice holds however damaged the stream is: what a call of `sendMsg`
  has left is the end of a frame (`OutInv`), so a byte that is behind it is never
  sent again and is in one place (`OnceInv`), and a payload that was delivered
  has lost its first byte for good (`DeliveredInv`). The order holds while the
  stream is sound (`SoundInv`): the bytes on the way, with the rest of the frame
  that was begun, are a `Chain` of frames in the order of `sent`, which `Starts`
  with the byte the reader awaits. Cutting a chain anywhere keeps it one
  (`ChainDrop`), which is why the pieces in which `recv` returns it do not
  matter; a frame appended keeps it one (`ChainAppend`) unless another was begun,
  which is the damage "mixed". What a broken connection has lost ends the chain
  in the place of a frame that was begun (`Tails`): a reader that has come to it
  has all messages before its first byte (`Misses`), and from there on
  `AllAccounted` is stable, which is `ToldInv`.

- `SettingsProofs`, for any keys, groups and values, any files of earlier
  versions and any number of changes, mishaps and restarts: `SettingsTypeCorrect`;
  `HealthySettings`, from `FileInv`, that a running program whose flushes have
  neither overlapped nor failed has either no flush and a readable file or one
  flush and a truncated file; `SettingsKept`; `SettingsResume`.

  `SettingsKept` follows a setting on its way from the window to the file
  (`KeptInv`). `LoadInv`: until a group is loaded nothing is saved of it, and what
  the call under way brings is what the cache has. `TrailInv`: once the updates
  under way have run, the cache has what is shown (`Ends`, by the last update of a
  key); `LatestInv` says the same of the version, which counts only where the
  file says, or will say, that there is an update (`AboutInv`: that is only ever
  saved as such). `PlaceInv`: the place is never loaded as not set. `FlushInv`:
  what the cache has and the file has not is announced by the timer or by a flush
  behind all updates of its key. Where nothing is left to do these say that the
  file holds what is shown. `SettingsResume` adds that until something is changed
  no update but that of an unset place is under way (`UnchangedInv`), and that the
  file carries what was shown from one run of the program to the next
  (`ResumeInv`).

- `FileListProofs`, for any files, gestures and bounds: `ListTypeCorrect`, and
  `RightFileAlways`, `Spec => [](First => RightFile)`. `First` is the first
  session, as long as no user has declined to sync the files that were there
  before it (`list_declined` is what happens then) and there were no more
  gestures than ids; later sessions are left out because they count from the
  same ends while `id_filename` keeps the old entries (section 7). Where the run
  has tasks in order and one thing in the way, the theorem has any number of
  tasks that overtake each other, cancels, removals, repeated requests and ends
  of the connection. The invariant `IdInv` says what an id stands for. `Known(p)`
  is every pair of an id of `p` and a file that is mentioned anywhere: in the
  lists and in `id_filename`, in tasks, control messages, queued requests and
  transfers. Two pairs of one id name one file (`Agree`). A new id is new
  because, while both are connected, every id that is mentioned or asked for is
  of those that `p` has given out, and the two ends have together given out no
  more than there were gestures (`Counted`); while the window asks, the own rows
  do not count, since they are numbered anew. `Counted` is lost when one side
  has closed and resets its counter; from then on nothing is announced that
  reaches the other, and `Agree` remains. Almost every step only repeats what is
  said already (`Moves`), for which `MovesKeep` is the argument; the others are
  `AddFileKeeps`, `SyncKeeps`, `ConnectKeeps` and `CloseKeeps`. `HeaderRight`
  draws the conclusion: the file in a header and the name found for its id are
  both known for that id.

- `FileListProofs`, the two lists: `SameRowsAlways`, `Spec => [](First =>
  SameRows)`, for any files, gestures and number of tasks under way; the mishaps
  that are not excluded may happen any number of times (a request or cancel that
  crosses another, a file removed while it is sent). `SameRows` speaks of states
  in which nothing is left to do. The invariant `RowsInv` is about those in
  between: a file of `p` that is on one list only is on its way to the other
  (`Coming`: told to the pool, sent, or received) or on its way off it
  (`Going`), and at one place of its way to the list at a time (`OnePlace`).
  Matching is by id (`Matched`); that one id means one file is `Agree`, and that
  the ids of the two ends differ is `Counted`, both from `IdInv`. What is on its
  way is in three sequences, and a deletion that passed an addition would leave
  a row that nobody deletes any more: `Sequel` says that in each of them a file
  is added once and that its deletion is behind it. The pool may break that
  order, which is the mishap "order"; `TakenInStep` is the argument that a task
  that overtakes none does not. A peer that has not announced its rows is asked
  by its window, has given out no id, and nothing of it is on its way or shown;
  `SyncRows` shows that the new ids are different ones (`SyncIds`). The steps
  that move files are `SendRows`, `ReceiveRows`, `AddRemoteRows`, `DeleteRows`,
  `AddFileRows`, `RemoveFileRows`, `SyncRows` and `ConnectRows`; all others keep
  ids and tasks of these kinds as they are (`NothingMoves`). TLC checked the
  invariant on the instance of `filelist`, and showed that it fails without the
  mishap "stale". Later sessions are left to the run: there ids are counted anew
  while tasks of the old session may be under way.

- The session, for any number of peers that ask each other in any direction, and
  any number of requests and exchanges: `SessionTypeCorrect`, `SessionInvAlways`
  and from it `AgreedAlways`, `ListensAgainAlways`, `AnswerableAlways` and
  `CanSendAlways`. The run has one peer that asks and two requests; the theorems
  have both ask, a device that listens while it connects, and sessions after
  sessions, with third devices as long as they meet nobody who is busy.

  The four properties speak of states in which nothing is left to do, and say
  nothing of how one comes there. The invariant (`SessionInvariant`) is about
  every state in between, and takes each handler under way as the promise of its
  later steps: `TodoOK` says which rests of handlers there are, and a task is
  known by the step it is at, the step it ends with and its argument (a job). So
  `ConnInv` says that a peer that uses a link is connected or will be, unless it
  is to be reset; `WindowInv` and `EngineInv` that window and engine show the
  session or that a task is published which will make them; `AskInv`, `SockInv`
  and `ReadInv` what the driver's socket, flags and receiving threads are while
  the steps of a request or an end are made; `TlsInv` why a peer in `tls` is one
  for which a connection is on its way. Of a link, `PhaseInv` says that a request
  is at one stage of its way (`Unsent`, `Underway`, `Shown`, `Accepting`,
  `AcceptSent` and so on, of which some are messages, some tasks of one end or of
  the other), `BothInv` that one end agrees only if the other does or will,
  `AnswerInv` that whoever waits is answered, `CancelInv`, `RejectInv` and
  `LastInv` what is behind a cancel, a reject and an end of stream, and
  `ReadyInv` that an engine that listens has told the other end.

  `SessionInv` is `Undoomed => Core`: the invariant holds until the first mishap,
  and a mishap is noted only by the step that is one. A request whose task waits
  in the pool when its peer became busy, or is about to reset its driver, is a
  mishap that has not happened yet; `Doomed` names that state, and
  `DoomedBegins` shows that it cannot pass otherwise. Where nothing is left to do
  nobody is doomed.

  The argument has four stages. `SessionProofs` gives the types, and for each
  action, or each of its cases, `XDoes`, what it does to the jobs and variables
  of its peer and to the links, and `XEffect`, that it does; bags and sequences
  of tasks occur in no later proof. `SessionStepProofs` shows that a step of `p`
  keeps what `p` has (`XLocal`). `XLink` shows that it keeps what is said of the
  link that `p` uses, from what each end sees of the stages (`Views`): for the
  steps of the user and the driver in `SessionProofs`, for the others in
  `SessionLinkProofs`, which shows that other peers and links are not touched (`OthersLocal`,
  `OtherLinks`), and with these that it keeps the invariant (`XKeeps`). What
  remains is that a mishap stays noted (`SessionStep`), and that in a settled
  state the invariant leaves the two ends one possibility (`SettledStage`).

  TLC evaluated each part of the invariant on small instances while it was
  found, with a range of numbers in place of `Nat`; `TypeOK` and `SessionInv` as
  they stand quantify over `Nat` and all sequences and are only proved.

Only model-checked: the liveness properties (fairness and ENABLED are beyond
the prover); `ProgressGrows`; and of the file lists `StatusAgree` and
`FinalStays`, and `SameRows` after the first session.

## 10. Assumptions and what is left out

In the file engine:

- File sizes and contents do not change while a file is sent, and an opened file
  can be read.
- A message can be built: `sendMsg` drops one for which `buildMsg` returns null
  (`FileSender.cpp:69-73`), which `OuterMsgBuilder::build` never does; where
  OpenSSL fails it uses a null pointer.
- `setConcurrentTask` is not interleaved with `stop` or with itself: both change
  the vector `file_senders` without a lock, which is undefined behaviour.
- `have_file_to_send` is handled while the condition variable exists, between
  `start` and the end of `stop`; elsewhere the code dereferences a null pointer.
- `initFileSenders` runs once per session and after `start`. The code does not
  enforce it; `Session` has the two race.
- A file is cancelled once, by the file list, after it showed progress;
  `FileList` has cancels at any moment.
- Two files of the same name share a path at the receiver; the instances give
  every leaf its own.
- The senders of one `initFileSenders` or `setConcurrentTask` start in one step.
- Any message may be followed by a progress event; that only every fortieth is
  depends on a counter shared by all threads.

Not modelled:

- Update (`UpdateManager.cpp`): one object in the window's thread; which of
  timeout, reply and cancel comes first is decided by Qt's network classes, whose
  rules are not in the sources.
- The scanner of the device discovery (`ICMPScanner.cpp`): independent pings and
  a counter of progress.
- Encryption: the models use what it promises, that both ends of an exchange get
  the same key and that a message in another key is not read.
- The list of threads in `FileReceiver`, `closeReceiver`, `onRecvError` and
  `closeSocket`.
- Presentation (QML, icons, speeds, paths), logging, packaging.

Of some 37,500 lines under `src/`, about 27,000 are the vendored JSON library,
and much of the rest is presentation; the share of lines that the definitions
stand for is therefore small although the program's own protocol is covered.
