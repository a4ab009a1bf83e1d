# A TLA+ model of the kiwi device tree's running code

The repository is the LineageOS device tree of the Huawei Honor 5X (kiwi).  Most of
it configures a build, but three parts of it are programs of some size that run on
the phone: the **camera HAL** (QCamera2: `src/camera`, about 60 000 lines), the **GPS
HAL** (the location engine `loc_eng` and its core: `src/gps`, about 18 000 lines)
and a handful of small services (sensors multihal, fingerprint, doze, light).  Both
HALs are event machines behind message queues, written around closed firmware: what
can go wrong in them is nearly always the *order* in which APIs, callbacks and
threads meet.  That is what these modules model.

`PROJECT.json` lists the runs, the mutants (one plausible bug for each property of
each passing run), the source lines every definition stands for, the hazards and the
theorems.

## The system

### Camera HAL (`src/camera/QCamera2`)

| component | state | operations | what is hard | module |
|---|---|---|---|---|
| `QCameraStateMachine` | `m_state`, one of eight | 40 APIs and 3 internal events, a handler per state | every pair of state and event is a decision; half the handlers undo or restart something | `HalStateMachine` |
| `QCamera2HardwareInterface` | six channels, `mLiveSnapshotThread`, `mLongshotEnabled` | start and stop of preview, recording, pictures, live snapshots | several steps that may fail; a failure part-way is rarely undone | `HalStateMachine`, `Capture` |
| pictures of several frames | what was changed of the sensor, counts of frames | bracket focus, flash, exposure, zoom; undo | each step finds out anew which feature it is about | `AdvancedCapture` |
| focus | `mActiveAF`, the lens | focus, cancel, reports | reports wait behind requests | `FocusEvents` |
| API queue and result list | `api_queue`, `evt_queue`, `m_apiResultList` | `lockAPI`, `processAPI`, `waitAPIResult`, `signalAPIResult` | answers are matched by event number only; threads of the HAL post requests whose answers nobody takes | `HalApi`, `EntryPoints` |
| `QCameraCbNotifier` | `mDataQ`, its command queue, `isSnapshotActive`, `numOfSnapshotRcvd` | `notifyCallback`, start and stop of snapshots, exit | posts `SNAPSHOT_DONE` and blocks until the machine has handled it | `HalApi` |
| `QCameraPostProcessor` | five queues, two threads | start, stop, process data, deliver JPEG, save | a stop races jobs in the codec | `PostProc` |
| `QCameraParameters` | every setting, several with a committed, a pending and a string copy | update, commit, restart needed | the copies disagree between a refused update and the next commit | `Parameters` |
| thermal adapter | the client, the level | report, frame rates | four parties set the sensor's rates | `Thermal` |
| channels, streams | streams, queues, their threads | add, start, stop, buffer done | a buffer travels between app, HAL and kernel | `HalStream`, `Capture` |
| `QCameraMem` and buffer counts | memory objects, the pool | allocate, give back, size | memory that is reused while somebody has it; too few or too small | `BufMemory`, `BufPlanes`, `BufCounts` |
| `mm-camera-interface` | camera objects, stream and channel machines, super-buffer queue, poll and command threads | the `mm_camera_*`, `mm_channel_*` and `mm_stream_*` functions | locks taken hand over hand; frames of several streams matched by frame index | `MmCamera`, `MmChannel`, `SuperBuf` |
| `mm-jpeg-interface` | sessions, two job queues, a job manager thread | open, create session, start and abort job, close | an abort races the job it aborts | `MmJpeg`, `JpegJobs` |
| OMX core | components, libraries, instances | init, get handle, free handle, deinit | loaded and unloaded by counts | `QomxCore` |

An app's call takes the API lock, posts `(event, payload)` to `api_queue`, wakes the
machine's thread and sleeps until a result with its event number is in the result
list.  Callbacks from the stack post to `evt_queue`, which is served only when no
API is waiting.  A picture ends in a circle through three threads: the machine
tells the notifier that snapshots START, the postprocessor queues the pictures to
it, the notifier counts them, posts `SNAPSHOT_DONE` with the last one and waits for
it to be handled, and handling it stops the postprocessor, which tells the notifier
to STOP.

What makes it correct: the channels that stream are the ones the state names; the
sensor is never shared by channels that cannot share it; every caller gets its own
answer; a picture taken ends, by its own `SNAPSHOT_DONE` and no other; a buffer has
one owner and is large enough; threads are joined before their handle is reused;
what is set is what the daemon was sent; closing terminates.

### GPS HAL (`src/gps`)

| component | state | operations | what is hard | module |
|---|---|---|---|---|
| `AgpsStateMachine` (three NIFs) | `mStatePtr`, `mSubscribers` | SUBSCRIBE, UNSUBSCRIBE, GRANTED, RELEASED, DENIED | answers carry no request number; subscribers come and go while one is awaited | `AgpsNif` |
| `DSStateMachine` | the same, `mRetries`, a timer | emergency data call over `ds_client` | a retry timer against an answer, a release, a denial | `EmergencyCall` |
| `loc_eng` and adapter | session and fix state, AGPS server configuration | some 40 messages | the modem restarts: sessions are restarted, NIFs flushed | `LocEngine` |
| NI | two pending requests, response threads | notify, user's answer, timeout | timeout against a late answer | `NiRequests` |
| core (`LocApiBase`, `LocDualContext`) | adapters, event mask | add and remove adapter, open, close | the mask of several adapters | `LocApi` |
| `MsgTask`, `msg_q`, `LocTimer` | a queue with mutex and condition, a timer heap | send, receive, unblock; start, stop, expire | who frees what the thread still uses | `MsgTask`, `MsgFifo`, `LinkedList`, `LocTimers` |
| daemon connection | pipes, a thread | start, ask, answer, notice | a full or broken pipe; answers nobody asked for | `DaemonConn` |

All of `loc_eng` runs on one message thread: whoever wants something posts a message,
and the engine answers by calling back.  What makes a NIF correct: a client told
that it has the connection keeps it until it closes or is told; nobody waits for ever;
a NIF without clients does not hold the connection.  What makes the engine correct:
after any number of modem restarts the modem does what the framework asked for last.

### The rest

`src/sensors` (multihal: one writer thread for each sub-HAL, one reader over bounded
rings; module `MultiHal`), and, not modelled, `src/fingerprint`, `src/doze`,
`src/light`, `src/touch`, `src/amplifier`, `src/init`, `src/ril-wrapper`,
`src/libwcnss_qmi`, `src/libshims` and the build's configuration.  `PROJECT.json` lists
each with its status and the reason.

## How the project is built

Each component is a module of its own; `HalApi` and `EntryPoints` extend
`HalStateMachine`, so that their machine's thread runs the handlers of the one
component; `MsgTask` extends `LinkedList`.  `JpegJobs` and `MsgFifo`
are abstract specifications: `MmJpeg` is shown to implement the first and `MsgTask` the
second, under refinement mappings (`Promise` in `MmJpeg`, `Fifo` in `MsgTask`).

A root module (`MC...`) is a *sum*: its variable `part` says of which component a
behaviour is, and the variables of the other components keep their first values.  The
components of a sum share no state; the sum only lets one run look at several.

| root | parts | runs |
|---|---|---|
| `MCHalStateMachine` | `machine` (`HalStateMachine`), `parameters`, `burst` (`AdvancedCapture`), `counts`, `buffer` (`BufPlanes`), `memory` | `hal`, `hal_busy_params` |
| `MCHalApi` | `api` (`HalApi`), `entries` (`EntryPoints`), `focus`, `rates` (`Thermal`) | `api`, `api_close_waits` |
| `MCSuperBuf` | `SuperBuf` alone | `superbuf_zsl`, `superbuf_any` |
| `MCCameraStack` | `camera` (`MmCamera`), `channel` (`MmChannel`) | `camera_stack` |
| `MCStreams` | `channels` (`Capture`), `stream` (`HalStream`) | `streams` |
| `MCPictures` | `postproc`, `jpeg` (`MmJpeg`) | `pictures` |
| `MCGps` | `agnss` and `wifi` (`AgpsNif`), `session`, `again` and `settings` (`LocEngine`), `requests` (`NiRequests`), `emergency` | `gps` |
| `AgpsNif` | itself, one instance | `agps_restart` |
| `MCServices` | `sensors`, `timers`, `list` (`LinkedList`), `task` (`MsgTask`), `daemon`, `adapters` (`LocApi`), `codecs` (`QomxCore`) | `services` |

*History variables.*  `fresh`, `by` and `reversed` (`HalApi`), `epoch` (`SuperBuf`), `late`
(`MmCamera`), `stale` and `half` (`MmChannel`), `late` and `shrunk` (`HalStream`), `left` (`Capture`), `shared`
(`BufMemory`), `unsent` (`Parameters`), `quiet` and `orphans` (`PostProc`), `contrary` (`MmJpeg`), `stale`, `late` and `failed`
(`AdvancedCapture`), `overtaken` and `stuck` (`FocusEvents`), `late` and `said` (`NiRequests`), `missed`, `unnamed` and
`refusal` (`LocEngine`), `missed` (`MsgTask`), `handled` (`DaemonConn`), `leftover` and `stuck` (`EmergencyCall`) record what has happened.  No guard of
a handler reads them.  Several mark a place where the code does not keep the property: the
property then says "unless", and the list under *Where the properties stop* says where.

## The modules

A few conventions hold for all of them.  What happens under one lock, or on one thread
without letting go of it, is one step; what another thread can see half-done is cut
there.  An operation that the code's error paths may leave in several ways is a *set* of
outcomes, or an action for each.  Bounds sit in the guards of those who begin things (the
app, the modem, the daemon, the kernel's failures), never in a handler.

### `AgpsNif`: a network interface of the GPS engine

One message is one step, as the engine's thread handles one message at a time.

| variable | code |
|---|---|
| `state` | `mStatePtr`: `AgpsReleasedState`, `AgpsPendingState`, `AgpsAcquiredState`, `AgpsReleasingState` |
| `subs`, `inactive` | `mSubscribers` and the `mIsInactive` of each |
| `inbox` | the engine's message queue, as far as it concerns this NIF |
| `client` | what each client (ATL, BIT, Wi-Fi) has asked for and been told: the other end of `notifyRsrcStatus` |
| `fwq`, `conn` | requests given to the framework's status callback, and its connection (external) |
| `modemUp`, `restarts` | from a modem restart until `LocEngUp` is processed |

`OnSubscribe`, `OnUnsubscribe`, `OnGranted`, `OnReleased`, `OnDenied` and `OnEngineUp`
are the handlers, each with a disjunct for each state that treats the event alike.
The framework is modelled from the calls `loc_eng_agps_open`, `_closed` and
`_open_failed` the code accepts and from what `sendRsrcRequest` tells it: it answers a
REQUEST with GRANTED or DENIED, at once if it is already connected, a RELEASE with
RELEASED, or with DENIED if it aborts an open under way, and it may lose an open
connection.  Answers wait in the same queue as everything else, so an answer may be
about a request that has been overtaken.

A client asks again only when its earlier messages have been handled (`~InFlight`).
The modem's answers carry the connection handle only, so it could not tell two of its
own requests apart.

The three NIFs of `loc_eng` are instances: `agnss_nif` and `internet_nif` have clients
that leave the list at once (`Waits = {}`), and `wifi_nif` clients that wait for the
close to complete, one subscriber, and no flush when the modem restarts
(`loc_eng.cpp:2851-2857` flushes the other two).

### `EmergencyCall`: the data call of an emergency

`DSStateMachine` over the same states.  A client asks, the engine opens a call through
`ds_client`, the call is answered by an event, refused, or retried from a timer
(`retryCallback`); after `MAX_START_DATA_CALL_RETRIES` the machine falls back to an
ordinary ATL connection.  `leftover` and `stuck` mark the calls a modem restart leaves
open and the subscribers a refusal leaves listed; see below.

### `LocEngine`: what the modem is to do

Calls of the framework and reports of the modem become messages in `queue`; `Proc`
handles one (`ProcUp` is `loc_eng_handle_engine_up`).  `navigating`, `criteria`, `engine`,
`mute`, `deleting`, `conf`, `host` and `data` are the HAL's (`mNavigating`, `mFixCriteria`,
`engine_status`, ...), `modem` what the modem has been told since it booted: a crash
clears it.  `app` is what the framework asked for last and the status it was told.
A modem that is up may refuse a start (`StartRefused`): with some errors
`loc_eng_start_handler` counts the session as begun all the same, with the others not
(`loc_eng.cpp:1928-1936`), and `refusal` says which.  A network state given without an APN is
stored and not sent (2650): `unnamed`, until the next start or restart sends what is stored.

### `NiRequests`: network-initiated requests

Two sessions (emergency and ordinary), each with its `rawRequest`, `resp`, `respRecvd`
and a thread that waits for the user with a timeout.  `informNiResponse`, the timeout and
`loc_eng_ni_reset_on_engine_restart` all set `resp`; the session is reused for the next
request.  The reset frees the request without the lock (`ResetFrees`) and then wakes its
thread under it (`ResetWakes`, `loc_eng_ni.cpp:283-291`).  No request comes between the two,
as requests and resets are messages of one thread; but the response thread may time out or
take a response there, and clear the flag before the reset sets it: the next request of the
session is then answered at once, with what was left in `resp`.  `late` marks this and the
other ways in which an answer or a restart meets a thread on its way out, and `OwnAnswer`
says nothing of what follows.

### `LocApi`, `MsgTask`, `LinkedList`, `LocTimers`, `DaemonConn`: what the engine runs on

`LocApi` has the list of adapters of each context, the masks they register for, the
queued open, and the dispatch of reports and requests.  `LinkedList` is `linked_list.c`
with its pointers (`elem`, `head`, `tail`), `MCServices` checks any calls on it against a sequence.
`MsgTask` puts `msg_q.c` and `LocThread.cpp` on top of it: mutex, condition, unblock, the
two owners of the thread's delegate.  `LocTimers` has the heap as a tree, the delegates,
the poll thread and the message thread with the expiry message between them.
`DaemonConn` has the request pipe, the daemons' pipes, and the thread whose launch waits
for its signal.  What the engine writes to a daemon does not follow its asks one to one: an
ask may be handled without a word, and a daemon is told of what happens to a connection it
once asked for at any time (`Notify`, after `notifyRsrcStatus` of the BIT and Wi-Fi
subscribers), so nothing is claimed of answers.  What is claimed is that asks are passed on
once and in order (`PassedOn`) and handled in the end.

### `HalStateMachine`: the camera's states and channels

A handler runs on one thread from start to end, so it is one step:
`stateMachine(e)` is the disjunction of the eight `procEvt...State` functions.  The
operations the handlers call (`startPreview`, `takePicture`, `startRecording`, ...)
are operators from a hardware state `hw` to the *set* of hardware states they may
leave, `hw.ok` being the return code; `Then` and `Unless` are the code's `if (rc ==
NO_ERROR)` and its undoing.  So every failure of every step, with what the code undoes
and what it does not, is one of the outcomes of the handler.

`hw` holds the six channels (null, made, started), ZSL mode and the recording hint
with their committed, pending and string copies, longshot, the preview window, the
live snapshot's thread, and what the last step told the callback notifier and its own
event queue.  `setup` holds what is fixed before the camera opens (default ZSL, raw
format, the early restart of preview, 4k2k video, pictures for each shutter).

APIs that every state answers without touching state or channels are one request,
`OTHER`.  Left out of the data: streams, buffers, face registration, metadata, message
masks, the display.

### `HalApi` and `EntryPoints`: the threads around it

`HalApi` extends `HalStateMachine`: its actions `SmApi` and `SmEvt` take a request or an
event from the queues and run the handler (`Handle`), so the events the machine
sees are now those that threads really post.

| variable | code |
|---|---|
| `api_queue`, `evt_queue` | the machine's two command queues; `SmEvt` only when `api_queue` is empty |
| `call`, `budget` | the request each caller thread waits for in `waitAPIResult`; a bound |
| `results` | `m_apiResultList` |
| `asker` | the caller whose PREPARE_SNAPSHOT is answered by a later event |
| `intPic` | `Int_Pic_thread`, a picture the backend asked for |
| `cb` | `QCameraCbNotifier`: command queue, data queue, active, longshot, count, `processSyncEvt` |
| `pp` | the postprocessor: pictures still to deliver |
| `life` | `~QCamera2HardwareInterface` and `closeCamera`, join by join |

START and STOP go in front of the notifier's other commands (`Pushed`, after
`sendCmd` with priority).  `fresh` marks a queued event whose picture has not been
stopped; it is a history variable and no guard reads it.  An app calls whenever no call of
its own is under way, whatever the machine and the notifier are doing: a call may come
between two pictures, before their `SNAPSHOT_DONE` is handled, and while START or STOP is
queued.  `cb.reversed` marks that a START was put in front of a STOP still queued
(`Reverses`).

`EntryPoints` has the operations of `camera_device`, each with the sequence of requests
it makes, called by two threads at once: the wait for an answer gives `m_lock` back, so
two operations overlap.

### `Capture`, `AdvancedCapture`, `FocusEvents`, `Thermal`: what else the HAL does

`Capture` makes the channels, stream by stream, with the jobs that the deferred-work
thread does for them (buffers, the postprocessor's start), their identifiers and
the waits for them; any step may fail.  `AdvancedCapture` follows a picture of several
frames: what `configureAdvancedCapture` and its like set on the sensor, the frames
counted by the ZSL channel's callback, and the three ways it is undone.  `FocusEvents`
has the app, the machine, the metadata thread and the lens.  `Thermal` has the four
parties that set the sensor's frame rates.

### `Parameters`: the settings

`SET_PARAMS` as a whole: the setters, in the code's order, stage, batch or keep what the
request changed; `commitParameters` sends the batch, and what was staged is written if the
daemon takes it; if a restart is needed the machine refuses it, or stops and starts the
preview.  `s` holds the table in force, what is staged, the members and what the daemon
was sent; `config` what the running preview was made with.

### `HalStream`, `BufMemory`, `BufPlanes`, `BufCounts`: streams and their buffers

`HalStream` follows the buffers of one stream through the driver, the poll thread, the
stream's thread, the callback (window, app, notifier, encoder) and back, while the channel
starts and stops and a third thread allocates the buffers it began without.  A preview frame
may be looked at after it was shown (`sendPreviewCallback`, `CbLooked`), when it is no longer
the HAL's; a notification that is still queued when a stream without display stops outlives
the stream (`stray`).
`BufMemory` has the objects, ION and the pool, one lock's worth of `allocateBuffer` at a
time.  `BufPlanes` is `mm_stream_calc_offset` with `mm_stream_sync_info`
and `mm_stream_set_fmt`, checked against what a picture of that size takes.
`BufCounts` is `getBufNumRequired` and the settings it reads, of which only some restart
the preview.

### `SuperBuf`: matching the frames of several streams

A bundled channel delivers *super buffers*, one frame of each stream with the same
number.  The poll thread takes filled buffers from the driver and queues them for the
channel's command thread and, if the stream has a callback, for the stream's own
thread.  The command thread collects the frames in a list of nodes, one node a frame
number, and sends complete nodes to the callback thread as the HAL asks for them.
Whoever looks at a buffer counts in its `buf_refcnt`; who lets go of it calls
`mm_stream_buf_done`, and the last one queues it to the driver.

| variable | code |
|---|---|
| `queue` | `bundle.superbuf_queue`: nodes, `match_cnt`, `expected_frame_id`, `expected_frame_id_without_led` |
| `chan` | `pending_cnt`, notify mode, `needLEDFlash`, `bracketingState`, `isFlashBracketingEnabled`, `isZoom1xFrameRequested`, `startZSlSnapshotCalled`, `manualZSLSnapshot`, `previewSkipCnt` |
| `cmdq`, `cbq`, `appq` | the command queues of the channel's command and callback threads and of each stream's thread |
| `refcnt`, `kernel` | `buf_status[].buf_refcnt` and `.in_kernel` |
| `polled`, `calling`, `held` | the buffer in the hands of the poll thread, of a stream's thread, of the HAL |
| `next`, `epoch`, `fresh` | the sensor (external): the numbers it may still give, how often it has started again, and that the first metadata since has not come |
| `flushing` | a caller waits in `mm_channel_flush_super_buf_queue` |

`Process` is one command of `mm_channel_process_stream_buf`: `Handle` (one operator for
each kind of command), `TrimTo` the water mark, `Dispatch`.  The list belongs to the
command thread alone and the releases of different buffers commute, so a command is
one step; the code's loops over the list are sets of positions here.  `Notify` and
`Forward` are the two halves of the poll thread's handling of a frame, `AppCallback`
and `AppDone` those of a stream's thread: between the halves other threads run.  The
HAL returns buffers without the channel's lock (`mm_camera.c:498`), so `QBuf` is always
possible.

A stream of another channel may be *linked* (`Linked`): the metadata of the preview, for a
live snapshot (`QCamera2HWI.cpp:3496-3501`).  Its frames go to its own channel's poll thread
and callback and also to the bundled channel, which counts as one more holder, and what the HAL
returns through the bundled channel is redirected to the stream
(`mm_camera_stream.c:203-213`, `mm_camera_channel.c:1629-1634`).  Two poll threads work then
(`Polls`).  The channel it belongs to is taken not to be bundled itself, as the HAL's preview
channel is in a recording.  `superbuf_any` has the metadata linked, `superbuf_zsl` none.

What a metadata frame says to the matching is a record (`SaysType`): renumbered, invalid,
flash preparation, good frame range, crop of 1x.  The `epoch` of a slot is a history
variable: no guard reads it.

*What the sensor is taken to do.*  Each stream delivers its frames in order and may
lose any; when it starts to number anew no stream delivers an old frame any more, and
the first frame after that is a metadata frame that says so
(`is_frame_id_reset`).  `WholeAndInOrder` depends on it: if an old frame of another
stream arrives after the metadata that flushed the queue, the code takes it for a frame
of the new numbering and joins frames of two exposures.  Nothing in the repository says
which order the closed daemon keeps.

### `MmCamera` and `MmChannel`: the stack's control

`MmCamera` has threads that open, use and close cameras by handle: the list and
`g_intf_lock`, an object's lock and a channel's lock taken hand over hand, reference
counts, the control messages with the server's events (late, lost) and the object's memory,
which is given out again (`Cells`).  `MmChannel` is a channel's start and stop as a list of
steps on its streams, each of which may fail, with the poll thread (told through a pipe,
synchronously or not), the stream threads and buffers given back without the lock.  In `MmCamera`
the stopping of a channel is one step; that it joins the callback threads under `ch_lock`
(`mm_camera_stream.c:846`) is `MmChannel`'s.

### `PostProc`, `MmJpeg`, `JpegJobs`, `QomxCore`: pictures

`PostProc` has the five queues, the two channels' callbacks, the data and saving threads,
the encoder's answers and the machine's thread, for each way (`Modes`) it works.  A start
may fail before its command, or after it, when there is no JPEG session (`StartEnds`); an
encoder's answer is handled whenever it comes, also before the job's number is stored, and then
finds no job (`Flush`, `orphans`); the raw depth image of a refocus takes its place in the
queue and starts no job (`KeepDepthMap`, `QCameraPostProc.cpp:1774`); and the app may be told
nothing of an intermediate picture (`Tell`, `quiet`).  `MmJpeg`
has the client under `g_intf_lock`, the two job queues, the manager, and the component
that calls back.  Two of its calls succeed without doing anything: `create_session` when
there is no handle (2229, 2257), `start_job` when the session is not active or an index is
wrong (`DropJob`, 2010-2026).  The component is free to do anything at any time; once it has
refused the output buffer of a job that it had already reported an error for, the code answers
the job twice and queues its session twice (1423, 2703): `contrary`, after which nothing is
claimed.  `JpegJobs` is what a client may rely on: every job that was queued is answered once
unless aborted, nothing comes after the abort, none is forgotten, until the component is
`contrary`.
`QomxCore` loads and unloads codecs.

### `MultiHal`: sensors

Opening the modules (any of which may fail), the global handles, activate and flush; the
writers fill a part of their ring without the lock, the reader goes round the rings.

## The runs

| run | shows |
|---|---|
| `hal` | `VideoRunsWhileRecording`, `LiveSnapshotJoined`: hold whatever fails and whatever the app sets. `ChannelsOfState`: on a camera on which nothing fails the channels are those of the state. `InForceIsSent`, `SettingsApplied`: settings in force were sent; the running preview is made from them (`RunsWhatIsSet`, for the sets of keys below); the flash is allowed; what a picture of several frames changed is undone. `BuffersFit`, `OneHolder`: buffers are enough, large enough, and in one place |
| `hal_busy_params` | **violated**: `RecordingKeepsMode`, see *Findings* |
| `api` | `AnswersToCallers`, `AnswersMatch`: answers go to those who asked, `SNAPSHOT_DONE` about a picture comes after its last frame, the sensor's rates are those of the level. `PicturesExpected`: no picture is dropped, unless START and STOP were reversed. `Ends`: calls, pictures and focus end. `CircleEnds`: the notifier comes back from the machine, and a close ends but for the one wait of `api_close_waits` |
| `api_close_waits` | **violated**: `CloseFinishes`, see *Findings* |
| `superbuf_zsl` | `ZslOrder`: complete nodes first, super buffers whole, of one exposure and in order, the driver keeps buffers |
| `superbuf_any` | `AnyServed`, `RefsAreHolders`: any two commands and any metadata |
| `camera_stack` | `CameraSafe`, `ChannelSafe`: no use of a freed object, own answers, poll entries and driver agree, nothing left by a stop, and by a failed start the poll entry of one stream only. `CallsReturn`, `ControlEnds` |
| `streams` | `DeferredWorkInTime`, `OneOwner`, `WaitsEnd`, `ChannelCallsEnd` |
| `pictures` | `FramesAccounted`, `NoJobLost`: a frame or job is in one place and is given back. `Answered`, `CallsEnd`. `KeepsPromise`: `MmJpeg` implements `JpegJobs` |
| `gps` | `ListMatchesState`, `GrantedIsHeld`, `NifConsistent`, `EngineAgrees`, `OwnAnswer`; `NifAnswers`, `NavigationResumes`, `RequestsEnd`, `EmergencyEnds` |
| `agps_restart` | **violated**: `IdleNifIsReleased`, see *Findings* |
| `services` | `ServicesKept`, `ServicesEnd` (for the daemons: asks are passed on once, in order, and handled); `IsFifo`: `MsgTask` implements `MsgFifo` |

### Bounds, and why they are enough

* *AGPS*: two clients are the smallest number for which one's leaving and the other's
  coming meet; everything the machine asks of its list is "empty", "nobody active" or "this
  one".  `MaxInbox = 4` (`MaxClientBox = 3` for clients, which leaves room for the
  framework's answer) lets an ask, a close and two answers queue at once, `MaxFwq = 2` a
  release and the next request.  One restart separates "before", "down" and "after".
* *Engine*: a session of four calls (start, stop, cleanup, init) with a crash and a
  fix; six calls without a crash (`again`), which is a second session after the first was
  stopped, cleaned up or ended by its fix; three calls for the settings, which is set,
  overwrite, delete.
* *State machine*: no counter at all; the state space is finite and explored whole, for a
  JPEG camera and a raw one, each with everything failing and with nothing.
* *API*: `MaxCalls` requests of one caller: five for preview, picture, cancel,
  picture and stop; four for preview, recording, a live snapshot and what follows; three where
  the backend asks for a picture too.
  Bursts have two pictures, the smallest number for which "the last" differs from "any".
* *Parameters*: requests that change two or three keys which touch the same state (the sets
  of `Together`); keys that meet nowhere in the code are not combined, nor is the recording
  hint with `video-hdr`, for which `RunsWhatIsSet` fails (*What is proved*).
* *Super buffers*: two streams give every case of matching: a frame whose partner is
  before it, behind it or missing.  With a water mark of 1 and one unmatched frame allowed,
  four buffers are what the queue may keep and one more.  `superbuf_any` trades frames
  for commands.  Buffers of a stream are interchangeable: `Symmetry` permutes them.
* *Camera stack*: two threads, memory for one object (so that the next opening gets the
  freed one), two mapping requests; a channel of two streams and two buffers, started twice
  with one failure: the second start meets what the first left.
* *Streams*: three buffers of which one comes late; two runs, one fault.  Two pictures with
  one failure for the channels' construction.
* *Pictures*: three frames, three jobs, in the order of their numbers: one running, one
  waiting, one more to abort.  A behaviour of `MmJpeg` is not followed beyond the step that
  makes it `contrary`.
* *Memory*: two objects and two buffers of ION, which a pool can confuse if it can at all;
  the sizes are one below and one above a page.
* *Services*: rings of two events (full, empty and wrapped), two timers of which one is
  started twice, three messages, two daemons asking twice with a pipe of one and one notice nobody asked for (`MaxNotices`), three adapters
  for two places, two codecs with two instances.

Deadlock is not checked where apps, clients or frames may run out; the liveness
properties say what may not be left undone.

### Fairness, and why the code justifies it

All fairness is weak, and of threads that have work: the engine's message thread, the
machine's thread, the notifier, callers that return from `waitAPIResult`, the command,
stream, poll and dispatch threads, the job manager, writers and readers of sensors.  They
block only on semaphores and conditions whose owners signal them; the scheduler runs
them.  Of the environment it is assumed that it answers what it is asked: the framework
its requests (`FwStep`), the lower layers the metadata and the pictures of a running
capture, the component a job, the lens a move, a modem that crashed boots, time passes.
Nobody is obliged to call, close, crash, time out or lose anything.  `gps`, `services` and
the other sums state the fairness of each component; a component that is not the
behaviour's part has nothing enabled, so it asks nothing.

### Where the properties stop

A property is stated for what the code does keep.  These are the places where it does
not, as TLC shows when the restriction is lifted; no document contradicts them clearly
enough to call them findings.

*State machine and pictures.*
* *Longshot without ZSL*: `TAKE_PICTURE` enters PREVIEW_PIC_TAKING
  (`QCameraStateMachine.h:192` says "(preview running)") after `takePicture` has deleted
  the preview channel (`QCamera2HWI.cpp:3011`).  *Early restart of preview*: the preview runs
  again in PIC_TAKING, and `STOP_PREVIEW` there cancels only the picture
  (`QCameraStateMachine.cpp:1601`).  *A retried recording*: `START_RECORDING` that failed has
  set the hint, so the retry skips the branch that starts the preview
  (`QCamera2HWI.cpp:2225`).  `ChannelsOfState` is therefore stated of cameras on which
  nothing fails, without these two features (`calm`).
* START and STOP, both queued in front of the notifier's commands, are handled in reverse when
  the second comes before the first is handled (`QCamera2HWICallbacks.cpp:2486`): the notifier
  then turns the next picture's JPEG away, and the picture does not end by itself.
  `PicturesExpected` and `Ends` exempt what follows (`cb.reversed`).
* A `SNAPSHOT_DONE` posted for a picture that was cancelled meanwhile ends the next one
  (`QCamera2HWICallbacks.cpp:2327`).  The model has these behaviours; no property excludes
  them.  `AnswersMatch` says only that a `SNAPSHOT_DONE` about the picture in progress comes
  last.  The picture it ends wrongly is not answered; `Ends` asks only that the machine leaves it.
* The answer to the `CANCEL_PICTURE` of a failed live snapshot is taken by the app's next
  one (`QCamera2HWI.cpp:3508`): `AnswersToCallers` is of callers whose requests nobody else
  makes (`Unshared`).
* With two app threads, `register_face_image` during PREPARE_SNAPSHOT is never answered
  (`QCameraStateMachine.cpp:1353`); `entries` has one app thread and the thermal daemon.
* An `auto_focus` while the lens moves by itself is answered without anything being done
  (`QCamera2HWI.cpp:586`); `overtaken` and `stuck` in `FocusEvents`.
* `PostprocFails = TRUE`: a ZSL picture that fails after slowing the stream leaves it slow
  (`QCamera2HWI.cpp:2962-2977`).
* `Refocus` with "mtf": the undoing of the focus bracket zeroes `m_currNumBufMTF` before the
  JPEGs are encoded, so that the postprocessor no longer sees a refocus
  (`QCamera2HWI.cpp:2671`, `QCameraPostProc.cpp:866`).
* No memory for a stream's information deletes a channel with deferred work still queued
  for it (`QCamera2HWI.cpp:4679`): `left` has those jobs, and `DeferredWorkInTime` speaks of the
  others.
* A batch that the daemon refuses, or that is given up, leaves `mFlashDaemonValue` at a value
  the daemon was never sent, and `updateFlash` sends a change only
  (`QCameraParameters.cpp:7698`, 7715): `unsent`, until another value is decided.

*Buffers.*
* An allocation of more buffers that fails gives the first ones back although the object
  keeps them (`QCameraMem.cpp:333-345`): `shared`.  `OneHolder` and `BigEnough` are of all other
  buffers; that no other is drawn in is part of what they say.
* `late`: a frame accepted before `m_bActive` falls is queued after the flush
  (`QCameraStream.cpp:668`); `shrunk`: a window that takes fewer buffers back
  (`QCameraMem.cpp:1584`); `stray`: a notification of a stream without display is
  delivered after the stop, with its frame and stream gone (`QCamera2HWICallbacks.cpp:1012`).
  A preview frame is shown before the app is given it (736-756), so the driver may already
  write into what the app reads: `Exclusive` does not count that look.
* `BufCounts` is looked at for raw sensors: with a YUV sensor two buffers fewer may be as
  many as the queue keeps.  `CountsAgree` is of the bursts in its bounds; a long enough one
  (`setBurstNum` refuses none) makes the sums pass a byte.
* A frame returned while the stream is being registered again is polled for a stream that
  is not on: `stale` in `MmChannel`.  A registration that fails with some buffers queued
  leaves the stream's entry in the poll thread (`mm_camera_stream.c:1672-1676`): `half`; it is
  the only thing such a start leaves behind (`NothingLeftBehind`).  A mapping request timed out
  is answered into the next one (`mm_camera.c:1643`): `late` in `MmCamera`.

*JPEG.*  `Chain` of one session, as built: with two, a job handed to the second of the chain
is answered for the first (`mm_jpeg.c:1170`).  `LateErrors = TRUE`: an error of an aborted
session reaches the client after `abort_job` (`mm_jpeg.c:2703`).  `contrary`: see `MmJpeg` above.  A
job whose answer overtakes its number (`QCameraPostProc.cpp:1954`) is not found and keeps its
frames until the stop: `orphans`, of which `FramesAccounted` says only that their frames are in
one place and go back then.  `Answered` leaves out pictures written to files by the
save thread, long shots refused by a full queue (2413), what the app is told nothing of
(`quiet`) and frames that wait for a buffer of the reprocess stream an orphan keeps.

*GPS.*
* A stop that meets the restart of the fix (`loc_eng.cpp:2862`) is lost: `missed`.
* A fix of a session that was stopped, still queued when the next one for a single fix
  starts, is taken for the new session's and concludes it: a fix does not say which session
  it is of (`loc_eng.cpp:782-793`): `missed`.
* A network state without an APN does not reach the modem (`loc_eng.cpp:2650`): `unnamed`.
  A start the modem refuses with an error outside the handler's list leaves the HAL without a
  session the framework wants (1928-1936): `refusal`.
* A response thread that ends between the two halves of a reset leaves the flag to be set after
  it, and the next request is answered with the old one's response
  (`loc_eng_ni.cpp:283-291`): `late`.
* A restart of the modem leaves the emergency call open for a list that is kept
  (`loc_eng.cpp:2851`): `leftover`; a refused request leaves its subscriber listed
  (`loc_eng_agps.cpp:882`): `stuck`.
* The thread of a destroyed task that has not yet read its runnable deletes nothing
  (`LocThread.cpp:179`): `missed` in `MsgTask`.
* A codec library that loads but has no functions, or whose first instance fails, stays
  marked open (`qomx_core.c:219`); `Faults` leaves these two out.

Four claims of comments and logs fail and are kept as definitions without a run:
`RetriesLater` (`DaemonConn`: "retry later", but the thread ends), `LostSendsNothing`
(`NiRequests`: a request lost with the modem may be answered), `ModeNeedsRestart`
(`Parameters`), `DeletionsKept` (`LocEngine`: a second request to delete aiding data
overwrites the first).

## Findings

Three places where the code does not do what its own comments or logs say, each kept
as a run that TLC violates.

* **`hal_busy_params`** `RecordingKeepsMode`.  In RECORDING a `SET_PARAMS` that needs a
  restart is refused after it has been stored (`QCameraStateMachine.cpp:1942`; the log
  at 1944 says "Error!! cannot set parameters that requires restart during recording").
  The pending mode stays, and the next `SET_PARAMS` that needs no restart commits it:
  the mode changes during the recording.
* **`api_close_waits`** `CloseFinishes`.  `closeCamera` joins the notifier's thread
  ("exit notify thread.", `QCamera2HWICallbacks.cpp:2118`) after the machine's thread
  has ended (`QCamera2HWI.cpp:1345`).  If `SNAPSHOT_DONE` is still queued then, the
  notifier waits for it for ever in `processSyncEvt` and the destructor for the
  notifier.
* **`agps_restart`** `IdleNifIsReleased`.  "no more subscribers, move to RELEASED state"
  (`loc_eng_agps.cpp:355`); but when the modem comes back `dropAllSubscribers` empties
  the list and keeps the state (`loc_eng.cpp:2851`), so a NIF that was acquired stays
  acquired for nobody and is never released.

## What is proved

TLAPS proves these for **every** value of the constants (any number of clients, callers,
buffers, requests, any bounds); TLC runs the same formulas on the instances above.

| module | theorem | says | assumes |
|---|---|---|---|
| `GpsProofs` | `TypeCorrect` | `Spec => []TypeOK` | `NifAssumption` |
| | `ListAndStateAgree` | `Spec => []ListMatchesState` | `NifAssumption` |
| | `GrantsAreHeld` | `Spec => []GrantedIsHeld` | also `Flushed \/ EnforceSingle`, true of all three NIFs |
| | `SidesAgree` | `Spec => []SessionsAgree` | the same |
| | `OneSubscriber` | `Spec => []SingleSubscriber` | `NifAssumption` |
| | `NifIsConsistent` | `Spec => []NifConsistent` | `NifAssumption`, `Flushed \/ EnforceSingle` |
| | `AnswersAreOwn` | `niSpec => []OwnAnswer` | `NiAssumption` |
| | `NiTypeCorrect` | `niSpec => []niTypeOK` | `NiAssumption` |
| `HalApiProofs` | `VideoFollowsState` | `smSpec => []VideoRunsWhileRecording` | `HalAssumption` |
| | `LiveSnapshotIsJoined` | `smSpec => []LiveSnapshotJoined` | `HalAssumption` |
| | `ChannelsFollowState` | `smSpec => []ChannelsOfState` | `HalAssumption` |
| | `CallersGetTheirAnswers` | `Spec => []AnswersToCallers` | `HalAssumption`, `ApiAssumption` |
| `LocEngineProofs` | `LocTypeCorrect` | `engSpec => []engTypeOK` | `LocEngineAssumption` |
| | `ModemIsToldAll` | `engSpec => []ModemKnows` | `LocEngineAssumption` |
| | `SessionIsAsWanted` | `engSpec => []SessionAgrees` | `LocEngineAssumption` |
| | `StatusIsTold` | `engSpec => []StatusAgrees` | `LocEngineAssumption` |
| | `EngineAndModemAgree` | `engSpec => []EngineAgrees` | `LocEngineAssumption` |
| `ParametersProofs` | `SettingsAreSent` | `Spec => []InForceIsSent` | nothing |
| | `FlashIsAllowed` | `Spec => []FlashFollows` | nothing |
| `MmCameraProofs` | `CallsAreSafe` | `Spec => []CameraSafe` | `CameraAssumption` |
| `MmJpegProofs` | `JobsAreKept` | `Spec => []NoJobLost` | `AsBuilt` |
| | `PromiseIsKept` | `Spec => Promise!Init /\ [][Promise!Next]_Promise!vars` | `AsBuilt` |
| `BufferProofs` | `BuffersHaveOneHolder` | `memSpec => []OneHolder` | `BufMemoryAssumption` |
| | `BuffersAreBigEnough` | `memSpec => []BigEnough` | the same |
| | `BuffersHaveOneOwner` | `Spec => []OneOwner` | `HalStreamAssumption` |
| | `WorkIsInTime` | `capSpec => []DeferredWorkInTime` | `CaptureAssumption` |
| `SuperBufProofs` | `BuffersAreCounted` | `Spec => []RefsAreHolders` | `SuperBufAssumption`, `FramesCountFromOne`, `WholeFlushes` |
| | `QueueIsServed` | `Spec => []AnyServed` | `SuperBufAssumption` |
| | `SuperBufsAreInOrder` | `Spec => []ZslOrder` | also the two above and `RoomBeyondQueue` |

*AgpsNif.*  `TypeOK` is inductive by itself, including its one clause that is not a
type: `inactive \subseteq subs \cap Waits`.  `ListMatchesState` speaks of the time before
the first restart and needs `NoEarlyEngineUp` (no ENGINE_UP is queued before a
restart), since a flush is what breaks it.  `GrantedIsHeld` alone is far from inductive:
a grant to a client on the list says nothing about what is still queued.  The
strengthening `SessionsAgree` says what sessions, queue and list know of each other:
a modem that is down holds nothing (`DownIsIdle`) and what it asked is queued ahead of
ENGINE_UP (`EngineUpIsLast`); a client's messages are queued ask first, then close
(`AskIsFirst`, `CloseIsMeant`); the list never holds an idle client and a queued ask
is never about one already listed (`ListIsMeant`).  `gps` checks it: `NifConsistent` is the
type, `SessionsAgree` and, for `Wifi`, `SingleSubscriber`
(with the type of `NiRequests`).  The
proof has one step for each action.  Without `Flushed \/ EnforceSingle` it is false where
clients wait for the close: a client that was marked before the restart, asks again and is
told GRANTED stays marked inactive (TLC finds it with `Waits = Ids`); no NIF is like that.

*HalStateMachine.*  The invariant is `HalInv`: both properties, the state's range, and
`hw \in HwBase`, the type without the list of notifications.  Every operation of the
hardware interface has a lemma saying which channels and threads it leaves alone
(`Calm` starts neither VIDEO nor SNAPSHOT and leaves the live thread alone; `Steady`
leaves both channels alone as well); a lemma for each
state combines those of its handlers.  Since the lemmas range over all outcomes of an
operation, the theorems hold whichever operations fail.

*Channels.*  `ChannelsOfState` speaks of the cameras of `Setups` on which nothing fails and
that have no early restart; other cameras may be among them.  `ChannelsInv` adds
to `HalInv` the `Shape` of such a camera: nothing is left to commit, and for each state which
of the preview, ZSL, capture and raw channels are gone, made and started.  It is stronger
than the property in what it says of channels that do *not* stream (a made
preview in PREVIEW_READY, a raw channel in a JPEG camera's picture), because the next
operation starts or deletes them.  Each operation's lemma gives its one outcome
on such a camera (`Works`) as a change of one channel (`Changed`) or none
(`Kept`).

*HalApi.*  A caller's request is in one place only from the call to the return: in the
machine's queue, with `asker` while the hardware prepares a snapshot, or in the result list
(`OnePlace`).  That needs who may ask for what (`MayAsk`), that requests and results nobody
made are of the kinds the HAL's own threads post (`Unasked`), and that nobody records whose
callers never start a recording (`Unrecorded`), which in turn needs `HalInv`: `ApiInv`
contains the invariant of the state machine, and the lemmas about its handlers are used as they
are: that is why both proofs are in one module.

*NiRequests.*  Until a handler or a reset has been overtaken by the thread it looked for (`late`), the
session's payload belongs to one thread that waits for it (`StoredIsAwaited`, `OneThread`),
a message is about the thread's own request (`MessageIsOwn`), and what is noticed was said
of the stored request (`NoticeIsOwn`).

*LocEngine.*  `ModemKnows` speaks of an empty queue; the invariant says of every queue what
the modem will have when all of it is handled: `Comes(queue, K, have, v)` is that the last
message of the kind `K` carries `v`, or that there is none and the modem has `v` now
(`SettingsCome` for each setting and the network state, `ServerComes` for the server).  It
holds from the moment the start (`Init`) or the restart (`Up`) has been handled, which queue
everything again, and promises nothing before.  What a queue says when it is joined to
another or its head is handled are lemmas about `Silent`, `Mentions` and `Agrees`; that the
settings, a set, are queued in some order each once (`Ordered`) needs finitely many.
For the session (`SessionInv`) the same question is asked of starts and stops (`WantsCome`:
when all is handled the HAL navigates as the framework wants) and of the statuses
(`EndIsTold`, `BeginIsTold`).  What it takes besides: no stop is behind a restart, which it
would meet before the start that the restart queues (`StopsInTime`); between a session, or a
start of one, and a new position mode there is a stop, so that the modem's criteria are the
HAL's (`ModesApart`); and a session runs on a modem whose restart has been handled, with no
last fix of it queued (`SessionIsKnown`, and `SessionRuns` for the converse).  Each of these fails
in one of the three races that set `missed`, and in no other step: the proof has to use
`~missed'` in `Stop`, `Cleanup`, `ProcStartFix` and `ProcPosition`, nowhere else.

*BufMemory.*  `MemInv` is the type, `OneHolder`, `BigEnough` and `Counted`, which relates an
object's count to its list while it is being filled.  `OneHolder` is about positions in
lists, so that the proof rests on lemmas about appending, joining, removing and reversing
lists.  The buffers that a refused stream keeps (`shared`) are in two places from then on, and
the proof has to show that they stay the only ones.

*HalStream.*  `OneOwner` speaks of a stream that runs; what comes back to one that is not
running, and what is in the queues when the next start gives the buffers out anew, decides
whether it holds then.  `StreamInv` adds which phases of start and stop have which memory and
which allocating thread (`Phases`: the buffers still to be mapped are there only while it runs,
and while it waits only the first ones exist), that the data thread is gone before the buffers
are, that what it left behind was flushed and that nothing is in any hand when the buffers are
given out (`Gone`); and, while the stream runs, that the eight places are `Apart`, each queue
has a frame once, and all of it is memory that exists (`Owned`), without which
`allocateMoreStreamBuf` could bring a buffer somebody has.  `late` is the exception that
*Where the properties stop* describes: every part that it could break says `~late`.  The frame
that `sendPreviewCallback` looks at is in somebody else's hand already, so that it is in no place
of `Apart`; what is proved of it is that its memory is there (`Looked`).

*Capture.*  That no job is left for a deleted channel is a matter of where the thread of the state
machine is: `CapInv` says for each of its places which jobs can be under way (`When`).  While a
channel is being built they are those of its own streams that have been added; while it waits they
are among the jobs it still has to wait for, which is why every way out of building can delete the
channel once the wait is over; when it is idle or starts a channel, only the postprocessor's start.
For the last, the channel must outlive the wait in `cancelPicture` and in the failed start.  It
takes that a job under way has a slot of its own and is the last of its kind (`Slots`), since
`waitDefferedWork` looks at an identifier that the next job of the kind overwrites; that one
channel is built at a time and a picture's channel is the only one made beside another
(`OneBuilt`, `Solo`); and, so that the waits name the right jobs, which streams a channel has
still to get (`Planned`).  Without memory for a stream's information the channel is deleted with
no wait at all (*Where the properties stop*): the jobs `left` are under way then for nobody, and all of
the above is said of the others, which must not be mistaken for them.

*SuperBuf.*  `RefsAreHolders` counts positions; `BufInv` says that there is at most one to
count.  A buffer is once at most with the channel (a queued frame, a node of the queue, a
super buffer on its way: `OnceInChannel`) and once at most with its stream (with the poll
thread, waiting, in the callback: `OnceInStream`), so that its count is a sum of seven
yes-or-no questions and of how often the HAL holds it (`Counted`).  The part that is not
obvious is that a node never loses a buffer by being given a second one of the same stream
(`Join` overwrites the slot): it cannot, because a stream's frames reach the command
thread in the order of their numbers, unless the numbering starts again, which the
metadata says and which empties the queue (`InOrder`).  Each operation on the queue is shown
to keep what it holds (`Keeps`) or to take the one frame in (`Takes`), as lemmas about a
selection (`Selection`), a replacement (`Fills`), an insertion (`Inserts`) and a splice of a list
of nodes; `OutcomeSettles` puts them together for a whole command.  Two hypotheses are
needed.  `FramesCountFromOne`: `mm_channel_superbuf_comp_and_enqueue` takes a node whose
frame is 0 for an empty one and does not release what is in it.  `WholeFlushes`: a flush by
type releases the buffers of those types only, and drops the others with their nodes; the
HAL's own flush is of all types (`mm_camera_channel.c:637`), only stopping a channel linked to
another one's streams flushes by type (1252, 1350).

The order of the queue has an invariant of its own, `LineInv`.  The queue is a `Line`: complete
nodes first, then the others, each part rising; all of one numbering; one unmatched node at
most more than allowed.  That a frame fits into it (`Arrives`) depends on what
is on the way: each queued frame, each node and each super buffer `Leads` all later frames of
its streams by numbering and number, and the numbering of what follows is the same unless a
metadata frame that empties the queue comes in between (`Renewed`).  What the callback thread
has is earlier than what is complete in the queue (`Before`).  A command either sheds nodes at
the head or all of them (`Sheds`), or brings its frame (`Comes`, for `Join` and
`Insert`); what it sends is the head of the line (`Sends`).  `LineInv` needs no hypothesis, so
that `AnyServed`, the order and the wholeness hold even for a driver that counts from zero; only
`RefsAreHolders` and `QueueLeavesBuffers`, which `ZslOrder` contains, take theirs.
`RoomBeyondQueue` is what `getBufNumRequired` provides: `depth + unmatched + 2` (1562, 1635);
for a single ZSL snapshot it is `depth + 3` (1630), which is enough while the camera's
`min_num_pp_bufs`, the number of unmatched frames, is at most one.

*Parameters.*  A setter that fails halfway has staged some keys, so `InForceIsSent` says
nothing about the middle of a request.  There the invariant is `Ok`: what is in force was sent,
and a plain key is staged if and only if it is in the batch, with the same value (`Batched`).
A new batch makes it true (`initBatchUpdate` empties both), each setter keeps it, refused or
not, and `commitSetBatch` turns it into what is in force, or drops both.  The setters are
proved about one by one, with `Ok` opaque except in those that stage: they all have one form, a
chain of conditional updates.  Between requests it is `Settled`: in force is sent, and the
flash decided is the one that the modes allow and was sent (`LedSent`), unless the batch it was
put into was not taken (`unsent`).  What is decided needs no hypothesis about refusals: `updateFlash`
comes last in a request, and every operation that changes what it reads calls it again.

`RunsWhatIsSet` is *not* a theorem.  The attempt to prove it showed why: while a preview with the
recording hint runs, a change of `video-hdr` changes the live snapshot's size
(`setLiveSnapshotSize`, `QCameraParameters.cpp:1469`) and `setVideoHDR` (2534) asks for no
restart, so the running snapshot stream keeps the size it was made with until the preview is
started again for another reason.  TLC shows it in a few steps with
`Focus = {{"recording-hint", "video-hdr"}}`.  `RunsWhatIsSet` is therefore a property of the keys
in the `Focus` of a run; the sets of `hal` satisfy it.

*MmCamera.*  `CameraInv` says what a call that is under way holds.  The locks are taken hand
over hand: a call that has found its object holds `g_intf_lock` until it has the object's
lock, the object's until it has the channel's (`InCall`), and from then on it works on
an object that its own reference keeps, because whoever uses a channel has the camera open
and the open camera is the one in the table (`OpenKnown`).  The references of an object are
counted: their number is that of the threads that have it open (`Counted`), so the one that
takes it to zero is the last, and `OneCloser` says that there is but one of those.  It frees
the object only when it has its lock: all who were inside have left it, and nobody finds it any
more.  The handles' counter wraps (`% W`), and two objects may well have the same number: what
tells handles apart is the slot (`Table`).  For the answers: while nothing is late, an object
whose `msgLock` is free has neither an answer nor a question outstanding, and the one who
waits has its answer either there or to come (`AnswerOf`).  Once a wait has timed out (`late`)
nothing is promised, and the code promises nothing.

*MmJpeg.*  `AsBuilt` is `JpegAssumption` with two conditions: one OMX session for each encoding
session (`MM_JPEG_CONCURRENT_SESSIONS_COUNT`), and a component that reports no error of a
session whose abort it was told (`LateErrors`).  Nothing is claimed once it is `contrary`: the
invariant is `JpegHolds`, `JpegInv` until then.  Without either, the properties are false, and
*Where the properties stop* says how.  The invariant `JpegInv` is about who works for whom.  The
session is `Live` when it encodes without having been aborted, or is being fed: then its job is
one somebody waits for, in no queue, in `ongoing` until an abort takes it out, and the client is
in none of the calls that could reuse the session (`Encoder`).  An abort that has begun
(`"INIT"`) has its caller waiting, and one that is over (`"DONE"`) a component that has let the
buffers go; that is what makes a second picture of the same session impossible.  A job in the
queue is asked for, unanswered and there once (`Queued`), so that the manager never feeds a job
that was aborted or answered; the job lock is with a client or with the manager (`Calls`).  A job
the client waits for is queued or the session's, and a session that is not working is free
(`Kept`): `NoJobLost` follows.  A client that was told of success without a session has no
job and no session is free (`Handle`), so that `Kept` is said of sessions with a handle.  `Handle` also says that a command which the component has not answered
is one that somebody waits for, unless an error was reported, so that a handle is freed at rest.
`PromiseIsKept` is the safety half of `KeepsPromise`, step by step: the four steps
that call the client back (`MgrFails` in two ways, `FillBufferDone`, `ErrorEvent`) do so for a
`Live` session, whose job `Encoder` knows to be open; that no job stays open for ever
is the half that remains with TLC.

## What is only model-checked

* *Liveness* (the fairness half of `KeepsPromise`, `Ends`, `CircleEnds`, `CallsReturn`, `ControlEnds`, `WaitsEnd`,
  `ChannelCallsEnd`, `Answered`, `CallsEnd`, `NifAnswers`, `NavigationResumes`, `RequestsEnd`,
  `EmergencyEnds`, `ServicesEnd`): the rules need ENABLED, which TLAPS does not support.
* *What reaches a RECURSIVE operator*: the list's search and flush, the heap and so
  `LinkedList`, `MsgTask` (with its refinement `IsFifo`), `LocTimers`; the
  provers lose SMT there, and what a recursion computes for every input would need induction
  over data.
* *Safety not proved*: `RunsWhatIsSet` (false for some keys, above), the sizes in
  `BuffersFit`, `AnswersMatch`, `PicturesExpected`, the channels of the stack
  (`ChannelSafe`), the postprocessor's frames (`FramesAccounted`), and `ServicesKept`.  Nothing is known
  that would keep the provers from them; see the plan.

## What is not modelled

Formatting (NMEA, EXIF, parameter strings), closed libraries and what they compute
(QMI, OMX codec, the camera daemon), kernel interfaces, and the build's configuration,
which is data.  Memory errors and failed small allocations are out of the model, but for
places named above.  Of the modelled components: face registration, metadata that only goes
to the app, message masks, the display's geometry, `setDelay`, `batch`, injection and
close of the sensor HAL, IP addresses and bearers, XTRA's data.  The services of one file
(fingerprint, doze, light, touch, amplifier, init) keep hardly any state; the doze
service's decision would be the next to model.

## Plan

1. *Done.*  The modules, runs and theorems above.
2. *Proofs to come*: `MmChannel`, whose callers hold the locks that `CameraInv` describes; the
   rest of `HalApi` (the order of the notifier's commands, `PictureIsExpected`); the frames
   of `PostProc`.
3. *Small components*: the doze service, the light's choice, `QCameraCmdThread` by itself.
