------------------------------ MODULE HalStream ------------------------------
(***************************************************************************)
(* One stream of a channel of the HAL (QCameraStream.cpp), with the channel *)
(* operations that start and stop it (QCameraChannel.cpp), its buffers      *)
(* (QCameraMem.cpp) and the callback its frames go to                       *)
(* (QCamera2HWICallbacks.cpp).                                              *)
(*                                                                          *)
(* Five threads share the buffers: mm-camera-interface's poll thread, the   *)
(* stream's data thread, the thread of the state machine, the notifier with *)
(* the app behind it, and the one that allocates the buffers a snapshot     *)
(* stream starts without.                                                   *)
(***************************************************************************)
EXTENDS Naturals, Sequences, FiniteSets, SequencesExt

CONSTANTS
  Kinds,          \* the callbacks looked at
  NumBufs,        \* mNumBufs
  NumFirst,       \* CAMERA_MIN_ALLOCATED_BUFFERS, for a stream that allocates the rest later
  MinUndequeued,  \* buffers the window keeps
  MaxRuns,        \* bound: starts of the channel
  MaxFaults,      \* bound: failures of the window, the notifier and the allocator
  NoFrame         \* what stands in the place of a frame

AllKinds == {"preview", "nodisplay", "video", "metadata", "snapshot"}

HalStreamAssumption ==
  /\ Kinds \subseteq AllKinds
  /\ NumBufs \in Nat /\ NumFirst \in 1..NumBufs /\ MinUndequeued \in 0..NumBufs
  /\ MaxRuns \in Nat /\ MaxFaults \in Nat
  /\ NoFrame \notin (1..NumBufs) \cup [b : 1..NumBufs, saw : BOOLEAN]

Bufs == 1..NumBufs

VARIABLES
  kind,
  sm,      \* the thread of the state machine: what it does to the channel
  active,  \* m_bActive
  on,      \* mm-camera-interface streams
  mem,     \* mStreamBufs: the buffers that are allocated
  drv,     \* the buffers the driver has
  poll,    \* the poll thread in processDataNotify: its frame, and what it read of m_bActive
  dataQ,   \* mDataQ
  cmds,    \* the commands of the data thread
  proc,    \* the data thread: "off", "idle", in the callback with a frame, or looking at
           \* one that it has given away ("look")
  window,  \* the buffers that are BUFFER_NOT_OWNED
  cbQ,     \* the frames the notifier has for the app
  stray,   \* notifications before them whose stream has stopped
  app,     \* the frames the app has
  alloc,   \* BufAllocRoutine: "none", "waits", "runs", "over"
  toMap,   \* the buffers it has allocated and not yet mapped and queued
  wait,    \* wait_for_cond
  faults,  \* failures so far (bound)
  shrunk,  \* a failure has left a buffer with nobody
  late,    \* a frame was queued after the data thread had gone
  runs     \* starts so far (bound)

vars == <<kind, sm, active, on, mem, drv, poll, dataQ, cmds, proc, window, cbQ, app,
          alloc, toMap, wait, faults, shrunk, late, stray, runs>>
allocs == <<alloc, toMap, wait>>
ghosts == <<faults, shrunk, late, stray, runs>>

Init ==
  /\ kind \in Kinds
  /\ sm = "off" /\ active = FALSE /\ on = FALSE
  /\ mem = {} /\ drv = {} /\ poll = NoFrame /\ dataQ = <<>> /\ cmds = <<>>
  /\ proc = [pc |-> "off", b |-> NoFrame]
  /\ window = {} /\ cbQ = <<>> /\ app = {}
  /\ alloc = "none" /\ toMap = {} /\ wait = FALSE
  /\ stray = 0 /\ faults = 0 /\ shrunk = FALSE /\ late = FALSE /\ runs = 0

\* bufDone: qbuf is refused when the stream is not streaming.
Returned(S) == drv' = IF on THEN drv \cup S ELSE drv
Keep == UNCHANGED drv

Fault == faults < MaxFaults /\ faults' = faults + 1

-----------------------------------------------------------------------------
(* QCameraChannel::start, on the state machine's thread.                    *)

\* QCameraStream::start for every stream of the channel, then start_channel.
\* The app gives back its video frames before it records again.
StartStream ==
  /\ sm = "off" /\ runs < MaxRuns /\ app = {}
  /\ runs' = runs + 1
  /\ proc' = [pc |-> "idle", b |-> NoFrame] /\ active' = TRUE
  /\ sm' = "getbufs"
  /\ UNCHANGED <<kind, on, mem, drv, poll, dataQ, cmds, window, cbQ, app, allocs,
                 faults, shrunk, late, stray>>

First == IF kind = "snapshot" /\ NumFirst < NumBufs THEN 1..NumFirst ELSE Bufs

\* QCameraGrallocMemory::allocate takes every buffer from the window and gives
\* the first ones back to it.
WindowKeeps == IF kind = "preview" THEN 1..MinUndequeued ELSE {}

\* getBufs, then mm-camera-interface registers the buffers, all but the window's
\* (getRegFlags), and streams.
GetBufs ==
  /\ sm = "getbufs"
  /\ mem' = First
  /\ window' = WindowKeeps
  /\ drv' = First \ window'
  /\ on' = TRUE
  /\ IF First # Bufs THEN alloc' = "waits" /\ wait' = TRUE ELSE UNCHANGED <<alloc, wait>>
  /\ sm' = "streaming"
  /\ UNCHANGED <<kind, active, poll, dataQ, cmds, proc, cbQ, app, toMap, ghosts>>

\* Allocation or mapping fails: nothing is kept, and the channel's start undoes
\* the streams' (as after a stop).
GetBufsFails ==
  /\ sm = "getbufs" /\ Fault
  /\ sm' = "undo"
  /\ UNCHANGED <<kind, active, on, mem, drv, poll, dataQ, cmds, proc, window, cbQ, app,
                 allocs, shrunk, late, stray, runs>>

\* start_channel returns: the allocating thread is woken (cond_signal) or, when a
\* later stream failed, everything is taken back.
Started ==
  /\ sm = "streaming"
  /\ sm' = "on" /\ wait' = FALSE
  /\ UNCHANGED <<kind, active, on, mem, drv, poll, dataQ, cmds, proc, window, cbQ, app,
                 alloc, toMap, ghosts>>

StartFails ==
  /\ sm = "streaming" /\ Fault
  /\ sm' = "failed"
  /\ UNCHANGED <<kind, active, on, mem, drv, poll, dataQ, cmds, proc, window, cbQ, app,
                 allocs, shrunk, late, stray, runs>>

\* The stream is over: the notifications that are left have the place of a buffer
\* and a stream that are gone.
Leave == cbQ' = <<>> /\ stray' = stray + Len(cbQ)

-----------------------------------------------------------------------------
(* QCameraChannel::stop: first the HAL's streams, then stop_channel.         *)

\* QCameraStream::stop: EXIT goes before the commands that wait.
StopStream ==
  /\ sm \in {"on", "undo"}
  /\ active' = FALSE
  /\ cmds' = <<"EXIT">> \o cmds
  /\ sm' = IF sm = "on" THEN "joins" ELSE "undone"
  /\ UNCHANGED <<kind, on, mem, drv, poll, dataQ, proc, window, cbQ, app, allocs, ghosts>>

\* pthread_join in QCameraCmdThread::exit.
Joined ==
  /\ sm \in {"joins", "undone"} /\ proc.pc = "off"
  /\ \/ sm = "joins" /\ sm' = "streamoff" /\ UNCHANGED <<cbQ, stray>>
     \/ sm = "undone" /\ sm' = "off" /\ Leave
  /\ UNCHANGED <<kind, active, on, mem, drv, poll, dataQ, cmds, proc, window, app, allocs,
                 faults, shrunk, late, runs>>

\* stop_channel, or the part of start_channel that takes it back: the poll
\* thread is gone, the driver gives up its buffers.
StreamOff ==
  /\ sm \in {"streamoff", "failed"} /\ poll = NoFrame
  /\ on' = FALSE /\ drv' = {}
  /\ sm' = IF sm = "streamoff" THEN "putbufs" ELSE "putbufs2"
  /\ UNCHANGED <<kind, active, mem, poll, dataQ, cmds, proc, window, cbQ, app, allocs, ghosts>>

\* (mutant: the allocating thread is joined without being woken)
WakeAllocNot == UNCHANGED <<wait, alloc>>

\* cond_signal(true): the thread that still waits is to allocate nothing.
WakeAlloc == wait' = FALSE /\ alloc' = IF wait /\ alloc = "waits" THEN "over" ELSE alloc

PutBufs ==
  /\ sm \in {"putbufs", "putbufs2"} /\ WakeAlloc
  /\ sm' = IF sm = "putbufs" THEN "free" ELSE "free2"
  /\ UNCHANGED <<kind, active, on, mem, drv, poll, dataQ, cmds, proc, window, cbQ, app,
                 toMap, ghosts>>

\* pthread_join(mBufAllocPid)
AllocGone == alloc \in {"none", "over"}

\* putBufs: the buffers are unmapped and freed.  The window's are cancelled or
\* stay with it.
Free ==
  /\ sm \in {"free", "free2"} /\ AllocGone
  /\ mem' = {} /\ window' = {} /\ alloc' = "none"
  /\ sm' = IF sm = "free" THEN "flush" ELSE "undo"
  /\ UNCHANGED <<kind, active, on, drv, poll, dataQ, cmds, proc, cbQ, app, toMap, wait, ghosts>>

\* flushVideoNotifications after a recording; the notifications of a preview
\* without display are left to the notifier (stopPreview).
Flush ==
  /\ sm = "flush" /\ sm' = "off"
  /\ IF kind = "video" THEN cbQ' = <<>> /\ UNCHANGED stray ELSE Leave
  /\ UNCHANGED <<kind, active, on, mem, drv, poll, dataQ, cmds, proc, window, app, allocs,
                 faults, shrunk, late, runs>>

-----------------------------------------------------------------------------
(* The poll thread: dataNotifyCB and processDataNotify.                     *)

\* stop_channel's first act takes the stream from the poll thread.
DataNotify(b) ==
  /\ on /\ sm \notin {"streamoff", "failed"} /\ poll = NoFrame /\ b \in drv
  /\ drv' = drv \ {b}
  /\ poll' = [b |-> b, saw |-> active]
  /\ UNCHANGED <<kind, sm, active, on, mem, dataQ, cmds, proc, window, cbQ, app, allocs, ghosts>>

Notify ==
  /\ poll # NoFrame /\ poll' = NoFrame
  /\ IF poll.saw
       THEN dataQ' = Append(dataQ, poll.b) /\ cmds' = Append(cmds, "NEXT") /\ Keep
       ELSE Returned({poll.b}) /\ UNCHANGED <<dataQ, cmds>>
  /\ late' = (late \/ (poll.saw /\ proc.pc = "off"))
  /\ UNCHANGED <<kind, sm, active, on, mem, proc, window, cbQ, app, allocs, faults, shrunk, stray, runs>>

-----------------------------------------------------------------------------
(* The data thread.                                                         *)

ProcNext ==
  /\ proc.pc = "idle" /\ cmds # <<>> /\ Head(cmds) = "NEXT"
  /\ cmds' = Tail(cmds)
  /\ IF dataQ = <<>> THEN UNCHANGED <<dataQ, proc>>
     ELSE dataQ' = Tail(dataQ) /\ proc' = [pc |-> "cb", b |-> Head(dataQ)]
  /\ UNCHANGED <<kind, sm, active, on, mem, drv, poll, window, cbQ, app, allocs, ghosts>>

\* EXIT flushes mDataQ: releaseFrameData gives each frame back.
ProcExit ==
  /\ proc.pc = "idle" /\ cmds # <<>> /\ Head(cmds) = "EXIT"
  /\ cmds' = Tail(cmds) /\ dataQ' = <<>> /\ Returned(ToSet(dataQ))
  /\ proc' = [pc |-> "off", b |-> NoFrame]
  /\ UNCHANGED <<kind, sm, active, on, mem, poll, window, cbQ, app, allocs, ghosts>>

InCallback(k) == proc.pc = "cb" /\ kind = k
CbReturns == proc' = [pc |-> "idle", b |-> NoFrame]
CbKeeps == UNCHANGED <<kind, sm, active, on, mem, poll, dataQ, cmds, allocs, late, stray, runs>>

\* metadata_stream_cb_routine and postview_stream_cb_routine read the frame; a
\* snapshot stream in a channel has no callback; a preview frame is not looked at
\* when no preview runs (needProcessPreviewFrame) or when it is to be skipped.
CbDone ==
  /\ proc.pc = "cb" /\ kind # "video"
  /\ Returned({proc.b}) /\ CbReturns
  /\ UNCHANGED <<window, cbQ, app, faults, shrunk>> /\ CbKeeps

\* (mutant: the buffer shown goes back, not the one the window gave for it)
CbPreviewSame ==
  /\ InCallback("preview")
  /\ \E d \in window \cup {proc.b} :
       window' = (window \cup {proc.b}) \ {d} /\ Returned({proc.b})
  /\ CbReturns /\ UNCHANGED <<cbQ, app, faults, shrunk>> /\ CbKeeps

\* sendPreviewCallback for an app that wants preview frames: the data thread copies
\* or maps the frame it has already shown.
CbShows == CbReturns \/ proc' = [pc |-> "look", b |-> proc.b]

\* preview_stream_cb_routine and displayBuffer: the frame goes to the window and
\* the one the window gives back goes to the driver.
CbPreview ==
  /\ InCallback("preview")
  /\ \E d \in window \cup {proc.b} :
       window' = (window \cup {proc.b}) \ {d} /\ Returned({d})
  /\ CbShows /\ UNCHANGED <<cbQ, app, faults, shrunk>> /\ CbKeeps

\* enqueue_buffer fails: the frame stays with the HAL, which does not remember
\* it, and another buffer is asked for all the same; or dequeue_buffer fails.
CbPreviewFails ==
  /\ InCallback("preview") /\ Fault /\ shrunk' = TRUE
  /\ \/ UNCHANGED window /\ Keep
     \/ window' = window \cup {proc.b} /\ Keep
     \/ \E d \in window : window' = window \ {d} /\ Returned({d})
  /\ CbShows /\ UNCHANGED <<cbQ, app>> /\ CbKeeps

\* It has copied or mapped the frame; the notification owns the copy or the map.
CbLooked ==
  /\ proc.pc = "look" /\ CbReturns
  /\ UNCHANGED <<drv, window, cbQ, app, faults, shrunk>> /\ CbKeeps

\* nodisplay_preview_stream_cb_routine and video_stream_cb_routine: the app is to
\* see the frame; when the notifier refuses it goes back.
CbNotify ==
  /\ \E k \in {"nodisplay", "video"} : InCallback(k)
  /\ CbReturns
  /\ \/ cbQ' = Append(cbQ, proc.b) /\ Keep /\ UNCHANGED faults
     \/ Fault /\ Returned({proc.b}) /\ UNCHANGED cbQ
  /\ UNCHANGED <<window, app, shrunk>> /\ CbKeeps

\* The app does not want video frames any more (disableMsgType): this one is not
\* given back.
CbVideoUnwanted ==
  /\ InCallback("video") /\ Fault /\ shrunk' = TRUE
  /\ CbReturns /\ Keep /\ UNCHANGED <<window, cbQ, app>> /\ CbKeeps

-----------------------------------------------------------------------------
(* The notifier and the app.                                                *)

\* A preview frame is released when the callback returns (returnStreamBuffer), a
\* video frame when the app says so.
Deliver ==
  /\ stray = 0 /\ cbQ # <<>> /\ cbQ' = Tail(cbQ)
  /\ IF kind = "video" THEN app' = app \cup {Head(cbQ)} /\ Keep
     ELSE Returned({Head(cbQ)}) /\ UNCHANGED app
  /\ UNCHANGED <<kind, sm, active, on, mem, poll, dataQ, cmds, proc, window, allocs, ghosts>>

\* returnStreamBuffer for a stream that has stopped: it reads the index in memory
\* that was freed and calls a stream that may be deleted.  What this does to a
\* buffer is not followed.
DeliverStray ==
  /\ stray > 0 /\ stray' = stray - 1
  /\ UNCHANGED <<kind, sm, active, on, mem, drv, poll, dataQ, cmds, proc, window, cbQ, app,
                 allocs, faults, shrunk, late, runs>>

\* releaseRecordingFrame, on the state machine's thread; after the recording only
\* the handle is closed.
ReleaseRecordingFrame(b) ==
  /\ sm \in {"on", "off"} /\ b \in app
  /\ app' = app \ {b}
  /\ IF sm = "on" THEN Returned({b}) ELSE Keep
  /\ UNCHANGED <<kind, sm, active, on, mem, poll, dataQ, cmds, proc, window, cbQ, allocs, ghosts>>

-----------------------------------------------------------------------------
(* BufAllocRoutine.                                                         *)

\* allocateMoreStreamBuf
AllocMore ==
  /\ alloc = "waits" /\ ~wait
  /\ \/ /\ mem' = Bufs /\ toMap' = Bufs \ First /\ alloc' = "runs"
        /\ UNCHANGED <<faults, shrunk>>
     \/ Fault /\ alloc' = "over" /\ UNCHANGED <<mem, toMap, shrunk>>
  /\ UNCHANGED <<kind, sm, active, on, drv, poll, dataQ, cmds, proc, window, cbQ, app, wait, late, stray, runs>>

\* Each buffer is mapped and queued; one that cannot be mapped is left out.
AllocMaps ==
  /\ alloc = "runs"
  /\ \E b \in toMap :
       /\ \A c \in toMap : b <= c
       /\ toMap' = toMap \ {b}
       /\ \/ Returned({b}) /\ UNCHANGED <<faults, shrunk>>
          \/ Fault /\ shrunk' = TRUE /\ Keep
  /\ alloc' = IF toMap' = {} THEN "over" ELSE "runs"
  /\ UNCHANGED <<kind, sm, active, on, mem, poll, dataQ, cmds, proc, window, cbQ, app, wait, late, stray, runs>>

-----------------------------------------------------------------------------
SmSteps == \/ GetBufs \/ Started \/ StopStream \/ Joined \/ StreamOff \/ PutBufs \/ Free \/ Flush
CbSteps == \/ CbDone \/ CbPreview \/ CbNotify \/ CbLooked
SmFails == GetBufsFails \/ StartFails
CbFails == CbPreviewFails \/ CbVideoUnwanted

Next ==
  \/ StartStream \/ SmSteps \/ SmFails
  \/ \E b \in Bufs : DataNotify(b) \/ ReleaseRecordingFrame(b)
  \/ Notify \/ ProcNext \/ ProcExit \/ CbSteps \/ CbFails \/ Deliver \/ DeliverStray
  \/ AllocMore \/ AllocMaps

\* Every thread that can go on goes on; a callback returns; the state machine's
\* thread finishes what it has begun, and stops nothing by itself.
Fairness ==
  /\ WF_vars(GetBufs \/ Started \/ (sm # "on" /\ StopStream) \/ Joined \/ StreamOff \/ PutBufs
             \/ Free \/ Flush)
  /\ WF_vars(Notify) /\ WF_vars(ProcNext \/ ProcExit) /\ WF_vars(CbSteps \/ CbFails)
  /\ WF_vars(Deliver \/ DeliverStray) /\ WF_vars(AllocMore) /\ WF_vars(AllocMaps)

Spec == Init /\ [][Next]_vars /\ Fairness

-----------------------------------------------------------------------------
(* Properties.                                                              *)

\* start_channel has failed and given the buffers back; the HAL's streams are
\* stopped only then (QCameraChannel.cpp:334).
Undoing == sm \in {"failed", "putbufs2", "free2", "undo", "undone"}

PollBufs == IF poll = NoFrame THEN {} ELSE {poll.b}
ProcBufs == IF proc.pc = "cb" THEN {proc.b} ELSE {}
Looked == IF proc.pc = "look" THEN {proc.b} ELSE {}
Places == <<drv, PollBufs, ToSet(dataQ), ProcBufs, window, ToSet(cbQ), app>>

TypeOK ==
  /\ kind \in Kinds /\ active \in BOOLEAN /\ on \in BOOLEAN
  /\ mem \subseteq Bufs /\ \A k \in DOMAIN Places : Places[k] \subseteq Bufs
  /\ alloc \in {"none", "waits", "runs", "over"} /\ toMap \subseteq Bufs
  /\ wait \in BOOLEAN /\ shrunk \in BOOLEAN /\ late \in BOOLEAN
  /\ stray \in Nat /\ faults \in 0..MaxFaults /\ runs \in 0..MaxRuns

\* While the stream runs no buffer is in two hands: the driver never writes into
\* a frame that waits, that a callback is given, that the window shows or that the
\* app encodes.  (QCameraStream::bufDone, QCameraGrallocMemory::displayBuffer.)
\* The look sendPreviewCallback takes at a preview frame after it was shown is not
\* a hand: the driver may by then write into that frame.  Nor is the notification
\* of an earlier run (`stray`).
Exclusive ==
  on /\ ~late =>
    /\ \A i, j \in DOMAIN Places : i # j => Places[i] \cap Places[j] = {}
    /\ IsInjective(dataQ) /\ IsInjective(cbQ)

\* A stream that runs and whose window, notifier and allocator have not failed
\* has each of its buffers somewhere: none leaks, whatever the order in which
\* frames, the stop and the callbacks come.
NoneLost ==
  on /\ ~shrunk /\ ~late => mem \subseteq (UNION Range(Places)) \cup toMap

\* The data thread's callback, its look at a frame it has shown, the frames that
\* wait for it and the allocating thread touch only memory that is there.  (`late`:
\* processDataNotify has read m_bActive and queues its frame after the data
\* thread's last flush; it stays in mDataQ beyond the buffers.  A start that fails
\* is the other exception.)  The notifier's thread is not among them: a
\* notification without display outlives its stream.
NoFreedFrame ==
  /\ ~late /\ ~Undoing => ToSet(dataQ) \cup ProcBufs \cup Looked \cup PollBufs \subseteq mem
  /\ alloc = "runs" => toMap \subseteq mem

\* A buffer of a running stream is in one hand, and in some hand until its memory goes.
OneOwner == TypeOK /\ Exclusive /\ NoneLost /\ NoFreedFrame

\* A start and a stop that have begun end: nobody waits for a thread that waits.
ChannelCallsEnd == (sm \notin {"off", "on"}) ~> (sm \in {"off", "on"})
=============================================================================
