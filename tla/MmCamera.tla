------------------------------ MODULE MmCamera ------------------------------
(***************************************************************************)
(* The camera objects of mm-camera-interface (mm_camera_interface.c,        *)
(* mm_camera.c) and the calls that go through them: handles, reference      *)
(* counts, the locks every call takes hand over hand (g_intf_lock, then the *)
(* object's cam_lock, then a channel's ch_lock), the buffer mapping         *)
(* requests the camera daemon answers with an event, and that event's way   *)
(* through the poll thread and the dispatch thread.                         *)
(*                                                                          *)
(* Threads are callers; each opens the camera for itself and uses the       *)
(* handles it was given, also after it closed the camera.  The daemon may   *)
(* answer a request late or never, and may die.                             *)
(***************************************************************************)
EXTENDS Naturals, Sequences, FiniteSets

CONSTANTS
  Threads,   \* the callers
  Cells,     \* memory for camera objects (malloc)
  NumCam,    \* cameras of the device
  MaxCh,     \* MM_CAMERA_CHANNEL_MAX
  W,         \* handler history counts modulo W (2^16)
  Calls,     \* the operations the callers use
  MaxTags,   \* bound: mapping requests in a behaviour
  MaxHandles, \* bound: handles given out in a behaviour
  None

CameraAssumption ==
  /\ NumCam \in Nat \ {0} /\ MaxCh \in Nat \ {0} /\ W \in Nat /\ W > 2
  /\ MaxTags \in Nat /\ MaxHandles \in Nat /\ None \notin Threads \cup Cells

VARIABLES
  camObj,   \* g_cam_ctrl.cam_obj: the cell of each opened camera
  heap,     \* the contents of the cells in use
  intfLock, \* g_intf_lock
  history,  \* g_handler_history_count
  th,       \* what each caller is doing
  used      \* mapping requests and handles so far (bounds)

vars == <<camObj, heap, intfLock, history, th, used>>

CamIdx == 0..(NumCam - 1)

-----------------------------------------------------------------------------
(* Handles: a counter that skips zero, with the slot in the low bits.       *)

Bumped(n) == IF (n + 1) % W = 0 THEN 1 ELSE (n + 1) % W

GenerateHandler(n, idx) == <<Bumped(n), idx>>

NoHandle == <<0, 0>>

\* mm_camera_util_get_camera_by_handler
CameraOf(h) ==
  LET idx == h[2] IN
    IF idx \in CamIdx /\ camObj[idx] # None /\ heap[camObj[idx]].hdl = h
      THEN camObj[idx] ELSE None

\* mm_camera_util_get_channel_by_handler: the slot, or 0.
ChannelOf(o, h) ==
  IF \E s \in 1..MaxCh : heap[o].ch[s].hdl = h
    THEN CHOOSE s \in 1..MaxCh : heap[o].ch[s].hdl = h ELSE 0

-----------------------------------------------------------------------------
(* The operations, by what they do under the locks.                         *)

\* An ioctl under cam_lock.
ParmCalls == {"query_capability", "set_parms", "get_parms", "do_auto_focus",
              "cancel_auto_focus", "prepare_snapshot"}

\* A message to the daemon under cam_lock, and the wait for its answer.
MapCalls == {"map_buf", "unmap_buf"}

\* An event to the channel's state machine, under ch_lock alone.
StreamCalls == {"get_bundle_info", "link_stream", "add_stream", "del_stream",
                "config_stream", "get_queued_buf_count"}
StartStopCalls == {"start_channel", "stop_channel"}
SuperBufCalls == {"request_super_buf", "cancel_super_buf_request", "flush_super_buf_queue"}
ModeCalls == {"start_zsl_snapshot", "stop_zsl_snapshot", "configure_notify_mode",
              "process_advanced_capture"}
StreamParmCalls == {"set_stream_parms", "get_stream_parms"}
StreamMapCalls == {"map_stream_buf", "unmap_stream_buf"}

ChannelCalls ==
  StreamCalls \cup StartStopCalls \cup SuperBufCalls \cup ModeCalls \cup StreamParmCalls \cup StreamMapCalls
    \cup {"delete_channel"}

\* The events a channel takes when it is stopped and when it runs; any other
\* is ignored and answered with success.
TakenStopped == StreamCalls \cup StreamParmCalls \cup StreamMapCalls
                  \cup {"start_channel", "delete_channel"}
TakenActive == {"stop_channel", "get_queued_buf_count"} \cup SuperBufCalls
                 \cup ModeCalls \cup StreamParmCalls

AllCalls == ParmCalls \cup MapCalls \cup ChannelCalls
              \cup {"camera_open", "close_camera", "add_channel", "qbuf",
                    "register_event_notify"}

-----------------------------------------------------------------------------

Idle == [pc |-> "out", call |-> None, o |-> None, ch |-> NoHandle, slot |-> 0, tag |-> 0]

NoAnswer == [tag |-> 0, by |-> 0, late |-> FALSE]

\* A caller's handles: of the camera and of the channel it added; and the
\* request its last mapping call sent, with the answer that ended it.
Fresh == [at |-> Idle, cam |-> NoHandle, open |-> FALSE, ch |-> NoHandle,
          got |-> NoAnswer]

NoChannel == [hdl |-> NoHandle, state |-> "NOTUSED", lock |-> None]

NewObject(h) ==
  [hdl |-> h, refs |-> 1, lock |-> None, msgLock |-> None,
   ch |-> [s \in 1..MaxCh |-> NoChannel],
   rcvd |-> 0,           \* evt_rcvd: the request that was answered
   asked |-> <<>>,       \* requests the daemon has not answered
   polled |-> TRUE,      \* the event poll thread watches ctrl_fd
   evq |-> 0,            \* events for the dispatch thread
   late |-> FALSE]       \* some wait on this object has timed out

Init ==
  /\ camObj = [i \in CamIdx |-> None]
  /\ heap = [o \in {} |-> None]
  /\ intfLock = None
  /\ history = 0
  /\ th = [t \in Threads |-> Fresh]
  /\ used = [tags |-> 0, handles |-> 0]

Out(t) == th[t].at.pc = "out"
At(t, pc) == th[t].at.pc = pc
Cell(t) == th[t].at.o
Call(t) == th[t].at.call

\* Thread t goes on at pc; a finished call leaves nothing behind.
Goes(t, pc) == [th EXCEPT ![t].at.pc = pc]
Returns(t) == [th EXCEPT ![t].at = Idle]

\* camera_open, all of it under g_intf_lock: one more reference, or a new
\* object if there is memory and the device opens.
CameraOpen(t, idx) ==
  /\ "camera_open" \in Calls /\ Out(t) /\ ~th[t].open
  /\ intfLock = None
  /\ UNCHANGED intfLock
  /\ IF camObj[idx] # None
       THEN /\ heap' = [heap EXCEPT ![camObj[idx]].refs = @ + 1]
            /\ th' = [th EXCEPT ![t].cam = heap[camObj[idx]].hdl, ![t].open = TRUE]
            /\ UNCHANGED <<camObj, history, used>>
       ELSE /\ used.handles < MaxHandles
            /\ used' = [used EXCEPT !.handles = @ + 1]
            /\ history' = Bumped(history)
            /\ \/ \E o \in Cells \ DOMAIN heap :
                    LET h == GenerateHandler(history, idx) IN
                      /\ heap' = [x \in DOMAIN heap \cup {o} |->
                                    IF x = o THEN NewObject(h) ELSE heap[x]]
                      /\ camObj' = [camObj EXCEPT ![idx] = o]
                      /\ th' = [th EXCEPT ![t].cam = h, ![t].open = TRUE]
               \/ UNCHANGED <<heap, camObj, th>>

\* What the callers may ask.  A camera's handle may be an old one; a channel
\* is used by all who have its camera open, and its maker deletes it stopped,
\* when no other caller is inside it, and before closing the camera.
MayAsk(t, call, h) ==
  /\ call \in Calls \ {"camera_open"}
  /\ th[t].cam # NoHandle
  /\ call = "add_channel" => used.handles < MaxHandles
  /\ call \in {"close_camera", "add_channel"} => th[t].open /\ th[t].ch = NoHandle
  /\ IF call \in ChannelCalls \cup {"qbuf"}
       THEN /\ h # NoHandle /\ th[t].open
            /\ \E u \in Threads : /\ th[u].ch = h /\ th[u].cam = th[t].cam
                                  /\ th[u].at.call # "delete_channel"
            /\ call = "delete_channel" =>
                 /\ th[t].ch = h
                 /\ heap[CameraOf(th[t].cam)].ch[ChannelOf(CameraOf(th[t].cam), h)].state = "STOPPED"
                 /\ \A u \in Threads \ {t} : th[u].at.ch # h
       ELSE h = NoHandle

\* Every operation starts by looking its camera up under g_intf_lock; the
\* lock is kept until the object's own lock is held.
Enter(t, call, h) ==
  /\ Out(t) /\ intfLock = None /\ MayAsk(t, call, h)
  /\ LET o == CameraOf(th[t].cam) IN
       /\ \/ /\ o = None
             /\ th' = Returns(t)
             /\ UNCHANGED <<intfLock, heap, camObj>>
          \/ /\ o # None /\ call = "close_camera" /\ heap[o].refs > 1
             /\ heap' = [heap EXCEPT ![o].refs = @ - 1]
             /\ th' = [Returns(t) EXCEPT ![t].open = FALSE]
             /\ UNCHANGED <<intfLock, camObj>>
          \/ /\ o # None /\ ~(call = "close_camera" /\ heap[o].refs > 1)
             /\ intfLock' = t
             /\ th' = [th EXCEPT ![t].at = [Idle EXCEPT !.pc = "found", !.call = call,
                                                       !.o = o, !.ch = h],
                                 ![t].open = @ /\ call # "close_camera",
                                 ![t].got = NoAnswer]
             /\ heap' = IF call = "close_camera" THEN [heap EXCEPT ![o].refs = 0] ELSE heap
             /\ camObj' = IF call = "close_camera"
                            THEN [camObj EXCEPT ![th[t].cam[2]] = None] ELSE camObj
  /\ used' = IF call = "add_channel" THEN [used EXCEPT !.handles = @ + 1] ELSE used
  /\ UNCHANGED history

\* A lock of the object that counts on the table's lock having been enough.
LockCameraLate(t) ==
  /\ At(t, "found")
  /\ \/ heap[Cell(t)].lock = None /\ heap' = [heap EXCEPT ![Cell(t)].lock = t]
        /\ th' = Goes(t, "locked")
     \/ intfLock = t /\ UNCHANGED <<heap, th>>
  /\ intfLock' = IF intfLock = t THEN None ELSE intfLock
  /\ UNCHANGED <<camObj, history, used>>

\* The object is locked, then the table is free for others.
LockCamera(t) ==
  /\ At(t, "found") /\ heap[Cell(t)].lock = None
  /\ heap' = [heap EXCEPT ![Cell(t)].lock = t]
  /\ intfLock' = None
  /\ th' = Goes(t, "locked")
  /\ UNCHANGED <<camObj, history, used>>

Unlocked(o) == [heap EXCEPT ![o].lock = None]

UnderLock(t, calls) ==
  /\ At(t, "locked") /\ Call(t) \in calls
  /\ heap' = Unlocked(Cell(t))
  /\ th' = Returns(t)
  /\ UNCHANGED <<camObj, intfLock, history, used>>

Parm(t) == UnderLock(t, ParmCalls)

\* A change of the table of event callbacks.
RegisterEventNotify(t) == UnderLock(t, {"register_event_notify"})

\* The first free slot; no slot, no channel.
AddChannel(t) ==
  /\ At(t, "locked") /\ Call(t) = "add_channel"
  /\ LET o == Cell(t)
         free == {s \in 1..MaxCh : heap[o].ch[s].state = "NOTUSED"}
         s == CHOOSE x \in free : \A y \in free : x <= y
         h == GenerateHandler(history, s - 1) IN
       IF free = {}
         THEN /\ heap' = Unlocked(o) /\ th' = Returns(t) /\ UNCHANGED history
         ELSE /\ heap' = [Unlocked(o) EXCEPT ![o].ch[s] =
                            [hdl |-> h, state |-> "STOPPED", lock |-> None]]
              /\ th' = [Returns(t) EXCEPT ![t].ch = h]
              /\ history' = Bumped(history)
  /\ UNCHANGED <<camObj, intfLock, used>>

\* The channel is looked up under cam_lock; the caller waits for the channel's
\* lock with the camera's in hand.
FindChannel(t) ==
  /\ At(t, "locked") /\ Call(t) \in ChannelCalls
  /\ LET o == Cell(t)  s == ChannelOf(o, th[t].at.ch) IN
       IF s = 0
         THEN heap' = Unlocked(o) /\ th' = Returns(t)
         ELSE /\ heap[o].ch[s].lock = None
              /\ heap' = [Unlocked(o) EXCEPT ![o].ch[s].lock = t]
              /\ th' = [Goes(t, "event") EXCEPT ![t].at.slot = s]
  /\ UNCHANGED <<camObj, intfLock, history, used>>

\* mm_camera_qbuf gives the camera's lock back and goes on without any.
QBuf(t) ==
  /\ At(t, "locked") /\ Call(t) = "qbuf"
  /\ heap' = Unlocked(Cell(t))
  /\ th' = [Goes(t, "bare") EXCEPT ![t].at.slot = ChannelOf(Cell(t), th[t].at.ch)]
  /\ UNCHANGED <<camObj, intfLock, history, used>>

QBufDone(t) ==
  /\ At(t, "bare")
  /\ th' = Returns(t)
  /\ UNCHANGED <<camObj, heap, intfLock, history, used>>

Taken(t) ==
  LET state == heap[Cell(t)].ch[th[t].at.slot].state IN
    Call(t) \in (IF state = "STOPPED" THEN TakenStopped ELSE TakenActive)

Moved(t, state) ==
  [heap EXCEPT ![Cell(t)].ch[th[t].at.slot] = [@ EXCEPT !.state = state, !.lock = None]]

\* The channel's state machine (mm_channel_fsm_fn), which gives ch_lock back.
Event(t, calls, state) ==
  /\ At(t, "event") /\ Call(t) \in calls
  /\ heap' = Moved(t, state)
  /\ th' = Returns(t)
  /\ UNCHANGED <<camObj, intfLock, history, used>>

Stays(t, calls) == At(t, "event") /\ Event(t, calls, heap[Cell(t)].ch[th[t].at.slot].state)

StartChannel(t) ==
  IF At(t, "event") /\ Taken(t) THEN Event(t, {"start_channel"}, "ACTIVE")
                                ELSE Stays(t, {"start_channel"})

StopChannel(t) ==
  IF At(t, "event") /\ Taken(t) THEN Event(t, {"stop_channel"}, "STOPPED")
                                ELSE Stays(t, {"stop_channel"})

SuperBufEvent(t) == Stays(t, SuperBufCalls)
ModeEvent(t) == Stays(t, ModeCalls)
StreamEvent(t) == Stays(t, StreamCalls)
StreamParmEvent(t) == Stays(t, StreamParmCalls)

\* A mapping the channel is in no state for: success, and nothing mapped.
StreamMapIgnored(t) == At(t, "event") /\ ~Taken(t) /\ Stays(t, StreamMapCalls)

DelChannel(t) ==
  /\ At(t, "event") /\ Call(t) = "delete_channel"
  /\ heap' = [heap EXCEPT ![Cell(t)].ch[th[t].at.slot] = NoChannel]
  /\ th' = [Returns(t) EXCEPT ![t].ch = NoHandle]
  /\ UNCHANGED <<camObj, intfLock, history, used>>

-----------------------------------------------------------------------------
(* Mapping a buffer: one message at a time, and one place for the answer.   *)

Sends(t) ==
  \/ At(t, "locked") /\ Call(t) \in MapCalls
  \/ At(t, "event") /\ Call(t) \in StreamMapCalls /\ Taken(t)

\* The locks a mapping call gives back when it returns.
Released(t, o) ==
  LET unlocked == [heap EXCEPT ![o].msgLock = None, ![o].rcvd = 0] IN
    IF Call(t) \in MapCalls
      THEN [unlocked EXCEPT ![o].lock = None]
      ELSE [unlocked EXCEPT ![o].ch[th[t].at.slot].lock = None]

\* A refused message whose caller goes home with its locks.
SendMsgKeeps(t) ==
  /\ Sends(t) /\ heap[Cell(t)].msgLock = None
  /\ \/ /\ used.tags < MaxTags
        /\ used' = [used EXCEPT !.tags = @ + 1]
        /\ heap' = [heap EXCEPT ![Cell(t)].msgLock = t,
                                ![Cell(t)].asked = Append(@, used.tags + 1)]
        /\ th' = [Goes(t, "wait") EXCEPT ![t].at.tag = used.tags + 1]
     \/ th' = Returns(t) /\ UNCHANGED <<heap, used>>
  /\ UNCHANGED <<camObj, intfLock, history>>

\* The message is sent, or the socket refuses it.
SendMsg(t) ==
  /\ Sends(t) /\ heap[Cell(t)].msgLock = None
  /\ \/ /\ used.tags < MaxTags
        /\ used' = [used EXCEPT !.tags = @ + 1]
        /\ heap' = [heap EXCEPT ![Cell(t)].msgLock = t,
                                ![Cell(t)].asked = Append(@, used.tags + 1)]
        /\ th' = [Goes(t, "wait") EXCEPT ![t].at.tag = used.tags + 1]
     \/ /\ heap' = [Released(t, Cell(t)) EXCEPT ![Cell(t)].rcvd = heap[Cell(t)].rcvd]
        /\ th' = Returns(t)
        /\ UNCHANGED used
  /\ UNCHANGED <<camObj, intfLock, history>>

\* mm_camera_util_wait_for_event: whatever answer is there is taken.
WaitForEvent(t) ==
  /\ At(t, "wait") /\ heap[Cell(t)].rcvd # 0
  /\ th' = [Returns(t) EXCEPT ![t].got = [tag |-> th[t].at.tag, by |-> heap[Cell(t)].rcvd,
                                           late |-> heap[Cell(t)].late]]
  /\ heap' = Released(t, Cell(t))
  /\ UNCHANGED <<camObj, intfLock, history, used>>

\* The wait ends after WAIT_EVENT_TIMEOUT, and an answer that came at that
\* moment is cleared with it.
WaitTimesOut(t) ==
  /\ At(t, "wait")
  /\ th' = [Returns(t) EXCEPT ![t].got = [tag |-> th[t].at.tag, by |-> 0, late |-> TRUE]]
  /\ heap' = [Released(t, Cell(t)) EXCEPT ![Cell(t)].late = TRUE]
  /\ UNCHANGED <<camObj, intfLock, history, used>>

\* mm_camera_event_notify on the poll thread: the daemon's answer ...
MapDone(o) ==
  /\ heap[o].asked # <<>> /\ heap[o].polled
  /\ heap' = [heap EXCEPT ![o].rcvd = Head(heap[o].asked), ![o].asked = Tail(@)]
  /\ UNCHANGED <<camObj, intfLock, history, th, used>>

\* ... or an event for the HAL, queued for the dispatch thread.
EventNotify(o) ==
  /\ heap[o].polled /\ heap[o].evq < 1
  /\ heap' = [heap EXCEPT ![o].evq = @ + 1]
  /\ UNCHANGED <<camObj, intfLock, history, th, used>>

DispatchAppEvent(o) ==
  /\ heap[o].evq > 0
  /\ heap' = [heap EXCEPT ![o].evq = @ - 1]
  /\ UNCHANGED <<camObj, intfLock, history, th, used>>

-----------------------------------------------------------------------------
(* The last reference: the event source first, then the threads, then the   *)
(* memory.                                                                  *)

EvtUnsubscribe(t) ==
  /\ At(t, "locked") /\ Call(t) = "close_camera"
  /\ heap' = [heap EXCEPT ![Cell(t)].polled = FALSE]
  /\ th' = Goes(t, "closing")
  /\ UNCHANGED <<camObj, intfLock, history, used>>

\* The dispatch thread handles what was queued before it sees EXIT.
CloseDone(t) ==
  /\ At(t, "closing") /\ heap[Cell(t)].evq = 0
  /\ heap' = [o \in DOMAIN heap \ {Cell(t)} |-> heap[o]]
  /\ th' = Returns(t)
  /\ UNCHANGED <<camObj, intfLock, history, used>>

ThreadStep(t) ==
  \/ LockCamera(t) \/ Parm(t) \/ RegisterEventNotify(t) \/ AddChannel(t)
  \/ FindChannel(t) \/ QBuf(t) \/ QBufDone(t) \/ StartChannel(t) \/ StopChannel(t)
  \/ SuperBufEvent(t) \/ ModeEvent(t) \/ StreamEvent(t) \/ StreamParmEvent(t)
  \/ StreamMapIgnored(t) \/ DelChannel(t)
  \/ SendMsg(t) \/ WaitForEvent(t) \/ WaitTimesOut(t)
  \/ EvtUnsubscribe(t) \/ CloseDone(t)

Next ==
  \/ \E t \in Threads, idx \in CamIdx : CameraOpen(t, idx)
  \/ \E t \in Threads, call \in Calls, h \in {NoHandle} \cup {th[u].ch : u \in Threads} :
       Enter(t, call, h)
  \/ \E t \in Threads : ThreadStep(t)
  \/ \E o \in DOMAIN heap : MapDone(o) \/ EventNotify(o) \/ DispatchAppEvent(o)

\* Threads run; the dispatch thread handles its queue.
Fairness ==
  /\ \A t \in Threads : WF_vars(ThreadStep(t))
  /\ \A o \in Cells : WF_vars(o \in DOMAIN heap /\ DispatchAppEvent(o))

Spec == Init /\ [][Next]_vars /\ Fairness

-----------------------------------------------------------------------------

TypeOK ==
  /\ camObj \in [CamIdx -> Cells \cup {None}]
  /\ DOMAIN heap \subseteq Cells
  /\ intfLock \in Threads \cup {None}
  /\ history \in 0..(W - 1)
  /\ \A t \in Threads :
       th[t].at.pc \in {"out", "found", "locked", "event", "bare", "wait", "closing"}
  /\ used.tags \in 0..MaxTags /\ used.handles \in 0..MaxHandles

\* No call works on a camera object that mm_camera_intf_close has freed: the
\* locks are taken hand over hand, and a channel's user has the camera open.
NoUseAfterFree == \A t \in Threads : ~Out(t) => Cell(t) \in DOMAIN heap

\* Until a wait has timed out on the object, a mapping call ends with the
\* answer to its own request, whoever else maps buffers meanwhile.
OwnAnswer ==
  \A t \in Threads : th[t].got.late \/ th[t].got.by = th[t].got.tag

\* The references of an object are its openers, and the table forgets it with
\* the last of them.
RefsAreOpeners ==
  \A o \in DOMAIN heap :
    /\ heap[o].refs > 0 <=> \E i \in CamIdx : camObj[i] = o
    /\ heap[o].refs > 0 =>
         heap[o].refs = Cardinality({t \in Threads : th[t].open /\ th[t].cam = heap[o].hdl})

\* Together: what the callers of a camera object rely on, in every state.
CameraSafe == TypeOK /\ NoUseAfterFree /\ OwnAnswer /\ RefsAreOpeners

\* Every call returns, whatever the daemon does, and its thread then holds no
\* lock of the interface.
CallsReturn == \A t \in Threads : ~Out(t) ~> Out(t)

=============================================================================
