------------------------------- MODULE Capture -------------------------------
(***************************************************************************)
(* How the HAL makes its channels (QCamera2HWI.cpp): those of a preview, of *)
(* a recording and of the ZSL queue, and those of a picture that is taken   *)
(* without it.  The buffers of the latter's streams are allocated, and the  *)
(* postprocessor is started, by the deferred-work thread, while the thread  *)
(* of the state machine goes on building and the capture channel's callback *)
(* brings the first frames.                                                 *)
(***************************************************************************)
EXTENDS Naturals, Sequences, FiniteSets, SequencesExt

CONSTANTS
  Modes,      \* the previews looked at: "photo", "video", "zsl"
  RawYuv,     \* persist.camera.raw_yuv: the picture's channel has a raw stream too
  MaxJobs,    \* MAX_ONGOING_JOBS
  MaxFailures, \* bound: failures
  MaxTakes,   \* bound: pictures
  NoJob       \* what stands in the place of a job

Chs == {"PREVIEW", "VIDEO", "SNAPSHOT", "ZSL", "CAPTURE", "RAW"}
Previews == {"PREVIEW", "VIDEO", "SNAPSHOT", "ZSL"}
Pictures == {"CAPTURE", "RAW"}
Jobs == {"METADATA", "POSTVIEW", "SNAPSHOT", "RAW", "REPROC"}

CaptureAssumption ==
  /\ Modes \subseteq {"photo", "video", "zsl"} /\ RawYuv \in BOOLEAN
  /\ MaxJobs \in Nat \ {0} /\ MaxFailures \in Nat /\ MaxTakes \in Nat
  /\ NoJob \notin [job : Jobs, ch : Chs, id : 1..MaxJobs]

VARIABLES
  chan,     \* "none"; "built": being built; "made"; "on": started
  mode,     \* the parameters' ZSL mode and recording hint
  toBuild,  \* the channels preparePreview has still to add
  toAdd,    \* the streams the channel being built still wants
  streams,  \* the streams of each channel
  filled,   \* those of them that have buffers
  hwi,      \* where the thread of the state machine is
  ongoing,  \* mDeffOngoingJobs
  queue,    \* mCmdQueue
  dw,       \* the job the deferred-work thread works on
  id,       \* mMetadataJob, mPostviewJob, ...: what is waited for; 0 is -1
  asleep,   \* the threads that sleep in mDeffCond.wait
  left,     \* the jobs under way whose channel was given up without waiting for them
  cb,       \* the capture channel's callback: "idle", "waits", "passes"
  pp,       \* the postprocessor runs
  takes, capFails  \* (bounds)

capVars == <<chan, mode, toBuild, toAdd, streams, filled, hwi, ongoing, queue, dw, id, asleep, left, cb, pp, takes, capFails>>

capInit ==
  /\ chan = [c \in Chs |-> "none"] /\ mode \in Modes /\ toBuild = <<>> /\ toAdd = <<>>
  /\ streams = [c \in Chs |-> {}] /\ filled = [c \in Chs |-> {}]
  /\ hwi = [pc |-> "idle", waits |-> <<>>, then |-> "idle"]
  /\ ongoing = [j \in 1..MaxJobs |-> FALSE] /\ queue = <<>> /\ dw = NoJob
  /\ id = [j \in Jobs |-> 0] /\ asleep = {} /\ left = {} /\ cb = "idle" /\ pp = FALSE
  /\ takes = 0 /\ capFails = 0

Fail == capFails < MaxFailures /\ capFails' = capFails + 1
Goes(pc) == hwi' = [pc |-> pc, waits |-> <<>>, then |-> "idle"]
\* waitDefferedWork for each of the jobs, then on
WaitsFor(jobs, pc) == hwi' = [pc |-> "wait", waits |-> jobs, then |-> pc]

DelChannel(S) ==
  /\ chan' = [c \in Chs |-> IF c \in S THEN "none" ELSE chan[c]]
  /\ streams' = [c \in Chs |-> IF c \in S THEN {} ELSE streams[c]]
  /\ filled' = [c \in Chs |-> IF c \in S THEN {} ELSE filled[c]]

Channels == <<chan, streams, filled>>
Plan == <<mode, toBuild, toAdd>>
Deferred == <<ongoing, queue, dw, id, asleep, left>>

\* The jobs queued or worked on, and those of them that somebody still answers for.
UnderWay == ToSet(queue) \cup (IF dw = NoJob THEN {} ELSE {dw})
Working == UnderWay \ left

-----------------------------------------------------------------------------
(* The deferred work.                                                       *)

FreeSlots == {k \in 1..MaxJobs : ~ongoing[k]}

\* queueDefferedWork; the id is that of the lowest slot, or none when all are taken.
QueueDefferedWork(job, c) ==
  \/ /\ FreeSlots = {} /\ id' = [id EXCEPT ![job] = 0] /\ UNCHANGED <<ongoing, queue>>
  \/ \E k \in FreeSlots :
       /\ \A l \in FreeSlots : k <= l
       /\ ongoing' = [ongoing EXCEPT ![k] = TRUE]
       /\ queue' = Append(queue, [job |-> job, ch |-> c, id |-> k])
       /\ id' = [id EXCEPT ![job] = k]

\* (mutant: one waiter is woken, whatever the job)
WakesOne(job) == IF asleep = {} THEN {{}} ELSE {asleep \ {t} : t \in asleep}

\* mDeffCond.signal after an allocation, broadcast after the postprocessor's start.
Wakes(job) ==
  IF job = "REPROC" THEN {{}}
  ELSE IF asleep = {} THEN {{}} ELSE {asleep \ {t} : t \in asleep}

DwTakes ==
  /\ dw = NoJob /\ queue # <<>>
  /\ dw' = Head(queue) /\ queue' = Tail(queue)
  /\ UNCHANGED <<Channels, Plan, hwi, ongoing, id, asleep, left, cb, pp, takes, capFails>>

\* QCameraStream::allocateBuffers: all of a stream's buffers or none.
AllocateBuffers(c, stream) == filled' = [filled EXCEPT ![c] = @ \cup {stream}]

\* defferedWorkRoutine: a failure is logged, and the app told of the
\* postprocessor's, but the job is over all the same.  A job that was left behind
\* writes to a channel that is gone: what that does to the memory is not followed.
DwDone ==
  /\ dw # NoJob /\ dw' = NoJob /\ left' = left \ {dw}
  /\ ongoing' = [ongoing EXCEPT ![dw.id] = FALSE]
  /\ asleep' \in Wakes(dw.job)
  /\ \/ /\ IF dw.job = "REPROC" THEN pp' = TRUE /\ UNCHANGED filled
           ELSE /\ IF dw \in left THEN UNCHANGED filled ELSE AllocateBuffers(dw.ch, dw.job)
                /\ UNCHANGED pp
        /\ UNCHANGED capFails
     \/ Fail /\ UNCHANGED <<pp, filled>>
  /\ UNCHANGED <<chan, streams, Plan, hwi, queue, id, cb, takes>>

Busy(job) == id[job] > 0 /\ ongoing[id[job]]

\* waitDefferedWork on the state machine's thread: on to the next job, or asleep.
SmWaits ==
  /\ hwi.pc = "wait" /\ "sm" \notin asleep
  /\ IF hwi.waits = <<>> THEN Goes(hwi.then) /\ UNCHANGED asleep
     ELSE IF Busy(Head(hwi.waits)) THEN asleep' = asleep \cup {"sm"} /\ UNCHANGED hwi
     ELSE hwi' = [hwi EXCEPT !.waits = Tail(@)] /\ UNCHANGED asleep
  /\ UNCHANGED <<Channels, Plan, ongoing, queue, dw, id, left, cb, pp, takes, capFails>>

-----------------------------------------------------------------------------
(* Building a channel.                                                      *)

Rest == <<cb, pp, takes>>
RawStream == IF RawYuv THEN <<"RAW">> ELSE <<>>

\* The streams each add...Channel adds, in its order.
PreviewChannel  == <<"METADATA", "PREVIEW">>
VideoChannel    == <<"VIDEO">>
SnapshotChannel == <<"SNAPSHOT">>
ZSLChannel      == <<"METADATA", "PREVIEW", "SNAPSHOT">> \o RawStream
CaptureChannel  == <<"METADATA", "POSTVIEW", "SNAPSHOT">> \o RawStream
RawChannel      == <<"METADATA", "RAW">>

Wanted(c) ==
  CASE c = "PREVIEW" -> PreviewChannel [] c = "VIDEO"   -> VideoChannel
    [] c = "SNAPSHOT" -> SnapshotChannel [] c = "ZSL"     -> ZSLChannel
    [] c = "CAPTURE" -> CaptureChannel [] c = "RAW"     -> RawChannel

\* A preview's streams get their buffers when it starts, the photo preview's
\* metadata stream's excepted; a picture's streams get them before.
Deffered(stream) == mode = "photo" /\ stream \in {"METADATA", "POSTVIEW", "SNAPSHOT", "RAW"}

Builds(c) == chan' = [chan EXCEPT ![c] = "built"] /\ toAdd' = Wanted(c) /\ Goes("add")

\* preparePreview: the channels one after the other (addChannel).
PreparePreview ==
  /\ hwi.pc = "idle" /\ \A c \in Chs : chan[c] = "none"
  /\ toBuild' = CASE mode = "zsl"   -> <<>>
                  [] mode = "video" -> <<"VIDEO", "PREVIEW">>
                  [] mode = "photo" -> <<>>
  /\ Builds(CASE mode = "zsl" -> "ZSL" [] mode = "video" -> "SNAPSHOT" [] mode = "photo" -> "PREVIEW")
  /\ UNCHANGED <<mode, streams, filled, Deferred, Rest, capFails>>

\* takePicture: addCaptureChannel begins while the preview still runs; for a raw
\* picture the preview is stopped first.
TakePicture(c) ==
  /\ hwi.pc = "idle" /\ mode = "photo" /\ chan["PREVIEW"] = "on" /\ takes < MaxTakes
  /\ takes' = takes + 1
  /\ toAdd' = Wanted(c) /\ Goes("add")
  /\ IF c = "CAPTURE" THEN chan' = [chan EXCEPT ![c] = "built"] /\ UNCHANGED <<streams, filled>>
     ELSE /\ chan' = [chan EXCEPT ![c] = "built", !["PREVIEW"] = "none"]
          /\ streams' = [streams EXCEPT !["PREVIEW"] = {}]
          /\ filled' = [filled EXCEPT !["PREVIEW"] = {}]
  /\ UNCHANGED <<mode, toBuild, Deferred, cb, pp, capFails>>

Built == CHOOSE c \in Chs : chan[c] = "built"

\* The streams whose job is queued with them, and whether there is no slot for it.
NeedsJob(stream) == Deffered(stream) /\ stream # "POSTVIEW"
Full == NeedsJob(Head(toAdd)) /\ FreeSlots = {}

\* addStreamToChannel: the metadata, snapshot and raw streams' buffers are left
\* to the deferred-work thread, the postview's too, but later.  addRawChannel waits
\* after each stream.
AddStream ==
  /\ hwi.pc = "add" /\ toAdd # <<>> /\ ~Full
  /\ streams' = [streams EXCEPT ![Built] = @ \cup {Head(toAdd)}]
  /\ toAdd' = Tail(toAdd)
  /\ IF NeedsJob(Head(toAdd))
       THEN QueueDefferedWork(Head(toAdd), Built) ELSE UNCHANGED <<ongoing, queue, id>>
  /\ IF Built = "RAW" THEN WaitsFor(<<Head(toAdd)>>, "add") ELSE UNCHANGED hwi
  /\ UNCHANGED <<chan, mode, toBuild, filled, dw, asleep, left, Rest, capFails>>

\* (mutant: the jobs are not waited for)
AddStreamFailsAtOnce ==
  /\ hwi.pc = "add" /\ toAdd # <<>> /\ Fail
  /\ toAdd' = <<>> /\ UNCHANGED <<mode, toBuild>>
  /\ Goes("addfailed")
  /\ UNCHANGED <<Channels, Deferred, Rest>>

\* The stream is refused, or there is no slot for its job: before the channel is
\* deleted every allocation is waited for.
AddStreamFails ==
  /\ hwi.pc = "add" /\ toAdd # <<>>
  /\ (Full /\ UNCHANGED capFails) \/ Fail
  /\ toAdd' = <<>> /\ UNCHANGED <<mode, toBuild>>
  /\ WaitsFor(<<"METADATA", "POSTVIEW", "SNAPSHOT", "RAW">>, "addfailed")
  /\ UNCHANGED <<Channels, Deferred, Rest>>

\* There is no memory for the stream's information: no allocation is waited for, and
\* the jobs under way are left with a channel that goes.
NoStreamInfo ==
  /\ hwi.pc = "add" /\ toAdd # <<>> /\ Fail
  /\ toAdd' = <<>> /\ UNCHANGED <<mode, toBuild>>
  /\ left' = UnderWay /\ Goes("addfailed")
  /\ UNCHANGED <<Channels, ongoing, queue, dw, id, asleep, Rest>>

\* The new channel is deleted; preparePreview deletes those it has made before it,
\* takePicture has stopped and deleted the preview.
AddFailed ==
  /\ hwi.pc = "addfailed"
  /\ DelChannel({Built} \cup Previews)
  /\ toBuild' = <<>>
  /\ Goes("idle")
  /\ UNCHANGED <<mode, toAdd, Deferred, Rest, capFails>>

\* All streams are there.  preparePreview goes on with the next channel, and waits
\* for its metadata's buffers in the end; takePicture stops and deletes the
\* preview's channel and waits for the allocations.
Added ==
  /\ hwi.pc = "add" /\ toAdd = <<>>
  /\ IF Built = "CAPTURE"
       THEN /\ chan' = [chan EXCEPT !["PREVIEW"] = "none", !["CAPTURE"] = "made"]
            /\ streams' = [streams EXCEPT !["PREVIEW"] = {}]
            /\ filled' = [filled EXCEPT !["PREVIEW"] = {}]
            /\ WaitsFor(<<"SNAPSHOT", "METADATA", "RAW">>, "postview")
            /\ UNCHANGED Plan
     ELSE IF toBuild # <<>>
       THEN /\ chan' = [chan EXCEPT ![Built] = "made", ![Head(toBuild)] = "built"]
            /\ toAdd' = Wanted(Head(toBuild)) /\ toBuild' = Tail(toBuild)
            /\ UNCHANGED <<streams, filled, mode, hwi>>
     ELSE /\ chan' = [chan EXCEPT ![Built] = "made"] /\ UNCHANGED <<streams, filled, Plan>>
          /\ IF Built = "RAW" THEN Goes("ppstart")
             ELSE IF mode = "photo" THEN WaitsFor(<<"METADATA">>, "start") ELSE Goes("start")
  /\ UNCHANGED <<Deferred, Rest, capFails>>

\* A raw picture's postprocessor is started at once.
PpStart ==
  /\ hwi.pc = "ppstart"
  /\ \/ pp' = TRUE /\ Goes("start") /\ UNCHANGED <<Channels, capFails>>
     \/ Fail /\ DelChannel({"RAW"}) /\ Goes("idle") /\ UNCHANGED pp
  /\ UNCHANGED <<Plan, Deferred, cb, takes>>

\* The postview's buffers are allocated last, and waited for; without a job
\* takePicture fails and leaves the channel.
Postview ==
  /\ hwi.pc = "postview"
  /\ QueueDefferedWork("POSTVIEW", "CAPTURE")
  /\ IF FreeSlots = {} THEN Goes("idle") ELSE WaitsFor(<<"POSTVIEW">>, "reproc")
  /\ UNCHANGED <<Channels, Plan, dw, asleep, left, Rest, capFails>>

\* config, which may fail, then the postprocessor's start is left to the thread.
Reproc ==
  /\ hwi.pc = "reproc"
  /\ \/ /\ QueueDefferedWork("REPROC", "CAPTURE") /\ Goes("start")
        /\ UNCHANGED <<Channels, capFails>>
     \/ /\ Fail /\ DelChannel({"CAPTURE"}) /\ Goes("idle")
        /\ UNCHANGED <<ongoing, queue, id>>
  /\ UNCHANGED <<Plan, dw, asleep, left, Rest>>

\* get_bufs_deffered refuses when a stream was to have its buffers by now and has
\* none; the others get them now (get_bufs).
Ready(c) == \A stream \in streams[c] : Deffered(stream) => stream \in filled[c]

\* The channel that is started first: startPreview's or takePicture's.
Made == CHOOSE c \in {"PREVIEW", "ZSL", "CAPTURE", "RAW"} : chan[c] = "made"

Start ==
  /\ hwi.pc = "start"
  /\ \/ /\ Ready(Made) /\ chan' = [chan EXCEPT ![Made] = "on"]
        /\ Goes("idle") /\ UNCHANGED capFails
     \/ /\ IF Ready(Made) THEN Fail ELSE UNCHANGED capFails
        /\ IF Made = "CAPTURE" THEN WaitsFor(<<"REPROC">>, "startfailed") ELSE Goes("startfailed")
        /\ UNCHANGED chan
  /\ UNCHANGED <<streams, filled, Plan, Deferred, Rest>>

\* takePicture deletes the channel; the postprocessor is stopped for a raw picture
\* and left running for the other (QCamera2HWI.cpp:3076).  A preview's channels are
\* all deleted (unpreparePreview).
StartFailed ==
  /\ hwi.pc = "startfailed"
  /\ DelChannel(IF Made \in Pictures THEN {Made} ELSE Previews) /\ Goes("idle")
  /\ pp' = IF Made = "RAW" THEN FALSE ELSE pp
  /\ UNCHANGED <<Plan, Deferred, cb, takes, capFails>>

\* stopPreview, after which the app may change the mode.
StopPreview ==
  /\ hwi.pc = "idle" /\ \E c \in Previews : chan[c] = "on"
  /\ DelChannel(Previews)
  /\ mode' \in Modes
  /\ UNCHANGED <<toBuild, toAdd, hwi, Deferred, Rest, capFails>>

-----------------------------------------------------------------------------
(* A frame of the picture, and the end of the picture.                      *)

\* capture_channel_cb_routine
CaptureCb ==
  /\ chan["CAPTURE"] = "on" /\ hwi.pc # "stop" /\ cb = "idle"
  /\ cb' = "waits"
  /\ UNCHANGED <<Channels, Plan, hwi, Deferred, pp, takes, capFails>>

CbPasses ==
  /\ cb = "waits" /\ "cb" \notin asleep /\ ~Busy("REPROC")
  /\ cb' = "passes"
  /\ UNCHANGED <<Channels, Plan, hwi, Deferred, pp, takes, capFails>>

CbSleeps ==
  /\ cb = "waits" /\ "cb" \notin asleep /\ Busy("REPROC")
  /\ asleep' = asleep \cup {"cb"}
  /\ UNCHANGED <<Channels, Plan, hwi, ongoing, queue, dw, id, left, cb, pp, takes, capFails>>

\* processData
CaptureCbReturns ==
  /\ cb = "passes" /\ cb' = "idle"
  /\ UNCHANGED <<Channels, Plan, hwi, Deferred, pp, takes, capFails>>

\* cancelPicture, or stopCaptureChannel when the last picture is there: it waits
\* for the postprocessor's start before it stops it.
CancelPicture ==
  /\ hwi.pc = "idle" /\ \E c \in Pictures : chan[c] = "on"
  /\ WaitsFor(<<"REPROC">>, "ppstop")
  /\ UNCHANGED <<Channels, Plan, Deferred, Rest, capFails>>

PpStop ==
  /\ hwi.pc = "ppstop" /\ pp' = FALSE /\ Goes("stop")
  /\ UNCHANGED <<Channels, Plan, Deferred, cb, takes, capFails>>

\* stopChannel waits for the channel's callback thread; then delChannel.
StopCapture ==
  /\ hwi.pc = "stop" /\ cb = "idle"
  /\ DelChannel(Pictures) /\ Goes("idle")
  /\ UNCHANGED <<Plan, Deferred, Rest, capFails>>

-----------------------------------------------------------------------------
SmGoesOn == \/ SmWaits \/ AddStream \/ AddStreamFails \/ NoStreamInfo \/ AddFailed \/ Added \/ Postview
            \/ Reproc \/ PpStart \/ Start \/ StartFailed \/ PpStop \/ StopCapture
DwSteps == DwTakes \/ DwDone
CbGoesOn == CbPasses \/ CbSleeps \/ CaptureCbReturns

capNext == \/ PreparePreview \/ (\E c \in Pictures : TakePicture(c)) \/ StopPreview \/ CancelPicture
        \/ SmGoesOn \/ DwSteps \/ CaptureCb \/ CbGoesOn

\* The three threads go on whenever they can.
capFairness == WF_capVars(SmGoesOn) /\ WF_capVars(DwSteps) /\ WF_capVars(CbGoesOn)

capSpec == capInit /\ [][capNext]_capVars /\ capFairness

-----------------------------------------------------------------------------
(* Properties.                                                              *)

capTypeOK ==
  /\ \A c \in Chs : chan[c] \in {"none", "built", "made", "on"} /\ filled[c] \subseteq streams[c]
  /\ mode \in Modes
  /\ \A j \in Jobs : id[j] \in 0..MaxJobs
  /\ asleep \subseteq {"sm", "cb"} /\ left \subseteq UnderWay /\ cb \in {"idle", "waits", "passes"} /\ pp \in BOOLEAN

\* The deferred-work thread never works for a channel that was deleted: every way
\* out of building, starting and stopping a channel waits for what it has queued
\* (addStreamToChannel, takePicture, cancelPicture), but for the one without memory
\* for a stream's information, which leaves its jobs behind.
NoWorkForDeleted == \A w \in Working : chan[w.ch] # "none" /\ (w.job = "REPROC" \/ w.job \in streams[w.ch])

\* A frame of the picture reaches the postprocessor only after its start, and
\* nothing starts it behind the back of the one that stops it.
FrameMeetsPostproc == cb = "passes" \/ hwi.pc \in {"ppstop", "stop"} => \A w \in Working : w.job # "REPROC"

\* The deferred-work thread works for channels that are there, before the frames come,
\* the jobs left behind excepted.
DeferredWorkInTime == capTypeOK /\ NoWorkForDeleted /\ FrameMeetsPostproc

\* Whoever waits for a deferred job is woken: no request of the app and no frame
\* hangs, though one condition variable serves all jobs and all waiters.
WaitsEnd == /\ (hwi.pc # "idle") ~> (hwi.pc = "idle")
            /\ (cb # "idle") ~> (cb = "idle")
=============================================================================
