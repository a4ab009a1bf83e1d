--------------------------- MODULE HalStateMachine ---------------------------
(***************************************************************************)
(* QCameraStateMachine: the state in which the camera HAL answers its      *)
(* APIs, together with what the handlers do to the hardware interface      *)
(* (QCamera2HardwareInterface): the channels it makes, starts, stops and   *)
(* deletes, the parameters that choose between them, the postprocessor.    *)
(*                                                                         *)
(* One thread runs every handler, so a handler is one step.  Here the      *)
(* environment may hand the machine any API or event in any state;         *)
(* HalApi.tla adds the queues the events really come from.                 *)
(***************************************************************************)
EXTENDS Naturals, Sequences

CONSTANTS
    Faulty,         \* what may fail: channels, the names in Operations
    IdleChanges,    \* what one SET_PARAMS may change while nothing is captured or recorded
    BusyChanges,    \* and while something is: sets of "zsl", "hint", "restart"
    Longshot,       \* whether the app sends CAMERA_CMD_LONGSHOT_ON and _OFF
    Setups          \* the setups the camera may have, see SetupType

VARIABLES
    m_state,        \* QCameraStateMachine::m_state
    hw,             \* QCamera2HardwareInterface, see HwType
    answer          \* what the last handler signalled: "API", "EVT" or "none"

smVars == <<m_state, hw, answer>>

Channels == {"ZSL", "PREVIEW", "VIDEO", "SNAPSHOT", "CAPTURE", "RAW"}

(* postprocessor start, a channel's takePicture, startAdvancedCapture,     *)
(* queueing the allocation of postview buffers, commitSetBatch,            *)
(* prepareHardwareForSnapshot, pthread_create.                             *)
Operations == {"POSTPROC", "PICTURE", "ADVANCED", "POSTVIEW", "COMMIT", "PREPARE", "THREAD"}

(* ZSL mode, the recording hint, and any other that restarts the preview *)
Settings == {"zsl", "hint", "restart"}

(* What the build, the properties and the app fix before the camera opens; *)
(* and whether this is a camera on which nothing fails, with an app that   *)
(* changes parameters only while nothing is captured or recorded and sends *)
(* no longshot commands.                                                   *)
SetupType ==
    [calm      : BOOLEAN,    \* nothing fails, see Try, Payloads and Offered
     zsl       : BOOLEAN,    \* DEFAULT_ZSL_MODE_ON
     raw       : BOOLEAN,    \* the picture format is neither JPEG nor NV16/NV21
     restart   : BOOLEAN,    \* persist.camera.feature.restart
     video4k   : BOOLEAN,    \* 4k2k video: no SNAPSHOT channel while recording
     snapshots : Nat \ {0}]  \* pictures per shutter

ASSUME HalAssumption ==
    /\ Faulty \subseteq Channels \cup Operations
    /\ IdleChanges \subseteq SUBSET Settings /\ BusyChanges \subseteq SUBSET Settings
    /\ Longshot \in BOOLEAN
    /\ Setups \subseteq SetupType

States == {"PREVIEW_STOPPED", "PREVIEW_READY", "PREVIEWING", "PREPARE_SNAPSHOT",
           "PIC_TAKING", "RECORDING", "VIDEO_PIC_TAKING", "PREVIEW_PIC_TAKING"}

(* The requests that change the machine or its hardware in some state.     *)
(* "OTHER" stands for the APIs that are answered in every state and change *)
(* neither (callbacks, message masks, queries, focus, dump, the remaining  *)
(* commands, the thermal notice).                                          *)
Apis == {"SET_PREVIEW_WINDOW", "SET_PARAMS", "START_PREVIEW",
         "START_NODISPLAY_PREVIEW", "STOP_PREVIEW", "START_RECORDING",
         "STOP_RECORDING", "PREPARE_SNAPSHOT", "TAKE_PICTURE", "CANCEL_PICTURE",
         "LONGSHOT_ON", "LONGSHOT_OFF", "RELEASE", "REG_FACE_IMAGE", "OTHER"}
(* Posted without a caller that waits for the answer. *)
Notices == {"SNAPSHOT_DONE", "PREP_SNAPSHOT_DONE", "STOP_CAPTURE_CHANNEL"}

HwType ==
    [setup    : Setups,
     ch       : [Channels -> {"null", "made", "started"}],
     zsl      : BOOLEAN,    \* m_bZslMode
     zslNew   : BOOLEAN,    \* m_bZslMode_new, and the KEY_QC_ZSL string
     hint     : BOOLEAN,    \* m_bRecordingHint
     hintNew  : BOOLEAN,    \* m_bRecordingHint_new
     hintKey  : BOOLEAN,    \* the KEY_RECORDING_HINT string
     longshot : BOOLEAN,    \* mLongshotEnabled
     window   : BOOLEAN,    \* mPreviewWindow != NULL
     live     : {"none", "running", "over"},   \* mLiveSnapshotThread
     \* the last step: its rc, what it told the callback notifier, and
     \* whether it posted SNAPSHOT_DONE to its own event queue
     ok       : BOOLEAN,
     notified : {<<>>, <<"START">>, <<"STOP">>, <<"START", "STOP">>},
     posted   : BOOLEAN]

-----------------------------------------------------------------------------
(* The hardware interface's operations.  Each maps a hardware state to the *)
(* set of states it may leave, hw.ok being the rc it returns.              *)

isCaptureRunning ==
    m_state \in {"PIC_TAKING", "VIDEO_PIC_TAKING", "PREVIEW_PIC_TAKING"}

Failed(h) == [h EXCEPT !.ok = FALSE]
Try(op, h) == IF op \in Faulty /\ ~h.setup.calm THEN {h, Failed(h)} ELSE {h}

(* `if (rc == NO_ERROR) rc = Op()'. *)
Then(S, Op(_)) ==
    {h \in S : ~h.ok} \cup UNION {Op(h) : h \in {g \in S : g.ok}}
(* `if (rc != NO_ERROR) Undo()'. *)
Unless(S, Undo(_)) == {h \in S : h.ok} \cup {Undo(h) : h \in {g \in S : ~g.ok}}

delChannel(c, h) == [h EXCEPT !.ch[c] = "null"]
stopChannel(c, h) ==
    [h EXCEPT !.ch[c] = IF @ = "started" THEN "made" ELSE @]
(* An existing channel of the type is deleted first; a failure leaves none. *)
addChannel(c, h) ==
    {IF g.ok THEN [g EXCEPT !.ch[c] = "made"] ELSE delChannel(c, g) :
        g \in Try(c, h)}
startChannel(c, h) ==
    IF h.ch[c] = "null"
    THEN {Failed(h)}
    ELSE {IF g.ok THEN [g EXCEPT !.ch[c] = "started"] ELSE g : g \in Try(c, h)}

(* Mutant: the notifier is not told. *)
PostprocStartUntold(h) == Try("POSTPROC", h)
PostprocStart(h) ==
    {IF g.ok THEN [g EXCEPT !.notified = Append(@, "START")] ELSE g :
        g \in Try("POSTPROC", h)}
PostprocStop(h) == [h EXCEPT !.notified = Append(@, "STOP")]

cancelPicture(h) ==
    LET stopped == PostprocStop(h)
    IN  IF h.zsl THEN stopped
        ELSE delChannel(IF h.setup.raw THEN "RAW" ELSE "CAPTURE", stopped)

LongshotOff(h) ==
    LET inBurst == h.longshot /\ isCaptureRunning
        g == IF inBurst THEN [cancelPicture(h) EXCEPT !.posted = TRUE] ELSE h
    IN  [g EXCEPT !.longshot = FALSE]

ZslPreview(h) == h.zsl /\ ~h.hint

PrepareSnapshotChannel(h) ==
    IF h.setup.video4k THEN {h} ELSE addChannel("SNAPSHOT", h)
PrepareVideoChannel(h) ==
    Unless(addChannel("VIDEO", h), LAMBDA g : delChannel("SNAPSHOT", g))
PreparePreviewChannel(h) ==
    Unless(addChannel("PREVIEW", h),
           LAMBDA g : IF g.hint THEN delChannel("VIDEO", delChannel("SNAPSHOT", g))
                      ELSE g)
preparePreview(h) ==
    IF ZslPreview(h) THEN addChannel("ZSL", h)
    ELSE IF ~h.hint THEN PreparePreviewChannel(h)
    ELSE LET calm == IF h.longshot THEN LongshotOff(h) ELSE h
         IN  Then(Then(PrepareSnapshotChannel(calm), PrepareVideoChannel),
                  PreparePreviewChannel)

unpreparePreview(h) ==
    [h EXCEPT !.ch = [c \in Channels |->
        IF c \in {"ZSL", "PREVIEW", "VIDEO", "SNAPSHOT"} THEN "null" ELSE @[c]]]

startPreview(h) == startChannel(IF ZslPreview(h) THEN "ZSL" ELSE "PREVIEW", h)
stopPreview(h) == unpreparePreview(h)

(* preparePreview, startPreview, and unpreparePreview if the latter failed. *)
BringUpPreview(h) ==
    Then(preparePreview(h), LAMBDA g : Unless(startPreview(g), unpreparePreview))

(* updateParameters of a payload that changes the settings p: the new      *)
(* values wait for a commit, except the key string of ZSL.                 *)
updateParameters(h, p) ==
    [h EXCEPT !.zslNew = IF "zsl" \in p THEN ~@ ELSE @,
              !.hintNew = IF "hint" \in p THEN ~h.hintKey ELSE @]
newHintKey(h, p) == IF "hint" \in p THEN ~h.hintKey ELSE h.hintKey
needRestart(h, p) ==
    \/ "restart" \in p
    \/ "zsl" \in p
    \/ "hint" \in p /\ newHintKey(h, p) # h.hint
(* commitSetBatch: the backend may refuse the batch. *)
commit(h, key) ==
    {IF g.ok THEN [g EXCEPT !.zsl = g.zslNew, !.hint = g.hintNew, !.hintKey = key]
     ELSE g : g \in Try("COMMIT", h)}
(* The callers that ignore what the commit returned. *)
commitIgnored(h, key) == {[g EXCEPT !.ok = TRUE] : g \in commit(h, key)}
updateRecordingHintValue(h, value) ==
    commitIgnored([h EXCEPT !.hintNew = value], h.hintKey)

startRecording(h) ==
    LET hinted == UNION {Then(preparePreview(g), LAMBDA f : startChannel("PREVIEW", f)) :
                           g \in updateRecordingHintValue(stopPreview(h), TRUE)}
    IN  Then(IF h.hint THEN {h} ELSE hinted, LAMBDA g : startChannel("VIDEO", g))
(* Mutant: VIDEO goes on while there is a live snapshot to serve. *)
stopRecordingUnlessLive(h) ==
    IF h.live # "none" \/ h.ch["SNAPSHOT"] # "null" THEN h ELSE stopChannel("VIDEO", h)
stopRecording(h) == [stopChannel("VIDEO", h) EXCEPT !.ok = h.ch["VIDEO"] # "null"]

takeZslPicture(h) ==
    IF h.ch["ZSL"] = "null" THEN {Failed(h)}
    ELSE Then(PostprocStart(h), LAMBDA g :
           Then(Try("ADVANCED", g), LAMBDA f :
             Unless(Try("PICTURE", f), PostprocStop)))
(* The postprocessor is started by the deferred-work thread, and whether   *)
(* that worked is not looked at; the channel is deleted when it cannot be  *)
(* configured or started or a longshot's first picture fails, the last two *)
(* leaving the postprocessor on.                                           *)
CaptureBy(S) ==
    LET captureOff(g) == delChannel("CAPTURE", g)
        deferredStart(g) == {[f EXCEPT !.ok = TRUE] : f \in PostprocStart(g)}
        configured == Then(S, LAMBDA g : Unless(Try("CAPTURE", g), captureOff))
        started == Then(Then(configured, deferredStart), LAMBDA g :
                      Unless(startChannel("CAPTURE", g), captureOff))
    IN  Then(Then(started, LAMBDA g : Try("ADVANCED", g)), LAMBDA g :
          IF g.longshot THEN Unless(Try("PICTURE", g), captureOff) ELSE {g})
(* Mutant: the preview is not stopped first. *)
takeJpegPictureOverPreview(h) == CaptureBy(addChannel("CAPTURE", h))
takeJpegPicture(h) ==
    CaptureBy(Then(addChannel("CAPTURE", delChannel("PREVIEW", h)), LAMBDA g :
                IF g.longshot THEN {g} ELSE Try("POSTVIEW", g)))
takeRawPicture(h) ==
    LET rawOff(g) == delChannel("RAW", g)
    IN  Then(addChannel("RAW", delChannel("PREVIEW", h)), LAMBDA g :
          Then(Unless(PostprocStart(g), rawOff), LAMBDA f :
            Unless(startChannel("RAW", f), LAMBDA e : rawOff(PostprocStop(e)))))
takePicture(h) ==
    IF h.zsl THEN takeZslPicture(h)
    ELSE IF h.setup.raw THEN takeRawPicture(h)
    ELSE takeJpegPicture(h)

longShot(h) ==
    IF h.ch[IF h.zsl THEN "ZSL" ELSE "CAPTURE"] = "null"
    THEN {Failed(h)} ELSE Try("PICTURE", h)

(* Whether it also destroys the backend's channel makes no difference      *)
(* here: the object stays, so that its pictures can still be processed.    *)
stopCaptureChannel(h) == IF h.setup.raw THEN h ELSE stopChannel("CAPTURE", h)

takeLiveSnapshot(h) ==
    {IF g.ok THEN [g EXCEPT !.live = "running"] ELSE g : g \in Try("THREAD", h)}
(* Joins the thread: the handler waits here while the thread runs, so the  *)
(* handlers that come here are guarded by joinable.                        *)
joinable == hw.live # "running"
cancelLiveSnapshotUnjoined(h) == stopChannel("SNAPSHOT", PostprocStop(h))
cancelLiveSnapshot(h) ==
    stopChannel("SNAPSHOT", PostprocStop([h EXCEPT !.live = "none"]))

release(h) == [h EXCEPT !.ch = [c \in Channels |-> "null"]]

-----------------------------------------------------------------------------
(* The handlers: one action per state, one disjunct per request.           *)

Rested(h) == [h EXCEPT !.ok = TRUE, !.notified = <<>>, !.posted = FALSE]
H == Rested(hw)

(* signalEvtResult for SNAPSHOT_DONE, signalAPIResult for every other.     *)
Done(e, st, h) ==
    /\ m_state' = st /\ hw' = h
    /\ answer' = IF e = "SNAPSHOT_DONE" THEN "EVT" ELSE "API"
NoOp(e) == Done(e, m_state, H)
Refuse(e) == Done(e, m_state, Failed(H))
(* No signalAPIResult: nobody waits for these. *)
Silent(st, h) == m_state' = st /\ hw' = h /\ answer' = "none"
Ignore == Silent(m_state, H)

Payloads ==
    IF m_state \in {"PREVIEW_STOPPED", "PREVIEW_READY", "PREVIEWING"}
    THEN IdleChanges ELSE IF hw.setup.calm THEN {{}} ELSE BusyChanges
SetParams(e) ==
    \E p \in Payloads : \E h \in commit(updateParameters(H, p), newHintKey(H, p)) :
        Done(e, m_state, h)
(* A change that needs a restart stops what runs, commits, and brings the  *)
(* preview up again with Up; `failed' is the state if that fails.          *)
SetParamsRestarting(e, Up(_), failed) ==
    \E p \in Payloads :
        LET updated == updateParameters(H, p)
        IN  IF needRestart(H, p)
            THEN \E g \in commitIgnored(unpreparePreview(updated), newHintKey(H, p)) :
                   \E h \in Up(g) : Done(e, IF h.ok THEN m_state ELSE failed, h)
            ELSE \E h \in commit(updated, newHintKey(H, p)) : Done(e, m_state, h)
SetParamsRecording(e) ==
    \E p \in Payloads :
        LET updated == updateParameters(H, p)
        IN  IF needRestart(H, p)
            THEN Done(e, m_state, Failed(updated))
            ELSE \E h \in commit(updated, newHintKey(H, p)) : Done(e, m_state, h)

LongshotOn(h) == IF isCaptureRunning THEN Failed(h) ELSE [h EXCEPT !.longshot = TRUE]
(* CAMERA_CMD_LONGSHOT_ON and _OFF where the state adds nothing of its own. *)
SendLongshot(e) ==
    \/ e = "LONGSHOT_ON" /\ Done(e, m_state, LongshotOn(H))
    \/ e = "LONGSHOT_OFF" /\ Done(e, m_state, LongshotOff(H))

(* Of each state: what it answers without a change (Unmoved) and, in the    *)
(* states that answer them apart, the notices of the threads below.        *)
StoppedUnmoved(e) ==
    \/ e \in {"STOP_PREVIEW", "CANCEL_PICTURE", "REG_FACE_IMAGE", "OTHER"} /\ NoOp(e)
    \/ /\ e \in {"START_RECORDING", "STOP_RECORDING", "PREPARE_SNAPSHOT", "TAKE_PICTURE"}
       /\ Refuse(e)
    \/ e = "SNAPSHOT_DONE" /\ NoOp(e)
    \/ e \in {"PREP_SNAPSHOT_DONE", "STOP_CAPTURE_CHANNEL"} /\ Ignore

StoppedState(e) ==
    \/ /\ e = "SET_PREVIEW_WINDOW"
       /\ \E w \in BOOLEAN : Done(e, m_state, [H EXCEPT !.window = w])
    \/ e = "SET_PARAMS" /\ SetParams(e)
    \/ /\ e = "START_PREVIEW" /\ ~hw.window
       /\ \E h \in preparePreview(H) :
            Done(e, IF h.ok THEN "PREVIEW_READY" ELSE m_state, h)
    \/ /\ \/ e = "START_PREVIEW" /\ hw.window
          \/ e = "START_NODISPLAY_PREVIEW"
       /\ \E h \in BringUpPreview(H) :
            Done(e, IF h.ok THEN "PREVIEWING" ELSE m_state, h)
    \/ e = "RELEASE" /\ Done(e, m_state, release(H))
    \/ SendLongshot(e)
    \/ StoppedUnmoved(e)

ReadyUnmoved(e) ==
    \/ e \in {"START_PREVIEW", "REG_FACE_IMAGE", "OTHER"} /\ NoOp(e)
    \/ /\ e \in {"START_NODISPLAY_PREVIEW", "START_RECORDING", "STOP_RECORDING",
                 "PREPARE_SNAPSHOT", "TAKE_PICTURE", "CANCEL_PICTURE", "RELEASE"}
       /\ Refuse(e)
    \/ e = "SNAPSHOT_DONE" /\ NoOp(e)
    \/ e \in {"PREP_SNAPSHOT_DONE", "STOP_CAPTURE_CHANNEL"} /\ Ignore

ReadyState(e) ==
    \/ /\ e = "SET_PREVIEW_WINDOW"
       /\ \/ Done(e, m_state, [H EXCEPT !.window = FALSE])
          \/ \E h \in Unless(startPreview([H EXCEPT !.window = TRUE]), unpreparePreview) :
               Done(e, IF h.ok THEN "PREVIEWING" ELSE "PREVIEW_STOPPED", h)
    \/ e = "SET_PARAMS" /\ SetParamsRestarting(e, preparePreview, "PREVIEW_STOPPED")
    \/ e = "STOP_PREVIEW" /\ Done(e, "PREVIEW_STOPPED", unpreparePreview(H))
    \/ SendLongshot(e)
    \/ ReadyUnmoved(e)

(* A picture while the recording hint is set first restarts the preview    *)
(* without it; how that ended is not looked at.                            *)
Unhinted(h) ==
    IF ~h.hint THEN {h}
    ELSE {[g EXCEPT !.ok = TRUE] :
             g \in UNION {BringUpPreview(f) :
                        f \in updateRecordingHintValue(stopPreview(h), FALSE)}}
PreviewingTakePicture(e) ==
    \E g \in Unhinted(H) :
        LET fromPreview == g.zsl \/ g.longshot
        IN  \E h \in takePicture(g) :
              Done(e, IF fromPreview
                      THEN IF h.ok THEN "PREVIEW_PIC_TAKING" ELSE "PREVIEWING"
                      ELSE IF h.ok THEN "PIC_TAKING" ELSE "PREVIEW_STOPPED", h)
(* LONGSHOT_ON restarts a ZSL preview that has too few buffers for it. *)
PreviewingLongshotOn(e) ==
    LET g == LongshotOn(H)
    IN  \/ Done(e, m_state, g)
        \/ /\ g.zsl /\ g.ch["ZSL"] # "null"
           /\ \E h \in BringUpPreview(stopPreview(g)) : Done(e, m_state, h)

PreviewingUnmoved(e) ==
    \/ /\ e \in {"START_PREVIEW", "START_NODISPLAY_PREVIEW", "REG_FACE_IMAGE", "OTHER"}
       /\ NoOp(e)
    \/ /\ e \in {"SET_PREVIEW_WINDOW", "CANCEL_PICTURE", "STOP_RECORDING", "RELEASE"}
       /\ Refuse(e)

PreviewingNotices(e) ==
    \/ e = "SNAPSHOT_DONE" /\ NoOp(e)
    \/ e \in {"PREP_SNAPSHOT_DONE", "STOP_CAPTURE_CHANNEL"} /\ Ignore

PreviewingState(e) ==
    \/ e = "SET_PARAMS" /\ SetParamsRestarting(e, BringUpPreview, "PREVIEW_STOPPED")
    \/ e = "STOP_PREVIEW" /\ Done(e, "PREVIEW_STOPPED", stopPreview(H))
    \/ /\ e = "START_RECORDING"
       /\ \E h \in startRecording(H) : Done(e, IF h.ok THEN "RECORDING" ELSE m_state, h)
    \/ /\ e = "PREPARE_SNAPSHOT"
       /\ \E h \in Try("PREPARE", H) :
            IF h.ok THEN Silent("PREPARE_SNAPSHOT", h) ELSE Done(e, m_state, h)
    \/ e = "TAKE_PICTURE" /\ PreviewingTakePicture(e)
    \/ e = "LONGSHOT_ON" /\ PreviewingLongshotOn(e)
    \/ e = "LONGSHOT_OFF" /\ Done(e, m_state, LongshotOff(H))
    \/ PreviewingUnmoved(e)
    \/ PreviewingNotices(e)

(* Every API is refused until the metadata says the hardware is prepared,  *)
(* but REG_FACE_IMAGE, which the switch does not list and nobody answers;  *)
(* what that moment answers is PREPARE_SNAPSHOT.                           *)
PrepareSnapshotState(e) ==
    \/ e \in Apis \ {"REG_FACE_IMAGE"} /\ Refuse(e)
    \/ e = "PREP_SNAPSHOT_DONE" /\ Done(e, "PREVIEWING", H)
    \/ e = "SNAPSHOT_DONE" /\ NoOp(e)
    \/ e \in {"REG_FACE_IMAGE", "STOP_CAPTURE_CHANNEL"} /\ Ignore

LongshotPicture(e) ==
    /\ hw.longshot
    /\ \E h \in longShot(H) : Done(e, m_state, h)

PicTakingUnmoved(e) ==
    \/ e \in {"REG_FACE_IMAGE", "OTHER"} /\ NoOp(e)
    \/ e = "TAKE_PICTURE" /\ ~hw.longshot /\ Refuse(e)
    \/ /\ e \in {"SET_PREVIEW_WINDOW", "START_PREVIEW", "START_NODISPLAY_PREVIEW",
                 "START_RECORDING", "STOP_RECORDING", "PREPARE_SNAPSHOT", "RELEASE"}
       /\ Refuse(e)

PicTakingNotices(e) ==
    \/ /\ e = "SNAPSHOT_DONE"
       /\ Done(e, IF hw.setup.restart THEN "PREVIEWING" ELSE "PREVIEW_STOPPED", cancelPicture(H))
    \/ /\ e = "STOP_CAPTURE_CHANNEL"
       /\ LET stopped == stopCaptureChannel(H)
          IN  \E h \in IF hw.setup.restart THEN Then(preparePreview(stopped), startPreview)
                       ELSE {stopped} :
                Silent(m_state, h)
    \/ e = "PREP_SNAPSHOT_DONE" /\ Ignore

PicTakingState(e) ==
    \/ e = "SET_PARAMS" /\ SetParams(e)
    \/ e \in {"STOP_PREVIEW", "CANCEL_PICTURE"} /\ Done(e, "PREVIEW_STOPPED", cancelPicture(H))
    \/ e = "LONGSHOT_ON" /\ Done(e, m_state, LongshotOn(H))
    \/ e = "LONGSHOT_OFF" /\ Done(e, "PREVIEWING", LongshotOff(H))
    \/ e = "TAKE_PICTURE" /\ LongshotPicture(e)
    \/ PicTakingUnmoved(e)
    \/ PicTakingNotices(e)

RecordingUnmoved(e) ==
    \/ /\ e \in {"START_PREVIEW", "SET_PREVIEW_WINDOW", "START_RECORDING",
                 "PREPARE_SNAPSHOT", "REG_FACE_IMAGE", "OTHER"}
       /\ NoOp(e)
    \/ e \in {"CANCEL_PICTURE", "START_NODISPLAY_PREVIEW", "RELEASE"} /\ Refuse(e)

RecordingNotices(e) ==
    \/ e = "SNAPSHOT_DONE" /\ NoOp(e)
    \/ e \in {"PREP_SNAPSHOT_DONE", "STOP_CAPTURE_CHANNEL"} /\ Ignore

RecordingState(e) ==
    \/ e = "SET_PARAMS" /\ SetParamsRecording(e)
    \/ /\ e = "TAKE_PICTURE"
       /\ \E h \in takeLiveSnapshot(H) :
            Done(e, IF h.ok THEN "VIDEO_PIC_TAKING" ELSE m_state, h)
    \/ e = "STOP_RECORDING" /\ Done(e, "PREVIEWING", stopRecording(H))
    \/ e = "STOP_PREVIEW" /\ Done(e, "PREVIEW_STOPPED", stopPreview(stopRecording(H)))
    \/ SendLongshot(e)
    \/ RecordingUnmoved(e)
    \/ RecordingNotices(e)

(* Every way out joins the thread of the live snapshot.                    *)
VideoPicTakingLeft(e) ==
    \/ /\ e = "STOP_RECORDING" /\ joinable
       /\ Done(e, "PREVIEWING", stopRecording(cancelLiveSnapshot(H)))
    \/ /\ e \in {"CANCEL_PICTURE", "SNAPSHOT_DONE"} /\ joinable
       /\ Done(e, "RECORDING", cancelLiveSnapshot(H))
    \/ /\ e = "STOP_PREVIEW" /\ joinable
       /\ Done(e, "PREVIEW_STOPPED", stopPreview(stopRecording(cancelLiveSnapshot(H))))

VideoPicTakingUnmoved(e) ==
    \/ e \in {"REG_FACE_IMAGE", "OTHER"} /\ NoOp(e)
    \/ /\ e \in {"SET_PREVIEW_WINDOW", "START_RECORDING", "START_PREVIEW",
                 "START_NODISPLAY_PREVIEW", "PREPARE_SNAPSHOT", "TAKE_PICTURE", "RELEASE"}
       /\ Refuse(e)
    \/ e \in {"PREP_SNAPSHOT_DONE", "STOP_CAPTURE_CHANNEL"} /\ Ignore

VideoPicTakingState(e) ==
    \/ e = "SET_PARAMS" /\ SetParamsRecording(e)
    \/ VideoPicTakingLeft(e)
    \/ SendLongshot(e)
    \/ VideoPicTakingUnmoved(e)

(* A picture taken from ZSL or in a longshot; otherwise a live snapshot.   *)
FromPreview == hw.zsl \/ hw.longshot
PreviewPicCancelled ==
    IF FromPreview THEN cancelPicture(H) ELSE cancelLiveSnapshot(H)
PreviewPicTakingUnmoved(e) ==
    \/ e = "START_RECORDING" /\ FromPreview /\ Refuse(e)
    \/ e = "TAKE_PICTURE" /\ ~hw.longshot /\ Refuse(e)
    \/ e \in {"REG_FACE_IMAGE", "OTHER"} /\ NoOp(e)
    \/ /\ e \in {"SET_PREVIEW_WINDOW", "START_PREVIEW", "START_NODISPLAY_PREVIEW",
                 "STOP_RECORDING", "PREPARE_SNAPSHOT", "RELEASE"}
       /\ Refuse(e)
    \/ e \in {"PREP_SNAPSHOT_DONE", "STOP_CAPTURE_CHANNEL"} /\ Ignore

PreviewPicTakingState(e) ==
    \/ e = "SET_PARAMS" /\ SetParamsRestarting(e, BringUpPreview, "PIC_TAKING")
    \/ /\ e \in {"CANCEL_PICTURE", "SNAPSHOT_DONE"} /\ (FromPreview \/ joinable)
       /\ Done(e, "PREVIEWING", PreviewPicCancelled)
    \/ /\ e = "STOP_PREVIEW" /\ (FromPreview \/ joinable)
       /\ Done(e, "PREVIEW_STOPPED", unpreparePreview(PreviewPicCancelled))
    \/ /\ e = "START_RECORDING" /\ ~FromPreview
       /\ \E h \in startRecording(H) :
            Done(e, IF h.ok THEN "VIDEO_PIC_TAKING" ELSE m_state, h)
    \/ e = "LONGSHOT_ON" /\ Done(e, m_state, LongshotOn(H))
    \/ e = "LONGSHOT_OFF" /\ Done(e, "PREVIEWING", LongshotOff(H))
    \/ e = "TAKE_PICTURE" /\ LongshotPicture(e)
    \/ PreviewPicTakingUnmoved(e)

stateMachine(e) ==
    \/ m_state = "PREVIEW_STOPPED" /\ StoppedState(e)
    \/ m_state = "PREVIEW_READY" /\ ReadyState(e)
    \/ m_state = "PREVIEWING" /\ PreviewingState(e)
    \/ m_state = "PREPARE_SNAPSHOT" /\ PrepareSnapshotState(e)
    \/ m_state = "PIC_TAKING" /\ PicTakingState(e)
    \/ m_state = "RECORDING" /\ RecordingState(e)
    \/ m_state = "VIDEO_PIC_TAKING" /\ VideoPicTakingState(e)
    \/ m_state = "PREVIEW_PIC_TAKING" /\ PreviewPicTakingState(e)

(* takeLiveSnapshot_internal, in its own thread.  When it fails it posts   *)
(* CANCEL_PICTURE (HalApi.tla).                                            *)
LiveSnapshot(h) ==
    Then(PostprocStart(h), LAMBDA g : startChannel("SNAPSHOT", g))
LiveSnapshotThread ==
    /\ hw.live = "running"
    /\ \E h \in LiveSnapshot([H EXCEPT !.live = "over"]) : Silent(m_state, h)

smInit ==
    /\ m_state = "PREVIEW_STOPPED"
    /\ \E s \in Setups :
         hw = [setup |-> s, ch |-> [c \in Channels |-> "null"], zsl |-> s.zsl, zslNew |-> s.zsl,
               hint |-> FALSE, hintNew |-> FALSE, hintKey |-> FALSE,
               longshot |-> FALSE, window |-> FALSE, live |-> "none",
               ok |-> TRUE, notified |-> <<>>, posted |-> FALSE]
    /\ answer = "none"

(* What the app and the lower layers may send at any moment. *)
Offered ==
    (Apis \cup Notices)
        \ IF Longshot /\ ~hw.setup.calm THEN {} ELSE {"LONGSHOT_ON", "LONGSHOT_OFF"}

smNext ==
    \/ \E e \in Offered : stateMachine(e)
    \/ LiveSnapshotThread

smSpec == smInit /\ [][smNext]_smVars

-----------------------------------------------------------------------------
(* Types of the machine, its hardware and its last answer. *)
smTypeOK ==
    /\ m_state \in States
    /\ hw \in HwType
    /\ answer \in {"API", "EVT", "none"}

Runs(c) == hw.ch[c] = "started"
RecordingStates == {"RECORDING", "VIDEO_PIC_TAKING"}

(* The video channel streams exactly while the machine says it records: a  *)
(* failed START_RECORDING leaves it off, and no way out of a recording (a  *)
(* refused or failed request, a live snapshot cancelled by its own failing *)
(* thread, STOP_PREVIEW) leaves it on.                                     *)
VideoRunsWhileRecording == Runs("VIDEO") <=> m_state \in RecordingStates

(* mLiveSnapshotThread is joined before the state that owns it is left, so *)
(* takeLiveSnapshot never overwrites the handle of a thread not joined,    *)
(* and the snapshot channel streams in no other state.                     *)
LiveSnapshotJoined ==
    (hw.live # "none" \/ Runs("SNAPSHOT")) => m_state = "VIDEO_PIC_TAKING"

(* The states whose declaration says that the preview runs have a preview  *)
(* channel streaming (QCameraStateMachine.h:186-192).                      *)
PreviewRuns ==
    m_state \in {"PREVIEWING", "PREPARE_SNAPSHOT", "PREVIEW_PIC_TAKING"}
        => Runs("ZSL") \/ Runs("PREVIEW")

(* A recording has its preview ("recording (preview running)").            *)
RecordingHasPreview == m_state \in RecordingStates => Runs("PREVIEW")

(* When STOP_PREVIEW, CANCEL_PICTURE, a finished picture or a failure has  *)
(* brought the machine back to PREVIEW_STOPPED, no channel streams.        *)
StoppedRunsNothing ==
    m_state = "PREVIEW_STOPPED" => \A c \in Channels : ~Runs(c)

(* The capture channels need the sensor to themselves: takePicture stops   *)
(* the preview first ("need to stop preview channel").                     *)
CaptureAlone ==
    (Runs("CAPTURE") \/ Runs("RAW"))
        => \A c \in Channels \ {"CAPTURE", "RAW"} : ~Runs(c)

(* ZSL and PREVIEW are two ways to preview; a restart never leaves both.   *)
OnePreview == hw.ch["ZSL"] = "null" \/ hw.ch["PREVIEW"] = "null"

(* TAKE_PICTURE picks the channel by the committed mode: when that says    *)
(* ZSL, the channel the picture comes from is the one that streams.        *)
ZslPictureHasChannel ==
    m_state \in {"PREVIEWING", "PREVIEW_PIC_TAKING"} /\ ZslPreview(hw) => Runs("ZSL")

(* Where nothing fails, and without the early preview restart (with which  *)
(* SNAPSHOT_DONE may come before the preview is back), the channels are    *)
(* those of the machine's state, whatever the app asks for and when.       *)
ChannelsOfState ==
    hw.setup.calm /\ ~hw.setup.restart =>
        /\ PreviewRuns /\ RecordingHasPreview /\ StoppedRunsNothing
        /\ CaptureAlone /\ OnePreview /\ ZslPictureHasChannel

(* "cannot set parameters that requires restart during recording": neither *)
(* ZSL mode nor the recording hint changes while a recording goes on.      *)
RecordingKeepsMode ==
    [][{m_state, m_state'} \subseteq RecordingStates
         => hw'.zsl = hw.zsl /\ hw'.hint = hw.hint]_smVars
=============================================================================
