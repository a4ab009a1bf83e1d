----------------------------- MODULE EntryPoints -----------------------------
(* The operations of camera_device: every one posts a request to the state  *)
(* machine's queue and waits for the answer of that request, in a list all   *)
(* callers share.  Waiting gives m_lock back, so that calls of two threads    *)
(* overlap; all else a call does between two waits is one critical section.  *)
EXTENDS HalStateMachine, TLC

CONSTANTS Threads,     \* threads that call the camera, the HAL's own among them
          Uses,        \* the operations each thread uses
          MaxUses      \* bound: calls of one thread

VARIABLES at,          \* what each thread is in, see CallType
          m_evt_q,     \* requests and events the machine has not handled
          m_results,   \* m_apiResultList
          preparing,   \* m_parent's caller of PREPARE_SNAPSHOT
          mFlashNeeded, mPrepSnapRun,
          left         \* calls each thread may still make

entryVars == <<at, m_evt_q, m_results, preparing, mFlashNeeded, mPrepSnapRun, left>>
epVars == <<smVars, entryVars>>

\* The requests of the operations, but for the two that choose theirs.
CallbackOps ==
  [set_preview_window |-> "SET_PREVIEW_WINDOW", set_CallBacks |-> "SET_CALLBACKS"]
MessageOps ==
  [enable_msg_type |-> "ENABLE_MSG_TYPE", disable_msg_type |-> "DISABLE_MSG_TYPE",
   msg_type_enabled |-> "MSG_TYPE_ENABLED"]
PreviewOps ==
  [stop_preview |-> "STOP_PREVIEW", preview_enabled |-> "PREVIEW_ENABLED",
   store_meta_data_in_buffers |-> "STORE_METADATA_IN_BUFS"]
RecordingOps ==
  [start_recording |-> "START_RECORDING", stop_recording |-> "STOP_RECORDING",
   recording_enabled |-> "RECORDING_ENABLED", release_recording_frame |-> "RELEASE_RECORDING_FRAME"]
FocusOps == [auto_focus |-> "START_AUTO_FOCUS", cancel_auto_focus |-> "STOP_AUTO_FOCUS"]
ParameterOps ==
  [cancel_picture |-> "CANCEL_PICTURE", set_parameters |-> "SET_PARAMS",
   get_parameters |-> "GET_PARAMS", put_parameters |-> "PUT_PARAMS"]
CommandOps == [send_command |-> "SEND_COMMAND", release |-> "RELEASE"]
FaceOps == [register_face_image |-> "REG_FACE_IMAGE"]
\* What the thermal daemon reports, by a call of the same kind.
ThermalOps == [thermalEvtHandle |-> "THERMAL_NOTIFY"]
Request == CallbackOps @@ MessageOps @@ PreviewOps @@ RecordingOps @@ FocusOps
             @@ ParameterOps @@ CommandOps @@ FaceOps @@ ThermalOps

Operation == DOMAIN Request \cup {"start_preview", "take_picture"}

\* What a call is to ask, in order.
start_preview == {<<"START_PREVIEW">>, <<"START_NODISPLAY_PREVIEW">>}
take_picture == {IF mFlashNeeded THEN <<"PREPARE_SNAPSHOT", "TAKE_PICTURE">> ELSE <<"TAKE_PICTURE">>}
Asks(o) == IF o = "start_preview" THEN start_preview
           ELSE IF o = "take_picture" THEN take_picture ELSE {<<Request[o]>>}

Idle == [in |-> "none", asks |-> <<>>, woken |-> FALSE]

EntryAssumption ==
  /\ Uses \in [Threads -> SUBSET Operation] /\ MaxUses \in Nat
  /\ "none" \notin Operation

(* The machine does not tell apart the requests that change nothing.        *)
AsHandled(evt) == IF evt \in Apis \cup Notices THEN evt ELSE "OTHER"
-----------------------------------------------------------------------------
Waits(c) == at[c].asks # <<>>
Posting(c, o, asks) ==
  /\ at' = [at EXCEPT ![c] = [in |-> o, asks |-> asks, woken |-> FALSE]]
  /\ m_evt_q' = Append(m_evt_q, [evt |-> Head(asks), by |-> c])

\* An auto_focus while the focus runs, or a frame whose handle is not closed, asks nothing.
MayAskNothing == {"auto_focus", "release_recording_frame"}
Enter(c, o) ==
  /\ at[c] = Idle /\ left[c] > 0
  /\ left' = [left EXCEPT ![c] = @ - 1]
  /\ \/ \E asks \in Asks(o) : Posting(c, o, asks)
     \/ o \in MayAskNothing /\ UNCHANGED <<at, m_evt_q>>
  /\ UNCHANGED <<smVars, m_results, preparing, mFlashNeeded, mPrepSnapRun>>

First(evt) ==
  CHOOSE i \in DOMAIN m_results :
    /\ m_results[i].evt = evt
    /\ \A j \in 1..(i - 1) : m_results[j].evt # evt
Without(s, i) == SubSeq(s, 1, i - 1) \o SubSeq(s, i + 1, Len(s))

(* A caller that wakes looks for the first answer of its request; without   *)
(* one it sleeps on.  take_picture goes on whatever the preparation said.   *)
waitAPIResult(c) ==
  /\ Waits(c) /\ at[c].woken
  /\ IF \E i \in DOMAIN m_results : m_results[i].evt = Head(at[c].asks)
     THEN /\ m_results' = Without(m_results, First(Head(at[c].asks)))
          /\ IF Len(at[c].asks) > 1
             THEN Posting(c, at[c].in, Tail(at[c].asks)) /\ mPrepSnapRun' = TRUE
             ELSE at' = [at EXCEPT ![c] = Idle] /\ UNCHANGED <<m_evt_q, mPrepSnapRun>>
     ELSE /\ at' = [at EXCEPT ![c].woken = FALSE]
          /\ UNCHANGED <<m_results, m_evt_q, mPrepSnapRun>>
  /\ UNCHANGED <<smVars, preparing, mFlashNeeded, left>>
-----------------------------------------------------------------------------
Answers(evt, by) ==
  IF answer' # "API" THEN UNCHANGED <<at, m_results>>
  ELSE /\ m_results' = Append(m_results,
                         IF evt = "PREP_SNAPSHOT_DONE" THEN [evt |-> "PREPARE_SNAPSHOT", by |-> preparing]
                         ELSE [evt |-> evt, by |-> by])
       /\ at' = [c \in Threads |-> [at[c] EXCEPT !.woken = Waits(c)]]

\* The machine's thread handles one request; its answer wakes every caller.
Machine ==
  /\ m_evt_q # <<>>
  /\ LET r == Head(m_evt_q)
     IN  /\ stateMachine(AsHandled(r.evt))
         /\ Answers(r.evt, r.by)
         /\ preparing' = IF r.evt = "PREPARE_SNAPSHOT" /\ answer' = "none" THEN r.by ELSE preparing
  /\ m_evt_q' = Tail(m_evt_q)
  /\ UNCHANGED <<mFlashNeeded, mPrepSnapRun, left>>

\* What the lower layers report: the light, that the flash is ready, the end of a picture.
Metadata ==
  /\ \E light \in BOOLEAN : mFlashNeeded' = light
  /\ UNCHANGED <<smVars, at, m_evt_q, m_results, preparing, mPrepSnapRun, left>>
Posted(evt) == \E i \in DOMAIN m_evt_q : m_evt_q[i].evt = evt
Report(evt) ==
  /\ ~Posted(evt)
  /\ m_evt_q' = Append(m_evt_q, [evt |-> evt, by |-> "none"])
  /\ UNCHANGED <<smVars, at, m_results, preparing, mFlashNeeded, mPrepSnapRun, left>>
PrepareDone == m_state = "PREPARE_SNAPSHOT" /\ Report("PREP_SNAPSHOT_DONE")
PictureDone == isCaptureRunning /\ Report("SNAPSHOT_DONE")

epInit ==
  /\ smInit
  /\ at = [c \in Threads |-> Idle] /\ left = [c \in Threads |-> MaxUses]
  /\ m_evt_q = <<>> /\ m_results = <<>> /\ preparing = "none"
  /\ mFlashNeeded = FALSE /\ mPrepSnapRun = FALSE

epNext ==
  \/ \E c \in Threads : waitAPIResult(c) \/ \E o \in Uses[c] : Enter(c, o)
  \/ Machine \/ PrepareDone \/ PictureDone \/ Metadata

epFairness ==
  /\ WF_epVars(Machine) /\ WF_epVars(PrepareDone)
  /\ \A c \in Threads : WF_epVars(waitAPIResult(c))

epSpec == epInit /\ [][epNext]_epVars /\ epFairness
-----------------------------------------------------------------------------
(* The list is shared, and an answer bears only the request's name; but what *)
(* is answered to a thread is there only while that thread waits for it.     *)
AnswersAreAwaited ==
  \A i \in DOMAIN m_results :
    m_results[i].by \in Threads =>
      /\ Waits(m_results[i].by) /\ at[m_results[i].by].woken
      /\ Head(at[m_results[i].by].asks) = m_results[i].evt

(* The picture of a flash is asked for when its preparation is over, so that *)
(* the machine, which refuses everything meanwhile, does not refuse it.      *)
TakenWhenPrepared ==
  m_state = "PREPARE_SNAPSHOT" =>
    \A i \in DOMAIN m_evt_q : m_evt_q[i].evt # "TAKE_PICTURE" \/ m_evt_q[i].by # preparing

(* Every operation returns: no state leaves a request that can reach it     *)
(* without an answer.                                                        *)
OperationsReturn == \A c \in Threads : []<>(at[c] = Idle)
=============================================================================
