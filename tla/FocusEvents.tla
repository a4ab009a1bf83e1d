----------------------------- MODULE FocusEvents -----------------------------
(* Focusing, between four parties: the app that asks for it and cancels it,   *)
(* the state machine that starts the lens and judges its reports, the         *)
(* metadata thread that posts them as internal events, and the lens itself.   *)
(* A request overtakes the events that wait, so that what was reported of one *)
(* request may be handled under the next.                                     *)
EXTENDS Naturals, Sequences

CONSTANTS Modes,       \* focus modes: "auto" (and macro), "continuous", "fixed"
          MaxAsks,     \* bound: what the app asks, pictures and previews included
          MaxPassive,  \* bound: moves of the lens nobody asked for
          None

FocusAssumption ==
  /\ Modes \subseteq {"auto", "continuous", "fixed"} /\ MaxAsks \in Nat /\ MaxPassive \in Nat

VARIABLES m_state, mode,
          mActiveAF, mCancelAutoFocus, mFocusState,
          requests,    \* what the machine has not handled of the app's
          internal,    \* internal events it has not handled: [kind, state, of]
          lens,        \* [busy, of]: at work, and for which request
          asked,       \* [n, open]: requests so far; whether the last is to be answered
          told,        \* what the last step told the app: "FOCUS", "MOVE" or None
          passive, budget,
          overtaken,   \* an auto_focus or the end of the preview was handled before a report
          stuck        \* a picture took the preview from a request, or one was made in it

focusVars == <<m_state, mode, mActiveAF, mCancelAutoFocus, mFocusState, requests, internal,
               lens, asked, told, passive, budget, overtaken, stuck>>

AfActive == {"FOCUSED", "NOT_FOCUSED"}
AfPassive == {"PASSIVE_SCANNING", "PASSIVE_FOCUSED", "PASSIVE_UNFOCUSED"}
Streaming == {"PREVIEWING", "PREPARE_SNAPSHOT", "RECORDING"}

Rest == [busy |-> FALSE, of |-> 0]
Quiet == told' = None
-----------------------------------------------------------------------------
(* The app: one call at a time, which the machine handles before any event.  *)
Moves ==
  {<<"PREVIEW_STOPPED", "START_PREVIEW", "PREVIEWING">>, <<"PREVIEWING", "STOP_PREVIEW", "PREVIEW_STOPPED">>,
   <<"PREVIEWING", "PREPARE_SNAPSHOT", "PREPARE_SNAPSHOT">>, <<"PREVIEWING", "TAKE_PICTURE", "PIC_TAKING">>,
   <<"PREVIEWING", "START_RECORDING", "RECORDING">>, <<"RECORDING", "STOP_RECORDING", "PREVIEWING">>}
FocusCalls == {"START_AUTO_FOCUS", "STOP_AUTO_FOCUS"} \cup {m[2] : m \in Moves}

isAFRunning == mFocusState = "SCANNING" /\ mode = "auto"

\* An auto_focus while the last scan is said to run is not even posted.
Ask(c) ==
  /\ requests = <<>> /\ budget > 0
  /\ budget' = budget - 1
  /\ requests' = IF c = "START_AUTO_FOCUS" /\ isAFRunning THEN <<>> ELSE <<c>>
  /\ Quiet
  /\ UNCHANGED <<m_state, mode, mActiveAF, mCancelAutoFocus, mFocusState, internal, lens, asked,
                 passive, overtaken, stuck>>
-----------------------------------------------------------------------------
(* The machine's thread. *)
Handled(c) == requests = <<c>> /\ requests' = <<>>

\* What the metadata says of a request that is not the lens's present one.
Waiting == \E i \in DOMAIN internal : internal[i].of # 0 /\ internal[i].state \in AfActive

\* Every state starts the lens but those that answer without it or refuse.
StartsFocus == m_state \notin {"PREVIEW_STOPPED", "PREPARE_SNAPSHOT"}
autoFocus ==
  /\ Handled("START_AUTO_FOCUS")
  /\ stuck' = (stuck \/ m_state = "PIC_TAKING")
  /\ IF ~StartsFocus THEN Quiet /\ UNCHANGED <<mActiveAF, mCancelAutoFocus, lens, asked, overtaken>>
     ELSE /\ mCancelAutoFocus' = FALSE /\ mActiveAF' = TRUE
          /\ IF mode = "fixed"
             THEN /\ told' = "FOCUS" /\ asked' = [n |-> asked.n + 1, open |-> FALSE]
                  /\ UNCHANGED <<lens, overtaken>>
             ELSE /\ Quiet /\ asked' = [n |-> asked.n + 1, open |-> m_state \in Streaming]
                  /\ lens' = IF m_state \in Streaming THEN [busy |-> TRUE, of |-> asked.n + 1] ELSE lens
                  /\ overtaken' = (overtaken \/ Waiting)
  /\ UNCHANGED <<m_state, mode, mFocusState, internal, passive, budget>>

\* The lens says that it is at rest, in its next metadata.
Cancelled == lens' = Rest /\ internal' =
  IF lens.busy THEN Append(internal, [kind |-> "FOCUS_UPDATE", state |-> "INACTIVE", of |-> 0])
  ELSE internal
cancelAutoFocus ==
  /\ Handled("STOP_AUTO_FOCUS") /\ Quiet
  /\ IF m_state = "PREPARE_SNAPSHOT"
     THEN UNCHANGED <<mActiveAF, mCancelAutoFocus, lens, internal, asked>>
     ELSE /\ mActiveAF' = FALSE /\ mCancelAutoFocus' = TRUE
          /\ asked' = [asked EXCEPT !.open = FALSE]
          /\ IF mode = "fixed" THEN UNCHANGED <<lens, internal>> ELSE Cancelled
  /\ UNCHANGED <<m_state, mode, mFocusState, passive, budget, overtaken, stuck>>

\* Changing the state of the machine: what stops the preview stops the lens, but only
\* STOP_PREVIEW says so to the HAL's flags.
Move(m) ==
  /\ Handled(m[2]) /\ Quiet
  /\ m_state' = IF m_state = m[1] THEN m[3] ELSE m_state
  /\ LET stops == m_state = m[1] /\ m[2] \in {"STOP_PREVIEW", "TAKE_PICTURE"}
     IN  /\ lens' = IF stops THEN Rest ELSE lens
         /\ asked' = IF stops /\ (m[2] = "STOP_PREVIEW" \/ lens.busy) THEN [asked EXCEPT !.open = FALSE]
                     ELSE asked
         /\ mActiveAF' = (mActiveAF /\ ~(stops /\ m[2] = "STOP_PREVIEW"))
         /\ stuck' = (stuck \/ (stops /\ m[2] = "TAKE_PICTURE" /\ mActiveAF))
         /\ overtaken' = (overtaken \/ (stops /\ m[2] = "STOP_PREVIEW" /\ Waiting))
  /\ UNCHANGED <<mode, mCancelAutoFocus, mFocusState, internal, passive, budget>>
Unmoved(c) ==
  /\ \A m \in Moves : m[2] = c => m[1] # m_state
  /\ Handled(c) /\ c \notin {"START_AUTO_FOCUS", "STOP_AUTO_FOCUS"} /\ Quiet
  /\ UNCHANGED <<m_state, mode, mActiveAF, mCancelAutoFocus, mFocusState, internal, lens, asked,
                 passive, budget, overtaken, stuck>>
-----------------------------------------------------------------------------
(* Internal events, in the states that handle them.                          *)
PreviewingHandles == {"FOCUS_UPDATE"}
PrepareSnapshotHandles == {"FOCUS_UPDATE", "PREP_SNAPSHOT_DONE"}
PicTakingHandles == {"FOCUS_UPDATE", "SNAPSHOT_DONE"}
RecordingHandles == {"FOCUS_UPDATE"}
Handles ==
  [PREVIEW_STOPPED |-> {}, PREVIEWING |-> PreviewingHandles, PREPARE_SNAPSHOT |-> PrepareSnapshotHandles,
   PIC_TAKING |-> PicTakingHandles, RECORDING |-> RecordingHandles]

InAuto(e) ==
  IF mCancelAutoFocus \/ e.state \in AfPassive \cup {"SCANNING", "INACTIVE"} THEN None ELSE "FOCUS"
InContinuous(e) ==
  IF mActiveAF /\ e.state \in {"PASSIVE_FOCUSED", "PASSIVE_UNFOCUSED"} THEN None
  ELSE IF e.state \in AfActive \cup {"PASSIVE_FOCUSED", "PASSIVE_UNFOCUSED"} THEN "FOCUS"
  ELSE IF ~mActiveAF THEN "MOVE" ELSE None
Tells(e) ==
  CASE mode = "auto" -> InAuto(e)
    [] mode = "continuous" -> InContinuous(e)
    [] OTHER -> None

processAutoFocusEvent(e) ==
  /\ mFocusState' = e.state
  /\ told' = Tells(e)
  /\ asked' = IF Tells(e) = "FOCUS" THEN [asked EXCEPT !.open = FALSE] ELSE asked
  /\ mActiveAF' = (mActiveAF /\ e.state \notin AfActive)
  /\ UNCHANGED m_state

\* The picture is done: the preview stays off until the app starts it.
SnapshotDone ==
  /\ m_state' = "PREVIEW_STOPPED"
  /\ Quiet /\ UNCHANGED <<mActiveAF, mFocusState, asked>>
\* The flash is ready: the preview goes on.
PrepareSnapshotDone ==
  /\ m_state' = "PREVIEWING"
  /\ Quiet /\ UNCHANGED <<mActiveAF, mFocusState, asked>>

HandleInternal ==
  /\ requests = <<>> /\ internal # <<>>
  /\ internal' = Tail(internal)
  /\ LET e == Head(internal)
     IN  IF e.kind \notin Handles[m_state]
         THEN /\ asked' = [asked EXCEPT !.open = @ /\ e.kind # "FOCUS_UPDATE"]
              /\ Quiet /\ UNCHANGED <<m_state, mActiveAF, mFocusState>>
         ELSE \/ e.kind = "FOCUS_UPDATE" /\ processAutoFocusEvent(e)
              \/ e.kind = "PREP_SNAPSHOT_DONE" /\ PrepareSnapshotDone
              \/ e.kind = "SNAPSHOT_DONE" /\ SnapshotDone
  /\ UNCHANGED <<mode, mCancelAutoFocus, requests, lens, passive, budget, overtaken, stuck>>

-----------------------------------------------------------------------------
(* The lens, and the metadata thread that posts what it reports.             *)
metadata_stream_cb_routine(e) ==
  /\ internal' = Append(internal, e) /\ Quiet
  /\ UNCHANGED <<m_state, mode, mActiveAF, mCancelAutoFocus, mFocusState, requests, asked, budget,
                 overtaken, stuck>>
Report(state) ==
  metadata_stream_cb_routine([kind |-> "FOCUS_UPDATE", state |-> state, of |-> lens.of])

Reported(state) == \E i \in DOMAIN internal : internal[i].state = state /\ internal[i].of = lens.of
LensScans ==
  /\ lens.busy /\ m_state \in Streaming /\ ~Reported("SCANNING") /\ mFocusState # "SCANNING"
  /\ Report("SCANNING") /\ UNCHANGED <<lens, passive>>
LensDone ==
  /\ lens.busy /\ m_state \in Streaming
  /\ \E s \in AfActive : Report(s)
  /\ lens' = Rest /\ UNCHANGED passive
LensMoves ==
  /\ mode = "continuous" /\ ~lens.busy /\ m_state \in Streaming /\ passive > 0
  /\ passive' = passive - 1
  /\ \E s \in AfPassive : Report(s)
  /\ UNCHANGED lens
Notify(kind) ==
  /\ \A i \in DOMAIN internal : internal[i].kind # kind
  /\ metadata_stream_cb_routine([kind |-> kind, state |-> None, of |-> 0])
  /\ UNCHANGED <<lens, passive>>
FlashReady == m_state = "PREPARE_SNAPSHOT" /\ Notify("PREP_SNAPSHOT_DONE")
PictureDone == m_state = "PIC_TAKING" /\ Notify("SNAPSHOT_DONE")
Lens == LensScans \/ LensDone \/ LensMoves

(* A changed flash cancels a scan under way, on the machine's thread.        *)
updateFlash ==
  /\ requests = <<>> /\ m_state \in Streaming /\ isAFRunning /\ lens.busy /\ budget > 0
  /\ budget' = budget - 1 /\ Quiet
  /\ Cancelled
  /\ asked' = [asked EXCEPT !.open = FALSE]
  /\ UNCHANGED <<m_state, mode, mActiveAF, mCancelAutoFocus, mFocusState, requests, passive,
                 overtaken, stuck>>

focusInit ==
  /\ m_state = "PREVIEW_STOPPED" /\ mode \in Modes
  /\ mActiveAF = FALSE /\ mCancelAutoFocus = FALSE /\ mFocusState = "NOT_FOCUSED"
  /\ requests = <<>> /\ internal = <<>> /\ lens = Rest
  /\ asked = [n |-> 0, open |-> FALSE] /\ told = None
  /\ passive = MaxPassive /\ budget = MaxAsks /\ overtaken = FALSE /\ stuck = FALSE

FocusMachine ==
  \/ autoFocus \/ cancelAutoFocus
  \/ \E m \in Moves : m_state = m[1] /\ Move(m)
  \/ \E c \in FocusCalls : Unmoved(c)
  \/ HandleInternal

focusNext ==
  \/ \E c \in FocusCalls : Ask(c)
  \/ FocusMachine \/ PictureDone \/ updateFlash
  \/ Lens \/ FlashReady

focusFairness ==
  WF_focusVars(FocusMachine) /\ WF_focusVars(LensDone) /\ WF_focusVars(FlashReady) /\ WF_focusVars(PictureDone)
focusSpec == focusInit /\ [][focusNext]_focusVars /\ focusFairness
-----------------------------------------------------------------------------
(* With automatic focus the app is told of a focus only while it waits for    *)
(* one: not after it cancelled, nor twice.  (Unless a new request, or the end *)
(* of the preview, overtook the report of the last.)                          *)
FocusIsAwaited ==
  [][mode = "auto" /\ told' = "FOCUS" => asked.open \/ overtaken]_focusVars

(* A continuous focus tells of the lens's moves while nobody has asked for a  *)
(* focus: the HAL holds them back only as long as a request is open.  (Unless *)
(* a picture took the preview from under a request.)                          *)
MovesHeldBackForRequest ==
  mode = "continuous" /\ mActiveAF => asked.open \/ stuck \/ m_state \notin Streaming

(* A request that reached the lens is answered, or the app, the flash or the  *)
(* end of the preview cancels it.                                             *)
FocusEnds == asked.open ~> ~asked.open
=============================================================================
