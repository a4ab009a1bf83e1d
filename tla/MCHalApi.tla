------------------------------- MODULE MCHalApi -------------------------------
(* Values of HalApi's constants for TLC: what the callers ask depends on how  *)
(* the camera is set up, so that one run looks at several kinds of callers.   *)
(* Beside it, one instance each of the operations of the device               *)
(* (EntryPoints), of focusing (FocusEvents) and of the frame rates (Thermal): *)
(* a behaviour is one of `part`, the others stay as they began.               *)
EXTENDS HalApi, TLC

CONSTANTS Parts, None, Threads, MaxUses, Modes, MaxAsks, MaxPassive,
          Hfr, Levels, ThermalModes, MaxReports

VARIABLES part,
          ep_state, ep_hw, ep_answer, at, m_evt_q, m_results, preparing, mFlashNeeded, mPrepSnapRun, left,
          af_state, mode, mActiveAF, mCancelAutoFocus, mFocusState, requests, internal, lens, asked,
          told, passive, af_budget, overtaken, stuck,
          mCameraOpened, clients, mCallback, thermalMode, base, hint, hfr, mThermalLevel, sent, skip,
          running, mFPSReconfigure, picture, used

entryVars == <<ep_state, ep_hw, ep_answer, at, m_evt_q, m_results, preparing, mFlashNeeded, mPrepSnapRun, left>>
focusVars == <<af_state, mode, mActiveAF, mCancelAutoFocus, mFocusState, requests, internal, lens, asked,
               told, passive, af_budget, overtaken, stuck>>
rateVars == <<mCameraOpened, clients, mCallback, thermalMode, base, hint, hfr, mThermalLevel, sent, skip,
              running, mFPSReconfigure, picture, used>>

NoChange == {{}}
Single == [calm |-> FALSE, zsl |-> FALSE, raw |-> FALSE, restart |-> FALSE, video4k |-> FALSE,
           snapshots |-> 1]
ZslBurst == [Single EXCEPT !.zsl = TRUE, !.snapshots = 2]
Restarting == [Single EXCEPT !.restart = TRUE]
(* The same two again, with live snapshots of 4k2k video.                     *)
Single4k == [Single EXCEPT !.video4k = TRUE]
Restarting4k == [Restarting EXCEPT !.video4k = TRUE]
JustSingle == {Single}
AllSetups == {Single, Restarting, ZslBurst, Single4k, Restarting4k}

(* An app that takes pictures, and the thermal daemon that reports.           *)
PictureCalls == {"START_NODISPLAY_PREVIEW", "PREPARE_SNAPSHOT", "TAKE_PICTURE",
                 "CANCEL_PICTURE", "STOP_PREVIEW"}
Still == [app |-> PictureCalls, thermal |-> {"OTHER"}, backend |-> {}]
(* An app that records and takes live snapshots; or one that takes pictures   *)
(* while the backend asks for some of its own.                                *)
Live == [app |-> {"START_NODISPLAY_PREVIEW", "START_RECORDING", "TAKE_PICTURE",
                  "CANCEL_PICTURE", "STOP_RECORDING", "STOP_PREVIEW"},
         thermal |-> {}, backend |-> {}]
Asked == [app |-> {"START_NODISPLAY_PREVIEW", "TAKE_PICTURE", "CANCEL_PICTURE"},
          thermal |-> {}, backend |-> {"TAKE_PICTURE"}]
AllCallers == {"app", "thermal", "backend"}
StillCalls == [s \in Setups |-> Still]
AllCalls == [s \in Setups |-> IF s = Single4k THEN Live ELSE IF s = Restarting4k THEN Asked ELSE Still]
Each(n) == [c \in AllCallers |-> n]
Five == [s \in Setups |-> Each(5)]
UpToFive ==
    [s \in Setups |-> CASE s = Single4k -> Each(4)
                        [] s = Restarting4k -> [Each(3) EXCEPT !["backend"] = 1]
                        [] OTHER -> [Each(5) EXCEPT !["thermal"] = 1]]
SnapshotFails == {"SNAPSHOT"}

\* The app and the thermal daemon, which call the device at the same time.
Uses == [app |-> {"start_preview", "take_picture", "register_face_image", "cancel_picture",
                  "stop_preview", "auto_focus", "get_parameters"},
         thermald |-> {"thermalEvtHandle"}]
FlashFails == {"PREPARE"}
Entries == INSTANCE EntryPoints WITH Setups <- JustSingle, Faulty <- FlashFails,
             m_state <- ep_state, hw <- ep_hw, answer <- ep_answer
Focus == INSTANCE FocusEvents WITH m_state <- af_state, budget <- af_budget

Rates == {<<8000, 30000>>, <<15000, 30000>>, <<4000, 4000>>}
Cooling == INSTANCE Thermal WITH Ranges <- Rates, PostprocFails <- FALSE

ASSUME Entries!EntryAssumption /\ Focus!FocusAssumption /\ Cooling!ThermalAssumption

MCInit ==
  /\ part \in Parts
  /\ Init /\ Entries!epInit /\ Focus!focusInit /\ Cooling!thermalInit
  /\ part # "api" => hw.setup = Single
  /\ part # "focus" => mode = "auto"
MCNext ==
  \/ part = "api" /\ Next /\ UNCHANGED <<part, entryVars, focusVars, rateVars>>
  \/ part = "entries" /\ Entries!epNext /\ UNCHANGED <<part, vars, focusVars, rateVars>>
  \/ part = "focus" /\ Focus!focusNext /\ UNCHANGED <<part, vars, entryVars, rateVars>>
  \/ part = "rates" /\ Cooling!thermalNext /\ UNCHANGED <<part, vars, entryVars, focusVars>>
\* A part that stays as it began has nothing under way: fairness asks nothing of it.
MCSpec ==
  /\ MCInit /\ [][MCNext]_<<part, vars, entryVars, focusVars, rateVars>>
  /\ Fairness /\ Entries!epFairness /\ Focus!focusFairness

(* SNAPSHOT_DONE about a picture comes when that picture is over; an          *)
(* operation's answer is there only while its caller waits; the moves of the  *)
(* lens are held back for a request only; and the sensor's rates are those of *)
(* the level, the range and the mode in force.                                *)
AnswersMatch ==
  /\ part = "api" => TypeOK /\ DoneIsLast
  /\ part = "entries" => Entries!AnswersAreAwaited /\ Entries!TakenWhenPrepared
  /\ part = "focus" => Focus!MovesHeldBackForRequest
  /\ part = "rates" => Cooling!RatesOfLevel

(* Once the notifier has handled what it was sent, it expects the pictures,   *)
(* but for a START that was put in front of a STOP.                           *)
PicturesExpected == part = "api" => PictureIsExpected

(* Every call is answered and every picture ends; a focus is told only to an  *)
(* app that waits for it, and a request for one ends.                         *)
Ends ==
  /\ AnswersArrive /\ PictureEnds
  /\ Entries!OperationsReturn
  /\ Focus!FocusIsAwaited /\ Focus!FocusEnds

(* The notifier comes back from the machine, and a destructor waits for ever  *)
(* only for a notifier that the machine's thread has left behind.             *)
CircleEnds == NotifierReturns /\ OneWaitAtClose
==============================================================================
