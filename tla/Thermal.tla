------------------------------ MODULE Thermal ------------------------------
(* The frame rates the sensor runs at.  Four parties set them: the app, the   *)
(* thermal daemon through QCameraThermalAdapter, the start of the preview,    *)
(* and a ZSL picture that slows the stream for its while.  Rates are in       *)
(* thousandths, as the parameters keep them.                                  *)
EXTENDS Integers, FiniteSets

CONSTANTS Ranges,       \* fps_ranges_tbl: pairs <<min, max>>
          Hfr,          \* video rates of the high frame rate modes, 0 for none
          Levels,       \* the levels the daemon reports
          ThermalModes, \* persist.camera.thermal.mode may be "fps", "frameskip"
          PostprocFails,\* whether a picture may fail after the stream was slowed
          MaxReports    \* bound: calls of the app and reports

Steps == {"none", "slight", "big", "max"}
ThermalAssumption ==
  /\ Ranges \subseteq (Nat \ {0}) \X (Nat \ {0}) /\ Ranges # {} /\ IsFiniteSet(Ranges)
  /\ Hfr \subseteq Nat /\ 0 \in Hfr
  /\ Levels \subseteq Steps \cup {"shutdown"}
  /\ ThermalModes \subseteq {"fps", "frameskip"} /\ ThermalModes # {} /\ PostprocFails \in BOOLEAN /\ MaxReports \in Nat

VARIABLES mCameraOpened,
          clients,         \* what is registered with the thermal library
          mCallback,       \* whether the adapter passes reports on
         thermalMode,     \* read from the property when the camera is opened
          base,            \* the KEY_PREVIEW_FPS_RANGE
          hint, hfr,       \* recording hint; high frame rate, as committed
          mThermalLevel,
          sent, skip,      \* the last FPS_RANGE and FRAMESKIP
          running,         \* preview running
          mFPSReconfigure, picture, \* ZSL picture under way
          used

rateVars == <<base, hint, hfr, mThermalLevel, sent, skip, running, mFPSReconfigure, picture>>
thermalVars == <<mCameraOpened, clients, mCallback, thermalMode, rateVars, used>>

AtLeast(n, x) == IF x < n THEN n ELSE x
Slower(r, by) == <<AtLeast(1000, r[1] \div by), AtLeast(1000, r[2] \div by)>>
LowestOf(r) ==
  LET lower == {q[1] : q \in Ranges} \cup {r[1]}
      low == CHOOSE x \in lower : \A y \in lower : x <= y
  IN  <<low, low>>

\* The rates of preview and video at a level.  A recording is not slowed.
VideoBase(b, h) == IF h = 0 THEN b ELSE <<h, h>>
calcThermalLevel(level, b, h, recording) ==
  LET rates(by) == [preview |-> Slower(b, by), video |-> Slower(VideoBase(b, h), by)]
      plain == [preview |-> b, video |-> VideoBase(b, h)]
  IN  CASE recording \/ level = "none" -> plain
        [] level = "slight" -> rates(2)
        [] level = "big" -> rates(4)
        [] level = "max" -> [preview |-> LowestOf(b), video |-> LowestOf(b)]
SkipOf(level, recording) == IF recording THEN "none" ELSE level
ofLevel == calcThermalLevel(mThermalLevel, base, hfr, hint)

\* Every part of a call is under m_parm_lock, so a call is one step.
Spent == used < MaxReports /\ used' = used + 1

(* updateThermalLevel: the garbage a shutdown leaves on the stack is sent.    *)
Sends(level, b, h, recording) ==
  IF thermalMode = "fps"
  THEN /\ IF level = "shutdown"
          THEN \E r \in {sent, [preview |-> <<0, 0>>, video |-> <<0, 0>>]} : sent' = r
          ELSE sent' = calcThermalLevel(level, b, h, recording)
       /\ UNCHANGED skip
  ELSE skip' = SkipOf(level, recording) /\ UNCHANGED sent
updateThermalLevel(level) == mThermalLevel' = level /\ Sends(level, base, hfr, hint)

Report(level) ==
  /\ Spent /\ clients # {}
  /\ IF mCallback /\ mCameraOpened
     THEN updateThermalLevel(level)
          /\ UNCHANGED <<base, hint, hfr, running, mFPSReconfigure, picture>>
     ELSE UNCHANGED rateVars
  /\ UNCHANGED <<mCameraOpened, clients, mCallback, thermalMode>>

\* The hint of the same call is not in force yet.
setPreviewFpsRange(b, h) ==
  sent' = IF thermalMode = "fps" /\ mThermalLevel # "shutdown"
          THEN calcThermalLevel(mThermalLevel, b, h, hint)
          ELSE [preview |-> b, video |-> VideoBase(b, h)]

Known(b) == \E r \in Ranges : b[1] >= r[1] /\ b[2] <= r[2]
(* One call of set_parameters: the machine stops and starts a preview when the *)
(* hint or the high frame rate change, before it takes up the next event.     *)
setParameters(b, h, recording) ==
  /\ Spent /\ mCameraOpened /\ ~picture
  /\ Known(b) /\ base' = b /\ hfr' = h /\ hint' = recording
  /\ IF running /\ (h # hfr \/ recording # hint)
     THEN Sends(mThermalLevel, b, h, recording)
     ELSE /\ IF b # base \/ h # hfr THEN setPreviewFpsRange(b, h) ELSE UNCHANGED sent
          /\ UNCHANGED skip
  /\ UNCHANGED <<mCameraOpened, clients, mCallback, thermalMode, mThermalLevel, running, mFPSReconfigure, picture>>

Starts == Sends(mThermalLevel, base, hfr, hint)
startPreview ==
  /\ mCameraOpened /\ ~running /\ running' = TRUE
  /\ Starts
  /\ UNCHANGED <<mCameraOpened, clients, mCallback, thermalMode, base, hint, hfr, mThermalLevel, mFPSReconfigure,
                 picture, used>>
stopPreview ==
  /\ running /\ ~picture /\ Spent /\ running' = FALSE
  /\ UNCHANGED <<mCameraOpened, clients, mCallback, thermalMode, base, hint, hfr, mThermalLevel, sent, skip,
                 mFPSReconfigure, picture>>

(* A picture of one snapshot slows the stream while the camera is cool.       *)
needAdjustFPS == mThermalLevel = "none"
takePicture ==
  /\ Spent /\ running /\ ~picture /\ ~hint
  /\ mFPSReconfigure' = needAdjustFPS
  /\ sent' = IF needAdjustFPS THEN calcThermalLevel("slight", base, hfr, hint) ELSE sent
  /\ picture' \in IF PostprocFails THEN BOOLEAN ELSE {TRUE}
  /\ UNCHANGED <<mCameraOpened, clients, mCallback, thermalMode, base, hint, hfr, mThermalLevel, skip, running>>
cancelPicture ==
  /\ picture /\ picture' = FALSE
  /\ mFPSReconfigure' = FALSE
  /\ sent' = IF mFPSReconfigure /\ mThermalLevel # "shutdown" THEN ofLevel ELSE sent
  /\ UNCHANGED <<mCameraOpened, clients, mCallback, thermalMode, base, hint, hfr, mThermalLevel, skip, running, used>>

(* init registers two clients, or none; a camera without them opens as well.  *)
init ==
  /\ ~mCameraOpened /\ Spent /\ mCameraOpened' = TRUE /\ thermalMode' \in ThermalModes
  /\ \E got \in {{}, {"camera", "camcorder"}} : clients' = got /\ mCallback' = (got # {})
  /\ UNCHANGED rateVars
deinit ==
  /\ mCameraOpened /\ ~running /\ mCameraOpened' = FALSE
  /\ clients' = {} /\ mCallback' = FALSE
  /\ UNCHANGED <<thermalMode, rateVars, used>>

thermalInit ==
  /\ mCameraOpened = FALSE /\ clients = {} /\ mCallback = FALSE /\ thermalMode = "fps"
  /\ base \in {CHOOSE r \in Ranges : TRUE} /\ hint = FALSE /\ hfr = 0 /\ mThermalLevel = "none"
  /\ sent = [preview |-> base, video |-> base] /\ skip = "none"
  /\ running = FALSE /\ mFPSReconfigure = FALSE /\ picture = FALSE /\ used = 0

thermalNext ==
  \/ \E l \in Levels : Report(l)
  \/ \E b \in Ranges, h \in Hfr, r \in BOOLEAN : setParameters(b, h, r)
  \/ startPreview \/ stopPreview \/ takePicture \/ cancelPicture \/ init \/ deinit
thermalSpec == thermalInit /\ [][thermalNext]_thermalVars
-----------------------------------------------------------------------------
(* Whoever set the rates last, and in whatever order, a preview that runs has *)
(* the rates of the level reported last, of the range set last and of the     *)
(* mode in force; only a picture may slow it.                                 *)
RatesOfLevel ==
  mCameraOpened /\ running /\ mThermalLevel # "shutdown" =>
    IF thermalMode = "fps"
    THEN \/ sent = ofLevel
         \/ picture /\ mThermalLevel = "none" /\ sent = calcThermalLevel("slight", base, hfr, hint)
    ELSE skip = SkipOf(mThermalLevel, hint)
=============================================================================
