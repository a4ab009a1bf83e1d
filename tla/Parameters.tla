----------------------------- MODULE Parameters -----------------------------
(***************************************************************************)
(* The camera's parameters (QCameraParameters.cpp) and the SET_PARAMS event *)
(* that changes them (QCameraStateMachine.cpp).                             *)
(*                                                                          *)
(* The app sends a whole table of strings.  Some sixty setters compare it   *)
(* with the table in force; what has changed is written to the table at     *)
(* once, or staged in m_tempMap and put into a batch for the daemon, or     *)
(* kept in members of its own.  A commit sends the batch and, if the daemon *)
(* takes it, writes what was staged.  A value is what the setters tell      *)
(* apart: the default "off", another one, or "bad"; Nothing is a key that the  *)
(* request lacks.                                                           *)
(***************************************************************************)
EXTENDS Naturals, FiniteSets

CONSTANTS
  Focus,   \* bound: the sets of keys a behaviour's requests change
  Refusable, \* those of them with which a request may hold a bad value or need a restart
             \* during a recording, and the daemon may refuse a batch
  Nothing

\* A feature that restarts the preview, its key and its member of the same name.
Features == {"af-bracket", "chroma-flash", "opti-zoom", "true-portrait", "see-more", "fssr",
             "multi-touch-focus"}
Flips == {"preview-flip", "video-flip", "snapshot-flip"}
Keys ==
  Features \cup Flips \cup
  {"preview-size", "video-size", "picture-size", "preview-format", "picture-format",
   "thumbnail-size", "quality", "orientation", "rotation", "video-rotation", "no-display",
   "zsl", "zsl-attributes", "camera-mode", "recording-hint", "frame-rate", "fps-range", "hfr", "hsr",
   "auto-exposure", "effect", "brightness", "zoom", "sharpness", "saturation", "contrast",
   "focus-mode", "focus-position", "iso", "continuous-iso", "exposure-time", "skin-tone",
   "flash", "aec-lock", "awb-lock", "lensshade", "mce", "dis", "antibanding", "exposure-comp",
   "whitebalance", "wb-manual", "scene-mode", "hdr-1x", "focus-areas", "metering-areas",
   "zone-af", "redeye", "exposures", "ae-bracket", "auto-hdr", "gps", "denoise",
   "face-recognition", "video-hdr", "vt", "burst", "longshot-max", "snapshot-fd", "tintless",
   "cds", "cache-video", "touch-af-aec", "longshot"}

\* The keys whose setter takes anything.
Unchecked == {"frame-rate", "hfr", "hsr", "hdr-1x", "ae-bracket", "exposures", "auto-hdr", "gps",
              "no-display", "zsl-attributes", "camera-mode", "burst", "longshot-max",
              "snapshot-fd", "longshot", "cds"}

VARIABLES
  focus,    \* the keys that this behaviour's requests change
  s,        \* the parameters: see Fresh
  preview,  \* "stopped", "running" or "recording"
  config    \* what the running channels were made from

vars == <<focus, s, preview, config>>

ParametersAssumption == Refusable \subseteq Focus /\ \A f \in Focus : f \subseteq Keys

Faults == focus \in Refusable

\* What a request may hold for a key.
ChoicesOf(k) ==
  (IF k = "scene-mode" THEN {"off", "hdr", "night"}
   ELSE IF k \in {"focus-mode", "iso", "whitebalance"} THEN {"off", "manual"}
   ELSE {"off", "on"})
    \cup (IF Faults /\ k \notin Unchecked THEN {"bad"} ELSE {})

Empty == [k \in {} |-> Nothing]

\* key: the table; tmp: m_tempMap; batch: m_pParamBuf; srv: what the daemon was last
\* sent; rc, restart: final_rc is good, m_bNeedRestart; zsl, hint with their _new;
\* on: the features whose member is set; hdr, sensorHdr, sceneHdr; sceneAuto, redo:
\* m_bSceneTransitionAuto, m_bUpdateEffects; hfr: mHfrMode; fixed: m_bFixedFrameRateSet;
\* flash, led: mFlashValue, mFlashDaemonValue; unsent: no batch was taken since led was put
\* into one, which only the properties look at; fd: m_nFaceProcMask; burst: m_nBurstNum
\* is not 1; longshot, histogram: m_bLongshotEnabled, m_bHistogramEnabled; livesize: m_LiveSnapshotSize.
Fresh ==
  [key |-> [k \in Keys |-> "off"], tmp |-> Empty, batch |-> Empty, srv |-> Empty,
   rc |-> TRUE, restart |-> FALSE, zsl |-> FALSE, zslNew |-> FALSE, hint |-> FALSE,
   hintNew |-> FALSE, on |-> {}, ae |-> FALSE, hdr |-> FALSE, sensorHdr |-> FALSE,
   sceneHdr |-> FALSE, sceneAuto |-> FALSE, redo |-> FALSE, hfr |-> "off", fixed |-> FALSE,
   flash |-> "off", led |-> "off", unsent |-> FALSE, fd |-> {}, burst |-> FALSE, longshot |-> FALSE,
   histogram |-> FALSE, livesize |-> <<"off", "picture">>]

-----------------------------------------------------------------------------
(* What setters are made of.                                                *)

\* A table with one more entry; one table's entries over another's.
With(f, k, v) == [x \in DOMAIN f \cup {k} |-> IF x = k THEN v ELSE f[x]]
Over(f, g) == [x \in DOMAIN f \cup DOMAIN g |-> IF x \in DOMAIN f THEN f[x] ELSE g[x]]

initBatchUpdate(t) == [t EXCEPT !.tmp = Empty, !.batch = Empty]
updateParamEntry(t, k, v) == [t EXCEPT !.tmp = With(@, k, v)]
AddSetParmEntryToBatch(t, e, v) == [t EXCEPT !.batch = With(@, e, v)]

Put(t, k, v) == [t EXCEPT !.key[k] = v]
RefuseValue(t) == [t EXCEPT !.rc = FALSE]
NeedRestart(t) == [t EXCEPT !.restart = TRUE]
Changed(t, p, k) == p[k] # Nothing /\ p[k] # t.key[k]

\* Mutant: the key is written before the daemon has taken the batch.
StageAtOnce(t, k, v) ==
  IF v = "bad" THEN RefuseValue(t) ELSE AddSetParmEntryToBatch(Put(t, k, v), k, v)

\* A new value that is valid is staged and sent.
Stage(t, k, v) ==
  IF v = "bad" THEN RefuseValue(t)
  ELSE AddSetParmEntryToBatch(updateParamEntry(t, k, v), k, v)
WhenNew(t, p, k, set(_, _)) == IF Changed(t, p, k) THEN set(t, p[k]) ELSE t

\* A value that is valid is written to the table at once.
Write(t, p, k) ==
  IF p[k] = Nothing THEN t ELSE IF p[k] = "bad" THEN RefuseValue(t) ELSE Put(t, k, p[k])

\* A feature's member is set at once, its key staged.
SetFeature(t, k, v) ==
  IF v = "bad" THEN RefuseValue(t)
  ELSE updateParamEntry([t EXCEPT !.on = IF v = "on" THEN @ \cup {k} ELSE @ \ {k}], k, v)
FeatureNew(t, p, k, set(_, _)) == IF Changed(t, p, k) THEN set(NeedRestart(t), p[k]) ELSE t

-----------------------------------------------------------------------------
(* The overloads that take a value.  Most look it up in a table or compare  *)
(* it with a range, and stage and send it; a feature's set its member.      *)

autoExposureValue(t, v) == Stage(t, "auto-exposure", v)
effectValue(t, v) == Stage(t, "effect", v)
focusModeValue(t, v) == Stage(t, "focus-mode", v)
focusPositionValue(t, v) == Stage(t, "focus-position", v)
brightnessValue(t, v) == Stage(t, "brightness", v)
sharpnessValue(t, v) == Stage(t, "sharpness", v)
skinToneEnhancementValue(t, v) == Stage(t, "skin-tone", v)
saturationValue(t, v) == Stage(t, "saturation", v)
contrastValue(t, v) == Stage(t, "contrast", v)
exposureCompensationValue(t, v) == Stage(t, "exposure-comp", v)
whiteBalanceValue(t, v) == Stage(t, "whitebalance", v)
setWBManualCCT(t, v) == Stage(t, "wb-manual", v)
antibandingValue(t, v) == Stage(t, "antibanding", v)
videoHDRValue(t, v) == Stage(t, "video-hdr", v)
vtEnableValue(t, v) == Stage(t, "vt", v)
zoomValue(t, v) == Stage(t, "zoom", v)
exposureTimeValue(t, v) == Stage(t, "exposure-time", v)
aecLockValue(t, v) == Stage(t, "aec-lock", v)
awbLockValue(t, v) == Stage(t, "awb-lock", v)
mceValue(t, v) == Stage(t, "mce", v)

\* Mutant: no restart is asked for.
disValueLive(t, v) == Stage(t, "dis", v)

disValue(t, v) == Stage(IF v = "bad" THEN t ELSE NeedRestart(t), "dis", v)
lensShadeValue(t, v) == Stage(t, "lensshade", v)
selectableZoneAfValue(t, v) == Stage(t, "zone-af", v)
redeyeReductionValue(t, v) == Stage(t, "redeye", v)
waveletDenoiseValue(t, v) == Stage(t, "denoise", v)
sceneModeValue(t, v) == Stage(t, "scene-mode", v)
tintlessValue(t, v) == Stage(t, "tintless", v)
cacheVideoBuffersValue(t, v) ==
  IF v = "bad" THEN RefuseValue(t) ELSE updateParamEntry(t, "cache-video", v)

\* The manual mode leaves the entry to setContinuousISO, which sends a new value only.
isoValue(t, v) == IF v = "manual" THEN updateParamEntry(t, "iso", v) ELSE Stage(t, "iso", v)
continuousISOValue(t, v) ==
  IF v = "bad" THEN RefuseValue(t)
  ELSE AddSetParmEntryToBatch(updateParamEntry(t, "continuous-iso", v), "iso", <<"manual", v>>)

\* The flash is sent by updateFlash.
flashValue(t, v) ==
  IF v = "bad" THEN RefuseValue(t) ELSE [updateParamEntry(t, "flash", v) EXCEPT !.flash = v]

\* One mask for face detection and recognition is sent when it changes.
faceRecognitionValue(t, v) ==
  IF v = "bad" THEN RefuseValue(t)
  ELSE LET fd == IF v = "on" THEN t.fd \cup {"recognition"} ELSE t.fd \ {"recognition"}
           u == updateParamEntry([t EXCEPT !.fd = fd], "face-recognition", v) IN
       IF fd = t.fd THEN u ELSE AddSetParmEntryToBatch(u, "fd", fd)

afBracketValue(t, v) == SetFeature(t, "af-bracket", v)
multiTouchFocusValue(t, v) == SetFeature(t, "multi-touch-focus", v)
chromaFlashValue(t, v) == SetFeature(t, "chroma-flash", v)
optiZoomValue(t, v) == SetFeature(t, "opti-zoom", v)
truePortraitValue(t, v) == SetFeature(t, "true-portrait", v)
seeMoreValue(t, v) == SetFeature(t, "see-more", v)
fssrValue(t, v) == SetFeature(t, "fssr", v)
touchAFAECValue(t, v) == SetFeature(t, "touch-af-aec", v)

-----------------------------------------------------------------------------
(* The setters, in the order of the source.                                 *)

setPreviewSize(t, p) ==
  IF p["preview-size"] = "bad" THEN RefuseValue(t)
  ELSE Put(IF Changed(t, p, "preview-size") THEN NeedRestart(t) ELSE t,
           "preview-size", p["preview-size"])
setPictureSize(t, p) ==
  IF p["picture-size"] = "bad" THEN RefuseValue(t)
  ELSE Put(IF (t.zsl \/ t.hint) /\ Changed(t, p, "picture-size") THEN NeedRestart(t) ELSE t,
           "picture-size", p["picture-size"])
setVideoSize(t, p) ==
  IF p["video-size"] = "bad" THEN RefuseValue(t)
  ELSE Put(IF t.hint /\ Changed(t, p, "video-size") THEN NeedRestart(t) ELSE t,
           "video-size", p["video-size"])

\* The picture's size if the table in use has it, else one of the preview's shape.
setLiveSnapshotSize(t, p) ==
  [t EXCEPT !.livesize =
     <<p["picture-size"],
       IF p["video-hdr"] = "on" THEN "vhdr"
       ELSE IF p["hsr"] = "on" THEN "hsr" ELSE IF p["hfr"] = "on" THEN "hfr" ELSE "picture">>]

setPreviewFormat(t, p) == Write(t, p, "preview-format")
setPictureFormat(t, p) == Write(t, p, "picture-format")
setJpegThumbnailSize(t, p) == Write(t, p, "thumbnail-size")
setJpegQuality(t, p) == Write(t, p, "quality")
setOrientation(t, p) == Write(t, p, "orientation")
setAutoExposure(t, p) == WhenNew(t, p, "auto-exposure", autoExposureValue)

\* The high frame rate mode is kept at once.
UpdateHFRFrameRate(t, p) ==
  LET Staged(u, k) == IF Changed(u, p, k) THEN updateParamEntry(u, k, p[k]) ELSE u
      mode == IF p["hfr"] = "on" THEN "hfr" ELSE IF p["hfr"] = "off" /\ p["hsr"] = "on" THEN "hsr"
              ELSE "off" IN
  [Staged(Staged(t, "hfr"), "hsr") EXCEPT !.hfr = mode]

\* A new frame rate is a range of its own until the app sends another range.
setPreviewFpsRange(t, p) ==
  LET u == UpdateHFRFrameRate(t, p)
      update == u.hfr # t.hfr
      w == IF update THEN AddSetParmEntryToBatch(NeedRestart(u), "hfr", u.hfr) ELSE u
      same == p["fps-range"] = t.key["fps-range"]
      range == IF same /\ t.fixed THEN [off |-> "slow", on |-> "fast"][p["frame-rate"]] ELSE p["fps-range"]
      x == IF same THEN [w EXCEPT !.fixed = FALSE] ELSE w IN
  IF same /\ ~t.fixed /\ ~update THEN w
  ELSE IF range = "bad" THEN RefuseValue(x)
  ELSE AddSetParmEntryToBatch(updateParamEntry(x, "fps-range", range), "fps", <<range, x.hfr>>)

setPreviewFrameRate(t, p) ==
  IF Changed(t, p, "frame-rate")
    THEN [updateParamEntry(t, "frame-rate", p["frame-rate"]) EXCEPT !.fixed = TRUE] ELSE t

\* A scene that went back to auto has reset the effect.
setEffect(t, p) ==
  IF p["effect"] # Nothing /\ (Changed(t, p, "effect") \/ t.redo)
    THEN effectValue([t EXCEPT !.redo = FALSE], p["effect"]) ELSE t
setFocusMode(t, p) == WhenNew(t, p, "focus-mode", focusModeValue)

\* A position counts in the manual mode only, and is sent again when that is entered.
setFocusPosition(t, p) ==
  IF p["focus-mode"] = "manual" /\ p["focus-position"] # Nothing
       /\ (Changed(t, p, "focus-position") \/ Changed(t, p, "focus-mode"))
    THEN focusPositionValue(t, p["focus-position"]) ELSE t

setBrightness(t, p) == WhenNew(t, p, "brightness", brightnessValue)
setSharpness(t, p) == WhenNew(t, p, "sharpness", sharpnessValue)
setSkinToneEnhancement(t, p) == WhenNew(t, p, "skin-tone", skinToneEnhancementValue)
setSaturation(t, p) == WhenNew(t, p, "saturation", saturationValue)
setContrast(t, p) == WhenNew(t, p, "contrast", contrastValue)
setExposureCompensation(t, p) == WhenNew(t, p, "exposure-comp", exposureCompensationValue)
setWhiteBalance(t, p) == WhenNew(t, p, "whitebalance", whiteBalanceValue)
setManualWhiteBalance(t, p) ==
  IF p["whitebalance"] = "manual" /\ p["wb-manual"] # Nothing
       /\ (Changed(t, p, "wb-manual") \/ Changed(t, p, "whitebalance"))
    THEN setWBManualCCT(t, p["wb-manual"]) ELSE t
setAntibanding(t, p) == WhenNew(t, p, "antibanding", antibandingValue)

\* Masks from system properties go with every request.
setDebugMasks(t) == AddSetParmEntryToBatch(t, "masks", "off")

setVideoHDR(t, p) == WhenNew(t, p, "video-hdr", videoHDRValue)
setVtEnable(t, p) == WhenNew(t, p, "vt", vtEnableValue)
setFaceRecognition(t, p) == WhenNew(t, p, "face-recognition", faceRecognitionValue)
setZoom(t, p) == WhenNew(t, p, "zoom", zoomValue)

setISOValue(t, p) == WhenNew(t, p, "iso", isoValue)
setContinuousISO(t, p) ==
  IF p["iso"] # "manual" THEN t ELSE WhenNew(t, p, "continuous-iso", continuousISOValue)

setExposureTime(t, p) == WhenNew(t, p, "exposure-time", exposureTimeValue)
setVideoRotation(t, p) == Write(t, p, "video-rotation")
setRotation(t, p) == Write(t, p, "rotation")
setFlash(t, p) == WhenNew(t, p, "flash", flashValue)
setAecLock(t, p) == WhenNew(t, p, "aec-lock", aecLockValue)
setAwbLock(t, p) == WhenNew(t, p, "awb-lock", awbLockValue)
setAutoHDR(t, p) ==
  IF Changed(t, p, "auto-hdr") THEN updateParamEntry(t, "auto-hdr", p["auto-hdr"]) ELSE t
setMCEValue(t, p) == WhenNew(t, p, "mce", mceValue)
setDISValue(t, p) == WhenNew(t, p, "dis", disValue)
setLensShadeValue(t, p) == WhenNew(t, p, "lensshade", lensShadeValue)

\* The areas are sent in the preview's coordinates; those for metering again when
\* the preview is restarted.
Areas(t, k, v) ==
  IF v = "bad" THEN RefuseValue(t)
  ELSE AddSetParmEntryToBatch(updateParamEntry(t, k, v), k, <<v, t.key["preview-size"]>>)
setFocusAreas(t, p) ==
  IF Changed(t, p, "focus-areas") THEN Areas(t, "focus-areas", p["focus-areas"]) ELSE t
setMeteringAreas(t, p) ==
  IF p["metering-areas"] # Nothing /\ (Changed(t, p, "metering-areas") \/ t.restart)
    THEN Areas(t, "metering-areas", p["metering-areas"]) ELSE t

\* HDR is the sensor's where it has one (CAM_QCOM_FEATURE_SENSOR_HDR; not on this
\* device), else the HAL's, which brackets the exposure.
setSceneMode(t, p) ==
  IF ~Changed(t, p, "scene-mode") THEN t
  ELSE LET v == p["scene-mode"]
           u == [t EXCEPT !.hdr = (v = "hdr"), !.sceneAuto = @ \/ v = "off"]
           w == IF u.hdr \/ t.key["scene-mode"] = "hdr" THEN NeedRestart(u) ELSE u IN
       sceneModeValue(w, v)
setHDRNeed1x(t, p) ==
  IF t.hdr /\ Changed(t, p, "hdr-1x")
    THEN AddSetParmEntryToBatch(updateParamEntry(t, "hdr-1x", p["hdr-1x"]), "hdr-1x", p["hdr-1x"])
    ELSE t

setSelectableZoneAf(t, p) == WhenNew(t, p, "zone-af", selectableZoneAfValue)

isHDREnabled(t) == ~t.burst /\ (t.hdr \/ t.sceneHdr)
SetBracket(t, v) ==
  updateParamEntry([t EXCEPT !.ae = (v = "on" /\ t.key["exposures"] = "on")], "ae-bracket", v)
setAEBracket(t, p) ==
  IF isHDREnabled(t) THEN SetBracket(t, "off")
  ELSE LET u == Put(t, "exposures", p["exposures"]) IN
       IF Changed(u, p, "ae-bracket") THEN SetBracket(u, p["ae-bracket"]) ELSE u

setAFBracket(t, p) == FeatureNew(t, p, "af-bracket", afBracketValue)
setMultiTouchFocus(t, p) == FeatureNew(t, p, "multi-touch-focus", multiTouchFocusValue)
setTouchAFAEC(t, p) ==
  WhenNew(t, p, "touch-af-aec", touchAFAECValue)
setChromaFlash(t, p) == FeatureNew(t, p, "chroma-flash", chromaFlashValue)
setOptiZoom(t, p) == FeatureNew(t, p, "opti-zoom", optiZoomValue)
setTruePortrait(t, p) == FeatureNew(t, p, "true-portrait", truePortraitValue)
setSeeMore(t, p) == FeatureNew(t, p, "see-more", seeMoreValue)
setRedeyeReduction(t, p) == WhenNew(t, p, "redeye", redeyeReductionValue)
setFssr(t, p) == FeatureNew(t, p, "fssr", fssrValue)
setGpsLocation(t, p) == Put(t, "gps", p["gps"])

\* The mode the next commit brings is compared with the one in force.
setRecordingHintValue(t, v) ==
  AddSetParmEntryToBatch(
    IF v # t.hint THEN NeedRestart([t EXCEPT !.hintNew = v]) ELSE [t EXCEPT !.hintNew = t.hint],
    "recording-hint", v)
setRecordingHint(t, p) ==
  IF ~Changed(t, p, "recording-hint") THEN t
  ELSE IF p["recording-hint"] = "bad" THEN RefuseValue(t)
  ELSE setRecordingHintValue(updateParamEntry(t, "recording-hint", p["recording-hint"]),
                             p["recording-hint"] = "on")
setNoDisplayMode(t, p) ==
  IF Changed(t, p, "no-display") THEN NeedRestart(Put(t, "no-display", p["no-display"])) ELSE t
setZslMode(t, p) ==
  IF ~Changed(t, p, "zsl") THEN t
  ELSE IF p["zsl"] = "bad" THEN RefuseValue(t)
  ELSE AddSetParmEntryToBatch(
         NeedRestart([Put(t, "zsl", p["zsl"]) EXCEPT !.zslNew = (p["zsl"] = "on")]), "zsl", p["zsl"])
setWaveletDenoise(t, p) == WhenNew(t, p, "denoise", waveletDenoiseValue)
setCameraMode(t, p) == Put(t, "camera-mode", p["camera-mode"])
setZslAttributes(t, p) == IF p["zsl-attributes"] = Nothing THEN Put(t, "zsl-attributes", "off")
                          ELSE Put(t, "zsl-attributes", p["zsl-attributes"])

Flip(t, p, k) == IF p[k] \in {"bad", Nothing} THEN t ELSE Put(t, k, p[k])
setFlip(t, p) == Flip(Flip(Flip(t, p, "preview-flip"), p, "video-flip"), p, "snapshot-flip")
setBurstNum(t, p) == [Put(t, "burst", p["burst"]) EXCEPT !.burst = (p["burst"] = "on")]

\* The key itself is never written.
setMaxLongshotNum(t, p) ==
  IF Changed(t, p, "longshot-max")
    THEN [t EXCEPT !.on = IF p["longshot-max"] = "on" THEN @ \cup {"longshot-max"}
                          ELSE @ \ {"longshot-max"}] ELSE t
setSnapshotFDReq(t, p) == IF p["snapshot-fd"] = Nothing THEN Put(t, "snapshot-fd", "off")
                          ELSE Put(t, "snapshot-fd", p["snapshot-fd"])

\* What is bad is not refused.
setTintlessValue(t, p) ==
  IF p["tintless"] = Nothing THEN (IF t.key["tintless"] = "off" THEN t ELSE tintlessValue(t, "off"))
  ELSE WhenNew(t, p, "tintless", tintlessValue)

\* Sent when it has not changed; what has changed is refused.
setCDSMode(t, p) ==
  IF p["cds"] = Nothing THEN Stage(t, "cds", "off")
  ELSE IF Changed(t, p, "cds") THEN RefuseValue(t) ELSE Stage(t, "cds", p["cds"])
setCacheVideoBuffers(t, p) == WhenNew(t, p, "cache-video", cacheVideoBuffersValue)
setLongshotParam(t, p) ==
  IF ~Changed(t, p, "longshot") THEN t
  ELSE LET u == Put(t, "longshot", p["longshot"]) IN
       IF p["longshot"] # "off" THEN u
       ELSE [(IF t.longshot THEN NeedRestart(u) ELSE u) EXCEPT !.longshot = FALSE]

\* HDR and the brackets go without a flash, the chroma flash needs one.  The value
\* is kept as the daemon's when it is put into the batch.
ledOf(t) ==
  IF isHDREnabled(t) \/ t.ae \/ t.sensorHdr
       \/ t.on \cap {"af-bracket", "opti-zoom", "fssr"} # {} THEN "off"
    ELSE IF "chroma-flash" \in t.on THEN "on" ELSE t.flash
updateFlash(t) ==
  LET v == ledOf(t) IN
  IF v = t.led THEN t ELSE AddSetParmEntryToBatch([t EXCEPT !.led = v, !.unsent = TRUE], "led", v)

updateSizesAndModes(t0, p) ==
  LET t1 == setPictureSize(setVideoSize(setPreviewSize(t0, p), p), p)
      t2 == setOrientation(setJpegQuality(setPictureFormat(setPreviewFormat(t1, p), p), p), p)
      t3 == setNoDisplayMode(setVideoRotation(setRotation(t2, p), p), p)
      t4 == setCameraMode(setZslAttributes(setZslMode(t3, p), p), p)
      t5 == setPreviewFrameRate(setRecordingHint(t4, p), p) IN
  setPreviewFpsRange(t5, p)

updateImage(t0, p) ==
  LET t1 == setZoom(setBrightness(setEffect(setAutoExposure(t0, p), p), p), p)
      t2 == setFocusMode(setContrast(setSaturation(setSharpness(t1, p), p), p), p)
      t3 == setSkinToneEnhancement(setExposureTime(setContinuousISO(setISOValue(t2, p), p), p), p)
      t4 == setLensShadeValue(setAwbLock(setAecLock(setFlash(t3, p), p), p), p)
      t5 == setAntibanding(setDISValue(setMCEValue(t4, p), p), p)
      t6 == setManualWhiteBalance(setWhiteBalance(setExposureCompensation(t5, p), p), p)
      t7 == setFocusPosition(setFocusAreas(setHDRNeed1x(setSceneMode(t6, p), p), p), p)
      t8 == setRedeyeReduction(setSelectableZoneAf(setMeteringAreas(t7, p), p), p) IN
  setAutoHDR(setAEBracket(t8, p), p)

updateFeatures(t0, p) ==
  LET t1 == setFaceRecognition(setWaveletDenoise(setGpsLocation(t0, p), p), p)
      t2 == setBurstNum(setVtEnable(setVideoHDR(setFlip(t1, p), p), p), p)
      t3 == setTintlessValue(setSnapshotFDReq(setMaxLongshotNum(t2, p), p), p)
      t4 == setLiveSnapshotSize(setCacheVideoBuffers(setCDSMode(t3, p), p), p)
      t5 == setAFBracket(setDebugMasks(setJpegThumbnailSize(t4, p)), p)
      t6 == setSeeMore(setFssr(setOptiZoom(setChromaFlash(t5, p), p), p), p)
      t7 == setTruePortrait(setLongshotParam(setTouchAFAEC(setMultiTouchFocus(t6, p), p), p), p) IN
  updateFlash(t7)

updateAllParameters(t, p) ==
  updateFeatures(updateImage(updateSizesAndModes(
    initBatchUpdate([t EXCEPT !.rc = TRUE, !.restart = FALSE]), p), p), p)

commitParamChanges(t) ==
  [t EXCEPT !.key = Over(t.tmp, @), !.tmp = Empty, !.hint = t.hintNew, !.zsl = t.zslNew,
            !.redo = @ \/ t.sceneAuto, !.sceneAuto = FALSE]

\* The batch goes to the daemon; if that takes it, what was staged is in force.
commitSetBatch(t, taken) ==
  IF taken THEN commitParamChanges([t EXCEPT !.srv = Over(t.batch, @),
                                             !.unsent = @ /\ "led" \notin DOMAIN t.batch])
  ELSE t

\* The entries that are a key's value and nothing else (set3ALock and setAndCommitZoom
\* send the others of theirs behind the table's back).
Plain == {"auto-exposure", "effect", "brightness", "sharpness", "skin-tone",
          "saturation", "contrast", "exposure-comp", "whitebalance", "antibanding", "video-hdr",
          "vt", "exposure-time", "mce", "dis", "lensshade",
          "scene-mode", "zone-af", "redeye", "denoise", "tintless", "cds"}

\* The setters that take a value send the defaults.
initDefaultParameters ==
  LET sent == Plain \ {"video-hdr", "vt", "tintless", "cds", "exposure-time"} IN
  commitSetBatch([Fresh EXCEPT !.batch = [k \in sent |-> "off"]], TRUE)

-----------------------------------------------------------------------------
(* Operations that send one entry at once.                                  *)

SendNow(t, e, v, taken) == commitSetBatch(AddSetParmEntryToBatch(initBatchUpdate(t), e, v), taken)

setFaceDetection(t, v, taken) ==
  LET fd == IF v THEN t.fd \cup {"detection"} ELSE t.fd \ {"detection"} IN
  IF fd = t.fd THEN t ELSE SendNow([t EXCEPT !.fd = fd], "fd", fd, taken)
updateHintValue(t, v, taken) ==
  commitSetBatch(setRecordingHintValue(initBatchUpdate(t), v), taken)
setLongshotEnable(t, v, taken) ==
  LET u == SendNow(t, "longshot", v, taken) IN
  IF taken /\ v THEN [u EXCEPT !.longshot = TRUE] ELSE u

setHDRSceneEnable(t, v, taken) ==
  IF t.sceneHdr = v THEN t
  ELSE commitSetBatch(updateFlash(initBatchUpdate([t EXCEPT !.sceneHdr = v])), taken)
setFrameSkip(t, v, taken) == SendNow(t, "frame-skip", v, taken)
setHistogram(t, v, taken) ==
  IF t.histogram = v THEN t
  ELSE LET u == SendNow(t, "histogram", v, taken) IN IF taken THEN [u EXCEPT !.histogram = v] ELSE u
setIntEvent(t, taken) == SendNow(t, "int-event", TRUE, taken)
setAndCommitZoom(t, v, taken) == SendNow(t, "zoom", v, taken)
commitAFBracket(t, v, taken) == SendNow(t, "focus-bracketing", v, taken)
commitFlashBracket(t, v, taken) == SendNow(t, "flash-bracketing", v, taken)
setHDRAEBracket(t, v, taken) == SendNow(t, "hdr", v, taken)
setAEBracketing(t, taken) == SendNow(t, "hdr", t.key["ae-bracket"], taken)

\* The size of the raw image is asked for once the largest one has been sent.
updateRAW(t, v, taken) == SendNow(t, "max-dimension", v, taken)

\* For a bracket of focus or zoom: the app's own locks are not put back.
set3ALock(t, v, taken) ==
  LET lock == IF v THEN "on" ELSE "off"
      u == AddSetParmEntryToBatch(AddSetParmEntryToBatch(initBatchUpdate(t), "awb-lock", lock),
                                  "aec-lock", lock)
      focusmode == IF ~v THEN t.key["focus-mode"]
                   ELSE IF "multi-touch-focus" \in t.on THEN "infinity" ELSE "fixed" IN
  commitSetBatch(AddSetParmEntryToBatch(u, "focus-mode", focusmode), taken)

-----------------------------------------------------------------------------

\* The size of a stream.
getStreamDimension(t, type) ==
  IF type \in {"preview", "postview"} THEN t.key["preview-size"]
  ELSE IF type = "video" THEN t.key["video-size"]
  ELSE IF type = "snapshot" /\ t.hint THEN t.livesize
  ELSE IF type = "snapshot" THEN t.key["picture-size"]
  ELSE "sensor"

\* What the channels of a preview are made from (preparePreview): their streams with
\* the sizes, and the modes.
Streams(t) ==
  {"metadata", "preview"} \cup (IF t.hint THEN {"video", "snapshot"}
                               ELSE IF t.zsl THEN {"snapshot"} ELSE {})
Config(t) ==
  [sizes |-> [type \in Streams(t) |-> getStreamDimension(t, type)],
   zsl |-> t.zsl, hint |-> t.hint, dis |-> t.key["dis"], nodisplay |-> t.key["no-display"],
   hfr |-> t.hfr, hdr |-> t.hdr, on |-> t.on \cap Features]

Init ==
  /\ focus \in Focus
  /\ s = initDefaultParameters
  /\ preview = "stopped" /\ config = Nothing

Requests == {[k \in Keys |-> IF k \in focus THEN f[k] ELSE s.key[k]] :
               f \in {g \in [focus -> UNION {ChoicesOf(k) : k \in focus}] :
                        \A k \in focus : g[k] \in ChoicesOf(k)}}
Taken == IF Faults THEN BOOLEAN ELSE {TRUE}

\* SET_PARAMS where no channel runs, or none that a restart is for.
SetParamsStopped(p) ==
  /\ preview = "stopped"
  /\ LET u == updateAllParameters(s, p) IN
       IF u.rc THEN \E ok \in Taken : s' = commitSetBatch(u, ok) ELSE s' = u
  /\ UNCHANGED <<focus, preview, config>>

\* SET_PARAMS in PREVIEWING: the preview is stopped, the change committed whatever
\* comes of it, and the preview started again if it can.
SetParamsPreviewing(p) ==
  /\ preview = "running"
  /\ LET u == updateAllParameters(s, p) IN
       IF ~u.rc THEN s' = u /\ UNCHANGED <<preview, config>>
       ELSE \E ok \in Taken :
         /\ s' = commitSetBatch(u, ok)
         /\ IF ~u.restart THEN UNCHANGED <<preview, config>>
            ELSE \/ preview' = "running" /\ config' = Config(s')
                 \/ preview' = "stopped" /\ config' = Nothing
  /\ UNCHANGED focus

\* SET_PARAMS in RECORDING: what needs a restart is refused.
SetParamsWhileRecording(p) ==
  /\ preview = "recording"
  /\ LET u == updateAllParameters(s, p) IN
       IF u.rc /\ ~u.restart THEN \E ok \in Taken : s' = commitSetBatch(u, ok)
       ELSE Faults /\ s' = u
  /\ UNCHANGED <<focus, preview, config>>

StartPreview ==
  /\ preview = "stopped" /\ preview' = "running" /\ config' = Config(s)
  /\ UNCHANGED <<focus, s>>
StopPreview ==
  /\ preview = "running" /\ preview' = "stopped" /\ config' = Nothing
  /\ UNCHANGED <<focus, s>>
StartRecording ==
  /\ preview = "running" /\ s.hint /\ preview' = "recording"
  /\ UNCHANGED <<focus, s, config>>
StopRecording ==
  /\ preview = "recording" /\ preview' = "running"
  /\ UNCHANGED <<focus, s, config>>

\* The HAL's own operations, between requests; which ones, is bounded by the focus.
SendOne ==
  \E v \in BOOLEAN, ok \in Taken :
    /\ \/ "face-recognition" \in focus /\ s' = setFaceDetection(s, v, ok)
       \/ "longshot" \in focus /\ s' = setLongshotEnable(s, v, ok)
       \/ "flash" \in focus /\ s' = setHDRSceneEnable(s, v, ok)
       \/ "zsl" \in focus /\ s' = setFrameSkip(s, v, ok)
       \/ "video-size" \in focus /\ s' = setHistogram(s, v, ok)
       \/ "no-display" \in focus /\ s' = setIntEvent(s, ok)
       \/ "preview-format" \in focus /\ s' = updateRAW(s, v, ok)
       \/ /\ s.ae /\ s' = setAEBracketing(s, ok)
       \/ /\ isHDREnabled(s) /\ s' = setHDRAEBracket(s, v, ok)
       \/ /\ s.on \cap {"af-bracket", "opti-zoom"} # {}
          /\ s' \in {set3ALock(s, v, ok), commitAFBracket(s, v, ok), setAndCommitZoom(s, v, ok)}
       \/ /\ "chroma-flash" \in s.on /\ s' = commitFlashBracket(s, v, ok)
    /\ UNCHANGED <<focus, preview, config>>

AnySetParams == \E p \in Requests : SetParamsStopped(p) \/ SetParamsPreviewing(p) \/ SetParamsWhileRecording(p)
Next == AnySetParams \/ StartPreview \/ StopPreview \/ StartRecording \/ StopRecording \/ SendOne

Spec == Init /\ [][Next]_vars

-----------------------------------------------------------------------------
(* What must hold.                                                          *)

\* Every part of the parameters stays in its domain, and what a channel was made from
\* exists exactly while the preview runs.
TypeOK ==
  /\ focus \in Focus
  /\ DOMAIN s.key = Keys /\ DOMAIN s.tmp \subseteq Keys
  /\ s.on \subseteq Features \cup {"touch-af-aec", "longshot-max"}
  /\ {s.rc, s.restart, s.zsl, s.zslNew, s.hint, s.hintNew, s.ae, s.hdr, s.sensorHdr,
      s.sceneHdr, s.sceneAuto, s.redo, s.fixed, s.unsent, s.burst, s.longshot, s.histogram} \subseteq BOOLEAN
  /\ s.led \in {"off", "on"} /\ s.hfr \in {"off", "hfr", "hsr"}
  /\ preview \in {"stopped", "running", "recording"} /\ (config = Nothing) = (preview = "stopped")

\* The table in force (getParameters) never holds a value that the daemon was not sent:
\* a request that is refused halfway, or a batch that the daemon does not take, leaves
\* both as they were (m_tempMap, commitSetBatch).
InForceIsSent ==
  \A k \in Plain : s.key[k] = (IF k \in DOMAIN s.srv THEN s.srv[k] ELSE "off")

\* While a preview runs its channels are those of the parameters in force: a setter
\* whose value a channel is made from asks for the restart.  It is a property of the
\* keys in Focus, not of every key: it fails where values can be refused
\* (ModeNeedsRestart), and where recording-hint meets video-hdr, which changes the live
\* snapshot's size (setLiveSnapshotSize) and asks for no restart (setVideoHDR).
RunsWhatIsSet == config # Nothing => config = Config(s)

\* The flash that was decided last is the one that the scene, the brackets and the
\* features allow, whichever operation changed them, and it is the one that the daemon
\* was sent last, unless the batch it was put into was refused or given up.  In that case
\* the daemon keeps the old flash until another value is decided: mFlashDaemonValue
\* already holds this one, and updateFlash sends a change only.
LedSent(t) == IF "led" \in DOMAIN t.srv THEN t.srv["led"] ELSE "off"
FlashFollows == s.led = ledOf(s) /\ (s.unsent \/ LedSent(s) = s.led)

\* QCameraParameters.cpp:3804: "ZSL mode changed, need restart preview".  This fails
\* when the daemon refuses another key of the same request.
ModeNeedsRestart == [][config # Nothing /\ s'.zsl # s.zsl => config' # config]_vars
=============================================================================
