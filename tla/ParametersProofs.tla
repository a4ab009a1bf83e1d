------------------------- MODULE ParametersProofs -------------------------
(***************************************************************************)
(* Proofs about the camera's parameters: whatever a request changes, refuses *)
(* or restarts, and whatever the daemon takes, the settings in force are     *)
(* those it was sent last, and the flash is the one that they allow.  A      *)
(* setter keeps the batch and what is staged alike (Batched); a commit that  *)
(* is taken writes both.                                                     *)
(***************************************************************************)
EXTENDS Parameters, TLAPS

Fields ==
  {"key", "tmp", "batch", "srv", "rc", "restart", "zsl", "zslNew", "hint", "hintNew", "on",
   "ae", "hdr", "sensorHdr", "sceneHdr", "sceneAuto", "redo", "hfr", "fixed", "flash", "led",
   "unsent", "fd", "burst", "longshot", "histogram", "livesize"}

IsTable(t) == DOMAIN t = Fields /\ Keys \subseteq DOMAIN t.key

(* What InForceIsSent says of the parameters t.                             *)
Sent(t) ==
  IsTable(t) /\ \A k \in Plain : t.key[k] = (IF k \in DOMAIN t.srv THEN t.srv[k] ELSE "off")

(* A plain key is staged if and only if it is in the batch, with that value. *)
Batched(t) ==
  \A k \in Plain : /\ k \in DOMAIN t.tmp <=> k \in DOMAIN t.batch
                   /\ k \in DOMAIN t.tmp => t.tmp[k] = t.batch[k]

(* The daemon was sent the flash decided last, but for what is still in the batch or  *)
(* was given up with one.                                                   *)
LedKept(t) == t.unsent \/ LedSent(t) = t.led
LedBatched(t) == "led" \in DOMAIN t.batch => t.unsent /\ t.batch["led"] = t.led

Ok(t) == Sent(t) /\ Batched(t) /\ LedKept(t) /\ LedBatched(t)

(* The table, what is staged, the batch, what was sent and the flash stay.  *)
SameTable(t, u) ==
  /\ DOMAIN u = Fields /\ u.key = t.key /\ u.tmp = t.tmp /\ u.batch = t.batch /\ u.srv = t.srv
  /\ u.led = t.led /\ u.unsent = t.unsent

-----------------------------------------------------------------------------
(* What setters are made of.                                                *)

LEMMA SameTableOk == ASSUME NEW t, NEW u, Ok(t), SameTable(t, u) PROVE Ok(u)
  BY DEF Ok, Sent, Batched, IsTable, SameTable, LedKept, LedBatched, LedSent

LEMMA PlainKeys == Plain \subseteq Keys
  BY DEF Plain, Keys

LEMMA RefuseOk == ASSUME NEW t, Ok(t) PROVE Ok(RefuseValue(t)) /\ Ok(NeedRestart(t))
<1>1. SameTable(t, RefuseValue(t))
  BY DEF SameTable, RefuseValue, Ok, Sent, IsTable, Fields
<1>2. SameTable(t, NeedRestart(t))
  BY DEF SameTable, NeedRestart, Ok, Sent, IsTable, Fields
<1>. QED
  BY <1>1, <1>2, SameTableOk

LEMMA PutOk == ASSUME NEW t, Ok(t), NEW k \in Keys \ Plain, NEW v PROVE Ok(Put(t, k, v))
<1>. DEFINE u == Put(t, k, v)
<1>1. DOMAIN t = Fields /\ Keys \subseteq DOMAIN t.key
  BY DEF Ok, Sent, IsTable
<1>2. /\ DOMAIN u = Fields /\ Keys \subseteq DOMAIN u.key /\ u.tmp = t.tmp /\ u.batch = t.batch
      /\ u.srv = t.srv /\ u.led = t.led /\ u.unsent = t.unsent
      /\ \A x \in Plain : u.key[x] = t.key[x]
  BY <1>1, PlainKeys DEF Put, Fields
<1>. HIDE DEF u
<1>3. Sent(u)
  BY <1>2 DEF Ok, Sent, IsTable
<1>4. Batched(u)
  BY <1>2 DEF Ok, Batched
<1>5. LedKept(u) /\ LedBatched(u)
  BY <1>2 DEF Ok, LedKept, LedBatched, LedSent
<1>. QED
  BY <1>3, <1>4, <1>5 DEF Ok, u

LEMMA EntryOk ==
    ASSUME NEW t, Ok(t), NEW k, k \notin Plain, k # "led", NEW v
    PROVE  Ok(updateParamEntry(t, k, v)) /\ Ok(AddSetParmEntryToBatch(t, k, v))
<1>1. DOMAIN t = Fields
  BY DEF Ok, Sent, IsTable
<1>2. ASSUME NEW f
      PROVE  /\ \A x \in Plain : x \in DOMAIN With(f, k, v) <=> x \in DOMAIN f
             /\ \A x \in Plain : x \in DOMAIN f => With(f, k, v)[x] = f[x]
             /\ "led" \in DOMAIN With(f, k, v) <=> "led" \in DOMAIN f
             /\ "led" \in DOMAIN f => With(f, k, v)["led"] = f["led"]
  BY DEF With
<1>3. Ok(updateParamEntry(t, k, v))
  <2>. DEFINE u == updateParamEntry(t, k, v)
  <2>1. /\ DOMAIN u = Fields /\ u.key = t.key /\ u.batch = t.batch
        /\ u.srv = t.srv /\ u.tmp = With(t.tmp, k, v) /\ u.led = t.led /\ u.unsent = t.unsent
    BY <1>1 DEF updateParamEntry, Fields
  <2>. HIDE DEF u
  <2>2. \A x \in Plain : (x \in DOMAIN u.tmp <=> x \in DOMAIN t.tmp) /\ (x \in DOMAIN t.tmp => u.tmp[x] = t.tmp[x])
    BY <1>2, <2>1
  <2>3. Sent(u)
    BY <2>1 DEF Ok, Sent, IsTable
  <2>4. Batched(u)
    BY <2>1, <2>2 DEF Ok, Batched
  <2>5. LedKept(u) /\ LedBatched(u)
    BY <2>1 DEF Ok, LedKept, LedBatched, LedSent
  <2>. QED
    BY <2>3, <2>4, <2>5 DEF Ok, u
<1>4. Ok(AddSetParmEntryToBatch(t, k, v))
  <2>. DEFINE u == AddSetParmEntryToBatch(t, k, v)
  <2>1. /\ DOMAIN u = Fields /\ u.key = t.key /\ u.tmp = t.tmp
        /\ u.srv = t.srv /\ u.batch = With(t.batch, k, v) /\ u.led = t.led /\ u.unsent = t.unsent
    BY <1>1 DEF AddSetParmEntryToBatch, Fields
  <2>. HIDE DEF u
  <2>2. \A x \in Plain : (x \in DOMAIN u.batch <=> x \in DOMAIN t.batch) /\ (x \in DOMAIN t.batch => u.batch[x] = t.batch[x])
    BY <1>2, <2>1
  <2>3. Sent(u)
    BY <2>1 DEF Ok, Sent, IsTable
  <2>4. Batched(u)
    BY <2>1, <2>2 DEF Ok, Batched
  <2>5. LedKept(u) /\ LedBatched(u)
    BY <1>2, <2>1 DEF Ok, LedKept, LedBatched, LedSent
  <2>. QED
    BY <2>3, <2>4, <2>5 DEF Ok, u
<1>. QED
  BY <1>3, <1>4

LEMMA StageOk == ASSUME NEW t, Ok(t), NEW k, k # "led", NEW v PROVE Ok(Stage(t, k, v))
<1>1. CASE v = "bad"
  BY <1>1, RefuseOk DEF Stage
<1>2. CASE v # "bad"
  <2>. DEFINE u == Stage(t, k, v)
  <2>1. DOMAIN t = Fields
    BY DEF Ok, Sent, IsTable
  <2>2. /\ DOMAIN u = Fields /\ u.key = t.key /\ u.srv = t.srv
        /\ u.tmp = With(t.tmp, k, v) /\ u.batch = With(t.batch, k, v)
        /\ u.led = t.led /\ u.unsent = t.unsent
    BY <1>2, <2>1 DEF Stage, AddSetParmEntryToBatch, updateParamEntry, Fields
  <2>. HIDE DEF u
  <2>3. \A f : /\ DOMAIN With(f, k, v) = {k} \cup DOMAIN f
               /\ With(f, k, v)[k] = v
               /\ \A x \in DOMAIN f : x # k => With(f, k, v)[x] = f[x]
    BY DEF With
  <2>4. Batched(u)
    <3>. SUFFICES ASSUME NEW x \in Plain
                  PROVE  /\ x \in DOMAIN u.tmp <=> x \in DOMAIN u.batch
                         /\ x \in DOMAIN u.tmp => u.tmp[x] = u.batch[x]
      BY DEF Batched
    <3>1. /\ x \in DOMAIN t.tmp <=> x \in DOMAIN t.batch
          /\ x \in DOMAIN t.tmp => t.tmp[x] = t.batch[x]
      BY DEF Ok, Batched
    <3>2. CASE x = k
      BY <2>2, <2>3, <3>2
    <3>3. CASE x # k
      BY <2>2, <2>3, <3>1, <3>3
    <3>. QED
      BY <3>2, <3>3
  <2>5. Sent(u)
    BY <2>2 DEF Ok, Sent, IsTable
  <2>6. LedKept(u)
    BY <2>2 DEF Ok, LedKept, LedSent
  <2>7. LedBatched(u)
    <3>1. LedBatched(t) /\ DOMAIN u.batch = {k} \cup DOMAIN t.batch
      BY <2>2, <2>3 DEF Ok
    <3>2. "led" \in DOMAIN t.batch => u.batch["led"] = t.batch["led"]
      BY <2>2, <2>3
    <3>. QED
      BY <2>2, <3>1, <3>2 DEF LedBatched
  <2>. QED
    BY <2>4, <2>5, <2>6, <2>7 DEF Ok, u
<1>. QED
  BY <1>1, <1>2

-----------------------------------------------------------------------------
(* The setters.                                                             *)

(* Setters that stage, refuse or write a key and do nothing else.           *)
LEMMA WriteOk == ASSUME NEW t, Ok(t), NEW p, NEW k \in Keys \ Plain PROVE Ok(Write(t, p, k)) /\ Ok(Flip(t, p, k))
  BY RefuseOk, PutOk DEF Write, Flip

LEMMA WrittenOk ==
    ASSUME NEW t, Ok(t), NEW p
    PROVE  /\ Ok(setPreviewFormat(t, p)) /\ Ok(setPictureFormat(t, p)) /\ Ok(setJpegThumbnailSize(t, p))
           /\ Ok(setJpegQuality(t, p)) /\ Ok(setOrientation(t, p)) /\ Ok(setVideoRotation(t, p))
           /\ Ok(setRotation(t, p)) /\ Ok(setCameraMode(t, p)) /\ Ok(setGpsLocation(t, p))
           /\ Ok(setZslAttributes(t, p)) /\ Ok(setSnapshotFDReq(t, p)) /\ Ok(setFlip(t, p))
<1>1. {"preview-format", "picture-format", "thumbnail-size", "quality", "orientation",
       "video-rotation", "rotation", "camera-mode", "gps", "zsl-attributes", "snapshot-fd"}
        \cup Flips \subseteq Keys \ Plain
  BY DEF Keys, Flips, Plain
<1>. QED
  BY <1>1, WriteOk, PutOk DEF setPreviewFormat, setPictureFormat, setJpegThumbnailSize, setJpegQuality,
     setOrientation, setVideoRotation, setRotation, setCameraMode, setGpsLocation,
     setZslAttributes, setSnapshotFDReq, setFlip, Flips

LEMMA SizesOk ==
    ASSUME NEW t, Ok(t), NEW p
    PROVE  /\ Ok(setPreviewSize(t, p)) /\ Ok(setPictureSize(t, p)) /\ Ok(setVideoSize(t, p))
           /\ Ok(setNoDisplayMode(t, p))
<1>1. {"preview-size", "picture-size", "video-size", "no-display"} \subseteq Keys \ Plain
  BY DEF Keys, Plain
<1>. QED
  BY <1>1, RefuseOk, PutOk DEF setPreviewSize, setPictureSize, setVideoSize, setNoDisplayMode

LEMMA StagedOk ==
    ASSUME NEW t, Ok(t), NEW p
    PROVE  /\ Ok(setAutoExposure(t, p)) /\ Ok(setFocusMode(t, p)) /\ Ok(setFocusPosition(t, p))
           /\ Ok(setBrightness(t, p)) /\ Ok(setSharpness(t, p)) /\ Ok(setSkinToneEnhancement(t, p))
           /\ Ok(setSaturation(t, p)) /\ Ok(setContrast(t, p)) /\ Ok(setExposureCompensation(t, p))
           /\ Ok(setWhiteBalance(t, p)) /\ Ok(setManualWhiteBalance(t, p)) /\ Ok(setAntibanding(t, p))
<1>1. /\ Ok(setAutoExposure(t, p)) /\ Ok(setFocusMode(t, p)) /\ Ok(setBrightness(t, p))
      /\ Ok(setSharpness(t, p)) /\ Ok(setSkinToneEnhancement(t, p)) /\ Ok(setSaturation(t, p))
  BY StageOk DEF WhenNew, setAutoExposure, autoExposureValue, setFocusMode, focusModeValue,
     setBrightness, brightnessValue, setSharpness, sharpnessValue, setSkinToneEnhancement,
     skinToneEnhancementValue, setSaturation, saturationValue
<1>2. /\ Ok(setContrast(t, p)) /\ Ok(setExposureCompensation(t, p)) /\ Ok(setWhiteBalance(t, p))
      /\ Ok(setAntibanding(t, p))
  BY StageOk DEF WhenNew, setContrast, contrastValue, setExposureCompensation,
     exposureCompensationValue, setWhiteBalance, whiteBalanceValue, setAntibanding, antibandingValue
<1>3. Ok(setFocusPosition(t, p)) /\ Ok(setManualWhiteBalance(t, p))
  BY StageOk DEF setFocusPosition, focusPositionValue, setManualWhiteBalance, setWBManualCCT
<1>. QED
  BY <1>1, <1>2, <1>3

LEMMA MoreStagedOk ==
    ASSUME NEW t, Ok(t), NEW p
    PROVE  /\ Ok(setVideoHDR(t, p)) /\ Ok(setVtEnable(t, p)) /\ Ok(setZoom(t, p))
           /\ Ok(setExposureTime(t, p)) /\ Ok(setAecLock(t, p)) /\ Ok(setAwbLock(t, p))
           /\ Ok(setMCEValue(t, p)) /\ Ok(setDISValue(t, p)) /\ Ok(setLensShadeValue(t, p))
           /\ Ok(setSelectableZoneAf(t, p)) /\ Ok(setRedeyeReduction(t, p)) /\ Ok(setWaveletDenoise(t, p))
           /\ Ok(setTintlessValue(t, p)) /\ Ok(setCDSMode(t, p))
  BY StageOk, RefuseOk DEF WhenNew, setVideoHDR, videoHDRValue, setVtEnable, vtEnableValue, setZoom,
     zoomValue, setExposureTime, exposureTimeValue, setAecLock, aecLockValue, setAwbLock,
     awbLockValue, setMCEValue, mceValue, setDISValue, disValue, setLensShadeValue, lensShadeValue,
     setSelectableZoneAf, selectableZoneAfValue, setRedeyeReduction, redeyeReductionValue,
     setWaveletDenoise, waveletDenoiseValue, setTintlessValue, tintlessValue, setCDSMode

(* Setters whose entries are no plain keys.                                 *)
LEMMA OthersOk ==
    ASSUME NEW t, Ok(t), NEW p
    PROVE  /\ Ok(setISOValue(t, p)) /\ Ok(setContinuousISO(t, p)) /\ Ok(setAutoHDR(t, p))
           /\ Ok(setFocusAreas(t, p)) /\ Ok(setMeteringAreas(t, p)) /\ Ok(setHDRNeed1x(t, p))
           /\ Ok(setCacheVideoBuffers(t, p)) /\ Ok(setDebugMasks(t))
<1>1. {"iso", "continuous-iso", "auto-hdr", "focus-areas", "metering-areas", "hdr-1x",
       "cache-video", "masks"} \cap Plain = {}
  BY DEF Plain
<1>. QED
  BY <1>1, EntryOk, StageOk, RefuseOk
     DEF WhenNew, setISOValue, isoValue, setContinuousISO, continuousISOValue, setAutoHDR, setFocusAreas,
         setMeteringAreas, Areas, setHDRNeed1x, setCacheVideoBuffers, cacheVideoBuffersValue, setDebugMasks

(* A change of another field.                                               *)
LEMMA FieldOk ==
    ASSUME NEW t, Ok(t), NEW f \in Fields \ {"key", "tmp", "batch", "srv", "led", "unsent"}, NEW x
    PROVE  Ok([t EXCEPT ![f] = x])
<1>1. SameTable(t, [t EXCEPT ![f] = x])
  BY DEF SameTable, Ok, Sent, IsTable, Fields
<1>. QED
  BY <1>1, SameTableOk

LEMMA FaceRecognitionOk == ASSUME NEW t, Ok(t), NEW p PROVE Ok(setFaceRecognition(t, p))
<1>1. \A fd : Ok([t EXCEPT !.fd = fd])
  BY FieldOk DEF Fields
<1>2. "face-recognition" \notin Plain /\ "fd" \notin Plain
  BY DEF Plain
<1>3. ASSUME NEW v PROVE Ok(faceRecognitionValue(t, v))
  <2>. DEFINE fd == IF v = "on" THEN t.fd \cup {"recognition"} ELSE t.fd \ {"recognition"}
              u == updateParamEntry([t EXCEPT !.fd = fd], "face-recognition", v)
  <2>1. Ok([t EXCEPT !.fd = fd])
    BY <1>1
  <2>2. Ok(u)
    BY <1>2, <2>1, EntryOk
  <2>3. Ok(AddSetParmEntryToBatch(u, "fd", fd))
    <3>. HIDE DEF u, fd
    <3>. QED
      BY <1>2, <2>2, EntryOk
  <2>. QED
    BY <2>2, <2>3, RefuseOk DEF faceRecognitionValue
<1>. QED
  BY <1>3 DEF setFaceRecognition, WhenNew

LEMMA FlashOk == ASSUME NEW t, Ok(t), NEW p PROVE Ok(setFlash(t, p))
<1>1. ASSUME NEW v PROVE Ok(flashValue(t, v))
  <2>. DEFINE u == updateParamEntry(t, "flash", v)
  <2>1. Ok(u)
    BY EntryOk DEF Plain
  <2>2. Ok([u EXCEPT !.flash = v])
    <3>. HIDE DEF u
    <3>. QED
      BY <2>1, FieldOk DEF Fields
  <2>. QED
    BY <2>2, RefuseOk DEF flashValue
<1>. QED
  BY <1>1 DEF setFlash, WhenNew

LEMMA EffectOk == ASSUME NEW t, Ok(t), NEW p PROVE Ok(setEffect(t, p))
<1>1. Ok([t EXCEPT !.redo = FALSE])
  BY FieldOk DEF Fields
<1>2. \A v : Ok(effectValue([t EXCEPT !.redo = FALSE], v))
  BY <1>1, StageOk DEF effectValue
<1>. QED
  BY <1>2 DEF setEffect

LEMMA FrameRateOk == ASSUME NEW t, Ok(t), NEW p PROVE Ok(setPreviewFrameRate(t, p))
<1>. DEFINE u == updateParamEntry(t, "frame-rate", p["frame-rate"])
<1>1. Ok(u)
  BY EntryOk DEF Plain
<1>2. Ok([u EXCEPT !.fixed = TRUE])
  <2>. HIDE DEF u
  <2>. QED
    BY <1>1, FieldOk DEF Fields
<1>. QED
  BY <1>2 DEF setPreviewFrameRate

LEMMA HFROk == ASSUME NEW t, Ok(t), NEW p PROVE Ok(UpdateHFRFrameRate(t, p))
<1>. DEFINE Staged(u, k) == IF Changed(u, p, k) THEN updateParamEntry(u, k, p[k]) ELSE u
            u == Staged(Staged(t, "hfr"), "hsr")
<1>1. Ok(u)
  <2>1. "hfr" \notin Plain /\ "hsr" \notin Plain
    BY DEF Plain
  <2>2. Ok(Staged(t, "hfr"))
    BY <2>1, EntryOk
  <2>. QED
    BY <2>1, <2>2, EntryOk
<1>2. \A mode : Ok([u EXCEPT !.hfr = mode])
  <2>. HIDE DEF u
  <2>. QED
    BY <1>1, FieldOk DEF Fields
<1>. QED
  BY <1>2 DEF UpdateHFRFrameRate

LEMMA FpsRangeOk == ASSUME NEW t, Ok(t), NEW p PROVE Ok(setPreviewFpsRange(t, p))
<1>. DEFINE u == UpdateHFRFrameRate(t, p)
            update == u.hfr # t.hfr
            w == IF update THEN AddSetParmEntryToBatch(NeedRestart(u), "hfr", u.hfr) ELSE u
            same == p["fps-range"] = t.key["fps-range"]
            range == IF same /\ t.fixed THEN [off |-> "slow", on |-> "fast"][p["frame-rate"]] ELSE p["fps-range"]
            x == IF same THEN [w EXCEPT !.fixed = FALSE] ELSE w
<1>1. "hfr" \notin Plain /\ "fps-range" \notin Plain /\ "fps" \notin Plain
  BY DEF Plain
<1>2. Ok(u)
  BY HFROk
<1>3. Ok(w)
  <2>. HIDE DEF u
  <2>. QED
    BY <1>1, <1>2, RefuseOk, EntryOk
<1>4. Ok(x)
  <2>1. Ok([w EXCEPT !.fixed = FALSE])
    <3>. HIDE DEF w
    <3>. QED
      BY <1>3, FieldOk DEF Fields
  <2>. QED
    BY <1>3, <2>1
<1>5. \A r : Ok(AddSetParmEntryToBatch(updateParamEntry(x, "fps-range", r), "fps", <<r, x.hfr>>))
  <2>. HIDE DEF x
  <2>. QED
    BY <1>1, <1>4, EntryOk
<1>. HIDE DEF u, w, x, same, range, update
<1>6. \/ setPreviewFpsRange(t, p) \in {w, RefuseValue(x)}
      \/ setPreviewFpsRange(t, p) = AddSetParmEntryToBatch(updateParamEntry(x, "fps-range", range), "fps", <<range, x.hfr>>)
  <2>. USE DEF u, w, x, same, range, update
  <2>. QED
    BY Zenon DEF setPreviewFpsRange
<1>. QED
  BY <1>3, <1>4, <1>5, <1>6, RefuseOk

LEMMA SceneModeOk == ASSUME NEW t, Ok(t), NEW p PROVE Ok(setSceneMode(t, p))
<1>. DEFINE v == p["scene-mode"]
            u == [t EXCEPT !.hdr = (v = "hdr"), !.sceneAuto = @ \/ v = "off"]
<1>1. Ok(u)
  <2>1. SameTable(t, u)
    BY DEF SameTable, Ok, Sent, IsTable, Fields
  <2>. QED
    BY <2>1, SameTableOk
<1>2. Ok(sceneModeValue(u, v)) /\ Ok(sceneModeValue(NeedRestart(u), v))
  <2>. HIDE DEF u
  <2>. QED
    BY <1>1, RefuseOk, StageOk DEF sceneModeValue
<1>3. setSceneMode(t, p) \in {t, sceneModeValue(u, v), sceneModeValue(NeedRestart(u), v)}
  BY Zenon DEF setSceneMode
<1>. QED
  BY <1>2, <1>3

LEMMA AEBracketOk == ASSUME NEW t, Ok(t), NEW p PROVE Ok(setAEBracket(t, p))
<1>1. ASSUME NEW u, Ok(u), NEW v PROVE Ok(SetBracket(u, v))
  <2>. DEFINE w == [u EXCEPT !.ae = (v = "on" /\ u.key["exposures"] = "on")]
  <2>1. Ok(w)
    BY <1>1, FieldOk DEF Fields
  <2>2. Ok(updateParamEntry(w, "ae-bracket", v))
    <3>. HIDE DEF w
    <3>. QED
      BY <2>1, EntryOk DEF Plain
  <2>. QED
    BY <2>2 DEF SetBracket
<1>2. Ok(Put(t, "exposures", p["exposures"]))
  BY PutOk DEF Keys, Plain
<1>. QED
  BY <1>1, <1>2 DEF setAEBracket

LEMMA FeaturesOk ==
    ASSUME NEW t, Ok(t), NEW p
    PROVE  /\ Ok(setAFBracket(t, p)) /\ Ok(setMultiTouchFocus(t, p)) /\ Ok(setTouchAFAEC(t, p))
           /\ Ok(setChromaFlash(t, p)) /\ Ok(setOptiZoom(t, p)) /\ Ok(setTruePortrait(t, p))
           /\ Ok(setSeeMore(t, p)) /\ Ok(setFssr(t, p)) /\ Ok(setMaxLongshotNum(t, p))
<1>1. ASSUME NEW u, Ok(u) PROVE \A on : Ok([u EXCEPT !.on = on])
  BY <1>1, FieldOk DEF Fields
<1>2. ASSUME NEW u, Ok(u), NEW k, k \notin Plain, k # "led", NEW v PROVE Ok(SetFeature(u, k, v))
  <2>. DEFINE w == [u EXCEPT !.on = IF v = "on" THEN @ \cup {k} ELSE @ \ {k}]
  <2>1. Ok(w)
    BY <1>1, <1>2
  <2>2. Ok(updateParamEntry(w, k, v))
    <3>. HIDE DEF w
    <3>. QED
      BY <1>2, <2>1, EntryOk
  <2>. QED
    BY <1>2, <2>2, RefuseOk DEF SetFeature
<1>3. (Features \cup {"touch-af-aec"}) \cap (Plain \cup {"led"}) = {}
  BY DEF Features, Plain
<1>4. ASSUME NEW k \in Features \cup {"touch-af-aec"}, NEW v
      PROVE  Ok(SetFeature(t, k, v)) /\ Ok(SetFeature(NeedRestart(t), k, v))
  BY <1>2, <1>3, RefuseOk
<1>5. /\ Ok(setAFBracket(t, p)) /\ Ok(setMultiTouchFocus(t, p)) /\ Ok(setTouchAFAEC(t, p))
      /\ Ok(setChromaFlash(t, p))
  BY <1>4 DEF FeatureNew, WhenNew, Features, setAFBracket, afBracketValue, setMultiTouchFocus,
     multiTouchFocusValue, setTouchAFAEC, touchAFAECValue, setChromaFlash, chromaFlashValue
<1>6. /\ Ok(setOptiZoom(t, p)) /\ Ok(setTruePortrait(t, p)) /\ Ok(setSeeMore(t, p)) /\ Ok(setFssr(t, p))
  BY <1>4 DEF FeatureNew, Features, setOptiZoom, optiZoomValue, setTruePortrait, truePortraitValue,
     setSeeMore, seeMoreValue, setFssr, fssrValue
<1>7. Ok(setMaxLongshotNum(t, p))
  BY <1>1 DEF setMaxLongshotNum
<1>. QED
  BY <1>5, <1>6, <1>7

LEMMA HintValueOk == ASSUME NEW t, Ok(t), NEW v PROVE Ok(setRecordingHintValue(t, v))
<1>. DEFINE u == IF v # t.hint THEN NeedRestart([t EXCEPT !.hintNew = v]) ELSE [t EXCEPT !.hintNew = t.hint]
<1>1. \A x : Ok([t EXCEPT !.hintNew = x])
  BY FieldOk DEF Fields
<1>2. Ok(u)
  BY <1>1, RefuseOk
<1>3. Ok(AddSetParmEntryToBatch(u, "recording-hint", v))
  <2>. HIDE DEF u
  <2>. QED
    BY <1>2, EntryOk DEF Plain
<1>. QED
  BY <1>3 DEF setRecordingHintValue

LEMMA ModesOk == ASSUME NEW t, Ok(t), NEW p PROVE Ok(setRecordingHint(t, p)) /\ Ok(setZslMode(t, p))
<1>1. Ok(setRecordingHint(t, p))
  <2>1. Ok(updateParamEntry(t, "recording-hint", p["recording-hint"]))
    BY EntryOk DEF Plain
  <2>. QED
    BY <2>1, RefuseOk, HintValueOk DEF setRecordingHint
<1>2. Ok(setZslMode(t, p))
  <2>. DEFINE u == [Put(t, "zsl", p["zsl"]) EXCEPT !.zslNew = (p["zsl"] = "on")]
  <2>1. Ok(Put(t, "zsl", p["zsl"]))
    BY PutOk DEF Keys, Plain
  <2>2. Ok(u)
    BY <2>1, FieldOk DEF Fields
  <2>3. Ok(AddSetParmEntryToBatch(NeedRestart(u), "zsl", p["zsl"]))
    <3>. HIDE DEF u
    <3>. QED
      BY <2>2, RefuseOk, EntryOk DEF Plain
  <2>. QED
    BY <2>3, RefuseOk DEF setZslMode
<1>. QED
  BY <1>1, <1>2

LEMMA BurstAndSizeOk == ASSUME NEW t, Ok(t), NEW p PROVE Ok(setBurstNum(t, p)) /\ Ok(setLiveSnapshotSize(t, p))
<1>1. Ok(setBurstNum(t, p))
  <2>1. Ok(Put(t, "burst", p["burst"]))
    BY PutOk DEF Keys, Plain
  <2>. QED
    BY <2>1, FieldOk DEF Fields, setBurstNum
<1>2. Ok(setLiveSnapshotSize(t, p))
  BY FieldOk DEF Fields, setLiveSnapshotSize
<1>. QED
  BY <1>1, <1>2

LEMMA LongshotOk == ASSUME NEW t, Ok(t), NEW p PROVE Ok(setLongshotParam(t, p))
<1>. DEFINE u == Put(t, "longshot", p["longshot"])
            w == IF t.longshot THEN NeedRestart(u) ELSE u
<1>1. Ok(u)
  BY PutOk DEF Keys, Plain
<1>2. Ok([w EXCEPT !.longshot = FALSE])
  <2>1. Ok(w)
    <3>. HIDE DEF u
    <3>. QED
      BY <1>1, RefuseOk
  <2>. HIDE DEF w
  <2>. QED
    BY <2>1, FieldOk DEF Fields
<1>. QED
  BY <1>1, <1>2 DEF setLongshotParam

(* The flash is brought up to date whatever it was.                         *)
LEMMA UpdateFlash == ASSUME NEW t, Ok(t) PROVE Ok(updateFlash(t)) /\ updateFlash(t).led = ledOf(updateFlash(t))
<1>. DEFINE v == ledOf(t)
            u == [t EXCEPT !.led = v, !.unsent = TRUE]
            w == AddSetParmEntryToBatch(u, "led", v)
<1>1. DOMAIN t = Fields
  BY DEF Ok, Sent, IsTable
<1>2. /\ DOMAIN w = Fields /\ w.key = t.key /\ w.tmp = t.tmp /\ w.srv = t.srv
      /\ w.batch = With(t.batch, "led", v) /\ w.led = v /\ w.unsent = TRUE
  BY <1>1 DEF AddSetParmEntryToBatch, Fields
<1>3. Ok(w)
  <2>. HIDE DEF v, w
  <2>1. "led" \notin Plain
    BY DEF Plain
  <2>2. /\ \A x \in Plain : x \in DOMAIN w.batch <=> x \in DOMAIN t.batch
        /\ \A x \in Plain : x \in DOMAIN t.batch => w.batch[x] = t.batch[x]
        /\ w.batch["led"] = v
    BY <1>2, <2>1 DEF With
  <2>3. Sent(w) /\ LedKept(w) /\ LedBatched(w)
    BY <1>2, <2>2 DEF Ok, Sent, IsTable, LedKept, LedBatched
  <2>4. Batched(w)
    BY <1>2, <2>2 DEF Ok, Batched
  <2>. QED
    BY <2>3, <2>4 DEF Ok
<1>4. w.led = v /\ ledOf(w) = v
  <2>1. /\ w.led = v /\ w.burst = t.burst /\ w.hdr = t.hdr /\ w.sceneHdr = t.sceneHdr /\ w.ae = t.ae
        /\ w.sensorHdr = t.sensorHdr /\ w.on = t.on /\ w.flash = t.flash
    <3>. HIDE DEF v
    <3>. QED
      BY <1>1 DEF Fields, AddSetParmEntryToBatch
  <2>. HIDE DEF w
  <2>. QED
    BY <2>1 DEF ledOf, isHDREnabled
<1>5. updateFlash(t) = IF v = t.led THEN t ELSE w
  BY DEF updateFlash
<1>. HIDE DEF v, w, u
<1>6. v = ledOf(t)
  BY DEF v
<1>. QED
  BY <1>3, <1>4, <1>5, <1>6

-----------------------------------------------------------------------------
(* A whole request.                                                         *)

LEMMA SizesAndModesOk == ASSUME NEW t, Ok(t), NEW p PROVE Ok(updateSizesAndModes(t, p))
  BY WrittenOk, SizesOk, ModesOk, FrameRateOk, FpsRangeOk DEF updateSizesAndModes

LEMMA ImageOk == ASSUME NEW t, Ok(t), NEW p PROVE Ok(updateImage(t, p))
<1>. DEFINE t1 == setZoom(setBrightness(setEffect(setAutoExposure(t, p), p), p), p)
            t2 == setFocusMode(setContrast(setSaturation(setSharpness(t1, p), p), p), p)
            t3 == setSkinToneEnhancement(setExposureTime(setContinuousISO(setISOValue(t2, p), p), p), p)
            t4 == setLensShadeValue(setAwbLock(setAecLock(setFlash(t3, p), p), p), p)
            t5 == setAntibanding(setDISValue(setMCEValue(t4, p), p), p)
            t6 == setManualWhiteBalance(setWhiteBalance(setExposureCompensation(t5, p), p), p)
            t7 == setFocusPosition(setFocusAreas(setHDRNeed1x(setSceneMode(t6, p), p), p), p)
            t8 == setRedeyeReduction(setSelectableZoneAf(setMeteringAreas(t7, p), p), p)
<1>1. Ok(t1)
  BY StagedOk, EffectOk, MoreStagedOk
<1>2. Ok(t2)
  <2>. HIDE DEF t1
  <2>. QED
    BY <1>1, StagedOk
<1>3. Ok(t3)
  <2>. HIDE DEF t2
  <2>. QED
    BY <1>2, StagedOk, MoreStagedOk, OthersOk
<1>4. Ok(t4)
  <2>. HIDE DEF t3
  <2>. QED
    BY <1>3, FlashOk, MoreStagedOk
<1>5. Ok(t5)
  <2>. HIDE DEF t4
  <2>. QED
    BY <1>4, StagedOk, MoreStagedOk
<1>6. Ok(t6)
  <2>. HIDE DEF t5
  <2>. QED
    BY <1>5, StagedOk
<1>7. Ok(t7)
  <2>. HIDE DEF t6
  <2>. QED
    BY <1>6, StagedOk, OthersOk, SceneModeOk
<1>8. Ok(t8)
  <2>. HIDE DEF t7
  <2>. QED
    BY <1>7, MoreStagedOk, OthersOk
<1>9. Ok(setAutoHDR(setAEBracket(t8, p), p))
  <2>. HIDE DEF t8
  <2>. QED
    BY <1>8, OthersOk, AEBracketOk
<1>. QED
  BY <1>9, Zenon DEF updateImage

LEMMA RequestFeaturesOk ==
    ASSUME NEW t, Ok(t), NEW p
    PROVE  Ok(updateFeatures(t, p)) /\ updateFeatures(t, p).led = ledOf(updateFeatures(t, p))
<1>. DEFINE t1 == setFaceRecognition(setWaveletDenoise(setGpsLocation(t, p), p), p)
            t2 == setBurstNum(setVtEnable(setVideoHDR(setFlip(t1, p), p), p), p)
            t3 == setTintlessValue(setSnapshotFDReq(setMaxLongshotNum(t2, p), p), p)
            t4 == setLiveSnapshotSize(setCacheVideoBuffers(setCDSMode(t3, p), p), p)
            t5 == setAFBracket(setDebugMasks(setJpegThumbnailSize(t4, p)), p)
            t6 == setSeeMore(setFssr(setOptiZoom(setChromaFlash(t5, p), p), p), p)
            t7 == setTruePortrait(setLongshotParam(setTouchAFAEC(setMultiTouchFocus(t6, p), p), p), p)
<1>1. Ok(t1)
  BY WrittenOk, MoreStagedOk, FaceRecognitionOk
<1>2. Ok(t2)
  <2>. HIDE DEF t1
  <2>. QED
    BY <1>1, WrittenOk, MoreStagedOk, BurstAndSizeOk
<1>3. Ok(t3)
  <2>. HIDE DEF t2
  <2>. QED
    BY <1>2, WrittenOk, MoreStagedOk, FeaturesOk
<1>4. Ok(t4)
  <2>. HIDE DEF t3
  <2>. QED
    BY <1>3, MoreStagedOk, OthersOk, BurstAndSizeOk
<1>5. Ok(t5)
  <2>. HIDE DEF t4
  <2>. QED
    BY <1>4, WrittenOk, OthersOk, FeaturesOk
<1>6. Ok(t6)
  <2>. HIDE DEF t5
  <2>. QED
    BY <1>5, FeaturesOk
<1>7. Ok(t7)
  <2>. HIDE DEF t6
  <2>. QED
    BY <1>6, FeaturesOk, LongshotOk
<1>8. updateFeatures(t, p) = updateFlash(t7)
  BY Zenon DEF updateFeatures
<1>. HIDE DEF t7
<1>. QED
  BY <1>7, <1>8, UpdateFlash

-----------------------------------------------------------------------------
(* What the daemon is sent.                                                 *)

(* The parameters between two operations.                                   *)
Settled(t) == Sent(t) /\ t.led = ledOf(t) /\ LedKept(t)

(* What the flash depends on.                                               *)
FlashOf(t) == <<t.led, t.burst, t.hdr, t.sceneHdr, t.ae, t.sensorHdr, t.on, t.flash>>

LEMMA SameFlash == ASSUME NEW t, NEW u, FlashOf(u) = FlashOf(t), t.led = ledOf(t) PROVE u.led = ledOf(u)
<1>1. /\ u.led = t.led /\ u.burst = t.burst /\ u.hdr = t.hdr /\ u.sceneHdr = t.sceneHdr /\ u.ae = t.ae
      /\ u.sensorHdr = t.sensorHdr /\ u.on = t.on /\ u.flash = t.flash
  BY DEF FlashOf
<1>. QED
  BY <1>1 DEF ledOf, isHDREnabled

(* A new batch is empty, and so is what is staged.                          *)
LEMMA InitBatch ==
    ASSUME NEW t, Sent(t), LedKept(t)
    PROVE  Ok(initBatchUpdate(t)) /\ FlashOf(initBatchUpdate(t)) = FlashOf(t)
<1>. DEFINE u == initBatchUpdate(t)
<1>1. DOMAIN t = Fields
  BY DEF Sent, IsTable
<1>2. /\ DOMAIN u = Fields /\ u.key = t.key /\ u.srv = t.srv /\ u.tmp = Empty /\ u.batch = Empty
      /\ u.led = t.led /\ u.burst = t.burst /\ u.hdr = t.hdr /\ u.sceneHdr = t.sceneHdr /\ u.ae = t.ae
      /\ u.sensorHdr = t.sensorHdr /\ u.on = t.on /\ u.flash = t.flash /\ u.unsent = t.unsent
  BY <1>1 DEF initBatchUpdate, Fields
<1>. HIDE DEF u
<1>3. Sent(u)
  BY <1>2 DEF Sent, IsTable
<1>4. Batched(u)
  BY <1>2 DEF Batched, Empty
<1>5. FlashOf(u) = FlashOf(t)
  BY <1>2 DEF FlashOf
<1>6. LedKept(u) /\ LedBatched(u)
  BY <1>2 DEF LedKept, LedSent, LedBatched, Empty
<1>. QED
  BY <1>3, <1>4, <1>5, <1>6 DEF Ok, u

(* A commit, taken or not.                                                  *)
LEMMA Commit ==
    ASSUME NEW t, Ok(t), NEW taken
    PROVE  /\ Sent(commitSetBatch(t, taken)) /\ LedKept(commitSetBatch(t, taken))
           /\ FlashOf(commitSetBatch(t, taken)) = FlashOf(t)
<1>1. CASE ~taken
  BY <1>1 DEF commitSetBatch, Ok
<1>2. CASE taken
  <2>. DEFINE u == commitSetBatch(t, taken)
  <2>1. DOMAIN t = Fields /\ Keys \subseteq DOMAIN t.key
    BY DEF Ok, Sent, IsTable
  <2>. DEFINE w == [t EXCEPT !.srv = Over(t.batch, @),
                             !.unsent = @ /\ "led" \notin DOMAIN t.batch]
  <2>2. /\ DOMAIN w = Fields /\ w.key = t.key /\ w.tmp = t.tmp /\ w.srv = Over(t.batch, t.srv)
        /\ w.led = t.led /\ w.burst = t.burst /\ w.hdr = t.hdr /\ w.sceneHdr = t.sceneHdr /\ w.ae = t.ae
        /\ w.sensorHdr = t.sensorHdr /\ w.on = t.on /\ w.flash = t.flash
        /\ w.unsent = (t.unsent /\ "led" \notin DOMAIN t.batch)
    BY <2>1 DEF Fields
  <2>3. u = commitParamChanges(w)
    BY <1>2 DEF commitSetBatch
  <2>. HIDE DEF w, u
  <2>4. /\ DOMAIN u = Fields /\ u.key = Over(t.tmp, t.key) /\ u.srv = Over(t.batch, t.srv)
        /\ u.led = t.led /\ u.burst = t.burst /\ u.hdr = t.hdr /\ u.sceneHdr = t.sceneHdr /\ u.ae = t.ae
        /\ u.sensorHdr = t.sensorHdr /\ u.on = t.on /\ u.flash = t.flash
        /\ u.unsent = (t.unsent /\ "led" \notin DOMAIN t.batch)
    BY <2>2, <2>3 DEF commitParamChanges, Fields
  <2>5. FlashOf(u) = FlashOf(t)
    BY <2>4 DEF FlashOf
  <2>6. Sent(u)
    <3>1. Keys \subseteq DOMAIN u.key
      BY <2>1, <2>4 DEF Over
    <3>2. ASSUME NEW k \in Plain
          PROVE  u.key[k] = (IF k \in DOMAIN u.srv THEN u.srv[k] ELSE "off")
      <4>1. /\ k \in DOMAIN t.tmp <=> k \in DOMAIN t.batch
            /\ k \in DOMAIN t.tmp => t.tmp[k] = t.batch[k]
            /\ t.key[k] = (IF k \in DOMAIN t.srv THEN t.srv[k] ELSE "off")
            /\ k \in DOMAIN t.key
        BY <2>1, PlainKeys DEF Ok, Sent, Batched
      <4>2. CASE k \in DOMAIN t.tmp
        BY <2>4, <4>1, <4>2 DEF Over
      <4>3. CASE k \notin DOMAIN t.tmp
        BY <2>4, <4>1, <4>3 DEF Over
      <4>. QED
        BY <4>2, <4>3
    <3>. QED
      BY <2>4, <3>1, <3>2 DEF Sent, IsTable
  <2>7. LedKept(u)
    <3>1. CASE "led" \in DOMAIN t.batch
      BY <2>4, <3>1 DEF Ok, LedBatched, LedKept, LedSent, Over
    <3>2. CASE "led" \notin DOMAIN t.batch
      BY <2>4, <3>2 DEF Ok, LedKept, LedSent, Over
    <3>. QED
      BY <3>1, <3>2
  <2>. QED
    BY <2>5, <2>6, <2>7 DEF u
<1>. QED
  BY <1>1, <1>2

LEMMA CommitSettles == ASSUME NEW t, Ok(t), t.led = ledOf(t), NEW taken PROVE Settled(commitSetBatch(t, taken))
  BY Commit, SameFlash DEF Settled

LEMMA SendNowSettles ==
    ASSUME NEW t, Settled(t), NEW e, e \notin Plain, e # "led", NEW v, NEW taken
    PROVE  Settled(SendNow(t, e, v, taken))
<1>. DEFINE i == initBatchUpdate(t)
            u == AddSetParmEntryToBatch(i, e, v)
<1>1. Ok(i) /\ FlashOf(i) = FlashOf(t)
  BY InitBatch DEF Settled
<1>2. Ok(u) /\ FlashOf(u) = FlashOf(i)
  <2>. HIDE DEF i
  <2>1. Ok(u)
    BY <1>1, EntryOk
  <2>2. DOMAIN i = Fields
    BY <1>1 DEF Ok, Sent, IsTable
  <2>3. FlashOf(u) = FlashOf(i)
    BY <2>2 DEF FlashOf, AddSetParmEntryToBatch, Fields
  <2>. QED
    BY <2>1, <2>3
<1>3. SendNow(t, e, v, taken) = commitSetBatch(u, taken)
  BY DEF SendNow
<1>4. t.led = ledOf(t)
  BY DEF Settled
<1>. HIDE DEF i, u
<1>. QED
  BY <1>1, <1>2, <1>3, <1>4, SameFlash, CommitSettles

(* A field that neither the table nor the flash depends on.                 *)
LEMMA FieldSettles ==
    ASSUME NEW t, Settled(t), NEW f \in {"rc", "restart", "fd", "longshot", "histogram"}, NEW x
    PROVE  Settled([t EXCEPT ![f] = x])
<1>. DEFINE u == [t EXCEPT ![f] = x]
<1>1. DOMAIN t = Fields
  BY DEF Settled, Sent, IsTable
<1>2. /\ DOMAIN u = Fields /\ u.key = t.key /\ u.srv = t.srv /\ u.led = t.led /\ u.burst = t.burst
      /\ u.hdr = t.hdr /\ u.sceneHdr = t.sceneHdr /\ u.ae = t.ae /\ u.sensorHdr = t.sensorHdr
      /\ u.on = t.on /\ u.flash = t.flash /\ u.unsent = t.unsent
  BY <1>1 DEF Fields
<1>. HIDE DEF u
<1>3. Sent(u) /\ LedKept(u)
  BY <1>2 DEF Settled, Sent, IsTable, LedKept, LedSent
<1>4. FlashOf(u) = FlashOf(t)
  BY <1>2 DEF FlashOf
<1>5. Settled(u)
  BY <1>3, <1>4, SameFlash DEF Settled
<1>. QED
  BY <1>5 DEF u

LEMMA RequestSettles ==
    ASSUME NEW t, Settled(t), NEW p
    PROVE  /\ Settled(updateAllParameters(t, p))
           /\ \A ok : Settled(commitSetBatch(updateAllParameters(t, p), ok))
<1>. DEFINE r == [t EXCEPT !.rc = TRUE, !.restart = FALSE]
            i == initBatchUpdate(r)
            u == updateFeatures(updateImage(updateSizesAndModes(i, p), p), p)
<1>1. Settled(r)
  <2>1. Settled([t EXCEPT !.rc = TRUE])
    BY FieldSettles
  <2>. DEFINE q == [t EXCEPT !.rc = TRUE]
  <2>2. Settled([q EXCEPT !.restart = FALSE])
    <3>. HIDE DEF q
    <3>1. Settled(q)
      BY <2>1 DEF q
    <3>. QED
      BY <3>1, FieldSettles
  <2>. QED
    BY <2>2
<1>2. Ok(i)
  <2>. HIDE DEF r
  <2>. QED
    BY <1>1, InitBatch DEF Settled
<1>3. Ok(u) /\ u.led = ledOf(u)
  <2>. HIDE DEF i
  <2>. QED
    BY <1>2, SizesAndModesOk, ImageOk, RequestFeaturesOk
<1>4. updateAllParameters(t, p) = u
  BY Zenon DEF updateAllParameters
<1>. HIDE DEF u
<1>. QED
  BY <1>3, <1>4, CommitSettles DEF Settled, Ok

(* The operations that send an entry at once.                               *)
LEMMA OperationsSettle ==
    ASSUME NEW t, Settled(t), NEW v, NEW ok
    PROVE  /\ Settled(setFaceDetection(t, v, ok)) /\ Settled(setLongshotEnable(t, v, ok))
           /\ Settled(setFrameSkip(t, v, ok)) /\ Settled(setHistogram(t, v, ok))
           /\ Settled(setIntEvent(t, ok)) /\ Settled(updateRAW(t, v, ok))
           /\ Settled(setAEBracketing(t, ok)) /\ Settled(setHDRAEBracket(t, v, ok))
           /\ Settled(commitAFBracket(t, v, ok)) /\ Settled(commitFlashBracket(t, v, ok))
           /\ Settled(setAndCommitZoom(t, v, ok))
<1>1. {"fd", "longshot", "frame-skip", "histogram", "int-event", "max-dimension", "hdr",
       "focus-bracketing", "flash-bracketing", "zoom"} \cap (Plain \cup {"led"}) = {}
  BY DEF Plain
<1>2. /\ Settled(setFrameSkip(t, v, ok)) /\ Settled(setIntEvent(t, ok)) /\ Settled(updateRAW(t, v, ok))
      /\ Settled(setAEBracketing(t, ok)) /\ Settled(setHDRAEBracket(t, v, ok))
      /\ Settled(commitAFBracket(t, v, ok)) /\ Settled(commitFlashBracket(t, v, ok))
      /\ Settled(setAndCommitZoom(t, v, ok))
  BY <1>1, SendNowSettles DEF setFrameSkip, setIntEvent, updateRAW, setAEBracketing, setHDRAEBracket,
     commitAFBracket, commitFlashBracket, setAndCommitZoom
<1>3. Settled(setFaceDetection(t, v, ok))
  <2>1. \A fd : Settled([t EXCEPT !.fd = fd])
    BY FieldSettles
  <2>2. \A fd : Settled(SendNow([t EXCEPT !.fd = fd], "fd", fd, ok))
    BY <1>1, <2>1, SendNowSettles
  <2>. QED
    BY <2>2 DEF setFaceDetection
<1>4. Settled(setLongshotEnable(t, v, ok))
  <2>. DEFINE u == SendNow(t, "longshot", v, ok)
  <2>1. Settled(u)
    BY <1>1, SendNowSettles
  <2>2. Settled([u EXCEPT !.longshot = TRUE])
    <3>. HIDE DEF u
    <3>. QED
      BY <2>1, FieldSettles
  <2>. QED
    BY <2>1, <2>2 DEF setLongshotEnable
<1>5. Settled(setHistogram(t, v, ok))
  <2>. DEFINE u == SendNow(t, "histogram", v, ok)
  <2>1. Settled(u)
    BY <1>1, SendNowSettles
  <2>2. Settled([u EXCEPT !.histogram = v])
    <3>. HIDE DEF u
    <3>. QED
      BY <2>1, FieldSettles
  <2>. QED
    BY <2>1, <2>2 DEF setHistogram
<1>. QED
  BY <1>2, <1>3, <1>4, <1>5

LEMMA SceneEnableSettles == ASSUME NEW t, Settled(t), NEW v, NEW ok PROVE Settled(setHDRSceneEnable(t, v, ok))
<1>. DEFINE u == [t EXCEPT !.sceneHdr = v]
            w == updateFlash(initBatchUpdate(u))
<1>1. Sent(u) /\ LedKept(u)
  BY DEF Settled, Sent, IsTable, Fields, LedKept, LedSent
<1>2. Ok(w) /\ w.led = ledOf(w)
  <2>. HIDE DEF u
  <2>. QED
    BY <1>1, InitBatch, UpdateFlash
<1>3. Settled(commitSetBatch(w, ok))
  <2>. HIDE DEF w
  <2>. QED
    BY <1>2, CommitSettles
<1>4. setHDRSceneEnable(t, v, ok) \in {t, commitSetBatch(w, ok)}
  BY Zenon DEF setHDRSceneEnable
<1>. HIDE DEF w
<1>. QED
  BY <1>3, <1>4

LEMMA LockSettles == ASSUME NEW t, Settled(t), NEW v, NEW ok PROVE Settled(set3ALock(t, v, ok))
<1>1. ASSUME NEW i, Ok(i), FlashOf(i) = FlashOf(t), NEW e, e \notin Plain, e # "led", NEW x
      PROVE  /\ Ok(AddSetParmEntryToBatch(i, e, x))
             /\ FlashOf(AddSetParmEntryToBatch(i, e, x)) = FlashOf(t)
  <2>1. Ok(AddSetParmEntryToBatch(i, e, x))
    BY <1>1, EntryOk
  <2>2. DOMAIN i = Fields
    BY <1>1 DEF Ok, Sent, IsTable
  <2>3. FlashOf(AddSetParmEntryToBatch(i, e, x)) = FlashOf(i)
    BY <2>2 DEF FlashOf, AddSetParmEntryToBatch, Fields
  <2>. QED
    BY <1>1, <2>1, <2>3
<1>2. "awb-lock" \notin Plain /\ "aec-lock" \notin Plain /\ "focus-mode" \notin Plain
  BY DEF Plain
<1>. DEFINE lock == IF v THEN "on" ELSE "off"
            a == AddSetParmEntryToBatch(initBatchUpdate(t), "awb-lock", lock)
            u == AddSetParmEntryToBatch(a, "aec-lock", lock)
<1>3. Ok(a) /\ FlashOf(a) = FlashOf(t)
  <2>1. Ok(initBatchUpdate(t)) /\ FlashOf(initBatchUpdate(t)) = FlashOf(t)
    BY InitBatch DEF Settled
  <2>. QED
    BY <1>1, <1>2, <2>1
<1>4. Ok(u) /\ FlashOf(u) = FlashOf(t)
  <2>. HIDE DEF a
  <2>. QED
    BY <1>1, <1>2, <1>3
<1>5. \A m : Settled(commitSetBatch(AddSetParmEntryToBatch(u, "focus-mode", m), ok))
  <2>. HIDE DEF u
  <2>. TAKE m
  <2>1. Ok(AddSetParmEntryToBatch(u, "focus-mode", m)) /\ FlashOf(AddSetParmEntryToBatch(u, "focus-mode", m)) = FlashOf(t)
    BY <1>1, <1>2, <1>4
  <2>. QED
    BY <2>1, SameFlash, CommitSettles DEF Settled
<1>6. \E m : set3ALock(t, v, ok) = commitSetBatch(AddSetParmEntryToBatch(u, "focus-mode", m), ok)
  BY Zenon DEF set3ALock
<1>. HIDE DEF u
<1>. QED
  BY <1>5, <1>6

(* The defaults are sent.                                                   *)
LEMMA DefaultsSettle == Settled(initDefaultParameters)
<1>. DEFINE sent == Plain \ {"video-hdr", "vt", "tintless", "cds", "exposure-time"}
            batch == [k \in sent |-> "off"]
            f == [Fresh EXCEPT !.batch = batch]
            w == [f EXCEPT !.srv = Over(f.batch, @), !.unsent = @ /\ "led" \notin DOMAIN f.batch]
            u == commitParamChanges(w)
<1>1. /\ DOMAIN Fresh = Fields /\ Fresh.key = [k \in Keys |-> "off"] /\ Fresh.tmp = Empty
      /\ Fresh.srv = Empty /\ Fresh.led = "off" /\ Fresh.burst = FALSE /\ Fresh.hdr = FALSE
      /\ Fresh.sceneHdr = FALSE /\ Fresh.ae = FALSE /\ Fresh.sensorHdr = FALSE /\ Fresh.on = {}
      /\ Fresh.flash = "off" /\ Fresh.unsent = FALSE
  BY DEF Fresh, Fields
<1>2. /\ DOMAIN w = Fields /\ w.key = Fresh.key /\ w.tmp = Empty /\ w.srv = Over(batch, Empty)
      /\ w.led = "off" /\ w.burst = FALSE /\ w.hdr = FALSE /\ w.sceneHdr = FALSE /\ w.ae = FALSE
      /\ w.sensorHdr = FALSE /\ w.on = {} /\ w.flash = "off"
  <2>. HIDE DEF batch
  <2>. QED
    BY <1>1 DEF Fields
<1>3. initDefaultParameters = u
  BY Zenon DEF initDefaultParameters, commitSetBatch
<1>. HIDE DEF w, f
<1>4. /\ DOMAIN u = Fields /\ u.key = Over(Empty, Fresh.key) /\ u.srv = Over(batch, Empty)
      /\ u.led = "off" /\ u.burst = FALSE /\ u.hdr = FALSE /\ u.sceneHdr = FALSE /\ u.ae = FALSE
      /\ u.sensorHdr = FALSE /\ u.on = {} /\ u.flash = "off"
  <2>. HIDE DEF batch
  <2>. QED
    BY <1>2 DEF commitParamChanges, Fields
<1>. HIDE DEF u
<1>5. DOMAIN u.key = Keys /\ \A k \in Keys : u.key[k] = "off"
  BY <1>1, <1>4 DEF Over, Empty
<1>6. \A k \in DOMAIN u.srv : u.srv[k] = "off"
  BY <1>4 DEF Over, Empty
<1>7. Sent(u)
  BY <1>4, <1>5, <1>6, PlainKeys DEF Sent, IsTable
<1>8. ledOf(u) = "off" /\ LedSent(u) = "off"
  BY <1>4, <1>6 DEF ledOf, isHDREnabled, LedSent
<1>. QED
  BY <1>3, <1>4, <1>7, <1>8 DEF Settled, LedKept

LEMMA SettledStep ==
    ASSUME Settled(s), [Next]_vars
    PROVE  Settled(s)'
<1>1. CASE AnySetParams
  <2>1. PICK p : SetParamsStopped(p) \/ SetParamsPreviewing(p) \/ SetParamsWhileRecording(p)
    BY <1>1 DEF AnySetParams
  <2>. DEFINE u == updateAllParameters(s, p)
  <2>2. Settled(u) /\ \A ok : Settled(commitSetBatch(u, ok))
    BY RequestSettles
  <2>3. s' = u \/ \E ok : s' = commitSetBatch(u, ok)
    <3>1. CASE SetParamsStopped(p)
      BY <3>1 DEF SetParamsStopped
    <3>2. CASE SetParamsPreviewing(p)
      BY <3>2 DEF SetParamsPreviewing
    <3>3. CASE SetParamsWhileRecording(p)
      BY <3>3 DEF SetParamsWhileRecording
    <3>. QED
      BY <2>1, <3>1, <3>2, <3>3
  <2>4. Settled(s')
    <3>. HIDE DEF u
    <3>. QED
      BY <2>2, <2>3
  <2>. QED
    BY <2>4
<1>2. CASE SendOne
  <2>1. PICK v, ok :
          s' \in {setFaceDetection(s, v, ok), setLongshotEnable(s, v, ok), setHDRSceneEnable(s, v, ok),
                  setFrameSkip(s, v, ok), setHistogram(s, v, ok), setIntEvent(s, ok), updateRAW(s, v, ok),
                  setAEBracketing(s, ok), setHDRAEBracket(s, v, ok), set3ALock(s, v, ok),
                  commitAFBracket(s, v, ok), setAndCommitZoom(s, v, ok), commitFlashBracket(s, v, ok)}
    BY <1>2 DEF SendOne
  <2>2. Settled(s')
    BY <2>1, OperationsSettle, SceneEnableSettles, LockSettles
  <2>. QED
    BY <2>2
<1>3. CASE StartPreview \/ StopPreview \/ StartRecording \/ StopRecording \/ UNCHANGED vars
  <2>1. s' = s
    BY <1>3 DEF StartPreview, StopPreview, StartRecording, StopRecording, vars
  <2>2. Settled(s')
    BY <2>1
  <2>. QED
    BY <2>2
<1>. QED
  BY <1>1, <1>2, <1>3 DEF Next

(* Whatever the requests change, in whatever combination, with values that   *)
(* are refused and batches that the daemon does not take, before and during  *)
(* previews and recordings: a plain setting that getParameters reports is    *)
(* the value the daemon was sent last (m_tempMap, commitSetBatch).           *)
THEOREM SettingsAreSent == Spec => []InForceIsSent
<1>1. Init => Settled(s)
  BY DefaultsSettle DEF Init
<1>2. Settled(s) /\ [Next]_vars => Settled(s)'
  BY SettledStep
<1>3. Settled(s) => InForceIsSent
  BY DEF Settled, Sent, InForceIsSent
<1>. QED
  BY <1>1, <1>2, <1>3, PTL DEF Spec

(* The flash that was decided last is the one that the scene, the brackets   *)
(* and the features allow, and the daemon was sent it, unless the batch it   *)
(* was put into was refused or given up (updateFlash, commitSetBatch).      *)
THEOREM FlashIsAllowed == Spec => []FlashFollows
<1>1. Init => Settled(s)
  BY DefaultsSettle DEF Init
<1>2. Settled(s) /\ [Next]_vars => Settled(s)'
  BY SettledStep
<1>3. Settled(s) => FlashFollows
  BY DEF Settled, FlashFollows, LedKept
<1>. QED
  BY <1>1, <1>2, <1>3, PTL DEF Spec

=============================================================================
