---------------------------- MODULE HalApiProofs ----------------------------
(***************************************************************************)
(* Theorems about the camera's state machine, the hardware it drives and    *)
(* the threads around it.  In three parts: of the machine, what holds       *)
(* whatever fails; on a camera where nothing fails, that the channels are   *)
(* those of the state; and of the threads, that a caller takes the answer   *)
(* that was made for it.                                                    *)
(***************************************************************************)
EXTENDS HalApi, SequenceTheorems, TLAPS

(* The hardware's type, but for how much one step may tell the notifier.     *)
HwBase ==
    [setup : Setups, ch : [Channels -> {"null", "made", "started"}],
     zsl : BOOLEAN, zslNew : BOOLEAN, hint : BOOLEAN, hintNew : BOOLEAN, hintKey : BOOLEAN,
     longshot : BOOLEAN, window : BOOLEAN, live : {"none", "running", "over"},
     ok : BOOLEAN, notified : Seq({"START", "STOP"}), posted : BOOLEAN]

(* g comes of h by an operation that starts neither VIDEO nor SNAPSHOT and   *)
(* leaves the live snapshot thread and the setup alone.                     *)
Calm(g, h) ==
    /\ g \in HwBase
    /\ g.live = h.live /\ g.setup = h.setup
    /\ \A c \in {"VIDEO", "SNAPSHOT"} : g.ch[c] = "started" => h.ch[c] = "started"

(* ... nor stops or deletes them.                                           *)
Steady(g, h) ==
    /\ g \in HwBase
    /\ g.live = h.live /\ g.setup = h.setup
    /\ \A c \in {"VIDEO", "SNAPSHOT"} : g.ch[c] = h.ch[c]

LEMMA CalmTransitive ==
    ASSUME NEW f, NEW g, NEW h, Calm(f, g), Calm(g, h) PROVE Calm(f, h)
BY DEF Calm

LEMMA SteadyIsCalm == ASSUME NEW g, NEW h, Steady(g, h) PROVE Calm(g, h)
BY DEF Steady, Calm

-----------------------------------------------------------------------------
(* The operations on one channel.                                           *)
LEMMA FailedSteady == ASSUME NEW h \in HwBase PROVE Steady(Failed(h), h)
BY DEF Failed, Steady, HwBase

LEMMA TrySteady ==
    ASSUME NEW op, NEW h \in HwBase, NEW g \in Try(op, h) PROVE Steady(g, h)
BY FailedSteady DEF Try, Steady

LEMMA SetChannel ==
    ASSUME NEW c \in Channels, NEW h \in HwBase, NEW v \in {"null", "made", "started"},
           NEW g, g = [h EXCEPT !.ch[c] = v]
    PROVE  /\ g \in HwBase /\ g.live = h.live /\ g.setup = h.setup /\ g.ok = h.ok
           /\ g.ch[c] = v
           /\ \A d \in Channels \ {c} : g.ch[d] = h.ch[d]
BY DEF HwBase

LEMMA DelChannel ==
    ASSUME NEW c \in Channels, NEW h \in HwBase
    PROVE  /\ Calm(delChannel(c, h), h)
           /\ c \notin {"VIDEO", "SNAPSHOT"} => Steady(delChannel(c, h), h)
           /\ delChannel(c, h).ok = h.ok
BY SetChannel DEF delChannel, Calm, Steady, Channels

LEMMA StopChannel ==
    ASSUME NEW c \in Channels, NEW h \in HwBase
    PROVE  /\ Calm(stopChannel(c, h), h)
           /\ stopChannel(c, h).ch[c] # "started"
           /\ \A d \in Channels \ {c} : stopChannel(c, h).ch[d] = h.ch[d]
<1>. DEFINE v == IF h.ch[c] = "started" THEN "made" ELSE h.ch[c]
<1>1. v \in {"null", "made", "started"} /\ v # "started"
  BY DEF HwBase
<1>2. stopChannel(c, h) = [h EXCEPT !.ch[c] = v]
  BY DEF stopChannel
<1>. HIDE DEF v
<1>. QED
  BY <1>1, <1>2, SetChannel DEF Calm, Channels

LEMMA AddChannel ==
    ASSUME NEW c \in Channels, NEW h \in HwBase, NEW g \in addChannel(c, h)
    PROVE  Calm(g, h)
<1>1. PICK f \in Try(c, h) : g = IF f.ok THEN [f EXCEPT !.ch[c] = "made"] ELSE delChannel(c, f)
  BY DEF addChannel
<1>2. Steady(f, h) /\ f \in HwBase
  BY TrySteady DEF Steady
<1>3. Calm(g, f)
  BY <1>1, <1>2, DelChannel, SetChannel DEF Calm, Channels
<1>. QED
  BY <1>2, <1>3, SteadyIsCalm, CalmTransitive

LEMMA StartChannel ==
    ASSUME NEW c \in Channels, NEW h \in HwBase, NEW g \in startChannel(c, h)
    PROVE  /\ g \in HwBase /\ g.live = h.live /\ g.setup = h.setup
           /\ \A d \in Channels \ {c} : g.ch[d] = h.ch[d]
           /\ g.ok => g.ch[c] = "started"
           /\ ~g.ok => g.ch[c] = h.ch[c]
           /\ c \notin {"VIDEO", "SNAPSHOT"} => Steady(g, h)
<1>1. \/ g = Failed(h)
      \/ \E f \in Try(c, h) : IF f.ok THEN g = [f EXCEPT !.ch[c] = "started"] ELSE g = f
  BY DEF startChannel
<1>2. ASSUME NEW f, f = h \/ f = Failed(h)
      PROVE  f \in HwBase /\ f.live = h.live /\ f.setup = h.setup /\ f.ch = h.ch
  BY <1>2 DEF Failed, HwBase
<1>3. ~Failed(h).ok
  BY DEF Failed, HwBase
<1>4. CASE g = Failed(h)
  BY <1>2, <1>3, <1>4 DEF Steady
<1>5. ASSUME NEW f \in Try(c, h), IF f.ok THEN g = [f EXCEPT !.ch[c] = "started"] ELSE g = f
      PROVE  /\ g \in HwBase /\ g.live = h.live /\ g.setup = h.setup
             /\ \A d \in Channels \ {c} : g.ch[d] = h.ch[d]
             /\ g.ok => g.ch[c] = "started"
             /\ ~g.ok => g.ch[c] = h.ch[c]
  <2>1. f \in HwBase /\ f.live = h.live /\ f.setup = h.setup /\ f.ch = h.ch
    BY <1>2 DEF Try
  <2>2. CASE f.ok
    BY <1>5, <2>1, <2>2, SetChannel
  <2>3. CASE ~f.ok
    BY <1>5, <2>1, <2>3
  <2>. QED
    BY <2>2, <2>3
<1>. QED
  BY <1>1, <1>4, <1>5 DEF Steady, Channels

-----------------------------------------------------------------------------
(* The postprocessor, the pictures' channels and the preview.               *)
LEMMA TellSteady ==
    ASSUME NEW h \in HwBase, NEW v \in {"START", "STOP"},
           NEW g, g = [h EXCEPT !.notified = Append(@, v)]
    PROVE  Steady(g, h) /\ g.ok = h.ok
<1>. DEFINE n == Append(h.notified, v)
<1>1. n \in Seq({"START", "STOP"}) /\ g = [h EXCEPT !.notified = n]
  BY DEF HwBase
<1>. HIDE DEF n
<1>. QED
  BY <1>1 DEF Steady, HwBase

LEMMA PostprocStartSteady ==
    ASSUME NEW h \in HwBase, NEW g \in PostprocStart(h) PROVE Steady(g, h)
<1>1. PICK f \in Try("POSTPROC", h) :
        g = IF f.ok THEN [f EXCEPT !.notified = Append(@, "START")] ELSE f
  BY DEF PostprocStart
<1>2. Steady(f, h) /\ f \in HwBase
  BY TrySteady DEF Steady
<1>3. g = f \/ Steady(g, f)
  BY <1>1, <1>2, TellSteady
<1>. QED
  BY <1>2, <1>3 DEF Steady

LEMMA PostprocStopSteady ==
    ASSUME NEW h \in HwBase PROVE Steady(PostprocStop(h), h) /\ PostprocStop(h).ok = h.ok
BY TellSteady DEF PostprocStop

LEMMA CancelPictureSteady ==
    ASSUME NEW h \in HwBase PROVE Steady(cancelPicture(h), h)
<1>. DEFINE s == PostprocStop(h)
<1>1. Steady(s, h) /\ s \in HwBase
  BY PostprocStopSteady DEF Steady
<1>2. \A c \in {"RAW", "CAPTURE"} : Steady(delChannel(c, s), s)
  BY <1>1, DelChannel DEF Channels
<1>3. \/ cancelPicture(h) = s
      \/ \E c \in {"RAW", "CAPTURE"} : cancelPicture(h) = delChannel(c, s)
  BY DEF cancelPicture
<1>. QED
  BY <1>1, <1>2, <1>3 DEF Steady

LEMMA LongshotSteady ==
    ASSUME NEW h \in HwBase PROVE Steady(LongshotOff(h), h) /\ Steady(LongshotOn(h), h)
<1>1. Steady(LongshotOn(h), h)
  BY FailedSteady DEF LongshotOn, Steady, HwBase
<1>2. PICK g : /\ g = h \/ g = [cancelPicture(h) EXCEPT !.posted = TRUE]
               /\ LongshotOff(h) = [g EXCEPT !.longshot = FALSE]
  BY DEF LongshotOff
<1>3. Steady(g, h)
  BY <1>2, CancelPictureSteady, ZenonT(40) DEF Steady, HwBase
<1>4. Steady(LongshotOff(h), h)
  BY <1>2, <1>3 DEF Steady, HwBase
<1>. QED
  BY <1>1, <1>4

LEMMA PreviewChannels ==
    ASSUME NEW h \in HwBase
    PROVE  /\ \A g \in PrepareSnapshotChannel(h) : Calm(g, h)
           /\ \A g \in PrepareVideoChannel(h) : Calm(g, h)
           /\ \A g \in PreparePreviewChannel(h) : Calm(g, h)
<1>1. Calm(h, h)
  BY DEF Calm
<1>2. \A c \in Channels : \A g \in addChannel(c, h) : Calm(g, h) /\ g \in HwBase
  BY AddChannel DEF Calm
<1>3. \A g \in PrepareSnapshotChannel(h) : Calm(g, h)
  BY <1>1, <1>2 DEF PrepareSnapshotChannel, Channels
<1>4. \A c \in {"VIDEO", "SNAPSHOT"} : \A g \in HwBase :
        Calm(delChannel(c, g), g) /\ delChannel(c, g) \in HwBase
  BY DelChannel DEF Calm, Channels
<1>5. ASSUME NEW g \in PrepareVideoChannel(h) PROVE Calm(g, h)
  <2>1. PICK f \in addChannel("VIDEO", h) : g = f \/ g = delChannel("SNAPSHOT", f)
    BY <1>5 DEF PrepareVideoChannel, Unless
  <2>. QED
    BY <1>2, <1>4, <2>1, CalmTransitive DEF Channels
<1>6. ASSUME NEW g \in PreparePreviewChannel(h) PROVE Calm(g, h)
  <2>1. PICK f \in addChannel("PREVIEW", h) :
          g = f \/ g = delChannel("VIDEO", delChannel("SNAPSHOT", f))
    BY <1>6 DEF PreparePreviewChannel, Unless
  <2>2. f \in HwBase /\ Calm(f, h)
    BY <1>2 DEF Channels
  <2>3. Calm(delChannel("VIDEO", delChannel("SNAPSHOT", f)), f)
    BY <1>4, <2>2, CalmTransitive
  <2>. QED
    BY <2>1, <2>2, <2>3, CalmTransitive
<1>. QED
  BY <1>3, <1>5, <1>6

LEMMA PreparePreviewCalm ==
    ASSUME NEW h \in HwBase, NEW g \in preparePreview(h) PROVE Calm(g, h)
<1>1. CASE ZslPreview(h)
  BY <1>1, AddChannel DEF preparePreview, Channels
<1>2. CASE ~ZslPreview(h) /\ ~h.hint
  BY <1>2, PreviewChannels DEF preparePreview
<1>3. CASE ~ZslPreview(h) /\ h.hint
  <2>. DEFINE calm == IF h.longshot THEN LongshotOff(h) ELSE h
  <2>1. Calm(calm, h) /\ calm \in HwBase
    BY LongshotSteady DEF Steady, Calm
  <2>2. g \in Then(Then(PrepareSnapshotChannel(calm), PrepareVideoChannel), PreparePreviewChannel)
    BY <1>3 DEF preparePreview
  <2>3. PICK f \in Then(PrepareSnapshotChannel(calm), PrepareVideoChannel) :
          g = f \/ g \in PreparePreviewChannel(f)
    BY <2>2 DEF Then
  <2>4. PICK e \in PrepareSnapshotChannel(calm) : f = e \/ f \in PrepareVideoChannel(e)
    BY <2>3 DEF Then
  <2>. HIDE DEF calm
  <2>5. Calm(e, calm) /\ e \in HwBase
    BY <2>1, <2>4, PreviewChannels DEF Calm
  <2>6. Calm(f, calm) /\ f \in HwBase
    BY <2>4, <2>5, PreviewChannels, CalmTransitive DEF Calm
  <2>7. Calm(g, calm)
    BY <2>3, <2>6, PreviewChannels, CalmTransitive
  <2>. QED
    BY <2>1, <2>7, CalmTransitive
<1>. QED
  BY <1>1, <1>2, <1>3

(* A preview that is torn down takes the recording's channels with it.      *)
LEMMA UnpreparePreview ==
    ASSUME NEW h \in HwBase
    PROVE  /\ Calm(unpreparePreview(h), h)
           /\ \A c \in {"VIDEO", "SNAPSHOT"} : unpreparePreview(h).ch[c] = "null"
BY DEF unpreparePreview, Calm, HwBase, Channels

LEMMA StartPreviewSteady ==
    ASSUME NEW h \in HwBase, NEW g \in startPreview(h) PROVE Steady(g, h)
BY StartChannel DEF startPreview, Channels

LEMMA BringUpPreviewCalm ==
    ASSUME NEW h \in HwBase, NEW g \in BringUpPreview(h) PROVE Calm(g, h)
<1>1. PICK f \in preparePreview(h) :
        g = f \/ \E e \in startPreview(f) : g = e \/ g = unpreparePreview(e)
  BY DEF BringUpPreview, Then, Unless
<1>2. Calm(f, h) /\ f \in HwBase
  BY PreparePreviewCalm DEF Calm
<1>3. ASSUME NEW e \in startPreview(f), g = e \/ g = unpreparePreview(e) PROVE Calm(g, f)
  <2>1. Calm(e, f) /\ e \in HwBase
    BY <1>2, <1>3, StartPreviewSteady, SteadyIsCalm DEF Calm
  <2>. QED
    BY <1>3, <2>1, UnpreparePreview, CalmTransitive
<1>. QED
  BY <1>1, <1>2, <1>3, CalmTransitive

-----------------------------------------------------------------------------
(* Parameters.                                                              *)
LEMMA ParametersSteady ==
    ASSUME NEW h \in HwBase, NEW p \in SUBSET Settings
    PROVE  Steady(updateParameters(h, p), h) /\ newHintKey(h, p) \in BOOLEAN
<1>. DEFINE z == IF "zsl" \in p THEN ~h.zslNew ELSE h.zslNew
            n == IF "hint" \in p THEN ~h.hintKey ELSE h.hintNew
<1>1. z \in BOOLEAN /\ n \in BOOLEAN /\ newHintKey(h, p) \in BOOLEAN
  BY DEF newHintKey, HwBase
<1>2. updateParameters(h, p) = [h EXCEPT !.zslNew = z, !.hintNew = n]
  BY DEF updateParameters
<1>. HIDE DEF z, n
<1>. QED
  BY <1>1, <1>2 DEF Steady, HwBase

LEMMA CommitSteady ==
    ASSUME NEW h \in HwBase, NEW key \in BOOLEAN
    PROVE  /\ \A g \in commit(h, key) : Steady(g, h)
           /\ \A g \in commitIgnored(h, key) : Steady(g, h)
<1>1. ASSUME NEW g \in commit(h, key) PROVE Steady(g, h)
  <2>1. PICK f \in Try("COMMIT", h) :
          \/ g = f
          \/ g = [f EXCEPT !.zsl = f.zslNew, !.hint = f.hintNew, !.hintKey = key]
    BY <1>1 DEF commit
  <2>2. Steady(f, h)
    BY TrySteady
  <2>. QED
    BY <2>1, <2>2, ZenonT(40) DEF Steady, HwBase
<1>2. ASSUME NEW g \in commitIgnored(h, key) PROVE Steady(g, h)
  <2>1. PICK f \in commit(h, key) : g = [f EXCEPT !.ok = TRUE]
    BY <1>2 DEF commitIgnored
  <2>2. Steady(f, h)
    BY <1>1
  <2>. QED
    BY <2>1, <2>2 DEF Steady, HwBase
<1>. QED
  BY <1>1, <1>2

LEMMA HintValueSteady ==
    ASSUME NEW h \in HwBase, NEW v \in BOOLEAN, NEW g \in updateRecordingHintValue(h, v)
    PROVE  Steady(g, h)
<1>. DEFINE f == [h EXCEPT !.hintNew = v]
<1>1. Steady(f, h) /\ f \in HwBase /\ h.hintKey \in BOOLEAN
  BY DEF Steady, HwBase
<1>2. Steady(g, f)
  BY <1>1, CommitSteady DEF updateRecordingHintValue
<1>. QED
  BY <1>1, <1>2 DEF Steady

-----------------------------------------------------------------------------
(* Recording and live snapshots.                                            *)
LEMMA StartRecording ==
    ASSUME NEW h \in HwBase, NEW g \in startRecording(h)
    PROVE  /\ g \in HwBase /\ g.live = h.live /\ g.setup = h.setup
           /\ g.ch["SNAPSHOT"] = "started" => h.ch["SNAPSHOT"] = "started"
           /\ g.ok => g.ch["VIDEO"] = "started"
           /\ ~g.ok /\ g.ch["VIDEO"] = "started" => h.ch["VIDEO"] = "started"
<1>1. \E f : Calm(f, h) /\ ((g = f /\ ~f.ok) \/ g \in startChannel("VIDEO", f))
  <2>1. CASE h.hint
    BY <2>1 DEF startRecording, Then, Calm
  <2>2. CASE ~h.hint
    <3>1. PICK f \in UNION {Then(preparePreview(e), LAMBDA d : startChannel("PREVIEW", d)) :
                              e \in updateRecordingHintValue(stopPreview(h), TRUE)} :
            (g = f /\ ~f.ok) \/ g \in startChannel("VIDEO", f)
      BY <2>2 DEF startRecording, Then
    <3>2. PICK e \in updateRecordingHintValue(stopPreview(h), TRUE) :
            f \in Then(preparePreview(e), LAMBDA d : startChannel("PREVIEW", d))
      OBVIOUS
    <3>3. PICK d \in preparePreview(e) : f = d \/ f \in startChannel("PREVIEW", d)
      BY <3>2 DEF Then
    <3>4. Calm(stopPreview(h), h) /\ stopPreview(h) \in HwBase
      BY UnpreparePreview DEF stopPreview, Calm
    <3>5. Calm(e, h) /\ e \in HwBase
      BY <3>4, HintValueSteady, SteadyIsCalm, CalmTransitive, ZenonT(40) DEF Calm
    <3>6. Calm(d, h) /\ d \in HwBase
      BY <3>5, PreparePreviewCalm, CalmTransitive DEF Calm
    <3>7. Calm(f, h)
      BY <3>3, <3>6, StartChannel, SteadyIsCalm, CalmTransitive DEF Channels
    <3>. QED
      BY <3>1, <3>7
  <2>. QED
    BY <2>1, <2>2 DEF HwBase
<1>2. PICK f : Calm(f, h) /\ ((g = f /\ ~f.ok) \/ g \in startChannel("VIDEO", f))
  BY <1>1
<1>3. CASE g = f /\ ~f.ok
  BY <1>2, <1>3 DEF Calm
<1>4. CASE g \in startChannel("VIDEO", f)
  BY <1>2, <1>4, StartChannel DEF Calm, Channels
<1>. QED
  BY <1>2, <1>3, <1>4

LEMMA StopRecording ==
    ASSUME NEW h \in HwBase
    PROVE  /\ Calm(stopRecording(h), h)
           /\ stopRecording(h).ch["VIDEO"] # "started"
<1>. DEFINE f == stopChannel("VIDEO", h)
<1>1. Calm(f, h) /\ f \in HwBase /\ f.ch["VIDEO"] # "started"
  BY StopChannel DEF Calm, Channels
<1>2. stopRecording(h) = [f EXCEPT !.ok = h.ch["VIDEO"] # "null"]
  BY DEF stopRecording
<1>. HIDE DEF f
<1>. QED
  BY <1>1, <1>2 DEF Calm, HwBase

LEMMA TakeLiveSnapshot ==
    ASSUME NEW h \in HwBase, NEW g \in takeLiveSnapshot(h)
    PROVE  /\ g \in HwBase /\ g.setup = h.setup
           /\ \A c \in {"VIDEO", "SNAPSHOT"} : g.ch[c] = h.ch[c]
           /\ ~g.ok => g.live = h.live
<1>1. PICK f \in Try("THREAD", h) : g = IF f.ok THEN [f EXCEPT !.live = "running"] ELSE f
  BY DEF takeLiveSnapshot
<1>2. Steady(f, h)
  BY TrySteady
<1>. QED
  BY <1>1, <1>2 DEF Steady, HwBase

LEMMA CancelLiveSnapshot ==
    ASSUME NEW h \in HwBase
    PROVE  /\ cancelLiveSnapshot(h) \in HwBase
           /\ cancelLiveSnapshot(h).live = "none" /\ cancelLiveSnapshot(h).setup = h.setup
           /\ cancelLiveSnapshot(h).ch["SNAPSHOT"] # "started"
           /\ cancelLiveSnapshot(h).ch["VIDEO"] = h.ch["VIDEO"]
<1>. DEFINE f == [h EXCEPT !.live = "none"]
            e == PostprocStop(f)
<1>1. f \in HwBase /\ f.live = "none" /\ f.setup = h.setup /\ f.ch = h.ch
  BY DEF HwBase
<1>. HIDE DEF f
<1>2. Steady(e, f) /\ e \in HwBase
  BY <1>1, PostprocStopSteady DEF Steady
<1>3. cancelLiveSnapshot(h) = stopChannel("SNAPSHOT", e)
  BY DEF cancelLiveSnapshot, f
<1>. HIDE DEF e
<1>4. /\ stopChannel("SNAPSHOT", e) \in HwBase
      /\ stopChannel("SNAPSHOT", e).live = e.live /\ stopChannel("SNAPSHOT", e).setup = e.setup
      /\ stopChannel("SNAPSHOT", e).ch["SNAPSHOT"] # "started"
      /\ stopChannel("SNAPSHOT", e).ch["VIDEO"] = e.ch["VIDEO"]
  BY <1>2, StopChannel DEF Calm, Channels
<1>. QED
  BY <1>1, <1>2, <1>3, <1>4 DEF Steady

LEMMA LiveSnapshotEffect ==
    ASSUME NEW h \in HwBase, NEW g \in LiveSnapshot(h)
    PROVE  /\ g \in HwBase /\ g.live = h.live /\ g.setup = h.setup
           /\ g.ch["VIDEO"] = h.ch["VIDEO"]
<1>1. PICK f \in PostprocStart(h) : g = f \/ g \in startChannel("SNAPSHOT", f)
  BY DEF LiveSnapshot, Then
<1>2. Steady(f, h) /\ f \in HwBase
  BY PostprocStartSteady DEF Steady
<1>3. g = f \/ /\ g \in HwBase /\ g.live = f.live /\ g.setup = f.setup
               /\ g.ch["VIDEO"] = f.ch["VIDEO"]
  BY <1>1, <1>2, StartChannel DEF Channels
<1>. QED
  BY <1>2, <1>3 DEF Steady

LEMMA ReleaseCalm == ASSUME NEW h \in HwBase PROVE Calm(release(h), h)
BY DEF release, Calm, HwBase, Channels

-----------------------------------------------------------------------------
(* Pictures.                                                                *)
LEMMA TakeZslPictureCalm ==
    ASSUME NEW h \in HwBase, NEW g \in takeZslPicture(h) PROVE Calm(g, h)
<1>1. \/ g = Failed(h)
      \/ g \in Then(PostprocStart(h), LAMBDA d :
                  Then(Try("ADVANCED", d), LAMBDA f : Unless(Try("PICTURE", f), PostprocStop)))
  BY DEF takeZslPicture
<1>2. CASE g = Failed(h)
  BY <1>2, FailedSteady, SteadyIsCalm
<1>3. CASE g # Failed(h)
  <2>1. PICK d \in PostprocStart(h) :
          g = d \/ g \in Then(Try("ADVANCED", d), LAMBDA f : Unless(Try("PICTURE", f), PostprocStop))
    BY <1>1, <1>3 DEF Then
  <2>2. Steady(d, h) /\ d \in HwBase
    BY PostprocStartSteady DEF Steady
  <2>3. CASE g = d
    BY <2>2, <2>3, SteadyIsCalm
  <2>4. CASE g # d
    <3>1. PICK f \in Try("ADVANCED", d) : g = f \/ g \in Unless(Try("PICTURE", f), PostprocStop)
      BY <2>1, <2>4 DEF Then
    <3>2. Steady(f, d) /\ f \in HwBase
      BY <2>2, TrySteady DEF Steady
    <3>3. g = f \/ \E e \in Try("PICTURE", f) : g = e \/ g = PostprocStop(e)
      BY <3>1 DEF Unless
    <3>4. Steady(g, f)
      BY <3>2, <3>3, TrySteady, PostprocStopSteady DEF Steady
    <3>. QED
      BY <2>2, <3>2, <3>4, SteadyIsCalm, CalmTransitive
  <2>. QED
    BY <2>3, <2>4
<1>. QED
  BY <1>2, <1>3

LEMMA CaptureCalm ==
    ASSUME NEW h, NEW S, \A g \in S : Calm(g, h), NEW g \in CaptureBy(S) PROVE Calm(g, h)
<1>. DEFINE captureOff(e) == delChannel("CAPTURE", e)
            deferredStart(e) == {[f EXCEPT !.ok = TRUE] : f \in PostprocStart(e)}
            configured == Then(S, LAMBDA e : Unless(Try("CAPTURE", e), captureOff))
            prepared == Then(configured, deferredStart)
            started == Then(prepared, LAMBDA e : Unless(startChannel("CAPTURE", e), captureOff))
            advanced == Then(started, LAMBDA e : Try("ADVANCED", e))
<1>. HIDE DEF configured, prepared, started, advanced
<1>1. \A e : Calm(e, h) => Calm(captureOff(e), h)
  BY DelChannel, CalmTransitive DEF Calm, Channels
<1>2. ASSUME NEW e \in configured PROVE Calm(e, h)
  <2>1. PICK f \in S : e = f \/ \E d \in Try("CAPTURE", f) : e = d \/ e = captureOff(d)
    BY <1>2 DEF configured, Then, Unless
  <2>2. \A d \in Try("CAPTURE", f) : Calm(d, h)
    BY TrySteady, SteadyIsCalm, CalmTransitive DEF Calm
  <2>. QED
    BY <1>1, <2>1, <2>2
<1>3. ASSUME NEW e \in prepared PROVE Calm(e, h)
  <2>1. PICK f \in configured : e = f \/ \E d \in PostprocStart(f) : e = [d EXCEPT !.ok = TRUE]
    BY <1>3 DEF prepared, Then
  <2>2. \A d \in PostprocStart(f) : Calm(d, h)
    BY <1>2, PostprocStartSteady, SteadyIsCalm, CalmTransitive DEF Calm
  <2>3. \A d : Calm(d, h) => Calm([d EXCEPT !.ok = TRUE], h)
    BY DEF Calm, HwBase
  <2>. QED
    BY <1>2, <2>1, <2>2, <2>3
<1>4. ASSUME NEW e \in started PROVE Calm(e, h)
  <2>1. PICK f \in prepared :
          e = f \/ \E d \in startChannel("CAPTURE", f) : e = d \/ e = captureOff(d)
    BY <1>4 DEF started, Then, Unless
  <2>2. \A d \in startChannel("CAPTURE", f) : Calm(d, h)
    BY <1>3, StartChannel, SteadyIsCalm, CalmTransitive DEF Calm, Channels
  <2>. QED
    BY <1>1, <1>3, <2>1, <2>2
<1>5. ASSUME NEW e \in advanced PROVE Calm(e, h)
  <2>1. PICK f \in started : e = f \/ e \in Try("ADVANCED", f)
    BY <1>5 DEF advanced, Then
  <2>. QED
    BY <1>4, <2>1, TrySteady, SteadyIsCalm, CalmTransitive DEF Calm
<1>6. PICK e \in advanced :
        g = e \/ \E d \in Try("PICTURE", e) : g = d \/ g = captureOff(d)
  BY DEF CaptureBy, advanced, started, prepared, configured, Then, Unless
<1>7. \A d \in Try("PICTURE", e) : Calm(d, h)
  BY <1>5, TrySteady, SteadyIsCalm, CalmTransitive DEF Calm
<1>. QED
  BY <1>1, <1>5, <1>6, <1>7

LEMMA TakeJpegPictureCalm ==
    ASSUME NEW h \in HwBase, NEW g \in takeJpegPicture(h) PROVE Calm(g, h)
<1>. DEFINE added == addChannel("CAPTURE", delChannel("PREVIEW", h))
            allocated(f) == IF f.longshot THEN {f} ELSE Try("POSTVIEW", f)
            S == Then(added, allocated)
<1>1. ASSUME NEW f \in added PROVE Calm(f, h) /\ f \in HwBase
  <2>1. Calm(delChannel("PREVIEW", h), h) /\ delChannel("PREVIEW", h) \in HwBase
    BY DelChannel DEF Calm, Channels
  <2>2. Calm(f, delChannel("PREVIEW", h))
    BY <1>1, <2>1, AddChannel DEF Channels
  <2>. QED
    BY <2>1, <2>2, CalmTransitive DEF Calm
<1>2. ASSUME NEW f \in HwBase, NEW e \in allocated(f) PROVE Calm(e, f)
  BY <1>2, TrySteady, SteadyIsCalm DEF Calm
<1>3. g \in CaptureBy(S)
  BY DEF takeJpegPicture
<1>. HIDE DEF added, allocated
<1>4. \A e \in S : \E f \in added : e = f \/ e \in allocated(f)
  BY DEF Then
<1>. HIDE DEF S
<1>5. \A e \in S : Calm(e, h)
  BY <1>1, <1>2, <1>4, CalmTransitive
<1>. QED
  BY <1>3, <1>5, CaptureCalm

LEMMA TakeRawPictureCalm ==
    ASSUME NEW h \in HwBase, NEW g \in takeRawPicture(h) PROVE Calm(g, h)
<1>. DEFINE rawOff(e) == delChannel("RAW", e)
            processed(f) == Unless(PostprocStart(f), rawOff)
            running(f) == Unless(startChannel("RAW", f), LAMBDA e : rawOff(PostprocStop(e)))
<1>1. \A e \in HwBase : Calm(rawOff(e), e) /\ Calm(rawOff(PostprocStop(e)), e)
  BY DelChannel, PostprocStopSteady, SteadyIsCalm, CalmTransitive DEF Calm, Channels
<1>2. ASSUME NEW f \in HwBase, NEW e \in processed(f) PROVE Calm(e, f) /\ e \in HwBase
  <2>1. PICK d \in PostprocStart(f) : e = d \/ e = rawOff(d)
    BY <1>2 DEF Unless
  <2>. HIDE DEF rawOff
  <2>. QED
    BY <1>1, <2>1, PostprocStartSteady, SteadyIsCalm, CalmTransitive DEF Calm
<1>3. ASSUME NEW f \in HwBase, NEW e \in running(f) PROVE Calm(e, f)
  <2>1. PICK d \in startChannel("RAW", f) : e = d \/ e = rawOff(PostprocStop(d))
    BY <1>3 DEF Unless
  <2>. HIDE DEF rawOff
  <2>. QED
    BY <1>1, <2>1, StartChannel, SteadyIsCalm, CalmTransitive DEF Calm, Channels
<1>4. g \in Then(addChannel("RAW", delChannel("PREVIEW", h)), LAMBDA d : Then(processed(d), running))
  BY DEF takeRawPicture
<1>5. PICK d \in addChannel("RAW", delChannel("PREVIEW", h)) :
        g = d \/ g \in Then(processed(d), running)
  BY <1>4 DEF Then
<1>6. Calm(d, h) /\ d \in HwBase
  BY DelChannel, AddChannel, CalmTransitive DEF Calm, Channels
<1>7. ASSUME g # d PROVE Calm(g, d)
  <2>1. PICK e \in processed(d) : g = e \/ g \in running(e)
    BY <1>5, <1>7 DEF Then
  <2>. HIDE DEF processed, running
  <2>. QED
    BY <1>2, <1>3, <1>6, <2>1, CalmTransitive
<1>. QED
  BY <1>6, <1>7, CalmTransitive

LEMMA TakePictureCalm ==
    ASSUME NEW h \in HwBase, NEW g \in takePicture(h) PROVE Calm(g, h)
BY TakeZslPictureCalm, TakeJpegPictureCalm, TakeRawPictureCalm DEF takePicture

LEMMA LongShotSteady ==
    ASSUME NEW h \in HwBase, NEW g \in longShot(h) PROVE Steady(g, h)
BY FailedSteady, TrySteady DEF longShot

LEMMA StopCaptureSteady ==
    ASSUME NEW h \in HwBase PROVE Steady(stopCaptureChannel(h), h)
BY StopChannel DEF stopCaptureChannel, Calm, Steady, Channels

LEMMA UnhintedCalm ==
    ASSUME NEW h \in HwBase, NEW g \in Unhinted(h) PROVE Calm(g, h)
<1>1. Calm(h, h)
  BY DEF Calm
<1>2. ASSUME NEW f \in updateRecordingHintValue(stopPreview(h), FALSE), NEW e \in BringUpPreview(f)
      PROVE  Calm([e EXCEPT !.ok = TRUE], h)
  <2>1. Calm(stopPreview(h), h) /\ stopPreview(h) \in HwBase
    BY UnpreparePreview DEF stopPreview, Calm
  <2>2. Calm(f, h) /\ f \in HwBase
    BY <2>1, HintValueSteady, SteadyIsCalm, CalmTransitive, ZenonT(40) DEF Calm
  <2>3. Calm(e, h) /\ e \in HwBase
    BY <2>2, BringUpPreviewCalm, CalmTransitive DEF Calm
  <2>. QED
    BY <2>3 DEF Calm, HwBase
<1>3. \/ g = h
      \/ \E e \in UNION {BringUpPreview(f) : f \in updateRecordingHintValue(stopPreview(h), FALSE)} :
           g = [e EXCEPT !.ok = TRUE]
  BY DEF Unhinted
<1>. QED
  BY <1>1, <1>2, <1>3

-----------------------------------------------------------------------------
(* The handlers.                                                            *)
HalInv ==
    /\ m_state \in States /\ hw \in HwBase
    /\ VideoRunsWhileRecording /\ LiveSnapshotJoined

(* A step keeps the invariant, and the camera its setup.                    *)
HalKept == HalInv' /\ hw'.setup = hw.setup

LEMMA RestedSteady == ASSUME HalInv PROVE H \in HwBase /\ Steady(H, hw)
<1>1. hw \in HwBase /\ <<>> \in Seq({"START", "STOP"})
  BY DEF HalInv
<1>. QED
  BY <1>1 DEF H, Rested, Steady, HwBase

(* A step between states that do not record, by an operation that is calm.  *)
LEMMA QuietStep ==
    ASSUME HalInv, m_state \notin RecordingStates, Calm(hw', hw),
           m_state' \in States \ RecordingStates
    PROVE  HalKept
BY DEF HalKept, HalInv, Calm, VideoRunsWhileRecording, LiveSnapshotJoined, Runs, RecordingStates

(* A step that stays in its state by an operation that is steady.           *)
LEMMA SteadyStep ==
    ASSUME HalInv, Steady(hw', hw), UNCHANGED m_state PROVE HalKept
BY DEF HalKept, HalInv, Steady, VideoRunsWhileRecording, LiveSnapshotJoined, Runs

LEMMA PayloadsType == Payloads \subseteq SUBSET Settings
BY HalAssumption DEF Payloads

(* The answers that change nothing, the changes of parameters that restart   *)
(* nothing and the longshot commands keep every state as it is.             *)
LEMMA KeepingHandlers ==
    ASSUME HalInv, NEW e,
           NoOp(e) \/ Refuse(e) \/ Ignore \/ SendLongshot(e) \/ SetParams(e)
             \/ SetParamsRecording(e) \/ LongshotPicture(e)
    PROVE  HalKept
<1>1. H \in HwBase /\ Steady(H, hw)
  BY RestedSteady
<1>2. CASE NoOp(e) \/ Refuse(e) \/ Ignore
  BY <1>1, <1>2, FailedSteady, SteadyStep DEF NoOp, Refuse, Ignore, Done, Silent, Steady
<1>3. CASE SendLongshot(e)
  BY <1>1, <1>3, LongshotSteady, SteadyStep DEF SendLongshot, Done, Steady
<1>4. CASE LongshotPicture(e)
  BY <1>1, <1>4, LongShotSteady, SteadyStep DEF LongshotPicture, Done, Steady
<1>5. CASE SetParams(e) \/ SetParamsRecording(e)
  <2>1. PICK p \in SUBSET Settings :
          /\ UNCHANGED m_state
          /\ \/ hw' \in commit(updateParameters(H, p), newHintKey(H, p))
             \/ hw' = Failed(updateParameters(H, p))
    BY <1>5, PayloadsType DEF SetParams, SetParamsRecording, Done
  <2>2. /\ Steady(updateParameters(H, p), H) /\ updateParameters(H, p) \in HwBase
        /\ newHintKey(H, p) \in BOOLEAN
    BY <1>1, ParametersSteady DEF Steady
  <2>3. Steady(hw', updateParameters(H, p))
    BY <2>1, <2>2, CommitSteady, FailedSteady
  <2>. QED
    BY <1>1, <2>1, <2>2, <2>3, SteadyStep DEF Steady
<1>. QED
  BY <1>2, <1>3, <1>4, <1>5

(* A restart of the preview for a change of parameters, with any of the two  *)
(* ways to bring it up again.                                               *)
LEMMA RestartingCalm ==
    ASSUME HalInv, NEW e, NEW failed,
           \/ SetParamsRestarting(e, preparePreview, failed)
           \/ SetParamsRestarting(e, BringUpPreview, failed)
    PROVE  Calm(hw', hw) /\ m_state' \in {m_state, failed}
<1>1. H \in HwBase /\ Calm(H, hw)
  BY RestedSteady, SteadyIsCalm
<1>2. \A p \in SUBSET Settings :
        /\ Calm(updateParameters(H, p), hw) /\ updateParameters(H, p) \in HwBase
        /\ newHintKey(H, p) \in BOOLEAN
  BY <1>1, ParametersSteady, SteadyIsCalm, CalmTransitive DEF Calm
<1>3. PICK p \in SUBSET Settings :
        /\ m_state' \in {m_state, failed}
        /\ \/ hw' \in commit(updateParameters(H, p), newHintKey(H, p))
           \/ \E g \in commitIgnored(unpreparePreview(updateParameters(H, p)), newHintKey(H, p)) :
                hw' \in preparePreview(g) \/ hw' \in BringUpPreview(g)
  BY PayloadsType DEF SetParamsRestarting, Done
<1>. DEFINE u == updateParameters(H, p)
            v == unpreparePreview(u)
            key == newHintKey(H, p)
<1>4. Calm(u, hw) /\ u \in HwBase /\ key \in BOOLEAN
  BY <1>2
<1>5. CASE hw' \in commit(u, key)
  BY <1>3, <1>4, <1>5, CommitSteady, SteadyIsCalm, CalmTransitive
<1>6. ASSUME NEW g \in commitIgnored(v, key), hw' \in preparePreview(g) \/ hw' \in BringUpPreview(g)
      PROVE  Calm(hw', hw)
  <2>. HIDE DEF u, key
  <2>1. Calm(v, hw) /\ v \in HwBase
    BY <1>4, UnpreparePreview, CalmTransitive DEF Calm
  <2>. HIDE DEF v
  <2>2. Calm(g, hw) /\ g \in HwBase
    BY <1>4, <2>1, CommitSteady, SteadyIsCalm, CalmTransitive DEF Calm
  <2>3. Calm(hw', g)
    BY <1>6, <2>2, PreparePreviewCalm, BringUpPreviewCalm
  <2>. QED
    BY <2>2, <2>3, CalmTransitive
<1>. QED
  BY <1>3, <1>5, <1>6

LEMMA StoppedKeeps ==
    ASSUME HalInv, NEW e, m_state = "PREVIEW_STOPPED", StoppedState(e) PROVE HalKept
<1>1. H \in HwBase /\ Calm(H, hw) /\ m_state \in States \ RecordingStates
  BY RestedSteady, SteadyIsCalm DEF RecordingStates, States
<1>2. \A w \in BOOLEAN : Calm([H EXCEPT !.window = w], H)
  BY <1>1 DEF Calm, HwBase
<1>3. CASE \/ \E w \in BOOLEAN : Done(e, m_state, [H EXCEPT !.window = w])
           \/ \E h \in preparePreview(H) : Done(e, IF h.ok THEN "PREVIEW_READY" ELSE m_state, h)
           \/ \E h \in BringUpPreview(H) : Done(e, IF h.ok THEN "PREVIEWING" ELSE m_state, h)
           \/ Done(e, m_state, release(H))
  <2>1. Calm(hw', H)
    BY <1>1, <1>2, <1>3, PreparePreviewCalm, BringUpPreviewCalm, ReleaseCalm DEF Done
  <2>2. m_state' \in States \ RecordingStates
    BY <1>1, <1>3 DEF Done, States, RecordingStates
  <2>. QED
    BY <1>1, <2>1, <2>2, QuietStep, CalmTransitive
<1>. QED
  BY <1>3, KeepingHandlers DEF StoppedState, StoppedUnmoved

LEMMA ReadyKeeps ==
    ASSUME HalInv, NEW e, m_state = "PREVIEW_READY", ReadyState(e) PROVE HalKept
<1>1. H \in HwBase /\ Calm(H, hw) /\ m_state \in States \ RecordingStates
  BY RestedSteady, SteadyIsCalm DEF RecordingStates, States
<1>2. \A w \in BOOLEAN : Calm([H EXCEPT !.window = w], H) /\ [H EXCEPT !.window = w] \in HwBase
  BY <1>1 DEF Calm, HwBase
<1>3. ASSUME NEW h \in Unless(startPreview([H EXCEPT !.window = TRUE]), unpreparePreview)
      PROVE  Calm(h, H)
  <2>1. PICK g \in startPreview([H EXCEPT !.window = TRUE]) : h = g \/ h = unpreparePreview(g)
    BY <1>3 DEF Unless
  <2>. DEFINE w == [H EXCEPT !.window = TRUE]
  <2>2. Calm(w, H) /\ w \in HwBase /\ g \in startPreview(w)
    BY <1>2, <2>1
  <2>. HIDE DEF w
  <2>3. Calm(g, H) /\ g \in HwBase
    BY <2>2, StartPreviewSteady, SteadyIsCalm, CalmTransitive DEF Calm
  <2>. QED
    BY <2>1, <2>3, UnpreparePreview, CalmTransitive
<1>4. CASE SetParamsRestarting(e, preparePreview, "PREVIEW_STOPPED")
  BY <1>1, <1>4, RestartingCalm, QuietStep DEF States, RecordingStates
<1>5. CASE \/ Done(e, m_state, [H EXCEPT !.window = FALSE])
           \/ \E h \in Unless(startPreview([H EXCEPT !.window = TRUE]), unpreparePreview) :
                Done(e, IF h.ok THEN "PREVIEWING" ELSE "PREVIEW_STOPPED", h)
           \/ Done(e, "PREVIEW_STOPPED", unpreparePreview(H))
  <2>1. Calm(hw', H)
    BY <1>1, <1>2, <1>3, <1>5, UnpreparePreview DEF Done
  <2>2. m_state' \in States \ RecordingStates
    BY <1>1, <1>5 DEF Done, States, RecordingStates
  <2>. QED
    BY <1>1, <2>1, <2>2, QuietStep, CalmTransitive
<1>. QED
  BY <1>4, <1>5, KeepingHandlers DEF ReadyState, ReadyUnmoved

(* START_RECORDING from a state that does not record: VIDEO runs after it   *)
(* just when it succeeded.                                                  *)
LEMMA RecordingStarts ==
    ASSUME HalInv, NEW e, NEW h \in startRecording(H), NEW st \in RecordingStates,
           m_state \notin RecordingStates, st = "RECORDING" \/ m_state = "PREVIEW_PIC_TAKING",
           Done(e, IF h.ok THEN st ELSE m_state, h)
    PROVE  HalKept
<1>1. H \in HwBase /\ Steady(H, hw)
  BY RestedSteady
<1>2. /\ hw' = h /\ h \in HwBase /\ h.live = H.live /\ h.setup = H.setup
      /\ h.ch["SNAPSHOT"] = "started" => H.ch["SNAPSHOT"] = "started"
      /\ h.ok => h.ch["VIDEO"] = "started"
      /\ ~h.ok /\ h.ch["VIDEO"] = "started" => H.ch["VIDEO"] = "started"
      /\ m_state' = IF h.ok THEN st ELSE m_state
  BY <1>1, StartRecording DEF Done
<1>. QED
  BY <1>1, <1>2 DEF HalKept, HalInv, Steady, VideoRunsWhileRecording, LiveSnapshotJoined, Runs,
     RecordingStates, States

LEMMA PreviewingKeeps ==
    ASSUME HalInv, NEW e, m_state = "PREVIEWING", PreviewingState(e) PROVE HalKept
<1>1. H \in HwBase /\ Calm(H, hw) /\ m_state \in States \ RecordingStates
  BY RestedSteady, SteadyIsCalm DEF RecordingStates, States
<1>2. CASE SetParamsRestarting(e, BringUpPreview, "PREVIEW_STOPPED")
  BY <1>1, <1>2, RestartingCalm, QuietStep DEF States, RecordingStates
<1>3. CASE \E h \in startRecording(H) : Done(e, IF h.ok THEN "RECORDING" ELSE m_state, h)
  BY <1>1, <1>3, RecordingStarts DEF RecordingStates
<1>4. CASE PreviewingTakePicture(e)
  <2>1. PICK g \in Unhinted(H) :
          /\ hw' \in takePicture(g)
          /\ m_state' \in {"PREVIEW_PIC_TAKING", "PREVIEWING", "PIC_TAKING", "PREVIEW_STOPPED"}
    BY <1>4 DEF PreviewingTakePicture, Done
  <2>2. Calm(g, H) /\ g \in HwBase
    BY <1>1, UnhintedCalm DEF Calm
  <2>3. Calm(hw', hw)
    BY <1>1, <2>1, <2>2, TakePictureCalm, CalmTransitive
  <2>. QED
    BY <1>1, <2>1, <2>3, QuietStep DEF States, RecordingStates
<1>5. CASE PreviewingLongshotOn(e)
  <2>1. PICK g : /\ g = LongshotOn(H) /\ UNCHANGED m_state
                 /\ hw' = g \/ hw' \in BringUpPreview(stopPreview(g))
    BY <1>5 DEF PreviewingLongshotOn, Done
  <2>2. Calm(g, H) /\ g \in HwBase
    BY <1>1, <2>1, LongshotSteady, SteadyIsCalm DEF Calm
  <2>3. Calm(stopPreview(g), g) /\ stopPreview(g) \in HwBase
    BY <2>2, UnpreparePreview DEF stopPreview, Calm
  <2>4. hw' = g \/ Calm(hw', stopPreview(g))
    BY <2>1, <2>3, BringUpPreviewCalm
  <2>5. Calm(hw', hw)
    BY <1>1, <2>2, <2>3, <2>4, CalmTransitive
  <2>. QED
    BY <1>1, <2>1, <2>5, QuietStep
<1>6. CASE \/ Done(e, "PREVIEW_STOPPED", stopPreview(H))
           \/ \E h \in Try("PREPARE", H) :
                IF h.ok THEN Silent("PREPARE_SNAPSHOT", h) ELSE Done(e, m_state, h)
           \/ Done(e, m_state, LongshotOff(H))
  <2>1. Calm(hw', H)
    BY <1>1, <1>6, UnpreparePreview, TrySteady, LongshotSteady, SteadyIsCalm
    DEF Done, Silent, stopPreview
  <2>2. m_state' \in States \ RecordingStates
    BY <1>1, <1>6 DEF Done, Silent, States, RecordingStates
  <2>. QED
    BY <1>1, <2>1, <2>2, QuietStep, CalmTransitive
<1>. QED
  BY <1>2, <1>3, <1>4, <1>5, <1>6, KeepingHandlers
    DEF PreviewingState, PreviewingUnmoved, PreviewingNotices

LEMMA PrepareSnapshotKeeps ==
    ASSUME HalInv, NEW e, m_state = "PREPARE_SNAPSHOT", PrepareSnapshotState(e) PROVE HalKept
<1>1. CASE Done(e, "PREVIEWING", H)
  BY <1>1, RestedSteady, SteadyIsCalm, QuietStep DEF Done, States, RecordingStates
<1>. QED
  BY <1>1, KeepingHandlers DEF PrepareSnapshotState

LEMMA PicTakingKeeps ==
    ASSUME HalInv, NEW e, m_state = "PIC_TAKING", PicTakingState(e) PROVE HalKept
<1>1. H \in HwBase /\ Calm(H, hw) /\ m_state \in States \ RecordingStates
  BY RestedSteady, SteadyIsCalm DEF RecordingStates, States
<1>2. CASE \/ \E st \in {"PREVIEWING", "PREVIEW_STOPPED"} : Done(e, st, cancelPicture(H))
           \/ Done(e, m_state, LongshotOn(H))
           \/ Done(e, "PREVIEWING", LongshotOff(H))
  <2>1. Calm(hw', H)
    BY <1>1, <1>2, CancelPictureSteady, LongshotSteady, SteadyIsCalm DEF Done
  <2>2. m_state' \in States \ RecordingStates
    BY <1>1, <1>2 DEF Done, States, RecordingStates
  <2>. QED
    BY <1>1, <2>1, <2>2, QuietStep, CalmTransitive
<1>3. CASE LET stopped == stopCaptureChannel(H)
           IN  \E h \in IF hw.setup.restart THEN Then(preparePreview(stopped), startPreview)
                        ELSE {stopped} :
                 Silent(m_state, h)
  <2>. DEFINE s == stopCaptureChannel(H)
  <2>1. \/ hw' = s
        \/ \E f \in preparePreview(s) : hw' = f \/ hw' \in startPreview(f)
    BY <1>3 DEF Then, Silent
  <2>2. UNCHANGED m_state
    BY <1>3 DEF Silent
  <2>3. Calm(s, hw) /\ s \in HwBase
    BY <1>1, StopCaptureSteady, SteadyIsCalm, CalmTransitive DEF Calm
  <2>. HIDE DEF s
  <2>4. \A f \in preparePreview(s) : Calm(f, hw) /\ f \in HwBase
    BY <2>3, PreparePreviewCalm, CalmTransitive DEF Calm
  <2>5. Calm(hw', hw)
    BY <2>1, <2>3, <2>4, StartPreviewSteady, SteadyIsCalm, CalmTransitive
  <2>. QED
    BY <1>1, <2>2, <2>5, QuietStep
<1>4. PicTakingState(e) => \/ SetParams(e) \/ NoOp(e) \/ Refuse(e) \/ Ignore
                           \/ LongshotPicture(e)
                           \/ \E st \in {"PREVIEWING", "PREVIEW_STOPPED"} : Done(e, st, cancelPicture(H))
                           \/ Done(e, m_state, LongshotOn(H))
                           \/ Done(e, "PREVIEWING", LongshotOff(H))
                           \/ e = "STOP_CAPTURE_CHANNEL"
  BY DEF PicTakingState, PicTakingUnmoved, PicTakingNotices
<1>5. e = "STOP_CAPTURE_CHANNEL" =>
        LET stopped == stopCaptureChannel(H)
        IN  \E h \in IF hw.setup.restart THEN Then(preparePreview(stopped), startPreview)
                     ELSE {stopped} :
              Silent(m_state, h)
  BY Zenon DEF PicTakingState, PicTakingUnmoved, PicTakingNotices
<1>. QED
  BY <1>2, <1>3, <1>4, <1>5, KeepingHandlers

(* A recording that is left stops VIDEO first.                              *)
LEMMA RecordingEnds ==
    ASSUME NEW g \in HwBase,
           g.setup = hw.setup, g.live = "none", g.ch["SNAPSHOT"] # "started",
           hw' = stopRecording(g) \/ hw' = stopPreview(stopRecording(g)),
           m_state' \in {"PREVIEWING", "PREVIEW_STOPPED"}
    PROVE  HalKept
<1>1. /\ Calm(stopRecording(g), g) /\ stopRecording(g) \in HwBase
      /\ stopRecording(g).ch["VIDEO"] # "started"
  BY StopRecording DEF Calm
<1>2. Calm(stopPreview(stopRecording(g)), stopRecording(g))
  BY <1>1, UnpreparePreview DEF stopPreview
<1>3. /\ hw' \in HwBase /\ hw'.live = "none" /\ hw'.setup = hw.setup
      /\ hw'.ch["VIDEO"] # "started" /\ hw'.ch["SNAPSHOT"] # "started"
  BY <1>1, <1>2 DEF Calm
<1>. QED
  BY <1>3 DEF HalKept, HalInv, States, VideoRunsWhileRecording, LiveSnapshotJoined, Runs, RecordingStates

LEMMA RecordingKeeps ==
    ASSUME HalInv, NEW e, m_state = "RECORDING", RecordingState(e) PROVE HalKept
<1>1. H \in HwBase /\ Steady(H, hw)
  BY RestedSteady
<1>2. hw.live = "none" /\ hw.ch["SNAPSHOT"] # "started" /\ hw.ch["VIDEO"] = "started"
  BY DEF HalKept, HalInv, VideoRunsWhileRecording, LiveSnapshotJoined, Runs, RecordingStates
<1>3. CASE \E h \in takeLiveSnapshot(H) : Done(e, IF h.ok THEN "VIDEO_PIC_TAKING" ELSE m_state, h)
  <2>1. PICK h \in takeLiveSnapshot(H) :
          hw' = h /\ m_state' = IF h.ok THEN "VIDEO_PIC_TAKING" ELSE m_state
    BY <1>3 DEF Done
  <2>2. /\ h \in HwBase /\ h.setup = hw.setup
        /\ \A c \in {"VIDEO", "SNAPSHOT"} : h.ch[c] = hw.ch[c]
        /\ ~h.ok => h.live = hw.live
    BY <1>1, TakeLiveSnapshot DEF Steady
  <2>. QED
    BY <1>2, <2>1, <2>2 DEF HalKept, HalInv, States, VideoRunsWhileRecording, LiveSnapshotJoined,
       Runs, RecordingStates
<1>4. CASE \/ Done(e, "PREVIEWING", stopRecording(H))
           \/ Done(e, "PREVIEW_STOPPED", stopPreview(stopRecording(H)))
  <2>1. H.live = "none" /\ H.ch["SNAPSHOT"] # "started" /\ H.setup = hw.setup
    BY <1>1, <1>2 DEF Steady
  <2>. QED
    BY <1>1, <1>4, <2>1, RecordingEnds DEF Done
<1>. QED
  BY <1>3, <1>4, KeepingHandlers DEF RecordingState, RecordingUnmoved, RecordingNotices

LEMMA VideoPicTakingKeeps ==
    ASSUME HalInv, NEW e, m_state = "VIDEO_PIC_TAKING", VideoPicTakingState(e) PROVE HalKept
<1>1. H \in HwBase /\ Steady(H, hw)
  BY RestedSteady
<1>2. /\ cancelLiveSnapshot(H) \in HwBase /\ cancelLiveSnapshot(H).live = "none"
      /\ cancelLiveSnapshot(H).setup = hw.setup
      /\ cancelLiveSnapshot(H).ch["SNAPSHOT"] # "started"
      /\ cancelLiveSnapshot(H).ch["VIDEO"] = hw.ch["VIDEO"]
  BY <1>1, CancelLiveSnapshot DEF Steady
<1>3. CASE Done(e, "RECORDING", cancelLiveSnapshot(H))
  BY <1>2, <1>3 DEF Done, HalKept, HalInv, States, VideoRunsWhileRecording, LiveSnapshotJoined,
     Runs, RecordingStates
<1>4. CASE \/ Done(e, "PREVIEWING", stopRecording(cancelLiveSnapshot(H)))
           \/ Done(e, "PREVIEW_STOPPED", stopPreview(stopRecording(cancelLiveSnapshot(H))))
  BY <1>2, <1>4, RecordingEnds DEF Done
<1>. QED
  BY <1>3, <1>4, KeepingHandlers DEF VideoPicTakingState, VideoPicTakingLeft, VideoPicTakingUnmoved

LEMMA PreviewPicTakingKeeps ==
    ASSUME HalInv, NEW e, m_state = "PREVIEW_PIC_TAKING", PreviewPicTakingState(e) PROVE HalKept
<1>1. H \in HwBase /\ Steady(H, hw) /\ Calm(H, hw) /\ m_state \in States \ RecordingStates
  BY RestedSteady, SteadyIsCalm DEF RecordingStates, States
<1>2. Calm(PreviewPicCancelled, hw) /\ PreviewPicCancelled \in HwBase
  <2>1. hw.live = "none"
    BY DEF HalKept, HalInv, LiveSnapshotJoined
  <2>2. Calm(cancelLiveSnapshot(H), hw)
    BY <1>1, <2>1, CancelLiveSnapshot DEF Calm, Steady
  <2>3. Calm(cancelPicture(H), hw)
    BY <1>1, CancelPictureSteady, SteadyIsCalm, CalmTransitive
  <2>. QED
    BY <2>2, <2>3 DEF PreviewPicCancelled, Calm
<1>3. CASE SetParamsRestarting(e, BringUpPreview, "PIC_TAKING")
  BY <1>1, <1>3, RestartingCalm, QuietStep DEF States, RecordingStates
<1>4. CASE \E h \in startRecording(H) : Done(e, IF h.ok THEN "VIDEO_PIC_TAKING" ELSE m_state, h)
  BY <1>1, <1>4, RecordingStarts DEF RecordingStates
<1>5. CASE \/ Done(e, "PREVIEWING", PreviewPicCancelled)
           \/ Done(e, "PREVIEW_STOPPED", unpreparePreview(PreviewPicCancelled))
           \/ Done(e, m_state, LongshotOn(H))
           \/ Done(e, "PREVIEWING", LongshotOff(H))
  <2>1. Calm(unpreparePreview(PreviewPicCancelled), hw)
    BY <1>2, UnpreparePreview, CalmTransitive
  <2>2. Calm(LongshotOn(H), hw) /\ Calm(LongshotOff(H), hw)
    BY <1>1, LongshotSteady, SteadyIsCalm, CalmTransitive
  <2>3. Calm(hw', hw)
    BY <1>2, <1>5, <2>1, <2>2 DEF Done
  <2>4. m_state' \in States \ RecordingStates
    BY <1>1, <1>5 DEF Done, States, RecordingStates
  <2>. QED
    BY <1>1, <2>3, <2>4, QuietStep
<1>. QED
  BY <1>3, <1>4, <1>5, KeepingHandlers DEF PreviewPicTakingState, PreviewPicTakingUnmoved

(* The live snapshot's thread runs only beside a recording.                 *)
LEMMA LiveSnapshotThreadKeeps ==
    ASSUME HalInv, LiveSnapshotThread PROVE HalKept
<1>. DEFINE f == [H EXCEPT !.live = "over"]
<1>1. f \in HwBase /\ f.ch["VIDEO"] = hw.ch["VIDEO"] /\ f.setup = hw.setup
  BY RestedSteady DEF Steady, HwBase
<1>2. hw' \in LiveSnapshot(f) /\ UNCHANGED m_state /\ hw.live = "running"
  BY DEF LiveSnapshotThread, Silent
<1>. HIDE DEF f
<1>3. hw' \in HwBase /\ hw'.ch["VIDEO"] = hw.ch["VIDEO"] /\ hw'.setup = hw.setup
  BY <1>1, <1>2, LiveSnapshotEffect
<1>. QED
  BY <1>2, <1>3 DEF HalKept, HalInv, VideoRunsWhileRecording, LiveSnapshotJoined, Runs

LEMMA HalInitInv == smInit => HalInv
<1>. SUFFICES ASSUME smInit PROVE HalInv
  OBVIOUS
<1>1. PICK s \in Setups :
         hw = [setup |-> s, ch |-> [c \in Channels |-> "null"], zsl |-> s.zsl, zslNew |-> s.zsl,
               hint |-> FALSE, hintNew |-> FALSE, hintKey |-> FALSE,
               longshot |-> FALSE, window |-> FALSE, live |-> "none",
               ok |-> TRUE, notified |-> <<>>, posted |-> FALSE]
  BY DEF smInit
<1>2. s.zsl \in BOOLEAN /\ <<>> \in Seq({"START", "STOP"})
  BY HalAssumption DEF SetupType
<1>3. hw \in HwBase /\ hw.live = "none" /\ hw.ch["VIDEO"] = "null" /\ hw.ch["SNAPSHOT"] = "null"
  BY <1>1, <1>2 DEF HwBase, Channels
<1>. QED
  BY <1>3 DEF smInit, HalInv, States, VideoRunsWhileRecording, LiveSnapshotJoined, Runs,
     RecordingStates

(* Every request and every event, in every state.                           *)
LEMMA HandlersKeep == ASSUME HalInv, NEW e, stateMachine(e) PROVE HalKept
BY StoppedKeeps, ReadyKeeps, PreviewingKeeps, PrepareSnapshotKeeps, PicTakingKeeps,
   RecordingKeeps, VideoPicTakingKeeps, PreviewPicTakingKeeps DEF stateMachine

LEMMA HalNextKeeps == HalInv /\ [smNext]_smVars => HalKept
<1>. SUFFICES ASSUME HalInv, [smNext]_smVars PROVE HalKept
  OBVIOUS
<1>1. CASE UNCHANGED smVars
  BY <1>1 DEF smVars, HalKept, HalInv, VideoRunsWhileRecording, LiveSnapshotJoined, Runs
<1>. QED
  BY <1>1, HandlersKeep, LiveSnapshotThreadKeeps DEF smNext

LEMMA HalNextInv == HalInv /\ [smNext]_smVars => HalInv'
BY HalNextKeeps DEF HalKept

(* Whatever fails, whatever parameters change and when, with every setup:    *)
(* the video channel streams exactly in the two recording states.           *)
THEOREM VideoFollowsState == smSpec => []VideoRunsWhileRecording
BY HalInitInv, HalNextInv, PTL DEF smSpec, HalInv

(* ... and the live snapshot's thread and channel never outlive the state    *)
(* that owns them, so that no thread's handle is overwritten unjoined.      *)
THEOREM LiveSnapshotIsJoined == smSpec => []LiveSnapshotJoined
BY HalInitInv, HalNextInv, PTL DEF smSpec, HalInv

-----------------------------------------------------------------------------
(* On a camera where nothing fails, the channels are those of the state.    *)

(* The channel that shows the preview, and the one that must then be gone.   *)
Shown(h) == IF ZslPreview(h) THEN "ZSL" ELSE "PREVIEW"
Other(h) == IF ZslPreview(h) THEN "PREVIEW" ELSE "ZSL"

Sound(h) == h \in HwBase /\ h.setup.calm /\ ~h.setup.restart /\ ~h.longshot
Works(h) == Sound(h) /\ h.ok

(* What the channels are in each state between two handlers; nothing is left *)
(* to commit.                                                               *)
Shape(st, h) ==
    /\ Sound(h)
    /\ h.zslNew = h.zsl /\ h.hintNew = h.hint
    /\ st = "PREVIEW_STOPPED" => h.ch["ZSL"] = "null" /\ h.ch["PREVIEW"] = "null"
    /\ st = "PREVIEW_READY" => h.ch[Shown(h)] # "null" /\ h.ch[Other(h)] = "null"
    /\ st \in {"PREVIEWING", "PREPARE_SNAPSHOT", "PREVIEW_PIC_TAKING"} \cup RecordingStates
         => h.ch[Shown(h)] = "started" /\ h.ch[Other(h)] = "null"
    /\ st = "PREVIEW_PIC_TAKING" => ZslPreview(h)
    /\ st \in RecordingStates => h.hint
    /\ st = "PIC_TAKING" =>
         /\ ~h.zsl /\ h.ch["ZSL"] = "null" /\ h.ch["PREVIEW"] = "null"
         /\ h.ch[IF h.setup.raw THEN "CAPTURE" ELSE "RAW"] = "null"
    /\ st # "PIC_TAKING" => h.ch["CAPTURE"] = "null" /\ h.ch["RAW"] = "null"

ChannelsInv == HalInv /\ (hw.setup.calm /\ ~hw.setup.restart => Shape(m_state, hw))

(* g comes of h by an operation that succeeded and changed no parameter.    *)
Alike(g, h) ==
    /\ Works(g) /\ g.setup = h.setup
    /\ g.zsl = h.zsl /\ g.zslNew = h.zslNew /\ g.hint = h.hint /\ g.hintNew = h.hintNew
Changed(g, h, c, v) ==
    Alike(g, h) /\ g.ch[c] = v /\ \A d \in Channels \ {c} : g.ch[d] = h.ch[d]

(* The channels of previews and pictures: those of a recording are spoken of *)
(* by VideoRunsWhileRecording and LiveSnapshotJoined.                       *)
Pictured == {"ZSL", "PREVIEW", "CAPTURE", "RAW"}
Kept(g, h) == Alike(g, h) /\ \A d \in Pictured : g.ch[d] = h.ch[d]
Turned(g, h, v) ==
    /\ Alike(g, h) /\ g.ch[Shown(h)] = v
    /\ \A d \in Pictured \ {Shown(h)} : g.ch[d] = h.ch[d]
Cleared(g, h) ==
    /\ Alike(g, h) /\ g.ch["ZSL"] = "null" /\ g.ch["PREVIEW"] = "null"
    /\ g.ch["CAPTURE"] = h.ch["CAPTURE"] /\ g.ch["RAW"] = h.ch["RAW"]

-----------------------------------------------------------------------------
(* The operations on one channel.                                           *)
LEMMA CalmTry == ASSUME NEW op, NEW h, Works(h) PROVE Try(op, h) = {h}
BY DEF Try, Works, Sound

LEMMA CalmSet ==
    ASSUME NEW c \in Channels, NEW h, Works(h), NEW v \in {"null", "made", "started"}
    PROVE  Changed([h EXCEPT !.ch[c] = v], h, c, v)
BY DEF Works, Sound, Changed, Alike, HwBase

LEMMA CalmDel ==
    ASSUME NEW c \in Channels, NEW h, Works(h)
    PROVE  Changed(delChannel(c, h), h, c, "null")
BY CalmSet DEF delChannel

LEMMA CalmAdd ==
    ASSUME NEW c \in Channels, NEW h, Works(h)
    PROVE  addChannel(c, h) = {[h EXCEPT !.ch[c] = "made"]}
BY CalmTry DEF addChannel, Works

LEMMA CalmAdded ==
    ASSUME NEW c \in Channels, NEW h, Works(h), NEW g \in addChannel(c, h)
    PROVE  Changed(g, h, c, "made")
<1>1. g = [h EXCEPT !.ch[c] = "made"]
  BY CalmAdd
<1>. QED
  BY <1>1, CalmSet

LEMMA CalmStart ==
    ASSUME NEW c \in Channels, NEW h, Works(h), h.ch[c] # "null", NEW g \in startChannel(c, h)
    PROVE  Changed(g, h, c, "started")
<1>1. g = [h EXCEPT !.ch[c] = "started"]
  BY CalmTry DEF startChannel, Works
<1>. QED
  BY <1>1, CalmSet

LEMMA CalmStop ==
    ASSUME NEW c \in Channels, NEW h, Works(h)
    PROVE  /\ Alike(stopChannel(c, h), h)
           /\ \A d \in Channels \ {c} : stopChannel(c, h).ch[d] = h.ch[d]
<1>. DEFINE v == IF h.ch[c] = "started" THEN "made" ELSE h.ch[c]
<1>1. v \in {"null", "made", "started"}
  BY DEF Works, Sound, HwBase
<1>2. stopChannel(c, h) = [h EXCEPT !.ch[c] = v]
  BY DEF stopChannel
<1>. HIDE DEF v
<1>3. Changed([h EXCEPT !.ch[c] = v], h, c, v)
  BY <1>1, CalmSet
<1>. QED
  BY <1>2, <1>3 DEF Changed

LEMMA ChangedKeeps ==
    ASSUME NEW g, NEW h, NEW c \in {"VIDEO", "SNAPSHOT"}, NEW v, Changed(g, h, c, v)
    PROVE  Kept(g, h)
BY DEF Changed, Kept, Pictured, Channels

LEMMA KeptIs == ASSUME NEW h, Works(h) PROVE Kept(h, h)
BY DEF Kept, Alike

LEMMA KeptTransitive ==
    ASSUME NEW f, NEW g, NEW h, Kept(f, g), Kept(g, h) PROVE Kept(f, h)
BY DEF Kept, Alike

(* What a notification or a new value of ok does to no channel.             *)
LEMMA CalmTell ==
    ASSUME NEW h, Works(h)
    PROVE  /\ Kept(PostprocStop(h), h)
           /\ \A g \in PostprocStart(h) : Kept(g, h)
<1>1. h \in HwBase
  BY DEF Works, Sound
<1>2. \A w \in {"START", "STOP"} : Kept([h EXCEPT !.notified = Append(@, w)], h)
  <2>. SUFFICES ASSUME NEW w \in {"START", "STOP"}
                PROVE  Kept([h EXCEPT !.notified = Append(@, w)], h)
    OBVIOUS
  <2>1. Append(h.notified, w) \in Seq({"START", "STOP"})
    BY <1>1 DEF HwBase
  <2>. DEFINE n == Append(h.notified, w)
  <2>2. [h EXCEPT !.notified = Append(@, w)] = [h EXCEPT !.notified = n]
    OBVIOUS
  <2>3. n \in Seq({"START", "STOP"})
    BY <2>1
  <2>. HIDE DEF n
  <2>. QED
    BY <2>2, <2>3 DEF Kept, Alike, Works, Sound, HwBase, Pictured
<1>3. \A g \in PostprocStart(h) : g = [h EXCEPT !.notified = Append(@, "START")]
  BY CalmTry DEF PostprocStart, Works
<1>. QED
  BY <1>2, <1>3 DEF PostprocStop

-----------------------------------------------------------------------------
(* The preview.                                                             *)
LEMMA CalmUnprepare ==
    ASSUME NEW h, Works(h) PROVE Cleared(unpreparePreview(h), h)
BY DEF unpreparePreview, Cleared, Alike, Works, Sound, HwBase, Channels

LEMMA CalmPreparePreview ==
    ASSUME NEW h, Works(h), NEW g \in preparePreview(h) PROVE Turned(g, h, "made")
<1>1. CASE ZslPreview(h)
  <2>1. Changed(g, h, "ZSL", "made")
    BY <1>1, CalmAdded DEF preparePreview, Channels
  <2>. QED
    BY <1>1, <2>1 DEF Changed, Turned, Shown, Pictured, Channels
<1>2. ASSUME NEW f, Works(f), NEW e \in PreparePreviewChannel(f), ~ZslPreview(f)
      PROVE  Turned(e, f, "made")
  <2>1. \A d \in addChannel("PREVIEW", f) : Changed(d, f, "PREVIEW", "made") /\ d.ok
    BY <1>2, CalmAdded DEF Changed, Alike, Works, Channels
  <2>2. Changed(e, f, "PREVIEW", "made")
    BY <1>2, <2>1 DEF PreparePreviewChannel, Unless
  <2>. QED
    BY <1>2, <2>2 DEF Changed, Turned, Shown, Pictured, Channels
<1>3. CASE ~ZslPreview(h) /\ ~h.hint
  BY <1>2, <1>3 DEF preparePreview
<1>4. CASE ~ZslPreview(h) /\ h.hint
  <2>1. g \in Then(Then(PrepareSnapshotChannel(h), PrepareVideoChannel), PreparePreviewChannel)
    BY <1>4 DEF preparePreview, Works, Sound
  <2>2. \A e \in PrepareSnapshotChannel(h) : Kept(e, h)
    BY CalmAdded, ChangedKeeps, KeptIs DEF PrepareSnapshotChannel, Channels
  <2>3. ASSUME NEW e, Works(e), NEW d \in PrepareVideoChannel(e) PROVE Kept(d, e)
    <3>1. \A f \in addChannel("VIDEO", e) : Kept(f, e) /\ f.ok
      BY <2>3, CalmAdded, ChangedKeeps DEF Changed, Alike, Works, Channels
    <3>. QED
      BY <2>3, <3>1 DEF PrepareVideoChannel, Unless
  <2>4. PICK f \in Then(PrepareSnapshotChannel(h), PrepareVideoChannel) :
          (g = f /\ ~f.ok) \/ g \in PreparePreviewChannel(f)
    BY <2>1 DEF Then
  <2>5. PICK e \in PrepareSnapshotChannel(h) : (f = e /\ ~e.ok) \/ f \in PrepareVideoChannel(e)
    BY <2>4 DEF Then
  <2>6. Kept(e, h) /\ Works(e) /\ e.ok
    BY <2>2, <2>5 DEF Kept, Alike, Works
  <2>7. Kept(f, h) /\ Works(f) /\ f.ok
    BY <2>3, <2>5, <2>6, KeptTransitive DEF Kept, Alike, Works
  <2>8. ~ZslPreview(f)
    BY <1>4, <2>7 DEF Kept, Alike, ZslPreview
  <2>9. Turned(g, f, "made")
    BY <1>2, <2>4, <2>7, <2>8
  <2>. QED
    BY <1>4, <2>7, <2>8, <2>9 DEF Kept, Alike, Turned, Shown
<1>. QED
  BY <1>1, <1>3, <1>4

LEMMA CalmStartPreview ==
    ASSUME NEW h, Works(h), h.ch[Shown(h)] # "null", NEW g \in startPreview(h)
    PROVE  Turned(g, h, "started")
<1>1. Shown(h) \in Channels /\ g \in startChannel(Shown(h), h)
  BY DEF startPreview, Shown, Channels
<1>2. Changed(g, h, Shown(h), "started")
  BY <1>1, CalmStart
<1>. QED
  BY <1>2 DEF Changed, Turned, Pictured, Channels

LEMMA CalmBringUp ==
    ASSUME NEW h, Works(h), NEW g \in BringUpPreview(h) PROVE Turned(g, h, "started")
<1>1. PICK f \in preparePreview(h) :
        (g = f /\ ~f.ok) \/ \E e \in startPreview(f) : g = e \/ (g = unpreparePreview(e) /\ ~e.ok)
  BY DEF BringUpPreview, Then, Unless
<1>2. Turned(f, h, "made") /\ Works(f) /\ f.ok
  BY CalmPreparePreview DEF Turned, Alike, Works
<1>3. Shown(f) = Shown(h)
  BY <1>2 DEF Turned, Alike, Shown, ZslPreview
<1>4. \A e \in startPreview(f) : Turned(e, f, "started") /\ e.ok
  BY <1>2, <1>3, CalmStartPreview DEF Turned, Alike, Works
<1>5. Turned(g, f, "started")
  BY <1>1, <1>2, <1>4
<1>. QED
  BY <1>2, <1>3, <1>5 DEF Turned, Alike

-----------------------------------------------------------------------------
(* Parameters.                                                              *)
(* h with another mode to commit.                                           *)
Renewed(g, h) == Works(g) /\ g.setup = h.setup /\ g.zsl = h.zsl /\ g.hint = h.hint /\ g.ch = h.ch

LEMMA CalmUpdate ==
    ASSUME NEW h, Works(h), NEW p \in SUBSET Settings
    PROVE  /\ Renewed(updateParameters(h, p), h) /\ newHintKey(h, p) \in BOOLEAN
           /\ p = {} => Kept(updateParameters(h, p), h)
<1>. DEFINE z == IF "zsl" \in p THEN ~h.zslNew ELSE h.zslNew
            n == IF "hint" \in p THEN ~h.hintKey ELSE h.hintNew
<1>1. z \in BOOLEAN /\ n \in BOOLEAN /\ newHintKey(h, p) \in BOOLEAN
  BY DEF newHintKey, Works, Sound, HwBase
<1>2. updateParameters(h, p) = [h EXCEPT !.zslNew = z, !.hintNew = n]
  BY DEF updateParameters
<1>3. p = {} => z = h.zslNew /\ n = h.hintNew
  OBVIOUS
<1>. HIDE DEF z, n
<1>4. Renewed(updateParameters(h, p), h)
  BY <1>1, <1>2 DEF Renewed, Works, Sound, HwBase
<1>5. p = {} => Kept(updateParameters(h, p), h)
  BY <1>1, <1>2, <1>3 DEF Kept, Alike, Works, Sound, HwBase
<1>. QED
  BY <1>1, <1>4, <1>5

(* A commit puts in force what waits for it, and touches no channel.        *)
Committed(g, h) ==
    /\ Works(g) /\ g.setup = h.setup /\ g.ch = h.ch
    /\ g.zsl = h.zslNew /\ g.zslNew = h.zslNew /\ g.hint = h.hintNew /\ g.hintNew = h.hintNew

LEMMA CalmCommit ==
    ASSUME NEW h, Works(h), NEW key \in BOOLEAN
    PROVE  /\ \A g \in commit(h, key) : Committed(g, h)
           /\ \A g \in commitIgnored(h, key) : Committed(g, h)
<1>. DEFINE f == [h EXCEPT !.zsl = h.zslNew, !.hint = h.hintNew, !.hintKey = key]
<1>1. \A g \in commit(h, key) : g = f
  <2>1. Try("COMMIT", h) = {h} /\ h.ok
    BY CalmTry DEF Works
  <2>. QED
    BY <2>1 DEF commit
<1>2. Committed(f, h)
  BY DEF Committed, Works, Sound, HwBase
<1>. HIDE DEF f
<1>3. \A g \in commitIgnored(h, key) : Committed(g, h)
  <2>1. \A g \in commitIgnored(h, key) : g = [f EXCEPT !.ok = TRUE]
    BY <1>1 DEF commitIgnored
  <2>2. Committed([f EXCEPT !.ok = TRUE], h)
    BY <1>2 DEF Committed, Works, Sound, HwBase
  <2>. QED
    BY <2>1, <2>2
<1>. QED
  BY <1>1, <1>2, <1>3

LEMMA CalmHint ==
    ASSUME NEW h, Works(h), NEW v \in BOOLEAN, NEW g \in updateRecordingHintValue(h, v)
    PROVE  /\ Works(g) /\ g.setup = h.setup /\ g.ch = h.ch
           /\ g.zsl = h.zslNew /\ g.zslNew = h.zslNew /\ g.hint = v /\ g.hintNew = v
<1>. DEFINE f == [h EXCEPT !.hintNew = v]
<1>1. /\ Works(f) /\ f.setup = h.setup /\ f.ch = h.ch /\ f.zslNew = h.zslNew /\ f.hintNew = v
      /\ h.hintKey \in BOOLEAN
  BY DEF Works, Sound, HwBase
<1>2. g \in commitIgnored(f, h.hintKey)
  BY DEF updateRecordingHintValue
<1>. HIDE DEF f
<1>. QED
  BY <1>1, <1>2, CalmCommit DEF Committed

(* The preview in another mode: everything but the recording hint stays.    *)
LEMMA CalmRehint ==
    ASSUME NEW h, Works(h), h.zslNew = h.zsl, NEW v \in BOOLEAN,
           NEW g \in updateRecordingHintValue(stopPreview(h), v)
    PROVE  /\ Works(g) /\ g.setup = h.setup
           /\ g.zsl = h.zsl /\ g.zslNew = h.zsl /\ g.hint = v /\ g.hintNew = v
           /\ g.ch["ZSL"] = "null" /\ g.ch["PREVIEW"] = "null"
           /\ g.ch["CAPTURE"] = h.ch["CAPTURE"] /\ g.ch["RAW"] = h.ch["RAW"]
<1>1. Cleared(stopPreview(h), h) /\ Works(stopPreview(h))
  BY CalmUnprepare DEF stopPreview, Cleared, Alike
<1>. QED
  BY <1>1, CalmHint DEF Cleared, Alike

-----------------------------------------------------------------------------
(* A preview that shows, with no picture being taken.                       *)
Showing(h) ==
    /\ Sound(h) /\ h.zslNew = h.zsl /\ h.hintNew = h.hint
    /\ h.ch[Shown(h)] = "started" /\ h.ch[Other(h)] = "null"
    /\ h.ch["CAPTURE"] = "null" /\ h.ch["RAW"] = "null"

LEMMA ShowingKept ==
    ASSUME NEW g, NEW h, Kept(g, h), Showing(h) PROVE Showing(g)
BY DEF Showing, Kept, Alike, Works, Shown, Other, Pictured, ZslPreview

LEMMA ShowingTurned ==
    ASSUME NEW g, NEW h, Turned(g, h, "started"), h.zslNew = h.zsl, h.hintNew = h.hint,
           \A d \in Pictured \ {Shown(h)} : h.ch[d] = "null"
    PROVE  Showing(g)
BY DEF Showing, Turned, Alike, Works, Shown, Other, Pictured, ZslPreview

(* START_RECORDING, which may find no VIDEO channel, has the preview of a    *)
(* recording if it succeeds, and a preview if it does not.                  *)
LEMMA CalmStartRecording ==
    ASSUME NEW h, Works(h), Showing(h), NEW g \in startRecording(h)
    PROVE  Showing(g) /\ g.hint /\ g.setup = h.setup
<1>1. ASSUME NEW f, Works(f), Showing(f), f.hint, f.setup = h.setup,
             (g = f /\ ~f.ok) \/ g \in startChannel("VIDEO", f)
      PROVE  Showing(g) /\ g.hint /\ g.setup = h.setup
  <2>1. g \in startChannel("VIDEO", f)
    BY <1>1 DEF Works
  <2>2. CASE f.ch["VIDEO"] = "null"
    <3>1. g = [f EXCEPT !.ok = FALSE]
      BY <2>1, <2>2 DEF startChannel, Failed
    <3>2. /\ g \in HwBase /\ g.setup = f.setup /\ g.ch = f.ch /\ g.longshot = f.longshot
          /\ g.zsl = f.zsl /\ g.zslNew = f.zslNew /\ g.hint = f.hint /\ g.hintNew = f.hintNew
      BY <1>1, <3>1 DEF Works, Sound, HwBase
    <3>. QED
      BY <1>1, <3>2 DEF Showing, Sound, Shown, Other, ZslPreview
  <2>3. CASE f.ch["VIDEO"] # "null"
    <3>1. Kept(g, f)
      BY <1>1, <2>1, <2>3, CalmStart, ChangedKeeps DEF Channels
    <3>. QED
      BY <1>1, <3>1, ShowingKept DEF Kept, Alike
  <2>. QED
    BY <2>2, <2>3
<1>2. CASE h.hint
  <2>1. (g = h /\ ~h.ok) \/ g \in startChannel("VIDEO", h)
    BY <1>2 DEF startRecording, Then
  <2>. QED
    BY <1>1, <1>2, <2>1
<1>3. CASE ~h.hint
  <2>1. PICK f \in UNION {Then(preparePreview(e), LAMBDA d : startChannel("PREVIEW", d)) :
                            e \in updateRecordingHintValue(stopPreview(h), TRUE)} :
          (g = f /\ ~f.ok) \/ g \in startChannel("VIDEO", f)
    BY <1>3 DEF startRecording, Then
  <2>2. PICK e \in updateRecordingHintValue(stopPreview(h), TRUE) :
          f \in Then(preparePreview(e), LAMBDA d : startChannel("PREVIEW", d))
    OBVIOUS
  <2>3. PICK d \in preparePreview(e) : (f = d /\ ~d.ok) \/ f \in startChannel("PREVIEW", d)
    BY <2>2 DEF Then
  <2>4. /\ Works(e) /\ e.setup = h.setup /\ e.hint /\ e.hintNew /\ e.zslNew = e.zsl
        /\ Shown(e) = "PREVIEW" /\ \A c \in Pictured : e.ch[c] = "null"
    <3>1. h.zslNew = h.zsl /\ h.ch["CAPTURE"] = "null" /\ h.ch["RAW"] = "null"
      BY DEF Showing
    <3>2. /\ Works(e) /\ e.setup = h.setup /\ e.zslNew = e.zsl
          /\ e.hint = TRUE /\ e.hintNew = TRUE
          /\ e.ch["ZSL"] = "null" /\ e.ch["PREVIEW"] = "null"
          /\ e.ch["CAPTURE"] = "null" /\ e.ch["RAW"] = "null"
      BY <3>1, CalmRehint
    <3>. QED
      BY <3>2 DEF Shown, ZslPreview, Pictured
  <2>5. Turned(d, e, "made") /\ Works(d) /\ d.ok
    BY <2>4, CalmPreparePreview DEF Turned, Alike, Works
  <2>6. Changed(f, d, "PREVIEW", "started")
    BY <2>3, <2>4, <2>5, CalmStart DEF Turned, Channels
  <2>7. Turned(f, e, "started")
    BY <2>4, <2>5, <2>6 DEF Turned, Changed, Alike, Pictured, Channels
  <2>8. Works(f) /\ Showing(f) /\ f.hint /\ f.setup = h.setup
    BY <2>4, <2>7, ShowingTurned DEF Turned, Alike
  <2>. QED
    BY <1>1, <2>1, <2>8
<1>. QED
  BY <1>2, <1>3 DEF Works, Sound, HwBase

-----------------------------------------------------------------------------
(* Pictures.                                                                *)
LEMMA CalmZslPicture ==
    ASSUME NEW h, Works(h), h.ch["ZSL"] # "null", NEW g \in takeZslPicture(h)
    PROVE  Kept(g, h)
<1>1. PICK d \in PostprocStart(h) :
        (g = d /\ ~d.ok)
          \/ g \in Then(Try("ADVANCED", d), LAMBDA f : Unless(Try("PICTURE", f), PostprocStop))
  BY DEF takeZslPicture, Then
<1>2. Kept(d, h) /\ Works(d) /\ d.ok
  BY CalmTell DEF Kept, Alike, Works
<1>3. Try("ADVANCED", d) = {d} /\ Try("PICTURE", d) = {d}
  BY <1>2, CalmTry
<1>4. PICK f \in Try("ADVANCED", d) : (g = f /\ ~f.ok) \/ g \in Unless(Try("PICTURE", f), PostprocStop)
  BY <1>1, <1>2 DEF Then
<1>5. g = d
  BY <1>2, <1>3, <1>4 DEF Unless
<1>. QED
  BY <1>2, <1>5

(* A picture is being taken with a channel of its own.                      *)
Capturing(g, h) ==
    /\ Alike(g, h) /\ g.ch["ZSL"] = "null" /\ g.ch["PREVIEW"] = "null"
    /\ g.ch["RAW"] = "null" /\ g.ch["CAPTURE"] # "null"

LEMMA CapturingKept ==
    ASSUME NEW f, NEW g, NEW h, Kept(g, f), Capturing(f, h) PROVE Capturing(g, h)
BY DEF Kept, Capturing, Alike, Pictured

LEMMA CalmCapture ==
    ASSUME NEW h, NEW S, \A f \in S : Capturing(f, h), ~h.longshot, NEW g \in CaptureBy(S)
    PROVE  Capturing(g, h)
<1>. DEFINE captureOff(e) == delChannel("CAPTURE", e)
            deferredStart(e) == {[f EXCEPT !.ok = TRUE] : f \in PostprocStart(e)}
            configured == Then(S, LAMBDA e : Unless(Try("CAPTURE", e), captureOff))
            prepared == Then(configured, deferredStart)
            started == Then(prepared, LAMBDA e : Unless(startChannel("CAPTURE", e), captureOff))
            advanced == Then(started, LAMBDA e : Try("ADVANCED", e))
<1>. HIDE DEF configured, prepared, started, advanced
<1>1. \A e : Capturing(e, h) => Works(e) /\ e.ok /\ ~e.longshot /\ e.ch["CAPTURE"] # "null"
  BY DEF Capturing, Alike, Works, Sound
<1>2. ASSUME NEW e \in configured PROVE Capturing(e, h)
  <2>1. PICK f \in S : (e = f /\ ~f.ok) \/ e \in Unless(Try("CAPTURE", f), captureOff)
    BY <1>2 DEF configured, Then
  <2>2. Try("CAPTURE", f) = {f} /\ f.ok
    BY <1>1, CalmTry
  <2>3. e = f
    BY <2>1, <2>2 DEF Unless
  <2>. QED
    BY <2>3
<1>3. ASSUME NEW e \in prepared PROVE Capturing(e, h)
  <2>1. PICK f \in configured :
          (e = f /\ ~f.ok) \/ \E d \in PostprocStart(f) : e = [d EXCEPT !.ok = TRUE]
    BY <1>3 DEF prepared, Then
  <2>2. \A d \in PostprocStart(f) : Kept(d, f) /\ [d EXCEPT !.ok = TRUE] = d
    BY <1>1, <1>2, CalmTell DEF Kept, Alike, Works, Sound, HwBase
  <2>. QED
    BY <1>1, <1>2, <2>1, <2>2, CapturingKept
<1>4. ASSUME NEW e \in started PROVE Capturing(e, h)
  <2>1. PICK f \in prepared :
          (e = f /\ ~f.ok) \/ \E d \in startChannel("CAPTURE", f) : e = d \/ (e = captureOff(d) /\ ~d.ok)
    BY <1>4 DEF started, Then, Unless
  <2>2. \A d \in startChannel("CAPTURE", f) : Changed(d, f, "CAPTURE", "started") /\ d.ok
    BY <1>1, <1>3, CalmStart DEF Changed, Alike, Works, Channels
  <2>3. Capturing(f, h)
    BY <1>3
  <2>4. \A d : Changed(d, f, "CAPTURE", "started") => Capturing(d, h)
    BY <2>3 DEF Changed, Capturing, Alike, Channels
  <2>. QED
    BY <1>1, <2>1, <2>2, <2>3, <2>4
<1>5. ASSUME NEW e \in advanced PROVE Capturing(e, h)
  <2>1. PICK f \in started : e = f \/ e \in Try("ADVANCED", f)
    BY <1>5 DEF advanced, Then
  <2>. QED
    BY <1>1, <1>4, <2>1, CalmTry
<1>6. PICK e \in advanced : (g = e /\ ~e.ok) \/ (IF e.longshot THEN TRUE ELSE g = e)
  BY DEF CaptureBy, advanced, started, prepared, configured, Then
<1>. QED
  BY <1>1, <1>5, <1>6

(* The picture's channel is there alone.                                    *)
Alone(g, h) ==
    /\ Alike(g, h) /\ g.ch["ZSL"] = "null" /\ g.ch["PREVIEW"] = "null"
    /\ g.ch[IF g.setup.raw THEN "CAPTURE" ELSE "RAW"] = "null"

LEMMA CalmJpegPicture ==
    ASSUME NEW h, Works(h), h.ch["ZSL"] = "null", h.ch["RAW"] = "null",
           NEW g \in takeJpegPicture(h)
    PROVE  Capturing(g, h)
<1>. DEFINE added == addChannel("CAPTURE", delChannel("PREVIEW", h))
            allocated(f) == IF f.longshot THEN {f} ELSE Try("POSTVIEW", f)
            S == Then(added, allocated)
<1>1. ASSUME NEW f \in added PROVE Capturing(f, h) /\ Works(f)
  <2>1. Changed(delChannel("PREVIEW", h), h, "PREVIEW", "null") /\ Works(delChannel("PREVIEW", h))
    BY CalmDel DEF Changed, Alike, Channels
  <2>2. Changed(f, delChannel("PREVIEW", h), "CAPTURE", "made")
    BY <1>1, <2>1, CalmAdded DEF Channels
  <2>. QED
    BY <2>1, <2>2 DEF Changed, Capturing, Alike, Channels
<1>2. ASSUME NEW f \in added, NEW e \in allocated(f) PROVE e = f
  BY <1>1, <1>2, CalmTry
<1>3. g \in CaptureBy(S)
  BY DEF takeJpegPicture
<1>. HIDE DEF added, allocated
<1>4. \A e \in S : \E f \in added : e = f \/ e \in allocated(f)
  BY DEF Then
<1>. HIDE DEF S
<1>5. \A e \in S : Capturing(e, h)
  BY <1>1, <1>2, <1>4
<1>. QED
  BY <1>3, <1>5, CalmCapture DEF Works, Sound

LEMMA CalmRawPicture ==
    ASSUME NEW h, Works(h), h.ch["ZSL"] = "null", h.ch["CAPTURE"] = "null",
           NEW g \in takeRawPicture(h)
    PROVE  /\ Alike(g, h) /\ g.ch["ZSL"] = "null" /\ g.ch["PREVIEW"] = "null"
           /\ g.ch["CAPTURE"] = "null"
<1>. DEFINE rawOff(e) == delChannel("RAW", e)
            processed(f) == Unless(PostprocStart(f), rawOff)
            running(f) == Unless(startChannel("RAW", f), LAMBDA e : rawOff(PostprocStop(e)))
            Ready(f) == /\ Alike(f, h) /\ f.ch["ZSL"] = "null" /\ f.ch["PREVIEW"] = "null"
                        /\ f.ch["CAPTURE"] = "null" /\ f.ch["RAW"] # "null"
<1>1. g \in Then(addChannel("RAW", delChannel("PREVIEW", h)), LAMBDA d : Then(processed(d), running))
  BY DEF takeRawPicture
<1>2. PICK d \in addChannel("RAW", delChannel("PREVIEW", h)) :
        (g = d /\ ~d.ok) \/ g \in Then(processed(d), running)
  BY <1>1 DEF Then
<1>3. Ready(d) /\ d.ok /\ Works(d)
  <2>1. Changed(delChannel("PREVIEW", h), h, "PREVIEW", "null") /\ Works(delChannel("PREVIEW", h))
    BY CalmDel DEF Changed, Alike, Channels
  <2>2. Changed(d, delChannel("PREVIEW", h), "RAW", "made")
    BY <2>1, CalmAdded DEF Channels
  <2>. QED
    BY <2>1, <2>2 DEF Changed, Alike, Works, Channels
<1>4. ASSUME NEW e \in processed(d) PROVE Ready(e) /\ Works(e) /\ e.ok
  <2>1. \A c \in PostprocStart(d) : Kept(c, d) /\ c.ok
    BY <1>3, CalmTell DEF Kept, Alike, Works
  <2>2. Kept(e, d)
    BY <1>4, <2>1 DEF Unless
  <2>. QED
    BY <1>3, <2>2 DEF Kept, Alike, Works, Pictured
<1>5. ASSUME NEW e, Ready(e), Works(e), NEW f \in running(e) PROVE Ready(f)
  <2>1. \A c \in startChannel("RAW", e) : Changed(c, e, "RAW", "started") /\ c.ok
    BY <1>5, CalmStart DEF Changed, Alike, Works, Channels
  <2>2. Changed(f, e, "RAW", "started")
    BY <1>5, <2>1 DEF Unless
  <2>. QED
    BY <1>5, <2>2 DEF Changed, Alike, Channels
<1>6. PICK e \in processed(d) : (g = e /\ ~e.ok) \/ g \in running(e)
  <2>. HIDE DEF processed, running
  <2>. QED
    BY <1>2, <1>3 DEF Then
<1>. QED
  BY <1>4, <1>5, <1>6

LEMMA CalmPicture ==
    ASSUME NEW h, Works(h), Showing(h), ~h.hint, NEW g \in takePicture(h)
    PROVE  /\ g.ok
           /\ h.zsl => Kept(g, h)
           /\ ~h.zsl => Alone(g, h)
<1>1. CASE h.zsl
  <2>1. h.ch["ZSL"] # "null" /\ g \in takeZslPicture(h)
    BY <1>1 DEF Showing, Shown, ZslPreview, takePicture
  <2>. QED
    BY <1>1, <2>1, CalmZslPicture DEF Kept, Alike, Works
<1>2. CASE ~h.zsl
  <2>1. h.ch["ZSL"] = "null" /\ h.ch["CAPTURE"] = "null" /\ h.ch["RAW"] = "null"
    BY <1>2 DEF Showing, Other, ZslPreview
  <2>2. CASE h.setup.raw
    BY <1>2, <2>1, <2>2, CalmRawPicture DEF takePicture, Alone, Alike, Works
  <2>3. CASE ~h.setup.raw
    BY <1>2, <2>1, <2>3, CalmJpegPicture DEF takePicture, Capturing, Alone, Alike, Works
  <2>. QED
    BY <2>2, <2>3
<1>. QED
  BY <1>1, <1>2

LEMMA CalmUnhinted ==
    ASSUME NEW h, Works(h), Showing(h), NEW g \in Unhinted(h)
    PROVE  Works(g) /\ Showing(g) /\ ~g.hint /\ g.setup = h.setup
<1>1. CASE ~h.hint
  BY <1>1 DEF Unhinted
<1>2. CASE h.hint
  <2>1. PICK e \in UNION {BringUpPreview(f) : f \in updateRecordingHintValue(stopPreview(h), FALSE)} :
          g = [e EXCEPT !.ok = TRUE]
    BY <1>2 DEF Unhinted
  <2>2. PICK f \in updateRecordingHintValue(stopPreview(h), FALSE) : e \in BringUpPreview(f)
    OBVIOUS
  <2>3. h.zslNew = h.zsl /\ h.ch["CAPTURE"] = "null" /\ h.ch["RAW"] = "null"
    BY DEF Showing
  <2>4. /\ Works(f) /\ f.setup = h.setup /\ f.zslNew = f.zsl
        /\ f.hint = FALSE /\ f.hintNew = FALSE
        /\ f.ch["ZSL"] = "null" /\ f.ch["PREVIEW"] = "null"
        /\ f.ch["CAPTURE"] = "null" /\ f.ch["RAW"] = "null"
    BY <2>3, CalmRehint
  <2>5. Turned(e, f, "started")
    BY <2>2, <2>4, CalmBringUp
  <2>6. Works(e) /\ Showing(e) /\ ~e.hint /\ e.setup = h.setup
    BY <2>4, <2>5, ShowingTurned DEF Turned, Alike, Pictured
  <2>7. g = e
    BY <2>1, <2>6 DEF Works, Sound, HwBase
  <2>. QED
    BY <2>6, <2>7
<1>. QED
  BY <1>1, <1>2

-----------------------------------------------------------------------------
(* The handlers.                                                            *)
(* g is h as far as Shape can see.                                          *)
Same(g, h) ==
    /\ Sound(g) /\ g.setup = h.setup
    /\ g.zsl = h.zsl /\ g.zslNew = h.zslNew /\ g.hint = h.hint /\ g.hintNew = h.hintNew
    /\ \A d \in Pictured : g.ch[d] = h.ch[d]

LEMMA KeptSame == ASSUME NEW g, NEW h, Kept(g, h) PROVE Same(g, h)
BY DEF Kept, Alike, Works, Same

LEMMA SameTransitive ==
    ASSUME NEW f, NEW g, NEW h, Same(f, g), Same(g, h) PROVE Same(f, h)
BY DEF Same

LEMMA SameShape ==
    ASSUME NEW st, NEW g, NEW h, Same(g, h), Shape(st, h) PROVE Shape(st, g)
BY DEF Same, Shape, Shown, Other, ZslPreview, Pictured

Previewing == {"PREVIEWING", "PREPARE_SNAPSHOT"}

LEMMA ShowingShape ==
    ASSUME NEW h
    PROVE  /\ \A st \in Previewing \cup RecordingStates \cup {"PREVIEW_PIC_TAKING"} :
                 Shape(st, h) => Showing(h)
           /\ Showing(h) => /\ \A st \in Previewing \cup {"PREVIEW_READY"} : Shape(st, h)
                            /\ ZslPreview(h) => Shape("PREVIEW_PIC_TAKING", h)
                            /\ h.hint => \A st \in RecordingStates : Shape(st, h)
BY DEF Showing, Shape, Previewing, RecordingStates

(* What holds whenever a handler of such a camera is called.                *)
Calling ==
    ChannelsInv /\ hw.setup.calm /\ ~hw.setup.restart

LEMMA CalmRested ==
    ASSUME Calling PROVE Shape(m_state, H) /\ Works(H) /\ Same(H, hw) /\ H.ch = hw.ch
<1>1. Shape(m_state, hw) /\ Sound(hw) /\ hw \in HwBase
  BY DEF Calling, ChannelsInv, Shape, Sound
<1>2. <<>> \in Seq({"START", "STOP"})
  OBVIOUS
<1>3. Same(H, hw) /\ H.ok /\ H.ch = hw.ch
  BY <1>1, <1>2 DEF H, Rested, Same, Sound, HwBase
<1>. QED
  BY <1>1, <1>3, SameShape DEF Same, Works

LEMMA CalmFailed == ASSUME NEW h, Sound(h) PROVE Same(Failed(h), h)
BY DEF Failed, Same, Sound, HwBase

(* A preview that is torn down stops the machine, whatever it was doing.    *)
LEMMA CalmTornDown ==
    ASSUME NEW h, Sound(h), h.zslNew = h.zsl, h.hintNew = h.hint,
           h.ch["CAPTURE"] = "null", h.ch["RAW"] = "null"
    PROVE  Shape("PREVIEW_STOPPED", unpreparePreview(h))
BY DEF unpreparePreview, Shape, Sound, HwBase, Channels, RecordingStates

(* The answers that change nothing, and what needs a longshot.              *)
LEMMA CalmKeeping ==
    ASSUME Calling, NEW e, NoOp(e) \/ Refuse(e) \/ Ignore \/ LongshotPicture(e)
    PROVE  Shape(m_state', hw')
<1>1. Shape(m_state, H) /\ Sound(H) /\ ~hw.longshot
  BY CalmRested DEF Works, Calling, ChannelsInv, Shape, Sound
<1>2. Same(Failed(H), H)
  BY <1>1, CalmFailed
<1>3. Shape(m_state, Failed(H))
  BY <1>1, <1>2, SameShape
<1>. QED
  BY <1>1, <1>3 DEF NoOp, Refuse, Ignore, LongshotPicture, Done, Silent

(* While something is captured or recorded no parameter changes.            *)
LEMMA CalmBusy ==
    ASSUME Calling, NEW e, m_state \notin {"PREVIEW_STOPPED", "PREVIEW_READY", "PREVIEWING"},
           NEW failed,
           \/ SetParams(e) \/ SetParamsRecording(e)
           \/ SetParamsRestarting(e, BringUpPreview, failed)
    PROVE  Shape(m_state', hw')
<1>1. Shape(m_state, H) /\ Works(H)
  BY CalmRested
<1>2. Payloads = {{}}
  BY DEF Calling, Payloads
<1>3. ~needRestart(H, {})
  BY DEF needRestart
<1>4. hw' \in commit(updateParameters(H, {}), newHintKey(H, {})) /\ m_state' = m_state
  BY <1>2, <1>3 DEF SetParams, SetParamsRecording, SetParamsRestarting, Done
<1>. DEFINE u == updateParameters(H, {})
            key == newHintKey(H, {})
<1>5. Kept(u, H) /\ Works(u) /\ key \in BOOLEAN
  BY <1>1, CalmUpdate DEF Kept, Alike
<1>. HIDE DEF u, key
<1>6. Committed(hw', u)
  BY <1>4, <1>5, CalmCommit DEF u, key
<1>7. Same(hw', H)
  BY <1>1, <1>5, <1>6 DEF Committed, Kept, Alike, Works, Same, Shape, Pictured
<1>. QED
  BY <1>1, <1>4, <1>7, SameShape

(* A change of parameters where nothing is captured: nothing is left to     *)
(* commit, and the preview is the one of the new mode.                      *)
LEMMA CalmRestart ==
    ASSUME Calling, NEW p \in SUBSET Settings, m_state \in {"PREVIEW_READY", "PREVIEWING"}
    PROVE  /\ needRestart(H, p) =>
                 \A g \in commitIgnored(unpreparePreview(updateParameters(H, p)), newHintKey(H, p)) :
                   /\ Works(g) /\ g.zslNew = g.zsl /\ g.hintNew = g.hint
                   /\ \A d \in Pictured : g.ch[d] = "null"
           /\ ~needRestart(H, p) =>
                 \A g \in commit(updateParameters(H, p), newHintKey(H, p)) : Shape(m_state, g)
<1>1. Shape(m_state, H) /\ Works(H) /\ H.ch["CAPTURE"] = "null" /\ H.ch["RAW"] = "null"
  BY CalmRested DEF Shape
<1>. DEFINE u == updateParameters(H, p)
            key == newHintKey(H, p)
<1>2. Renewed(u, H) /\ Works(u) /\ key \in BOOLEAN
  BY <1>1, CalmUpdate DEF Renewed
<1>3. ~needRestart(H, p) => u.zslNew = H.zsl /\ u.hintNew = H.hint
  BY <1>1 DEF needRestart, newHintKey, updateParameters, Shape, Works, Sound, HwBase
<1>. HIDE DEF u, key
<1>4. Cleared(unpreparePreview(u), u) /\ Works(unpreparePreview(u))
  BY <1>2, CalmUnprepare DEF Cleared, Alike
<1>5. ASSUME NEW g \in commitIgnored(unpreparePreview(u), key)
      PROVE  /\ Works(g) /\ g.zslNew = g.zsl /\ g.hintNew = g.hint
             /\ \A d \in Pictured : g.ch[d] = "null"
  BY <1>1, <1>2, <1>4, <1>5, CalmCommit DEF Committed, Cleared, Renewed, Pictured
<1>6. ASSUME ~needRestart(H, p), NEW g \in commit(u, key) PROVE Shape(m_state, g)
  <2>1. Committed(g, u)
    BY <1>2, <1>6, CalmCommit
  <2>2. Same(g, H)
    BY <1>1, <1>2, <1>3, <1>6, <2>1 DEF Committed, Renewed, Works, Same, Shape, Pictured
  <2>. QED
    BY <1>1, <2>2, SameShape
<1>. QED
  BY <1>5, <1>6 DEF u, key

LEMMA CalmStopped ==
    ASSUME Calling, NEW e, e \notin {"LONGSHOT_ON", "LONGSHOT_OFF"},
           m_state = "PREVIEW_STOPPED", StoppedState(e)
    PROVE  Shape(m_state', hw')
<1>1. /\ Shape(m_state, H) /\ Works(H) /\ H.zslNew = H.zsl /\ H.hintNew = H.hint
      /\ \A d \in Pictured : H.ch[d] = "null"
  BY CalmRested DEF Shape, Pictured
<1>2. CASE \E w \in BOOLEAN : Done(e, m_state, [H EXCEPT !.window = w])
  <2>1. PICK w \in BOOLEAN : hw' = [H EXCEPT !.window = w] /\ m_state' = m_state
    BY <1>2 DEF Done
  <2>2. Same(hw', H)
    BY <1>1, <2>1 DEF Same, Works, Sound, HwBase
  <2>. QED
    BY <1>1, <2>1, <2>2, SameShape
<1>3. CASE SetParams(e)
  <2>1. PICK p \in SUBSET Settings :
          hw' \in commit(updateParameters(H, p), newHintKey(H, p)) /\ m_state' = m_state
    BY <1>3, PayloadsType DEF SetParams, Done
  <2>. DEFINE u == updateParameters(H, p)
              key == newHintKey(H, p)
  <2>2. Renewed(u, H) /\ Works(u) /\ key \in BOOLEAN
    BY <1>1, CalmUpdate DEF Renewed
  <2>. HIDE DEF u, key
  <2>3. Committed(hw', u)
    BY <2>1, <2>2, CalmCommit DEF u, key
  <2>. QED
    BY <1>1, <2>1, <2>2, <2>3 DEF Committed, Renewed, Works, Shape, Pictured, RecordingStates
<1>4. CASE \E h \in preparePreview(H) : Done(e, IF h.ok THEN "PREVIEW_READY" ELSE m_state, h)
  <2>1. Turned(hw', H, "made") /\ m_state' = "PREVIEW_READY"
    BY <1>1, <1>4, CalmPreparePreview DEF Done, Turned, Alike, Works
  <2>. QED
    BY <1>1, <2>1 DEF Turned, Alike, Works, Shape, Shown, Other, ZslPreview, Pictured, RecordingStates
<1>5. CASE \E h \in BringUpPreview(H) : Done(e, IF h.ok THEN "PREVIEWING" ELSE m_state, h)
  <2>1. Turned(hw', H, "started") /\ m_state' = "PREVIEWING"
    BY <1>1, <1>5, CalmBringUp DEF Done, Turned, Alike, Works
  <2>. QED
    BY <1>1, <2>1, ShowingTurned, ShowingShape DEF Previewing
<1>6. CASE Done(e, m_state, release(H))
  BY <1>1, <1>6 DEF Done, release, Works, Shape, Sound, HwBase, Channels, RecordingStates
<1>. QED
  BY <1>2, <1>3, <1>4, <1>5, <1>6, CalmKeeping
    DEF StoppedState, StoppedUnmoved, SendLongshot

LEMMA CalmReady ==
    ASSUME Calling, NEW e, e \notin {"LONGSHOT_ON", "LONGSHOT_OFF"},
           m_state = "PREVIEW_READY", ReadyState(e)
    PROVE  Shape(m_state', hw')
<1>1. /\ Shape(m_state, H) /\ Works(H) /\ H.zslNew = H.zsl /\ H.hintNew = H.hint
      /\ H.ch[Shown(H)] # "null" /\ \A d \in Pictured \ {Shown(H)} : H.ch[d] = "null"
  BY CalmRested DEF Shape, Pictured, Shown, Other
<1>2. \A w \in BOOLEAN : Kept([H EXCEPT !.window = w], H)
  BY <1>1 DEF Kept, Alike, Works, Sound, HwBase
<1>3. CASE Done(e, m_state, [H EXCEPT !.window = FALSE])
  BY <1>1, <1>2, <1>3, KeptSame, SameShape DEF Done
<1>4. CASE \E h \in Unless(startPreview([H EXCEPT !.window = TRUE]), unpreparePreview) :
             Done(e, IF h.ok THEN "PREVIEWING" ELSE "PREVIEW_STOPPED", h)
  <2>. DEFINE w == [H EXCEPT !.window = TRUE]
  <2>1. Kept(w, H)
    BY <1>2
  <2>2. PICK h \in Unless(startPreview(w), unpreparePreview) :
          hw' = h /\ m_state' = IF h.ok THEN "PREVIEWING" ELSE "PREVIEW_STOPPED"
    BY <1>4 DEF Done
  <2>. HIDE DEF w
  <2>3. /\ Works(w) /\ Shown(w) = Shown(H) /\ w.ch[Shown(w)] # "null"
        /\ w.zslNew = w.zsl /\ w.hintNew = w.hint
        /\ \A d \in Pictured \ {Shown(w)} : w.ch[d] = "null"
    BY <1>1, <2>1 DEF Kept, Alike, Shown, ZslPreview, Pictured
  <2>4. \A g \in startPreview(w) : Turned(g, w, "started") /\ g.ok
    BY <2>3, CalmStartPreview DEF Turned, Alike, Works
  <2>5. Turned(h, w, "started") /\ h.ok
    BY <2>2, <2>4 DEF Unless
  <2>. QED
    BY <2>2, <2>3, <2>5, ShowingTurned, ShowingShape DEF Previewing
<1>5. CASE SetParamsRestarting(e, preparePreview, "PREVIEW_STOPPED")
  <2>1. PICK p \in SUBSET Settings :
          IF needRestart(H, p)
          THEN \E g \in commitIgnored(unpreparePreview(updateParameters(H, p)), newHintKey(H, p)) :
                 \E h \in preparePreview(g) : Done(e, IF h.ok THEN m_state ELSE "PREVIEW_STOPPED", h)
          ELSE \E h \in commit(updateParameters(H, p), newHintKey(H, p)) : Done(e, m_state, h)
    BY <1>5, PayloadsType DEF SetParamsRestarting
  <2>2. CASE ~needRestart(H, p)
    BY <2>1, <2>2, CalmRestart DEF Done
  <2>3. CASE needRestart(H, p)
    <3>1. PICK g \in commitIgnored(unpreparePreview(updateParameters(H, p)), newHintKey(H, p)) :
            \E h \in preparePreview(g) : Done(e, IF h.ok THEN m_state ELSE "PREVIEW_STOPPED", h)
      BY <2>1, <2>3
    <3>2. /\ Works(g) /\ g.zslNew = g.zsl /\ g.hintNew = g.hint
          /\ \A d \in Pictured : g.ch[d] = "null"
      BY <2>3, CalmRestart
    <3>3. Turned(hw', g, "made") /\ m_state' = "PREVIEW_READY"
      BY <3>1, <3>2, CalmPreparePreview DEF Done, Turned, Alike, Works
    <3>. QED
      BY <3>2, <3>3 DEF Turned, Alike, Works, Shape, Shown, Other, ZslPreview, Pictured, RecordingStates
  <2>. QED
    BY <2>2, <2>3
<1>6. CASE Done(e, "PREVIEW_STOPPED", unpreparePreview(H))
  BY <1>1, <1>6, CalmTornDown DEF Done, Works, Shape
<1>. QED
  BY <1>3, <1>4, <1>5, <1>6, CalmKeeping DEF ReadyState, ReadyUnmoved, SendLongshot

LEMMA CalmPreviewing ==
    ASSUME Calling, NEW e, e \notin {"LONGSHOT_ON", "LONGSHOT_OFF"},
           m_state = "PREVIEWING", PreviewingState(e)
    PROVE  Shape(m_state', hw')
<1>1. Showing(H) /\ Works(H) /\ Shape(m_state, H)
  BY CalmRested, ShowingShape DEF Previewing
<1>2. CASE SetParamsRestarting(e, BringUpPreview, "PREVIEW_STOPPED")
  <2>1. PICK p \in SUBSET Settings :
          IF needRestart(H, p)
          THEN \E g \in commitIgnored(unpreparePreview(updateParameters(H, p)), newHintKey(H, p)) :
                 \E h \in BringUpPreview(g) : Done(e, IF h.ok THEN m_state ELSE "PREVIEW_STOPPED", h)
          ELSE \E h \in commit(updateParameters(H, p), newHintKey(H, p)) : Done(e, m_state, h)
    BY <1>2, PayloadsType DEF SetParamsRestarting
  <2>2. CASE ~needRestart(H, p)
    BY <2>1, <2>2, CalmRestart DEF Done
  <2>3. CASE needRestart(H, p)
    <3>1. PICK g \in commitIgnored(unpreparePreview(updateParameters(H, p)), newHintKey(H, p)) :
            \E h \in BringUpPreview(g) : Done(e, IF h.ok THEN m_state ELSE "PREVIEW_STOPPED", h)
      BY <2>1, <2>3
    <3>2. /\ Works(g) /\ g.zslNew = g.zsl /\ g.hintNew = g.hint
          /\ \A d \in Pictured : g.ch[d] = "null"
      BY <2>3, CalmRestart
    <3>3. Turned(hw', g, "started") /\ m_state' = "PREVIEWING"
      BY <3>1, <3>2, CalmBringUp DEF Done, Turned, Alike, Works
    <3>. QED
      BY <3>2, <3>3, ShowingTurned, ShowingShape DEF Previewing
  <2>. QED
    BY <2>2, <2>3
<1>3. CASE Done(e, "PREVIEW_STOPPED", stopPreview(H))
  BY <1>1, <1>3, CalmTornDown DEF Done, Showing, stopPreview
<1>4. CASE \E h \in startRecording(H) : Done(e, IF h.ok THEN "RECORDING" ELSE m_state, h)
  <2>1. /\ hw' \in startRecording(H)
        /\ m_state' \in {"RECORDING", "PREVIEWING"}
    BY <1>4 DEF Done
  <2>2. Showing(hw') /\ hw'.hint
    BY <1>1, <2>1, CalmStartRecording
  <2>. QED
    BY <2>1, <2>2, ShowingShape DEF Previewing, RecordingStates
<1>5. CASE \E h \in Try("PREPARE", H) :
             IF h.ok THEN Silent("PREPARE_SNAPSHOT", h) ELSE Done(e, m_state, h)
  <2>1. hw' = H /\ m_state' = "PREPARE_SNAPSHOT"
    BY <1>1, <1>5, CalmTry DEF Silent, Works
  <2>. QED
    BY <1>1, <2>1, ShowingShape DEF Previewing
<1>6. CASE PreviewingTakePicture(e)
  <2>1. PICK g \in Unhinted(H) :
          LET fromPreview == g.zsl \/ g.longshot
          IN  \E h \in takePicture(g) :
                /\ hw' = h
                /\ m_state' = IF fromPreview
                              THEN IF h.ok THEN "PREVIEW_PIC_TAKING" ELSE "PREVIEWING"
                              ELSE IF h.ok THEN "PIC_TAKING" ELSE "PREVIEW_STOPPED"
    BY <1>6 DEF PreviewingTakePicture, Done
  <2>2. Works(g) /\ Showing(g) /\ ~g.hint
    BY <1>1, CalmUnhinted
  <2>3. hw' \in takePicture(g)
    BY <2>1
  <2>4. hw'.ok /\ (g.zsl => Kept(hw', g)) /\ (~g.zsl => Alone(hw', g))
    BY <2>2, <2>3, CalmPicture
  <2>5. m_state' = IF g.zsl THEN "PREVIEW_PIC_TAKING" ELSE "PIC_TAKING"
    BY <2>1, <2>2, <2>4 DEF Works, Sound
  <2>6. CASE g.zsl
    <3>1. Showing(hw') /\ ZslPreview(hw')
      BY <2>2, <2>4, <2>6, ShowingKept DEF Kept, Alike, ZslPreview
    <3>. QED
      BY <2>5, <2>6, <3>1, ShowingShape
  <2>7. CASE ~g.zsl
    BY <2>2, <2>4, <2>5, <2>7 DEF Alone, Alike, Works, Showing, Shape, RecordingStates
  <2>. QED
    BY <2>6, <2>7
<1>. QED
  BY <1>2, <1>3, <1>4, <1>5, <1>6, CalmKeeping
    DEF PreviewingState, PreviewingUnmoved, PreviewingNotices

LEMMA CalmPrepareSnapshot ==
    ASSUME Calling, NEW e, m_state = "PREPARE_SNAPSHOT", PrepareSnapshotState(e)
    PROVE  Shape(m_state', hw')
<1>1. CASE Done(e, "PREVIEWING", H)
  BY <1>1, CalmRested, ShowingShape DEF Done, Previewing
<1>. QED
  BY <1>1, CalmKeeping DEF PrepareSnapshotState

LEMMA CalmPicTaking ==
    ASSUME Calling, NEW e, e \notin {"LONGSHOT_ON", "LONGSHOT_OFF"},
           m_state = "PIC_TAKING", PicTakingState(e)
    PROVE  Shape(m_state', hw')
<1>1. Shape("PIC_TAKING", H) /\ Works(H) /\ ~hw.setup.restart /\ ~H.zsl
  BY CalmRested DEF Calling, Shape
<1>2. ASSUME Done(e, "PREVIEW_STOPPED", cancelPicture(H)) PROVE Shape(m_state', hw')
  <2>. DEFINE s == PostprocStop(H)
              c == IF H.setup.raw THEN "RAW" ELSE "CAPTURE"
  <2>1. Kept(s, H) /\ Works(s)
    BY <1>1, CalmTell DEF Kept, Alike
  <2>2. c \in Channels /\ cancelPicture(H) = delChannel(c, s)
    BY <1>1 DEF cancelPicture, Channels
  <2>3. Changed(hw', s, c, "null") /\ m_state' = "PREVIEW_STOPPED"
    BY <1>2, <2>1, <2>2, CalmDel DEF Done
  <2>. HIDE DEF s
  <2>. QED
    BY <1>1, <2>1, <2>3 DEF Changed, Kept, Alike, Works, Shape, Pictured, Channels, RecordingStates
<1>3. CASE Silent(m_state, stopCaptureChannel(H))
  <2>1. CASE H.setup.raw
    BY <1>1, <1>3, <2>1 DEF Silent, stopCaptureChannel
  <2>2. CASE ~H.setup.raw
    <3>1. /\ Alike(hw', H) /\ m_state' = "PIC_TAKING"
          /\ \A d \in Channels \ {"CAPTURE"} : hw'.ch[d] = H.ch[d]
      BY <1>1, <1>3, <2>2, CalmStop DEF Silent, stopCaptureChannel, Channels
    <3>. QED
      BY <1>1, <2>2, <3>1 DEF Alike, Works, Shape, Channels, RecordingStates
  <2>. QED
    BY <2>1, <2>2
<1>4. PicTakingState(e) =>
        \/ SetParams(e) \/ NoOp(e) \/ Refuse(e) \/ Ignore \/ LongshotPicture(e)
        \/ Done(e, "PREVIEW_STOPPED", cancelPicture(H))
        \/ e = "STOP_CAPTURE_CHANNEL"
  BY <1>1 DEF PicTakingState, PicTakingUnmoved, PicTakingNotices
<1>5. e = "STOP_CAPTURE_CHANNEL" =>
        LET stopped == stopCaptureChannel(H)
        IN  \E h \in IF hw.setup.restart THEN Then(preparePreview(stopped), startPreview)
                     ELSE {stopped} :
              Silent(m_state, h)
  BY Zenon DEF PicTakingState, PicTakingUnmoved, PicTakingNotices
<1>6. e = "STOP_CAPTURE_CHANNEL" => Silent(m_state, stopCaptureChannel(H))
  BY <1>1, <1>5
<1>. QED
  BY <1>2, <1>3, <1>4, <1>6, CalmKeeping, CalmBusy

(* The live snapshot and the VIDEO channel do not touch the preview.        *)
LEMMA SameRecording ==
    ASSUME NEW h, Sound(h)
    PROVE  /\ \A g \in takeLiveSnapshot(h) : Same(g, h)
           /\ Same(stopRecording(h), h) /\ Same(cancelLiveSnapshot(h), h)
           /\ \A g \in LiveSnapshot(h) : Same(g, h)
<1>1. h \in HwBase
  BY DEF Sound
<1>2. \A op : Try(op, h) = {h}
  BY DEF Try, Sound
<1>3. \A g \in takeLiveSnapshot(h) : Same(g, h)
  <2>1. \A g \in takeLiveSnapshot(h) : g = h \/ g = [h EXCEPT !.live = "running"]
    BY <1>2 DEF takeLiveSnapshot
  <2>. QED
    BY <1>1, <2>1 DEF Same, Sound, HwBase
<1>4. ASSUME NEW f, Sound(f), NEW c \in {"VIDEO", "SNAPSHOT"} PROVE Same(stopChannel(c, f), f)
  <2>. DEFINE v == IF f.ch[c] = "started" THEN "made" ELSE f.ch[c]
  <2>1. v \in {"null", "made", "started"}
    BY <1>4 DEF Sound, HwBase, Channels
  <2>2. stopChannel(c, f) = [f EXCEPT !.ch[c] = v]
    BY DEF stopChannel
  <2>. HIDE DEF v
  <2>. DEFINE g == [f EXCEPT !.ch[c] = v]
  <2>3. /\ g \in HwBase /\ g.setup = f.setup /\ c \in Channels
        /\ \A d \in Channels \ {c} : g.ch[d] = f.ch[d]
    BY <1>4, <2>1, SetChannel DEF Sound, Channels
  <2>4. /\ g.zsl = f.zsl /\ g.zslNew = f.zslNew /\ g.hint = f.hint /\ g.hintNew = f.hintNew
        /\ g.longshot = f.longshot
    BY <1>4 DEF Sound, HwBase
  <2>. HIDE DEF g
  <2>5. Same(g, f)
    BY <1>4, <2>3, <2>4 DEF Same, Sound, Channels, Pictured
  <2>. QED
    BY <2>2, <2>5 DEF g
<1>5. Same(stopRecording(h), h)
  <2>1. Same(stopChannel("VIDEO", h), h)
    BY <1>4
  <2>. QED
    BY <2>1 DEF stopRecording, Same, Sound, HwBase
<1>6. ASSUME NEW f, Sound(f), NEW v \in {"START", "STOP"}
      PROVE  Same([f EXCEPT !.notified = Append(@, v)], f)
  <2>. DEFINE n == Append(f.notified, v)
  <2>1. n \in Seq({"START", "STOP"}) /\ [f EXCEPT !.notified = Append(@, v)] = [f EXCEPT !.notified = n]
    BY <1>6 DEF Sound, HwBase
  <2>. HIDE DEF n
  <2>. QED
    BY <1>6, <2>1 DEF Same, Sound, HwBase
<1>7. Same(cancelLiveSnapshot(h), h)
  <2>. DEFINE f == [h EXCEPT !.live = "none"]
  <2>1. Same(f, h) /\ Sound(f)
    BY DEF Same, Sound, HwBase
  <2>. HIDE DEF f
  <2>2. Same(PostprocStop(f), f) /\ Sound(PostprocStop(f))
    BY <1>6, <2>1 DEF PostprocStop, Same
  <2>3. Same(stopChannel("SNAPSHOT", PostprocStop(f)), PostprocStop(f))
    BY <1>4, <2>2
  <2>. QED
    BY <2>1, <2>2, <2>3, SameTransitive DEF cancelLiveSnapshot, f
<1>8. ASSUME NEW g \in LiveSnapshot(h) PROVE Same(g, h)
  <2>1. PICK d \in PostprocStart(h) : g = d \/ g \in startChannel("SNAPSHOT", d)
    BY <1>8 DEF LiveSnapshot, Then
  <2>2. d = h \/ d = [h EXCEPT !.notified = Append(@, "START")]
    BY <1>2 DEF PostprocStart
  <2>3. Same(h, h) /\ Same([h EXCEPT !.notified = Append(@, "START")], h)
    BY <1>6 DEF Same
  <2>4. Same(d, h) /\ Sound(d)
    BY <2>2, <2>3 DEF Same
  <2>5. \/ g = d \/ g = Failed(d)
        \/ g = [d EXCEPT !.ch["SNAPSHOT"] = "started"]
    BY <2>1, <2>4 DEF startChannel, Try, Sound
  <2>6. Same([d EXCEPT !.ch["SNAPSHOT"] = "started"], d)
    BY <2>4 DEF Same, Sound, HwBase, Channels, Pictured
  <2>. QED
    BY <2>4, <2>5, <2>6, CalmFailed, SameTransitive
<1>. QED
  BY <1>3, <1>5, <1>7, <1>8

LEMMA CalmRecording ==
    ASSUME Calling, NEW e, e \notin {"LONGSHOT_ON", "LONGSHOT_OFF"},
           \/ m_state = "RECORDING" /\ RecordingState(e)
           \/ m_state = "VIDEO_PIC_TAKING" /\ VideoPicTakingState(e)
    PROVE  Shape(m_state', hw')
<1>1. Showing(H) /\ Sound(H) /\ H.hint /\ m_state \in RecordingStates
  BY CalmRested, ShowingShape DEF Works, RecordingStates, Shape
<1>2. ASSUME NEW g, Same(g, H)
      PROVE  /\ \A st \in RecordingStates \cup Previewing : Shape(st, g)
             /\ Sound(g) /\ Shape("PREVIEW_STOPPED", stopPreview(g))
  <2>1. Shape("RECORDING", H) /\ Shape("VIDEO_PIC_TAKING", H) /\ \A st \in Previewing : Shape(st, H)
    BY <1>1, ShowingShape DEF RecordingStates
  <2>2. Sound(g) /\ \A st \in RecordingStates \cup Previewing : Shape(st, g)
    BY <1>2, <2>1, SameShape DEF Same, RecordingStates
  <2>3. Shape("PREVIEWING", g)
    BY <2>2 DEF Previewing
  <2>4. Shape("PREVIEW_STOPPED", unpreparePreview(g))
    BY <2>2, <2>3, CalmTornDown DEF Shape
  <2>. QED
    BY <2>2, <2>4 DEF stopPreview
<1>3. \A g \in takeLiveSnapshot(H) : Same(g, H)
  BY <1>1, SameRecording
<1>4. Same(cancelLiveSnapshot(H), H) /\ Sound(cancelLiveSnapshot(H))
  BY <1>1, SameRecording DEF Same
<1>5. /\ Same(stopRecording(H), H)
      /\ Same(stopRecording(cancelLiveSnapshot(H)), H)
  BY <1>1, <1>4, SameRecording, SameTransitive
<1>6. CASE \/ \E h \in takeLiveSnapshot(H) : Done(e, IF h.ok THEN "VIDEO_PIC_TAKING" ELSE m_state, h)
           \/ Done(e, "PREVIEWING", stopRecording(H))
           \/ Done(e, "PREVIEWING", stopRecording(cancelLiveSnapshot(H)))
           \/ Done(e, "RECORDING", cancelLiveSnapshot(H))
  <2>1. Same(hw', H)
    BY <1>3, <1>4, <1>5, <1>6 DEF Done
  <2>2. m_state' \in RecordingStates \cup Previewing
    BY <1>1, <1>6 DEF Done, RecordingStates, Previewing
  <2>. QED
    BY <1>2, <2>1, <2>2
<1>7. CASE \/ Done(e, "PREVIEW_STOPPED", stopPreview(stopRecording(H)))
           \/ Done(e, "PREVIEW_STOPPED", stopPreview(stopRecording(cancelLiveSnapshot(H))))
  BY <1>2, <1>5, <1>7 DEF Done
<1>8. m_state \notin {"PREVIEW_STOPPED", "PREVIEW_READY", "PREVIEWING"}
  BY <1>1 DEF RecordingStates
<1>. QED
  BY <1>6, <1>7, <1>8, CalmKeeping, CalmBusy
    DEF RecordingState, RecordingUnmoved, RecordingNotices, VideoPicTakingState,
        VideoPicTakingLeft, VideoPicTakingUnmoved, SendLongshot

LEMMA CalmPreviewPicTaking ==
    ASSUME Calling, NEW e, e \notin {"LONGSHOT_ON", "LONGSHOT_OFF"},
           m_state = "PREVIEW_PIC_TAKING", PreviewPicTakingState(e)
    PROVE  Shape(m_state', hw')
<1>1. Showing(H) /\ Works(H) /\ ZslPreview(H) /\ hw.zsl
  BY CalmRested, ShowingShape DEF Shape, Same, ZslPreview
<1>2. FromPreview /\ Kept(PreviewPicCancelled, H)
  BY <1>1, CalmTell DEF FromPreview, PreviewPicCancelled, cancelPicture, ZslPreview
<1>3. Showing(PreviewPicCancelled)
  BY <1>1, <1>2, ShowingKept
<1>4. CASE Done(e, "PREVIEWING", PreviewPicCancelled)
  BY <1>3, <1>4, ShowingShape DEF Done, Previewing
<1>5. CASE Done(e, "PREVIEW_STOPPED", unpreparePreview(PreviewPicCancelled))
  BY <1>3, <1>5, CalmTornDown DEF Done, Showing
<1>. QED
  BY <1>2, <1>4, <1>5, CalmKeeping, CalmBusy
    DEF PreviewPicTakingState, PreviewPicTakingUnmoved

LEMMA CalmLiveSnapshotThread ==
    ASSUME Calling, LiveSnapshotThread PROVE Shape(m_state', hw')
<1>. DEFINE f == [H EXCEPT !.live = "over"]
<1>1. Shape(m_state, H) /\ Sound(H)
  BY CalmRested DEF Works
<1>2. Same(f, H) /\ Sound(f)
  BY <1>1 DEF Same, Sound, HwBase
<1>3. hw' \in LiveSnapshot(f) /\ m_state' = m_state
  BY DEF LiveSnapshotThread, Silent
<1>. HIDE DEF f
<1>4. Same(hw', f)
  BY <1>2, <1>3, SameRecording
<1>. QED
  BY <1>1, <1>2, <1>3, <1>4, SameShape

-----------------------------------------------------------------------------
LEMMA ChannelsInitInv == smInit => ChannelsInv
<1>. SUFFICES ASSUME smInit PROVE ChannelsInv
  OBVIOUS
<1>1. HalInv
  BY HalInitInv
<1>2. PICK s \in Setups :
         hw = [setup |-> s, ch |-> [c \in Channels |-> "null"], zsl |-> s.zsl, zslNew |-> s.zsl,
               hint |-> FALSE, hintNew |-> FALSE, hintKey |-> FALSE,
               longshot |-> FALSE, window |-> FALSE, live |-> "none",
               ok |-> TRUE, notified |-> <<>>, posted |-> FALSE]
  BY DEF smInit
<1>3. m_state = "PREVIEW_STOPPED" /\ hw \in HwBase
  BY <1>1 DEF smInit, HalInv
<1>. QED
  BY <1>1, <1>2, <1>3 DEF ChannelsInv, Shape, Sound, Channels, RecordingStates

LEMMA ChannelsNextInv == ChannelsInv /\ [smNext]_smVars => ChannelsInv'
<1>. SUFFICES ASSUME ChannelsInv, [smNext]_smVars PROVE ChannelsInv'
  OBVIOUS
<1>1. HalInv' /\ hw'.setup = hw.setup
  BY HalNextKeeps DEF ChannelsInv, HalKept
<1>2. CASE UNCHANGED smVars
  BY <1>1, <1>2 DEF smVars, ChannelsInv
<1>3. CASE ~(hw.setup.calm /\ ~hw.setup.restart)
  BY <1>1, <1>3 DEF ChannelsInv
<1>4. CASE smNext /\ hw.setup.calm /\ ~hw.setup.restart
  <2>1. Calling
    BY <1>4 DEF Calling
  <2>2. ASSUME NEW e \in Offered, stateMachine(e) PROVE Shape(m_state', hw')
    <3>1. e \notin {"LONGSHOT_ON", "LONGSHOT_OFF"}
      BY <1>4 DEF Offered
    <3>. QED
      BY <2>1, <2>2, <3>1, CalmStopped, CalmReady, CalmPreviewing, CalmPrepareSnapshot,
         CalmPicTaking, CalmRecording, CalmPreviewPicTaking DEF stateMachine
  <2>3. Shape(m_state', hw')
    BY <1>4, <2>1, <2>2, CalmLiveSnapshotThread DEF smNext
  <2>. QED
    BY <1>1, <2>3 DEF ChannelsInv
<1>. QED
  BY <1>2, <1>3, <1>4

(* The shape of the channels is what their states promise.                  *)
LEMMA ChannelsInvImplies == ChannelsInv => ChannelsOfState
<1>. SUFFICES ASSUME ChannelsInv, hw.setup.calm, ~hw.setup.restart
              PROVE  /\ PreviewRuns /\ RecordingHasPreview /\ StoppedRunsNothing
                     /\ CaptureAlone /\ OnePreview /\ ZslPictureHasChannel
  BY DEF ChannelsOfState
<1>1. /\ HalInv /\ Shape(m_state, hw) /\ m_state \in States
      /\ Runs("VIDEO") => m_state \in RecordingStates
      /\ Runs("SNAPSHOT") => m_state \in RecordingStates
  BY DEF ChannelsInv, HalInv, VideoRunsWhileRecording, LiveSnapshotJoined, RecordingStates
<1>2. PreviewRuns /\ RecordingHasPreview /\ ZslPictureHasChannel
  BY <1>1 DEF Shape, Shown, ZslPreview, PreviewRuns, RecordingHasPreview, ZslPictureHasChannel,
     Runs, RecordingStates
<1>3. OnePreview
  BY <1>1 DEF Shape, Shown, Other, ZslPreview, OnePreview, States, RecordingStates
<1>4. StoppedRunsNothing
  BY <1>1 DEF Shape, StoppedRunsNothing, Runs, RecordingStates, Channels
<1>5. CaptureAlone
  BY <1>1 DEF Shape, CaptureAlone, Runs, RecordingStates, Channels
<1>. QED
  BY <1>2, <1>3, <1>4, <1>5

(* On a camera where nothing fails and no early preview restart is asked    *)
(* for, whatever the app sends and whatever parameters it changes: every     *)
(* state has the channels its declaration promises and no other streams.    *)
THEOREM ChannelsFollowState == smSpec => []ChannelsOfState
BY ChannelsInitInv, ChannelsNextInv, ChannelsInvImplies, PTL DEF smSpec

-----------------------------------------------------------------------------
(* The threads around the machine.  A request is, from the moment it is     *)
(* posted until its caller returns, in one place only: in the machine's     *)
(* queue, with the machine that waits for the hardware to prepare the       *)
(* snapshot (asker), or in the list of results.                             *)

-----------------------------------------------------------------------------
(* Sequences of things that belong to somebody.                             *)
Members(q) == {q[i] : i \in DOMAIN q}
(* A caller has one thing in the queue at most.                             *)
Once(q) == \A i, j \in DOMAIN q : q[i].by \in Callers /\ q[i].by = q[j].by => i = j
Without(q, k) == SubSeq(q, 1, k - 1) \o SubSeq(q, k + 1, Len(q))

-----------------------------------------------------------------------------
(* The inductive invariant.                                                 *)
EvtType == [evt : {"SNAPSHOT_DONE", "PREP_SNAPSHOT_DONE"}, fresh : BOOLEAN]
ResultType == [api : Apis \cup Notices, by : Callers \cup {"none"}]

ApiShape ==
    /\ m_state \in States /\ hw \in HwBase
    /\ life # "closed" => HalInv
    /\ life \in {"open", "closing", "smExited", "joining", "closed"}
    /\ api_queue \in Seq(Requests \cup {Exit})
    /\ evt_queue \in Seq(EvtType)
    /\ results \in Seq(ResultType)
    /\ call \in [Callers -> Apis \cup Notices \cup {"none"}]
    /\ asker \in Callers \cup {"none"}

(* What nobody waits for is what is left behind by the threads that post.   *)
Unasked ==
    /\ \A e \in Members(api_queue) :
         e.by = "none" => e.api \in Leftovers(hw.setup) \cup Notices \cup {"EXIT"}
    /\ \A e \in Members(results) : e.by = "none" => e.api \in Leftovers(hw.setup)
    /\ m_state = "PREPARE_SNAPSHOT" => asker \in Callers
    /\ intPic # "idle" => "backend" \in Callers /\ Calls[hw.setup]["backend"] # {}
(* Nobody records who never asked to.                                       *)
Unrecorded ==
    life # "closed" /\ (\A c \in Callers : "START_RECORDING" \notin Calls[hw.setup][c])
        => m_state \notin RecordingStates
(* Everybody waits for what it may ask.                                     *)
MayAsk ==
    /\ \A c \in Callers : call[c] # "none" => call[c] \in Calls[hw.setup][c]
    /\ \A e \in Members(api_queue) : e.by \in Callers => e.api \in Calls[hw.setup][e.by]

Awaited(q) == \A e \in Members(q) : e.by \in Callers => call[e.by] = e.api
Preparing(c) == m_state = "PREPARE_SNAPSHOT" /\ asker = c
(* A caller's request is in one place, and the caller waits for it.         *)
OnePlace ==
    /\ Awaited(api_queue) /\ Awaited(results)
    /\ Once(api_queue) /\ Once(results)
    /\ \A e \in Members(api_queue), f \in Members(results) :
         e.by \in Callers => e.by # f.by
    /\ \A c \in Callers : Preparing(c) =>
         /\ call[c] = "PREPARE_SNAPSHOT"
         /\ \A e \in Members(api_queue) \cup Members(results) : e.by # c

ApiInv ==
    /\ ApiShape /\ Unasked /\ Unrecorded /\ MayAsk
    /\ Unshared(hw.setup) => OnePlace

-----------------------------------------------------------------------------
(* Queues: taking the first, adding one at the end, taking one out.         *)
LEMMA TailMembers ==
    ASSUME NEW S, NEW q \in Seq(S), q # <<>>
    PROVE  /\ Tail(q) \in Seq(S) /\ Head(q) \in Members(q) /\ Head(q) \in S
           /\ Members(Tail(q)) \subseteq Members(q)
           /\ Once(q) => /\ Once(Tail(q))
                         /\ Head(q).by \in Callers =>
                              \A e \in Members(Tail(q)) : e.by # Head(q).by
<1>. DEFINE t == Tail(q)
<1>1. /\ t \in Seq(S) /\ Len(q) \in Nat /\ Len(q) > 0 /\ Len(t) = Len(q) - 1
      /\ \A i \in 1..Len(t) : t[i] = q[i + 1] /\ i + 1 \in 1..Len(q) /\ i + 1 # 1
      /\ Head(q) = q[1] /\ 1 \in 1..Len(q) /\ q[1] \in S
      /\ DOMAIN q = 1..Len(q) /\ DOMAIN t = 1..Len(t)
  OBVIOUS
<1>. HIDE DEF t
<1>2. Members(t) \subseteq Members(q) /\ Head(q) \in Members(q)
  BY <1>1 DEF Members
<1>3. ASSUME Once(q), NEW i \in 1..Len(t), NEW j \in 1..Len(t), t[i].by \in Callers,
             t[i].by = t[j].by
      PROVE  i = j
  <2>1. i + 1 = j + 1
    BY <1>1, <1>3 DEF Once
  <2>. QED
    BY <2>1, <1>1
<1>4. ASSUME Once(q), Head(q).by \in Callers, NEW i \in 1..Len(t) PROVE t[i].by # Head(q).by
  BY <1>1, <1>4 DEF Once
<1>5. Once(q) => Once(t)
  BY <1>1, <1>3 DEF Once
<1>6. Once(q) /\ Head(q).by \in Callers => \A e \in Members(t) : e.by # Head(q).by
  BY <1>1, <1>4 DEF Members
<1>. QED
  BY <1>1, <1>2, <1>5, <1>6 DEF t

LEMMA AppendMembers ==
    ASSUME NEW S, NEW q \in Seq(S), NEW e \in S
    PROVE  /\ Append(q, e) \in Seq(S)
           /\ Members(Append(q, e)) = Members(q) \cup {e}
           /\ Once(q) /\ (e.by \in Callers => \A f \in Members(q) : f.by # e.by)
                => Once(Append(q, e))
<1>. DEFINE a == Append(q, e)
            n == Len(q)
<1>1. /\ a \in Seq(S) /\ n \in Nat /\ DOMAIN q = 1..n /\ DOMAIN a = 1..(n + 1)
      /\ \A i \in 1..n : a[i] = q[i]
      /\ a[n + 1] = e
  OBVIOUS
<1>. HIDE DEF a
<1>2. \A i \in 1..(n + 1) : i \in 1..n \/ i = n + 1
  BY <1>1
<1>3. Members(a) = Members(q) \cup {e}
  BY <1>1, <1>2 DEF Members
<1>4. ASSUME Once(q), e.by \in Callers => \A f \in Members(q) : f.by # e.by,
             NEW i \in 1..(n + 1), NEW j \in 1..(n + 1), a[i].by \in Callers, a[i].by = a[j].by
      PROVE  i = j
  <2>1. \A k \in 1..n : a[k] \in Members(q)
    BY <1>1 DEF Members
  <2>2. CASE i \in 1..n /\ j \in 1..n
    BY <1>1, <1>4, <2>2 DEF Once
  <2>. QED
    BY <1>1, <1>2, <1>4, <2>1, <2>2
<1>. QED
  BY <1>1, <1>3, <1>4 DEF a, Once

LEMMA RemoveMembers ==
    ASSUME NEW S, NEW q \in Seq(S), NEW k \in DOMAIN q
    PROVE  /\ Without(q, k) \in Seq(S) /\ Members(Without(q, k)) \subseteq Members(q)
           /\ q[k] \in Members(q)
           /\ Once(q) => /\ Once(Without(q, k))
                         /\ q[k].by \in Callers =>
                              \A e \in Members(Without(q, k)) : e.by # q[k].by
<1>. DEFINE r == Without(q, k)
            n == Len(q)
            a == SubSeq(q, 1, k - 1)
            b == SubSeq(q, k + 1, n)
            at(i) == IF i < k THEN i ELSE i + 1
<1>1. n \in Nat /\ DOMAIN q = 1..n /\ k \in 1..n
  OBVIOUS
<1>. HIDE DEF n
<1>2. a \in Seq(S) /\ Len(a) = k - 1 /\ \A i \in 1..(k - 1) : a[i] = q[i]
  <2>1. \A i \in 1..(k - 1) : q[i] \in S
    BY <1>1
  <2>2. /\ a \in Seq(S) /\ Len(a) = IF 1 <= k - 1 THEN (k - 1) - 1 + 1 ELSE 0
        /\ \A i \in 1..((k - 1) - 1 + 1) : a[i] = q[1 + i - 1]
    BY <1>1, <2>1, SubSeqProperties
  <2>. HIDE DEF a
  <2>. QED
    BY <1>1, <2>2
<1>3. b \in Seq(S) /\ Len(b) = n - k /\ \A i \in 1..(n - k) : b[i] = q[k + i]
  <2>1. \A i \in (k + 1)..n : q[i] \in S
    BY <1>1
  <2>2. /\ b \in Seq(S) /\ Len(b) = IF k + 1 <= n THEN n - (k + 1) + 1 ELSE 0
        /\ \A i \in 1..(n - (k + 1) + 1) : b[i] = q[(k + 1) + i - 1]
    BY <1>1, <2>1, SubSeqProperties
  <2>. HIDE DEF b
  <2>3. n - (k + 1) + 1 = n - k /\ \A i \in 1..(n - k) : (k + 1) + i - 1 = k + i
    BY <1>1
  <2>4. Len(b) = n - k
    BY <1>1, <2>2
  <2>. QED
    BY <2>2, <2>3, <2>4
<1>. HIDE DEF a, b
<1>4. /\ r \in Seq(S) /\ Len(r) = n - 1 /\ DOMAIN r = 1..(n - 1)
      /\ \A i \in 1..(n - 1) : r[i] = IF i <= k - 1 THEN a[i] ELSE b[i - (k - 1)]
  <2>1. r = a \o b
    BY DEF a, b, n, Without
  <2>2. /\ r \in Seq(S) /\ Len(r) = Len(a) + Len(b)
        /\ \A i \in 1..(Len(a) + Len(b)) : r[i] = IF i <= Len(a) THEN a[i] ELSE b[i - Len(a)]
    <3>1. a \in Seq(S) /\ b \in Seq(S)
      BY <1>2, <1>3
    <3>. QED
      BY <2>1, <3>1, ConcatProperties, ZenonT(40)
  <2>3. Len(a) + Len(b) = n - 1 /\ Len(a) = k - 1
    BY <1>1, <1>2, <1>3
  <2>4. DOMAIN r = 1..Len(r)
    BY <2>2
  <2>5. \A i \in 1..(n - 1) : r[i] = IF i <= k - 1 THEN a[i] ELSE b[i - (k - 1)]
    BY <2>2, <2>3, Zenon
  <2>. QED
    BY <2>2, <2>3, <2>4, <2>5
<1>5. ASSUME NEW i \in 1..(n - 1)
      PROVE  r[i] = q[at(i)] /\ at(i) \in 1..n /\ at(i) # k
  <2>1. CASE i < k
    BY <1>1, <1>2, <1>4, <1>5, <2>1
  <2>2. CASE ~(i < k)
    <3>1. i - (k - 1) \in 1..(n - k) /\ k + (i - (k - 1)) = i + 1 /\ ~(i <= k - 1)
      BY <1>1, <1>5, <2>2
    <3>2. r[i] = b[i - (k - 1)] /\ b[i - (k - 1)] = q[k + (i - (k - 1))]
      BY <1>3, <1>4, <1>5, <3>1
    <3>3. at(i) = i + 1 /\ i + 1 \in 1..n /\ i + 1 # k
      BY <1>1, <1>5, <2>2
    <3>. QED
      BY <3>1, <3>2, <3>3
  <2>. QED
    BY <2>1, <2>2
<1>6. \A i, j \in 1..(n - 1) : at(i) = at(j) => i = j
  BY <1>1
<1>7. DOMAIN r = 1..(n - 1)
  BY <1>4
<1>. HIDE DEF at, r
<1>8. Members(r) \subseteq Members(q) /\ q[k] \in Members(q)
  BY <1>1, <1>5, <1>7 DEF Members
<1>9. Once(q) => Once(r)
  <2>1. ASSUME Once(q), NEW i \in 1..(n - 1), NEW j \in 1..(n - 1), r[i].by \in Callers,
               r[i].by = r[j].by
        PROVE  i = j
    <3>1. at(i) = at(j)
      BY <1>1, <1>5, <2>1 DEF Once
    <3>. QED
      BY <1>6, <2>1, <3>1
  <2>. QED
    BY <1>7, <2>1 DEF Once
<1>10. ASSUME Once(q), q[k].by \in Callers, NEW i \in 1..(n - 1) PROVE r[i].by # q[k].by
  BY <1>1, <1>5, <1>10 DEF Once
<1>11. Once(q) /\ q[k].by \in Callers => \A e \in Members(r) : e.by # q[k].by
  BY <1>7, <1>10 DEF Members
<1>. QED
  BY <1>4, <1>8, <1>9, <1>11 DEF r

-----------------------------------------------------------------------------
(* What the machine's handlers say of the answers.                          *)

(* Two handlers shared by several states.                                   *)
LEMMA SharedHandlers ==
    ASSUME NEW e, NEW st,
           \/ NoOp(e) \/ Refuse(e) \/ Ignore \/ SendLongshot(e) \/ SetParams(e)
           \/ SetParamsRecording(e) \/ LongshotPicture(e)
           \/ SetParamsRestarting(e, preparePreview, st)
           \/ SetParamsRestarting(e, BringUpPreview, st)
    PROVE  m_state' \in {m_state, st}
BY DEF NoOp, Refuse, Ignore, SendLongshot, SetParams, SetParamsRecording, LongshotPicture,
       SetParamsRestarting, Done, Silent

(* PREPARE_SNAPSHOT is entered silently from the preview, and from nowhere  *)
(* else; only START_RECORDING leads into a recording.                       *)
LEMMA MachineEnters ==
    ASSUME NEW e, stateMachine(e)
    PROVE  /\ m_state # "PREPARE_SNAPSHOT" /\ m_state' = "PREPARE_SNAPSHOT"
                => m_state = "PREVIEWING" /\ e = "PREPARE_SNAPSHOT" /\ answer' = "none"
           /\ m_state \notin RecordingStates /\ m_state' \in RecordingStates
                => e = "START_RECORDING"
<1>. USE DEF RecordingStates
<1>1. CASE m_state = "PREVIEW_STOPPED" /\ StoppedState(e)
  BY <1>1, SharedHandlers DEF StoppedState, StoppedUnmoved, Done
<1>2. CASE m_state = "PREVIEW_READY" /\ ReadyState(e)
  <2>1. SetParamsRestarting(e, preparePreview, "PREVIEW_STOPPED")
          => m_state' \in {m_state, "PREVIEW_STOPPED"}
    BY SharedHandlers
  <2>. QED
    BY <1>2, <2>1, SharedHandlers DEF ReadyState, ReadyUnmoved, Done
<1>3. CASE m_state = "PREVIEWING" /\ PreviewingState(e)
  <2>1. SetParamsRestarting(e, BringUpPreview, "PREVIEW_STOPPED")
          => m_state' \in {m_state, "PREVIEW_STOPPED"}
    BY SharedHandlers
  <2>2. PreviewingTakePicture(e) \/ PreviewingLongshotOn(e)
          => m_state' \in {m_state, "PREVIEW_PIC_TAKING", "PIC_TAKING", "PREVIEW_STOPPED"}
    BY <1>3 DEF PreviewingTakePicture, PreviewingLongshotOn, Done
  <2>. QED
    BY <1>3, <2>1, <2>2, SharedHandlers
      DEF PreviewingState, PreviewingUnmoved, PreviewingNotices, Done, Silent
<1>4. CASE m_state = "PREPARE_SNAPSHOT" /\ PrepareSnapshotState(e)
  BY <1>4, SharedHandlers DEF PrepareSnapshotState, Done
<1>5. CASE m_state = "PIC_TAKING" /\ PicTakingState(e)
  BY <1>5, SharedHandlers
    DEF PicTakingState, PicTakingUnmoved, PicTakingNotices, Done, Silent
<1>6. CASE m_state = "RECORDING" /\ RecordingState(e)
  BY <1>6, SharedHandlers DEF RecordingState, RecordingUnmoved, RecordingNotices, Done
<1>7. CASE m_state = "VIDEO_PIC_TAKING" /\ VideoPicTakingState(e)
  BY <1>7, SharedHandlers DEF VideoPicTakingState, VideoPicTakingLeft, VideoPicTakingUnmoved, Done
<1>8. CASE m_state = "PREVIEW_PIC_TAKING" /\ PreviewPicTakingState(e)
  BY <1>8, SharedHandlers DEF PreviewPicTakingState, PreviewPicTakingUnmoved, Done
<1>. QED
  BY <1>1, <1>2, <1>3, <1>4, <1>5, <1>6, <1>7, <1>8 DEF stateMachine

(* Of the notices only the end of the preparation is answered as an API.    *)
LEMMA MachineAnswers ==
    ASSUME NEW e \in Notices, stateMachine(e), answer' = "API"
    PROVE  e = "PREP_SNAPSHOT_DONE" /\ m_state = "PREPARE_SNAPSHOT" /\ m_state' = "PREVIEWING"
<1>1. e \notin Apis /\ e \notin {"SET_PREVIEW_WINDOW", "SET_PARAMS", "START_PREVIEW",
         "START_NODISPLAY_PREVIEW", "STOP_PREVIEW", "START_RECORDING",
         "STOP_RECORDING", "PREPARE_SNAPSHOT", "TAKE_PICTURE", "CANCEL_PICTURE",
         "LONGSHOT_ON", "LONGSHOT_OFF", "RELEASE", "REG_FACE_IMAGE", "OTHER"}
  BY DEF Notices, Apis
<1>2. ~SendLongshot(e)
  BY <1>1 DEF SendLongshot
<1>3. \A st, h : Done("SNAPSHOT_DONE", st, h) => answer' = "EVT"
  BY DEF Done
<1>4. \A st, h : Silent(st, h) => answer' = "none"
  BY DEF Silent
<1>5. e = "SNAPSHOT_DONE" => ~NoOp(e) /\ ~\E st, h : Done(e, st, h)
  BY <1>3 DEF NoOp
<1>6. ~Ignore /\ ~\E st, h : Silent(st, h)
  BY <1>4 DEF Ignore
<1>7. \/ m_state = "PREPARE_SNAPSHOT" /\ PrepareSnapshotState(e)
      \/ StoppedState(e) \/ ReadyState(e) \/ PreviewingState(e) \/ PicTakingState(e)
      \/ RecordingState(e) \/ VideoPicTakingState(e) \/ PreviewPicTakingState(e)
  BY DEF stateMachine
<1>8. ~StoppedState(e) /\ ~ReadyState(e)
  BY <1>1, <1>2, <1>5, <1>6
    DEF StoppedState, StoppedUnmoved, ReadyState, ReadyUnmoved, Notices
<1>9. ~PreviewingState(e)
  BY <1>1, <1>2, <1>5, <1>6
    DEF PreviewingState, PreviewingUnmoved, PreviewingNotices, Notices
<1>10. ~PicTakingState(e)
  BY <1>1, <1>2, <1>5, <1>6 DEF PicTakingState, PicTakingUnmoved, PicTakingNotices, Notices
<1>11. ~RecordingState(e) /\ ~VideoPicTakingState(e) /\ ~PreviewPicTakingState(e)
  BY <1>1, <1>2, <1>5, <1>6
    DEF RecordingState, RecordingUnmoved, RecordingNotices, VideoPicTakingState,
        VideoPicTakingLeft, VideoPicTakingUnmoved, PreviewPicTakingState, PreviewPicTakingUnmoved, Notices
<1>12. m_state = "PREPARE_SNAPSHOT" /\ PrepareSnapshotState(e)
  BY <1>7, <1>8, <1>9, <1>10, <1>11
<1>. QED
  BY <1>1, <1>5, <1>6, <1>12 DEF PrepareSnapshotState, Done

-----------------------------------------------------------------------------
(* The steps.                                                               *)
LEMMA LeftoverNames ==
    ASSUME NEW s
    PROVE  Leftovers(s) \subseteq {"START_PREVIEW", "CANCEL_PICTURE"}
BY DEF Leftovers

(* A request has the name of an API, which is none of the others.           *)
LEMMA Names ==
    /\ "none" \notin Apis \cup Notices \cup {"EXIT"} /\ "EXIT" \notin Apis \cup Notices
    /\ "START_RECORDING" \in Apis /\ "PREPARE_SNAPSHOT" \in Apis
    /\ "START_RECORDING" \notin Notices /\ "PREPARE_SNAPSHOT" \notin Notices
    /\ "START_PREVIEW" \in Apis /\ "CANCEL_PICTURE" \in Apis
    /\ "none" \notin Callers
BY ApiAssumption DEF Apis, Notices

(* Stale events are events still, and the machine may post one to itself.   *)
LEMMA StaledType ==
    ASSUME NEW q \in Seq(EvtType)
    PROVE  /\ Staled(q) \in Seq(EvtType)
           /\ Staled(q) \o (IF hw'.posted THEN <<[evt |-> "SNAPSHOT_DONE", fresh |-> FALSE]>>
                            ELSE <<>>) \in Seq(EvtType)
<1>1. /\ Len(q) \in Nat /\ DOMAIN q = 1..Len(q)
      /\ \A i \in 1..Len(q) : q[i] \in EvtType
  OBVIOUS
<1>2. \A i \in 1..Len(q) : [q[i] EXCEPT !.fresh = @ /\ ~Told("STOP")] \in EvtType
  BY <1>1 DEF EvtType
<1>3. Staled(q) \in [1..Len(q) -> EvtType]
  BY <1>1, <1>2 DEF Staled
<1>4. Staled(q) \in Seq(EvtType)
  BY <1>1, <1>3, SeqDef
<1>5. [evt |-> "SNAPSHOT_DONE", fresh |-> FALSE] \in EvtType
  BY DEF EvtType
<1>. QED
  BY <1>4, <1>5

(* The machine handles a request of `by' that is nowhere else any more, or  *)
(* an event.                                                                *)
LEMMA HandleKeeps ==
    ASSUME ApiInv, SmRuns, NEW e \in Apis \cup Notices, NEW by \in Callers \cup {"none"},
           NEW events \in Seq(EvtType), Handle(e, by, events),
           api_queue' \in Seq(Requests \cup {Exit}),
           Members(api_queue') \subseteq Members(api_queue),
           by = "none" => e \in Leftovers(hw.setup) \cup Notices,
           by \in Callers => e \in Calls[hw.setup][by],
           Unshared(hw.setup) =>
             /\ Once(api_queue')
             /\ by \in Callers =>
                  /\ call[by] = e /\ ~Preparing(by)
                  /\ \A f \in Members(api_queue') \cup Members(results) : f.by # by
    PROVE  ApiInv'
<1>. USE DEF ApiInv
<1>1. HalKept /\ life' = life /\ life # "closed" /\ call' = call /\ intPic' = intPic
  BY HandlersKeep DEF SmRuns, ApiShape, Handle
<1>2. /\ hw'.setup = hw.setup /\ stateMachine(e) /\ signalAPIResult(e, by)
      /\ asker' = IF m_state = "PREVIEWING" /\ m_state' = "PREPARE_SNAPSHOT" THEN by ELSE asker
  BY <1>1 DEF HalKept, Handle
(* What is answered, and to whom.                                           *)
<1>3. PICK r \in ResultType :
        \/ results' = results
        \/ /\ results' = Append(results, r)
           /\ \/ r.api = e /\ r.by = by /\ e \in Apis /\ answer' = "API"
              \/ /\ r.api = "PREPARE_SNAPSHOT" /\ r.by = asker
                 /\ m_state = "PREPARE_SNAPSHOT" /\ m_state' = "PREVIEWING"
  <2>1. [api |-> e, by |-> by] \in ResultType
    BY DEF ResultType
  <2>2. CASE answer' # "API"
    BY <1>2, <2>1, <2>2 DEF signalAPIResult
  <2>3. CASE answer' = "API" /\ e = "PREP_SNAPSHOT_DONE"
    <3>1. m_state = "PREPARE_SNAPSHOT" /\ m_state' = "PREVIEWING"
      BY <1>2, <2>3, MachineAnswers DEF Notices
    <3>2. [api |-> "PREPARE_SNAPSHOT", by |-> asker] \in ResultType
      BY Names DEF ResultType, ApiShape
    <3>. QED
      BY <1>2, <2>3, <3>1, <3>2 DEF signalAPIResult
  <2>4. CASE answer' = "API" /\ e # "PREP_SNAPSHOT_DONE"
    <3>1. e \in Apis
      BY <1>2, <2>4, MachineAnswers
    <3>. QED
      BY <1>2, <2>1, <2>4, <3>1 DEF signalAPIResult
  <2>. QED
    BY <2>2, <2>3, <2>4
<1>4. /\ results' \in Seq(ResultType)
      /\ Members(results') \subseteq Members(results) \cup {r}
      /\ results' # results =>
           /\ Members(results') = Members(results) \cup {r}
           /\ Once(results) /\ (r.by \in Callers => \A f \in Members(results) : f.by # r.by)
                => Once(results')
  <2>1. results \in Seq(ResultType)
    BY DEF ApiShape
  <2>2. CASE results' = results
    BY <2>1, <2>2
  <2>3. CASE results' = Append(results, r)
    BY <2>1, <2>3, AppendMembers
  <2>. QED
    BY <1>3, <2>2, <2>3
<1>5. ApiShape'
  <2>1. evt_queue' \in Seq(EvtType)
    BY StaledType DEF Handle
  <2>2. m_state' \in States /\ hw' \in HwBase /\ HalInv'
    BY <1>1 DEF HalKept, HalInv
  <2>. QED
    BY <1>1, <1>2, <1>4, <2>1, <2>2 DEF ApiShape
(* Who asked the machine to prepare a snapshot waits for it.                *)
<1>6. /\ m_state' = "PREPARE_SNAPSHOT" /\ m_state # "PREPARE_SNAPSHOT" =>
           m_state = "PREVIEWING" /\ e = "PREPARE_SNAPSHOT" /\ results' = results /\ asker' = by
      /\ m_state = "PREPARE_SNAPSHOT" => asker' = asker
  BY <1>2, MachineEnters DEF signalAPIResult
<1>7. Unasked'
  <2>1. m_state' = "PREPARE_SNAPSHOT" => asker' \in Callers
    BY <1>6, Names, LeftoverNames DEF Unasked
  <2>2. r.by = "none" /\ results' # results => r.api \in Leftovers(hw.setup)
    BY <1>3, Names DEF Unasked, Notices, Apis
  <2>. QED
    BY <1>1, <1>2, <1>4, <2>1, <2>2 DEF Unasked
<1>8. Unrecorded'
  BY <1>1, <1>2, MachineEnters, Names, LeftoverNames DEF Unrecorded
<1>9. MayAsk'
  BY <1>1, <1>2 DEF MayAsk
<1>10. ASSUME Unshared(hw.setup) PROVE OnePlace'
  <2>1. OnePlace /\ Once(api_queue')
    BY <1>10
  <2>2. results' # results /\ r.by \in Callers =>
          /\ call[r.by] = r.api
          /\ \A f \in Members(api_queue') \cup Members(results) : f.by # r.by
          /\ ~(m_state' = "PREPARE_SNAPSHOT" /\ asker' = r.by)
    <3>1. CASE /\ results' # results /\ r.api = e /\ r.by = by /\ by \in Callers
               /\ answer' = "API"
      <4>1. call[by] = e /\ ~Preparing(by)
            /\ \A f \in Members(api_queue') \cup Members(results) : f.by # by
        BY <1>10, <3>1
      <4>2. m_state' = "PREPARE_SNAPSHOT" => m_state = "PREPARE_SNAPSHOT" /\ asker' = asker
        BY <1>6, <3>1
      <4>. QED
        BY <3>1, <4>1, <4>2 DEF Preparing
    <3>2. CASE /\ r.api = "PREPARE_SNAPSHOT" /\ r.by = asker /\ asker \in Callers
               /\ m_state = "PREPARE_SNAPSHOT" /\ m_state' = "PREVIEWING"
      BY <2>1, <3>2 DEF OnePlace, Preparing
    <3>. QED
      BY <1>3, <3>1, <3>2
  <2>3. Awaited(api_queue)'
    BY <1>1, <2>1 DEF OnePlace, Awaited
  <2>4. Awaited(results)'
    BY <1>1, <1>3, <1>4, <2>1, <2>2 DEF OnePlace, Awaited
  <2>5. Once(results')
    BY <1>3, <1>4, <2>1, <2>2 DEF OnePlace
  <2>6. \A f \in Members(api_queue'), g \in Members(results') : f.by \in Callers => f.by # g.by
    BY <1>3, <1>4, <2>1, <2>2 DEF OnePlace
  <2>7. ASSUME NEW c \in Callers, Preparing(c)'
        PROVE  /\ call'[c] = "PREPARE_SNAPSHOT"
               /\ \A f \in Members(api_queue') \cup Members(results') : f.by # c
    <3>1. CASE m_state = "PREPARE_SNAPSHOT"
      <4>1. Preparing(c) /\ results' # results => r.by # c
        BY <1>6, <2>2, <2>7, <3>1 DEF Preparing
      <4>. QED
        BY <1>1, <1>3, <1>4, <1>6, <2>1, <2>7, <3>1, <4>1 DEF OnePlace, Preparing
    <3>2. CASE m_state # "PREPARE_SNAPSHOT"
      <4>1. e = "PREPARE_SNAPSHOT" /\ results' = results /\ by = c
        BY <1>6, <2>7, <3>2 DEF Preparing
      <4>. QED
        BY <1>1, <1>10, <4>1
    <3>. QED
      BY <3>1, <3>2
  <2>. QED
    BY <2>1, <2>3, <2>4, <2>5, <2>6, <2>7 DEF OnePlace
<1>. QED
  BY <1>2, <1>5, <1>7, <1>8, <1>9, <1>10

LEMMA SmApiKeeps == ASSUME ApiInv, SmApi PROVE ApiInv'
<1>. DEFINE first == Head(api_queue)
<1>. USE DEF ApiInv
<1>1. /\ SmRuns /\ api_queue # <<>> /\ first # Exit /\ api_queue' = Tail(api_queue)
      /\ Handle(first.api, first.by, evt_queue)
  BY DEF SmApi
<1>2. /\ api_queue' \in Seq(Requests \cup {Exit}) /\ first \in Members(api_queue)
      /\ first \in Requests \cup {Exit}
      /\ Members(api_queue') \subseteq Members(api_queue)
      /\ Once(api_queue) =>
           /\ Once(api_queue')
           /\ first.by \in Callers => \A f \in Members(api_queue') : f.by # first.by
  BY <1>1, TailMembers DEF ApiShape
<1>3. first.api \in Apis \cup Notices /\ first.by \in Callers \cup {"none"}
  BY <1>1, <1>2 DEF Requests
<1>. HIDE DEF first
<1>4. first.by = "none" => first.api \in Leftovers(hw.setup) \cup Notices
  BY <1>2, <1>3, Names DEF Unasked
<1>5. first.by \in Callers => first.api \in Calls[hw.setup][first.by]
  BY <1>2 DEF MayAsk
<1>6. ASSUME Unshared(hw.setup)
      PROVE  /\ Once(api_queue')
             /\ first.by \in Callers =>
                  /\ call[first.by] = first.api /\ ~Preparing(first.by)
                  /\ \A f \in Members(api_queue') \cup Members(results) : f.by # first.by
  BY <1>2, <1>6 DEF OnePlace, Awaited
<1>7. evt_queue \in Seq(EvtType)
  BY DEF ApiShape
<1>. QED
  BY <1>1, <1>2, <1>3, <1>4, <1>5, <1>6, <1>7, HandleKeeps

LEMMA SmEvtKeeps == ASSUME ApiInv, SmEvt PROVE ApiInv'
<1>. DEFINE first == Head(evt_queue)
<1>. USE DEF ApiInv
<1>1. /\ SmRuns /\ evt_queue # <<>> /\ api_queue' = api_queue
      /\ Handle(first.evt, "none", Tail(evt_queue))
  BY DEF SmEvt
<1>2. Tail(evt_queue) \in Seq(EvtType) /\ first \in EvtType
  BY <1>1 DEF ApiShape
<1>3. first.evt \in Notices
  BY <1>2 DEF EvtType, Notices
<1>. HIDE DEF first
<1>4. api_queue' \in Seq(Requests \cup {Exit}) /\ Members(api_queue') \subseteq Members(api_queue)
  BY <1>1 DEF ApiShape
<1>5. Unshared(hw.setup) => Once(api_queue')
  BY <1>1 DEF OnePlace
<1>. QED
  BY <1>1, <1>2, <1>3, <1>4, <1>5, Names, HandleKeeps

(* A caller posts a request it may make: it has nothing else under way.     *)
LEMMA CallKeeps ==
    ASSUME ApiInv, NEW c \in Callers, NEW a \in Calls[hw.setup][c], Call(c, a)
    PROVE  ApiInv'
<1>. DEFINE new == [api |-> a, by |-> c]
<1>. USE DEF ApiInv
<1>1. /\ call[c] = "none" /\ call' = [call EXCEPT ![c] = a] /\ api_queue' = Append(api_queue, new)
      /\ UNCHANGED <<m_state, hw, evt_queue, results, asker, intPic, life>>
  BY DEF Call, smVars
<1>2. hw.setup \in Setups /\ a \in Apis \cup Notices /\ a # "none"
  <2>1. hw.setup \in Setups
    BY DEF ApiShape, HwBase
  <2>2. Calls[hw.setup][c] \subseteq Apis \cup Notices
    BY <2>1, ApiAssumption
  <2>. QED
    BY <2>1, <2>2, Names
<1>3. new \in Requests /\ new.by = c /\ new.api = a
  BY <1>2 DEF Requests
<1>. HIDE DEF new
<1>4. /\ api_queue' \in Seq(Requests \cup {Exit})
      /\ Members(api_queue') = Members(api_queue) \cup {new}
      /\ Once(api_queue) /\ (\A f \in Members(api_queue) : f.by # c) => Once(api_queue')
  <2>1. new \in Requests \cup {Exit} /\ api_queue \in Seq(Requests \cup {Exit})
    BY <1>3 DEF ApiShape
  <2>. QED
    BY <1>1, <1>3, <2>1, AppendMembers
<1>5. call'[c] = a /\ \A d \in Callers : d # c => call'[d] = call[d]
  BY <1>1 DEF ApiShape
<1>6. ApiShape'
  BY <1>1, <1>2, <1>4 DEF ApiShape, HalInv, VideoRunsWhileRecording, LiveSnapshotJoined, Runs
<1>7. Unasked' /\ Unrecorded'
  BY <1>1, <1>3, <1>4, Names DEF Unasked, Unrecorded
<1>8. MayAsk'
  BY <1>1, <1>3, <1>4, <1>5 DEF MayAsk
<1>9. ASSUME Unshared(hw.setup) PROVE OnePlace'
  <2>1. OnePlace
    BY <1>9
  <2>2. \A f \in Members(api_queue) : f.by \in Callers => f.api # "none"
    <3>1. \A f \in Members(api_queue) : f \in Requests \cup {Exit}
      BY DEF ApiShape, Members
    <3>. QED
      BY <3>1, Names DEF Requests, Exit
  <2>3. \A f \in Members(results) : f.api # "none"
    <3>1. \A f \in Members(results) : f \in ResultType
      BY DEF ApiShape, Members
    <3>. QED
      BY <3>1, Names DEF ResultType
  <2>4. \A f \in Members(api_queue) \cup Members(results) : f.by # c
    BY <1>1, <2>1, <2>2, <2>3 DEF OnePlace, Awaited
  <2>5. ~Preparing(c)
    BY <1>1, <2>1 DEF OnePlace
  <2>6. Awaited(api_queue)' /\ Awaited(results)'
    BY <1>1, <1>3, <1>4, <1>5, <2>1, <2>4 DEF OnePlace, Awaited
  <2>7. Once(api_queue)' /\ Once(results)'
    BY <1>1, <1>4, <2>1, <2>4 DEF OnePlace, Once
  <2>8. \A f \in Members(api_queue'), g \in Members(results') : f.by \in Callers => f.by # g.by
    BY <1>1, <1>3, <1>4, <2>1, <2>4 DEF OnePlace
  <2>9. \A d \in Callers : Preparing(d)' =>
          /\ call'[d] = "PREPARE_SNAPSHOT"
          /\ \A f \in Members(api_queue') \cup Members(results') : f.by # d
    BY <1>1, <1>3, <1>4, <1>5, <2>1, <2>5 DEF OnePlace, Preparing
  <2>. QED
    BY <2>6, <2>7, <2>8, <2>9 DEF OnePlace
<1>. QED
  BY <1>1, <1>6, <1>7, <1>8, <1>9

(* waitAPIResult takes the first result of its name: with nothing shared    *)
(* that is the caller's own, and its request is nowhere any more.           *)
LEMMA ReturnKeeps == ASSUME ApiInv, NEW c \in Callers, Return(c) PROVE ApiInv'
<1>. USE DEF ApiInv
<1>1. PICK k \in DOMAIN results :
        /\ results[k].api = call[c]
        /\ results' = Without(results, k)
        /\ call' = [call EXCEPT ![c] = "none"]
        /\ intPic' = IF c = "backend" THEN "waiting" ELSE intPic
        /\ UNCHANGED <<m_state, hw, api_queue, evt_queue, asker, life>>
  BY DEF Return, smVars, Without
<1>2. /\ results' \in Seq(ResultType) /\ Members(results') \subseteq Members(results)
      /\ results[k] \in Members(results) /\ results[k] \in ResultType
      /\ Once(results) =>
           /\ Once(results')
           /\ results[k].by \in Callers => \A e \in Members(results') : e.by # results[k].by
  <2>1. results \in Seq(ResultType)
    BY DEF ApiShape
  <2>2. results[k] \in ResultType
    BY <2>1
  <2>. QED
    BY <1>1, <2>1, <2>2, RemoveMembers
<1>3. call'[c] = "none" /\ \A d \in Callers : d # c => call'[d] = call[d]
  BY <1>1 DEF ApiShape
<1>4. call[c] # "none" /\ call[c] \in Calls[hw.setup][c]
  BY <1>1, <1>2, Names DEF ResultType, MayAsk
<1>5. ApiShape'
  BY <1>1, <1>2 DEF ApiShape, HalInv, VideoRunsWhileRecording, LiveSnapshotJoined, Runs
<1>6. Unasked' /\ Unrecorded' /\ MayAsk'
  BY <1>1, <1>2, <1>3, <1>4 DEF Unasked, Unrecorded, MayAsk
<1>7. ASSUME Unshared(hw.setup) PROVE OnePlace'
  <2>1. OnePlace
    BY <1>7
  <2>2. results[k].by = c
    <3>1. results[k].by # "none"
      <4>1. Calls[hw.setup][c] \cap Leftovers(hw.setup) = {}
        BY <1>7 DEF Unshared
      <4>. QED
        BY <1>1, <1>2, <1>4, <4>1 DEF Unasked
    <3>2. results[k].by \in Callers /\ call[results[k].by] = call[c]
      BY <1>1, <1>2, <2>1, <3>1 DEF ResultType, OnePlace, Awaited
    <3>3. call[c] \in Calls[hw.setup][results[k].by]
      BY <1>4, <3>2 DEF MayAsk
    <3>4. results[k].by # c => Calls[hw.setup][results[k].by] \cap Calls[hw.setup][c] = {}
      BY <1>7, <3>2 DEF Unshared
    <3>. QED
      BY <1>4, <3>3, <3>4
  <2>3. \A e \in Members(api_queue) \cup Members(results') : e.by # c
    BY <1>2, <2>1, <2>2 DEF OnePlace
  <2>4. ~Preparing(c)
    BY <1>2, <2>1, <2>2 DEF OnePlace
  <2>5. Awaited(api_queue)' /\ Awaited(results)'
    BY <1>1, <1>2, <1>3, <2>1, <2>3 DEF OnePlace, Awaited
  <2>6. Once(api_queue') /\ Once(results')
    BY <1>1, <1>2, <2>1 DEF OnePlace
  <2>7. \A e \in Members(api_queue'), f \in Members(results') : e.by \in Callers => e.by # f.by
    BY <1>1, <1>2, <2>1 DEF OnePlace
  <2>8. \A d \in Callers : Preparing(d)' =>
          /\ call'[d] = "PREPARE_SNAPSHOT"
          /\ \A f \in Members(api_queue') \cup Members(results') : f.by # d
    BY <1>1, <1>2, <1>3, <2>1, <2>4 DEF OnePlace, Preparing
  <2>. QED
    BY <2>5, <2>6, <2>7, <2>8 DEF OnePlace
<1>. QED
  BY <1>1, <1>5, <1>6, <1>7

(* What the other threads do: they may post a request nobody waits for.     *)
LEMMA OthersKeep ==
    ASSUME ApiInv, NEW e \in Requests \cup {Exit}, e.by = "none",
           e.api \in Leftovers(hw.setup) \cup Notices \cup {"EXIT"},
           \/ api_queue' = api_queue \/ api_queue' = Append(api_queue, e)
           \/ api_queue # <<>> /\ api_queue' = Tail(api_queue),
           results' = results \/ results' = <<>>,
           UNCHANGED <<m_state, call, asker>>, hw'.setup = hw.setup, hw' \in HwBase,
           evt_queue' \in Seq(EvtType), intPic' # "idle" => intPic # "idle",
           life' \in {"open", "closing", "smExited", "joining", "closed"},
           life' # "closed" => life # "closed" /\ HalInv'
    PROVE  ApiInv'
<1>. USE DEF ApiInv
<1>1. /\ api_queue' \in Seq(Requests \cup {Exit})
      /\ Members(api_queue') \subseteq Members(api_queue) \cup {e}
      /\ Once(api_queue) => Once(api_queue')
  <2>1. api_queue \in Seq(Requests \cup {Exit}) /\ e.by \notin Callers
    BY Names DEF ApiShape
  <2>2. CASE api_queue' = api_queue
    BY <2>1, <2>2
  <2>3. CASE api_queue' = Append(api_queue, e)
    BY <2>1, <2>3, AppendMembers
  <2>4. CASE api_queue # <<>> /\ api_queue' = Tail(api_queue)
    BY <2>1, <2>4, TailMembers
  <2>. QED
    BY <2>2, <2>3, <2>4
<1>2. /\ results' \in Seq(ResultType) /\ Members(results') \subseteq Members(results)
      /\ Once(results) => Once(results')
  <2>1. CASE results' = results
    BY <2>1 DEF ApiShape
  <2>2. CASE results' = <<>>
    BY <2>2 DEF Members, Once
  <2>. QED
    BY <2>1, <2>2
<1>3. ApiShape'
  BY <1>1, <1>2 DEF ApiShape
<1>4. Unasked' /\ Unrecorded' /\ MayAsk'
  BY <1>1, <1>2, Names DEF Unasked, Unrecorded, MayAsk
<1>5. OnePlace => OnePlace'
  BY <1>1, <1>2, Names DEF OnePlace, Awaited, Preparing
<1>. QED
  BY <1>3, <1>4, <1>5

(* A step that leaves the machine alone leaves what is known of it.         *)
LEMMA MachineAlone ==
    ASSUME ApiInv, UNCHANGED <<m_state, hw, life>>
    PROVE  /\ hw' \in HwBase /\ hw'.setup = hw.setup
           /\ life' \in {"open", "closing", "smExited", "joining", "closed"}
           /\ life' # "closed" => life # "closed" /\ HalInv'
BY DEF ApiInv, ApiShape, HalInv, VideoRunsWhileRecording, LiveSnapshotJoined, Runs

(* Int_Pic_thread posts what its picture has left to do.                    *)
LEMMA IntPicKeeps == ASSUME ApiInv, checkIntPicPending PROVE ApiInv'
<1>1. "backend" \in Callers /\ Calls[hw.setup]["backend"] # {} /\ intPic # "idle"
  BY DEF checkIntPicPending, ApiInv, Unasked
<1>2. "START_PREVIEW" \in Leftovers(hw.setup) /\ "SNAPSHOT_DONE" \in Notices
  BY <1>1 DEF Leftovers, Notices
<1>3. PICK a \in {"START_PREVIEW", "SNAPSHOT_DONE"} :
        /\ api_queue' = api_queue \/ api_queue' = Append(api_queue, [api |-> a, by |-> "none"])
        /\ UNCHANGED <<m_state, hw, evt_queue, call, results, asker, life>>
  BY DEF checkIntPicPending, Post, smVars
<1>. DEFINE e == [api |-> a, by |-> "none"]
<1>4. /\ e \in Requests \cup {Exit} /\ e.by = "none"
      /\ e.api \in Leftovers(hw.setup) \cup Notices \cup {"EXIT"}
  BY <1>2, Names DEF Requests
<1>5. evt_queue' \in Seq(EvtType)
  BY <1>3 DEF ApiInv, ApiShape
<1>6. api_queue' = api_queue \/ api_queue' = Append(api_queue, e)
  BY <1>3
<1>7. /\ hw' \in HwBase /\ hw'.setup = hw.setup
      /\ life' \in {"open", "closing", "smExited", "joining", "closed"}
      /\ life' # "closed" => life # "closed" /\ HalInv'
  BY <1>3, MachineAlone
<1>8. UNCHANGED <<m_state, call, asker>> /\ results' = results
  BY <1>3
<1>. HIDE DEF e
<1>. QED
  BY <1>1, <1>4, <1>5, <1>6, <1>7, <1>8, OthersKeep

(* A live snapshot that fails posts CANCEL_PICTURE: somebody has recorded.  *)
LEMMA LiveThreadKeeps == ASSUME ApiInv, Live_Snapshot_thread PROVE ApiInv'
<1>. DEFINE e == [api |-> "CANCEL_PICTURE", by |-> "none"]
<1>. USE DEF ApiInv
<1>1. /\ hw.live = "running" /\ m_state' = m_state
      /\ \E h \in LiveSnapshot([H EXCEPT !.live = "over"]) : hw' = h
      /\ UNCHANGED <<evt_queue, call, results, asker, intPic, life>>
  BY DEF Live_Snapshot_thread, LiveSnapshotThread, Silent
<1>2. hw' \in HwBase /\ hw'.setup = hw.setup
  <2>1. <<>> \in Seq({"START", "STOP"}) /\ hw \in HwBase
    BY DEF ApiShape
  <2>2. [H EXCEPT !.live = "over"] \in HwBase /\ [H EXCEPT !.live = "over"].setup = hw.setup
    BY <2>1 DEF H, Rested, HwBase
  <2>. QED
    BY <1>1, <2>2, LiveSnapshotEffect
<1>3. life # "closed" => HalInv'
  BY LiveSnapshotThreadKeeps DEF Live_Snapshot_thread, ApiShape, HalKept
<1>4. api_queue' = api_queue \/ (life = "open" /\ api_queue' = Append(api_queue, e))
  BY DEF Live_Snapshot_thread
<1>5. CASE api_queue' = api_queue
  <2>1. Exit \in Requests \cup {Exit} /\ Exit.by = "none" /\ Exit.api = "EXIT"
    BY DEF Exit
  <2>. QED
    BY <1>1, <1>2, <1>3, <1>5, <2>1, OthersKeep DEF ApiShape
<1>6. CASE life = "open" /\ api_queue' = Append(api_queue, e)
  <2>1. m_state = "VIDEO_PIC_TAKING"
    BY <1>1, <1>6 DEF ApiShape, HalInv, LiveSnapshotJoined
  <2>2. "CANCEL_PICTURE" \in Leftovers(hw.setup)
    BY <1>6, <2>1 DEF Unrecorded, RecordingStates, Leftovers
  <2>3. e \in Requests /\ e.by = "none" /\ e.api = "CANCEL_PICTURE"
    BY Names DEF Requests
  <2>. HIDE DEF e
  <2>. QED
    BY <1>1, <1>2, <1>3, <1>6, <2>2, <2>3, OthersKeep DEF ApiShape
<1>. QED
  BY <1>4, <1>5, <1>6

(* The lower layers and the notifier.                                       *)
LEMMA LowerKeeps ==
    ASSUME ApiInv,
           PrepSnapshotDone \/ stopCapture \/ sendDataNotify \/ CbStart \/ CbStop \/ CbJob
             \/ CbReturn
    PROVE  ApiInv'
<1>. DEFINE e == [api |-> "STOP_CAPTURE_CHANNEL", by |-> "none"]
<1>1. /\ api_queue' = api_queue \/ api_queue' = Append(api_queue, e)
      /\ UNCHANGED <<m_state, hw, call, results, asker, intPic, life>>
  BY DEF PrepSnapshotDone, stopCapture, sendDataNotify, CbStart, CbStop, CbJob, CbReturn,
         Notifier, smVars
<1>2. evt_queue' \in Seq(EvtType)
  <2>1. /\ evt_queue \in Seq(EvtType)
        /\ \A f \in BOOLEAN : [evt |-> "SNAPSHOT_DONE", fresh |-> f] \in EvtType
        /\ [evt |-> "PREP_SNAPSHOT_DONE", fresh |-> TRUE] \in EvtType
    BY DEF ApiInv, ApiShape, EvtType
  <2>2. isCaptureRunning \in BOOLEAN
    BY DEF isCaptureRunning
  <2>3. \/ evt_queue' = evt_queue
        \/ evt_queue' = Append(evt_queue, [evt |-> "SNAPSHOT_DONE", fresh |-> isCaptureRunning])
        \/ evt_queue' = Append(evt_queue, [evt |-> "PREP_SNAPSHOT_DONE", fresh |-> TRUE])
    BY DEF PrepSnapshotDone, stopCapture, sendDataNotify, CbStart, CbStop, CbJob, CbReturn
  <2>. QED
    BY <2>1, <2>2, <2>3
<1>3. /\ e \in Requests \cup {Exit} /\ e.by = "none"
      /\ e.api \in Leftovers(hw.setup) \cup Notices \cup {"EXIT"}
  BY DEF Requests, Notices
<1>. HIDE DEF e
<1>4. UNCHANGED <<m_state, call, asker>> /\ results' = results /\ intPic' = intPic
  BY <1>1
<1>5. api_queue' = api_queue \/ api_queue' = Append(api_queue, e)
  BY <1>1
<1>6. /\ hw' \in HwBase /\ hw'.setup = hw.setup
      /\ life' \in {"open", "closing", "smExited", "joining", "closed"}
      /\ life' # "closed" => life # "closed" /\ HalInv'
  BY <1>1, MachineAlone
<1>. QED
  BY <1>2, <1>3, <1>4, <1>5, <1>6, OthersKeep

(* The destructor: the machine's thread is told to go, and goes; then the   *)
(* channels are deleted and the results dropped.                            *)
LEMMA CloseKeeps ==
    ASSUME ApiInv, Close \/ SmExit \/ closeCamera \/ CbExit
    PROVE  ApiInv'
<1>. USE DEF ApiInv
<1>1. Exit \in Requests \cup {Exit} /\ Exit.by = "none" /\ Exit.api = "EXIT"
  BY DEF Exit
<1>2. UNCHANGED <<m_state, hw>> /\ life # "closed" => HalInv' /\ hw' \in HwBase
  BY DEF ApiShape, HalInv, VideoRunsWhileRecording, LiveSnapshotJoined, Runs
<1>3. CASE Close \/ SmExit \/ closeCamera
  <2>1. /\ \/ api_queue' = api_queue \/ api_queue' = Append(api_queue, Exit)
           \/ api_queue # <<>> /\ api_queue' = Tail(api_queue)
        /\ UNCHANGED <<m_state, hw, call, asker, results, intPic, evt_queue>>
        /\ life # "closed" /\ life' \in {"closing", "smExited", "joining"}
    BY <1>3 DEF Close, SmExit, closeCamera, smVars, SmRuns
  <2>. QED
    BY <1>1, <1>2, <2>1, OthersKeep DEF ApiShape
<1>4. CASE CbExit
  <2>1. H \in HwBase /\ H.setup = hw.setup
    <3>1. <<>> \in Seq({"START", "STOP"}) /\ hw \in HwBase
      BY DEF ApiShape
    <3>. QED
      BY <3>1 DEF H, Rested, HwBase
  <2>2. hw' \in HwBase /\ hw'.setup = hw.setup
    BY <1>4, <2>1, ReleaseCalm DEF CbExit, Calm
  <2>3. /\ results' = <<>> /\ life' = "closed" /\ api_queue' = api_queue
        /\ UNCHANGED <<m_state, call, asker, intPic, evt_queue>>
    BY <1>4 DEF CbExit
  <2>. QED
    BY <1>1, <2>2, <2>3, OthersKeep DEF ApiShape
<1>. QED
  BY <1>3, <1>4

-----------------------------------------------------------------------------
(* At first nobody has asked anything.                                      *)
LEMMA ApiStarts == Init => ApiInv
<1>. SUFFICES ASSUME Init PROVE ApiInv
  OBVIOUS
<1>1. /\ HalInv /\ m_state = "PREVIEW_STOPPED"
      /\ api_queue = <<>> /\ evt_queue = <<>> /\ results = <<>>
      /\ call = [c \in Callers |-> "none"] /\ asker = "none" /\ intPic = "idle"
      /\ life = "open"
  BY HalInitInv DEF Init, smInit
<1>2. Members(api_queue) = {} /\ Members(results) = {} /\ Once(api_queue) /\ Once(results)
  BY <1>1 DEF Members, Once
<1>3. ApiShape
  BY <1>1 DEF ApiShape, HalInv
<1>4. Unasked /\ Unrecorded /\ MayAsk
  BY <1>1, <1>2 DEF Unasked, Unrecorded, MayAsk, RecordingStates
<1>5. OnePlace
  BY <1>1, <1>2 DEF OnePlace, Awaited, Preparing
<1>. QED
  BY <1>3, <1>4, <1>5 DEF ApiInv

LEMMA ApiNextKeeps == ApiInv /\ [Next]_vars => ApiInv'
<1>. SUFFICES ASSUME ApiInv, [Next]_vars PROVE ApiInv'
  OBVIOUS
<1>1. CASE UNCHANGED vars
  BY <1>1 DEF vars, smVars, ApiInv, ApiShape, HalInv, VideoRunsWhileRecording, LiveSnapshotJoined,
     Runs, Unasked, Unrecorded, MayAsk, OnePlace, Awaited, Preparing
<1>2. CASE Next
  BY <1>2, ReturnKeeps, CallKeeps, IntPicKeeps, SmApiKeeps, SmEvtKeeps, LiveThreadKeeps,
     LowerKeeps, CloseKeeps DEF Next, smEvtProcRoutine, cbNotifyRoutine
<1>. QED
  BY <1>1, <1>2

(* waitAPIResult: for any callers with any requests, any setups and faults, *)
(* any parameters, patient or not: where no two callers ask for the same,   *)
(* nor for what the posting threads leave behind, each takes the answer     *)
(* that was made for it.                                                    *)
THEOREM CallersGetTheirAnswers == Spec => []AnswersToCallers
<1>1. ApiInv => AnswersToCallers
  <2>1. ASSUME ApiInv, Unshared(hw.setup), NEW i \in DOMAIN results, results[i].by \in Callers
        PROVE  call[results[i].by] = results[i].api
    BY <2>1 DEF ApiInv, OnePlace, Awaited, Members
  <2>. QED
    BY <2>1 DEF AnswersToCallers, OwnAnswer
<1>. QED
  BY <1>1, ApiStarts, ApiNextKeeps, PTL DEF Spec
=============================================================================
