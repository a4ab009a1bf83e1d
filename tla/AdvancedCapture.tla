--------------------------- MODULE AdvancedCapture ---------------------------
(* The pictures made of several frames (QCamera2HWI.cpp): takePicture has the  *)
(* sensor bracket focus, flash or exposure, or drop its zoom; the callback of  *)
(* the ZSL channel counts the frames and undoes this after the last; and       *)
(* cancelPicture undoes it before.  Each step finds out anew, from parameters  *)
(* the step before may have changed, which feature it is about.                *)
EXTENDS Naturals, Sequences, FiniteSets

CONSTANTS
  Features,        \* those the camera has, of AllFeatures
  BurstOf,         \* frames of a picture with "ubi", "opti", "fssr", "hdr" and "aeb"
  Refocus,         \* of "ubi" and "mtf": those whose output_count is above 1
  UfOutputCount,
  MAX_AF_BRACKETING_VALUES,
  Threshold,       \* the zoom from which OptiZoom works
  Positions,       \* of the lens
  MaxChanges, MaxTakes  \* bounds: calls of the app, and pictures

AllFeatures == {"ubi", "mtf", "opti", "fssr", "chroma", "hdr", "aeb"}
AdvancedAssumption ==
  /\ Features \subseteq AllFeatures /\ Refocus \subseteq {"ubi", "mtf"}
  /\ BurstOf \in [{"ubi", "opti", "fssr", "hdr", "aeb"} -> Nat \ {0}] /\ UfOutputCount \in Nat \ {0}
  /\ {MAX_AF_BRACKETING_VALUES, Threshold, MaxChanges, MaxTakes} \subseteq Nat /\ Positions \subseteq Nat

VARIABLES
  isZSLMode,
  on,         \* the features the app turned on
  zoom,       \* KEY_ZOOM
  conf,       \* [configured, is3ALocked, zoomLevel, inputs: of the HAL;
              \*  mtf, curr: the parameters' focus positions and m_currNumBufMTF;
              \*  lock, zoom, bracketing: what the sensor does]
  channel,    \* what the ZSL channel was told to do
  sm,         \* "preview", "taking"
  picture,    \* [of, asked, flight, encoded, ongoing, output, outputs, given]
  stale,      \* frames of a cancelled picture the callback has yet to see
  late, failed, \* (history) such a frame was counted for another picture; a picture was not begun
  changes, takes

advVars == <<isZSLMode, on, zoom, conf, channel, sm, picture, stale, late, failed, changes, takes>>

isMultiTouchFocusEnabled(c) == "mtf" \in on /\ (Len(c.mtf) > 1 \/ c.curr > 1)
isOptiZoomEnabled == "opti" \in on /\ zoom >= Threshold
Enabled(c) == {f \in on : /\ f = "mtf" => isMultiTouchFocusEnabled(c)
                          /\ f = "opti" => isOptiZoomEnabled}
\* The first of some sets of features that has one enabled.
First(order, c) ==
  LET hits == {i \in DOMAIN order : order[i] \cap Enabled(c) # {}}
  IN  IF hits = {} THEN {} ELSE order[CHOOSE i \in hits : \A j \in hits : i <= j]
isAdvCamFeaturesEnabled(c) == Enabled(c) \ {"aeb"} # {}
isUbiRefocus == "ubi" \in on \cap Refocus
isMTFRefocus(c) == "mtf" \in Refocus /\ isMultiTouchFocusEnabled(c)

getBurstCountForAdvancedCapture(c) ==
  LET f == First(<<{"ubi"}, {"opti"}, {"fssr"}, {"chroma"}, {"mtf"}, {"hdr"}, {"aeb"}>>, c)
      count == CASE f = {} -> 0 [] f = {"chroma"} -> 2 [] f = {"mtf"} -> c.curr
                 [] OTHER -> BurstOf[CHOOSE x \in f : TRUE]
  IN  IF count = 0 THEN 1 ELSE count
-----------------------------------------------------------------------------
(* Focus positions, the farthest first.                                       *)
updateMTFInfo(list, pos) ==
  IF Len(list) >= MAX_AF_BRACKETING_VALUES THEN list
  ELSE LET before == {i \in DOMAIN list : \A j \in 1..i : list[j] >= pos}
           n == Cardinality(before)
       IN  SubSeq(list, 1, n) \o <<pos>> \o SubSeq(list, n + 1, Len(list))

Locked(c) == [c EXCEPT !.lock = TRUE, !.is3ALocked = TRUE]
Brackets(c, what, enable) == [c EXCEPT !.bracketing = IF enable THEN @ \cup {what} ELSE @ \ {what}]
configureAFBracketing(c) == Locked(Brackets(c, "AF", TRUE))
configureMTFBracketing(c, enable) ==
  LET b == [Brackets(c, "MTF", enable) EXCEPT !.curr = IF enable THEN Len(c.mtf) ELSE 0, !.mtf = <<>>]
  IN  IF enable THEN Locked(b) ELSE b
configureOptiZoom(c) == Locked([c EXCEPT !.zoomLevel = zoom, !.zoom = 0])  \* and configureFssr

\* The sensor may refuse all but a zoom.
MayRefuse(c, done, refused) == {[done EXCEPT !.configured = TRUE], refused}
configureAdvancedCapture(c0) ==
  LET c == [c0 EXCEPT !.inputs = 0]
      no == [c EXCEPT !.configured = FALSE]
      f == First(<<{"ubi"}, {"mtf"}, {"opti"}, {"fssr"}, {"chroma"}, {"hdr"}, {"aeb"}>>, c)
  IN  CASE f = {"ubi"} -> MayRefuse(c, configureAFBracketing(c), no)
        [] f = {"mtf"} -> MayRefuse(c, configureMTFBracketing(c, TRUE), [no EXCEPT !.curr = Len(c.mtf)])
        [] f = {"chroma"} -> MayRefuse(c, Brackets(c, "FLASH", TRUE), no)
        [] f \in {{"hdr"}, {"aeb"}} -> MayRefuse(c, Brackets(c, "AE", TRUE), no)
        [] OTHER -> {[configureOptiZoom(c) EXCEPT !.configured = TRUE]}

unconfigureAdvancedCapture(c) ==
  LET u == [c EXCEPT !.configured = FALSE, !.is3ALocked = FALSE, !.lock = @ /\ ~c.is3ALocked]
      f == First(<<{"hdr", "aeb"}, {"ubi"}, {"chroma"}, {"opti", "fssr"}, {"mtf"}>>, u)
      d == CASE f = {"hdr", "aeb"} -> Brackets(u, "AE", FALSE)
             [] f = {"ubi"} -> Brackets(u, "AF", FALSE)
             [] f = {"chroma"} -> Brackets(u, "FLASH", FALSE)
             [] f = {"opti", "fssr"} -> [u EXCEPT !.zoom = u.zoomLevel]
             [] f = {"mtf"} -> configureMTFBracketing(u, FALSE)
             [] OTHER -> u
  IN  IF ~c.configured THEN c ELSE [d EXCEPT !.mtf = IF "mtf" \in on THEN <<>> ELSE @]

captureDone(c) ==
  LET counted == [c EXCEPT !.inputs = @ + 1]
  IN  IF ~isAdvCamFeaturesEnabled(c) THEN c
      ELSE IF counted.inputs >= getBurstCountForAdvancedCapture(c) THEN unconfigureAdvancedCapture(counted)
      ELSE counted

\* What the channel is told for each feature; it ends bracketing itself.
Told(c) ==
  LET f == First(<<{"ubi"}, {"mtf"}, {"chroma"}, {"hdr", "aeb"}, {"opti"}, {"fssr"}>>, c)
  IN  CASE f = {} -> {} [] f = {"chroma"} -> {"flash"} [] f \in {{"opti"}, {"fssr"}} -> {"zoom1x"}
        [] OTHER -> {"bracketing"}
startAdvancedCapture(c) == channel' = channel \cup Told(c)
stopAdvancedCapture(c) == channel' = channel \ (Told(c) \cup {"bracketing"})
-----------------------------------------------------------------------------
NoPicture == [of |-> {}, asked |-> 0, flight |-> 0, encoded |-> 0, ongoing |-> FALSE,
              output |-> 0, outputs |-> 0, given |-> 0]
\* The pictures a burst becomes: with refocus one more than there are positions.
OutputsOf(c, asked) ==
  IF isUbiRefocus THEN UfOutputCount
  ELSE IF isMTFRefocus(c) THEN c.curr + 1 ELSE IF "aeb" \in Enabled(c) THEN asked ELSE 1
Began(c, adv) ==
  LET asked == IF c.configured /\ adv THEN getBurstCountForAdvancedCapture(c) ELSE 1
  IN  [NoPicture EXCEPT !.of = IF c.configured /\ adv THEN Enabled(c) ELSE {}, !.asked = asked,
                        !.outputs = IF c.configured /\ adv THEN OutputsOf(c, asked) ELSE 1]

takePicture ==
  /\ sm = "preview" /\ takes < MaxTakes /\ takes' = takes + 1
  /\ LET adv == Enabled(conf) # {}
     IN  \E c \in IF adv THEN configureAdvancedCapture(conf) ELSE {conf} :
           /\ conf' = c
           /\ \/ /\ sm' = "taking" /\ picture' = Began(c, adv)
                 /\ IF adv /\ (isZSLMode \/ {"ubi", "chroma"} \cap on # {})
                    THEN startAdvancedCapture(c) ELSE UNCHANGED channel
                 /\ UNCHANGED failed
              \/ \* The postprocessor or the channel cannot be started.
                 failed' = TRUE /\ UNCHANGED <<sm, picture, channel>>
  /\ UNCHANGED <<isZSLMode, on, zoom, stale, late, changes>>

\* The channel sends a frame; it has ended bracketing after the last.
superbuf ==
  /\ sm = "taking" /\ picture.asked > 0
  /\ picture' = [picture EXCEPT !.asked = @ - 1, !.flight = @ + 1]
  /\ channel' = IF picture.asked = 1 THEN channel \ {"bracketing"} ELSE channel
  /\ UNCHANGED <<isZSLMode, on, zoom, conf, sm, stale, late, failed, changes, takes>>
zsl_channel_cb ==
  /\ stale + picture.flight > 0
  /\ IF stale > 0 THEN stale' = stale - 1 /\ late' = (late \/ conf.configured) /\ UNCHANGED picture
     ELSE picture' = [picture EXCEPT !.flight = @ - 1] /\ UNCHANGED <<stale, late>>
  /\ conf' = IF isZSLMode THEN captureDone(conf) ELSE conf
  /\ UNCHANGED <<isZSLMode, on, zoom, channel, sm, failed, changes, takes>>

\* A picture is encoded when all frames came, and after the one before was given.
Dumped(o) == o + (IF isUbiRefocus THEN 1 ELSE 0) + (IF isMTFRefocus(conf) THEN 1 ELSE 0)
jpegEvtHandle ==
  /\ sm = "taking" /\ picture.asked + picture.flight = 0
  /\ picture.encoded < picture.outputs /\ ~picture.ongoing
  /\ picture' = [picture EXCEPT !.encoded = @ + 1, !.ongoing = TRUE, !.output = Dumped(@)]
  /\ UNCHANGED <<isZSLMode, on, zoom, conf, channel, sm, stale, late, failed, changes, takes>>

Ready == \/ isUbiRefocus /\ picture.output < UfOutputCount
         \/ isMTFRefocus(conf) /\ picture.output < conf.curr + 1
processJpegEvt ==
  /\ picture.ongoing
  /\ picture' = [picture EXCEPT !.ongoing = FALSE, !.given = IF Ready THEN @ ELSE @ + 1]
  /\ UNCHANGED <<isZSLMode, on, zoom, conf, channel, sm, stale, late, failed, changes, takes>>

\* The app gave up, or the picture is done.
cancelPicture ==
  /\ sm = "taking" /\ sm' = "preview"
  /\ conf' = unconfigureAdvancedCapture(conf)
  /\ IF isZSLMode THEN stopAdvancedCapture(conf') ELSE channel' = {}
  /\ picture' = NoPicture /\ stale' = IF isZSLMode THEN stale + picture.flight ELSE 0
  /\ UNCHANGED <<isZSLMode, on, zoom, late, failed, changes, takes>>

\* The app has one feature on at a time, and changes it while no picture is taken.
Changes == sm = "preview" /\ changes < MaxChanges /\ changes' = changes + 1
SetFeature(f) ==
  /\ Changes
  /\ on' = IF f \in on THEN {} ELSE {f}
  /\ conf' = [conf EXCEPT !.mtf = IF "mtf" \in on THEN <<>> ELSE @]
  /\ UNCHANGED <<isZSLMode, zoom, channel, sm, picture, stale, late, failed, takes>>
setZoom(z) ==
  /\ Changes /\ zoom' = z /\ conf' = [conf EXCEPT !.zoom = z]
  /\ UNCHANGED <<isZSLMode, on, channel, sm, picture, stale, late, failed, takes>>
\* A touch was focused on, also while a picture is taken.
processAutoFocusEvent(pos) ==
  /\ "mtf" \in on /\ changes < MaxChanges /\ changes' = changes + 1
  /\ conf' = [conf EXCEPT !.mtf = updateMTFInfo(@, pos)]
  /\ UNCHANGED <<isZSLMode, on, zoom, channel, sm, picture, stale, late, failed, takes>>

advInit ==
  /\ isZSLMode \in BOOLEAN /\ on = {} /\ zoom = 0 /\ channel = {} /\ sm = "preview"
  /\ conf = [configured |-> FALSE, is3ALocked |-> FALSE, zoomLevel |-> 0, inputs |-> 0, mtf |-> <<>>, curr |-> 0,
             lock |-> FALSE, zoom |-> 0, bracketing |-> {}]
  /\ picture = NoPicture /\ stale = 0 /\ late = FALSE /\ failed = FALSE /\ changes = 0 /\ takes = 0
advNext ==
  \/ takePicture \/ superbuf \/ zsl_channel_cb \/ jpegEvtHandle \/ processJpegEvt \/ cancelPicture
  \/ \E f \in Features : SetFeature(f)
  \/ \E z \in {0, Threshold} : setZoom(z)
  \/ \E p \in Positions : processAutoFocusEvent(p)
advSpec == advInit /\ [][advNext]_advVars
-----------------------------------------------------------------------------
(* When no picture is taken the sensor does what the app set: what a picture  *)
(* changed was undone, unless it was not begun.                               *)
Undone ==
  sm = "preview" /\ ~failed =>
    ~conf.configured /\ ~conf.lock /\ conf.zoom = zoom /\ conf.bracketing = {} /\ channel = {}

(* The frames of a burst are taken with what it was configured for, unless a  *)
(* frame of the picture cancelled before it is counted as its own.            *)
BurstWhole ==
  sm = "taking" /\ picture.of # {} /\ picture.asked > 0 /\ ~late => conf.configured

(* Of a picture that is refocused the app gets one: the last, once all are    *)
(* done.                                                                      *)
LastOnly ==
  picture.of \cap Refocus # {} /\ picture.given > 0 =>
    picture.given = 1 /\ picture.encoded = picture.outputs

(* The focus positions of a multi-touch picture are in order, and fit.        *)
FocusInOrder ==
  /\ Len(conf.mtf) <= MAX_AF_BRACKETING_VALUES
  /\ \A i, j \in DOMAIN conf.mtf : i < j => conf.mtf[i] >= conf.mtf[j]
=============================================================================
