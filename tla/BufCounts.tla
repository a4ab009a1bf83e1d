------------------------------ MODULE BufCounts ------------------------------
(* How many buffers each stream of the HAL gets (getBufNumRequired), and how   *)
(* many frames a burst asks for (allocateStreamInfoBuf), from parameters of    *)
(* which only some restart the preview when they change.                       *)
EXTENDS Integers, FiniteSets

CONSTANTS
  Depths,        \* KEY_QC_ZSL_QUEUE_DEPTH; -1 is unset
  Bursts,        \* m_nBurstNum
  Exposures,     \* the exposures of a bracket
  MaxLongshots,  \* m_nMaxLongshotNum
  BurstOf,       \* frames of a picture with "ubi", "mtf", "opti", "fssr"; and with "hdr"
  OutputCount,   \* of a refocused picture
  MinPP,         \* min_num_pp_bufs of the sensor's capability
  Sensors,       \* "raw", "yuv"
  LowMemory,     \* BOOLEAN, or what of it is looked at
  Undequeued,    \* what the window keeps
  MaxChanges     \* bound: settings changed

BufCountsAssumption ==
  /\ Depths \subseteq Int /\ Bursts \subseteq Nat \ {0} /\ Exposures \subseteq Nat \ {0}
  /\ MaxLongshots \subseteq Nat /\ BurstOf \in [{"ubi", "mtf", "opti", "fssr", "hdr"} -> Nat \ {0}]
  /\ {OutputCount, MinPP, Undequeued, MaxChanges} \subseteq Nat
  /\ Sensors \subseteq {"raw", "yuv"} /\ LowMemory \subseteq BOOLEAN

VARIABLES sensor, isLowMemory,
          set,     \* the parameters, and mLongshotEnabled
          made     \* the running preview's streams: [num, water_mark, unmatched, zsl], or no preview
bufVars == <<sensor, isLowMemory, set, made>>

CAMERA_MIN_STREAMING_BUFFERS == 3
EXTRA_ZSL_PREVIEW_STREAM_BUF == 2
CAMERA_MIN_JPEG_ENCODING_BUFFERS == 2
CAMERA_MIN_VIDEO_BUFFERS == 9
CAMERA_ISP_PING_PONG_BUFFERS == 2
MIN_PP_BUF_CNT == 1
MIN_LONGSHOT_LIMITED_BUFFERS == 9
U8(n) == n % 256
If(b, n) == IF b THEN n ELSE 0
Least(m, n) == IF m < n THEN m ELSE n
-----------------------------------------------------------------------------
getZSLQueueDepth == U8(IF isLowMemory THEN 1 ELSE IF set.depth < 0 THEN 2 ELSE set.depth)
getMaxUnmatchedFramesInQueue == U8(MinPP + set.burst \div 10)
isUbiRefocus == set.feature = "ubi" /\ OutputCount > 1
isMTFRefocus == set.feature = "mtf" /\ OutputCount > 1
getNumOfSnapshots == U8(set.burst * set.exposures + If(isUbiRefocus, OutputCount))
getNumOfExtraHDRInBufsIfNeeded ==
  U8(If(set.hdr, BurstOf["hdr"] + If(set.hdr1x, 1) - 1) * set.burst)
getNumOfExtraHDROutBufsIfNeeded == U8(If(set.hdr /\ set.hdr1x, 1) * set.burst)
getNumOfExtraBuffersForImageProc ==
  U8(set.burst * CASE set.feature \in {"ubi", "mtf"} ->
                        BurstOf[set.feature] - 1 + If(isUbiRefocus \/ isMTFRefocus, BurstOf[set.feature] + 1)
                   [] set.feature \in {"opti", "fssr"} -> BurstOf[set.feature] - 1
                   [] set.feature = "chroma" -> 1
                   [] OTHER -> 0)
getNumOfExtraBuffersForVideo == If(set.seeMore, 1)
getNumOfExtraBuffersForPreview == If(set.seeMore /\ ~set.zsl /\ set.hint, 1)
getNumOfBuffersForLongshotLimitedMode ==
  IF set.maxLong - 1 < MIN_LONGSHOT_LIMITED_BUFFERS THEN MIN_LONGSHOT_LIMITED_BUFFERS ELSE set.maxLong - 1
isLongshotSnapsLimited == set.maxLong > 0
getLongshotStages == IF isLowMemory THEN 2 ELSE 4

\* What getBufNumRequired begins with.
minCircularBufNum == getMaxUnmatchedFramesInQueue + CAMERA_MIN_JPEG_ENCODING_BUFFERS
ExtraHDR == getNumOfExtraHDRInBufsIfNeeded - getNumOfExtraHDROutBufsIfNeeded
maxStreamBuf ==
  getZSLQueueDepth + minCircularBufNum + ExtraHDR + getNumOfExtraBuffersForImageProc
  + EXTRA_ZSL_PREVIEW_STREAM_BUF
minUndequeCount == If(~set.noDisplay, Undequeued)
LimitedLongshot == isLongshotSnapsLimited /\ set.longshot
PingPong == If(sensor = "yuv", CAMERA_ISP_PING_PONG_BUFFERS)
BurstFrames == getNumOfSnapshots + ExtraHDR + getNumOfExtraBuffersForImageProc

PreviewBufs ==
  minUndequeCount +
  IF ~set.zsl
  THEN CAMERA_MIN_STREAMING_BUFFERS + getMaxUnmatchedFramesInQueue + getNumOfExtraBuffersForPreview
  ELSE IF LimitedLongshot THEN getNumOfBuffersForLongshotLimitedMode
  ELSE getZSLQueueDepth + minCircularBufNum + getNumOfExtraBuffersForImageProc + EXTRA_ZSL_PREVIEW_STREAM_BUF
       + getNumOfExtraBuffersForPreview + getNumOfExtraHDRInBufsIfNeeded
PostviewBufs == Least(BurstFrames + MIN_PP_BUF_CNT, maxStreamBuf) + minUndequeCount
SnapshotBufs ==
  IF ~(set.zsl \/ set.longshot) THEN Least(BurstFrames, maxStreamBuf)
  ELSE (IF getNumOfSnapshots = 1 /\ ~set.longshot
        THEN getZSLQueueDepth + CAMERA_MIN_STREAMING_BUFFERS + getNumOfExtraBuffersForImageProc
        ELSE IF LimitedLongshot THEN getNumOfBuffersForLongshotLimitedMode
        ELSE getZSLQueueDepth + minCircularBufNum + getNumOfExtraBuffersForImageProc)
       - PingPong
RawBufs == IF set.zsl THEN getZSLQueueDepth + minCircularBufNum - PingPong ELSE Least(BurstFrames, maxStreamBuf)
VideoBufs == CAMERA_MIN_VIDEO_BUFFERS + getNumOfExtraBuffersForVideo
MetadataBufs ==
  minUndequeCount +
  IF set.zsl /\ LimitedLongshot THEN getNumOfBuffersForLongshotLimitedMode
  ELSE IF set.zsl THEN maxStreamBuf
  ELSE Least(BurstFrames + getMaxUnmatchedFramesInQueue + CAMERA_MIN_STREAMING_BUFFERS, maxStreamBuf)
OfflineProcBufs == Least(IF set.longshot THEN getLongshotStages ELSE getNumOfSnapshots, maxStreamBuf)

Streams == {"PREVIEW", "POSTVIEW", "SNAPSHOT", "RAW", "VIDEO", "METADATA", "OFFLINE_PROC"}
getBufNumRequired ==
  [s \in Streams |-> U8(CASE s = "PREVIEW" -> PreviewBufs [] s = "POSTVIEW" -> PostviewBufs
                          [] s = "SNAPSHOT" -> SnapshotBufs [] s = "RAW" -> RawBufs
                          [] s = "VIDEO" -> VideoBufs [] s = "METADATA" -> MetadataBufs
                          [] OTHER -> OfflineProcBufs)]
\* Frames a stream of a picture sends before it stops; 0 when it does not stop.
num_of_burst ==
  [s \in {"SNAPSHOT", "RAW", "POSTVIEW"} |->
     IF set.longshot \/ (s # "POSTVIEW" /\ set.zsl /\ ~set.hint) THEN 0 ELSE U8(BurstFrames)]
-----------------------------------------------------------------------------
Unmade == [running |-> FALSE]
Preview == [running |-> TRUE, num |-> getBufNumRequired, water_mark |-> getZSLQueueDepth,
            unmatched |-> getMaxUnmatchedFramesInQueue, zsl |-> set.zsl]
startPreview == ~made.running /\ UNCHANGED <<sensor, isLowMemory, set>> /\ made' = Preview'
stopPreview == made.running /\ made' = Unmade /\ UNCHANGED <<sensor, isLowMemory, set>>

\* Changes that restart a running preview, and those that do not.
Restarting == {"zsl", "hint", "feature", "hdr", "seeMore", "noDisplay", "maxLong"}
ValuesOf ==
  [zsl |-> BOOLEAN, hint |-> BOOLEAN, hdr |-> BOOLEAN, hdr1x |-> BOOLEAN, seeMore |-> BOOLEAN,
   noDisplay |-> BOOLEAN, depth |-> Depths, burst |-> Bursts, exposures |-> Exposures,
   maxLong |-> MaxLongshots, feature |-> {"none", "ubi", "mtf", "opti", "fssr", "chroma"}]
setParameters(k, v) ==
  /\ set.changes < MaxChanges /\ v # set[k] /\ v \in ValuesOf[k]
  /\ set' = [set EXCEPT ![k] = v, !.changes = @ + 1] /\ UNCHANGED <<sensor, isLowMemory>>
  /\ made' = IF made.running /\ k \in Restarting THEN Preview' ELSE made

\* The preview restarts for a longshot when its snapshots' buffers are too few.
LongshotOn ==
  /\ ~set.longshot /\ set' = [set EXCEPT !.longshot = TRUE] /\ UNCHANGED <<sensor, isLowMemory>>
  /\ made' = IF made.running /\ set.zsl /\ made.num["SNAPSHOT"] < (getBufNumRequired["SNAPSHOT"])' THEN Preview' ELSE made
LongshotOff ==
  /\ set.longshot /\ set' = [set EXCEPT !.longshot = FALSE] /\ UNCHANGED <<sensor, isLowMemory, made>>

bufInit ==
  /\ sensor \in Sensors /\ isLowMemory \in LowMemory /\ made = Unmade
  /\ set = [zsl |-> FALSE, hint |-> FALSE, longshot |-> FALSE, hdr |-> FALSE, hdr1x |-> FALSE,
            seeMore |-> FALSE, noDisplay |-> FALSE, depth |-> -1, burst |-> 1, exposures |-> 1,
            maxLong |-> 0, feature |-> "none", changes |-> 0]
bufNext ==
  \/ startPreview \/ stopPreview \/ LongshotOn \/ LongshotOff
  \/ \E k \in DOMAIN ValuesOf : \E v \in ValuesOf[k] : setParameters(k, v)
bufSpec == bufInit /\ [][bufNext]_bufVars
-----------------------------------------------------------------------------
(* A ZSL preview leaves the driver buffers when its queue holds all it may,   *)
(* complete super buffers and unmatched frames, whatever was changed while it *)
(* ran: else no frame comes that could push another out.                      *)
ZslFed ==
  made.running /\ made.zsl =>
    \A s \in {"PREVIEW", "SNAPSHOT", "METADATA"} : made.num[s] > made.water_mark + made.unmatched

(* The streams of a picture's channel send as many frames as each other, and  *)
(* no stream is left without a buffer.  This is said of the bursts looked at: *)
(* setBurstNum refuses none, and one long enough makes the sums pass a byte.  *)
CountsAgree ==
  /\ num_of_burst["SNAPSHOT"] = num_of_burst["RAW"]
  /\ ~set.zsl => num_of_burst["SNAPSHOT"] = num_of_burst["POSTVIEW"]
  /\ \A s \in Streams : getBufNumRequired[s] > 0
=============================================================================
