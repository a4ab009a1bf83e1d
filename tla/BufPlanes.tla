------------------------------ MODULE BufPlanes ------------------------------
(***************************************************************************)
(* How large the buffers of a stream are: mm_stream_config of               *)
(* mm-camera-interface works out the planes of a frame from the type, the   *)
(* format and the size of the stream (mm_stream_calc_offset), tells the     *)
(* daemon (mm_stream_sync_info) and the driver (mm_stream_set_fmt).  The    *)
(* HAL then allocates frame_len bytes for every buffer.                     *)
(***************************************************************************)
EXTENDS Integers, Sequences, SequencesExt

CONSTANTS
  Types,     \* stream types that are configured
  Widths, Heights,
  MetaSizes  \* tp_param.meta_max_size: what true portrait wants beside the planes

SizesAssumption ==
  /\ Widths \subseteq Nat /\ Heights \subseteq Nat /\ MetaSizes \subseteq Nat

VARIABLES
  info,   \* cam_stream_info_t: what the HAL asked for
  planes, \* buf_planes, and the copy the stream keeps (frame_offset)
  fmt,    \* what the driver was told: width, height, plane sizes
  rc      \* 1: not answered yet

vars == <<info, planes, fmt, rc>>

\* PAD_TO_SIZE: for a power of two the mask rounds up to a multiple.
PadTo(n, p) == ((n + p - 1) \div p) * p
K4 == 4096

\* A plane of scan lines of stride bytes each, padded to pad bytes.
Plane(stride, scan, pad) == [stride |-> stride, scan |-> scan, len |-> PadTo(stride * scan, pad)]

Lens(ps) == FoldSeq(LAMBDA p, n : n + p.len, 0, ps)

\* A frame that forgets the bytes beside its planes.
FrameOfPlanes(ps, extra) == [mp |-> ps, frame_len |-> PadTo(Lens(ps), K4)]

\* A frame of these planes, and of extra bytes.
Frame(ps, extra) == [mp |-> ps, frame_len |-> PadTo(Lens(ps) + extra, K4)]

NoFrame == [mp |-> <<>>, frame_len |-> 0]

\* The macros of the video codec's kernel header.
VENUS_STRIDE(w) == PadTo(w, 128)
VENUS_Y_SCANLINES(h) == PadTo(h, 32)
VENUS_UV_SCANLINES(h) == PadTo((h + 1) \div 2, 16)
VENUS_BUFFER_SIZE(w, h) ==
  PadTo(VENUS_STRIDE(w) * VENUS_Y_SCANLINES(h)
          + VENUS_STRIDE(w) * VENUS_UV_SCANLINES(h) + 4096 + 8 * VENUS_STRIDE(w), K4)

\* The chroma plane is whatever the codec's size leaves after the luma plane.
VenusFrame(w, h) ==
  LET y == Plane(VENUS_STRIDE(w), VENUS_Y_SCANLINES(h), 1)
  IN [mp |-> <<y, [stride |-> VENUS_STRIDE(w), scan |-> VENUS_UV_SCANLINES(h),
                   len |-> VENUS_BUFFER_SIZE(w, h) - y.len]>>,
      frame_len |-> VENUS_BUFFER_SIZE(w, h)]

-----------------------------------------------------------------------------
(* The planes of each kind of stream.                                       *)

AdrenoFrame(w, h) ==
  Frame(<<Plane(PadTo(w, 32), PadTo(h, 32), K4),
          Plane(PadTo(w \div 2, 32) * 2, PadTo(h \div 2, 32), K4)>>, 0)

Yv12Frame(w, h) ==
  LET stride == PadTo(w, 16)
      scan == PadTo(h, 2)
      chroma == Plane(PadTo(stride \div 2, 16), scan \div 2, 1)
  IN Frame(<<Plane(stride, scan, 1), chroma, chroma>>, 0)

Nv16Frame(w, h) == Frame(<<Plane(PadTo(w, 16), h, 1), Plane(PadTo(w, 16), h, 1)>>, 0)

SemiPlanar(w, h, wpad, hpad) ==
  Frame(<<Plane(PadTo(w, wpad), PadTo(h, hpad), 1),
          Plane(PadTo(w, wpad), PadTo(h \div 2, hpad), 1)>>, 0)

\* mm_stream_calc_offset_preview: inf is the stream's info, for a stream of
\* its own or for the input of an offline reprocess.
PreviewFrame(inf, w, h) ==
  CASE inf.fmt = "NV12" /\ inf.type # "OFFLINE_PROC" -> SemiPlanar(w, h, 32, 2)
    [] inf.fmt = "NV12" /\ inf.type = "OFFLINE_PROC" -> SemiPlanar(w, h, inf.pad.w, inf.pad.h)
    [] inf.fmt = "NV21_ADRENO" -> AdrenoFrame(w, h)
    [] inf.fmt = "YV12" -> Yv12Frame(w, h)
    [] inf.fmt = "NV16" -> Nv16Frame(w, h)
    [] inf.fmt = "VENUS" -> VenusFrame(w, h)
    [] OTHER -> NoFrame

PostviewFrame(inf, w, h) ==
  CASE inf.fmt = "NV12" -> SemiPlanar(w, h, 64, 64)
    [] inf.fmt = "NV21_ADRENO" -> AdrenoFrame(w, h)
    [] inf.fmt = "YV12" -> Yv12Frame(w, h)
    [] inf.fmt = "NV16" -> Nv16Frame(w, h)
    [] inf.fmt = "VENUS" -> VenusFrame(w, h)
    [] OTHER -> NoFrame

\* The luma plane is padded as the sensor asks, the chroma planes are half of
\* that; the pictures of true portrait carry metadata.
SnapshotFrame(inf, w, h) ==
  LET stride == PadTo(w, inf.pad.w)
      scan == PadTo(h, inf.pad.h)
      luma == Plane(stride, scan, inf.pad.plane)
      chroma == Plane(PadTo(stride \div 2, 16), scan \div 2, inf.pad.plane)
  IN CASE inf.fmt = "NV12" -> Frame(<<luma, Plane(stride, scan \div 2, inf.pad.plane)>>, inf.meta)
       [] inf.fmt = "YV12" -> Frame(<<luma, chroma, chroma>>, 0)
       [] inf.fmt = "NV16" -> Frame(<<luma, luma>>, 0)
       [] OTHER -> NoFrame

\* The bytes of a raw picture: pixels to a line, and bytes of all its lines.
RawLine(f, w) ==
  CASE f \in {"YUV_RAW", "RAW8"} -> PadTo(w, 16)
    [] f = "QCOM10" -> ((w + 11) \div 12) * 12
    [] f = "QCOM12" -> ((w + 9) \div 10) * 10
    [] f = "MIPI10" -> PadTo((w * 5) \div 4, 8)
    [] f = "MIPI12" -> PadTo(w, 32)
    [] OTHER -> PadTo(w, 8)

RawBytes(f, w, h) ==
  LET n == RawLine(f, w) * h
  IN CASE f \in {"YUV_RAW", "PLAIN16"} -> n * 2
       [] f = "QCOM10" -> (n * 8) \div 6
       [] f = "QCOM12" -> (n * 8) \div 5
       [] f = "MIPI12" -> (n * 3) \div 2
       [] OTHER -> n

RawFormats == {"YUV_RAW", "RAW8", "QCOM10", "QCOM12", "MIPI10", "MIPI12", "PLAIN16"}

\* mm_stream_calc_offset_raw: one plane.
RawFrame(inf, w, h) ==
  IF inf.fmt \notin RawFormats THEN NoFrame
  ELSE Frame(<<[stride |-> RawLine(inf.fmt, w), scan |-> h,
                len |-> PadTo(RawBytes(inf.fmt, w, h), inf.pad.plane)]>>, 0)

MetadataFrame(inf, w, h) ==
  LET p == Plane(w, h, inf.pad.plane) IN [mp |-> <<p>>, frame_len |-> p.len]

FrameOf(type, inf, w, h) ==
  CASE type = "PREVIEW" -> PreviewFrame(inf, w, h)
    [] type = "POSTVIEW" -> PostviewFrame(inf, w, h)
    [] type = "SNAPSHOT" -> SnapshotFrame(inf, w, h)
    [] type = "VIDEO" -> VenusFrame(w, h)
    [] type = "RAW" -> RawFrame(inf, w, h)
    [] type = "METADATA" -> MetadataFrame(inf, w, h)
    [] OTHER -> NoFrame

\* mm_stream_calc_offset_postproc: the planes of the picture to reprocess, in
\* the size it has before it is rotated; an input of no type keeps the planes
\* the HAL gave it, those of the stream the picture comes from.
PostprocFrame(inf) ==
  IF inf.input = "DEFAULT" THEN SemiPlanar(inf.w, inf.h, 32, 2) ELSE FrameOf(inf.input, inf, inf.w, inf.h)

\* A stream that is turned by a quarter has its sides swapped; a video is
\* turned by the encoder.
Turned(inf) == inf.turned /\ inf.type # "VIDEO"

CalcOffset(inf) ==
  IF inf.type = "OFFLINE_PROC" THEN PostprocFrame(inf)
  ELSE IF Turned(inf) THEN FrameOf(inf.type, inf, inf.h, inf.w)
  ELSE FrameOf(inf.type, inf, inf.w, inf.h)

-----------------------------------------------------------------------------

Paddings == {[w |-> 1, h |-> 16, plane |-> 4], [w |-> 32, h |-> 32, plane |-> 1024]}
Formats == {"NV12", "NV21_ADRENO", "YV12", "NV16", "VENUS", "JPEG"} \cup RawFormats

Init ==
  /\ info \in [type : Types, fmt : Formats, w : Widths, h : Heights, turned : BOOLEAN,
               input : {"PREVIEW", "SNAPSHOT", "DEFAULT"}, pad : Paddings, meta : MetaSizes]
  /\ info.input # "PREVIEW" => info.type = "OFFLINE_PROC"
  /\ info.input = "DEFAULT" => info.fmt = "NV12"
  /\ info.meta # 0 => "SNAPSHOT" \in {info.type, info.input}
  /\ planes = NoFrame
  /\ fmt = [w |-> 0, h |-> 0, sizes |-> <<>>]
  /\ rc = 1

\* mm_stream_sync_info: nothing goes to the daemon or to the driver when the
\* format is unknown; the daemon may refuse.
SyncInfo ==
  /\ rc = 1 /\ planes = NoFrame
  /\ planes' = CalcOffset(info)
  /\ \/ planes'.mp # <<>> /\ UNCHANGED rc
     \/ rc' = -1
  /\ UNCHANGED <<info, fmt>>

\* mm_stream_set_fmt: the size before the rotation, with the planes after it.
SetFmt ==
  /\ rc = 1 /\ planes # NoFrame
  /\ IF info.w = 0 \/ info.h = 0
     THEN rc' = -1 /\ UNCHANGED fmt
     ELSE /\ fmt' = [w |-> info.w, h |-> info.h,
                     sizes |-> [i \in 1..Len(planes.mp) |-> planes.mp[i].len]]
          /\ rc' \in {0, -1}
  /\ UNCHANGED <<info, planes>>

Next == SyncInfo \/ SetFmt
Spec == Init /\ [][Next]_vars

-----------------------------------------------------------------------------
(* What the size of a buffer promises.                                      *)

\* Bytes of a row, and rows, of each plane of a w x h picture.
Rows(f, w, h) ==
  CASE f \in {"NV12", "NV21_ADRENO", "VENUS"} -> <<<<w, h>>, <<w, h \div 2>>>>
    [] f = "YV12" -> <<<<w, h>>, <<w \div 2, h \div 2>>, <<w \div 2, h \div 2>>>>
    [] f = "NV16" -> <<<<w, h>>, <<w, h>>>>
    [] f \in {"YUV_RAW", "PLAIN16"} -> <<<<2 * w, h>>>>
    [] f = "QCOM10" -> <<<<8 * ((w + 5) \div 6), h>>>>   \* six pixels to eight bytes
    [] f = "QCOM12" -> <<<<8 * ((w + 4) \div 5), h>>>>   \* five pixels to eight bytes
    [] f = "MIPI10" -> <<<<5 * (w \div 4), h>>>>         \* four pixels to five bytes
    [] f = "MIPI12" -> <<<<3 * (w \div 2), h>>>>         \* two pixels to three bytes
    [] OTHER -> <<<<w, h>>>>

\* The picture of the stream: a reprocess stream has the picture it reads.
Picture ==
  CASE info.type = "METADATA" -> <<<<info.w, info.h>>>>
    [] info.type = "VIDEO" -> Rows("VENUS", info.w, info.h)
    [] Turned(info) /\ info.type # "OFFLINE_PROC" -> Rows(info.fmt, info.h, info.w)
    [] OTHER -> Rows(info.fmt, info.w, info.h)

\* The planes the driver fills fit into the buffer the HAL allocates, each
\* has room for all rows of its part of the picture, and what true portrait
\* adds comes on top (mm_stream_calc_offset, mm_stream_set_fmt).
PlanesHoldPicture ==
  rc = 0 =>
    /\ Len(fmt.sizes) = Len(Picture)
    /\ \A i \in DOMAIN Picture :
         /\ fmt.sizes[i] >= Picture[i][1] * Picture[i][2]
         /\ fmt.sizes[i] = planes.mp[i].len
    /\ FoldSeq(LAMBDA n, s : n + s, 0, fmt.sizes)
         + (IF "SNAPSHOT" \in {info.type, info.input} /\ info.fmt = "NV12" THEN info.meta ELSE 0)
         <= planes.frame_len

TypeOK ==
  /\ planes.frame_len \in Nat
  /\ rc \in {-1, 0, 1}
  /\ fmt.w \in Widths \cup {0} /\ fmt.h \in Heights \cup {0}
=============================================================================
