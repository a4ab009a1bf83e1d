------------------------ MODULE MCHalStateMachine ------------------------
(* Instances for TLC of the HAL's state machine (HalStateMachine), of its     *)
(* parameters (Parameters), of its pictures of several frames                 *)
(* (AdvancedCapture) and of its buffers: how many (BufCounts), how large      *)
(* (BufPlanes) and in whose hands (BufMemory).  A behaviour is one of one of  *)
(* them: `part` says which, the others stay as they began.                    *)
EXTENDS HalStateMachine, Parameters, BufMemory

CONSTANTS Parts, Types, Widths, Heights, MetaSizes

VARIABLES part, info, planes, fmt, rc,
          sensor, isLowMemory, set, made,
          isZSLMode, on, zoom, conf, channel, sm, picture, stale, late, failed, changes, takes

buffer == <<info, planes, fmt, rc>>
counts == <<sensor, isLowMemory, set, made>>
burst == <<isZSLMode, on, zoom, conf, channel, sm, picture, stale, late, failed, changes, takes>>

AnyChange == SUBSET Settings
OneOrBothModes == SUBSET {"zsl", "hint"} \cup {{"restart"}}
AnythingFails == Channels \cup Operations
PlainSetup == [calm |-> FALSE, zsl |-> FALSE, raw |-> FALSE, restart |-> FALSE, video4k |-> FALSE,
               snapshots |-> 1]
(* JPEG pictures, and raw pictures with ZSL by default and 4k2k video; and    *)
(* two cameras on which nothing fails.                                        *)
Jpeg == [PlainSetup EXCEPT !.restart = TRUE]
Raw == [PlainSetup EXCEPT !.raw = TRUE, !.zsl = TRUE, !.video4k = TRUE]
CalmJpeg == [PlainSetup EXCEPT !.calm = TRUE]
CalmRaw == [Raw EXCEPT !.calm = TRUE, !.zsl = FALSE]
Varied == {Jpeg, Raw, CalmJpeg, CalmRaw}
JustPlain == {PlainSetup}

(* The keys that one behaviour's requests change: those that touch the same   *)
(* state.                                                                     *)
Together ==
    {{"zsl", "recording-hint"}, {"zsl", "picture-size"}, {"scene-mode", "flash", "ae-bracket"},
     {"exposures", "ae-bracket"}, {"iso", "continuous-iso"},
     {"focus-mode", "focus-position"}, {"whitebalance", "wb-manual"},
     {"fps-range", "hfr"}, {"frame-rate", "hfr"}, {"hsr", "recording-hint"},
     {"hfr", "picture-size", "recording-hint"}, {"preview-size", "metering-areas"},
     {"preview-size", "focus-areas"},
     {"chroma-flash", "flash"}, {"scene-mode", "burst"}, {"longshot", "flash"},
     {"face-recognition", "denoise"}, {"dis", "recording-hint", "video-size"},
     {"af-bracket", "opti-zoom"}, {"true-portrait", "see-more"}, {"fssr", "multi-touch-focus"},
     {"scene-mode", "effect"}, {"scene-mode", "hdr-1x"}, {"no-display", "tintless"}, {"cache-video", "snapshot-fd"},
     {"auto-hdr", "video-hdr"}, {"vt", "preview-format"}, {"preview-format", "longshot-max"},
     {"zsl", "brightness"}, {"zoom", "brightness"}}
WithRefusals == {{"zsl"}, {"exposure-time", "sharpness"}, {"dis"}}
Focused == Together \cup WithRefusals

Buffer == INSTANCE BufPlanes
Counts == INSTANCE BufCounts WITH
    Depths <- {-1, 0, 4}, Bursts <- {1, 10}, Exposures <- {1, 3}, MaxLongshots <- {0, 5, 20},
    BurstOf <- [ubi |-> 5, mtf |-> 5, opti |-> 8, fssr |-> 8, hdr |-> 3], OutputCount <- 6,
    MinPP <- 1, Sensors <- {"raw"}, LowMemory <- BOOLEAN, Undequeued <- 2, MaxChanges <- 3
Burst == INSTANCE AdvancedCapture WITH
    Features <- {"ubi", "mtf", "opti", "fssr", "chroma", "hdr", "aeb"}, Refocus <- {"ubi"},
    BurstOf <- [ubi |-> 2, opti |-> 2, fssr |-> 1, hdr |-> 3, aeb |-> 2], UfOutputCount <- 3,
    MAX_AF_BRACKETING_VALUES <- 3, Threshold <- 2, Positions <- {1, 2}, MaxChanges <- 4, MaxTakes <- 2

ASSUME /\ ParametersAssumption /\ Buffer!SizesAssumption /\ BufMemoryAssumption
       /\ Counts!BufCountsAssumption /\ Burst!AdvancedAssumption

(* A part that is not looked at has one beginning.                            *)
Apart == CHOOSE f \in Together : TRUE
MCInit ==
    /\ part \in Parts
    /\ smInit
    /\ part # "machine" => hw.setup = CHOOSE c \in Setups : TRUE
    /\ Init
    /\ part # "parameters" => focus = Apart
    /\ Buffer!Init
    /\ part # "buffer" =>
         /\ info.type = "PREVIEW" /\ info.fmt = "NV12" /\ info.w = 0 /\ info.h = 0
         /\ ~info.turned /\ info.input = "PREVIEW" /\ info.pad.w = 1 /\ info.meta = 0
    /\ memInit
    /\ Counts!bufInit /\ (part # "counts" => ~isLowMemory)
    /\ Burst!advInit /\ (part # "burst" => ~isZSLMode)

MCNext ==
    \/ /\ part = "machine" /\ smNext
       /\ UNCHANGED <<part, vars, buffer, memVars, counts, burst>>
    \/ /\ part = "parameters" /\ Next
       /\ UNCHANGED <<part, smVars, buffer, memVars, counts, burst>>
    \/ /\ part = "buffer" /\ Buffer!Next
       /\ UNCHANGED <<part, smVars, vars, memVars, counts, burst>>
    \/ /\ part = "memory" /\ memNext
       /\ UNCHANGED <<part, smVars, vars, buffer, counts, burst>>
    \/ /\ part = "counts" /\ Counts!bufNext
       /\ UNCHANGED <<part, smVars, vars, buffer, memVars, burst>>
    \/ /\ part = "burst" /\ Burst!advNext
       /\ UNCHANGED <<part, smVars, vars, buffer, memVars, counts>>

MCSpec == MCInit /\ [][MCNext]_<<part, smVars, vars, buffer, memVars, counts, burst>>

(* A preview runs with the channels that its parameters ask for, and the      *)
(* flash is the one they allow; what a picture of several frames changed of   *)
(* the sensor is undone after it and not before, and the app gets one picture.*)
SettingsApplied ==
    /\ part = "parameters" => TypeOK /\ (focus \notin WithRefusals => RunsWhatIsSet) /\ FlashFollows
    /\ part = "burst" => Burst!Undone /\ Burst!BurstWhole /\ Burst!LastOnly /\ Burst!FocusInOrder

(* A buffer holds the picture it is for, whatever the stream, its size and    *)
(* its padding; the pool never gives one that is smaller than was asked; and  *)
(* the buffers of a stream are more than its queue keeps.                     *)
BuffersFit ==
    /\ part = "buffer" => Buffer!PlanesHoldPicture
    /\ part = "memory" => memTypeOK /\ BigEnough
    /\ part = "counts" => Counts!ZslFed /\ Counts!CountsAgree
==========================================================================
