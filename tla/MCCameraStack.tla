--------------------------- MODULE MCCameraStack ---------------------------
(* Instances of the camera object (MmCamera) and of a channel with its poll  *)
(* thread (MmChannel) for TLC.  A behaviour is one of the camera object's or *)
(* one of the channel's: `part` says which, the other one stays as it began. *)
EXTENDS MmCamera

CONSTANTS NumSlots, Meta, Linked, Bufs, MaxStarts, MaxFails

VARIABLES part, str, link, bundle, chan, ctl, poll, app, starts

channel == <<str, link, bundle, chan, ctl, poll, app, starts>>

CameraCalls ==
  {"camera_open", "close_camera", "add_channel", "delete_channel", "map_buf", "map_stream_buf",
   "start_channel", "stop_channel", "set_parms", "qbuf", "request_super_buf",
   "start_zsl_snapshot", "add_stream", "set_stream_parms", "register_event_notify"}

Channel == INSTANCE MmChannel WITH used <- starts

ASSUME CameraAssumption /\ Channel!ChannelAssumption

MCInit == part \in {"camera", "channel"} /\ Init /\ Channel!Init

MCNext ==
  \/ part = "camera" /\ Next /\ UNCHANGED <<part, channel>>
  \/ part = "channel" /\ Channel!Next /\ UNCHANGED <<part, vars>>

\* The threads of the part that stays as it began are idle: nothing is asked of them.
MCSpec ==
  MCInit /\ [][MCNext]_<<part, vars, channel>> /\ Fairness /\ Channel!Fairness

\* The poll thread watches what the driver has and touches nothing that is freed; a
\* stop, or a start that failed, leaves nothing running.
ChannelSafe ==
  /\ Channel!TypeOK /\ Channel!QueuedArePolled /\ Channel!NoFrameOfFreed
  /\ Channel!NothingLeftBehind

\* Starts and stops end.
ControlEnds == Channel!ControlEnds
=============================================================================
