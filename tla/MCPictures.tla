----------------------------- MODULE MCPictures -----------------------------
(* The JPEG interface (MmJpeg) and the postprocessor above it (PostProc) for *)
(* TLC.  A behaviour is one of the one or one of the other: `part` says      *)
(* which, the other one stays as it began.                                   *)
EXTENDS MmJpeg

CONSTANTS Pics, Modes, NumReproc, MaxStarts

VARIABLES part,
          mode, src, rep, told, inPP, onPP, inJpeg, onJpeg, inRaw, inSave, engine, reproc, enc,
          events, notif, cmdQ, saveQ, dp, sm, srcOn, quiet, orphans, starts

postproc == <<mode, src, rep, told, inPP, onPP, inJpeg, onJpeg, inRaw, inSave, engine, reproc,
              enc, events, notif, cmdQ, saveQ, dp, sm, srcOn, quiet, orphans, starts>>

Post == INSTANCE PostProc

ASSUME Post!PostProcAssumption /\ JpegAssumption

\* One OMX session: MM_JPEG_CONCURRENT_SESSIONS_COUNT.
OneSession == <<"s1">>

Way(how) == [f \in {"reproc", "raw", "offline", "zsl", "longshot", "save"} |-> f \in how]
Ways ==
  {Way({"zsl"}), Way({"reproc", "offline"}), Way({"reproc", "zsl", "longshot"}),
   Way({"reproc", "zsl", "longshot", "save"}), Way({"raw", "zsl"}),
   Way({"reproc", "raw", "zsl"}), Way({"raw"})}

MCInit ==
  /\ part \in {"postproc", "jpeg"}
  /\ Post!Init /\ Init
  /\ part = "jpeg" => mode = Way({"zsl"})

\* Bound: once the component has contradicted itself nothing is claimed, and the
\* behaviour is not followed.
MCNext ==
  \/ part = "postproc" /\ Post!Next /\ UNCHANGED <<part, vars>>
  \/ part = "jpeg" /\ ~contrary /\ Next /\ UNCHANGED <<part, postproc>>

\* The part that stays as it began has nothing under way: fairness asks nothing of it.
MCSpec == MCInit /\ [][MCNext]_<<part, postproc, vars>> /\ Post!Fairness /\ Fairness

\* A frame is in one queue, and in none after the stop or when the app has its picture.
FramesAccounted ==
  Post!TypeOK /\ Post!OnePlace /\ Post!StopLeavesNothing /\ Post!ToldIsReleased

\* Every picture is answered.
Answered == Post!Answered
=============================================================================
