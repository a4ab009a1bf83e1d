----------------------------- MODULE MCStreams -----------------------------
(* Instances of a channel's construction (Capture) and of a stream with its *)
(* buffers (HalStream) for TLC.  A behaviour is one of the one or one of the *)
(* other: `part` says which, the other one stays as it began.               *)
EXTENDS HalStream, Capture

VARIABLE part

ASSUME CaptureAssumption /\ HalStreamAssumption

\* The stream that stays as it began is a preview's.
MCInit ==
  /\ part \in {"channels", "stream"}
  /\ capInit /\ Init
  /\ part = "stream" => mode = "photo"
  /\ part = "channels" => kind = "preview"

MCNext ==
  \/ part = "channels" /\ capNext /\ UNCHANGED <<part, vars>>
  \/ part = "stream" /\ Next /\ UNCHANGED <<part, capVars>>

\* The part that stays as it began has nothing under way: fairness asks nothing of it.
MCSpec == MCInit /\ [][MCNext]_<<part, capVars, vars>> /\ capFairness /\ Fairness
=============================================================================
