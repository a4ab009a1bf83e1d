------------------------------ MODULE JpegJobs ------------------------------
(***************************************************************************)
(* What the jpeg interface promises its client (the jpeg_cb callback and    *)
(* mm_jpeg_ops of mm_jpeg_interface.h): a job that was queued is answered   *)
(* once, unless it is aborted first; "abort_job" is a sync call, so after   *)
(* it no answer comes; and no job is forgotten.  It promises nothing of a   *)
(* job it accepts without queueing it, and nothing at all once the encoder  *)
(* component has contradicted itself.                                       *)
(***************************************************************************)
EXTENDS Naturals

CONSTANTS Jobs

VARIABLES
  fate,     \* "new", "asked", "dropped" or "aborted"
  answers,  \* how often the client was called back
  contrary  \* the component reported an error for a job and then refused its buffer

vars == <<fate, answers, contrary>>

Init == contrary = FALSE /\ fate = [j \in Jobs |-> "new"] /\ answers = [j \in Jobs |-> 0]

Ask(j) ==
  /\ fate[j] = "new"
  /\ fate' = [fate EXCEPT ![j] = "asked"]
  /\ UNCHANGED <<answers, contrary>>

\* start_job returns success, and nothing is queued.
Drop(j) ==
  /\ fate[j] = "new"
  /\ fate' = [fate EXCEPT ![j] = "dropped"]
  /\ UNCHANGED <<answers, contrary>>

Open(j) == fate[j] = "asked" /\ answers[j] = 0 /\ ~contrary

Answer(j) ==
  /\ Open(j)
  /\ answers' = [answers EXCEPT ![j] = 1]
  /\ UNCHANGED <<fate, contrary>>

\* An answer may have come before the abort did.
Abort(j) ==
  /\ fate[j] = "asked"
  /\ fate' = [fate EXCEPT ![j] = "aborted"]
  /\ UNCHANGED <<answers, contrary>>

\* Several jobs are aborted at once when their session is destroyed.
AbortAll(S) ==
  /\ \A j \in S : fate[j] = "asked"
  /\ fate' = [j \in Jobs |-> IF j \in S THEN "aborted" ELSE fate[j]]
  /\ UNCHANGED <<answers, contrary>>

Next ==
  \/ \E j \in Jobs : Ask(j) \/ Drop(j) \/ Answer(j) \/ Abort(j)
  \/ \E S \in SUBSET Jobs : AbortAll(S)
  \/ contrary'

\* No job stays open for ever.
Spec ==
  /\ Init /\ [][Next]_vars
  /\ \A j \in Jobs : WF_vars(Answer(j) \/ (Open(j) /\ \E S \in SUBSET Jobs : j \in S /\ AbortAll(S)))
=============================================================================
