------------------------------ MODULE MsgFifo ------------------------------
(* What a message task promises: messages wait in the order they were sent   *)
(* and are handled one at a time in that order until the task is closed;     *)
(* those that then still wait are dropped together.                          *)
EXTENDS Sequences

CONSTANTS Msgs, NoMsg

VARIABLES waiting, handling, open

fvars == <<waiting, handling, open>>

FifoInit == waiting = <<>> /\ handling = NoMsg /\ open = TRUE

Sent(m) == open /\ waiting' = Append(waiting, m) /\ UNCHANGED <<handling, open>>

Begun ==
  /\ handling = NoMsg /\ waiting # <<>>
  /\ handling' = Head(waiting) /\ waiting' = Tail(waiting) /\ UNCHANGED open

Done == handling # NoMsg /\ handling' = NoMsg /\ UNCHANGED <<waiting, open>>
Close == open /\ open' = FALSE /\ UNCHANGED <<waiting, handling>>
Drop == ~open /\ waiting' = <<>> /\ UNCHANGED <<handling, open>>

FifoNext == (\E m \in Msgs : Sent(m)) \/ Begun \/ Done \/ Close \/ Drop

FifoSpec == FifoInit /\ [][FifoNext]_fvars
=============================================================================
