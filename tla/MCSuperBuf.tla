----------------------------- MODULE MCSuperBuf -----------------------------
(* Instances of SuperBuf for TLC. *)
EXTENDS SuperBuf, TLC

CONSTANTS snap, meta, s1, s2, s3, s4, m1, m2, m3, m4

FourEach == (snap :> {s1, s2, s3, s4}) @@ (meta :> {m1, m2, m3, m4})
TwoAndOne == (snap :> {s1, s2}) @@ (meta :> {m1})

Saying(field, value) == [Plain EXCEPT ![field] = value]

\* Frames only, no instructions in the metadata.
PlainMetadata == {Plain}

\* ... and each instruction there is.
AnyMetadata ==
  {Plain, Saying("invalid", TRUE), Saying("prep", "need_future"),
   Saying("prep", "ready"), Saying("crop1x", TRUE), Saying("range", <<1, 2>>)}

Requests == {[cmd |-> "REQUEST", n |-> n] : n \in 0..2}

AnyCommands ==
  {[cmd |-> "REQUEST", n |-> 0], [cmd |-> "REQUEST", n |-> 1],
   [cmd |-> "START_ZSL"], [cmd |-> "STOP_ZSL"], [cmd |-> "NOTIFY", mode |-> "CONTINUOUS"],
   [cmd |-> "FLUSH", frame |-> 2, types |-> Streams],
   [cmd |-> "GENERAL", type |-> "BRACKETING", start |-> TRUE],
   [cmd |-> "GENERAL", type |-> "FLASH", start |-> TRUE],
   [cmd |-> "GENERAL", type |-> "ZOOM_1X", start |-> TRUE]}

Symmetry == UNION {Permutations(BufsOf[s]) : s \in Streams}
=============================================================================
