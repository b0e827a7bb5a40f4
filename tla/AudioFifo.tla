------------------------------ MODULE AudioFifo ------------------------------
(***************************************************************************)
(* What QtRadio's audio queue promises, whatever it is made of: samples    *)
(* are played in the order they were decoded and none twice; samples are   *)
(* lost only all at once, when the queue is cleared.                       *)
(***************************************************************************)
EXTENDS Naturals, Sequences

VARIABLES decoded, waiting, played

vars == <<decoded, waiting, played>>

\* Samples are numbered in the order they are decoded.
Init == decoded = 0 /\ waiting = <<>> /\ played = 0

Put ==
  /\ decoded' = decoded + 1
  /\ waiting' = Append(waiting, decoded')
  /\ UNCHANGED played

Play ==
  /\ waiting # <<>>
  /\ played' = Head(waiting) /\ waiting' = Tail(waiting)
  /\ UNCHANGED decoded

Flush == waiting' = <<>> /\ UNCHANGED <<decoded, played>>

Next == Put \/ Play \/ Flush

Spec == Init /\ [][Next]_vars
=============================================================================
