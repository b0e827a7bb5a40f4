--------------------------- MODULE MCHpsdrServer ---------------------------
(* Instances of HpsdrServer for TLC: one transmitter and two receivers.    *)
EXTENDS HpsdrServer, TLC
CONSTANTS a, b, r1, r2, t1, m1, m2

\* One client has the whole radio to itself.
OneClient == {a} \X {r1, r2, t1}

=============================================================================
