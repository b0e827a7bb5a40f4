---------------------------- MODULE MCDspServer ----------------------------
(***************************************************************************)
(* Instances of DspServer for TLC: two clients and a handful of channels.  *)
(***************************************************************************)
EXTENDS DspServer, TLC

CONSTANTS a, b

TwoClients == {a, b}
OneClient == {a}

\* Each client has channels of its own; a's radio has a transmitter.
OwnUses == {<<a, 0>>, <<a, 2>>, <<b, 1>>}
\* Both clients use receiver 0; a's session has the transmitter too.
SharedUses == {<<a, 0>>, <<a, 2>>, <<b, 0>>}
\* One client has a receiver, the other the transmitter.
SplitUses == {<<a, 2>>, <<b, 0>>}
\* One client, one receiver and its radio's transmitter.
PairUses == {<<a, 0>>, <<a, 2>>}
Nothing == {}

\* No property tells the receiver threads apart.
ThreadSymmetry == Permutations(IqThreads)
============================================================================
