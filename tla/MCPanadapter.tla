---------------------------- MODULE MCPanadapter ----------------------------
(* A small instance of Panadapter: one passband, two bands, two notches.   *)
EXTENDS Panadapter

NarrowLower == {<<-3, -1>>}
=============================================================================
