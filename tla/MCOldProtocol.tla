--------------------------- MODULE MCOldProtocol ---------------------------
(* A radio of protocol 1 with two receivers that is started twice.         *)
EXTENDS OldProtocol
=============================================================================
