--------------------------- MODULE MCNewProtocol ---------------------------
(* Small instances of NewProtocol: one DDC, the microphone and wideband. *)
EXTENDS NewProtocol, TLC

CONSTANTS ddc0, mic, wide

TwoStreams == {ddc0, mic}
OneStream == {mic}
DdcStreams == {ddc0}
WidebandPort == {wide}
NoPort == {}
=============================================================================
