------------------------------- MODULE MCHpsdr -------------------------------
(***************************************************************************)
(* What hpsdr has to do with the radios of protocol 2: the threads of      *)
(* NewProtocol, the packets of RadioPackets and the search of Discovery,   *)
(* one of the three per behaviour, chosen at its start: the search comes   *)
(* before the other two, and those have no state in common but running.    *)
(***************************************************************************)
EXTENDS NewProtocol, HpsdrParts, TLC

CONSTANTS ddc0, mic, metis, orion

TwoStreams == {ddc0, mic}
DdcStreams == {ddc0}
NoPort == {}

\* metis speaks protocol 1 and is reached through both interfaces.
ProtocolOf == (metis :> 1) @@ (orion :> 2)
ReachOf == (metis :> {"eth0", "eno1"}) @@ (orion :> {"eno1"})

BothInterfaces == <<"eth0", "eno1">>

VARIABLE which

allVars == <<which, vars, packetVars, searchVars>>

HpInit ==
  /\ which \in {"threads", "packets", "search"}
  /\ Init /\ Packets!Init /\ Search!Init
  /\ which = "search" \/ dBusy = {}

ThreadsDo(A) == which = "threads" /\ A /\ UNCHANGED <<which, packetVars, searchVars>>
PacketsDo(A) == which = "packets" /\ A /\ UNCHANGED <<which, vars, searchVars>>
SearchDoes(A) == which = "search" /\ A /\ UNCHANGED <<which, vars, packetVars>>

HpNext ==
  \/ ThreadsDo(Next) \/ PacketsDo(Packets!Next)
  \/ SearchDoes(Search!Next)

HpFairness ==
  /\ \A k \in Sessions : WF_allVars(ThreadsDo(Receiver(k)))
  /\ \A w \in Workers : WF_allVars(ThreadsDo(Worker(w)))
  /\ WF_allVars(PacketsDo(Packets!StartTimer)) /\ WF_allVars(PacketsDo(Packets!Tick))
  /\ \A t \in Packets!Threads : WF_allVars(PacketsDo(Packets!Step(t)))

HpSpec == HpInit /\ [][HpNext]_allVars /\ HpFairness

-----------------------------------------------------------------------------
\* What must go on; what the parts have to keep true is stated in HpsdrParts.
\* The radio knows every setting in the end, and last of all that it is to stop
\* (RadioPackets).
SettingsRepeated == which = "packets" => Packets!SettingsRepeated

\* The action table ends up right for the state of push-to-talk (RadioPackets).
TableSettles == which = "packets" => Packets!TableSettles
=============================================================================
