------------------------------ MODULE Discovery ------------------------------
(***************************************************************************)
(* How hpsdr finds its radios, once, when it starts.  For each protocol    *)
(* and each interface in turn it makes a socket, starts a thread that      *)
(* collects answers until none has come for two seconds, broadcasts, and   *)
(* waits for the thread; protocol 1 also tries one fixed address with TCP. *)
(* The socket, the interface and the table are globals the thread reads    *)
(* as it goes along.  The manifest then names the radios to dspserver.     *)
(***************************************************************************)
EXTENDS Integers, Sequences, FiniteSets, SequencesExt

CONSTANTS
  Interfaces,   \* interfaces that are up, in the order of getifaddrs
  LastLooked,         \* the interface after which protocol 2 looks no further, "eno1"
  Radios,       \* the radios there are
  Protocol,     \* what each radio speaks, 1 or 2
  Reach,        \* the interfaces each radio hears broadcasts on
  Fixed,        \* the radio at the fixed address, or None
  Unreachable,  \* interfaces that do not let a broadcast out (the loopback)
  MaxDevices,   \* MAX_DEVICES
  MaxLate,      \* bound: answers lost, or too late
  None

VARIABLES
  place,       \* the search under way
  main,        \* the main thread: "open", "send", "join", "manifest", "done"
  socket,      \* discovery_socket: the search it was made for
  interface,   \* interface_name and interface_addr
  before,      \* devices when the search began
  thread,      \* each search's thread: the socket it reads, the answer in hand
  air,         \* answers under way, for the socket they go to
  heard,       \* answers received
  late,        \* answers lost
  devices,     \* devices
  discovered,  \* discovered[]: what the entry is, and where that is
  manifest,    \* discovered_xml
  busy,        \* radios another program uses
  started      \* radioStarted

searchVars == <<place, main, socket, interface, before>>
tableVars == <<devices, discovered>>
vars == <<searchVars, thread, air, heard, late, tableVars, manifest, busy, started>>

\* Protocol 2 stops looking at one interface.
UpTo(names) ==
  LET k == SelectInSeq(names, LAMBDA name : name = LastLooked) IN
  IF k = 0 THEN names ELSE SubSeq(names, 1, k)

\* Protocol 1 on every interface, the fixed address, protocol 2.
Searches ==
  [k \in DOMAIN Interfaces |-> [protocol |-> 1, over |-> Interfaces[k]]]
    \o << [protocol |-> 1, over |-> "TCP"] >>
    \o [k \in DOMAIN UpTo(Interfaces) |-> [protocol |-> 2, over |-> Interfaces[k]]]

NoThread == [pc |-> "none", socket |-> 0, answer |-> None]
Blank == [what |-> None, at |-> None, over |-> None, tcp |-> FALSE, free |-> TRUE]

Init ==
  /\ place = 1 /\ main = "open" /\ socket = 0 /\ interface = None /\ before = 0
  /\ thread = [p \in DOMAIN Searches |-> NoThread]
  /\ air = {} /\ heard = 0 /\ late = 0
  /\ devices = 0 /\ discovered = [d \in 0 .. MaxDevices - 1 |-> Blank]
  /\ manifest = <<>> /\ busy \in SUBSET Radios /\ started = {}

Search == Searches[place]

----------------------------------------------------------------------------
(* The main thread *)

\* The fixed address does not answer in three seconds: there is no search.
TcpFails ==
  /\ main = "open" /\ place \in DOMAIN Searches /\ Search.over = "TCP"
  /\ place' = place + 1 /\ socket' = place
  /\ UNCHANGED <<main, interface, before, thread, air, heard, late, tableVars, manifest, busy, started>>

\* discover, new_discover: the socket is made and bound, the thread started.
Open ==
  /\ main = "open" /\ place \in DOMAIN Searches
  /\ Search.over = "TCP" => Fixed # None
  /\ main' = "send" /\ socket' = place /\ before' = devices
  /\ interface' = IF Search.over = "TCP" THEN interface ELSE Search.over
  /\ thread' = [thread EXCEPT ![place].pc = "start"]
  /\ UNCHANGED <<place, air, heard, late, tableVars, manifest, busy, started>>

Answering ==
  IF Search.over = "TCP" THEN {Fixed}
  ELSE {r \in Radios : Protocol[r] = Search.protocol /\ Search.over \in Reach[r]}

\* The packet is out, radios of the protocol answer.  A search whose packet is not
\* sent is left as it is, socket and thread.
Broadcast ==
  /\ main = "send"
  /\ IF Search.over \in Unreachable
     THEN main' = "open" /\ place' = place + 1 /\ UNCHANGED air
     ELSE /\ main' = "join" /\ UNCHANGED place
          /\ air' = air \cup {[radio |-> r, to |-> socket] : r \in Answering}
  /\ UNCHANGED <<socket, interface, before, thread, heard, late, tableVars, manifest, busy, started>>

\* Mutant of Join: the main thread does not wait for the thread.
JoinNot ==
  /\ main = "join"
  /\ main' = "open" /\ place' = place + 1
  /\ UNCHANGED <<socket, interface, before, thread, air, heard, late, tableVars, manifest, busy, started>>

\* The thread has ended.  A single new entry after a search with TCP is given its
\* address and interface.
Join ==
  /\ main = "join" /\ thread[place].pc = "ended"
  /\ main' = "open" /\ place' = place + 1
  /\ discovered' = IF Search.over = "TCP" /\ devices = before + 1
                   THEN [discovered EXCEPT ![before].over = "TCP", ![before].tcp = TRUE]
                   ELSE discovered
  /\ UNCHANGED <<socket, interface, before, thread, air, heard, late, devices, manifest, busy, started>>

\* create_manifest: one element for each entry.  Radios of either protocol are given
\* one transmitter, none a bandscope: nothing has been started yet.
Manifest ==
  /\ main = "open" /\ place \notin DOMAIN Searches
  /\ main' = "done"
  /\ manifest' = [k \in 1 .. devices |->
       [radio |-> discovered[k - 1].what, tcp |-> discovered[k - 1].tcp,
        receivers |-> 2, transmitters |-> 1, bandscope |-> FALSE]]
  /\ UNCHANGED <<place, socket, interface, before, thread, air, heard, late, tableVars, busy, started>>

----------------------------------------------------------------------------
(* The thread *)

\* recvfrom is called with the socket the global names now.
Wait(p) ==
  /\ thread[p].pc \in {"start", "again"}
  /\ thread' = [thread EXCEPT ![p].pc = "wait", ![p].socket = socket]
  /\ UNCHANGED <<searchVars, air, heard, late, tableVars, manifest, busy, started>>

\* An answer of a radio, idle or sending, begins an entry if there is room.
Receive(p, a) ==
  /\ thread[p].pc = "wait" /\ a \in air /\ a.to = thread[p].socket
  /\ air' = air \ {a} /\ heard' = heard + 1
  /\ IF devices < MaxDevices
     THEN thread' = [thread EXCEPT ![p].pc = "describe", ![p].answer = a]
     ELSE thread' = [thread EXCEPT ![p].pc = "again"]
  /\ UNCHANGED <<searchVars, late, tableVars, manifest, busy, started>>

\* The first half of the entry: protocol, device, name, frequencies.
Describe(p) ==
  /\ thread[p].pc = "describe"
  /\ discovered' = IF devices < MaxDevices
                   THEN [discovered EXCEPT ![devices].what = thread[p].answer.radio] ELSE discovered
  /\ thread' = [thread EXCEPT ![p].pc = "locate"]
  /\ UNCHANGED <<searchVars, air, heard, late, devices, manifest, busy, started>>

\* The second half, the addresses and whether it is free, and the count.
Locate(p) ==
  /\ thread[p].pc = "locate"
  /\ discovered' = IF devices < MaxDevices
                   THEN [discovered EXCEPT ![devices] =
                     [@ EXCEPT !.at = thread[p].answer.radio, !.over = interface, !.tcp = FALSE,
                               !.free = thread[p].answer.radio \notin busy]]
                   ELSE discovered
  /\ devices' = devices + 1
  /\ thread' = [thread EXCEPT ![p].pc = "again", ![p].answer = None]
  /\ UNCHANGED <<searchVars, air, heard, late, manifest, busy, started>>

\* Two seconds without an answer.
TimeOut(p) ==
  /\ thread[p].pc = "wait" /\ \A a \in air : a.to # thread[p].socket
  /\ main = "send" => thread[p].socket # place
  /\ thread' = [thread EXCEPT ![p].pc = "ended"]
  /\ UNCHANGED <<searchVars, air, heard, late, tableVars, manifest, busy, started>>

\* An answer that comes later, or not at all.
Lose(a) ==
  /\ a \in air /\ late < MaxLate
  /\ air' = air \ {a} /\ late' = late + 1
  /\ UNCHANGED <<searchVars, thread, heard, tableVars, manifest, busy, started>>

----------------------------------------------------------------------------
\* STARTRADIO: start_radio refuses one that is not free, and what it answers is not
\* looked at.
StartRadio(d) ==
  /\ main = "done" /\ d \in 0 .. Len(manifest) - 1 /\ d \notin started
  /\ started' = started \cup {d}
  /\ UNCHANGED <<searchVars, thread, air, heard, late, tableVars, manifest, busy>>

Collector(p) ==
  Wait(p) \/ (\E a \in air : Receive(p, a)) \/ Describe(p) \/ Locate(p) \/ TimeOut(p)

Next ==
  \/ TcpFails \/ Open \/ Broadcast \/ Join \/ Manifest
  \/ \E p \in DOMAIN Searches : Collector(p)
  \/ \E a \in air : Lose(a)
  \/ \E d \in 0 .. MaxDevices - 1 : StartRadio(d)

Spec == Init /\ [][Next]_vars
----------------------------------------------------------------------------
(* Properties *)

TypeOK ==
  /\ place \in 1 .. Len(Searches) + 1 /\ main \in {"open", "send", "join", "done"}
  /\ socket \in 0 .. Len(Searches) /\ devices \in 0 .. MaxDevices
  /\ \A p \in DOMAIN Searches : thread[p].pc \in
       {"none", "start", "wait", "describe", "locate", "again", "ended"}
  /\ started \subseteq 0 .. MaxDevices - 1

\* When the manifest is made every answer that was received has an entry while there
\* was room for one, every entry describes and locates the same radio, and the
\* interface it names reaches that radio.
ManifestComplete ==
  main = "done" =>
    /\ Len(manifest) = Min({heard, MaxDevices})
    /\ \A d \in 0 .. devices - 1 :
         /\ discovered[d].what = discovered[d].at
         /\ discovered[d].over = "TCP" => discovered[d].what = Fixed
         /\ discovered[d].over # "TCP" => discovered[d].over \in Reach[discovered[d].what]
=============================================================================
