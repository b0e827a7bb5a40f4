---------------------------- MODULE NewProtocol ----------------------------
(***************************************************************************)
(* The threads of hpsdr's Ethernet protocol 2.  One thread receives every  *)
(* packet of the radio and hands it, by the port it came from, to the      *)
(* worker of that stream: the worker posts "ready", the receiver waits for *)
(* it, leaves the packet's buffer in the stream's slot and posts "buffer". *)
(* Workers never end, so every start of the radio adds a set of them, and  *)
(* nothing waits for a stopped receiver.                                   *)
(***************************************************************************)
EXTENDS Integers, FiniteSets

CONSTANTS
  Streams,      \* ports with a worker: one per DDC, microphone, status, answers
  Ddcs,         \* the DDC streams, whose worker copies the pointer it is given
  Inline,       \* ports the receiver serves itself: wideband and unknown ones
  MaxSessions,  \* bound: starts of the radio
  MaxPackets,   \* bound: packets the radio sends from one port
  Unhurried,    \* commands are further apart than the threads need to settle
  None          \* no buffer, no port

Ports == Streams \cup Inline
Sessions == 1 .. MaxSessions
Workers == Streams \X Sessions    \* the worker of a stream made by a session
Buffers == Ports \X (1 .. MaxPackets)  \* one buffer is allocated per packet

ASSUME PortsAssumption ==
  /\ IsFiniteSet(Streams) /\ Ddcs \subseteq Streams
  /\ Streams \cap Inline = {}
  /\ None \notin Buffers /\ None \notin Ports
ASSUME BoundsAssumption ==
  MaxSessions \in Nat /\ MaxPackets \in Nat /\ Unhurried \in BOOLEAN

VARIABLES
  up,        \* the process has not called exit()
  cmd,       \* the command thread: idle, or inside new_protocol_init or _stop
  started,   \* radioStarted
  sessions,  \* starts so far
  running,   \* running
  sockOpen,  \* data_socket is open
  sent,      \* packets the radio has sent from each port
  addr,      \* the source of the last packet received (a global)
  ready, full, slot,       \* per stream: the two semaphores and the pointer
  rxPc, rxBuf, rxPort,     \* the receive thread of each session
  timer,     \* sessions whose timer thread is alive
  wkPc, wkBuf,             \* the workers
  expected,  \* the sequence number each stream expects
  frees      \* how often each buffer has been freed

sessionVars == <<up, cmd, started, sessions, running, sockOpen, timer>>
handVars == <<ready, full, slot>>
rxVars == <<addr, rxPc, rxBuf, rxPort>>
wkVars == <<wkPc, wkBuf, expected>>
vars == <<sessionVars, sent, handVars, rxVars, wkVars, frees>>

Init ==
  /\ up = TRUE /\ cmd = "idle" /\ started = FALSE /\ sessions = 0
  /\ running = FALSE /\ sockOpen = FALSE /\ timer = {}
  /\ sent = [p \in Ports |-> 0]
  /\ addr = None
  /\ ready = [s \in Streams |-> 0] /\ full = [s \in Streams |-> 0]
  /\ slot = [s \in Streams |-> None]
  /\ rxPc = [k \in Sessions |-> "none"]
  /\ rxBuf = [k \in Sessions |-> None] /\ rxPort = [k \in Sessions |-> None]
  /\ wkPc = [w \in Workers |-> "none"] /\ wkBuf = [w \in Workers |-> None]
  /\ expected = [s \in Streams |-> 1]
  /\ frees = [b \in Buffers |-> 0]

Free(b) == frees' = [frees EXCEPT ![b] = @ + 1]

----------------------------------------------------------------------------
(* STARTRADIO and STOPRADIO *)

\* Every worker waits for a packet that is not there yet and no receiver is
\* working on one.
Quiet ==
  /\ \A s \in Streams : full[s] = 0
  /\ \A w \in Workers : wkPc[w] \in {"none", "wait"}
  /\ \A k \in Sessions : rxPc[k] \in {"none", "recv"}

\* Mutant of StartWorkers: the semaphores keep their values.
StartWorkersKeep ==
  /\ up /\ cmd = "idle" /\ ~started
  /\ sessions < MaxSessions
  /\ Unhurried => Quiet
  /\ cmd' = "starting"
  /\ sessions' = sessions + 1
  /\ wkPc' = [w \in Workers |-> IF w[2] = sessions' THEN "post" ELSE wkPc[w]]
  /\ expected' = [s \in Streams |-> IF s \in Ddcs THEN 1 ELSE expected[s]]
  /\ UNCHANGED <<up, started, running, sockOpen, timer, sent, handVars, rxVars,
                 wkBuf, frees>>

\* new_protocol_init, first part: sem_init on every semaphore, whether an
\* older worker waits at it or not, and a new worker for every stream.
StartWorkers ==
  /\ up /\ cmd = "idle" /\ ~started
  /\ sessions < MaxSessions
  /\ Unhurried => Quiet
  /\ cmd' = "starting"
  /\ sessions' = sessions + 1
  /\ ready' = [s \in Streams |-> 0] /\ full' = [s \in Streams |-> 0]
  /\ wkPc' = [w \in Workers |-> IF w[2] = sessions' THEN "post" ELSE wkPc[w]]
  /\ expected' = [s \in Streams |-> IF s \in Ddcs THEN 1 ELSE expected[s]]
  /\ UNCHANGED <<up, started, running, sockOpen, timer, sent, slot, rxVars,
                 wkBuf, frees>>

\* Second part: the socket, the receiver and the timer thread.
StartReceiver ==
  /\ up /\ cmd = "starting"
  /\ cmd' = "idle" /\ started' = TRUE
  /\ running' = TRUE /\ sockOpen' = TRUE
  /\ rxPc' = [rxPc EXCEPT ![sessions] = "start"]
  /\ timer' = timer \cup {sessions}
  /\ UNCHANGED <<up, sessions, sent, handVars, addr, rxBuf, rxPort, wkVars, frees>>

\* new_protocol_stop: the flag, a pause of 100 ms, then the socket.
StopFlag ==
  /\ up /\ cmd = "idle" /\ started
  /\ Unhurried => \A k \in Sessions : rxPc[k] # "start"
  /\ cmd' = "stopping" /\ running' = FALSE
  /\ UNCHANGED <<up, started, sessions, sockOpen, timer, sent, handVars, rxVars,
                 wkVars, frees>>

StopClose ==
  /\ up /\ cmd = "stopping"
  /\ cmd' = "idle" /\ started' = FALSE /\ sockOpen' = FALSE
  /\ UNCHANGED <<up, sessions, running, timer, sent, handVars, rxVars, wkVars, frees>>

\* The timer thread's loop: it ends with running, and a send that fails is
\* exit(1).
Timer(k) ==
  /\ up /\ k \in timer
  /\ \/ ~running /\ timer' = timer \ {k} /\ UNCHANGED up
     \/ running /\ ~sockOpen /\ up' = FALSE /\ UNCHANGED timer
  /\ UNCHANGED <<cmd, started, sessions, running, sockOpen, sent, handVars, rxVars,
                 wkVars, frees>>

----------------------------------------------------------------------------
(* new_protocol_thread *)

RxStart(k) ==
  /\ up /\ rxPc[k] = "start"
  /\ running' = TRUE
  /\ rxPc' = [rxPc EXCEPT ![k] = "top"]
  /\ UNCHANGED <<up, cmd, started, sessions, sockOpen, timer, sent, handVars,
                 addr, rxBuf, rxPort, wkVars, frees>>

\* A receive on the closed socket fails, which is exit() while running is set.
RxTop(k) ==
  /\ up /\ rxPc[k] = "top"
  /\ \/ running /\ sockOpen /\ rxPc' = [rxPc EXCEPT ![k] = "recv"] /\ UNCHANGED up
     \/ running /\ ~sockOpen /\ up' = FALSE /\ UNCHANGED rxPc
     \/ ~running /\ rxPc' = [rxPc EXCEPT ![k] = "none"] /\ UNCHANGED up
  /\ UNCHANGED <<cmd, started, sessions, running, sockOpen, timer, sent, handVars,
                 addr, rxBuf, rxPort, wkVars, frees>>

\* A packet arrives.  A thread that was inside recvfrom when the socket was
\* closed keeps that socket, which is bound to the same port as the next one.
RxPacket(k, p) ==
  /\ up /\ rxPc[k] = "recv"
  /\ sent[p] < MaxPackets
  /\ sent' = [sent EXCEPT ![p] = @ + 1]
  /\ rxBuf' = [rxBuf EXCEPT ![k] = <<p, sent'[p]>>]
  /\ addr' = p
  /\ rxPc' = [rxPc EXCEPT ![k] = "got"]
  /\ UNCHANGED <<sessionVars, handVars, rxPort, wkVars, frees>>

\* The network loses a packet.
Lose(p) ==
  /\ up /\ started
  /\ sent[p] < MaxPackets
  /\ sent' = [sent EXCEPT ![p] = @ + 1]
  /\ UNCHANGED <<sessionVars, handVars, rxVars, wkVars, frees>>

\* The receiver looks at running, then at the port in the global addr.
RxClassify(k) ==
  /\ up /\ rxPc[k] = "got"
  /\ \/ /\ ~running
        /\ rxPc' = [rxPc EXCEPT ![k] = "none"]
        /\ Free(rxBuf[k]) /\ rxBuf' = [rxBuf EXCEPT ![k] = None]
        /\ UNCHANGED rxPort
     \/ /\ running /\ addr \in Inline
        /\ rxPc' = [rxPc EXCEPT ![k] = "top"]
        /\ Free(rxBuf[k]) /\ rxBuf' = [rxBuf EXCEPT ![k] = None]
        /\ UNCHANGED rxPort
     \/ /\ running /\ addr \in Streams
        /\ rxPc' = [rxPc EXCEPT ![k] = "put"]
        /\ rxPort' = [rxPort EXCEPT ![k] = addr]
        /\ UNCHANGED <<rxBuf, frees>>
  /\ UNCHANGED <<sessionVars, sent, handVars, addr, wkVars>>

RxPut(k) ==
  /\ up /\ rxPc[k] = "put"
  /\ ready[rxPort[k]] > 0
  /\ ready' = [ready EXCEPT ![rxPort[k]] = @ - 1]
  /\ slot' = [slot EXCEPT ![rxPort[k]] = rxBuf[k]]
  /\ rxPc' = [rxPc EXCEPT ![k] = "post"]
  /\ rxBuf' = [rxBuf EXCEPT ![k] = None]
  /\ UNCHANGED <<sessionVars, sent, full, addr, rxPort, wkVars, frees>>

RxPost(k) ==
  /\ up /\ rxPc[k] = "post"
  /\ full' = [full EXCEPT ![rxPort[k]] = @ + 1]
  /\ rxPc' = [rxPc EXCEPT ![k] = "top"]
  /\ rxPort' = [rxPort EXCEPT ![k] = None]
  /\ UNCHANGED <<sessionVars, sent, ready, slot, addr, rxBuf, wkVars, frees>>

----------------------------------------------------------------------------
(* The workers *)

WkReady(w) ==
  /\ up /\ wkPc[w] = "post"
  /\ ready' = [ready EXCEPT ![w[1]] = @ + 1]
  /\ wkPc' = [wkPc EXCEPT ![w] = "wait"]
  /\ UNCHANGED <<sessionVars, sent, full, slot, rxVars, wkBuf, expected, frees>>

\* Mutant of WkTake: "ready" is posted before the packet is processed.
WkTakeReady(w) ==
  /\ up /\ wkPc[w] = "wait"
  /\ full[w[1]] > 0
  /\ full' = [full EXCEPT ![w[1]] = @ - 1]
  /\ ready' = [ready EXCEPT ![w[1]] = @ + 1]
  /\ wkBuf' = [wkBuf EXCEPT ![w] = IF w[1] \in Ddcs THEN slot[w[1]] ELSE None]
  /\ wkPc' = [wkPc EXCEPT ![w] = "work"]
  /\ UNCHANGED <<sessionVars, sent, slot, rxVars, expected, frees>>

WkTake(w) ==
  /\ up /\ wkPc[w] = "wait"
  /\ full[w[1]] > 0
  /\ full' = [full EXCEPT ![w[1]] = @ - 1]
  /\ wkBuf' = [wkBuf EXCEPT ![w] = IF w[1] \in Ddcs THEN slot[w[1]] ELSE None]
  /\ wkPc' = [wkPc EXCEPT ![w] = "work"]
  /\ UNCHANGED <<sessionVars, sent, ready, slot, rxVars, expected, frees>>

\* The buffer a worker processes and frees: its copy, or what the slot holds.
BufferOf(w) == IF w[1] \in Ddcs THEN wkBuf[w] ELSE slot[w[1]]

\* Mutant of WkServe: the buffer is not freed.
WkServeKeep(w) ==
  /\ up /\ wkPc[w] = "work"
  /\ expected' = [expected EXCEPT ![w[1]] = BufferOf(w)[2] + 1]
  /\ wkPc' = [wkPc EXCEPT ![w] = "post"]
  /\ UNCHANGED <<sessionVars, sent, handVars, rxVars, wkBuf, frees>>

\* The sequence number is noted whether it was the expected one or not, the
\* samples go to the receiver or the microphone path, and the buffer is freed.
WkServe(w) ==
  /\ up /\ wkPc[w] = "work"
  /\ expected' = [expected EXCEPT ![w[1]] = BufferOf(w)[2] + 1]
  /\ Free(BufferOf(w))
  /\ wkPc' = [wkPc EXCEPT ![w] = "post"]
  /\ wkBuf' = [wkBuf EXCEPT ![w] = None]
  /\ UNCHANGED <<sessionVars, sent, handVars, rxVars>>

----------------------------------------------------------------------------
Command == StartWorkers \/ StartReceiver \/ StopFlag \/ StopClose

Receiver(k) ==
  \/ RxStart(k) \/ RxTop(k) \/ RxClassify(k) \/ RxPut(k) \/ RxPost(k)

Worker(w) == WkReady(w) \/ WkTake(w) \/ WkServe(w)

Next ==
  \/ Command
  \/ \E p \in Ports : Lose(p) \/ \E k \in Sessions : RxPacket(k, p)
  \/ \E k \in Sessions : Timer(k) \/ Receiver(k)
  \/ \E w \in Workers : Worker(w)

Spec == Init /\ [][Next]_vars

\* Every thread that can run does; nothing makes the radio send, the network
\* deliver or a client give a command.
Fairness ==
  /\ \A k \in Sessions : WF_vars(Receiver(k))
  /\ \A w \in Workers : WF_vars(Worker(w))

FairSpec == Spec /\ Fairness
----------------------------------------------------------------------------
(* Properties *)

TypeOK ==
  /\ up \in BOOLEAN /\ started \in BOOLEAN
  /\ running \in BOOLEAN /\ sockOpen \in BOOLEAN
  /\ cmd \in {"idle", "starting", "stopping"}
  /\ sessions \in 0 .. MaxSessions /\ timer \subseteq Sessions
  /\ sent \in [Ports -> Nat]
  /\ addr \in Ports \cup {None}
  /\ ready \in [Streams -> Nat] /\ full \in [Streams -> Nat]
  /\ slot \in [Streams -> Buffers \cup {None}]
  /\ rxPc \in [Sessions -> {"none", "start", "top", "recv", "got", "put", "post"}]
  /\ rxBuf \in [Sessions -> Buffers \cup {None}]
  /\ rxPort \in [Sessions -> Streams \cup {None}]
  /\ wkPc \in [Workers -> {"none", "post", "wait", "work"}]
  /\ wkBuf \in [Workers -> Buffers \cup {None}]
  /\ expected \in [Streams -> Nat]
  /\ frees \in [Buffers -> Nat]

\* Receivers between leaving a buffer in the slot of s and posting it, and
\* workers of s between being given a buffer and asking for the next.
Giving(s) == {k \in Sessions : rxPc[k] = "post" /\ rxPort[k] = s}
Busy(s) == {w \in Workers : w[1] = s /\ wkPc[w] \in {"post", "work"}}

\* Whatever number of workers earlier sessions left behind, one and only one
\* turn exists per stream: as "ready", as "buffer", with a receiver, or with a
\* worker.
OneTurn ==
  \A s \in Streams :
    ready[s] + full[s] + Cardinality(Giving(s)) + Cardinality(Busy(s))
      = IF sessions = 0 THEN 0 ELSE 1

\* No buffer is freed twice (two workers of one stream never share a packet), and
\* a worker never processes memory that was freed, its own slot included.
BuffersOwned ==
  /\ \A b \in Buffers : frees[b] <= 1
  /\ \A w \in Workers : wkPc[w] = "work" => BufferOf(w) # None /\ frees[BufferOf(w)] = 0

\* A buffer still in use is never replaced in its slot.  Until the radio is started
\* again, and numbers its packets anew, every packet a stream's worker serves is
\* newer than all it served before: the sequence errors it counts are losses of
\* the network.
SlotsInOrder ==
  [][/\ \A s \in Streams : slot'[s] # slot[s] => slot[s] = None \/ frees[slot[s]] > 0
     /\ \A w \in Workers :
          sessions = 1 /\ wkPc[w] = "work" /\ wkPc'[w] = "post"
            => BufferOf(w)[2] >= expected[w[1]]]_vars

\* Every packet received is processed or dropped, and its buffer freed, even
\* when the radio is stopped in between.
EveryBufferFreed ==
  \A b \in Buffers : (\E k \in Sessions : rxBuf[k] = b) ~> frees[b] > 0 \/ ~up

\* A receiver whose session was stopped ends; it hands out no packet of a
\* later session.
StoppedReceiverEnds ==
  \A k \in Sessions : k < sessions => rxPc[k] \notin {"put", "post"}
=============================================================================
