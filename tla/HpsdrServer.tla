---------------------------- MODULE HpsdrServer ----------------------------
(***************************************************************************)
(* The command server of hpsdr, the program that owns the radio.  One      *)
(* thread executes the commands dspserver forwards from its clients and    *)
(* answers each before it reads the next.  Attaching the first receiver    *)
(* makes the two threads of the speaker path, attaching a transmitter the  *)
(* two of the transmit path; all of them end when they find their          *)
(* attachment counter at zero.  Detaching a transmitter joins its threads  *)
(* and empties the transmit queue.                                         *)
(***************************************************************************)
EXTENDS Integers, FiniteSets

CONSTANTS
  Clients,       \* clients of dspserver
  RxUnits,       \* the radio's receivers
  TxUnits,       \* its transmitter
  Uses,          \* <<client, unit>>: the units each client attaches
  Overlap,       \* whether a client may come while another is there
  AudioThreads,  \* bound: pairs of speaker threads alive at once
  TxThreads,     \* bound: pairs of transmit threads alive at once
  MaxVisits,     \* bound: sessions of all clients together
  MaxItems,      \* bound: blocks waiting in the transmit queue
  Nobody         \* no client, no unit, no thread

Units == RxUnits \cup TxUnits

ASSUME ClientsAssumption == IsFiniteSet(Clients) /\ Nobody \notin Clients
ASSUME UnitsAssumption ==
  /\ IsFiniteSet(RxUnits) /\ IsFiniteSet(TxUnits)
  /\ RxUnits \cap TxUnits = {} /\ Nobody \notin Units
  /\ Uses \subseteq Clients \X Units
ASSUME ThreadsAssumption ==
  /\ IsFiniteSet(AudioThreads) /\ IsFiniteSet(TxThreads)
  /\ Nobody \notin AudioThreads \cup TxThreads
ASSUME BoundsAssumption ==
  Overlap \in BOOLEAN /\ MaxVisits \in Nat /\ MaxItems \in Nat

VARIABLES
  up,          \* the process has neither exited nor died
  phase,       \* what each client does
  visits,      \* sessions so far
  using,       \* <<client, unit>> pairs the client believes attached
  pressed,     \* clients whose push-to-talk is pressed
  started,     \* radioStarted
  hasTx,       \* transmitter is not NULL
  attached,    \* units with rfunit[].attached
  owned,       \* receivers whose client field is this server's client
  sock,        \* units with an open socket
  rcvrs, xmits,     \* attached_rcvrs, attached_xmits
  mox,         \* mox
  txEnabled,   \* tx_enabled
  audioOn,     \* audio_enabled
  cmdPc, cmdUnit, cmdClient,  \* the command thread and the command it works on
  syncWait,    \* the unit whose first datagram dspserver waits for
  speak, hear, \* rxaudio_send and rx_audio_thread
  feed, take,  \* tx_IQ_thread, which fills the queue, and txiq_send
  txUnit,      \* the unit a pair of transmit threads was made for
  lastTx,      \* tx_thread_id and txiq_id: the pair made last
  queue,       \* blocks in txiq_buffer
  stream       \* receivers whose IQ block has passed the socket test

clientVars == <<phase, visits, using, pressed>>
unitVars == <<attached, owned, sock>>
countVars == <<rcvrs, xmits>>
radioVars == <<started, hasTx, mox, txEnabled>>
cmdVars == <<cmdPc, cmdUnit, cmdClient>>
audioVars == <<audioOn, speak, hear>>
txVars == <<feed, take, txUnit, lastTx, queue>>
vars == <<up, clientVars, unitVars, countVars, radioVars, cmdVars, syncWait,
          audioVars, txVars, stream>>

Init ==
  /\ up = TRUE
  /\ phase = [c \in Clients |-> "away"] /\ visits = 0
  /\ using = {} /\ pressed = {}
  /\ started = FALSE /\ hasTx = FALSE /\ mox = FALSE /\ txEnabled = FALSE
  /\ attached = {} /\ owned = {} /\ sock = {}
  /\ rcvrs = 0 /\ xmits = 0
  /\ audioOn = FALSE
  /\ cmdPc = "idle" /\ cmdUnit = Nobody /\ cmdClient = Nobody
  /\ syncWait = Nobody
  /\ speak = [t \in AudioThreads |-> "none"]
  /\ hear = [t \in AudioThreads |-> "none"]
  /\ feed = [t \in TxThreads |-> "none"]
  /\ take = [t \in TxThreads |-> "none"]
  /\ txUnit = [t \in TxThreads |-> Nobody]
  /\ lastTx = Nobody
  /\ queue = 0
  /\ stream = {}

----------------------------------------------------------------------------
(* Commands reach the server one at a time: dspserver sends the next one   *)
(* after the answer and, when it attached a transmitter, after a datagram. *)

Ready == up /\ cmdPc = "idle" /\ syncWait = Nobody

Here(c) == phase[c] \in {"joining", "in", "leaving"}

\* What client c still has to attach, and still has to detach.
ToAttach(c) == {u \in Units : <<c, u>> \in Uses \ using}
ToDetach(c) == {u \in Units : <<c, u>> \in using}

\* The command thread goes on at step p of the command of c on u.
Begin(p, u, c) == cmdPc' = p /\ cmdUnit' = u /\ cmdClient' = c
Goto(p) == cmdPc' = p /\ UNCHANGED <<cmdUnit, cmdClient>>
Done == Begin("idle", Nobody, Nobody)

\* start_receivers: the receivers and the transmitter are made anew, the
\* receivers without an owner.
StartReceivers == hasTx' = TRUE /\ owned' = {}

\* main_delete: the protocol is stopped and the transmitter forgotten.
MainDelete == started' = FALSE /\ hasTx' = FALSE

\* Writing a setting to the radio needs its socket and, while transmitting,
\* the transmitter; without them the process ends.
WriteRadio == up' = (started /\ hasTx)

\* STARTRADIO: a radio already started is left alone.
StartRadio(c) ==
  /\ Ready
  /\ phase[c] = "away" /\ visits < MaxVisits
  /\ Overlap \/ \A other \in Clients : ~Here(other)
  /\ phase' = [phase EXCEPT ![c] = "joining"]
  /\ visits' = visits + 1
  /\ started' = TRUE
  /\ IF started THEN UNCHANGED <<hasTx, owned>> ELSE StartReceivers
  /\ UNCHANGED <<up, using, pressed, attached, sock, countVars, mox, txEnabled,
                 cmdVars, syncWait, audioVars, txVars, stream>>

\* STOPRADIO, sent last by a client that has detached its units.
StopCounts(c) ==
  /\ Ready
  /\ phase[c] = "leaving" /\ ToDetach(c) = {}
  /\ IF started
     THEN rcvrs' = 0 /\ xmits' = 0 /\ Begin("stopRadio", Nobody, c) /\ UNCHANGED phase
     ELSE /\ phase' = [phase EXCEPT ![c] = "away"]
          /\ UNCHANGED <<countVars, cmdVars>>
  /\ UNCHANGED <<up, visits, using, pressed, unitVars, radioVars, syncWait,
                 audioVars, txVars, stream>>

\* The second part of STOPRADIO, after the counters are zero.
StopRadio ==
  /\ up /\ cmdPc = "stopRadio"
  /\ MainDelete
  /\ phase' = [phase EXCEPT ![cmdClient] = "away"]
  /\ Done
  /\ UNCHANGED <<up, visits, using, pressed, unitVars, countVars, mox, txEnabled,
                 syncWait, audioVars, txVars, stream>>

----------------------------------------------------------------------------
(* HATTACHRX *)

\* Mutant of MakeSpeaker: the flag is not looked at.
MakeSpeakerAlways ==
  \E t \in AudioThreads :
    /\ speak[t] = "none" /\ hear[t] = "none"
    /\ speak' = [speak EXCEPT ![t] = "loop"]
    /\ hear' = [hear EXCEPT ![t] = "sync"]
    /\ audioOn' = TRUE

\* The two speaker threads are made unless audio_enabled says they exist.
MakeSpeaker ==
  IF audioOn
  THEN UNCHANGED audioVars
  ELSE \E t \in AudioThreads :
         /\ speak[t] = "none" /\ hear[t] = "none"
         /\ speak' = [speak EXCEPT ![t] = "loop"]
         /\ hear' = [hear EXCEPT ![t] = "sync"]
         /\ audioOn' = TRUE

\* init_receiver opens a socket first, even for a receiver in use.
AttachRx(c, u) ==
  /\ Ready
  /\ phase[c] = "joining" /\ u \in RxUnits \cap ToAttach(c)
  /\ using' = using \cup {<<c, u>>}
  /\ sock' = sock \cup {u}
  /\ \/ /\ u \in attached
        /\ UNCHANGED <<attached, owned, countVars, audioVars>>
     \/ /\ u \notin attached /\ rcvrs >= Cardinality(RxUnits)
        /\ UNCHANGED <<attached, owned, countVars, audioVars>>
     \/ /\ u \notin attached /\ rcvrs < Cardinality(RxUnits)
        /\ attached' = attached \cup {u}
        /\ owned' = owned \cup {u}
        /\ rcvrs' = rcvrs + 1 /\ UNCHANGED xmits
        /\ MakeSpeaker
  /\ UNCHANGED <<up, phase, visits, pressed, radioVars, cmdVars, syncWait, txVars, stream>>

(* HATTACHTX *)

\* attach_transmitter, which counts a transmitter once; a pause of 5 ms.
AttachTx(c, u) ==
  /\ Ready
  /\ phase[c] = "joining" /\ u \in TxUnits \cap ToAttach(c)
  /\ RxUnits \cap ToAttach(c) = {}
  /\ \E t \in TxThreads : feed[t] = "none" /\ take[t] = "none"
  /\ using' = using \cup {<<c, u>>}
  /\ txEnabled' = FALSE
  /\ attached' = attached \cup {u}
  /\ xmits' = IF u \in attached THEN xmits ELSE xmits + 1
  /\ Begin("initTx", u, c)
  /\ UNCHANGED <<up, phase, visits, pressed, started, hasTx, mox, owned, sock,
                 rcvrs, syncWait, audioVars, txVars, stream>>

\* init_transmitter, with no look at whether the threads exist already.
InitTx ==
  /\ up /\ cmdPc = "initTx"
  /\ \E t \in TxThreads :
       /\ feed[t] = "none" /\ take[t] = "none"
       /\ feed' = [feed EXCEPT ![t] = "sync"]
       /\ take' = [take EXCEPT ![t] = "loop"]
       /\ txUnit' = [txUnit EXCEPT ![t] = cmdUnit]
       /\ lastTx' = t
  /\ txEnabled' = TRUE
  /\ syncWait' = cmdUnit
  /\ Done
  /\ UNCHANGED <<up, clientVars, started, hasTx, mox, unitVars, countVars,
                 audioVars, queue, stream>>

\* Every unit is attached: the client goes to work.
Joined(c) ==
  /\ up /\ phase[c] = "joining" /\ ToAttach(c) = {} /\ syncWait = Nobody
  /\ phase' = [phase EXCEPT ![c] = "in"]
  /\ UNCHANGED <<up, visits, using, pressed, unitVars, countVars, radioVars,
                 cmdVars, syncWait, audioVars, txVars, stream>>

----------------------------------------------------------------------------
(* Settings and push-to-talk *)

\* HSETFREQ is not gated.  It sets the receiver or, after STOPRADIO, when there
\* are none, the transmitter, which is not there either.
SetFrequency(c, u) ==
  /\ Ready
  /\ phase[c] = "in" /\ u \in ToDetach(c)
  /\ WriteRadio
  /\ UNCHANGED <<clientVars, unitVars, countVars, radioVars, cmdVars, syncWait,
                 audioVars, txVars, stream>>

\* Preamplifier, dither, random, power, microphone boost, antenna and
\* attenuator are refused when no receiver is counted.
Setting(c, u) ==
  /\ Ready
  /\ phase[c] = "in" /\ u \in RxUnits \cap ToDetach(c)
  /\ IF rcvrs <= 0 THEN UNCHANGED up ELSE WriteRadio
  /\ UNCHANGED <<clientVars, unitVars, countVars, radioVars, cmdVars, syncWait,
                 audioVars, txVars, stream>>

\* HMOX: refused when nothing would change; three empty blocks go first.
Mox(c, u, on) ==
  /\ Ready
  /\ phase[c] = "in" /\ u \in TxUnits \cap ToDetach(c)
  /\ on # (c \in pressed)
  /\ on => queue + 3 <= MaxItems
  /\ pressed' = IF on THEN pressed \cup {c} ELSE pressed \ {c}
  /\ IF u \notin attached \/ on = mox
     THEN UNCHANGED <<up, mox, queue>>
     ELSE /\ mox' = on
          /\ WriteRadio
          /\ queue' = IF on THEN queue + 3 ELSE queue
  /\ UNCHANGED <<phase, visits, using, unitVars, countVars, started, hasTx,
                 txEnabled, cmdVars, syncWait, audioVars, feed, take, txUnit,
                 lastTx, stream>>

----------------------------------------------------------------------------
(* HDETACH: the transmitter first, then the receivers *)

Leave(c) ==
  /\ up /\ phase[c] = "in"
  /\ phase' = [phase EXCEPT ![c] = "leaving"]
  /\ pressed' = pressed \ {c}
  /\ UNCHANGED <<up, visits, using, unitVars, countVars, radioVars, cmdVars,
                 syncWait, audioVars, txVars, stream>>

\* Mutant of DetachRx: the receiver stays counted.
DetachRxNoCount(c, u) ==
  /\ Ready
  /\ phase[c] = "leaving" /\ u \in RxUnits \cap ToDetach(c)
  /\ TxUnits \cap ToDetach(c) = {}
  /\ using' = using \ {<<c, u>>}
  /\ attached' = attached \ {u} /\ sock' = sock \ {u}
  /\ UNCHANGED <<up, phase, visits, pressed, owned, countVars, radioVars, cmdVars,
                 syncWait, audioVars, txVars, stream>>

DetachRx(c, u) ==
  /\ Ready
  /\ phase[c] = "leaving" /\ u \in RxUnits \cap ToDetach(c)
  /\ TxUnits \cap ToDetach(c) = {}
  /\ using' = using \ {<<c, u>>}
  /\ IF u \notin attached \/ u \notin owned
     THEN UNCHANGED <<unitVars, rcvrs>>
     ELSE /\ rcvrs' = IF rcvrs > 0 THEN rcvrs - 1 ELSE rcvrs
          /\ owned' = IF rcvrs' = 0 THEN owned \ {u} ELSE owned
          /\ attached' = attached \ {u}
          /\ sock' = sock \ {u}
  /\ UNCHANGED <<up, phase, visits, pressed, xmits, radioVars, cmdVars, syncWait,
                 audioVars, txVars, stream>>

\* A transmitter that STOPRADIO has stopped counting stays attached.
DetachTx(c, u) ==
  /\ Ready
  /\ phase[c] = "leaving" /\ u \in TxUnits \cap ToDetach(c)
  /\ using' = using \ {<<c, u>>}
  /\ IF u \in attached /\ xmits > 0
     THEN xmits' = xmits - 1 /\ Begin("joinTake", u, c) /\ UNCHANGED txEnabled
     ELSE /\ txEnabled' = IF u \in attached THEN FALSE ELSE txEnabled
          /\ UNCHANGED <<xmits, cmdVars>>
  /\ UNCHANGED <<up, phase, visits, pressed, started, hasTx, mox, unitVars, rcvrs,
                 syncWait, audioVars, txVars, stream>>

\* pthread_join of the two threads made last.
JoinTake ==
  /\ up /\ cmdPc = "joinTake" /\ take[lastTx] = "none"
  /\ Goto("joinFeed")
  /\ UNCHANGED <<up, clientVars, unitVars, countVars, radioVars, syncWait,
                 audioVars, txVars, stream>>

JoinFeed ==
  /\ up /\ cmdPc = "joinFeed" /\ feed[lastTx] = "none"
  /\ Goto("drain")
  /\ UNCHANGED <<up, clientVars, unitVars, countVars, radioVars, syncWait,
                 audioVars, txVars, stream>>

\* The queue is emptied.  The loop reads its next entry out of the one it has
\* just freed: it may go on, stop early, or the process may die.
Drain ==
  /\ up /\ cmdPc = "drain"
  /\ \/ queue = 0 /\ UNCHANGED <<up, queue>>
     \/ queue > 0 /\ queue' \in 0 .. queue - 1 /\ UNCHANGED up
     \/ queue > 0 /\ up' = FALSE /\ queue' = queue - 1
  /\ sock' = sock \ {cmdUnit}
  /\ attached' = attached \ {cmdUnit}
  /\ txEnabled' = FALSE
  /\ Done
  /\ UNCHANGED <<clientVars, started, hasTx, mox, owned, countVars, syncWait,
                 audioVars, feed, take, txUnit, lastTx, stream>>

----------------------------------------------------------------------------
(* rxaudio_send and rx_audio_thread, the speaker path *)

\* The loop ends with the last receiver; the flag is withdrawn after it.
SpeakEnd(t) ==
  /\ up /\ speak[t] = "loop" /\ rcvrs = 0
  /\ speak' = [speak EXCEPT ![t] = "leave"]
  /\ UNCHANGED <<up, clientVars, unitVars, countVars, radioVars, cmdVars, syncWait,
                 audioOn, hear, txVars, stream>>

SpeakGone(t) ==
  /\ up /\ speak[t] = "leave"
  /\ speak' = [speak EXCEPT ![t] = "none"]
  /\ audioOn' = FALSE
  /\ UNCHANGED <<up, clientVars, unitVars, countVars, radioVars, cmdVars, syncWait,
                 hear, txVars, stream>>

\* Two datagrams tell dspserver the address, two seconds apart.
HearSync(t) ==
  /\ up /\ hear[t] = "sync"
  /\ hear' = [hear EXCEPT ![t] = "loop"]
  /\ UNCHANGED <<up, clientVars, unitVars, countVars, radioVars, cmdVars, syncWait,
                 audioOn, speak, txVars, stream>>

HearEnd(t) ==
  /\ up /\ hear[t] = "loop" /\ rcvrs = 0
  /\ hear' = [hear EXCEPT ![t] = "none"]
  /\ UNCHANGED <<up, clientVars, unitVars, countVars, radioVars, cmdVars, syncWait,
                 audioOn, speak, txVars, stream>>

----------------------------------------------------------------------------
(* tx_IQ_thread and txiq_send, the transmit path *)

\* Mutant of FeedSync: no datagram is sent.
FeedSyncSilent(t) ==
  /\ up /\ feed[t] = "sync"
  /\ feed' = [feed EXCEPT ![t] = "loop"]
  /\ sock' = sock \cup {txUnit[t]}
  /\ UNCHANGED <<up, clientVars, attached, owned, countVars, radioVars, cmdVars,
                 syncWait, audioVars, take, txUnit, lastTx, queue, stream>>

\* A socket is opened unless the unit has one; only then is the address of
\* dspserver set, and only a datagram to it ends dspserver's wait.
FeedSync(t) ==
  /\ up /\ feed[t] = "sync"
  /\ feed' = [feed EXCEPT ![t] = "loop"]
  /\ sock' = sock \cup {txUnit[t]}
  /\ syncWait' = IF syncWait = txUnit[t] /\ txUnit[t] \notin sock THEN Nobody ELSE syncWait
  /\ UNCHANGED <<up, clientVars, attached, owned, countVars, radioVars, cmdVars,
                 audioVars, take, txUnit, lastTx, queue, stream>>

FeedPut(t) ==
  /\ up /\ feed[t] = "loop" /\ xmits > 0 /\ txUnit[t] \in sock
  /\ queue < MaxItems
  /\ queue' = queue + 1
  /\ UNCHANGED <<up, clientVars, unitVars, countVars, radioVars, cmdVars, syncWait,
                 audioVars, feed, take, txUnit, lastTx, stream>>

FeedEnd(t) ==
  /\ up /\ feed[t] = "loop" /\ xmits = 0
  /\ feed' = [feed EXCEPT ![t] = "none"]
  /\ UNCHANGED <<up, clientVars, unitVars, countVars, radioVars, cmdVars, syncWait,
                 audioVars, take, txUnit, lastTx, queue, stream>>

\* The sender looks at the head of the queue, sends it to the radio, and only
\* then takes it out.
TakeHead(t) ==
  /\ up /\ take[t] = "loop" /\ xmits > 0 /\ queue > 0
  /\ take' = [take EXCEPT ![t] = "hold"]
  /\ UNCHANGED <<up, clientVars, unitVars, countVars, radioVars, cmdVars, syncWait,
                 audioVars, feed, txUnit, lastTx, queue, stream>>

TakeFree(t) ==
  /\ up /\ take[t] = "hold"
  /\ take' = [take EXCEPT ![t] = "loop"]
  /\ queue' = IF queue > 0 THEN queue - 1 ELSE 0
  /\ UNCHANGED <<up, clientVars, unitVars, countVars, radioVars, cmdVars, syncWait,
                 audioVars, feed, txUnit, lastTx, stream>>

TakeEnd(t) ==
  /\ up /\ take[t] = "loop" /\ xmits = 0
  /\ take' = [take EXCEPT ![t] = "none"]
  /\ UNCHANGED <<up, clientVars, unitVars, countVars, radioVars, cmdVars, syncWait,
                 audioVars, feed, txUnit, lastTx, queue, stream>>

----------------------------------------------------------------------------
(* send_IQ_buffer, called by the threads of the radio protocol: the socket *)
(* is tested, the block copied, and the socket read again for the send.    *)

StreamTest(u) ==
  /\ up /\ started /\ u \in (RxUnits \cap sock) \ stream
  /\ stream' = stream \cup {u}
  /\ UNCHANGED <<up, clientVars, unitVars, countVars, radioVars, cmdVars, syncWait,
                 audioVars, txVars>>

StreamSend(u) ==
  /\ up /\ u \in stream
  /\ stream' = stream \ {u}
  /\ up' = (u \in sock)
  /\ UNCHANGED <<clientVars, unitVars, countVars, radioVars, cmdVars, syncWait,
                 audioVars, txVars>>

----------------------------------------------------------------------------
\* The rest of a command that takes several steps.
Continue == StopRadio \/ InitTx \/ JoinTake \/ JoinFeed \/ Drain

Command(c) ==
  \/ StartRadio(c) \/ StopCounts(c) \/ Joined(c) \/ Leave(c)
  \/ \E u \in Units :
       \/ AttachRx(c, u) \/ AttachTx(c, u) \/ DetachRx(c, u) \/ DetachTx(c, u)
       \/ SetFrequency(c, u) \/ Setting(c, u)
       \/ \E on \in BOOLEAN : Mox(c, u, on)

Speaker(t) == SpeakEnd(t) \/ SpeakGone(t) \/ HearSync(t) \/ HearEnd(t)
Sender(t) == TakeHead(t) \/ TakeFree(t) \/ TakeEnd(t)
Listener(t) == FeedSync(t) \/ FeedEnd(t)

Next ==
  \/ Continue
  \/ \E c \in Clients : Command(c)
  \/ \E t \in AudioThreads : Speaker(t)
  \/ \E t \in TxThreads : Sender(t) \/ Listener(t) \/ FeedPut(t)
  \/ \E u \in RxUnits : StreamTest(u) \/ StreamSend(u)

Spec == Init /\ [][Next]_vars

\* Threads that can run do; no client has to do anything.
FairSpec ==
  /\ Spec
  /\ WF_vars(Continue)
  /\ \A t \in AudioThreads : WF_vars(SpeakEnd(t) \/ SpeakGone(t))
                             /\ WF_vars(HearSync(t) \/ HearEnd(t))
  /\ \A t \in TxThreads : WF_vars(Sender(t)) /\ WF_vars(Listener(t))
----------------------------------------------------------------------------
(* Properties *)

TypeOK ==
  /\ up \in BOOLEAN /\ started \in BOOLEAN /\ hasTx \in BOOLEAN
  /\ mox \in BOOLEAN /\ txEnabled \in BOOLEAN /\ audioOn \in BOOLEAN
  /\ phase \in [Clients -> {"away", "joining", "in", "leaving"}]
  /\ visits \in 0 .. MaxVisits /\ using \subseteq Uses /\ pressed \subseteq Clients
  /\ attached \subseteq Units /\ owned \subseteq RxUnits /\ sock \subseteq Units
  /\ rcvrs \in 0 .. Cardinality(RxUnits) /\ xmits \in 0 .. Cardinality(TxUnits)
  /\ cmdPc \in {"idle", "stopRadio", "initTx", "joinTake", "joinFeed", "drain"}
  /\ cmdUnit \in Units \cup {Nobody} /\ cmdClient \in Clients \cup {Nobody}
  /\ syncWait \in TxUnits \cup {Nobody}
  /\ speak \in [AudioThreads -> {"none", "loop", "leave"}]
  /\ hear \in [AudioThreads -> {"none", "sync", "loop"}]
  /\ feed \in [TxThreads -> {"none", "sync", "loop"}]
  /\ take \in [TxThreads -> {"none", "loop", "hold"}]
  /\ txUnit \in [TxThreads -> TxUnits \cup {Nobody}]
  /\ lastTx \in TxThreads \cup {Nobody}
  /\ queue \in Nat /\ stream \subseteq RxUnits

\* Two speaker threads would both look at the head of the queue, and both take
\* it out and free it.
OneSpeaker == Cardinality({t \in AudioThreads : speak[t] # "none"}) <= 1

\* The bookkeeping of the transmit path, through every order of attaching,
\* detaching and leaving: between commands the counter that opens the settings
\* and keeps the speaker threads alive is the number of receivers attached; the
\* head of the transmit queue is looked at by one thread only until that thread
\* frees it (no second sender, and no drain while a sender holds it); an attached
\* transmitter whose attach was answered has both its threads; and the microphone
\* path, open while tx_enabled is set, finds the transmitter it reads untested.
PathsMatch ==
  /\ TypeOK
  /\ cmdPc = "idle" => rcvrs = Cardinality(attached \cap RxUnits)
  /\ Cardinality({t \in TxThreads : take[t] = "hold"})
       + (IF cmdPc = "drain" THEN 1 ELSE 0) <= 1
  /\ up /\ cmdPc = "idle" /\ attached \cap TxUnits # {}
       => lastTx # Nobody /\ feed[lastTx] # "none" /\ take[lastTx] # "none"
  /\ txEnabled => hasTx

\* Every command is answered, every wait of dspserver for a datagram ends, and
\* the speaker threads of a radio left by everyone end and say so.
CommandsAnswered ==
  /\ (cmdPc # "idle" \/ syncWait # Nobody)
       ~> (cmdPc = "idle" /\ syncWait = Nobody) \/ ~up
  /\ (up /\ rcvrs = 0 /\ audioOn) ~> (rcvrs > 0 \/ ~audioOn \/ ~up)
=============================================================================
