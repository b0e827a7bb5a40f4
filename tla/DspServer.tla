------------------------------ MODULE DspServer ------------------------------
(***************************************************************************)
(* The channel life cycle of dspserver: clients connect to the command     *)
(* port and start, attach and stop DSP channels; one libevent thread runs  *)
(* every command; one thread per started receiver pulls IQ from the radio  *)
(* and one per attached transmitter pushes microphone audio to it.  The    *)
(* threads meet in two semaphores, two activity counters and one global    *)
(* stop flag.                                                              *)
(*                                                                         *)
(* A critical section of the command thread is one step: it only writes    *)
(* what that thread alone writes.  Those of the IQ and transmit threads    *)
(* are two steps, entry and exit, wherever something is done inside.       *)
(***************************************************************************)
EXTENDS Integers, FiniteSets

CONSTANTS
  Clients,      \* programs that may connect to the command port
  RxChannels,   \* channel numbers of receivers
  TxChannels,   \* channel numbers of transmitters
  Uses,         \* <<client, channel>>: the channels each client selected
  Unstarted,    \* pairs of Uses the client stops without ever starting them
  CanCrash,     \* whether a client may vanish while it holds channels
  IqThreads,    \* bound: receiver threads alive at once
  MaxMic,       \* bound: microphone blocks served
  MaxTimers,    \* bound: spectrum timers per channel
  MaxBinding,   \* bound: transmit threads per channel still before bind()
  NoClient,     \* the command thread works for nobody
  NoChannel     \* no channel

Channels == RxChannels \cup TxChannels

ASSUME ClientsAssumption ==
  /\ IsFiniteSet(Clients)
  /\ NoClient \notin Clients
ASSUME ChannelsAssumption ==
  /\ RxChannels \subseteq Nat /\ IsFiniteSet(RxChannels)
  /\ TxChannels \subseteq Nat /\ IsFiniteSet(TxChannels)
  /\ RxChannels \cap TxChannels = {}
  /\ NoChannel \notin Channels
ASSUME UsesAssumption ==
  /\ Uses \subseteq Clients \X Channels
  /\ Unstarted \subseteq Uses
ASSUME BoundsAssumption ==
  /\ CanCrash \in BOOLEAN
  /\ IsFiniteSet(IqThreads)
  /\ MaxMic \in Nat /\ MaxTimers \in Nat /\ MaxBinding \in Nat

VARIABLES
  up,          \* the process has not called exit()
  conn,        \* what each client does: its socket and its intentions
  sess,        \* how far each client has taken each channel it uses
  listed,      \* clients with an entry in Client_list
  held,        \* <<client, channel>> with channel_enabled[channel] set
  enabled,     \* channels[ch].enabled
  dspOpen,     \* channels open in the DSP library
  rx, tx,      \* active_receivers, active_transmitters
  timers,      \* live spectrum timers of each channel
  timerSet,    \* spectrum_timerid[ch] names a live timer
  audioCh,     \* the channel with audio_enabled set, or NoChannel
  stopIQ,      \* stopIQIssued
  iqSem,       \* iq_semaphore
  bevSem,      \* bufferevent_semaphore
  cmdPc, cmdClient, cmdCh,   \* the command thread
  iqPc, iqCh,                \* the receiver threads
  txBinding,   \* transmit threads of each channel still before bind()
  txPc, txCh,  \* the transmit thread that owns the microphone port
  micServed    \* microphone blocks served so far

cmdVars == <<cmdPc, cmdClient, cmdCh>>
iqVars  == <<iqPc, iqCh>>
txVars  == <<txBinding, txPc, txCh, micServed>>
userVars == <<conn, sess>>
tableVars == <<listed, held, enabled, dspOpen, rx, tx, timers, timerSet, audioCh, stopIQ>>
semVars == <<iqSem, bevSem>>
vars == <<up, userVars, tableVars, semVars, cmdVars, iqVars, txVars>>

Init ==
  /\ up = TRUE
  /\ conn = [c \in Clients |-> "away"]
  /\ sess = [u \in Uses |-> "idle"]
  /\ listed = {} /\ held = {} /\ enabled = {} /\ dspOpen = {}
  /\ rx = 0 /\ tx = 0
  /\ timers = [ch \in Channels |-> 0]
  /\ timerSet = [ch \in Channels |-> FALSE]
  /\ audioCh = NoChannel
  /\ stopIQ = FALSE
  /\ iqSem = 1 /\ bevSem = 1
  /\ cmdPc = "idle" /\ cmdClient = NoClient /\ cmdCh = NoChannel
  /\ iqPc = [t \in IqThreads |-> "none"]
  /\ iqCh = [t \in IqThreads |-> NoChannel]
  /\ txBinding = [ch \in TxChannels |-> 0]
  /\ txPc = "none" /\ txCh = NoChannel
  /\ micServed = 0

----------------------------------------------------------------------------
(* Helpers *)

HeldBy(c) == {ch \in Channels : <<c, ch>> \in held}

\* The receiver threads serving ch.
ThreadsOf(ch) == {t \in IqThreads : iqPc[t] # "none" /\ iqCh[t] = ch}

\* The command thread is free for the next message or event of client c.
Ready(c) == up /\ cmdPc = "idle" /\ c \in listed

\* The command thread begins a command for c on ch, to go on at step p.
Begin(p, c, ch) == cmdPc' = p /\ cmdClient' = c /\ cmdCh' = ch

\* The command thread goes on at step p of the same command.
Goto(p) == cmdPc' = p /\ UNCHANGED <<cmdClient, cmdCh>>

Done == Begin("idle", NoClient, NoChannel)

Current == <<cmdClient, cmdCh>>

\* One channel fewer of the kind of ch is active.
CountDown(ch) ==
  /\ rx' = IF ch \in RxChannels THEN rx - 1 ELSE rx
  /\ tx' = IF ch \in TxChannels THEN tx - 1 ELSE tx

----------------------------------------------------------------------------
(* Clients come and go *)

Accept(c) ==
  /\ up /\ cmdPc = "idle"
  /\ conn[c] = "away"
  /\ conn' = [conn EXCEPT ![c] = "connected"]
  /\ listed' = listed \cup {c}
  /\ UNCHANGED <<up, sess, held, enabled, dspOpen, rx, tx, timers, timerSet,
                 audioCh, stopIQ, semVars, cmdVars, iqVars, txVars>>

\* The user disconnects: every started channel is stopped before the close.
Leave(c) ==
  /\ up
  /\ conn[c] = "connected"
  /\ \A u \in Uses \ Unstarted : u[1] = c => sess[u] = "attached"
  /\ conn' = [conn EXCEPT ![c] = "leaving"]
  /\ UNCHANGED <<up, sess, tableVars, semVars, cmdVars, iqVars, txVars>>

Close(c) ==
  /\ up
  /\ conn[c] = "leaving"
  /\ \A u \in Uses : u[1] = c => sess[u] = "stopped"
  /\ conn' = [conn EXCEPT ![c] = "gone"]
  /\ UNCHANGED <<up, sess, tableVars, semVars, cmdVars, iqVars, txVars>>

\* The client dies or the network drops the connection.
Crash(c) ==
  /\ up /\ CanCrash
  /\ conn[c] \in {"connected", "leaving"}
  /\ conn' = [conn EXCEPT ![c] = "gone"]
  /\ UNCHANGED <<up, sess, tableVars, semVars, cmdVars, iqVars, txVars>>

----------------------------------------------------------------------------
(* STARTXCVR *)

RecvStart(c, ch) ==
  /\ Ready(c)
  /\ conn[c] = "connected"
  /\ <<c, ch>> \in Uses \ Unstarted /\ sess[<<c, ch>>] = "idle"
  /\ timers[ch] < MaxTimers
  /\ ch \in RxChannels => \E t \in IqThreads : iqPc[t] = "none"
  /\ dspOpen' = dspOpen \cup {ch}
  /\ Begin("startCount", c, ch)
  /\ UNCHANGED <<up, userVars, listed, held, enabled, rx, tx, timers, timerSet,
                 audioCh, stopIQ, semVars, iqVars, txVars>>

StartCount ==
  /\ up /\ cmdPc = "startCount"
  /\ iqSem > 0
  /\ enabled' = enabled \cup {cmdCh}
  /\ held' = held \cup {Current}
  /\ rx' = IF cmdCh \in RxChannels THEN rx + 1 ELSE rx
  /\ tx' = IF cmdCh \in TxChannels THEN tx + 1 ELSE tx
  /\ Goto("startLaunch")
  /\ UNCHANGED <<up, userVars, listed, dspOpen, timers, timerSet, audioCh,
                 stopIQ, semVars, iqVars, txVars>>

\* spectrum_timer_init, then hw_startIQ: a receiver gets its thread.
StartLaunch ==
  /\ up /\ cmdPc = "startLaunch"
  /\ timers' = [timers EXCEPT ![cmdCh] = @ + 1]
  /\ timerSet' = [timerSet EXCEPT ![cmdCh] = TRUE]
  /\ \/ /\ cmdCh \in RxChannels
        /\ \E t \in IqThreads :
             /\ iqPc[t] = "none"
             /\ iqPc' = [iqPc EXCEPT ![t] = "top"]
             /\ iqCh' = [iqCh EXCEPT ![t] = cmdCh]
        /\ audioCh' = IF audioCh = cmdCh THEN NoChannel ELSE audioCh
     \/ /\ cmdCh \in TxChannels
        /\ UNCHANGED <<iqVars, audioCh>>
  /\ sess' = [sess EXCEPT ![Current] = "started"]
  /\ Done
  /\ UNCHANGED <<up, conn, listed, held, enabled, dspOpen, rx, tx, stopIQ,
                 semVars, txVars>>

----------------------------------------------------------------------------
(* ATTACHRX, ATTACHTX, ENABLEAUDIO *)

\* make_connection: the stop flag is withdrawn; for a transmitter tx_init
\* creates a thread for every enabled transmitter, old or new.
RecvAttach(c, ch) ==
  /\ Ready(c)
  /\ conn[c] = "connected"
  /\ <<c, ch>> \in Uses /\ sess[<<c, ch>>] = "started"
  /\ stopIQ' = FALSE
  /\ \/ /\ ch \in RxChannels
        /\ UNCHANGED txBinding
     \/ /\ ch \in TxChannels
        /\ \A other \in enabled \cap TxChannels : txBinding[other] < MaxBinding
        /\ txBinding' = [other \in TxChannels |->
             IF other \in enabled THEN txBinding[other] + 1 ELSE txBinding[other]]
  /\ sess' = [sess EXCEPT ![<<c, ch>>] = "attached"]
  /\ UNCHANGED <<up, conn, listed, held, enabled, dspOpen, rx, tx, timers,
                 timerSet, audioCh, semVars, cmdVars, iqVars, txPc, txCh, micServed>>

EnableAudio(c, ch) ==
  /\ Ready(c)
  /\ conn[c] = "connected"
  /\ ch \in RxChannels /\ <<c, ch>> \in Uses /\ sess[<<c, ch>>] = "attached"
  /\ audioCh # ch
  /\ audioCh' = ch
  /\ UNCHANGED <<up, userVars, listed, held, enabled, dspOpen, rx, tx, timers,
                 timerSet, stopIQ, semVars, cmdVars, iqVars, txVars>>

----------------------------------------------------------------------------
(* STOPXCVR *)

RecvStop(c, ch) ==
  /\ Ready(c)
  /\ conn[c] = "leaving"
  /\ <<c, ch>> \in Uses /\ sess[<<c, ch>>] # "stopped"
  /\ timers' = [timers EXCEPT ![ch] = IF timerSet[ch] THEN @ - 1 ELSE @]
  /\ timerSet' = [timerSet EXCEPT ![ch] = FALSE]
  /\ Begin("stopCount", c, ch)
  /\ UNCHANGED <<up, userVars, listed, held, enabled, dspOpen, rx, tx, audioCh,
                 stopIQ, semVars, iqVars, txVars>>

StopCount ==
  /\ up /\ cmdPc = "stopCount"
  /\ iqSem > 0
  /\ CountDown(cmdCh)
  /\ Goto("stopClose")
  /\ UNCHANGED <<up, userVars, listed, held, enabled, dspOpen, timers, timerSet,
                 audioCh, stopIQ, semVars, iqVars, txVars>>

\* The DSP channel is closed first and marked disabled after.
StopClose ==
  /\ up /\ cmdPc = "stopClose"
  /\ bevSem > 0
  /\ bevSem' = bevSem - 1
  /\ held' = held \ {Current}
  /\ dspOpen' = IF cmdCh \in enabled THEN dspOpen \ {cmdCh} ELSE dspOpen
  /\ Goto("stopDisable")
  /\ UNCHANGED <<up, userVars, listed, enabled, rx, tx, timers, timerSet,
                 audioCh, stopIQ, iqSem, iqVars, txVars>>

\* Mutants of StopDisable: the channel stays enabled; the semaphore is kept.
StopDisableNot ==
  /\ up /\ cmdPc = "stopDisable"
  /\ bevSem' = bevSem + 1
  /\ Goto("stopFlag")
  /\ UNCHANGED <<up, userVars, tableVars, iqSem, iqVars, txVars>>

StopDisableNoPost ==
  /\ up /\ cmdPc = "stopDisable"
  /\ enabled' = enabled \ {cmdCh}
  /\ Goto("stopFlag")
  /\ UNCHANGED <<up, userVars, listed, held, dspOpen, rx, tx, timers, timerSet,
                 audioCh, stopIQ, semVars, iqVars, txVars>>

StopDisable ==
  /\ up /\ cmdPc = "stopDisable"
  /\ enabled' = enabled \ {cmdCh}
  /\ bevSem' = bevSem + 1
  /\ Goto("stopFlag")
  /\ UNCHANGED <<up, userVars, listed, held, dspOpen, rx, tx, timers, timerSet,
                 audioCh, stopIQ, iqSem, iqVars, txVars>>

\* Mutant of StopFlag: every stop raises the flag.
StopFlagAlways ==
  /\ up /\ cmdPc = "stopFlag"
  /\ stopIQ' = TRUE
  /\ sess' = [sess EXCEPT ![Current] = "stopped"]
  /\ Done
  /\ UNCHANGED <<up, conn, listed, held, enabled, dspOpen, rx, tx, timers,
                 timerSet, audioCh, semVars, iqVars, txVars>>

StopFlag ==
  /\ up /\ cmdPc = "stopFlag"
  /\ stopIQ' = (stopIQ \/ (rx = 0 /\ tx = 0))
  /\ sess' = [sess EXCEPT ![Current] = "stopped"]
  /\ Done
  /\ UNCHANGED <<up, conn, listed, held, enabled, dspOpen, rx, tx, timers,
                 timerSet, audioCh, semVars, iqVars, txVars>>

----------------------------------------------------------------------------
(* command_errorcb: the client's socket is at its end *)

\* bufferevent_semaphore is taken for the whole of the list search.
RecvEof(c) ==
  /\ Ready(c)
  /\ conn[c] = "gone"
  /\ bevSem > 0
  /\ bevSem' = bevSem - 1
  /\ \/ /\ HeldBy(c) = {}
        /\ Begin("eofRemove", c, NoChannel)
     \/ \E ch \in HeldBy(c) :
          /\ \A other \in HeldBy(c) : ch <= other
          /\ Begin("eofCount", c, ch)
  /\ UNCHANGED <<up, userVars, tableVars, iqSem, iqVars, txVars>>

\* Mutant of EofCount: a disconnect does not count its channel down.
EofCountNot ==
  /\ up /\ cmdPc = "eofCount"
  /\ Goto("eofWait")
  /\ UNCHANGED <<up, userVars, tableVars, semVars, iqVars, txVars>>

\* shutdown_client_channels counts the channel down, then waits for
\* bufferevent_semaphore, which RecvEof took and only EofRemove returns: the
\* code after that wait has no action here because the wait never ends.
EofCount ==
  /\ up /\ cmdPc = "eofCount"
  /\ iqSem > 0
  /\ CountDown(cmdCh)
  /\ Goto("eofWait")
  /\ UNCHANGED <<up, userVars, listed, held, enabled, dspOpen, timers, timerSet,
                 audioCh, stopIQ, semVars, iqVars, txVars>>

\* The entry is freed; the last client's departure closes every open channel.
EofRemove ==
  /\ up /\ cmdPc = "eofRemove"
  /\ listed' = listed \ {cmdClient}
  /\ enabled' = IF listed' = {} THEN {} ELSE enabled
  /\ dspOpen' = IF listed' = {} THEN dspOpen \ enabled ELSE dspOpen
  /\ bevSem' = bevSem + 1
  /\ conn' = [conn EXCEPT ![cmdClient] = "away"]
  /\ sess' = [u \in Uses |-> IF u[1] = cmdClient THEN "idle" ELSE sess[u]]
  /\ Done
  /\ UNCHANGED <<up, held, rx, tx, timers, timerSet, audioCh, stopIQ, iqSem,
                 iqVars, txVars>>

----------------------------------------------------------------------------
(* iq_thread *)

IqExit(t) ==
  /\ iqPc' = [iqPc EXCEPT ![t] = "none"]
  /\ iqCh' = [iqCh EXCEPT ![t] = NoChannel]

IqStop(t) ==
  /\ up /\ iqPc[t] = "top" /\ stopIQ
  /\ IqExit(t)
  /\ UNCHANGED <<up, userVars, tableVars, semVars, cmdVars, txVars>>

\* A whole packet has arrived; without one the loop starts over.
IqPacket(t) ==
  /\ up /\ iqPc[t] = "top" /\ ~stopIQ
  /\ iqPc' = [iqPc EXCEPT ![t] = "wait"]
  /\ UNCHANGED <<up, userVars, tableVars, semVars, cmdVars, iqCh, txVars>>

\* Mutant of IqEnter: no wait for the semaphore.
IqEnterUnlocked(t) ==
  /\ up /\ iqPc[t] = "wait" /\ rx # 0
  /\ iqPc' = [iqPc EXCEPT ![t] = "inside"]
  /\ iqSem' = iqSem - 1
  /\ UNCHANGED <<up, userVars, tableVars, bevSem, cmdVars, iqCh, txVars>>

\* Inside, the block is demodulated, and goes to the audio stream if the
\* channel's audio is on.
IqEnter(t) ==
  /\ up /\ iqPc[t] = "wait"
  /\ iqSem > 0
  /\ \/ /\ rx = 0
        /\ IqExit(t)
        /\ UNCHANGED iqSem
     \/ /\ rx # 0
        /\ iqPc' = [iqPc EXCEPT ![t] = "inside"]
        /\ iqSem' = iqSem - 1
        /\ UNCHANGED iqCh
  /\ UNCHANGED <<up, userVars, tableVars, bevSem, cmdVars, txVars>>

IqAudio(t) ==
  /\ up /\ iqPc[t] = "inside" /\ audioCh = iqCh[t]
  /\ iqPc' = [iqPc EXCEPT ![t] = "audio"]
  /\ UNCHANGED <<up, userVars, tableVars, semVars, cmdVars, iqCh, txVars>>

\* Mutant of IqLeave: no sem_post after the audio branch.
IqLeaveNoPost(t) ==
  /\ up
  /\ \/ iqPc[t] = "inside" /\ audioCh # iqCh[t] /\ iqSem' = iqSem + 1
     \/ iqPc[t] = "audio" /\ UNCHANGED iqSem
  /\ iqPc' = [iqPc EXCEPT ![t] = "top"]
  /\ UNCHANGED <<up, userVars, tableVars, bevSem, cmdVars, iqCh, txVars>>

IqLeave(t) ==
  /\ up
  /\ \/ iqPc[t] = "inside" /\ audioCh # iqCh[t]
     \/ iqPc[t] = "audio"
  /\ iqPc' = [iqPc EXCEPT ![t] = "top"]
  /\ iqSem' = iqSem + 1
  /\ UNCHANGED <<up, userVars, tableVars, bevSem, cmdVars, iqCh, txVars>>

----------------------------------------------------------------------------
(* tx_thread *)

\* Every transmit thread binds the same port, and a failed bind is exit(1).
TxBind(ch) ==
  /\ up /\ txBinding[ch] > 0
  /\ txBinding' = [txBinding EXCEPT ![ch] = @ - 1]
  /\ \/ /\ txPc = "none"
        /\ txPc' = "top" /\ txCh' = ch
        /\ UNCHANGED up
     \/ /\ txPc # "none"
        /\ up' = FALSE
        /\ UNCHANGED <<txPc, txCh>>
  /\ UNCHANGED <<userVars, tableVars, semVars, cmdVars, iqVars, micServed>>

TxExit == txPc' = "none" /\ txCh' = NoChannel

TxTop ==
  /\ up /\ txPc = "top"
  /\ \/ stopIQ /\ TxExit
     \/ ~stopIQ /\ txPc' = "poll" /\ UNCHANGED txCh
  /\ UNCHANGED <<up, userVars, tableVars, semVars, cmdVars, iqVars, txBinding, micServed>>

\* Under iq_semaphore: leave if no transmitter is active, else read the
\* radio's microphone socket, which has a block or not.
TxPoll ==
  /\ up /\ txPc = "poll"
  /\ iqSem > 0
  /\ \/ tx = 0 /\ TxExit
     \/ tx # 0 /\ txPc' \in {"top", "mic"} /\ UNCHANGED txCh
  /\ UNCHANGED <<up, userVars, tableVars, semVars, cmdVars, iqVars, txBinding, micServed>>

\* No block of this channel at the head of the microphone queue.
TxIdle ==
  /\ up /\ txPc = "mic"
  /\ txPc' = "top"
  /\ UNCHANGED <<up, userVars, tableVars, semVars, cmdVars, iqVars, txBinding, txCh, micServed>>

\* A block is there: it is modulated if the radio is keyed and it completes
\* a transmit buffer, and dropped otherwise.
TxPick ==
  /\ up /\ txPc = "mic"
  /\ micServed < MaxMic
  /\ txPc' \in {"modulate", "served"}
  /\ UNCHANGED <<up, userVars, tableVars, semVars, cmdVars, iqVars, txBinding, txCh, micServed>>

\* process_tx_iq_data
TxModulate ==
  /\ up /\ txPc = "modulate"
  /\ iqSem > 0
  /\ \/ tx = 0 /\ txPc' = "served" /\ UNCHANGED iqSem
     \/ tx # 0 /\ txPc' = "modulating" /\ iqSem' = iqSem - 1
  /\ UNCHANGED <<up, userVars, tableVars, bevSem, cmdVars, iqVars, txBinding, txCh, micServed>>

TxModulated ==
  /\ up /\ txPc = "modulating"
  /\ txPc' = "served"
  /\ iqSem' = iqSem + 1
  /\ UNCHANGED <<up, userVars, tableVars, bevSem, cmdVars, iqVars, txBinding, txCh, micServed>>

\* The loop ends with a second sem_post(&iq_semaphore).
TxServed ==
  /\ up /\ txPc = "served"
  /\ iqSem' = iqSem + 1
  /\ micServed' = micServed + 1
  /\ txPc' = "top"
  /\ UNCHANGED <<up, userVars, tableVars, bevSem, cmdVars, iqVars, txBinding, txCh>>

----------------------------------------------------------------------------
User(c) == Leave(c) \/ Close(c) \/ Crash(c)

Receive(c) ==
  \/ Accept(c)
  \/ RecvEof(c)
  \/ \E ch \in Channels :
       RecvStart(c, ch) \/ RecvAttach(c, ch) \/ EnableAudio(c, ch) \/ RecvStop(c, ch)

Continue ==
  \/ StartCount \/ StartLaunch
  \/ StopCount \/ StopClose \/ StopDisable \/ StopFlag
  \/ EofCount \/ EofRemove

IqThread(t) == IqStop(t) \/ IqPacket(t) \/ IqEnter(t) \/ IqAudio(t) \/ IqLeave(t)

TxThread == TxTop \/ TxPoll \/ TxIdle \/ TxPick \/ TxModulate \/ TxModulated \/ TxServed

Next ==
  \/ \E c \in Clients : User(c) \/ Receive(c)
  \/ Continue
  \/ \E t \in IqThreads : IqThread(t)
  \/ \E ch \in TxChannels : TxBind(ch)
  \/ TxThread

Spec == Init /\ [][Next]_vars

\* Threads that can run do; a thread waiting at a semaphore that is free again
\* and again gets it in the end; libevent gets round to every closed socket.
\* Nothing makes a client act or a radio send.
Fairness ==
  /\ SF_vars(Continue)
  /\ \A c \in Clients : SF_vars(RecvEof(c))
  /\ \A t \in IqThreads : WF_vars(IqStop(t) \/ IqAudio(t) \/ IqLeave(t)) /\ SF_vars(IqEnter(t))
  /\ \A ch \in TxChannels : WF_vars(TxBind(ch))
  /\ SF_vars(TxThread)

FairSpec == Spec /\ Fairness
----------------------------------------------------------------------------
(* Properties *)

TypeOK ==
  /\ up \in BOOLEAN
  /\ conn \in [Clients -> {"away", "connected", "leaving", "gone"}]
  /\ sess \in [Uses -> {"idle", "started", "attached", "stopped"}]
  /\ listed \subseteq Clients
  /\ held \subseteq Uses
  /\ enabled \subseteq Channels /\ dspOpen \subseteq Channels
  /\ rx \in Int /\ tx \in Int
  /\ timers \in [Channels -> Int]
  /\ timerSet \in [Channels -> BOOLEAN]
  /\ audioCh \in RxChannels \cup {NoChannel}
  /\ stopIQ \in BOOLEAN
  /\ iqSem \in Nat /\ bevSem \in Nat
  /\ cmdPc \in {"idle", "startCount", "startLaunch", "stopCount", "stopClose",
                "stopDisable", "stopFlag", "eofCount", "eofWait", "eofRemove"}
  /\ cmdClient \in Clients \cup {NoClient}
  /\ cmdCh \in Channels \cup {NoChannel}
  /\ iqPc \in [IqThreads -> {"none", "top", "wait", "inside", "audio"}]
  /\ iqCh \in [IqThreads -> RxChannels \cup {NoChannel}]
  /\ txBinding \in [TxChannels -> Nat]
  /\ txPc \in {"none", "top", "poll", "mic", "modulate", "modulating", "served"}
  /\ txCh \in TxChannels \cup {NoChannel}
  /\ micServed \in Nat

\* Pairs already counted down but still marked held: STOPXCVR between its two
\* critical sections, and a disconnect stuck after its first.
CountedDown ==
  IF cmdPc \in {"stopClose", "eofWait"} THEN {Current} ELSE {}

HeldOf(kind) == {u \in held : u[2] \in kind}

\* active_receivers and active_transmitters are at every moment the number of
\* channels the clients hold, whatever starts, stops and disconnects have
\* interleaved (the IQ loops and the stop flag rely on nothing else).
ActiveCountsMatch ==
  /\ rx = Cardinality(HeldOf(RxChannels) \ CountedDown)
  /\ tx = Cardinality(HeldOf(TxChannels) \ CountedDown)

Inside == {t \in IqThreads : iqPc[t] \in {"inside", "audio"}}

\* The permits of iq_semaphore: what is free plus what is taken is one permit
\* and one more for every microphone block served, because the transmit loop
\* posts a semaphore it does not hold.  With no block served it is a lock.
IqConservation ==
  iqSem + Cardinality(Inside) + (IF txPc = "modulating" THEN 1 ELSE 0) = 1 + micServed

\* audiostream.c: the audio buffer and the cached configuration are touched by
\* one thread at a time.
AudioSingleWriter ==
  \A s, t \in IqThreads : iqPc[s] = "audio" /\ iqPc[t] = "audio" => s = t

\* No disconnect or stop leaves a channel running that nobody can stop: but for
\* the moments inside a stop, an enabled channel, which the IQ threads and timers
\* run the DSP on, is held by a client still listed and is open in the DSP library,
\* and every holding of a channel has its own spectrum timer and no timer outlives
\* the holding (timer_delete knows only the last timer created).
ChannelsOwned ==
  /\ \A ch \in enabled :
       \/ cmdPc = "stopDisable" /\ cmdCh = ch
       \/ ch \in dspOpen /\ \E c \in listed : <<c, ch>> \in held
  /\ \A ch \in Channels :
       timers[ch] = Cardinality({u \in held :
         u[2] = ch /\ ~(u = Current /\ cmdPc \in {"startLaunch", "stopCount", "stopClose"})})

\* The global stop flag goes up only in a state where no client holds any
\* channel, so one client's stop never ends another client's streams.
StopRaisedOnlyWhenUnheld ==
  [][~stopIQ /\ stopIQ' => held' = {}]_vars

\* A receiver that is attached keeps the thread that feeds it: no sequence of
\* other clients' stops, disconnects and attaches ends its last IQ thread.
AttachedStreamNeverCut ==
  [][\A u \in Uses :
       /\ u # Current /\ sess[u] = "attached" /\ sess'[u] = "attached"
       /\ ThreadsOf(u[2]) # {}
       => ThreadsOf(u[2])' # {}]_vars

\* The command thread comes back to its event loop from every command and
\* every disconnect.
CommandsComplete == cmdPc # "idle" ~> cmdPc = "idle" \/ ~up

\* A client that has gone is cleaned up: its entry leaves the client list.  And
\* once the stop flag is up, every IQ and transmit thread ends unless an attach
\* withdraws the flag first.
DisconnectCleansUp ==
  /\ \A c \in Clients : conn[c] = "gone" ~> c \notin listed \/ ~up
  /\ stopIQ ~> \/ ~stopIQ \/ ~up
               \/ txPc = "none" /\ \A t \in IqThreads : iqPc[t] = "none"

Holding == INSTANCE ChannelHolding WITH
  members <- listed, holds <- held, running <- ~stopIQ

\* The threads and semaphores together do what ChannelHolding promises.
ImplementsHolding == Holding!Spec
=============================================================================
