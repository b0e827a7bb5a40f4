---------------------------- MODULE RadioPackets ----------------------------
(***************************************************************************)
(* The settings of a radio in Ethernet protocol 2 of hpsdr.  Four kinds of *)
(* packet carry them; a timer thread sends each again and again, and the   *)
(* command thread sends the urgent ones at once.  A packet may be lost.    *)
(* Whoever has sent a high priority or a receive specific packet works out *)
(* the action table anew, which tells the threads of the DDCs what to do   *)
(* with the radio's samples.  Each kind of packet has a mutex of its own,  *)
(* the action table has none.                                              *)
(***************************************************************************)
EXTENDS RadioSettings, Sequences, FiniteSets, TLC

CONSTANTS
  Devices,      \* kinds of device that may be found
  MaxSettings,  \* bound: settings changed
  MaxKeys,      \* bound: pressings and releases of push-to-talk
  MaxLost       \* bound: packets the network loses

Threads == {"timer", "command"}
DDCs == 0 .. 3

VARIABLES
  device,   \* the kind of device
  running,  \* running
  mox,      \* isTransmitting()
  host,     \* the settings hpsdr remembers
  cycling,  \* cycling of the timer thread
  thread,   \* each thread: packets it has still to send, how far it is with the first,
            \* and what it saw of push-to-talk
  told,     \* what the radio has been told last, by kind of packet
  rxcase,   \* rxcase and rxid: the receiver a DDC's samples are for, or -1 to skip them
  settings, keys, \* commands so far, those that press or release push-to-talk apart
  lost      \* packets lost so far

vars == <<device, running, mox, host, cycling, thread, told, rxcase, settings, keys, lost>>

Kinds == {"GE", "TS", "RS", "HP"}
Nothing == [p \in Kinds |-> <<>>]

Begin(todo) == [todo |-> todo, step |-> "idle", saw |-> FALSE]

Init ==
  /\ device \in Devices
  /\ running = FALSE /\ mox = FALSE
  /\ host = NewSettings(device, FALSE)
  /\ cycling = 0
  /\ thread = [t \in Threads |-> Begin(<<>>)]
  /\ told = Nothing
  /\ rxcase = [d \in DDCs |-> -1]
  /\ settings = 0 /\ keys = 0 /\ lost = 0

----------------------------------------------------------------------------
(* The packets *)

SecondBoards == {"ANGELIA", "ORION", "ORION2"}

\* From Angelia on the first two DDCs are kept for diversity and feedback.
DdcOf(i) == IF device \in SecondBoards THEN 2 + i ELSE i

\* update_action_table, as far as neither duplex, feedback nor diversity is used.
TableFor(xmit) ==
  [d \in DDCs |-> IF \E i \in Rx : ~xmit /\ d = DdcOf(i)
                  THEN CHOOSE i \in Rx : d = DdcOf(i)
                  ELSE -1]

\* The frequencies of the receivers and of the transmitter, which follows its own
\* tuning here.
Tuning(saw) ==
  [run |-> running, ptt |-> saw,
   rx |-> [i \in Rx |-> host.rx[i].freq],
   txFrequency |-> host.tx.freq,
   power |-> IF mox THEN host.tx.level ELSE DriveLevel(0),
   transverter |-> device = "ORION2" /\ host.rx[0].antenna = 5]

\* The filter of receiver 0: a band-pass filter on the Orion2, else a high-pass.
FilterOf(f) ==
  LET steps == IF device = "ORION2" THEN {2, 3, 6, 11, 22, 35}
               ELSE {2, 7, 10, 13, 20, 50}
  IN Cardinality({s \in steps : f >= s})

\* Before the Orion2 the receiver hears through the low-pass filters of the
\* transmitter, which then follow the receiver.
LowPass ==
  LET f == IF ~mox /\ device # "ORION2" /\ host.rx[0].antenna < 3
           THEN host.rx[0].freq ELSE host.tx.freq
  IN Cardinality({s \in {3, 5, 8, 17, 24, 36} : f >= s})

Filters ==
  [attenuator |-> IF device = "ORION2" THEN 0 ELSE host.rx[0].attenuation,
   filter |-> FilterOf(host.rx[0].freq),
   lowPass |-> LowPass]

\* The Orion2 has no second receive input; the relay is left as it is for
\* transmitting when an input is used that is only for receiving.
AntennaRouting ==
  [input |-> CASE host.rx[0].antenna < 3 -> 0
               [] device = "ORION2" /\ host.rx[0].antenna = 4 -> 3
               [] OTHER -> host.rx[0].antenna,
   relay |-> IF mox \/ host.rx[0].antenna > 2 THEN host.tx.antenna ELSE host.rx[0].antenna]

\* On the Orion2 the second receiver has filters too, and is grounded while
\* transmitting.
SecondFilters ==
  [second |-> IF device = "ORION2" THEN FilterOf(host.rx[1].freq) ELSE 0,
   ground |-> device = "ORION2" /\ mox]

Attenuators == [adc |-> IF mox THEN <<0, 31>> ELSE <<host.adc[0], host.adc[1]>>]

HighPriority(saw) ==
  [tuning |-> Tuning(saw), filters |-> Filters, routing |-> AntennaRouting,
   second |-> SecondFilters, attenuators |-> Attenuators]

\* What depends on the client: the amplifier of the microphone.
TransmitSpecific == [boost |-> host.boost]

ReceiveSpecific ==
  [adcs |-> Adcs(device),
   dither |-> [i \in Rx |-> host.rx[i].dither],
   random |-> [i \in Rx |-> host.rx[i].random],
   enabled |-> {DdcOf(i) : i \in {j \in Rx : ~mox}},
   converter |-> [i \in Rx |-> host.rx[i].adc],
   rate |-> [i \in Rx |-> host.rx[i].rate]]

General == [amplifier |-> TRUE, alex |-> IF device = "ORION2" THEN 2 ELSE 1]

Contents(p, saw) ==
  CASE p = "HP" -> HighPriority(saw)
    [] p = "TS" -> TransmitSpecific
    [] p = "RS" -> ReceiveSpecific
    [] p = "GE" -> General

----------------------------------------------------------------------------
(* The threads *)

\* new_protocol_init and new_protocol_start, which ends with the timer thread.
StartRadio ==
  /\ ~running /\ thread["command"] = Begin(<<>>)
  /\ told = Nothing
  /\ running' = TRUE
  /\ rxcase' = TableFor(mox)
  /\ thread' = [thread EXCEPT !["command"] = Begin(<<"GE", "TS", "RS", "timer", "HP">>)]
  /\ UNCHANGED <<device, mox, host, cycling, told, settings, keys, lost>>

\* The timer thread is made; it looks first after 100 ms.
StartTimer ==
  /\ thread["command"].todo # <<>> /\ Head(thread["command"].todo) = "timer"
  /\ thread' = [thread EXCEPT !["command"] = Begin(Tail(@.todo))]
  /\ cycling' = 8
  /\ UNCHANGED <<device, running, mox, host, told, rxcase, settings, keys, lost>>

\* Mutant of Round: the receive specific packet is sent with the general one only.
RoundRare(c) ==
  CASE c \in {1, 3, 5, 7} -> <<"HP", "TS">>
    [] c \in {2, 4, 6} -> <<"HP">>
    [] c = 8 -> <<"HP", "GE">>

Round(c) ==
  CASE c \in {1, 3, 5, 7} -> <<"HP", "TS">>
    [] c \in {2, 4, 6} -> <<"HP", "RS">>
    [] c = 8 -> <<"HP", "RS", "GE">>

\* new_protocol_timer_thread, every 100 ms.
Tick ==
  /\ running /\ cycling # 0 /\ thread["timer"] = Begin(<<>>)
  /\ cycling' = (cycling % 8) + 1
  /\ thread' = [thread EXCEPT !["timer"] = Begin(Round(cycling'))]
  /\ UNCHANGED <<device, running, mox, host, told, rxcase, settings, keys, lost>>

\* A thread that sends a packet holds the mutex of its kind until the action table
\* is done.
MutexFree(t, p) ==
  \A u \in Threads \ {t} : thread[u].step # "idle" => Head(thread[u].todo) # p

\* The high priority packet starts with push-to-talk, which may change before the
\* rest is put together.
PacketBegin(t) ==
  /\ thread[t].step = "idle" /\ thread[t].todo # <<>>
  /\ Head(thread[t].todo) = "HP" /\ MutexFree(t, "HP")
  /\ thread' = [thread EXCEPT ![t].step = "filled", ![t].saw = mox]
  /\ UNCHANGED <<device, running, mox, host, cycling, told, rxcase, settings, keys, lost>>

\* It is sent, and push-to-talk looked at again for the action table.
PacketSend(t) ==
  /\ thread[t].todo # <<>>
  /\ LET p == Head(thread[t].todo) IN
     /\ p # "timer" /\ MutexFree(t, p)
     /\ thread[t].step = IF p = "HP" THEN "filled" ELSE "idle"
     /\ \/ told' = [told EXCEPT ![p] = Contents(p, thread[t].saw)] /\ UNCHANGED lost
        \/ lost < MaxLost /\ lost' = lost + 1 /\ UNCHANGED told
     /\ thread' = [thread EXCEPT ![t] =
                     IF p \in {"HP", "RS"} THEN [@ EXCEPT !.step = "clear", !.saw = mox]
                     ELSE Begin(Tail(@.todo))]
  /\ UNCHANGED <<device, running, mox, host, cycling, rxcase, settings, keys>>

\* Mutant of TableClear: what the table held before is kept.
TableClearNot(t) ==
  /\ thread[t].step = "clear"
  /\ thread' = [thread EXCEPT ![t].step = "fill"]
  /\ UNCHANGED <<device, running, mox, host, cycling, told, rxcase, settings, keys, lost>>
\* Every entry is reset to skip.
TableClear(t) ==
  /\ thread[t].step = "clear"
  /\ rxcase' = [d \in DDCs |-> -1]
  /\ thread' = [thread EXCEPT ![t].step = "fill"]
  /\ UNCHANGED <<device, running, mox, host, cycling, told, settings, keys, lost>>

\* Only the entries of the case that was seen are written.
TableFill(t) ==
  /\ thread[t].step = "fill"
  /\ rxcase' = [d \in DDCs |-> IF TableFor(thread[t].saw)[d] # -1
                               THEN TableFor(thread[t].saw)[d] ELSE rxcase[d]]
  /\ thread' = [thread EXCEPT ![t] = Begin(Tail(@.todo))]
  /\ UNCHANGED <<device, running, mox, host, cycling, told, settings, keys, lost>>

Ready == running /\ cycling # 0 /\ thread["command"] = Begin(<<>>)

\* A command that changes a setting of the receivers or the transmitter is followed
\* by a high priority packet.
Setting ==
  /\ Ready /\ settings < MaxSettings
  /\ host' \in Changed(host) \ {host}
  /\ thread' = [thread EXCEPT !["command"] = Begin(<<"HP">>)]
  /\ settings' = settings + 1
  /\ UNCHANGED <<device, running, mox, cycling, told, rxcase, keys, lost>>

\* HMOX is followed by a receive specific packet as well.
Mox ==
  /\ Ready /\ keys < MaxKeys
  /\ mox' = ~mox
  /\ thread' = [thread EXCEPT !["command"] = Begin(<<"HP", "RS">>)]
  /\ keys' = keys + 1
  /\ UNCHANGED <<device, running, host, cycling, told, rxcase, settings, lost>>

\* new_protocol_stop: one more high priority packet; the timer ends by itself.
Stop ==
  /\ Ready
  /\ running' = FALSE /\ cycling' = 0
  /\ thread' = [thread EXCEPT !["command"] = Begin(<<"HP">>)]
  /\ UNCHANGED <<device, mox, host, told, rxcase, settings, keys, lost>>

Step(t) == PacketBegin(t) \/ PacketSend(t) \/ TableClear(t) \/ TableFill(t)

Next ==
  \/ StartRadio \/ StartTimer \/ Tick
  \/ \E t \in Threads : Step(t)
  \/ Setting \/ Mox \/ Stop

Spec == Init /\ [][Next]_vars

\* The threads run; clients do as they like, and may leave the radio running.
Fairness ==
  /\ WF_vars(StartTimer) /\ WF_vars(Tick)
  /\ \A t \in Threads : WF_vars(Step(t))

FairSpec == Spec /\ Fairness
----------------------------------------------------------------------------
(* Properties *)

TypeOK ==
  /\ device \in Devices /\ running \in BOOLEAN /\ mox \in BOOLEAN
  /\ cycling \in 0 .. 8
  /\ \A t \in Threads : thread[t].step \in {"idle", "filled", "clear", "fill"}
                        /\ Len(thread[t].todo) <= 5
  /\ rxcase \in [DDCs -> Rx \cup {-1}]
  /\ settings \in 0 .. MaxSettings /\ keys \in 0 .. MaxKeys
  /\ lost \in 0 .. MaxLost

RadioKnows == \A p \in Kinds : told[p] = Contents(p, mox)

StoppedUnlost ==
  ~running /\ told["HP"] # <<>> /\ lost = 0 /\ \A t \in Threads : thread[t] = Begin(<<>>)

\* Whatever is changed while the radio runs, and whichever packets are lost, the
\* radio knows every setting in the end: the timer sends them all again.  The last
\* thing a radio is told is to stop, when the packet is not lost.
SettingsRepeated ==
  /\ running ~> (RadioKnows \/ ~running)
  /\ [](TypeOK /\ (StoppedUnlost => ~told["HP"].tuning.run))

\* Two threads may write the action table at once and leave it to the older view
\* of push-to-talk.  In the end it is right whenever nobody is writing it.
TableSettles ==
  <>[](running /\ (\A t \in Threads : thread[t].step # "fill") => rxcase = TableFor(mox))
=============================================================================
