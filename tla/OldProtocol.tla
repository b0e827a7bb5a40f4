----------------------------- MODULE OldProtocol -----------------------------
(***************************************************************************)
(* Ethernet protocol 1 of hpsdr.  Audio for the radio's speaker and the    *)
(* settings travel together: every buffer of samples starts with one       *)
(* register of settings, two buffers make a packet, the first with the     *)
(* configuration and the second with the next of ten registers in turn.    *)
(* The command thread and the speaker thread both send buffers, one at a   *)
(* time under ozy_sem.  The radio answers with packets whose samples the   *)
(* receive thread tells apart by counting.                                 *)
(***************************************************************************)
EXTENDS RadioSettings, Sequences, FiniteSets

CONSTANTS
  Devices,      \* kinds of device that may be found
  Orderly,      \* clients release push-to-talk and wait before they stop a radio
  MaxStarts,    \* bound: starts of the radio
  MaxSettings,  \* bound: settings changed
  Unit          \* bound: places for samples in a buffer

\* A buffer has room for at least one row, of a sample per receiver and one of the
\* microphone.
ASSUME RadioAssumption ==
  /\ Rx = {0, 1} /\ Unit \in Nat /\ Unit >= 3
  /\ MaxStarts \in Nat /\ MaxSettings \in Nat /\ Orderly \in BOOLEAN

VARIABLES
  up,          \* the process has neither exited nor died
  device, tcp, \* the kind of device, and whether it is spoken to over TCP
  starts,      \* starts so far
  settings,    \* commands that changed a setting so far
  receivers,   \* receivers: all while the radio is started, none otherwise
  hasTx,       \* transmitter is not NULL
  mox,         \* isTransmitting()
  host,        \* the settings hpsdr remembers
  cmdPc,       \* what the command thread does
  burst,       \* buffers it still has to send
  speaker,     \* rxaudio_send
  suppress,    \* suppress_ozy_packet
  metisOffset, \* metis_offset: whether the next buffer is the first of a packet
  currentRx,   \* current_rx
  command,     \* command
  half,        \* what the first half of the packet being made says
  told,        \* what the radio has been told last, by name
  radioOn,     \* the radio sends
  wire,        \* packets under way from the radio: the receivers in each
  parser,      \* the state machine of process_ozy_byte
  heard,       \* receivers that have had samples since the start
  mixed        \* a sample has been taken for another receiver's

radioVars == <<told, radioOn>>
frameVars == <<metisOffset, currentRx, command, half>>
hostVars == <<receivers, hasTx, host, settings>>
inVars == <<parser, heard, mixed>>
vars == <<up, device, tcp, starts, hostVars, mox, cmdPc, burst, speaker, suppress,
          frameVars, radioVars, wire, inVars>>

Nothing == [f \in {} |-> 0]

\* What new says, and what old says of all else.
Upon(new, old) ==
  [f \in DOMAIN new \cup DOMAIN old |-> IF f \in DOMAIN new THEN new[f] ELSE old[f]]

\* nreceiver is counted up to a bound it only passes when it never ends.
Lost == Cardinality(Rx) + 2

Init ==
  /\ up = TRUE
  /\ device \in Devices /\ tcp \in BOOLEAN
  /\ starts = 0 /\ settings = 0 /\ receivers = 0 /\ hasTx = FALSE /\ mox = FALSE
  /\ host = NewSettings(device, FALSE)
  /\ cmdPc = "idle" /\ burst = 0 /\ speaker = "off" /\ suppress = FALSE
  /\ metisOffset = 8 /\ currentRx = 0 /\ command = 1 /\ half = Nothing
  /\ told = Nothing /\ radioOn = FALSE /\ wire = <<>>
  /\ parser = [state |-> "sync", nreceiver |-> 0, nsamples |-> 0, rows |-> 0]
  /\ heard = {} /\ mixed = FALSE

----------------------------------------------------------------------------
(* The registers *)

\* The frequency the radio transmits on is always worked out of receiver 0.
ChannelFreq(chan) ==
  IF chan \in Rx THEN host.rx[chan].freq ELSE host.rx[0].freq

\* 0 .. 7 stand for 1 .. 8 receivers, so that no receiver at all becomes eight.
CountBits == IF receivers = 0 THEN 8 ELSE receivers

\* The transmit relay is left alone by an antenna that is only for receiving.
Relay ==
  IF mox \/ host.rx[0].antenna > 2 THEN host.tx.antenna ELSE host.rx[0].antenna

Config ==
  [rate |-> host.rx[0].rate,
   alexAttenuation |-> host.rx[0].attenuation,
   random |-> host.rx[0].random,
   dither |-> host.rx[0].dither,
   count |-> CountBits]

\* Which input the receivers listen to, and which jacket the relay closes.
AntennaBits ==
  [input |-> IF host.rx[0].antenna > 2 THEN host.rx[0].antenna ELSE 0,
   relay |-> Relay]

TxFrequencyRegister == [txFrequency |-> ChannelFreq(-1)]
RxFrequencyRegister(rx) == IF rx = 0 THEN [rx0 |-> ChannelFreq(0)] ELSE [rx1 |-> ChannelFreq(1)]

DriveRegister ==
  [power |-> IF mox THEN host.tx.level ELSE DriveLevel(0),
   boost |-> host.boost,
   sixMeters |-> host.rx[0].freq \in 50 .. 54]

\* Only an Atlas bus has preamplifiers; a Lite has a gain, -12 .. 48 dB, where
\* others have an attenuator.
GainRegister ==
  [preamps |-> IF device = "METIS" THEN {i \in Rx : host.rx[i].preamp} ELSE {},
   gain |-> IF mox THEN 0
            ELSE IF HaveRxGain(device) THEN host.adc[0] + 12
            ELSE host.adc[0]]

SecondAdcRegister ==
  [second |-> IF Adcs(device) = 1 THEN 0
              ELSE IF mox THEN 31 ELSE host.adc[host.rx[1].adc]]

AdcRegister ==
  [converters |-> IF Adcs(device) = 1 THEN <<0, 0>> ELSE <<host.rx[0].adc, host.rx[1].adc>>]

AlexRegister == [ground |-> mox, transverter |-> host.rx[0].antenna = 5]

Registers ==
  <<TxFrequencyRegister, RxFrequencyRegister(currentRx), DriveRegister, GainRegister,
    SecondAdcRegister, AdcRegister, Nothing, Nothing, Nothing, AlexRegister>>

----------------------------------------------------------------------------
(* Sending *)

\* Mutant of Turn: the turn goes on while frequencies are left to be sent.
TurnEarly ==
  /\ currentRx' = IF command = 2 THEN (currentRx + 1) % (IF receivers = 0 THEN 1 ELSE receivers)
                  ELSE currentRx
  /\ command' = IF command = 9 THEN 1 ELSE command + 1

\* The frequency register is repeated for every receiver; the others follow it.
Turn ==
  /\ currentRx' = IF command = 2 /\ currentRx + 1 < receivers THEN currentRx + 1
                  ELSE IF command = 2 \/ currentRx >= receivers THEN 0 ELSE currentRx
  /\ command' = IF currentRx' # 0 THEN command
                ELSE IF command = 10 THEN 1 ELSE command + 1

\* metis_write: the second half completes the packet, which is sent unless a
\* start or stop packet is about to be sent over TCP.
MetisWrite(bits) ==
  IF metisOffset = 8
  THEN /\ metisOffset' = 520 /\ half' = bits
       /\ UNCHANGED told
  ELSE /\ metisOffset' = 8 /\ UNCHANGED half
       /\ told' = IF suppress THEN told ELSE Upon(bits, Upon(half, told))

\* ozy_send_buffer, with the push-to-talk bit in every buffer.  While it is
\* pressed the transmitter is looked at without a test.
OzySendBuffer ==
  /\ up' = (mox => hasTx)
  /\ \E bits \in {IF metisOffset = 8 THEN Upon(Config, AntennaBits) ELSE Registers[command]} :
        MetisWrite(Upon([mox |-> mox], bits))
  /\ IF metisOffset = 8 THEN UNCHANGED <<currentRx, command>> ELSE Turn

\* Nothing is under way from the radio.
Quiet == wire = <<>>

\* rxaudio_send sends a buffer full of audio or, when it has none, an empty one
\* every 100 ms.  It looks for its end before it waits, so the last one comes
\* after the receivers are gone.
SpeakerSend ==
  /\ up /\ speaker \in {"on", "last"} /\ ~mox
  /\ OzySendBuffer
  /\ speaker' = IF speaker = "last" THEN "off" ELSE "on"
  /\ UNCHANGED <<device, tcp, starts, hostVars, mox, cmdPc, burst, suppress, radioOn,
                 wire, inVars>>

\* While the radio transmits its speaker gets empty buffers only, and the blocks
\* of the client's signal take their place.
KeyedSend ==
  /\ up /\ mox /\ speaker \in {"on", "last"}
  /\ OzySendBuffer
  /\ speaker' = IF speaker = "last" THEN "off" ELSE "on"
  /\ UNCHANGED <<device, tcp, starts, hostVars, mox, cmdPc, burst, suppress, radioOn,
                 wire, inVars>>

----------------------------------------------------------------------------
(* Starting and stopping *)

\* STARTRADIO: the settings are made anew.  The socket is opened and another
\* receive thread is made; the parser, which all of them share, goes on where it was.
StartRadio ==
  /\ up /\ cmdPc = "idle" /\ receivers = 0 /\ starts < MaxStarts
  /\ speaker = "off"
  /\ starts' = starts + 1
  /\ receivers' = Cardinality(Rx) /\ hasTx' = TRUE
  /\ host' = NewSettings(device, host.boost)
  /\ metisOffset' = 8 /\ currentRx' = 0 /\ command' = 1
  /\ cmdPc' = "prime" /\ burst' = 7
  /\ heard' = {}
  /\ UNCHANGED <<up, device, tcp, settings, mox, speaker, suppress, half, radioVars,
                 wire, parser, mixed>>

\* Seven buffers before the radio is started, or after a setting was changed.
BurstSend ==
  /\ up /\ cmdPc \in {"prime", "burst"} /\ burst > 0
  /\ OzySendBuffer
  /\ burst' = burst - 1
  /\ UNCHANGED <<device, tcp, starts, hostVars, mox, cmdPc, speaker, suppress, radioOn,
                 wire, inVars>>

BurstEnd ==
  /\ up /\ cmdPc \in {"prime", "burst"} /\ burst = 0
  /\ cmdPc' = IF cmdPc = "prime" THEN "go" ELSE "idle"
  /\ suppress' = (tcp /\ cmdPc = "prime")
  /\ UNCHANGED <<up, device, tcp, starts, hostVars, mox, burst, speaker, frameVars,
                 radioVars, wire, inVars>>

\* metis_start_stop: the start packet.  Then HATTACHRX makes the speaker thread.
Go ==
  /\ up /\ cmdPc = "go"
  /\ radioOn' = TRUE /\ suppress' = FALSE
  /\ cmdPc' = "idle" /\ speaker' = "on"
  /\ UNCHANGED <<up, device, tcp, starts, hostVars, mox, burst, frameVars, told, wire,
                 inVars>>

\* STOPRADIO: the counter that keeps the speaker thread is cleared first.
Stop ==
  /\ up /\ cmdPc = "idle" /\ receivers > 0
  /\ Orderly => ~mox
  /\ speaker' = "last"
  /\ suppress' = tcp
  /\ cmdPc' = "stop"
  /\ UNCHANGED <<up, device, tcp, starts, hostVars, mox, burst, frameVars, radioVars,
                 wire, inVars>>

\* The stop packet.  Over TCP it is sent between two pauses, longer than the
\* speaker thread needs to end, and the socket is closed.
StopSend ==
  /\ up /\ cmdPc = "stop"
  /\ tcp => speaker = "off"
  /\ radioOn' = FALSE /\ suppress' = FALSE
  /\ cmdPc' = "delete"
  /\ UNCHANGED <<up, device, tcp, starts, hostVars, mox, burst, speaker, frameVars, told,
                 wire, inVars>>

\* main_delete, at once after the stop packet: what the radio sent before it got
\* that packet is still under way.
MainDelete ==
  /\ up /\ cmdPc = "delete"
  /\ Orderly => Quiet /\ speaker = "off"
  /\ receivers' = 0 /\ hasTx' = FALSE
  /\ cmdPc' = "idle"
  /\ UNCHANGED <<up, device, tcp, starts, host, settings, mox, burst, speaker, suppress,
                 frameVars, radioVars, wire, inVars>>

\* A command that changes a setting, and the seven buffers that shall carry it.
Setting ==
  /\ up /\ cmdPc = "idle" /\ receivers > 0 /\ settings < MaxSettings
  /\ host' \in Changed(host) \ {host}
  /\ settings' = settings + 1
  /\ cmdPc' = "burst" /\ burst' = 7
  /\ UNCHANGED <<up, device, tcp, starts, receivers, hasTx, mox, speaker, suppress,
                 frameVars, radioVars, wire, inVars>>

\* HMOX sends nothing itself.
Mox ==
  /\ up /\ cmdPc = "idle" /\ receivers > 0 /\ settings < MaxSettings
  /\ mox' = ~mox
  /\ settings' = IF mox THEN settings ELSE settings + 1
  /\ UNCHANGED <<up, device, tcp, starts, receivers, hasTx, host, cmdPc, burst, speaker,
                 suppress, frameVars, radioVars, wire, inVars>>

----------------------------------------------------------------------------
(* Receiving *)

RowsOf(n) == Unit \div (n + 1)

\* What the radio puts into a buffer for n receivers: a header, then rows of one
\* sample per receiver, numbered 0, 1, ..., and one, -1, of the microphone.
Header == -2
Payload ==
  [n \in 1 .. 8 |->
     <<Header>> \o [k \in 1 .. RowsOf(n) * (n + 1) |-> (k % (n + 1)) - 1]]

RadioSend ==
  /\ up /\ radioOn /\ wire = <<>> /\ "count" \in DOMAIN told
  /\ wire' = <<told.count>>
  /\ UNCHANGED <<up, device, tcp, starts, hostVars, mox, cmdPc, burst, speaker, suppress,
                 frameVars, radioVars, inVars>>

\* Mutant of TakeUnit: the count of receivers is not reset for the next row.
TakeUnitKeep(p, u) ==
  CASE p.state = "sync" ->
         IF u = Header
         THEN [state |-> "iq", nreceiver |-> 0, nsamples |-> 0, rows |-> RowsOf(receivers)]
         ELSE p
    [] p.state = "iq" ->
         [p EXCEPT !.nreceiver = IF @ < Lost THEN @ + 1 ELSE @,
                   !.state = IF p.nreceiver + 1 = receivers THEN "mic" ELSE "iq"]
    [] p.state = "mic" ->
         IF p.nsamples + 1 = p.rows
         THEN [p EXCEPT !.state = "sync"]
         ELSE [p EXCEPT !.state = "iq", !.nsamples = @ + 1]

\* process_ozy_byte: a row ends when as many receivers are counted as there are,
\* and a buffer when as many rows are counted as it has room for.
TakeUnit(p, u) ==
  CASE p.state = "sync" ->
         IF u = Header
         THEN [state |-> "iq", nreceiver |-> 0, nsamples |-> 0, rows |-> RowsOf(receivers)]
         ELSE p
    [] p.state = "iq" ->
         [p EXCEPT !.nreceiver = IF @ < Lost THEN @ + 1 ELSE @,
                   !.state = IF p.nreceiver + 1 = receivers THEN "mic" ELSE "iq"]
    [] p.state = "mic" ->
         IF p.nsamples + 1 = p.rows
         THEN [p EXCEPT !.state = "sync"]
         ELSE [p EXCEPT !.state = "iq", !.nreceiver = 0, !.nsamples = @ + 1]

\* Mutant of Take: the receiver is counted before its sample is handed on.
TakeLate(was, u) ==
  [state |-> TakeUnit(was.state, u),
   samples |-> IF was.state.state = "iq" /\ was.state.nreceiver < receivers
               THEN was.samples \cup {<<was.state.nreceiver + 1, u>>}
               ELSE was.samples]

\* What a state has become of after a unit, with the samples handed on so far: the
\* receiver each was handed to, and whose it is.
Take(was, u) ==
  [state |-> TakeUnit(was.state, u),
   samples |-> IF was.state.state = "iq" /\ was.state.nreceiver < receivers
               THEN was.samples \cup {<<was.state.nreceiver, u>>}
               ELSE was.samples]

Parsed(units) ==
  LET after[k \in 0 .. Len(units)] ==
        IF k = 0 THEN [state |-> parser, samples |-> {}]
        ELSE CHOOSE next \in {Take(was, units[k]) : was \in {after[k - 1]}} : TRUE
  IN after[Len(units)]

\* process_ozy_input_buffer: the receivers are counted again for each buffer.
\* Nothing is handed on while the radio transmits.
ReceivePacket ==
  /\ up /\ wire # <<>>
  /\ \E parsed \in {Parsed(Payload[Head(wire)])} :
     /\ parser' = parsed.state
     /\ heard' = IF mox THEN heard ELSE heard \cup {d[1] : d \in parsed.samples}
     /\ mixed' = (mixed \/ \E d \in parsed.samples : ~mox /\ d[1] # d[2])
  /\ wire' = Tail(wire)
  /\ UNCHANGED <<up, device, tcp, starts, hostVars, mox, cmdPc, burst, speaker, suppress,
                 frameVars, radioVars>>

----------------------------------------------------------------------------
CommandThread == BurstSend \/ BurstEnd \/ Go \/ StopSend \/ MainDelete

Next ==
  \/ CommandThread
  \/ StartRadio \/ Stop \/ Setting \/ Mox
  \/ SpeakerSend \/ KeyedSend
  \/ RadioSend \/ ReceivePacket

Spec == Init /\ [][Next]_vars

\* The threads run and the radio sends; no client has to do anything.
Fairness ==
  /\ WF_vars(CommandThread) /\ WF_vars(SpeakerSend) /\ WF_vars(KeyedSend)
  /\ WF_vars(RadioSend) /\ WF_vars(ReceivePacket)

FairSpec == Spec /\ Fairness
----------------------------------------------------------------------------
(* Properties *)

TypeOK ==
  /\ up \in BOOLEAN /\ device \in Devices /\ tcp \in BOOLEAN
  /\ starts \in 0 .. MaxStarts /\ settings \in 0 .. MaxSettings
  /\ receivers \in {0, Cardinality(Rx)} /\ hasTx \in BOOLEAN /\ mox \in BOOLEAN
  /\ cmdPc \in {"idle", "prime", "burst", "go", "stop", "delete"} /\ burst \in 0 .. 7
  /\ speaker \in {"off", "on", "last"} /\ suppress \in BOOLEAN
  /\ metisOffset \in {8, 520} /\ currentRx \in Rx /\ command \in 1 .. 10
  /\ radioOn \in BOOLEAN /\ Len(wire) <= 1
  /\ parser.state \in {"sync", "iq", "mic"} /\ parser.nreceiver \in 0 .. Lost
  /\ heard \subseteq Rx /\ mixed \in BOOLEAN

Serving == up /\ speaker = "on" /\ receivers > 0

Knows(part) == \A f \in DOMAIN part : f \in DOMAIN told /\ told[f] = part[f]

\* The radio has been told everything it is to know of the settings.
RadioKnows ==
  /\ Knows([mox |-> mox]) /\ Knows(Config) /\ Knows(AntennaBits)
  /\ Knows(TxFrequencyRegister) /\ \A rx \in Rx : Knows(RxFrequencyRegister(rx))
  /\ Knows(DriveRegister) /\ Knows(GainRegister) /\ Knows(SecondAdcRegister)
  /\ Knows(AdcRegister) /\ Knows(AlexRegister)

\* Seven buffers carry three of the ten registers, and not the changed one for
\* sure: it is the buffers of the speaker that bring every setting to the radio,
\* push-to-talk among them.
SettingsArrive == Serving ~> (RadioKnows \/ ~Serving)

\* The samples of a receiver are never taken for another's, and the threads of a
\* radio stopped in order never meet a transmitter that is gone.
SamplesInStep == TypeOK /\ ~mixed /\ (Orderly => up)

\* A radio that was started is heard on every receiver, after an earlier stop, in
\* the middle of a frame, as well.
IqFlows == (Serving /\ ~mox) ~> (heard = Rx \/ ~Serving \/ mox)
=============================================================================
