--------------------------- MODULE RadioSettings ---------------------------
(***************************************************************************)
(* What hpsdr remembers of a radio's settings, and what each command of a  *)
(* client makes of it.  How the settings travel to the radio is a matter   *)
(* of the protocol: OldProtocol and RadioPackets.                          *)
(***************************************************************************)
EXTENDS Integers

CONSTANTS
  Rx,         \* the radio's receivers, 0 and 1
  Freqs,      \* frequencies a client may set, in MHz
  Rates,      \* sample rates
  Antennas,   \* antennas: 0, 1, 2 are the jackets, 3, 4, 5 the receive inputs
  Drives,     \* output powers
  Switched    \* bound: receivers whose switches clients use

----------------------------------------------------------------------------
(* What start_radio finds out from the kind of the device *)

Lites == {"HERMES_LITE", "HERMES_LITE2"}

HaveRxGain(device) == device \in Lites

\* An Atlas bus is used with one converter only.
Adcs(device) == IF device \in {"METIS", "HERMES"} \cup Lites THEN 1 ELSE 2

StartAttenuation(device) ==
  [a \in {0, 1} |-> IF HaveRxGain(device) THEN 14 ELSE 0]

\* The drive level grows with the power and is limited.
DriveLevel(drive) == [level |-> drive]

NewReceiver(device, i) ==
  [freq |-> 14, rate |-> 48, dither |-> FALSE, random |-> FALSE, preamp |-> FALSE,
   antenna |-> 0, attenuation |-> 0,
   adc |-> IF i = 0 \/ Adcs(device) = 1 THEN 0 ELSE 1]

NewTransmitter == [freq |-> 145, antenna |-> 0, drive |-> 50, level |-> DriveLevel(50)]

\* The receivers, the transmitter and the attenuators are made anew by a start;
\* the microphone's gain is older than any radio.
NewSettings(device, boost) ==
  [rx |-> [i \in Rx |-> NewReceiver(device, i)],
   tx |-> NewTransmitter,
   adc |-> StartAttenuation(device),
   boost |-> boost]

----------------------------------------------------------------------------
(* The commands *)

\* setFrequency tunes a receiver and the transmitter with it, or, for a unit
\* that is no receiver, the transmitter.
SetFrequency(h, unit, f) ==
  IF unit \in Rx
  THEN [h EXCEPT !.rx[unit].freq = f, !.tx.freq = f]
  ELSE [h EXCEPT !.tx.freq = f]

SetAlexRxAntenna(h, v) == [h EXCEPT !.rx[0].antenna = v]
SetAlexTxAntenna(h, v) == [h EXCEPT !.tx.antenna = v]

\* Steps of 10 dB.  Switching the attenuator off leaves the second converter's.
SetAlexAttenuation(h, i, v) ==
  [h EXCEPT !.rx[i].attenuation = v,
            !.adc[0] = 10 * v,
            !.adc[1] = IF v = 0 THEN @ ELSE 10 * v]

SetDither(h, i, on) == [h EXCEPT !.rx[i].dither = on]
SetRandom(h, i, on) == [h EXCEPT !.rx[i].random = on]
SetPreamp(h, i, on) == [h EXCEPT !.rx[i].preamp = on]
SetMicBoost(h, on) == [h EXCEPT !.boost = on]

\* The power is noted; the level computed from it is the one of the start.
SetTxPower(h, pow) == [h EXCEPT !.tx.drive = pow]

ChangeSampleRate(h, i, rate) == [h EXCEPT !.rx[i].rate = rate]

\* The settings one command of a client makes of h.
Changed(h) ==
  {SetFrequency(h, u, f) : u \in Rx \cup {-1}, f \in Freqs}
  \cup {SetAlexRxAntenna(h, v) : v \in Antennas}
  \cup {SetAlexTxAntenna(h, v) : v \in Antennas \cap 0 .. 2}
  \cup {SetAlexAttenuation(h, i, v) : i \in Rx, v \in {0, 1}}
  \cup {SetDither(h, i, TRUE) : i \in Switched}
  \cup {SetRandom(h, i, TRUE) : i \in Switched}
  \cup {SetPreamp(h, i, TRUE) : i \in Switched}
  \cup {SetMicBoost(h, TRUE)}
  \cup {SetTxPower(h, pow) : pow \in Drives}
  \cup {ChangeSampleRate(h, i, r) : i \in Rx, r \in Rates}
=============================================================================
