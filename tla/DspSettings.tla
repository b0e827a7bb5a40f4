----------------------------- MODULE DspSettings -----------------------------
(***************************************************************************)
(* What dsp_command of dspserver makes of the commands that set a channel  *)
(* up: the signal processing of the receivers and of the transmitter, and  *)
(* push-to-talk, which switches between them.  Channels of several radios  *)
(* are in one table.  Nearly every command sets one knob of WDSP, at once  *)
(* and without an answer; knobs are set apart from each other by name.     *)
(***************************************************************************)
EXTENDS Integers, FiniteSets

CONSTANTS
  RxChannels, TxChannels,  \* channels of the table
  RadioId,                 \* the radio_id of each channel
  Careful,                 \* clients start, stop and retune channels only while
                           \* their radio does not transmit
  Knobs,                   \* knobs the clients turn, some of AllKnobs
  MaxChanges               \* bound: knobs turned, modes, filters and rates set

Channels == RxChannels \cup TxChannels

VARIABLES
  enabled,   \* channels[].enabled
  running,   \* channels the signal processing runs for (SetChannelState)
  knob,      \* each channel's knobs, for those set so far
  mode, passband,  \* each channel's mode and passband
  rate,      \* each channel's sample rate, in kHz
  mox,       \* channels[].radio.mox
  keyed,     \* transmitters whose radio has been told to transmit
  blanker,   \* bUseNB
  encoding,  \* audiostream_conf.encoding
  heard,     \* channels with audio_enabled
  changes    \* changes so far

tuningVars == <<mode, passband, rate>>
keyVars == <<mox, keyed>>
sharedVars == <<blanker, encoding, heard>>
vars == <<enabled, running, knob, tuningVars, keyVars, sharedVars, changes>>

Receivers(r) == {c \in RxChannels : RadioId[c] = r}

----------------------------------------------------------------------------
(* The knobs *)

\* The position of the filters before or after the gain control, and what the
\* spectral noise reduction works with.
NoiseKnobs ==
  {"anfPosition", "anrPosition", "emnrPosition", "emnrArtifacts", "emnrGain", "emnrNoise"}
\* The clipper of the transmitter is switched with its compressor.
OvershootKnobs == {"emphasis", "compressor", "overshoot"}
GainKnobs ==
  {"agcMode", "agcFixed", "agcAttack", "agcDecay", "agcSlope", "agcHang", "agcHangLevel",
   "agcHangThreshold", "agcThreshold", "agcTop"}
LevelerKnobs == {"leveler", "levelerAttack", "levelerDecay"}
EqualizerKnobs ==
  {"rxEq", "rxEqProfile", "rxEqWindow", "txEq", "txEqProfile", "txEqWindow"}
LimiterKnobs == {"alcAttack", "alcDecay", "alcGain"}

\* Amplitudes of the test tones, and a duty cycle, are fractions.
FractionKnobs ==
  {"preTone", "preNoise", "preSweep", "preSawtooth", "preTriangle", "prePulse", "preDuty",
   "postTone", "postTwoTone", "postSweep"}
PreGeneratorKnobs ==
  {"preRun", "preMode", "preToneFreq", "preSweepFreq", "preSweepRate", "preSawtoothFreq",
   "preTriangleFreq", "prePulseFreq", "prePulseTone", "preTransition"}
PostGeneratorKnobs ==
  {"postRun", "postMode", "postToneFreq", "postTwoToneFreq", "postSweepFreq", "postSweepRate"}

SwitchKnobs ==
  {"pan", "anfValues", "anf", "anrValues", "anr", "cfir", "nob2Threshold", "nob2Mode",
   "squelchLevel", "squelch", "outputGain", "micSelect", "micGain"}
WindowKnobs == {"window", "notchWindow", "carrier"}
\* Predistortion.
PureSignalKnobs ==
  {"psInts", "psStabilize", "psMap", "psPeak", "psControl", "psMoxDelay", "psTxDelay",
   "psLoopDelay", "psMox", "psRate"}

AllKnobs ==
  NoiseKnobs \cup OvershootKnobs \cup GainKnobs \cup LevelerKnobs \cup EqualizerKnobs
  \cup LimiterKnobs \cup FractionKnobs \cup PreGeneratorKnobs \cup PostGeneratorKnobs
  \cup SwitchKnobs \cup WindowKnobs \cup PureSignalKnobs

\* A channel's knobs once k is set to v.
Turned(f, k, v) == [j \in DOMAIN f \cup {k} |-> IF j = k THEN v ELSE f[j]]

\* What STARTXCVR sets up: everything that alters a signal is off, except the
\* gain control of a receiver and the limiter of the transmitter.
RxDefaults ==
  [k \in {"anf", "anr", "rxEq", "agcMode", "pan", "emnrGain"} |->
     CASE k = "agcMode" -> 3 [] k = "pan" -> 1 [] k = "emnrGain" -> 2 [] OTHER -> 0]
TxDefaults ==
  [k \in {"preRun", "postRun", "txEq", "compressor", "overshoot", "leveler", "cfir",
          "alcAttack", "emphasis"} |-> IF k \in {"alcAttack", "emphasis"} THEN 1 ELSE 0]

\* Test tones are not loud to begin with.
Quiet(f) == Turned(f, "preTone", 0)

\* Lower sideband modes lie below the carrier, the two-sided modes around it.
PassbandOf(m) ==
  CASE m \in {"LSB", "CWL", "DIGL"} -> <<-2850, -150>>
    [] m \in {"AM", "SAM"} -> <<-2850, 2850>>
    [] m \in {"USB", "DSB", "CWU", "DIGU", "SPEC", "DRM"} -> <<150, 2850>>
    [] OTHER -> <<-4800, 4800>>

\* Before the first SETMODE a receiver is as WDSP makes it.
WdspPassband == <<-4150, -150>>

----------------------------------------------------------------------------
Init ==
  /\ enabled = {} /\ running = {}
  /\ knob = [c \in Channels |-> [k \in {} |-> 0]]
  /\ mode = [c \in Channels |-> "USB"]
  /\ passband = [c \in Channels |-> PassbandOf("USB")]
  /\ rate = [c \in Channels |-> 48]
  /\ mox = {} /\ keyed = {}
  /\ blanker = FALSE /\ encoding = 0 /\ heard = {}
  /\ changes = 0

Calm(c) == Careful => \A t \in mox : RadioId[t] # RadioId[c]
Change == changes < MaxChanges /\ changes' = changes + 1

\* STARTXCVR: WDSP opens a channel with nothing set.  A receiver runs at once, the
\* transmitter when it is keyed.  Audio is off until a client asks for it.
StartXcvr(c) ==
  /\ c \notin enabled /\ Calm(c)
  /\ enabled' = enabled \cup {c}
  /\ IF c \in RxChannels
     THEN /\ running' = running \cup {c}
          /\ knob' = [knob EXCEPT ![c] = RxDefaults]
          /\ heard' = heard \ {c}
          /\ mode' = [mode EXCEPT ![c] = "LSB"]
          /\ passband' = [passband EXCEPT ![c] = WdspPassband]
     ELSE /\ running' = running \ {c}
          /\ knob' = [knob EXCEPT ![c] = Quiet(TxDefaults)]
          /\ mode' = [mode EXCEPT ![c] = "USB"]
          /\ passband' = [passband EXCEPT ![c] = PassbandOf("USB")]
          /\ UNCHANGED heard
  /\ UNCHANGED <<rate, keyVars, blanker, encoding, changes>>

\* STOPXCVR closes the channel and says nothing to the radio.
StopXcvr(c) ==
  /\ c \in enabled /\ Calm(c)
  /\ enabled' = enabled \ {c} /\ running' = running \ {c}
  /\ UNCHANGED <<knob, tuningVars, keyVars, sharedVars, changes>>

\* A fraction that is none is ignored.
TurnKnob(c, k, v) ==
  /\ c \in enabled /\ Change
  /\ knob' = IF k \in FractionKnobs /\ v \notin 0 .. 1 THEN knob
             ELSE [knob EXCEPT ![c] = Turned(@, k, v)]
  /\ UNCHANGED <<enabled, running, tuningVars, keyVars, sharedVars>>

SetMode(c, m) ==
  /\ c \in enabled /\ Change
  /\ mode' = [mode EXCEPT ![c] = m]
  /\ passband' = [passband EXCEPT ![c] = PassbandOf(m)]
  /\ UNCHANGED <<enabled, running, knob, rate, keyVars, sharedVars>>

SetFilter(c, band) ==
  /\ c \in enabled /\ Change
  /\ passband' = [passband EXCEPT ![c] = band]
  /\ UNCHANGED <<enabled, running, knob, mode, rate, keyVars, sharedVars>>

\* The channel is stopped while its rates change, and then it runs.
SetSampleRate(c, r) ==
  /\ c \in enabled /\ Change /\ Calm(c)
  /\ Careful => c \in RxChannels
  /\ rate' = [rate EXCEPT ![c] = r]
  /\ running' = running \cup {c}
  /\ UNCHANGED <<enabled, knob, mode, passband, keyVars, sharedVars>>

\* SETNB takes the number of the command for its argument: the blanker is called
\* from then on, for every channel.  SETENCODING does too, and sets nothing.
SetBlanker(c) ==
  /\ c \in enabled /\ blanker' = TRUE
  /\ UNCHANGED <<enabled, running, knob, tuningVars, keyVars, encoding, heard, changes>>

\* ENABLEAUDIO silences every other channel.
EnableAudio(c, on) ==
  /\ c \in enabled
  /\ heard' = IF on THEN {c} ELSE {}
  /\ UNCHANGED <<enabled, running, knob, tuningVars, keyVars, blanker, encoding, changes>>

\* Mutant of Mox: the receivers are not started again.
MoxDeaf(t, on) ==
  /\ t \in enabled
  /\ mox' = IF on THEN mox \cup {t} ELSE mox \ {t}
  /\ keyed' = IF on THEN keyed \cup {t} ELSE keyed \ {t}
  /\ LET others == Receivers(RadioId[t]) \cap enabled IN
     running' = IF on THEN (running \ others) \cup {t} ELSE running \ {t}
  /\ UNCHANGED <<enabled, knob, tuningVars, sharedVars, changes>>

\* MOX: the receivers of the radio stop before the transmitter runs and the radio
\* is keyed; they run again when it no longer is.
Mox(t, on) ==
  /\ t \in enabled
  /\ mox' = IF on THEN mox \cup {t} ELSE mox \ {t}
  /\ keyed' = IF on THEN keyed \cup {t} ELSE keyed \ {t}
  /\ LET others == Receivers(RadioId[t]) \cap enabled IN
     running' = IF on THEN (running \ others) \cup {t}
                ELSE (running \ {t}) \cup others
  /\ UNCHANGED <<enabled, knob, tuningVars, sharedVars, changes>>

Next ==
  \E c \in Channels :
    \/ StartXcvr(c) \/ StopXcvr(c)
    \/ \E k \in Knobs, v \in 1 .. 2 : TurnKnob(c, k, v)
    \/ \E m \in {"LSB", "AM", "FM"} : SetMode(c, m)
    \/ SetFilter(c, <<200, 600>>)
    \/ SetSampleRate(c, 96)
    \/ c \in RxChannels /\ SetBlanker(c)
    \/ c \in RxChannels /\ \E on \in BOOLEAN : EnableAudio(c, on)
    \/ c \in TxChannels /\ \E on \in BOOLEAN : Mox(c, on)

Spec == Init /\ [][Next]_vars
----------------------------------------------------------------------------
(* Properties *)

TypeOK ==
  /\ enabled \subseteq Channels /\ running \subseteq enabled
  /\ DOMAIN knob = Channels /\ \A c \in Channels : DOMAIN knob[c] \subseteq AllKnobs
  /\ mox \subseteq TxChannels /\ keyed \subseteq TxChannels
  /\ blanker \in BOOLEAN /\ encoding \in 0 .. 2 /\ heard \subseteq RxChannels
  /\ changes \in 0 .. MaxChanges

\* A radio transmits or receives, never both and never neither: while its
\* transmitter is keyed its signal is processed and that of no receiver of the
\* radio, and otherwise the signal of every started receiver is.  Clients that
\* unkey before they leave do not leave a radio transmitting.
HalfDuplex ==
  /\ keyed \subseteq enabled
  /\ \A t \in TxChannels \cap enabled :
       /\ (t \in running) <=> (t \in keyed)
       /\ \A c \in Receivers(RadioId[t]) \cap enabled : (c \in running) <=> (t \notin keyed)
=============================================================================
