------------------------- MODULE DspParts_proofs ---------------------------
(*****************************************************************************)
(* Theorems about the parts of dspserver that share no state, side by side   *)
(* as in DspParts: AudioFanout, DspSettings, Bandscope, Alaw, MicQueue and,  *)
(* here alone, SpectrumFanout, for any clients, channels and sizes.          *)
(*****************************************************************************)
EXTENDS DspParts, Sequences, FiniteSets, SequenceTheorems, FiniteSetTheorems, TLAPS

----------------------------------------------------------------------------
(* The audio buffer and the speaker *)

\* A packet brings no more samples than a buffer has room for.
Sizes ==
  /\ AudioBufferSize \in Nat \ {0} /\ AudioBatch \in 0 .. AudioBufferSize /\ AudioMaxBuffers \in Nat

AudioTypes ==
  /\ fUp \in BOOLEAN /\ fListener \in {"starting", "on", "off"} /\ fClients \subseteq AudioClients
  /\ fHeard \subseteq AudioChannels /\ fAdding \in AudioChannels \cup {Audio!None}
  /\ fTodo \in 0 .. AudioBatch
  /\ fBuffer \in Seq(AudioChannels \cup {Audio!None}) /\ Len(fBuffer) < AudioBufferSize
  /\ fSwitched \in BOOLEAN /\ fHeader.pure \in BOOLEAN
  /\ fStop \in BOOLEAN /\ fRxEnabled \in BOOLEAN
  /\ fSpeaker \in {"none", "look", "remove", "leaving"} /\ fPutting \in BOOLEAN

\* The packet in hand completes one buffer at most, and an entry of the list is a
\* buffer that was put; the speaker has seen the one it removes.
Rooms ==
  /\ fBuffers \in 0 .. AudioMaxBuffers /\ fList \in Nat
  /\ fList + (IF fPutting THEN 1 ELSE 0) <= fBuffers
  /\ fAdding # Audio!None =>
       /\ Len(fBuffer) + fTodo < 2 * AudioBufferSize
       /\ Len(fBuffer) + fTodo >= AudioBufferSize => fBuffers < AudioMaxBuffers
  /\ fSpeaker = "remove" => fList >= 1

\* One receiver at most is heard; as long as it stays the same the samples of the
\* buffer are of it, and so is the packet that brings more of them.
OneHeard ==
  /\ \A c, d \in fHeard : c = d
  /\ (~fSwitched /\ fBuffer # <<>>) =>
       /\ \A k \in DOMAIN fBuffer : fBuffer[k] \in fHeard
       /\ fAdding # Audio!None => fAdding \in fHeard

\* The flag says that there is a speaker thread, which leaves only to a stop.
Flagged ==
  /\ fRxEnabled <=> fSpeaker # "none"
  /\ AudioOrderly /\ fSpeaker = "leaving" => fStop

AudioInv == AudioTypes /\ Rooms /\ OneHeard /\ Audio!BufferOfOne /\ Flagged

LEMMA AudioStart == ASSUME Sizes PROVE Audio!Init => AudioInv
<1> SUFFICES ASSUME Audio!Init PROVE AudioInv
  OBVIOUS
<1> USE DEF Audio!Init, Sizes
<1>1. fBuffer \in Seq(AudioChannels \cup {Audio!None}) /\ Len(fBuffer) = 0
  <2>1. <<>> \in Seq(AudioChannels \cup {Audio!None}) /\ Len(<<>>) = 0
    OBVIOUS
  <2> QED BY <2>1
<1>2. AudioTypes
  <2>1. /\ fUp \in BOOLEAN /\ fSwitched \in BOOLEAN /\ fHeader.pure \in BOOLEAN
        /\ fStop \in BOOLEAN /\ fRxEnabled \in BOOLEAN /\ fPutting \in BOOLEAN
    OBVIOUS
  <2>2. /\ fListener = "starting" /\ fClients = {} /\ fHeard = {} /\ fAdding = Audio!None
        /\ fTodo = 0 /\ fSpeaker = "none"
    OBVIOUS
  <2> QED BY ONLY Sizes, <1>1, <2>1, <2>2 DEF AudioTypes, Sizes
<1>3. Rooms /\ OneHeard
  BY DEF Rooms, OneHeard
<1>4. Audio!BufferOfOne /\ Flagged
  BY DEF Audio!BufferOfOne, Flagged
<1> QED BY <1>2, <1>3, <1>4 DEF AudioInv

\* Steps of the clients' connections.
LEMMA AudioConnections ==
  ASSUME AudioInv,
         Audio!Listen \/ \E c \in AudioClients : Audio!Accept(c) \/ Audio!Eof(c)
  PROVE  AudioInv'
<1>1. /\ fUp' \in BOOLEAN /\ fListener' \in {"starting", "on", "off"}
      /\ fClients' \subseteq AudioClients
      /\ UNCHANGED <<fHeard, fAdding, fTodo, fBuffer, fSwitched, fHeader, fBuffers, fList, fStop,
                     fRxEnabled, fSpeaker, fPutting>>
  BY DEF AudioInv, AudioTypes, Audio!Listen, Audio!Accept, Audio!Eof, Audio!bufferVars,
     Audio!speakerVars
<1>2. AudioTypes'
  BY <1>1 DEF AudioInv, AudioTypes
<1>3. Rooms' /\ OneHeard'
  BY <1>1 DEF AudioInv, Rooms, OneHeard
<1>4. Audio!BufferOfOne' /\ Flagged'
  BY <1>1 DEF AudioInv, Audio!BufferOfOne, Flagged
<1> QED BY <1>2, <1>3, <1>4 DEF AudioInv

\* Another receiver is heard, or none.
LEMMA AudioHeard ==
  ASSUME AudioInv, NEW ch \in AudioChannels,
         Audio!Start(ch) \/ \E on \in BOOLEAN : Audio!EnableAudio(ch, on)
  PROVE  AudioInv'
<1>1. /\ fHeard' \in {{ch}, {}, fHeard \ {ch}}
      /\ fSwitched' = (fSwitched \/ (fBuffer # <<>> /\ fHeard' # fHeard))
      /\ UNCHANGED <<fUp, fListener, fClients, fAdding, fTodo, fBuffer, fHeader, fBuffers, fList,
                     fStop, fRxEnabled, fSpeaker, fPutting>>
  BY DEF Audio!Start, Audio!EnableAudio, Audio!clientVars, Audio!speakerVars
<1>2. fHeard' \subseteq AudioChannels /\ \A c, d \in fHeard' : c = d
  BY <1>1 DEF AudioInv, AudioTypes, OneHeard
<1>3. AudioTypes'
  BY <1>1, <1>2 DEF AudioInv, AudioTypes
<1>4. Rooms'
  BY <1>1 DEF AudioInv, Rooms
<1>5. OneHeard'
  BY <1>1, <1>2 DEF AudioInv, OneHeard
<1>6. Audio!BufferOfOne' /\ Flagged'
  BY <1>1 DEF AudioInv, Audio!BufferOfOne, Flagged
<1> QED BY <1>3, <1>4, <1>5, <1>6 DEF AudioInv

\* A packet begins, with the receiver that is heard, and ends.
LEMMA AudioPacket ==
  ASSUME Sizes, AudioInv, Audio!PacketEnd \/ \E ch \in AudioChannels : Audio!Packet(ch)
  PROVE  AudioInv'
<1> USE DEF Sizes
<1>1. CASE Audio!PacketEnd
  <2>1. /\ fAdding' = Audio!None
        /\ UNCHANGED <<fUp, fListener, fClients, fHeard, fTodo, fBuffer, fSwitched, fHeader,
                       fBuffers, fList, fStop, fRxEnabled, fSpeaker, fPutting>>
    BY <1>1 DEF Audio!PacketEnd, Audio!clientVars, Audio!speakerVars
  <2>2. AudioTypes' /\ Rooms'
    BY <2>1 DEF AudioInv, AudioTypes, Rooms
  <2>3. OneHeard' /\ Audio!BufferOfOne' /\ Flagged'
    BY <2>1 DEF AudioInv, OneHeard, Audio!BufferOfOne, Flagged
  <2> QED BY <2>2, <2>3 DEF AudioInv
<1>2. ASSUME NEW ch \in AudioChannels, Audio!Packet(ch) PROVE AudioInv'
  <2>1. /\ ch \in fHeard /\ fBuffers < AudioMaxBuffers /\ fAdding' = ch /\ fTodo' = AudioBatch
        /\ UNCHANGED <<fUp, fListener, fClients, fHeard, fBuffer, fSwitched, fHeader, fBuffers,
                       fList, fStop, fRxEnabled, fSpeaker, fPutting>>
    BY <1>2 DEF Audio!Packet, Audio!clientVars, Audio!speakerVars
  <2>2. AudioTypes'
    BY <2>1 DEF AudioInv, AudioTypes
  <2>3. Rooms'
    <3>1. Len(fBuffer) \in Nat /\ Len(fBuffer) < AudioBufferSize
      BY DEF AudioInv, AudioTypes
    <3> QED BY <2>1, <3>1 DEF AudioInv, Rooms
  <2>4. OneHeard' /\ Audio!BufferOfOne' /\ Flagged'
    BY <2>1 DEF AudioInv, OneHeard, Audio!BufferOfOne, Flagged
  <2> QED BY <2>2, <2>3, <2>4 DEF AudioInv
<1> QED BY <1>1, <1>2

\* A sample; the last one makes a buffer that is put next.
LEMMA AudioSample ==
  ASSUME Sizes, AudioInv, Audio!PutSample
  PROVE  AudioInv'
<1> USE DEF Sizes
<1>1. /\ fAdding # Audio!None /\ fTodo > 0 /\ ~fPutting /\ fTodo' = fTodo - 1
      /\ UNCHANGED <<fUp, fListener, fClients, fHeard, fAdding, fList, fStop, fRxEnabled, fSpeaker>>
  BY DEF Audio!PutSample, Audio!clientVars, Audio!speakerVars
<1>2. /\ fBuffer \in Seq(AudioChannels \cup {Audio!None}) /\ Len(fBuffer) \in Nat
      /\ Len(fBuffer) < AudioBufferSize /\ fTodo \in 1 .. AudioBatch /\ fTodo' \in 0 .. AudioBatch
      /\ fAdding \in AudioChannels
  BY <1>1 DEF AudioInv, AudioTypes
<1>3. /\ Len(fBuffer) + fTodo < 2 * AudioBufferSize
      /\ Len(fBuffer) + fTodo >= AudioBufferSize => fBuffers < AudioMaxBuffers
      /\ fBuffers \in 0 .. AudioMaxBuffers /\ fList \in Nat /\ fList <= fBuffers
  BY <1>1 DEF AudioInv, Rooms
<1>4. Flagged'
  BY <1>1 DEF AudioInv, Flagged
<1>5. CASE Audio!Full
  <2>1. /\ fHeader' = [index |-> fAdding,
                       of |-> {fAdding} \cup {fBuffer[k] : k \in DOMAIN fBuffer},
                       pure |-> ~fSwitched]
        /\ fBuffer' = <<>> /\ fSwitched' = FALSE
        /\ fBuffers' = fBuffers + 1 /\ fPutting' = TRUE
    BY <1>5 DEF Audio!PutSample
  <2>2. fBuffer' \in Seq(AudioChannels \cup {Audio!None}) /\ Len(fBuffer') = 0
    <3>1. <<>> \in Seq(AudioChannels \cup {Audio!None}) /\ Len(<<>>) = 0
      OBVIOUS
    <3> QED BY <2>1, <3>1
  <2>3. fHeader'.pure \in BOOLEAN /\ fSwitched' \in BOOLEAN /\ fPutting' \in BOOLEAN
    BY <2>1
  <2>4. AudioTypes'
    <3>1. AudioTypes
      BY DEF AudioInv
    <3> QED BY ONLY Sizes, <1>1, <1>2, <2>2, <2>3, <3>1 DEF AudioTypes, Sizes
  <2>5. Len(fBuffer) + 1 = AudioBufferSize
    BY <1>5 DEF Audio!Full
  <2>6. Rooms'
    BY <1>1, <1>2, <1>3, <2>1, <2>2, <2>5 DEF AudioInv, Rooms
  <2>7. OneHeard'
    BY <1>1, <2>1 DEF AudioInv, OneHeard
  <2>8. Audio!BufferOfOne'
    <3> SUFFICES ASSUME ~fSwitched, NEW k \in DOMAIN fBuffer PROVE fBuffer[k] = fAdding
      BY <2>1 DEF Audio!BufferOfOne
    <3>1. fBuffer # <<>>
      OBVIOUS
    <3> QED BY <1>1, <3>1 DEF AudioInv, OneHeard
  <2> QED BY <1>4, <2>4, <2>6, <2>7, <2>8 DEF AudioInv
<1>6. CASE ~Audio!Full
  <2>1. /\ fBuffer' = Append(fBuffer, fAdding)
        /\ fSwitched' = (fSwitched \/ fAdding \notin fHeard)
        /\ UNCHANGED <<fHeader, fBuffers, fPutting>>
    BY <1>6 DEF Audio!PutSample
  <2>2. /\ fBuffer' \in Seq(AudioChannels \cup {Audio!None}) /\ Len(fBuffer') = Len(fBuffer) + 1
        /\ DOMAIN fBuffer' = 1 .. Len(fBuffer) + 1 /\ DOMAIN fBuffer = 1 .. Len(fBuffer)
        /\ \A k \in 1 .. Len(fBuffer) : fBuffer'[k] = fBuffer[k]
        /\ fBuffer'[Len(fBuffer) + 1] = fAdding
    BY <1>2, <2>1
  <2>3. Len(fBuffer) + 1 < AudioBufferSize
    BY <1>2, <1>6 DEF Audio!Full
  <2>4. AudioTypes'
    BY <1>1, <1>2, <2>1, <2>2, <2>3 DEF AudioInv, AudioTypes
  <2>5. Rooms'
    BY <1>1, <1>2, <1>3, <2>1, <2>2 DEF AudioInv, Rooms
  <2>6. OneHeard'
    <3>1. \A c, d \in fHeard' : c = d
      BY <1>1 DEF AudioInv, OneHeard
    <3>2. ASSUME ~fSwitched', NEW k \in DOMAIN fBuffer' PROVE fBuffer'[k] \in fHeard'
      <4>1. ~fSwitched /\ fAdding \in fHeard
        BY <2>1, <3>2
      <4>2. CASE k = Len(fBuffer) + 1
        BY <1>1, <2>2, <4>1, <4>2
      <4>3. CASE k \in 1 .. Len(fBuffer)
        <5>1. fBuffer # <<>>
          BY <1>2, <4>3
        <5> QED BY <1>1, <2>2, <4>1, <4>3, <5>1 DEF AudioInv, OneHeard
      <4> QED BY <1>2, <2>2, <3>2, <4>2, <4>3
    <3>3. ~fSwitched' => fAdding' \in fHeard'
      BY <1>1, <2>1
    <3> QED BY <3>1, <3>2, <3>3 DEF OneHeard
  <2>7. Audio!BufferOfOne'
    BY <2>1 DEF AudioInv, Audio!BufferOfOne
  <2> QED BY <1>4, <2>4, <2>5, <2>6, <2>7 DEF AudioInv
<1> QED BY <1>5, <1>6

\* The speaker's list and its thread.
LEMMA AudioSpeaker ==
  ASSUME AudioInv,
         \/ Audio!Put \/ Audio!Attach \/ Audio!StopAll
         \/ Audio!SpeakerLook \/ Audio!SpeakerRemove \/ Audio!SpeakerEnd
  PROVE  AudioInv'
<1>1. UNCHANGED <<fListener, fClients, fHeard, fAdding, fTodo, fBuffer, fSwitched, fHeader,
                  fBuffers>>
  BY DEF Audio!Put, Audio!Attach, Audio!StopAll, Audio!SpeakerLook, Audio!SpeakerRemove,
     Audio!SpeakerEnd, Audio!clientVars, Audio!bufferVars
<1>2. /\ fList \in Nat /\ fBuffers \in Nat /\ fUp \in BOOLEAN /\ fStop \in BOOLEAN
      /\ fRxEnabled \in BOOLEAN /\ fPutting \in BOOLEAN
      /\ fList + (IF fPutting THEN 1 ELSE 0) <= fBuffers
      /\ fSpeaker = "remove" => fList >= 1
      /\ fSpeaker \in {"none", "look", "remove", "leaving"}
      /\ fRxEnabled <=> fSpeaker # "none"
      /\ AudioOrderly /\ fSpeaker = "leaving" => fStop
  BY DEF AudioInv, AudioTypes, Rooms, Flagged
<1>3. /\ fList' \in Nat /\ fList' + (IF fPutting' THEN 1 ELSE 0) <= fBuffers
      /\ fSpeaker' = "remove" => fList' >= 1
  <2>1. CASE Audio!Put
    <3>1. /\ fPutting /\ ~fPutting' /\ fSpeaker' = fSpeaker /\ fList' \in {fList, fList + 1}
          /\ fSpeaker # "remove" => fList' = fList + 1
      BY <1>2, <2>1 DEF Audio!Put, Audio!speakerVars
    <3>2. (IF fPutting' THEN 1 ELSE 0) = 0 /\ (IF fPutting THEN 1 ELSE 0) = 1
      BY <3>1
    <3>3. fList + 1 <= fBuffers
      BY <1>2, <3>2
    <3>4. fList' \in Nat /\ fList' <= fBuffers
      BY <1>2, <3>1, <3>3
    <3>5. fSpeaker' = "remove" => fList' >= 1
      BY <1>2, <3>1
    <3> QED BY <3>2, <3>4, <3>5
  <2>2. CASE Audio!SpeakerRemove
    BY <1>2, <2>2 DEF Audio!SpeakerRemove
  <2>3. CASE Audio!SpeakerLook
    BY <1>2, <2>3 DEF Audio!SpeakerLook
  <2>4. CASE Audio!Attach
    BY <1>2, <2>4 DEF Audio!Attach
  <2>5. CASE Audio!StopAll \/ Audio!SpeakerEnd
    BY <1>2, <2>5 DEF Audio!StopAll, Audio!SpeakerEnd
  <2> QED BY <2>1, <2>2, <2>3, <2>4, <2>5
<1>4. /\ fUp' \in BOOLEAN /\ fStop' \in BOOLEAN /\ fRxEnabled' \in BOOLEAN /\ fPutting' \in BOOLEAN
      /\ fSpeaker' \in {"none", "look", "remove", "leaving"}
  BY <1>2 DEF Audio!Put, Audio!Attach, Audio!StopAll, Audio!SpeakerLook,
     Audio!SpeakerRemove, Audio!SpeakerEnd, Audio!speakerVars
<1>5. Flagged'
  BY <1>2 DEF Flagged, Audio!Put, Audio!Attach, Audio!StopAll, Audio!SpeakerLook,
     Audio!SpeakerRemove, Audio!SpeakerEnd, Audio!speakerVars
<1>6. AudioTypes'
  BY <1>1, <1>4 DEF AudioInv, AudioTypes
<1>7. Rooms'
  BY <1>1, <1>3 DEF AudioInv, Rooms
<1>8. OneHeard' /\ Audio!BufferOfOne'
  BY <1>1 DEF AudioInv, OneHeard, Audio!BufferOfOne
<1> QED BY <1>5, <1>6, <1>7, <1>8 DEF AudioInv

\* Whoever listens and however the audio is switched, a buffer during which it was
\* not switched holds samples of the receiver its header names; and clients that
\* attach receivers after the last session's speaker thread has ended have one that
\* empties the list (audio_stream_put_samples, rx_audio_thread, start_rx_audio).
THEOREM AudioCorrect ==
  ASSUME Sizes
  PROVE  Audio!Spec => []AudioServed
<1>1. Audio!Init => AudioInv
  BY AudioStart
<1>2. AudioInv /\ [Audio!Next]_(Audio!vars) => AudioInv'
  <2> SUFFICES ASSUME AudioInv, [Audio!Next]_(Audio!vars) PROVE AudioInv'
    OBVIOUS
  <2>1. CASE UNCHANGED Audio!vars
    <3>1. UNCHANGED <<fUp, fListener, fClients, fHeard, fAdding, fTodo, fBuffer, fSwitched, fHeader,
                      fBuffers, fList, fStop, fRxEnabled, fSpeaker, fPutting>>
      BY <2>1 DEF Audio!vars, Audio!clientVars, Audio!bufferVars, Audio!speakerVars
    <3>2. AudioTypes' /\ Rooms' /\ OneHeard'
      BY <3>1 DEF AudioInv, AudioTypes, Rooms, OneHeard
    <3> QED BY <3>1, <3>2 DEF AudioInv, Audio!BufferOfOne, Flagged
  <2>2. CASE Audio!Next
    BY <2>2, AudioConnections, AudioHeard, AudioPacket, AudioSample, AudioSpeaker DEF Audio!Next
  <2> QED BY <2>1, <2>2
<1>3. AudioInv => AudioServed
  <2> SUFFICES ASSUME AudioInv PROVE AudioServed
    OBVIOUS
  <2>1. fList \in 0 .. AudioMaxBuffers
    BY DEF AudioInv, AudioTypes, Rooms, Sizes
  <2>2. Audio!TypeOK
    BY <2>1 DEF AudioInv, AudioTypes, Rooms, Audio!TypeOK
  <2>3. Audio!SpeakerLives
    BY DEF AudioInv, AudioTypes, Flagged, Audio!SpeakerLives
  <2> QED BY <2>2, <2>3 DEF AudioInv, AudioServed
<1> QED BY <1>1, <1>2, <1>3, PTL DEF Audio!Spec

----------------------------------------------------------------------------
(* Push-to-talk *)

\* A channel receives or transmits, a radio has one transmitter, and its clients
\* start, stop and retune its channels only while it is not keyed.
OneTransmitter ==
  /\ SettingsCareful /\ SettingsRxChannels \cap SettingsTxChannels = {}
  /\ \A t, u \in SettingsTxChannels : SettingsRadioId[t] = SettingsRadioId[u] => t = u

\* The receivers that run are those of the radios that are not keyed, whether
\* their transmitter was started or not.
Keying ==
  /\ sKeyed = sMox /\ sKeyed \subseteq SettingsTxChannels \cap sEnabled
  /\ sEnabled \subseteq Settings!Channels /\ sRunning \subseteq sEnabled
  /\ \A t \in SettingsTxChannels : t \in sRunning <=> t \in sKeyed
  /\ \A c \in SettingsRxChannels \cap sEnabled :
       c \in sRunning <=> \A t \in sKeyed : SettingsRadioId[t] # SettingsRadioId[c]

\* The knobs clients turn are WDSP's.
KnobsKnown == SettingsKnobs \subseteq Settings!AllKnobs /\ SettingsMaxChanges \in Nat

\* Knobs of channels of the table, and what all channels share.
KnobTypes ==
  /\ DOMAIN sKnob = Settings!Channels
  /\ \A c \in Settings!Channels : DOMAIN sKnob[c] \subseteq Settings!AllKnobs
  /\ sBlanker \in BOOLEAN /\ sEncoding \in 0 .. 2 /\ sHeard \subseteq SettingsRxChannels
  /\ sChanges \in 0 .. SettingsMaxChanges

LEMMA SettingsStart == ASSUME KnobsKnown PROVE Settings!Init => Keying /\ KnobTypes
<1> SUFFICES ASSUME Settings!Init PROVE Keying /\ KnobTypes
  OBVIOUS
<1>1. Keying
  BY DEF Settings!Init, Keying
<1>2. sKnob = [c \in Settings!Channels |-> [k \in {} |-> 0]]
  BY DEF Settings!Init
<1>3. DOMAIN sKnob = Settings!Channels /\ \A c \in Settings!Channels : DOMAIN sKnob[c] = {}
  BY <1>2
<1>4. sBlanker \in BOOLEAN
  BY DEF Settings!Init
<1>5. sEncoding \in 0 .. 2 /\ sHeard = {} /\ sChanges \in 0 .. SettingsMaxChanges
  BY DEF Settings!Init, KnobsKnown
<1>6. KnobTypes
  BY <1>3, <1>4, <1>5 DEF KnobTypes
<1> QED BY <1>1, <1>6

\* Starting, stopping and retuning a channel, while its radio is not keyed.
LEMMA KeyingChannel ==
  ASSUME OneTransmitter, Keying, NEW c \in Settings!Channels,
         Settings!StartXcvr(c) \/ Settings!StopXcvr(c) \/ Settings!SetSampleRate(c, 96)
  PROVE  Keying'
<1> USE DEF OneTransmitter, Keying, Settings!Channels, Settings!keyVars
<1>1. UNCHANGED <<sMox, sKeyed>> /\ \A t \in sKeyed : SettingsRadioId[t] # SettingsRadioId[c]
  BY DEF Settings!StartXcvr, Settings!StopXcvr, Settings!SetSampleRate, Settings!tuningVars,
     Settings!Calm
<1>2. CASE Settings!StartXcvr(c) /\ c \in SettingsRxChannels
  BY <1>1, <1>2 DEF Settings!StartXcvr
<1>3. CASE Settings!StartXcvr(c) /\ c \notin SettingsRxChannels
  BY <1>1, <1>3 DEF Settings!StartXcvr
<1>4. CASE Settings!StopXcvr(c)
  BY <1>1, <1>4 DEF Settings!StopXcvr
<1>5. CASE Settings!SetSampleRate(c, 96)
  BY <1>1, <1>5 DEF Settings!SetSampleRate
<1> QED BY <1>2, <1>3, <1>4, <1>5

\* Push-to-talk stops or starts every receiver of the radio, and no other.
LEMMA KeyingMox ==
  ASSUME OneTransmitter, Keying, NEW t \in SettingsTxChannels, NEW on \in BOOLEAN,
         Settings!Mox(t, on)
  PROVE  Keying'
<1> USE DEF OneTransmitter, Keying, Settings!Channels, Settings!Receivers
<1>1. /\ t \in sEnabled /\ UNCHANGED sEnabled
      /\ sMox' = IF on THEN sMox \cup {t} ELSE sMox \ {t}
      /\ sKeyed' = IF on THEN sKeyed \cup {t} ELSE sKeyed \ {t}
      /\ LET others == {c \in SettingsRxChannels : SettingsRadioId[c] = SettingsRadioId[t]}
                           \cap sEnabled IN
         sRunning' = IF on THEN (sRunning \ others) \cup {t} ELSE (sRunning \ {t}) \cup others
  BY DEF Settings!Mox
<1>2. /\ sKeyed' = sMox' /\ sKeyed' \subseteq SettingsTxChannels \cap sEnabled'
      /\ sRunning' \subseteq sEnabled'
  BY <1>1
<1>3. \A u \in SettingsTxChannels : u \in sRunning' <=> u \in sKeyed'
  BY <1>1
<1>4. ASSUME NEW c \in SettingsRxChannels \cap sEnabled
      PROVE  c \in sRunning' <=> \A u \in sKeyed' : SettingsRadioId[u] # SettingsRadioId[c]
  <2>1. CASE SettingsRadioId[c] = SettingsRadioId[t]
    <3>1. CASE on
      BY <1>1, <2>1, <3>1
    <3>2. CASE ~on
      <4>1. c \in sRunning' /\ \A u \in sKeyed' : u \in SettingsTxChannels /\ u # t
        BY <1>1, <2>1, <3>2
      <4> QED BY <2>1, <4>1
    <3> QED BY <3>1, <3>2
  <2>2. CASE SettingsRadioId[c] # SettingsRadioId[t]
    BY <1>1, <2>2
  <2> QED BY <2>1, <2>2
<1> QED BY <1>1, <1>2, <1>3, <1>4

LEMMA KeyingStep ==
  ASSUME OneTransmitter
  PROVE  Keying /\ [Settings!Next]_(Settings!vars) => Keying'
<1> SUFFICES ASSUME Keying, [Settings!Next]_(Settings!vars) PROVE Keying'
  OBVIOUS
<1>1. ASSUME NEW c \in Settings!Channels,
             Settings!StartXcvr(c) \/ Settings!StopXcvr(c) \/ Settings!SetSampleRate(c, 96)
      PROVE  Keying'
  BY <1>1, KeyingChannel
<1>2. ASSUME NEW t \in SettingsTxChannels, NEW on \in BOOLEAN, Settings!Mox(t, on) PROVE Keying'
  BY <1>2, KeyingMox
<1>3. CASE UNCHANGED <<sEnabled, sRunning, sMox, sKeyed>>
  BY <1>3 DEF Keying
<1>4. ASSUME NEW c \in Settings!Channels,
             \/ \E k \in SettingsKnobs, v \in 1 .. 2 : Settings!TurnKnob(c, k, v)
             \/ \E m \in {"LSB", "AM", "FM"} : Settings!SetMode(c, m)
             \/ Settings!SetFilter(c, <<200, 600>>) \/ Settings!SetBlanker(c)
             \/ \E on \in BOOLEAN : Settings!EnableAudio(c, on)
      PROVE  UNCHANGED <<sEnabled, sRunning, sMox, sKeyed>>
  BY <1>4 DEF Settings!TurnKnob, Settings!SetMode, Settings!SetFilter, Settings!SetBlanker,
     Settings!EnableAudio, Settings!keyVars
<1>5. UNCHANGED Settings!vars => UNCHANGED <<sEnabled, sRunning, sMox, sKeyed>>
  BY DEF Settings!vars, Settings!keyVars
<1> QED BY <1>1, <1>2, <1>3, <1>4, <1>5 DEF Settings!Next

\* What a start sets up, and one knob more, are knobs.
LEMMA KnobsSetUp ==
  /\ DOMAIN Settings!RxDefaults \subseteq Settings!AllKnobs
  /\ DOMAIN Settings!Quiet(Settings!TxDefaults) \subseteq Settings!AllKnobs
<1>1. {"anf", "anr", "rxEq", "agcMode", "pan", "emnrGain"} \subseteq Settings!AllKnobs
  BY DEF Settings!AllKnobs, Settings!SwitchKnobs, Settings!EqualizerKnobs, Settings!GainKnobs,
     Settings!NoiseKnobs
<1>2. {"preRun", "postRun", "txEq", "compressor", "overshoot", "leveler", "cfir", "alcAttack",
       "emphasis", "preTone"} \subseteq Settings!AllKnobs
  BY DEF Settings!AllKnobs, Settings!PreGeneratorKnobs, Settings!PostGeneratorKnobs,
     Settings!EqualizerKnobs, Settings!OvershootKnobs, Settings!LevelerKnobs, Settings!SwitchKnobs,
     Settings!LimiterKnobs, Settings!FractionKnobs
<1>3. DOMAIN Settings!RxDefaults = {"anf", "anr", "rxEq", "agcMode", "pan", "emnrGain"}
  BY DEF Settings!RxDefaults
<1>4. DOMAIN Settings!Quiet(Settings!TxDefaults)
        = {"preRun", "postRun", "txEq", "compressor", "overshoot", "leveler", "cfir", "alcAttack",
           "emphasis"} \cup {"preTone"}
  BY DEF Settings!Quiet, Settings!Turned, Settings!TxDefaults
<1> QED BY <1>1, <1>2, <1>3, <1>4

\* No command sets what is no knob, or something of a channel that is not in the table.
LEMMA KnobTypesStep ==
  ASSUME KnobsKnown
  PROVE  KnobTypes /\ [Settings!Next]_(Settings!vars) => KnobTypes'
<1> SUFFICES ASSUME KnobTypes, [Settings!Next]_(Settings!vars) PROVE KnobTypes'
  OBVIOUS
<1> USE DEF KnobTypes, Settings!sharedVars
<1>1. CASE UNCHANGED Settings!vars
  BY <1>1 DEF Settings!vars
<1>2. ASSUME NEW c \in Settings!Channels, Settings!StartXcvr(c) PROVE KnobTypes'
  <2>1. PICK f : DOMAIN f \subseteq Settings!AllKnobs /\ sKnob' = [sKnob EXCEPT ![c] = f]
    BY <1>2, KnobsSetUp DEF Settings!StartXcvr
  <2>2. /\ UNCHANGED <<sBlanker, sEncoding, sChanges>> /\ sHeard' \subseteq sHeard
    BY <1>2 DEF Settings!StartXcvr
  <2> QED BY <2>1, <2>2
<1>3. ASSUME NEW c \in Settings!Channels, NEW k \in SettingsKnobs, NEW v \in 1 .. 2,
             Settings!TurnKnob(c, k, v)
      PROVE  KnobTypes'
  <2>1. DOMAIN Settings!Turned(sKnob[c], k, v) \subseteq Settings!AllKnobs
    BY DEF Settings!Turned, KnobsKnown
  <2>2. sKnob' = sKnob \/ sKnob' = [sKnob EXCEPT ![c] = Settings!Turned(sKnob[c], k, v)]
    BY <1>3 DEF Settings!TurnKnob
  <2>3. UNCHANGED <<sBlanker, sEncoding, sHeard>> /\ sChanges' \in 0 .. SettingsMaxChanges
    BY <1>3 DEF Settings!TurnKnob, Settings!Change, KnobsKnown
  <2> HIDE DEF Settings!Turned
  <2> QED BY <2>1, <2>2, <2>3
<1>4. ASSUME NEW c \in Settings!Channels,
             \/ \E m \in {"LSB", "AM", "FM"} : Settings!SetMode(c, m)
             \/ Settings!SetFilter(c, <<200, 600>>) \/ Settings!SetSampleRate(c, 96)
      PROVE  KnobTypes'
  <2>1. UNCHANGED <<sKnob, sBlanker, sEncoding, sHeard>> /\ sChanges' \in 0 .. SettingsMaxChanges
    BY <1>4 DEF Settings!SetMode, Settings!SetFilter, Settings!SetSampleRate, Settings!Change,
       KnobsKnown
  <2> QED BY <2>1
<1>5. ASSUME NEW c \in Settings!Channels,
             \/ Settings!StopXcvr(c) \/ Settings!SetBlanker(c)
             \/ c \in SettingsRxChannels /\ \E on \in BOOLEAN : Settings!EnableAudio(c, on)
             \/ \E on \in BOOLEAN : Settings!Mox(c, on)
      PROVE  KnobTypes'
  <2>1. /\ UNCHANGED <<sKnob, sEncoding, sChanges>> /\ sBlanker' \in BOOLEAN
        /\ sHeard' \subseteq SettingsRxChannels
    BY <1>5 DEF Settings!StopXcvr, Settings!SetBlanker, Settings!EnableAudio, Settings!Mox
  <2> QED BY <2>1
<1> QED BY <1>1, <1>2, <1>3, <1>4, <1>5 DEF Settings!Next

\* A radio transmits or receives, never both and never neither, through every
\* order of push-to-talk, starting, stopping and retuning its channels and those
\* of other radios (the commands MOX, STARTXCVR, STOPXCVR and SETSAMPLERATE).
THEOREM DuplexCorrect ==
  ASSUME OneTransmitter, KnobsKnown
  PROVE  Settings!Spec => []HalfDuplex
<1>1. Keying => Settings!HalfDuplex
  <2> SUFFICES ASSUME Keying PROVE Settings!HalfDuplex
    OBVIOUS
  <2>1. ASSUME NEW t \in SettingsTxChannels \cap sEnabled,
               NEW c \in Settings!Receivers(SettingsRadioId[t]) \cap sEnabled
        PROVE  c \in sRunning <=> t \notin sKeyed
    <3>1. c \in SettingsRxChannels \cap sEnabled /\ SettingsRadioId[c] = SettingsRadioId[t]
      BY DEF Settings!Receivers
    <3>2. \A u \in sKeyed : SettingsRadioId[u] = SettingsRadioId[c] => u = t
      BY <3>1 DEF OneTransmitter, Keying
    <3> QED BY <3>1, <3>2 DEF Keying
  <2> QED BY <2>1 DEF Keying, Settings!HalfDuplex
<1>2. Keying /\ KnobTypes => HalfDuplex
  BY <1>1 DEF HalfDuplex, Settings!TypeOK, Keying, KnobTypes
<1>3. Keying /\ KnobTypes /\ [Settings!Next]_(Settings!vars) => (Keying /\ KnobTypes)'
  BY KeyingStep, KnobTypesStep
<1> QED BY <1>2, <1>3, SettingsStart, PTL DEF Settings!Spec

----------------------------------------------------------------------------
(* The bandscope *)

\* One client at a time starts the bandscope and stops it, and the library fills
\* a buffer within the pauses of a stop; no client is mistaken for nobody.
InOrder == ScopeOrderly /\ ScopeNone \notin ScopeClients /\ ScopeMaxBuffers \in Nat

ScopeTypes ==
  /\ bUp \in BOOLEAN /\ bListener \in {"starting", "on", "off"} /\ bLeft \subseteq ScopeClients
  /\ bList = <<>> \/ \E c \in ScopeClients \ bLeft : bList = <<c>>
  /\ bEnabled \in BOOLEAN /\ bLastTimer \in BOOLEAN /\ (bLastTimer => bTimers > 0)
  /\ bBuffers \in 0 .. ScopeMaxBuffers /\ bBuffer \in 0 .. bBuffers /\ bTimers \in 0 .. bBuffers
  /\ bCommand \in {"idle", "disable", "pause"} /\ bWbSem \in BOOLEAN
  /\ bWbSem <=> bCommand = "pause"
  /\ bHandler \in {"idle", "look", "fill", "first", "walk"}
  /\ bCounter \in 0 .. Scope!Period /\ bOffset \in 0 .. 7

\* While the channel is enabled there is a buffer, and a client that started it or
\* the stop that is about to disable it; so the buffer the library fills cannot be
\* replaced, and the client the handler looks at cannot leave under it.
Guarded ==
  /\ bOn \subseteq Scope!ToSet(bList)
  /\ bEnabled => bBuffer # 0 /\ (bOn # {} \/ bCommand = "disable")
  /\ bCommand # "idle" => bOn = {}
  /\ bHandler # "idle" => bItem \notin bLeft
  /\ bHandler = "fill" => bInto = bBuffer /\ bBuffer # 0 /\ (bOn # {} \/ bCommand # "idle")

ScopeInv == ScopeTypes /\ Guarded /\ (bListener # "off" => bUp)

\* The list of one client.
LEMMA OneClient ==
  ASSUME NEW c
  PROVE  /\ \A d : Scope!Contains(<<c>>, d) <=> d = c
         /\ Scope!ToSet(<<c>>) = {c} /\ Head(<<c>>) = c /\ Scope!Last(<<c>>) = c
         /\ Scope!RemoveFirst(<<c>>, c) = <<>> /\ <<c>> # <<>> /\ Append(<<>>, c) = <<c>>
<1> DEFINE s == <<c>>
           S == {c}
           first == Scope!SelectInSeq(s, LAMBDA v : v = c)
           I == {i \in 1 .. Len(s) : s[i] = c}
<1>1. s \in Seq(S) /\ Len(s) = 1 /\ s[1] = c /\ DOMAIN s = {1} /\ 1 \in I
  OBVIOUS
<1>2. first = 1
  <2>1. Scope!Min(I) = 1
    BY <1>1 DEF Scope!Min
  <2> QED BY <1>1, <2>1 DEF Scope!SelectInSeq
<1>3. Scope!RemoveFirst(s, c) = Scope!RemoveAt(s, first)
  <2>1. \E i \in 1 .. Len(s) : s[i] = c
    BY <1>1
  <2> QED BY <2>1, Zenon DEF Scope!RemoveFirst
<1>4. Scope!RemoveFirst(s, c) = Scope!RemoveAt(s, 1)
  BY <1>2, <1>3, Zenon
<1>5. Scope!RemoveAt(s, 1) = <<>>
  BY <1>1 DEF Scope!RemoveAt
<1>6. \A d : Scope!Contains(s, d) <=> d = c
  BY <1>1 DEF Scope!Contains
<1>7. Scope!ToSet(s) = {c}
  BY <1>1 DEF Scope!ToSet
<1>8. Head(s) = c /\ Scope!Last(s) = c /\ s # <<>> /\ Append(<<>>, c) = s
  BY <1>1 DEF Scope!Last
<1> QED BY <1>4, <1>5, <1>6, <1>7, <1>8

\* Nobody and nothing is in the empty list.
LEMMA NoClients == Scope!ToSet(<<>>) = {} /\ \A d : ~Scope!Contains(<<>>, d)
<1>1. Len(<<>>) = 0 /\ DOMAIN <<>> = {}
  OBVIOUS
<1> QED BY <1>1 DEF Scope!ToSet, Scope!Contains

LEMMA ScopeStart == ASSUME InOrder PROVE Scope!Init => ScopeInv
<1> SUFFICES ASSUME Scope!Init PROVE ScopeInv
  OBVIOUS
<1> USE DEF InOrder, Scope!Init
<1>1. /\ bUp \in BOOLEAN /\ bEnabled \in BOOLEAN /\ bLastTimer \in BOOLEAN /\ bWbSem \in BOOLEAN
      /\ ~bWbSem /\ ~bEnabled /\ ~bLastTimer /\ bUp
  OBVIOUS
<1>2. ScopeTypes
  BY <1>1 DEF ScopeTypes, Scope!Period
<1>3. Guarded
  BY <1>1, NoClients DEF Guarded
<1> QED BY <1>1, <1>2, <1>3 DEF ScopeInv

\* The list, as the actions meet it.
LEMMA Listed ==
  ASSUME ScopeInv
  PROVE  \/ bList = <<>> /\ bOn = {} /\ \A d : ~Scope!Contains(bList, d)
         \/ \E c \in ScopeClients \ bLeft :
              /\ bList = <<c>> /\ bOn \subseteq {c} /\ Head(bList) = c /\ Scope!Last(bList) = c
              /\ \A d : Scope!Contains(bList, d) <=> d = c
              /\ Scope!RemoveFirst(bList, c) = <<>>
<1>1. CASE bList = <<>>
  BY <1>1, NoClients DEF ScopeInv, Guarded
<1>2. ASSUME NEW c \in ScopeClients \ bLeft, bList = <<c>>
      PROVE  /\ bOn \subseteq {c} /\ Head(bList) = c /\ Scope!Last(bList) = c
             /\ \A d : Scope!Contains(bList, d) <=> d = c
             /\ Scope!RemoveFirst(bList, c) = <<>>
  BY <1>2, OneClient DEF ScopeInv, Guarded
<1> QED BY <1>1, <1>2 DEF ScopeInv, ScopeTypes

\* The socket comes up or not; a client connects.
LEMMA ScopeAccept ==
  ASSUME InOrder, ScopeInv, NEW c, Scope!Listen \/ (c \in ScopeClients /\ Scope!Accept(c))
  PROVE  ScopeInv'
<1> USE DEF InOrder, Scope!listVars, Scope!channelVars, Scope!bufferVars, Scope!timerVars,
            Scope!handlerVars
<1>1. CASE Scope!Listen
  <2>1. /\ UNCHANGED <<bList, bLeft, bOn, bEnabled, bBuffer, bBuffers, bTimers, bLastTimer,
                       bCommand, bWbSem, bHandler, bItem, bInto, bCounter, bOffset>>
        /\ bUp' \in BOOLEAN /\ bListener' \in {"on", "off"} /\ (bListener' # "off" => bUp')
    BY <1>1 DEF Scope!Listen
  <2>2. ScopeTypes' /\ Guarded'
    BY <2>1 DEF ScopeInv, ScopeTypes, Guarded
  <2> QED BY <2>1, <2>2 DEF ScopeInv
<1>2. CASE c \in ScopeClients /\ Scope!Accept(c)
  <2>1. /\ UNCHANGED <<bUp, bListener, bLeft, bOn, bEnabled, bBuffer, bBuffers, bTimers, bLastTimer,
                       bCommand, bWbSem, bHandler, bItem, bInto, bCounter, bOffset>>
        /\ bList = <<>> /\ bList' = Append(bList, c) /\ c \in ScopeClients \ bLeft
    BY <1>2 DEF Scope!Accept
  <2>2. bList' = <<c>> /\ Scope!ToSet(bList') = {c} /\ bOn' = {}
    BY <2>1, OneClient, NoClients DEF ScopeInv, Guarded
  <2>3. ScopeTypes'
    BY <2>1, <2>2 DEF ScopeInv, ScopeTypes
  <2>4. Guarded'
    BY <2>1, <2>2, Listed DEF ScopeInv, Guarded
  <2> QED BY <2>1, <2>3, <2>4 DEF ScopeInv
<1> QED BY <1>1, <1>2

\* STARTBANDSCOPE and STOPBANDSCOPE.
LEMMA ScopeCommands ==
  ASSUME InOrder, ScopeInv, NEW c,
         \/ Scope!StartBandscope(c) \/ Scope!StopTimer(c) \/ Scope!StopDisable \/ Scope!StopFree
  PROVE  ScopeInv'
<1> USE DEF InOrder, Scope!listVars, Scope!channelVars, Scope!bufferVars, Scope!timerVars,
            Scope!handlerVars
<1>1. CASE Scope!StartBandscope(c)
  <2>1. /\ UNCHANGED <<bUp, bList, bListener, bLeft, bCommand, bWbSem, bHandler, bItem, bInto,
                       bCounter, bOffset>>
        /\ bCommand = "idle" /\ Scope!Contains(bList, c) /\ bBuffers < ScopeMaxBuffers
        /\ c \notin bOn
        /\ bBuffers' = bBuffers + 1 /\ bBuffer' = bBuffers + 1 /\ bTimers' = bTimers + 1
        /\ bOn' = bOn \cup {c}
    BY <1>1 DEF Scope!StartBandscope, Scope!Ready
  <2>2. /\ bLastTimer' /\ bLastTimer' \in BOOLEAN /\ (bEnabled' \/ bEnabled' = bEnabled)
        /\ bEnabled' \in BOOLEAN
    BY <1>1 DEF Scope!StartBandscope, ScopeInv, ScopeTypes
  <2>3. bOn = {} /\ Scope!ToSet(bList) = {c}
    BY <2>1, Listed, OneClient
  <2>4. ScopeTypes'
    BY <2>1, <2>2 DEF ScopeInv, ScopeTypes
  <2>5. Guarded'
    BY <2>1, <2>2, <2>3 DEF ScopeInv, ScopeTypes, Guarded
  <2> QED BY <2>1, <2>4, <2>5 DEF ScopeInv
<1>2. CASE Scope!StopTimer(c)
  <2>1. /\ UNCHANGED <<bUp, bList, bListener, bLeft, bEnabled, bBuffer, bBuffers, bWbSem, bHandler,
                       bItem, bInto, bCounter, bOffset>>
        /\ Scope!Contains(bList, c) /\ bOn' = bOn \ {c}
        /\ bCommand = "idle" /\ bCommand' = "disable"
        /\ bTimers' = IF bLastTimer THEN bTimers - 1 ELSE bTimers
    BY <1>2 DEF Scope!StopTimer, Scope!Ready
  <2>2. ~bLastTimer' /\ bLastTimer' \in BOOLEAN
    BY <1>2 DEF Scope!StopTimer
  <2>3. bTimers' \in 0 .. bBuffers
    BY <2>1 DEF ScopeInv, ScopeTypes
  <2>4. ScopeTypes'
    BY <2>1, <2>2, <2>3 DEF ScopeInv, ScopeTypes
  <2>5. bOn' = {}
    BY <2>1, Listed
  <2>6. Guarded'
    BY <2>1, <2>5 DEF ScopeInv, Guarded
  <2> QED BY <2>1, <2>4, <2>6 DEF ScopeInv
<1>3. CASE Scope!StopDisable
  <2>1. /\ UNCHANGED <<bUp, bList, bListener, bLeft, bOn, bBuffer, bBuffers, bTimers, bLastTimer,
                       bHandler, bItem, bInto, bCounter, bOffset>>
        /\ bCommand = "disable" /\ bCommand' = "pause"
    BY <1>3 DEF Scope!StopDisable
  <2>2. ~bEnabled' /\ bWbSem' /\ bEnabled' \in BOOLEAN /\ bWbSem' \in BOOLEAN
    BY <1>3 DEF Scope!StopDisable
  <2>3. ScopeTypes'
    BY <2>1, <2>2 DEF ScopeInv, ScopeTypes
  <2>4. Guarded'
    BY <2>1, <2>2 DEF ScopeInv, Guarded
  <2> QED BY <2>1, <2>3, <2>4 DEF ScopeInv
<1>4. CASE Scope!StopFree
  <2>1. /\ UNCHANGED <<bUp, bList, bListener, bLeft, bOn, bEnabled, bBuffers, bTimers, bLastTimer,
                       bHandler, bItem, bInto, bCounter, bOffset>>
        /\ bCommand = "pause" /\ bCommand' = "idle" /\ bHandler # "fill" /\ bBuffer' = 0
    BY <1>4 DEF Scope!StopFree
  <2>2. ~bWbSem' /\ bWbSem' \in BOOLEAN
    BY <1>4 DEF Scope!StopFree
  <2>3. ~bEnabled
    BY <2>1 DEF ScopeInv, Guarded
  <2>4. ScopeTypes'
    BY <2>1, <2>2 DEF ScopeInv, ScopeTypes
  <2>5. Guarded'
    BY <2>1, <2>3 DEF ScopeInv, Guarded
  <2> QED BY <2>1, <2>4, <2>5 DEF ScopeInv
<1> QED BY <1>1, <1>2, <1>3, <1>4

\* The only client leaves, when it has stopped the bandscope.
LEMMA ScopeEof ==
  ASSUME InOrder, ScopeInv, NEW c \in ScopeClients, Scope!Eof(c)
  PROVE  ScopeInv'
<1> USE DEF InOrder, Scope!listVars, Scope!channelVars, Scope!bufferVars, Scope!timerVars,
            Scope!handlerVars
<1>1. /\ UNCHANGED <<bUp, bListener, bOn, bBuffers, bTimers, bLastTimer, bCommand, bWbSem, bHandler,
                     bItem, bInto, bCounter, bOffset>>
      /\ Scope!Contains(bList, c) /\ c \notin bOn /\ bHandler = "idle"
      /\ bList' = Scope!RemoveFirst(bList, c) /\ bLeft' = bLeft \cup {c}
  BY DEF Scope!Eof, Scope!Ready
<1>2. UNCHANGED <<bEnabled, bBuffer>>
  BY <1>1 DEF Scope!Eof
<1>3. bList' = <<>> /\ bOn = {}
  BY <1>1, Listed
<1>4. ScopeTypes'
  BY <1>1, <1>2, <1>3 DEF ScopeInv, ScopeTypes
<1>5. Guarded'
  BY <1>1, <1>2, <1>3 DEF ScopeInv, Guarded
<1> QED BY <1>1, <1>4, <1>5 DEF ScopeInv

\* The timer's handler up to the pixels: what it looks at is there.
LEMMA ScopeLook ==
  ASSUME InOrder, ScopeInv, Scope!Tick \/ Scope!Look \/ Scope!Fill
  PROVE  ScopeInv'
<1> USE DEF InOrder, Scope!listVars, Scope!channelVars, Scope!bufferVars, Scope!timerVars
<1>1. CASE Scope!Tick
  <2>1. /\ UNCHANGED <<bUp, bList, bListener, bLeft, bOn, bEnabled, bBuffer, bBuffers, bTimers,
                       bLastTimer, bCommand, bWbSem, bInto, bCounter, bOffset>>
        /\ bHandler' = "look" /\ bItem' = IF bList = <<>> THEN ScopeNone ELSE Head(bList)
    BY <1>1 DEF Scope!Tick
  <2>2. bItem' \notin bLeft
    BY <2>1, Listed DEF ScopeInv, ScopeTypes
  <2>3. ScopeTypes'
    BY <2>1 DEF ScopeInv, ScopeTypes
  <2>4. Guarded'
    BY <2>1, <2>2 DEF ScopeInv, Guarded
  <2> QED BY <2>1, <2>3, <2>4 DEF ScopeInv
<1>2. CASE Scope!Look
  <2>1. /\ UNCHANGED <<bList, bListener, bLeft, bOn, bEnabled, bBuffer, bBuffers, bTimers,
                       bLastTimer, bCommand, bWbSem, bItem, bCounter, bOffset>>
        /\ bHandler = "look" /\ bHandler' \in {"fill", "idle"}
        /\ bHandler' = "fill" => bEnabled /\ bInto' = bBuffer
    BY <1>2 DEF Scope!Look
  <2>2. bUp /\ bUp' /\ bUp' \in BOOLEAN
    BY <1>2, <2>1 DEF Scope!Look, ScopeInv, ScopeTypes, Guarded
  <2>3. ScopeTypes'
    BY <2>1, <2>2 DEF ScopeInv, ScopeTypes
  <2>4. Guarded'
    BY <2>1 DEF ScopeInv, Guarded
  <2> QED BY <2>2, <2>3, <2>4 DEF ScopeInv
<1>3. CASE Scope!Fill
  <2>1. /\ UNCHANGED <<bList, bListener, bLeft, bOn, bEnabled, bBuffer, bBuffers, bTimers,
                       bLastTimer, bCommand, bWbSem, bItem, bInto, bCounter, bOffset>>
        /\ bHandler = "fill" /\ bHandler' \in {"idle", "first"}
    BY <1>3 DEF Scope!Fill
  <2>2. Scope!Live(bInto)
    BY <2>1 DEF ScopeInv, Guarded, Scope!Live
  <2>3. bUp' /\ bUp' \in BOOLEAN
    BY <1>3, <2>2 DEF Scope!Fill
  <2>4. ScopeTypes'
    BY <2>1, <2>3 DEF ScopeInv, ScopeTypes
  <2>5. Guarded'
    BY <2>1 DEF ScopeInv, Guarded
  <2> QED BY <2>3, <2>4, <2>5 DEF ScopeInv
<1> QED BY <1>1, <1>2, <1>3

\* The walk over the list: the client is there, and the buffer when it is sent.
LEMMA ScopeWalk ==
  ASSUME InOrder, ScopeInv, Scope!First \/ Scope!Visit
  PROVE  ScopeInv'
<1> USE DEF InOrder, Scope!listVars, Scope!channelVars, Scope!bufferVars, Scope!timerVars
<1>1. CASE Scope!First
  <2>1. /\ UNCHANGED <<bUp, bList, bListener, bLeft, bOn, bEnabled, bBuffer, bBuffers, bTimers,
                       bLastTimer, bCommand, bWbSem, bInto, bCounter, bOffset>>
        /\ bHandler = "first" /\ bHandler' \in {"idle", "walk"}
        /\ bItem' = IF bList = <<>> THEN bItem ELSE Head(bList)
    BY <1>1 DEF Scope!First
  <2>2. bItem' \notin bLeft
    BY <2>1, Listed DEF ScopeInv, Guarded
  <2>3. ScopeTypes'
    BY <2>1 DEF ScopeInv, ScopeTypes
  <2>4. Guarded'
    BY <2>1, <2>2 DEF ScopeInv, Guarded
  <2> QED BY <2>1, <2>3, <2>4 DEF ScopeInv
<1>2. CASE Scope!Visit
  <2>1. Scope!After(bItem) = ScopeNone
    BY Listed DEF Scope!After
  <2>2. /\ UNCHANGED <<bList, bListener, bLeft, bOn, bEnabled, bBuffer, bBuffers, bTimers,
                       bLastTimer, bCommand, bWbSem, bInto, bOffset>>
        /\ bHandler = "walk" /\ bHandler' = "idle" /\ bItem' = bItem
    BY <1>2, <2>1 DEF Scope!Visit
  <2>3. bItem \notin bLeft /\ (bEnabled => Scope!Live(bBuffer))
    BY <2>2 DEF ScopeInv, Guarded, Scope!Live
  <2>4. bUp /\ bUp' /\ bUp' \in BOOLEAN
    BY <1>2, <2>3 DEF Scope!Visit, ScopeInv, ScopeTypes
  <2>5. bCounter' \in 0 .. Scope!Period
    <3>1. bCounter' = CASE ~(bCounter <= 1) -> bCounter - 1
                       [] bCounter <= 1 /\ bEnabled -> Scope!Period [] OTHER -> 0
      BY <1>2 DEF Scope!Visit
    <3>2. bCounter \in 0 .. Scope!Period /\ Scope!Period \in Nat
      BY DEF ScopeInv, ScopeTypes, Scope!Period
    <3> QED BY ONLY <3>1, <3>2
  <2>6. ScopeTypes'
    BY <2>2, <2>4, <2>5 DEF ScopeInv, ScopeTypes
  <2>7. Guarded'
    BY <2>2 DEF ScopeInv, Guarded
  <2> QED BY <2>4, <2>6, <2>7 DEF ScopeInv
<1> QED BY <1>1, <1>2

\* The bandscope used in order, through any number of starts and stops by one
\* client after the other: its pixels are never written to a buffer that is gone
\* nor read from one (the commands STARTBANDSCOPE and STOPBANDSCOPE against the
\* timer's handler), and its counters and timers stay in their ranges.
THEOREM ScopeCorrect ==
  ASSUME InOrder
  PROVE  Scope!Spec => []BufferAlive
<1>1. Scope!Init => ScopeInv
  BY ScopeStart
<1>2. ScopeInv /\ [Scope!Next]_(Scope!vars) => ScopeInv'
  <2> SUFFICES ASSUME ScopeInv, [Scope!Next]_(Scope!vars) PROVE ScopeInv'
    OBVIOUS
  <2>1. CASE UNCHANGED <<bUp, bListener, bList, bLeft, bOn, bEnabled, bBuffer, bBuffers, bTimers,
                         bLastTimer, bCommand, bWbSem, bHandler, bItem, bInto, bCounter, bOffset>>
    <3>1. ScopeTypes' /\ Guarded'
      BY <2>1 DEF ScopeInv, ScopeTypes, Guarded
    <3> QED BY <2>1, <3>1 DEF ScopeInv
  <2>2. CASE UNCHANGED Scope!vars
    BY <2>1, <2>2 DEF Scope!vars, Scope!listVars, Scope!channelVars, Scope!bufferVars,
                      Scope!timerVars, Scope!handlerVars
  <2>3. CASE Scope!Samples
    <3>1. /\ UNCHANGED <<bUp, bListener, bList, bLeft, bOn, bEnabled, bBuffer, bBuffers, bTimers,
                         bLastTimer, bCommand, bWbSem, bHandler, bItem, bInto, bCounter>>
          /\ bOffset' = IF bOffset = 7 THEN 0 ELSE bOffset + 1
      BY <2>3 DEF Scope!Samples, Scope!listVars, Scope!channelVars, Scope!bufferVars,
                  Scope!timerVars, Scope!handlerVars
    <3>2. ScopeTypes' /\ Guarded'
      BY <3>1 DEF ScopeInv, ScopeTypes, Guarded
    <3> QED BY <3>1, <3>2 DEF ScopeInv
  <2>4. CASE Scope!Listen \/ Scope!StopDisable \/ Scope!StopFree
    BY <2>4, ScopeAccept, ScopeCommands
  <2>5. CASE Scope!Handler
    BY <2>5, ScopeLook, ScopeWalk DEF Scope!Handler
  <2>6. ASSUME NEW c \in ScopeClients,
               \/ Scope!Accept(c) \/ Scope!StartBandscope(c) \/ Scope!StopTimer(c)
               \/ Scope!UpdateBandscope(c) \/ Scope!Eof(c)
        PROVE  ScopeInv'
    <3>1. ~Scope!UpdateBandscope(c)
      BY DEF Scope!UpdateBandscope, InOrder
    <3> QED BY <2>6, <3>1, ScopeAccept, ScopeCommands, ScopeEof
  <2> QED BY <2>2, <2>3, <2>4, <2>5, <2>6 DEF Scope!Next
<1>3. ScopeInv => BufferAlive
  <2> SUFFICES ASSUME ScopeInv PROVE BufferAlive
    OBVIOUS
  <2>1. Scope!ToSet(bList) \cap bLeft = {} /\ bOn \subseteq ScopeClients
    BY Listed, OneClient, NoClients DEF ScopeInv, ScopeTypes, Guarded
  <2>2. bTimers \in 0 .. ScopeMaxBuffers
    BY DEF ScopeInv, ScopeTypes, InOrder
  <2>3. bWbSem = (bCommand = "pause")
    BY Zenon DEF ScopeInv, ScopeTypes
  <2>4. Scope!TypeOK
    BY <2>1, <2>2, <2>3 DEF ScopeInv, ScopeTypes, Scope!TypeOK
  <2>5. Scope!BufferAlive
    BY DEF ScopeInv, Scope!BufferAlive
  <2> QED BY <2>4, <2>5 DEF BufferAlive
<1> QED BY <1>1, <1>2, <1>3, PTL DEF Scope!Spec

----------------------------------------------------------------------------
(* The companding of audio *)

\* The rows that the samples are tried in end with the largest one.
Whole == LawRow \in Nat \ {0} /\ 32768 % LawRow = 0

\* The largest member of a set of segments.
LEMMA Largest ==
  ASSUME NEW S \in SUBSET Int, NEW k \in S, \A e \in S : e <= k
  PROVE  Law!Max(S) = k
<1>1. \A x \in S : (\A y \in S : x >= y) => x = k
  OBVIOUS
<1>2. \A y \in S : k >= y
  OBVIOUS
<1> QED BY <1>1, <1>2, Zenon DEF Law!Max

\* The segment that a magnitude lies in: k's is the highest bit of bits 14 .. 8 set in m.
Fits(m, k) ==
  /\ k = 0 \/ m >= 256 * Law!Scale(k)
  /\ \A e \in 1 .. 7 : e > k => m < 256 * Law!Scale(e)

\* The scale of a segment is a number.
LEMMA Scales == \A k \in 0 .. 7 : Law!Scale(k) \in Nat \ {0}
BY DEF Law!Scale

\* The search for the highest bit stops at the segment that a magnitude lies in.
LEMMA Found ==
  ASSUME NEW m \in Nat, NEW k \in 0 .. 7, Fits(m, k)
  PROVE  Law!Segment(m) = k
<1> DEFINE S == {0} \cup {e \in 1 .. 7 : m >= 256 * Law!Scale(e)}
<1>1. S \in SUBSET Int /\ k \in S
  BY DEF Fits
<1>2. ASSUME NEW e \in S PROVE e <= k
  BY Scales DEF Fits
<1> HIDE DEF S
<1>3. Law!Max(S) = k
  BY <1>1, <1>2, Largest
<1> QED BY <1>3 DEF Law!Segment, S

\* The steps that a sample is measured by are those of its segment.
LEMMA Measured ==
  ASSUME NEW s \in Int, NEW m \in Nat, s = m \/ s = -m, NEW k \in 0 .. 7, Fits(m, k)
  PROVE  Law!Step(s) = 16 * Law!Scale(k)
<1> DEFINE j == IF k = 0 THEN 1 ELSE k
           S == {1} \cup {e \in 1 .. 7 : s >= 256 * Law!Scale(e) \/ -s >= 256 * Law!Scale(e)}
<1>1. S \in SUBSET Int /\ j \in S
  BY DEF Fits
<1>2. ASSUME NEW e \in S PROVE e <= j
  <2>1. CASE e = 1
    BY <2>1
  <2>2. CASE e \in 1 .. 7 /\ (s >= 256 * Law!Scale(e) \/ -s >= 256 * Law!Scale(e))
    <3>1. m >= 256 * Law!Scale(e)
      BY <2>2, Scales
    <3>2. ~(e > k)
      BY <2>2, <3>1, Scales DEF Fits
    <3> QED BY <2>2, <3>2
  <2> QED BY <2>1, <2>2
<1>3. Law!Scale(j) = Law!Scale(k)
  BY DEF Law!Scale
<1> HIDE DEF S, j
<1>4. Law!Max(S) = j
  BY <1>1, <1>2, Largest
<1> QED BY <1>3, <1>4 DEF Law!Step, S

\* What a magnitude is decoded to.
Heard(m) ==
  (((m \div (16 * Law!Scale(Law!Segment(m)))) % 16) * 16 + 8
     + (IF Law!Segment(m) >= 1 THEN 256 ELSE 0)) * Law!Scale(Law!Segment(m))

\* Four bits say which of a segment's sixteen steps it was.
LEMMA Nibble ==
  ASSUME NEW q \in 0 .. 31
  PROVE  q % 16 = IF q < 16 THEN q ELSE q - 16
OBVIOUS

\* What division by shifting leaves.
LEMMA Division ==
  ASSUME NEW m \in Nat, NEW n \in Nat \ {0}
  PROVE  m \div n \in Int /\ n * (m \div n) <= m /\ m < n * (m \div n) + n
OBVIOUS

\* A segment from the second on is as long as what lies below it: sixteen steps of n.
LEMMA Sixteen ==
  ASSUME NEW n \in Nat \ {0}, NEW m \in Nat, n * 16 <= m, m < n * 32
  PROVE  m \div n \in 16 .. 31
<1> DEFINE q == m \div n
<1>1. q \in Int /\ n * q <= m /\ m < n * q + n
  BY Division
<1> HIDE DEF q
<1>2. ASSUME q < 16 PROVE FALSE
  <2>1. n * (q + 1) <= n * 16
    BY <1>1, <1>2
  <2> QED BY <1>1, <2>1
<1>3. ASSUME q > 31 PROVE FALSE
  <2>1. n * q >= n * 32
    BY <1>1, <1>3
  <2> QED BY <1>1, <2>1
<1>4. q \in 16 .. 31
  BY <1>1, <1>2, <1>3
<1> QED BY <1>4 DEF q

\* In a segment whose steps are 16 * a long, the middle of the step is decoded.
LEMMA Middle ==
  ASSUME NEW a \in Nat \ {0}, NEW m \in Nat, 256 * a <= m, m < 512 * a
  PROVE  LET v == (((m \div (16 * a)) % 16) * 16 + 8 + 256) * a
         IN v \in Int /\ v - m <= 8 * a /\ m - v <= 8 * a
<1> DEFINE n == 16 * a
           q == m \div n
<1>1. n \in Nat \ {0} /\ n * 16 <= m /\ m < n * 32
  OBVIOUS
<1> HIDE DEF n
<1>2. q \in 16 .. 31 /\ n * q <= m /\ m < n * q + n
  BY <1>1, Division, Sixteen
<1> HIDE DEF q
<1>3. q % 16 = q - 16
  BY <1>2, Nibble
<1>4. (q - 16) * 16 + 8 + 256 = 16 * q + 8
  BY <1>2
<1>5. (16 * q + 8) * a = n * q + 8 * a /\ n * q \in Int
  BY <1>2 DEF n
<1> DEFINE x == n * q
<1>6. x \in Int /\ x <= m /\ m < x + 16 * a
  BY <1>2, <1>5 DEF n
<1> HIDE DEF x
<1>7. x + 8 * a \in Int /\ (x + 8 * a) - m <= 8 * a /\ m - (x + 8 * a) <= 8 * a
  BY <1>6
<1> QED BY <1>3, <1>4, <1>5, <1>7 DEF n, q, x

\* Below 256 the steps start at 0.
LEMMA Lowest ==
  ASSUME NEW m \in 0 .. 255
  PROVE  LET v == ((m \div 16) % 16) * 16 + 8 IN v \in Int /\ v - m <= 8 /\ m - v <= 8
OBVIOUS

\* Every magnitude lies in a segment, and above its first sample, below twice that.
LEMMA Placed ==
  ASSUME NEW m \in Nat, m <= 32767
  PROVE  \E k \in 0 .. 7 : /\ Fits(m, k)
                           /\ k = 0 => m < 256
                           /\ k > 0 => 256 * Law!Scale(k) <= m /\ m < 512 * Law!Scale(k)
<1> USE DEF Law!Scale, Fits
<1>1. CASE m < 256
  <2> WITNESS 0 \in 0 .. 7
  <2> QED BY <1>1
<1>2. CASE 256 <= m /\ m < 512
  <2> WITNESS 1 \in 0 .. 7
  <2> QED BY <1>2
<1>3. CASE 512 <= m /\ m < 1024
  <2> WITNESS 2 \in 0 .. 7
  <2> QED BY <1>3
<1>4. CASE 1024 <= m /\ m < 2048
  <2> WITNESS 3 \in 0 .. 7
  <2> QED BY <1>4
<1>5. CASE 2048 <= m /\ m < 4096
  <2> WITNESS 4 \in 0 .. 7
  <2> QED BY <1>5
<1>6. CASE 4096 <= m /\ m < 8192
  <2> WITNESS 5 \in 0 .. 7
  <2> QED BY <1>6
<1>7. CASE 8192 <= m /\ m < 16384
  <2> WITNESS 6 \in 0 .. 7
  <2> QED BY <1>7
<1>8. CASE 16384 <= m
  <2> WITNESS 7 \in 0 .. 7
  <2> QED BY <1>8
<1> QED BY <1>1, <1>2, <1>3, <1>4, <1>5, <1>6, <1>7, <1>8

\* A magnitude is decoded to within half a step of its segment.
LEMMA Close ==
  ASSUME NEW m \in Nat, NEW k \in 0 .. 7, Fits(m, k),
         k = 0 => m < 256, k > 0 => 256 * Law!Scale(k) <= m /\ m < 512 * Law!Scale(k)
  PROVE  /\ Heard(m) \in Int
         /\ Heard(m) - m <= 8 * Law!Scale(k) /\ m - Heard(m) <= 8 * Law!Scale(k)
<1>1. Law!Segment(m) = k
  BY Found
<1> DEFINE a == Law!Scale(k)
<1>2. a \in Nat \ {0}
  BY Scales
<1>3. Heard(m) = (((m \div (16 * a)) % 16) * 16 + 8 + (IF k >= 1 THEN 256 ELSE 0)) * a
  BY <1>1 DEF Heard
<1>4. CASE k = 0
  <2>1. a = 1
    BY <1>4 DEF Law!Scale
  <2> HIDE DEF a
  <2> DEFINE b == (m \div 16) % 16
  <2>2. b \in Int
    OBVIOUS
  <2>3. Heard(m) = b * 16 + 8
    <3>1. 16 * a = 16 /\ (IF k >= 1 THEN 256 ELSE 0) = 0
      BY <1>4, <2>1
    <3>2. Heard(m) = (b * 16 + 8 + 0) * 1
      BY <1>3, <2>1, <3>1, Zenon
    <3> HIDE DEF b
    <3> QED BY <2>2, <3>2
  <2>4. m \in 0 .. 255
    BY <1>4
  <2>5. Heard(m) \in Int /\ Heard(m) - m <= 8 /\ m - Heard(m) <= 8
    BY <2>3, <2>4, Lowest
  <2> QED BY <2>1, <2>5 DEF a
<1>5. CASE k > 0
  <2>1. 256 * a <= m /\ m < 512 * a /\ m \in Nat
    BY <1>5
  <2> HIDE DEF a
  <2>2. Heard(m) = (((m \div (16 * a)) % 16) * 16 + 8 + 256) * a
    BY <1>3, <1>5
  <2>3. Heard(m) \in Int /\ Heard(m) - m <= 8 * a /\ m - Heard(m) <= 8 * a
    BY <1>2, <2>1, <2>2, Middle
  <2> QED BY <2>3 DEF a
<1> QED BY <1>4, <1>5

\* The magnitudes that are cut off come out as the middle of the last step.
LEMMA Cut == Fits(32635, 7) /\ Heard(32635) = 32256
<1>1. Law!Scale(7) = 64
  BY DEF Law!Scale
<1>2. Fits(32635, 7)
  BY <1>1 DEF Fits
<1>3. Law!Segment(32635) = 7
  BY <1>2, Found
<1>4. 32635 \div (16 * 64) = 31 /\ 31 % 16 = 15
  OBVIOUS
<1>5. Heard(32635) = (((32635 \div (16 * 64)) % 16) * 16 + 8 + 256) * 64
  BY <1>1, <1>3 DEF Heard
<1> DEFINE q == 32635 \div (16 * 64)
<1>6. Heard(32635) = ((q % 16) * 16 + 8 + 256) * 64 /\ q % 16 = 15
  BY <1>4, <1>5
<1> HIDE DEF q
<1>7. Heard(32635) = 32256
  BY <1>6
<1> QED BY <1>2, <1>7

\* The byte that stands for a magnitude and a sign.
Byte(m, negative) ==
  [negative |-> negative, segment |-> Law!Segment(m),
   mantissa |-> (m \div (16 * Law!Scale(Law!Segment(m)))) % 16]

\* The byte of a magnitude, with a sign, is decoded to what is heard of it.
LEMMA Signed ==
  ASSUME NEW m, NEW negative \in BOOLEAN
  PROVE  Law!Decode(Byte(m, negative)) = IF negative THEN -Heard(m) ELSE Heard(m)
<1> DEFINE e == Law!Segment(m)
           bits == (m \div (16 * Law!Scale(e))) % 16
           b == [negative |-> negative, segment |-> e, mantissa |-> bits]
<1>1. b.negative = negative /\ b.segment = e /\ b.mantissa = bits
  OBVIOUS
<1>2. Heard(m) = (bits * 16 + 8 + (IF e >= 1 THEN 256 ELSE 0)) * Law!Scale(e)
  BY Zenon DEF Heard
<1> HIDE DEF b, bits, e
<1>3. Law!Decode(b) = IF negative THEN -Heard(m) ELSE Heard(m)
  BY <1>1, <1>2, Zenon DEF Law!Decode
<1> QED BY <1>3 DEF b, bits, e, Byte

\* A sample's magnitude, cut off at the top.
Loudness(s) ==
  LET size == IF s < 0 THEN -s ELSE s IN IF size > 32635 THEN 32635 ELSE size

\* What is sent of a sample is its magnitude and sign.
LEMMA Sent ==
  ASSUME NEW s \in Int, s # -32768
  PROVE  Law!Encode(s) = Byte(Loudness(s), s < 0)
BY DEF Law!Encode, Law!Negated, Byte, Loudness

\* What is heard of a sample is what is heard of its magnitude, with the sign.
LEMMA Received ==
  ASSUME NEW s \in Int, NEW m, Law!Encode(s) = Byte(m, s < 0)
  PROVE  Law!Decode(Law!Encode(s)) = IF s < 0 THEN -Heard(m) ELSE Heard(m)
<1> DEFINE negative == s < 0
<1>1. negative \in BOOLEAN /\ Law!Encode(s) = Byte(m, negative)
  OBVIOUS
<1> HIDE DEF negative
<1>2. Law!Decode(Law!Encode(s)) = IF negative THEN -Heard(m) ELSE Heard(m)
  BY <1>1, Signed, Zenon
<1> QED BY <1>2 DEF negative

\* The samples of 16 bits, by their limits.
LEMMA Limits ==
  \A s : s \in Law!Shorts <=> s \in Int /\ -32768 <= s /\ s <= 32767
<1> DEFINE low == -32768
           high == 32767
<1>1. low \in Int /\ high \in Int
  OBVIOUS
<1>2. Law!Shorts = low .. high
  BY DEF Law!Shorts
<1> HIDE DEF low, high
<1>3. \A s : s \in low .. high <=> s \in Int /\ low <= s /\ s <= high
  BY <1>1
<1>4. \A s : s \in Law!Shorts <=> s \in Int /\ low <= s /\ s <= high
  BY <1>2, <1>3
<1> QED BY <1>4 DEF low, high

\* What one side decodes of a sample is within half a step, but of the most negative.
LEMMA Companded ==
  ASSUME lSample \in Law!Shorts
  PROVE  Law!AlawClose
<1> SUFFICES ASSUME lSample # -32768
             PROVE  LET error == Law!Decode(Law!Encode(lSample)) - lSample
                    IN 2 * error <= Law!Step(lSample) /\ -2 * error <= Law!Step(lSample)
  BY DEF Law!AlawClose
<1> DEFINE size == IF lSample < 0 THEN -lSample ELSE lSample
           m == Loudness(lSample)
           got == Law!Decode(Law!Encode(lSample))
<1>1. /\ lSample \in Int /\ size \in Nat /\ size <= 32767
      /\ m = IF size > 32635 THEN 32635 ELSE size
  BY Limits DEF Loudness
<1>2. got = IF lSample < 0 THEN -Heard(m) ELSE Heard(m)
  <2>1. Law!Encode(lSample) = Byte(m, lSample < 0)
    BY <1>1, Sent
  <2> QED BY <1>1, <2>1, Received
<1>3. lSample = size \/ lSample = -size
  BY <1>1
<1> HIDE DEF m, size
<1>4. /\ Heard(m) \in Int /\ Law!Step(lSample) \in Int
      /\ 2 * (Heard(m) - size) <= Law!Step(lSample)
      /\ 2 * (size - Heard(m)) <= Law!Step(lSample)
  <2>1. CASE size > 32635
    <3>1. Law!Scale(7) = 64
      BY DEF Law!Scale
    <3>2. Fits(size, 7)
      BY <1>1, <2>1, <3>1 DEF Fits
    <3>3. Law!Step(lSample) = 1024
      BY <1>3, <1>1, <3>1, <3>2, Measured
    <3>4. Heard(m) = 32256
      BY <1>1, <2>1, Cut
    <3> QED BY <1>1, <2>1, <3>3, <3>4
  <2>2. CASE size <= 32635
    <3>1. m = size
      BY <1>1, <2>2
    <3>2. PICK k \in 0 .. 7 : /\ Fits(size, k)
                              /\ k = 0 => size < 256
                              /\ k > 0 => /\ 256 * Law!Scale(k) <= size
                                          /\ size < 512 * Law!Scale(k)
      BY <1>1, Placed
    <3> DEFINE a == Law!Scale(k)
    <3>3. /\ Heard(size) \in Int
          /\ Heard(size) - size <= 8 * a /\ size - Heard(size) <= 8 * a
      BY <1>1, <3>2, Close
    <3>4. Law!Step(lSample) = 16 * a /\ a \in Nat
      BY <1>3, <1>1, <3>2, Measured, Scales
    <3> HIDE DEF a
    <3> QED BY <1>1, <3>1, <3>3, <3>4
  <2> QED BY <1>1, <2>1, <2>2
<1> HIDE DEF got
<1>5. got \in Int
  BY <1>2, <1>4
<1> QED BY <1>1, <1>2, <1>4, <1>5 DEF size, got

\* Every sample of 16 bits but the most negative is decoded by the one program to within
\* half a step of what the other encoded.
THEOREM LawCorrect ==
  ASSUME Whole
  PROVE  Law!Spec => []AlawClose
<1>1. Law!Init => lSample \in Law!Shorts
  BY DEF Law!Init
<1>2. lSample \in Law!Shorts /\ [Law!Next]_lSample => (lSample \in Law!Shorts)'
  <2>1. lSample \in Law!Shorts /\ Law!Next => lSample + 1 \in Law!Shorts
    <3> SUFFICES ASSUME lSample \in Law!Shorts, Law!Next PROVE lSample + 1 \in Law!Shorts
      OBVIOUS
    <3>1. lSample \in Int /\ -32768 <= lSample /\ lSample <= 32767
      BY Limits
    <3>2. lSample # 32767
      <4>1. CASE lSample = 32767
        <5>1. lSample + 1 = 32768
          BY <4>1
        <5> QED BY <5>1 DEF Law!Next, Whole
      <4> QED BY <4>1
    <3>3. lSample + 1 \in Int /\ -32768 <= lSample + 1 /\ lSample + 1 <= 32767
      BY <3>1, <3>2
    <3> QED BY <3>3, Limits
  <2> QED BY <2>1 DEF Law!Next
<1>3. lSample \in Law!Shorts => AlawClose
  BY Companded DEF AlawClose, Law!TypeOK
<1> QED BY <1>1, <1>2, <1>3, PTL DEF Law!Spec

----------------------------------------------------------------------------
(* The microphone *)

\* The channels are a finite table, and the bounds of the model are numbers.
Finite == IsFiniteSet(MicChannels) /\ MicMaxBlocks \in Nat /\ MicMaxKeys \in Nat

\* The first occurrence of the head is the head.
LEMMA RemoveHead ==
  ASSUME NEW S, NEW s \in Seq(S), s # <<>>
  PROVE  Mic!RemoveFirst(s, Head(s)) = Tail(s)
<1> DEFINE first == Mic!SelectInSeq(s, LAMBDA v : v = Head(s))
           I == {i \in 1 .. Len(s) : s[i] = Head(s)}
<1>1. Len(s) \in Nat /\ Len(s) > 0 /\ Head(s) = s[1] /\ 1 \in I
  BY EmptySeq
<1>2. first = 1
  <2>1. Mic!Min(I) = 1
    BY <1>1 DEF Mic!Min
  <2> QED BY <1>1, <2>1 DEF Mic!SelectInSeq
<1>3. Mic!RemoveFirst(s, Head(s)) = Mic!RemoveAt(s, first)
  <2>1. \E i \in 1 .. Len(s) : s[i] = Head(s)
    BY <1>1
  <2> QED BY <2>1, Zenon DEF Mic!RemoveFirst
<1>4. Mic!RemoveFirst(s, Head(s)) = Mic!RemoveAt(s, 1)
  BY <1>2, <1>3, Zenon
<1>5. Mic!RemoveAt(s, 1) = SubSeq(s, 1, 0) \o SubSeq(s, 2, Len(s))
  BY DEF Mic!RemoveAt
<1>6. SubSeq(s, 1, 0) = <<>> /\ SubSeq(s, 2, Len(s)) = Tail(s)
  OBVIOUS
<1>7. <<>> \o Tail(s) = Tail(s)
  OBVIOUS
<1> QED BY ONLY <1>4, <1>5, <1>6, <1>7, Zenon

\* The members of a finite set in some order, one after the other.
LEMMA OrderOfSet ==
  ASSUME NEW S, IsFiniteSet(S)
  PROVE  /\ Mic!SetToSeq(S) \in [1 .. Mic!Cardinality(S) -> S]
         /\ Mic!Cardinality(S) \in Nat
<1>1. ExistsBijection(1 .. Cardinality(S), S) /\ Cardinality(S) \in Nat
  BY FS_CardinalityType
<1>2. \E f \in [1 .. Cardinality(S) -> S] : IsInjective(f)
  BY <1>1 DEF ExistsBijection, Bijection, Injection, IsInjective
<1>3. Mic!Cardinality(S) = Cardinality(S)
  BY DEF Mic!Cardinality, Cardinality
<1>4. \E f \in [1 .. Mic!Cardinality(S) -> S] : Mic!IsInjective(f)
  BY <1>2, <1>3 DEF Mic!IsInjective, IsInjective
<1> QED BY <1>1, <1>3, <1>4 DEF Mic!SetToSeq

(* The inductive invariant *)

Block == [n : Nat, ch : MicChannels]
Places == {"bind", "top", "look", "serve", "remove", "gone"}
Record == [ch : MicChannels, pc : Places, item : Block \cup {Mic!NoBlock}, fill : Seq(Nat)]

MicTypes ==
  /\ mUp \in BOOLEAN /\ mListener \in {"starting", "on", "off"} /\ mClients \subseteq MicClients
  /\ mEnabled \subseteq MicChannels /\ mMox \subseteq MicChannels /\ mKeys \in 0 .. MicMaxKeys
  /\ mBlocks \in 0 .. MicMaxBlocks
  /\ mQueue \in Seq(Block) /\ \A k \in DOMAIN mQueue : mQueue[k].n \in 1 .. mBlocks
  /\ mThread \in Seq(Record) /\ mBound \subseteq Mic!Threads
  /\ mSent \in [MicChannels -> Seq(Nat)]

Live(t) == mThread[t].pc \in {"top", "look", "serve", "remove"}

\* A thread works only while it holds the port, which is one for all of them.
OnePort ==
  /\ \A t \in Mic!Threads : Live(t) => t \in mBound
  /\ \A t, u \in mBound : t = u
  /\ \A t \in mBound : Live(t)
  /\ \A t \in Mic!Threads : mThread[t].pc = "bind" => mThread[t].fill = <<>>

\* The block a thread works on is the head of the queue.
HeadKept ==
  \A t \in Mic!Threads : mThread[t].pc \in {"serve", "remove"} =>
    mQueue # <<>> /\ Head(mQueue) = mThread[t].item

Rising(s) == \A j, k \in DOMAIN s : j < k => s[j] < s[k]
Below(s, n) == \A j \in DOMAIN s : s[j] < n

\* A block that no thread has begun to take off the queue.
Waiting(k) == k > 1 \/ \A t \in Mic!Threads : mThread[t].pc # "remove"

\* Blocks go through the queue, the modulator's store and the air in one order.
BlocksInOrder ==
  /\ \A j, k \in DOMAIN mQueue : j < k => mQueue[j].n < mQueue[k].n
  /\ \A ch \in MicChannels :
       /\ Rising(mSent[ch]) /\ Below(mSent[ch], mBlocks + 1)
       /\ \A k \in DOMAIN mQueue : Waiting(k) => Below(mSent[ch], mQueue[k].n)
  /\ \A t \in Mic!Threads : Live(t) =>
       /\ Rising(mThread[t].fill) /\ Below(mThread[t].fill, mBlocks + 1)
       /\ \A k \in DOMAIN mQueue : Waiting(k) => Below(mThread[t].fill, mQueue[k].n)
       /\ \A j \in DOMAIN mThread[t].fill : Below(mSent[mThread[t].ch], mThread[t].fill[j])

MicInv == MicTypes /\ OnePort /\ HeadKept /\ BlocksInOrder

LEMMA MicInit == Finite /\ Mic!Init => MicInv
<1> SUFFICES ASSUME Finite, Mic!Init PROVE MicInv
  OBVIOUS
<1> USE DEF Mic!Init
<1>1. DOMAIN mThread = {} /\ DOMAIN mQueue = {} /\ mBound = {} /\ mBlocks = 0
  BY DEF Mic!Threads
<1>2. \A ch \in MicChannels : mSent[ch] = <<>>
  OBVIOUS
<1>3. MicTypes
  BY <1>1 DEF Finite, MicTypes
<1>4. OnePort /\ HeadKept
  BY <1>1 DEF OnePort, HeadKept, Mic!Threads
<1>5. BlocksInOrder
  BY <1>1, <1>2 DEF BlocksInOrder, Mic!Threads, Rising, Below
<1> QED BY <1>3, <1>4, <1>5 DEF MicInv

LEMMA ThreadShape ==
  ASSUME MicTypes, NEW t \in Mic!Threads
  PROVE  /\ mThread[t] \in Record /\ mThread[t].ch \in MicChannels /\ mThread[t].pc \in Places
         /\ mThread[t].item \in Block \cup {Mic!NoBlock} /\ mThread[t].fill \in Seq(Nat)
<1>1. mThread[t] \in Record
  BY DEF MicTypes, Mic!Threads
<1> QED BY <1>1 DEF Record

\* A step of one thread: the others stay where they are.
LEMMA OneThread ==
  ASSUME mThread \in Seq(Record), NEW t \in Mic!Threads, NEW r \in Record,
         mThread' = [mThread EXCEPT ![t] = r]
  PROVE  /\ mThread' \in Seq(Record) /\ Mic!Threads' = Mic!Threads /\ mThread'[t] = r
         /\ \A u \in Mic!Threads : u # t => mThread'[u] = mThread[u]
BY DEF Mic!Threads

LEMMA Goes ==
  ASSUME mThread \in Seq(Record), NEW t \in Mic!Threads, NEW pc \in Places, Mic!Goto(t, pc)
  PROVE  /\ mThread' \in Seq(Record) /\ Mic!Threads' = Mic!Threads
         /\ mThread'[t].pc = pc /\ mThread'[t].ch = mThread[t].ch
         /\ mThread'[t].item = mThread[t].item /\ mThread'[t].fill = mThread[t].fill
         /\ \A u \in Mic!Threads : u # t => mThread'[u] = mThread[u]
<1> DEFINE r == [mThread[t] EXCEPT !.pc = pc]
<1>1. mThread[t] \in Record
  BY DEF Mic!Threads
<1>2. r \in Record /\ r.pc = pc /\ r.ch = mThread[t].ch /\ r.item = mThread[t].item
      /\ r.fill = mThread[t].fill
  BY <1>1 DEF Record
<1>3. mThread' = [mThread EXCEPT ![t] = r]
  BY DEF Mic!Goto
<1> HIDE DEF r
<1> QED BY <1>2, <1>3, OneThread

\* Steps that leave the queue, the air and every store of blocks alone keep the
\* order, if no thread is done with taking its block off the queue.
LEMMA OrderKept ==
  ASSUME MicInv, UNCHANGED <<mQueue, mSent, mBlocks>>, Mic!Threads' = Mic!Threads,
         \A u \in Mic!Threads : /\ mThread'[u].ch = mThread[u].ch
                                /\ mThread'[u].fill = mThread[u].fill
                                /\ Live(u)' => Live(u) \/ mThread[u].fill = <<>>
                                /\ mThread[u].pc = "remove" => mThread'[u].pc = "remove"
  PROVE  BlocksInOrder'
<1>1. \A k \in DOMAIN mQueue : Waiting(k)' => Waiting(k)
  BY DEF Waiting
<1>2. ASSUME NEW u \in Mic!Threads, mThread[u].fill = <<>>
      PROVE  DOMAIN mThread[u].fill = {}
  BY <1>2
<1> QED BY <1>1, <1>2 DEF MicInv, BlocksInOrder, Rising, Below

\* The clients, and the state of the channels.
LEMMA MicAside ==
  ASSUME MicInv, Finite,
         \/ Mic!Listen \/ (\E c \in MicClients : Mic!Accept(c) \/ Mic!Eof(c))
         \/ (\E ch \in MicChannels : Mic!Detach(ch) \/ Mic!Key(ch)) \/ UNCHANGED Mic!vars
  PROVE  MicInv'
<1> USE DEF Mic!clientVars, Mic!channelVars
<1>1. UNCHANGED <<mBlocks, mQueue, mThread, mBound, mSent>>
  BY DEF Mic!Listen, Mic!Accept, Mic!Eof, Mic!Detach, Mic!Key, Mic!vars
<1>2. MicTypes'
  <2> USE DEF MicInv, MicTypes
  <2>1. CASE Mic!Listen
    BY <1>1, <2>1 DEF Mic!Listen, Mic!Threads
  <2>2. CASE \E c \in MicClients : Mic!Accept(c) \/ Mic!Eof(c)
    BY <1>1, <2>2 DEF Mic!Accept, Mic!Eof, Mic!Threads
  <2>3. CASE \E ch \in MicChannels : Mic!Detach(ch)
    BY <1>1, <2>3 DEF Mic!Detach, Mic!Threads
  <2>4. CASE \E ch \in MicChannels : Mic!Key(ch)
    BY <1>1, <2>4 DEF Mic!Key, Mic!Threads, Finite
  <2>5. CASE UNCHANGED Mic!vars
    BY <1>1, <2>5 DEF Mic!vars, Mic!Threads
  <2> QED BY <2>1, <2>2, <2>3, <2>4, <2>5
<1>3. OnePort' /\ HeadKept'
  BY <1>1 DEF MicInv, OnePort, HeadKept, Live, Mic!Threads
<1>4. BlocksInOrder'
  BY <1>1, OrderKept DEF Live, Mic!Threads
<1> QED BY <1>2, <1>3, <1>4 DEF MicInv

\* A client's block is numbered higher than all before it.
LEMMA MicReceive ==
  ASSUME MicInv, Finite, NEW c \in MicClients, NEW ch \in MicChannels, Mic!Receive(c, ch)
  PROVE  MicInv'
<1> USE DEF MicInv, Mic!clientVars, Mic!channelVars
<1> DEFINE b == [n |-> mBlocks + 1, ch |-> ch]
<1>1. /\ mQueue \in Seq(Block) /\ mBlocks \in Nat /\ b \in Block /\ b.n = mBlocks + 1
      /\ mQueue' = Append(mQueue, b) /\ mBlocks' = mBlocks + 1 /\ mBlocks' \in 0 .. MicMaxBlocks
      /\ UNCHANGED <<mUp, mListener, mClients, mEnabled, mMox, mKeys, mThread, mBound, mSent>>
  BY DEF Mic!Receive, MicTypes, Block, Finite
<1> HIDE DEF b
<1>2. /\ mQueue' \in Seq(Block) /\ Len(mQueue') = Len(mQueue) + 1 /\ mQueue' # <<>>
      /\ DOMAIN mQueue = 1 .. Len(mQueue) /\ DOMAIN mQueue' = 1 .. Len(mQueue) + 1
      /\ \A k \in DOMAIN mQueue : mQueue'[k] = mQueue[k]
      /\ mQueue'[Len(mQueue) + 1] = b /\ Len(mQueue) \in Nat
      /\ (mQueue # <<>> => Head(mQueue') = Head(mQueue))
  BY <1>1
<1>3. \A k \in DOMAIN mQueue : mQueue[k].n \in 1 .. mBlocks
  BY DEF MicTypes
<1>4. MicTypes'
  <2>1. \A k \in DOMAIN mQueue' : mQueue'[k].n \in 1 .. mBlocks'
    BY <1>1, <1>2, <1>3
  <2> QED BY <1>1, <1>2, <2>1 DEF MicTypes, Mic!Threads
<1>5. OnePort' /\ HeadKept'
  BY <1>1, <1>2 DEF OnePort, HeadKept, Live, Mic!Threads
<1>6. BlocksInOrder'
  <2>1. \A j, k \in DOMAIN mQueue' : j < k => mQueue'[j].n < mQueue'[k].n
    BY <1>1, <1>2, <1>3 DEF BlocksInOrder
  <2>2. ASSUME NEW s \in Seq(Nat), Below(s, mBlocks + 1),
               \A k \in DOMAIN mQueue : Waiting(k) => Below(s, mQueue[k].n)
        PROVE  /\ Below(s, mBlocks' + 1)
               /\ \A k \in DOMAIN mQueue' : Waiting(k)' => Below(s, mQueue'[k].n)
    <3>1. Below(s, mBlocks' + 1)
      BY <1>1, <2>2 DEF Below
    <3>2. \A k \in DOMAIN mQueue' : k \in DOMAIN mQueue \/ mQueue'[k].n = mBlocks + 1
      BY <1>1, <1>2
    <3> QED BY <1>1, <1>2, <2>2, <3>1, <3>2 DEF Waiting, Mic!Threads
  <2>3. /\ \A x \in MicChannels : mSent[x] \in Seq(Nat)
        /\ \A t \in Mic!Threads : mThread[t].fill \in Seq(Nat)
    BY ThreadShape DEF MicTypes
  <2>4. /\ \A x \in MicChannels :
             /\ Below(mSent[x], mBlocks' + 1)
             /\ \A k \in DOMAIN mQueue' : Waiting(k)' => Below(mSent[x], mQueue'[k].n)
        /\ \A t \in Mic!Threads : Live(t) =>
             /\ Below(mThread[t].fill, mBlocks' + 1)
             /\ \A k \in DOMAIN mQueue' : Waiting(k)' => Below(mThread[t].fill, mQueue'[k].n)
    BY <2>2, <2>3 DEF BlocksInOrder
  <2> QED BY <1>1, <2>1, <2>4 DEF BlocksInOrder, Live, Mic!Threads, Rising, Below
<1> QED BY <1>4, <1>5, <1>6

\* A new thread has yet to bind the port and has nothing to modulate.
LEMMA MicAttach ==
  ASSUME MicInv, Finite, NEW ch \in MicChannels, Mic!Attach(ch)
  PROVE  MicInv'
<1> USE DEF MicInv, Mic!clientVars, Mic!channelVars
<1>0. PICK N, order : /\ N = Mic!Cardinality(mEnabled') /\ N \in Nat
                      /\ order = Mic!SetToSeq(mEnabled') /\ order \in [1 .. N -> mEnabled']
  <2>1. IsFiniteSet(mEnabled')
    BY FS_Subset DEF Finite, Mic!Attach, MicTypes
  <2> QED BY <2>1, OrderOfSet
<1>1. PICK new :
        /\ new = [k \in 1 .. N |->
                    [ch |-> order[k], pc |-> "bind", item |-> Mic!NoBlock, fill |-> <<>>]]
        /\ mThread' = mThread \o new /\ mEnabled' \subseteq MicChannels
        /\ UNCHANGED <<mUp, mListener, mClients, mBlocks, mQueue, mMox, mKeys, mBound, mSent>>
  BY <1>0 DEF Mic!Attach, MicTypes
<1>2. /\ new \in Seq(Record) /\ Len(new) \in Nat
      /\ \A k \in DOMAIN new : new[k].pc = "bind" /\ new[k].fill = <<>>
  <2>1. \A k \in 1 .. N :
          [ch |-> order[k], pc |-> "bind", item |-> Mic!NoBlock, fill |-> <<>>] \in Record
    BY <1>0, <1>1 DEF Record, Places
  <2>2. new \in [1 .. N -> Record]
    BY <1>1, <2>1
  <2>3. new \in Seq(Record) /\ DOMAIN new = 1 .. N
    BY <1>0, <2>2
  <2>4. \A k \in 1 .. N : new[k].pc = "bind" /\ new[k].fill = <<>>
    BY <1>1
  <2> QED BY <2>3, <2>4
<1>3. mThread \in Seq(Record) /\ mBound \subseteq Mic!Threads
  BY DEF MicTypes
<1>4. /\ mThread' \in Seq(Record) /\ Mic!Threads \subseteq Mic!Threads'
      /\ \A u \in Mic!Threads : mThread'[u] = mThread[u]
      /\ \A u \in Mic!Threads' \ Mic!Threads : mThread'[u].pc = "bind" /\ mThread'[u].fill = <<>>
  <2>1. /\ mThread' \in Seq(Record) /\ Len(mThread') = Len(mThread) + Len(new)
        /\ \A i \in 1 .. Len(mThread) + Len(new) :
             mThread'[i] = IF i <= Len(mThread) THEN mThread[i] ELSE new[i - Len(mThread)]
    BY <1>1, <1>2, <1>3, ConcatProperties, ZenonT(60)
  <2>2. Mic!Threads = 1 .. Len(mThread) /\ Mic!Threads' = 1 .. Len(mThread) + Len(new)
        /\ DOMAIN new = 1 .. Len(new) /\ Len(mThread) \in Nat
    BY <1>2, <1>3, <2>1 DEF Mic!Threads
  <2>3. \A u \in Mic!Threads : mThread'[u] = mThread[u]
    BY <1>2, <2>1, <2>2
  <2>4. ASSUME NEW u \in Mic!Threads' \ Mic!Threads
        PROVE  mThread'[u].pc = "bind" /\ mThread'[u].fill = <<>>
    <3>1. u - Len(mThread) \in DOMAIN new /\ mThread'[u] = new[u - Len(mThread)]
      BY <1>2, <2>1, <2>2
    <3> QED BY <1>2, <3>1
  <2>5. Mic!Threads \subseteq Mic!Threads' /\ mThread' \in Seq(Record)
    BY <1>2, <2>1, <2>2
  <2> QED BY <2>3, <2>4, <2>5, Zenon
<1>5. MicTypes'
  BY <1>1, <1>3, <1>4 DEF MicTypes
<1>6. OnePort'
  <2>1. \A u \in Mic!Threads' : Live(u)' => u \in Mic!Threads /\ Live(u)
    BY <1>4 DEF Live
  <2>2. \A u \in Mic!Threads : Live(u)' <=> Live(u)
    BY <1>4 DEF Live
  <2>3. \A u \in Mic!Threads' : mThread'[u].pc = "bind" => mThread'[u].fill = <<>>
    BY <1>4 DEF OnePort
  <2> QED BY <1>1, <1>3, <1>4, <2>1, <2>2, <2>3 DEF OnePort
<1>8. HeadKept'
  BY <1>1, <1>4 DEF HeadKept
<1>7. BlocksInOrder'
  <2>1. \A k \in DOMAIN mQueue : Waiting(k)' => Waiting(k)
    BY <1>1, <1>4 DEF Waiting
  <2>2. mQueue' = mQueue /\ mSent' = mSent /\ mBlocks' = mBlocks
    BY <1>1
  <2>3. ASSUME NEW t \in Mic!Threads', Live(t)'
        PROVE  t \in Mic!Threads /\ Live(t) /\ mThread'[t] = mThread[t]
    BY <1>4, <2>3 DEF Live
  <2>4. ASSUME NEW c \in MicChannels, NEW k \in DOMAIN mQueue, Waiting(k)'
        PROVE  Below(mSent[c], mQueue[k].n)
    BY <2>1, <2>4 DEF BlocksInOrder
  <2>5. ASSUME NEW t \in Mic!Threads', Live(t)'
        PROVE  /\ Rising(mThread'[t].fill) /\ Below(mThread'[t].fill, mBlocks + 1)
               /\ \A k \in DOMAIN mQueue : Waiting(k)' => Below(mThread'[t].fill, mQueue[k].n)
               /\ \A j \in DOMAIN mThread'[t].fill :
                    Below(mSent[mThread'[t].ch], mThread'[t].fill[j])
    <3>1. t \in Mic!Threads /\ Live(t) /\ mThread'[t] = mThread[t]
      BY <2>3, <2>5
    <3> QED BY <2>1, <3>1 DEF BlocksInOrder
  <2>6. \A c \in MicChannels : Rising(mSent[c]) /\ Below(mSent[c], mBlocks + 1)
    BY DEF BlocksInOrder
  <2>7. \A j, k \in DOMAIN mQueue : j < k => mQueue[j].n < mQueue[k].n
    BY DEF BlocksInOrder
  <2> QED BY <2>2, <2>4, <2>5, <2>6, <2>7, Zenon DEF BlocksInOrder, Rising, Below
<1> QED BY <1>5, <1>6, <1>7, <1>8

\* Binding the port: nobody holds it, so no thread works.
LEMMA MicBind ==
  ASSUME MicInv, NEW t \in Mic!Threads, Mic!Bind(t)
  PROVE  MicInv'
<1> USE DEF MicInv, Mic!clientVars, Mic!channelVars
<1>1. UNCHANGED <<mListener, mClients, mBlocks, mQueue, mEnabled, mMox, mKeys, mSent>>
  BY DEF Mic!Bind
<1>2. CASE mBound = {}
  <2>1. mBound' = {t} /\ Mic!Goto(t, "top") /\ UNCHANGED mUp /\ mThread[t].pc = "bind"
    BY <1>2 DEF Mic!Bind, Mic!At
  <2>2. /\ mThread' \in Seq(Record) /\ Mic!Threads' = Mic!Threads /\ mThread'[t].pc = "top"
        /\ mThread'[t].ch = mThread[t].ch /\ mThread'[t].fill = mThread[t].fill
        /\ \A u \in Mic!Threads : u # t => mThread'[u] = mThread[u]
    BY <2>1, Goes DEF MicTypes, Places
  <2>3. MicTypes'
    BY <1>1, <2>1, <2>2 DEF MicTypes
  <2>4. OnePort' /\ HeadKept'
    BY <1>1, <1>2, <2>1, <2>2 DEF OnePort, HeadKept, Live
  <2>5. BlocksInOrder'
    <3>1. mThread[t].fill = <<>>
      BY <2>1 DEF OnePort
    <3> QED BY <1>1, <2>1, <2>2, <3>1, OrderKept DEF Live
  <2> QED BY <2>3, <2>4, <2>5
<1>3. CASE mBound # {}
  <2>1. mUp' = FALSE /\ UNCHANGED <<mBound, mThread>>
    BY <1>3 DEF Mic!Bind
  <2>2. MicTypes' /\ OnePort' /\ HeadKept'
    BY <1>1, <2>1 DEF MicTypes, OnePort, HeadKept, Live, Mic!Threads
  <2>3. BlocksInOrder'
    BY <1>1, <2>1, OrderKept DEF Live, Mic!Threads
  <2> QED BY <2>2, <2>3
<1> QED BY <1>2, <1>3

\* Ending, waiting for a datagram of the radio's microphone, and looking at the
\* queue.
LEMMA MicLook ==
  ASSUME MicInv, NEW t \in Mic!Threads, Mic!Exit(t) \/ Mic!Poll(t) \/ Mic!Look(t)
  PROVE  MicInv'
<1> USE DEF MicInv, Mic!clientVars, Mic!channelVars
<1>1. UNCHANGED <<mUp, mListener, mClients, mBlocks, mQueue, mEnabled, mMox, mKeys, mSent>>
  BY DEF Mic!Exit, Mic!Poll, Mic!Look
<1>2. mThread[t] \in Record /\ mQueue \in Seq(Block) /\ mThread[t].pc \in {"top", "look"}
  BY ThreadShape DEF MicTypes, Mic!Exit, Mic!Poll, Mic!Look, Mic!At
<1>3. /\ mThread' \in Seq(Record) /\ Mic!Threads' = Mic!Threads
      /\ mThread'[t].ch = mThread[t].ch /\ mThread'[t].fill = mThread[t].fill
      /\ \A u \in Mic!Threads : u # t => mThread'[u] = mThread[u]
      /\ \/ mThread'[t].pc = "gone" /\ mBound' = mBound \ {t}
         \/ mThread'[t].pc \in {"look", "top"} /\ mBound' = mBound
         \/ /\ mThread'[t].pc = "serve" /\ mBound' = mBound
            /\ mQueue # <<>> /\ mThread'[t].item = Head(mQueue)
  <2>1. CASE Mic!Exit(t)
    BY <2>1, Goes DEF MicTypes, Mic!Exit, Places
  <2>2. CASE Mic!Poll(t)
    BY <2>2, Goes DEF MicTypes, Mic!Poll, Places
  <2>3. CASE Mic!Look(t) /\ Mic!Goto(t, "top")
    BY <2>3, Goes DEF MicTypes, Mic!Look, Places
  <2>4. CASE Mic!Look(t) /\ ~Mic!Goto(t, "top")
    <3> DEFINE r == [[mThread[t] EXCEPT !.pc = "serve"] EXCEPT !.item = Head(mQueue)]
    <3>1. /\ mQueue # <<>> /\ mBound' = mBound
          /\ mThread' = [mThread EXCEPT ![t].pc = "serve", ![t].item = Head(mQueue)]
      BY <2>4 DEF Mic!Look
    <3>2. mThread' = [mThread EXCEPT ![t] = r]
      BY <1>2, <3>1 DEF MicTypes
    <3>3. Head(mQueue) \in Block
      BY <1>2, <3>1
    <3>4. r \in Record /\ r.pc = "serve" /\ r.ch = mThread[t].ch /\ r.fill = mThread[t].fill
          /\ r.item = Head(mQueue)
      BY <1>2, <3>3 DEF Record, Places
    <3> HIDE DEF r
    <3> QED BY <3>1, <3>2, <3>4, OneThread DEF MicTypes
  <2> QED BY <2>1, <2>2, <2>3, <2>4
<1>4. MicTypes'
  BY <1>1, <1>3 DEF MicTypes
<1>5. OnePort'
  BY <1>2, <1>3 DEF OnePort, Live
<1>6. HeadKept'
  BY <1>1, <1>3 DEF HeadKept
<1>7. BlocksInOrder'
  BY <1>1, <1>2, <1>3, OrderKept DEF Live
<1> QED BY <1>4, <1>5, <1>6, <1>7

\* Two rising stores, the second above the first, rise as one.
LEMMA RisingConcat ==
  ASSUME NEW s \in Seq(Nat), NEW f \in Seq(Nat), Rising(s), Rising(f),
         \A j \in DOMAIN f : Below(s, f[j])
  PROVE  /\ s \o f \in Seq(Nat) /\ Rising(s \o f)
         /\ \A n \in Nat : Below(s, n) /\ Below(f, n) => Below(s \o f, n)
<1>1. /\ s \o f \in Seq(Nat) /\ Len(s \o f) = Len(s) + Len(f)
      /\ \A i \in 1 .. Len(s) + Len(f) :
           (s \o f)[i] = IF i <= Len(s) THEN s[i] ELSE f[i - Len(s)]
  BY ConcatProperties
<1>2. Len(s) \in Nat /\ Len(f) \in Nat /\ DOMAIN s = 1 .. Len(s) /\ DOMAIN f = 1 .. Len(f)
      /\ DOMAIN (s \o f) = 1 .. Len(s) + Len(f)
  BY <1>1
<1>3. \A i \in DOMAIN (s \o f) :
        \/ i \in DOMAIN s /\ (s \o f)[i] = s[i]
        \/ i > Len(s) /\ i - Len(s) \in DOMAIN f /\ (s \o f)[i] = f[i - Len(s)]
  BY <1>1, <1>2
<1>4. Rising(s \o f)
  <2> SUFFICES ASSUME NEW j \in DOMAIN (s \o f), NEW k \in DOMAIN (s \o f), j < k
               PROVE  (s \o f)[j] < (s \o f)[k]
    BY DEF Rising
  <2>1. CASE k \in DOMAIN s
    BY <1>2, <1>3, <2>1 DEF Rising
  <2>2. CASE k > Len(s) /\ j \in DOMAIN s
    BY <1>2, <1>3, <2>2 DEF Below
  <2>3. CASE k > Len(s) /\ j > Len(s)
    <3>1. (s \o f)[j] = f[j - Len(s)] /\ (s \o f)[k] = f[k - Len(s)]
          /\ j - Len(s) \in DOMAIN f /\ k - Len(s) \in DOMAIN f /\ j - Len(s) < k - Len(s)
      BY <1>2, <1>3, <2>3
    <3> QED BY <3>1 DEF Rising
  <2> QED BY <1>2, <1>3, <2>1, <2>2, <2>3
<1>5. \A n \in Nat : Below(s, n) /\ Below(f, n) => Below(s \o f, n)
  BY <1>3 DEF Below
<1> QED BY <1>1, <1>4, <1>5

LEMMA RisingAppend ==
  ASSUME NEW f \in Seq(Nat), NEW n \in Nat, Rising(f), Below(f, n)
  PROVE  /\ Append(f, n) \in Seq(Nat) /\ Rising(Append(f, n))
         /\ \A m \in Nat : n < m => Below(Append(f, n), m)
         /\ \A s \in Seq(Nat) :
              Below(s, n) /\ (\A j \in DOMAIN f : Below(s, f[j]))
                => \A j \in DOMAIN Append(f, n) : Below(s, Append(f, n)[j])
<1> DEFINE g == Append(f, n)
<1>1. /\ g \in Seq(Nat) /\ Len(f) \in Nat /\ DOMAIN f = 1 .. Len(f) /\ DOMAIN g = 1 .. Len(f) + 1
      /\ \A j \in DOMAIN f : g[j] = f[j]
      /\ g[Len(f) + 1] = n
  OBVIOUS
<1> HIDE DEF g
<1>2. \A j \in DOMAIN g : (j \in DOMAIN f /\ g[j] = f[j]) \/ (j = Len(f) + 1 /\ g[j] = n)
  BY <1>1
<1>3. Rising(g)
  BY <1>1, <1>2 DEF Rising, Below
<1>4. \A m \in Nat : n < m => Below(g, m)
  <2> SUFFICES ASSUME NEW m \in Nat, n < m, NEW j \in DOMAIN g PROVE g[j] < m
    BY DEF Below
  <2>1. \A i \in DOMAIN f : f[i] \in Nat /\ f[i] < n
    BY DEF Below
  <2> QED BY <1>2, <2>1
<1>5. \A s \in Seq(Nat) : Below(s, n) /\ (\A j \in DOMAIN f : Below(s, f[j]))
                            => \A j \in DOMAIN g : Below(s, g[j])
  BY <1>2
<1> QED BY <1>1, <1>3, <1>4, <1>5 DEF g

\* What the thread that serves the head of the queue finds.
LEMMA ServeFinds ==
  ASSUME MicInv, NEW t \in Mic!Threads, mThread[t].pc = "serve"
  PROVE  /\ mQueue \in Seq(Block) /\ mQueue # <<>> /\ 1 \in DOMAIN mQueue
         /\ mThread[t].item = Head(mQueue) /\ Head(mQueue) = mQueue[1]
         /\ mThread[t].item.n \in Nat /\ mThread[t].item.n <= mBlocks /\ mBlocks \in Nat
         /\ Rising(mThread[t].fill) /\ Below(mThread[t].fill, mThread[t].item.n)
         /\ \A ch \in MicChannels : Below(mSent[ch], mThread[t].item.n)
         /\ \A j \in DOMAIN mThread[t].fill : Below(mSent[mThread[t].ch], mThread[t].fill[j])
         /\ \A k \in DOMAIN mQueue : k > 1 => mThread[t].item.n < mQueue[k].n /\ mQueue[k].n \in Nat
         /\ \A u \in Mic!Threads : u # t => ~Live(u)
<1> USE DEF MicInv
<1>1. mQueue # <<>> /\ mThread[t].item = Head(mQueue)
  BY DEF HeadKept
<1>2. mQueue \in Seq(Block) /\ 1 \in DOMAIN mQueue /\ Head(mQueue) = mQueue[1] /\ mBlocks \in Nat
  BY <1>1 DEF MicTypes
<1>3. mThread[t].item.n \in Nat /\ mThread[t].item.n <= mBlocks
  BY <1>1, <1>2 DEF MicTypes
<1>4. \A u \in Mic!Threads : u # t => ~Live(u)
  BY DEF OnePort, Live
<1>5. Waiting(1)
  BY <1>4 DEF Waiting, Live
<1>6. /\ Rising(mThread[t].fill) /\ Below(mThread[t].fill, mThread[t].item.n)
      /\ \A ch \in MicChannels : Below(mSent[ch], mThread[t].item.n)
      /\ \A j \in DOMAIN mThread[t].fill : Below(mSent[mThread[t].ch], mThread[t].fill[j])
  BY <1>1, <1>2, <1>5 DEF BlocksInOrder, Live
<1>7. \A k \in DOMAIN mQueue : k > 1 => mThread[t].item.n < mQueue[k].n /\ mQueue[k].n \in Nat
  BY <1>1, <1>2 DEF BlocksInOrder, MicTypes
<1> QED BY <1>1, <1>2, <1>3, <1>4, <1>6, <1>7

\* The modulator takes the head of the queue, stores it or sends what it has.
LEMMA MicServe ==
  ASSUME MicInv, NEW t \in Mic!Threads, Mic!Serve(t)
  PROVE  MicInv'
<1> USE DEF MicInv, Mic!clientVars, Mic!channelVars
<1> DEFINE n == mThread[t].item.n
<1>0. <<>> \in Seq(Nat)
  OBVIOUS
<1>1. UNCHANGED <<mUp, mListener, mClients, mBlocks, mQueue, mEnabled, mMox, mKeys, mBound>>
      /\ mThread[t].pc = "serve"
  BY DEF Mic!Serve, Mic!At
<1>2. mThread[t] \in Record /\ mThread[t].ch \in MicChannels /\ mThread[t].fill \in Seq(Nat)
      /\ mThread[t].item \in Block \cup {Mic!NoBlock}
  BY ThreadShape
<1>3. PICK fill : fill = Append(mThread[t].fill, n)
  OBVIOUS
<1>4. /\ fill \in Seq(Nat) /\ Rising(fill)
      /\ \A m \in Nat : n < m => Below(fill, m)
      /\ \A j \in DOMAIN fill : Below(mSent[mThread[t].ch], fill[j])
  <2>1. mSent[mThread[t].ch] \in Seq(Nat)
    BY <1>2 DEF MicTypes
  <2>2. n \in Nat /\ Rising(mThread[t].fill) /\ Below(mThread[t].fill, n)
        /\ Below(mSent[mThread[t].ch], n)
        /\ \A j \in DOMAIN mThread[t].fill : Below(mSent[mThread[t].ch], mThread[t].fill[j])
    BY <1>1, <1>2, ServeFinds
  <2> HIDE DEF n, MicInv
  <2> QED BY <1>2, <1>3, <2>1, <2>2, RisingAppend
<1>5. \/ Mic!Goto(t, "remove") /\ UNCHANGED mSent
      \/ mThread' = [mThread EXCEPT ![t].pc = "remove", ![t].fill = fill] /\ UNCHANGED mSent
      \/ /\ mThread' = [mThread EXCEPT ![t].pc = "remove", ![t].fill = <<>>]
         /\ mSent' = [mSent EXCEPT ![mThread[t].ch] = @ \o fill]
  BY <1>3 DEF Mic!Serve
<1>6. PICK f \in {mThread[t].fill, fill, <<>>} :
        /\ mThread' \in Seq(Record) /\ Mic!Threads' = Mic!Threads
        /\ mThread'[t].pc = "remove" /\ mThread'[t].ch = mThread[t].ch
        /\ mThread'[t].item = mThread[t].item /\ mThread'[t].fill = f
        /\ \A u \in Mic!Threads : u # t => mThread'[u] = mThread[u]
        /\ \/ f \in {mThread[t].fill, fill} /\ UNCHANGED mSent
           \/ f = <<>> /\ mSent' = [mSent EXCEPT ![mThread[t].ch] = @ \o fill]
  <2>1. CASE Mic!Goto(t, "remove") /\ UNCHANGED mSent
    BY <2>1, Goes DEF MicTypes, Places
  <2>2. ASSUME NEW f \in {fill, <<>>}, mThread' = [mThread EXCEPT ![t].pc = "remove", ![t].fill = f]
        PROVE  /\ mThread' \in Seq(Record) /\ Mic!Threads' = Mic!Threads
               /\ mThread'[t].pc = "remove" /\ mThread'[t].ch = mThread[t].ch
               /\ mThread'[t].item = mThread[t].item /\ mThread'[t].fill = f
               /\ \A u \in Mic!Threads : u # t => mThread'[u] = mThread[u]
    <3> DEFINE r == [[mThread[t] EXCEPT !.pc = "remove"] EXCEPT !.fill = f]
    <3>1. mThread' = [mThread EXCEPT ![t] = r]
      BY <1>2, <2>2 DEF MicTypes
    <3>3. f \in Seq(Nat)
      BY <1>0, <1>4, Zenon
    <3>2. r \in Record /\ r.pc = "remove" /\ r.ch = mThread[t].ch /\ r.item = mThread[t].item
          /\ r.fill = f
      BY <1>2, <3>3 DEF Record, Places
    <3> HIDE DEF r
    <3> QED BY <3>1, <3>2, OneThread DEF MicTypes
  <2> QED BY <1>5, <2>1, <2>2
<1>7. OnePort' /\ HeadKept'
  BY <1>1, <1>6 DEF OnePort, HeadKept, Live
<1>8. \A k \in DOMAIN mQueue' : Waiting(k)' => k > 1
  BY <1>6 DEF Waiting
<1>9. \A u \in Mic!Threads : u # t => ~Live(u)'
  BY <1>1, <1>6, ServeFinds DEF Live
<1>10. /\ f \in Seq(Nat) /\ Rising(f) /\ Below(f, mBlocks + 1)
       /\ \A k \in DOMAIN mQueue : k > 1 => Below(f, mQueue[k].n)
  <2>1. /\ n \in Nat /\ n < mBlocks + 1 /\ mBlocks + 1 \in Nat
        /\ \A k \in DOMAIN mQueue : k > 1 => n < mQueue[k].n /\ mQueue[k].n \in Nat
        /\ Rising(mThread[t].fill) /\ Below(mThread[t].fill, n)
    BY <1>1, ServeFinds
  <2>2. \A m \in Nat : n < m => Below(mThread[t].fill, m)
    BY <1>2, <2>1 DEF Below
  <2>3. f = <<>> => DOMAIN f = {}
    OBVIOUS
  <2>4. \A m \in Nat : n < m => Below(f, m)
    BY <1>4, <2>2, <2>3 DEF Below
  <2>5. f \in Seq(Nat)
    BY <1>0, <1>2, <1>4, Zenon
  <2>6. Rising(f)
    <3>1. CASE f = <<>>
      BY <2>3, <3>1 DEF Rising
    <3>2. CASE f # <<>>
      BY <1>4, <2>1, <3>2
    <3> QED BY <3>1, <3>2
  <2> QED BY <2>1, <2>4, <2>5, <2>6
<1>11. /\ \A ch \in MicChannels :
             mSent[ch] \in Seq(Nat) /\ Rising(mSent[ch]) /\ Below(mSent[ch], mBlocks + 1)
       /\ \A ch \in MicChannels : \A k \in DOMAIN mQueue : k > 1 => Below(mSent[ch], mQueue[k].n)
  <2>1. \A ch \in MicChannels :
           mSent[ch] \in Seq(Nat) /\ Rising(mSent[ch]) /\ Below(mSent[ch], mBlocks + 1)
    BY DEF MicTypes, BlocksInOrder
  <2>2. /\ n \in Nat /\ \A ch \in MicChannels : Below(mSent[ch], n)
        /\ \A k \in DOMAIN mQueue : k > 1 => n < mQueue[k].n /\ mQueue[k].n \in Nat
    BY <1>1, ServeFinds
  <2>3. \A ch \in MicChannels : \A m \in Nat : n < m => Below(mSent[ch], m)
    BY <2>1, <2>2 DEF Below
  <2> QED BY <2>1, <2>2, <2>3
<1>12. \A ch \in MicChannels :
         /\ mSent'[ch] \in Seq(Nat) /\ Rising(mSent'[ch]) /\ Below(mSent'[ch], mBlocks + 1)
         /\ \A k \in DOMAIN mQueue : k > 1 => Below(mSent'[ch], mQueue[k].n)
  <2>1. mSent \in [MicChannels -> Seq(Nat)]
    BY DEF MicTypes
  <2>2. CASE UNCHANGED mSent
    BY <1>11, <2>2
  <2>3. CASE mSent' = [mSent EXCEPT ![mThread[t].ch] = @ \o fill]
    <3>1. /\ n \in Nat /\ n < mBlocks + 1 /\ mBlocks + 1 \in Nat
          /\ \A k \in DOMAIN mQueue : k > 1 => n < mQueue[k].n /\ mQueue[k].n \in Nat
      BY <1>1, ServeFinds
    <3>2. PICK s : s = mSent[mThread[t].ch] /\ s \in Seq(Nat) /\ Rising(s) /\ Below(s, mBlocks + 1)
                   /\ \A k \in DOMAIN mQueue : k > 1 => Below(s, mQueue[k].n)
      BY <1>2, <1>11
    <3>3. /\ s \o fill \in Seq(Nat) /\ Rising(s \o fill)
          /\ \A m \in Nat : Below(s, m) /\ Below(fill, m) => Below(s \o fill, m)
      BY <1>4, <3>2, RisingConcat
    <3>4. mSent'[mThread[t].ch] = s \o fill
          /\ \A ch \in MicChannels : ch # mThread[t].ch => mSent'[ch] = mSent[ch]
      BY <1>2, <2>1, <2>3, <3>2
    <3>5. Below(s \o fill, mBlocks + 1)
      BY <1>4, <3>1, <3>2, <3>3
    <3>6. \A k \in DOMAIN mQueue : k > 1 => Below(s \o fill, mQueue[k].n)
      BY <1>4, <3>1, <3>2, <3>3
    <3> QED BY <1>11, <3>3, <3>4, <3>5, <3>6
  <2> QED BY <1>6, <2>2, <2>3
<1>13. \A j \in DOMAIN f : Below(mSent'[mThread[t].ch], f[j])
  <2>1. CASE f = <<>>
    BY <2>1
  <2>2. CASE f # <<>>
    <3>1. f \in {mThread[t].fill, fill} /\ UNCHANGED mSent
      BY <1>6, <2>2
    <3>2. \A j \in DOMAIN mThread[t].fill : Below(mSent[mThread[t].ch], mThread[t].fill[j])
      BY <1>1, ServeFinds
    <3> QED BY <1>4, <3>1, <3>2
  <2> QED BY <2>1, <2>2
<1>14. BlocksInOrder'
  <2>1. \A j, k \in DOMAIN mQueue : j < k => mQueue[j].n < mQueue[k].n
    BY DEF BlocksInOrder
  <2> HIDE DEF MicInv
  <2> QED BY <1>1, <1>6, <1>8, <1>9, <1>10, <1>12, <1>13, <2>1 DEF BlocksInOrder
<1>15. MicTypes'
  <2>1. mSent' \in [MicChannels -> Seq(Nat)]
    <3>1. mSent' = [ch \in MicChannels |-> mSent'[ch]]
      BY <1>6 DEF MicTypes
    <3>2. \A ch \in MicChannels : mSent'[ch] \in Seq(Nat)
      BY <1>12
    <3> QED BY <3>1, <3>2
  <2> QED BY <1>1, <1>6, <2>1 DEF MicTypes
<1> QED BY <1>7, <1>14, <1>15

\* Taking the block off: the queue moves up, and nothing has gone to the
\* modulator that is not below its new head.
LEMMA MicUnqueue ==
  ASSUME MicInv, NEW t \in Mic!Threads, Mic!Unqueue(t)
  PROVE  MicInv'
<1> USE DEF MicInv, Mic!clientVars, Mic!channelVars
<1>1. UNCHANGED <<mUp, mListener, mClients, mBlocks, mEnabled, mMox, mKeys, mBound, mSent>>
      /\ mThread[t].pc = "remove"
  BY DEF Mic!Unqueue, Mic!At
<1>2. /\ mThread[t] \in Record /\ mThread[t].fill \in Seq(Nat) /\ mQueue \in Seq(Block)
      /\ mQueue # <<>> /\ Head(mQueue) = mThread[t].item
  BY <1>1, ThreadShape DEF MicTypes, HeadKept
<1>3. mQueue' = Tail(mQueue)
  BY <1>2, RemoveHead DEF Mic!Unqueue
<1>4. /\ mQueue' \in Seq(Block) /\ DOMAIN mQueue = 1 .. Len(mQueue) /\ Len(mQueue) \in Nat
      /\ DOMAIN mQueue' = 1 .. Len(mQueue) - 1
      /\ \A k \in DOMAIN mQueue' : k + 1 \in DOMAIN mQueue
                                   /\ k + 1 > 1 /\ mQueue'[k] = mQueue[k + 1]
  BY <1>2, <1>3
<1>5. /\ mThread' \in Seq(Record) /\ Mic!Threads' = Mic!Threads
      /\ mThread'[t].pc = "top" /\ mThread'[t].ch = mThread[t].ch
      /\ mThread'[t].fill = mThread[t].fill
      /\ \A u \in Mic!Threads : u # t => mThread'[u] = mThread[u]
  <2> DEFINE r == [[mThread[t] EXCEPT !.pc = "top"] EXCEPT !.item = Mic!NoBlock]
  <2>1. mThread' = [mThread EXCEPT ![t] = r]
    BY <1>2 DEF Mic!Unqueue, MicTypes
  <2>2. r \in Record /\ r.pc = "top" /\ r.ch = mThread[t].ch /\ r.fill = mThread[t].fill
    BY <1>2 DEF Record, Places
  <2> HIDE DEF r
  <2> QED BY <2>1, <2>2, OneThread DEF MicTypes
<1>6. \A u \in Mic!Threads : u # t => ~Live(u) /\ ~Live(u)'
  BY <1>1, <1>5 DEF OnePort, Live
<1>7. MicTypes'
  <2>1. \A k \in DOMAIN mQueue' : mQueue'[k].n \in 1 .. mBlocks
    BY <1>4 DEF MicTypes
  <2> QED BY <1>1, <1>4, <1>5, <2>1 DEF MicTypes
<1>8. OnePort' /\ HeadKept'
  BY <1>1, <1>5, <1>6 DEF OnePort, HeadKept, Live
<1>9. BlocksInOrder'
  <2>1. \A j, k \in DOMAIN mQueue' : j < k => mQueue'[j].n < mQueue'[k].n
    BY <1>4 DEF BlocksInOrder
  <2>2. \A k \in DOMAIN mQueue' : Waiting(k + 1)
    BY <1>4 DEF Waiting
  <2>3. \A ch \in MicChannels : \A k \in DOMAIN mQueue' : Below(mSent[ch], mQueue'[k].n)
    BY <1>4, <2>2 DEF BlocksInOrder
  <2>4. \A k \in DOMAIN mQueue' : Below(mThread[t].fill, mQueue'[k].n)
    BY <1>1, <1>4, <2>2 DEF BlocksInOrder, Live
  <2>5. /\ Rising(mThread[t].fill) /\ Below(mThread[t].fill, mBlocks + 1)
        /\ \A j \in DOMAIN mThread[t].fill : Below(mSent[mThread[t].ch], mThread[t].fill[j])
    BY <1>1 DEF BlocksInOrder, Live
  <2>6. \A ch \in MicChannels : Rising(mSent[ch]) /\ Below(mSent[ch], mBlocks + 1)
    BY DEF BlocksInOrder
  <2> HIDE DEF MicInv
  <2> QED BY <1>1, <1>5, <1>6, <2>1, <2>3, <2>4, <2>5, <2>6 DEF BlocksInOrder
<1> QED BY <1>7, <1>8, <1>9

LEMMA MicStep ==
  ASSUME Finite
  PROVE  MicInv /\ [Mic!Next]_(Mic!vars) => MicInv'
<1> SUFFICES ASSUME MicInv, [Mic!Next]_(Mic!vars) PROVE MicInv'
  OBVIOUS
<1>1. ASSUME NEW t \in 1 .. MicMaxThreads, Mic!Thread(t) PROVE MicInv'
  BY <1>1, MicBind, MicLook, MicServe, MicUnqueue DEF Mic!Thread
<1>2. ASSUME NEW ch \in MicChannels, Mic!Attach(ch) \/ Mic!Detach(ch) \/ Mic!Key(ch) PROVE MicInv'
  BY <1>2, MicAttach, MicAside
<1>3. ASSUME NEW c \in MicClients,
             Mic!Accept(c) \/ Mic!Eof(c) \/ \E ch \in MicChannels : Mic!Receive(c, ch)
      PROVE  MicInv'
  BY <1>3, MicAside, MicReceive
<1>4. CASE Mic!Listen \/ UNCHANGED Mic!vars
  BY <1>4, MicAside
<1> QED BY <1>1, <1>2, <1>3, <1>4 DEF Mic!Next

\* Whatever the clients send, and however often transmitters are attached, the
\* radio gets the blocks of a channel once and in their order, and a transmit
\* thread frees the head of the queue that it has modulated (tx_thread and
\* mic_audio_readcb): the port all transmit threads bind is what this rests on.
THEOREM MicrophoneCorrect ==
  ASSUME Finite
  PROVE  Mic!Spec => []SentInOrder
<1>1. MicInv => Mic!TypeOK
  BY ThreadShape DEF MicInv, MicTypes, Mic!TypeOK, Places
<1>2. MicInv => Mic!SentInOrder
  BY DEF MicInv, HeadKept, BlocksInOrder, Rising, Mic!SentInOrder
<1>3. MicInv /\ [Mic!Next]_(Mic!vars) => MicInv'
  BY MicStep
<1>4. MicInv => SentInOrder
  BY <1>1, <1>2 DEF SentInOrder
<1> QED BY <1>3, <1>4, MicInit, PTL DEF Mic!Spec
----------------------------------------------------------------------------
(* The two semaphores of the spectrum clients *)

CONSTANTS SpectrumClients, SpectrumChannels, SpectrumPeriod, SpectrumNone

VARIABLES
  pUp, pListener, pList, pNext, pLeft, pFreed, pEnabled, pFps, pCounter,
  pHandler, pItem, pEof, pSpecSem, pSpectrumSem, pFed

Spectrum == INSTANCE SpectrumFanout WITH
  Clients <- SpectrumClients, Channels <- SpectrumChannels,
  Period <- SpectrumPeriod, None <- SpectrumNone,
  up <- pUp, listener <- pListener, list <- pList, next <- pNext,
  left <- pLeft, freed <- pFreed, enabled <- pEnabled, fps <- pFps,
  counter <- pCounter, handler <- pHandler, item <- pItem, eof <- pEof,
  specSem <- pSpecSem, spectrumSem <- pSpectrumSem, fed <- pFed

\* SpectrumNone is no channel and not the name of the disconnect.
Unnamed == SpectrumNone \notin SpectrumChannels /\ SpectrumNone # "eof"

SpectrumTypes ==
  /\ pEof \in [pc : {"idle", "remove", "free"}, client : SpectrumClients \cup {SpectrumNone}]
  /\ pHandler \in [SpectrumChannels ->
       {"none", "idle", "pixels", "first", "visit", "take", "send", "step"}]

\* The disconnect has the one semaphore from its first step to its last, and a
\* handler the other while it sends.
Owners ==
  /\ pSpecSem = IF pEof.pc = "idle" THEN SpectrumNone ELSE "eof"
  /\ pSpectrumSem \in SpectrumChannels \cup {SpectrumNone}
  /\ \A i \in SpectrumChannels : pHandler[i] = "send" <=> pSpectrumSem = i

SpectrumInv == SpectrumTypes /\ Owners

LEMMA SpectrumEof ==
  ASSUME Unnamed, SpectrumInv,
         \/ Spectrum!EofSteps
         \/ \E c \in SpectrumClients : Spectrum!Eof(c)
  PROVE  SpectrumInv'
<1>1. UNCHANGED <<pHandler, pSpectrumSem>>
  BY DEF Spectrum!EofSteps, Spectrum!EofRemove, Spectrum!EofFree, Spectrum!Eof,
         Spectrum!handlerVars
<1>2. /\ pEof' \in [pc : {"idle", "remove", "free"}, client : SpectrumClients \cup {SpectrumNone}]
      /\ pSpecSem' = IF pEof'.pc = "idle" THEN SpectrumNone ELSE "eof"
  <2>1. CASE Spectrum!EofRemove
    BY <2>1 DEF Spectrum!EofRemove, SpectrumInv, SpectrumTypes, Owners
  <2>2. CASE Spectrum!EofFree
    BY <2>2 DEF Spectrum!EofFree, Spectrum!NoEof
  <2>3. ASSUME NEW c \in SpectrumClients, Spectrum!Eof(c)
        PROVE  /\ pEof' \in [pc : {"idle", "remove", "free"},
                             client : SpectrumClients \cup {SpectrumNone}]
               /\ pSpecSem' = IF pEof'.pc = "idle" THEN SpectrumNone ELSE "eof"
    BY <2>3 DEF Spectrum!Eof
  <2> QED BY <2>1, <2>2, <2>3 DEF Spectrum!EofSteps
<1> QED BY <1>1, <1>2 DEF SpectrumInv, SpectrumTypes, Owners

LEMMA SpectrumHandler ==
  ASSUME Unnamed, SpectrumInv, NEW i \in SpectrumChannels,
         Spectrum!Handler(i) \/ Spectrum!Start(i)
  PROVE  SpectrumInv'
<1> USE DEF SpectrumInv, SpectrumTypes, Owners, Spectrum!At, Spectrum!Goto
<1>1. UNCHANGED <<pEof, pSpecSem>>
  BY DEF Spectrum!Handler, Spectrum!Tick, Spectrum!NoPixels, Spectrum!Pixels, Spectrum!First,
         Spectrum!Visit, Spectrum!SendTake, Spectrum!SendNot, Spectrum!Send, Spectrum!Step,
         Spectrum!Start
<1>2. ASSUME pSpectrumSem' = pSpectrumSem, pHandler[i] # "send",
             NEW pc \in {"none", "idle", "pixels", "first", "visit", "take", "step"},
             pHandler' = [pHandler EXCEPT ![i] = pc]
      PROVE  SpectrumInv'
  BY <1>1, <1>2
<1>3. CASE Spectrum!Start(i)
  <2>1. CASE pHandler[i] = "none"
    BY <1>2, <1>3, <2>1 DEF Spectrum!Start
  <2>2. CASE pHandler[i] # "none"
    <3>1. pHandler' = pHandler /\ pSpectrumSem' = pSpectrumSem
      BY <1>3, <2>2 DEF Spectrum!Start
    <3> QED BY <1>1, <3>1
  <2> QED BY <2>1, <2>2
<1>4. CASE \/ Spectrum!Tick(i) \/ Spectrum!NoPixels(i) \/ Spectrum!Pixels(i)
           \/ Spectrum!First(i) \/ Spectrum!Visit(i) \/ Spectrum!Step(i)
  BY <1>2, <1>4 DEF Spectrum!Tick, Spectrum!NoPixels, Spectrum!Pixels, Spectrum!First,
     Spectrum!Visit, Spectrum!Step
<1>5. CASE Spectrum!SendTake(i)
  BY <1>1, <1>5 DEF Spectrum!SendTake, Unnamed
<1>6. CASE Spectrum!SendNot(i) \/ Spectrum!Send(i)
  <2>1. PICK pc \in {"idle", "step"} : pHandler' = [pHandler EXCEPT ![i] = pc]
    BY <1>6 DEF Spectrum!SendNot, Spectrum!Send
  <2>2. pSpectrumSem = i /\ pSpectrumSem' = SpectrumNone
    BY <1>6 DEF Spectrum!SendNot, Spectrum!Send
  <2> QED BY <1>1, <2>1, <2>2 DEF Unnamed
<1> QED BY <1>3, <1>4, <1>5, <1>6 DEF Spectrum!Handler

LEMMA SpectrumStep ==
  ASSUME Unnamed
  PROVE  SpectrumInv /\ [Spectrum!Next]_(Spectrum!vars) => SpectrumInv'
<1> SUFFICES ASSUME SpectrumInv, [Spectrum!Next]_(Spectrum!vars) PROVE SpectrumInv'
  OBVIOUS
<1>1. CASE UNCHANGED <<pHandler, pEof, pSpecSem, pSpectrumSem>>
  BY <1>1 DEF SpectrumInv, SpectrumTypes, Owners
<1>2. ASSUME NEW c \in SpectrumClients, Spectrum!Accept(c) PROVE SpectrumInv'
  BY <1>1, <1>2 DEF Spectrum!Accept, Spectrum!handlerVars
<1>3. ASSUME NEW i \in SpectrumChannels, Spectrum!Stop(i) \/ Spectrum!SetFps(i)
      PROVE  SpectrumInv'
  BY <1>1, <1>3 DEF Spectrum!Stop, Spectrum!SetFps, Spectrum!handlerVars
<1>4. CASE Spectrum!Listen \/ UNCHANGED Spectrum!vars
  BY <1>1, <1>4 DEF Spectrum!Listen, Spectrum!vars, Spectrum!handlerVars
<1> QED BY <1>2, <1>3, <1>4, SpectrumEof, SpectrumHandler DEF Spectrum!Next

\* Nobody keeps a semaphore or has both: who has spectrum_semaphore is one handler
\* in the middle of its send, which waits for nothing, and who has
\* spec_bufevent_semaphore is the disconnect, which waits for the other one alone.
NobodyKeeps ==
  /\ pSpectrumSem # SpectrumNone =>
       /\ pHandler[pSpectrumSem] = "send"
       /\ \A i \in SpectrumChannels : pHandler[i] = "send" => i = pSpectrumSem
  /\ pSpectrumSem = SpectrumNone => \A i \in SpectrumChannels : pHandler[i] # "send"
  /\ pSpecSem # SpectrumNone <=> pEof.pc \in {"remove", "free"}

\* The handlers of the spectrum timers and the disconnect of a spectrum client
\* (spectrum_timer_handler, spectrum_errorcb) never wait for each other in a circle.
THEOREM SpectrumGoesOn ==
  ASSUME Unnamed
  PROVE  Spectrum!Spec => []NobodyKeeps
<1>1. Spectrum!Init => SpectrumInv
  BY DEF Spectrum!Init, Spectrum!NoEof, SpectrumInv, SpectrumTypes, Owners, Unnamed
<1>2. SpectrumInv => NobodyKeeps
  BY DEF SpectrumInv, SpectrumTypes, Owners, NobodyKeeps, Unnamed
<1>3. SpectrumInv /\ [Spectrum!Next]_(Spectrum!vars) => SpectrumInv'
  BY SpectrumStep
<1> QED BY <1>1, <1>2, <1>3, PTL DEF Spectrum!Spec
============================================================================
