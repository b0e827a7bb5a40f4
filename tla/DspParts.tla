----------------------------- MODULE DspParts -----------------------------
(*****************************************************************************)
(* Parts of dspserver and what each has to keep true, for any clients,       *)
(* channels and sizes. They share no state; the constants and variables of   *)
(* each bear its name or letter. MCDspParts runs them with small values,     *)
(* DspParts_proofs proves the properties for all.                            *)
(*****************************************************************************)
EXTENDS Integers

-----------------------------------------------------------------------------
(* The settings of the channels, and push-to-talk *)

CONSTANTS
  SettingsRxChannels, SettingsTxChannels, SettingsRadioId, SettingsCareful,
  SettingsKnobs, SettingsMaxChanges

VARIABLES
  sEnabled, sRunning, sKnob, sMode, sPassband, sRate, sMox, sKeyed, sBlanker,
  sEncoding, sHeard, sChanges

settingsVars == <<
  sEnabled, sRunning, sKnob, sMode, sPassband, sRate, sMox, sKeyed, sBlanker,
  sEncoding, sHeard, sChanges>>
Settings == INSTANCE DspSettings WITH
  RxChannels <- SettingsRxChannels, TxChannels <- SettingsTxChannels,
  RadioId <- SettingsRadioId, Careful <- SettingsCareful, Knobs <- SettingsKnobs,
  MaxChanges <- SettingsMaxChanges,
  enabled <- sEnabled, running <- sRunning, knob <- sKnob, mode <- sMode,
  passband <- sPassband, rate <- sRate, mox <- sMox, keyed <- sKeyed,
  blanker <- sBlanker, encoding <- sEncoding, heard <- sHeard, changes <- sChanges

\* A radio transmits or receives, never both, through every order of keying,
\* starting and stopping: dsp_command stops the one side before it starts the other.
HalfDuplex == Settings!TypeOK /\ Settings!HalfDuplex

-----------------------------------------------------------------------------
(* The bandscope *)

CONSTANTS
  ScopeClients, ScopeOrderly, ScopeMaxBuffers, ScopeNone

VARIABLES
  bUp, bListener, bList, bLeft, bOn, bKnown, bEnabled, bCapable, bBuffer,
  bBuffers, bTimers, bLastTimer, bCommand, bWbSem, bHandler, bItem, bInto,
  bCounter, bOffset

scopeVars == <<
  bUp, bListener, bList, bLeft, bOn, bKnown, bEnabled, bCapable, bBuffer,
  bBuffers, bTimers, bLastTimer, bCommand, bWbSem, bHandler, bItem, bInto,
  bCounter, bOffset>>
Scope == INSTANCE Bandscope WITH
  Clients <- ScopeClients, Orderly <- ScopeOrderly, MaxBuffers <- ScopeMaxBuffers,
  None <- ScopeNone,
  up <- bUp, listener <- bListener, list <- bList, left <- bLeft, on <- bOn,
  known <- bKnown, enabled <- bEnabled, capable <- bCapable, buffer <- bBuffer,
  buffers <- bBuffers, timers <- bTimers, lastTimer <- bLastTimer,
  command <- bCommand, wbSem <- bWbSem, handler <- bHandler, item <- bItem,
  into <- bInto, counter <- bCounter, offset <- bOffset

\* The buffer of the bandscope is there whenever pixels are written to it or sent from
\* it, though the thread that frees it holds another semaphore than the one that fills it.
BufferAlive == Scope!TypeOK /\ Scope!BufferAlive

-----------------------------------------------------------------------------
(* The audio buffer and the speaker *)

CONSTANTS
  AudioClients, AudioChannels, AudioBufferSize, AudioBatch, AudioOrderly,
  AudioMaxBuffers

VARIABLES
  fUp, fListener, fClients, fHeard, fAdding, fTodo, fBuffer, fSwitched, fHeader,
  fBuffers, fList, fStop, fRxEnabled, fSpeaker, fPutting

audioVars == <<
  fUp, fListener, fClients, fHeard, fAdding, fTodo, fBuffer, fSwitched, fHeader,
  fBuffers, fList, fStop, fRxEnabled, fSpeaker, fPutting>>
Audio == INSTANCE AudioFanout WITH
  Clients <- AudioClients, Channels <- AudioChannels, BufferSize <- AudioBufferSize,
  Batch <- AudioBatch, Orderly <- AudioOrderly, MaxBuffers <- AudioMaxBuffers,
  up <- fUp, listener <- fListener, clients <- fClients, heard <- fHeard,
  adding <- fAdding, todo <- fTodo, buffer <- fBuffer, switched <- fSwitched,
  header <- fHeader, buffers <- fBuffers, list <- fList, stop <- fStop,
  rxEnabled <- fRxEnabled, speaker <- fSpeaker, putting <- fPutting

\* An audio buffer holds the samples of the receiver its header names, and as long as
\* somebody fills the list of speaker blocks, a thread empties it.
AudioServed == Audio!TypeOK /\ Audio!BufferOfOne /\ Audio!SpeakerLives

-----------------------------------------------------------------------------
(* The companding of audio *)

CONSTANT LawRow
VARIABLE lSample

lawVars == <<lSample>>
Law == INSTANCE Alaw WITH Row <- LawRow, sample <- lSample

\* A-law decodes to within half a step of what was encoded: the tables of the two
\* programs, each made by its own code, have the same segments.
AlawClose == Law!TypeOK /\ Law!AlawClose

-----------------------------------------------------------------------------
(* The list of microphone blocks *)

CONSTANTS
  MicClients, MicChannels, MicWide, MicMaxThreads, MicMaxBlocks, MicMaxKeys

VARIABLES
  mUp, mListener, mClients, mBlocks, mQueue, mEnabled, mMox, mKeys, mThread,
  mBound, mSent

micVars == <<
  mUp, mListener, mClients, mBlocks, mQueue, mEnabled, mMox, mKeys, mThread,
  mBound, mSent>>
Mic == INSTANCE MicQueue WITH
  Clients <- MicClients, Channels <- MicChannels, Wide <- MicWide,
  MaxThreads <- MicMaxThreads, MaxBlocks <- MicMaxBlocks, MaxKeys <- MicMaxKeys,
  up <- mUp, listener <- mListener, clients <- mClients, blocks <- mBlocks,
  queue <- mQueue, enabled <- mEnabled, mox <- mMox, keys <- mKeys,
  thread <- mThread, bound <- mBound, sent <- mSent

\* The radio gets a channel's microphone blocks in the order of the client that sent
\* them, and none twice, though every transmit thread reads the one list.
SentInOrder == Mic!TypeOK /\ Mic!SentInOrder
=============================================================================
