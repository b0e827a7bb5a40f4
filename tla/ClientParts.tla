---------------------------- MODULE ClientParts ----------------------------
(*****************************************************************************)
(* Parts of QtRadio and what each has to keep true, for any receivers, bands *)
(* and settings. They share no state; the constants and variables of each    *)
(* bear its name or letter. MCClient runs them with small values,            *)
(* ClientParts_proofs proves the properties for all.                         *)
(*****************************************************************************)
EXTENDS Integers

-----------------------------------------------------------------------------
(* The readers of the connections *)

CONSTANTS
  StreamsKinds, StreamsRadios, StreamsSound, StreamsMaxFrames, StreamsMaxTries

VARIABLES
  sKind, sUp, sTries, sOpen, sFrames, sNet, sBuffer, sSignal, sPc, sTodo,
  sState, sBytes, sLength, sHeader, sMixed, sOut, sLate, sChannels

streamVars == <<
  sKind, sUp, sTries, sOpen, sFrames, sNet, sBuffer, sSignal, sPc, sTodo,
  sState, sBytes, sLength, sHeader, sMixed, sOut, sLate, sChannels>>
Streams == INSTANCE ClientStreams WITH
  Kinds <- StreamsKinds, Radios <- StreamsRadios, Sound <- StreamsSound,
  MaxFrames <- StreamsMaxFrames, MaxTries <- StreamsMaxTries,
  kind <- sKind, up <- sUp, tries <- sTries, open <- sOpen, frames <- sFrames,
  net <- sNet, buffer <- sBuffer, signal <- sSignal, pc <- sPc, todo <- sTodo,
  state <- sState, bytes <- sBytes, length <- sLength, header <- sHeader,
  mixed <- sMixed, out <- sOut, late <- sLate, channels <- sChannels

\* Headers and bodies are put together from one frame each however TCP cuts the stream,
\* and every frame is handed on once.
Framed == Streams!TypeOK /\ Streams!Framed

-----------------------------------------------------------------------------
(* The panadapter *)

CONSTANTS
  ScopeReceiver, ScopeSlots, ScopeBands, ScopeTunings, ScopePassbands,
  ScopeDrags, ScopeSquelchOn, ScopeRemote, ScopeWide, ScopeMaxAdds, ScopeMaxFo

VARIABLES
  pFrequency, pPass, pBand, pNotch, pNotchFilterIndex, pDrawn, pTimer, pButton,
  pHeld, pPicked, pFilterSelected, pSettingSquelch, pSplitting, pMoved,
  pChecked, pDsp

scopeVars == <<
  pFrequency, pPass, pBand, pNotch, pNotchFilterIndex, pDrawn, pTimer, pButton,
  pHeld, pPicked, pFilterSelected, pSettingSquelch, pSplitting, pMoved,
  pChecked, pDsp>>
Scope == INSTANCE Panadapter WITH
  Receiver <- ScopeReceiver, Slots <- ScopeSlots, Bands <- ScopeBands,
  Tunings <- ScopeTunings, Passbands <- ScopePassbands, Drags <- ScopeDrags,
  SquelchOn <- ScopeSquelchOn, Remote <- ScopeRemote, Wide <- ScopeWide,
  MaxAdds <- ScopeMaxAdds, MaxFo <- ScopeMaxFo,
  frequency <- pFrequency, pass <- pPass, band <- pBand, notch <- pNotch,
  notchFilterIndex <- pNotchFilterIndex, drawn <- pDrawn, timer <- pTimer,
  button <- pButton, held <- pHeld, picked <- pPicked,
  filterSelected <- pFilterSelected, settingSquelch <- pSettingSquelch,
  splitting <- pSplitting, moved <- pMoved, checked <- pChecked, dsp <- pDsp

\* The notches drawn are those of the band that is shown.
ItemsMatch == Scope!TypeOK /\ Scope!ItemsMatch

-----------------------------------------------------------------------------
(* The settings *)

CONSTANTS
  WidgetsReceivers, WidgetsTransmitter, WidgetsKnobs, WidgetsValues,
  WidgetsDefault, WidgetsAgcModes, WidgetsMaxChanges

VARIABLES
  wShown, wAgc, wChecked, wSquelch, wMuted, wTold, wSelected, wRx, wTx, wFile,
  wChanges

widgetVars == <<
  wShown, wAgc, wChecked, wSquelch, wMuted, wTold, wSelected, wRx, wTx, wFile,
  wChanges>>
Widgets == INSTANCE ClientSettings WITH
  Receivers <- WidgetsReceivers, Transmitter <- WidgetsTransmitter,
  Knobs <- WidgetsKnobs, Values <- WidgetsValues, Default <- WidgetsDefault,
  AgcModes <- WidgetsAgcModes, MaxChanges <- WidgetsMaxChanges,
  shown <- wShown, agc <- wAgc, checked <- wChecked, squelch <- wSquelch,
  muted <- wMuted, told <- wTold, selected <- wSelected, rx <- wRx, tx <- wTx,
  file <- wFile, changes <- wChanges

\* The channel that commands go to has been told what the widgets show, over every
\* loss of the connection and every restart.
ShownIsTold == Widgets!TypeOK /\ Widgets!ShownIsTold

-----------------------------------------------------------------------------
(* Push-to-talk and rig control *)

CONSTANTS
  RigReceivers, RigPaired, RigLines, RigMaxLines

VARIABLES
  rRunning, rCurrent, rTx, rLeaving, rAllowed, rTxNow, rKeyed, rMuted, rVfo,
  rFrozen, rButton, rRigTx, rBuffer, rUpset

rigVars == <<
  rRunning, rCurrent, rTx, rLeaving, rAllowed, rTxNow, rKeyed, rMuted, rVfo,
  rFrozen, rButton, rRigTx, rBuffer, rUpset>>
Rig == INSTANCE RigControl WITH
  Receivers <- RigReceivers, Paired <- RigPaired, Lines <- RigLines,
  MaxLines <- RigMaxLines,
  running <- rRunning, current <- rCurrent, tx <- rTx, leaving <- rLeaving,
  allowed <- rAllowed, txNow <- rTxNow, keyed <- rKeyed, muted <- rMuted,
  vfo <- rVfo, frozen <- rFrozen, button <- rButton, rigTx <- rRigTx,
  buffer <- rBuffer, upset <- rUpset

\* Key, button and rig control agree on who transmits, and rig control reads back what
\* it set.
RigTruthful == Rig!TypeOK /\ Rig!KeyingAgrees /\ Rig!Readback

-----------------------------------------------------------------------------
(* Tuning *)

CONSTANTS
  TuneBands, TuneLimits, TuneMemories, TuneDefaults, TuneFirstBand, TuneModes,
  TuneFilterIds, TuneFrequencies, TuneSteps, TuneCwPitch, TuneSavedB, TuneMaxActions

VARIABLES tRx, tActions

tuneVars == <<tRx, tActions>>
Tune == INSTANCE Tuning WITH
  Bands <- TuneBands, Limits <- TuneLimits, Memories <- TuneMemories,
  Defaults <- TuneDefaults, FirstBand <- TuneFirstBand, Modes <- TuneModes,
  FilterIds <- TuneFilterIds, Frequencies <- TuneFrequencies, Steps <- TuneSteps,
  CwPitch <- TuneCwPitch, SavedB <- TuneSavedB, MaxActions <- TuneMaxActions,
  rx <- tRx, actions <- tActions

\* The server, the menus and the display follow every cascade of slots.
ServerFollows == Tune!TypeOK /\ Tune!ServerFollows

\* Quick memories change by the store button and by stepping on only.
MemoriesKept == Tune!MemoriesKept
=============================================================================
