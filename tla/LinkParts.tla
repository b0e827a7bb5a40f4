----------------------------- MODULE LinkParts -----------------------------
(*****************************************************************************)
(* The link between dspserver and hpsdr and what it has to keep true, for    *)
(* any controllers, commands and bounds: the table of the controllers'       *)
(* channels, and the commands that go over one link. The two share no state; *)
(* the constants and variables of each bear its name or letter. MCDspParts   *)
(* runs them with small values, HpsdrParts_proofs proves the properties for  *)
(* all.                                                                      *)
(*****************************************************************************)
EXTENDS Integers

-----------------------------------------------------------------------------
(* The controllers of the radios *)

CONSTANTS
  LinkControllers, LinkReceivers, LinkMaxRadios, LinkMaxChannels, LinkNobody

VARIABLES
  rUp, rCount, rSocket, rConnected, rThread, rGone, rChannels, rCalm

linkVars == <<
  rUp, rCount, rSocket, rConnected, rThread, rGone, rChannels, rCalm>>
Link == INSTANCE RadioLink WITH
  Controllers <- LinkControllers, Receivers <- LinkReceivers,
  MaxRadios <- LinkMaxRadios, MaxChannels <- LinkMaxChannels, Nobody <- LinkNobody,
  up <- rUp, count <- rCount, socket <- rSocket, connected <- rConnected,
  thread <- rThread, gone <- rGone, channels <- rChannels, calm <- rCalm

\* The commands for a channel go to the controller and the receiver whose manifest
\* named it, whoever came and left before.
ChannelReachesOwner == Link!TypeOK /\ Link!ChannelReachesOwner

-----------------------------------------------------------------------------
(* The commands of dspserver *)

CONSTANTS
  CommandsTails, CommandsLongest, CommandsCapacity, CommandsMaxCommands,
  CommandsMaxAnswers

VARIABLES
  cUp, cLinked, cAsked, cWaiting, cGot, cKinds, cNoted, cTuned, cNet, cSocket,
  cByte, cStarted, cPlace, cLength, cCommand, cAnswers, cPermits, cIntact

commandVars == <<
  cUp, cLinked, cAsked, cWaiting, cGot, cKinds, cNoted, cTuned, cNet, cSocket,
  cByte, cStarted, cPlace, cLength, cCommand, cAnswers, cPermits, cIntact>>
Commands == INSTANCE CommandLink WITH
  Tails <- CommandsTails, Longest <- CommandsLongest, Capacity <- CommandsCapacity,
  MaxCommands <- CommandsMaxCommands, MaxAnswers <- CommandsMaxAnswers,
  up <- cUp, linked <- cLinked, asked <- cAsked, waiting <- cWaiting, got <- cGot,
  kinds <- cKinds, noted <- cNoted, tuned <- cTuned, net <- cNet, socket <- cSocket,
  byte <- cByte, started <- cStarted, place <- cPlace, length <- cLength,
  command <- cCommand, answers <- cAnswers, permits <- cPermits, intact <- cIntact

\* Every answer of hpsdr is that of the command just sent: the parser of the byte stream
\* is never a command ahead or behind.
LockStep == Commands!TypeOK /\ Commands!LockStep
=============================================================================
