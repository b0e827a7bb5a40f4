---------------------------- MODULE HpsdrParts ----------------------------
(*****************************************************************************)
(* Parts of hpsdr and what each has to keep true, for any radios, interfaces *)
(* and bounds. They share no state; the constants and variables of each bear *)
(* its name or letter. MCHpsdr runs them with small values,                  *)
(* HpsdrParts_proofs proves the properties for all.                          *)
(*****************************************************************************)
EXTENDS Integers

-----------------------------------------------------------------------------
(* The search for radios *)

CONSTANTS
  SearchInterfaces, SearchLastLooked, SearchRadios, SearchProtocol, SearchReach,
  SearchFixed, SearchUnreachable, SearchMaxDevices, SearchMaxLate, SearchNone

VARIABLES
  dPlace, dMain, dSocket, dInterface, dBefore, dThread, dAir, dHeard, dLate,
  dDevices, dDiscovered, dManifest, dBusy, dStarted

searchVars == <<
  dPlace, dMain, dSocket, dInterface, dBefore, dThread, dAir, dHeard, dLate,
  dDevices, dDiscovered, dManifest, dBusy, dStarted>>
Search == INSTANCE Discovery WITH
  Interfaces <- SearchInterfaces, LastLooked <- SearchLastLooked,
  Radios <- SearchRadios, Protocol <- SearchProtocol, Reach <- SearchReach,
  Fixed <- SearchFixed, Unreachable <- SearchUnreachable,
  MaxDevices <- SearchMaxDevices, MaxLate <- SearchMaxLate, None <- SearchNone,
  place <- dPlace, main <- dMain, socket <- dSocket, interface <- dInterface,
  before <- dBefore, thread <- dThread, air <- dAir, heard <- dHeard, late <- dLate,
  devices <- dDevices, discovered <- dDiscovered, manifest <- dManifest,
  busy <- dBusy, started <- dStarted

\* The manifest has an element for every radio that was found while there was room, and
\* each element describes and locates one radio.
ManifestComplete == Search!TypeOK /\ Search!ManifestComplete

-----------------------------------------------------------------------------
(* The packets that carry the settings *)

CONSTANTS
  PacketsRx, PacketsFreqs, PacketsRates, PacketsAntennas, PacketsDrives,
  PacketsSwitched, PacketsDevices, PacketsMaxSettings, PacketsMaxKeys,
  PacketsMaxLost

VARIABLES
  pDevice, pRunning, pMox, pHost, pCycling, pThread, pTold, pRxcase, pSettings,
  pKeys, pLost

packetVars == <<
  pDevice, pRunning, pMox, pHost, pCycling, pThread, pTold, pRxcase, pSettings,
  pKeys, pLost>>
Packets == INSTANCE RadioPackets WITH
  Rx <- PacketsRx, Freqs <- PacketsFreqs, Rates <- PacketsRates,
  Antennas <- PacketsAntennas, Drives <- PacketsDrives, Switched <- PacketsSwitched,
  Devices <- PacketsDevices, MaxSettings <- PacketsMaxSettings,
  MaxKeys <- PacketsMaxKeys, MaxLost <- PacketsMaxLost,
  device <- pDevice, running <- pRunning, mox <- pMox, host <- pHost,
  cycling <- pCycling, thread <- pThread, told <- pTold, rxcase <- pRxcase,
  settings <- pSettings, keys <- pKeys, lost <- pLost

=============================================================================
