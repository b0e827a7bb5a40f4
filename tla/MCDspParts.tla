----------------------------- MODULE MCDspParts -----------------------------
(***************************************************************************)
(* The parts of dspserver side by side.  They share no state that matters  *)
(* here, so an interleaving of two of them shows nothing that each alone   *)
(* does not: which of them runs is chosen once.                            *)
(***************************************************************************)
EXTENDS MCDspServer, DspParts, LinkParts

VARIABLE which

\* Radio 0 has two receivers and the transmitter, radio 1 one receiver.
RadioOfChannel == (0 :> 0) @@ (1 :> 0) @@ (2 :> 0) @@ (3 :> 1)

partVars == <<settingsVars, scopeVars, lawVars, audioVars, commandVars, linkVars, micVars>>
allVars == <<which, vars, partVars>>

Parts == {"server", "settings", "scope", "law", "audio", "commands", "link",
          "mic"}

PartsInit ==
  /\ which \in Parts
  /\ Init /\ Settings!Init /\ Scope!Init /\ Law!Init
  /\ Audio!Init /\ Commands!Init /\ Link!Init /\ Mic!Init
  /\ which = "law" \/ lSample = 0

ServerStep == which = "server" /\ Next /\ UNCHANGED <<which, partVars>>
SettingsStep ==
  /\ which = "settings" /\ Settings!Next
  /\ UNCHANGED <<which, vars, scopeVars, lawVars, audioVars, commandVars, linkVars, micVars>>
ScopeStep ==
  /\ which = "scope" /\ Scope!Next
  /\ UNCHANGED <<which, vars, settingsVars, lawVars, audioVars, commandVars, linkVars, micVars>>
LawStep ==
  /\ which = "law" /\ Law!Next
  /\ UNCHANGED <<which, vars, settingsVars, scopeVars, audioVars, commandVars, linkVars, micVars>>
AudioStep ==
  /\ which = "audio" /\ Audio!Next
  /\ UNCHANGED <<which, vars, settingsVars, scopeVars, lawVars, commandVars, linkVars, micVars>>
CommandsStep ==
  /\ which = "commands" /\ Commands!Next
  /\ UNCHANGED <<which, vars, settingsVars, scopeVars, lawVars, audioVars, linkVars, micVars>>
LinkStep ==
  /\ which = "link" /\ Link!Next
  /\ UNCHANGED <<which, vars, settingsVars, scopeVars, lawVars, audioVars, commandVars, micVars>>
MicStep ==
  /\ which = "mic" /\ Mic!Next
  /\ UNCHANGED <<which, vars, settingsVars, scopeVars, lawVars, audioVars, commandVars, linkVars>>

PartsNext ==
  \/ ServerStep \/ SettingsStep \/ ScopeStep \/ LawStep \/ AudioStep
  \/ CommandsStep \/ LinkStep \/ MicStep

PartsSpec == PartsInit /\ [][PartsNext]_allVars
=============================================================================
