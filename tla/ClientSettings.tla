---------------------------- MODULE ClientSettings ----------------------------
(***************************************************************************)
(* What the client shows of its settings and what it has told the server:  *)
(* the menu and dialog slots of class UI (src/QtRadio/UI.cpp), the         *)
(* configuration and equalizer dialogs, the burst of commands sent when a  *)
(* connection is set up, and the settings file.  A slot sends its command  *)
(* at once or not at all, so a handler is one action.  What the DSP does   *)
(* with a command is in DspSettings.                                       *)
(***************************************************************************)
EXTENDS Integers, Sequences

CONSTANTS
    Receivers,   \* sequence of the receive channels set up on connecting
    Transmitter, \* the transmit channel
    Knobs,       \* the settings of this instance, see below
    Values,      \* values a setting takes, Default among them
    Default,     \* the value before anybody sets it, here and in the server
    AgcModes,    \* modes of the AGC menu, those the server understands
    MaxChanges   \* bound: actions of the user

VARIABLES
    shown,       \* Knobs -> Values, the widgets
    agc,         \* UI::agc
    checked,     \* the items of the AGC menu that are ticked
    squelch,     \* UI: squelch, squelchValue, ticked; Radio: squelchValue
    muted,       \* the mute button and the mute item
    told,        \* per channel, what the server was last told
    selected,    \* current_index, 0 when there is none
    rx, tx,      \* currentRxChannel, currentTxChannel, 0 when there is none
    file,        \* the settings file
    changes

session == <<selected, rx, tx>>
vars == <<shown, agc, checked, squelch, muted, told, session, file, changes>>

Channels == {Receivers[i] : i \in DOMAIN Receivers} \cup {Transmitter}

\* Settings whose slot sends a command for the receiver or the transmitter in use.
RxSwitches == {"anf", "nr", "nb", "sdrom"}
RxNoise    == {"nrVals", "anfVals", "nbVal"}
RxMethods  == {"aeFilter", "nrGainMethod", "nrNpeMethod", "preAgc"}
RxAgc      == {"agcSlope", "agcAttack", "agcDecay", "agcHang", "agcHangThresh"}
TxLeveler  == {"levelerState", "levelerAttack", "levelerDecay"}
RxSlots == RxSwitches \cup RxNoise \cup RxMethods \cup RxAgc \cup {"gain", "window", "rxEq"}
TxSlots == TxLeveler \cup {"cessb", "window", "txEq"}
\* Settings of the dialog whose signal has no slot: they wait for a connection.
Unheard == {"rxFilterWindow", "txFilterWindow", "agcFixed", "alcAttack", "alcDecay",
            "alcMaxGain", "agcMaxGain", "nb2Mode", "levelerHang"}
\* nbVal has no widget that works; nothing changes it.
Fixed == {"nbVal"}

\* What setting up a connection sends, for each receiver and for the transmitter.
SentRx == {"anf", "nr", "nb", "anfVals", "nrVals", "nbVal", "agcAttack", "agcDecay",
           "agcHang", "agcFixed", "agcHangThresh", "rxFilterWindow"}
SentTx == {"txFilterWindow", "alcAttack", "alcDecay", "alcMaxGain", "levelerAttack",
           "levelerDecay"}
\* These go through slots that return while no receiver is selected.
SentLater == {"gain", "window"}

\* What the settings file brings back: of nrVals and anfVals the taps are read into
\* the gain, and these switches are not written, or written and never read.
Forgotten == RxSwitches \cup {"aeFilter", "nrVals", "anfVals", "nbVal"}

NothingTold == [k \in Knobs |-> Default]

TypeOK ==
    /\ shown \in [Knobs -> Values] /\ agc \in AgcModes /\ checked \subseteq AgcModes
    /\ told \in [Channels -> [knobs : [Knobs -> Values], agc : AgcModes,
                              squelch : BOOLEAN, level : Values, on : BOOLEAN, eq : BOOLEAN]]
    /\ selected \in 0 .. Len(Receivers) /\ rx \in Channels \cup {0} /\ tx \in {0, Transmitter}
    /\ squelch.on \in BOOLEAN /\ squelch.ticked \in BOOLEAN /\ squelch.value \in Values
    /\ muted \in [button : BOOLEAN, item : BOOLEAN] /\ changes \in 0 .. MaxChanges

Opened == [knobs |-> NothingTold, agc |-> "slow", squelch |-> FALSE, level |-> Default,
           on |-> TRUE, eq |-> FALSE]
Closed == [Opened EXCEPT !.on = FALSE]

\* squelch and squelchValue of UI are read before anything is assigned to them.
Init ==
    /\ shown = NothingTold /\ agc = "slow" /\ checked = {"slow"}
    /\ squelch \in [on : BOOLEAN, value : Values, ticked : {FALSE}]
    /\ muted = [button |-> FALSE, item |-> FALSE]
    /\ told = [ch \in Channels |-> Closed]
    /\ selected = 0 /\ rx = 0 /\ tx = 0
    /\ file = [knobs |-> NothingTold, agc |-> "slow"] /\ changes = 0

Changed == changes < MaxChanges /\ changes' = changes + 1

-----------------------------------------------------------------------------
(* The slots.                                                              *)

\* A command for channel ch that sets knob k; there is no channel 0.
Tell(ch, k, v) == IF ch = 0 THEN told ELSE [told EXCEPT ![ch].knobs[k] = v]

\* Mutant of Slot: the test for a selected receiver the wrong way round.
SlotLost(k, v) ==
    /\ shown' = [shown EXCEPT ![k] = v]
    /\ told' = IF selected = 0 THEN Tell(rx, k, v) ELSE told
\* actionANF and the like: without a selected receiver nothing is sent.
Slot(k, v) ==
    /\ shown' = [shown EXCEPT ![k] = v]
    /\ told' = IF selected = 0 THEN told ELSE Tell(rx, k, v)

SetSwitch == Changed /\ \E k \in Knobs \cap RxSwitches, v \in Values : Slot(k, v)
             /\ UNCHANGED <<agc, checked, squelch, muted, session, file>>
SetNoise  == Changed /\ \E k \in (Knobs \cap RxNoise) \ Fixed, v \in Values : Slot(k, v)
             /\ UNCHANGED <<agc, checked, squelch, muted, session, file>>
SetMethod == Changed /\ \E k \in Knobs \cap RxMethods, v \in Values : Slot(k, v)
             /\ UNCHANGED <<agc, checked, squelch, muted, session, file>>
SetAgc    == Changed /\ \E k \in Knobs \cap RxAgc, v \in Values : Slot(k, v)
             /\ UNCHANGED <<agc, checked, squelch, muted, session, file>>

\* The leveler and the overshoot control go to the transmitter, if there is one.
SetLeveler ==
    /\ Changed /\ \E k \in Knobs \cap TxLeveler, v \in Values :
         shown' = [shown EXCEPT ![k] = v] /\ told' = Tell(tx, k, v)
    /\ UNCHANGED <<agc, checked, squelch, muted, session, file>>
SetOvershoot ==
    /\ Changed /\ "cessb" \in Knobs /\ \E v \in Values :
         /\ shown' = [shown EXCEPT !["cessb"] = v]
         /\ told' = IF selected = 0 THEN told ELSE Tell(tx, "cessb", v)
    /\ UNCHANGED <<agc, checked, squelch, muted, session, file>>
SetUnheard ==
    /\ Changed /\ \E k \in Knobs \cap Unheard, v \in Values : shown' = [shown EXCEPT ![k] = v]
    /\ UNCHANGED <<agc, checked, squelch, muted, told, session, file>>

\* windowTypeChanged tells both.
SetWindow ==
    /\ Changed /\ "window" \in Knobs /\ \E v \in Values :
         /\ shown' = [shown EXCEPT !["window"] = v]
         /\ told' = IF selected = 0 THEN told
                    ELSE [ch \in Channels |-> IF ch \in {rx, tx}
                            THEN [told[ch] EXCEPT !.knobs["window"] = v] ELSE told[ch]]
    /\ UNCHANGED <<agc, checked, squelch, muted, session, file>>

\* The equalizer dialog sends all its sliders, to the channels it was given when
\* the connection was set up.  Its switches go by the selected receiver: that of
\* the transmitter too.
SlideEqualizer ==
    /\ Changed /\ \E k \in Knobs \cap {"rxEq", "txEq"}, v \in Values :
         /\ shown' = [shown EXCEPT ![k] = v]
         /\ told' = Tell(IF k = "rxEq" THEN rx ELSE tx, k, v)
    /\ UNCHANGED <<agc, checked, squelch, muted, session, file>>
SwitchEqualizer ==
    /\ Changed /\ selected # 0
    /\ \E on \in BOOLEAN : told' = [told EXCEPT ![Receivers[selected]].eq = on]
    /\ UNCHANGED <<shown, agc, checked, squelch, muted, session, file>>

\* actionSlow and the like.  Clicking ticks or unticks the item, then the item of the
\* mode so far is unticked: the item of the mode in force ends without a tick.
PickAgc ==
    /\ Changed /\ selected # 0
    /\ \E m \in AgcModes :
         /\ agc' = m
         /\ checked' = (IF m \in checked THEN checked \ {m} ELSE checked \cup {m}) \ {agc}
         /\ told' = [told EXCEPT ![rx].agc = m]
    /\ UNCHANGED <<shown, squelch, muted, session, file>>

\* actionSquelch, actionSquelchReset, squelchValueChanged.
SwitchSquelch ==
    /\ Changed /\ selected # 0
    /\ squelch' = [squelch EXCEPT !.on = ~@, !.ticked = ~squelch.on]
    /\ told' = IF squelch.on THEN [told EXCEPT ![rx].squelch = FALSE]
               ELSE [told EXCEPT ![rx].squelch = TRUE, ![rx].level = squelch.value]
    /\ UNCHANGED <<shown, agc, checked, muted, session, file>>
SetSquelch ==
    /\ Changed /\ selected # 0
    /\ \E v \in Values : squelch' = [squelch EXCEPT !.value = v]
    /\ told' = IF squelch.on THEN [told EXCEPT ![rx].level = squelch'.value] ELSE told
    /\ UNCHANGED <<shown, agc, checked, muted, session, file>>

\* The volume slider; the mute button sets the volume to zero and back.  The mute
\* item of the menu moves the button, which sends nothing.
SetGain ==
    /\ Changed /\ "gain" \in Knobs /\ ~muted.button
    /\ \E v \in Values : Slot("gain", v)
    /\ UNCHANGED <<agc, checked, squelch, muted, session, file>>
MuteButton ==
    /\ Changed /\ "gain" \in Knobs
    /\ muted' = [button |-> ~muted.button, item |-> ~muted.button]
    /\ told' = IF selected = 0 THEN told
               ELSE Tell(rx, "gain", IF muted'.button THEN Default ELSE shown["gain"])
    /\ UNCHANGED <<shown, agc, checked, squelch, session, file>>
MuteItem ==
    /\ Changed /\ muted' = [button |-> ~muted.item, item |-> ~muted.item]
    /\ UNCHANGED <<shown, agc, checked, squelch, told, session, file>>

-----------------------------------------------------------------------------
(* Connections and restarts.                                               *)

\* What channel ch has been told when connected() is through with it.
RxSetUp(i) ==
    [Opened EXCEPT !.agc = agc, !.squelch = squelch.ticked,
       !.knobs = [k \in Knobs |-> IF k \in SentRx \/ (k \in SentLater /\ i > 1)
                                  THEN shown[k] ELSE Default]]
TxSetUp ==
    [Opened EXCEPT
       !.knobs = [k \in Knobs |-> IF \/ k \in SentTx
                                     \/ k = "window" /\ Len(Receivers) > 1
                                  THEN shown[k] ELSE Default]]
\* connected(): receiver after receiver is started and told its settings, the
\* transmitter with the receiver it is paired with.
Connect ==
    /\ selected = 0 /\ Changed
    /\ told' = [ch \in Channels |->
         IF ch = Transmitter THEN TxSetUp
         ELSE RxSetUp(CHOOSE i \in DOMAIN Receivers : Receivers[i] = ch)]
    /\ selected' = Len(Receivers) /\ rx' = Receivers[Len(Receivers)] /\ tx' = Transmitter
    /\ UNCHANGED <<shown, agc, checked, squelch, muted, file>>

\* currentReceiverChanged: the menus follow, the channel commands go to does not.
SelectReceiver ==
    /\ Changed /\ selected # 0
    /\ \E i \in DOMAIN Receivers : selected' = i
    /\ UNCHANGED <<shown, agc, checked, squelch, muted, told, rx, tx, file>>

\* actionDisconnect, and disconnected() which follows or comes by itself.
Disconnect ==
    /\ selected # 0 /\ Changed
    /\ told' = [ch \in Channels |-> Closed]
    /\ selected' = 0 /\ rx' = 0 /\ tx' = 0
    /\ UNCHANGED <<shown, agc, checked, squelch, muted, file>>

\* saveSettings when the window is closed, loadSettings when it is opened again.
SaveSettings ==
    [knobs |-> [k \in Knobs |-> IF k = "gain" /\ muted.button THEN Default ELSE shown[k]],
     agc |-> agc]
LoadSettings(f) == [k \in Knobs |-> IF k \in Forgotten THEN Default ELSE f.knobs[k]]
Restart ==
    /\ selected = 0 /\ Changed
    /\ file' = SaveSettings
    /\ shown' = LoadSettings(file') /\ agc' = file'.agc /\ checked' = {file'.agc}
    /\ squelch' \in [on : BOOLEAN, value : Values, ticked : {FALSE}]
    /\ muted' = [button |-> FALSE, item |-> FALSE]
    /\ UNCHANGED <<told, session>>

Next ==
    \/ SetSwitch \/ SetNoise \/ SetMethod \/ SetAgc \/ SetLeveler \/ SetOvershoot \/ SetUnheard
    \/ SetWindow \/ SlideEqualizer \/ SwitchEqualizer \/ PickAgc
    \/ SwitchSquelch \/ SetSquelch \/ SetGain \/ MuteButton \/ MuteItem
    \/ Connect \/ SelectReceiver \/ Disconnect \/ Restart

Spec == Init /\ [][Next]_vars

-----------------------------------------------------------------------------
\* Whatever was changed before and during however many connections, and across
\* restarts: the receiver that commands go to has been told what the widgets show,
\* of every setting that is both sent on connecting and sent by a slot, and the AGC
\* menu ticks no mode but the one in force.
ShownIsTold ==
    /\ checked \subseteq {agc}
    /\ selected # 0 =>
         /\ \A k \in Knobs \cap SentRx \cap RxSlots : told[rx].knobs[k] = shown[k]
         /\ \A k \in Knobs \cap SentTx \cap TxSlots : told[tx].knobs[k] = shown[k]
         /\ told[rx].agc = agc
=============================================================================
