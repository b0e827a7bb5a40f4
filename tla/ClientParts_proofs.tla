------------------------ MODULE ClientParts_proofs -------------------------
(*****************************************************************************)
(* Theorems about the parts of QtRadio that share no state, side by side     *)
(* as in ClientParts: ClientSettings, RigControl, Panadapter, ClientStreams  *)
(* and Tuning, for any receivers, bands, notches and frames.                 *)
(*****************************************************************************)
EXTENDS ClientParts, Sequences, FiniteSets, SequencesExt, FiniteSetTheorems,
        SequenceTheorems, NaturalsInduction, WellFoundedInduction, TLAPS

----------------------------------------------------------------------------
(* The client's widgets *)

\* The client sets up a receiver at least, and a transmitter that is none of them.
Station ==
  /\ WidgetsReceivers \in Seq(Nat \ {0}) /\ WidgetsReceivers # <<>>
  /\ WidgetsTransmitter \in Nat \ {0}
  /\ \A i \in DOMAIN WidgetsReceivers : WidgetsReceivers[i] # WidgetsTransmitter
  /\ WidgetsDefault \in WidgetsValues /\ "slow" \in WidgetsAgcModes /\ WidgetsMaxChanges \in Nat

Told == [knobs : [WidgetsKnobs -> WidgetsValues], agc : WidgetsAgcModes,
         squelch : BOOLEAN, level : WidgetsValues, on : BOOLEAN, eq : BOOLEAN]

WidgetTypes ==
  /\ wShown \in [WidgetsKnobs -> WidgetsValues] /\ wAgc \in WidgetsAgcModes
  /\ wChecked \subseteq {wAgc}
  /\ wTold \in [Widgets!Channels -> Told]
  /\ wSelected \in 0 .. Len(WidgetsReceivers)
  /\ wSquelch \in [on : BOOLEAN, value : WidgetsValues, ticked : BOOLEAN]
  /\ wMuted \in [button : BOOLEAN, item : BOOLEAN] /\ wChanges \in 0 .. WidgetsMaxChanges

RxShown == Widgets!SentRx \cap Widgets!RxSlots
TxShown == Widgets!SentTx \cap Widgets!TxSlots

\* Commands go to the last receiver that was set up, whichever is selected.
InUse ==
  /\ wSelected = 0 => wRx = 0 /\ wTx = 0
  /\ wSelected # 0 =>
       /\ wRx = WidgetsReceivers[Len(WidgetsReceivers)] /\ wTx = WidgetsTransmitter
       /\ wTold[wRx].agc = wAgc
       /\ \A k \in WidgetsKnobs \cap RxShown : wTold[wRx].knobs[k] = wShown[k]
       /\ \A k \in WidgetsKnobs \cap TxShown : wTold[wTx].knobs[k] = wShown[k]

WidgetInv == WidgetTypes /\ InUse

\* The channels in use are two of the table, and 0 is none.
LEMMA ChannelsInUse ==
  ASSUME Station
  PROVE  /\ 0 \notin Widgets!Channels /\ WidgetsTransmitter \in Widgets!Channels
         /\ Len(WidgetsReceivers) \in Nat \ {0}
         /\ \A i \in 1 .. Len(WidgetsReceivers) :
              /\ WidgetsReceivers[i] \in Widgets!Channels
              /\ WidgetsReceivers[i] # WidgetsTransmitter
              /\ WidgetsReceivers[i] # 0
<1>1. DOMAIN WidgetsReceivers = 1 .. Len(WidgetsReceivers) /\ Len(WidgetsReceivers) \in Nat \ {0}
  <2>1. Len(WidgetsReceivers) \in Nat /\ Len(WidgetsReceivers) # 0
    BY DEF Station
  <2> QED BY <2>1 DEF Station
<1>2. \A i \in 1 .. Len(WidgetsReceivers) : WidgetsReceivers[i] \in Nat \ {0}
  BY <1>1 DEF Station
<1> QED BY <1>1, <1>2 DEF Station, Widgets!Channels

\* Of the settings the invariant follows, which are sent by which slot.
LEMMA SlotsApart ==
  /\ RxShown = {"anf", "nr", "nb", "anfVals", "nrVals", "nbVal", "agcAttack", "agcDecay",
                "agcHang", "agcHangThresh"}
  /\ TxShown = {"levelerAttack", "levelerDecay"}
BY DEF RxShown, TxShown, Widgets!SentRx, Widgets!RxSlots, Widgets!SentTx, Widgets!TxSlots,
       Widgets!RxSwitches, Widgets!RxNoise, Widgets!RxMethods, Widgets!RxAgc, Widgets!TxLeveler

\* A command sets one knob of one channel.
LEMMA TellOne ==
  ASSUME WidgetTypes, NEW ch \in Widgets!Channels, ch # 0, NEW k \in WidgetsKnobs,
         NEW v \in WidgetsValues
  PROVE  LET new == Widgets!Tell(ch, k, v) IN
         /\ new \in [Widgets!Channels -> Told]
         /\ \A d \in Widgets!Channels \ {ch} : new[d] = wTold[d]
         /\ new[ch].agc = wTold[ch].agc
         /\ new[ch].knobs[k] = v
         /\ \A l \in WidgetsKnobs \ {k} : new[ch].knobs[l] = wTold[ch].knobs[l]
BY DEF WidgetTypes, Widgets!Tell, Told

\* A slot that shows a value of knob k and sends it, if anybody is connected.
LEMMA KnobSlot ==
  ASSUME Station, WidgetInv, NEW k \in WidgetsKnobs, NEW v \in WidgetsValues, NEW ch,
         UNCHANGED <<wAgc, wChecked, wSquelch, wSelected, wRx, wTx>>,
         wChanges' \in 0 .. WidgetsMaxChanges, wMuted' \in [button : BOOLEAN, item : BOOLEAN],
         wShown' \in [WidgetsKnobs -> WidgetsValues],
         \A l \in WidgetsKnobs \ {k} : wShown'[l] = wShown[l],
         k \in RxShown \cup TxShown => wShown'[k] = v,
         k \in RxShown => ch = wRx, k \in TxShown => ch = wTx,
         wTold' = IF wSelected = 0 THEN wTold ELSE Widgets!Tell(ch, k, v),
         wSelected # 0 => ch \in {wRx, wTx}
  PROVE  WidgetInv'
<1>1. CASE wSelected = 0
  BY <1>1 DEF WidgetInv, WidgetTypes, InUse
<1>2. CASE wSelected # 0
  <2>1. /\ wRx \in Widgets!Channels /\ wRx # 0 /\ wTx \in Widgets!Channels /\ wTx # 0 /\ wRx # wTx
        /\ ch \in {wRx, wTx}
    BY <1>2, ChannelsInUse DEF WidgetInv, InUse, Station
  <2>2. /\ wTold' \in [Widgets!Channels -> Told]
        /\ \A d \in Widgets!Channels \ {ch} : wTold'[d] = wTold[d]
        /\ wTold'[ch].agc = wTold[ch].agc /\ wTold'[ch].knobs[k] = v
        /\ \A l \in WidgetsKnobs \ {k} : wTold'[ch].knobs[l] = wTold[ch].knobs[l]
    BY <1>2, <2>1, TellOne DEF WidgetInv
  <2>3. WidgetTypes'
    BY <2>2 DEF WidgetInv, WidgetTypes
  <2>4. wTold'[wRx].agc = wAgc
    BY <1>2, <2>1, <2>2 DEF WidgetInv, InUse
  <2>5. ASSUME NEW l \in WidgetsKnobs \cap RxShown PROVE wTold'[wRx].knobs[l] = wShown'[l]
    BY <1>2, <2>1, <2>2, <2>5 DEF WidgetInv, InUse
  <2>6. ASSUME NEW l \in WidgetsKnobs \cap TxShown PROVE wTold'[wTx].knobs[l] = wShown'[l]
    BY <1>2, <2>1, <2>2, <2>6 DEF WidgetInv, InUse
  <2> QED BY <1>2, <2>3, <2>4, <2>5, <2>6 DEF WidgetInv, InUse
<1> QED BY <1>1, <1>2

\* The slots that send one command about one knob.
LEMMA WidgetSlots ==
  ASSUME Station, WidgetInv,
         \/ Widgets!SetSwitch \/ Widgets!SetNoise \/ Widgets!SetMethod \/ Widgets!SetAgc
         \/ Widgets!SetLeveler \/ Widgets!SetOvershoot \/ Widgets!SlideEqualizer
         \/ Widgets!SetGain \/ Widgets!MuteButton
  PROVE  WidgetInv'
<1> USE DEF Widgets!session
<1>1. WidgetTypes /\ (wSelected = 0 => wRx = 0 /\ wTx = 0)
  BY DEF WidgetInv, InUse
<1>2. Widgets!Changed => wChanges' \in 0 .. WidgetsMaxChanges
  BY <1>1 DEF WidgetTypes, Station, Widgets!Changed
<1>3. \A k \in WidgetsKnobs, v \in WidgetsValues :
        LET new == [wShown EXCEPT ![k] = v] IN
        /\ new \in [WidgetsKnobs -> WidgetsValues] /\ new[k] = v
        /\ \A l \in WidgetsKnobs \ {k} : new[l] = wShown[l]
  BY <1>1 DEF WidgetTypes
<1>4. \A k, v : Widgets!Tell(0, k, v) = wTold
  BY DEF Widgets!Tell
<1>5. CASE Widgets!SetSwitch \/ Widgets!SetNoise \/ Widgets!SetMethod
           \/ Widgets!SetAgc \/ Widgets!SetGain
  <2>1. PICK k \in WidgetsKnobs, v \in WidgetsValues :
          Widgets!Slot(k, v) /\ k \in Widgets!RxSwitches \cup Widgets!RxNoise \cup
                                      Widgets!RxMethods \cup Widgets!RxAgc \cup {"gain"}
    BY <1>5 DEF Widgets!SetSwitch, Widgets!SetNoise, Widgets!SetMethod, Widgets!SetAgc,
       Widgets!SetGain
  <2>2. k \notin TxShown
    BY <2>1, SlotsApart DEF Widgets!RxSwitches, Widgets!RxNoise, Widgets!RxMethods, Widgets!RxAgc
  <2>3. Widgets!Changed /\ UNCHANGED <<wAgc, wChecked, wSquelch, wMuted, wSelected, wRx, wTx>>
    BY <1>5 DEF Widgets!SetSwitch, Widgets!SetNoise, Widgets!SetMethod, Widgets!SetAgc,
       Widgets!SetGain
  <2>4. wMuted' \in [button : BOOLEAN, item : BOOLEAN]
    BY <1>1, <2>3 DEF WidgetTypes
  <2> QED BY <1>2, <1>3, <2>1, <2>2, <2>3, <2>4, KnobSlot DEF Widgets!Slot
<1>6. CASE Widgets!SetLeveler \/ Widgets!SlideEqualizer
  <2>1. PICK k \in WidgetsKnobs, v \in WidgetsValues, ch \in {wRx, wTx} :
          /\ wShown' = [wShown EXCEPT ![k] = v] /\ wTold' = Widgets!Tell(ch, k, v)
          /\ (k \in Widgets!TxLeveler /\ ch = wTx) \/ k \in {"rxEq", "txEq"}
    BY <1>6 DEF Widgets!SetLeveler, Widgets!SlideEqualizer
  <2>2. k \notin RxShown /\ (k \in TxShown => ch = wTx)
    BY <2>1, SlotsApart DEF Widgets!TxLeveler
  <2>3. Widgets!Changed /\ UNCHANGED <<wAgc, wChecked, wSquelch, wMuted, wSelected, wRx, wTx>>
    BY <1>6 DEF Widgets!SetLeveler, Widgets!SlideEqualizer
  <2>4. wMuted' \in [button : BOOLEAN, item : BOOLEAN]
    BY <1>1, <2>3 DEF WidgetTypes
  <2>5. wTold' = IF wSelected = 0 THEN wTold ELSE Widgets!Tell(ch, k, v)
    BY <1>1, <1>4, <2>1
  <2> QED BY <1>2, <1>3, <2>1, <2>2, <2>3, <2>4, <2>5, KnobSlot
<1>7. CASE Widgets!SetOvershoot
  <2>1. PICK v \in WidgetsValues :
          /\ "cessb" \in WidgetsKnobs /\ wShown' = [wShown EXCEPT !["cessb"] = v]
          /\ wTold' = IF wSelected = 0 THEN wTold ELSE Widgets!Tell(wTx, "cessb", v)
    BY <1>7 DEF Widgets!SetOvershoot
  <2>2. Widgets!Changed /\ UNCHANGED <<wAgc, wChecked, wSquelch, wMuted, wSelected, wRx, wTx>>
    BY <1>7 DEF Widgets!SetOvershoot
  <2>3. wMuted' \in [button : BOOLEAN, item : BOOLEAN] /\ "cessb" \notin RxShown \cup TxShown
    BY <1>1, <2>2, SlotsApart DEF WidgetTypes
  <2> QED BY <1>2, <1>3, <2>1, <2>2, <2>3, KnobSlot
<1>8. CASE Widgets!MuteButton
  <2>1. PICK v \in WidgetsValues :
          /\ "gain" \in WidgetsKnobs
          /\ wTold' = IF wSelected = 0 THEN wTold ELSE Widgets!Tell(wRx, "gain", v)
    BY <1>1, <1>8 DEF Widgets!MuteButton, WidgetTypes, Station
  <2>2. Widgets!Changed /\ UNCHANGED <<wShown, wAgc, wChecked, wSquelch, wSelected, wRx, wTx>>
    BY <1>8 DEF Widgets!MuteButton
  <2>3. wMuted' \in [button : BOOLEAN, item : BOOLEAN]
    BY <1>1, <1>8 DEF Widgets!MuteButton, WidgetTypes
  <2>4. "gain" \notin RxShown \cup TxShown /\ wShown' \in [WidgetsKnobs -> WidgetsValues]
    BY <1>1, <2>2, SlotsApart DEF WidgetTypes
  <2> QED BY <1>2, <2>1, <2>2, <2>3, <2>4, KnobSlot
<1> QED BY <1>5, <1>6, <1>7, <1>8

\* The slots of the window, of the settings nobody hears and of the equalizer's
\* switch.
LEMMA WidgetOthers ==
  ASSUME Station, WidgetInv,
         Widgets!SetUnheard \/ Widgets!SetWindow \/ Widgets!SwitchEqualizer \/ Widgets!MuteItem
  PROVE  WidgetInv'
<1> USE DEF Widgets!session
<1>1. /\ WidgetTypes /\ Len(WidgetsReceivers) \in Nat
      /\ \A i \in 1 .. Len(WidgetsReceivers) : WidgetsReceivers[i] \in Widgets!Channels
  BY ChannelsInUse DEF WidgetInv
<1>2. wChanges' \in 0 .. WidgetsMaxChanges
  BY <1>1 DEF WidgetTypes, Station, Widgets!Changed, Widgets!SetUnheard, Widgets!SetWindow,
              Widgets!SwitchEqualizer, Widgets!MuteItem
<1>3. CASE Widgets!SetUnheard
  <2>1. PICK k \in WidgetsKnobs \cap Widgets!Unheard, v \in WidgetsValues :
                wShown' = [wShown EXCEPT ![k] = v]
    BY <1>3 DEF Widgets!SetUnheard
  <2>2. UNCHANGED <<wAgc, wChecked, wSquelch, wMuted, wTold, wSelected, wRx, wTx>>
    BY <1>3 DEF Widgets!SetUnheard
  <2>3. k \notin RxShown \cup TxShown
    BY <2>1, SlotsApart DEF Widgets!Unheard
  <2>4. WidgetTypes'
    BY <1>1, <1>2, <2>1, <2>2 DEF WidgetTypes
  <2> QED BY <1>1, <2>1, <2>2, <2>3, <2>4 DEF WidgetTypes, WidgetInv, InUse
<1>4. CASE Widgets!SetWindow
  <2>1. PICK v \in WidgetsValues :
          /\ "window" \in WidgetsKnobs /\ wShown' = [wShown EXCEPT !["window"] = v]
          /\ wTold' = IF wSelected = 0 THEN wTold
                      ELSE [ch \in Widgets!Channels |-> IF ch \in {wRx, wTx}
                              THEN [wTold[ch] EXCEPT !.knobs["window"] = v] ELSE wTold[ch]]
    BY <1>4 DEF Widgets!SetWindow
  <2>2. UNCHANGED <<wAgc, wChecked, wSquelch, wMuted, wSelected, wRx, wTx>>
    BY <1>4 DEF Widgets!SetWindow
  <2>3. "window" \notin RxShown \cup TxShown
    BY SlotsApart
  <2>4. /\ wTold' \in [Widgets!Channels -> Told]
        /\ \A ch \in Widgets!Channels :
             /\ wTold'[ch].agc = wTold[ch].agc
             /\ \A l \in WidgetsKnobs \ {"window"} : wTold'[ch].knobs[l] = wTold[ch].knobs[l]
    BY <1>1, <2>1, SMTT(30) DEF WidgetTypes, Told
  <2>5. WidgetTypes'
    BY <1>1, <1>2, <2>1, <2>2, <2>4 DEF WidgetTypes
  <2>6. wSelected # 0 => wRx \in Widgets!Channels /\ wTx \in Widgets!Channels
    BY ChannelsInUse DEF WidgetInv, InUse
  <2> QED BY <1>1, <2>1, <2>2, <2>3, <2>4, <2>5, <2>6 DEF WidgetTypes, WidgetInv, InUse
<1>5. CASE Widgets!SwitchEqualizer
  <2>1. PICK switch \in BOOLEAN : wTold' = [wTold EXCEPT ![WidgetsReceivers[wSelected]].eq = switch]
    BY <1>5 DEF Widgets!SwitchEqualizer
  <2>2. UNCHANGED <<wShown, wAgc, wChecked, wSquelch, wMuted, wSelected, wRx, wTx>> /\ wSelected # 0
    BY <1>5 DEF Widgets!SwitchEqualizer
  <2>3. WidgetsReceivers[wSelected] \in Widgets!Channels
    BY <1>1, <2>2 DEF WidgetTypes
  <2>4. /\ wTold' \in [Widgets!Channels -> Told]
        /\ \A ch \in Widgets!Channels :
              wTold'[ch].agc = wTold[ch].agc /\ wTold'[ch].knobs = wTold[ch].knobs
    BY <1>1, <2>1, <2>3, ZenonT(60) DEF WidgetTypes, Told
  <2>5. WidgetTypes'
    BY <1>1, <1>2, <2>2, <2>4 DEF WidgetTypes
  <2>6. wRx \in Widgets!Channels /\ wTx \in Widgets!Channels
    BY <2>2, ChannelsInUse DEF WidgetInv, InUse
  <2> QED BY <2>2, <2>4, <2>5, <2>6 DEF WidgetInv, InUse
<1>6. CASE Widgets!MuteItem
  <2>1. UNCHANGED <<wShown, wAgc, wChecked, wSquelch, wTold, wSelected, wRx, wTx>>
    BY <1>6 DEF Widgets!MuteItem
  <2>2. wMuted' \in [button : BOOLEAN, item : BOOLEAN]
    BY <1>1, <1>6 DEF Widgets!MuteItem, WidgetTypes
  <2> QED BY <1>1, <1>2, <2>1, <2>2 DEF WidgetTypes, WidgetInv, InUse
<1> QED BY <1>3, <1>4, <1>5, <1>6

\* The AGC menu and the squelch: commands to the receiver in use that set no knob.
LEMMA WidgetMenus ==
  ASSUME Station, WidgetInv,
         Widgets!PickAgc \/ Widgets!SwitchSquelch \/ Widgets!SetSquelch
  PROVE  WidgetInv'
<1> USE DEF Widgets!session
<1>1. /\ WidgetTypes /\ wSelected # 0 /\ wRx \in Widgets!Channels /\ wTx \in Widgets!Channels
  BY ChannelsInUse DEF WidgetInv, InUse, Widgets!PickAgc, Widgets!SwitchSquelch, Widgets!SetSquelch
<1>2. wChanges' \in 0 .. WidgetsMaxChanges
  BY <1>1 DEF WidgetTypes, Station, Widgets!Changed, Widgets!PickAgc, Widgets!SwitchSquelch,
              Widgets!SetSquelch
<1>3. CASE Widgets!PickAgc
  <2>1. PICK m \in WidgetsAgcModes :
          /\ wAgc' = m /\ wTold' = [wTold EXCEPT ![wRx].agc = m]
          /\ wChecked' = (IF m \in wChecked THEN wChecked \ {m} ELSE wChecked \cup {m}) \ {wAgc}
    BY <1>3 DEF Widgets!PickAgc
  <2>2. UNCHANGED <<wShown, wSquelch, wMuted, wSelected, wRx, wTx>>
    BY <1>3 DEF Widgets!PickAgc
  <2>3. wChecked' \subseteq {wAgc'}
    BY <1>1, <2>1 DEF WidgetTypes
  <2>4. /\ wTold' \in [Widgets!Channels -> Told] /\ wTold'[wRx].agc = m
        /\ \A ch \in Widgets!Channels : wTold'[ch].knobs = wTold[ch].knobs
    BY <1>1, <2>1 DEF WidgetTypes, Told
  <2>5. WidgetTypes'
    BY <1>1, <1>2, <2>1, <2>2, <2>3, <2>4 DEF WidgetTypes
  <2> QED BY <1>1, <2>1, <2>2, <2>4, <2>5 DEF WidgetInv, InUse
<1>4. CASE Widgets!SwitchSquelch \/ Widgets!SetSquelch
  <2>1. UNCHANGED <<wShown, wAgc, wChecked, wMuted, wSelected, wRx, wTx>>
    BY <1>4 DEF Widgets!SwitchSquelch, Widgets!SetSquelch
  <2>2. /\ wSquelch' \in [on : BOOLEAN, value : WidgetsValues, ticked : BOOLEAN]
        /\ wSquelch.value \in WidgetsValues
    BY <1>1, <1>4 DEF Widgets!SwitchSquelch, Widgets!SetSquelch, WidgetTypes
  <2>3. \/ wTold' = wTold
        \/ wTold' = [wTold EXCEPT ![wRx].squelch = FALSE]
        \/ wTold' = [wTold EXCEPT ![wRx].squelch = TRUE, ![wRx].level = wSquelch.value]
        \/ wTold' = [wTold EXCEPT ![wRx].level = wSquelch'.value]
    BY <1>4 DEF Widgets!SwitchSquelch, Widgets!SetSquelch
  <2>4. /\ wTold' \in [Widgets!Channels -> Told]
        /\ \A ch \in Widgets!Channels :
              wTold'[ch].agc = wTold[ch].agc /\ wTold'[ch].knobs = wTold[ch].knobs
    <3>1. PICK r : /\ wTold' = [wTold EXCEPT ![wRx] = r]
                   /\ \/ r = wTold[wRx] \/ r = [wTold[wRx] EXCEPT !.squelch = FALSE]
                      \/ r = [wTold[wRx] EXCEPT !.squelch = TRUE, !.level = wSquelch.value]
                      \/ r = [wTold[wRx] EXCEPT !.level = wSquelch'.value]
      BY <1>1, <2>3 DEF WidgetTypes
    <3>2. wSquelch'.value \in WidgetsValues /\ wTold[wRx] \in Told
      BY <1>1, <2>2 DEF WidgetTypes
    <3>3. r \in Told /\ r.agc = wTold[wRx].agc /\ r.knobs = wTold[wRx].knobs
      BY <2>2, <3>1, <3>2 DEF Told
    <3> QED BY <1>1, <3>1, <3>3 DEF WidgetTypes
  <2>5. WidgetTypes'
    BY <1>1, <1>2, <2>1, <2>2, <2>4 DEF WidgetTypes
  <2> QED BY <1>1, <2>1, <2>4, <2>5 DEF WidgetInv, InUse
<1> QED BY <1>3, <1>4

\* Connecting tells the receivers and the transmitter what the widgets show.
LEMMA WidgetConnect ==
  ASSUME Station, WidgetInv, Widgets!Connect
  PROVE  WidgetInv'
<1> USE DEF Widgets!session
<1> DEFINE At(ch) == CHOOSE i \in DOMAIN WidgetsReceivers : WidgetsReceivers[i] = ch
<1>1. /\ UNCHANGED <<wShown, wAgc, wChecked, wSquelch, wMuted>> /\ WidgetTypes
      /\ wChanges' \in 0 .. WidgetsMaxChanges
      /\ wSelected' = Len(WidgetsReceivers) /\ wRx' = WidgetsReceivers[Len(WidgetsReceivers)]
      /\ wTx' = WidgetsTransmitter
      /\ wTold' = [ch \in Widgets!Channels |->
           IF ch = WidgetsTransmitter THEN Widgets!TxSetUp ELSE Widgets!RxSetUp(At(ch))]
  BY DEF Widgets!Connect, Widgets!Changed, WidgetInv, WidgetTypes, Station
<1> HIDE DEF At
<1>2. /\ Len(WidgetsReceivers) \in Nat \ {0} /\ wRx' \in Widgets!Channels
      /\ wRx' # WidgetsTransmitter
      /\ WidgetsTransmitter \in Widgets!Channels
  BY <1>1, ChannelsInUse
<1>3. ASSUME NEW i
      PROVE  /\ Widgets!RxSetUp(i) \in Told /\ Widgets!RxSetUp(i).agc = wAgc
             /\ \A k \in WidgetsKnobs \cap Widgets!SentRx : Widgets!RxSetUp(i).knobs[k] = wShown[k]
  BY <1>1 DEF WidgetTypes, Station, Told, Widgets!RxSetUp, Widgets!Opened, Widgets!NothingTold
<1>4. /\ Widgets!TxSetUp \in Told
      /\ \A k \in WidgetsKnobs \cap Widgets!SentTx : Widgets!TxSetUp.knobs[k] = wShown[k]
  BY <1>1 DEF WidgetTypes, Station, Told, Widgets!TxSetUp, Widgets!Opened, Widgets!NothingTold
<1>5. wTold' \in [Widgets!Channels -> Told]
  BY <1>1, <1>3, <1>4
<1>6. WidgetTypes'
  BY <1>1, <1>2, <1>5 DEF WidgetTypes
<1>7. wTold'[wRx'] = Widgets!RxSetUp(At(wRx')) /\ wTold'[wTx'] = Widgets!TxSetUp
  BY <1>1, <1>2
<1>8. InUse'
  BY <1>1, <1>2, <1>3, <1>4, <1>7 DEF InUse, RxShown, TxShown
<1> QED BY <1>6, <1>8 DEF WidgetInv

\* Another receiver is looked at, the connection ends, the client starts again.
LEMMA WidgetSession ==
  ASSUME Station, WidgetInv,
         Widgets!SelectReceiver \/ Widgets!Disconnect \/ Widgets!Restart
  PROVE  WidgetInv'
<1> USE DEF Widgets!session
<1>1. /\ WidgetTypes /\ Len(WidgetsReceivers) \in Nat \ {0}
      /\ DOMAIN WidgetsReceivers = 1 .. Len(WidgetsReceivers)
  BY ChannelsInUse DEF WidgetInv, Station
<1>2. wChanges' \in 0 .. WidgetsMaxChanges
  <2>1. Widgets!Changed
    BY DEF Widgets!SelectReceiver, Widgets!Disconnect, Widgets!Restart
  <2> QED BY <1>1, <2>1 DEF WidgetTypes, Station, Widgets!Changed
<1>3. CASE Widgets!SelectReceiver
  <2>1. /\ UNCHANGED <<wShown, wAgc, wChecked, wSquelch, wMuted, wTold, wRx, wTx>>
        /\ wSelected # 0 /\ wSelected' \in 1 .. Len(WidgetsReceivers)
    BY <1>1, <1>3 DEF Widgets!SelectReceiver
  <2>2. WidgetTypes'
    BY <1>1, <1>2, <2>1 DEF WidgetTypes
  <2> QED BY <2>1, <2>2 DEF WidgetInv, InUse
<1>4. CASE Widgets!Disconnect
  <2>1. /\ UNCHANGED <<wShown, wAgc, wChecked, wSquelch, wMuted>>
        /\ wTold' = [ch \in Widgets!Channels |-> Widgets!Closed]
        /\ wSelected' = 0 /\ wRx' = 0 /\ wTx' = 0
    BY <1>4 DEF Widgets!Disconnect
  <2>2. Widgets!Closed \in Told
    BY DEF Widgets!Closed, Widgets!Opened, Widgets!NothingTold, Told, Station
  <2>3. WidgetTypes'
    BY <1>1, <1>2, <2>1, <2>2 DEF WidgetTypes
  <2> QED BY <2>1, <2>3 DEF WidgetInv, InUse
<1>5. CASE Widgets!Restart
  <2>1. /\ UNCHANGED <<wTold, wSelected, wRx, wTx>> /\ wSelected = 0
        /\ wFile' = Widgets!SaveSettings
        /\ wShown' = Widgets!LoadSettings(wFile') /\ wAgc' = wFile'.agc /\ wChecked' = {wFile'.agc}
    BY <1>5 DEF Widgets!Restart
  <2>2. wFile' \in [knobs : [WidgetsKnobs -> WidgetsValues], agc : WidgetsAgcModes]
    BY <1>1, <2>1 DEF Widgets!SaveSettings, WidgetTypes, Station
  <2>3. wShown' \in [WidgetsKnobs -> WidgetsValues]
    BY <2>1, <2>2 DEF Widgets!LoadSettings, Station
  <2>4. /\ wSquelch' \in [on : BOOLEAN, value : WidgetsValues, ticked : BOOLEAN]
        /\ wMuted' \in [button : BOOLEAN, item : BOOLEAN]
    BY <1>5 DEF Widgets!Restart
  <2>5. WidgetTypes'
    BY <1>1, <1>2, <2>1, <2>2, <2>3, <2>4 DEF WidgetTypes
  <2> QED BY <2>1, <2>5 DEF WidgetInv, InUse
<1> QED BY <1>3, <1>4, <1>5

\* Before the first connection nothing has been told and the widgets stand at values.
LEMMA WidgetStart == ASSUME Station PROVE Widgets!Init => WidgetInv
<1> SUFFICES ASSUME Widgets!Init PROVE WidgetInv
  OBVIOUS
<1>1. Widgets!Closed \in Told
  BY DEF Widgets!Closed, Widgets!Opened, Widgets!NothingTold, Told, Station
<1>2. /\ wSquelch \in [on : BOOLEAN, value : WidgetsValues, ticked : BOOLEAN]
      /\ wMuted \in [button : BOOLEAN, item : BOOLEAN]
  BY DEF Widgets!Init
<1>3. /\ wShown \in [WidgetsKnobs -> WidgetsValues] /\ wTold \in [Widgets!Channels -> Told]
      /\ wAgc \in WidgetsAgcModes /\ wChecked = {wAgc} /\ wSelected = 0 /\ wRx = 0 /\ wTx = 0
      /\ wChanges = 0
  BY <1>1 DEF Widgets!Init, Widgets!NothingTold, Station
<1>4. WidgetTypes
  BY <1>2, <1>3, ChannelsInUse DEF WidgetTypes, Station
<1> QED BY <1>3, <1>4 DEF WidgetInv, InUse

\* What the client shows is what it has told the server: before, during and after
\* any number of connections and restarts, for any receivers and settings, the
\* receiver and the transmitter that commands go to were told every setting that
\* is both sent on connecting and by a slot of class UI, and the AGC menu ticks no
\* mode but the one in force.
THEOREM WidgetsCorrect ==
  ASSUME Station
  PROVE  Widgets!Spec => []ShownIsTold
<1>1. Widgets!Init => WidgetInv
  BY WidgetStart
<1>2. WidgetInv /\ [Widgets!Next]_(Widgets!vars) => WidgetInv'
  <2> SUFFICES ASSUME WidgetInv, [Widgets!Next]_(Widgets!vars) PROVE WidgetInv'
    OBVIOUS
  <2>1. CASE UNCHANGED Widgets!vars
    <3>1. UNCHANGED <<wShown, wAgc, wChecked, wSquelch, wMuted, wTold, wSelected, wRx, wTx,
                      wChanges>>
      BY <2>1 DEF Widgets!vars, Widgets!session
    <3> QED BY <3>1 DEF WidgetInv, WidgetTypes, InUse
  <2>2. CASE Widgets!Next
    BY <2>2, WidgetSlots, WidgetOthers, WidgetMenus, WidgetConnect, WidgetSession DEF Widgets!Next
  <2> QED BY <2>1, <2>2
<1>3. WidgetInv => ShownIsTold
  <2> SUFFICES ASSUME WidgetInv PROVE ShownIsTold
    OBVIOUS
  <2>1. wSelected # 0 => wRx \in Widgets!Channels /\ wTx = WidgetsTransmitter
    BY ChannelsInUse DEF WidgetInv, InUse
  <2>2. wRx \in Widgets!Channels \cup {0} /\ wTx \in {0, WidgetsTransmitter}
    BY <2>1 DEF WidgetInv, InUse
  <2>3. wChecked \subseteq WidgetsAgcModes
    BY DEF WidgetInv, WidgetTypes
  <2>4. wSquelch.on \in BOOLEAN /\ wSquelch.ticked \in BOOLEAN /\ wSquelch.value \in WidgetsValues
    BY DEF WidgetInv, WidgetTypes
  <2>5. Widgets!TypeOK
    BY <2>2, <2>3, <2>4 DEF WidgetInv, WidgetTypes, Widgets!TypeOK, Told
  <2>6. Widgets!ShownIsTold
    BY DEF WidgetInv, WidgetTypes, InUse, Widgets!ShownIsTold, RxShown, TxShown
  <2> QED BY <2>5, <2>6 DEF ShownIsTold
<1> QED BY <1>1, <1>2, <1>3, PTL DEF Widgets!Spec

----------------------------------------------------------------------------
(* Push to talk *)

\* A line that sets the transmitter says on or off.
Understandable ==
  /\ RigMaxLines \in Nat
  /\ \A line \in RigLines : line.cmd = "T" => line.on \in BOOLEAN

\* The states of the window and of the connection that the slots work on.
Windows ==
  [current : {{}} \cup {{r} : r \in RigReceivers}, tx : BOOLEAN, leaving : BOOLEAN,
   allowed : BOOLEAN, txNow : BOOLEAN, keyed : BOOLEAN, muted : BOOLEAN, vfo : BOOLEAN,
   frozen : SUBSET RigReceivers, button : [checked : BOOLEAN, enabled : BOOLEAN],
   rigTx : BOOLEAN]

\* The window transmits only where it may, and only what it can take back: with the
\* receiver, the transmitter and the permission it was keyed with.
Agreed(s, disturbed) ==
  /\ s.leaving => s.current # {}
  /\ s.vfo = s.txNow
  /\ ~disturbed =>
       /\ s.keyed = s.txNow
       /\ s.txNow => s.tx /\ s.current # {} /\ s.allowed /\ ~s.leaving
       /\ s.frozen = IF s.txNow THEN s.current ELSE {}

RigInv ==
  /\ Rig!Now \in Windows /\ Agreed(Rig!Now, rUpset) /\ rUpset \in BOOLEAN
  /\ rBuffer \in Seq(RigLines) /\ Len(rBuffer) <= RigMaxLines

\* A slot decides the whole state.
LEMMA RigBecomes ==
  ASSUME NEW s \in Windows, Rig!Becomes(s) PROVE Rig!Now' = s
BY DEF Rig!Becomes, Rig!Now, Windows

\* pttChange keeps what keying relates.
LEMMA PttKeeps ==
  ASSUME NEW s \in Windows, NEW on \in BOOLEAN, NEW u \in BOOLEAN, Agreed(s, u)
  PROVE  /\ Rig!PttChange(s, on) \in Windows /\ Agreed(Rig!PttChange(s, on), u)
         /\ Rig!PttChange(s, on).current = s.current /\ Rig!PttChange(s, on).leaving = s.leaving
         /\ ~on /\ ~u => ~Rig!PttChange(s, on).txNow
<1>1. CASE s.current = {} \/ ~s.tx \/ s.leaving
  BY <1>1 DEF Rig!PttChange, Agreed, Windows
<1>2. CASE ~(s.current = {} \/ ~s.tx \/ s.leaving) /\ ~s.allowed
  BY <1>2 DEF Rig!PttChange, Windows, Agreed
<1>3. CASE ~(s.current = {} \/ ~s.tx \/ s.leaving) /\ s.allowed /\ on
  BY <1>3, ZenonT(60) DEF Rig!PttChange, Rig!KeyUp, Windows, Agreed
<1>4. CASE ~(s.current = {} \/ ~s.tx \/ s.leaving) /\ s.allowed /\ ~on
  BY <1>4 DEF Rig!PttChange, Rig!KeyDown, Windows, Agreed
<1> QED BY <1>1, <1>2, <1>3, <1>4

\* The MOX button, its permission and the loss of the connection.
LEMMA SlotsKeep ==
  ASSUME NEW s \in Windows, NEW on \in BOOLEAN, NEW u \in BOOLEAN, Agreed(s, u)
  PROVE  /\ Rig!ClickMoxTo(s, on) \in Windows /\ Agreed(Rig!ClickMoxTo(s, on), u)
         /\ Rig!HideTx(s, on) \in Windows /\ Agreed(Rig!HideTx(s, on), u)
         /\ Rig!Gone(s) \in Windows /\ Agreed(Rig!Gone(s), u)
         /\ Rig!RigSetPtt(s, on) \in Windows /\ Agreed(Rig!RigSetPtt(s, on), u)
<1>1. ASSUME NEW c \in BOOLEAN
      PROVE  Rig!ClickMoxTo(s, c) \in Windows /\ Agreed(Rig!ClickMoxTo(s, c), u)
  <2>1. [s EXCEPT !.button.checked = c] \in Windows /\ Agreed([s EXCEPT !.button.checked = c], u)
    BY DEF Windows, Agreed
  <2> QED BY <2>1, PttKeeps DEF Rig!ClickMoxTo
<1>2. ASSUME NEW w \in Windows, Agreed(w, u), NEW hide \in BOOLEAN
      PROVE  Rig!HideTx(w, hide) \in Windows /\ Agreed(Rig!HideTx(w, hide), u)
  <2>1. PICK b \in [checked : BOOLEAN, enabled : BOOLEAN] :
                Rig!HideTx(w, hide) = [w EXCEPT !.button = b]
    BY DEF Rig!HideTx, Windows
  <2> QED BY <1>2, <2>1 DEF Windows, Agreed
<1>3. Rig!Gone(s) \in Windows /\ Agreed(Rig!Gone(s), u)
  <2>1. PICK w \in Windows : /\ w = Rig!PttChange(s, FALSE) /\ Agreed(w, u)
                             /\ ~u => ~w.txNow
    BY PttKeeps
  <2>2. PICK g : g = [w EXCEPT !.current = {}, !.tx = FALSE, !.leaving = FALSE,
                               !.frozen = {}, !.keyed = FALSE, !.rigTx = FALSE]
    OBVIOUS
  <2>3. g \in Windows
    BY <2>2, ZenonT(60) DEF Windows
  <2>4. /\ g.current = {} /\ ~g.tx /\ ~g.leaving /\ g.frozen = {} /\ ~g.keyed
        /\ g.txNow = w.txNow /\ g.vfo = w.vfo
    BY <2>2 DEF Windows
  <2>5. Agreed(g, u)
    BY <2>1, <2>3, <2>4 DEF Windows, Agreed
  <2> QED BY <1>2, <2>1, <2>2, <2>3, <2>5 DEF Rig!Gone
<1>4. Rig!RigSetPtt(s, on) \in Windows /\ Agreed(Rig!RigSetPtt(s, on), u)
  <2>1. PICK c \in BOOLEAN : c = (on /\ s.button.enabled)
    OBVIOUS
  <2>2. PICK w \in Windows : /\ w = IF s.leaving THEN s ELSE Rig!ClickMoxTo(s, c)
                             /\ Agreed(w, u)
    BY <1>1
  <2>3. [w EXCEPT !.rigTx = on] \in Windows /\ Agreed([w EXCEPT !.rigTx = on], u)
    BY <2>2 DEF Windows, Agreed
  <2> QED BY <2>1, <2>2, <2>3 DEF Rig!RigSetPtt
<1> QED BY <1>1, <1>2, <1>3, <1>4

\* Key and button.
LEMMA RigKeys ==
  ASSUME RigInv, Rig!PressKey \/ Rig!ReleaseKey \/ Rig!ClickMox
  PROVE  RigInv'
<1>1. PICK w \in Windows : Rig!Becomes(w) /\ Agreed(w, rUpset)
  <2>1. PICK on \in BOOLEAN : on = ~rButton.checked
    OBVIOUS
  <2> QED BY <2>1, PttKeeps, SlotsKeep DEF RigInv, Rig!PressKey, Rig!ReleaseKey, Rig!ClickMox
<1>2. Rig!Now' = w
  BY <1>1, RigBecomes
<1>3. UNCHANGED <<rBuffer, rUpset>>
  BY DEF Rig!PressKey, Rig!ReleaseKey, Rig!ClickMox, Rig!RestSame
<1> QED BY <1>1, <1>2, <1>3 DEF RigInv

\* The permission and the choice of a receiver: in the middle of a transmission they
\* are a history of their own.
LEMMA RigChoices ==
  ASSUME RigInv, Rig!Permit \/ Rig!SelectReceiver
  PROVE  RigInv'
<1>1. CASE Rig!Permit
  <2>1. PICK w : w = [Rig!Now EXCEPT !.allowed = ~rAllowed]
    OBVIOUS
  <2>2. PICK u \in BOOLEAN : u = (rUpset \/ rTxNow)
    OBVIOUS
  <2>3. rUpset' = u /\ rBuffer' = rBuffer /\ Rig!Becomes(w)
    BY <1>1, <2>1, <2>2 DEF Rig!Permit
  <2>4. w \in Windows
    BY <2>1 DEF RigInv, Windows
  <2>5. Agreed(w, u)
    BY <2>1, <2>2 DEF RigInv, Windows, Agreed, Rig!Now
  <2> QED BY <2>3, <2>4, <2>5, RigBecomes DEF RigInv
<1>2. CASE Rig!SelectReceiver
  <2>1. PICK r \in RigReceivers :
          /\ Rig!Becomes(Rig!HideTx([Rig!Now EXCEPT !.current = {r}], ~(rTx /\ r = RigPaired)))
          /\ rUpset' = (rUpset \/ (rTxNow /\ rCurrent # {r})) /\ rBuffer' = rBuffer
    BY <1>2 DEF Rig!SelectReceiver
  <2>2. PICK w : w = [Rig!Now EXCEPT !.current = {r}]
    OBVIOUS
  <2>3. PICK u \in BOOLEAN, hide \in BOOLEAN :
          u = (rUpset \/ (rTxNow /\ rCurrent # {r})) /\ hide = ~(rTx /\ r = RigPaired)
    OBVIOUS
  <2>4. w \in Windows
    BY <2>2 DEF RigInv, Windows
  <2>5. Agreed(w, u)
    BY <2>2, <2>3 DEF RigInv, Windows, Agreed, Rig!Now
  <2>6. Rig!HideTx(w, hide) \in Windows /\ Agreed(Rig!HideTx(w, hide), u)
    BY <2>4, <2>5, SlotsKeep
  <2>7. Rig!Becomes(Rig!HideTx(w, hide)) /\ rUpset' = u
    BY <2>1, <2>2, <2>3
  <2> QED BY <2>1, <2>6, <2>7, RigBecomes DEF RigInv
<1> QED BY <1>1, <1>2

\* The connection comes and goes.
LEMMA RigConnections ==
  ASSUME Understandable, RigInv, Rig!Connect \/ Rig!Disconnected \/ Rig!Leave
  PROVE  RigInv'
<1>0. <<>> \in Seq(RigLines)
  OBVIOUS
<1>1. CASE Rig!Connect
  <2>1. PICK r \in RigReceivers, t \in BOOLEAN, old \in BOOLEAN :
          Rig!Becomes(Rig!HideTx([Rig!Now EXCEPT !.current = {r}, !.tx = t, !.rigTx = old,
                                                 !.keyed = FALSE], ~t))
    BY <1>1 DEF Rig!Connect
  <2>2. rCurrent = {} /\ UNCHANGED <<rBuffer, rUpset>>
    BY <1>1 DEF Rig!Connect, Rig!RestSame
  <2>3. PICK w : w = [Rig!Now EXCEPT !.current = {r}, !.tx = t, !.rigTx = old, !.keyed = FALSE]
    OBVIOUS
  <2>4. w \in Windows
    BY <2>3 DEF RigInv, Windows
  <2>5. Agreed(w, rUpset)
    BY <2>2, <2>3 DEF RigInv, Windows, Agreed, Rig!Now
  <2>6. PICK hide \in BOOLEAN : hide = ~t
    OBVIOUS
  <2>7. Rig!HideTx(w, hide) \in Windows /\ Agreed(Rig!HideTx(w, hide), rUpset)
    BY <2>4, <2>5, SlotsKeep DEF RigInv
  <2>8. Rig!Becomes(Rig!HideTx(w, hide))
    BY <2>1, <2>3, <2>6
  <2> QED BY <2>2, <2>7, <2>8, RigBecomes DEF RigInv
<1>2. ASSUME Rig!Becomes(Rig!Gone(Rig!Now)), rBuffer' = <<>>, UNCHANGED rUpset PROVE RigInv'
  <2>1. Rig!Gone(Rig!Now) \in Windows /\ Agreed(Rig!Gone(Rig!Now), rUpset)
    BY SlotsKeep DEF RigInv
  <2> QED BY <1>0, <1>2, <2>1, RigBecomes DEF RigInv, Understandable
<1>3. ASSUME rCurrent # {}, Rig!Becomes([Rig!Now EXCEPT !.leaving = TRUE]),
             rUpset' = (rUpset \/ rTxNow), UNCHANGED rBuffer
      PROVE  RigInv'
  <2>1. PICK w : w = [Rig!Now EXCEPT !.leaving = TRUE]
    OBVIOUS
  <2>2. PICK u \in BOOLEAN : u = (rUpset \/ rTxNow)
    OBVIOUS
  <2>3. w \in Windows
    BY <2>1 DEF RigInv, Windows
  <2>4. Agreed(w, u)
    BY <1>3, <2>1, <2>2 DEF RigInv, Windows, Agreed, Rig!Now
  <2> QED BY <1>3, <2>1, <2>2, <2>3, <2>4, RigBecomes DEF RigInv
<1> QED BY <1>1, <1>2, <1>3 DEF Rig!Disconnected, Rig!Leave

\* One line of rig control.
LEMMA RigReads ==
  ASSUME Understandable, RigInv, Rig!ReadyRead
  PROVE  RigInv'
<1>0. PICK n \in 1 .. 2 : \E segment \in [1 .. n -> RigLines] :
        /\ Len(rBuffer \o segment) <= RigMaxLines + 1 /\ rBuffer' = Tail(rBuffer \o segment)
        /\ Rig!SetPtt(Head(rBuffer \o segment)) \/ Rig!Answered(Head(rBuffer \o segment))
  BY DEF Rig!ReadyRead
<1>1. PICK segment \in [1 .. n -> RigLines] :
        /\ Len(rBuffer \o segment) <= RigMaxLines + 1 /\ rBuffer' = Tail(rBuffer \o segment)
        /\ Rig!SetPtt(Head(rBuffer \o segment)) \/ Rig!Answered(Head(rBuffer \o segment))
  BY <1>0
<1>2. UNCHANGED rUpset
  BY DEF Rig!ReadyRead
<1>3. /\ rBuffer \o segment \in Seq(RigLines)
      /\ Len(rBuffer \o segment) = Len(rBuffer) + n /\ Len(rBuffer) \in Nat
  <2>1. segment \in Seq(RigLines) /\ Len(segment) = n
    OBVIOUS
  <2> QED BY <2>1 DEF RigInv
<1>9. PICK all \in Seq(RigLines) : all = rBuffer \o segment
  BY <1>3
<1>4. rBuffer' \in Seq(RigLines) /\ Len(rBuffer') <= RigMaxLines /\ Head(all) \in RigLines
  <2>1. Len(all) >= 1 /\ Len(all) <= RigMaxLines + 1 /\ Len(all) \in Nat
    BY <1>1, <1>3, <1>9
  <2>2. Tail(all) \in Seq(RigLines) /\ Len(Tail(all)) = Len(all) - 1 /\ Head(all) \in RigLines
    BY ONLY <2>1, all \in Seq(RigLines)
  <2> QED BY <1>1, <1>9, <2>1, <2>2 DEF Understandable
<1>5. CASE Rig!Answered(Head(all))
  <2>1. Rig!Now' = Rig!Now
    BY <1>5 DEF Rig!Answered, Rig!state, Rig!Now
  <2> QED BY <1>2, <1>4, <2>1 DEF RigInv
<1>6. CASE Rig!SetPtt(Head(all))
  <2>1. PICK on \in BOOLEAN : Rig!Becomes(Rig!RigSetPtt(Rig!Now, on))
    BY <1>4, <1>6 DEF Rig!SetPtt, Understandable
  <2>2. Rig!RigSetPtt(Rig!Now, on) \in Windows /\ Agreed(Rig!RigSetPtt(Rig!Now, on), rUpset)
    BY SlotsKeep DEF RigInv
  <2> QED BY <1>2, <1>4, <2>1, <2>2, RigBecomes DEF RigInv
<1> QED BY <1>1, <1>9, <1>5, <1>6

\* How wide the filters of each mode are.
LEMMA WidthOf ==
  ASSUME NEW i \in 0 .. 10
  PROVE  /\ \A m \in {"USB", "LSB"} : Rig!Width(m, i) = Rig!Upper[i + 1] - 150
         /\ \A m \in {"AM", "SAM"} : Rig!Width(m, i) = 2 * Rig!Half[i + 1]
         /\ Rig!Width("FM", i) = 2 * Rig!Fm[i + 1]
         /\ \A m \in {"CWL", "CWU"} : Rig!Width(m, i) = 2 * Rig!Tone[i + 1]
<1>1. ASSUME NEW m, NEW a, NEW b, Rig!Edges(m, i, 0) = <<a, b>>
      PROVE  Rig!Width(m, i) = b - a
  <2>1. <<a, b>>[1] = a /\ <<a, b>>[2] = b
    OBVIOUS
  <2> QED BY ONLY <1>1, <2>1, Zenon DEF Rig!Width
<1>2. i + 1 \in 1 .. 11
  OBVIOUS
<1>3. /\ Rig!Upper[i + 1] \in Int /\ Rig!Half[i + 1] \in Int
      /\ Rig!Fm[i + 1] \in Int /\ Rig!Tone[i + 1] \in Int
  BY <1>2 DEF Rig!Upper, Rig!Half, Rig!Fm, Rig!Tone
<1>4. /\ Rig!Edges("USB", i, 0) = <<150, Rig!Upper[i + 1]>>
      /\ Rig!Edges("LSB", i, 0) = <<-Rig!Upper[i + 1], -150>>
  BY ONLY SMTT(30) DEF Rig!Edges, Rig!UpperSide, Rig!LowerSide
<1>5. /\ Rig!Edges("AM", i, 0) = <<-Rig!Half[i + 1], Rig!Half[i + 1]>>
      /\ Rig!Edges("SAM", i, 0) = <<-Rig!Half[i + 1], Rig!Half[i + 1]>>
      /\ Rig!Edges("FM", i, 0) = <<-Rig!Fm[i + 1], Rig!Fm[i + 1]>>
  BY ONLY SMTT(30) DEF Rig!Edges, Rig!BothSides, Rig!FmSides
<1>6. /\ Rig!Edges("CWL", i, 0) = <<-0 - Rig!Tone[i + 1], -0 + Rig!Tone[i + 1]>>
      /\ Rig!Edges("CWU", i, 0) = <<0 - Rig!Tone[i + 1], 0 + Rig!Tone[i + 1]>>
  BY ONLY SMTT(30) DEF Rig!Edges, Rig!BelowPitch, Rig!AbovePitch
<1> QED BY <1>1, <1>3, <1>4, <1>5, <1>6

Exact(name) == IF name \in {"CW", "CWR"} THEN 0 .. 8 ELSE 0 .. 9

\* The filters that a name and a width stand for have that width, but for the
\* narrowest of CW, whose width no other filter has; the variable filter is as wide
\* as one of them.
LEMMA WidthsKnown ==
  ASSUME NEW name \in DOMAIN Rig!Known
  PROVE  /\ \A i \in Exact(name) : Rig!Width(Rig!ModeOf(name), i) = Rig!Known[name][i + 1]
         /\ \E i \in Exact(name) : Rig!Width(Rig!ModeOf(name), 10) = Rig!Known[name][i + 1]
         /\ name \in {"CW", "CWR"} =>
              \A i \in Exact(name) : Rig!Known[name][i + 1] # Rig!Known[name][10]
<1>1. \A k \in 1 .. 10 : Rig!Upper[k] - 150 = Rig!Sides[k]
  BY DEF Rig!Upper, Rig!Sides
<1>2. \A k \in 1 .. 10 : 2 * Rig!Half[k] = Rig!Broad[k]
  BY DEF Rig!Half, Rig!Broad
<1>3. \A k \in 1 .. 10 : 2 * Rig!Fm[k] = [Rig!Broad EXCEPT ![1] = 80000][k]
  BY DEF Rig!Fm, Rig!Broad
<1>4. /\ \A k \in 1 .. 9 : 2 * Rig!Tone[k] = Rig!Tones[k] /\ Rig!Tones[k] # 25
      /\ Rig!Tones[10] = 25
  BY DEF Rig!Tone, Rig!Tones
<1>5. /\ Rig!Upper[11] - 150 = Rig!Sides[7] /\ 2 * Rig!Half[11] = Rig!Broad[6]
      /\ 2 * Rig!Fm[11] = [Rig!Broad EXCEPT ![1] = 80000][6] /\ 2 * Rig!Tone[11] = Rig!Tones[6]
  BY DEF Rig!Upper, Rig!Sides, Rig!Half, Rig!Fm, Rig!Broad, Rig!Tone, Rig!Tones
<1>6. CASE name \in {"USB", "LSB"}
  <2>1. Rig!ModeOf(name) \in {"USB", "LSB"} /\ Rig!Known[name] = Rig!Sides /\ Exact(name) = 0 .. 9
    BY <1>6 DEF Rig!ModeOf, Rig!Known, Exact
  <2>2. \A i \in 0 .. 10 : Rig!Width(Rig!ModeOf(name), i) = Rig!Upper[i + 1] - 150
    BY <2>1, WidthOf
  <2>3. Rig!Width(Rig!ModeOf(name), 10) = Rig!Known[name][6 + 1]
    BY <1>5, <2>1, <2>2
  <2> QED BY <1>1, <1>6, <2>1, <2>2, <2>3
<1>7. CASE name \in {"AM", "SAM"}
  <2>1. Rig!ModeOf(name) \in {"AM", "SAM"} /\ Rig!Known[name] = Rig!Broad /\ Exact(name) = 0 .. 9
    BY <1>7 DEF Rig!ModeOf, Rig!Known, Exact
  <2>2. \A i \in 0 .. 10 : Rig!Width(Rig!ModeOf(name), i) = 2 * Rig!Half[i + 1]
    BY <2>1, WidthOf
  <2>3. Rig!Width(Rig!ModeOf(name), 10) = Rig!Known[name][5 + 1]
    BY <1>5, <2>1, <2>2
  <2> QED BY <1>2, <1>7, <2>1, <2>2, <2>3
<1>8. CASE name = "FM"
  <2>1. /\ Rig!ModeOf(name) = "FM" /\ Exact(name) = 0 .. 9
        /\ Rig!Known[name] = [Rig!Broad EXCEPT ![1] = 80000]
    BY <1>8 DEF Rig!ModeOf, Rig!Known, Exact
  <2>2. \A i \in 0 .. 10 : Rig!Width(Rig!ModeOf(name), i) = 2 * Rig!Fm[i + 1]
    BY <2>1, WidthOf
  <2>3. Rig!Width(Rig!ModeOf(name), 10) = Rig!Known[name][5 + 1]
    BY <1>5, <2>1, <2>2
  <2> QED BY <1>3, <1>8, <2>1, <2>2, <2>3
<1>9. CASE name \in {"CW", "CWR"}
  <2>1. Rig!ModeOf(name) \in {"CWL", "CWU"} /\ Rig!Known[name] = Rig!Tones /\ Exact(name) = 0 .. 8
    BY <1>9 DEF Rig!ModeOf, Rig!Known, Exact
  <2>2. \A i \in 0 .. 10 : Rig!Width(Rig!ModeOf(name), i) = 2 * Rig!Tone[i + 1]
    BY <2>1, WidthOf
  <2>3. Rig!Width(Rig!ModeOf(name), 10) = Rig!Known[name][5 + 1]
    BY <1>5, <2>1, <2>2
  <2> QED BY <1>4, <2>1, <2>2, <2>3
<1>10. name \in {"USB", "LSB", "AM", "SAM", "FM", "CW", "CWR"}
  BY DEF Rig!Known
<1> QED BY <1>6, <1>7, <1>8, <1>9, <1>10

\* Rig control is told a width that it can set.
LEMMA ReadbackHolds == Rig!Readback
<1> SUFFICES ASSUME NEW name \in DOMAIN Rig!Known, NEW i \in 0 .. 10,
                    ~(name \in {"CW", "CWR"} /\ i = 9)
             PROVE  LET told  == Rig!Width(Rig!ModeOf(name), i)
                        again == Rig!Selected(name, told)
                    IN  again # {} /\ \A j \in again : Rig!Width(Rig!ModeOf(name), j) = told
  BY DEF Rig!Readback
<1> DEFINE width == Rig!Width(Rig!ModeOf(name), i)
<1>1. PICK k \in Exact(name) : width = Rig!Known[name][k + 1]
  <2>1. i = 10 \/ i \in Exact(name)
    BY DEF Exact
  <2> QED BY <2>1, WidthsKnown
<1>2. k \in Rig!Selected(name, width)
  BY <1>1 DEF Rig!Selected, Exact
<1>3. ASSUME NEW j \in Rig!Selected(name, width) PROVE Rig!Width(Rig!ModeOf(name), j) = width
  <2>1. j \in 0 .. 9 /\ Rig!Known[name][j + 1] = width
    BY DEF Rig!Selected
  <2>2. j \in Exact(name)
    <3>1. CASE name \in {"CW", "CWR"}
      <4>1. Rig!Known[name][k + 1] # Rig!Known[name][10]
        BY <3>1, WidthsKnown
      <4>2. j # 9
        BY <1>1, <2>1, <4>1
      <4> QED BY <2>1, <3>1, <4>2 DEF Exact
    <3>2. CASE name \notin {"CW", "CWR"}
      BY <2>1, <3>2 DEF Exact
    <3> QED BY <3>1, <3>2
  <2> QED BY <2>1, <2>2, WidthsKnown
<1> HIDE DEF width
<1> QED BY <1>2, <1>3 DEF width

\* Whatever the lines of rig control say and however key, button, permission, receiver
\* and connection follow one another, the VFO shows what the window does; the radio is
\* keyed exactly while the window transmits, with a transmitter, on the receiver whose
\* panadapter stands still, until in the middle of a transmission the permission or the
\* receiver is changed or the user leaves (UI::pttChange, currentRadioChanged,
\* disconnected); and a rig control program that sets the width it was told gets it.
THEOREM RigCorrect ==
  ASSUME Understandable PROVE Rig!Spec => []RigTruthful
<1>1. Rig!Init => RigInv
  <2> SUFFICES ASSUME Rig!Init PROVE RigInv
    OBVIOUS
  <2>1. Rig!Now \in Windows
    BY DEF Rig!Init, Rig!Now, Windows
  <2>2. Agreed(Rig!Now, rUpset) /\ rUpset \in BOOLEAN
    BY DEF Rig!Init, Rig!Now, Agreed
  <2>3. rBuffer = <<>> /\ rBuffer \in Seq(RigLines) /\ Len(rBuffer) = 0
    BY DEF Rig!Init
  <2> QED BY <2>1, <2>2, <2>3 DEF RigInv, Understandable
<1>2. RigInv /\ [Rig!Next]_(Rig!vars) => RigInv'
  <2>1. ASSUME RigInv, UNCHANGED Rig!vars PROVE RigInv'
    BY <2>1 DEF RigInv, Rig!vars, Rig!state, Rig!Now
  <2> QED BY <2>1, RigKeys, RigChoices, RigConnections, RigReads DEF Rig!Next
<1>3. RigInv => RigTruthful
  <2> SUFFICES ASSUME RigInv PROVE RigTruthful
    OBVIOUS
  <2>1. Rig!Now \in Windows
    BY DEF RigInv
  <2>2. /\ rCurrent \in {{}} \cup {{r} : r \in RigReceivers} /\ rFrozen \in SUBSET RigReceivers
        /\ rTx \in BOOLEAN /\ rRigTx \in BOOLEAN
        /\ rButton \in [checked : BOOLEAN, enabled : BOOLEAN]
    BY <2>1 DEF Windows, Rig!Now
  <2>3. rCurrent \subseteq RigReceivers /\ Cardinality(rCurrent) <= 1
    <3>1. CASE rCurrent = {}
      BY <3>1, FS_EmptySet
    <3>2. CASE rCurrent # {}
      <4>1. PICK r \in RigReceivers : rCurrent = {r}
        BY <2>2, <3>2
      <4> QED BY <4>1, FS_Singleton
    <3> QED BY <3>1, <3>2
  <2>4. Rig!Cardinality(rCurrent) = Cardinality(rCurrent)
    BY DEF Rig!Cardinality, Cardinality
  <2>5. rLeaving => rCurrent # {}
    BY DEF RigInv, Agreed, Rig!Now
  <2>6. Rig!TypeOK
    BY <2>2, <2>3, <2>4, <2>5 DEF RigInv, Rig!TypeOK
  <2>7. Rig!KeyingAgrees
    BY DEF RigInv, Agreed, Rig!Now, Rig!KeyingAgrees
  <2> QED BY <2>6, <2>7, ReadbackHolds DEF RigTruthful
<1> QED BY <1>1, <1>2, <1>3, PTL DEF Rig!Spec

----------------------------------------------------------------------------
(* The notches of a panadapter *)

\* The band does not change while a button is held, and the view is no wider than its
\* scene, so that what is held is what was under the pointer.
Undisturbed ==
  /\ ~ScopeRemote /\ ~ScopeWide /\ Scope!NoBand \notin ScopeBands
  /\ ScopeReceiver \in Nat /\ ScopeSlots \in Nat /\ ScopeMaxAdds \in Nat
  /\ ScopeTunings \subseteq Int /\ ScopePassbands \subseteq Int \X Int /\ ScopeDrags \subseteq Int

Notches == [fo : Int, bw : Nat]

ScopeTypes ==
  /\ pFrequency \in ScopeTunings /\ pPass \in ScopePassbands /\ pBand \in ScopeBands
  /\ pNotch \in [Scope!SlotIds -> [fo : Int, bw : Nat, band : ScopeBands \cup {Scope!NoBand}]]
  /\ pNotchFilterIndex \in 0 .. ScopeSlots
  /\ pTimer \in BOOLEAN /\ pButton \in {-1, 1, 2} /\ pHeld \in BOOLEAN
  /\ pPicked \in Scope!SlotIds \cup {-1} /\ pMoved \in BOOLEAN
  /\ pFilterSelected \in BOOLEAN /\ pSettingSquelch \in BOOLEAN /\ pSplitting \in BOOLEAN
  /\ pChecked \in BOOLEAN
  /\ pDsp \in [run : BOOLEAN, tune : Int, notches : Seq(Notches)]

\* Slots not used yet are of no band, and a notch that is held is one of the band.
ScopeInv ==
  /\ ScopeTypes
  /\ pDrawn = Scope!InBand(pNotch, pBand)
  /\ \A i \in Scope!SlotIds : i >= pNotchFilterIndex => pNotch[i].band = Scope!NoBand
  /\ pHeld => pPicked = -1 \/ pPicked \in Scope!InBand(pNotch, pBand)

\* The list of the DSP stays a list of notches.
LEMMA ListKept ==
  ASSUME NEW list \in Seq(Notches)
  PROVE  /\ \A n \in Notches, place \in Nat : Scope!AddAt(list, place, n) \in Seq(Notches)
         /\ \A place \in Nat : Scope!DeleteAt(list, place) \in Seq(Notches)
         /\ ScopeTypes => \A slots \in SUBSET Scope!SlotIds :
                            Scope!EditAll(list, slots) \in Seq(Notches)
<1>1. ASSUME NEW n \in Notches, NEW place \in Nat
      PROVE  Scope!AddAt(list, place, n) \in Seq(Notches)
  <2>1. CASE place <= Len(list)
    <3>1. /\ SubSeq(list, 1, place + 1 - 1) \in Seq(Notches) /\ <<n>> \in Seq(Notches)
          /\ SubSeq(list, place + 1, Len(list)) \in Seq(Notches)
      BY ONLY <2>1, list \in Seq(Notches), place \in Nat, n \in Notches
    <3>2. SubSeq(list, 1, place + 1 - 1) \o <<n>>
            \o SubSeq(list, place + 1, Len(list)) \in Seq(Notches)
      BY <3>1
    <3>3. Scope!InsertAt(list, place + 1, n) \in Seq(Notches)
      BY ONLY <3>2 DEF Scope!InsertAt
    <3> QED BY <2>1, <3>3, Zenon DEF Scope!AddAt
  <2>2. CASE ~(place <= Len(list))
    BY <2>2 DEF Scope!AddAt
  <2> QED BY <2>1, <2>2
<1>2. ASSUME NEW place \in Nat PROVE Scope!DeleteAt(list, place) \in Seq(Notches)
  <2>1. CASE place < Len(list)
    <3>1. /\ SubSeq(list, 1, place + 1 - 1) \in Seq(Notches)
          /\ SubSeq(list, place + 1 + 1, Len(list)) \in Seq(Notches)
      BY ONLY <2>1, list \in Seq(Notches), place \in Nat
    <3>2. SubSeq(list, 1, place + 1 - 1) \o SubSeq(list, place + 1 + 1, Len(list)) \in Seq(Notches)
      BY <3>1
    <3>3. Scope!RemoveAt(list, place + 1) \in Seq(Notches)
      BY ONLY <3>2 DEF Scope!RemoveAt
    <3> QED BY <2>1, <3>3, Zenon DEF Scope!DeleteAt
  <2>2. CASE ~(place < Len(list))
    BY <2>2 DEF Scope!DeleteAt
  <2> QED BY <2>1, <2>2
<1>3. ASSUME ScopeTypes, NEW slots \in SUBSET Scope!SlotIds
      PROVE  Scope!EditAll(list, slots) \in Seq(Notches)
  <2>1. ASSUME NEW p \in DOMAIN list
        PROVE  (IF p - 1 \in slots THEN Scope!Width(pNotch[p - 1]) ELSE list[p]) \in Notches
    <3>1. list[p] \in Notches
      BY ONLY list \in Seq(Notches), p \in DOMAIN list
    <3>2. ASSUME NEW i \in Scope!SlotIds PROVE Scope!Width(pNotch[i]) \in Notches
      BY <1>3 DEF ScopeTypes, Scope!Width, Notches
    <3> QED BY <3>1, <3>2
  <2>2. DOMAIN list = 1 .. Len(list) /\ Len(list) \in Nat
    OBVIOUS
  <2>3. Scope!EditAll(list, slots) \in [1 .. Len(list) -> Notches]
    BY <2>1, <2>2, Zenon DEF Scope!EditAll
  <2> HIDE DEF Notches
  <2> QED BY <2>2, <2>3
<1> QED BY <1>1, <1>2, <1>3

\* A frequency the receiver is tuned to, and what the DSP is told of it.
LEMMA TuneKept ==
  ASSUME Undisturbed, ScopeTypes, NEW f \in ScopeTunings
  PROVE  /\ Scope!TuneOf(f) \in Int
         /\ [pDsp EXCEPT !.tune = Scope!TuneOf(f)]
              \in [run : BOOLEAN, tune : Int, notches : Seq(Notches)]
         /\ \A list \in Seq(Notches) :
              [pDsp EXCEPT !.tune = Scope!TuneOf(f), !.notches = list]
                \in [run : BOOLEAN, tune : Int, notches : Seq(Notches)]
<1>1. f \in Int
  BY DEF Undisturbed
<1>2. PICK n \in Int : n = Scope!TuneOf(f)
  BY <1>1 DEF Scope!TuneOf
<1> HIDE DEF Notches
<1>3. pDsp \in [run : BOOLEAN, tune : Int, notches : Seq(Notches)]
  BY DEF ScopeTypes
<1> QED BY ONLY <1>2, <1>3

\* The band or the passband changes, the receiver is tuned, the DSP told again.
LEMMA ScopeTunes ==
  ASSUME Undisturbed, ScopeInv,
         \/ Scope!ChangeBand \/ Scope!ChangeFilter \/ Scope!UpdateTimer
         \/ Scope!EnableNotchFilter \/ Scope!Wheel
  PROVE  ScopeInv'
<1> USE DEF Scope!view, Scope!mouse
<1> DEFINE Dsps == [run : BOOLEAN, tune : Int, notches : Seq(Notches)]
<1>0. ScopeTypes /\ pDsp \in Dsps /\ pDsp.notches \in Seq(Notches) /\ pFrequency \in ScopeTunings
  BY DEF ScopeInv, ScopeTypes
<1>1. \A f : Scope!EditAll(pDsp.notches, Scope!Edits(f)) \in Seq(Notches)
  BY <1>0, ListKept DEF Scope!Edits, Scope!InBand
<1>2. CASE Scope!ChangeBand
  <2>1. PICK b \in ScopeBands, f \in ScopeTunings :
          /\ pBand' = b /\ pFrequency' = f /\ pDsp' = [pDsp EXCEPT !.tune = Scope!TuneOf(f)]
          /\ pDrawn' = Scope!InBand(pNotch, b) /\ pTimer' = TRUE
    BY <1>2 DEF Scope!ChangeBand, Scope!SetFrequency
  <2>2. ~pHeld /\ UNCHANGED <<pPass, pNotch, pNotchFilterIndex, Scope!mouse, pChecked>>
    BY <1>2 DEF Scope!ChangeBand, Undisturbed
  <2>3. pDsp' \in Dsps
    BY <1>0, <2>1, TuneKept
  <2>4. ScopeTypes'
    BY <1>0, <2>1, <2>2, <2>3 DEF ScopeTypes
  <2> QED BY <2>1, <2>2, <2>4 DEF ScopeInv, Scope!InBand
<1>3. CASE Scope!ChangeFilter \/ Scope!UpdateTimer \/ Scope!EnableNotchFilter
  <2>1. UNCHANGED <<pFrequency, pBand, pNotch, pNotchFilterIndex, pDrawn, pButton, pHeld, pPicked,
                    pFilterSelected, pSettingSquelch, pSplitting, pMoved>>
    BY <1>3 DEF Scope!ChangeFilter, Scope!UpdateTimer, Scope!EnableNotchFilter
  <2>2. pPass' \in ScopePassbands /\ pTimer' \in BOOLEAN /\ pChecked' \in BOOLEAN
    BY <1>0, <1>3 DEF ScopeTypes, Scope!ChangeFilter, Scope!UpdateTimer, Scope!EnableNotchFilter
  <2>3. pDsp' \in Dsps
    <3>1. CASE Scope!ChangeFilter
      BY <1>0, <3>1 DEF Scope!ChangeFilter
    <3>2. CASE Scope!UpdateTimer
      <4>1. PICK list \in Seq(Notches) : pDsp' = [pDsp EXCEPT !.notches = list]
        BY <1>1, <3>2 DEF Scope!UpdateTimer
      <4> HIDE DEF Notches
      <4> QED BY <1>0, <4>1
    <3>3. CASE Scope!EnableNotchFilter
      <4>1. PICK n \in Int, on \in BOOLEAN : pDsp' = [pDsp EXCEPT !.run = on, !.tune = n]
        <5>1. PICK on \in BOOLEAN : on = ~pChecked
          OBVIOUS
        <5> QED BY <1>0, <3>3, <5>1, TuneKept DEF Scope!EnableNotchFilter
      <4> HIDE DEF Notches
      <4> QED BY <1>0, <4>1
    <3> QED BY <1>3, <3>1, <3>2, <3>3
  <2>4. ScopeTypes'
    BY <1>0, <2>1, <2>2, <2>3 DEF ScopeTypes
  <2> QED BY <2>1, <2>4 DEF ScopeInv, Scope!InBand
<1>4. CASE Scope!Wheel
  <2>1. PICK f \in ScopeTunings :
          /\ pFrequency' = f
          /\ pDsp' = [pDsp EXCEPT !.tune = Scope!TuneOf(f),
                                  !.notches = Scope!EditAll(@, Scope!Edits(f))]
    BY <1>4 DEF Scope!Wheel
  <2>2. /\ pDrawn' = Scope!InBand(pNotch, pBand) /\ pTimer' = FALSE
        /\ UNCHANGED <<pPass, pBand, pNotch, pNotchFilterIndex, Scope!mouse, pChecked>>
    BY <1>4 DEF Scope!Wheel
  <2>3. pDsp' \in Dsps
    <3>1. PICK list \in Seq(Notches) : list = Scope!EditAll(pDsp.notches, Scope!Edits(f))
      BY <1>1
    <3>2. pDsp' = [pDsp EXCEPT !.tune = Scope!TuneOf(f), !.notches = list]
      BY <1>0, <2>1, <3>1
    <3> QED BY <1>0, <3>2, TuneKept
  <2>4. ScopeTypes'
    BY <1>0, <2>1, <2>2, <2>3 DEF ScopeTypes
  <2> QED BY <2>2, <2>4 DEF ScopeInv, Scope!InBand
<1> QED BY <1>2, <1>3, <1>4

\* A notch is added in the next slot, or only its frequency is noted there.
LEMMA ScopeAdds ==
  ASSUME Undisturbed, ScopeInv, Scope!AddNotchFilter
  PROVE  ScopeInv'
<1> USE DEF Scope!view, Scope!mouse
<1> DEFINE Dsps == [run : BOOLEAN, tune : Int, notches : Seq(Notches)]
           slot == pNotchFilterIndex
           N == [fo : Int, bw : Nat, band : ScopeBands \cup {Scope!NoBand}]
<1>0. /\ ScopeTypes /\ pDsp \in Dsps /\ pDsp.notches \in Seq(Notches) /\ pFrequency \in ScopeTunings
      /\ pNotch \in [Scope!SlotIds -> N] /\ pBand \in ScopeBands
  BY DEF ScopeInv, ScopeTypes
<1>1. slot \in Scope!SlotIds /\ slot + 1 \in 0 .. ScopeSlots
  <2>1. ScopeMaxAdds \in Nat /\ ScopeSlots \in Nat /\ slot \in Nat
    BY <1>0 DEF Undisturbed, ScopeTypes
  <2>2. /\ Scope!Min({ScopeMaxAdds, ScopeSlots}) <= ScopeSlots
        /\ Scope!Min({ScopeMaxAdds, ScopeSlots}) \in Nat
    <3>1. \E x \in {ScopeMaxAdds, ScopeSlots} : \A y \in {ScopeMaxAdds, ScopeSlots} : x <= y
      BY <2>1
    <3> QED BY <2>1, <3>1 DEF Scope!Min
  <2>3. slot < Scope!Min({ScopeMaxAdds, ScopeSlots})
    BY DEF Scope!AddNotchFilter
  <2> QED BY <2>1, <2>2, <2>3 DEF Scope!SlotIds
<1>2. PICK fo \in Int : fo = pFrequency + (pPass[1] + pPass[2]) \div 2
  BY <1>0 DEF Undisturbed, ScopeTypes
<1>3. UNCHANGED <<pFrequency, pPass, pBand, pTimer, Scope!mouse, pChecked>>
  BY DEF Scope!AddNotchFilter
<1>4. \/ pNotch' = [pNotch EXCEPT ![slot].fo = fo] /\ UNCHANGED <<pNotchFilterIndex, pDrawn, pDsp>>
      \/ /\ pNotch' = [pNotch EXCEPT ![slot] = [fo |-> fo, bw |-> 4, band |-> pBand]]
         /\ pNotchFilterIndex' = slot + 1 /\ pDrawn' = pDrawn \cup {slot}
         /\ pDsp' = [run |-> TRUE, tune |-> Scope!TuneOf(pFrequency),
                     notches |-> Scope!AddAt(pDsp.notches, ScopeReceiver, [fo |-> fo, bw |-> 4])]
  BY <1>2 DEF Scope!AddNotchFilter, Scope!Width
<1>5. CASE pNotch' = [pNotch EXCEPT ![slot].fo = fo] /\ UNCHANGED <<pNotchFilterIndex, pDrawn,
                                                                    pDsp>>
  <2>1. /\ pNotch' \in [Scope!SlotIds -> N]
        /\ \A i \in Scope!SlotIds : pNotch'[i].band = pNotch[i].band
    BY <1>0, <1>1, <1>2, <1>5
  <2>2. ScopeTypes'
    BY <1>0, <1>3, <1>5, <2>1 DEF ScopeTypes
  <2> QED BY <1>3, <1>5, <2>1, <2>2 DEF ScopeInv, Scope!InBand
<1>6. CASE /\ pNotch' = [pNotch EXCEPT ![slot] = [fo |-> fo, bw |-> 4, band |-> pBand]]
           /\ pNotchFilterIndex' = slot + 1 /\ pDrawn' = pDrawn \cup {slot}
           /\ pDsp' = [run |-> TRUE, tune |-> Scope!TuneOf(pFrequency),
                       notches |-> Scope!AddAt(pDsp.notches, ScopeReceiver, [fo |-> fo, bw |-> 4])]
  <2>1. /\ pNotch' \in [Scope!SlotIds -> N] /\ pNotch'[slot].band = pBand
        /\ \A i \in Scope!SlotIds : i # slot => pNotch'[i] = pNotch[i]
    BY <1>0, <1>1, <1>2, <1>6
  <2>2. pDsp' \in Dsps
    <3>1. [fo |-> fo, bw |-> 4] \in Notches /\ ScopeReceiver \in Nat
      BY DEF Notches, Undisturbed
    <3>2. PICK list \in Seq(Notches) :
                  list = Scope!AddAt(pDsp.notches, ScopeReceiver, [fo |-> fo, bw |-> 4])
      BY <1>0, <3>1, ListKept
    <3>3. PICK n \in Int : n = Scope!TuneOf(pFrequency)
      BY <1>0, TuneKept
    <3> HIDE DEF Notches
    <3> QED BY <1>6, <3>2, <3>3
  <2>3. ScopeTypes'
    BY <1>0, <1>1, <1>3, <1>6, <2>1, <2>2 DEF ScopeTypes
  <2>4. pNotch[slot].band = Scope!NoBand /\ pBand # Scope!NoBand /\ slot \in Nat
    BY <1>0, <1>1 DEF ScopeInv, Undisturbed, Scope!SlotIds
  <2>5. pDrawn' = Scope!InBand(pNotch', pBand)
    BY <1>1, <1>6, <2>1, <2>4 DEF ScopeInv, Scope!InBand
  <2>6. \A i \in Scope!SlotIds : i >= pNotchFilterIndex' => pNotch'[i].band = Scope!NoBand
    BY <1>6, <2>1, <2>4 DEF ScopeInv, Scope!SlotIds
  <2>7. pHeld => pPicked = -1 \/ pPicked \in Scope!InBand(pNotch', pBand)
    BY <2>1, <2>4 DEF ScopeInv, Scope!InBand
  <2> QED BY <1>3, <2>3, <2>5, <2>6, <2>7 DEF ScopeInv
<1> QED BY <1>4, <1>5, <1>6

\* What is under the pointer is picked up: a notch of the band, or nothing.
LEMMA Grabs ==
  ASSUME Undisturbed, ScopeInv, NEW b \in {1, 2}, NEW at, Scope!Grab(b, at),
         at \in pDrawn \/ at \in {Scope!Plot, Scope!FilterItem, Scope!SquelchLine}
  PROVE  /\ pButton' = b /\ pMoved' = FALSE
         /\ pSettingSquelch' \in BOOLEAN /\ pFilterSelected' \in BOOLEAN
         /\ pPicked' \in Scope!SlotIds \cup {-1}
         /\ IF at \in pDrawn THEN pPicked' = at ELSE pPicked' = -1
<1>1. /\ pButton' = b /\ pMoved' = FALSE
      /\ pSettingSquelch' \in BOOLEAN /\ pFilterSelected' \in BOOLEAN
      /\ pPicked' = IF at = Scope!Outside THEN pPicked ELSE Scope!Max({at, -1})
  BY DEF Scope!Grab
<1>2. pDrawn \subseteq Scope!SlotIds /\ Scope!SlotIds \subseteq Nat
  BY DEF ScopeInv, Scope!InBand, Scope!SlotIds
<1>3. at \in Int /\ at # Scope!Outside /\ (at \in pDrawn <=> at \in Nat)
  <2>1. CASE at \in pDrawn
    <3>1. at \in Nat
      BY <1>2, <2>1
    <3> QED BY <2>1, <3>1 DEF Scope!Outside
  <2>2. CASE at \notin pDrawn
    BY <2>2 DEF Scope!Plot, Scope!FilterItem, Scope!SquelchLine, Scope!Outside
  <2> QED BY <2>1, <2>2
<1>4. Scope!Max({at, -1}) = IF at \in Nat THEN at ELSE -1
  <2>1. /\ Scope!Max({at, -1}) \in {at, -1}
        /\ \A y \in {at, -1} : Scope!Max({at, -1}) >= y
    <3>1. \E x \in {at, -1} : \A y \in {at, -1} : x >= y
      BY <1>3
    <3> QED BY <3>1 DEF Scope!Max
  <2> QED BY <1>3, <2>1
<1> QED BY <1>1, <1>2, <1>3, <1>4

\* A button is pressed on something, or a notch's menu is opened.
LEMMA ScopePresses ==
  ASSUME Undisturbed, ScopeInv,
         \/ \E b \in {1, 2}, at \in Scope!Places : Scope!Press(b, at)
         \/ \E slot \in pDrawn, delete \in BOOLEAN : Scope!NotchMenu(slot, delete)
  PROVE  ScopeInv'
<1> USE DEF Scope!view, Scope!mouse
<1> DEFINE Dsps == [run : BOOLEAN, tune : Int, notches : Seq(Notches)]
           N == [fo : Int, bw : Nat, band : ScopeBands \cup {Scope!NoBand}]
<1>0. ScopeTypes
  BY DEF ScopeInv
<1>1. ASSUME NEW b \in {1, 2}, NEW at \in Scope!Places, Scope!Press(b, at) PROVE ScopeInv'
  <2>1. /\ Scope!Grab(b, at) /\ pHeld' = TRUE
        /\ UNCHANGED <<pFrequency, pPass, pBand, pNotch, pNotchFilterIndex, pDrawn, pTimer,
                       pSplitting, pChecked, pDsp>>
    BY <1>1 DEF Scope!Press
  <2>2. at \in pDrawn \/ at \in {Scope!Plot, Scope!FilterItem, Scope!SquelchLine}
    BY DEF Scope!Places, Undisturbed
  <2>3. /\ pButton' = b /\ pMoved' = FALSE
        /\ pSettingSquelch' \in BOOLEAN /\ pFilterSelected' \in BOOLEAN
        /\ pPicked' \in Scope!SlotIds \cup {-1}
        /\ IF at \in pDrawn THEN pPicked' = at ELSE pPicked' = -1
    BY <2>1, <2>2, Grabs
  <2>4. ScopeTypes'
    BY <1>0, <2>1, <2>3 DEF ScopeTypes
  <2> QED BY <2>1, <2>3, <2>4 DEF ScopeInv, Scope!InBand
<1>2. ASSUME NEW slot \in pDrawn, NEW delete \in BOOLEAN, Scope!NotchMenu(slot, delete)
      PROVE  ScopeInv'
  <2>1. /\ Scope!Grab(2, slot) /\ ~pHeld
        /\ UNCHANGED <<pFrequency, pPass, pBand, pNotchFilterIndex, pTimer, pHeld, pSplitting>>
    BY <1>2 DEF Scope!NotchMenu
  <2>2. /\ pButton' = 2 /\ pMoved' = FALSE
        /\ pSettingSquelch' \in BOOLEAN /\ pFilterSelected' \in BOOLEAN
        /\ pPicked' \in Scope!SlotIds \cup {-1}
    BY <2>1, Grabs
  <2>3. CASE ~delete
    <3>1. UNCHANGED <<pNotch, pDrawn, pDsp, pChecked>>
      BY <1>2, <2>3 DEF Scope!NotchMenu
    <3>2. ScopeTypes'
      BY <1>0, <2>1, <2>2, <3>1 DEF ScopeTypes
    <3> QED BY <2>1, <3>1, <3>2 DEF ScopeInv, Scope!InBand
  <2>4. CASE delete
    <3>1. /\ pNotch' = [pNotch EXCEPT ![slot].band = Scope!NoBand]
          /\ pDrawn' = pDrawn \ {slot} /\ pChecked' = FALSE
          /\ pDsp' = [pDsp EXCEPT !.notches = Scope!DeleteAt(@, slot)]
      BY <1>2, <2>4 DEF Scope!NotchMenu, Scope!DeleteNotch
    <3>2. slot \in Scope!SlotIds /\ slot \in Nat /\ pBand # Scope!NoBand
      BY <1>0 DEF ScopeInv, ScopeTypes, Undisturbed, Scope!InBand, Scope!SlotIds
    <3>3. /\ pNotch' \in [Scope!SlotIds -> N] /\ pNotch'[slot].band = Scope!NoBand
          /\ \A i \in Scope!SlotIds : i # slot => pNotch'[i] = pNotch[i]
      BY <1>0, <3>1, <3>2 DEF ScopeTypes
    <3>4. pDsp' \in Dsps
      <4>1. pDsp \in Dsps /\ pDsp.notches \in Seq(Notches)
        BY <1>0 DEF ScopeTypes
      <4>2. PICK list \in Seq(Notches) : list = Scope!DeleteAt(pDsp.notches, slot)
        BY <3>2, <4>1, ListKept
      <4> HIDE DEF Notches
      <4> QED BY <3>1, <4>1, <4>2
    <3>5. ScopeTypes'
      BY <1>0, <2>1, <2>2, <3>1, <3>3, <3>4 DEF ScopeTypes
    <3>6. pDrawn' = Scope!InBand(pNotch', pBand)
      BY <3>1, <3>2, <3>3 DEF ScopeInv, Scope!InBand
    <3> QED BY <2>1, <3>3, <3>5, <3>6 DEF ScopeInv
  <2> QED BY <2>3, <2>4
<1> QED BY <1>1, <1>2

\* The mouse moves, and what was picked up follows.
LEMMA NotchDrags ==
  ASSUME Undisturbed, ScopeInv,
         \/ Scope!Hover \/ \E dx, dy \in ScopeDrags : Scope!DragNotch(dx, dy)
         \/ Scope!DragFilter
  PROVE  ScopeInv'
<1> USE DEF Scope!view, Scope!mouse
<1> DEFINE N == [fo : Int, bw : Nat, band : ScopeBands \cup {Scope!NoBand}]
<1>0. ScopeTypes
  BY DEF ScopeInv
<1>1. CASE Scope!Hover
  <2>1. /\ UNCHANGED <<pFrequency, pPass, pBand, pNotch, pNotchFilterIndex, pDrawn, pTimer, pButton,
                       pHeld, pPicked, pFilterSelected, pSettingSquelch, pChecked, pDsp>>
        /\ pMoved' = TRUE /\ pSplitting' \in BOOLEAN
    BY <1>0, <1>1 DEF Scope!Hover, ScopeTypes
  <2>2. ScopeTypes'
    BY <1>0, <2>1 DEF ScopeTypes
  <2> QED BY <2>1, <2>2 DEF ScopeInv, Scope!InBand
<1>2. ASSUME NEW dx \in ScopeDrags, NEW dy \in ScopeDrags, Scope!DragNotch(dx, dy) PROVE ScopeInv'
  <2>1. /\ UNCHANGED <<pFrequency, pPass, pBand, pNotchFilterIndex, pTimer, pButton, pHeld, pPicked,
                       pFilterSelected, pSettingSquelch, pSplitting, pChecked, pDsp>>
        /\ pMoved' = TRUE /\ pDrawn' = pDrawn \cup {pPicked} /\ pHeld /\ pPicked > -1
        /\ pNotch' = [pNotch EXCEPT ![pPicked].fo = @ + dx, ![pPicked].bw = Scope!Max({1, @ - dy})]
    BY <1>2 DEF Scope!DragNotch
  <2>2. /\ dx \in Int /\ dy \in Int /\ pPicked \in Scope!InBand(pNotch, pBand)
        /\ pPicked \in Scope!SlotIds /\ pPicked \in Nat
    BY <1>0, <2>1, SMTT(30) DEF ScopeInv, ScopeTypes, Undisturbed, Scope!InBand, Scope!SlotIds
  <2>3. PICK w \in Nat : w = Scope!Max({1, pNotch[pPicked].bw - dy})
    <3>1. pNotch[pPicked].bw - dy \in Int
      BY <1>0, <2>2 DEF ScopeTypes
    <3>2. \E x \in {1, pNotch[pPicked].bw - dy} : \A y \in {1, pNotch[pPicked].bw - dy} : x >= y
      BY <3>1
    <3>3. /\ Scope!Max({1, pNotch[pPicked].bw - dy}) \in {1, pNotch[pPicked].bw - dy}
          /\ Scope!Max({1, pNotch[pPicked].bw - dy}) >= 1
      BY <3>2 DEF Scope!Max
    <3> QED BY <3>1, <3>3
  <2>4. PICK e : /\ e = [pNotch[pPicked] EXCEPT !.fo = @ + dx, !.bw = w]
                 /\ pNotch' = [pNotch EXCEPT ![pPicked] = e]
    BY <1>0, <2>1, <2>2, <2>3 DEF ScopeTypes
  <2>5. e \in N /\ e.band = pNotch[pPicked].band
    <3>1. PICK g \in N : g = pNotch[pPicked]
      BY <1>0, <2>2 DEF ScopeTypes
    <3>2. PICK fo \in Int : fo = g.fo + dx
      BY <2>2, <3>1
    <3>3. e = [g EXCEPT !.fo = fo, !.bw = w]
      BY <2>4, <3>1, <3>2
    <3> QED BY <3>1, <3>3
  <2>6. /\ pNotch' \in [Scope!SlotIds -> N]
        /\ \A i \in Scope!SlotIds : pNotch'[i].band = pNotch[i].band
    BY <1>0, <2>2, <2>4, <2>5 DEF ScopeTypes
  <2>7. ScopeTypes'
    BY <1>0, <2>1, <2>6 DEF ScopeTypes
  <2>8. Scope!InBand(pNotch', pBand) = Scope!InBand(pNotch, pBand)
    BY <2>6 DEF Scope!InBand
  <2>9. pDrawn' = Scope!InBand(pNotch', pBand')
    BY <2>1, <2>2, <2>8 DEF ScopeInv
  <2> QED BY <2>1, <2>6, <2>7, <2>8, <2>9 DEF ScopeInv
<1>3. CASE Scope!DragFilter
  <2>1. /\ UNCHANGED <<pFrequency, pBand, pNotch, pNotchFilterIndex, pDrawn, pTimer, pButton, pHeld,
                       pPicked, pFilterSelected, pSettingSquelch, pSplitting, pChecked, pDsp>>
        /\ pMoved' = TRUE /\ pPass' \in ScopePassbands
    BY <1>3 DEF Scope!DragFilter
  <2>2. ScopeTypes'
    BY <1>0, <2>1 DEF ScopeTypes
  <2> QED BY <2>1, <2>2 DEF ScopeInv, Scope!InBand
<1> QED BY <1>1, <1>2, <1>3

\* The plot is dragged or the button released: the receiver is tuned, or not.
LEMMA ScopeReleases ==
  ASSUME Undisturbed, ScopeInv, Scope!DragPlot \/ Scope!Release
  PROVE  ScopeInv'
<1> USE DEF Scope!view, Scope!mouse
<1>0. ScopeTypes
  BY DEF ScopeInv
<1>1. \/ UNCHANGED <<pFrequency, pDrawn, pTimer, pDsp>>
      \/ \E f \in ScopeTunings : Scope!SetFrequency(f, pBand)
  BY <1>0 DEF Scope!DragPlot, Scope!Release, ScopeTypes
<1>2. /\ UNCHANGED <<pPass, pBand, pNotch, pNotchFilterIndex, pChecked>>
      /\ (pHeld' => pHeld /\ pPicked' = pPicked)
  BY DEF Scope!DragPlot, Scope!Release
<1>3. /\ pButton' \in {-1, 1, 2} /\ pHeld' \in BOOLEAN /\ pPicked' \in Scope!SlotIds \cup {-1}
      /\ pMoved' \in BOOLEAN /\ pSettingSquelch' \in BOOLEAN /\ pSplitting' \in BOOLEAN
  BY <1>0 DEF Scope!DragPlot, Scope!Release, ScopeTypes
<1>4. pFilterSelected' \in BOOLEAN
  BY <1>0 DEF Scope!DragPlot, Scope!Release, ScopeTypes
<1>5. /\ pFrequency' \in ScopeTunings /\ pTimer' \in BOOLEAN
      /\ pDsp' \in [run : BOOLEAN, tune : Int, notches : Seq(Notches)]
      /\ pDrawn' = Scope!InBand(pNotch, pBand)
  <2>1. CASE UNCHANGED <<pFrequency, pDrawn, pTimer, pDsp>>
    BY <1>0, <2>1 DEF ScopeInv, ScopeTypes
  <2>2. ASSUME NEW f \in ScopeTunings, Scope!SetFrequency(f, pBand)
        PROVE  /\ pFrequency' \in ScopeTunings /\ pTimer' \in BOOLEAN
               /\ pDsp' \in [run : BOOLEAN, tune : Int, notches : Seq(Notches)]
               /\ pDrawn' = Scope!InBand(pNotch, pBand)
    BY <1>0, <2>2, TuneKept DEF Scope!SetFrequency
  <2> QED BY <1>1, <2>1, <2>2
<1>6. ScopeTypes'
  BY <1>0, <1>2, <1>3, <1>4, <1>5 DEF ScopeTypes
<1> QED BY <1>2, <1>5, <1>6 DEF ScopeInv, Scope!InBand

\* Whatever the mouse does and the band and frequency change to between its presses,
\* the items in the scene are the notches of the band: none is drawn that was deleted
\* or left behind, and none is lost on the way back (addNotchFilter,
\* deleteNotchFilter, setFrequency, the mouse handlers of Panadapter).
THEOREM NotchesCorrect ==
  ASSUME Undisturbed PROVE Scope!Spec => []ItemsMatch
<1>1. Scope!Init => ScopeInv
  <2> SUFFICES ASSUME Scope!Init PROVE ScopeInv
    OBVIOUS
  <2>1. /\ pNotch = [i \in Scope!SlotIds |-> Scope!Empty] /\ pDrawn = {} /\ pHeld = FALSE
        /\ pBand \in ScopeBands
    BY DEF Scope!Init
  <2>2. pDsp \in [run : BOOLEAN, tune : Int, notches : Seq(Notches)]
    <3>1. <<>> \in Seq(Notches)
      OBVIOUS
    <3> HIDE DEF Notches
    <3> QED BY <3>1 DEF Scope!Init
  <2>3. pNotch \in [Scope!SlotIds -> [fo : Int, bw : Nat, band : ScopeBands \cup {Scope!NoBand}]]
    BY <2>1 DEF Scope!Empty
  <2>4. /\ pFrequency \in ScopeTunings /\ pPass \in ScopePassbands
        /\ pNotchFilterIndex \in 0 .. ScopeSlots
        /\ pButton \in {-1, 1, 2} /\ pPicked \in Scope!SlotIds \cup {-1}
    BY DEF Scope!Init, Undisturbed
  <2>5. /\ pTimer \in BOOLEAN /\ pHeld \in BOOLEAN /\ pMoved \in BOOLEAN /\ pChecked \in BOOLEAN
        /\ pFilterSelected \in BOOLEAN /\ pSettingSquelch \in BOOLEAN /\ pSplitting \in BOOLEAN
    BY DEF Scope!Init
  <2>6. ScopeTypes
    BY <2>1, <2>2, <2>3, <2>4, <2>5, Zenon DEF ScopeTypes
  <2> QED BY <2>1, <2>6 DEF ScopeInv, Scope!InBand, Scope!Empty, Undisturbed
<1>2. ScopeInv /\ [Scope!Next]_(Scope!vars) => ScopeInv'
  <2> SUFFICES ASSUME ScopeInv, [Scope!Next]_(Scope!vars) PROVE ScopeInv'
    OBVIOUS
  <2>1. ASSUME UNCHANGED Scope!vars PROVE ScopeInv'
    BY <2>1 DEF ScopeInv, ScopeTypes, Scope!vars, Scope!view, Scope!mouse, Scope!InBand
  <2> QED BY <2>1, ScopeTunes, ScopeAdds, ScopePresses, NotchDrags, ScopeReleases DEF Scope!Next
<1>3. ScopeInv => ItemsMatch
  <2> SUFFICES ASSUME ScopeInv PROVE ItemsMatch
    OBVIOUS
  <2>1. ScopeTypes /\ pDrawn \subseteq Scope!SlotIds
    BY DEF ScopeInv, Scope!InBand
  <2>2. pDsp.run \in BOOLEAN /\ pDsp.notches \in Seq([fo : Int, bw : Nat])
    BY <2>1 DEF ScopeTypes, Notches
  <2>3. Scope!TypeOK
    BY <2>1, <2>2 DEF ScopeTypes, Scope!TypeOK
  <2> QED BY <2>3 DEF ScopeInv, Scope!ItemsMatch, ItemsMatch
<1> QED BY <1>1, <1>2, <1>3, PTL DEF Scope!Spec

----------------------------------------------------------------------------
(* The reader of a connection *)

Bounds == StreamsMaxFrames \in Nat /\ StreamsMaxTries \in Nat

Piece == [frame : 1 .. StreamsMaxFrames, at : 1 .. 4]

FrameTypes == {"manifest", "info", "block", "refused", "empty"}

FlagTypes ==
  /\ sKind \in StreamsKinds /\ sUp \in BOOLEAN /\ sTries \in 0 .. StreamsMaxTries
  /\ sOpen \in BOOLEAN
  /\ sSignal \in BOOLEAN /\ sLate \in BOOLEAN /\ sMixed \in BOOLEAN /\ sChannels \in 0 .. 1

SocketTypes ==
  /\ sFrames \in Seq(FrameTypes) /\ Len(sFrames) <= StreamsMaxFrames
  /\ sNet \in Seq(Piece) /\ sBuffer \in Seq(Piece)
  /\ Len(sBuffer) + Len(sNet) <= 4 * Len(sFrames)

ReaderTypes ==
  /\ sPc \in {"idle", "read", "dialog"} /\ sState \in {"header", "body"}
  /\ sTodo \in Int /\ sTodo <= 4 * StreamsMaxFrames
  /\ sBytes \in 0 .. 2 /\ sHeader \in 0 .. StreamsMaxFrames /\ sOut \in Seq(0 .. StreamsMaxFrames)
  /\ sState = "body" => sLength = 2 /\ sBytes < 2

StreamTypes == FlagTypes /\ SocketTypes /\ ReaderTypes

\* The reader knows of all that has come, but for what came during the dialog.
Informed ==
  /\ sPc # "idle" /\ sOpen => sTodo = Len(sBuffer) \/ sLate
  /\ sPc = "idle" /\ sOpen /\ ~sSignal => sBuffer = <<>> \/ sLate
  /\ sPc # "idle" => ~sSignal

Whole == \A n \in DOMAIN sFrames : sFrames[n] \notin {"refused", "empty"}

\* How much of what was sent the reader has taken.
Taken == 4 * Len(sOut) + (IF sState = "body" THEN 2 ELSE 0) + sBytes

\* Which unit of all that was sent a unit is.
Place(frame, at) == 4 * (frame - 1) + at
Nth(unit) == Place(unit.frame, unit.at)

\* The reader stands where the units in Qt's buffer, and after them those under way,
\* continue what it has read of the frame.
InPlace ==
  /\ ~sMixed /\ sOut = [k \in 1 .. Len(sOut) |-> k]
  /\ sBytes < 2 /\ (sState = "body" \/ sBytes > 0 => sHeader = Len(sOut) + 1)
  /\ sOpen =>
       /\ Taken + Len(sBuffer) + Len(sNet) = 4 * Len(sFrames)
       /\ \A k \in DOMAIN sBuffer : Nth(sBuffer[k]) = Taken + k
       /\ \A k \in DOMAIN sNet : Nth(sNet[k]) = Taken + Len(sBuffer) + k

StreamInv == StreamTypes /\ Informed /\ (Whole => InPlace)

\* A connection begins, ends, or loses what was under way.
LEMMA StreamConnects ==
  ASSUME Bounds, StreamInv, Streams!Connect \/ Streams!Disconnect
  PROVE  StreamInv'
<1>0. StreamTypes /\ Informed /\ <<>> \in Seq(Piece) /\ Len(<<>>) = 0
  BY DEF StreamInv
<1>1. CASE Streams!Connect
  <2>1. /\ sTries' = sTries + 1 /\ sTries < StreamsMaxTries /\ sOpen' = TRUE
        /\ sNet' = <<>> /\ sBuffer' = <<>> /\ sSignal' = FALSE /\ sFrames' = <<>>
        /\ sPc' = "idle" /\ sTodo' = 0 /\ sOut' = <<>> /\ sLate' = FALSE
        /\ sState' = "header" /\ sBytes' = 0 /\ sHeader' = 0 /\ sMixed' = FALSE
        /\ UNCHANGED <<sKind, sUp, sLength, sChannels>>
    BY <1>1 DEF Streams!Connect, Streams!Fresh
  <2>2. <<>> \in Seq(FrameTypes) /\ <<>> \in Seq(0 .. StreamsMaxFrames)
    OBVIOUS
  <2>3. StreamTypes'
    <3>1. FlagTypes'
      <4>1. sTries' \in 0 .. StreamsMaxTries
        BY <1>0, <2>1 DEF StreamTypes, FlagTypes, Bounds
      <4>2. sKind' \in StreamsKinds /\ sUp' \in BOOLEAN /\ sChannels' \in 0 .. 1
        BY <1>0, <2>1 DEF StreamTypes, FlagTypes
      <4>3. sOpen' \in BOOLEAN /\ sSignal' \in BOOLEAN /\ sLate' \in BOOLEAN /\ sMixed' \in BOOLEAN
        BY <2>1
      <4> QED BY <4>1, <4>2, <4>3 DEF FlagTypes
    <3>2. SocketTypes'
      BY <1>0, <2>1, <2>2 DEF SocketTypes, Bounds
    <3>3. ReaderTypes'
      BY <1>0, <2>1, <2>2 DEF ReaderTypes, Bounds
    <3> QED BY <3>1, <3>2, <3>3 DEF StreamTypes
  <2>4. Informed'
    BY <2>1 DEF Informed
  <2>5. InPlace'
    BY <1>0, <2>1 DEF InPlace, Taken
  <2> QED BY <2>3, <2>4, <2>5 DEF StreamInv
<1>2. CASE Streams!Disconnect
  <2>1. /\ sOpen' = FALSE /\ sNet' = <<>> /\ sSignal' = FALSE
        /\ UNCHANGED <<sKind, sUp, sTries, sFrames, sBuffer, sPc, sTodo, sState, sBytes, sLength,
                       sHeader, sMixed, sOut, sLate, sChannels>>
    BY <1>2 DEF Streams!Disconnect, Streams!readerVars
  <2>2. StreamTypes'
    <3>1. FlagTypes'
      BY <1>0, <2>1 DEF StreamTypes, FlagTypes
    <3>2. SocketTypes'
      BY <1>0, <2>1 DEF StreamTypes, SocketTypes
    <3>3. ReaderTypes'
      BY <1>0, <2>1 DEF StreamTypes, ReaderTypes
    <3> QED BY <3>1, <3>2, <3>3 DEF StreamTypes
  <2>3. Informed'
    BY <2>1 DEF Informed
  <2>4. Whole' => InPlace'
    BY <2>1 DEF StreamInv, Whole, InPlace, Taken
  <2> QED BY <2>2, <2>3, <2>4 DEF StreamInv
<1> QED BY <1>1, <1>2

\* Two sequences one after the other.
LEMMA Joined ==
  ASSUME NEW S, NEW s \in Seq(S), NEW t \in Seq(S)
  PROVE  /\ s \o t \in Seq(S) /\ Len(s \o t) = Len(s) + Len(t)
         /\ \A q \in 1 .. Len(s) + Len(t) :
              /\ q <= Len(s) => (s \o t)[q] = s[q]
              /\ q > Len(s) => (s \o t)[q] = t[q - Len(s)] /\ q - Len(s) \in 1 .. Len(t)
OBVIOUS

\* A frame is sent.
LEMMA StreamSends ==
  ASSUME Bounds, StreamInv, NEW type \in Streams!Types(sKind), Streams!Send(type)
  PROVE  StreamInv'
<1> DEFINE m == Len(sFrames) + 1
           k == IF type = "empty" THEN 2 ELSE 4
           more == Streams!Units(m, type)
<1>0. FlagTypes /\ SocketTypes /\ ReaderTypes /\ Informed
  BY DEF StreamInv, StreamTypes
<1>1. type \in FrameTypes
  BY DEF Streams!Types, FrameTypes
<1>2. /\ sOpen /\ Len(sFrames) < StreamsMaxFrames /\ sFrames' = Append(sFrames, type)
      /\ sNet' = sNet \o Streams!Units(Len(sFrames'), type)
      /\ UNCHANGED <<sKind, sUp, sTries, sOpen, sBuffer, sSignal, sPc, sTodo, sState, sBytes,
                     sLength, sHeader, sMixed, sOut, sLate, sChannels>>
  BY DEF Streams!Send, Streams!readerVars
<1>3. /\ sFrames' \in Seq(FrameTypes) /\ Len(sFrames') = m /\ m \in 1 .. StreamsMaxFrames
      /\ Len(sFrames) \in Nat /\ sFrames'[m] = type
      /\ \A n \in 1 .. Len(sFrames) : sFrames'[n] = sFrames[n]
  BY <1>0, <1>1, <1>2 DEF SocketTypes, Bounds
<1>4. more = [q \in 1 .. k |-> [frame |-> m, at |-> q]]
  BY DEF Streams!Units, Streams!HeaderSize, Streams!WholeSize, Streams!BodySize
<1>5. more \in Seq(Piece) /\ Len(more) = k /\ k \in 1 .. 4
  <2>1. \A q \in 1 .. k : [frame |-> m, at |-> q] \in Piece
    BY <1>3 DEF Piece
  <2> QED BY <1>4, <2>1
<1>6. sNet' = sNet \o more
  BY <1>2, <1>3
<1>11. type \notin {"refused", "empty"} => k = 4
  OBVIOUS
<1> HIDE DEF more, k
<1>7. /\ sNet' \in Seq(Piece) /\ Len(sNet') = Len(sNet) + k
      /\ Len(sNet) \in Nat /\ Len(sBuffer) \in Nat
  BY <1>0, <1>5, <1>6 DEF SocketTypes
<1>8. StreamTypes'
  <2>1. FlagTypes'
    BY <1>0, <1>2 DEF FlagTypes
  <2>2. SocketTypes'
    BY <1>0, <1>2, <1>3, <1>5, <1>7 DEF SocketTypes
  <2>3. ReaderTypes'
    BY <1>0, <1>2 DEF ReaderTypes
  <2> QED BY <2>1, <2>2, <2>3 DEF StreamTypes
<1>9. Informed'
  BY <1>0, <1>2 DEF Informed
<1>10. ASSUME Whole' PROVE InPlace'
  <2>1. Whole /\ type \notin {"refused", "empty"}
    <3>1. DOMAIN sFrames = 1 .. Len(sFrames) /\ DOMAIN sFrames' = 1 .. Len(sFrames) + 1
      BY <1>0, <1>3 DEF SocketTypes
    <3>2. \A n \in 1 .. Len(sFrames) + 1 : sFrames'[n] \notin {"refused", "empty"}
      BY <1>10, <3>1 DEF Whole
    <3> QED BY <1>3, <3>1, <3>2 DEF Whole
  <2>2. k = 4 /\ InPlace
    BY <1>11, <2>1 DEF StreamInv
  <2>3. Taken' = Taken /\ Taken \in Int
    BY <1>0, <1>2 DEF Taken, ReaderTypes
  <2>4. Taken + Len(sBuffer) + Len(sNet) = 4 * Len(sFrames)
    BY <1>2, <2>2 DEF InPlace
  <2>5. ASSUME NEW q \in DOMAIN sNet' PROVE Nth(sNet'[q]) = Taken + Len(sBuffer) + q
    <3>0. q \in 1 .. Len(sNet) + 4 /\ Len(sNet) \in Nat /\ Len(sBuffer) \in Nat
      BY <1>0, <1>7, <2>2 DEF SocketTypes
    <3>1. CASE q <= Len(sNet)
      <4>1. sNet'[q] = sNet[q] /\ q \in DOMAIN sNet
        BY <1>0, <1>5, <1>6, <3>0, <3>1 DEF SocketTypes
      <4> QED BY <1>2, <2>2, <4>1 DEF InPlace
    <3>2. CASE q > Len(sNet)
      <4>1. sNet'[q] = more[q - Len(sNet)] /\ q - Len(sNet) \in 1 .. 4
        <5>1. sNet \in Seq(Piece) /\ Len(more) = 4
          BY <1>0, <1>5, <2>2 DEF SocketTypes
        <5> QED BY <1>5, <1>6, <3>0, <3>2, <5>1, Joined
      <4>2. Nth(sNet'[q]) = 4 * (m - 1) + (q - Len(sNet))
        BY <1>4, <2>2, <4>1 DEF Nth, Place
      <4> QED BY <1>3, <2>3, <2>4, <3>0, <4>2
    <3> QED BY <3>0, <3>1, <3>2
  <2>6. Taken' + Len(sBuffer') + Len(sNet') = 4 * Len(sFrames')
    <3>1. /\ Len(sNet') = Len(sNet) + 4 /\ Len(sFrames') = Len(sFrames) + 1 /\ Len(sFrames) \in Nat
          /\ Len(sNet) \in Nat /\ Len(sBuffer) \in Nat /\ sBuffer' = sBuffer
      BY <1>2, <1>3, <1>7, <2>2
    <3> QED BY ONLY <2>3, <2>4, <3>1
  <2> QED BY <1>2, <2>2, <2>3, <2>5, <2>6 DEF InPlace
<1> QED BY <1>8, <1>9, <1>10 DEF StreamInv

\* The front of a sequence, and the rest of it.
LEMMA Parted ==
  ASSUME NEW S, NEW s \in Seq(S), NEW n \in 0 .. Len(s)
  PROVE  /\ SubSeq(s, 1, n) \in Seq(S) /\ Len(SubSeq(s, 1, n)) = n
         /\ \A q \in 1 .. n : SubSeq(s, 1, n)[q] = s[q]
         /\ SubSeq(s, n + 1, Len(s)) \in Seq(S)
         /\ Len(SubSeq(s, n + 1, Len(s))) = Len(s) - n
         /\ \A q \in 1 .. Len(s) - n : SubSeq(s, n + 1, Len(s))[q] = s[n + q]
OBVIOUS

\* Qt receives some of what is under way.
LEMMA StreamArrives ==
  ASSUME Bounds, StreamInv, NEW n \in Nat, Streams!Arrive(n)
  PROVE  StreamInv'
<1> DEFINE come == SubSeq(sNet, 1, n)
           rest == SubSeq(sNet, n + 1, Len(sNet))
<1>0. FlagTypes /\ SocketTypes /\ ReaderTypes /\ Informed
  BY DEF StreamInv, StreamTypes
<1>1. /\ sOpen /\ sPc # "read" /\ n \in 1 .. Len(sNet)
      /\ sBuffer' = sBuffer \o come /\ sNet' = rest
      /\ UNCHANGED <<sKind, sUp, sTries, sOpen, sFrames, sPc, sTodo, sState, sBytes, sLength,
                     sHeader, sMixed, sOut, sChannels>>
  BY DEF Streams!Arrive, Streams!readerVars
<1>2. sSignal' = (sPc = "idle") /\ sLate' = (sPc = "dialog")
  BY DEF Streams!Arrive
<1>3. /\ sNet \in Seq(Piece) /\ sBuffer \in Seq(Piece) /\ Len(sNet) \in Nat /\ Len(sBuffer) \in Nat
      /\ Len(sFrames) \in Nat
  BY <1>0 DEF SocketTypes
<1>4. /\ come \in Seq(Piece) /\ Len(come) = n /\ \A q \in 1 .. n : come[q] = sNet[q]
      /\ rest \in Seq(Piece) /\ Len(rest) = Len(sNet) - n
      /\ \A q \in 1 .. Len(sNet) - n : rest[q] = sNet[n + q]
  <2>1. n \in 0 .. Len(sNet)
    BY <1>1, <1>3
  <2> QED BY ONLY <1>3, <2>1, Parted, Zenon, SMTT(30)
<1> HIDE DEF come, rest
<1>5. /\ sBuffer' \in Seq(Piece) /\ Len(sBuffer') = Len(sBuffer) + n
      /\ sNet' \in Seq(Piece) /\ Len(sNet') = Len(sNet) - n
      /\ n \in 1 .. Len(sNet)
  <2>1. sBuffer \o come \in Seq(Piece) /\ Len(sBuffer \o come) = Len(sBuffer) + Len(come)
    BY <1>3, <1>4, Joined
  <2> QED BY <1>1, <1>4, <2>1
<1>6. StreamTypes'
  <2>1. FlagTypes'
    BY <1>0, <1>1, <1>2 DEF FlagTypes
  <2>2. SocketTypes'
    BY <1>0, <1>1, <1>3, <1>5 DEF SocketTypes
  <2>3. ReaderTypes'
    BY <1>0, <1>1 DEF ReaderTypes
  <2> QED BY <2>1, <2>2, <2>3 DEF StreamTypes
<1>7. Informed'
  BY <1>0, <1>1, <1>2 DEF Informed, ReaderTypes
<1>8. ASSUME Whole' PROVE InPlace'
  <2>1. InPlace /\ Taken' = Taken /\ Taken \in Int
    BY <1>0, <1>1, <1>8 DEF StreamInv, Whole, Taken, ReaderTypes
  <2>2. /\ Taken + Len(sBuffer) + Len(sNet) = 4 * Len(sFrames)
        /\ \A k \in 1 .. Len(sBuffer) : Nth(sBuffer[k]) = Taken + k
        /\ \A k \in 1 .. Len(sNet) : Nth(sNet[k]) = Taken + Len(sBuffer) + k
    <3>1. DOMAIN sBuffer = 1 .. Len(sBuffer) /\ DOMAIN sNet = 1 .. Len(sNet)
      BY <1>3
    <3> QED BY <1>1, <2>1, <3>1, Zenon DEF InPlace
  <2>3. Taken + Len(sBuffer') + Len(sNet') = 4 * Len(sFrames)
    BY ONLY <1>3, <1>5, <2>1, <2>2, SMTT(30)
  <2>4. ASSUME NEW q \in 1 .. Len(sBuffer) + n PROVE Nth(sBuffer'[q]) = Taken + q
    <3>1. CASE q <= Len(sBuffer)
      <4>1. sBuffer'[q] = sBuffer[q] /\ q \in 1 .. Len(sBuffer)
        BY <1>1, <1>3, <1>4, <3>1, Joined
      <4> QED BY <2>2, <4>1
    <3>2. CASE q > Len(sBuffer)
      <4>1. sBuffer'[q] = come[q - Len(sBuffer)] /\ q - Len(sBuffer) \in 1 .. n
        BY <1>1, <1>3, <1>4, <3>2, Joined
      <4>2. sBuffer'[q] = sNet[q - Len(sBuffer)] /\ q - Len(sBuffer) \in 1 .. Len(sNet)
        BY <1>1, <1>3, <1>4, <4>1
      <4>3. Nth(sBuffer'[q]) = Taken + Len(sBuffer) + (q - Len(sBuffer))
        BY <2>2, <4>2
      <4> QED BY ONLY <1>3, <2>1, <4>3, q \in 1 .. Len(sBuffer) + n, n \in Nat
    <3>3. q \in Nat /\ Len(sBuffer) \in Nat
      BY <1>3
    <3> QED BY <3>1, <3>2, <3>3
  <2>5. ASSUME NEW q \in 1 .. Len(sNet) - n PROVE Nth(sNet'[q]) = Taken + Len(sBuffer') + q
    <3>1. sNet'[q] = sNet[n + q] /\ n + q \in 1 .. Len(sNet)
      BY <1>1, <1>3, <1>4
    <3>2. Nth(sNet'[q]) = Taken + Len(sBuffer) + (n + q)
      BY <2>2, <3>1
    <3> QED BY ONLY <1>3, <1>5, <2>1, <3>2, q \in 1 .. Len(sNet) - n, n \in Nat
  <2>6. DOMAIN sBuffer' = 1 .. Len(sBuffer) + n /\ DOMAIN sNet' = 1 .. Len(sNet) - n
    BY <1>5
  <2> QED BY <1>1, <2>1, <2>3, <2>4, <2>5, <2>6 DEF InPlace
<1> QED BY <1>6, <1>7, <1>8 DEF StreamInv

\* The reader is called, goes on after the dialog, or leaves.
LEMMA StreamCalls ==
  ASSUME Bounds, StreamInv,
         \/ Streams!Enter \/ Streams!DialogEnd \/ Streams!Leave \/ UNCHANGED Streams!vars
  PROVE  StreamInv'
<1> USE DEF Streams!vars, Streams!socketVars, Streams!readerVars
<1>0. FlagTypes /\ SocketTypes /\ ReaderTypes /\ Informed
  BY DEF StreamInv, StreamTypes
<1>1. UNCHANGED <<sKind, sUp, sTries, sOpen, sFrames, sNet, sBuffer, sState, sBytes, sLength,
                  sHeader, sMixed, sOut, sLate, sChannels>>
  BY DEF Streams!Enter, Streams!DialogEnd, Streams!Leave
<1>2. /\ sSignal' = FALSE \/ sSignal' = sSignal
      /\ sPc' \in {"idle", "read", "dialog"} /\ (sTodo' = sTodo \/ sTodo' = Len(sBuffer))
  BY <1>0 DEF Streams!Enter, Streams!DialogEnd, Streams!Leave, ReaderTypes
<1>3. StreamTypes'
  <2>1. FlagTypes'
    BY <1>0, <1>1, <1>2 DEF FlagTypes
  <2>2. SocketTypes'
    BY <1>0, <1>1 DEF SocketTypes
  <2>3. ReaderTypes'
    BY <1>0, <1>1, <1>2 DEF ReaderTypes, SocketTypes, Bounds
  <2> QED BY <2>1, <2>2, <2>3 DEF StreamTypes
<1>4. Informed'
  <2>1. CASE Streams!Enter
    BY <1>0, <1>1, <2>1 DEF Streams!Enter, Informed
  <2>2. CASE Streams!DialogEnd
    BY <1>0, <1>1, <2>2 DEF Streams!DialogEnd, Informed
  <2>3. CASE Streams!Leave
    <3>1. /\ sPc = "read" /\ (sTodo <= 0 \/ ~sOpen) /\ sPc' = "idle" /\ sSignal' = sSignal
      BY <2>3 DEF Streams!Leave
    <3>2. sTodo <= 0 /\ sTodo = Len(sBuffer) => sBuffer = <<>>
      BY <1>0 DEF SocketTypes
    <3> QED BY <1>0, <1>1, <3>1, <3>2 DEF Informed
  <2>4. CASE UNCHANGED Streams!vars
    BY <1>0, <2>4 DEF Informed
  <2> QED BY <2>1, <2>2, <2>3, <2>4
<1>5. Whole' => InPlace'
  BY <1>1 DEF StreamInv, Whole, InPlace, Taken, Nth
<1> QED BY <1>3, <1>4, <1>5 DEF StreamInv

\* A read of some units: what it leaves in the buffer, and in place what it finds.
LEMMA StreamTakes ==
  ASSUME Bounds, StreamTypes, NEW n \in 0 .. Len(sBuffer),
         sBuffer' = SubSeq(sBuffer, n + 1, Len(sBuffer)), sNet' = sNet, sFrames' = sFrames
  PROVE  /\ SocketTypes' /\ Len(sBuffer') = Len(sBuffer) - n
         /\ \A k \in 1 .. n : SubSeq(sBuffer, 1, n)[k] = sBuffer[k] /\ sBuffer[k] \in Piece
         /\ Len(SubSeq(sBuffer, 1, n)) = n /\ SubSeq(sBuffer, 1, n) \in Seq(Piece)
         /\ InPlace /\ sOpen =>
              /\ \A k \in 1 .. n : Nth(sBuffer[k]) = Taken + k
              /\ 4 * Len(sFrames) >= Taken + n
              /\ Taken' = Taken + n =>
                   /\ Taken' + Len(sBuffer') + Len(sNet') = 4 * Len(sFrames')
                   /\ \A k \in DOMAIN sBuffer' : Nth(sBuffer'[k]) = Taken' + k
                   /\ \A k \in DOMAIN sNet' : Nth(sNet'[k]) = Taken' + Len(sBuffer') + k
<1> DEFINE rest == SubSeq(sBuffer, n + 1, Len(sBuffer))
<1>1. /\ sNet \in Seq(Piece) /\ sBuffer \in Seq(Piece) /\ Len(sNet) \in Nat /\ Len(sBuffer) \in Nat
      /\ Len(sFrames) \in Nat
  BY DEF StreamTypes, SocketTypes
<1>2. /\ SubSeq(sBuffer, 1, n) \in Seq(Piece) /\ Len(SubSeq(sBuffer, 1, n)) = n
      /\ \A k \in 1 .. n : SubSeq(sBuffer, 1, n)[k] = sBuffer[k]
      /\ rest \in Seq(Piece) /\ Len(rest) = Len(sBuffer) - n
      /\ \A k \in 1 .. Len(sBuffer) - n : rest[k] = sBuffer[n + k]
  BY <1>1, Parted, SMTT(30)
<1> HIDE DEF rest
<1>3. sBuffer' = rest
  BY DEF rest
<1>4. SocketTypes'
  <2>1. sBuffer' \in Seq(Piece) /\ Len(sBuffer') = Len(sBuffer) - n
    BY <1>2, <1>3
  <2>2. Len(sBuffer) + Len(sNet) <= 4 * Len(sFrames)
    BY DEF StreamTypes, SocketTypes
  <2>3. Len(sBuffer') + Len(sNet) <= 4 * Len(sFrames)
    BY ONLY <1>1, <2>1, <2>2, n \in 0 .. Len(sBuffer)
  <2> QED BY <2>1, <2>3 DEF StreamTypes, SocketTypes
<1>5. ASSUME NEW k \in 1 .. n PROVE sBuffer[k] \in Piece /\ k \in DOMAIN sBuffer
  BY <1>1
<1>6. ASSUME InPlace, sOpen
      PROVE  /\ \A k \in 1 .. n : Nth(sBuffer[k]) = Taken + k
             /\ 4 * Len(sFrames) >= Taken + n
             /\ Taken' = Taken + n =>
                  /\ Taken' + Len(sBuffer') + Len(sNet') = 4 * Len(sFrames')
                  /\ \A k \in DOMAIN sBuffer' : Nth(sBuffer'[k]) = Taken' + k
                  /\ \A k \in DOMAIN sNet' : Nth(sNet'[k]) = Taken' + Len(sBuffer') + k
  <2>1. /\ Taken + Len(sBuffer) + Len(sNet) = 4 * Len(sFrames)
        /\ \A k \in DOMAIN sBuffer : Nth(sBuffer[k]) = Taken + k
        /\ \A k \in DOMAIN sNet : Nth(sNet[k]) = Taken + Len(sBuffer) + k
    BY <1>6, Zenon DEF InPlace
  <2>2. Taken \in Int
    BY DEF Taken, StreamTypes, ReaderTypes
  <2>3. \A k \in 1 .. n : Nth(sBuffer[k]) = Taken + k
    BY <1>5, <2>1
  <2>4. 4 * Len(sFrames) >= Taken + n
    BY ONLY <1>1, <2>1, <2>2, n \in 0 .. Len(sBuffer)
  <2>5. ASSUME Taken' = Taken + n, NEW k \in DOMAIN sBuffer' PROVE Nth(sBuffer'[k]) = Taken' + k
    <3>1. k \in 1 .. Len(sBuffer) - n
      BY <1>2, <1>3
    <3>2. sBuffer'[k] = sBuffer[n + k] /\ n + k \in DOMAIN sBuffer
      BY <1>1, <1>2, <1>3, <3>1
    <3>3. Nth(sBuffer'[k]) = Taken + (n + k)
      BY <2>1, <3>2
    <3> QED BY ONLY <2>2, <2>5, <3>1, <3>3, n \in 0 .. Len(sBuffer), <1>1
  <2>6. ASSUME Taken' = Taken + n
        PROVE  Taken' + Len(sBuffer') = Taken + Len(sBuffer)
    <3>1. Len(sBuffer') = Len(sBuffer) - n
      BY <1>2, <1>3
    <3> QED BY ONLY <1>1, <2>2, <2>6, <3>1, n \in 0 .. Len(sBuffer)
  <2>7. sNet' = sNet /\ sFrames' = sFrames
    OBVIOUS
  <2> QED BY <2>1, <2>3, <2>4, <2>5, <2>6, <2>7, Zenon
<1> QED BY <1>2, <1>3, <1>4, <1>5, <1>6 DEF rest

\* What is next in place belongs to the frame being read.
LEMMA Follows ==
  ASSUME NEW u \in Piece, NEW f \in Int, NEW p \in 1 .. 4, Nth(u) = Place(f, p)
  PROVE  u = [frame |-> f, at |-> p]
<1>1. u.frame = f /\ u.at = p
  BY DEF Piece, Nth, Place
<1>2. u = [frame |-> u.frame, at |-> u.at]
  BY DEF Piece
<1> QED BY <1>1, <1>2

\* A header in pieces.
LEMMA StreamHeader ==
  ASSUME Bounds, StreamInv, Streams!ReadHeader
  PROVE  StreamInv'
<1>0. FlagTypes /\ SocketTypes /\ ReaderTypes /\ Informed /\ StreamTypes
  BY DEF StreamInv, StreamTypes
<1>1. PICK n : n = Streams!Read(2 - sBytes)
  OBVIOUS
<1>2. n \in 0 .. Len(sBuffer) /\ n <= 2 - sBytes /\ n \in Nat /\ Len(sBuffer) \in Nat
  BY <1>0, <1>1 DEF Streams!Read, SocketTypes, ReaderTypes
<1>3. PICK units : units = SubSeq(sBuffer, 1, n)
  OBVIOUS
<1>4. PICK frame : frame = IF sBytes = 0 /\ n > 0 THEN units[1].frame ELSE sHeader
  OBVIOUS
<1>5. /\ sPc = "read" /\ sTodo > 0 /\ sState = "header" /\ sOpen
      /\ sBuffer' = SubSeq(sBuffer, n + 1, Len(sBuffer)) /\ sTodo' = sTodo - n
      /\ sMixed' = (sMixed \/ Streams!Strays(units, frame, sBytes)) /\ sHeader' = frame
      /\ UNCHANGED <<sKind, sTries, sOpen, sFrames, sNet, sSignal, sPc, sOut, sLate, sChannels>>
  BY <1>1, <1>3, <1>4 DEF Streams!ReadHeader, Streams!HeaderSize
<1>6. \/ sBytes + n < 2 /\ sBytes' = sBytes + n /\ UNCHANGED <<sState, sLength, sUp>>
      \/ /\ ~(sBytes + n < 2) /\ Streams!Type(frame) \in {"refused", "empty"}
         /\ sBytes' \in {0, 2} /\ sUp' \in BOOLEAN /\ UNCHANGED <<sState, sLength>>
      \/ /\ ~(sBytes + n < 2) /\ Streams!Type(frame) \notin {"refused", "empty"}
         /\ sBytes' = 0 /\ sState' = "body" /\ sLength' = 2 /\ UNCHANGED sUp
  <2>1. IF sBytes + n < 2
        THEN sBytes' = sBytes + n /\ UNCHANGED <<sState, sLength, sUp>>
        ELSE CASE Streams!Type(frame) = "refused" -> sBytes' = 0 /\ UNCHANGED <<sState, sLength,
                                                                                sUp>>
               [] Streams!Type(frame) = "empty" /\ sKind = "server" ->
                    sBytes' = 2 /\ sUp' = (sTodo' = 0) /\ UNCHANGED <<sState, sLength>>
               [] Streams!Type(frame) = "empty" /\ sKind # "server" ->
                    sBytes' = 0 /\ UNCHANGED <<sState, sLength, sUp>>
               [] OTHER -> sBytes' = 0 /\ sState' = "body" /\ sLength' = 2 /\ UNCHANGED sUp
    BY <1>1, <1>3, <1>4 DEF Streams!ReadHeader, Streams!HeaderSize, Streams!BodySize
  <2>2. sUp \in BOOLEAN /\ (sTodo' = 0) \in BOOLEAN
    BY <1>0 DEF FlagTypes
  <2> QED BY ONLY <2>1, <2>2
<1>7. /\ SocketTypes' /\ Len(sBuffer') = Len(sBuffer) - n
      /\ \A k \in 1 .. n : units[k] = sBuffer[k] /\ sBuffer[k] \in Piece
      /\ Len(units) = n /\ units \in Seq(Piece)
  BY <1>0, <1>2, <1>3, <1>5, StreamTakes
<1>8. frame \in 0 .. StreamsMaxFrames
  <2>1. n > 0 => units[1].frame \in 0 .. StreamsMaxFrames
    BY <1>2, <1>7 DEF Piece, Bounds
  <2> QED BY <1>0, <1>4, <2>1 DEF ReaderTypes
<1>9. StreamTypes'
  <2>1. FlagTypes'
    <3>1. sMixed' \in BOOLEAN
      BY <1>5
    <3>2. sUp' \in BOOLEAN
      BY <1>0, <1>6 DEF FlagTypes
    <3> QED BY <1>0, <1>5, <3>1, <3>2 DEF FlagTypes
  <2>2. ReaderTypes'
    <3>1. /\ sBytes' \in 0 .. 2 /\ sState' \in {"header", "body"}
          /\ (sState' = "body" => sLength' = 2 /\ sBytes' < 2)
      BY <1>0, <1>2, <1>5, <1>6 DEF ReaderTypes
    <3>2. sTodo' \in Int /\ sTodo' <= 4 * StreamsMaxFrames
      BY <1>0, <1>2, <1>5 DEF ReaderTypes, Bounds
    <3> QED BY <1>0, <1>5, <1>8, <3>1, <3>2 DEF ReaderTypes
  <2> QED BY <1>7, <2>1, <2>2 DEF StreamTypes
<1>10. Informed'
  BY <1>0, <1>2, <1>5, <1>7 DEF Informed, ReaderTypes
<1>11. ASSUME Whole' PROVE InPlace'
  <2>1. InPlace /\ Whole
    BY <1>5, <1>11 DEF StreamInv, Whole
  <2>2. /\ Taken = 4 * Len(sOut) + sBytes /\ sBytes \in Nat /\ Len(sOut) \in Nat
        /\ Len(sFrames) \in Nat
    BY <1>0, <1>5 DEF Taken, ReaderTypes, SocketTypes
  <2>3. \A k \in 1 .. n : Nth(units[k]) = Taken + k /\ units[k] \in Piece
    BY <1>0, <1>2, <1>5, <1>7, <2>1, StreamTakes
  <2>4. n > 0 \/ sBytes > 0 => frame = Len(sOut) + 1
    <3>1. CASE sBytes > 0
      BY <1>4, <2>1, <3>1 DEF InPlace
    <3>2. CASE sBytes = 0 /\ n > 0
      <4>1. units[1] \in Piece /\ Nth(units[1]) = Place(Len(sOut) + 1, 1)
        BY <1>2, <2>2, <2>3, <3>2 DEF Place
      <4>2. units[1] = [frame |-> Len(sOut) + 1, at |-> 1]
        <5>1. Len(sOut) + 1 \in Int /\ 1 \in 1 .. 4
          BY <2>2
        <5> QED BY <4>1, <5>1, Follows, Zenon
      <4> QED BY <1>4, <3>2, <4>2
    <3> QED BY <2>2, <3>1, <3>2
  <2>5. ~Streams!Strays(units, frame, sBytes)
    <3> SUFFICES ASSUME NEW k \in DOMAIN units PROVE units[k] = [frame |-> frame, at |-> sBytes + k]
      BY DEF Streams!Strays
    <3>1. k \in 1 .. n
      BY <1>7
    <3>2. sBytes + k \in 1 .. 4
      BY <1>2, <2>2, <3>1
    <3>3. frame = Len(sOut) + 1 /\ frame \in Int
      BY <1>2, <1>8, <2>4, <3>1
    <3>4. Nth(units[k]) = Taken + k /\ units[k] \in Piece
      BY <2>3, <3>1
    <3>5. Place(frame, sBytes + k) = Taken + k
      <4>1. Place(frame, sBytes + k) = 4 * (frame - 1) + (sBytes + k)
        BY DEF Place
      <4>2. k \in Nat /\ sBytes \in Nat /\ Len(sOut) \in Nat /\ Taken = 4 * Len(sOut) + sBytes
        BY <1>2, <2>2, <3>1
      <4> QED BY ONLY <3>3, <4>1, <4>2
    <3> QED BY <3>2, <3>3, <3>4, <3>5, Follows, Zenon
  <2>6. /\ sBytes' < 2 /\ Taken' = Taken + n
        /\ sState' = "body" \/ sBytes' > 0 => sHeader' = Len(sOut) + 1
    <3>1. CASE sBytes + n < 2
      <4>1. sBytes' = sBytes + n /\ sState' = "header" /\ sOut' = sOut
        BY <1>5, <1>6, <3>1
      <4> QED BY <1>2, <1>5, <2>2, <2>4, <3>1, <4>1 DEF Taken
    <3>2. CASE ~(sBytes + n < 2)
      <4>1. sBytes + n = 2 /\ frame = Len(sOut) + 1
        BY <1>2, <2>1, <2>2, <2>4, <3>2 DEF InPlace
      <4>2. 4 * Len(sFrames) >= Taken + n
        BY <1>0, <1>2, <1>5, <2>1, StreamTakes
      <4>3. frame \in 1 .. Len(sFrames)
        BY ONLY <1>2, <2>2, <4>1, <4>2
      <4>4. sFrames[frame] \notin {"refused", "empty"} /\ frame # 0
        <5>1. DOMAIN sFrames = 1 .. Len(sFrames)
          BY <1>0 DEF SocketTypes
        <5> QED BY <2>1, <4>3, <5>1 DEF Whole
      <4>5. Streams!Type(frame) \notin {"refused", "empty"}
        BY <4>4 DEF Streams!Type
      <4>6. sBytes' = 0 /\ sState' = "body" /\ sOut' = sOut
        BY <1>5, <1>6, <3>2, <4>5
      <4> QED BY <1>2, <1>5, <2>2, <4>1, <4>6 DEF Taken
    <3> QED BY <3>1, <3>2
  <2>7. ~sMixed' /\ sOut' = [k \in 1 .. Len(sOut') |-> k]
    BY <1>5, <2>1, <2>5 DEF InPlace
  <2>8. /\ Taken' + Len(sBuffer') + Len(sNet') = 4 * Len(sFrames')
        /\ \A k \in DOMAIN sBuffer' : Nth(sBuffer'[k]) = Taken' + k
        /\ \A k \in DOMAIN sNet' : Nth(sNet'[k]) = Taken' + Len(sBuffer') + k
    BY <1>0, <1>2, <1>5, <2>1, <2>6, StreamTakes
  <2>9. sOut' = sOut
    BY <1>5
  <2> QED BY <2>6, <2>7, <2>8, <2>9 DEF InPlace
<1> QED BY <1>9, <1>10, <1>11 DEF StreamInv

\* A body in pieces.
LEMMA StreamBody ==
  ASSUME Bounds, StreamInv, Streams!ReadBody
  PROVE  StreamInv'
<1>0. FlagTypes /\ SocketTypes /\ ReaderTypes /\ Informed /\ StreamTypes
  BY DEF StreamInv, StreamTypes
<1>1. PICK n : n = Streams!Read(sLength - sBytes)
  OBVIOUS
<1>2. PICK units : units = SubSeq(sBuffer, 1, n)
  OBVIOUS
<1>3. PICK whole \in BOOLEAN : whole = (sBytes + n = sLength)
  OBVIOUS
<1>4. /\ sPc = "read" /\ sTodo > 0 /\ sState = "body" /\ sOpen
      /\ sBuffer' = SubSeq(sBuffer, n + 1, Len(sBuffer)) /\ sTodo' = sTodo - n
      /\ sMixed' = (sMixed \/ Streams!Strays(units, sHeader, 2 + sBytes))
      /\ UNCHANGED <<sKind, sTries, sOpen, sFrames, sNet, sSignal, sLength, sHeader, sLate>>
  BY <1>1, <1>2 DEF Streams!ReadBody, Streams!HeaderSize
<1>5. /\ sBytes' = IF whole THEN 0 ELSE sBytes + n
      /\ sState' = IF whole THEN "header" ELSE "body"
      /\ sOut' = IF whole THEN Append(sOut, sHeader) ELSE sOut
  BY <1>1, <1>3 DEF Streams!ReadBody
<1>6. sPc' \in {"read", "dialog"} /\ sUp' \in BOOLEAN /\ sChannels' \in 0 .. 1
  <2>1. \/ /\ sPc' \in {"dialog", sPc} /\ sUp' = Streams!Understood /\ sChannels' = 1
        \/ UNCHANGED <<sPc, sUp, sChannels>>
    BY DEF Streams!ReadBody
  <2>2. Streams!Understood \in BOOLEAN
    BY DEF Streams!Understood
  <2> QED BY <1>0, <1>4, <2>1, <2>2 DEF FlagTypes
<1>7. sLength = 2 /\ sBytes \in 0 .. 1 /\ Len(sBuffer) \in Nat
  BY <1>0, <1>4 DEF ReaderTypes, SocketTypes
<1>8. n \in 0 .. Len(sBuffer) /\ n <= 2 - sBytes /\ n \in Nat /\ (whole <=> sBytes + n = 2)
  <2>1. n \in 0 .. Len(sBuffer) /\ n <= 2 - sBytes /\ n \in Nat
    BY <1>1, <1>7 DEF Streams!Read
  <2>2. whole <=> sBytes + n = 2
    BY <1>3, <1>7, Zenon
  <2> QED BY <2>1, <2>2
<1>9. /\ SocketTypes' /\ Len(sBuffer') = Len(sBuffer) - n
      /\ \A k \in 1 .. n : units[k] = sBuffer[k] /\ sBuffer[k] \in Piece
      /\ Len(units) = n /\ units \in Seq(Piece)
  BY <1>0, <1>2, <1>4, <1>8, StreamTakes
<1>10. StreamTypes'
  <2>1. FlagTypes'
    <3>1. sMixed' \in BOOLEAN
      BY <1>4
    <3> QED BY <1>0, <1>4, <1>6, <3>1 DEF FlagTypes
  <2>2. ReaderTypes'
    <3>1. /\ sBytes' \in 0 .. 2 /\ sState' \in {"header", "body"}
          /\ (sState' = "body" => sLength' = 2 /\ sBytes' < 2)
      BY <1>4, <1>5, <1>7, <1>8
    <3>2. sTodo' \in Int /\ sTodo' <= 4 * StreamsMaxFrames
      BY <1>0, <1>4, <1>8 DEF ReaderTypes, Bounds
    <3>3. sOut' \in Seq(0 .. StreamsMaxFrames) /\ sHeader' \in 0 .. StreamsMaxFrames
      <4>1. /\ sOut \in Seq(0 .. StreamsMaxFrames) /\ sHeader \in 0 .. StreamsMaxFrames
            /\ sHeader' = sHeader
        BY <1>0, <1>4 DEF ReaderTypes
      <4>2. Append(sOut, sHeader) \in Seq(0 .. StreamsMaxFrames)
        BY ONLY <4>1
      <4>3. sOut' = Append(sOut, sHeader) \/ sOut' = sOut
        BY <1>5
      <4> QED BY ONLY <4>1, <4>2, <4>3
    <3> QED BY <1>6, <3>1, <3>2, <3>3 DEF ReaderTypes
  <2> QED BY <1>9, <2>1, <2>2 DEF StreamTypes
<1>11. Informed'
  BY <1>0, <1>4, <1>6, <1>8, <1>9 DEF Informed, ReaderTypes
<1>12. ASSUME Whole' PROVE InPlace'
  <2>1. InPlace /\ Whole
    BY <1>4, <1>12 DEF StreamInv, Whole
  <2>2. /\ Taken = 4 * Len(sOut) + 2 + sBytes /\ sBytes \in Nat /\ Len(sOut) \in Nat
        /\ sOut \in Seq(0 .. StreamsMaxFrames) /\ sHeader = Len(sOut) + 1
        /\ sHeader \in 0 .. StreamsMaxFrames
    BY <1>0, <1>4, <2>1 DEF Taken, ReaderTypes, InPlace
  <2>3. \A k \in 1 .. n : Nth(units[k]) = Taken + k /\ units[k] \in Piece
    BY <1>0, <1>4, <1>8, <1>9, <2>1, StreamTakes
  <2>4. ~Streams!Strays(units, sHeader, 2 + sBytes)
    <3> SUFFICES ASSUME NEW k \in DOMAIN units
                 PROVE  units[k] = [frame |-> sHeader, at |-> (2 + sBytes) + k]
      BY DEF Streams!Strays
    <3>1. k \in 1 .. n
      BY <1>9
    <3>2. (2 + sBytes) + k \in 1 .. 4
      BY <1>8, <2>2, <3>1
    <3>3. Nth(units[k]) = Place(sHeader, (2 + sBytes) + k) /\ units[k] \in Piece /\ sHeader \in Int
      BY <1>8, <2>2, <2>3, <3>1 DEF Place
    <3> QED BY <3>2, <3>3, Follows, Zenon
  <2>5. /\ sOut' \in Seq(0 .. StreamsMaxFrames)
        /\ Len(sOut') = IF whole THEN Len(sOut) + 1 ELSE Len(sOut)
    <3>1. sOut \in Seq(0 .. StreamsMaxFrames) /\ sHeader \in 0 .. StreamsMaxFrames
      BY <2>2
    <3>2. /\ Append(sOut, sHeader) \in Seq(0 .. StreamsMaxFrames)
          /\ Len(Append(sOut, sHeader)) = Len(sOut) + 1
      BY ONLY <3>1
    <3>3. CASE whole
      BY <1>5, <3>2, <3>3
    <3>4. CASE ~whole
      BY <1>5, <3>1, <3>4
    <3> QED BY <3>3, <3>4
  <2>6. /\ sBytes' < 2 /\ Taken' = Taken + n
        /\ (sState' = "body" \/ sBytes' > 0 => sHeader' = Len(sOut') + 1)
    <3>1. CASE whole
      <4>1. sBytes' = 0 /\ sState' = "header" /\ Len(sOut') = Len(sOut) + 1 /\ sBytes + n = 2
        BY <1>5, <1>8, <2>5, <3>1
      <4> QED BY <1>8, <2>2, <4>1 DEF Taken
    <3>2. CASE ~whole
      <4>1. /\ sBytes' = sBytes + n /\ sState' = "body" /\ Len(sOut') = Len(sOut) /\ sBytes + n < 2
            /\ sHeader' = sHeader
        BY <1>4, <1>5, <1>7, <1>8, <2>5, <3>2
      <4> QED BY <1>8, <2>2, <4>1 DEF Taken
    <3> QED BY <3>1, <3>2
  <2>7. sOut' = [k \in 1 .. Len(sOut') |-> k]
    <3>1. sOut = [k \in 1 .. Len(sOut) |-> k]
      BY <2>1 DEF InPlace
    <3>2. CASE whole
      <4>1. sOut' = Append(sOut, Len(sOut) + 1)
        BY <1>5, <2>2, <3>2
      <4>2. \A k \in 1 .. Len(sOut) + 1 : sOut'[k] = k
        BY <2>2, <3>1, <4>1
      <4>3. Len(sOut') = Len(sOut) + 1
        BY <2>5, <3>2
      <4> QED BY <2>5, <4>2, <4>3
    <3>3. CASE ~whole
      BY <1>5, <3>1, <3>3
    <3> QED BY <3>2, <3>3
  <2>8. ~sMixed'
    BY <1>4, <2>1, <2>4 DEF InPlace
  <2>9. /\ Taken' + Len(sBuffer') + Len(sNet') = 4 * Len(sFrames')
        /\ \A k \in DOMAIN sBuffer' : Nth(sBuffer'[k]) = Taken' + k
        /\ \A k \in DOMAIN sNet' : Nth(sNet'[k]) = Taken' + Len(sBuffer') + k
    BY <1>0, <1>4, <1>8, <2>1, <2>6, StreamTakes
  <2> QED BY <2>6, <2>7, <2>8, <2>9 DEF InPlace
<1> QED BY <1>10, <1>11, <1>12 DEF StreamInv

\* However TCP cuts what dspserver sends, the readers of QtRadio (readyRead with its
\* header and body states, in Connection, SpectrumConnection and AudioConnection) put
\* every header and body together from one frame, hand each frame on once and in order,
\* and leave nothing that has come unread but what came during the dialog.
THEOREM StreamsCorrect ==
  ASSUME Bounds
  PROVE  Streams!Spec => []Framed
<1>1. Streams!Init => StreamInv
  <2> SUFFICES ASSUME Streams!Init PROVE StreamInv
    OBVIOUS
  <2>0. /\ <<>> \in Seq(FrameTypes) /\ <<>> \in Seq(Piece) /\ <<>> \in Seq(0 .. StreamsMaxFrames)
        /\ Len(<<>>) = 0
    OBVIOUS
  <2>1. FlagTypes
    <3>1. sUp \in BOOLEAN /\ sOpen \in BOOLEAN /\ sSignal \in BOOLEAN /\ sLate \in BOOLEAN
          /\ sMixed \in BOOLEAN /\ sKind \in StreamsKinds
      BY Zenon DEF Streams!Init
    <3>2. sTries \in 0 .. StreamsMaxTries /\ sChannels \in 0 .. 1
      <4>1. sTries = 0 /\ sChannels = 0
        BY DEF Streams!Init
      <4> QED BY ONLY Bounds, <4>1 DEF Bounds
    <3> QED BY <3>1, <3>2 DEF FlagTypes
  <2>2. SocketTypes
    BY <2>0 DEF Streams!Init, SocketTypes, Bounds
  <2>3. ReaderTypes
    BY <2>0 DEF Streams!Init, ReaderTypes, Bounds
  <2>4. Informed
    BY DEF Streams!Init, Informed
  <2>5. InPlace
    BY <2>0 DEF Streams!Init, InPlace, Taken
  <2> QED BY <2>1, <2>2, <2>3, <2>4, <2>5 DEF StreamInv, StreamTypes
<1>2. StreamInv /\ [Streams!Next]_(Streams!vars) => StreamInv'
  <2> SUFFICES ASSUME StreamInv, [Streams!Next]_(Streams!vars) PROVE StreamInv'
    OBVIOUS
  <2>1. CASE Streams!Connect \/ Streams!Disconnect
    BY <2>1, StreamConnects
  <2>2. CASE \E type \in Streams!Types(sKind) : Streams!Send(type)
    BY <2>2, StreamSends
  <2>3. ASSUME NEW n \in 1 .. StreamsMaxFrames * Streams!WholeSize, Streams!Arrive(n)
        PROVE  StreamInv'
    <3>1. n \in Nat
      BY DEF Bounds, Streams!WholeSize, Streams!HeaderSize, Streams!BodySize
    <3> QED BY <2>3, <3>1, StreamArrives
  <2>4. CASE \/ Streams!Enter \/ Streams!DialogEnd \/ Streams!Leave \/ UNCHANGED Streams!vars
    BY <2>4, StreamCalls
  <2>5. CASE Streams!ReadHeader
    BY <2>5, StreamHeader
  <2>6. CASE Streams!ReadBody
    BY <2>6, StreamBody
  <2> QED BY <2>1, <2>2, <2>3, <2>4, <2>5, <2>6 DEF Streams!Next
<1>3. StreamInv => Framed
  <2> SUFFICES ASSUME StreamInv PROVE Framed
    OBVIOUS
  <2>1. FlagTypes /\ SocketTypes /\ ReaderTypes /\ Informed
    BY DEF StreamInv, StreamTypes
  <2>2. Streams!TypeOK
    BY <2>1 DEF Streams!TypeOK, FlagTypes, SocketTypes, ReaderTypes, Bounds,
                Streams!WholeSize, Streams!HeaderSize, Streams!BodySize
  <2>3. Streams!Framed
    BY <2>1 DEF StreamInv, Streams!Framed, Informed, Whole, InPlace
  <2> QED BY <2>2, <2>3 DEF Framed
<1> QED BY <1>1, <1>2, <1>3, PTL DEF Streams!Spec

----------------------------------------------------------------------------
(* Tuning *)

Pairs == Int \X Int
Within(b, f) == b \in Tune!LimitedBands => Tune!Inside(b, f)

\* The band stacks: a row of entries for each band, all of them inside the band.
Row(b) == [1 .. Tune!Last(b) + 1 -> Tune!Entry]
Books ==
  {e \in [TuneBands -> UNION {Row(b) : b \in TuneBands}] :
     \A b \in TuneBands :
       e[b] \in Row(b) /\ \A x \in 0 .. Tune!Last(b) : Within(b, e[b][x + 1].freq)}

Receivers ==
  [band : TuneBands, working : Nat, entry : Books,
   browse : [TuneBands -> Nat], store : [TuneBands -> Nat],
   mode : TuneModes, set : TuneModes, flag : BOOLEAN, sel : [TuneModes -> TuneFilterIds],
   menu : [band : TuneBands, mode : TuneModes, filter : TuneFilterIds],
   frequency : Int, pan : Int, shown : Pairs, vfo : {"A", "B"}, display : [{"A", "B"} -> Int],
   dsp : [freq : Int, mode : TuneModes, pass : Pairs]]

\* The places in the band stacks.
Placed(r) ==
  /\ r.working \in 0 .. Tune!Last(r.band) /\ (r.band # "WWV" => r.working = Tune!Last(r.band))
  /\ \A b \in TuneBands :
       /\ r.browse[b] \in 0 .. Tune!Last(b) /\ r.store[b] \in 0 .. TuneMemories[b]
       /\ b # "WWV" => r.browse[b] \in 0 .. TuneMemories[b]

Sound(r) == r \in Receivers /\ Placed(r)

\* The mode half of what the server, the menus and the display follow.
Listening(r) ==
  /\ r.set = r.mode /\ r.dsp.mode = r.mode /\ r.menu.mode = r.mode
  /\ r.menu.filter = r.sel[r.set]
  /\ r.sel[r.set] # 10 => r.shown = Tune!Passband(r.mode, r.sel[r.set])

\* All of it, between two cascades.
Following(r) ==
  /\ Listening(r) /\ r.flag = FALSE
  /\ r.dsp.freq = r.frequency /\ r.menu.band = r.band

SamePlace(r, s) ==
  /\ s.band = r.band /\ s.working = r.working /\ s.browse = r.browse /\ s.store = r.store
OthersKept(r, s) ==
  \A b \in TuneBands : \A x \in 0 .. Tune!Last(b) :
    b # r.band \/ x # r.working => s.entry[b][x + 1] = r.entry[b][x + 1]
SameTuning(r, s) ==
  /\ s.frequency = r.frequency /\ s.dsp.freq = r.dsp.freq /\ s.menu.band = r.menu.band
SameMode(r, s) ==
  /\ s.set = r.set /\ s.mode = r.mode /\ s.flag = r.flag /\ s.dsp.mode = r.dsp.mode
  /\ s.menu.mode = r.menu.mode
SameFilter(r, s) == s.sel = r.sel /\ s.menu.filter = r.menu.filter /\ s.shown = r.shown

MemoriesSame(r, s) ==
  \A b \in TuneBands \ {"WWV"} : \A x \in 0 .. TuneMemories[b] :
    s.entry[b][x + 1] = r.entry[b][x + 1]

\* The bands, and the last places of their stacks.
LEMMA Plan ==
  ASSUME Tune!BandPlan
  PROVE  /\ "GEN" \in TuneBands /\ "WWV" \in TuneBands /\ TuneFirstBand \in TuneBands
         /\ \A b \in TuneBands : TuneMemories[b] \in Nat /\ Tune!Last(b) \in Nat
                                 /\ Tune!Last(b) = TuneMemories[b] + 1
         /\ Tune!LimitedBands \subseteq TuneBands
         /\ "GEN" \notin Tune!LimitedBands /\ "WWV" \notin Tune!LimitedBands
<1>1. {"GEN", "WWV", TuneFirstBand} \subseteq TuneBands /\ TuneMemories \in [TuneBands -> Nat]
  BY DEF Tune!BandPlan, Tune!Gen, Tune!Wwv
<1>2. \A b \in TuneBands : TuneMemories[b] \in Nat
  BY <1>1
<1> QED BY <1>1, <1>2 DEF Tune!Last, Tune!Gen, Tune!Wwv, Tune!LimitedBands

\* A frequency in a band with limits is of that band, and the band of a frequency
\* holds it.
LEMMA BandOfFrequency ==
  ASSUME Tune!BandPlan, NEW f \in Int
  PROVE  /\ Tune!BandOf(f) \in TuneBands \ {"WWV"} /\ Within(Tune!BandOf(f), f)
         /\ \A b \in Tune!LimitedBands : Tune!Inside(b, f) => Tune!BandOf(f) = b
<1>1. ASSUME NEW b \in Tune!LimitedBands, NEW c \in Tune!LimitedBands,
             Tune!Inside(b, f), Tune!Inside(c, f)
      PROVE  b = c
  <2>1. TuneLimits[b] \in Int \X Int /\ TuneLimits[c] \in Int \X Int
    BY <1>1 DEF Tune!BandPlan
  <2>2. b # c => TuneLimits[b][2] < TuneLimits[c][1] \/ TuneLimits[c][2] < TuneLimits[b][1]
    BY <1>1 DEF Tune!BandPlan
  <2>3. /\ TuneLimits[b][1] \in Int /\ TuneLimits[b][2] \in Int
        /\ TuneLimits[c][1] \in Int /\ TuneLimits[c][2] \in Int
    BY <2>1
  <2> QED BY ONLY <1>1, <2>2, <2>3, f \in Int DEF Tune!Inside
<1>2. CASE \E b \in Tune!LimitedBands : Tune!Inside(b, f)
  <2>1. Tune!BandOf(f) \in Tune!LimitedBands /\ Tune!Inside(Tune!BandOf(f), f)
    BY <1>2 DEF Tune!BandOf
  <2> QED BY <2>1, <1>1, Plan DEF Within
<1>3. CASE ~ \E b \in Tune!LimitedBands : Tune!Inside(b, f)
  <2>1. Tune!BandOf(f) = "GEN"
    BY <1>3 DEF Tune!BandOf, Tune!Gen
  <2> QED BY <2>1, <1>3, Plan DEF Within
<1> QED BY <1>2, <1>3

\* A passband is a pair of numbers.
LEMMA PassbandPair ==
  ASSUME Tune!BandPlan, NEW m \in TuneModes, NEW i \in TuneFilterIds
  PROVE  Tune!Passband(m, i) \in Pairs
<1>1. i \in 0 .. 10 /\ TuneCwPitch \in Int
  BY DEF Tune!BandPlan, Tune!Variable
<1>2. Tune!Upper[i + 1] \in Int /\ Tune!Half[i + 1] \in Int
  BY <1>1 DEF Tune!Upper, Tune!Half
<1>3. Tune!Fm[i + 1] \in Int /\ Tune!Tone[i + 1] \in Int
  BY <1>1 DEF Tune!Fm, Tune!Tone
<1>4. m \in {"LSB", "USB", "DSB", "CWL", "CWU", "FM", "AM", "DIGU", "DIGL", "SAM"}
  BY DEF Tune!BandPlan
<1> HIDE DEF Tune!Upper, Tune!Half, Tune!Fm, Tune!Tone
<1> QED BY <1>1, <1>2, <1>3, <1>4 DEF Tune!Passband, Tune!Edges, Tune!UpperSide, Tune!LowerSide,
           Tune!BothSides, Tune!FmSides, Tune!BelowPitch, Tune!AbovePitch, Pairs

\* The server's passband of a mode is one as well.
LEMMA ModeDefaultPair ==
  ASSUME Tune!BandPlan, NEW m \in TuneModes
  PROVE  Tune!ModeDefault(m) \in Pairs
<1>1. m \in {"LSB", "USB", "DSB", "CWL", "CWU", "FM", "AM", "DIGU", "DIGL", "SAM"}
  BY DEF Tune!BandPlan
<1> QED BY <1>1 DEF Tune!ModeDefault, Pairs

\* An entry written into a stack.
LEMMA Written ==
  ASSUME Tune!BandPlan, NEW e \in Books, NEW b \in TuneBands, NEW x \in 0 .. Tune!Last(b),
         NEW v \in Tune!Entry, Within(b, v.freq)
  PROVE  LET n == [e EXCEPT ![b] = [e[b] EXCEPT ![x + 1] = v]] IN
         /\ n \in Books /\ n[b][x + 1] = v
         /\ \A c \in TuneBands : \A y \in 0 .. Tune!Last(c) :
              c # b \/ y # x => n[c][y + 1] = e[c][y + 1]
<1> DEFINE row == [e[b] EXCEPT ![x + 1] = v]
           n == [e EXCEPT ![b] = row]
<1>1. Tune!Last(b) \in Nat /\ x + 1 \in 1 .. Tune!Last(b) + 1 /\ x \in Nat
  BY Plan
<1>2. e[b] \in Row(b) /\ \A y \in 0 .. Tune!Last(b) : Within(b, e[b][y + 1].freq)
  BY DEF Books
<1>3. row \in Row(b) /\ row[x + 1] = v
      /\ \A y \in 0 .. Tune!Last(b) : y # x => row[y + 1] = e[b][y + 1]
  BY <1>1, <1>2 DEF Row
<1>4. \A y \in 0 .. Tune!Last(b) : Within(b, row[y + 1].freq)
  BY <1>2, <1>3
<1> HIDE DEF row
<1>5. n[b] = row /\ DOMAIN n = TuneBands /\ \A c \in TuneBands : c # b => n[c] = e[c]
  BY DEF Books
<1>6. n \in [TuneBands -> UNION {Row(c) : c \in TuneBands}]
  BY <1>3, <1>5 DEF Books
<1>7. n \in Books
  BY <1>3, <1>4, <1>5, <1>6 DEF Books
<1> QED BY <1>3, <1>5, <1>7 DEF row

\* The entry in use.
LEMMA EntryInUse ==
  ASSUME Tune!BandPlan, NEW r, Sound(r)
  PROVE  /\ r.band \in TuneBands /\ r.working \in 0 .. Tune!Last(r.band) /\ r.entry \in Books
         /\ Tune!Now(r) = r.entry[r.band][r.working + 1]
         /\ Tune!Now(r) \in Tune!Entry /\ Within(r.band, Tune!Now(r).freq)
         /\ Tune!Now(r).freq \in Int /\ Tune!Now(r).mode \in TuneModes
         /\ Tune!Now(r).filter \in TuneFilterIds
<1>1. r.band \in TuneBands /\ r.working \in 0 .. Tune!Last(r.band) /\ r.entry \in Books
  BY DEF Sound, Receivers, Placed
<1>2. r.entry[r.band] \in Row(r.band)
      /\ \A x \in 0 .. Tune!Last(r.band) : Within(r.band, r.entry[r.band][x + 1].freq)
  BY <1>1 DEF Books
<1>3. Tune!Last(r.band) \in Nat
  BY <1>1, Plan
<1>4. r.entry[r.band][r.working + 1] \in Tune!Entry
  BY <1>1, <1>2, <1>3 DEF Row
<1> QED BY <1>1, <1>2, <1>4 DEF Tune!Now, Tune!Entry

\* An entry written, and nothing else.
Put(r, b, x, v) == [r EXCEPT !.entry[b][x + 1] = v]

\* An entry within its limits, put in any place, leaves the stacks sound.
LEMMA EntryPut ==
  ASSUME Tune!BandPlan, NEW r, Sound(r), NEW b \in TuneBands, NEW x \in 0 .. Tune!Last(b),
         NEW v \in Tune!Entry, Within(b, v.freq)
  PROVE  LET s == Put(r, b, x, v) IN
         /\ Sound(s) /\ SamePlace(r, s) /\ SameTuning(r, s) /\ SameMode(r, s) /\ SameFilter(r, s)
         /\ s.entry[b][x + 1] = v
         /\ \A c \in TuneBands : \A y \in 0 .. Tune!Last(c) :
              c # b \/ y # x => s.entry[c][y + 1] = r.entry[c][y + 1]
<1> DEFINE s == Put(r, b, x, v)
           n == [r.entry EXCEPT ![b] = [r.entry[b] EXCEPT ![x + 1] = v]]
<1>1. r.entry \in Books
  BY EntryInUse
<1>2. /\ n \in Books /\ n[b][x + 1] = v
      /\ \A c \in TuneBands : \A y \in 0 .. Tune!Last(c) :
           c # b \/ y # x => n[c][y + 1] = r.entry[c][y + 1]
  BY <1>1, Written
<1>3. s = [r EXCEPT !.entry = n]
  BY DEF Put
<1> HIDE DEF n, s
<1>4. s \in Receivers
  BY <1>2, <1>3 DEF Sound, Receivers
<1>5. /\ s.entry = n /\ SamePlace(r, s) /\ SameTuning(r, s) /\ SameMode(r, s) /\ SameFilter(r, s)
  BY <1>3 DEF Sound, Receivers, SamePlace, SameTuning, SameMode, SameFilter
<1>6. Placed(s)
  BY <1>5 DEF Sound, Placed, SamePlace
<1>7. Sound(s)
  BY <1>4, <1>6 DEF Sound
<1> QED BY <1>2, <1>5, <1>7 DEF s

\* The entry in use written: the stacks are as sound, and nothing else changes.
Touched(r, s) ==
  /\ Sound(s) /\ SamePlace(r, s) /\ OthersKept(r, s)

\* The same of the entry in use, which is then the entry put there.
LEMMA EntryInUsePut ==
  ASSUME Tune!BandPlan, NEW r, Sound(r), NEW v \in Tune!Entry, Within(r.band, v.freq)
  PROVE  LET s == Put(r, r.band, r.working, v) IN
         /\ Touched(r, s) /\ SameTuning(r, s) /\ SameMode(r, s) /\ SameFilter(r, s)
         /\ Tune!Now(s) = v
<1> DEFINE s == Put(r, r.band, r.working, v)
<1>0. r.band \in TuneBands /\ r.working \in 0 .. Tune!Last(r.band)
  BY EntryInUse
<1>1. /\ Sound(s) /\ SamePlace(r, s) /\ SameTuning(r, s) /\ SameMode(r, s) /\ SameFilter(r, s)
      /\ s.entry[r.band][r.working + 1] = v
      /\ \A c \in TuneBands : \A y \in 0 .. Tune!Last(c) :
           c # r.band \/ y # r.working => s.entry[c][y + 1] = r.entry[c][y + 1]
  BY <1>0, EntryPut, SMTT(30)
<1> HIDE DEF s
<1>2. Touched(r, s) /\ Tune!Now(s) = v
  BY <1>1 DEF Touched, SamePlace, OthersKept, Tune!Now
<1> QED BY <1>1, <1>2 DEF s

\* Frequency, mode and filter written into the entry in use.
LEMMA PutFrequency ==
  ASSUME Tune!BandPlan, NEW r, Sound(r), NEW f \in Int, Within(r.band, f)
  PROVE  LET s == Tune!PutFrequency(r, f) IN
         /\ Touched(r, s) /\ SameTuning(r, s) /\ SameMode(r, s) /\ SameFilter(r, s)
         /\ Tune!Now(s).freq = f
         /\ Tune!Now(s).mode = Tune!Now(r).mode
         /\ Tune!Now(s).filter = Tune!Now(r).filter
<1> DEFINE v == [Tune!Now(r) EXCEPT !.freq = f]
<1>1. /\ v \in Tune!Entry /\ v.freq = f
      /\ v.mode = Tune!Now(r).mode /\ v.filter = Tune!Now(r).filter
  BY EntryInUse DEF Tune!Entry
<1>2. Within(r.band, v.freq)
  BY <1>1, EntryInUse
<1>3. Tune!PutFrequency(r, f) = Put(r, r.band, r.working, v)
  BY DEF Tune!PutFrequency, Tune!Now, Put
<1> HIDE DEF v
<1> QED BY <1>1, <1>2, <1>3, EntryInUsePut

\* Band::setMode writes the mode of the entry in use only.
LEMMA PutMode ==
  ASSUME Tune!BandPlan, NEW r, Sound(r), NEW m \in TuneModes
  PROVE  LET s == Tune!PutMode(r, m) IN
         /\ Touched(r, s) /\ SameTuning(r, s) /\ SameMode(r, s) /\ SameFilter(r, s)
         /\ Tune!Now(s).mode = m
         /\ Tune!Now(s).freq = Tune!Now(r).freq
         /\ Tune!Now(s).filter = Tune!Now(r).filter
<1> DEFINE v == [Tune!Now(r) EXCEPT !.mode = m]
<1>1. /\ v \in Tune!Entry /\ v.mode = m
      /\ v.freq = Tune!Now(r).freq /\ v.filter = Tune!Now(r).filter
  BY EntryInUse DEF Tune!Entry
<1>2. Within(r.band, v.freq)
  BY <1>1, EntryInUse
<1>3. Tune!PutMode(r, m) = Put(r, r.band, r.working, v)
  BY DEF Tune!PutMode, Tune!Now, Put
<1> HIDE DEF v
<1> QED BY <1>1, <1>2, <1>3, EntryInUsePut

\* Band::setFilter writes the filter of the entry in use only.
LEMMA PutFilter ==
  ASSUME Tune!BandPlan, NEW r, Sound(r), NEW i \in TuneFilterIds
  PROVE  LET s == Tune!PutFilter(r, i) IN
         /\ Touched(r, s) /\ SameTuning(r, s) /\ SameMode(r, s) /\ SameFilter(r, s)
         /\ Tune!Now(s).filter = i
         /\ Tune!Now(s).freq = Tune!Now(r).freq
         /\ Tune!Now(s).mode = Tune!Now(r).mode
<1> DEFINE v == [Tune!Now(r) EXCEPT !.filter = i]
<1>1. /\ v \in Tune!Entry /\ v.filter = i
      /\ v.freq = Tune!Now(r).freq /\ v.mode = Tune!Now(r).mode
  BY EntryInUse DEF Tune!Entry
<1>2. Within(r.band, v.freq)
  BY <1>1, EntryInUse
<1>3. Tune!PutFilter(r, i) = Put(r, r.band, r.working, v)
  BY DEF Tune!PutFilter, Tune!Now, Put
<1> HIDE DEF v
<1> QED BY <1>1, <1>2, <1>3, EntryInUsePut

\* The menus, the displays and the passband touch nothing else.
SameBook(r, s) == SamePlace(r, s) /\ s.entry = r.entry

\* UI::updateModeMenu ticks the mode it is given and changes no other part.
LEMMA ModeMenu ==
  ASSUME Tune!BandPlan, NEW r, Sound(r), NEW m \in TuneModes
  PROVE  LET s == Tune!UpdateModeMenu(r, m) IN
         /\ Sound(s) /\ SameBook(r, s) /\ SameTuning(r, s) /\ SameFilter(r, s)
         /\ s.set = r.set /\ s.mode = r.mode /\ s.flag = r.flag /\ s.dsp.mode = r.dsp.mode
         /\ s.menu.mode = m
<1> DEFINE s == Tune!UpdateModeMenu(r, m)
<1>1. s \in Receivers
  BY DEF Sound, Receivers, Tune!UpdateModeMenu
<1>2. /\ SameBook(r, s) /\ SameTuning(r, s) /\ SameFilter(r, s)
      /\ s.set = r.set /\ s.mode = r.mode /\ s.flag = r.flag /\ s.dsp.mode = r.dsp.mode
      /\ s.menu.mode = m
  BY DEF Sound, Receivers, Tune!UpdateModeMenu, SameBook, SamePlace, SameTuning, SameFilter
<1> HIDE DEF s
<1>3. Sound(s)
  BY <1>1, <1>2 DEF Sound, Placed, SameBook, SamePlace
<1> QED BY <1>2, <1>3 DEF s

\* UI::updateBandMenu ticks the band it is given and changes no other part.
LEMMA BandMenu ==
  ASSUME Tune!BandPlan, NEW r, Sound(r), NEW b \in TuneBands
  PROVE  LET s == Tune!UpdateBandMenu(r, b) IN
         /\ Sound(s) /\ SameBook(r, s) /\ SameMode(r, s) /\ SameFilter(r, s)
         /\ s.frequency = r.frequency /\ s.dsp.freq = r.dsp.freq /\ s.menu.band = b
<1> DEFINE s == Tune!UpdateBandMenu(r, b)
<1>1. s \in Receivers
  BY DEF Sound, Receivers, Tune!UpdateBandMenu
<1>2. /\ SameBook(r, s) /\ SameMode(r, s) /\ SameFilter(r, s)
      /\ s.frequency = r.frequency /\ s.dsp.freq = r.dsp.freq /\ s.menu.band = b
  BY DEF Sound, Receivers, Tune!UpdateBandMenu, SameBook, SamePlace, SameMode, SameFilter
<1> HIDE DEF s
<1>3. Sound(s)
  BY <1>1, <1>2 DEF Sound, Placed, SameBook, SamePlace
<1> QED BY <1>2, <1>3 DEF s

\* UI::updateFilterMenu ticks the filter it is given and changes no other part.
LEMMA FilterMenu ==
  ASSUME Tune!BandPlan, NEW r, Sound(r), NEW i \in TuneFilterIds
  PROVE  LET s == Tune!UpdateFilterMenu(r, i) IN
         /\ Sound(s) /\ SameBook(r, s) /\ SameTuning(r, s) /\ SameMode(r, s)
         /\ s.sel = r.sel /\ s.shown = r.shown /\ s.menu.filter = i
<1> DEFINE s == Tune!UpdateFilterMenu(r, i)
<1>1. s \in Receivers
  BY DEF Sound, Receivers, Tune!UpdateFilterMenu
<1>2. /\ SameBook(r, s) /\ SameTuning(r, s) /\ SameMode(r, s)
      /\ s.sel = r.sel /\ s.shown = r.shown /\ s.menu.filter = i
  BY DEF Sound, Receivers, Tune!UpdateFilterMenu, SameBook, SamePlace, SameMode, SameTuning
<1> HIDE DEF s
<1>3. Sound(s)
  BY <1>1, <1>2 DEF Sound, Placed, SameBook, SamePlace
<1> QED BY <1>2, <1>3 DEF s

\* Neither the VFO display nor the centre of the panadapter is part of what is followed.
LEMMA Display ==
  ASSUME Tune!BandPlan, NEW r, Sound(r), NEW f \in Int
  PROVE  /\ LET s == Tune!UpdateVfo(r, f) IN
            Sound(s) /\ SameBook(r, s) /\ SameTuning(r, s) /\ SameMode(r, s) /\ SameFilter(r, s)
         /\ LET s == [r EXCEPT !.pan = f] IN
            Sound(s) /\ SameBook(r, s) /\ SameTuning(r, s) /\ SameMode(r, s) /\ SameFilter(r, s)
<1> DEFINE s == Tune!UpdateVfo(r, f)
           t == [r EXCEPT !.pan = f]
<1>1. s \in Receivers /\ t \in Receivers
  BY DEF Sound, Receivers, Tune!UpdateVfo
<1>2. SameBook(r, s) /\ SameTuning(r, s) /\ SameMode(r, s) /\ SameFilter(r, s)
  BY DEF Sound, Receivers, Tune!UpdateVfo, SameBook, SamePlace, SameMode, SameTuning, SameFilter
<1>3. SameBook(r, t) /\ SameTuning(r, t) /\ SameMode(r, t) /\ SameFilter(r, t)
  BY DEF Sound, Receivers, SameBook, SamePlace, SameMode, SameTuning, SameFilter
<1> HIDE DEF s, t
<1>4. Sound(s) /\ Sound(t)
  BY <1>1, <1>2, <1>3 DEF Sound, Placed, SameBook, SamePlace
<1> QED BY <1>2, <1>3, <1>4 DEF s, t

\* The passband drawn and sent is the one given; the selection stays.
LEMMA PassbandShown ==
  ASSUME Tune!BandPlan, NEW r, Sound(r), NEW p \in Pairs
  PROVE  LET s == Tune!ShowPassband(r, p) IN
         /\ Sound(s) /\ SameBook(r, s) /\ SameTuning(r, s) /\ SameMode(r, s)
         /\ s.sel = r.sel /\ s.shown = p /\ s.menu.filter = r.menu.filter
<1> DEFINE s == Tune!ShowPassband(r, p)
<1>1. s \in Receivers
  BY DEF Sound, Receivers, Tune!ShowPassband
<1>2. /\ SameBook(r, s) /\ SameTuning(r, s) /\ SameMode(r, s)
      /\ s.sel = r.sel /\ s.shown = p /\ s.menu.filter = r.menu.filter
  BY DEF Sound, Receivers, Tune!ShowPassband, SameBook, SamePlace, SameMode, SameTuning
<1> HIDE DEF s
<1>3. Sound(s)
  BY <1>1, <1>2 DEF Sound, Placed, SameBook, SamePlace
<1> QED BY <1>2, <1>3 DEF s

\* A book that is the same has the same entry in use.
LEMMA SameNow ==
  ASSUME NEW r, NEW s, SameBook(r, s)
  PROVE  Tune!Now(s) = Tune!Now(r) /\ s.band = r.band /\ OthersKept(r, s) /\ SamePlace(r, s)
BY DEF SameBook, SamePlace, Tune!Now, OthersKept

\* Changes to the entry in use add up.
LEMMA TouchedTwice ==
  ASSUME NEW r, NEW s, NEW t, SamePlace(r, s), OthersKept(r, s), SamePlace(s, t), OthersKept(s, t)
  PROVE  SamePlace(r, t) /\ OthersKept(r, t)
BY DEF SamePlace, OthersKept

\* filterChanged shows filter i; unless it is the variable one, just chosen, it
\* becomes that of the entry in use, and the passband is that of the filter selected.
Tuned(r, s) ==
  /\ Touched(r, s) /\ SameTuning(r, s)
  /\ Tune!Now(s).freq = Tune!Now(r).freq /\ Tune!Now(s).mode = Tune!Now(r).mode

\* filterChanged leaves the entry in use, the menu and, but for the variable
\* filter, the passband at the filter it is given.
LEMMA FilterChanged ==
  ASSUME Tune!BandPlan, NEW r, Sound(r), NEW j, NEW i \in TuneFilterIds
  PROVE  LET s == Tune!FilterChanged(r, j, i) IN
         /\ Tuned(r, s) /\ SameMode(r, s) /\ s.sel = r.sel /\ s.menu.filter = i
         /\ j = i \/ i # 10 =>
              /\ Tune!Now(s).filter = i
              /\ s.shown = Tune!Passband(r.mode, r.sel[r.set])
<1> DEFINE s == Tune!FilterChanged(r, j, i)
           t == Tune!UpdateFilterMenu(r, i)
           p == Tune!Passband(r.mode, r.sel[r.set])
           u == Tune!ShowPassband(t, p)
<1>1. Sound(t) /\ SameBook(r, t) /\ SameTuning(r, t) /\ SameMode(r, t)
      /\ t.sel = r.sel /\ t.shown = r.shown /\ t.menu.filter = i
  BY FilterMenu
<1>2. p \in Pairs
  <2>1. r.mode \in TuneModes /\ r.set \in TuneModes /\ r.sel \in [TuneModes -> TuneFilterIds]
    BY DEF Sound, Receivers
  <2> QED BY <2>1, PassbandPair
<1> HIDE DEF p
<1>3. Sound(u) /\ SameBook(t, u) /\ SameTuning(t, u) /\ SameMode(t, u)
      /\ u.sel = t.sel /\ u.shown = p /\ u.menu.filter = t.menu.filter
  BY <1>1, <1>2, PassbandShown
<1>4. CASE j # 10 /\ i = 10
  <2>1. s = t
    BY <1>4 DEF Tune!FilterChanged, Tune!Variable
  <2>2. Tune!Now(t) = Tune!Now(r) /\ OthersKept(r, t) /\ SamePlace(r, t)
    BY <1>1, SameNow
  <2> QED BY <1>1, <1>4, <2>1, <2>2 DEF Tuned, Touched
<1>5. CASE ~(j # 10 /\ i = 10)
  <2> DEFINE v == Tune!PutFilter(u, i)
  <2>1. s = v
    BY <1>5, <1>1 DEF Tune!FilterChanged, Tune!Variable, Tune!UpdateFilterMenu, p, SameMode
  <2>2. /\ Touched(u, v) /\ SameTuning(u, v) /\ SameMode(u, v) /\ SameFilter(u, v)
        /\ Tune!Now(v).filter = i /\ Tune!Now(v).freq = Tune!Now(u).freq
        /\ Tune!Now(v).mode = Tune!Now(u).mode
    BY <1>3, PutFilter
  <2> HIDE DEF s, t, u, v
  <2>3. /\ Tune!Now(t) = Tune!Now(r) /\ OthersKept(r, t) /\ SamePlace(r, t)
        /\ Tune!Now(u) = Tune!Now(t) /\ OthersKept(t, u) /\ SamePlace(t, u)
    BY <1>1, <1>3, SameNow
  <2>4. SamePlace(r, v) /\ OthersKept(r, v) /\ Sound(v)
    BY <2>2, <2>3, TouchedTwice DEF Touched
  <2>5. Tuned(r, v)
    BY <1>1, <1>3, <2>2, <2>3, <2>4 DEF Tuned, Touched, SameTuning
  <2>6. SameMode(r, v)
    BY <1>1, <1>3, <2>2 DEF SameMode
  <2>7. v.sel = r.sel /\ v.menu.filter = i /\ v.shown = p
    BY <1>1, <1>3, <2>2 DEF SameFilter
  <2> QED BY <2>1, <2>2, <2>5, <2>6, <2>7 DEF s, p
<1> QED BY <1>4, <1>5

\* A filter selected in the set in use.
LEMMA SelectFilter ==
  ASSUME Tune!BandPlan, NEW r, Sound(r), NEW i \in TuneFilterIds
  PROVE  LET s == Tune!SelectFilter(r, i) IN
         /\ Tuned(r, s) /\ SameMode(r, s) /\ s.menu.filter = i /\ s.sel[s.set] = i
         /\ r.sel[r.set] = i \/ i # 10 =>
              Tune!Now(s).filter = i /\ s.shown = Tune!Passband(s.mode, i)
<1> DEFINE t == [r EXCEPT !.sel[r.set] = i]
           j == r.sel[r.set]
           s == Tune!FilterChanged(t, j, i)
<1>1. t \in Receivers
  BY DEF Sound, Receivers
<1>2. SameBook(r, t) /\ SameTuning(r, t) /\ SameMode(r, t) /\ t.sel[t.set] = i
  BY DEF Sound, Receivers, SameBook, SamePlace, SameTuning, SameMode
<1> HIDE DEF t, j
<1>3. Sound(t)
  BY <1>1, <1>2 DEF Sound, Placed, SameBook, SamePlace
<1>4. /\ Tuned(t, s) /\ SameMode(t, s) /\ s.sel = t.sel /\ s.menu.filter = i
      /\ j = i \/ i # 10 => Tune!Now(s).filter = i /\ s.shown = Tune!Passband(t.mode, t.sel[t.set])
  BY <1>3, FilterChanged
<1> HIDE DEF s
<1>5. Tune!Now(t) = Tune!Now(r) /\ OthersKept(r, t) /\ SamePlace(r, t)
  BY <1>2, SameNow
<1>6. Tuned(r, s)
  BY <1>2, <1>4, <1>5, TouchedTwice DEF Tuned, Touched, SameTuning
<1>7. SameMode(r, s) /\ s.sel[s.set] = i /\ s.mode = t.mode
  BY <1>2, <1>4 DEF SameMode
<1> QED BY <1>2, <1>4, <1>6, <1>7 DEF s, t, j, Tune!SelectFilter

\* A set of filters selected, that of mode m: its filter is the entry's, unless the
\* mode was picked from the menu.
LEMMA SelectFilters ==
  ASSUME Tune!BandPlan, NEW r, Sound(r), NEW m \in TuneModes
  PROVE  LET s == Tune!SelectFilters(r, m) IN
         /\ Tuned(r, s) /\ s.set = m /\ s.mode = r.mode /\ s.flag = r.flag
         /\ s.dsp.mode = r.dsp.mode /\ s.menu.mode = r.menu.mode
         /\ s.menu.filter = s.sel[m] /\ s.shown = Tune!Passband(s.mode, s.sel[m])
         /\ Tune!Now(s).filter = s.sel[m]
<1> DEFINE q == [r EXCEPT !.set = m]
           t == Tune!UpdateFiltersMenu(q, Tune!Now(q).filter)
           u == Tune!KeepFilter(t)
           s == Tune!SelectFilter(u, u.sel[u.set])
<1>1. q \in Receivers
  BY DEF Sound, Receivers
<1>2. /\ SameBook(r, q) /\ SameTuning(r, q) /\ q.set = m /\ q.mode = r.mode /\ q.flag = r.flag
      /\ q.dsp.mode = r.dsp.mode /\ q.menu.mode = r.menu.mode /\ q.sel = r.sel
  BY DEF Sound, Receivers, SameBook, SamePlace, SameTuning
<1>q. s = Tune!SelectFilters(r, m)
  BY DEF Tune!SelectFilters, Tune!FiltersChanged, Tune!SelectAgain
<1> HIDE DEF q
<1>3. Sound(q) /\ Tune!Now(q) = Tune!Now(r) /\ OthersKept(r, q) /\ SamePlace(r, q)
  BY <1>1, <1>2, SameNow DEF Sound, Placed, SameBook, SamePlace
<1>4. Tune!Now(q).filter \in TuneFilterIds /\ t = Tune!UpdateFilterMenu(q, Tune!Now(q).filter)
  BY <1>3, EntryInUse DEF Tune!UpdateFiltersMenu, Tune!UpdateFilterMenu
<1>5. Sound(t) /\ SameBook(q, t) /\ SameTuning(q, t) /\ SameMode(q, t) /\ t.sel = q.sel
  BY <1>3, <1>4, FilterMenu
<1> HIDE DEF t
<1>6. Tune!Now(t) = Tune!Now(q) /\ OthersKept(q, t) /\ SamePlace(q, t)
  BY <1>5, SameNow
<1>7. Tune!Now(t).filter \in TuneFilterIds
  BY <1>4, <1>6
<1>8. u \in Receivers /\ SameBook(t, u) /\ SameTuning(t, u) /\ SameMode(t, u)
  BY <1>5, <1>7 DEF Tune!KeepFilter, Sound, Receivers, SameBook, SamePlace, SameTuning, SameMode
<1> HIDE DEF u
<1>9. Sound(u) /\ Tune!Now(u) = Tune!Now(t) /\ OthersKept(t, u) /\ SamePlace(t, u)
  BY <1>5, <1>8, SameNow DEF Sound, Placed, SameBook, SamePlace
<1>10. u.sel[u.set] \in TuneFilterIds
  BY <1>8 DEF Receivers
<1>11. /\ Tuned(u, s) /\ SameMode(u, s) /\ s.menu.filter = u.sel[u.set]
       /\ s.sel[s.set] = u.sel[u.set] /\ Tune!Now(s).filter = u.sel[u.set]
       /\ s.shown = Tune!Passband(s.mode, u.sel[u.set])
  BY <1>9, <1>10, SelectFilter
<1> HIDE DEF s
<1>12. SamePlace(r, s) /\ OthersKept(r, s) /\ Sound(s)
  BY <1>3, <1>6, <1>9, <1>11, TouchedTwice DEF Tuned, Touched
<1>13. Tuned(r, s)
  BY <1>2, <1>3, <1>5, <1>6, <1>8, <1>9, <1>11, <1>12 DEF Tuned, Touched, SameTuning
<1>14. /\ s.set = m /\ s.mode = r.mode /\ s.flag = r.flag /\ s.dsp.mode = r.dsp.mode
       /\ s.menu.mode = r.menu.mode
  BY <1>2, <1>5, <1>8, <1>11 DEF SameMode
<1> QED BY <1>11, <1>13, <1>14, <1>q

\* modeChanged: the filters of mode m, and the server told of it.
LEMMA ModeChanged ==
  ASSUME Tune!BandPlan, NEW r, Sound(r), NEW m \in TuneModes
  PROVE  LET s == Tune!ModeChanged(r, m) IN
         /\ Tuned(r, s) /\ s.set = m /\ s.mode = r.mode /\ s.flag = r.flag
         /\ s.dsp.mode = m /\ s.menu.mode = m /\ s.menu.filter = s.sel[m]
         /\ s.shown = Tune!Passband(s.mode, s.sel[m]) /\ Tune!Now(s).filter = s.sel[m]
<1> DEFINE t == Tune!SelectFilters(r, m)
           u == Tune!UpdateModeMenu(t, m)
           s == [u EXCEPT !.dsp.mode = m, !.dsp.pass = Tune!ModeDefault(m)]
<1>1. /\ Tuned(r, t) /\ t.set = m /\ t.mode = r.mode /\ t.flag = r.flag
      /\ t.menu.filter = t.sel[m] /\ t.shown = Tune!Passband(t.mode, t.sel[m])
      /\ Tune!Now(t).filter = t.sel[m]
  BY SelectFilters
<1>q. s = Tune!ModeChanged(r, m)
  BY DEF Tune!ModeChanged
<1> HIDE DEF t
<1>2. /\ Sound(u) /\ SameBook(t, u) /\ SameTuning(t, u) /\ SameFilter(t, u)
      /\ u.set = t.set /\ u.mode = t.mode /\ u.flag = t.flag /\ u.menu.mode = m
  BY <1>1, ModeMenu DEF Tuned, Touched
<1> HIDE DEF u
<1>3. Tune!ModeDefault(m) \in Pairs
  BY ModeDefaultPair
<1>4. s \in Receivers
  BY <1>2, <1>3 DEF Sound, Receivers
<1>5. /\ SameBook(u, s) /\ SameTuning(u, s) /\ SameFilter(u, s) /\ s.set = u.set
      /\ s.mode = u.mode /\ s.flag = u.flag /\ s.menu.mode = m /\ s.dsp.mode = m
  BY <1>2 DEF Sound, Receivers, SameBook, SamePlace, SameTuning, SameFilter
<1> HIDE DEF s
<1>6. /\ Tune!Now(u) = Tune!Now(t) /\ OthersKept(t, u) /\ SamePlace(t, u)
      /\ Tune!Now(s) = Tune!Now(u) /\ OthersKept(u, s) /\ SamePlace(u, s)
  BY <1>2, <1>5, SameNow
<1>7. Sound(s)
  BY <1>2, <1>4, <1>6 DEF Sound, Placed, SamePlace
<1>8. SamePlace(r, s) /\ OthersKept(r, s)
  BY <1>1, <1>6, TouchedTwice DEF Tuned, Touched
<1>9. Tuned(r, s)
  BY <1>1, <1>2, <1>5, <1>6, <1>7, <1>8 DEF Tuned, Touched, SameTuning
<1> QED BY <1>1, <1>2, <1>5, <1>6, <1>9, <1>q DEF SameFilter

\* setMode: everything follows the mode.
LEMMA SetMode ==
  ASSUME Tune!BandPlan, NEW r, Sound(r), NEW m \in TuneModes
  PROVE  LET s == Tune!SetMode(r, m) IN
         Tuned(r, s) /\ Listening(s) /\ s.flag = r.flag /\ s.mode = m
         /\ Tune!Now(s).filter = s.sel[s.set]
<1> DEFINE t == [r EXCEPT !.mode = m]
           s == Tune!ModeChanged(t, m)
<1>1. t \in Receivers
  BY DEF Sound, Receivers
<1>2. SameBook(r, t) /\ SameTuning(r, t) /\ t.mode = m /\ t.flag = r.flag
  BY DEF Sound, Receivers, SameBook, SamePlace, SameTuning
<1>q. s = Tune!SetMode(r, m)
  BY DEF Tune!SetMode
<1> HIDE DEF t
<1>3. Sound(t) /\ Tune!Now(t) = Tune!Now(r) /\ OthersKept(r, t) /\ SamePlace(r, t)
  BY <1>1, <1>2, SameNow DEF Sound, Placed, SameBook, SamePlace
<1>4. /\ Tuned(t, s) /\ s.set = m /\ s.mode = t.mode /\ s.flag = t.flag
      /\ s.dsp.mode = m /\ s.menu.mode = m /\ s.menu.filter = s.sel[m]
      /\ s.shown = Tune!Passband(s.mode, s.sel[m]) /\ Tune!Now(s).filter = s.sel[m]
  BY <1>3, ModeChanged
<1> HIDE DEF s
<1>5. Tuned(r, s)
  BY <1>2, <1>3, <1>4, TouchedTwice DEF Tuned, Touched, SameTuning
<1>6. Listening(s)
  BY <1>2, <1>4 DEF Listening
<1> QED BY <1>2, <1>4, <1>5, <1>6, <1>q

\* The frequency of radio and server set, in either of two ways, and shown.
LEMMA Retuned ==
  ASSUME Tune!BandPlan, NEW r, Sound(r), NEW f \in Int
  PROVE  LET s == Tune!Retuned(r, f) IN
         /\ Sound(s) /\ SameBook(r, s) /\ SameMode(r, s) /\ SameFilter(r, s)
         /\ s.frequency = f /\ s.dsp.freq = f /\ s.menu.band = r.menu.band
<1> DEFINE s == Tune!Retuned(r, f)
<1>1. s \in Receivers
  BY DEF Sound, Receivers, Tune!Retuned
<1>2. /\ SameBook(r, s) /\ SameMode(r, s) /\ SameFilter(r, s)
      /\ s.frequency = f /\ s.dsp.freq = f /\ s.menu.band = r.menu.band
  BY DEF Sound, Receivers, Tune!Retuned, SameBook, SamePlace, SameMode, SameFilter
<1> HIDE DEF s
<1>3. Sound(s)
  BY <1>1, <1>2 DEF Sound, Placed, SameBook, SamePlace
<1> QED BY <1>2, <1>3 DEF s

\* Outside every band the panadapter moves and the band shown follows, no entry.
LEMMA Panned ==
  ASSUME Tune!BandPlan, NEW r, Sound(r), NEW f \in Int
  PROVE  LET s == Tune!Panned(r, f) IN
         /\ Sound(s) /\ SameBook(r, s) /\ SameMode(r, s) /\ SameFilter(r, s)
         /\ s.frequency = r.frequency /\ s.dsp.freq = r.dsp.freq /\ s.menu.band = s.band
<1> DEFINE t == [r EXCEPT !.pan = f]
           u == Tune!UpdateVfo(t, f)
           s == Tune!UpdateBandMenu(u, r.band)
<1>1. Sound(t) /\ SameBook(r, t) /\ SameTuning(r, t) /\ SameMode(r, t) /\ SameFilter(r, t)
  BY Display
<1>q. s = Tune!Panned(r, f)
  BY DEF Tune!Panned
<1> HIDE DEF t
<1>2. Sound(u) /\ SameBook(t, u) /\ SameTuning(t, u) /\ SameMode(t, u) /\ SameFilter(t, u)
  BY <1>1, Display
<1> HIDE DEF u
<1>3. r.band \in TuneBands
  BY DEF Sound, Receivers
<1>4. /\ Sound(s) /\ SameBook(u, s) /\ SameMode(u, s) /\ SameFilter(u, s)
      /\ s.frequency = u.frequency /\ s.dsp.freq = u.dsp.freq /\ s.menu.band = r.band
  BY <1>2, <1>3, BandMenu
<1> HIDE DEF s
<1>5. SameBook(r, s)
  BY <1>1, <1>2, <1>4 DEF SameBook, SamePlace
<1>6. SameMode(r, s) /\ SameFilter(r, s)
  BY <1>1, <1>2, <1>4 DEF SameMode, SameFilter
<1> QED BY <1>1, <1>2, <1>4, <1>5, <1>6, <1>q DEF SameTuning, SameBook, SamePlace

\* Within the band in use every copy of the frequency is the one tuned to.
LEMMA TunedWithin ==
  ASSUME Tune!BandPlan, NEW r, Sound(r), NEW f \in Int, Within(r.band, f)
  PROVE  LET s == Tune!TunedWithin(r, f) IN
         /\ Touched(r, s) /\ SameMode(r, s) /\ SameFilter(r, s)
         /\ s.frequency = f /\ s.dsp.freq = f /\ s.menu.band = s.band /\ Tune!Now(s).freq = f
<1> DEFINE t == Tune!Retuned(r, f)
           u == Tune!PutFrequency(t, f)
           s == Tune!Panned(u, f)
<1>1. /\ Sound(t) /\ SameBook(r, t) /\ SameMode(r, t) /\ SameFilter(r, t)
      /\ t.frequency = f /\ t.dsp.freq = f
  BY Retuned
<1>q. s = Tune!TunedWithin(r, f)
  BY DEF Tune!TunedWithin
<1> HIDE DEF t
<1>2. t.band = r.band /\ OthersKept(r, t) /\ SamePlace(r, t)
  BY <1>1, SameNow
<1>3. /\ Touched(t, u) /\ SameTuning(t, u) /\ SameMode(t, u) /\ SameFilter(t, u)
      /\ Tune!Now(u).freq = f
  BY <1>1, <1>2, PutFrequency
<1> HIDE DEF u
<1>4. /\ Sound(s) /\ SameBook(u, s) /\ SameMode(u, s) /\ SameFilter(u, s)
      /\ s.frequency = u.frequency /\ s.dsp.freq = u.dsp.freq /\ s.menu.band = s.band
  BY <1>3, Panned DEF Touched
<1> HIDE DEF s
<1>5. Tune!Now(s) = Tune!Now(u) /\ OthersKept(u, s) /\ SamePlace(u, s)
  BY <1>4, SameNow
<1>6. Touched(r, s)
  BY <1>2, <1>3, <1>4, <1>5, TouchedTwice DEF Touched
<1>7. SameMode(r, s) /\ SameFilter(r, s)
  BY <1>1, <1>3, <1>4 DEF SameMode, SameFilter
<1> QED BY <1>1, <1>3, <1>4, <1>5, <1>6, <1>7, <1>q DEF SameTuning

\* Where neither the mode nor the filter changes, they still agree with the menus.
LEMMA ListeningKept ==
  ASSUME NEW r, NEW s, SameMode(r, s), SameFilter(r, s), Listening(r)
  PROVE  Listening(s)
BY DEF SameMode, SameFilter, Listening

\* bandChanged: the mode, the filter and the frequency of the entry in use.
LEMMA BandChanged ==
  ASSUME Tune!BandPlan, NEW r, Sound(r), r.flag = FALSE
  PROVE  LET s == Tune!BandChanged(r) IN
         /\ Touched(r, s) /\ Following(s) /\ s.frequency = Tune!Now(s).freq
         /\ Tune!Now(s).freq = Tune!Now(r).freq
<1> DEFINE q == Tune!UpdateBandMenu(r, r.band)
           t == Tune!SetMode(q, Tune!Now(r).mode)
           f == Tune!Now(t).freq
           u == [t EXCEPT !.frequency = f, !.dsp.freq = f, !.pan = f]
           s == Tune!UpdateVfo(u, f)
<1>1. r.band \in TuneBands /\ Tune!Now(r).mode \in TuneModes
  BY EntryInUse
<1>2. Sound(q) /\ SameBook(r, q) /\ SameMode(r, q) /\ q.menu.band = r.band
  BY <1>1, BandMenu
<1>q. Tune!BandChanged(r) = Tune!BandTuned(Tune!BandFilter(t))
  BY DEF Tune!BandChanged
<1> HIDE DEF q
<1>3. /\ Tuned(q, t) /\ Listening(t) /\ t.flag = q.flag /\ Tune!Now(t).filter = t.sel[t.set]
  BY <1>1, <1>2, SetMode
<1> HIDE DEF t
<1>4. Tune!BandChanged(r) = s
  <2>1. Tune!BandFilter(t) = t
    BY <1>3 DEF Tune!BandFilter
  <2>2. Tune!BandTuned(t) = s
    BY DEF Tune!BandTuned, Tune!Tuned
  <2> QED BY <1>q, <2>1, <2>2
<1>5. Sound(t) /\ f \in Int
  BY <1>3, EntryInUse DEF Tuned, Touched
<1> HIDE DEF f
<1>6. u \in Receivers
  BY <1>5 DEF Sound, Receivers
<1>7. /\ SameBook(t, u) /\ SameMode(t, u) /\ SameFilter(t, u)
      /\ u.frequency = f /\ u.dsp.freq = f /\ u.menu.band = t.menu.band
  BY <1>5 DEF Sound, Receivers, SameBook, SamePlace, SameMode, SameFilter
<1> HIDE DEF u
<1>8. Sound(u)
  BY <1>5, <1>6, <1>7 DEF Sound, Placed, SameBook, SamePlace
<1>9. Sound(s) /\ SameBook(u, s) /\ SameTuning(u, s) /\ SameMode(u, s) /\ SameFilter(u, s)
  BY <1>5, <1>8, Display
<1> HIDE DEF s
<1>10. /\ Tune!Now(s) = Tune!Now(u) /\ OthersKept(u, s) /\ SamePlace(u, s)
       /\ Tune!Now(u) = Tune!Now(t) /\ OthersKept(t, u) /\ SamePlace(t, u)
       /\ Tune!Now(q) = Tune!Now(r) /\ OthersKept(r, q) /\ SamePlace(r, q)
  BY <1>2, <1>7, <1>9, SameNow
<1>11. SamePlace(r, s) /\ OthersKept(r, s)
  BY <1>3, <1>10, TouchedTwice DEF Tuned, Touched
<1>12. Listening(s)
  BY <1>3, <1>7, <1>9, ListeningKept
<1>13. s.flag = FALSE
  BY <1>2, <1>3, <1>7, <1>9 DEF SameMode
<1>14. s.dsp.freq = s.frequency /\ s.frequency = f /\ s.menu.band = s.band
  BY <1>2, <1>3, <1>7, <1>9, <1>11 DEF SameTuning, Tuned, SamePlace
<1>15. Tune!Now(s).freq = f /\ f = Tune!Now(r).freq
  BY <1>3, <1>10 DEF f, Tuned
<1> QED BY <1>4, <1>9, <1>11, <1>12, <1>13, <1>14, <1>15 DEF Following, Touched

\* The quick memories of the bands but WWV are none of the entries in use.
LEMMA MemoriesApart ==
  ASSUME Tune!BandPlan, NEW r, Sound(r), NEW s, OthersKept(r, s)
  PROVE  MemoriesSame(r, s)
<1> SUFFICES ASSUME NEW b \in TuneBands \ {"WWV"}, NEW x \in 0 .. TuneMemories[b]
             PROVE  s.entry[b][x + 1] = r.entry[b][x + 1]
  BY DEF MemoriesSame
<1>1. Tune!Last(b) = TuneMemories[b] + 1 /\ TuneMemories[b] \in Nat
  BY Plan
<1>2. x \in 0 .. Tune!Last(b) /\ x # Tune!Last(b)
  BY <1>1
<1>3. b # r.band \/ x # r.working
  BY <1>2 DEF Sound, Placed
<1> QED BY <1>2, <1>3 DEF OthersKept

\* Two steps that write no memory write none together.
LEMMA MemoriesTwice ==
  ASSUME NEW r, NEW s, NEW t, MemoriesSame(r, s), MemoriesSame(s, t)
  PROVE  MemoriesSame(r, t)
BY DEF MemoriesSame

\* Another band: its working entry, or where WWV was left.
LEMMA MoveTo ==
  ASSUME Tune!BandPlan, NEW r, Sound(r), NEW b \in TuneBands
  PROVE  LET s == Tune!MoveTo(r, b) IN
         /\ Sound(s) /\ SameTuning(r, s) /\ SameMode(r, s) /\ SameFilter(r, s)
         /\ s.band = b /\ s.entry = r.entry
         /\ b # "WWV" => s.working = Tune!Last(b)
<1> DEFINE s == Tune!MoveTo(r, b)
           w == IF b = "WWV" THEN r.browse["WWV"] ELSE Tune!Last(b)
<1>1. w \in Nat /\ w \in 0 .. Tune!Last(b) /\ (b # "WWV" => w = Tune!Last(b))
  BY Plan DEF Sound, Receivers, Placed
<1>2. s = [r EXCEPT !.band = b, !.working = w]
  BY DEF Tune!MoveTo, Tune!Wwv
<1> HIDE DEF w, s
<1>3. s \in Receivers
  BY <1>1, <1>2 DEF Sound, Receivers
<1>4. /\ SameTuning(r, s) /\ SameMode(r, s) /\ SameFilter(r, s) /\ s.entry = r.entry
      /\ s.band = b /\ s.working = w /\ s.browse = r.browse /\ s.store = r.store
  BY <1>2 DEF Sound, Receivers, SameTuning, SameMode, SameFilter
<1>5. Sound(s)
  BY <1>1, <1>3, <1>4 DEF Sound, Placed
<1> QED BY <1>1, <1>4, <1>5 DEF s

\* A frequency carried to the working entry of its band.
LEMMA Carried ==
  ASSUME Tune!BandPlan, NEW r, Sound(r), NEW b \in TuneBands, NEW f \in Int, Within(b, f)
  PROVE  LET s == Tune!Carry(r, b, f) IN
         /\ Sound(s) /\ SamePlace(r, s) /\ SameMode(r, s) /\ MemoriesSame(r, s)
         /\ s.entry[b][Tune!Last(b) + 1].freq = f
<1> DEFINE v == [Tune!Now(r) EXCEPT !.freq = f]
           s == Put(r, b, Tune!Last(b), v)
<1>1. v \in Tune!Entry /\ v.freq = f
  BY EntryInUse DEF Tune!Entry
<1>2. Tune!Carry(r, b, f) = s
  BY DEF Tune!Carry, Put
<1>3. \A c \in TuneBands : /\ TuneMemories[c] \in Nat /\ Tune!Last(c) = TuneMemories[c] + 1
                           /\ Tune!Last(c) \in 0 .. Tune!Last(c)
  BY Plan
<1> HIDE DEF v
<1>4. /\ Sound(s) /\ SamePlace(r, s) /\ SameMode(r, s) /\ s.entry[b][Tune!Last(b) + 1] = v
      /\ \A c \in TuneBands : \A y \in 0 .. Tune!Last(c) :
           c # b \/ y # Tune!Last(b) => s.entry[c][y + 1] = r.entry[c][y + 1]
  BY <1>1, <1>3, EntryPut
<1> HIDE DEF s
<1>5. \A c \in TuneBands \ {"WWV"} : \A x \in 0 .. TuneMemories[c] :
        x \in 0 .. Tune!Last(c) /\ x # Tune!Last(c)
  BY <1>3
<1>6. MemoriesSame(r, s)
  BY <1>4, <1>5 DEF MemoriesSame
<1> QED BY <1>1, <1>2, <1>4, <1>6

\* Moving to a band with a working entry tunes to that entry.
LEMMA MovedTo ==
  ASSUME Tune!BandPlan, NEW r, Sound(r), r.flag = FALSE, NEW b \in TuneBands \ {"WWV"}
  PROVE  LET s == Tune!MovedTo(r, b) IN
         /\ Sound(s) /\ Following(s) /\ MemoriesSame(r, s) /\ s.band = b
         /\ Tune!Now(s).freq = r.entry[b][Tune!Last(b) + 1].freq
<1> DEFINE q == Tune!MoveTo(r, b)
           t == Tune!BandChanged(q)
           u == Tune!TunedWithin(t, t.frequency)
           s == Tune!MovedTo(r, b)
<1>1. s = IF t.mode \in Tune!Cw THEN u ELSE t
  BY DEF Tune!MovedTo
<1>2. /\ Sound(q) /\ SameMode(r, q) /\ q.band = b /\ q.entry = r.entry
      /\ q.working = Tune!Last(b)
  BY MoveTo
<1> HIDE DEF q, s
<1>3. q.flag = FALSE /\ MemoriesSame(r, q)
      /\ Tune!Now(q) = r.entry[b][Tune!Last(b) + 1]
  BY <1>2 DEF SameMode, MemoriesSame, Tune!Now
<1>4. /\ Touched(q, t) /\ Following(t) /\ t.frequency = Tune!Now(t).freq
      /\ Tune!Now(t).freq = Tune!Now(q).freq
  BY <1>2, <1>3, BandChanged
<1> HIDE DEF t
<1>5. t.band = b /\ MemoriesSame(r, t) /\ Sound(t)
  BY <1>2, <1>3, <1>4, MemoriesApart, MemoriesTwice DEF Touched, SamePlace
<1>6. CASE t.mode \in Tune!Cw
  <2>1. t.frequency \in Int /\ Within(t.band, t.frequency)
    BY <1>4, <1>5, EntryInUse
  <2>2. /\ Touched(t, u) /\ SameMode(t, u) /\ SameFilter(t, u) /\ u.frequency = t.frequency
        /\ u.dsp.freq = t.frequency /\ u.menu.band = u.band /\ Tune!Now(u).freq = t.frequency
    BY <1>5, <2>1, TunedWithin
  <2> HIDE DEF u
  <2>3. u.band = b /\ MemoriesSame(r, u) /\ Sound(u)
    BY <1>5, <2>2, MemoriesApart, MemoriesTwice DEF Touched, SamePlace
  <2>4. Following(u)
    BY <1>4, <2>2, ListeningKept DEF Following, SameMode
  <2> QED BY <1>1, <1>3, <1>4, <1>6, <2>2, <2>3, <2>4
          DEF s
<1>7. CASE t.mode \notin Tune!Cw
  BY <1>1, <1>3, <1>4, <1>5, <1>7 DEF s
<1> QED BY <1>6, <1>7

\* setFrequency of Band: the entry in use of the frequency's band holds it.
LEMMA BandFrequency ==
  ASSUME Tune!BandPlan, NEW r, Sound(r), r.flag = FALSE, NEW f \in Int
  PROVE  LET s == Tune!BandFrequency(r, f) IN
         /\ Sound(s) /\ MemoriesSame(r, s) /\ s.flag = FALSE
         /\ Listening(r) => Listening(s)
         /\ Following(s) \/ (SameTuning(r, s) /\ s.band = r.band)
<1> DEFINE b == Tune!BandOf(f)
           s == Tune!BandFrequency(r, f)
<1>1. b \in TuneBands \ {"WWV"} /\ Within(b, f)
  BY BandOfFrequency
<1>2. s = IF b = r.band THEN Tune!PutFrequency(r, f) ELSE Tune!MovedTo(Tune!Carry(r, b, f), b)
  BY DEF Tune!BandFrequency
<1> HIDE DEF b, s
<1>3. CASE b = r.band
  <2>1. Touched(r, s) /\ SameTuning(r, s) /\ SameMode(r, s) /\ SameFilter(r, s)
    BY <1>1, <1>2, <1>3, PutFrequency
  <2>2. MemoriesSame(r, s)
    BY <2>1, MemoriesApart DEF Touched
  <2>3. s.flag = FALSE /\ s.band = r.band /\ Sound(s)
    BY <2>1 DEF SameMode, Touched, SamePlace
  <2> QED BY <2>1, <2>2, <2>3, ListeningKept DEF s
<1>4. CASE b # r.band
  <2> DEFINE q == Tune!Carry(r, b, f)
  <2>1. Sound(q) /\ SameMode(r, q) /\ MemoriesSame(r, q)
    BY <1>1, Carried
  <2> HIDE DEF q
  <2>2. q.flag = FALSE
    BY <2>1 DEF SameMode
  <2>3. Sound(Tune!MovedTo(q, b)) /\ Following(Tune!MovedTo(q, b))
        /\ MemoriesSame(q, Tune!MovedTo(q, b))
    BY <1>1, <2>1, <2>2, MovedTo
  <2>4. s = Tune!MovedTo(q, b)
    BY <1>2, <1>4 DEF q
  <2>5. MemoriesSame(r, s) /\ s.flag = FALSE /\ Listening(s)
    BY <2>1, <2>3, <2>4, MemoriesTwice DEF Following
  <2> QED BY <2>3, <2>4, <2>5 DEF s
<1> QED BY <1>3, <1>4

\* frequencyChanged: radio, server, stack and menus are tuned to the frequency.
LEMMA FrequencyChanged ==
  ASSUME Tune!BandPlan, NEW r, Sound(r), r.flag = FALSE, NEW f \in Int
  PROVE  LET s == Tune!FrequencyChanged(r, f) IN
         Sound(s) /\ MemoriesSame(r, s) /\ (Listening(r) => Following(s))
<1> DEFINE q == Tune!Retuned(r, f)
           t == Tune!BandFrequency(q, f)
           s == Tune!Panned(t, f)
<1>1. /\ Sound(q) /\ SameBook(r, q) /\ SameMode(r, q) /\ SameFilter(r, q)
      /\ q.frequency = f /\ q.dsp.freq = f
  BY Retuned
<1>q. s = Tune!FrequencyChanged(r, f)
  BY DEF Tune!FrequencyChanged
<1> HIDE DEF q
<1>2. q.flag = FALSE
  BY <1>1 DEF SameMode
<1>3. /\ Sound(t) /\ MemoriesSame(q, t) /\ t.flag = FALSE /\ (Listening(q) => Listening(t))
      /\ Following(t) \/ SameTuning(q, t)
  BY <1>1, <1>2, BandFrequency
<1> HIDE DEF t
<1>4. /\ Sound(s) /\ SameBook(t, s) /\ SameMode(t, s) /\ SameFilter(t, s)
      /\ s.frequency = t.frequency /\ s.dsp.freq = t.dsp.freq /\ s.menu.band = s.band
  BY <1>3, Panned
<1> HIDE DEF s
<1>5. OthersKept(r, q) /\ OthersKept(t, s)
  BY <1>1, <1>4, SameNow
<1>6. MemoriesSame(r, s)
  BY <1>1, <1>3, <1>5, MemoriesApart, MemoriesTwice
<1>7. ASSUME Listening(r) PROVE Following(s)
  <2>1. Listening(s)
    BY <1>1, <1>3, <1>4, <1>7, ListeningKept
  <2>2. s.flag = FALSE
    BY <1>3, <1>4 DEF SameMode
  <2>3. t.dsp.freq = t.frequency
    BY <1>1, <1>3 DEF Following, SameTuning
  <2> QED BY <1>4, <2>1, <2>2, <2>3 DEF Following
<1> QED BY <1>4, <1>6, <1>7, <1>q

\* One memory of the band in use is made the entry in use.
Stored(r, s) ==
  /\ r.band # "WWV"
  /\ \E x \in 0 .. TuneMemories[r.band] :
       /\ s.entry[r.band][x + 1] = Tune!Now(r)
       /\ \A b \in TuneBands \ {"WWV"} : \A y \in 0 .. TuneMemories[b] :
            b # r.band \/ y # x => s.entry[b][y + 1] = r.entry[b][y + 1]

\* A memory stored, then a step that writes none: that one memory is stored.
LEMMA StoredThen ==
  ASSUME Tune!BandPlan, NEW r, NEW s, NEW t, Stored(r, s), MemoriesSame(s, t), r.band \in TuneBands
  PROVE  Stored(r, t)
BY DEF Stored, MemoriesSame

\* Band::memCopy to a memory: the entry in use goes there and nowhere else.
LEMMA ToMemory ==
  ASSUME Tune!BandPlan, NEW r, Sound(r), r.band # "WWV", NEW x \in 0 .. TuneMemories[r.band]
  PROVE  LET s == Tune!ToMemory(r, x) IN
         /\ Sound(s) /\ SamePlace(r, s) /\ SameTuning(r, s) /\ SameMode(r, s) /\ SameFilter(r, s)
         /\ Stored(r, s)
<1> DEFINE v == Tune!Now(r)
           b == r.band
           s == Put(r, b, x, v)
<1>1. b \in TuneBands /\ v \in Tune!Entry /\ Within(b, v.freq)
  BY EntryInUse
<1>2. \A c \in TuneBands : /\ TuneMemories[c] \in Nat /\ Tune!Last(c) = TuneMemories[c] + 1
  BY Plan
<1>3. x \in 0 .. Tune!Last(b)
  BY <1>1, <1>2
<1>4. Tune!ToMemory(r, x) = s
  BY DEF Tune!ToMemory, Put
<1> HIDE DEF v
<1>5. /\ Sound(s) /\ SamePlace(r, s) /\ SameTuning(r, s) /\ SameMode(r, s) /\ SameFilter(r, s)
      /\ s.entry[b][x + 1] = v
      /\ \A c \in TuneBands : \A y \in 0 .. Tune!Last(c) :
           c # b \/ y # x => s.entry[c][y + 1] = r.entry[c][y + 1]
  BY <1>1, <1>3, EntryPut
<1> HIDE DEF s
<1>6. \A c \in TuneBands \ {"WWV"} : \A y \in 0 .. TuneMemories[c] : y \in 0 .. Tune!Last(c)
  BY <1>2
<1>7. \A c \in TuneBands \ {"WWV"} : \A y \in 0 .. TuneMemories[c] :
        c # r.band \/ y # x => s.entry[c][y + 1] = r.entry[c][y + 1]
  BY <1>5, <1>6
<1>8. Stored(r, s)
  BY <1>5, <1>7 DEF Stored, v
<1> QED BY <1>4, <1>5, <1>8

\* The same band again: the entry in use may be put back, and the next memory is
\* taken.
Kept(r, s) == MemoriesSame(r, s) \/ Stored(r, s)

\* Band::selectBand of the band in use stores at most the memory it leaves.
LEMMA StepMemory ==
  ASSUME Tune!BandPlan, NEW r, Sound(r), NEW fromVfo
  PROVE  LET s == Tune!StepMemory(r, fromVfo) IN
         Sound(s) /\ SameMode(r, s) /\ Kept(r, s)
<1> DEFINE b == r.band
           kept == IF ~fromVfo /\ b # "WWV" THEN Tune!ToMemory(r, r.browse[b]) ELSE r
           last == IF b = "WWV" THEN Tune!Last("WWV") ELSE TuneMemories[b]
           next == IF r.browse[b] + 1 > last THEN 0 ELSE r.browse[b] + 1
           here == [kept EXCEPT !.browse[b] = next]
           s == Tune!StepMemory(r, fromVfo)
<1>1. s = IF b = "WWV" THEN [here EXCEPT !.working = next] ELSE Tune!FromMemory(here, next)
  BY DEF Tune!StepMemory, Tune!Wwv
<1> HIDE DEF s
<1>2. /\ b \in TuneBands /\ TuneMemories[b] \in Nat /\ Tune!Last(b) = TuneMemories[b] + 1
      /\ r.browse[b] \in 0 .. Tune!Last(b) /\ (b # "WWV" => r.browse[b] \in 0 .. TuneMemories[b])
  BY Plan, EntryInUse DEF Sound, Placed
<1>3. next \in 0 .. last /\ next \in Nat /\ next \in 0 .. Tune!Last(b)
  BY <1>2
<1>4. /\ Sound(kept) /\ SamePlace(r, kept) /\ SameMode(r, kept)
      /\ MemoriesSame(r, kept) \/ Stored(r, kept)
  <2>1. CASE ~fromVfo /\ b # "WWV"
    <3>1. r.browse[b] \in 0 .. TuneMemories[b]
      BY <1>2, <2>1
    <3>2. /\ Sound(Tune!ToMemory(r, r.browse[b])) /\ SamePlace(r, Tune!ToMemory(r, r.browse[b]))
          /\ SameMode(r, Tune!ToMemory(r, r.browse[b])) /\ Stored(r, Tune!ToMemory(r, r.browse[b]))
      BY <2>1, <3>1, ToMemory
    <3> QED BY <2>1, <3>2
  <2>2. CASE ~(~fromVfo /\ b # "WWV")
    BY <2>2 DEF SamePlace, SameMode, MemoriesSame
  <2> QED BY <2>1, <2>2
<1> HIDE DEF kept, next
<1>5. /\ here \in Receivers /\ here.band = b /\ here.working = r.working
      /\ here.entry = kept.entry /\ here.store = r.store /\ SameMode(kept, here)
      /\ here.browse = [r.browse EXCEPT ![b] = next]
  <2>1. here \in Receivers
    BY <1>2, <1>3, <1>4 DEF Sound, Receivers
  <2>2. /\ here.band = kept.band /\ here.working = kept.working
        /\ here.entry = kept.entry /\ here.store = kept.store /\ SameMode(kept, here)
        /\ here.browse = [kept.browse EXCEPT ![b] = next]
    BY <1>4 DEF Sound, Receivers, SameMode
  <2> QED BY <2>1, <2>2, <1>4 DEF SamePlace
<1> HIDE DEF here
<1>6. \A c \in TuneBands :
        /\ here.browse[c] \in 0 .. Tune!Last(c)
        /\ c # "WWV" => here.browse[c] \in 0 .. TuneMemories[c]
        /\ here.store[c] \in 0 .. TuneMemories[c]
  <2>1. r.browse \in [TuneBands -> Nat]
    BY DEF Sound, Receivers
  <2>2. here.browse[b] = next /\ \A c \in TuneBands : c # b => here.browse[c] = r.browse[c]
    BY <1>2, <1>5, <2>1
  <2> QED BY <1>2, <1>3, <1>5, <2>2 DEF Sound, Placed
<1>7. Sound(here)
  BY <1>5, <1>6 DEF Sound, Placed
<1>8. SameMode(r, here) /\ MemoriesSame(kept, here)
  BY <1>4, <1>5 DEF SameMode, MemoriesSame
<1>9. CASE b = "WWV"
  <2>1. s = [here EXCEPT !.working = next]
    BY <1>1, <1>9
  <2>2. /\ s \in Receivers /\ s.band = b /\ s.working = next /\ s.browse = here.browse
        /\ s.store = here.store /\ s.entry = here.entry /\ SameMode(here, s)
    BY <1>3, <1>5, <2>1 DEF Receivers, SameMode
  <2>3. Sound(s)
    BY <1>3, <1>6, <1>9, <2>2 DEF Sound, Placed
  <2>4. MemoriesSame(here, s) /\ SameMode(r, s)
    BY <1>8, <2>2 DEF MemoriesSame, SameMode
  <2>5. Kept(r, s)
    BY <1>2, <1>4, <1>8, <2>4, MemoriesTwice, StoredThen DEF Kept
  <2> QED BY <2>3, <2>4, <2>5 DEF s
<1>10. CASE b # "WWV"
  <2> DEFINE v == here.entry[b][next + 1]
             u == Put(here, here.band, here.working, v)
  <2>1. s = u
    BY <1>1, <1>5, <1>10 DEF Tune!FromMemory, Put
  <2>2. v \in Tune!Entry /\ Within(here.band, v.freq)
    <3>1. here.entry \in Books /\ Tune!Last(b) \in Nat
      BY <1>2, <1>5 DEF Receivers
    <3>2. /\ here.entry[b] \in Row(b)
          /\ \A x \in 0 .. Tune!Last(b) : Within(b, here.entry[b][x + 1].freq)
      BY <1>2, <3>1 DEF Books
    <3> QED BY <1>3, <1>5, <3>1, <3>2, SMTT(30) DEF Row
  <2> HIDE DEF v
  <2>3. Touched(here, u) /\ SameMode(here, u)
    BY <1>7, <2>2, EntryInUsePut
  <2> HIDE DEF u
  <2>4. MemoriesSame(here, s) /\ Sound(s)
    BY <1>7, <2>1, <2>3, MemoriesApart DEF Touched
  <2>5. SameMode(r, s)
    BY <1>8, <2>1, <2>3 DEF SameMode
  <2>6. Kept(r, s)
    BY <1>2, <1>4, <1>8, <2>4, MemoriesTwice, StoredThen DEF Kept
  <2> QED BY <2>4, <2>5, <2>6 DEF s
<1> QED BY <1>9, <1>10

\* A band picked, the one in use or another.
LEMMA SelectStack ==
  ASSUME Tune!BandPlan, NEW r, Sound(r), NEW b \in TuneBands, NEW fromVfo
  PROVE  LET s == Tune!SelectStack(r, b, fromVfo) IN
         Sound(s) /\ s.flag = r.flag /\ Kept(r, s)
<1> DEFINE w == IF b = "WWV" THEN r.browse[b] ELSE Tune!Last(b)
           t == [r EXCEPT !.working = w]
           s == Tune!SelectStack(r, b, fromVfo)
<1>1. s = IF r.band = b THEN Tune!StepMemory(t, fromVfo) ELSE Tune!MoveTo(r, b)
  BY DEF Tune!SelectStack, Tune!Wwv
<1> HIDE DEF s
<1>2. CASE r.band = b
  <2>1. w \in Nat /\ w \in 0 .. Tune!Last(b) /\ (b # "WWV" => w = Tune!Last(b))
    BY Plan DEF Sound, Receivers, Placed
  <2>2. b # "WWV" => w = r.working
    BY <1>2, <2>1 DEF Sound, Placed
  <2> HIDE DEF w
  <2>3. /\ t \in Receivers /\ t.band = b /\ t.working = w /\ t.browse = r.browse
        /\ t.store = r.store /\ t.entry = r.entry /\ SameMode(r, t)
    BY <1>2, <2>1 DEF Sound, Receivers, SameMode
  <2> HIDE DEF t
  <2>4. Sound(t)
    BY <2>1, <2>3 DEF Sound, Placed
  <2>5. Sound(s) /\ SameMode(t, s) /\ Kept(t, s)
    BY <1>1, <1>2, <2>4, StepMemory
  <2>6. Kept(r, s)
    BY <1>2, <2>2, <2>3, <2>5 DEF Kept, MemoriesSame, Stored, Tune!Now
  <2> QED BY <2>3, <2>5, <2>6 DEF SameMode, s
<1>3. CASE r.band # b
  <2>1. /\ Sound(Tune!MoveTo(r, b)) /\ SameMode(r, Tune!MoveTo(r, b))
        /\ Tune!MoveTo(r, b).entry = r.entry
    BY MoveTo
  <2>2. MemoriesSame(r, s)
    BY <1>1, <1>3, <2>1 DEF MemoriesSame
  <2> QED BY <1>1, <1>3, <2>1, <2>2 DEF SameMode, Kept, s
<1> QED BY <1>2, <1>3

\* A band button, whichever band it is of: the cascade ends followed.
LEMMA BandSelected ==
  ASSUME Tune!BandPlan, NEW r, Sound(r), r.flag = FALSE, NEW b \in TuneBands, NEW fromVfo
  PROVE  LET s == Tune!BandSelected(r, b, fromVfo) IN
         Sound(s) /\ Following(s) /\ Kept(r, s)
<1> DEFINE q == Tune!SelectStack(r, b, fromVfo)
           t == Tune!BandChanged(q)
           u == Tune!FrequencyChanged(t, t.frequency)
           s == Tune!BandSelected(r, b, fromVfo)
<1>1. s = IF t.mode \in Tune!Cw THEN u ELSE t
  BY DEF Tune!BandSelected, Tune!AgainInCw
<1>2. Sound(q) /\ q.flag = r.flag /\ Kept(r, q)
  BY SelectStack
<1> HIDE DEF q, s
<1>3. Touched(q, t) /\ Following(t)
  BY <1>2, BandChanged
<1> HIDE DEF t
<1>4. Sound(t) /\ MemoriesSame(q, t) /\ t.frequency \in Int /\ Listening(t) /\ t.flag = FALSE
  BY <1>2, <1>3, MemoriesApart DEF Touched, Sound, Receivers, Following
<1>5. Sound(u) /\ MemoriesSame(t, u) /\ Following(u)
  BY <1>4, FrequencyChanged
<1> HIDE DEF u
<1>6. Sound(s) /\ Following(s) /\ (s = t \/ s = u)
  BY <1>1, <1>3, <1>4, <1>5
<1>7. MemoriesSame(q, s)
  BY <1>4, <1>5, <1>6, MemoriesTwice
<1>8. Kept(r, s)
  BY <1>2, <1>7, EntryInUse, MemoriesTwice, StoredThen DEF Kept
<1> QED BY <1>6, <1>8 DEF s

\* A set of memories that is not empty has a last one.
LEMMA Greatest ==
  ASSUME NEW n \in Nat, NEW I, I \subseteq 0 .. n, I # {}
  PROVE  \E x \in I : \A y \in I : y <= x
<1> DEFINE D == {n - x : x \in I}
<1>1. D \subseteq Nat /\ D # {}
  <2>1. \A x \in I : n - x \in Nat
    OBVIOUS
  <2>2. PICK x \in I : TRUE
    OBVIOUS
  <2>3. n - x \in D
    BY <2>2
  <2>4. \A d \in D : d \in Nat
    BY <2>1
  <2> QED BY <2>3, <2>4
<1> HIDE DEF D
<1>2. IsWellFoundedOn(OpToRel(<, Nat), Nat)
  BY NatLessThanWellFounded
<1>3. PICK d \in D : \A e \in D : ~(<<e, d>> \in OpToRel(<, Nat))
  BY <1>1, <1>2, WFMin
<1>4. ASSUME NEW e \in D PROVE d <= e
  <2> SUFFICES ASSUME e < d PROVE FALSE
    BY <1>1
  <2>1. <<e, d>> \in Nat \X Nat /\ <<e, d>>[1] = e /\ <<e, d>>[2] = d
    BY <1>1
  <2>2. <<e, d>> \in OpToRel(<, Nat)
    BY <2>1 DEF OpToRel
  <2> QED BY <1>3, <2>2
<1>5. PICK x \in I : d = n - x
  BY DEF D
<1>6. ASSUME NEW y \in I PROVE y <= x
  <2>1. n - y \in D
    BY DEF D
  <2> QED BY <1>4, <1>5, <2>1
<1> QED BY <1>6

\* The store button.
SameBookBut(r, s) ==
  s.band = r.band /\ s.working = r.working /\ s.browse = r.browse /\ s.entry = r.entry

\* quickMemStore writes the memory that is shown, and no other.
LEMMA QuickMemStore ==
  ASSUME Tune!BandPlan, NEW r, Sound(r)
  PROVE  LET s == Tune!QuickMemStore(r) IN
         /\ Sound(s) /\ SameTuning(r, s) /\ SameMode(r, s) /\ SameFilter(r, s) /\ s.band = r.band
         /\ Kept(r, s)
<1> DEFINE b == r.band
           oldest == IF r.store[b] = 0 THEN TuneMemories[b] ELSE r.store[b] - 1
           same == {x \in 0 .. TuneMemories[b] : r.entry[b][x + 1] = Tune!Now(r)}
           place == IF same = {} THEN oldest
                    ELSE CHOOSE x \in same : \A y \in same : y <= x
           t == [r EXCEPT !.store[b] = place]
           s == Tune!QuickMemStore(r)
<1>1. s = IF b = "WWV" THEN r ELSE Tune!ToMemory(t, place)
  BY DEF Tune!QuickMemStore, Tune!Wwv
<1> HIDE DEF s
<1>2. b \in TuneBands /\ TuneMemories[b] \in Nat /\ r.store[b] \in 0 .. TuneMemories[b]
  BY Plan, EntryInUse DEF Sound, Placed
<1>3. place \in 0 .. TuneMemories[b]
  <2>1. oldest \in 0 .. TuneMemories[b]
    BY <1>2
  <2>2. ASSUME same # {} PROVE \E x \in same : \A y \in same : y <= x
    <3>1. same \subseteq 0 .. TuneMemories[b]
      OBVIOUS
    <3> HIDE DEF same
    <3> QED BY <1>2, <2>2, <3>1, Greatest
  <2> HIDE DEF oldest
  <2> QED BY <2>1, <2>2
<1> HIDE DEF place
<1>4. CASE b = "WWV"
  BY <1>1, <1>4 DEF SameTuning, SameMode, SameFilter, Kept, MemoriesSame, s
<1>5. CASE b # "WWV"
  <2>1. /\ t \in Receivers /\ SameBookBut(r, t) /\ t.store = [r.store EXCEPT ![b] = place]
        /\ SameTuning(r, t) /\ SameMode(r, t) /\ SameFilter(r, t)
    BY <1>2, <1>3 DEF Sound, Receivers, SameBookBut, SameTuning, SameMode, SameFilter
  <2> HIDE DEF t
  <2>2. \A c \in TuneBands : t.store[c] \in 0 .. TuneMemories[c]
    <3>1. r.store \in [TuneBands -> Nat]
      BY DEF Sound, Receivers
    <3> QED BY <1>2, <1>3, <2>1, <3>1 DEF Sound, Placed
  <2>3. Sound(t)
    BY <2>1, <2>2 DEF Sound, Placed, SameBookBut
  <2> DEFINE u == Tune!ToMemory(t, place)
  <2>4. /\ Sound(u) /\ SamePlace(t, u) /\ SameTuning(t, u) /\ SameMode(t, u) /\ SameFilter(t, u)
        /\ Stored(t, u)
    BY <1>3, <1>5, <2>1, <2>3, ToMemory DEF SameBookBut
  <2> HIDE DEF u
  <2>5. Stored(r, u)
    BY <2>1, <2>4 DEF SameBookBut, Stored, Tune!Now
  <2>6. SameTuning(r, u) /\ SameMode(r, u) /\ SameFilter(r, u) /\ u.band = r.band
    BY <2>1, <2>4 DEF SameTuning, SameMode, SameFilter, SameBookBut, SamePlace
  <2> QED BY <1>1, <1>5, <2>4, <2>5, <2>6 DEF Kept, s, u
<1> QED BY <1>4, <1>5

----------------------------------------------------------------------------
(* Tuning: the start and the actions *)

TuneInv == Sound(tRx) /\ Following(tRx) /\ tActions \in 0 .. TuneMaxActions

\* A cascade ends in a state that is followed, with at most one memory written.
Cascade(s) == Sound(s) /\ Following(s) /\ Kept(tRx, s)

\* At most one memory written, then a step that writes none.
LEMMA KeptThen ==
  ASSUME Tune!BandPlan, NEW r, Sound(r), NEW s, NEW t, Kept(r, s), MemoriesSame(s, t)
  PROVE  Kept(r, t)
BY EntryInUse, MemoriesTwice, StoredThen DEF Kept

\* The slots that tune.
LEMMA TuneByFrequency ==
  ASSUME Tune!BandPlan, TuneInv,
         \/ Tune!PickBand \/ Tune!PickVfoBand \/ Tune!StoreMemory \/ Tune!Move
         \/ Tune!EnterKeypad \/ Tune!RigSetFrequency
  PROVE  Cascade(tRx')
<1>1. Sound(tRx) /\ Following(tRx) /\ tRx.flag = FALSE /\ Listening(tRx)
  BY DEF TuneInv, Following
<1>2. CASE Tune!PickBand \/ Tune!PickVfoBand
  <2>1. PICK b \in TuneBands, v \in BOOLEAN : tRx' = Tune!BandSelected(tRx, b, v)
    BY <1>2 DEF Tune!PickBand, Tune!PickVfoBand
  <2> QED BY <1>1, <2>1, BandSelected DEF Cascade
<1>3. CASE Tune!StoreMemory
  <2> DEFINE s == Tune!QuickMemStore(tRx)
  <2>1. tRx' = s
    BY <1>3 DEF Tune!StoreMemory
  <2>2. /\ Sound(s) /\ SameTuning(tRx, s) /\ SameMode(tRx, s) /\ SameFilter(tRx, s)
        /\ s.band = tRx.band /\ Kept(tRx, s)
    BY <1>1, QuickMemStore
  <2> HIDE DEF s
  <2>3. Following(s)
    BY <1>1, <2>2, ListeningKept DEF Following, SameTuning, SameMode
  <2> QED BY <2>1, <2>2, <2>3 DEF Cascade
<1>4. CASE Tune!Move \/ Tune!RigSetFrequency
  <2>1. PICK f \in Int : tRx' = Tune!FrequencyChanged(tRx, f)
    <3>1. TuneSteps \subseteq Int /\ TuneFrequencies \subseteq Int
      BY DEF Tune!BandPlan
    <3>2. Tune!Now(tRx).freq \in Int
      BY <1>1, EntryInUse
    <3> QED BY <1>4, <3>1, <3>2 DEF Tune!Move, Tune!RigSetFrequency
  <2> QED BY <1>1, <2>1, FrequencyChanged DEF Cascade, Kept
<1>5. CASE Tune!EnterKeypad
  <2>1. PICK f \in Int : tRx' = Tune!BandFrequency(tRx, f)
    BY <1>5 DEF Tune!EnterKeypad, Tune!BandPlan
  <2> DEFINE s == Tune!BandFrequency(tRx, f)
  <2>2. /\ Sound(s) /\ MemoriesSame(tRx, s) /\ s.flag = FALSE /\ Listening(s)
        /\ Following(s) \/ (SameTuning(tRx, s) /\ s.band = tRx.band)
    BY <1>1, BandFrequency
  <2> HIDE DEF s
  <2>3. Following(s)
    BY <1>1, <2>2 DEF Following, SameTuning
  <2> QED BY <2>1, <2>2, <2>3 DEF Cascade, Kept, s
<1> QED BY <1>2, <1>3, <1>4, <1>5

\* A state that differs from one that is followed in what lies on no path to the
\* properties.
LEMMA StillFollowing ==
  ASSUME NEW r, NEW s, Following(r), Listening(s), SameTuning(r, s), s.band = r.band,
         s.flag = FALSE
  PROVE  Following(s)
BY DEF Following, SameTuning

\* The slots that choose a mode or a filter.
LEMMA TuneByMode ==
  ASSUME Tune!BandPlan, TuneInv,
         Tune!PickMode \/ Tune!PickFilter \/ Tune!DragFilter \/ Tune!RigSetMode
  PROVE  Cascade(tRx')
<1>1. Sound(tRx) /\ Following(tRx) /\ tRx.flag = FALSE /\ Listening(tRx)
  BY DEF TuneInv, Following
<1>2. CASE Tune!PickMode
  <2> DEFINE q == [tRx EXCEPT !.flag = TRUE]
  <2>1. PICK m \in TuneModes :
          tRx' = [Tune!PutMode(Tune!SelectFilters(Tune!SetMode(q, m), m), m) EXCEPT !.flag = FALSE]
    BY <1>2 DEF Tune!PickMode
  <2> DEFINE t == Tune!SetMode(q, m)
             u == Tune!SelectFilters(t, m)
             v == Tune!PutMode(u, m)
  <2>2. q \in Receivers /\ SameBook(tRx, q) /\ SameTuning(tRx, q)
    BY <1>1 DEF Sound, Receivers, SameBook, SamePlace, SameTuning
  <2>3. tRx' = [v EXCEPT !.flag = FALSE]
    BY <2>1
  <2> HIDE DEF q
  <2>4. Sound(q) /\ OthersKept(tRx, q) /\ SamePlace(tRx, q)
    BY <1>1, <2>2, SameNow DEF Sound, Placed, SameBook, SamePlace
  <2>5. Tuned(q, t) /\ Listening(t) /\ t.mode = m
    BY <2>4, SetMode
  <2> HIDE DEF t
  <2>6. /\ Tuned(t, u) /\ u.set = m /\ u.mode = t.mode /\ u.dsp.mode = t.dsp.mode
        /\ u.menu.mode = t.menu.mode /\ u.menu.filter = u.sel[m]
        /\ u.shown = Tune!Passband(u.mode, u.sel[m])
    BY <2>5, SelectFilters DEF Tuned, Touched
  <2> HIDE DEF u
  <2>7. Listening(u)
    BY <2>5, <2>6 DEF Listening
  <2>8. Touched(u, v) /\ SameTuning(u, v) /\ SameMode(u, v) /\ SameFilter(u, v)
    BY <2>6, PutMode DEF Tuned, Touched
  <2> HIDE DEF v
  <2>9. /\ tRx' \in Receivers /\ SameBook(v, tRx') /\ SameTuning(v, tRx') /\ SameFilter(v, tRx')
        /\ tRx'.set = v.set /\ tRx'.mode = v.mode /\ tRx'.flag = FALSE
        /\ tRx'.dsp.mode = v.dsp.mode /\ tRx'.menu.mode = v.menu.mode
    BY <2>3, <2>8 DEF Touched, Sound, Receivers, SameBook, SamePlace, SameTuning, SameFilter
  <2>10. Sound(tRx') /\ OthersKept(v, tRx') /\ SamePlace(v, tRx')
    BY <2>8, <2>9, SameNow DEF Touched, Sound, Placed, SameBook, SamePlace
  <2>11. Listening(v)
    BY <2>7, <2>8, ListeningKept
  <2>12. Listening(tRx')
    BY <2>9, <2>11 DEF Listening, SameFilter
  <2>13. SamePlace(tRx, tRx') /\ OthersKept(tRx, tRx')
    BY <2>4, <2>5, <2>6, <2>8, <2>10, TouchedTwice DEF Tuned, Touched
  <2>14. SameTuning(tRx, tRx')
    BY <2>2, <2>5, <2>6, <2>8, <2>9 DEF Tuned, SameTuning
  <2>15. Following(tRx')
    BY <1>1, <2>9, <2>12, <2>13, <2>14, StillFollowing DEF SamePlace
  <2> QED BY <1>1, <2>10, <2>13, <2>15, MemoriesApart DEF Cascade, Kept
<1>3. CASE Tune!PickFilter
  <2>1. PICK i \in TuneFilterIds : tRx' = Tune!SelectFilter(tRx, i)
    BY <1>3 DEF Tune!PickFilter
  <2> DEFINE s == Tune!SelectFilter(tRx, i)
  <2>2. /\ Tuned(tRx, s) /\ SameMode(tRx, s) /\ s.menu.filter = i /\ s.sel[s.set] = i
        /\ i # 10 => s.shown = Tune!Passband(s.mode, i)
    BY <1>1, SelectFilter
  <2> HIDE DEF s
  <2>3. Listening(s) /\ s.flag = FALSE
    BY <1>1, <2>2 DEF Listening, SameMode
  <2>4. Following(s)
    BY <1>1, <2>2, <2>3, StillFollowing DEF Tuned, Touched, SamePlace
  <2> QED BY <1>1, <2>1, <2>2, <2>4, MemoriesApart DEF Cascade, Kept, Tuned, Touched, s
<1>4. CASE Tune!DragFilter
  <2> DEFINE p == <<tRx.shown[1] + 10, tRx.shown[2] + 10>>
             t == Tune!ShowPassband(tRx, p)
             u == Tune!UpdateFilterMenu(t, 10)
             v == Tune!PutFilter(u, 10)
             s == Tune!VariableFilter(tRx, p)
  <2>1. p \in Pairs
    BY <1>1 DEF Sound, Receivers, Pairs
  <2>2. tRx' = s /\ s = IF tRx.sel[tRx.set] = 10 THEN u ELSE Tune!SelectFilter(v, 10)
    BY <1>4 DEF Tune!DragFilter, Tune!VariableFilter, Tune!Variable
  <2> HIDE DEF p, s
  <2>3. /\ Sound(t) /\ SameBook(tRx, t) /\ SameTuning(tRx, t) /\ SameMode(tRx, t)
        /\ t.sel = tRx.sel
    BY <1>1, <2>1, PassbandShown
  <2> HIDE DEF t
  <2>4. 10 \in TuneFilterIds
    BY DEF Tune!BandPlan, Tune!Variable
  <2>5. /\ Sound(u) /\ SameBook(t, u) /\ SameTuning(t, u) /\ SameMode(t, u)
        /\ u.sel = t.sel /\ u.menu.filter = 10
    BY <2>3, <2>4, FilterMenu
  <2> HIDE DEF u
  <2>6. /\ OthersKept(tRx, t) /\ SamePlace(tRx, t) /\ OthersKept(t, u) /\ SamePlace(t, u)
    BY <2>3, <2>5, SameNow
  <2>7. SameMode(tRx, u) /\ SameTuning(tRx, u) /\ OthersKept(tRx, u) /\ SamePlace(tRx, u)
    BY <2>3, <2>5, <2>6, TouchedTwice DEF SameMode, SameTuning
  <2>8. CASE tRx.sel[tRx.set] = 10
    <3>1. Listening(u) /\ u.flag = FALSE
      BY <1>1, <2>3, <2>5, <2>7, <2>8 DEF Listening, SameMode
    <3>2. Following(u)
      BY <1>1, <2>7, <3>1, StillFollowing DEF SamePlace
    <3> QED BY <1>1, <2>2, <2>5, <2>7, <2>8, <3>2, MemoriesApart DEF Cascade, Kept
  <2>9. CASE tRx.sel[tRx.set] # 10
    <3> DEFINE w == Tune!SelectFilter(v, 10)
    <3>1. Touched(u, v) /\ SameTuning(u, v) /\ SameMode(u, v) /\ SameFilter(u, v)
      BY <2>4, <2>5, PutFilter
    <3> HIDE DEF v
    <3>2. /\ Tuned(v, w) /\ SameMode(v, w) /\ w.menu.filter = 10 /\ w.sel[w.set] = 10
      BY <2>4, <3>1, SelectFilter DEF Touched
    <3> HIDE DEF w
    <3>3. SameMode(tRx, w) /\ SameTuning(tRx, w)
      BY <2>7, <3>1, <3>2 DEF Tuned, SameMode, SameTuning
    <3>4. OthersKept(tRx, w) /\ SamePlace(tRx, w) /\ Sound(w)
      BY <2>7, <3>1, <3>2, TouchedTwice DEF Tuned, Touched
    <3>5. Listening(w) /\ w.flag = FALSE
      BY <1>1, <3>2, <3>3 DEF Listening, SameMode
    <3>6. Following(w)
      BY <1>1, <3>3, <3>4, <3>5, StillFollowing DEF SamePlace
    <3>7. tRx' = w
      BY <2>2, <2>9 DEF w
    <3> QED BY <1>1, <3>4, <3>6, <3>7, MemoriesApart DEF Cascade, Kept
  <2> QED BY <2>8, <2>9
<1>5. CASE Tune!RigSetMode
  <2>1. PICK m \in TuneModes : tRx' = Tune!SetMode(Tune!ModeChanged(tRx, m), m)
    BY <1>5 DEF Tune!RigSetMode
  <2> DEFINE t == Tune!ModeChanged(tRx, m)
             s == Tune!SetMode(t, m)
  <2>2. Tuned(tRx, t) /\ t.flag = FALSE
    BY <1>1, ModeChanged
  <2> HIDE DEF t
  <2>3. Tuned(t, s) /\ Listening(s) /\ s.flag = t.flag
    BY <2>2, SetMode DEF Tuned, Touched
  <2> HIDE DEF s
  <2>4. SameTuning(tRx, s) /\ SamePlace(tRx, s) /\ OthersKept(tRx, s) /\ Sound(s)
    BY <2>2, <2>3, TouchedTwice DEF Tuned, Touched, SameTuning
  <2>5. Following(s)
    BY <1>1, <2>2, <2>3, <2>4, StillFollowing DEF SamePlace
  <2> QED BY <1>1, <2>1, <2>4, <2>5, MemoriesApart DEF Cascade, Kept, s, t
<1> QED BY <1>2, <1>3, <1>4, <1>5

\* A bookmark sets band, frequency, mode and filter.
LEMMA TuneByBookmark ==
  ASSUME Tune!BandPlan, TuneInv, Tune!SelectBookmark
  PROVE  Cascade(tRx')
<1>1. PICK f \in TuneFrequencies, m \in TuneModes, i \in TuneFilterIds :
        LET placed == Tune!BandFrequency(Tune!BandSelected(tRx, Tune!BandOf(f), FALSE), f)
            shown  == Tune!UpdateVfo([placed EXCEPT !.pan = f], f)
        IN tRx' = Tune!SelectFilter(Tune!SetMode(shown, m), i)
  BY DEF Tune!SelectBookmark
<1> DEFINE b == Tune!BandOf(f)
           q == Tune!BandSelected(tRx, b, FALSE)
           t == Tune!BandFrequency(q, f)
           u == [t EXCEPT !.pan = f]
           v == Tune!UpdateVfo(u, f)
           w == Tune!SetMode(v, m)
           s == Tune!SelectFilter(w, i)
<1>2. tRx' = s
  BY <1>1
<1>3. f \in Int /\ b \in TuneBands
  <2>1. f \in Int
    BY DEF Tune!BandPlan
  <2> QED BY <2>1, BandOfFrequency
<1> HIDE DEF b
<1>4. Sound(tRx) /\ tRx.flag = FALSE
  BY DEF TuneInv, Following
<1>5. Sound(q) /\ Following(q) /\ Kept(tRx, q)
  BY <1>3, <1>4, BandSelected
<1> HIDE DEF q
<1>6. /\ Sound(t) /\ MemoriesSame(q, t) /\ t.flag = FALSE
      /\ Following(t) \/ (SameTuning(q, t) /\ t.band = q.band /\ Listening(t))
  BY <1>3, <1>5, BandFrequency DEF Following
<1> HIDE DEF t
<1>7. Following(t)
  BY <1>5, <1>6, StillFollowing
<1>8. Sound(u) /\ SameBook(t, u) /\ SameTuning(t, u) /\ SameMode(t, u) /\ SameFilter(t, u)
  BY <1>3, <1>6, Display
<1> HIDE DEF u
<1>9. Sound(v) /\ SameBook(u, v) /\ SameTuning(u, v) /\ SameMode(u, v) /\ SameFilter(u, v)
  BY <1>3, <1>8, Display
<1> HIDE DEF v
<1>10. Tuned(v, w) /\ Listening(w) /\ w.flag = v.flag
  BY <1>9, SetMode
<1> HIDE DEF w
<1>11. /\ Tuned(w, s) /\ SameMode(w, s) /\ s.menu.filter = i /\ s.sel[s.set] = i
       /\ i # 10 => s.shown = Tune!Passband(s.mode, i)
  BY <1>10, SelectFilter DEF Tuned, Touched
<1> HIDE DEF s
<1>12. /\ OthersKept(t, u) /\ SamePlace(t, u) /\ OthersKept(u, v) /\ SamePlace(u, v)
  BY <1>8, <1>9, SameNow
<1>13. OthersKept(t, s) /\ SamePlace(t, s) /\ Sound(s)
  BY <1>10, <1>11, <1>12, TouchedTwice DEF Tuned, Touched
<1>14. SameTuning(t, s)
  BY <1>8, <1>9, <1>10, <1>11 DEF Tuned, SameTuning
<1>15. Listening(s) /\ s.flag = FALSE
  BY <1>6, <1>8, <1>9, <1>10, <1>11 DEF Listening, SameMode
<1>16. Following(s)
  BY <1>7, <1>13, <1>14, <1>15, StillFollowing DEF SamePlace
<1>17. MemoriesSame(q, s)
  BY <1>6, <1>13, MemoriesApart, MemoriesTwice
<1> QED BY <1>2, <1>4, <1>5, <1>13, <1>16, <1>17, KeptThen DEF Cascade

\* The VFO buttons.
LEMMA TuneByButton ==
  ASSUME Tune!BandPlan, TuneInv, Tune!UseVfo \/ Tune!Exchange \/ Tune!AtoB \/ Tune!BtoA
  PROVE  Cascade(tRx')
<1>1. Sound(tRx) /\ Following(tRx) /\ tRx.flag = FALSE /\ Listening(tRx)
  BY DEF TuneInv, Following
<1>2. \/ \E v \in {"A", "B"} : tRx' = [tRx EXCEPT !.vfo = v]
      \/ \E d \in [{"A", "B"} -> Int] : tRx' = [tRx EXCEPT !.display = d]
  <2>1. tRx.display \in [{"A", "B"} -> Int]
    BY <1>1 DEF Sound, Receivers
  <2>2. CASE Tune!UseVfo
    BY <2>2 DEF Tune!UseVfo
  <2>3. CASE Tune!Exchange
    <3> DEFINE d == [A |-> tRx.display.B, B |-> tRx.display.A]
    <3>1. d \in [{"A", "B"} -> Int]
      BY <2>1
    <3>2. tRx' = [tRx EXCEPT !.display = d]
      BY <2>3 DEF Tune!Exchange
    <3> QED BY <3>1, <3>2
  <2>4. CASE Tune!AtoB
    <3> DEFINE d == [tRx.display EXCEPT !.B = tRx.display.A]
    <3>1. d \in [{"A", "B"} -> Int]
      BY <2>1
    <3>2. tRx' = [tRx EXCEPT !.display = d]
      BY <2>4 DEF Tune!AtoB
    <3> QED BY <3>1, <3>2
  <2>5. CASE Tune!BtoA
    <3> DEFINE d == [tRx.display EXCEPT !.A = tRx.display.B]
    <3>1. d \in [{"A", "B"} -> Int]
      BY <2>1
    <3>2. tRx' = [tRx EXCEPT !.display = d]
      BY <2>5 DEF Tune!BtoA
    <3> QED BY <3>1, <3>2
  <2> QED BY <2>2, <2>3, <2>4, <2>5
<1>3. tRx' \in Receivers
  BY <1>1, <1>2 DEF Sound, Receivers
<1>4. /\ SameBook(tRx, tRx') /\ SameTuning(tRx, tRx') /\ SameMode(tRx, tRx')
      /\ SameFilter(tRx, tRx')
  BY <1>1, <1>2 DEF Sound, Receivers, SameBook, SamePlace, SameTuning, SameMode, SameFilter
<1>5. Sound(tRx') /\ OthersKept(tRx, tRx') /\ SamePlace(tRx, tRx')
  BY <1>1, <1>3, <1>4, SameNow DEF Sound, Placed, SameBook, SamePlace
<1>6. Following(tRx')
  <2>1. Listening(tRx') /\ tRx'.flag = FALSE
    BY <1>1, <1>4, ListeningKept DEF SameMode
  <2> QED BY <1>1, <1>4, <1>5, <2>1, StillFollowing DEF SamePlace
<1> QED BY <1>1, <1>5, <1>6, MemoriesApart DEF Cascade, Kept

\* Every action is one cascade.
LEMMA TuneAct ==
  ASSUME Tune!BandPlan, TuneInv, Tune!Next
  PROVE  Cascade(tRx') /\ tActions' \in 0 .. TuneMaxActions
<1>1. Tune!Acted
  BY DEF Tune!Next, Tune!PickBand, Tune!PickVfoBand, Tune!StoreMemory, Tune!PickMode,
     Tune!PickFilter, Tune!DragFilter, Tune!Move, Tune!EnterKeypad, Tune!SelectBookmark,
     Tune!RigSetFrequency, Tune!RigSetMode, Tune!UseVfo, Tune!Exchange, Tune!AtoB, Tune!BtoA
<1>2. tActions' \in 0 .. TuneMaxActions
  <2>1. TuneMaxActions \in Nat /\ tActions \in 0 .. TuneMaxActions
    BY DEF Tune!BandPlan, TuneInv
  <2> QED BY <1>1, <2>1 DEF Tune!Acted
<1>3. Cascade(tRx')
  BY TuneByFrequency, TuneByMode, TuneByBookmark, TuneByButton DEF Tune!Next
<1> QED BY <1>2, <1>3

\* The stacks as loaded, the frequency and the mode saved, and what connecting sends.
LEMMA TuneStart ==
  ASSUME Tune!BandPlan, Tune!Init
  PROVE  TuneInv
<1>1. PICK f \in TuneFrequencies, m \in TuneModes : tRx = Tune!Started(f, m) /\ tActions = 0
  BY DEF Tune!Init
<1>2. f \in Int /\ tActions \in 0 .. TuneMaxActions
  BY <1>1 DEF Tune!BandPlan
<1> DEFINE b == Tune!BandOf(f)
           fresh == Tune!Fresh
<1>3. b \in TuneBands \ {"WWV"} /\ Within(b, f) /\ b \in TuneBands
  BY <1>2, BandOfFrequency
<1> HIDE DEF b
<1>4. TuneDefaults \in Books
  <2>1. /\ TuneDefaults \in [TuneBands -> Seq(Tune!Entry)]
        /\ \A c \in TuneBands : Len(TuneDefaults[c]) = Tune!Last(c) + 1
        /\ \A c \in Tune!LimitedBands : \A x \in 1 .. Len(TuneDefaults[c]) :
             Tune!Inside(c, TuneDefaults[c][x].freq)
    BY DEF Tune!BandPlan, Tune!Inside
  <2>2. ASSUME NEW c \in TuneBands
        PROVE  /\ TuneDefaults[c] \in Row(c)
               /\ \A x \in 0 .. Tune!Last(c) : Within(c, TuneDefaults[c][x + 1].freq)
    <3>1. TuneDefaults[c] \in Seq(Tune!Entry) /\ Len(TuneDefaults[c]) = Tune!Last(c) + 1
      BY <2>1
    <3>2. TuneDefaults[c] \in Row(c)
      BY <3>1 DEF Row
    <3>3. \A x \in 0 .. Tune!Last(c) : x + 1 \in 1 .. Len(TuneDefaults[c])
      BY <3>1, Plan
    <3> QED BY <2>1, <3>2, <3>3 DEF Within
  <2>3. TuneDefaults \in [TuneBands -> UNION {Row(c) : c \in TuneBands}]
    BY <2>1, <2>2
  <2> QED BY <2>2, <2>3 DEF Books
<1>5. fresh \in Receivers /\ fresh.band = TuneFirstBand /\ fresh.flag = FALSE
  <2> DEFINE sel == [n \in TuneModes |-> IF n \in Tune!Cw THEN 5
                                          ELSE IF n \in {"FM", "DSB"} THEN 4 ELSE 3]
             saved == [A |-> TuneSavedB, B |-> TuneSavedB]
  <2>1. {3, 4, 5} \subseteq TuneFilterIds /\ "LSB" \in TuneModes /\ TuneSavedB \in Int
    BY DEF Tune!BandPlan
  <2>2. sel \in [TuneModes -> TuneFilterIds]
    BY <2>1
  <2>3. saved \in [{"A", "B"} -> Int]
    BY <2>1
  <2>4. TuneFirstBand \in TuneBands /\ Tune!Last(TuneFirstBand) \in Nat
    BY Plan
  <2>5. fresh = [band |-> TuneFirstBand, working |-> Tune!Last(TuneFirstBand),
                 entry |-> TuneDefaults, browse |-> [c \in TuneBands |-> 0],
                 store |-> [c \in TuneBands |-> 0], mode |-> "LSB", set |-> "LSB",
                 flag |-> FALSE, sel |-> sel,
                 menu |-> [band |-> TuneFirstBand, mode |-> "LSB", filter |-> 3],
                 frequency |-> 0, pan |-> 0, shown |-> <<0, 0>>, vfo |-> "A", display |-> saved,
                 dsp |-> [freq |-> 0, mode |-> "LSB", pass |-> <<0, 0>>]]
    BY DEF Tune!Fresh
  <2> HIDE DEF sel, saved, fresh
  <2>6. <<0, 0>> \in Pairs
    BY DEF Pairs
  <2> QED BY <1>4, <2>1, <2>2, <2>3, <2>4, <2>5, <2>6 DEF Receivers
<1>6. Sound(fresh)
  <2>1. \A c \in TuneBands : TuneMemories[c] \in Nat /\ Tune!Last(c) \in Nat
    BY Plan
  <2>2. fresh.working = Tune!Last(TuneFirstBand)
        /\ fresh.browse = [c \in TuneBands |-> 0] /\ fresh.store = [c \in TuneBands |-> 0]
    BY DEF Tune!Fresh
  <2> HIDE DEF fresh
  <2>3. \A c \in TuneBands : fresh.browse[c] = 0 /\ fresh.store[c] = 0
    BY <2>2
  <2>4. TuneFirstBand \in TuneBands
    BY Plan
  <2> QED BY <1>5, <2>1, <2>2, <2>3, <2>4 DEF Sound, Placed
<1> DEFINE placed == IF b = TuneFirstBand THEN Tune!PutFrequency(fresh, f)
                     ELSE Tune!SelectStack(Tune!Carry(fresh, b, f), b, FALSE)
           q == [placed EXCEPT !.frequency = f, !.set = m, !.mode = m]
           t == Tune!PutMode(q, m)
           u == Tune!PutFrequency(t, f)
           v == Tune!UpdateVfo(u, f)
           w == Tune!UpdateBandMenu(v, b)
           pass == Tune!Passband(m, w.sel[m])
           x == [w EXCEPT !.pan = f, !.shown = pass,
                          !.dsp = [freq |-> f, mode |-> m, pass |-> pass]]
           y == Tune!UpdateFilterMenu(x, w.sel[m])
           z == Tune!UpdateModeMenu(y, m)
<1>7. tRx = z
  BY <1>1 DEF Tune!Started, Tune!Initialized, b
<1>8. Sound(placed) /\ placed.band = b /\ placed.flag = FALSE
  <2>1. CASE b = TuneFirstBand
    <3>1. /\ Touched(fresh, Tune!PutFrequency(fresh, f))
          /\ SameMode(fresh, Tune!PutFrequency(fresh, f))
      BY <1>2, <1>3, <1>5, <1>6, <2>1, PutFrequency
    <3> QED BY <1>5, <2>1, <3>1 DEF Touched, SamePlace, SameMode
  <2>2. CASE b # TuneFirstBand
    <3> DEFINE c == Tune!Carry(fresh, b, f)
    <3>1. Sound(c) /\ SamePlace(fresh, c) /\ SameMode(fresh, c)
      BY <1>2, <1>3, <1>6, Carried
    <3> HIDE DEF c, fresh
    <3>2. c.band # b /\ c.flag = FALSE
      BY <1>5, <2>2, <3>1 DEF SamePlace, SameMode
    <3>3. Tune!SelectStack(c, b, FALSE) = Tune!MoveTo(c, b)
      BY <3>2 DEF Tune!SelectStack
    <3>4. Sound(Tune!MoveTo(c, b)) /\ SameMode(c, Tune!MoveTo(c, b)) /\ Tune!MoveTo(c, b).band = b
      BY <1>3, <3>1, MoveTo
    <3> QED BY <2>2, <3>2, <3>3, <3>4 DEF SameMode, c
  <2> QED BY <2>1, <2>2
<1> HIDE DEF placed, fresh
<1>9. /\ q \in Receivers /\ SamePlace(placed, q) /\ q.flag = FALSE /\ q.frequency = f
      /\ q.set = m /\ q.mode = m
  BY <1>2, <1>8 DEF Sound, Receivers, SamePlace
<1> HIDE DEF q
<1>10. Sound(q) /\ q.band = b
  BY <1>8, <1>9 DEF Sound, Placed, SamePlace
<1>11. Touched(q, t) /\ SameTuning(q, t) /\ SameMode(q, t)
  BY <1>10, PutMode
<1> HIDE DEF t
<1>12. Sound(t) /\ t.band = b
  BY <1>10, <1>11 DEF Touched, SamePlace
<1>13. Touched(t, u) /\ SameTuning(t, u) /\ SameMode(t, u)
  BY <1>2, <1>3, <1>12, PutFrequency
<1> HIDE DEF u
<1>14. Sound(v) /\ SameBook(u, v) /\ SameTuning(u, v) /\ SameMode(u, v)
  BY <1>2, <1>13, Display DEF Touched
<1> HIDE DEF v
<1>15. /\ Sound(w) /\ SameBook(v, w) /\ SameMode(v, w) /\ w.frequency = v.frequency
       /\ w.menu.band = b
  BY <1>3, <1>14, BandMenu
<1> HIDE DEF w
<1>16. w.band = b
  BY <1>12, <1>13, <1>14, <1>15 DEF Touched, SameBook, SamePlace
<1>17. w.set = m /\ w.mode = m /\ w.flag = FALSE
  BY <1>9, <1>11, <1>13, <1>14, <1>15 DEF SameMode
<1>18. w.frequency = f
  BY <1>9, <1>11, <1>13, <1>14, <1>15 DEF SameTuning
<1>19. w.sel[m] \in TuneFilterIds
  BY <1>15 DEF Sound, Receivers
<1>20. pass \in Pairs
  BY <1>19, PassbandPair
<1> HIDE DEF pass
<1>21. [freq |-> f, mode |-> m, pass |-> pass] \in [freq : Int, mode : TuneModes, pass : Pairs]
  BY <1>2, <1>20
<1>22. /\ x \in Receivers /\ SameBook(w, x) /\ x.set = m /\ x.mode = m /\ x.flag = FALSE
       /\ x.sel = w.sel /\ x.shown = pass /\ x.frequency = f /\ x.menu.band = b
       /\ x.dsp = [freq |-> f, mode |-> m, pass |-> pass]
  BY <1>2, <1>15, <1>17, <1>18, <1>20, <1>21 DEF Sound, Receivers, SameBook, SamePlace
<1> HIDE DEF x
<1>23. Sound(x) /\ x.band = b /\ x.dsp.freq = f /\ x.dsp.mode = m
  BY <1>15, <1>16, <1>22 DEF Sound, Placed, SameBook, SamePlace
<1>24. /\ Sound(y) /\ SameBook(x, y) /\ SameTuning(x, y) /\ SameMode(x, y)
       /\ y.sel = x.sel /\ y.shown = x.shown /\ y.menu.filter = w.sel[m]
  BY <1>19, <1>23, FilterMenu
<1> HIDE DEF y
<1>25. /\ Sound(z) /\ SameBook(y, z) /\ SameTuning(y, z) /\ SameFilter(y, z)
       /\ z.set = y.set /\ z.mode = y.mode /\ z.flag = y.flag /\ z.dsp.mode = y.dsp.mode
       /\ z.menu.mode = m
  BY <1>24, ModeMenu
<1> HIDE DEF z
<1>26. Listening(z) /\ z.flag = FALSE
  BY <1>22, <1>23, <1>24, <1>25 DEF Listening, SameMode, SameFilter, pass
<1>27. z.dsp.freq = z.frequency /\ z.menu.band = z.band
  BY <1>22, <1>23, <1>24, <1>25 DEF SameTuning, SameBook, SamePlace
<1> QED BY <1>2, <1>7, <1>25, <1>26, <1>27 DEF TuneInv, Following

\* Whatever bands, modes, filters and frequencies a user, a bookmark or a rig control
\* program asks for, one after another, the server works in the mode and at the
\* frequency class Radio holds, the frequency in use lies in the current band, the
\* menus tell mode, filter and band, and the passband shown is that of the filter in
\* the mode, unless the user dragged it: for any band tables, filters and tunings.
THEOREM TuningCorrect ==
  ASSUME Tune!BandPlan PROVE Tune!Spec => []ServerFollows
<1>1. Tune!Init => TuneInv
  BY TuneStart
<1>2. TuneInv /\ [Tune!Next]_(Tune!vars) => TuneInv'
  <2>1. ASSUME TuneInv, UNCHANGED Tune!vars PROVE TuneInv'
    BY <2>1 DEF TuneInv, Tune!vars
  <2>2. ASSUME TuneInv, Tune!Next PROVE TuneInv'
    BY <2>2, TuneAct DEF TuneInv, Cascade
  <2> QED BY <2>1, <2>2
<1>3. TuneInv => ServerFollows
  <2> SUFFICES ASSUME TuneInv PROVE ServerFollows
    OBVIOUS
  <2>1. Sound(tRx) /\ Following(tRx) /\ Listening(tRx) /\ tActions \in 0 .. TuneMaxActions
    BY DEF TuneInv, Following
  <2>2. tRx.entry \in [TuneBands -> Seq(Tune!Entry)]
    <3>1. tRx.entry \in Books
      BY <2>1 DEF Sound, Receivers
    <3>2. ASSUME NEW b \in TuneBands PROVE tRx.entry[b] \in Seq(Tune!Entry)
      <4>1. tRx.entry[b] \in [1 .. Tune!Last(b) + 1 -> Tune!Entry]
        BY <3>1 DEF Books, Row
      <4>2. Tune!Last(b) + 1 \in Nat
        BY Plan
      <4> QED BY <4>1, <4>2, SeqDef
    <3> QED BY <3>1, <3>2 DEF Books
  <2>3. /\ tRx.band \in TuneBands /\ tRx.working \in 0 .. Tune!Last(tRx.band)
        /\ \A b \in TuneBands : tRx.browse[b] \in 0 .. Tune!Last(b)
                                /\ tRx.store[b] \in 0 .. TuneMemories[b]
    BY <2>1 DEF Sound, Receivers, Placed
  <2>4. /\ tRx.mode \in TuneModes /\ tRx.set \in TuneModes /\ tRx.flag \in BOOLEAN
        /\ tRx.sel \in [TuneModes -> TuneFilterIds] /\ tRx.vfo \in {"A", "B"}
        /\ tRx.menu.band \in TuneBands /\ tRx.menu.mode \in TuneModes
        /\ tRx.menu.filter \in TuneFilterIds
    BY <2>1 DEF Sound, Receivers
  <2>5. Tune!TypeOK
    BY <2>1, <2>2, <2>3, <2>4 DEF Tune!TypeOK
  <2>6. tRx.band \in Tune!LimitedBands => Tune!Inside(tRx.band, Tune!Now(tRx).freq)
    BY <2>1, EntryInUse DEF Within
  <2>7. tRx.band \notin Tune!LimitedBands \/ tRx.working = Tune!Last(tRx.band)
    BY <2>1, Plan DEF Sound, Placed
  <2>8. Tune!ServerFollows
    BY <2>1, <2>6, <2>7 DEF Tune!ServerFollows, Following, Listening, Tune!Variable
  <2> QED BY <2>5, <2>8 DEF ServerFollows
<1> QED BY <1>1, <1>2, <1>3, PTL DEF Tune!Spec

\* No cascade writes into a quick memory, but the store button and stepping on from
\* the band menu: they make one memory of the current band the entry that was in use.
THEOREM MemoriesCorrect ==
  ASSUME Tune!BandPlan PROVE Tune!Spec => MemoriesKept
<1>1. Tune!Init => TuneInv
  BY TuneStart
<1> DEFINE Step ==
      \A b \in TuneBands \ {"WWV"} : \A x \in 0 .. TuneMemories[b] :
        tRx'.entry[b][x + 1] # tRx.entry[b][x + 1] =>
          /\ b = tRx.band
          /\ \A y \in 0 .. TuneMemories[b] :
               y # x => tRx'.entry[b][y + 1] = tRx.entry[b][y + 1]
          /\ tRx'.entry[b][x + 1] = Tune!Now(tRx)
<1>2. TuneInv /\ [Tune!Next]_(Tune!vars) => TuneInv' /\ [Step]_(Tune!vars)
  <2>1. ASSUME TuneInv, UNCHANGED Tune!vars PROVE TuneInv' /\ [Step]_(Tune!vars)
    BY <2>1 DEF TuneInv, Tune!vars
  <2>2. ASSUME TuneInv, Tune!Next PROVE TuneInv' /\ Step
    <3>1. Kept(tRx, tRx') /\ TuneInv'
      BY <2>2, TuneAct DEF TuneInv, Cascade
    <3>2. Step
      BY <3>1 DEF Kept, MemoriesSame, Stored
    <3> QED BY <3>1, <3>2
  <2> QED BY <2>1, <2>2
<1>3. MemoriesKept <=> [][Step]_(Tune!vars)
  BY DEF MemoriesKept, Tune!MemoriesKept, Tune!Wwv
<1> QED BY <1>1, <1>2, <1>3, PTL DEF Tune!Spec
=============================================================================
