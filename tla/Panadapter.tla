----------------------------- MODULE Panadapter -----------------------------
(***************************************************************************)
(* The panadapter of one receiver (src/QtRadio/Panadapter.cpp): the mouse, *)
(* the tuned frequency and passband it draws, and the manual notches.      *)
(* The client keeps the notches in an array, the DSP library in a list of  *)
(* its own; the commands of addNotchFilter, updateNotchFilter and          *)
(* deleteNotchFilter are all that relates them.  Frequencies are counted   *)
(* in hundreds of hertz; pixels, zoom and colours are abstracted.          *)
(* One event handler runs at a time, and the commands it emits reach the   *)
(* DSP in order, so a handler and its commands are one action.             *)
(***************************************************************************)
EXTENDS Integers, Sequences, SequencesExt, FiniteSetsExt

CONSTANTS
    Receiver,    \* Panadapter::index, the place of this receiver: 0, 1, ...
    Slots,       \* length of the notch arrays (9 in Panadapter.h)
    Bands,       \* names of bands, setBand
    Tunings,     \* frequencies the receiver can be tuned to
    Passbands,   \* <<filterLow, filterHigh>> pairs
    Drags,       \* the distances a mouse move covers, times move_step
    SquelchOn,   \* whether the squelch line is shown
    Remote,      \* whether rig control changes the band while a button is held
    Wide,        \* whether the view is wider than its 2000 pixel scene
    MaxAdds,     \* bound: notches added
    MaxFo        \* bound: how far a notch is dragged

VARIABLES
    frequency, pass, band,     \* what the panadapter was last told
    notch,                     \* notchFilterFO, BW and Band, slot by slot
    notchFilterIndex,          \* the slot of the next notch
    drawn,                     \* slots with an item nf1<slot> in the scene
    timer,                     \* updateNfTimer is running
    button,                    \* -1, 1 (left), 2 (right)
    held,                      \* the user holds a button the view will see released
    picked,                    \* notchFilterSelected
    filterSelected, settingSquelch, splitting, moved,
    checked,                   \* the TNF button of the window
    dsp                        \* notch list, tuning and switch of the DSP

view  == <<frequency, pass, band>>
mouse == <<button, held, picked, filterSelected, settingSquelch, splitting, moved>>
vars  == <<view, notch, notchFilterIndex, drawn, timer, mouse, checked, dsp>>

SlotIds == 0 .. Slots - 1
NoBand  == "NA"
Empty   == [fo |-> 0, bw |-> 0, band |-> NoBand]
Width(n) == [fo |-> n.fo, bw |-> n.bw]       \* what a command carries of a notch
InBand(ns, b) == {i \in SlotIds : ns[i].band = b}

TypeOK ==
    /\ frequency \in Tunings /\ pass \in Passbands /\ band \in Bands
    /\ notch \in [SlotIds -> [fo : Int, bw : Nat, band : Bands \cup {NoBand}]]
    /\ notchFilterIndex \in 0 .. Slots /\ drawn \subseteq SlotIds
    /\ timer \in BOOLEAN /\ button \in {-1, 1, 2} /\ held \in BOOLEAN
    /\ picked \in SlotIds \cup {-1} /\ moved \in BOOLEAN
    /\ filterSelected \in BOOLEAN /\ settingSquelch \in BOOLEAN /\ splitting \in BOOLEAN
    /\ checked \in BOOLEAN /\ dsp.run \in BOOLEAN
    /\ dsp.notches \in Seq([fo : Int, bw : Nat])

Init ==
    /\ frequency \in Tunings /\ pass \in Passbands /\ band \in Bands
    /\ notch = [i \in SlotIds |-> Empty] /\ notchFilterIndex = 0 /\ drawn = {}
    /\ timer = FALSE /\ button = -1 /\ held = FALSE /\ picked = -1
    /\ filterSelected = FALSE /\ settingSquelch = FALSE /\ splitting = FALSE
    /\ moved = FALSE /\ checked = FALSE
    /\ dsp = [run |-> FALSE, tune |-> 0, notches |-> <<>>]

-----------------------------------------------------------------------------
(* The notch list of the DSP library, and the server's use of it.          *)

\* SETNOTCHFILTERTUNE carries megahertz and is scaled by 100000: a tenth.
TuneOf(f) == f \div 10
\* RXANBPAddNotch inserts at a place within the list, or refuses.
AddAt(list, place, n) == IF place <= Len(list) THEN InsertAt(list, place + 1, n) ELSE list
\* RXANBPEditNotch and RXANBPDeleteNotch ignore a place past the list.
EditAll(list, slots) ==
    [p \in DOMAIN list |-> IF p - 1 \in slots THEN Width(notch[p - 1]) ELSE list[p]]
DeleteAt(list, place) == IF place < Len(list) THEN RemoveAt(list, place + 1) ELSE list

-----------------------------------------------------------------------------
(* Frequency, band and passband.                                           *)

\* Mutant of SetFrequency: the notches are not drawn again.
SetFrequencyStill(f, b) ==
    /\ frequency' = f
    /\ dsp' = [dsp EXCEPT !.tune = TuneOf(f)]
    /\ timer' = TRUE
    /\ UNCHANGED drawn
\* setFrequency: tells the DSP, redraws the notches of the band and starts the timer.
SetFrequency(f, b) ==
    /\ frequency' = f
    /\ dsp' = [dsp EXCEPT !.tune = TuneOf(f)]
    /\ drawn' = InBand(notch, b)
    /\ timer' = TRUE

\* Radio::bandChanged: setBand, then setFrequency.
ChangeBand ==
    /\ ~held \/ Remote
    /\ \E b \in Bands, f \in Tunings : band' = b /\ SetFrequency(f, b)
    /\ UNCHANGED <<pass, notch, notchFilterIndex, mouse, checked>>

\* A filter button, setFilter: nothing is sent about the notches.
ChangeFilter ==
    /\ ~held \/ Remote
    /\ \E p \in Passbands : pass' = p
    /\ UNCHANGED <<frequency, band, notch, notchFilterIndex, drawn, timer, mouse, checked, dsp>>

-----------------------------------------------------------------------------
(* Notches.                                                                *)

\* updateNotchFilter(-1): an edit for each notch of the band near the passband.
Edits(f) == {i \in InBand(notch, band) :
    notch[i].fo >= pass[1] + f - 2 /\ notch[i].fo <= pass[2] + f + 2}
UpdateTimer ==
    /\ timer
    /\ timer' = FALSE
    /\ dsp' = [dsp EXCEPT !.notches = EditAll(@, Edits(frequency))]
    /\ UNCHANGED <<view, notch, notchFilterIndex, drawn, mouse, checked>>

\* addNotchFilter: in the middle of the passband, unless another notch is within
\* 100 Hz (the slot keeps the frequency even then).  The command names the
\* receiver, not the slot.
AddNotchFilter ==
    /\ notchFilterIndex < Min({MaxAdds, Slots})
    /\ LET slot  == notchFilterIndex
           fo    == frequency + (pass[1] + pass[2]) \div 2
           new   == [fo |-> fo, bw |-> 4, band |-> band]
           close == \E i \in SlotIds \ {slot} : fo - notch[i].fo \in -1 .. 1
       IN IF close
          THEN /\ notch' = [notch EXCEPT ![slot].fo = fo]
               /\ UNCHANGED <<notchFilterIndex, drawn, dsp>>
          ELSE /\ notch' = [notch EXCEPT ![slot] = new]
               /\ notchFilterIndex' = slot + 1
               /\ drawn' = drawn \cup {slot}
               /\ dsp' = [run |-> TRUE, tune |-> TuneOf(frequency),
                          notches |-> AddAt(dsp.notches, Receiver, Width(new))]
    /\ UNCHANGED <<view, timer, mouse, checked>>

\* enableNotchFilter(enable), from the TNF button.
EnableNotchFilter ==
    /\ checked' = ~checked
    /\ dsp' = [dsp EXCEPT !.run = ~checked, !.tune = TuneOf(frequency)]
    /\ UNCHANGED <<view, notch, notchFilterIndex, drawn, timer, mouse>>

\* deleteNotchFilter, then Radio::removeNotchFilter: its counter is never raised,
\* so the TNF button is released whatever notches are left.
DeleteNotch(slot) ==
    /\ notch' = [notch EXCEPT ![slot].band = NoBand]
    /\ drawn' = drawn \ {slot}
    /\ dsp' = [dsp EXCEPT !.notches = DeleteAt(@, slot)]
    /\ checked' = FALSE

-----------------------------------------------------------------------------
(* The mouse.                                                              *)

\* What is under the pointer: a notch's slot, or one of these.
Plot == -1
FilterItem == -2
SquelchLine == -3
Outside == -4
Places == drawn \cup {Plot, FilterItem} \cup (IF SquelchOn THEN {SquelchLine} ELSE {})
                \cup (IF Wide THEN {Outside} ELSE {})

\* mousePressEvent.  A right press on a notch opens the menu, which takes the release.
Grab(b, at) ==
    /\ button' = b /\ moved' = FALSE
    /\ settingSquelch' = (SquelchOn /\ at = SquelchLine)
    /\ picked' = IF at = Outside THEN picked ELSE Max({at, -1})
    /\ filterSelected' = (filterSelected \/ at = FilterItem)
Press(b, at) ==
    /\ ~held /\ ~(b = 2 /\ at \in drawn)
    /\ Grab(b, at) /\ held' = TRUE
    /\ UNCHANGED <<view, notch, notchFilterIndex, drawn, timer, splitting, checked, dsp>>
NotchMenu(slot, delete) ==
    /\ ~held
    /\ Grab(2, slot)
    /\ IF delete THEN DeleteNotch(slot) ELSE UNCHANGED <<notch, drawn, dsp, checked>>
    /\ UNCHANGED <<view, notchFilterIndex, timer, held, splitting>>

\* mouseMoveEvent with no button: over the boundary it arms the split, anywhere
\* but on the squelch line it disarms it.
Hover ==
    /\ ~held /\ button = -1
    /\ moved' = TRUE
    /\ splitting' \in (IF SquelchOn THEN {splitting} ELSE {}) \cup BOOLEAN
    /\ UNCHANGED <<view, notch, notchFilterIndex, drawn, timer, button, held, picked,
                   filterSelected, settingSquelch, checked, dsp>>

\* mouseMoveEvent while the left button is down: what was picked up follows.
DragNotch(dx, dy) ==
    /\ held /\ button = 1 /\ picked > -1
    /\ notch[picked].fo + dx \in 0 .. MaxFo
    /\ notch' = [notch EXCEPT ![picked].fo = @ + dx, ![picked].bw = Max({1, @ - dy})]
    /\ notch'[picked].bw <= 4 + 2 * Max(Drags)
    /\ drawn' = drawn \cup {picked}
    /\ moved' = TRUE
    /\ UNCHANGED <<view, notchFilterIndex, timer, button, held, picked, filterSelected,
                   settingSquelch, splitting, checked, dsp>>
DragFilter ==
    /\ held /\ button = 1 /\ picked = -1 /\ filterSelected
    /\ \E p \in Passbands : pass' = p
    /\ moved' = TRUE
    /\ UNCHANGED <<frequency, band, notch, notchFilterIndex, drawn, timer, button, held,
                   picked, filterSelected, settingSquelch, splitting, checked, dsp>>
\* The squelch and the split stay within the view; anything else tunes.
DragPlot ==
    /\ held /\ button = 1 /\ picked = -1 /\ ~filterSelected
    /\ moved' = TRUE
    /\ IF settingSquelch \/ splitting
       THEN UNCHANGED <<frequency, drawn, timer, dsp>>
       ELSE \E f \in Tunings : SetFrequency(f, band)
    /\ UNCHANGED <<pass, band, notch, notchFilterIndex, button, held, picked,
                   filterSelected, settingSquelch, splitting, checked>>

\* mouseReleaseEvent: what was picked up is let go, and then, unless the squelch
\* was being set, the receiver is tuned: by the last move, or to the point clicked.
Release ==
    /\ held /\ held' = FALSE
    /\ button' = -1
    /\ picked' = IF button = 1 THEN -1 ELSE picked
    /\ filterSelected' = (filterSelected /\ button # 1)
    /\ splitting' = FALSE
    /\ settingSquelch' = FALSE
    /\ IF settingSquelch
       THEN UNCHANGED <<frequency, drawn, timer, dsp>>
       ELSE \E f \in (IF moved THEN {frequency} ELSE Tunings) : SetFrequency(f, band)
    /\ UNCHANGED <<pass, band, notch, notchFilterIndex, moved, checked>>

\* wheelEvent on the right side: tunes, and updates the notches at once.
Wheel ==
    /\ \E f \in Tunings :
        /\ frequency' = f
        /\ dsp' = [dsp EXCEPT !.tune = TuneOf(f), !.notches = EditAll(@, Edits(f))]
    /\ drawn' = InBand(notch, band)
    /\ timer' = FALSE
    /\ UNCHANGED <<pass, band, notch, notchFilterIndex, mouse, checked>>

Next ==
    \/ ChangeBand \/ ChangeFilter
    \/ UpdateTimer \/ AddNotchFilter \/ EnableNotchFilter
    \/ \E b \in {1, 2}, at \in Places : Press(b, at)
    \/ \E slot \in drawn, delete \in BOOLEAN : NotchMenu(slot, delete)
    \/ Hover \/ \E dx, dy \in Drags : DragNotch(dx, dy)
    \/ DragFilter \/ DragPlot \/ Release \/ Wheel

Spec == Init /\ [][Next]_vars

-----------------------------------------------------------------------------
\* The notch items in the scene are those of the current band: a notch is not
\* drawn after it was deleted or left behind by a change of band, and none is
\* lost on the way back.
ItemsMatch == drawn = InBand(notch, band)

\* "Delete filter selected with mouse pointer" (Panadapter.cpp:1767): deleting a
\* notch takes that notch, and no other, out of the DSP's list.  The list is in
\* another order than the slots and closes its gaps, so it takes a different one.
DeletesSelected ==
    [][ \A i \in SlotIds :
          (notch[i].band # NoBand /\ notch'[i].band = NoBand
             /\ Width(notch[i]) \in Range(dsp.notches))
          => Width(notch[i]) \notin Range(dsp'.notches) ]_vars
=============================================================================
