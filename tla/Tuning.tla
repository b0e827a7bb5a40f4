------------------------------- MODULE Tuning -------------------------------
(***************************************************************************)
(* Band, mode, filter and frequency of one receiver in the client: the     *)
(* band stack (src/QtRadio/Band.cpp), the mode and filter objects, the     *)
(* slots of class Radio and of the main window that tie them together by   *)
(* signals (src/QtRadio/UI.cpp), the two VFO displays (vfo.cpp), and what  *)
(* the server was last told.                                               *)
(* Qt delivers these signals by direct calls, so a user's action runs the  *)
(* whole cascade of slots: every slot is an operator from the state of the *)
(* receiver to its next state, and an action applies one cascade.          *)
(***************************************************************************)
EXTENDS Filters, FiniteSets

CONSTANTS
    Bands,        \* the bands used, among them GEN and WWV
    Limits,       \* [Bands \ {GEN, WWV} -> <<min, max>>], disjoint
    Memories,     \* [Bands -> Nat]: the last quick memory of a band (info of entry 0)
    Defaults,     \* [Bands -> sequence of entries 0.. as loaded]
    FirstBand,    \* the band a receiver starts on, BAND_40
    Modes,        \* modes used
    FilterIds,    \* filters used; 10 is the variable one
    Frequencies,  \* frequencies the user asks for
    Steps,        \* amounts the user moves by
    CwPitch,
    SavedB,       \* the frequency saved for VFO B, vfoB_f
    MaxActions    \* bound: actions of the user

VARIABLES
    rx,           \* the receiver, see TypeOK
    actions       \* actions so far
vars == <<rx, actions>>

Gen == "GEN"
Wwv == "WWV"
LimitedBands == Bands \ {Gen, Wwv}
Cw == {"CWL", "CWU"}
Last(b) == Memories[b] + 1                 \* the working entry of a band
Entry == [freq : Int, mode : Modes, filter : FilterIds]

\* What the tables are taken to be: bands that do not overlap, and entries that lie
\* in their band, as many as its memories and the working one.
BandPlan ==
    /\ {Gen, Wwv, FirstBand} \subseteq Bands /\ MaxActions \in Nat
    /\ "LSB" \in Modes /\ Modes \subseteq {"LSB", "USB", "DSB", "CWL", "CWU", "FM", "AM",
                                          "DIGU", "DIGL", "SAM"}
    /\ {3, 4, 5, Variable} \subseteq FilterIds /\ FilterIds \subseteq 0 .. Variable
    /\ Frequencies \subseteq Int /\ Steps \subseteq Int /\ CwPitch \in Int /\ SavedB \in Int
    /\ Memories \in [Bands -> Nat] /\ Limits \in [LimitedBands -> Int \X Int]
    /\ \A b, c \in LimitedBands :
          b # c => Limits[b][2] < Limits[c][1] \/ Limits[c][2] < Limits[b][1]
    /\ Defaults \in [Bands -> Seq(Entry)]
    /\ \A b \in Bands : Len(Defaults[b]) = Last(b) + 1
    /\ \A b \in LimitedBands : \A x \in 1 .. Len(Defaults[b]) :
          Limits[b][1] <= Defaults[b][x].freq /\ Defaults[b][x].freq <= Limits[b][2]

TypeOK ==
    /\ rx.band \in Bands /\ rx.working \in 0 .. Last(rx.band)
    /\ rx.entry \in [Bands -> Seq(Entry)]
    /\ \A b \in Bands : rx.browse[b] \in 0 .. Last(b) /\ rx.store[b] \in 0 .. Memories[b]
    /\ rx.mode \in Modes /\ rx.set \in Modes /\ rx.flag \in BOOLEAN
    /\ rx.sel \in [Modes -> FilterIds]
    /\ rx.menu.band \in Bands /\ rx.menu.mode \in Modes /\ rx.menu.filter \in FilterIds
    /\ rx.vfo \in {"A", "B"} /\ actions \in 0 .. MaxActions

-----------------------------------------------------------------------------
(* Passbands: a set of filters belongs to a mode.                          *)

\* The passband of filter i of the set of m, as filterChanged computes it in mode m.
Passband(m, i) == Edges(m, i, CwPitch)

\* SETMODE in the server sets the passband of the mode as well.
ModeDefault(m) ==
    CASE m \in {"USB", "CWU", "DIGU", "DSB"} -> <<150, 2850>>
      [] m \in {"LSB", "CWL", "DIGL"} -> <<-2850, -150>>
      [] m \in {"AM", "SAM"} -> <<-2850, 2850>>
      [] m = "FM" -> <<-4800, 4800>>

-----------------------------------------------------------------------------
(* The band stack.                                                         *)

Now(r) == r.entry[r.band][r.working + 1]

Inside(b, f) == Limits[b][1] <= f /\ f <= Limits[b][2]
BandOf(f) ==
    IF \E b \in LimitedBands : Inside(b, f)
    THEN CHOOSE b \in LimitedBands : Inside(b, f)
    ELSE Gen

\* memCopy between the working entry and a memory of the current band.
ToMemory(r, target) ==
    [r EXCEPT !.entry[r.band][target + 1] = Now(r)]
FromMemory(r, target) ==
    [r EXCEPT !.entry[r.band][r.working + 1] = r.entry[r.band][target + 1]]

\* selectBand without its signal.  The same band again steps through the memories:
\* from the main menu the working entry is put back first.  WWV has no working
\* entry, the memory stepped to is the working one.
StepMemory(r, fromVfo) ==
    LET kept == IF ~fromVfo /\ r.band # Wwv THEN ToMemory(r, r.browse[r.band]) ELSE r
        last == IF r.band = Wwv THEN Last(Wwv) ELSE Memories[r.band]
        next == IF r.browse[r.band] + 1 > last THEN 0 ELSE r.browse[r.band] + 1
        here == [kept EXCEPT !.browse[r.band] = next]
    IN IF r.band = Wwv THEN [here EXCEPT !.working = next] ELSE FromMemory(here, next)
\* Mutant of MoveTo: leaving WWV keeps its place in the stack.
MoveToStale(r, b) ==
    [r EXCEPT !.band = b,
              !.working = IF b = Wwv THEN r.browse[Wwv]
                          ELSE IF r.band = Wwv THEN r.working ELSE Last(b)]
MoveTo(r, b) ==
    [r EXCEPT !.band = b, !.working = IF b = Wwv THEN r.browse[Wwv] ELSE Last(b)]
SelectStack(r, b, fromVfo) ==
    IF r.band = b
    THEN StepMemory([r EXCEPT !.working = IF b = Wwv THEN r.browse[b] ELSE Last(b)], fromVfo)
    ELSE MoveTo(r, b)

\* quickMemStore: into the memory before the last one stored, or the one that
\* holds the same entry already.
QuickMemStore(r) ==
    LET b      == r.band
        oldest == IF r.store[b] = 0 THEN Memories[b] ELSE r.store[b] - 1
        same   == {x \in 0 .. Memories[b] : r.entry[b][x + 1] = Now(r)}
        place  == IF same = {} THEN oldest
                  ELSE CHOOSE x \in same : \A y \in same : y <= x
    IN IF b = Wwv THEN r ELSE ToMemory([r EXCEPT !.store[b] = place], place)

\* setFrequency of Band, without selectBand's signal: a frequency of another band
\* becomes the working entry there, with the mode and filter in use.
Carry(r, b, f) == [r EXCEPT !.entry[b][Last(b) + 1] = [Now(r) EXCEPT !.freq = f]]
PutFrequency(r, f) == [r EXCEPT !.entry[r.band][r.working + 1].freq = f]
PutMode(r, m)      == [r EXCEPT !.entry[r.band][r.working + 1].mode = m]
PutFilter(r, i)    == [r EXCEPT !.entry[r.band][r.working + 1].filter = i]

-----------------------------------------------------------------------------
(* The menus of the main window, and the frequency on the VFO in use.      *)

UpdateModeMenu(r, m)    == [r EXCEPT !.menu.mode = m]
UpdateBandMenu(r, b)    == [r EXCEPT !.menu.band = b]
UpdateFiltersMenu(r, i) == [r EXCEPT !.menu.filter = i]
UpdateFilterMenu(r, i)  == [r EXCEPT !.menu.filter = i]
UpdateVfo(r, f)         == [r EXCEPT !.display[r.vfo] = f]

-----------------------------------------------------------------------------
(* The slots of Radio.                                                     *)

\* filterChanged: from another filter to the variable one nothing is sent.
ShowPassband(r, pass) == [r EXCEPT !.dsp.pass = pass, !.shown = pass]
FilterChanged(r, previous, new) ==
    IF previous # Variable /\ new = Variable THEN UpdateFilterMenu(r, new)
    ELSE PutFilter(ShowPassband(UpdateFilterMenu(r, new), Passband(r.mode, r.sel[r.set])), new)

SelectFilter(r, i) == FilterChanged([r EXCEPT !.sel[r.set] = i], r.sel[r.set], i)

\* filtersChanged: the filter of the band, unless the mode was picked from the menu.
KeepFilter(r) == IF r.flag THEN r ELSE [r EXCEPT !.sel[r.set] = Now(r).filter]
SelectAgain(r) == SelectFilter(r, r.sel[r.set])
FiltersChanged(r) == SelectAgain(KeepFilter(UpdateFiltersMenu(r, Now(r).filter)))

SelectFilters(r, m) == FiltersChanged([r EXCEPT !.set = m])

\* Mutant of ModeChanged: the server is told the mode before this one.
ModeChangedLate(r, m) ==
    LET s == UpdateModeMenu(SelectFilters(r, m), m)
    IN [s EXCEPT !.dsp.mode = r.menu.mode, !.dsp.pass = ModeDefault(m)]
\* modeChanged: selects the mode's filters, so SETFILTER goes out before SETMODE.
ModeChanged(r, m) ==
    LET s == UpdateModeMenu(SelectFilters(r, m), m)
    IN [s EXCEPT !.dsp.mode = m, !.dsp.pass = ModeDefault(m)]

SetMode(r, m) == ModeChanged([r EXCEPT !.mode = m], m)

\* bandChanged, up to the dummy call for CW.
BandFilter(r) ==
    IF Now(r).filter = r.sel[r.set] THEN r
    ELSE FilterChanged(r, r.sel[r.set], Now(r).filter)
Tuned(r, f) == UpdateVfo([r EXCEPT !.frequency = f, !.dsp.freq = f, !.pan = f], f)
BandTuned(r) == Tuned(r, Now(r).freq)
BandChanged(r) == BandTuned(BandFilter(SetMode(UpdateBandMenu(r, r.band), Now(r).mode)))

\* frequencyChanged and setFrequency of Band call each other through selectBand
\* and bandChanged: a frequency outside the band selects its band, and in CW the
\* band's frequency is set once more.  There the calls end: a band selected for a
\* frequency is the band of that frequency, so it is put into the entry in use.
Retuned(r, f) == [r EXCEPT !.frequency = f, !.dsp.freq = f]
Panned(r, f) == UpdateBandMenu(UpdateVfo([r EXCEPT !.pan = f], f), r.band)
TunedWithin(r, f) == Panned(PutFrequency(Retuned(r, f), f), f)
MovedTo(r, b) ==
    LET s == BandChanged(MoveTo(r, b))
    IN IF s.mode \in Cw THEN TunedWithin(s, s.frequency) ELSE s
BandFrequency(r, f) ==
    IF BandOf(f) = r.band THEN PutFrequency(r, f)
    ELSE MovedTo(Carry(r, BandOf(f), f), BandOf(f))
FrequencyChanged(r, f) == Panned(BandFrequency(Retuned(r, f), f), f)
AgainInCw(r) == IF r.mode \in Cw THEN FrequencyChanged(r, r.frequency) ELSE r
BandSelected(r, b, fromVfo) == AgainInCw(BandChanged(SelectStack(r, b, fromVfo)))

\* variableFilter: the passband dragged in the panadapter.
VariableFilter(r, pass) ==
    LET s == UpdateFilterMenu(ShowPassband(r, pass), Variable)
    IN IF r.sel[r.set] = Variable THEN s ELSE SelectFilter(PutFilter(s, Variable), Variable)

-----------------------------------------------------------------------------
(* Start and the user's actions.                                           *)

Fresh ==
    [band |-> FirstBand, working |-> Last(FirstBand), entry |-> Defaults,
     browse |-> [b \in Bands |-> 0], store |-> [b \in Bands |-> 0],
     mode |-> "LSB", set |-> "LSB", flag |-> FALSE,
     sel |-> [m \in Modes |-> IF m \in Cw THEN 5 ELSE IF m \in {"FM", "DSB"} THEN 4 ELSE 3],
     menu |-> [band |-> FirstBand, mode |-> "LSB", filter |-> 3],
     frequency |-> 0, pan |-> 0, shown |-> <<0, 0>>, vfo |-> "A",
     display |-> [A |-> SavedB, B |-> SavedB],
     dsp |-> [freq |-> 0, mode |-> "LSB", pass |-> <<0, 0>>]]

\* initializeReceiver, when no slot is connected yet: the saved frequency and mode.
Initialized(f, m) ==
    LET placed == IF BandOf(f) = FirstBand THEN PutFrequency(Fresh, f)
                  ELSE SelectStack(Carry(Fresh, BandOf(f), f), BandOf(f), FALSE)
    IN PutMode([placed EXCEPT !.frequency = f, !.set = m, !.mode = m], m)

\* The part of UI::connected that follows: frequency, mode and filter are sent.
Started(f, m) ==
    LET r    == UpdateBandMenu(UpdateVfo(PutFrequency(Initialized(f, m), f), f), BandOf(f))
        pass == Passband(m, r.sel[m])
    IN UpdateModeMenu(UpdateFilterMenu(
          [r EXCEPT !.pan = f, !.shown = pass,
                    !.dsp = [freq |-> f, mode |-> m, pass |-> pass]], r.sel[m]), m)

Init == \E f \in Frequencies, m \in Modes : rx = Started(f, m) /\ actions = 0

Acted == actions < MaxActions /\ actions' = actions + 1

PickBand     == Acted /\ \E b \in Bands : rx' = BandSelected(rx, b, FALSE)
PickVfoBand  == Acted /\ \E b \in Bands : rx' = BandSelected(rx, b, TRUE)
StoreMemory  == Acted /\ rx' = QuickMemStore(rx)

\* actionLSB and its like: the flag keeps the filter last used in the mode.
PickMode ==
    Acted /\ \E m \in Modes :
        rx' = LET moded == SetMode([rx EXCEPT !.flag = TRUE], m)
              IN [PutMode(SelectFilters(moded, m), m) EXCEPT !.flag = FALSE]
PickFilter   == Acted /\ \E i \in FilterIds : rx' = SelectFilter(rx, i)
DragFilter   == Acted /\ rx' = VariableFilter(rx, <<rx.shown[1] + 10, rx.shown[2] + 10>>)
Move         == Acted /\ \E d \in Steps : rx' = FrequencyChanged(rx, Now(rx).freq - d)

\* setKeypadFrequency only reaches the band stack: within the band nothing is sent.
EnterKeypad  == Acted /\ \E f \in Frequencies : rx' = BandFrequency(rx, f)

SelectBookmark ==
    Acted /\ \E f \in Frequencies, m \in Modes, i \in FilterIds :
        LET placed == BandFrequency(BandSelected(rx, BandOf(f), FALSE), f)
            shown  == UpdateVfo([placed EXCEPT !.pan = f], f)
        IN rx' = SelectFilter(SetMode(shown, m), i)

\* The rig control server: a mode is set twice, first with the old mode's pitch.
RigSetFrequency == Acted /\ \E f \in Frequencies : rx' = FrequencyChanged(rx, f)
RigSetMode == Acted /\ \E m \in Modes : rx' = SetMode(ModeChanged(rx, m), m)

\* The VFO buttons.  Their signal frequencyChanged has no slot: they change the
\* display and nothing else, whatever frequency the server is tuned to.
UseVfo == Acted /\ \E v \in {"A", "B"} \ {rx.vfo} : rx' = [rx EXCEPT !.vfo = v]
Exchange == Acted /\ rx' = [rx EXCEPT !.display = [A |-> rx.display.B, B |-> rx.display.A]]
AtoB == Acted /\ rx' = [rx EXCEPT !.display.B = rx.display.A]
BtoA == Acted /\ rx' = [rx EXCEPT !.display.A = rx.display.B]

Next ==
    \/ PickBand \/ PickVfoBand \/ StoreMemory \/ PickMode \/ PickFilter \/ DragFilter
    \/ Move \/ EnterKeypad \/ SelectBookmark \/ RigSetFrequency \/ RigSetMode
    \/ UseVfo \/ Exchange \/ AtoB \/ BtoA

Spec == Init /\ [][Next]_vars

-----------------------------------------------------------------------------
\* After every cascade of slots the server works in the mode the client shows and at
\* the frequency class Radio holds; the working frequency lies in the current band,
\* whichever way it was reached: tuned, typed, recalled from a memory, or set by a
\* bookmark or rig control; the menus tell the current mode, filter and band, and
\* the displayed passband is that of the filter in the mode, unless it was dragged.
ServerFollows ==
    /\ rx.dsp.mode = rx.mode /\ rx.set = rx.mode
    /\ rx.dsp.freq = rx.frequency
    /\ rx.band \in LimitedBands => Inside(rx.band, Now(rx).freq)
    /\ rx.band \notin LimitedBands \/ rx.working = Last(rx.band)
    /\ rx.menu.mode = rx.mode /\ rx.menu.band = rx.band
    /\ rx.menu.filter = rx.sel[rx.set]
    /\ rx.sel[rx.set] # Variable => rx.shown = Passband(rx.mode, rx.sel[rx.set])

\* Quick memories are only written by the store button and by stepping on from
\* the band menu, and only one of the current band at a time.  (The entries of
\* WWV are tuned in place.)
MemoriesKept ==
    [][ \A b \in Bands \ {Wwv} : \A x \in 0 .. Memories[b] :
          rx'.entry[b][x + 1] # rx.entry[b][x + 1] =>
             /\ b = rx.band
             /\ \A y \in 0 .. Memories[b] :
                   y # x => rx'.entry[b][y + 1] = rx.entry[b][y + 1]
             /\ rx'.entry[b][x + 1] = Now(rx) ]_vars
=============================================================================
