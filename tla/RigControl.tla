----------------------------- MODULE RigControl -----------------------------
(***************************************************************************)
(* Push to talk in QtRadio: the key, the MOX button (src/QtRadio/ctl.cpp)  *)
(* and the rig control server (src/QtRadio/rigctl.cpp) all end in          *)
(* UI::pttChange, while the user selects receivers, permits or forbids     *)
(* transmitting and the connection to the server comes and goes.           *)
(* Every action is one event of Qt's loop with the slots it calls.  What   *)
(* the commands for frequency and mode change is module Tuning's; here are *)
(* the widths they are told in.                                            *)
(***************************************************************************)
EXTENDS Filters, SequencesExt

CONSTANTS
    Receivers,   \* receivers of the client; the transmitter belongs to Paired
    Paired,
    Lines,       \* lines a rig control program sends
    MaxLines     \* bound: lines in the socket's buffer

VARIABLES
    running,     \* the program has not crashed
    current,     \* current_index: a set with the selected receiver, or nobody
    tx,          \* the client attached a transmitter (txrxPair)
    leaving,     \* the user left, the socket still has bytes to send
    allowed,     \* the user permits transmitting (getTxAllowed)
    txNow,       \* the window transmits
    keyed,       \* the last MOX sent on this connection
    muted,       \* the connection drops the audio
    vfo,         \* the VFO shows transmission
    frozen,      \* receivers whose panadapter stands still (bMox)
    button,      \* the MOX button: checked, enabled
    rigTx,       \* Radio::txNow, what rig control is told
    buffer,      \* lines in the socket of rig control
    upset        \* history: permission or receiver changed, or left, while transmitting
state == <<current, tx, leaving, allowed, txNow, keyed, muted, vfo, frozen, button, rigTx>>
vars == <<running, state, buffer, upset>>

-----------------------------------------------------------------------------
(* Widths by name, as command M compares them.                             *)

Sides == <<5000, 4400, 3800, 3300, 2900, 2700, 2400, 2100, 1800, 1000>>
Broad == <<16000, 12000, 10000, 8000, 6600, 5200, 4000, 3100, 2900, 2400>>
Tones == <<1000, 800, 750, 600, 500, 400, 250, 100, 50, 25>>
Known ==
    [USB |-> Sides, LSB |-> Sides, AM |-> Broad, SAM |-> Broad,
     FM |-> [Broad EXCEPT ![1] = 80000], CW |-> Tones, CWR |-> Tones]
\* Filters selected by M with a name and a width: one, or none.
Selected(name, w) == {i \in 0 .. 9 : Known[name][i + 1] = w}

ModeOf(name) == CASE name = "CW" -> "CWU" [] name = "CWR" -> "CWL" [] OTHER -> name
Width(m, i) == LET e == Edges(m, i, 0) IN e[2] - e[1]

TypeOK ==
    /\ current \subseteq Receivers /\ Cardinality(current) <= 1
    /\ frozen \subseteq Receivers /\ tx \in BOOLEAN /\ rigTx \in BOOLEAN
    /\ leaving => current # {}
    /\ button \in [checked : BOOLEAN, enabled : BOOLEAN]
    /\ Len(buffer) <= MaxLines

-----------------------------------------------------------------------------
(* The slots, as operators on the state.                                   *)

Now == [current |-> current, tx |-> tx, leaving |-> leaving, allowed |-> allowed, txNow |-> txNow,
        keyed |-> keyed, muted |-> muted, vfo |-> vfo, frozen |-> frozen,
        button |-> button, rigTx |-> rigTx]
Becomes(s) ==
    /\ current' = s.current /\ tx' = s.tx /\ leaving' = s.leaving /\ allowed' = s.allowed
    /\ txNow' = s.txNow /\ keyed' = s.keyed /\ muted' = s.muted /\ vfo' = s.vfo
    /\ frozen' = s.frozen /\ button' = s.button /\ rigTx' = s.rigTx

KeyUp(s) ==
    [s EXCEPT !.keyed = TRUE, !.muted = TRUE, !.vfo = TRUE, !.txNow = TRUE,
              !.frozen = s.frozen \union s.current]
KeyDown(s) ==
    [s EXCEPT !.keyed = FALSE, !.muted = FALSE, !.vfo = FALSE, !.txNow = FALSE,
              !.frozen = s.frozen \ s.current]
\* pttChange: without permission only the button is cleared; who left has no
\* transmit channel any more.
PttChange(s, on) ==
    IF s.current = {} \/ ~s.tx \/ s.leaving THEN s
    ELSE IF ~s.allowed THEN [s EXCEPT !.button.checked = FALSE]
    ELSE IF on THEN KeyUp(s) ELSE KeyDown(s)

ClickMoxTo(s, on) == PttChange([s EXCEPT !.button.checked = on], on)
HideTx(s, hide) ==
    [s EXCEPT !.button = [checked |-> s.button.checked /\ ~hide, enabled |-> ~hide]]

\* rigSetPTT: Radio notes the request, whether or not the window transmits; the
\* window hears of it until the user leaves.
RigSetPtt(s, on) ==
    [(IF s.leaving THEN s ELSE ClickMoxTo(s, on /\ s.button.enabled)) EXCEPT !.rigTx = on]

-----------------------------------------------------------------------------
Init ==
    /\ running = TRUE /\ current = {} /\ tx = FALSE /\ leaving = FALSE /\ allowed \in BOOLEAN
    /\ txNow = FALSE /\ keyed = FALSE /\ muted = FALSE /\ vfo = FALSE
    /\ frozen = {} /\ button = [checked |-> FALSE, enabled |-> FALSE]
    /\ rigTx = FALSE /\ buffer = <<>> /\ upset = FALSE

RestSame == UNCHANGED <<buffer, upset>>

PressKey ==
    /\ running /\ ~txNow
    /\ Becomes(PttChange(Now, TRUE)) /\ RestSame /\ UNCHANGED running

\* The key's release writes to a progress bar no constructor sets.
ReleaseKey ==
    /\ running /\ txNow
    /\ Becomes(PttChange(Now, FALSE)) /\ RestSame /\ running' \in BOOLEAN

ClickMox ==
    /\ running /\ button.enabled
    /\ Becomes(ClickMoxTo(Now, ~button.checked)) /\ RestSame /\ UNCHANGED running

Permit ==
    /\ running
    /\ Becomes([Now EXCEPT !.allowed = ~allowed])
    /\ upset' = (upset \/ txNow)
    /\ UNCHANGED <<running, buffer>>

SelectReceiver ==
    /\ running /\ current # {}
    /\ \E r \in Receivers :
        /\ Becomes(HideTx([Now EXCEPT !.current = {r}], ~(tx /\ r = Paired)))
        /\ upset' = (upset \/ (txNow /\ current # {r}))
    /\ UNCHANGED <<running, buffer>>

\* connected: the radios are made anew, Radio::txNow is not initialised.
Connect ==
    /\ running /\ current = {}
    /\ \E r \in Receivers, t, old \in BOOLEAN :
        Becomes(HideTx([Now EXCEPT !.current = {r}, !.tx = t, !.rigTx = old,
                                   !.keyed = FALSE], ~t))
    /\ RestSame /\ UNCHANGED running

\* Mutant of Gone: the key is left as it was.
GoneKeyed(s) ==
    HideTx([s EXCEPT !.current = {}, !.tx = FALSE, !.leaving = FALSE,
                     !.frozen = {}, !.keyed = FALSE, !.rigTx = FALSE], TRUE)
\* disconnected: keyed down first; then panadapters, radios and their rig control
\* servers are gone.
Gone(s) ==
    HideTx([PttChange(s, FALSE) EXCEPT !.current = {}, !.tx = FALSE, !.leaving = FALSE,
                                       !.frozen = {}, !.keyed = FALSE, !.rigTx = FALSE], TRUE)
Disconnected ==
    /\ running /\ current # {}
    /\ Becomes(Gone(Now)) /\ buffer' = <<>>
    /\ UNCHANGED <<running, upset>>

\* actionDisconnect: closing the socket tells of it at once, or when the bytes left
\* are sent; by then the transmit channel is forgotten.
Leave ==
    /\ running /\ current # {} /\ ~leaving
    /\ \/ Becomes(Gone(Now)) /\ buffer' = <<>> /\ UNCHANGED upset
       \/ Becomes([Now EXCEPT !.leaving = TRUE]) /\ upset' = (upset \/ txNow) /\ UNCHANGED buffer
    /\ UNCHANGED running

-----------------------------------------------------------------------------
(* Rig control.                                                            *)

\* Set and get PTT; every other line leaves the keying alone.
SetPtt(line) == line.cmd = "T" /\ Becomes(RigSetPtt(Now, line.on))
Answered(line) == line.cmd # "T" /\ UNCHANGED state

\* readyRead handles one line for every segment, the others wait for the next.
ReadyRead ==
    /\ running /\ current # {}
    /\ \E segment \in UNION {[1 .. n -> Lines] : n \in 1 .. 2} :
        LET all == buffer \o segment
            line == Head(all)
        IN /\ Len(all) <= MaxLines + 1 /\ buffer' = Tail(all)
           /\ SetPtt(line) \/ Answered(line)
    /\ UNCHANGED <<running, upset>>

Next ==
    \/ PressKey \/ ReleaseKey \/ ClickMox \/ Permit \/ SelectReceiver
    \/ Connect \/ Disconnected \/ Leave \/ ReadyRead

Spec == Init /\ [][Next]_vars

-----------------------------------------------------------------------------
\* Whichever of key, button, rig control and lost connection came last, the VFO and
\* the window agree on who transmits; and unless in the middle of a transmission the
\* permission or the receiver was changed or the user left, the radio is keyed exactly while the
\* window transmits, which it does only when connected with a transmitter, and the
\* panadapter that stands still is the one of the receiver in use.
KeyingAgrees ==
    /\ vfo = txNow
    /\ ~upset => /\ keyed = txNow
                 /\ txNow => tx /\ current # {}
                 /\ frozen = IF txNow THEN current ELSE {}

\* A rig control program that sets the mode and width it was told (m, then M) gets a
\* passband as wide as before; the narrowest filter of CW, told as 26 but known as 25,
\* is the exception.
Readback ==
    \A name \in DOMAIN Known, i \in 0 .. 10 :
        ~(name \in {"CW", "CWR"} /\ i = 9) =>
            LET told  == Width(ModeOf(name), i)
                again == Selected(name, told)
            IN again # {} /\ \A j \in again : Width(ModeOf(name), j) = told
=============================================================================
