----------------------------- MODULE RadioLink -----------------------------
(***************************************************************************)
(* How dspserver takes in the programs that control radios.  A listener    *)
(* accepts connections into the table radio; a thread per connection asks  *)
(* the controller for its manifest, makes the channels it describes and    *)
(* then watches the connection.  All of them read and count                *)
(* connected_radios without a lock.                                        *)
(***************************************************************************)
EXTENDS Integers, Sequences, FiniteSets, SequencesExt

CONSTANTS
  Controllers,  \* connections of controllers
  Receivers,    \* receivers of a controller's radio, with one transmitter
  MaxRadios,    \* radios that may be connected, 4 in the code
  MaxChannels,  \* MAX_CHANNELS
  Nobody        \* no controller

VARIABLES
  up,        \* dspserver has not ended
  count,     \* connected_radios
  socket,    \* radio[].socket: the controller at its other end
  connected, \* radio[].connected
  thread,    \* command_thread of each connection: where it is, and its slot
  gone,      \* controllers that have ended
  channels,  \* channels[0 .. active_channels - 1]
  calm       \* controllers came one after the other, none too many, and none left

tableVars == <<count, socket, connected>>
vars == <<up, tableVars, thread, gone, channels, calm>>

Slots == 0 .. MaxRadios

Init ==
  /\ up = TRUE /\ count = 0
  /\ socket = [s \in Slots |-> Nobody] /\ connected = [s \in Slots |-> FALSE]
  /\ thread = [c \in Controllers |-> [pc |-> "none", slot |-> 0]]
  /\ gone = {} /\ channels = <<>> /\ calm = TRUE

At(c, pc) == up /\ thread[c].pc = pc
Goto(c, pc) == thread' = [thread EXCEPT ![c].pc = pc]

----------------------------------------------------------------------------
\* hw_command_listener_thread: the connection is stored in the first slot that is
\* not counted, whatever it holds.
Accept(c) ==
  /\ At(c, "none") /\ c \notin gone /\ count \in Slots
  /\ socket' = [socket EXCEPT ![count] = c]
  /\ Goto(c, "start")
  /\ calm' = (calm /\ count < MaxRadios
                   /\ \A d \in Controllers : thread[d].pc \in {"none", "watch"})
  /\ UNCHANGED <<up, count, connected, gone, channels>>

\* The race for the counter can take it past the table.
AcceptBeyond(c) ==
  /\ At(c, "none") /\ c \notin gone /\ count \notin Slots
  /\ up' \in BOOLEAN /\ calm' = FALSE
  /\ Goto(c, "done")
  /\ UNCHANGED <<tableVars, gone, channels>>

\* command_thread: a connection too many is closed, and the counter, which has not
\* counted it, is counted down.
Refuse(c) ==
  /\ At(c, "start") /\ count = MaxRadios
  /\ connected' = [connected EXCEPT ![count] = FALSE]
  /\ socket' = [socket EXCEPT ![count] = Nobody]
  /\ count' = count - 1
  /\ Goto(c, "done")
  /\ UNCHANGED <<up, gone, channels, calm>>

Enter(c) ==
  /\ At(c, "start") /\ count \in Slots \ {MaxRadios}
  /\ connected' = [connected EXCEPT ![count] = TRUE]
  /\ thread' = [thread EXCEPT ![c] = [pc |-> "manifest", slot |-> count]]
  /\ UNCHANGED <<up, count, socket, gone, channels, calm>>

\* Mutant of NewChannels: the channel's place in the radio is its place in the table.
NewChannelsNumbered(c, slot, n) ==
  LET first == Len(channels) IN
  [k \in 1 .. IF n < MaxChannels - first THEN n ELSE MaxChannels - first |->
     [owner |-> c, connection |-> slot,
      index |-> first + k - 1, dsp |-> k - 1, tx |-> k > Receivers]]

\* createChannels: n channels of the controller c, as many as the table has room
\* for.  The numbers of the DSP library's channels start again at 0.
NewChannels(c, slot, n) ==
  LET first == Len(channels) IN
  [k \in 1 .. IF n < MaxChannels - first THEN n ELSE MaxChannels - first |->
     [owner |-> c, connection |-> slot,
      index |-> k - 1, dsp |-> k - 1, tx |-> k > Receivers]]

\* hw_get_manifest asks whoever the slot's socket leads to, and takes what one recv
\* returns; a manifest that is cut ends before its last channels.
Manifest(c) ==
  /\ At(c, "manifest")
  /\ LET slot == thread[c].slot IN
     IF socket[slot] \in gone \cup {Nobody}
     THEN up' = FALSE /\ UNCHANGED <<channels, thread>>
     ELSE /\ \E n \in {0, Receivers + 1} :
               channels' = channels \o NewChannels(socket[slot], slot, n)
          /\ Goto(c, "count") /\ UNCHANGED up
  /\ UNCHANGED <<tableVars, gone, calm>>

Count(c) ==
  /\ At(c, "count")
  /\ count' = count + 1
  /\ Goto(c, "watch")
  /\ UNCHANGED <<up, socket, connected, gone, channels, calm>>

\* Every thread watches the slot that was counted last, and closes it.
Watch(c) ==
  /\ At(c, "watch") /\ count - 1 \in Slots /\ ~connected[count - 1]
  /\ socket' = [socket EXCEPT ![count - 1] = Nobody]
  /\ count' = count - 1
  /\ Goto(c, "done")
  /\ UNCHANGED <<up, connected, gone, channels, calm>>

\* A counter at zero makes them look before the table, one too high behind it.
WatchNothing(c) ==
  /\ thread[c].pc \in {"start", "watch"} /\ up
  /\ IF thread[c].pc = "start" THEN count \notin Slots ELSE count - 1 \notin Slots
  /\ up' \in BOOLEAN
  /\ Goto(c, "done")
  /\ UNCHANGED <<tableVars, gone, channels, calm>>

\* A controller ends; it is missed when a command for one of its channels fails.
Leave(c) ==
  /\ up /\ c \notin gone /\ thread[c].pc # "none"
  /\ gone' = gone \cup {c} /\ calm' = FALSE
  /\ UNCHANGED <<up, tableVars, thread, channels>>

CommandFails(k) ==
  /\ up /\ k \in DOMAIN channels /\ socket[channels[k].connection] \in gone \cup {Nobody}
  /\ connected' = [connected EXCEPT ![channels[k].connection] = FALSE]
  /\ UNCHANGED <<up, count, socket, thread, gone, channels, calm>>

Next ==
  \/ \E c \in Controllers :
       \/ Accept(c) \/ AcceptBeyond(c) \/ Refuse(c) \/ Enter(c) \/ Manifest(c) \/ Count(c)
       \/ Watch(c) \/ WatchNothing(c) \/ Leave(c)
  \/ \E k \in 1 .. MaxChannels : CommandFails(k)

Spec == Init /\ [][Next]_vars
----------------------------------------------------------------------------
(* Properties *)

TypeOK ==
  /\ up \in BOOLEAN /\ count \in 0 .. Cardinality(Controllers)
  /\ socket \in [Slots -> Controllers \cup {Nobody}] /\ connected \in [Slots -> BOOLEAN]
  /\ \A c \in Controllers :
       thread[c].pc \in {"none", "start", "manifest", "count", "watch", "done"}
  /\ gone \subseteq Controllers /\ Len(channels) <= MaxChannels

\* Controllers that come one at a time get a slot each, and the commands for a
\* channel go to the controller whose manifest named it, for the receiver it named.
ChannelReachesOwner ==
  calm => \A k \in DOMAIN channels :
            /\ socket[channels[k].connection] = channels[k].owner
            /\ connected[channels[k].connection]
            /\ channels[k].index \in 0 .. Receivers
            /\ \A j \in DOMAIN channels :
                 (j # k /\ channels[j].owner = channels[k].owner)
                   => channels[j].index # channels[k].index
=============================================================================
