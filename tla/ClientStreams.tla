---------------------------- MODULE ClientStreams ----------------------------
(***************************************************************************)
(* How QtRadio reads what dspserver sends.  Its connections for commands,  *)
(* spectrum, wideband and audio work alike: a header, which says how long  *)
(* the body is, then the body, put together from whatever pieces TCP       *)
(* delivers.  Qt calls the reader when data has come, but not while it is  *)
(* already in it: the dialog that chooses a radio runs inside the reader.  *)
(***************************************************************************)
EXTENDS Integers, Sequences, FiniteSets, SequencesExt

CONSTANTS
  Kinds,     \* connections: "server", "spectrum", "wideband", "audio"
  Radios,    \* controllers dspserver has a manifest of
  Sound,     \* dspserver sends nothing the reader refuses
  MaxFrames, \* bound: frames sent over a connection
  MaxTries   \* bound: connections made

VARIABLES
  kind,     \* which connection this is
  up,       \* QtRadio has neither ended nor come to a stop
  tries,    \* connections made
  open,     \* the connection stands
  frames,   \* what was sent over it: for each frame its type
  net,      \* units under way: frame number and place in the frame
  buffer,   \* units Qt has received
  signal,   \* readyRead is to be emitted
  pc,       \* idle, in the reader, or in the dialog
  todo,     \* toRead - bytesRead
  state,    \* READ_HEADER or the body
  bytes,    \* bytes
  length,   \* length
  header,   \* the frame of the header read last, 0 for none
  mixed,    \* a header or body was put together from units of two frames
  out,      \* frames handed on
  late,     \* units came while the reader could not be called
  channels  \* receivers known from manifests

socketVars == <<open, frames, net, buffer, signal>>
readerVars == <<pc, todo, state, bytes, length, header, mixed, out>>
vars == <<kind, up, tries, socketVars, readerVars, late, channels>>

HeaderSize == 2
BodySize == 2
WholeSize == HeaderSize + BodySize

\* What may come over each connection.
Types(k) ==
  (CASE k = "server" -> {"manifest", "info"} [] OTHER -> {"block"})
    \cup (IF Sound THEN {} ELSE {"refused", "empty"})

Fresh ==
  /\ net' = <<>> /\ buffer' = <<>> /\ signal' = FALSE /\ frames' = <<>>
  /\ pc' = "idle" /\ todo' = 0

Init ==
  /\ kind \in Kinds /\ up = TRUE /\ tries = 0 /\ open = FALSE
  /\ frames = <<>> /\ net = <<>> /\ buffer = <<>> /\ signal = FALSE
  /\ pc = "idle" /\ todo = 0 /\ state = "header" /\ bytes = 0 /\ length = 0
  /\ header = 0 /\ mixed = FALSE /\ out = <<>> /\ late = FALSE /\ channels = 0

----------------------------------------------------------------------------
(* The connection *)

\* Mutant of Connect: what is left of the last connection's frame is kept.
ConnectKeep ==
  /\ up /\ ~open /\ pc = "idle" /\ tries < MaxTries
  /\ tries' = tries + 1 /\ open' = TRUE
  /\ Fresh /\ out' = <<>> /\ late' = FALSE /\ mixed' = FALSE
  /\ UNCHANGED <<kind, up, state, bytes, length, header, channels>>

\* connect: a new socket, and the reader begins with a header.
Connect ==
  /\ up /\ ~open /\ pc = "idle" /\ tries < MaxTries
  /\ tries' = tries + 1 /\ open' = TRUE
  /\ Fresh /\ out' = <<>> /\ late' = FALSE
  /\ state' = "header" /\ bytes' = 0 /\ header' = 0 /\ mixed' = FALSE
  /\ UNCHANGED <<kind, up, length, channels>>

\* disconnect, or the loss of the connection: disconnected takes the reader off the
\* socket's signals.  What was read of a frame stays.
Disconnect ==
  /\ up /\ open /\ pc # "read"
  /\ open' = FALSE /\ net' = <<>> /\ signal' = FALSE
  /\ UNCHANGED <<kind, up, tries, frames, buffer, readerVars, late, channels>>

----------------------------------------------------------------------------
(* dspserver and TCP *)

Units(n, type) ==
  [k \in 1 .. IF type = "empty" THEN HeaderSize ELSE WholeSize |-> [frame |-> n, at |-> k]]

Send(type) ==
  /\ open /\ Len(frames) < MaxFrames
  /\ type = "manifest" => Cardinality({n \in DOMAIN frames : frames[n] = "manifest"}) < Radios
  /\ frames' = Append(frames, type)
  /\ net' = net \o Units(Len(frames'), type)
  /\ UNCHANGED <<kind, up, tries, open, buffer, signal, readerVars, late, channels>>

\* Qt receives some units.  It does not signal them while the reader runs.
Arrive(n) ==
  /\ up /\ open /\ pc # "read" /\ n \in 1 .. Len(net)
  /\ buffer' = buffer \o SubSeq(net, 1, n)
  /\ net' = SubSeq(net, n + 1, Len(net))
  /\ signal' = (pc = "idle") /\ late' = (pc = "dialog")
  /\ UNCHANGED <<kind, up, tries, open, frames, readerVars, channels>>

----------------------------------------------------------------------------
(* The reader *)

\* readyRead: only what is there now will be read.
Enter ==
  /\ up /\ signal /\ pc = "idle"
  /\ signal' = FALSE /\ pc' = "read" /\ todo' = Len(buffer)
  /\ UNCHANGED <<kind, up, tries, open, frames, net, buffer, state, bytes, length, header,
                 mixed, out, late, channels>>

Type(n) == IF n = 0 THEN "refused" ELSE frames[n]

Read(wanted) == IF wanted < Len(buffer) THEN wanted ELSE Len(buffer)

\* The units of one read that do not continue the frame read so far.
Strays(units, frame, place) ==
  \E k \in DOMAIN units : units[k] # [frame |-> frame, at |-> place + k]

\* A header in pieces.  One that is refused is forgotten, its body read as the next
\* header; one without a body leaves the command reader where it is, and there it
\* goes round for ever.
ReadHeader ==
  /\ up /\ pc = "read" /\ todo > 0 /\ state = "header" /\ open
  /\ LET n == Read(HeaderSize - bytes)
         units == SubSeq(buffer, 1, n)
         frame == IF bytes = 0 /\ n > 0 THEN units[1].frame ELSE header IN
     /\ buffer' = SubSeq(buffer, n + 1, Len(buffer)) /\ todo' = todo - n
     /\ mixed' = (mixed \/ Strays(units, frame, bytes))
     /\ header' = frame
     /\ IF bytes + n < HeaderSize
        THEN bytes' = bytes + n /\ UNCHANGED <<state, length, up>>
        ELSE CASE Type(frame) = "refused" -> bytes' = 0 /\ UNCHANGED <<state, length, up>>
               [] Type(frame) = "empty" /\ kind = "server" ->
                    bytes' = HeaderSize /\ up' = (todo' = 0) /\ UNCHANGED <<state, length>>
               [] Type(frame) = "empty" /\ kind # "server" ->
                    bytes' = 0 /\ UNCHANGED <<state, length, up>>
               [] OTHER -> bytes' = 0 /\ state' = "body" /\ length' = BodySize /\ UNCHANGED up
  /\ UNCHANGED <<kind, tries, open, frames, net, signal, pc, out, late, channels>>

\* A manifest goes to the first place for one, but the text it is read from is
\* looked for at the place its header names: a second manifest meets an empty text.
Understood == header # 0 => Cardinality({n \in 1 .. header : frames[n] = "manifest"}) <= 1

\* A body in pieces.  A whole one is handed on; the manifest makes the channels, and
\* opens the dialog.
ReadBody ==
  /\ up /\ pc = "read" /\ todo > 0 /\ state = "body" /\ open
  /\ LET n == Read(length - bytes)
         units == SubSeq(buffer, 1, n)
         whole == bytes + n = length IN
     /\ buffer' = SubSeq(buffer, n + 1, Len(buffer)) /\ todo' = todo - n
     /\ mixed' = (mixed \/ Strays(units, header, HeaderSize + bytes))
     /\ bytes' = IF whole THEN 0 ELSE bytes + n
     /\ state' = IF whole THEN "header" ELSE "body"
     /\ out' = IF whole THEN Append(out, header) ELSE out
     /\ IF whole /\ Type(header) = "manifest"
        THEN /\ pc' = IF Understood THEN "dialog" ELSE pc
             /\ up' = Understood /\ channels' = 1
        ELSE UNCHANGED <<pc, up, channels>>
  /\ UNCHANGED <<kind, tries, open, frames, net, signal, length, header, late>>

\* activateRadio: the user chooses a radio, or none.
DialogEnd ==
  /\ up /\ pc = "dialog"
  /\ pc' = "read"
  /\ UNCHANGED <<kind, up, tries, socketVars, todo, state, bytes, length, header, mixed, out,
                 late, channels>>

\* Everything that was there at the start has been read; or the connection was lost
\* in the dialog, a read fails, and the reader leaves.
Leave ==
  /\ up /\ pc = "read" /\ (todo <= 0 \/ ~open)
  /\ pc' = "idle"
  /\ UNCHANGED <<kind, up, tries, socketVars, todo, state, bytes, length, header, mixed, out,
                 late, channels>>

----------------------------------------------------------------------------
Next ==
  \/ Connect \/ Disconnect
  \/ \E type \in Types(kind) : Send(type)
  \/ \E n \in 1 .. MaxFrames * WholeSize : Arrive(n)
  \/ Enter \/ ReadHeader \/ ReadBody \/ DialogEnd \/ Leave

Spec == Init /\ [][Next]_vars
----------------------------------------------------------------------------
(* Properties *)

TypeOK ==
  /\ kind \in Kinds /\ up \in BOOLEAN /\ tries \in 0 .. MaxTries /\ open \in BOOLEAN
  /\ Len(frames) <= MaxFrames /\ pc \in {"idle", "read", "dialog"}
  /\ todo <= MaxFrames * WholeSize /\ state \in {"header", "body"}
  /\ bytes \in 0 .. HeaderSize /\ header \in 0 .. MaxFrames /\ channels \in 0 .. 1

\* However TCP cuts the frames, and wherever an earlier connection ended, headers and
\* bodies are put together from one frame each, and every frame is handed on once and
\* in its order.  What has come is read, unless it came while the dialog was open.
Framed ==
  /\ (up /\ open /\ pc = "idle" /\ ~signal) => buffer = <<>> \/ late
  /\ (\A n \in DOMAIN frames : frames[n] \notin {"refused", "empty"}) =>
       /\ ~mixed
       /\ out = [k \in 1 .. Len(out) |-> k]
=============================================================================
