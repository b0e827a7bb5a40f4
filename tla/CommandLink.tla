---------------------------- MODULE CommandLink ----------------------------
(***************************************************************************)
(* The TCP connection between dspserver and hpsdr.  dspserver sends a      *)
(* command, a start byte, the length and the bytes of the command, and     *)
(* waits for one answer.  hpsdr reads a byte at a time from a socket that  *)
(* does not block, and looks at the last byte again whenever there is no   *)
(* new one.  A command sets a frequency, which dspserver notes when hpsdr  *)
(* agrees, or a sample rate, which it notes at any rate.                   *)
(***************************************************************************)
EXTENDS Integers, Sequences, SequencesExt

CONSTANTS
  Tails,       \* the last byte of a command: anything, Start as well
  Longest,     \* bound: the length Start stands for, 127 in the code
  Capacity,    \* bound: bytes of the parser's buffer, 64 in the code
  MaxCommands, \* bound: commands sent
  MaxAnswers   \* bound: answers kept until dspserver reads them

VARIABLES
  up,       \* hpsdr runs
  linked,   \* radio[connection].connected
  asked,    \* the number of the last command dspserver sent
  waiting,  \* dspserver waits for its answer
  got,      \* what it received for an answer: the commands that were answered
  kinds,    \* what each command sent was to set
  noted,    \* the command whose frequency is channels[].frequency, 0 for none
  tuned,    \* the command whose frequency the radio has
  net,      \* bytes on their way to hpsdr
  socket,   \* bytes hpsdr may read
  byte,     \* byte[0], the last one read
  started,  \* packet_started
  place,    \* i
  length,   \* len
  command,  \* the bytes of command[] written since the packet started
  answers,  \* answers on their way to dspserver
  permits,  \* hw_cmd_semaphore
  intact    \* no command was split, and none ended with Start

parserVars == <<byte, started, place, length, command>>
senderVars == <<linked, asked, waiting, got, permits, kinds, noted>>
vars == <<up, senderVars, tuned, net, socket, parserVars, answers, intact>>

Start == 127
Garbage == 0

Init ==
  /\ up = TRUE /\ linked = TRUE /\ asked = 0 /\ waiting = FALSE /\ got = <<>> /\ permits = 1
  /\ kinds = <<>> /\ noted = 0 /\ tuned = 0
  /\ net = <<>> /\ socket = <<>>
  /\ byte = 0 /\ started = FALSE /\ place = -1 /\ length = 0 /\ command = <<>>
  /\ answers = <<>> /\ intact = TRUE

Frame(k, tail) == <<Start, 2, k, tail>>

----------------------------------------------------------------------------
(* dspserver: send_command, called by the one thread that reads clients *)

SendCommand(kind, tail) ==
  /\ linked /\ up /\ ~waiting /\ asked < MaxCommands
  /\ asked' = asked + 1 /\ waiting' = TRUE /\ permits' = permits - 1
  /\ kinds' = Append(kinds, kind)
  /\ net' = net \o Frame(asked + 1, tail)
  /\ intact' = (intact /\ tail # Start)
  /\ got' = <<>>
  /\ UNCHANGED <<up, linked, noted, tuned, socket, parserVars, answers>>

HwSetFrequency(tail) == SendCommand("frequency", tail)
HwSetSampleRate(tail) == SendCommand("rate", tail)

\* The send fails, and so does the receive after it: the semaphore is posted twice.
SendFails ==
  /\ linked /\ ~up /\ ~waiting /\ asked < MaxCommands
  /\ asked' = asked + 1 /\ permits' = permits + 1
  /\ kinds' = Append(kinds, "rate")
  /\ linked' = FALSE /\ got' = <<>>
  /\ UNCHANGED <<up, waiting, noted, tuned, net, socket, parserVars, answers, intact>>

\* A frequency is noted if the answer is OK.
Noted(k, received) ==
  IF kinds[k] = "frequency" /\ received[1].ok /\ Len(received) = 1 THEN k ELSE noted

\* One recv takes what there is; there is no timeout.
ReceiveAnswer ==
  /\ waiting /\ answers # <<>>
  /\ got' = answers /\ answers' = <<>>
  /\ noted' = Noted(asked, answers)
  /\ waiting' = FALSE /\ permits' = permits + 1
  /\ UNCHANGED <<up, linked, asked, kinds, tuned, net, socket, parserVars, intact>>

ReceiveFails ==
  /\ waiting /\ ~up /\ answers = <<>>
  /\ linked' = FALSE /\ waiting' = FALSE /\ permits' = permits + 1
  /\ UNCHANGED <<up, asked, got, kinds, noted, tuned, net, socket, parserVars, answers, intact>>

----------------------------------------------------------------------------
(* TCP *)

\* A command is sent in one call and arrives as a rule in one piece.
Deliver ==
  /\ net # <<>>
  /\ socket' = socket \o net /\ net' = <<>>
  /\ UNCHANGED <<up, senderVars, tuned, parserVars, answers, intact>>

DeliverPart(n) ==
  /\ n < Len(net)
  /\ socket' = socket \o SubSeq(net, 1, n) /\ net' = SubSeq(net, n + 1, Len(net))
  /\ intact' = FALSE
  /\ UNCHANGED <<up, senderVars, tuned, parserVars, answers>>

----------------------------------------------------------------------------
(* hpsdr: client_thread *)

LengthOf(b) == IF b = Start THEN Longest ELSE b

\* The command of a packet's bytes, which may be nobody's.
CommandOf(bytes) ==
  IF Len(bytes) = 2 /\ bytes[1] \in 1 .. MaxCommands THEN bytes[1] ELSE Garbage

\* parse_command, and its answer.  Without a receiver attached it refuses.
Execute(bytes) ==
  \E ok \in BOOLEAN :
    LET k == CommandOf(bytes) IN
    /\ answers' = IF Len(answers) < MaxAnswers THEN Append(answers, [of |-> k, ok |-> ok])
                  ELSE answers
    /\ tuned' = IF ok /\ k \in DOMAIN kinds /\ kinds[k] = "frequency" THEN k ELSE tuned
    /\ started' = FALSE

\* Mutant of StoreByte: the packet ends one byte later.
StoreByteMore(b) ==
  /\ command' = IF place < Capacity THEN Append(command, b) ELSE command
  /\ up' \in IF place < Capacity THEN {TRUE} ELSE BOOLEAN
  /\ place' = place + 1
  /\ UNCHANGED length
  /\ IF place + 1 <= length THEN UNCHANGED <<answers, tuned, started>> ELSE Execute(command')

\* A byte of the command.  Nothing compares the length with the buffer.
StoreByte(b) ==
  /\ command' = IF place < Capacity THEN Append(command, b) ELSE command
  /\ up' \in IF place < Capacity THEN {TRUE} ELSE BOOLEAN
  /\ place' = place + 1
  /\ UNCHANGED length
  /\ IF place + 1 < length THEN UNCHANGED <<answers, tuned, started>> ELSE Execute(command')

StoreLength(b) ==
  /\ length' = LengthOf(b) /\ place' = 0
  /\ UNCHANGED <<up, command>>
  /\ IF 0 < LengthOf(b) THEN UNCHANGED <<answers, tuned, started>> ELSE Execute(command)

StartPacket(b) ==
  /\ started' = (b = Start)
  /\ IF b = Start THEN place' = -1 /\ command' = <<>> ELSE UNCHANGED <<place, command>>
  /\ UNCHANGED <<up, length, answers, tuned>>

Process(b) ==
  IF ~started THEN StartPacket(b)
  ELSE IF place = -1 THEN StoreLength(b) ELSE StoreByte(b)

ReadByte ==
  /\ up /\ socket # <<>>
  /\ byte' = Head(socket) /\ socket' = Tail(socket)
  /\ Process(Head(socket))
  /\ UNCHANGED <<senderVars, net, intact>>

\* EWOULDBLOCK: the last byte is processed as if it had come again.
ReadNothing ==
  /\ up /\ socket = <<>>
  /\ started \/ byte = Start
  /\ Process(byte)
  /\ UNCHANGED <<senderVars, net, socket, byte, intact>>

\* hpsdr ends when the connection breaks, or dies.
Exit ==
  /\ up /\ up' = FALSE
  /\ UNCHANGED <<senderVars, tuned, net, socket, parserVars, answers, intact>>

----------------------------------------------------------------------------
Hpsdr == ReadByte \/ ReadNothing
Network == Deliver \/ \E n \in 1 .. 3 : DeliverPart(n)

Next ==
  \/ \E tail \in Tails : HwSetFrequency(tail) \/ HwSetSampleRate(tail)
  \/ SendFails \/ ReceiveAnswer \/ ReceiveFails
  \/ Network \/ Hpsdr \/ Exit

Spec == Init /\ [][Next]_vars
----------------------------------------------------------------------------
(* Properties *)

TypeOK ==
  /\ up \in BOOLEAN /\ linked \in BOOLEAN /\ asked \in 0 .. MaxCommands
  /\ waiting \in BOOLEAN /\ permits \in 0 .. 2
  /\ place \in -1 .. Longest /\ length \in 0 .. Longest /\ Len(command) <= Capacity
  /\ started \in BOOLEAN /\ intact \in BOOLEAN

\* As long as commands come whole and none ends with the start byte, every answer is
\* that of the command just sent and the parser's buffer is never left; the old byte
\* it keeps looking at does no harm.  The frequency dspserver remembers is the one
\* the radio is tuned to, also when hpsdr has refused a command.
LockStep ==
  intact =>
    /\ Len(command) <= 2 /\ length <= 2
    /\ (~waiting => answers = <<>>)
    /\ (~waiting /\ got # <<>> => Len(got) = 1 /\ got[1].of = asked)
    /\ (up /\ ~waiting => noted = tuned)
=============================================================================
