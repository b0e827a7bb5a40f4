----------------------------- MODULE Bandscope -----------------------------
(***************************************************************************)
(* The bandscope of one radio in dspserver.  A client starts, resizes and  *)
(* stops it on a connection of its own; a timer's handler fills the one    *)
(* buffer of pixels there is and sends it to all clients of the list.  The *)
(* handler fills the buffer under wideband_semaphore, the client thread    *)
(* frees it under wb_bufevent_semaphore: only pauses keep them apart.      *)
(***************************************************************************)
EXTENDS Integers, Sequences, SequencesExt

CONSTANTS
  Clients,     \* connections a client may make
  Orderly,     \* one client, which never resizes the bandscope and stops it before it
               \* leaves; and the library fills a buffer within the pauses of a stop
  MaxBuffers,  \* bound: buffers allocated
  None         \* no client

Period == 5    \* 50 / fps, with the ten frames a second that are fixed here

VARIABLES
  up,         \* the process has not died
  listener,   \* whether the client thread listens
  list,       \* Wideband_client_list
  left,       \* clients that are gone
  on,         \* clients with channel_enabled of the bandscope's channel
  known,      \* dsp_channel, spectrum.type and radio have been set once
  enabled, capable, \* enabled and radio.bandscope_capable
  buffer,     \* widebandBuffer: the number of the buffer, 0 for NULL
  buffers,    \* buffers allocated so far
  timers,     \* timers that run
  lastTimer,  \* the one in wideband_timerid runs
  command,    \* what the client thread does
  wbSem,      \* wb_bufevent_semaphore is taken
  handler, item, into, \* the handler, its entry and the buffer it was given
  counter,    \* frame_counter
  offset      \* samples the IQ thread has counted, in eighths of a block

listVars == <<listener, list, left>>
channelVars == <<on, known, enabled, capable>>
bufferVars == <<buffer, buffers>>
timerVars == <<timers, lastTimer>>
handlerVars == <<handler, item, into, counter>>
vars == <<up, listVars, channelVars, bufferVars, timerVars, command, wbSem, handlerVars, offset>>

Init ==
  /\ up = TRUE /\ listener = "starting" /\ list = <<>> /\ left = {}
  /\ on = {} /\ known = FALSE /\ enabled = FALSE /\ capable = FALSE
  /\ buffer = 0 /\ buffers = 0 /\ timers = 0 /\ lastTimer = FALSE
  /\ command = "idle" /\ wbSem = FALSE
  /\ handler = "idle" /\ item = None /\ into = 0 /\ counter = 0 /\ offset = 0

----------------------------------------------------------------------------
(* The client thread *)

Listen ==
  /\ up /\ listener = "starting"
  /\ \/ listener' = "on" /\ UNCHANGED up
     \/ listener' = "off" /\ up' \in BOOLEAN
  /\ UNCHANGED <<list, left, channelVars, bufferVars, timerVars, command, wbSem, handlerVars, offset>>

\* Between two callbacks of the client thread.
Ready == up /\ command = "idle"

Accept(c) ==
  /\ Ready /\ listener = "on" /\ c \notin left /\ ~Contains(list, c)
  /\ Orderly => list = <<>>
  /\ list' = Append(list, c)
  /\ UNCHANGED <<up, listener, left, channelVars, bufferVars, timerVars, command, wbSem, handlerVars, offset>>

\* STARTBANDSCOPE: another buffer and another timer each time.  The analyzer may
\* not be had; the timer is made all the same.
StartBandscope(c) ==
  /\ Ready /\ Contains(list, c) /\ buffers < MaxBuffers
  /\ Orderly => c \notin on
  /\ buffers' = buffers + 1 /\ buffer' = buffers + 1
  /\ \/ known' = TRUE /\ capable' = TRUE /\ enabled' = TRUE
     \/ UNCHANGED <<known, capable, enabled>>
  /\ on' = on \cup {c}
  /\ timers' = timers + 1 /\ lastTimer' = TRUE
  /\ UNCHANGED <<up, listVars, command, wbSem, handlerVars, offset>>

\* Mutant of StopTimer: the buffer is freed before the channel is disabled.
StopTimerFree(c) ==
  /\ Ready /\ Contains(list, c)
  /\ on' = on \ {c} /\ buffer' = 0
  /\ timers' = IF lastTimer THEN timers - 1 ELSE timers
  /\ lastTimer' = FALSE
  /\ command' = "disable"
  /\ UNCHANGED <<up, listVars, known, enabled, capable, buffers, wbSem, handlerVars, offset>>

\* STOPBANDSCOPE: the last timer is deleted, which ends no handler that runs.
StopTimer(c) ==
  /\ Ready /\ Contains(list, c)
  /\ Orderly => c \in on
  /\ on' = on \ {c}
  /\ timers' = IF lastTimer THEN timers - 1 ELSE timers
  /\ lastTimer' = FALSE
  /\ command' = "disable"
  /\ UNCHANGED <<up, listVars, known, enabled, capable, bufferVars, wbSem, handlerVars, offset>>

\* enable_wideband(FALSE), in the middle of which it sleeps.
StopDisable ==
  /\ up /\ command = "disable" /\ ~wbSem
  /\ enabled' = FALSE /\ wbSem' = TRUE
  /\ command' = "pause"
  /\ UNCHANGED <<up, listVars, on, known, capable, bufferVars, timerVars, handlerVars, offset>>

StopFree ==
  /\ up /\ command = "pause"
  /\ Orderly => handler # "fill"
  /\ capable' = FALSE /\ wbSem' = FALSE
  /\ buffer' = 0
  /\ command' = "idle"
  /\ UNCHANGED <<up, listVars, on, known, enabled, buffers, timerVars, handlerVars, offset>>

\* UPDATEBANDSCOPE frees the buffer whoever is filling it.
UpdateBandscope(c) ==
  /\ Ready /\ Contains(list, c) /\ enabled /\ ~wbSem /\ buffers < MaxBuffers
  /\ ~Orderly
  /\ buffers' = buffers + 1 /\ buffer' = buffers + 1
  /\ UNCHANGED <<up, listVars, channelVars, timerVars, command, wbSem, handlerVars, offset>>

\* wideband_errorcb: the channels the client had enabled are shut down; their
\* timers run on.
Eof(c) ==
  /\ Ready /\ Contains(list, c) /\ ~wbSem
  /\ Orderly => c \notin on /\ handler = "idle"
  /\ list' = RemoveFirst(list, c) /\ left' = left \cup {c}
  /\ IF c \in on /\ known
     THEN enabled' = FALSE /\ buffer' = 0
     ELSE UNCHANGED <<enabled, buffer>>
  /\ UNCHANGED <<up, listener, on, known, capable, buffers, timerVars, command, wbSem, handlerVars, offset>>

----------------------------------------------------------------------------
(* wideband_timer_handler *)

Live(p) == p # 0 /\ p = buffer

Tick ==
  /\ up /\ handler = "idle" /\ timers > 0 /\ ~wbSem /\ known
  /\ item' = IF list = <<>> THEN None ELSE Head(list)
  /\ handler' = "look"
  /\ UNCHANGED <<up, listVars, channelVars, bufferVars, timerVars, command, wbSem, into, counter, offset>>

\* Only the first client of the list is asked whether it wants the bandscope, and
\* it may be gone by now.  Without clients the pixels are thrown away.
Look ==
  /\ up /\ handler = "look"
  /\ IF item \in left THEN up' \in BOOLEAN ELSE UNCHANGED up
  /\ IF enabled /\ (item = None \/ (item \in on /\ capable))
     THEN handler' = "fill" /\ into' = buffer
     ELSE handler' = "idle" /\ UNCHANGED into
  /\ UNCHANGED <<listVars, channelVars, bufferVars, timerVars, command, wbSem, item, counter, offset>>

\* The library fills the buffer it was given, if there are new pixels.
Fill ==
  /\ up /\ handler = "fill"
  /\ up' \in IF Live(into) THEN {TRUE} ELSE IF into = 0 THEN {FALSE} ELSE BOOLEAN
  /\ handler' \in IF item = None THEN {"idle"} ELSE {"idle", "first"}
  /\ UNCHANGED <<listVars, channelVars, bufferVars, timerVars, command, wbSem, item, into, counter, offset>>

First ==
  /\ up /\ handler = "first" /\ ~wbSem
  /\ handler' = IF list = <<>> THEN "idle" ELSE "walk"
  /\ item' = IF list = <<>> THEN item ELSE Head(list)
  /\ UNCHANGED <<up, listVars, channelVars, bufferVars, timerVars, command, wbSem, into, counter, offset>>

After(c) ==
  IF Contains(list, c) /\ Last(list) # c THEN list[1 + CHOOSE k \in 1 .. Len(list) : list[k] = c]
  ELSE None

\* Every fifth visit sends.  Whether the channel is still enabled is looked at
\* then, and the buffer read, without a look at whether it is still there.
Visit ==
  /\ up /\ handler = "walk" /\ ~wbSem
  /\ LET sends == counter <= 1
         torn == item \in left \/ (sends /\ enabled /\ ~Live(buffer))
     IN /\ IF torn THEN up' \in BOOLEAN ELSE UNCHANGED up
        /\ counter' = CASE ~sends -> counter - 1 [] sends /\ enabled -> Period [] OTHER -> 0
        /\ handler' = IF (sends /\ ~enabled) \/ After(item) = None THEN "idle" ELSE "walk"
        /\ item' = IF After(item) = None THEN item ELSE After(item)
  /\ UNCHANGED <<listVars, channelVars, bufferVars, timerVars, command, wbSem, into, offset>>

\* wb_iq_thread copies every packet to the start of its block and hands the block
\* to the analyzer when as many samples as it has room for were received.
Samples ==
  /\ up /\ known /\ enabled
  /\ offset' = IF offset = 7 THEN 0 ELSE offset + 1
  /\ UNCHANGED <<up, listVars, channelVars, bufferVars, timerVars, command, wbSem, handlerVars>>

Handler == Tick \/ Look \/ Fill \/ First \/ Visit

Next ==
  \/ Listen \/ StopDisable \/ StopFree \/ Handler \/ Samples
  \/ \E c \in Clients : Accept(c) \/ StartBandscope(c) \/ StopTimer(c) \/ UpdateBandscope(c) \/ Eof(c)

Spec == Init /\ [][Next]_vars
----------------------------------------------------------------------------
(* Properties *)

TypeOK ==
  /\ up \in BOOLEAN /\ ToSet(list) \cap left = {} /\ on \subseteq Clients
  /\ buffer \in 0 .. buffers /\ buffers \in 0 .. MaxBuffers
  /\ timers \in 0 .. MaxBuffers /\ (lastTimer => timers > 0)
  /\ command \in {"idle", "disable", "pause"} /\ wbSem = (command = "pause")
  /\ handler \in {"idle", "look", "fill", "first", "walk"} /\ counter \in 0 .. Period
  /\ offset \in 0 .. 7

\* A bandscope that is used in order never has its pixels written to a buffer that
\* is gone, nor read from one, through any number of starts and stops.
BufferAlive == Orderly /\ listener = "on" => up
=============================================================================
