--------------------------- MODULE SpectrumFanout ---------------------------
(***************************************************************************)
(* How dspserver hands spectrum frames to its clients.  Every channel has  *)
(* a timer; its handler takes the channel's pixels and walks the list of   *)
(* spectrum clients, letting go of the list's semaphore at every one of    *)
(* them.  A thread of its own takes in new clients and removes those that  *)
(* are gone, while handlers stand on their entries.                        *)
(***************************************************************************)
EXTENDS Integers, Sequences, FiniteSets, SequencesExt

CONSTANTS
  Clients,   \* connections a spectrum client may make
  Channels,  \* receivers with a spectrum timer
  Period,    \* 50 / fps: visits of the handler from one frame to the next
  None       \* no client, no owner of a semaphore

VARIABLES
  up,       \* the process has not died
  listener, \* whether the client thread listens: starting, on or off
  list,     \* Spectrum_client_list
  next,     \* entries.tqe_next of every entry, kept by one that was removed
  left,     \* clients whose connection ended
  freed,    \* clients whose entry is freed
  enabled,  \* channels[i].enabled
  fps,      \* channels: SETFPS has set the number of frames
  counter,  \* channels[i].spectrum.frame_counter, not counted below 0
  handler,  \* what the handler of each timer does
  item,     \* the entry it stands on
  eof,      \* what spectrum_errorcb does, and for whom
  specSem, spectrumSem, \* owners of spec_bufevent_semaphore and spectrum_semaphore
  fed       \* the client a channel's last frame went to in this walk

listVars == <<list, next, left, freed>>
handlerVars == <<counter, handler, item, fed>>
channelVars == <<enabled, fps>>
vars == <<up, listener, listVars, channelVars, handlerVars, eof, specSem, spectrumSem>>

NoEof == [pc |-> "idle", client |-> None]

Init ==
  /\ up = TRUE /\ listener = "starting"
  /\ list = <<>> /\ next = [c \in Clients |-> None] /\ left = {} /\ freed = {}
  /\ enabled = [i \in Channels |-> FALSE] /\ fps = {}
  /\ counter = [i \in Channels |-> 0]
  /\ handler = [i \in Channels |-> "none"] /\ item = [i \in Channels |-> None]
  /\ eof = NoEof /\ specSem = None /\ spectrumSem = None
  /\ fed = [i \in Channels |-> None]

----------------------------------------------------------------------------
(* The client thread *)

\* spectrum_client_thread: without a port the server goes on without spectrum; a
\* failing listen ends it.
Listen ==
  /\ up /\ listener = "starting"
  /\ \/ listener' = "on" /\ UNCHANGED up
     \/ listener' = "off" /\ up' \in BOOLEAN
  /\ UNCHANGED <<listVars, channelVars, handlerVars, eof, specSem, spectrumSem>>

\* do_accept_spectrum: a new client becomes the last of the list.
Accept(c) ==
  /\ up /\ listener = "on" /\ eof = NoEof /\ specSem = None
  /\ c \notin left /\ ~Contains(list, c)
  /\ list' = Append(list, c)
  /\ next' = IF list = <<>> THEN next ELSE [next EXCEPT ![Last(list)] = c]
  /\ UNCHANGED <<up, listener, left, freed, channelVars, handlerVars, eof, specSem, spectrumSem>>

\* SETFPS through spectrum_readcb, which drops commands for a channel that is not
\* enabled.
SetFps(i) ==
  /\ up /\ eof = NoEof /\ specSem = None /\ list # <<>> /\ enabled[i]
  /\ i \notin fps
  /\ fps' = fps \cup {i}
  /\ UNCHANGED <<up, listener, listVars, enabled, handlerVars, eof, specSem, spectrumSem>>

\* spectrum_errorcb: the entry is taken off the list under both semaphores, and
\* freed 5 ms later under the second one; the first is kept all the time.
Eof(c) ==
  /\ up /\ eof = NoEof /\ Contains(list, c) /\ specSem = None
  /\ specSem' = "eof" /\ eof' = [pc |-> "remove", client |-> c]
  /\ left' = left \cup {c}
  /\ UNCHANGED <<up, listener, list, next, freed, channelVars, handlerVars, spectrumSem>>

EofRemove ==
  /\ up /\ eof.pc = "remove" /\ spectrumSem = None
  /\ LET c == eof.client
         before == {d \in ToSet(list) : next[d] = c} IN
     /\ list' = SelectSeq(list, LAMBDA d : d # c)
     /\ next' = [d \in Clients |-> IF d \in before THEN next[c] ELSE next[d]]
  /\ eof' = [eof EXCEPT !.pc = "free"]
  /\ UNCHANGED <<up, listener, left, freed, channelVars, handlerVars, specSem, spectrumSem>>

EofFree ==
  /\ up /\ eof.pc = "free" /\ spectrumSem = None
  /\ freed' = freed \cup {eof.client}
  /\ specSem' = None /\ eof' = NoEof
  /\ UNCHANGED <<up, listener, list, next, left, channelVars, handlerVars, spectrumSem>>

----------------------------------------------------------------------------
(* The channels, which other threads start and stop *)

\* STARTXCVR ends with spectrum_timer_init.
Start(i) ==
  /\ up /\ ~enabled[i]
  /\ enabled' = [enabled EXCEPT ![i] = TRUE]
  /\ handler' = [handler EXCEPT ![i] = IF @ = "none" THEN "idle" ELSE @]
  /\ UNCHANGED <<up, listener, listVars, fps, counter, item, fed, eof, specSem, spectrumSem>>

\* STOPXCVR does not look at the semaphores of the spectrum.
Stop(i) ==
  /\ up /\ enabled[i]
  /\ enabled' = [enabled EXCEPT ![i] = FALSE]
  /\ UNCHANGED <<up, listener, listVars, fps, handlerVars, eof, specSem, spectrumSem>>

----------------------------------------------------------------------------
(* spectrum_timer_handler *)

At(i, pc) == up /\ handler[i] = pc
Goto(i, pc) == handler' = [handler EXCEPT ![i] = pc]

\* Every 20 ms.  Whether there are clients at all is looked at once.
Tick(i) ==
  /\ At(i, "idle") /\ specSem = None
  /\ \E j \in Channels : enabled[j]
  /\ item' = [item EXCEPT ![i] = IF list = <<>> THEN None ELSE Head(list)]
  /\ fed' = [fed EXCEPT ![i] = None]
  /\ Goto(i, "pixels")
  /\ UNCHANGED <<up, listener, listVars, channelVars, counter, eof, specSem, spectrumSem>>

\* No clients, no channel or no new pixels, as always in a scope mode, which does
\* not ask for the flag: the handler ends.
NoPixels(i) ==
  /\ At(i, "pixels") /\ spectrumSem = None
  /\ Goto(i, "idle")
  /\ UNCHANGED <<up, listener, listVars, channelVars, counter, item, fed, eof, specSem, spectrumSem>>

Pixels(i) ==
  /\ At(i, "pixels") /\ spectrumSem = None
  /\ item[i] # None /\ enabled[i]
  /\ Goto(i, "first")
  /\ UNCHANGED <<up, listener, listVars, channelVars, counter, item, fed, eof, specSem, spectrumSem>>

\* The walk starts at the list's head, whichever was there before.
First(i) ==
  /\ At(i, "first") /\ specSem = None
  /\ item' = [item EXCEPT ![i] = IF list = <<>> THEN None ELSE Head(list)]
  /\ Goto(i, IF list = <<>> THEN "idle" ELSE "visit")
  /\ UNCHANGED <<up, listener, listVars, channelVars, counter, fed, eof, specSem, spectrumSem>>

\* All clients share the channel's counter.
Visit(i) ==
  /\ At(i, "visit")
  /\ counter' = IF i \in fps /\ counter[i] > 0 THEN [counter EXCEPT ![i] = @ - 1] ELSE counter
  /\ Goto(i, IF i \in fps /\ counter[i] <= 1 THEN "take" ELSE "step")
  /\ UNCHANGED <<up, listener, listVars, channelVars, item, fed, eof, specSem, spectrumSem>>

SendTake(i) ==
  /\ At(i, "take") /\ spectrumSem = None
  /\ spectrumSem' = i
  /\ Goto(i, "send")
  /\ UNCHANGED <<up, listener, listVars, channelVars, counter, item, fed, eof, specSem>>

\* Mutant of SendNot: the semaphore is kept when the channel has been stopped.
SendNotKeep(i) ==
  /\ At(i, "send") /\ ~enabled[i]
  /\ Goto(i, "idle")
  /\ UNCHANGED <<up, listener, listVars, channelVars, counter, item, fed, eof, specSem, spectrumSem>>

\* The channel was stopped since: nobody else gets the frame either.
SendNot(i) ==
  /\ At(i, "send") /\ ~enabled[i]
  /\ spectrumSem' = None
  /\ Goto(i, "idle")
  /\ UNCHANGED <<up, listener, listVars, channelVars, counter, item, fed, eof, specSem>>

\* The connection is read out of the entry, which may be freed by now.
Send(i) ==
  /\ At(i, "send") /\ enabled[i]
  /\ spectrumSem' = None
  /\ IF item[i] \in freed
     THEN up' \in BOOLEAN /\ UNCHANGED fed
     ELSE fed' = [fed EXCEPT ![i] = item[i]] /\ UNCHANGED up
  /\ counter' = [counter EXCEPT ![i] = Period]
  /\ Goto(i, "step")
  /\ UNCHANGED <<listener, listVars, channelVars, item, eof, specSem>>

\* The next entry is read out of the one before, freed or not.
Step(i) ==
  /\ At(i, "step") /\ specSem = None
  /\ IF item[i] \in freed THEN up' \in BOOLEAN ELSE UNCHANGED up
  /\ item' = [item EXCEPT ![i] = next[@]]
  /\ Goto(i, IF next[item[i]] = None THEN "idle" ELSE "visit")
  /\ UNCHANGED <<listener, listVars, channelVars, counter, fed, eof, specSem, spectrumSem>>

Handler(i) ==
  \/ Tick(i) \/ NoPixels(i) \/ Pixels(i) \/ First(i) \/ Visit(i)
  \/ SendTake(i) \/ SendNot(i) \/ Send(i) \/ Step(i)

EofSteps == EofRemove \/ EofFree

Next ==
  \/ Listen \/ EofSteps
  \/ \E c \in Clients : Accept(c) \/ Eof(c)
  \/ \E i \in Channels : Start(i) \/ Stop(i) \/ SetFps(i) \/ Handler(i)

\* Threads run, waiters for a semaphore get it in the end, and pixels come.
Fairness ==
  /\ SF_vars(EofSteps)
  /\ \A i \in Channels : SF_vars(Handler(i)) /\ SF_vars(Pixels(i))

Spec == Init /\ [][Next]_vars
FairSpec == Spec /\ Fairness
----------------------------------------------------------------------------
(* Properties *)

TypeOK ==
  /\ up \in BOOLEAN /\ listener \in {"starting", "on", "off"}
  /\ ToSet(list) \subseteq Clients /\ IsInjective(list)
  /\ freed \subseteq left /\ left \subseteq Clients
  /\ fps \subseteq Channels /\ counter \in [Channels -> 0 .. Period]
  /\ handler \in [Channels -> {"none", "idle", "pixels", "first", "visit", "take", "send", "step"}]
  /\ item \in [Channels -> Clients \cup {None}]
  /\ specSem \in {None, "eof"} /\ spectrumSem \in Channels \cup {None}

\* A client that stays connected gets frames of a channel that stays enabled for
\* ever, however many clients come and go: nobody keeps a semaphore, and the
\* counter all clients share does not pass one over.  (It does when the number of
\* clients and the period have a common divisor.)  One whose connection ends is
\* removed and its entry freed.
ClientsFed ==
  /\ \A c \in Clients : (c \in left) ~> (c \in freed \/ ~up)
  /\ \A c \in Clients, i \in Channels :
       []<>(up /\ Contains(list, c) /\ enabled[i] /\ i \in fps => fed[i] = c)
=============================================================================
