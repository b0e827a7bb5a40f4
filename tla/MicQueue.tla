------------------------------ MODULE MicQueue ------------------------------
(***************************************************************************)
(* The way of a client's microphone to the radio.  Clients send blocks     *)
(* over a connection of their own; dspserver keeps the blocks of all       *)
(* channels in one queue.  A transmit thread takes one block after every   *)
(* datagram of the radio's own microphone, if the first block is for its   *)
(* channel, and modulates it while the channel is keyed.                   *)
(***************************************************************************)
EXTENDS Integers, Sequences, FiniteSets, SequencesExt

CONSTANTS
  Clients,     \* connections of microphone clients
  Channels,    \* channels with a transmitter
  Wide,        \* channels whose modulator takes two microphone blocks at once
  MaxThreads,  \* bound: transmit threads made
  MaxBlocks,   \* bound: microphone blocks sent
  MaxKeys      \* bound: times a channel is keyed

VARIABLES
  up,         \* the process has not ended
  listener,   \* whether the microphone thread listens: starting, on or off
  clients,    \* Mic_audio_client_list
  blocks,     \* blocks received so far
  queue,      \* Mic_audio: for each block its number and its channel
  enabled,    \* channels whose transmitter is attached
  mox,        \* channels[ch].radio.mox
  keys,       \* times a channel was keyed
  thread,     \* the transmit threads made: channel, where it is, its block
  bound,      \* the threads that hold the port of the radio's microphone
  sent        \* channels: the numbers of the blocks modulated and sent to the radio

clientVars == <<listener, clients>>
channelVars == <<enabled, mox, keys>>
vars == <<up, clientVars, blocks, queue, channelVars, thread, bound, sent>>

NoBlock == [n |-> 0, ch |-> -1]

Init ==
  /\ up = TRUE /\ listener = "starting" /\ clients = {} /\ blocks = 0 /\ queue = <<>>
  /\ enabled = {} /\ mox = {} /\ keys = 0
  /\ thread = <<>> /\ bound = {} /\ sent = [ch \in Channels |-> <<>>]

----------------------------------------------------------------------------
(* The clients *)

\* mic_audio_client_thread: without its port the server goes on without
\* microphones; a failing listen ends it.
Listen ==
  /\ up /\ listener = "starting"
  /\ \/ listener' = "on" /\ UNCHANGED up
     \/ listener' = "off" /\ up' \in BOOLEAN
  /\ UNCHANGED <<clients, blocks, queue, channelVars, thread, bound, sent>>

\* do_accept_mic_audio
Accept(c) ==
  /\ up /\ listener = "on" /\ c \notin clients
  /\ clients' = clients \cup {c}
  /\ UNCHANGED <<up, listener, blocks, queue, channelVars, thread, bound, sent>>

\* mic_audio_errorcb: the client's blocks stay in the queue.
Eof(c) ==
  /\ up /\ c \in clients
  /\ clients' = clients \ {c}
  /\ UNCHANGED <<up, listener, blocks, queue, channelVars, thread, bound, sent>>

\* mic_audio_readcb and Mic_stream_queue_add.  Nothing compares the channel a
\* client names with the channels it holds, or that are keyed.
Receive(c, ch) ==
  /\ up /\ c \in clients /\ blocks < MaxBlocks
  /\ blocks' = blocks + 1
  /\ queue' = Append(queue, [n |-> blocks + 1, ch |-> ch])
  /\ UNCHANGED <<up, clientVars, channelVars, thread, bound, sent>>

----------------------------------------------------------------------------
(* The channels *)

Threads == DOMAIN thread
At(t, pc) == up /\ thread[t].pc = pc
Goto(t, pc) == thread' = [thread EXCEPT ![t].pc = pc]

\* tx_init, called by the attach of one transmitter, makes a thread for every
\* transmitter that is enabled.
Attach(ch) ==
  /\ up /\ ch \notin enabled
  /\ enabled' = enabled \cup {ch}
  /\ Len(thread) + Cardinality(enabled') <= MaxThreads
  /\ thread' = thread \o [k \in 1 .. Cardinality(enabled') |->
                 [ch |-> SetToSeq(enabled')[k], pc |-> "bind", item |-> NoBlock, fill |-> <<>>]]
  /\ UNCHANGED <<up, clientVars, blocks, queue, mox, keys, bound, sent>>

\* STOPXCVR: the threads see active_transmitters at zero, when it is.
Detach(ch) ==
  /\ up /\ ch \in enabled
  /\ enabled' = enabled \ {ch}
  /\ UNCHANGED <<up, clientVars, blocks, queue, mox, keys, thread, bound, sent>>

\* MOX of an enabled channel.
Key(ch) ==
  /\ up /\ ch \in enabled
  /\ \/ ch \in mox /\ mox' = mox \ {ch} /\ UNCHANGED keys
     \/ ch \notin mox /\ keys < MaxKeys /\ mox' = mox \cup {ch} /\ keys' = keys + 1
  /\ UNCHANGED <<up, clientVars, blocks, queue, enabled, thread, bound, sent>>

----------------------------------------------------------------------------
(* tx_thread *)

\* Mutant of Bind: the port is shared (SO_REUSEADDR and SO_REUSEPORT).
BindShared(t) ==
  /\ At(t, "bind")
  /\ bound' = bound \cup {t} /\ Goto(t, "top")
  /\ UNCHANGED <<up, clientVars, blocks, queue, channelVars, sent>>

\* All transmit threads bind one port; the process ends when it is taken.
Bind(t) ==
  /\ At(t, "bind")
  /\ IF bound = {}
     THEN bound' = {t} /\ Goto(t, "top") /\ UNCHANGED up
     ELSE up' = FALSE /\ UNCHANGED <<bound, thread>>
  /\ UNCHANGED <<clientVars, blocks, queue, channelVars, sent>>

Exit(t) ==
  /\ At(t, "top") /\ enabled = {}
  /\ bound' = bound \ {t} /\ Goto(t, "gone")
  /\ UNCHANGED <<up, clientVars, blocks, queue, channelVars, sent>>

\* A datagram of the radio's microphone; without one the thread stays where it is.
Poll(t) ==
  /\ At(t, "top") /\ enabled # {}
  /\ Goto(t, "look")
  /\ UNCHANGED <<up, clientVars, blocks, queue, channelVars, bound, sent>>

\* The head of the queue is read under mic_semaphore and used without it.
Look(t) ==
  /\ At(t, "look")
  /\ IF queue # <<>> /\ Head(queue).ch = thread[t].ch
     THEN thread' = [thread EXCEPT ![t].pc = "serve", ![t].item = Head(queue)]
     ELSE Goto(t, "top")
  /\ UNCHANGED <<up, clientVars, blocks, queue, channelVars, bound, sent>>

BlocksWanted(ch) == IF ch \in Wide THEN 2 ELSE 1

\* While the channel is keyed the block goes to the modulator, which sends when it
\* has enough.  What it has is kept when the channel is unkeyed.
Serve(t) ==
  /\ At(t, "serve")
  /\ LET ch == thread[t].ch
         fill == Append(thread[t].fill, thread[t].item.n) IN
     IF ch \notin mox
     THEN Goto(t, "remove") /\ UNCHANGED sent
     ELSE IF Len(fill) < BlocksWanted(ch)
     THEN thread' = [thread EXCEPT ![t].pc = "remove", ![t].fill = fill] /\ UNCHANGED sent
     ELSE /\ thread' = [thread EXCEPT ![t].pc = "remove", ![t].fill = <<>>]
          /\ sent' = [sent EXCEPT ![ch] = @ \o fill]
  /\ UNCHANGED <<up, clientVars, blocks, queue, channelVars, bound>>

\* Mutant of Unqueue: a block that came while the channel was not keyed is left.
UnqueueKeyed(t) ==
  /\ At(t, "remove")
  /\ queue' = IF thread[t].ch \in mox THEN RemoveFirst(queue, thread[t].item)
              ELSE queue
  /\ thread' = [thread EXCEPT ![t].pc = "top", ![t].item = NoBlock]
  /\ UNCHANGED <<up, clientVars, blocks, channelVars, bound, sent>>

\* The block is taken off the queue and freed, whether it was sent or not.
Unqueue(t) ==
  /\ At(t, "remove")
  /\ queue' = RemoveFirst(queue, thread[t].item)
  /\ thread' = [thread EXCEPT ![t].pc = "top", ![t].item = NoBlock]
  /\ UNCHANGED <<up, clientVars, blocks, channelVars, bound, sent>>

----------------------------------------------------------------------------
Thread(t) ==
  t \in Threads /\ (Bind(t) \/ Exit(t) \/ Poll(t) \/ Look(t) \/ Serve(t) \/ Unqueue(t))

Next ==
  \/ Listen
  \/ \E c \in Clients : Accept(c) \/ Eof(c) \/ \E ch \in Channels : Receive(c, ch)
  \/ \E ch \in Channels : Attach(ch) \/ Detach(ch) \/ Key(ch)
  \/ \E t \in 1 .. MaxThreads : Thread(t)

Spec == Init /\ [][Next]_vars

\* The threads run, and an attached radio sends the datagrams of its microphone.
Fairness == \A t \in 1 .. MaxThreads : WF_vars(Thread(t))

FairSpec == Spec /\ Fairness
----------------------------------------------------------------------------
(* Properties *)

TypeOK ==
  /\ up \in BOOLEAN /\ listener \in {"starting", "on", "off"} /\ clients \subseteq Clients
  /\ blocks \in 0 .. MaxBlocks /\ \A k \in DOMAIN queue : queue[k].n \in 1 .. blocks
  /\ enabled \subseteq Channels /\ mox \subseteq Channels /\ keys \in 0 .. MaxKeys
  /\ bound \subseteq Threads
  /\ \A t \in Threads : thread[t].pc \in {"bind", "top", "look", "serve", "remove", "gone"}

\* A transmit thread works on the head of the queue without the semaphore, and two
\* threads of one channel may be made: as long as the process lives the block is
\* still the head, and the radio gets a client's blocks once and in their order.
\* Nothing but the one port they bind keeps the threads apart.
SentInOrder ==
  /\ up => \A t \in Threads : thread[t].pc \in {"serve", "remove"} =>
             queue # <<>> /\ Head(queue) = thread[t].item
  /\ \A ch \in Channels : \A j, k \in DOMAIN sent[ch] : j < k => sent[ch][j] < sent[ch][k]

Served(ch) == up /\ ch \in enabled /\ \E t \in bound : thread[t].ch = ch

\* A block that has come to the head of the queue leaves it, keyed or not, as long
\* as a transmit thread of its channel lives.  (A block for a channel without one
\* stays, and every other channel's microphone with it.)
MicDrains ==
  \A n \in 1 .. MaxBlocks : \A ch \in Channels :
    (queue # <<>> /\ Head(queue) = [n |-> n, ch |-> ch] /\ Served(ch))
      ~> (~Served(ch) \/ \A k \in DOMAIN queue : queue[k].n # n)
=============================================================================
