---------------------------- MODULE AudioFanout ----------------------------
(***************************************************************************)
(* The way of a receiver's audio to the clients.  The IQ threads of all    *)
(* receivers fill one buffer, which is then written to every audio client  *)
(* and put into a list for the radio's own speaker.  ENABLEAUDIO chooses   *)
(* the receiver to be heard; a speaker thread, one per radio, empties the  *)
(* list.                                                                   *)
(***************************************************************************)
EXTENDS Integers, Sequences, FiniteSets

CONSTANTS
  Clients,    \* connections of audio clients
  Channels,   \* receivers
  BufferSize, \* samples in a buffer: AUDIO_BUFFER_SIZE
  Batch,      \* samples an IQ thread adds for one packet of the radio
  Orderly,    \* receivers are attached after the last speaker thread has ended
  MaxBuffers  \* bound: buffers filled

VARIABLES
  up,        \* the process has not died
  listener,  \* whether the audio thread listens: starting, on or off
  clients,   \* Audio_client_list
  heard,     \* channels with audio_enabled[ch]
  adding,    \* the IQ thread in the middle of a packet, or None
  todo,      \* samples of it that are left
  buffer,    \* the channels of the samples in audio_buffer, in their order
  switched,  \* the audio was switched since the buffer's first sample
  header,    \* the last buffer sent: the number in its header, and its channels
  buffers,   \* buffers sent
  list,      \* entries of rx_audio_client_list
  stop,      \* getStopIQIssued()
  rxEnabled, \* rx_audio_enabled of the radio
  speaker,   \* the speaker thread: none, its place, or leaving
  putting    \* TAILQ_INSERT_TAIL is in progress

clientVars == <<listener, clients>>
bufferVars == <<adding, todo, buffer, switched, header, buffers>>
speakerVars == <<stop, rxEnabled, speaker>>
vars == <<up, clientVars, heard, bufferVars, list, speakerVars, putting>>

None == -1

Init ==
  /\ up = TRUE /\ listener = "starting" /\ clients = {} /\ heard = {}
  /\ adding = None /\ todo = 0 /\ buffer = <<>> /\ switched = FALSE
  /\ header = [index |-> None, of |-> {}, pure |-> TRUE] /\ buffers = 0
  /\ list = 0 /\ stop = FALSE /\ rxEnabled = FALSE /\ speaker = "none" /\ putting = FALSE

----------------------------------------------------------------------------
(* The clients *)

\* audio_client_thread: without its port the server goes on without audio; a
\* failing listen ends it.
Listen ==
  /\ up /\ listener = "starting"
  /\ \/ listener' = "on" /\ UNCHANGED up
     \/ listener' = "off" /\ up' \in BOOLEAN
  /\ UNCHANGED <<clients, heard, bufferVars, list, speakerVars, putting>>

\* do_accept_audio.  audio_bufevent_semaphore keeps it out of a walk of the list.
Accept(c) ==
  /\ up /\ listener = "on" /\ ~putting /\ c \notin clients
  /\ clients' = clients \cup {c}
  /\ UNCHANGED <<up, listener, heard, bufferVars, list, speakerVars, putting>>

\* audio_errorcb
Eof(c) ==
  /\ up /\ ~putting /\ c \in clients
  /\ clients' = clients \ {c}
  /\ UNCHANGED <<up, listener, heard, bufferVars, list, speakerVars, putting>>

\* ENABLEAUDIO takes no semaphore: it may come in the middle of a packet.
EnableAudio(ch, on) ==
  /\ up /\ heard' = IF on THEN {ch} ELSE {}
  /\ switched' = (switched \/ (buffer # <<>> /\ heard' # heard))
  /\ UNCHANGED <<up, clientVars, adding, todo, buffer, header, buffers, list, speakerVars,
                 putting>>

\* STARTXCVR: a receiver that starts is not heard.
Start(ch) ==
  /\ up /\ heard' = heard \ {ch}
  /\ switched' = (switched \/ (buffer # <<>> /\ heard' # heard))
  /\ UNCHANGED <<up, clientVars, adding, todo, buffer, header, buffers, list, speakerVars,
                 putting>>

----------------------------------------------------------------------------
(* The IQ threads, one at a time under iq_semaphore *)

Packet(ch) ==
  /\ up /\ adding = None /\ ch \in heard /\ buffers < MaxBuffers
  /\ adding' = ch /\ todo' = Batch
  /\ UNCHANGED <<up, clientVars, heard, buffer, switched, header, buffers, list, speakerVars,
                 putting>>

Full == Len(buffer) + 1 = BufferSize

\* audio_stream_put_samples: a full buffer carries the number of the receiver of its
\* last sample.  audio_stream_queue_add writes it to the clients; the buffer itself
\* is never freed.
PutSample ==
  /\ up /\ adding # None /\ todo > 0 /\ ~putting
  /\ todo' = todo - 1
  /\ IF Full
     THEN /\ header' = [index |-> adding,
                        of |-> {adding} \cup {buffer[k] : k \in DOMAIN buffer},
                        pure |-> ~switched]
          /\ buffer' = <<>> /\ switched' = FALSE
          /\ buffers' = buffers + 1 /\ putting' = TRUE
     ELSE /\ buffer' = Append(buffer, adding)
          /\ switched' = (switched \/ adding \notin heard)
          /\ UNCHANGED <<header, buffers, putting>>
  /\ UNCHANGED <<up, clientVars, heard, adding, list, speakerVars>>

\* A copy of its first 512 bytes becomes the last entry of the speaker's list.  The
\* list is filled under one semaphore and emptied under another: a removal that
\* meets an insertion may lose the entry, or end the process.
Put ==
  /\ up /\ putting
  /\ putting' = FALSE
  /\ IF speaker = "remove"
     THEN list' \in {list, list + 1} /\ up' \in BOOLEAN
     ELSE list' = list + 1 /\ UNCHANGED up
  /\ UNCHANGED <<clientVars, heard, bufferVars, speakerVars>>

PacketEnd ==
  /\ up /\ adding # None /\ todo = 0 /\ ~putting
  /\ adding' = None
  /\ UNCHANGED <<up, clientVars, heard, todo, buffer, switched, header, buffers, list,
                 speakerVars, putting>>

----------------------------------------------------------------------------
(* The speaker thread *)

\* make_connection for a receiver: the stop is withdrawn, and start_rx_audio makes a
\* speaker thread unless the flag says that the radio has one.  A new one binds the
\* port of the last, which was closed before the flag was cleared.
Attach ==
  /\ up /\ (Orderly => speaker # "leaving" /\ (stop => speaker = "none"))
  /\ stop' = FALSE
  /\ IF rxEnabled THEN UNCHANGED <<rxEnabled, speaker>>
     ELSE rxEnabled' = TRUE /\ speaker' = "look"
  /\ UNCHANGED <<up, clientVars, heard, bufferVars, list, putting>>

\* The last receiver is stopped.
StopAll ==
  /\ up /\ ~stop /\ stop' = TRUE
  /\ UNCHANGED <<up, clientVars, heard, bufferVars, list, rxEnabled, speaker, putting>>

\* rx_audio_thread: an entry is looked at, sent to the radio if its speaker is
\* used, and removed.
SpeakerLook ==
  /\ up /\ speaker = "look"
  /\ speaker' = IF stop THEN "leaving" ELSE IF list > 0 THEN "remove" ELSE "look"
  /\ UNCHANGED <<up, clientVars, heard, bufferVars, list, stop, rxEnabled, putting>>

SpeakerRemove ==
  /\ up /\ speaker = "remove"
  /\ list' = list - 1 /\ speaker' = "look"
  /\ UNCHANGED <<up, clientVars, heard, bufferVars, stop, rxEnabled, putting>>

\* Mutant of SpeakerEnd: the flag is left to the next attach.
SpeakerEndKeep ==
  /\ up /\ speaker = "leaving"
  /\ speaker' = "none"
  /\ UNCHANGED <<up, clientVars, heard, bufferVars, list, stop, rxEnabled, putting>>

SpeakerEnd ==
  /\ up /\ speaker = "leaving"
  /\ speaker' = "none" /\ rxEnabled' = FALSE
  /\ UNCHANGED <<up, clientVars, heard, bufferVars, list, stop, putting>>

----------------------------------------------------------------------------
Next ==
  \/ Listen
  \/ \E c \in Clients : Accept(c) \/ Eof(c)
  \/ \E ch \in Channels : Start(ch) \/ Packet(ch) \/ \E on \in BOOLEAN : EnableAudio(ch, on)
  \/ PutSample \/ Put \/ PacketEnd
  \/ Attach \/ StopAll \/ SpeakerLook \/ SpeakerRemove \/ SpeakerEnd

Spec == Init /\ [][Next]_vars
----------------------------------------------------------------------------
(* Properties *)

TypeOK ==
  /\ up \in BOOLEAN /\ listener \in {"starting", "on", "off"} /\ clients \subseteq Clients
  /\ heard \subseteq Channels /\ adding \in Channels \cup {None} /\ todo \in 0 .. Batch
  /\ Len(buffer) < BufferSize /\ buffers \in 0 .. MaxBuffers
  /\ list \in 0 .. MaxBuffers /\ stop \in BOOLEAN /\ rxEnabled \in BOOLEAN
  /\ speaker \in {"none", "look", "remove", "leaving"} /\ putting \in BOOLEAN

\* One buffer serves all receivers and carries one number.  A buffer during which
\* the audio was not switched holds samples of the numbered receiver only.
BufferOfOne == header.pure => header.of \subseteq {header.index}

\* Clients that attach receivers only when the last session's speaker thread is gone
\* always have one that lives: the list of blocks is being emptied.
SpeakerLives ==
  (up /\ Orderly /\ rxEnabled /\ ~stop) => speaker \in {"look", "remove"}
=============================================================================
