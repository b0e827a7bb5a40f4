----------------------------- MODULE AudioQueue -----------------------------
(***************************************************************************)
(* QtRadio's queue of decoded audio.  The decoder's thread enqueues the    *)
(* samples of a packet one by one, the audio output pulls a frame of them  *)
(* when it needs one, and the GUI thread clears the queue when the server  *)
(* is gone.  The list has a mutex; two semaphores count the free places    *)
(* and the samples.  A list operation under the mutex is one step; clear,  *)
(* which keeps the mutex while it sets the semaphores, is several.         *)
(***************************************************************************)
EXTENDS Integers, Sequences

CONSTANTS
  MaxSize,     \* m_max_size: places in the queue
  Threshold,   \* a packet is dropped when this many samples are waiting
  PacketSize,  \* samples of the longest packet
  FrameSize,   \* samples the audio output asks for at once
  PullInGui,   \* the audio output pulls from the GUI's event loop
  MaxPackets,  \* bound: packets received
  MaxClears    \* bound: disconnections

ASSUME SizeAssumption ==
  /\ MaxSize \in Nat /\ Threshold \in Nat /\ PacketSize \in Nat \ {0}
  /\ FrameSize \in Nat \ {0}
  /\ Threshold + PacketSize <= MaxSize
ASSUME BoundsAssumption ==
  MaxPackets \in Nat /\ MaxClears \in Nat /\ PullInGui \in BOOLEAN

VARIABLES
  up,        \* the process has not taken a sample from an empty list
  queue,     \* m_queue
  free,      \* m_semFree
  used,      \* m_semUsed
  packets,   \* packets received so far
  decoded,   \* samples decoded so far, each numbered by its place in this order
  decPc,     \* the decoder in process_audio and enqueue
  left,      \* samples of its packet the decoder has not acquired a place for
  playPc,    \* the audio output in readData and dequeue
  want,      \* samples it still has to read for this frame
  played,    \* the sample played last
  clrPc,     \* the GUI thread in clear
  avail,     \* avail, a local variable of clear
  clears     \* calls of clear so far

listVars == <<queue, decoded, played>>
decVars == <<packets, decPc, left>>
playVars == <<playPc, want>>
clrVars == <<clrPc, avail, clears>>
vars == <<up, listVars, free, used, decVars, playVars, clrVars>>

Init ==
  /\ up = TRUE
  /\ queue = <<>> /\ decoded = 0 /\ played = 0
  /\ free = MaxSize /\ used = 0
  /\ packets = 0 /\ decPc = "idle" /\ left = 0
  /\ playPc = "idle" /\ want = 0
  /\ clrPc = "idle" /\ avail = 0 /\ clears = 0

\* Nobody but clear keeps the mutex for more than a step.
MutexFree == clrPc = "idle"

----------------------------------------------------------------------------
(* The decoder *)

\* Mutant of Packet: nothing is dropped.
PacketAlways(n) ==
  /\ up /\ decPc = "idle" /\ packets < MaxPackets
  /\ packets' = packets + 1
  /\ decPc' = "acquire" /\ left' = n
  /\ UNCHANGED <<up, listVars, free, used, playVars, clrVars>>

\* process_audio: a packet of n samples, dropped when enough are waiting.
Packet(n) ==
  /\ up /\ decPc = "idle" /\ packets < MaxPackets
  /\ packets' = packets + 1
  /\ IF used < Threshold
     THEN decPc' = "acquire" /\ left' = n
     ELSE UNCHANGED <<decPc, left>>
  /\ UNCHANGED <<up, listVars, free, used, playVars, clrVars>>

\* enqueue waits for a place.
EnqAcquire ==
  /\ up /\ decPc = "acquire" /\ free > 0
  /\ free' = free - 1
  /\ left' = left - 1
  /\ decPc' = "insert"
  /\ UNCHANGED <<up, listVars, used, packets, playVars, clrVars>>

EnqInsert ==
  /\ up /\ decPc = "insert" /\ MutexFree
  /\ decoded' = decoded + 1
  /\ queue' = Append(queue, decoded')
  /\ decPc' = "post"
  /\ UNCHANGED <<up, free, used, played, packets, left, playVars, clrVars>>

EnqPost ==
  /\ up /\ decPc = "post"
  /\ used' = used + 1
  /\ decPc' = IF left > 0 THEN "acquire" ELSE "idle"
  /\ UNCHANGED <<up, listVars, free, packets, left, playVars, clrVars>>

Decoder == EnqAcquire \/ EnqInsert \/ EnqPost

----------------------------------------------------------------------------
(* The audio output *)

\* readData is called; the GUI thread does one thing at a time.
Frame ==
  /\ up /\ playPc = "idle"
  /\ PullInGui => clrPc = "idle"
  /\ used > 0   \* otherwise it returns silence
  /\ playPc' = "test" /\ want' = FrameSize
  /\ UNCHANGED <<up, listVars, free, used, decVars, clrVars>>

\* The loop over the frame ends when the queue looks empty.
FrameTest ==
  /\ up /\ playPc = "test"
  /\ playPc' = IF used > 0 /\ want > 0 THEN "acquire" ELSE "idle"
  /\ UNCHANGED <<up, listVars, free, used, want, decVars, clrVars>>

\* Mutant of DeqAcquire: no wait.
DeqAcquireNot ==
  /\ up /\ playPc = "acquire"
  /\ playPc' = "take"
  /\ UNCHANGED <<up, listVars, free, used, want, decVars, clrVars>>

\* dequeue waits for a sample.
DeqAcquire ==
  /\ up /\ playPc = "acquire" /\ used > 0
  /\ used' = used - 1
  /\ playPc' = "take"
  /\ UNCHANGED <<up, listVars, free, want, decVars, clrVars>>

\* Mutant of DeqTake: the sample stays in the list, as head() leaves it.
DeqTakeHead ==
  /\ up /\ playPc = "take" /\ MutexFree
  /\ IF queue = <<>>
     THEN up' = FALSE /\ UNCHANGED <<played, playPc, want>>
     ELSE /\ played' = Head(queue)
          /\ want' = want - 1
          /\ playPc' = "post" /\ UNCHANGED up
  /\ UNCHANGED <<queue, free, used, decoded, decVars, clrVars>>

\* Taking from the empty list is undefined: the process ends.
DeqTake ==
  /\ up /\ playPc = "take" /\ MutexFree
  /\ IF queue = <<>>
     THEN up' = FALSE /\ UNCHANGED <<queue, played, playPc, want>>
     ELSE /\ played' = Head(queue) /\ queue' = Tail(queue)
          /\ want' = want - 1
          /\ playPc' = "post" /\ UNCHANGED up
  /\ UNCHANGED <<free, used, decoded, decVars, clrVars>>

DeqPost ==
  /\ up /\ playPc = "post"
  /\ free' = free + 1
  /\ playPc' = "test"
  /\ UNCHANGED <<up, listVars, used, want, decVars, clrVars>>

Player == FrameTest \/ DeqAcquire \/ DeqTake \/ DeqPost

----------------------------------------------------------------------------
(* clear *)

\* The server is gone: lock the mutex and empty the list.
ClearList ==
  /\ up /\ clrPc = "idle" /\ clears < MaxClears
  /\ PullInGui => playPc = "idle"
  /\ clears' = clears + 1
  /\ queue' = <<>>
  /\ clrPc' = "count"
  /\ UNCHANGED <<up, decoded, played, free, used, decVars, playVars, avail>>

ClearCount ==
  /\ up /\ clrPc = "count"
  /\ avail' = used /\ clrPc' = "drain"
  /\ UNCHANGED <<up, listVars, free, used, decVars, playVars, clears>>

\* Mutant of ClearDrain: it wants a permit for every place.
ClearDrainAll ==
  /\ up /\ clrPc = "drain" /\ used >= MaxSize
  /\ used' = used - MaxSize
  /\ clrPc' = "room"
  /\ UNCHANGED <<up, listVars, free, decVars, playVars, avail, clears>>

\* Takes back the permits it counted, waiting until there are as many.
ClearDrain ==
  /\ up /\ clrPc = "drain" /\ used >= avail
  /\ used' = used - avail
  /\ clrPc' = "room"
  /\ UNCHANGED <<up, listVars, free, decVars, playVars, avail, clears>>

ClearRoom ==
  /\ up /\ clrPc = "room"
  /\ avail' = free /\ clrPc' = "fill"
  /\ UNCHANGED <<up, listVars, free, used, decVars, playVars, clears>>

\* Gives the places it found missing and unlocks.
ClearFill ==
  /\ up /\ clrPc = "fill"
  /\ free' = free + (MaxSize - avail)
  /\ clrPc' = "idle"
  /\ UNCHANGED <<up, listVars, used, decVars, playVars, avail, clears>>

Clear == ClearCount \/ ClearDrain \/ ClearRoom \/ ClearFill

----------------------------------------------------------------------------
Next ==
  \/ \E n \in 1 .. PacketSize : Packet(n)
  \/ Decoder
  \/ Frame
  \/ Player
  \/ ClearList
  \/ Clear

Spec == Init /\ [][Next]_vars

\* The threads run.  No packet has to come and no frame to be asked for.
Fairness == WF_vars(Decoder) /\ WF_vars(Player) /\ WF_vars(Clear)

FairSpec == Spec /\ Fairness
----------------------------------------------------------------------------
(* Properties *)

TypeOK ==
  /\ up \in BOOLEAN
  /\ queue \in Seq(Nat) /\ decoded \in Nat /\ played \in Nat
  /\ free \in Nat /\ used \in Nat
  /\ packets \in 0 .. MaxPackets
  /\ decPc \in {"idle", "acquire", "insert", "post"} /\ left \in 0 .. PacketSize
  /\ playPc \in {"idle", "test", "acquire", "take", "post"} /\ want \in 0 .. FrameSize
  /\ clrPc \in {"idle", "count", "drain", "room", "fill"}
  /\ avail \in Nat /\ clears \in 0 .. MaxClears

\* Places and samples that are between the two semaphores.
InHand ==
  (IF decPc \in {"insert", "post"} THEN 1 ELSE 0)
    + (IF playPc \in {"take", "post"} THEN 1 ELSE 0)

\* Until the first clear, every permit of m_semUsed stands for a sample in the
\* list, so that dequeue never takes from an empty one.
PermitsBacked ==
  clears = 0 => /\ used <= Len(queue)
                /\ playPc = "take" => queue # <<>>

\* process_audio's test of count() is enough for the whole packet: the decoder
\* never waits for a place, whatever was cleared, except while clear runs.
DecoderNeverWaits ==
  decPc = "acquire" /\ clrPc = "idle" => free > 0

\* clear, which waits for permits with the mutex locked, ends.
ClearEnds == clrPc # "idle" ~> (clrPc = "idle" \/ ~up)

Fifo == INSTANCE AudioFifo WITH waiting <- queue

\* The queue is one: the decoder, the output and clear together implement it.
ImplementsFifo == Fifo!Spec
=============================================================================
