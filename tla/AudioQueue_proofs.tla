-------------------------- MODULE AudioQueue_proofs --------------------------
(***************************************************************************)
(* Theorems about AudioQueue: for a queue of any size, packets and frames  *)
(* of any length, and whichever thread the audio output pulls from.        *)
(***************************************************************************)
EXTENDS AudioQueue, SequenceTheorems, TLAPS

\* The decoder has a sample to place, the output a place to fill in its frame.
Busy ==
  /\ decPc = "acquire" => left > 0
  /\ playPc \in {"acquire", "take"} => want > 0

\* The permits and the samples of the packet under way exceed the threshold by
\* no more than a packet.
Coming == left + (IF decPc \in {"insert", "post"} THEN 1 ELSE 0)
PacketFits == decPc # "idle" => used + Coming < Threshold + PacketSize

\* No place gets lost: outside clear the two semaphores and what is in hand are
\* at least the size, and while clear refills, a place the decoder has taken
\* since clear looked is the one it holds.
PlacesKept ==
  /\ clrPc = "idle" => free + used + InHand >= MaxSize
  /\ clrPc = "fill" => free + (IF decPc = "insert" THEN 1 ELSE 0) >= avail

\* Until the first clear, the list has a sample for every permit and for every
\* one that is in hand with its sample in the list.
ListCounted ==
  clears = 0 =>
    /\ clrPc = "idle"
    /\ Len(queue) = used + (IF decPc = "post" THEN 1 ELSE 0)
                         + (IF playPc = "take" THEN 1 ELSE 0)

Inv == TypeOK /\ Busy /\ PacketFits /\ PlacesKept /\ ListCounted

LEMMA InitInv == Init => Inv
BY SizeAssumption, BoundsAssumption
   DEF Init, Inv, TypeOK, Busy, PacketFits, Coming, PlacesKept, InHand, ListCounted

LEMMA NextInv == Inv /\ [Next]_vars => Inv'
<1> SUFFICES ASSUME Inv, [Next]_vars PROVE Inv'
  OBVIOUS
<1> USE SizeAssumption, BoundsAssumption
    DEF Inv, TypeOK, Busy, PacketFits, Coming, PlacesKept, InHand, ListCounted,
        listVars, decVars, playVars, clrVars, MutexFree
<1>1. ASSUME NEW n \in 1 .. PacketSize, Packet(n) PROVE Inv'
  BY <1>1 DEF Packet
<1>2. CASE EnqAcquire
  BY <1>2 DEF EnqAcquire
<1>3. CASE EnqInsert
  BY <1>3 DEF EnqInsert
<1>4. CASE EnqPost
  BY <1>4 DEF EnqPost
<1>5. CASE Frame
  BY <1>5 DEF Frame
<1>6. CASE FrameTest
  BY <1>6 DEF FrameTest
<1>7. CASE DeqAcquire
  BY <1>7 DEF DeqAcquire
<1>8. CASE DeqTake
  <2>1. CASE queue = <<>>
    BY <1>8, <2>1 DEF DeqTake
  <2>2. CASE queue # <<>>
    <3>1. /\ Head(queue) \in Nat /\ Tail(queue) \in Seq(Nat)
          /\ Len(Tail(queue)) = Len(queue) - 1
      BY <2>2, HeadTailProperties
    <3>2. /\ played' = Head(queue) /\ queue' = Tail(queue)
          /\ want' = want - 1 /\ playPc = "take" /\ playPc' = "post" /\ clrPc = "idle"
          /\ UNCHANGED <<up, free, used, decoded, packets, decPc, left, clrPc, avail, clears>>
      BY <1>8, <2>2 DEF DeqTake
    <3>3. played' \in Nat /\ queue' \in Seq(Nat) /\ Len(queue') = Len(queue) - 1
      BY <3>1, <3>2
    <3>4. want > 0 /\ want' \in 0 .. FrameSize
      BY <3>2
    <3>5. TypeOK' /\ Busy'
      BY <3>2, <3>3, <3>4
    <3>6. PacketFits' /\ PlacesKept'
      BY <3>2
    <3>7. Len(queue) \in Nat
      BY LenProperties
    <3>8. clears = 0 => Len(queue) = used + (IF decPc = "post" THEN 1 ELSE 0) + 1
      BY <3>2
    <3> HIDE DEF Inv, TypeOK, Busy, PacketFits, PlacesKept
    <3>9. used \in Nat
      BY DEF Inv, TypeOK
    <3>10. clears' = clears /\ clrPc' = "idle" /\ used' = used /\ decPc' = decPc /\ playPc' = "post"
      BY <3>2
    <3> HIDE DEF ListCounted
    <3>11. ListCounted'
      BY <3>3, <3>7, <3>8, <3>9, <3>10 DEF ListCounted
    <3> QED BY <3>5, <3>6, <3>11 DEF Inv
  <2> QED BY <2>1, <2>2
<1>9. CASE DeqPost
  BY <1>9 DEF DeqPost
<1>10. CASE ClearList
  BY <1>10 DEF ClearList
<1>11. CASE ClearCount
  BY <1>11 DEF ClearCount
<1>12. CASE ClearDrain
  BY <1>12 DEF ClearDrain
<1>13. CASE ClearRoom
  BY <1>13 DEF ClearRoom
<1>14. CASE ClearFill
  BY <1>14 DEF ClearFill
<1>15. CASE UNCHANGED vars
  BY <1>15 DEF vars
<1> QED
  BY <1>1, <1>2, <1>3, <1>4, <1>5, <1>6, <1>7, <1>8, <1>9, <1>10, <1>11, <1>12,
     <1>13, <1>14, <1>15 DEF Next, Decoder, Player, Clear

LEMMA InvHolds == Spec => []Inv
BY InitInv, NextInv, PTL DEF Spec

\* No semaphore goes below zero and no counter leaves its range.
THEOREM TypeCorrect == Spec => []TypeOK
<1>1. Inv => TypeOK
  BY DEF Inv
<1> QED BY <1>1, InvHolds, PTL

\* Before the first clear, dequeue never takes a sample from an empty list.
THEOREM BackedUntilClear == Spec => []PermitsBacked
<1>1. Inv => PermitsBacked
  BY EmptySeq DEF Inv, TypeOK, ListCounted, PermitsBacked
<1> QED BY <1>1, InvHolds, PTL

\* The decoder finds a place for every sample of a packet it did not drop, however
\* often the queue is cleared: the one test before the packet is enough.
THEOREM DecoderNotBlocked == Spec => []DecoderNeverWaits
<1>1. Inv => DecoderNeverWaits
  BY SizeAssumption
     DEF Inv, TypeOK, Busy, PacketFits, Coming, PlacesKept, InHand, DecoderNeverWaits
<1> QED BY <1>1, InvHolds, PTL

----------------------------------------------------------------------------
(* The thread that both pulls and clears waits for nothing. *)

\* The GUI thread does one thing at a time, and nobody else takes permits.
GuiAlone ==
  PullInGui => /\ clrPc # "idle" => playPc = "idle"
               /\ clrPc = "drain" => used >= avail
               /\ playPc = "acquire" => used > 0

LEMMA NextGuiAlone == Inv /\ GuiAlone /\ [Next]_vars => GuiAlone'
<1> SUFFICES ASSUME Inv, GuiAlone, [Next]_vars PROVE GuiAlone'
  OBVIOUS
<1>0. used \in Nat /\ avail \in Nat /\ free \in Nat
  BY DEF Inv, TypeOK
<1> USE <1>0 DEF GuiAlone, clrVars, playVars, decVars
<1>1. ASSUME NEW n \in 1 .. PacketSize, Packet(n) PROVE GuiAlone'
  BY <1>1 DEF Packet
<1>2. CASE Decoder
  BY <1>2 DEF Decoder, EnqAcquire, EnqInsert, EnqPost
<1>3. CASE Frame \/ FrameTest \/ DeqPost
  BY <1>3 DEF Frame, FrameTest, DeqPost
<1>4. CASE DeqAcquire
  BY <1>4 DEF DeqAcquire
<1>5. CASE DeqTake
  BY <1>5 DEF DeqTake, MutexFree
<1>6. CASE ClearList \/ ClearCount
  BY <1>6 DEF ClearList, ClearCount
<1>7. CASE ClearDrain \/ ClearRoom \/ ClearFill
  BY <1>7 DEF ClearDrain, ClearRoom, ClearFill
<1>8. CASE UNCHANGED vars
  BY <1>8 DEF vars
<1> QED
  BY <1>1, <1>2, <1>3, <1>4, <1>5, <1>6, <1>7, <1>8 DEF Next, Player, Clear

\* With an output that pulls from the event loop, as Qt's does, the GUI thread
\* waits for no permit and for no mutex, so that clear, which would wait for
\* permits with the mutex locked, always runs through.
GuiNeverWaits ==
  PullInGui => /\ clrPc = "drain" => used >= avail
               /\ playPc = "acquire" => used > 0
               /\ playPc = "take" => MutexFree

\* Neither a frame nor a clear ever stops the GUI thread.
THEOREM GuiNotBlocked == Spec => []GuiNeverWaits
<1>1. Init => GuiAlone
  BY DEF Init, GuiAlone
<1>2. GuiAlone => GuiNeverWaits
  BY DEF GuiAlone, GuiNeverWaits, MutexFree
<1> QED BY <1>1, <1>2, InvHolds, NextGuiAlone, PTL DEF Spec

----------------------------------------------------------------------------
(* The queue implements the abstract one. *)

LEMMA FifoStep == TypeOK /\ [Next]_vars => [Fifo!Next]_<<decoded, queue, played>>
<1> SUFFICES ASSUME TypeOK, [Next]_vars PROVE [Fifo!Next]_<<decoded, queue, played>>
  OBVIOUS
<1> USE DEF Fifo!Next, listVars
<1>1. CASE EnqInsert
  BY <1>1 DEF EnqInsert, Fifo!Put
<1>2. CASE DeqTake
  BY <1>2 DEF DeqTake, Fifo!Play
<1>3. CASE ClearList
  BY <1>3 DEF ClearList, Fifo!Flush
<1>4. ASSUME NEW n \in 1 .. PacketSize, Packet(n) PROVE UNCHANGED <<decoded, queue, played>>
  BY <1>4 DEF Packet
<1>5. CASE EnqAcquire \/ EnqPost \/ Frame \/ FrameTest \/ DeqAcquire \/ DeqPost
  BY <1>5 DEF EnqAcquire, EnqPost, Frame, FrameTest, DeqAcquire, DeqPost
<1>6. CASE Clear
  BY <1>6 DEF Clear, ClearCount, ClearDrain, ClearRoom, ClearFill
<1>7. CASE UNCHANGED vars
  BY <1>7 DEF vars
<1> QED
  BY <1>1, <1>2, <1>3, <1>4, <1>5, <1>6, <1>7 DEF Next, Decoder, Player

\* Samples are played in the order they were decoded, none twice, and only a
\* clear loses any.
THEOREM Implementation == Spec => ImplementsFifo
<1>1. Init => Fifo!Init
  BY DEF Init, Fifo!Init
<1>2. Inv => TypeOK
  BY DEF Inv
<1> QED BY <1>1, <1>2, FifoStep, InvHolds, PTL DEF Spec, ImplementsFifo, Fifo!Spec, Fifo!vars
=============================================================================
