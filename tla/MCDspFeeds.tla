----------------------------- MODULE MCDspFeeds -----------------------------
(***************************************************************************)
(* What must go on in dspserver: the frames of SpectrumFanout and the      *)
(* blocks of MicQueue, one of the two per behaviour, chosen at its start:  *)
(* they have no state in common.                                           *)
(***************************************************************************)
EXTENDS Integers, Sequences

CONSTANTS c1, c2, None

VARIABLES
  which,
  sUp, sListener, sList, sNext, sLeft, sFreed, sEnabled, sFps, sCounter,
  sHandler, sItem, sEof, sSpecSem, sSpectrumSem, sFed,
  mUp, mListener, mClients, mBlocks, mQueue, mEnabled, mMox, mKeys, mThread,
  mBound, mSent

spectrumVars == <<
  sUp, sListener, sList, sNext, sLeft, sFreed, sEnabled, sFps, sCounter,
  sHandler, sItem, sEof, sSpecSem, sSpectrumSem, sFed>>
Spectrum == INSTANCE SpectrumFanout WITH
  Clients <- {c1, c2}, Channels <- {0}, Period <- 3,
  up <- sUp, listener <- sListener, list <- sList, next <- sNext,
  left <- sLeft, freed <- sFreed, enabled <- sEnabled, fps <- sFps,
  counter <- sCounter, handler <- sHandler, item <- sItem, eof <- sEof,
  specSem <- sSpecSem, spectrumSem <- sSpectrumSem, fed <- sFed

micVars == <<
  mUp, mListener, mClients, mBlocks, mQueue, mEnabled, mMox, mKeys, mThread,
  mBound, mSent>>
Mic == INSTANCE MicQueue WITH
  Clients <- {1}, Channels <- {2, 5}, Wide <- {2}, MaxThreads <- 2,
  MaxBlocks <- 2, MaxKeys <- 1,
  up <- mUp, listener <- mListener, clients <- mClients, blocks <- mBlocks,
  queue <- mQueue, enabled <- mEnabled, mox <- mMox, keys <- mKeys,
  thread <- mThread, bound <- mBound, sent <- mSent

allVars == <<which, spectrumVars, micVars>>

FeedsInit == which \in {"spectrum", "mic"} /\ Spectrum!Init /\ Mic!Init

SpectrumDoes(A) == which = "spectrum" /\ A /\ UNCHANGED <<which, micVars>>
MicDoes(A) == which = "mic" /\ A /\ UNCHANGED <<which, spectrumVars>>

FeedsNext == SpectrumDoes(Spectrum!Next) \/ MicDoes(Mic!Next)

FeedsFairness ==
  /\ SF_allVars(SpectrumDoes(Spectrum!EofSteps))
  /\ SF_allVars(SpectrumDoes(Spectrum!Handler(0))) /\ SF_allVars(SpectrumDoes(Spectrum!Pixels(0)))
  /\ \A t \in 1 .. 2 : WF_allVars(MicDoes(Mic!Thread(t)))

FeedsSpec == FeedsInit /\ [][FeedsNext]_allVars /\ FeedsFairness

-----------------------------------------------------------------------------
\* The properties of the feeds, stated in their modules, each with its types.
\* Frames reach every client that stays, and a client that leaves is freed
\* (SpectrumFanout).
ClientsFed ==
  which = "spectrum" => []Spectrum!TypeOK /\ Spectrum!ClientsFed

\* No block for the transmitter stays at the head of the queue while a thread of its
\* channel lives (MicQueue).
MicDrains == which = "mic" => Mic!MicDrains
=============================================================================
