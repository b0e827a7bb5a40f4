------------------------ MODULE HpsdrServer_proofs ------------------------
(***************************************************************************)
(* Theorems about HpsdrServer: the speaker threads whatever the clients    *)
(* do, overlapping sessions and units attached twice included; the paths   *)
(* of the transmitter for clients that use the radio in turn.              *)
(***************************************************************************)
EXTENDS HpsdrServer, FiniteSetTheorems, TLAPS

\* The speaker flag is up whenever a speaker thread is there, and there is at
\* most one; the thread lowers the flag as its last step.
SpeakerInv ==
  /\ speak \in [AudioThreads -> {"none", "loop", "leave"}]
  /\ audioOn \in BOOLEAN
  /\ ~audioOn => \A t \in AudioThreads : speak[t] = "none"
  /\ \A t, r \in AudioThreads : speak[t] # "none" /\ speak[r] # "none" => t = r

LEMMA SpeakerInit == Init => SpeakerInv
BY DEF Init, SpeakerInv

\* The steps that touch the speaker threads are few.
LEMMA SpeakerSteps ==
  ASSUME [Next]_vars
  PROVE  \/ UNCHANGED <<audioOn, speak>>
         \/ MakeSpeaker
         \/ \E t \in AudioThreads : SpeakEnd(t) \/ SpeakGone(t)
<1> USE DEF audioVars
<1>1. CASE Continue
  BY <1>1 DEF Continue, StopRadio, InitTx, JoinTake, JoinFeed, Drain
<1>2. ASSUME NEW c \in Clients, Command(c)
      PROVE  UNCHANGED <<audioOn, speak>> \/ MakeSpeaker
  <2>1. CASE StartRadio(c) \/ StopCounts(c) \/ Joined(c) \/ Leave(c)
    BY <2>1 DEF StartRadio, StopCounts, Joined, Leave
  <2>2. ASSUME NEW u \in Units, AttachRx(c, u)
        PROVE  UNCHANGED <<audioOn, speak>> \/ MakeSpeaker
    BY <2>2 DEF AttachRx
  <2>3. ASSUME NEW u \in Units, AttachTx(c, u) \/ DetachRx(c, u) \/ DetachTx(c, u)
        PROVE  UNCHANGED <<audioOn, speak>>
    BY <2>3 DEF AttachTx, DetachRx, DetachTx
  <2>4. ASSUME NEW u \in Units, NEW on \in BOOLEAN,
               SetFrequency(c, u) \/ Setting(c, u) \/ Mox(c, u, on)
        PROVE  UNCHANGED <<audioOn, speak>>
    BY <2>4 DEF SetFrequency, Setting, Mox
  <2> QED BY <1>2, <2>1, <2>2, <2>3, <2>4 DEF Command
<1>3. ASSUME NEW t \in AudioThreads, Speaker(t)
      PROVE  UNCHANGED <<audioOn, speak>> \/ SpeakEnd(t) \/ SpeakGone(t)
  BY <1>3 DEF Speaker, HearSync, HearEnd
<1>4. ASSUME NEW t \in TxThreads, Sender(t) \/ Listener(t) \/ FeedPut(t)
      PROVE  UNCHANGED <<audioOn, speak>>
  BY <1>4 DEF Sender, Listener, FeedPut, TakeHead, TakeFree, TakeEnd, FeedSync, FeedEnd
<1>5. ASSUME NEW u \in RxUnits, StreamTest(u) \/ StreamSend(u)
      PROVE  UNCHANGED <<audioOn, speak>>
  BY <1>5 DEF StreamTest, StreamSend
<1>6. CASE UNCHANGED vars
  BY <1>6 DEF vars
<1> QED BY <1>1, <1>2, <1>3, <1>4, <1>5, <1>6 DEF Next

LEMMA SpeakerStep == SpeakerInv /\ [Next]_vars => SpeakerInv'
<1> SUFFICES ASSUME SpeakerInv, [Next]_vars PROVE SpeakerInv'
  OBVIOUS
<1> USE DEF SpeakerInv
<1>1. CASE UNCHANGED <<audioOn, speak>>
  BY <1>1
<1>2. CASE MakeSpeaker
  <2>1. CASE audioOn
    BY <1>2, <2>1 DEF MakeSpeaker, audioVars
  <2>2. CASE ~audioOn
    BY <1>2, <2>2, ZenonT(60) DEF MakeSpeaker
  <2> QED BY <2>1, <2>2
<1>3. ASSUME NEW t \in AudioThreads, SpeakEnd(t) PROVE SpeakerInv'
  BY <1>3 DEF SpeakEnd
<1>4. ASSUME NEW t \in AudioThreads, SpeakGone(t) PROVE SpeakerInv'
  BY <1>4 DEF SpeakGone
<1> QED BY <1>1, <1>2, <1>3, <1>4, SpeakerSteps

\* No schedule and no order of commands gives the radio two speaker threads
\* (attach_receiver's test of audio_enabled, rxaudio_send's last assignment).
THEOREM SpeakerUnique == Spec => []OneSpeaker
<1>1. SpeakerInv => OneSpeaker
  <2> SUFFICES ASSUME SpeakerInv PROVE OneSpeaker
    OBVIOUS
  <2> DEFINE S == {t \in AudioThreads : speak[t] # "none"}
  <2>1. CASE S = {}
    BY <2>1, FS_EmptySet DEF OneSpeaker
  <2>2. CASE S # {}
    <3>1. PICK t \in AudioThreads : S = {t}
      BY <2>2 DEF SpeakerInv
    <3>2. Cardinality(S) = 1
      BY <3>1, FS_Singleton
    <3> QED BY <3>2 DEF OneSpeaker
  <2> QED BY <2>1, <2>2
<1> QED BY <1>1, SpeakerInit, SpeakerStep, PTL DEF Spec

----------------------------------------------------------------------------
(* The bookkeeping of the units and of the transmit path, for clients that *)
(* come one after the other.                                               *)

\* A radio has one transmitter, and dspserver's clients have it in turn, each
\* attaching whatever receivers it pleases.
InTurn == ~Overlap /\ \A u, v \in TxUnits : u = v

Joining == {"joinTake", "joinFeed", "drain"}
TxAttached == attached \cap TxUnits # {}

\* Whoever is there found a radio that was started, or started it, and nobody
\* else is there; who stops it has nothing left to detach.
OneVisitor ==
  /\ \A c, d \in Clients : Here(c) /\ Here(d) => c = d
  /\ \A c \in Clients : Here(c) => started
  /\ started => hasTx
  /\ cmdPc \in Joining => started
  /\ cmdPc = "stopRadio" => using = {} /\ cmdClient \in Clients /\ Here(cmdClient)

\* The units attached are those the visitor believes attached, and the
\* transmitter whose threads are being waited for.
UsingAttached ==
  /\ \A c \in Clients, u \in Units : <<c, u>> \in using => Here(c)
  /\ \A u \in Units :
       u \in attached <=> (\E c \in Clients : <<c, u>> \in using)
                            \/ (cmdPc \in Joining /\ u = cmdUnit)
  /\ cmdPc \in Joining => cmdUnit \in TxUnits /\ \A c \in Clients : <<c, cmdUnit>> \notin using

\* Both counters count what is attached.
Counted ==
  /\ attached \cap RxUnits \subseteq owned
  /\ rcvrs = Cardinality(attached \cap RxUnits)
  /\ xmits = IF TxAttached /\ cmdPc \notin Joining THEN 1 ELSE 0

\* Only the pair of threads made last is alive, and only for a transmitter that
\* is attached; it is there from the answer to the attach until the detach has
\* joined one thread, then the other.
TxPair ==
  /\ \A t \in TxThreads : feed[t] # "none" \/ take[t] # "none" => t = lastTx /\ TxAttached
  /\ \A t \in TxThreads : feed[t] # "none" => txUnit[t] \in TxUnits
  /\ cmdPc = "initTx" => /\ cmdUnit \in TxUnits /\ TxAttached
                         /\ \A t \in TxThreads : feed[t] = "none" /\ take[t] = "none"
  /\ TxAttached /\ cmdPc \notin Joining \cup {"initTx"} =>
       lastTx \in TxThreads /\ feed[lastTx] # "none" /\ take[lastTx] # "none"
  /\ \A t \in TxThreads : cmdPc \in {"joinFeed", "drain"} => take[t] = "none"
  /\ \A t \in TxThreads : cmdPc = "drain" => feed[t] = "none"
  /\ txEnabled => TxAttached

Books == OneVisitor /\ UsingAttached /\ Counted /\ TxPair
PathInv == TypeOK /\ Books

LEMMA PathInit == Init => PathInv
<1> SUFFICES ASSUME Init PROVE PathInv
  OBVIOUS
<1>1. Cardinality({}) = 0
  BY FS_EmptySet
<1>2. Cardinality(RxUnits) \in Nat /\ Cardinality(TxUnits) \in Nat
  BY FS_CardinalityType, UnitsAssumption
<1>3. TypeOK
  <2>1. 0 \in 0 .. MaxVisits /\ 0 \in 0 .. Cardinality(RxUnits) /\ 0 \in 0 .. Cardinality(TxUnits)
    BY <1>2, BoundsAssumption
  <2> QED BY <2>1 DEF Init, TypeOK
<1>4. OneVisitor /\ UsingAttached /\ TxPair
  BY DEF Init, OneVisitor, UsingAttached, TxPair, Here, Joining, TxAttached
<1>5. Counted
  <2>1. attached \cap RxUnits = {} /\ ~TxAttached
    BY DEF Init, TxAttached
  <2> QED BY <1>1, <2>1 DEF Init, Counted
<1> QED BY <1>3, <1>4, <1>5 DEF PathInv, Books

\* A step that leaves the units, the commands and the transmit threads alone
\* leaves the books in order.
LEMMA BooksFrame ==
  ASSUME Books, \A c \in Clients : Here(c)' <=> Here(c),
         UNCHANGED <<using, started, hasTx, txEnabled, attached, owned, rcvrs, xmits,
                     cmdPc, cmdUnit, cmdClient, feed, take, lastTx, txUnit>>
  PROVE  Books'
<1>1. OneVisitor'
  BY DEF Books, OneVisitor
<1>2. UsingAttached'
  BY DEF Books, UsingAttached
<1>3. Counted'
  BY DEF Books, Counted, TxAttached
<1>4. TxPair'
  BY DEF Books, TxPair, TxAttached
<1> QED BY <1>1, <1>2, <1>3, <1>4 DEF Books

\* The steps that touch nothing the books are about.
LEMMA PathAside ==
  ASSUME PathInv,
         \/ \E c \in Clients : Joined(c) \/ Leave(c)
         \/ \E c \in Clients, u \in Units : SetFrequency(c, u) \/ Setting(c, u)
         \/ \E c \in Clients, u \in Units, on \in BOOLEAN : Mox(c, u, on)
         \/ \E t \in AudioThreads : Speaker(t)
         \/ \E t \in TxThreads : FeedPut(t)
         \/ \E r \in RxUnits : StreamTest(r) \/ StreamSend(r)
         \/ UNCHANGED vars
  PROVE  PathInv'
<1> USE DEF PathInv, clientVars, unitVars, countVars, radioVars, cmdVars, audioVars, txVars
<1>1. /\ \A d \in Clients : Here(d)' <=> Here(d)
      /\ UNCHANGED <<using, started, hasTx, txEnabled, attached, owned, rcvrs, xmits,
                     cmdPc, cmdUnit, cmdClient, feed, take, lastTx, txUnit>>
  <2>1. CASE \E c \in Clients : Joined(c) \/ Leave(c)
    BY <2>1 DEF Joined, Leave, Here, TypeOK
  <2>2. CASE \E c \in Clients, u \in Units : SetFrequency(c, u) \/ Setting(c, u)
    BY <2>2 DEF SetFrequency, Setting, Here
  <2>3. CASE \E c \in Clients, u \in Units, on \in BOOLEAN : Mox(c, u, on)
    BY <2>3 DEF Mox, Here
  <2>4. CASE \E t \in AudioThreads : Speaker(t)
    BY <2>4 DEF Speaker, SpeakEnd, SpeakGone, HearSync, HearEnd, Here
  <2>5. CASE \/ \E t \in TxThreads : FeedPut(t)
             \/ \E r \in RxUnits : StreamTest(r) \/ StreamSend(r)
             \/ UNCHANGED vars
    BY <2>5 DEF FeedPut, StreamTest, StreamSend, vars, Here
  <2> QED BY <2>1, <2>2, <2>3, <2>4, <2>5
<1>2. Books'
  BY <1>1, BooksFrame
<1>3. TypeOK'
  <2>1. up \in BOOLEAN
    BY DEF TypeOK
  <2>2. ASSUME NEW c \in Clients, Joined(c) \/ Leave(c)
        PROVE  TypeOK'
    BY <2>2 DEF Joined, Leave, TypeOK
  <2>3. ASSUME NEW c \in Clients, NEW u \in Units, SetFrequency(c, u) \/ Setting(c, u)
        PROVE  TypeOK'
    <3>1. up' \in BOOLEAN
      BY <2>1, <2>3 DEF SetFrequency, Setting, WriteRadio
    <3> QED BY <2>3, <3>1 DEF SetFrequency, Setting, TypeOK
  <2>4. ASSUME NEW c \in Clients, NEW u \in Units, NEW on \in BOOLEAN, Mox(c, u, on)
        PROVE  TypeOK'
    <3>1. up' \in BOOLEAN
      BY <2>1, <2>4, Zenon DEF Mox, WriteRadio
    <3>2. mox' \in BOOLEAN
      BY <2>4, Zenon DEF Mox, TypeOK
    <3>3. queue' \in Nat
      BY <2>4 DEF Mox, TypeOK
    <3>4. pressed' \subseteq Clients
      BY <2>4 DEF Mox, TypeOK
    <3> QED BY <2>4, <3>1, <3>2, <3>3, <3>4 DEF Mox, TypeOK
  <2>5. ASSUME NEW t \in AudioThreads, Speaker(t)
        PROVE  TypeOK'
    <3>1. CASE SpeakEnd(t) \/ SpeakGone(t)
      BY <3>1, ZenonT(60) DEF SpeakEnd, SpeakGone, TypeOK
    <3>2. CASE HearSync(t) \/ HearEnd(t)
      BY <3>2 DEF HearSync, HearEnd, TypeOK
    <3> QED BY <2>5, <3>1, <3>2 DEF Speaker
  <2>6. ASSUME NEW t \in TxThreads, FeedPut(t)
        PROVE  TypeOK'
    BY <2>6 DEF FeedPut, TypeOK
  <2>7. ASSUME NEW r \in RxUnits, StreamTest(r)
        PROVE  TypeOK'
    BY <2>7 DEF StreamTest, TypeOK
  <2>8. ASSUME NEW r \in RxUnits, StreamSend(r)
        PROVE  TypeOK'
    <3>1. up' = (r \in sock)
      BY <2>8 DEF StreamSend
    <3>2. up' \in BOOLEAN
      <4>1. CASE r \in sock
        BY <3>1, <4>1
      <4>2. CASE r \notin sock
        <5>1. (r \in sock) = FALSE
          BY <4>2
        <5> QED BY <3>1, <5>1
      <4> QED BY <4>1, <4>2
    <3> QED BY <2>8, <3>2 DEF StreamSend, TypeOK
  <2>9. CASE UNCHANGED vars
    BY <2>9 DEF vars, TypeOK
  <2> QED BY <2>2, <2>3, <2>4, <2>5, <2>6, <2>7, <2>8, <2>9
<1> QED BY <1>2, <1>3

\* The transmit threads: those that end see xmits at zero, which no attached
\* transmitter whose detach has not begun leaves them.
LEMMA PathThreads ==
  ASSUME PathInv, NEW t \in TxThreads, Sender(t) \/ Listener(t)
  PROVE  PathInv'
<1> USE DEF clientVars, unitVars, countVars, radioVars, cmdVars, audioVars, txVars
<1>1. UNCHANGED <<phase, using, started, hasTx, txEnabled, attached, owned, rcvrs, xmits,
                  cmdPc, cmdUnit, cmdClient, lastTx, txUnit>>
  BY DEF Sender, Listener, TakeHead, TakeFree, TakeEnd, FeedSync, FeedEnd
<1>2. /\ \A x \in TxThreads : /\ feed[x] = "none" => feed'[x] = "none"
                              /\ take[x] = "none" => take'[x] = "none"
      /\ xmits = 1 => \A x \in TxThreads : /\ feed[x] # "none" => feed'[x] # "none"
                                           /\ take[x] # "none" => take'[x] # "none"
  <2>1. CASE Sender(t)
    BY <2>1 DEF Sender, TakeHead, TakeFree, TakeEnd, PathInv, TypeOK
  <2>2. CASE Listener(t)
    BY <2>2 DEF Listener, FeedSync, FeedEnd, PathInv, TypeOK
  <2> QED BY <2>1, <2>2
<1>3. OneVisitor' /\ UsingAttached' /\ Counted'
  BY <1>1 DEF PathInv, Books, OneVisitor, Here, UsingAttached, Counted, TxAttached
<1>4. TxPair'
  <2>1. TxAttached' <=> TxAttached
    BY <1>1 DEF TxAttached
  <2>2. TxAttached /\ cmdPc \notin Joining => xmits = 1
    BY DEF PathInv, Books, Counted
  <2> QED BY <1>1, <1>2, <2>1, <2>2 DEF PathInv, Books, TxPair
<1>5. TypeOK'
  <2> USE DEF PathInv
  <2>1. CASE Sender(t)
    BY <2>1 DEF Sender, TakeHead, TakeFree, TakeEnd, TypeOK
  <2>2. CASE FeedSync(t)
    <3>1. txUnit[t] \in TxUnits \cup {Nobody} /\ sock' \subseteq Units
      <4>1. feed[t] # "none"
        BY <2>2 DEF FeedSync
      <4>2. txUnit[t] \in TxUnits
        BY <4>1 DEF Books, TxPair
      <4> QED BY <2>2, <4>2 DEF FeedSync, TypeOK, Units
    <3> QED BY <2>2, <3>1 DEF FeedSync, TypeOK
  <2>3. CASE FeedEnd(t)
    BY <2>3 DEF FeedEnd, TypeOK
  <2> QED BY <2>1, <2>2, <2>3 DEF Listener
<1> QED BY <1>3, <1>4, <1>5 DEF PathInv, Books

LEMMA PathStart ==
  ASSUME PathInv, InTurn, NEW c \in Clients, StartRadio(c)
  PROVE  PathInv'
<1> USE DEF PathInv, clientVars, unitVars, countVars, radioVars, cmdVars, audioVars, txVars
<1>1. /\ \A d \in Clients : ~Here(d) /\ (Here(d)' <=> d = c)
      /\ using = {} /\ attached = {} /\ owned' \subseteq owned
      /\ UNCHANGED <<using, txEnabled, attached, rcvrs, xmits, cmdPc, cmdUnit, cmdClient,
                     feed, take, lastTx, txUnit>>
      /\ cmdPc = "idle"
  <2>1. \A d \in Clients : ~Here(d) /\ (Here(d)' <=> d = c)
    BY DEF StartRadio, Here, InTurn, TypeOK
  <2>2. using = {}
    BY <2>1, UnitsAssumption DEF Books, UsingAttached, TypeOK
  <2>3. cmdPc = "idle"
    BY DEF StartRadio, Ready
  <2>4. attached = {}
    BY <2>2, <2>3 DEF Books, UsingAttached, TypeOK, Joining
  <2>5. owned' \subseteq owned
    BY DEF StartRadio, StartReceivers
  <2> QED BY <2>1, <2>2, <2>3, <2>4, <2>5 DEF StartRadio
<1>2. started' = TRUE /\ hasTx' = TRUE
  <2>1. CASE started
    BY <2>1 DEF StartRadio, Books, OneVisitor, TypeOK
  <2>2. CASE ~started
    BY <2>2 DEF StartRadio, StartReceivers
  <2> QED BY <2>1, <2>2
<1>3. OneVisitor'
  BY <1>1, <1>2 DEF OneVisitor, Joining
<1>4. UsingAttached' /\ TxPair' /\ Counted'
  BY <1>1 DEF Books, UsingAttached, TxPair, Counted, TxAttached
<1>5. TypeOK'
  <2>1. visits' \in 0 .. MaxVisits
    BY BoundsAssumption DEF StartRadio, TypeOK
  <2>2. owned' \subseteq RxUnits /\ phase' \in [Clients -> {"away", "joining", "in", "leaving"}]
    BY <1>1 DEF StartRadio, TypeOK
  <2>3. UNCHANGED <<up, using, pressed, attached, sock, countVars, mox, txEnabled,
                    cmdVars, syncWait, audioVars, txVars, stream>>
    BY DEF StartRadio
  <2> QED BY <1>2, <2>1, <2>2, <2>3 DEF TypeOK
<1> QED BY <1>3, <1>4, <1>5 DEF Books

LEMMA PathStop ==
  ASSUME PathInv, NEW c \in Clients, StopCounts(c) \/ StopRadio
  PROVE  PathInv'
<1> USE DEF PathInv, clientVars, unitVars, countVars, radioVars, cmdVars, audioVars, txVars
<1>1. CASE StopCounts(c)
  <2>1. started /\ Here(c) /\ cmdPc = "idle"
    BY <1>1 DEF StopCounts, Ready, Here, Books, OneVisitor
  <2>2. using = {}
    <3>1. \A d \in Clients, u \in Units : <<d, u>> \notin using
      BY <1>1, <2>1 DEF StopCounts, ToDetach, Books, OneVisitor, UsingAttached
    <3> QED BY <3>1, UnitsAssumption DEF TypeOK
  <2>3. attached = {}
    BY <2>1, <2>2 DEF Books, UsingAttached, TypeOK, Joining
  <2>4. rcvrs' = 0 /\ xmits' = 0 /\ cmdPc' = "stopRadio" /\ cmdClient' = c /\ cmdUnit' = Nobody
    BY <1>1, <2>1 DEF StopCounts, Begin
  <2>5. UNCHANGED <<phase, using, started, hasTx, txEnabled, attached, owned,
                    feed, take, lastTx, txUnit>>
    BY <1>1, <2>1 DEF StopCounts
  <2>6. Cardinality(attached \cap RxUnits) = 0 /\ ~TxAttached
    BY <2>3, FS_EmptySet DEF TxAttached
  <2>7. OneVisitor' /\ UsingAttached' /\ Counted' /\ TxPair'
    BY <2>1, <2>2, <2>3, <2>4, <2>5, <2>6
    DEF Books, OneVisitor, UsingAttached, Counted, TxPair, TxAttached, Here, Joining
  <2>8. TypeOK'
    <3>1. 0 \in 0 .. Cardinality(RxUnits) /\ 0 \in 0 .. Cardinality(TxUnits)
      BY FS_CardinalityType, UnitsAssumption
    <3> QED BY <1>1, <2>4, <2>5, <3>1 DEF StopCounts, TypeOK
  <2> QED BY <2>7, <2>8 DEF Books
<1>2. CASE StopRadio
  <2>1. \A d \in Clients : ~Here(d)'
    BY <1>2 DEF StopRadio, Books, OneVisitor, Here, TypeOK
  <2>2. using = {} /\ attached = {} /\ ~txEnabled
    <3>1. using = {} /\ cmdPc \notin Joining
      BY <1>2 DEF StopRadio, Books, OneVisitor, Joining
    <3>2. attached = {}
      BY <3>1 DEF Books, UsingAttached, TypeOK
    <3> QED BY <3>1, <3>2 DEF Books, TxPair, TxAttached
  <2>3. /\ cmdPc' = "idle" /\ started' = FALSE /\ hasTx' = FALSE /\ cmdUnit' = Nobody
        /\ cmdClient' = Nobody
        /\ UNCHANGED <<using, txEnabled, attached, owned, rcvrs, xmits, feed, take, lastTx, txUnit>>
    BY <1>2 DEF StopRadio, MainDelete, Done, Begin
  <2>4. OneVisitor' /\ UsingAttached'
    BY <2>1, <2>2, <2>3 DEF OneVisitor, UsingAttached, Joining
  <2>5. Counted' /\ TxPair'
    BY <1>2, <2>2, <2>3 DEF StopRadio, Books, Counted, TxPair, TxAttached, Joining
  <2>6. TypeOK'
    BY <1>2, <2>3 DEF StopRadio, TypeOK
  <2> QED BY <2>4, <2>5, <2>6 DEF Books
<1> QED BY <1>1, <1>2

\* Attaching a receiver: it was not attached, for its client does not believe
\* it is, so it is counted.
LEMMA PathAttachRx ==
  ASSUME PathInv, NEW c \in Clients, NEW u \in Units, AttachRx(c, u)
  PROVE  PathInv'
<1> USE DEF PathInv, clientVars, unitVars, countVars, radioVars, cmdVars, audioVars, txVars
<1>1. /\ u \in RxUnits /\ cmdPc = "idle" /\ Here(c) /\ <<c, u>> \notin using /\ <<c, u>> \in Uses
      /\ using' = using \cup {<<c, u>>} /\ sock' = sock \cup {u}
      /\ UNCHANGED <<phase, visits, pressed, started, hasTx, mox, txEnabled, cmdPc, cmdUnit,
                     cmdClient, syncWait, feed, take, lastTx, txUnit, queue, up, stream, xmits>>
  BY DEF AttachRx, Ready, Here, ToAttach
<1>2. u \notin attached
  <2>1. \A d \in Clients : <<d, u>> \in using => d = c
    BY <1>1 DEF Books, OneVisitor, UsingAttached
  <2> QED BY <1>1, <2>1 DEF Books, UsingAttached, Joining
<1>3. /\ IsFiniteSet(attached \cap RxUnits) /\ IsFiniteSet((attached \cap RxUnits) \cup {u})
      /\ Cardinality((attached \cap RxUnits) \cup {u}) = rcvrs + 1
      /\ rcvrs + 1 <= Cardinality(RxUnits) /\ Cardinality(RxUnits) \in Nat
      /\ rcvrs \in Nat
  <2>1. IsFiniteSet(attached \cap RxUnits)
    BY UnitsAssumption, FS_Subset
  <2>2. Cardinality((attached \cap RxUnits) \cup {u}) = rcvrs + 1
    BY <1>2, <2>1, FS_AddElement DEF Books, Counted
  <2>3. Cardinality((attached \cap RxUnits) \cup {u}) <= Cardinality(RxUnits)
    BY <1>1, UnitsAssumption, FS_Subset
  <2>4. IsFiniteSet((attached \cap RxUnits) \cup {u})
    BY <2>1, FS_AddElement
  <2>5. Cardinality(RxUnits) \in Nat
    BY FS_CardinalityType, UnitsAssumption
  <2> QED BY <2>1, <2>2, <2>3, <2>4, <2>5 DEF TypeOK
<1>4. attached' = attached \cup {u} /\ owned' = owned \cup {u} /\ rcvrs' = rcvrs + 1 /\ MakeSpeaker
  BY <1>2, <1>3 DEF AttachRx
<1>5. (TxAttached' <=> TxAttached) /\ attached' \cap RxUnits = (attached \cap RxUnits) \cup {u}
  BY <1>1, <1>4, UnitsAssumption DEF TxAttached
<1>6. OneVisitor'
  BY <1>1 DEF Books, OneVisitor, Here
<1>7. UsingAttached'
  <2>1. \A d \in Clients, v \in Units :
          <<d, v>> \in using' <=> <<d, v>> \in using \/ (d = c /\ v = u)
    BY <1>1
  <2>2. \A d \in Clients : Here(d)' <=> Here(d)
    BY <1>1 DEF Here
  <2> QED BY <1>1, <1>4, <2>1, <2>2 DEF Books, UsingAttached, Joining
<1>8. Counted'
  BY <1>1, <1>3, <1>4, <1>5 DEF Books, Counted
<1>9. TxPair'
  BY <1>1, <1>5 DEF Books, TxPair
<1>10. TypeOK'
  <2>1. speak' \in [AudioThreads -> {"none", "loop", "leave"}]
        /\ hear' \in [AudioThreads -> {"none", "sync", "loop"}] /\ audioOn' \in BOOLEAN
    BY <1>4 DEF MakeSpeaker, TypeOK
  <2>2. rcvrs' \in 0 .. Cardinality(RxUnits)
    BY <1>3, <1>4
  <2>3. using' \subseteq Uses /\ attached' \subseteq Units /\ owned' \subseteq RxUnits
        /\ sock' \subseteq Units
    BY <1>1, <1>4 DEF TypeOK, Units
  <2> QED BY <1>1, <2>1, <2>2, <2>3 DEF TypeOK
<1> QED BY <1>6, <1>7, <1>8, <1>9, <1>10 DEF Books

\* Attaching the transmitter, and making its threads.
LEMMA PathAttachTx ==
  ASSUME PathInv, InTurn, NEW c \in Clients, NEW u \in Units, AttachTx(c, u)
  PROVE  PathInv'
<1> USE DEF PathInv, clientVars, unitVars, countVars, radioVars, cmdVars, audioVars, txVars
<1>1. /\ u \in TxUnits /\ cmdPc = "idle" /\ Here(c) /\ <<c, u>> \notin using /\ <<c, u>> \in Uses
      /\ using' = using \cup {<<c, u>>} /\ attached' = attached \cup {u}
      /\ cmdPc' = "initTx" /\ cmdUnit' = u /\ cmdClient' = c /\ txEnabled' = FALSE
      /\ UNCHANGED <<up, phase, visits, pressed, started, hasTx, mox, owned, sock, rcvrs, syncWait,
                     audioOn, speak, hear, feed, take, txUnit, lastTx, queue, stream>>
  BY DEF AttachTx, Ready, Here, ToAttach, Begin
<1>2. u \notin attached
  <2>1. \A d \in Clients : <<d, u>> \in using => d = c
    BY <1>1 DEF Books, OneVisitor, UsingAttached
  <2> QED BY <1>1, <2>1 DEF Books, UsingAttached, Joining
<1>3. ~TxAttached /\ TxAttached' /\ attached' \cap RxUnits = attached \cap RxUnits
  BY <1>1, <1>2, UnitsAssumption DEF TxAttached, InTurn, TypeOK
<1>4. xmits = 0 /\ xmits' = 1
  BY <1>1, <1>2, <1>3 DEF AttachTx, Books, Counted
<1>5. OneVisitor'
  BY <1>1 DEF Books, OneVisitor, Here, Joining
<1>6. UsingAttached'
  <2>1. \A d \in Clients, v \in Units :
          <<d, v>> \in using' <=> <<d, v>> \in using \/ (d = c /\ v = u)
    BY <1>1
  <2>2. \A d \in Clients : Here(d)' <=> Here(d)
    BY <1>1 DEF Here
  <2> QED BY <1>1, <2>1, <2>2, ZenonT(60) DEF Books, UsingAttached, Joining
<1>7. Counted'
  BY <1>1, <1>3, <1>4 DEF Books, Counted, Joining
<1>8. TxPair'
  BY <1>1, <1>3 DEF Books, TxPair, Joining
<1>9. TypeOK'
  <2>1. xmits' \in 0 .. Cardinality(TxUnits)
    <3>1. TxUnits # {}
      BY <1>1
    <3>2. Cardinality(TxUnits) \in Nat /\ Cardinality(TxUnits) # 0
      BY <3>1, UnitsAssumption, FS_CardinalityType, FS_EmptySet
    <3> QED BY <1>4, <3>2
  <2>2. using' \subseteq Uses /\ attached' \subseteq Units /\ cmdUnit' \in Units
    BY <1>1 DEF TypeOK
  <2> QED BY <1>1, <2>1, <2>2 DEF TypeOK
<1> QED BY <1>5, <1>6, <1>7, <1>8, <1>9 DEF Books

LEMMA PathInitTx ==
  ASSUME PathInv, InitTx
  PROVE  PathInv'
<1> USE DEF PathInv, clientVars, unitVars, countVars, radioVars, cmdVars, audioVars, txVars
<1>1. cmdPc = "initTx" /\ cmdUnit \in TxUnits /\ TxAttached
      /\ \A t \in TxThreads : feed[t] = "none" /\ take[t] = "none"
  BY DEF InitTx, Books, TxPair
<1>2. /\ cmdPc' = "idle" /\ cmdUnit' = Nobody /\ cmdClient' = Nobody
      /\ syncWait' = cmdUnit /\ txEnabled' = TRUE
      /\ UNCHANGED <<up, phase, visits, using, pressed, started, hasTx, mox, attached, owned, sock,
                     rcvrs, xmits, audioOn, speak, hear, queue, stream>>
  BY DEF InitTx, Done, Begin
<1>3. PICK t \in TxThreads : /\ feed' = [feed EXCEPT ![t] = "sync"]
                             /\ take' = [take EXCEPT ![t] = "loop"]
                             /\ txUnit' = [txUnit EXCEPT ![t] = cmdUnit]
                             /\ lastTx' = t
  BY DEF InitTx
<1>4. OneVisitor' /\ UsingAttached' /\ Counted'
  BY <1>1, <1>2 DEF Books, OneVisitor, UsingAttached, Counted, Here, Joining, TxAttached
<1>5. TxPair'
  BY <1>1, <1>2, <1>3 DEF TxPair, TypeOK, TxAttached
<1>6. TypeOK'
  BY <1>1, <1>2, <1>3 DEF TypeOK
<1> QED BY <1>4, <1>5, <1>6 DEF Books

\* Detaching a receiver: it is attached and owned, so it is counted off.
LEMMA PathDetachRx ==
  ASSUME PathInv, NEW c \in Clients, NEW u \in Units, DetachRx(c, u)
  PROVE  PathInv'
<1> USE DEF PathInv, clientVars, unitVars, countVars, radioVars, cmdVars, audioVars, txVars
<1>1. /\ u \in RxUnits /\ cmdPc = "idle" /\ Here(c) /\ <<c, u>> \in using
      /\ using' = using \ {<<c, u>>}
      /\ UNCHANGED <<up, phase, visits, pressed, xmits, started, hasTx, mox, txEnabled, cmdPc,
                     cmdUnit, cmdClient, syncWait, audioOn, speak, hear, feed, take, lastTx,
                     txUnit, queue, stream>>
  BY DEF DetachRx, Ready, Here, ToDetach
<1>2. u \in attached /\ u \in owned
  BY <1>1 DEF Books, UsingAttached, Counted
<1>3. /\ Cardinality((attached \cap RxUnits) \ {u}) = rcvrs - 1
      /\ rcvrs \in Nat /\ rcvrs > 0
      /\ rcvrs - 1 = 0 => (attached \cap RxUnits) \ {u} = {}
  <2>1. IsFiniteSet(attached \cap RxUnits)
    BY UnitsAssumption, FS_Subset
  <2>2. Cardinality((attached \cap RxUnits) \ {u}) = rcvrs - 1
        /\ IsFiniteSet((attached \cap RxUnits) \ {u})
    BY <1>1, <1>2, <2>1, FS_RemoveElement DEF Books, Counted
  <2>3. Cardinality((attached \cap RxUnits) \ {u}) \in Nat
    BY <2>2, FS_CardinalityType
  <2>4. rcvrs \in Nat
    BY UnitsAssumption, FS_CardinalityType DEF TypeOK
  <2>5. rcvrs - 1 = 0 => (attached \cap RxUnits) \ {u} = {}
    BY <2>2, FS_EmptySet
  <2> QED BY <2>2, <2>3, <2>4, <2>5
<1>4. /\ rcvrs' = rcvrs - 1 /\ attached' = attached \ {u} /\ sock' = sock \ {u}
      /\ owned' \subseteq owned /\ owned \ {u} \subseteq owned'
  BY <1>2, <1>3 DEF DetachRx
<1>5. /\ TxAttached' <=> TxAttached
      /\ attached' \cap RxUnits = (attached \cap RxUnits) \ {u}
      /\ attached' \cap RxUnits \subseteq owned'
  BY <1>1, <1>4, UnitsAssumption DEF TxAttached, Books, Counted
<1>6. OneVisitor'
  BY <1>1 DEF Books, OneVisitor, Here
<1>7. UsingAttached'
  <2>1. \A d \in Clients, v \in Units :
          <<d, v>> \in using' <=> <<d, v>> \in using /\ ~(d = c /\ v = u)
    BY <1>1
  <2>2. \A d \in Clients : Here(d)' <=> Here(d)
    BY <1>1 DEF Here
  <2>3. \A d \in Clients : <<d, u>> \notin using'
    BY <1>1, <2>1 DEF Books, OneVisitor, UsingAttached
  <2> QED BY <1>1, <1>4, <2>1, <2>2, <2>3 DEF Books, UsingAttached, Joining
<1>8. Counted'
  BY <1>1, <1>3, <1>4, <1>5 DEF Books, Counted
<1>9. TxPair'
  BY <1>1, <1>5 DEF Books, TxPair
<1>10. TypeOK'
  <2>1. rcvrs' \in 0 .. Cardinality(RxUnits)
    BY <1>3, <1>4, UnitsAssumption, FS_CardinalityType DEF TypeOK
  <2>2. using' \subseteq Uses /\ attached' \subseteq Units /\ owned' \subseteq RxUnits
        /\ sock' \subseteq Units
    BY <1>1, <1>4 DEF TypeOK
  <2> QED BY <1>1, <2>1, <2>2 DEF TypeOK
<1> QED BY <1>6, <1>7, <1>8, <1>9, <1>10 DEF Books

\* Detaching the transmitter begins: its threads see the counter at zero.
LEMMA PathDetachTx ==
  ASSUME PathInv, InTurn, NEW c \in Clients, NEW u \in Units, DetachTx(c, u)
  PROVE  PathInv'
<1> USE DEF PathInv, clientVars, unitVars, countVars, radioVars, cmdVars, audioVars, txVars
<1>1. /\ u \in TxUnits /\ cmdPc = "idle" /\ Here(c) /\ <<c, u>> \in using
      /\ using' = using \ {<<c, u>>}
      /\ UNCHANGED <<up, phase, visits, pressed, started, hasTx, mox, attached, owned, sock, rcvrs,
                     syncWait, audioOn, speak, hear, feed, take, lastTx, txUnit, queue, stream>>
  BY DEF DetachTx, Ready, Here, ToDetach
<1>2. u \in attached /\ TxAttached /\ xmits = 1 /\ started
  <2>1. u \in attached /\ started
    BY <1>1 DEF Books, UsingAttached, OneVisitor
  <2> QED BY <1>1, <2>1 DEF TxAttached, Books, Counted, Joining
<1>3. /\ xmits' = 0 /\ cmdPc' = "joinTake" /\ cmdUnit' = u /\ cmdClient' = c
      /\ UNCHANGED txEnabled
  BY <1>2 DEF DetachTx, Begin
<1>4. OneVisitor'
  BY <1>1, <1>2, <1>3 DEF Books, OneVisitor, Here
<1>5. UsingAttached'
  <2>1. \A d \in Clients, v \in Units :
          <<d, v>> \in using' <=> <<d, v>> \in using /\ ~(d = c /\ v = u)
    BY <1>1
  <2>2. \A d \in Clients : Here(d)' <=> Here(d)
    BY <1>1 DEF Here
  <2>3. \A d \in Clients : <<d, u>> \notin using'
    BY <1>1, <2>1 DEF Books, OneVisitor, UsingAttached
  <2> QED BY <1>1, <1>2, <1>3, <2>1, <2>2, <2>3 DEF Books, UsingAttached, Joining
<1>6. Counted'
  BY <1>1, <1>3 DEF Books, Counted, Joining
<1>7. TxPair'
  BY <1>1, <1>2, <1>3 DEF Books, TxPair, Joining, TxAttached
<1>8. TypeOK'
  <2>1. xmits' \in 0 .. Cardinality(TxUnits)
    BY <1>3, UnitsAssumption, FS_CardinalityType
  <2> QED BY <1>1, <1>3, <2>1 DEF TypeOK
<1> QED BY <1>4, <1>5, <1>6, <1>7, <1>8 DEF Books

LEMMA PathJoin ==
  ASSUME PathInv, InTurn, JoinTake \/ JoinFeed \/ Drain
  PROVE  PathInv'
<1> USE DEF PathInv, clientVars, unitVars, countVars, radioVars, cmdVars, audioVars, txVars
<1>1. CASE JoinTake \/ JoinFeed
  <2>1. /\ cmdPc \in Joining /\ cmdPc' \in Joining \ {"joinTake"}
        /\ UNCHANGED <<up, phase, visits, using, pressed, started, hasTx, mox, txEnabled, attached,
                       owned, sock, rcvrs, xmits, cmdUnit, cmdClient, syncWait, audioOn, speak,
                       hear, feed, take, lastTx, txUnit, queue, stream>>
    BY <1>1 DEF JoinTake, JoinFeed, Goto, Joining
  <2>2. /\ \A t \in TxThreads : take[t] = "none"
        /\ cmdPc' = "drain" => \A t \in TxThreads : feed[t] = "none"
    BY <1>1 DEF JoinTake, JoinFeed, Goto, Books, TxPair
  <2>3. OneVisitor' /\ UsingAttached' /\ Counted'
    BY <2>1 DEF Books, OneVisitor, UsingAttached, Counted, Here, Joining, TxAttached
  <2>4. TxPair'
    BY <2>1, <2>2 DEF Books, TxPair, Joining, TxAttached
  <2>5. TypeOK'
    BY <2>1 DEF TypeOK, Joining
  <2> QED BY <2>3, <2>4, <2>5 DEF Books
<1>2. CASE Drain
  <2>1. /\ cmdPc = "drain" /\ cmdPc' = "idle" /\ cmdUnit' = Nobody /\ cmdClient' = Nobody
        /\ cmdUnit \in TxUnits /\ attached' = attached \ {cmdUnit} /\ sock' = sock \ {cmdUnit}
        /\ txEnabled' = FALSE
        /\ UNCHANGED <<phase, visits, using, pressed, started, hasTx, mox, owned, rcvrs, xmits,
                       syncWait, audioOn, speak, hear, feed, take, lastTx, txUnit, stream>>
    BY <1>2 DEF Drain, Done, Begin, Books, UsingAttached, Joining
  <2>2. ~TxAttached' /\ attached' \cap RxUnits = attached \cap RxUnits
    BY <2>1, UnitsAssumption DEF TxAttached, InTurn
  <2>3. OneVisitor'
    BY <2>1 DEF Books, OneVisitor, Here, Joining
  <2>4. UsingAttached'
    BY <2>1 DEF Books, UsingAttached, Here, Joining
  <2>5. Counted'
    BY <2>1, <2>2 DEF Books, Counted, Joining
  <2>6. TxPair'
    BY <2>1, <2>2 DEF Books, TxPair, Joining
  <2>7. TypeOK'
    <3>1. queue' \in Nat
      <4>1. queue \in Nat
        BY DEF TypeOK
      <4>2. queue' = queue \/ queue' \in 0 .. queue - 1 \/ (queue > 0 /\ queue' = queue - 1)
        BY <1>2 DEF Drain
      <4> QED BY <4>1, <4>2
    <3>2. up' \in BOOLEAN
      BY <1>2 DEF Drain, TypeOK
    <3>3. attached' \subseteq Units /\ sock' \subseteq Units
      BY <2>1 DEF TypeOK
    <3> QED BY <2>1, <3>1, <3>2, <3>3 DEF TypeOK
  <2> QED BY <2>3, <2>4, <2>5, <2>6, <2>7 DEF Books
<1> QED BY <1>1, <1>2

LEMMA PathStep ==
  ASSUME InTurn
  PROVE  PathInv /\ [Next]_vars => PathInv'
<1> SUFFICES ASSUME PathInv, [Next]_vars PROVE PathInv'
  OBVIOUS
<1>1. CASE Continue
  <2>1. ASSUME StopRadio PROVE PathInv'
    <3>1. cmdClient \in Clients
      BY <2>1 DEF StopRadio, PathInv, Books, OneVisitor
    <3> QED BY <2>1, <3>1, PathStop
  <2> QED BY <1>1, <2>1, PathInitTx, PathJoin DEF Continue
<1>2. ASSUME NEW c \in Clients, Command(c) PROVE PathInv'
  <2>1. CASE StartRadio(c) \/ StopCounts(c)
    BY <2>1, PathStart, PathStop
  <2>2. CASE Joined(c) \/ Leave(c)
    BY <2>2, PathAside
  <2>3. ASSUME NEW u \in Units, AttachRx(c, u) \/ AttachTx(c, u) \/ DetachRx(c, u) \/ DetachTx(c, u)
        PROVE  PathInv'
    BY <2>3, PathAttachRx, PathAttachTx, PathDetachRx, PathDetachTx
  <2>4. ASSUME NEW u \in Units, NEW on \in BOOLEAN,
               SetFrequency(c, u) \/ Setting(c, u) \/ Mox(c, u, on)
        PROVE  PathInv'
    BY <2>4, PathAside
  <2> QED BY <1>2, <2>1, <2>2, <2>3, <2>4 DEF Command
<1>3. ASSUME NEW t \in AudioThreads, Speaker(t) PROVE PathInv'
  BY <1>3, PathAside
<1>4. ASSUME NEW t \in TxThreads, Sender(t) \/ Listener(t) \/ FeedPut(t) PROVE PathInv'
  BY <1>4, PathThreads, PathAside
<1>5. ASSUME NEW u \in RxUnits, StreamTest(u) \/ StreamSend(u) PROVE PathInv'
  BY <1>5, PathAside
<1>6. CASE UNCHANGED vars
  BY <1>6, PathAside
<1> QED BY <1>1, <1>2, <1>3, <1>4, <1>5, <1>6 DEF Next

\* Clients that come in turn leave the bookkeeping of the radio in order,
\* whatever they attach and whenever its threads run: the counter that opens the
\* settings is right, the transmit queue's head has one owner, the transmitter
\* has its threads and the microphone path its transmitter (attach_receiver,
\* attach_transmitter, their detaches and the transmit threads of server.c).
THEOREM PathsCorrect ==
  ASSUME InTurn
  PROVE  Spec => []PathsMatch
<1>1. PathInv => PathsMatch
  <2> SUFFICES ASSUME PathInv PROVE PathsMatch
    OBVIOUS
  <2> USE DEF PathInv, Books
  <2> DEFINE H == {t \in TxThreads : take[t] = "hold"}
  <2>1. Cardinality(H) + (IF cmdPc = "drain" THEN 1 ELSE 0) <= 1
    <3>1. CASE H = {}
      BY <3>1, FS_EmptySet
    <3>2. CASE H # {}
      <4>1. PICK t \in TxThreads : H = {t}
        BY <3>2 DEF TxPair
      <4>2. cmdPc # "drain"
        BY <4>1 DEF TxPair
      <4>3. Cardinality(H) = 1
        BY <4>1, FS_Singleton
      <4> QED BY <4>2, <4>3
    <3> QED BY <3>1, <3>2
  <2>2. cmdPc = "idle" => rcvrs = Cardinality(attached \cap RxUnits)
    BY DEF Counted
  <2>3. up /\ cmdPc = "idle" /\ attached \cap TxUnits # {}
          => lastTx # Nobody /\ feed[lastTx] # "none" /\ take[lastTx] # "none"
    BY ThreadsAssumption DEF TxPair, TxAttached, Joining
  <2>4. txEnabled => hasTx
    <3>1. TxAttached => started
      <4> SUFFICES ASSUME NEW u \in Units, u \in attached PROVE started
        BY DEF TxAttached, Units
      <4> QED BY DEF OneVisitor, UsingAttached
    <3> QED BY <3>1 DEF TxPair, OneVisitor
  <2> QED BY <2>1, <2>2, <2>3, <2>4 DEF PathsMatch
<1>2. PathInv /\ [Next]_vars => PathInv'
  BY PathStep
<1> QED BY <1>1, <1>2, PathInit, PTL DEF Spec

----------------------------------------------------------------------------
(* Nothing waits for what will not come. *)

\* While the command thread joins, there is a pair it joins; while dspserver
\* waits for a datagram, the thread that will send one has not begun, and it
\* opens a socket because the transmitter has none, which is what makes it send.
AnswerDue ==
  /\ cmdPc \in Joining => lastTx \in TxThreads
  /\ syncWait # Nobody =>
       cmdPc = "idle" /\ \E t \in TxThreads : feed[t] = "sync" /\ txUnit[t] = syncWait
  /\ cmdPc = "initTx" \/ syncWait # Nobody \/ ~TxAttached => sock \cap TxUnits = {}

LEMMA DueCommands ==
  ASSUME InTurn, PathInv, AnswerDue, NEW c \in Clients, NEW u \in Units,
         AttachRx(c, u) \/ AttachTx(c, u) \/ DetachRx(c, u) \/ DetachTx(c, u)
  PROVE  AnswerDue'
<1> USE DEF AnswerDue, TxAttached, Joining
<1>1. cmdPc = "idle" /\ syncWait = Nobody /\ UNCHANGED <<syncWait, feed, take, txUnit, lastTx>>
  BY DEF AttachRx, AttachTx, DetachRx, DetachTx, Ready, txVars
<1>2. CASE AttachRx(c, u)
  <2>1. u \in RxUnits /\ u \notin TxUnits
    BY <1>2, UnitsAssumption DEF AttachRx
  <2>2. sock' \cap TxUnits = sock \cap TxUnits /\ attached' \cap TxUnits = attached \cap TxUnits
    BY <1>2, <2>1 DEF AttachRx
  <2> QED BY <1>1, <1>2, <2>2 DEF AttachRx, cmdVars
<1>3. CASE AttachTx(c, u)
  <2>1. u \in TxUnits /\ <<c, u>> \notin using /\ phase[c] = "joining"
    BY <1>3 DEF AttachTx, ToAttach
  <2>2. u \notin attached
    <3>1. \A d \in Clients : <<d, u>> \in using => d = c
      BY <2>1 DEF PathInv, Books, OneVisitor, UsingAttached, Here
    <3> QED BY <1>1, <2>1, <3>1 DEF PathInv, Books, UsingAttached
  <2>3. ~TxAttached
    BY <2>1, <2>2 DEF InTurn
  <2>4. sock' \cap TxUnits = {}
    BY <1>3, <2>3 DEF AttachTx
  <2>5. cmdPc' = "initTx"
    BY <1>3 DEF AttachTx, Begin
  <2> QED BY <1>1, <2>4, <2>5
<1>4. CASE DetachRx(c, u)
  <2>1. u \in RxUnits /\ u \notin TxUnits
    BY <1>4, UnitsAssumption DEF DetachRx
  <2>2. sock' \cap TxUnits = sock \cap TxUnits /\ attached' \cap TxUnits = attached \cap TxUnits
    BY <1>4, <2>1 DEF DetachRx, unitVars
  <2> QED BY <1>1, <1>4, <2>2 DEF DetachRx, cmdVars
<1>5. CASE DetachTx(c, u)
  <2>1. u \in TxUnits /\ UNCHANGED unitVars
    BY <1>5 DEF DetachTx
  <2>2. CASE u \in attached /\ cmdPc' = "joinTake"
    <3>1. lastTx \in TxThreads
      BY <1>1, <2>1, <2>2 DEF PathInv, Books, TxPair
    <3> QED BY <1>1, <2>1, <2>2, <3>1 DEF unitVars
  <2>3. CASE UNCHANGED cmdVars
    BY <1>1, <2>1, <2>3 DEF unitVars, cmdVars
  <2> QED BY <1>5, <2>2, <2>3 DEF DetachTx, Begin
<1> QED BY <1>2, <1>3, <1>4, <1>5

LEMMA DueContinue ==
  ASSUME InTurn, PathInv, AnswerDue, Continue
  PROVE  AnswerDue'
<1> USE DEF AnswerDue, TxAttached, Joining
<1>1. cmdPc # "idle" /\ syncWait = Nobody
  BY DEF Continue, StopRadio, InitTx, JoinTake, JoinFeed, Drain
<1>2. CASE StopRadio
  BY <1>1, <1>2 DEF StopRadio, Done, Begin, unitVars, txVars
<1>3. CASE InitTx
  <2>1. PICK t \in TxThreads : /\ feed' = [feed EXCEPT ![t] = "sync"]
                              /\ txUnit' = [txUnit EXCEPT ![t] = cmdUnit]
    BY <1>3 DEF InitTx
  <2>2. feed'[t] = "sync" /\ txUnit'[t] = cmdUnit
    BY <2>1 DEF PathInv, TypeOK
  <2>3. cmdPc' = "idle" /\ syncWait' = cmdUnit /\ sock \cap TxUnits = {} /\ UNCHANGED unitVars
    BY <1>3 DEF InitTx, Done, Begin
  <2> QED BY <2>2, <2>3 DEF unitVars
<1>4. CASE JoinTake \/ JoinFeed
  BY <1>1, <1>4 DEF JoinTake, JoinFeed, Goto, unitVars, txVars
<1>5. CASE Drain
  <2>1. cmdUnit \in TxUnits
    BY <1>5 DEF Drain, PathInv, Books, UsingAttached
  <2>2. sock' \cap TxUnits = {}
    BY <1>5, <2>1 DEF Drain, InTurn
  <2>3. cmdPc' = "idle" /\ syncWait' = Nobody
    BY <1>1, <1>5 DEF Drain, Done, Begin
  <2> QED BY <2>2, <2>3
<1> QED BY <1>2, <1>3, <1>4, <1>5 DEF Continue

LEMMA DueListener ==
  ASSUME PathInv, AnswerDue, NEW t \in TxThreads, Listener(t)
  PROVE  AnswerDue'
<1> USE DEF AnswerDue, TxAttached, Joining
<1>1. UNCHANGED <<cmdVars, lastTx, txUnit, attached>>
  BY DEF Listener, FeedSync, FeedEnd, unitVars
<1>2. CASE FeedSync(t)
  <2>1. /\ t = lastTx /\ TxAttached /\ cmdPc # "initTx" /\ txUnit[t] \in TxUnits
        /\ feed[t] = "sync"
    BY <1>2 DEF FeedSync, PathInv, Books, TxPair
  <2>2. syncWait' = Nobody
    <3>1. CASE syncWait # Nobody
      <4>1. PICK s \in TxThreads : feed[s] = "sync" /\ txUnit[s] = syncWait
        BY <3>1
      <4>2. s = t
        BY <2>1, <4>1 DEF PathInv, Books, TxPair
      <4>3. txUnit[t] \notin sock
        BY <2>1, <3>1
      <4> QED BY <1>2, <4>1, <4>2, <4>3 DEF FeedSync
    <3>2. CASE syncWait = Nobody
      BY <1>2, <3>2 DEF FeedSync
    <3> QED BY <3>1, <3>2
  <2> QED BY <1>1, <2>1, <2>2 DEF cmdVars
<1>3. CASE FeedEnd(t)
  <2>1. \A s \in TxThreads : feed[s] = "sync" => feed'[s] = "sync"
    BY <1>3 DEF FeedEnd, PathInv, TypeOK
  <2>2. sock' = sock /\ syncWait' = syncWait
    BY <1>3 DEF FeedEnd, unitVars
  <2> QED BY <1>1, <2>1, <2>2 DEF cmdVars
<1> QED BY <1>2, <1>3 DEF Listener

LEMMA DueStep ==
  ASSUME InTurn PROVE PathInv /\ AnswerDue /\ [Next]_vars => AnswerDue'
<1> SUFFICES ASSUME PathInv, AnswerDue, [Next]_vars PROVE AnswerDue'
  OBVIOUS
<1>1. CASE UNCHANGED <<cmdVars, syncWait, feed, txUnit, lastTx, unitVars>>
  BY <1>1 DEF AnswerDue, TxAttached, Joining, cmdVars, unitVars
<1>2. ASSUME NEW c \in Clients, Command(c) PROVE AnswerDue'
  <2>1. CASE StopCounts(c)
    BY <2>1 DEF StopCounts, Ready, Begin, AnswerDue, TxAttached, Joining, cmdVars, txVars, unitVars
  <2>2. CASE StartRadio(c)
    <3>1. UNCHANGED <<cmdVars, syncWait, feed, txUnit, lastTx, attached, sock>>
      BY <2>2 DEF StartRadio, txVars
    <3> QED BY <3>1 DEF AnswerDue, TxAttached, Joining, cmdVars
  <2>3. CASE Joined(c) \/ Leave(c)
    BY <1>1, <2>3 DEF Joined, Leave, txVars
  <2>4. ASSUME NEW u \in Units, NEW on \in BOOLEAN,
               SetFrequency(c, u) \/ Setting(c, u) \/ Mox(c, u, on)
        PROVE  AnswerDue'
    BY <1>1, <2>4 DEF SetFrequency, Setting, Mox, txVars
  <2> QED BY <1>2, <2>1, <2>2, <2>3, <2>4, DueCommands DEF Command
<1>3. ASSUME NEW t \in AudioThreads, Speaker(t) PROVE AnswerDue'
  BY <1>1, <1>3 DEF Speaker, SpeakEnd, SpeakGone, HearSync, HearEnd, txVars
<1>4. ASSUME NEW t \in TxThreads, Sender(t) \/ FeedPut(t) PROVE AnswerDue'
  BY <1>1, <1>4 DEF Sender, TakeHead, TakeFree, TakeEnd, FeedPut
<1>5. ASSUME NEW u \in RxUnits, StreamTest(u) \/ StreamSend(u) PROVE AnswerDue'
  BY <1>1, <1>5 DEF StreamTest, StreamSend, txVars
<1>6. CASE UNCHANGED vars
  BY <1>1, <1>6 DEF vars, txVars
<1> QED BY <1>2, <1>3, <1>4, <1>5, <1>6, DueContinue, DueListener DEF Next

\* What the command thread and dspserver wait for is on its way: the pair of
\* threads a detach joins finds the counter at zero and ends, and a datagram
\* awaited after an attach is one its thread is about to send.
WaitsEnd ==
  /\ cmdPc \in {"joinTake", "joinFeed"} => lastTx \in TxThreads /\ xmits = 0
  /\ syncWait # Nobody =>
       \E t \in TxThreads : feed[t] = "sync" /\ txUnit[t] = syncWait /\ syncWait \notin sock

\* No detach joins a thread that goes on, and no attach leaves dspserver waiting
\* for a datagram that a socket left open by an earlier client suppresses.
THEOREM WaitsAnswered ==
  ASSUME InTurn PROVE Spec => []WaitsEnd
<1>1. Init => AnswerDue
  BY DEF Init, AnswerDue, Joining
<1>2. PathInv /\ AnswerDue => WaitsEnd
  <2> SUFFICES ASSUME PathInv, AnswerDue PROVE WaitsEnd
    OBVIOUS
  <2>1. syncWait # Nobody => syncWait \in TxUnits
    BY DEF PathInv, TypeOK
  <2> QED BY <2>1 DEF PathInv, Books, Counted, AnswerDue, WaitsEnd, Joining
<1>3. PathInv /\ [Next]_vars => PathInv'
  BY PathStep
<1>4. PathInv /\ AnswerDue /\ [Next]_vars => AnswerDue'
  BY DueStep
<1> QED BY <1>1, <1>2, <1>3, <1>4, PathInit, PTL DEF Spec
=============================================================================
