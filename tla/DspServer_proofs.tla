-------------------------- MODULE DspServer_proofs --------------------------
(***************************************************************************)
(* Theorems about DspServer, for every value of its constants.             *)
(***************************************************************************)
EXTENDS DspServer, FiniteSetTheorems, TLAPS

\* While a command or a disconnect is under way the command thread works on a
\* channel some client uses.
CmdOK ==
  cmdPc \in {"startCount", "startLaunch", "stopCount", "stopClose", "stopDisable",
             "stopFlag", "eofCount", "eofWait"}
    => Current \in Uses

TypeInv == TypeOK /\ CmdOK

LEMMA InitTypeInv == Init => TypeInv
<1> SUFFICES ASSUME Init PROVE TypeInv
  OBVIOUS
<1>1. TypeOK
  <2>1. up \in BOOLEAN /\ stopIQ \in BOOLEAN /\ timerSet \in [Channels -> BOOLEAN]
    BY Zenon DEF Init
  <2>2. /\ conn \in [Clients -> {"away", "connected", "leaving", "gone"}]
        /\ sess \in [Uses -> {"idle", "started", "attached", "stopped"}]
        /\ timers \in [Channels -> Int]
        /\ txBinding \in [TxChannels -> Nat]
    BY DEF Init
  <2>3. /\ iqPc \in [IqThreads -> {"none", "top", "wait", "inside", "audio"}]
        /\ iqCh \in [IqThreads -> RxChannels \cup {NoChannel}]
    BY DEF Init
  <2>4. QED BY <2>1, <2>2, <2>3 DEF Init, TypeOK
<1>2. CmdOK
  BY DEF Init, CmdOK
<1>3. QED BY <1>1, <1>2 DEF TypeInv

LEMMA NextTypeInv == TypeInv /\ [Next]_vars => TypeInv'
<1> SUFFICES ASSUME TypeInv, [Next]_vars PROVE TypeInv'
  OBVIOUS
<1> USE UsesAssumption DEF TypeInv, TypeOK, CmdOK, Channels, Current
<1>1. ASSUME NEW c \in Clients, User(c) PROVE TypeInv'
  BY <1>1 DEF User, Leave, Close, Crash, tableVars, semVars, cmdVars, iqVars, txVars
<1>2. ASSUME NEW c \in Clients, Accept(c) PROVE TypeInv'
  BY <1>2 DEF Accept, semVars, cmdVars, iqVars, txVars
<1>3. ASSUME NEW c \in Clients, RecvEof(c) PROVE TypeInv'
  <2>1. CASE HeldBy(c) = {} /\ Begin("eofRemove", c, NoChannel)
    BY <1>3, <2>1 DEF RecvEof, Begin, userVars, tableVars, iqVars, txVars
  <2>2. ASSUME NEW ch \in HeldBy(c), Begin("eofCount", c, ch) PROVE TypeInv'
    BY <1>3, <2>2 DEF RecvEof, Begin, HeldBy, userVars, tableVars, iqVars, txVars
  <2>3. QED BY <1>3, <2>1, <2>2 DEF RecvEof
<1>4. ASSUME NEW c \in Clients, NEW ch \in Channels, RecvStart(c, ch) PROVE TypeInv'
  BY <1>4 DEF RecvStart, Begin, userVars, semVars, iqVars, txVars
<1>5. ASSUME NEW c \in Clients, NEW ch \in Channels, RecvAttach(c, ch) PROVE TypeInv'
  <2>1. txBinding' \in [TxChannels -> Nat]
    BY <1>5 DEF RecvAttach
  <2>2. sess' \in [Uses -> {"idle", "started", "attached", "stopped"}] /\ stopIQ' \in BOOLEAN
    BY <1>5 DEF RecvAttach
  <2>3. UNCHANGED <<up, conn, listed, held, enabled, dspOpen, rx, tx, timers,
                    timerSet, audioCh, semVars, cmdVars, iqVars, txPc, txCh, micServed>>
    BY <1>5 DEF RecvAttach
  <2>4. QED BY <2>1, <2>2, <2>3 DEF semVars, cmdVars, iqVars
<1>6. ASSUME NEW c \in Clients, NEW ch \in Channels, EnableAudio(c, ch) PROVE TypeInv'
  BY <1>6 DEF EnableAudio, userVars, semVars, cmdVars, iqVars, txVars
<1>7. ASSUME NEW c \in Clients, NEW ch \in Channels, RecvStop(c, ch) PROVE TypeInv'
  BY <1>7 DEF RecvStop, Begin, userVars, semVars, iqVars, txVars
<1>8. ASSUME StartCount PROVE TypeInv'
  BY <1>8 DEF StartCount, Goto, userVars, semVars, iqVars, txVars
<1>9. ASSUME StartLaunch PROVE TypeInv'
  BY <1>9 DEF StartLaunch, Done, Begin, semVars, iqVars, txVars
<1>10. ASSUME StopCount PROVE TypeInv'
  BY <1>10 DEF StopCount, CountDown, Goto, userVars, semVars, iqVars, txVars
<1>11. ASSUME StopClose PROVE TypeInv'
  BY <1>11 DEF StopClose, Goto, userVars, iqVars, txVars
<1>12. ASSUME StopDisable PROVE TypeInv'
  BY <1>12 DEF StopDisable, Goto, userVars, iqVars, txVars
<1>13. ASSUME StopFlag PROVE TypeInv'
  BY <1>13 DEF StopFlag, Done, Begin, semVars, iqVars, txVars
<1>14. ASSUME EofCount PROVE TypeInv'
  BY <1>14 DEF EofCount, CountDown, Goto, userVars, semVars, iqVars, txVars
<1>15. ASSUME EofRemove PROVE TypeInv'
  <2>1. sess' \in [Uses -> {"idle", "started", "attached", "stopped"}]
    BY <1>15 DEF EofRemove
  <2>2. conn' \in [Clients -> {"away", "connected", "leaving", "gone"}]
    BY <1>15 DEF EofRemove
  <2>3. listed' \subseteq Clients /\ enabled' \subseteq Channels /\ dspOpen' \subseteq Channels
    BY <1>15 DEF EofRemove
  <2>4. cmdPc' = "idle" /\ cmdClient' = NoClient /\ cmdCh' = NoChannel
    BY <1>15 DEF EofRemove, Done, Begin
  <2>5. bevSem' \in Nat
    BY <1>15 DEF EofRemove
  <2>6. UNCHANGED <<up, held, rx, tx, timers, timerSet, audioCh, stopIQ, iqSem,
                    iqPc, iqCh, txBinding, txPc, txCh, micServed>>
    BY <1>15 DEF EofRemove, iqVars, txVars
  <2>7. QED BY <2>1, <2>2, <2>3, <2>4, <2>5, <2>6
<1>16. ASSUME NEW t \in IqThreads, IqThread(t) PROVE TypeInv'
  BY SMTT(30), <1>16 DEF IqThread, IqStop, IqPacket, IqEnter, IqAudio, IqLeave, IqExit,
               userVars, tableVars, semVars, cmdVars, txVars
<1>17. ASSUME NEW ch \in TxChannels, TxBind(ch) PROVE TypeInv'
  <2>1. up' \in BOOLEAN
    BY <1>17 DEF TxBind
  <2>2. txBinding' \in [TxChannels -> Nat]
    BY <1>17 DEF TxBind
  <2>3. /\ txPc' \in {"none", "top", "poll", "mic", "modulate", "modulating", "served"}
        /\ txCh' \in TxChannels \cup {NoChannel}
    BY <1>17 DEF TxBind
  <2>4. UNCHANGED <<userVars, tableVars, semVars, cmdVars, iqVars, micServed>>
    BY <1>17 DEF TxBind
  <2>5. QED
    BY <2>1, <2>2, <2>3, <2>4 DEF userVars, tableVars, semVars, cmdVars, iqVars
<1>18. ASSUME TxThread PROVE TypeInv'
  BY <1>18 DEF TxThread, TxTop, TxPoll, TxIdle, TxPick, TxModulate, TxModulated, TxServed,
               TxExit, userVars, tableVars, semVars, cmdVars, iqVars
<1>19. CASE UNCHANGED vars
  BY <1>19 DEF vars, userVars, tableVars, semVars, cmdVars, iqVars, txVars
<1>20. QED
  BY <1>1, <1>2, <1>3, <1>4, <1>5, <1>6, <1>7, <1>8, <1>9, <1>10, <1>11, <1>12,
     <1>13, <1>14, <1>15, <1>16, <1>17, <1>18, <1>19
  DEF Next, Receive, Continue

\* The type invariant: every variable of the server's channel tables, threads
\* and semaphores stays in its range, and no semaphore count goes negative.
THEOREM TypeCorrect == Spec => []TypeOK
<1>1. TypeInv => TypeOK BY DEF TypeInv
<1>2. QED BY <1>1, InitTypeInv, NextTypeInv, PTL DEF Spec
----------------------------------------------------------------------------
(* The permits of iq_semaphore *)

LEMMA InsideFinite == IsFiniteSet(Inside)
  BY BoundsAssumption, FS_Subset DEF Inside

LEMMA InsideFinitePrimed == IsFiniteSet(Inside')
  BY BoundsAssumption, FS_Subset DEF Inside

LEMMA NextConservation ==
  TypeInv /\ IqConservation /\ [Next]_vars => IqConservation'
<1> SUFFICES ASSUME TypeInv, IqConservation, [Next]_vars PROVE IqConservation'
  OBVIOUS
<1> DEFINE n == Cardinality(Inside)
<1>0. n \in Nat /\ iqSem \in Nat /\ micServed \in Nat
  BY InsideFinite, FS_CardinalityType DEF TypeInv, TypeOK
<1>1. ASSUME UNCHANGED <<iqSem, iqPc, txPc, micServed>> PROVE IqConservation'
  BY <1>1 DEF IqConservation, Inside
<1>2. ASSUME NEW t \in IqThreads, IqThread(t) PROVE IqConservation'
  <2>0. UNCHANGED <<txPc, micServed>>
    BY <1>2 DEF IqThread, IqStop, IqPacket, IqEnter, IqAudio, IqLeave, txVars
  <2>1. CASE UNCHANGED iqSem /\ Inside' = Inside
    BY <2>0, <2>1 DEF IqConservation
  <2>2. CASE iqSem' = iqSem - 1 /\ t \notin Inside /\ Inside' = Inside \cup {t}
    <3>1. Cardinality(Inside') = n + 1
      BY <2>2, InsideFinite, FS_AddElement
    <3>2. QED BY <3>1, <2>0, <2>2, <1>0 DEF IqConservation
  <2>3. CASE iqSem' = iqSem + 1 /\ t \in Inside /\ Inside' = Inside \ {t}
    <3>1. Cardinality(Inside') = n - 1
      BY <2>3, InsideFinite, FS_RemoveElement
    <3>2. QED BY <3>1, <2>0, <2>3, <1>0 DEF IqConservation
  <2>4. CASE IqStop(t) \/ IqPacket(t) \/ IqAudio(t)
    BY <2>4, <2>1 DEF IqStop, IqPacket, IqAudio, IqExit, Inside, semVars, TypeInv, TypeOK
  <2>5. CASE IqEnter(t)
    BY <2>5, <2>1, <2>2 DEF IqEnter, IqExit, Inside, TypeInv, TypeOK
  <2>6. CASE IqLeave(t)
    BY <2>6, <2>3 DEF IqLeave, Inside, TypeInv, TypeOK
  <2>7. QED BY <1>2, <2>4, <2>5, <2>6 DEF IqThread
<1>3. ASSUME TxThread PROVE IqConservation'
  <2>1. Inside' = Inside
    BY <1>3 DEF TxThread, TxTop, TxPoll, TxIdle, TxPick, TxModulate, TxModulated,
                TxServed, iqVars, Inside
  <2>2. \/ /\ iqSem' = iqSem /\ micServed' = micServed
           /\ txPc' = "modulating" <=> txPc = "modulating"
        \/ /\ iqSem' = iqSem - 1 /\ micServed' = micServed
           /\ txPc # "modulating" /\ txPc' = "modulating"
        \/ /\ iqSem' = iqSem + 1 /\ micServed' = micServed
           /\ txPc = "modulating" /\ txPc' # "modulating"
        \/ /\ iqSem' = iqSem + 1 /\ micServed' = micServed + 1
           /\ txPc # "modulating" /\ txPc' # "modulating"
    BY <1>3 DEF TxThread, TxTop, TxPoll, TxIdle, TxPick, TxModulate, TxModulated,
                TxServed, TxExit, semVars
  <2>3. Cardinality(Inside') = n
    BY <2>1
  <2>4. QED BY <2>2, <2>3, <1>0 DEF IqConservation
<1>4. ASSUME NEW ch \in TxChannels, TxBind(ch) PROVE IqConservation'
  BY <1>4, <1>0 DEF TxBind, IqConservation, Inside, semVars, iqVars
<1>5. ASSUME NEW c \in Clients, User(c) \/ Receive(c) PROVE IqConservation'
  BY <1>5, <1>1 DEF User, Leave, Close, Crash, Receive, Accept, RecvEof, RecvStart,
       RecvAttach, EnableAudio, RecvStop, semVars, iqVars, txVars
<1>6. ASSUME Continue PROVE IqConservation'
  <2>1. CASE StartLaunch
    <3>1. UNCHANGED <<iqSem, txPc, micServed>>
      BY <2>1 DEF StartLaunch, semVars, txVars
    <3>2. Inside' = Inside
      BY <2>1 DEF StartLaunch, Inside, iqVars, TypeInv, TypeOK
    <3>3. QED BY <3>1, <3>2 DEF IqConservation
  <2>2. CASE ~StartLaunch
    BY <1>6, <2>2, <1>1 DEF Continue, StartCount, StopCount, StopClose, StopDisable,
         StopFlag, EofCount, EofRemove, semVars, iqVars, txVars
  <2>3. QED BY <2>1, <2>2
<1>7. CASE UNCHANGED vars
  BY <1>7, <1>1 DEF vars, semVars, iqVars, txVars
<1>8. QED
  BY <1>2, <1>3, <1>4, <1>5, <1>6, <1>7 DEF Next

\* The permits of iq_semaphore: what is free plus what is taken is one, plus one
\* for every microphone block served.
THEOREM SemaphoreConservation == Spec => []IqConservation
<1>1. Init => IqConservation
  <2> SUFFICES ASSUME Init PROVE IqConservation
    OBVIOUS
  <2>1. Inside = {}
    BY DEF Init, Inside
  <2>2. Cardinality(Inside) = 0
    BY <2>1, FS_EmptySet
  <2>3. QED BY <2>2 DEF Init, IqConservation
<1>2. QED BY <1>1, InitTypeInv, NextTypeInv, NextConservation, PTL DEF Spec
----------------------------------------------------------------------------
(* Who holds what: the strengthening of the activity counts.  A channel       *)
(* stopped without ever being started breaks the counts, so this part         *)
(* assumes that clients do no such thing.                                     *)

NothingUnstarted == Unstarted = {}

\* What the command thread knows of the pair it works on.
CommandHolds ==
  /\ cmdPc = "startCount" => Current \notin held /\ sess[Current] = "idle"
  /\ cmdPc = "startLaunch" => Current \in held /\ sess[Current] = "idle"
  /\ cmdPc \in {"stopCount", "stopClose"} => Current \in held /\ sess[Current] = "attached"
  /\ cmdPc \in {"stopDisable", "stopFlag"} => Current \notin held /\ sess[Current] = "attached"
  /\ cmdPc \in {"eofCount", "eofWait"} => Current \in held
  /\ cmdPc = "eofRemove" => \A u \in held : u[1] # cmdClient
  /\ cmdPc # "idle" => cmdClient \in listed

\* The server's marks and the clients' sessions agree outside those windows.
SessionHolds ==
  \A u \in Uses :
    /\ u \in held => \/ sess[u] \in {"started", "attached"}
                     \/ u = Current /\ cmdPc = "startLaunch"
    /\ sess[u] \in {"started", "attached"} =>
         u \in held \/ (u = Current /\ cmdPc \in {"stopDisable", "stopFlag"})

\* A client that has begun to stop its channels had attached all of them.
LeavingHolds ==
  \A u \in Uses : conn[u[1]] = "leaving" => sess[u] \in {"attached", "stopped"}

HeldListed == \A u \in held : u[1] \in listed

AwayUnlisted == \A c \in Clients : conn[c] = "away" => c \notin listed

HoldInv == CommandHolds /\ SessionHolds /\ LeavingHolds /\ HeldListed /\ AwayUnlisted

LEMMA InitHoldInv == Init => HoldInv
  BY UsesAssumption DEF Init, HoldInv, CommandHolds, SessionHolds, LeavingHolds, HeldListed,
     AwayUnlisted

LEMMA NextHoldInv ==
  NothingUnstarted /\ TypeInv /\ HoldInv /\ [Next]_vars => HoldInv'
<1> SUFFICES ASSUME NothingUnstarted, TypeInv, HoldInv, [Next]_vars PROVE HoldInv'
  OBVIOUS
<1>0. /\ \A u \in Uses : u = <<u[1], u[2]>> /\ u[1] \in Clients /\ u[2] \in Channels
      /\ held \subseteq Uses
  BY UsesAssumption DEF TypeInv, TypeOK
<1> USE <1>0 DEF HoldInv, TypeInv, TypeOK, CmdOK, CommandHolds, SessionHolds, LeavingHolds,
                HeldListed, AwayUnlisted, Current
<1>1. ASSUME NEW c \in Clients, User(c) PROVE HoldInv'
  BY <1>1 DEF User, Leave, Close, Crash, NothingUnstarted, tableVars, cmdVars
<1>2. ASSUME NEW c \in Clients, Accept(c) PROVE HoldInv'
  BY <1>2 DEF Accept, cmdVars
<1>3. ASSUME NEW c \in Clients, RecvEof(c) PROVE HoldInv'
  <2>1. CASE HeldBy(c) = {} /\ Begin("eofRemove", c, NoChannel)
    BY <1>3, <2>1 DEF RecvEof, Begin, Ready, HeldBy, userVars, tableVars
  <2>2. ASSUME NEW ch \in HeldBy(c), Begin("eofCount", c, ch) PROVE HoldInv'
    BY <1>3, <2>2 DEF RecvEof, Begin, Ready, HeldBy, userVars, tableVars
  <2>3. QED BY <1>3, <2>1, <2>2 DEF RecvEof
<1>4. ASSUME NEW c \in Clients, NEW ch \in Channels, RecvStart(c, ch) PROVE HoldInv'
  BY <1>4 DEF RecvStart, Begin, Ready, userVars
<1>5. ASSUME NEW c \in Clients, NEW ch \in Channels, RecvAttach(c, ch) PROVE HoldInv'
  BY <1>5 DEF RecvAttach, Ready, cmdVars
<1>6. ASSUME NEW c \in Clients, NEW ch \in Channels, EnableAudio(c, ch) PROVE HoldInv'
  BY <1>6 DEF EnableAudio, userVars, cmdVars
<1>7. ASSUME NEW c \in Clients, NEW ch \in Channels, RecvStop(c, ch) PROVE HoldInv'
  BY <1>7 DEF RecvStop, Begin, Ready, userVars
<1>8. ASSUME StartCount PROVE HoldInv'
  BY <1>8 DEF StartCount, Goto, userVars
<1>9. ASSUME StartLaunch PROVE HoldInv'
  BY <1>9 DEF StartLaunch, Done, Begin
<1>10. ASSUME StopCount \/ EofCount PROVE HoldInv'
  BY <1>10 DEF StopCount, EofCount, Goto, userVars
<1>11. ASSUME StopClose PROVE HoldInv'
  BY <1>11 DEF StopClose, Goto, userVars
<1>12. ASSUME StopDisable PROVE HoldInv'
  BY <1>12 DEF StopDisable, Goto, userVars
<1>13. ASSUME StopFlag PROVE HoldInv'
  BY <1>13 DEF StopFlag, Done, Begin
<1>14. ASSUME EofRemove PROVE HoldInv'
  BY <1>14 DEF EofRemove, Done, Begin
<1>15. ASSUME NEW t \in IqThreads, IqThread(t) PROVE HoldInv'
  BY <1>15 DEF IqThread, IqStop, IqPacket, IqEnter, IqAudio, IqLeave,
               userVars, tableVars, cmdVars
<1>16. ASSUME NEW ch \in TxChannels, TxBind(ch) PROVE HoldInv'
  BY <1>16 DEF TxBind, userVars, tableVars, cmdVars
<1>17. ASSUME TxThread PROVE HoldInv'
  BY <1>17 DEF TxThread, TxTop, TxPoll, TxIdle, TxPick, TxModulate, TxModulated, TxServed,
               userVars, tableVars, cmdVars
<1>18. CASE UNCHANGED vars
  BY <1>18 DEF vars, userVars, tableVars, cmdVars
<1>19. QED
  BY <1>1, <1>2, <1>3, <1>4, <1>5, <1>6, <1>7, <1>8, <1>9, <1>10, <1>11, <1>12,
     <1>13, <1>14, <1>15, <1>16, <1>17, <1>18
  DEF Next, Receive, Continue
----------------------------------------------------------------------------
(* The activity counts *)

Counted(kind) == HeldOf(kind) \ CountedDown

LEMMA CountedFinite ==
  ASSUME TypeOK, NEW kind
  PROVE  IsFiniteSet(Counted(kind)) /\ Cardinality(Counted(kind)) \in Nat
<1>1. IsFiniteSet(Clients \X Channels)
  <2>1. IsFiniteSet(Channels)
    BY ChannelsAssumption, FS_Union DEF Channels
  <2>2. QED BY <2>1, ClientsAssumption, FS_Product
<1>2. Counted(kind) \subseteq Clients \X Channels
  BY UsesAssumption DEF Counted, HeldOf, TypeOK
<1>3. IsFiniteSet(Counted(kind))
  BY <1>1, <1>2, FS_Subset
<1>4. QED BY <1>3, FS_CardinalityType

LEMMA NextCounts ==
  NothingUnstarted /\ TypeInv /\ HoldInv /\ ActiveCountsMatch /\ [Next]_vars
    => ActiveCountsMatch'
<1> SUFFICES ASSUME NothingUnstarted, TypeInv, HoldInv, ActiveCountsMatch, [Next]_vars
             PROVE  ActiveCountsMatch'
  OBVIOUS
<1>0. /\ rx = Cardinality(Counted(RxChannels)) /\ tx = Cardinality(Counted(TxChannels))
      /\ TypeOK
      /\ ActiveCountsMatch' <=> /\ rx' = Cardinality(Counted(RxChannels)')
                                /\ tx' = Cardinality(Counted(TxChannels)')
  BY DEF ActiveCountsMatch, Counted, TypeInv
<1>1. ASSUME UNCHANGED <<held, rx, tx>>, CountedDown' = CountedDown
      PROVE  ActiveCountsMatch'
  BY <1>1, <1>0 DEF Counted, HeldOf
<1>2. ASSUME StartCount PROVE ActiveCountsMatch'
  <2>1. Current \in Uses /\ Current \notin held /\ cmdCh \in Channels /\ Current[2] = cmdCh
    BY <1>2, UsesAssumption DEF StartCount, TypeInv, CmdOK, HoldInv, CommandHolds, Current
  <2>2. CountedDown = {} /\ CountedDown' = {} /\ held' = held \cup {Current}
    BY <1>2 DEF StartCount, Goto, CountedDown
  <2>3. /\ cmdCh \in RxChannels => /\ Current \notin Counted(RxChannels)
                                  /\ Counted(RxChannels)' = Counted(RxChannels) \cup {Current}
        /\ cmdCh \notin RxChannels => Counted(RxChannels)' = Counted(RxChannels)
        /\ cmdCh \in TxChannels => /\ Current \notin Counted(TxChannels)
                                  /\ Counted(TxChannels)' = Counted(TxChannels) \cup {Current}
        /\ cmdCh \notin TxChannels => Counted(TxChannels)' = Counted(TxChannels)
    BY <2>1, <2>2 DEF Counted, HeldOf
  <2>4. CASE cmdCh \in RxChannels
    <3>1. cmdCh \notin TxChannels
      BY <2>4, ChannelsAssumption
    <3>2. Cardinality(Counted(RxChannels)') = Cardinality(Counted(RxChannels)) + 1
      <4>1. /\ Current \notin Counted(RxChannels)
            /\ Counted(RxChannels)' = Counted(RxChannels) \cup {Current}
        BY <2>3, <2>4
      <4>2. QED BY <4>1, <1>0, CountedFinite, FS_AddElement
    <3>3. Counted(TxChannels)' = Counted(TxChannels)
      BY <2>3, <3>1
    <3>4. QED BY <1>0, <1>2, <2>4, <3>1, <3>2, <3>3 DEF StartCount
  <2>5. CASE cmdCh \in TxChannels
    <3>1. cmdCh \notin RxChannels
      BY <2>5, ChannelsAssumption
    <3>2. Cardinality(Counted(TxChannels)') = Cardinality(Counted(TxChannels)) + 1
      <4>1. /\ Current \notin Counted(TxChannels)
            /\ Counted(TxChannels)' = Counted(TxChannels) \cup {Current}
        BY <2>3, <2>5
      <4>2. QED BY <4>1, <1>0, CountedFinite, FS_AddElement
    <3>3. Counted(RxChannels)' = Counted(RxChannels)
      BY <2>3, <3>1
    <3>4. QED BY <1>0, <1>2, <2>5, <3>1, <3>2, <3>3 DEF StartCount
  <2>6. QED BY <2>1, <2>4, <2>5 DEF Channels
<1>3. ASSUME StopCount \/ EofCount PROVE ActiveCountsMatch'
  <2>1. Current \in Uses /\ Current \in held /\ cmdCh \in Channels /\ Current[2] = cmdCh
    BY <1>3, UsesAssumption DEF StopCount, EofCount, TypeInv, CmdOK, HoldInv, CommandHolds, Current
  <2>2. CountedDown = {} /\ CountedDown' = {Current} /\ held' = held
    BY <1>3 DEF StopCount, EofCount, Goto, CountedDown, Current
  <2>3. /\ cmdCh \in RxChannels => /\ Current \in Counted(RxChannels)
                                  /\ Counted(RxChannels)' = Counted(RxChannels) \ {Current}
        /\ cmdCh \notin RxChannels => Counted(RxChannels)' = Counted(RxChannels)
        /\ cmdCh \in TxChannels => /\ Current \in Counted(TxChannels)
                                  /\ Counted(TxChannels)' = Counted(TxChannels) \ {Current}
        /\ cmdCh \notin TxChannels => Counted(TxChannels)' = Counted(TxChannels)
    BY <2>1, <2>2 DEF Counted, HeldOf
  <2>4. CASE cmdCh \in RxChannels
    <3>1. cmdCh \notin TxChannels
      BY <2>4, ChannelsAssumption
    <3>2. Cardinality(Counted(RxChannels)') = Cardinality(Counted(RxChannels)) - 1
      <4>1. /\ Current \in Counted(RxChannels)
            /\ Counted(RxChannels)' = Counted(RxChannels) \ {Current}
        BY <2>3, <2>4
      <4>2. QED BY <4>1, <1>0, CountedFinite, FS_RemoveElement
    <3>3. Counted(TxChannels)' = Counted(TxChannels)
      BY <2>3, <3>1
    <3>4. QED BY <1>0, <1>3, <2>4, <3>1, <3>2, <3>3 DEF StopCount, EofCount, CountDown
  <2>5. CASE cmdCh \in TxChannels
    <3>1. cmdCh \notin RxChannels
      BY <2>5, ChannelsAssumption
    <3>2. Cardinality(Counted(TxChannels)') = Cardinality(Counted(TxChannels)) - 1
      <4>1. /\ Current \in Counted(TxChannels)
            /\ Counted(TxChannels)' = Counted(TxChannels) \ {Current}
        BY <2>3, <2>5
      <4>2. QED BY <4>1, <1>0, CountedFinite, FS_RemoveElement
    <3>3. Counted(RxChannels)' = Counted(RxChannels)
      BY <2>3, <3>1
    <3>4. QED BY <1>0, <1>3, <2>5, <3>1, <3>2, <3>3 DEF StopCount, EofCount, CountDown
  <2>6. QED BY <2>1, <2>4, <2>5 DEF Channels
<1>4. ASSUME StopClose PROVE ActiveCountsMatch'
  <2>1. /\ Counted(RxChannels)' = Counted(RxChannels)
        /\ Counted(TxChannels)' = Counted(TxChannels)
    BY <1>4 DEF StopClose, Goto, Counted, HeldOf, CountedDown
  <2>2. QED BY <1>4, <2>1, <1>0 DEF StopClose
<1>5. ASSUME NEW c \in Clients, User(c) \/ Receive(c) PROVE ActiveCountsMatch'
  BY <1>1, <1>5 DEF User, Leave, Close, Crash, Receive, Accept, RecvEof, RecvStart, RecvAttach,
       EnableAudio, RecvStop, Ready, Begin, CountedDown, tableVars, cmdVars, Current
<1>6. ASSUME StartLaunch \/ StopDisable \/ StopFlag \/ EofRemove PROVE ActiveCountsMatch'
  BY <1>1, <1>6 DEF StartLaunch, StopDisable, StopFlag, EofRemove, Done, Begin, Goto, CountedDown
<1>7. ASSUME NEW t \in IqThreads, IqThread(t) PROVE ActiveCountsMatch'
  BY <1>1, <1>7 DEF IqThread, IqStop, IqPacket, IqEnter, IqAudio, IqLeave, CountedDown, Current,
       tableVars, cmdVars
<1>8. ASSUME NEW ch \in TxChannels, TxBind(ch) PROVE ActiveCountsMatch'
  BY <1>1, <1>8 DEF TxBind, CountedDown, Current, tableVars, cmdVars
<1>9. ASSUME TxThread PROVE ActiveCountsMatch'
  BY <1>1, <1>9 DEF TxThread, TxTop, TxPoll, TxIdle, TxPick, TxModulate, TxModulated, TxServed,
       CountedDown, Current, tableVars, cmdVars
<1>10. CASE UNCHANGED vars
  BY <1>1, <1>10 DEF vars, CountedDown, Current, tableVars, cmdVars
<1>11. QED
  BY <1>2, <1>3, <1>4, <1>5, <1>6, <1>7, <1>8, <1>9, <1>10 DEF Next, Continue

Inv == TypeInv /\ HoldInv /\ ActiveCountsMatch

LEMMA InitInv == Init => Inv
<1> SUFFICES ASSUME Init PROVE Inv
  OBVIOUS
<1>1. HeldOf(RxChannels) \ CountedDown = {} /\ HeldOf(TxChannels) \ CountedDown = {}
  BY DEF Init, HeldOf, CountedDown
<1>2. ActiveCountsMatch
  BY <1>1, FS_EmptySet DEF Init, ActiveCountsMatch
<1>3. QED BY <1>2, InitTypeInv, InitHoldInv DEF Inv

LEMMA NextInv ==
  ASSUME NothingUnstarted PROVE Inv /\ [Next]_vars => Inv'
  BY NextTypeInv, NextHoldInv, NextCounts DEF Inv

LEMMA InvHolds ==
  ASSUME NothingUnstarted PROVE Spec => []Inv
<1>1. Inv /\ [Next]_vars => Inv'
  BY NextInv
<1>2. QED BY <1>1, InitInv, PTL DEF Spec

\* The activity counts are the channels held, at every moment and for any
\* number of clients, provided clients stop only what they started.
THEOREM CountsCorrect ==
  ASSUME NothingUnstarted PROVE Spec => []ActiveCountsMatch
<1>1. Inv => ActiveCountsMatch
  BY DEF Inv
<1>2. Spec => []Inv
  BY InvHolds
<1>3. QED BY <1>1, <1>2, PTL
----------------------------------------------------------------------------
(* The stop flag *)

\* With nothing counted down, both counts at zero mean nothing is held.
LEMMA ZeroUnheld ==
  ASSUME Inv, rx = 0, tx = 0, CountedDown = {} PROVE held = {}
<1>1. Counted(RxChannels) = {} /\ Counted(TxChannels) = {}
  BY CountedFinite, FS_EmptySet DEF Inv, TypeInv, ActiveCountsMatch, Counted
<1>2. \A u \in held : u[2] \in Channels
  BY UsesAssumption DEF Inv, TypeInv, TypeOK
<1>3. QED BY <1>1, <1>2 DEF Counted, HeldOf, Channels

LEMMA StopFlagUnheld ==
  ASSUME Inv, StopFlag, ~stopIQ, stopIQ' PROVE held = {} /\ held' = {}
<1>1. rx = 0 /\ tx = 0 /\ CountedDown = {} /\ held' = held
  BY DEF StopFlag, CountedDown
<1>2. QED BY <1>1, ZeroUnheld

\* Which step can raise the flag.
LEMMA RaisedByStopFlag ==
  ASSUME TypeInv, [Next]_vars, ~stopIQ, stopIQ' PROVE StopFlag
<1>1. stopIQ' # stopIQ
  <2>1. stopIQ \in BOOLEAN /\ stopIQ' \in BOOLEAN
    BY NextTypeInv DEF TypeInv, TypeOK
  <2>2. QED BY <2>1
<1>2. StopFlag \/ \E c \in Clients, ch \in Channels : RecvAttach(c, ch)
  BY ZenonT(40), <1>1 DEF Next, User, Leave, Close, Crash, Receive, Accept, RecvEof, RecvStart,
     EnableAudio, RecvStop, Continue, StartCount, StartLaunch, StopCount, StopClose,
     StopDisable, EofCount, EofRemove, IqThread, IqStop, IqPacket, IqEnter, IqAudio, IqLeave,
     TxBind, TxThread, TxTop, TxPoll, TxIdle, TxPick, TxModulate, TxModulated, TxServed,
     vars, tableVars
<1>3. QED BY <1>2 DEF RecvAttach

\* The stop flag is raised only in states where nobody holds a channel: the
\* last stop of one client never silences another one.
THEOREM StopOnlyWhenUnheld ==
  ASSUME NothingUnstarted PROVE Spec => StopRaisedOnlyWhenUnheld
<1>1. Inv /\ [Next]_vars => [~stopIQ /\ stopIQ' => held' = {}]_vars
  BY StopFlagUnheld, RaisedByStopFlag DEF Inv
<1>2. Spec => []Inv
  BY InvHolds
<1>3. QED BY <1>1, <1>2, PTL DEF Spec, StopRaisedOnlyWhenUnheld

----------------------------------------------------------------------------
(* The streams of attached receivers *)

FlagDown == \A u \in Uses : sess[u] = "attached" => ~stopIQ

LEMMA NextFlagDown ==
  Inv /\ FlagDown /\ [Next]_vars => FlagDown'
<1> SUFFICES ASSUME Inv, FlagDown, [Next]_vars,
                    NEW u \in Uses, sess'[u] = "attached", stopIQ'
             PROVE  FALSE
  BY DEF FlagDown
<1>1. CASE ~stopIQ
  <2>1. StopFlag /\ held = {}
    BY <1>1, RaisedByStopFlag, StopFlagUnheld DEF Inv
  <2>2. u # Current /\ sess[u] = "attached"
    BY <2>1 DEF StopFlag, Inv, TypeInv, TypeOK
  <2>3. QED BY <2>1, <2>2 DEF Inv, HoldInv, SessionHolds
<1>2. CASE stopIQ
  <2>1. sess[u] # "attached"
    BY <1>2 DEF FlagDown
  <2>2. sess' # sess
    BY <2>1
  <2>3. \/ \E c \in Clients, ch \in Channels : RecvAttach(c, ch)
        \/ StartLaunch \/ StopFlag \/ EofRemove
    BY ZenonT(40), <2>2 DEF Next, User, Leave, Close, Crash, Receive, Accept, RecvEof, RecvStart,
       EnableAudio, RecvStop, Continue, StartCount, StopCount, StopClose,
       StopDisable, EofCount, IqThread, IqStop, IqPacket, IqEnter, IqAudio, IqLeave,
       TxBind, TxThread, TxTop, TxPoll, TxIdle, TxPick, TxModulate, TxModulated, TxServed,
       vars, userVars
  <2>4. CASE StartLaunch \/ StopFlag \/ EofRemove
    BY <2>1, <2>4 DEF StartLaunch, StopFlag, EofRemove, Inv, TypeInv, TypeOK
  <2>5. QED BY <2>3, <2>4 DEF RecvAttach
<1>3. QED BY <1>1, <1>2

LEMMA StreamStep ==
  ASSUME Inv, FlagDown, [Next]_vars, NEW u \in Uses,
         u # Current, sess[u] = "attached", ThreadsOf(u[2]) # {}
  PROVE  ThreadsOf(u[2])' # {}
<1>1. PICK t \in IqThreads : iqPc[t] # "none" /\ iqCh[t] = u[2]
  BY DEF ThreadsOf
<1>2. SUFFICES iqPc'[t] # "none" /\ iqCh'[t] = u[2]
  BY <1>1 DEF ThreadsOf
<1>3. u[2] \in RxChannels /\ ~stopIQ
  BY <1>1, UsesAssumption, ChannelsAssumption DEF Inv, TypeInv, TypeOK, FlagDown, Channels
<1>4. rx # 0
  <2>1. u \in Counted(RxChannels)
    BY <1>3 DEF Counted, HeldOf, CountedDown, Inv, HoldInv, SessionHolds
  <2>2. QED BY <2>1, CountedFinite, FS_EmptySet DEF Inv, TypeInv, ActiveCountsMatch, Counted
<1>5. ASSUME NEW s \in IqThreads, IqThread(s) PROVE iqPc'[t] # "none" /\ iqCh'[t] = u[2]
  BY <1>1, <1>3, <1>4, <1>5
  DEF IqThread, IqStop, IqPacket, IqEnter, IqAudio, IqLeave, Inv, TypeInv, TypeOK
<1>6. CASE StartLaunch
  BY <1>1, <1>6 DEF StartLaunch, iqVars, Inv, TypeInv, TypeOK
<1>7. CASE UNCHANGED iqVars
  BY <1>1, <1>7 DEF iqVars
<1>8. QED
  BY ZenonT(40), <1>5, <1>6, <1>7 DEF Next, User, Leave, Close, Crash, Receive, Accept, RecvEof, RecvStart,
     RecvAttach, EnableAudio, RecvStop, Continue, StartCount, StopCount, StopClose,
     StopDisable, StopFlag, EofCount, EofRemove, TxBind, TxThread, TxTop, TxPoll, TxIdle,
     TxPick, TxModulate, TxModulated, TxServed, vars

\* An attached receiver never loses its last IQ thread to what other clients do.
THEOREM StreamNeverCut ==
  ASSUME NothingUnstarted PROVE Spec => AttachedStreamNeverCut
<1>1. Init => FlagDown
  BY DEF Init, FlagDown
<1>2. Spec => []Inv
  BY InvHolds
<1>3. Inv /\ FlagDown /\ [Next]_vars
        => [\A u \in Uses :
              /\ u # Current /\ sess[u] = "attached" /\ sess'[u] = "attached"
              /\ ThreadsOf(u[2]) # {}
              => ThreadsOf(u[2])' # {}]_vars
  BY StreamStep
<1>4. QED BY <1>1, <1>2, <1>3, NextFlagDown, PTL DEF Spec, AttachedStreamNeverCut

----------------------------------------------------------------------------
(* The abstract promise *)

LEMMA HoldingStep ==
  ASSUME Inv, [Next]_vars PROVE [Holding!Next]_(Holding!vars)
<1> USE DEF Holding!Next, Holding!vars
<1>1. CASE UNCHANGED <<listed, held, stopIQ>>
  BY <1>1
<1>2. ASSUME NEW c \in Clients, Accept(c) PROVE Holding!Join(c)
  BY <1>2 DEF Accept, Holding!Join, Inv, HoldInv, AwayUnlisted
<1>3. ASSUME NEW c \in Clients, NEW ch \in Channels, RecvAttach(c, ch) PROVE Holding!Resume
  <2>1. <<c, ch>> \in held
    BY <1>3 DEF RecvAttach, Ready, Inv, HoldInv, SessionHolds
  <2>2. QED BY <1>3, <2>1 DEF RecvAttach, Holding!Resume
<1>4. CASE StartCount
  <2>1. Current \in Uses /\ Current \notin held /\ cmdClient \in listed
    BY <1>4 DEF StartCount, Inv, TypeInv, CmdOK, HoldInv, CommandHolds
  <2>2. Holding!Acquire(Current)
    BY <1>4, <2>1 DEF StartCount, Holding!Acquire, Current
  <2>3. QED BY <2>1, <2>2
<1>5. CASE StopClose
  <2>1. Current \in Uses /\ Current \in held
    BY <1>5 DEF StopClose, Inv, TypeInv, CmdOK, HoldInv, CommandHolds
  <2>2. Holding!Release(Current)
    BY <1>5, <2>1 DEF StopClose, Holding!Release
  <2>3. QED BY <2>1, <2>2
<1>6. CASE StopFlag
  <2>1. CASE stopIQ' = stopIQ
    BY <1>6, <2>1, <1>1 DEF StopFlag
  <2>2. CASE ~stopIQ /\ stopIQ'
    BY <1>6, <2>2, StopFlagUnheld DEF StopFlag, Holding!Halt
  <2>3. QED BY <1>6, <2>1, <2>2 DEF StopFlag, Inv, TypeInv, TypeOK
<1>7. CASE EofRemove
  <2>1. cmdClient \in Clients /\ cmdClient \in listed /\ \A u \in held : u[1] # cmdClient
    BY <1>7 DEF EofRemove, Inv, HoldInv, CommandHolds, TypeInv, TypeOK
  <2>2. Holding!Leave(cmdClient)
    BY <1>7, <2>1 DEF EofRemove, Holding!Leave
  <2>3. QED BY <2>1, <2>2
<1>8. QED
  BY ZenonT(40), <1>1, <1>2, <1>3, <1>4, <1>5, <1>6, <1>7
  DEF Next, User, Leave, Close, Crash, Receive, RecvEof, RecvStart,
     EnableAudio, RecvStop, Continue, StartCount, StartLaunch, StopCount,
     StopDisable, EofCount, IqThread, IqStop, IqPacket, IqEnter, IqAudio, IqLeave,
     TxBind, TxThread, TxTop, TxPoll, TxIdle, TxPick, TxModulate, TxModulated, TxServed,
     vars, tableVars

\* The channel life cycle, threads and semaphores included, implements
\* ChannelHolding.
THEOREM Implementation ==
  ASSUME NothingUnstarted PROVE Spec => ImplementsHolding
<1>1. Init => Holding!Init
  BY DEF Init, Holding!Init
<1>2. Spec => []Inv
  BY InvHolds
<1>3. QED BY <1>1, <1>2, HoldingStep, PTL DEF Spec, ImplementsHolding, Holding!Spec
----------------------------------------------------------------------------
(* One writer of the audio buffer *)

\* Two threads inside are at least two permits taken.
LEMMA TwoInside ==
  ASSUME NEW s \in Inside, NEW t \in Inside, s # t
  PROVE  Cardinality(Inside) >= 2
<1>1. IsFiniteSet({s}) /\ Cardinality({s}) = 1
  BY FS_Singleton
<1>2. IsFiniteSet({s} \cup {t}) /\ Cardinality({s} \cup {t}) = 2
  BY <1>1, FS_AddElement
<1>3. {s} \cup {t} \in SUBSET Inside
  OBVIOUS
<1>4. Cardinality({s} \cup {t}) <= Cardinality(Inside)
  BY <1>3, InsideFinite, FS_Subset
<1>5. Cardinality(Inside) \in Nat
  BY InsideFinite, FS_CardinalityType
<1>6. QED BY <1>2, <1>4, <1>5

\* Until the first microphone block has been served, iq_semaphore is a lock and
\* the audio buffer has one writer, whatever the threads and the clients do.
THEOREM WriterUntilMicrophone ==
  Spec => [](micServed = 0 => AudioSingleWriter)
<1>1. TypeInv /\ IqConservation => (micServed = 0 => AudioSingleWriter)
  <2> SUFFICES ASSUME TypeInv, IqConservation, micServed = 0,
                      NEW s \in IqThreads, NEW t \in IqThreads,
                      iqPc[s] = "audio", iqPc[t] = "audio", s # t
               PROVE  FALSE
    BY DEF AudioSingleWriter
  <2>1. Cardinality(Inside) >= 2
    BY TwoInside DEF Inside
  <2>2. Cardinality(Inside) \in Nat /\ iqSem \in Nat
    BY InsideFinite, FS_CardinalityType DEF TypeInv, TypeOK
  <2>3. QED BY <2>1, <2>2 DEF IqConservation
<1>2. QED BY <1>1, InitTypeInv, NextTypeInv, SemaphoreConservation, PTL DEF Spec

----------------------------------------------------------------------------
(* No channel and no timer is left behind.  The DSP library's channel is open *)
(* from before the channel is enabled until it is about to be disabled; and a *)
(* timer that timer_delete can name exists from the launch to the stop, if no *)
(* two clients use one channel: of a second timer the first is forgotten.     *)

\* No channel is used by two clients.
ChannelsApart == \A u, v \in Uses : u[2] = v[2] => u = v

StartOpens == cmdPc = "startCount" => cmdCh \in dspOpen

EnabledHeld ==
  \A ch \in enabled :
    \/ cmdPc = "stopDisable" /\ cmdCh = ch
    \/ ch \in dspOpen /\ \E c \in listed : <<c, ch>> \in held

\* The holding of u has its timer.
Timed(u) == u \in held /\ ~(u = Current /\ cmdPc \in {"startLaunch", "stopCount", "stopClose"})

TimersKept ==
  /\ \A u \in Uses : /\ timers[u[2]] = IF Timed(u) THEN 1 ELSE 0
                     /\ timerSet[u[2]] = Timed(u)
  /\ \A ch \in Channels : (\A u \in Uses : u[2] # ch) => timers[ch] = 0

LEMMA NextEnabledHeld ==
  Inv /\ StartOpens /\ EnabledHeld /\ [Next]_vars => (StartOpens /\ EnabledHeld)'
<1> SUFFICES ASSUME Inv, StartOpens, EnabledHeld, [Next]_vars
             PROVE  StartOpens' /\ EnabledHeld'
  OBVIOUS
<1> USE DEF StartOpens, EnabledHeld, Current
<1>1. CASE UNCHANGED <<cmdVars, listed, held, enabled, dspOpen>>
  BY <1>1 DEF cmdVars
<1>2. ASSUME NEW c \in Clients, Accept(c) PROVE StartOpens' /\ EnabledHeld'
  BY <1>2 DEF Accept, cmdVars
<1>3. ASSUME NEW c \in Clients, RecvEof(c) PROVE StartOpens' /\ EnabledHeld'
  BY <1>3 DEF RecvEof, Ready, Begin, tableVars
<1>4. ASSUME NEW c \in Clients, NEW ch \in Channels, RecvStart(c, ch) \/ RecvStop(c, ch)
      PROVE  StartOpens' /\ EnabledHeld'
  BY <1>4 DEF RecvStart, RecvStop, Ready, Begin
<1>5. CASE StartCount
  <2>1. cmdClient \in listed
    BY <1>5 DEF StartCount, Inv, HoldInv, CommandHolds
  <2>2. QED BY <1>5, <2>1 DEF StartCount, Goto
<1>6. CASE StartLaunch \/ StopCount \/ StopFlag \/ EofCount
  BY <1>6 DEF StartLaunch, StopCount, StopFlag, EofCount, Done, Begin, Goto
<1>7. CASE StopClose
  BY <1>7 DEF StopClose, Goto
<1>8. CASE StopDisable
  BY <1>8 DEF StopDisable, Goto
<1>9. CASE EofRemove
  <2>1. \A u \in held : u[1] # cmdClient
    BY <1>9 DEF EofRemove, Inv, HoldInv, CommandHolds
  <2>2. \A c : \A ch : <<c, ch>> \in held => c # cmdClient
    BY <2>1
  <2>3. QED BY <1>9, <2>2 DEF EofRemove, Done, Begin
<1>10. QED
  BY ZenonT(40), <1>1, <1>2, <1>3, <1>4, <1>5, <1>6, <1>7, <1>8, <1>9
  DEF Next, User, Leave, Close, Crash, Receive, RecvAttach, EnableAudio, Continue,
     IqThread, IqStop, IqPacket, IqEnter, IqAudio, IqLeave,
     TxBind, TxThread, TxTop, TxPoll, TxIdle, TxPick, TxModulate, TxModulated, TxServed,
     vars, tableVars

LEMMA NextTimersKept ==
  ASSUME NothingUnstarted, ChannelsApart
  PROVE  Inv /\ TimersKept /\ [Next]_vars => TimersKept'
<1> SUFFICES ASSUME Inv, TimersKept, [Next]_vars PROVE TimersKept'
  OBVIOUS
<1>0. /\ \A u \in Uses : u = <<u[1], u[2]>> /\ u[1] \in Clients /\ u[2] \in Channels
      /\ timers \in [Channels -> Int] /\ timerSet \in [Channels -> BOOLEAN]
      /\ held \subseteq Uses
  BY UsesAssumption DEF Inv, TypeInv, TypeOK
<1> USE <1>0
<1>1. ASSUME UNCHANGED <<timers, timerSet>>, \A u \in Uses : Timed(u)' = Timed(u)
      PROVE  TimersKept'
  BY <1>1 DEF TimersKept
<1>2. CASE UNCHANGED <<cmdVars, held, timers, timerSet>>
  BY <1>1, <1>2 DEF cmdVars, Timed, Current
<1>3. ASSUME NEW c \in Clients, RecvEof(c) PROVE TimersKept'
  BY <1>1, <1>3 DEF RecvEof, Ready, Begin, tableVars, Timed
<1>4. ASSUME NEW c \in Clients, NEW ch \in Channels, RecvStart(c, ch) PROVE TimersKept'
  BY <1>1, <1>4 DEF RecvStart, Ready, Begin, Timed
<1>5. ASSUME NEW c \in Clients, NEW ch \in Channels, RecvStop(c, ch) PROVE TimersKept'
  <2> DEFINE v == <<c, ch>>
  <2>1. v \in Uses /\ v \in held /\ v[2] = ch
    BY <1>5 DEF RecvStop, Ready, Inv, HoldInv, SessionHolds, LeavingHolds
  <2>2. Timed(v) /\ timers[ch] = 1 /\ timerSet[ch]
    BY <1>5, <2>1 DEF RecvStop, Ready, Timed, TimersKept
  <2>3. /\ timers' = [timers EXCEPT ![ch] = 0] /\ timerSet' = [timerSet EXCEPT ![ch] = FALSE]
        /\ held' = held /\ Current' = v /\ cmdPc' = "stopCount" /\ cmdPc = "idle"
    BY <1>5, <2>2 DEF RecvStop, Ready, Begin, Current
  <2>4. \A u \in Uses : u = v => ~Timed(u)'
    BY <2>3 DEF Timed
  <2>5. \A u \in Uses : u # v => u[2] # ch /\ Timed(u)' = Timed(u)
    BY <2>1, <2>3 DEF Timed, ChannelsApart
  <2>6. ch \in Channels /\ timers'[ch] = 0 /\ timerSet'[ch] = FALSE
    BY <2>3
  <2>7. ASSUME NEW u \in Uses
        PROVE  timers'[u[2]] = (IF Timed(u)' THEN 1 ELSE 0) /\ timerSet'[u[2]] = Timed(u)'
    <3>1. CASE u = v
      <4>1. u[2] = ch
        BY <2>1, <3>1
      <4>2. timers'[u[2]] = 0 /\ timerSet'[u[2]] = FALSE
        BY <2>6, <4>1
      <4>3. Timed(u)' = FALSE
        BY <2>4, <3>1
      <4> QED BY <4>2, <4>3
    <3>2. CASE u # v
      BY <2>3, <2>5, <3>2 DEF TimersKept
    <3> QED BY <3>1, <3>2
  <2>8. ASSUME NEW k \in Channels, \A u \in Uses : u[2] # k PROVE timers'[k] = 0
    BY <2>1, <2>3, <2>8 DEF TimersKept
  <2>9. QED BY <2>7, <2>8 DEF TimersKept
<1>6. CASE StartCount
  <2>1. Current \notin held
    BY <1>6 DEF StartCount, Inv, HoldInv, CommandHolds
  <2>2. \A u \in Uses : Timed(u)' = Timed(u)
    BY <1>6, <2>1 DEF StartCount, Goto, Timed, Current
  <2>3. QED BY <1>1, <1>6, <2>2 DEF StartCount
<1>7. CASE StartLaunch
  <2>1. Current \in Uses /\ Current \in held /\ Current[2] = cmdCh
    BY <1>7 DEF StartLaunch, Inv, TypeInv, CmdOK, HoldInv, CommandHolds, Current
  <2>2. ~Timed(Current) /\ timers[cmdCh] = 0
    BY <1>7, <2>1 DEF StartLaunch, Timed, TimersKept
  <2>3. /\ timers' = [timers EXCEPT ![cmdCh] = 1] /\ timerSet' = [timerSet EXCEPT ![cmdCh] = TRUE]
        /\ held' = held /\ cmdPc' = "idle" /\ cmdPc = "startLaunch"
    BY <1>7, <2>2 DEF StartLaunch, Done, Begin
  <2>4. \A u \in Uses : (u \in held => Timed(u)') /\ (u # Current => Timed(u)' = Timed(u))
    BY <2>3 DEF Timed
  <2>5. \A u \in Uses : u # Current => u[2] # cmdCh
    BY <2>1 DEF ChannelsApart
  <2>6. ASSUME NEW u \in Uses
        PROVE  timers'[u[2]] = (IF Timed(u)' THEN 1 ELSE 0) /\ timerSet'[u[2]] = Timed(u)'
    <3>1. CASE u = Current
      BY <2>1, <2>3, <2>4, <3>1
    <3>2. CASE u # Current
      BY <2>3, <2>4, <2>5, <3>2 DEF TimersKept
    <3> QED BY <3>1, <3>2
  <2>7. QED BY <2>1, <2>3, <2>6 DEF TimersKept
<1>8. CASE StopCount \/ EofCount
  BY <1>1, <1>8 DEF StopCount, EofCount, Goto, Timed, Current
<1>9. CASE StopClose
  <2>1. \A u \in Uses : Timed(u)' = Timed(u)
    BY <1>9 DEF StopClose, Goto, Timed, Current
  <2>2. QED BY <1>1, <1>9, <2>1 DEF StopClose
<1>10. CASE StopDisable \/ StopFlag \/ EofRemove
  BY <1>1, <1>10 DEF StopDisable, StopFlag, EofRemove, Done, Begin, Goto, Timed, Current
<1>11. QED
  BY ZenonT(40), <1>2, <1>3, <1>4, <1>5, <1>6, <1>7, <1>8, <1>9, <1>10
  DEF Next, User, Leave, Close, Crash, Receive, Accept, RecvAttach, EnableAudio, Continue,
     IqThread, IqStop, IqPacket, IqEnter, IqAudio, IqLeave,
     TxBind, TxThread, TxTop, TxPoll, TxIdle, TxPick, TxModulate, TxModulated, TxServed,
     vars, tableVars

\* Nobody counts a timer twice: on a channel of one client there is one holding.
LEMMA OwnedByCount ==
  ASSUME ChannelsApart PROVE Inv /\ EnabledHeld /\ TimersKept => ChannelsOwned
<1> SUFFICES ASSUME Inv, TimersKept, NEW ch \in Channels
             PROVE  timers[ch] = Cardinality({u \in held : u[2] = ch /\
                      ~(u = Current /\ cmdPc \in {"startLaunch", "stopCount", "stopClose"})})
  BY DEF ChannelsOwned, EnabledHeld
<1> DEFINE S == {u \in held : u[2] = ch /\
                   ~(u = Current /\ cmdPc \in {"startLaunch", "stopCount", "stopClose"})}
<1>1. S = {u \in Uses : u[2] = ch /\ Timed(u)}
  BY DEF Timed, Inv, TypeInv, TypeOK
<1>2. CASE \E u \in Uses : u[2] = ch /\ Timed(u)
  <2>1. PICK u \in Uses : u[2] = ch /\ Timed(u)
    BY <1>2
  <2>2. S = {u}
    BY <1>1, <2>1 DEF ChannelsApart
  <2>3. timers[ch] = 1
    BY <2>1 DEF TimersKept
  <2>4. QED BY <2>2, <2>3, FS_Singleton
<1>3. CASE \A u \in Uses : u[2] = ch => ~Timed(u)
  <2>1. S = {}
    BY <1>1, <1>3
  <2>2. timers[ch] = 0
    BY <1>3 DEF TimersKept
  <2>3. QED BY <2>1, <2>2, FS_EmptySet
<1>4. QED BY <1>2, <1>3

\* No order of starts, stops, departures and disconnects leaves a channel running
\* that no listed client holds, or a timer nobody can delete, as long as clients
\* stop what they started and have channels of their own.
THEOREM NothingLeftBehind ==
  ASSUME NothingUnstarted, ChannelsApart PROVE Spec => []ChannelsOwned
<1>1. Init => StartOpens /\ EnabledHeld /\ TimersKept
  BY UsesAssumption, ZenonT(60) DEF Init, StartOpens, EnabledHeld, TimersKept, Timed
<1>2. Inv /\ TimersKept /\ [Next]_vars => TimersKept'
  BY NextTimersKept
<1>3. Inv /\ EnabledHeld /\ TimersKept => ChannelsOwned
  BY OwnedByCount
<1>4. Spec => []Inv
  BY InvHolds
<1>5. QED BY <1>1, <1>2, <1>3, <1>4, NextEnabledHeld, PTL DEF Spec
----------------------------------------------------------------------------
(* Where the command thread can be stuck.  The disconnect of a client that    *)
(* still holds a channel waits for what its caller has; a client that has     *)
(* stopped its channels before it closes leaves it nothing to wait for.       *)

\* bufferevent_semaphore is a lock, and who has it is where the command thread is.
EventLock ==
  bevSem = IF cmdPc \in {"stopDisable", "eofCount", "eofWait", "eofRemove"} THEN 0 ELSE 1

GoneStopped == \A u \in Uses : conn[u[1]] = "gone" => sess[u] = "stopped"

NoChannelEof == cmdPc \notin {"eofCount", "eofWait"}

\* A receiver that is being started finds a thread to run in.
LaunchRoom ==
  cmdPc \in {"startCount", "startLaunch"} /\ cmdCh \in RxChannels
    => \E t \in IqThreads : iqPc[t] = "none"

LEMMA NextEventLock == TypeInv /\ EventLock /\ [Next]_vars => EventLock'
<1> SUFFICES ASSUME TypeInv, EventLock, [Next]_vars PROVE EventLock'
  OBVIOUS
<1> USE DEF EventLock
<1>1. CASE UNCHANGED <<cmdPc, bevSem>>
  BY <1>1
<1>2. ASSUME NEW c \in Clients, Receive(c) PROVE EventLock'
  <2>1. CASE RecvEof(c)
    BY <2>1 DEF RecvEof, Ready, Begin
  <2>2. ASSUME NEW ch \in Channels, RecvStart(c, ch) \/ RecvStop(c, ch) PROVE EventLock'
    BY <2>2 DEF RecvStart, RecvStop, Ready, Begin, semVars
  <2>3. CASE \A ch \in Channels : ~RecvStart(c, ch) /\ ~RecvStop(c, ch)
    <3>1. CASE ~RecvEof(c)
      BY <1>1, <1>2, <2>3, <3>1 DEF Receive, Accept, RecvAttach, EnableAudio, semVars, cmdVars
    <3> QED BY <2>1, <3>1
  <2> QED BY <2>2, <2>3
<1>3. CASE Continue
  BY <1>3 DEF Continue, StartCount, StartLaunch, StopCount, StopClose, StopDisable, StopFlag,
     EofCount, EofRemove, Done, Begin, Goto, semVars
<1>4. QED
  BY ZenonT(40), <1>1, <1>2, <1>3
  DEF Next, User, Leave, Close, Crash,
     IqThread, IqStop, IqPacket, IqEnter, IqAudio, IqLeave,
     TxBind, TxThread, TxTop, TxPoll, TxIdle, TxPick, TxModulate, TxModulated, TxServed,
     vars, semVars, cmdVars

LEMMA NextGoneStopped ==
  ASSUME ~CanCrash PROVE TypeInv /\ HoldInv /\ GoneStopped /\ [Next]_vars => GoneStopped'
<1> SUFFICES ASSUME TypeInv, HoldInv, GoneStopped, [Next]_vars PROVE GoneStopped'
  OBVIOUS
<1>0. /\ \A u \in Uses : u[1] \in Clients
      /\ conn \in [Clients -> {"away", "connected", "leaving", "gone"}]
      /\ sess \in [Uses -> {"idle", "started", "attached", "stopped"}]
  BY UsesAssumption DEF TypeInv, TypeOK
<1> USE <1>0 DEF GoneStopped
<1>1. CASE UNCHANGED <<conn, sess>>
  BY <1>1
<1>2. ASSUME NEW c \in Clients, User(c) PROVE GoneStopped'
  BY <1>2 DEF User, Leave, Close, Crash
<1>3. ASSUME NEW c \in Clients, Accept(c) PROVE GoneStopped'
  BY <1>3 DEF Accept
<1>4. ASSUME NEW c \in Clients, NEW ch \in Channels, RecvAttach(c, ch) PROVE GoneStopped'
  BY <1>4 DEF RecvAttach
<1>5. CASE StartLaunch
  <2>1. Current \in Uses /\ sess[Current] = "idle"
    BY <1>5 DEF StartLaunch, TypeInv, CmdOK, HoldInv, CommandHolds
  <2>2. conn[Current[1]] # "gone"
    BY <2>1
  <2>3. conn' = conn /\ sess' = [sess EXCEPT ![Current] = "started"]
    BY <1>5 DEF StartLaunch
  <2> QED BY <2>2, <2>3
<1>6. CASE StopFlag
  BY <1>6 DEF StopFlag
<1>7. CASE EofRemove
  BY <1>7 DEF EofRemove
<1>8. QED
  BY ZenonT(40), <1>1, <1>2, <1>3, <1>4, <1>5, <1>6, <1>7
  DEF Next, Receive, RecvEof, RecvStart, EnableAudio, RecvStop, Continue, StartCount,
     StopCount, StopClose, StopDisable, EofCount,
     IqThread, IqStop, IqPacket, IqEnter, IqAudio, IqLeave,
     TxBind, TxThread, TxTop, TxPoll, TxIdle, TxPick, TxModulate, TxModulated, TxServed,
     vars, userVars

LEMMA NextLaunchRoom ==
  TypeInv /\ LaunchRoom /\ [Next]_vars => LaunchRoom'
<1> SUFFICES ASSUME TypeInv, LaunchRoom, [Next]_vars PROVE LaunchRoom'
  OBVIOUS
<1> USE DEF LaunchRoom
<1>1. CASE UNCHANGED <<cmdVars, iqVars>>
  BY <1>1 DEF cmdVars, iqVars
<1>2. ASSUME NEW c \in Clients, NEW ch \in Channels, RecvStart(c, ch) PROVE LaunchRoom'
  BY <1>2 DEF RecvStart, Begin, iqVars
<1>3. CASE StartCount
  BY <1>3 DEF StartCount, Goto, iqVars
<1>4. ASSUME cmdPc' \notin {"startCount", "startLaunch"} PROVE LaunchRoom'
  BY <1>4
<1>5. CASE Continue
  BY <1>3, <1>4, <1>5 DEF Continue, StartLaunch, StopCount, StopClose, StopDisable, StopFlag,
     EofCount, EofRemove, Done, Begin, Goto
<1>6. ASSUME NEW c \in Clients, RecvEof(c) PROVE LaunchRoom'
  BY <1>4, <1>6 DEF RecvEof, Begin
<1>7. ASSUME NEW c \in Clients, NEW ch \in Channels, RecvStop(c, ch) PROVE LaunchRoom'
  BY <1>4, <1>7 DEF RecvStop, Begin
<1>8. ASSUME NEW t \in IqThreads, IqThread(t) PROVE LaunchRoom'
  <2>1. cmdPc' = cmdPc /\ cmdCh' = cmdCh
    BY <1>8 DEF IqThread, IqStop, IqPacket, IqEnter, IqAudio, IqLeave, cmdVars
  <2>2. \A s \in IqThreads : iqPc[s] = "none" => iqPc'[s] = "none"
    BY <1>8 DEF IqThread, IqStop, IqPacket, IqEnter, IqAudio, IqLeave, IqExit, TypeInv, TypeOK
  <2> QED BY <2>1, <2>2
<1>9. QED
  BY ZenonT(40), <1>1, <1>2, <1>5, <1>6, <1>7, <1>8
  DEF Next, User, Leave, Close, Crash, Receive, Accept, RecvAttach, EnableAudio,
     TxBind, TxThread, TxTop, TxPoll, TxIdle, TxPick, TxModulate, TxModulated, TxServed, vars

\* A client that is gone holds nothing.
LEMMA GoneHoldsNothing ==
  ASSUME TypeInv, HoldInv, GoneStopped, NEW c \in Clients, conn[c] = "gone", cmdPc = "idle"
  PROVE  HeldBy(c) = {}
<1> SUFFICES ASSUME NEW ch \in Channels, <<c, ch>> \in held PROVE FALSE
  BY DEF HeldBy
<1>1. <<c, ch>> \in Uses /\ sess[<<c, ch>>] \in {"started", "attached"}
  BY DEF TypeInv, TypeOK, HoldInv, SessionHolds
<1>2. sess[<<c, ch>>] = "stopped"
  BY <1>1 DEF GoneStopped
<1> QED BY <1>1, <1>2

LEMMA NextNoChannelEof ==
  TypeInv /\ HoldInv /\ GoneStopped /\ NoChannelEof /\ [Next]_vars => NoChannelEof'
<1> SUFFICES ASSUME TypeInv, HoldInv, GoneStopped, NoChannelEof, [Next]_vars
             PROVE  NoChannelEof'
  OBVIOUS
<1> USE DEF NoChannelEof
<1>1. CASE UNCHANGED cmdVars
  BY <1>1 DEF cmdVars
<1>2. ASSUME NEW c \in Clients, RecvEof(c) PROVE NoChannelEof'
  <2>1. HeldBy(c) = {}
    BY <1>2, GoneHoldsNothing DEF RecvEof, Ready
  <2> QED BY <1>2, <2>1 DEF RecvEof, Begin
<1>3. ASSUME NEW c \in Clients, NEW ch \in Channels, RecvStart(c, ch) \/ RecvStop(c, ch)
      PROVE  NoChannelEof'
  BY <1>3 DEF RecvStart, RecvStop, Begin
<1>4. CASE Continue
  BY <1>4 DEF Continue, StartCount, StartLaunch, StopCount, StopClose, StopDisable, StopFlag,
     EofCount, EofRemove, Done, Begin, Goto
<1>5. QED
  BY ZenonT(40), <1>1, <1>2, <1>3, <1>4
  DEF Next, User, Leave, Close, Crash, Receive, Accept, RecvAttach, EnableAudio,
     IqThread, IqStop, IqPacket, IqEnter, IqAudio, IqLeave,
     TxBind, TxThread, TxTop, TxPoll, TxIdle, TxPick, TxModulate, TxModulated, TxServed, vars

\* What the command thread waits for, but for one wait, is there or with a thread
\* that returns it without waiting for anything: a permit of iq_semaphore that is
\* not free is with an IQ thread in its block or with the transmit thread in its
\* modulator, bufferevent_semaphore is free whenever a stop or a new disconnect
\* wants it, and a started receiver gets its thread.
CommandGoesOn ==
  /\ cmdPc \in {"startCount", "stopCount", "eofCount"}
       => iqSem > 0 \/ Inside # {} \/ txPc = "modulating"
  /\ cmdPc = "stopClose" => bevSem > 0
  /\ cmdPc = "startLaunch" /\ cmdCh \in RxChannels => \E t \in IqThreads : iqPc[t] = "none"
  /\ \A c \in Clients : Ready(c) => bevSem > 0

\* Whatever clients do, the thread that serves them all is stuck in no command and
\* in no disconnect, except in the one wait of shutdown_client_channels for the
\* semaphore its own caller has.
THEOREM OnlyEofWaits == Spec => []CommandGoesOn
<1>1. Init => EventLock /\ LaunchRoom
  BY DEF Init, EventLock, LaunchRoom
<1>2. TypeInv /\ EventLock /\ LaunchRoom /\ IqConservation => CommandGoesOn
  <2> SUFFICES ASSUME TypeInv, EventLock, LaunchRoom, IqConservation PROVE CommandGoesOn
    OBVIOUS
  <2>1. iqSem > 0 \/ Inside # {} \/ txPc = "modulating"
    <3>1. Inside = {} => Cardinality(Inside) = 0
      BY FS_EmptySet
    <3>2. iqSem \in Nat /\ micServed \in Nat
      BY DEF TypeInv, TypeOK
    <3> QED BY <3>1, <3>2 DEF IqConservation
  <2> QED BY <2>1 DEF CommandGoesOn, EventLock, LaunchRoom, Ready
<1>3. QED
  BY <1>1, <1>2, InitTypeInv, NextTypeInv, NextEventLock, NextLaunchRoom,
     SemaphoreConservation, PTL DEF Spec

\* As long as no client vanishes while it holds a channel, no disconnect gets to
\* that wait: a client that closes has stopped its channels, and the server has
\* by then released them.
THEOREM OrderlyNeverStuck ==
  ASSUME NothingUnstarted, ~CanCrash PROVE Spec => []NoChannelEof
<1>1. Init => GoneStopped /\ NoChannelEof
  BY UsesAssumption DEF Init, GoneStopped, NoChannelEof
<1>2. Inv /\ GoneStopped /\ [Next]_vars => GoneStopped'
  BY NextGoneStopped DEF Inv
<1>3. Inv /\ GoneStopped /\ NoChannelEof /\ [Next]_vars => NoChannelEof'
  BY NextNoChannelEof DEF Inv
<1>4. Spec => []Inv
  BY InvHolds
<1>5. QED BY <1>1, <1>2, <1>3, <1>4, PTL DEF Spec
=============================================================================
