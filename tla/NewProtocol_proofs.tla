------------------------- MODULE NewProtocol_proofs -------------------------
(***************************************************************************)
(* Proofs about NewProtocol: for any number of streams, sessions and       *)
(* packets, every pointer handed from the receivers to the workers is a    *)
(* buffer, and, if the commands leave the threads time to settle, exactly  *)
(* one turn exists per stream and no buffer is freed twice or used after.  *)
(***************************************************************************)
EXTENDS NewProtocol, FiniteSetTheorems, TLAPS

\* A receiver exists only once its session has created it, and whoever is
\* about to follow a pointer finds a buffer there.
Filled ==
  /\ cmd = "starting" => sessions > 0
  /\ \A k \in Sessions :
       k > sessions \/ (cmd = "starting" /\ k = sessions) => rxPc[k] = "none"
  /\ \A k \in Sessions : rxPc[k] \in {"got", "put"} => rxBuf[k] \in Buffers
  /\ \A k \in Sessions : rxPc[k] \in {"put", "post"} => rxPort[k] \in Streams
  /\ \A s \in Streams : full[s] > 0 => slot[s] \in Buffers
  /\ \A k \in Sessions : rxPc[k] = "post" => slot[rxPort[k]] \in Buffers
  /\ \A w \in Workers : wkPc[w] = "work" => BufferOf(w) \in Buffers

TypeInv == TypeOK /\ Filled

LEMMA NotCreatedYet ==
  ASSUME Filled, NEW k \in Sessions, k > sessions PROVE rxPc[k] = "none"
BY DEF Filled

LEMMA BufferShape ==
  ASSUME NEW b \in Buffers
  PROVE  b[1] \in Ports /\ b[2] \in Nat /\ b # None
BY PortsAssumption, BoundsAssumption DEF Buffers

LEMMA WorkerShape ==
  ASSUME NEW w \in Workers
  PROVE  w[1] \in Streams /\ w[2] \in Sessions
BY DEF Workers

LEMMA TypeInit == Init => TypeInv
<1> SUFFICES ASSUME Init PROVE TypeInv
  OBVIOUS
<1>1. up \in BOOLEAN /\ started \in BOOLEAN /\ running \in BOOLEAN /\ sockOpen \in BOOLEAN
  BY DEF Init
<1>2. /\ cmd \in {"idle", "starting", "stopping"}
      /\ sessions \in 0 .. MaxSessions /\ timer \subseteq Sessions
      /\ sent \in [Ports -> Nat]
      /\ addr \in Ports \cup {None}
      /\ ready \in [Streams -> Nat] /\ full \in [Streams -> Nat]
      /\ slot \in [Streams -> Buffers \cup {None}]
  BY BoundsAssumption DEF Init
<1>3. /\ rxPc \in [Sessions -> {"none", "start", "top", "recv", "got", "put", "post"}]
      /\ rxBuf \in [Sessions -> Buffers \cup {None}]
      /\ rxPort \in [Sessions -> Streams \cup {None}]
      /\ wkPc \in [Workers -> {"none", "post", "wait", "work"}]
      /\ wkBuf \in [Workers -> Buffers \cup {None}]
      /\ expected \in [Streams -> Nat]
      /\ frees \in [Buffers -> Nat]
  BY DEF Init
<1>4. Filled
  BY DEF Init, Filled
<1> QED BY <1>1, <1>2, <1>3, <1>4 DEF TypeInv, TypeOK

LEMMA TypeStep == TypeInv /\ [Next]_vars => TypeInv'
<1> SUFFICES ASSUME TypeInv, [Next]_vars PROVE TypeInv'
  OBVIOUS
<1> USE BoundsAssumption, PortsAssumption DEF TypeInv, TypeOK, sessionVars, handVars, rxVars, wkVars
<1>1. CASE StartWorkers
  <2>1. TypeOK'
    BY <1>1 DEF StartWorkers, Sessions
  <2>8. \A k \in Sessions : k > sessions => rxPc[k] = "none"
    BY NotCreatedYet
  <2>9. sessions \in Int /\ \A k \in Sessions : k \in Int
    BY DEF Sessions
  <2>2. \A k \in Sessions : rxPc'[k] = rxPc[k] /\ (k > sessions + 1 => rxPc[k] = "none")
    BY <1>1, <2>8, <2>9 DEF StartWorkers, rxVars
  <2>3. \A k \in Sessions : k = sessions + 1 => rxPc[k] = "none"
    BY <2>8, <2>9
  <2>4. \A w \in Workers : wkPc'[w] = "work" => wkPc[w] = "work"
    BY <1>1 DEF StartWorkers
  <2>5. \A s \in Streams : full'[s] = 0
    BY <1>1 DEF StartWorkers
  <2>6. sessions' = sessions + 1 /\ sessions' > 0 /\ UNCHANGED <<rxBuf, rxPort, slot, wkBuf>>
    BY <1>1 DEF StartWorkers
  <2>7. Filled'
    BY <2>2, <2>3, <2>4, <2>5, <2>6 DEF Filled, BufferOf
  <2> QED BY <2>1, <2>7
<1>2. CASE StartReceiver
  BY <1>2 DEF StartReceiver, Filled, BufferOf, Sessions
<1>3. CASE StopFlag \/ StopClose
  BY <1>3 DEF StopFlag, StopClose, Filled, BufferOf
<1>4. ASSUME NEW p \in Ports, Lose(p) PROVE TypeInv'
  BY <1>4 DEF Lose, Filled, BufferOf
<1>5. ASSUME NEW p \in Ports, NEW k \in Sessions, RxPacket(k, p) PROVE TypeInv'
  <2>1. <<p, sent[p] + 1>> \in Buffers
    BY <1>5 DEF RxPacket, Buffers
  <2> QED BY <1>5, <2>1 DEF RxPacket, Filled, BufferOf
<1>6. ASSUME NEW k \in Sessions, Timer(k) PROVE TypeInv'
  BY <1>6 DEF Timer, Filled, BufferOf
<1>7. ASSUME NEW k \in Sessions, RxStart(k) \/ RxTop(k) PROVE TypeInv'
  <2>1. UNCHANGED <<sessions, cmd, full, slot, rxBuf, rxPort, wkPc, wkBuf>>
    BY <1>7 DEF RxStart, RxTop
  <2>2. /\ rxPc[k] \in {"start", "top"}
        /\ \E pc \in {"top", "recv", "none"} : rxPc' = [rxPc EXCEPT ![k] = pc]
    BY <1>7 DEF RxStart, RxTop
  <2>3. TypeOK'
    BY <1>7 DEF RxStart, RxTop
  <2>4. Filled'
    BY <2>1, <2>2 DEF Filled, BufferOf
  <2> QED BY <2>3, <2>4
<1>8. ASSUME NEW k \in Sessions, RxClassify(k) PROVE TypeInv'
  <2>1. rxBuf[k] \in Buffers
    BY <1>8 DEF RxClassify, Filled
  <2> QED BY <1>8, <2>1 DEF RxClassify, Free, Filled, BufferOf
<1>9. ASSUME NEW k \in Sessions, RxPut(k) PROVE TypeInv'
  <2>1. rxBuf[k] \in Buffers /\ rxPort[k] \in Streams
    BY <1>9 DEF RxPut, Filled
  <2>2. TypeOK'
    BY <1>9, <2>1 DEF RxPut
  <2>3. \A w \in Workers : wkPc'[w] = "work" => BufferOf(w)' \in Buffers
    BY <1>9, <2>1, WorkerShape DEF RxPut, Filled, BufferOf
  <2> QED BY <1>9, <2>1, <2>2, <2>3 DEF RxPut, Filled
<1>10. ASSUME NEW k \in Sessions, RxPost(k) PROVE TypeInv'
  <2>1. TypeOK'
    BY <1>10, BufferShape DEF RxPost, Filled
  <2>2. Filled'
    BY <1>10 DEF RxPost, Filled, BufferOf
  <2> QED BY <2>1, <2>2
<1>11. ASSUME NEW w \in Workers, WkReady(w) PROVE TypeInv'
  BY <1>11, WorkerShape DEF WkReady, Filled, BufferOf
<1>12. ASSUME NEW w \in Workers, WkTake(w) PROVE TypeInv'
  <2>1. w[1] \in Streams /\ slot[w[1]] \in Buffers
    BY <1>12, WorkerShape DEF WkTake, Filled
  <2> QED BY <1>12, <2>1 DEF WkTake, Filled, BufferOf
<1>13. ASSUME NEW w \in Workers, WkServe(w) PROVE TypeInv'
  <2>1. w[1] \in Streams /\ BufferOf(w) \in Buffers /\ BufferOf(w)[2] \in Nat
    BY <1>13, WorkerShape, BufferShape DEF WkServe, Filled
  <2>2. TypeOK'
    BY <1>13, <2>1 DEF WkServe, Free
  <2>3. Filled'
    BY <1>13, <2>1 DEF WkServe, Filled, BufferOf
  <2> QED BY <2>2, <2>3
<1>14. CASE UNCHANGED vars
  BY <1>14 DEF vars, Filled, BufferOf
<1> QED
  BY <1>1, <1>2, <1>3, <1>4, <1>5, <1>6, <1>7, <1>8, <1>9, <1>10, <1>11, <1>12,
     <1>13, <1>14 DEF Next, Command, Receiver, Worker

\* Type correctness: every pointer that is stored, passed on or freed is one
\* of a packet's buffer, whatever the timing of commands and threads.
THEOREM TypeCorrect == Spec => []TypeOK
<1>1. TypeInv => TypeOK
  BY DEF TypeInv
<1> QED BY <1>1, TypeInit, TypeStep, PTL DEF Spec

----------------------------------------------------------------------------
(* One turn per stream *)

\* Receiver k has left a packet in the slot of s and not yet posted it.
Gives(k, s) == rxPc[k] = "post" /\ rxPort[k] = s

\* Worker w of s is between being given a packet and asking for the next.
Works(w, s) == w[1] = s /\ wkPc[w] \in {"post", "work"}

\* Before the first start no thread exists.
NoThreads ==
  sessions = 0 =>
    /\ \A k \in Sessions : rxPc[k] = "none"
    /\ \A w \in Workers : wkPc[w] = "none"
    /\ \A s \in Streams : ready[s] = 0 /\ full[s] = 0

\* At most one turn exists per stream.
AtMostOne ==
  \A s \in Streams :
    /\ ready[s] + full[s] <= 1
    /\ \A k \in Sessions : Gives(k, s) => ready[s] = 0 /\ full[s] = 0
    /\ \A w \in Workers : Works(w, s) => ready[s] = 0 /\ full[s] = 0
    /\ \A j, k \in Sessions : Gives(j, s) /\ Gives(k, s) => j = k
    /\ \A v, w \in Workers : Works(v, s) /\ Works(w, s) => v = w
    /\ \A k \in Sessions, w \in Workers : ~(Gives(k, s) /\ Works(w, s))

\* And at least one, once the radio has been started.
AtLeastOne ==
  \A s \in Streams :
    sessions > 0 =>
      \/ ready[s] > 0 \/ full[s] > 0
      \/ \E k \in Sessions : Gives(k, s)
      \/ \E w \in Workers : Works(w, s)

TurnInv == NoThreads /\ AtMostOne /\ AtLeastOne

LEMMA TurnInit == Init => TurnInv
BY DEF Init, TurnInv, NoThreads, AtMostOne, AtLeastOne, Gives, Works

\* A step of a started system that touches no semaphore, no worker and no
\* receiver's packet keeps the turn.
LEMMA TurnFrame ==
  ASSUME TypeOK, TurnInv, sessions > 0, UNCHANGED <<sessions, ready, full, wkPc>>,
         \A k \in Sessions, s \in Streams :
           rxPc'[k] = "post" /\ rxPort'[k] = s <=> rxPc[k] = "post" /\ rxPort[k] = s
  PROVE  TurnInv'
<1>1. NoThreads'
  BY BoundsAssumption DEF TypeOK, NoThreads
<1>2. AtMostOne'
  BY DEF TurnInv, AtMostOne, Gives, Works
<1>3. AtLeastOne'
  BY DEF TurnInv, AtLeastOne, Gives, Works
<1> QED BY <1>1, <1>2, <1>3 DEF TurnInv

LEMMA TurnStep ==
  ASSUME Unhurried
  PROVE  TypeInv /\ TurnInv /\ [Next]_vars => TurnInv'
<1> SUFFICES ASSUME TypeInv, TurnInv, [Next]_vars PROVE TurnInv'
  OBVIOUS
<1>0. \A s \in Streams :
        ready[s] \in Nat /\ full[s] \in Nat /\ ready[s] + full[s] <= 1
  BY DEF TypeInv, TypeOK, TurnInv, AtMostOne
<1> USE BoundsAssumption DEF TypeInv, TypeOK, TurnInv
<1>1. CASE StartWorkers
  <2>1. Quiet
    BY <1>1 DEF StartWorkers
  <2>2. sessions' = sessions + 1 /\ sessions' \in Sessions
    BY <1>1 DEF StartWorkers, Sessions
  <2>3. \A w \in Workers : wkPc'[w] = IF w[2] = sessions' THEN "post" ELSE wkPc[w]
    BY <1>1 DEF StartWorkers
  <2>4. \A w \in Workers : wkPc[w] \in {"none", "wait"}
    BY <2>1 DEF Quiet
  <2>5. \A w \in Workers : wkPc'[w] \in {"post", "work"} <=> w[2] = sessions'
    BY <2>3, <2>4
  <2>6. \A k \in Sessions : rxPc'[k] # "post"
    BY <1>1, <2>1 DEF StartWorkers, Quiet, rxVars
  <2>7. \A s \in Streams : ready'[s] = 0 /\ full'[s] = 0
    BY <1>1 DEF StartWorkers
  <2>8. \A s \in Streams : <<s, sessions'>> \in Workers
    BY <2>2 DEF Workers
  <2>9. \A v, w \in Workers : v[1] = w[1] /\ v[2] = w[2] => v = w
    BY DEF Workers
  <2>10. NoThreads'
    BY <2>2 DEF NoThreads
  <2>11. AtMostOne'
    BY <2>5, <2>6, <2>7, <2>9 DEF AtMostOne, Gives, Works
  <2>12. AtLeastOne'
    <3> SUFFICES ASSUME NEW s \in Streams
                 PROVE  \E w \in Workers : w[1] = s /\ wkPc'[w] \in {"post", "work"}
      BY DEF AtLeastOne, Works
    <3>1. <<s, sessions'>>[1] = s /\ <<s, sessions'>>[2] = sessions'
      OBVIOUS
    <3> QED BY <2>5, <2>8, <3>1
  <2> QED BY <2>10, <2>11, <2>12
<1>2. CASE StartReceiver
  <2>1. sessions > 0 /\ UNCHANGED <<sessions, ready, full, wkPc>>
    BY <1>2 DEF StartReceiver, Filled, handVars, wkVars
  <2>4. sessions \in Sessions /\ rxPc[sessions] = "none"
    BY <1>2, <2>1 DEF StartReceiver, Filled, Sessions
  <2>2. \A k \in Sessions, s \in Streams :
          rxPc'[k] = "post" /\ rxPort'[k] = s <=> rxPc[k] = "post" /\ rxPort[k] = s
    BY <1>2, <2>4 DEF StartReceiver
  <2> QED BY <2>1, <2>2, TurnFrame
<1>3. CASE StopFlag \/ StopClose
  BY <1>3 DEF StopFlag, StopClose, handVars, rxVars, wkVars, NoThreads, AtMostOne, AtLeastOne, Gives, Works
<1>4. ASSUME NEW p \in Ports, Lose(p) PROVE TurnInv'
  BY <1>4 DEF Lose, sessionVars, handVars, rxVars, wkVars, NoThreads, AtMostOne, AtLeastOne, Gives, Works
<1>5. ASSUME NEW p \in Ports, NEW k \in Sessions, RxPacket(k, p) PROVE TurnInv'
  BY <1>5 DEF RxPacket, sessionVars, handVars, wkVars, NoThreads, AtMostOne, AtLeastOne, Gives, Works
<1>6. ASSUME NEW k \in Sessions, Timer(k) PROVE TurnInv'
  BY <1>6 DEF Timer, handVars, rxVars, wkVars, NoThreads, AtMostOne, AtLeastOne, Gives, Works
<1>7. ASSUME NEW k \in Sessions, RxStart(k) \/ RxTop(k) PROVE TurnInv'
  <2>1. UNCHANGED <<sessions, ready, full, wkPc>>
    BY <1>7 DEF RxStart, RxTop, handVars, wkVars
  <2>2. \A j \in Sessions, s \in Streams :
          rxPc'[j] = "post" /\ rxPort'[j] = s <=> rxPc[j] = "post" /\ rxPort[j] = s
    BY <1>7 DEF RxStart, RxTop
  <2>3. sessions > 0
    BY <1>7 DEF RxStart, RxTop, NoThreads
  <2> QED BY <2>1, <2>2, <2>3, TurnFrame
<1>8. ASSUME NEW k \in Sessions, RxClassify(k) PROVE TurnInv'
  <2>1. UNCHANGED <<sessions, ready, full, wkPc>>
    BY <1>8 DEF RxClassify, sessionVars, handVars, wkVars
  <2>2. \A j \in Sessions, s \in Streams :
          rxPc'[j] = "post" /\ rxPort'[j] = s <=> rxPc[j] = "post" /\ rxPort[j] = s
    BY <1>8 DEF RxClassify
  <2>3. sessions > 0
    BY <1>8 DEF RxClassify, NoThreads
  <2> QED BY <2>1, <2>2, <2>3, TurnFrame
<1>9. ASSUME NEW k \in Sessions, RxPut(k) PROVE TurnInv'
  <2>1. rxPort[k] \in Streams
    BY <1>9 DEF RxPut, Filled
  <2>2. NoThreads'
    BY <1>9 DEF RxPut, NoThreads, sessionVars, wkVars
  <2>3. AtMostOne'
    <3> DEFINE r == rxPort[k]
    <3>0. ready[r] > 0 /\ ready[r] + full[r] <= 1 /\ ready[r] \in Nat /\ full[r] \in Nat
      BY <1>0, <1>9, <2>1 DEF RxPut
    <3>a. ready[r] = 1 /\ full[r] = 0
      BY <3>0
    <3>1. ready[r] = 1 /\ full[r] = 0 /\ \A j \in Sessions : ~(rxPc[j] = "post" /\ rxPort[j] = r)
      BY <2>1, <3>a DEF AtMostOne, Gives
    <3>2. \A w \in Workers : ~(w[1] = r /\ wkPc[w] \in {"post", "work"})
      BY <2>1, <3>1 DEF AtMostOne, Works
    <3>3. /\ ready' = [ready EXCEPT ![r] = 0]
          /\ UNCHANGED <<full, wkPc, rxPort>> /\ rxPc' = [rxPc EXCEPT ![k] = "post"]
      BY <1>9, <2>1, <3>1 DEF RxPut, wkVars
    <3> HIDE DEF r
    <3>4. \A s \in Streams : s # r => ready'[s] = ready[s]
      BY <3>3
    <3>5. ready'[r] = 0
      BY <2>1, <3>3 DEF r
    <3>6. \A j \in Sessions : j # k => rxPc'[j] = rxPc[j]
      BY <3>3
    <3>7. rxPort[k] = r
      BY DEF r
    <3> SUFFICES ASSUME NEW s \in Streams
                 PROVE  /\ ready'[s] + full'[s] <= 1
                        /\ \A j \in Sessions : Gives(j, s)' => ready'[s] = 0 /\ full'[s] = 0
                        /\ \A w \in Workers : Works(w, s)' => ready'[s] = 0 /\ full'[s] = 0
                        /\ \A j, i \in Sessions : Gives(j, s)' /\ Gives(i, s)' => j = i
                        /\ \A v, w \in Workers : Works(v, s)' /\ Works(w, s)' => v = w
                        /\ \A j \in Sessions, w \in Workers : ~(Gives(j, s)' /\ Works(w, s)')
      BY DEF AtMostOne
    <3>8. CASE s = r
      BY <3>1, <3>2, <3>3, <3>5, <3>6, <3>8 DEF Gives, Works
    <3>9. CASE s # r
      BY <3>3, <3>4, <3>6, <3>7, <3>9 DEF AtMostOne, Gives, Works
    <3> QED BY <3>8, <3>9
  <2>4. AtLeastOne'
    BY <1>9, <2>1 DEF RxPut, AtMostOne, AtLeastOne, Gives, Works, wkVars, sessionVars
  <2> QED BY <2>2, <2>3, <2>4
<1>10. ASSUME NEW k \in Sessions, RxPost(k) PROVE TurnInv'
  <2>1. rxPort[k] \in Streams
    BY <1>10 DEF RxPost, Filled
  <2>2. NoThreads'
    BY <1>10 DEF RxPost, NoThreads, sessionVars, wkVars
  <2>3. AtMostOne'
    BY <1>10, <2>1 DEF RxPost, AtMostOne, Gives, Works, wkVars
  <2>4. AtLeastOne'
    <3>1. full'[rxPort[k]] > 0
      BY <1>10, <2>1 DEF RxPost
    <3>2. \A s \in Streams : s # rxPort[k] => full'[s] = full[s]
      BY <1>10, <2>1 DEF RxPost
    <3>3. \A j \in Sessions, s \in Streams :
            s # rxPort[k] /\ rxPc[j] = "post" /\ rxPort[j] = s
            => rxPc'[j] = "post" /\ rxPort'[j] = s
      BY <1>10, <2>1 DEF RxPost
    <3>4. UNCHANGED <<sessions, ready, wkPc>>
      BY <1>10 DEF RxPost, sessionVars, wkVars
    <3> QED BY <3>1, <3>2, <3>3, <3>4 DEF AtLeastOne, Gives, Works
  <2> QED BY <2>2, <2>3, <2>4
<1>11. ASSUME NEW w \in Workers, WkReady(w) PROVE TurnInv'
  <2>1. w[1] \in Streams
    BY WorkerShape
  <2>2. NoThreads'
    BY <1>11, <2>1 DEF WkReady, NoThreads, sessionVars, rxVars
  <2>3. AtMostOne'
    BY <1>11, <2>1, WorkerShape DEF WkReady, AtMostOne, Gives, Works, rxVars
  <2>4. AtLeastOne'
    BY SMTT(30), <1>11, <2>1, WorkerShape DEF WkReady, AtMostOne, AtLeastOne, Gives, Works, rxVars, sessionVars
  <2> QED BY <2>2, <2>3, <2>4
<1>12. ASSUME NEW w \in Workers, WkTake(w) PROVE TurnInv'
  <2>1. w[1] \in Streams
    BY WorkerShape
  <2>2. NoThreads'
    BY <1>12, <2>1 DEF WkTake, NoThreads, sessionVars, rxVars
  <2>3. AtMostOne'
    <3>0. full[w[1]] > 0 /\ ready[w[1]] + full[w[1]] <= 1
          /\ ready[w[1]] \in Nat /\ full[w[1]] \in Nat
      BY <1>0, <1>12, <2>1 DEF WkTake
    <3>a. ready[w[1]] = 0 /\ full[w[1]] = 1
      BY <3>0
    <3>1. /\ ready[w[1]] = 0 /\ full[w[1]] = 1
          /\ \A k \in Sessions : ~(rxPc[k] = "post" /\ rxPort[k] = w[1])
          /\ \A v \in Workers : ~(v[1] = w[1] /\ wkPc[v] \in {"post", "work"})
      BY <2>1, <3>a DEF AtMostOne, Gives, Works
    <3>2. /\ full'[w[1]] = 0
          /\ \A s \in Streams : s # w[1] => full'[s] = full[s]
          /\ UNCHANGED <<ready, rxPc, rxPort>>
          /\ \A v \in Workers : v # w => wkPc'[v] = wkPc[v]
      BY <1>12, <2>1, <3>1 DEF WkTake, rxVars
    <3> SUFFICES ASSUME NEW s \in Streams
                 PROVE  /\ ready'[s] + full'[s] <= 1
                        /\ \A j \in Sessions : Gives(j, s)' => ready'[s] = 0 /\ full'[s] = 0
                        /\ \A v \in Workers : Works(v, s)' => ready'[s] = 0 /\ full'[s] = 0
                        /\ \A j, i \in Sessions : Gives(j, s)' /\ Gives(i, s)' => j = i
                        /\ \A u, v \in Workers : Works(u, s)' /\ Works(v, s)' => u = v
                        /\ \A j \in Sessions, v \in Workers : ~(Gives(j, s)' /\ Works(v, s)')
      BY DEF AtMostOne
    <3>3. CASE s = w[1]
      BY <3>1, <3>2, <3>3 DEF Gives, Works
    <3>4. CASE s # w[1]
      BY <3>2, <3>4 DEF AtMostOne, Gives, Works
    <3> QED BY <3>3, <3>4
  <2>4. AtLeastOne'
    BY <1>12, <2>1, WorkerShape DEF WkTake, AtMostOne, AtLeastOne, Gives, Works, rxVars, sessionVars
  <2> QED BY <2>2, <2>3, <2>4
<1>13. ASSUME NEW w \in Workers, WkServe(w) PROVE TurnInv'
  BY SMTT(30), <1>13 DEF WkServe, sessionVars, handVars, rxVars, NoThreads, AtMostOne, AtLeastOne, Gives, Works
<1>14. CASE UNCHANGED vars
  BY <1>14 DEF vars, sessionVars, handVars, rxVars, wkVars, NoThreads, AtMostOne, AtLeastOne, Gives, Works
<1> QED
  BY <1>1, <1>2, <1>3, <1>4, <1>5, <1>6, <1>7, <1>8, <1>9, <1>10, <1>11, <1>12,
     <1>13, <1>14 DEF Next, Command, Receiver, Worker

LEMMA TurnCounts == TypeInv /\ TurnInv => OneTurn
<1> SUFFICES ASSUME TypeInv, TurnInv, NEW s \in Streams
             PROVE  ready[s] + full[s] + Cardinality(Giving(s)) + Cardinality(Busy(s))
                      = IF sessions = 0 THEN 0 ELSE 1
  BY DEF OneTurn
<1> USE DEF TypeInv, TypeOK, TurnInv
<1>1. Cardinality({}) = 0
  BY FS_EmptySet
<1>2. ready[s] \in Nat /\ full[s] \in Nat /\ sessions \in Nat
  BY BoundsAssumption
<1>3. CASE sessions = 0
  <2>1. Giving(s) = {} /\ Busy(s) = {}
    BY <1>3 DEF NoThreads, Giving, Busy
  <2> QED BY <1>1, <1>3, <2>1 DEF NoThreads
<1>4. CASE sessions # 0 /\ (ready[s] > 0 \/ full[s] > 0)
  <2>1. Giving(s) = {} /\ Busy(s) = {}
    BY <1>4, <1>2 DEF AtMostOne, Gives, Works, Giving, Busy
  <2>2. ready[s] + full[s] <= 1
    BY ZenonT(60) DEF AtMostOne
  <2>3. ready[s] + full[s] = 1
    BY ONLY <1>4, <1>2, <2>2, SMTT(30)
  <2> QED BY <1>1, <1>2, <1>4, <2>1, <2>3
<1>5. ASSUME sessions # 0, NEW k \in Sessions, Gives(k, s)
      PROVE  ready[s] + full[s] + Cardinality(Giving(s)) + Cardinality(Busy(s)) = 1
  <2>1. Giving(s) = {k} /\ Busy(s) = {}
    BY <1>5 DEF AtMostOne, Gives, Works, Giving, Busy
  <2>2. Cardinality({k}) = 1
    BY FS_Singleton
  <2>3. ready[s] = 0 /\ full[s] = 0
    BY <1>5 DEF AtMostOne
  <2> QED BY <1>1, <2>1, <2>2, <2>3
<1>6. ASSUME sessions # 0, NEW w \in Workers, Works(w, s)
      PROVE  ready[s] + full[s] + Cardinality(Giving(s)) + Cardinality(Busy(s)) = 1
  <2>1. Giving(s) = {} /\ Busy(s) = {w}
    BY <1>6 DEF AtMostOne, Gives, Works, Giving, Busy
  <2>2. Cardinality({w}) = 1
    BY FS_Singleton
  <2>3. ready[s] = 0 /\ full[s] = 0
    BY <1>6 DEF AtMostOne
  <2> QED BY <1>1, <2>1, <2>2, <2>3
<1> QED
  BY <1>2, <1>3, <1>4, <1>5, <1>6 DEF AtLeastOne

\* However often the radio was stopped and started and however many workers
\* that left behind, each stream has exactly one turn.
THEOREM TurnCorrect ==
  ASSUME Unhurried
  PROVE  Spec => []OneTurn
<1>1. TypeInv /\ TurnInv /\ [Next]_vars => TurnInv'
  BY TurnStep
<1> QED
  BY <1>1, TypeInit, TypeStep, TurnInit, TurnCounts, PTL DEF Spec
----------------------------------------------------------------------------
(* Who owns a buffer *)

\* Receiver k has a packet it has not handed over.
Holds(k) == rxPc[k] \in {"got", "put"}

\* The slot of s has a packet that no worker of s has served yet.
Loaded(s) ==
  \/ full[s] > 0
  \/ \E k \in Sessions : Gives(k, s)
  \/ \E w \in Workers : w[1] = s /\ wkPc[w] = "work"

\* What a worker copied is still in its slot while the worker is at it.
CopyInSlot == \A w \in Workers : wkPc[w] = "work" => BufferOf(w) = slot[w[1]]

\* What somebody has is not freed, and what a slot no longer needs is.
FreedOnce ==
  /\ \A b \in Buffers : frees[b] <= 1
  /\ \A k \in Sessions : Holds(k) => frees[rxBuf[k]] = 0
  /\ \A s \in Streams : Loaded(s) => frees[slot[s]] = 0
  /\ \A s \in Streams : slot[s] # None /\ ~Loaded(s) => frees[slot[s]] > 0

\* No two have the same buffer.
OneOwner ==
  /\ \A j, k \in Sessions : Holds(j) /\ Holds(k) /\ rxBuf[j] = rxBuf[k] => j = k
  /\ \A r, s \in Streams : Loaded(r) /\ Loaded(s) /\ slot[r] = slot[s] => r = s
  /\ \A k \in Sessions, s \in Streams : Holds(k) /\ Loaded(s) => rxBuf[k] # slot[s]

\* A buffer is of a packet the radio has sent.
WasSent(b) == b[2] <= sent[b[1]]

AllSent ==
  /\ \A k \in Sessions : Holds(k) => WasSent(rxBuf[k])
  /\ \A s \in Streams : Loaded(s) => WasSent(slot[s])
  /\ \A b \in Buffers : frees[b] > 0 => WasSent(b)

OwnInv == CopyInSlot /\ FreedOnce /\ OneOwner /\ AllSent

\* In the first session what is on its way to a worker is newer than what the
\* worker has served, and came from the worker's port.
FirstInOrder ==
  sessions <= 1 =>
    /\ \A s \in Streams : expected[s] <= sent[s] + 1
    /\ \A s \in Streams : Loaded(s) => slot[s][1] = s /\ expected[s] <= slot[s][2]
    /\ \A k \in Sessions : Holds(k) =>
         /\ rxBuf[k][1] = IF rxPc[k] = "got" THEN addr ELSE rxPort[k]
         /\ \A s \in Streams : rxBuf[k][1] = s =>
              /\ expected[s] <= rxBuf[k][2]
              /\ Loaded(s) => slot[s][2] < rxBuf[k][2]
LEMMA OwnInit == Init => OwnInv
BY DEF Init, OwnInv, CopyInSlot, FreedOnce, OneOwner, AllSent, Holds, Loaded, Gives

LEMMA OrderInit == Init => FirstInOrder
BY DEF Init, FirstInOrder, Holds, Loaded, Gives, Ports

\* Who has a packet has a buffer.
LEMMA OwnersFilled ==
  ASSUME TypeInv, CopyInSlot
  PROVE  /\ \A k \in Sessions : Holds(k) => rxBuf[k] \in Buffers
         /\ \A s \in Streams : Loaded(s) => slot[s] \in Buffers
BY DEF TypeInv, Filled, Holds, Loaded, Gives, CopyInSlot

\* In the first session there is one receiver.
LEMMA OnlyFirst ==
  ASSUME TypeInv, sessions <= 1, NEW k \in Sessions, rxPc[k] # "none"
  PROVE  k = 1
<1>1. k <= sessions
  BY BoundsAssumption DEF TypeInv, TypeOK, Filled, Sessions
<1> QED BY <1>1, BoundsAssumption DEF TypeInv, TypeOK, Sessions

\* While a stream's turn is "ready" its slot is empty, and while one of its
\* workers is at it nobody else is.
LEMMA TurnExclusive ==
  ASSUME TypeInv, AtMostOne, NEW s \in Streams
  PROVE  /\ ready[s] > 0 => ~Loaded(s)
         /\ \A w \in Workers : w[1] = s /\ wkPc[w] = "work" =>
              /\ full[s] = 0 /\ \A k \in Sessions : ~Gives(k, s)
              /\ \A v \in Workers : v[1] = s /\ wkPc[v] = "work" => v = w
<1>1. ready[s] \in Nat /\ full[s] \in Nat
  BY DEF TypeInv, TypeOK
<1> QED BY <1>1 DEF AtMostOne, Gives, Works, Loaded

\* A step that moves no buffer and frees none keeps the owners.
LEMMA OwnFrame ==
  ASSUME TypeInv, OwnInv, CopyInSlot', UNCHANGED <<frees, slot>>,
         \A k \in Sessions : Holds(k)' => Holds(k) /\ rxBuf'[k] = rxBuf[k],
         \A s \in Streams : Loaded(s)' <=> Loaded(s),
         \A p \in Ports : sent'[p] \in Nat /\ sent'[p] >= sent[p]
  PROVE  OwnInv'
<1>1. FreedOnce'
  BY DEF OwnInv, FreedOnce
<1>2. OneOwner'
  BY DEF OwnInv, OneOwner
<1>3. \A b \in Buffers : WasSent(b) => b[2] <= sent'[b[1]]
  BY BufferShape DEF WasSent, TypeInv, TypeOK
<1>4. AllSent'
  <2>1. \A k \in Sessions : Holds(k)' => rxBuf[k] \in Buffers /\ WasSent(rxBuf[k])
    BY OwnersFilled DEF OwnInv, AllSent
  <2>2. \A s \in Streams : Loaded(s)' => slot[s] \in Buffers /\ WasSent(slot[s])
    BY OwnersFilled DEF OwnInv, AllSent
  <2> QED BY <1>3, <2>1, <2>2 DEF OwnInv, AllSent, WasSent
<1> QED BY <1>1, <1>2, <1>4 DEF OwnInv

\* And such a step keeps the order, if no stream forgets its number.
LEMMA OrderFrame ==
  ASSUME TypeInv, OwnInv, FirstInOrder, UNCHANGED <<slot, sessions, expected, addr>>,
         \A k \in Sessions : Holds(k)' => /\ Holds(k) /\ rxBuf'[k] = rxBuf[k]
                                          /\ rxPc'[k] = rxPc[k] /\ rxPort'[k] = rxPort[k],
         \A s \in Streams : Loaded(s)' => Loaded(s),
         \A p \in Ports : sent'[p] \in Nat /\ sent'[p] >= sent[p]
  PROVE  FirstInOrder'
<1>1. \A s \in Streams : s \in Ports /\ expected[s] \in Nat /\ sent[s] \in Nat
  BY DEF TypeInv, TypeOK, Ports
<1> QED BY <1>1 DEF FirstInOrder

OwnOrder == OwnInv /\ FirstInOrder

LEMMA OwnCommand ==
  ASSUME Unhurried, TypeInv, TurnInv, OwnOrder, Command
  PROVE  OwnOrder'
<1> USE DEF OwnOrder, sessionVars, handVars, rxVars, wkVars
<1>0. \A p \in Ports : sent[p] \in Nat
  BY DEF TypeInv, TypeOK
<1>1. CASE StartWorkers
  <2>1. \A k \in Sessions : rxPc[k] \in {"none", "recv"}
    BY <1>1 DEF StartWorkers, Quiet
  <2>2. \A s \in Streams : full[s] = 0 /\ full'[s] = 0
    BY <1>1 DEF StartWorkers, Quiet
  <2>3. \A w \in Workers : wkPc[w] # "work" /\ wkPc'[w] # "work"
    BY <1>1 DEF StartWorkers, Quiet, TypeInv, TypeOK
  <2>4. UNCHANGED <<frees, slot, sent, rxPc, rxBuf, rxPort, addr>>
    BY <1>1 DEF StartWorkers
  <2>5. /\ \A k \in Sessions : ~Holds(k)'
        /\ \A s \in Streams : ~Loaded(s) /\ ~Loaded(s)'
    BY <2>1, <2>2, <2>3, <2>4 DEF Holds, Loaded, Gives
  <2>6. OwnInv'
    <3>1. CopyInSlot'
      BY <2>3 DEF CopyInSlot
    <3> QED BY <1>0, <2>4, <2>5, <3>1, OwnFrame
  <2>7. FirstInOrder'
    <3>1. sessions' = sessions + 1 /\ sessions \in Nat
      BY <1>1 DEF StartWorkers, TypeInv, TypeOK
    <3>2. sessions <= 1 => \A s \in Streams : expected'[s] <= sent[s] + 1
      <4>1. \A s \in Streams : expected'[s] = 1 \/ expected'[s] = expected[s]
        BY <1>1 DEF StartWorkers
      <4> QED BY <1>0, <4>1 DEF FirstInOrder, Ports
    <3> QED BY <2>4, <2>5, <3>1, <3>2 DEF FirstInOrder
  <2> QED BY <2>6, <2>7
<1>2. CASE StartReceiver \/ StopFlag \/ StopClose
  <2>1. UNCHANGED <<frees, slot, sent, sessions, expected, addr, rxBuf, rxPort, full, wkPc, wkBuf>>
    BY <1>2 DEF StartReceiver, StopFlag, StopClose
  <2>2. \A k \in Sessions : rxPc'[k] = rxPc[k] \/ (rxPc[k] = "none" /\ rxPc'[k] = "start")
    <3>1. CASE StartReceiver
      <4>1. \A k \in Sessions : k = sessions => rxPc[k] = "none"
        BY <3>1 DEF StartReceiver, TypeInv, Filled
      <4>2. rxPc' = [rxPc EXCEPT ![sessions] = "start"]
        BY <3>1 DEF StartReceiver
      <4> QED BY <4>1, <4>2 DEF TypeInv, TypeOK
    <3>2. CASE StopFlag \/ StopClose
      BY <3>2 DEF StopFlag, StopClose
    <3> QED BY <1>2, <3>1, <3>2
  <2>3. \A k \in Sessions : Holds(k)' => Holds(k) /\ rxPc'[k] = rxPc[k]
    BY <2>2 DEF Holds
  <2>4. \A s \in Streams : Loaded(s)' <=> Loaded(s)
    BY <2>1, <2>2 DEF Loaded, Gives
  <2>5. CopyInSlot'
    BY <2>1 DEF OwnInv, CopyInSlot, BufferOf
  <2> QED BY <1>0, <2>1, <2>3, <2>4, <2>5, OwnFrame, OrderFrame
<1> QED BY <1>1, <1>2 DEF Command

LEMMA OwnReceive ==
  ASSUME TypeInv, TurnInv, OwnOrder, NEW k \in Sessions, NEW p \in Ports, RxPacket(k, p)
  PROVE  OwnOrder'
<1> USE DEF OwnOrder, sessionVars, handVars, rxVars, wkVars
<1> DEFINE b == <<p, sent[p] + 1>>
<1>0. \A q \in Ports : sent[q] \in Nat
  BY DEF TypeInv, TypeOK
<1>1. /\ b \in Buffers /\ b[1] = p /\ b[2] = sent[p] + 1 /\ rxPc[k] = "recv"
      /\ sent' = [sent EXCEPT ![p] = @ + 1] /\ addr' = p
      /\ rxBuf' = [rxBuf EXCEPT ![k] = b] /\ rxPc' = [rxPc EXCEPT ![k] = "got"]
      /\ UNCHANGED <<frees, slot, sessions, expected, rxPort, full, wkPc, wkBuf>>
  <2>1. sent[p] + 1 \in 1 .. MaxPackets /\ sent'[p] = sent[p] + 1
    BY <1>0, BoundsAssumption DEF RxPacket, TypeInv, TypeOK
  <2>2. b \in Buffers /\ b[1] = p /\ b[2] = sent[p] + 1
    BY <2>1 DEF Buffers
  <2> QED BY <2>1, <2>2 DEF RxPacket
<1> HIDE DEF b
<1>2. /\ rxBuf'[k] = b /\ ~Holds(k)
      /\ \A j \in Sessions \ {k} : /\ rxBuf'[j] = rxBuf[j] /\ rxPc'[j] = rxPc[j]
                                   /\ Holds(j)' <=> Holds(j)
      /\ \A s \in Streams : Loaded(s)' <=> Loaded(s)
  BY <1>1 DEF Holds, Loaded, Gives, TypeInv, TypeOK
<1>3. \A q \in Ports : sent'[q] \in Nat /\ sent'[q] >= sent[q] /\ (q = p => sent'[q] = sent[q] + 1)
  BY <1>0, <1>1 DEF TypeInv, TypeOK
<1>4. ~WasSent(b) /\ frees[b] = 0
  <2>1. ~WasSent(b)
    BY <1>0, <1>1 DEF WasSent
  <2> QED BY <1>1, <2>1 DEF OwnInv, AllSent, TypeInv, TypeOK
<1>5. /\ \A j \in Sessions : Holds(j) => rxBuf[j] # b
      /\ \A s \in Streams : Loaded(s) => slot[s] # b
  BY <1>4 DEF OwnInv, AllSent
<1>6. CopyInSlot'
  BY <1>1 DEF OwnInv, CopyInSlot, BufferOf
<1>7. FreedOnce'
  BY <1>1, <1>2, <1>4 DEF OwnInv, FreedOnce
<1>8. OneOwner'
  BY <1>1, <1>2, <1>5 DEF OwnInv, OneOwner
<1>9. AllSent'
  <2>1. \A c \in Buffers : WasSent(c) => c[2] <= sent'[c[1]]
    BY <1>0, <1>3, BufferShape DEF WasSent
  <2>2. b[2] <= sent'[b[1]]
    BY <1>1, <1>3
  <2>3. \A j \in Sessions : Holds(j) => rxBuf[j] \in Buffers /\ WasSent(rxBuf[j])
    BY OwnersFilled DEF OwnInv, AllSent
  <2>4. \A s \in Streams : Loaded(s) => slot[s] \in Buffers /\ WasSent(slot[s])
    BY OwnersFilled DEF OwnInv, AllSent
  <2> QED BY <1>1, <1>2, <2>1, <2>2, <2>3, <2>4 DEF OwnInv, AllSent, WasSent
<1>10. FirstInOrder'
  <2> SUFFICES ASSUME sessions <= 1 PROVE FirstInOrder'
    BY <1>1 DEF FirstInOrder
  <2>1. \A j \in Sessions : Holds(j)' => j = k
    BY <1>1, <1>2, OnlyFirst DEF Holds
  <2>2. \A s \in Streams : s \in Ports /\ expected[s] \in Nat
    BY DEF TypeInv, TypeOK, Ports
  <2>3. \A s \in Streams : Loaded(s) => slot[s][1] = s /\ slot[s][2] <= sent[s] /\ slot[s][2] \in Nat
    BY OwnersFilled, BufferShape DEF OwnInv, AllSent, WasSent, FirstInOrder
  <2>4. \A s \in Streams : s = p => expected[s] <= b[2] /\ (Loaded(s) => slot[s][2] < b[2])
    BY <1>0, <1>1, <2>2, <2>3 DEF FirstInOrder
  <2>5. \A s \in Streams : expected[s] <= sent'[s] + 1
    BY <1>0, <1>3, <2>2 DEF FirstInOrder
  <2> QED BY <1>1, <1>2, <2>1, <2>4, <2>5 DEF FirstInOrder, TypeInv, TypeOK
<1> QED BY <1>6, <1>7, <1>8, <1>9, <1>10 DEF OwnInv

LEMMA OwnClassify ==
  ASSUME TypeInv, TurnInv, OwnOrder, NEW k \in Sessions, RxClassify(k)
  PROVE  OwnOrder'
<1> USE DEF OwnOrder, sessionVars, handVars, rxVars, wkVars
<1>0. \A q \in Ports : sent[q] \in Nat
  BY DEF TypeInv, TypeOK
<1>1. /\ rxPc[k] = "got" /\ Holds(k) /\ rxBuf[k] \in Buffers
      /\ UNCHANGED <<sent, addr, slot, sessions, expected, full, wkPc, wkBuf>>
  BY OwnersFilled DEF RxClassify, Holds, OwnInv
<1>2. \E pc \in {"none", "top", "put"} : rxPc' = [rxPc EXCEPT ![k] = pc]
  BY DEF RxClassify
<1>3. /\ \A j \in Sessions \ {k} : /\ rxBuf'[j] = rxBuf[j] /\ rxPc'[j] = rxPc[j]
                                   /\ rxPort'[j] = rxPort[j] /\ (Holds(j)' <=> Holds(j))
      /\ \A s \in Streams : Loaded(s)' <=> Loaded(s)
  BY <1>1, <1>2 DEF RxClassify, Holds, Loaded, Gives, TypeInv, TypeOK
<1>4. CopyInSlot'
  BY <1>1 DEF OwnInv, CopyInSlot, BufferOf
<1>5. CASE rxPc'[k] = "put" /\ UNCHANGED <<frees, rxBuf>> /\ rxPort'[k] = addr
  <2>1. \A j \in Sessions : Holds(j)' => Holds(j) /\ rxBuf'[j] = rxBuf[j]
    BY <1>1, <1>3, <1>5
  <2>2. OwnInv'
    BY <1>0, <1>1, <1>3, <1>4, <1>5, <2>1, OwnFrame
  <2>3. FirstInOrder'
    BY <1>1, <1>3, <1>5 DEF FirstInOrder
  <2> QED BY <2>2, <2>3
<1>6. CASE rxPc'[k] \in {"none", "top"} /\ Free(rxBuf[k])
  <2> DEFINE b == rxBuf[k]
  <2>1. ~Holds(k)' /\ frees[b] = 0 /\ frees' = [frees EXCEPT ![b] = 1] /\ b \in Buffers
        /\ WasSent(b)
    <3>1. frees[b] = 0 /\ b \in Buffers /\ WasSent(b)
      BY <1>1 DEF OwnInv, FreedOnce, AllSent
    <3>2. frees' = [frees EXCEPT ![b] = 1]
      BY <1>6, <3>1 DEF Free
    <3> QED BY <1>6, <3>1, <3>2 DEF Holds
  <2>2. /\ \A j \in Sessions : Holds(j)' => Holds(j) /\ rxBuf'[j] = rxBuf[j] /\ rxBuf[j] # b
        /\ \A s \in Streams : Loaded(s) => slot[s] # b
    BY <1>1, <1>3, <2>1 DEF OwnInv, OneOwner
  <2> HIDE DEF b
  <2>3. \A c \in Buffers : frees'[c] = IF c = b THEN 1 ELSE frees[c]
    BY <2>1 DEF TypeInv, TypeOK
  <2>4. \A s \in Streams : slot[s] # None => slot[s] \in Buffers
    BY DEF TypeInv, TypeOK
  <2>5. /\ \A j \in Sessions : Holds(j) => rxBuf[j] \in Buffers
        /\ \A s \in Streams : Loaded(s) => slot[s] \in Buffers
    BY OwnersFilled DEF OwnInv
  <2>6. FreedOnce'
    BY <1>1, <1>3, <2>2, <2>3, <2>4, <2>5 DEF OwnInv, FreedOnce
  <2>7. OneOwner'
    BY <1>1, <1>3, <2>2 DEF OwnInv, OneOwner
  <2>8. AllSent'
    BY <1>1, <1>3, <2>1, <2>2, <2>3 DEF OwnInv, AllSent, WasSent
  <2>9. FirstInOrder'
    BY <1>1, <1>3, <2>1, <2>2 DEF FirstInOrder
  <2> QED BY <1>4, <2>6, <2>7, <2>8, <2>9 DEF OwnInv
<1> QED
  BY <1>5, <1>6 DEF RxClassify, TypeInv, TypeOK

LEMMA OwnPut ==
  ASSUME TypeInv, TurnInv, OwnOrder, NEW k \in Sessions, RxPut(k)
  PROVE  OwnOrder' /\ \A s \in Streams : slot'[s] # slot[s] => slot[s] = None \/ frees[slot[s]] > 0
<1> USE DEF OwnOrder, sessionVars, handVars, rxVars, wkVars
<1>0. \A q \in Ports : sent[q] \in Nat
  BY DEF TypeInv, TypeOK
<1>a. PICK r \in Streams, b \in Buffers : r = rxPort[k] /\ b = rxBuf[k]
  BY DEF RxPut, TypeInv, Filled
<1>1. ~Loaded(r) /\ Holds(k)
  BY <1>a, TurnExclusive DEF RxPut, TurnInv, Holds
<1>2. /\ slot' = [slot EXCEPT ![r] = b] /\ rxPc' = [rxPc EXCEPT ![k] = "post"]
      /\ rxBuf' = [rxBuf EXCEPT ![k] = None]
      /\ UNCHANGED <<frees, sent, addr, sessions, expected, rxPort, full, wkPc, wkBuf>>
  BY <1>a DEF RxPut
<1>3. rxPort'[k] = r /\ rxPc[k] = "put"
  BY <1>a, <1>2 DEF RxPut
<1>4. /\ slot'[r] = b /\ \A s \in Streams : s # r => slot'[s] = slot[s]
      /\ rxPc'[k] = "post"
      /\ \A j \in Sessions \ {k} : rxBuf'[j] = rxBuf[j] /\ rxPc'[j] = rxPc[j]
  BY <1>1, <1>2 DEF TypeInv, TypeOK
<1>5. /\ ~Holds(k)' /\ \A j \in Sessions \ {k} : Holds(j)' <=> Holds(j)
      /\ Loaded(r)'
      /\ \A s \in Streams : s # r => (Loaded(s)' <=> Loaded(s))
  <2>1. ~Holds(k)' /\ \A j \in Sessions \ {k} : Holds(j)' <=> Holds(j)
    BY <1>4 DEF Holds
  <2>2. Loaded(r)'
    BY <1>3, <1>4 DEF Loaded, Gives
  <2>3. \A s \in Streams : s # r => (Loaded(s)' <=> Loaded(s))
    BY <1>2, <1>3, <1>4 DEF Loaded, Gives
  <2> QED BY <2>1, <2>2, <2>3
<1>6. /\ frees[b] = 0 /\ WasSent(b)
      /\ \A j \in Sessions \ {k} : Holds(j) => rxBuf[j] # b
      /\ \A s \in Streams : Loaded(s) => slot[s] # b
  BY <1>a, <1>1 DEF OwnInv, FreedOnce, AllSent, OneOwner
<1>7. CopyInSlot'
  <2> SUFFICES ASSUME NEW w \in Workers, wkPc[w] = "work" PROVE BufferOf(w)' = slot'[w[1]]
    BY <1>2 DEF CopyInSlot
  <2>1. w[1] \in Streams /\ w[1] # r /\ BufferOf(w) = slot[w[1]]
    BY <1>1, WorkerShape DEF OwnInv, CopyInSlot, Loaded
  <2> QED BY <1>2, <1>4, <2>1 DEF BufferOf
<1>8. FreedOnce'
  BY <1>2, <1>4, <1>5, <1>6 DEF OwnInv, FreedOnce
<1>9. OneOwner'
  BY <1>2, <1>4, <1>5, <1>6 DEF OwnInv, OneOwner
<1>10. AllSent'
  BY <1>2, <1>4, <1>5, <1>6 DEF OwnInv, AllSent, WasSent
<1>11. FirstInOrder'
  <2> SUFFICES ASSUME sessions <= 1 PROVE FirstInOrder'
    BY <1>2 DEF FirstInOrder
  <2>1. \A j \in Sessions : ~Holds(j)'
    BY <1>3, <1>5, OnlyFirst DEF Holds
  <2>2. b[1] = r /\ expected[r] <= b[2]
    BY <1>a, <1>1, <1>3 DEF FirstInOrder
  <2> QED BY <1>2, <1>4, <1>5, <2>1, <2>2 DEF FirstInOrder
<1>12. slot[r] = None \/ frees[slot[r]] > 0
  BY <1>1 DEF OwnInv, FreedOnce
<1> QED BY <1>4, <1>7, <1>8, <1>9, <1>10, <1>11, <1>12 DEF OwnInv

LEMMA OwnServe ==
  ASSUME TypeInv, TurnInv, OwnOrder, NEW w \in Workers, WkServe(w)
  PROVE  OwnOrder' /\ (sessions = 1 => BufferOf(w)[2] >= expected[w[1]])
<1> USE DEF OwnOrder, sessionVars, handVars, rxVars, wkVars
<1> DEFINE s == w[1]  b == slot[s]
<1>0. \A q \in Ports : sent[q] \in Nat
  BY DEF TypeInv, TypeOK
<1>1. s \in Streams /\ Loaded(s) /\ b \in Buffers /\ BufferOf(w) = b
  <2>1. s \in Streams /\ Loaded(s) /\ BufferOf(w) = b
    BY WorkerShape DEF WkServe, Loaded, OwnInv, CopyInSlot
  <2> QED BY <2>1, OwnersFilled DEF OwnInv
<1>2. /\ wkPc[w] = "work" /\ expected' = [expected EXCEPT ![s] = b[2] + 1]
      /\ wkPc' = [wkPc EXCEPT ![w] = "post"] /\ wkBuf' = [wkBuf EXCEPT ![w] = None]
      /\ frees' = [frees EXCEPT ![b] = @ + 1]
      /\ UNCHANGED <<slot, sent, addr, sessions, rxPc, rxBuf, rxPort, full>>
  BY <1>1 DEF WkServe, Free
<1>3. /\ full[s] = 0 /\ \A k \in Sessions : ~Gives(k, s)
      /\ \A v \in Workers : v[1] = s /\ wkPc[v] = "work" => v = w
  BY <1>1, <1>2, TurnExclusive DEF TurnInv
<1>4. /\ frees[b] = 0 /\ WasSent(b) /\ b # None /\ b[2] \in Nat
      /\ \A k \in Sessions : Holds(k) => rxBuf[k] # b
      /\ \A r \in Streams : Loaded(r) /\ r # s => slot[r] # b
  BY <1>1, BufferShape DEF OwnInv, FreedOnce, AllSent, OneOwner
<1>5. w[1] = s /\ b = slot[s]
  OBVIOUS
<1> HIDE DEF s, b
<1>6. /\ wkPc'[w] = "post" /\ \A v \in Workers : v # w => wkPc'[v] = wkPc[v] /\ wkBuf'[v] = wkBuf[v]
      /\ \A c \in Buffers : frees'[c] = IF c = b THEN 1 ELSE frees[c]
      /\ \A r \in Streams : expected'[r] = IF r = s THEN b[2] + 1 ELSE expected[r]
  BY <1>1, <1>2, <1>4 DEF TypeInv, TypeOK
<1>7. /\ \A k \in Sessions : Holds(k)' <=> Holds(k)
      /\ ~Loaded(s)'
      /\ \A r \in Streams : r # s => (Loaded(r)' <=> Loaded(r))
  <2>1. \A k \in Sessions : Holds(k)' <=> Holds(k)
    BY <1>2 DEF Holds
  <2>2. ~Loaded(s)'
    BY <1>2, <1>3, <1>6 DEF Loaded, Gives
  <2>3. \A r \in Streams : r # s => (Loaded(r)' <=> Loaded(r))
    BY <1>2, <1>5, <1>6 DEF Loaded, Gives
  <2> QED BY <2>1, <2>2, <2>3
<1>8. CopyInSlot'
  BY <1>2, <1>6 DEF OwnInv, CopyInSlot, BufferOf
<1>9. /\ \A k \in Sessions : Holds(k) => rxBuf[k] \in Buffers
      /\ \A r \in Streams : slot[r] # None => slot[r] \in Buffers
      /\ \A r \in Streams : Loaded(r) => slot[r] \in Buffers
  BY OwnersFilled DEF OwnInv, TypeInv, TypeOK
<1>10. FreedOnce'
  <2>1. \A c \in Buffers : frees'[c] <= 1
    BY <1>6 DEF OwnInv, FreedOnce
  <2>2. \A k \in Sessions : Holds(k)' => frees'[rxBuf[k]] = 0
    BY <1>4, <1>6, <1>7, <1>9 DEF OwnInv, FreedOnce
  <2>3. \A r \in Streams : Loaded(r)' => frees'[slot[r]] = 0
    BY <1>4, <1>6, <1>7, <1>9 DEF OwnInv, FreedOnce
  <2>4. \A r \in Streams : slot[r] # None /\ ~Loaded(r)' => frees'[slot[r]] > 0
    BY <1>5, <1>6, <1>7, <1>9 DEF OwnInv, FreedOnce
  <2> QED BY <1>2, <2>1, <2>2, <2>3, <2>4 DEF FreedOnce
<1>11. OneOwner'
  BY <1>2, <1>7 DEF OwnInv, OneOwner
<1>12. AllSent'
  BY <1>2, <1>4, <1>6, <1>7 DEF OwnInv, AllSent, WasSent
<1>13. FirstInOrder'
  <2> SUFFICES ASSUME sessions <= 1 PROVE FirstInOrder'
    BY <1>2 DEF FirstInOrder
  <2>1. b[1] = s /\ b[2] <= sent[s]
    BY <1>1, <1>4, <1>5 DEF FirstInOrder, WasSent
  <2>2. \A r \in Streams : r \in Ports
    BY DEF Ports
  <2>3. \A r \in Streams : expected'[r] <= sent[r] + 1
    BY <1>0, <1>4, <1>6, <2>1, <2>2 DEF FirstInOrder
  <2>4. \A k \in Sessions : Holds(k) => rxBuf[k][2] \in Nat
    BY <1>9, BufferShape
  <2>5. \A k \in Sessions : Holds(k) /\ rxBuf[k][1] = s => b[2] + 1 <= rxBuf[k][2]
    BY <1>1, <1>4, <1>5, <2>4 DEF FirstInOrder
  <2> QED BY <1>2, <1>6, <1>7, <2>3, <2>5 DEF FirstInOrder
<1>14. sessions = 1 => b[2] >= expected[s]
  BY <1>1, <1>5, <1>4 DEF FirstInOrder, TypeInv, TypeOK
<1> QED BY <1>1, <1>5, <1>8, <1>10, <1>11, <1>12, <1>13, <1>14 DEF OwnInv

\* The steps that hand a buffer on without looking at it, or do not touch one.
LEMMA OwnOther ==
  ASSUME TypeInv, TurnInv, OwnOrder,
         \/ \E p \in Ports : Lose(p)
         \/ \E k \in Sessions : Timer(k) \/ RxStart(k) \/ RxTop(k) \/ RxPost(k)
         \/ \E w \in Workers : WkReady(w) \/ WkTake(w)
         \/ UNCHANGED vars
  PROVE  OwnOrder'
<1> USE DEF OwnOrder, sessionVars, handVars, rxVars, wkVars
<1>0. \A q \in Ports : sent[q] \in Nat
  BY DEF TypeInv, TypeOK
<1>1. ASSUME UNCHANGED <<frees, slot, sessions, expected, addr, rxBuf, full, wkPc, wkBuf>>,
             \A p \in Ports : sent'[p] \in Nat /\ sent'[p] >= sent[p],
             \A k \in Sessions : rxPc'[k] \in {"got", "put", "post"} \/ rxPc[k] \in {"got", "put", "post"}
                                   => rxPc'[k] = rxPc[k] /\ rxPort'[k] = rxPort[k]
      PROVE  OwnOrder'
  <2>1. CopyInSlot'
    BY <1>1 DEF OwnInv, CopyInSlot, BufferOf
  <2>2. \A k \in Sessions : Holds(k)' => /\ Holds(k) /\ rxBuf'[k] = rxBuf[k]
                                         /\ rxPc'[k] = rxPc[k] /\ rxPort'[k] = rxPort[k]
    BY <1>1 DEF Holds
  <2>3. \A s \in Streams : Loaded(s)' <=> Loaded(s)
    BY <1>1 DEF Loaded, Gives
  <2> QED BY <1>1, <2>1, <2>2, <2>3, OwnFrame, OrderFrame
<1>2. ASSUME NEW p \in Ports, Lose(p) PROVE OwnOrder'
  <2>1. \A q \in Ports : sent'[q] \in Nat /\ sent'[q] >= sent[q]
    BY <1>0, <1>2 DEF Lose, TypeInv, TypeOK
  <2> QED BY <1>1, <1>2, <2>1 DEF Lose
<1>3. ASSUME NEW k \in Sessions, Timer(k) \/ RxStart(k) \/ RxTop(k) PROVE OwnOrder'
  <2>1. UNCHANGED <<frees, slot, sent, sessions, expected, addr, rxBuf, rxPort, full, wkPc, wkBuf>>
    BY <1>3 DEF Timer, RxStart, RxTop
  <2>2. \A j \in Sessions : rxPc'[j] \in {"got", "put", "post"} \/ rxPc[j] \in {"got", "put", "post"}
                              => rxPc'[j] = rxPc[j]
    BY <1>3 DEF Timer, RxStart, RxTop, TypeInv, TypeOK
  <2> QED BY <1>0, <1>1, <2>1, <2>2
<1>4. ASSUME NEW k \in Sessions, RxPost(k) PROVE OwnOrder'
  <2>1. PICK r \in Streams : r = rxPort[k] /\ rxPc[k] = "post"
    BY <1>4 DEF RxPost, TypeInv, Filled
  <2>2. /\ full' = [full EXCEPT ![r] = @ + 1]
        /\ rxPc' = [rxPc EXCEPT ![k] = "top"] /\ rxPort' = [rxPort EXCEPT ![k] = None]
        /\ UNCHANGED <<frees, slot, sent, sessions, expected, addr, rxBuf, wkPc, wkBuf>>
    BY <1>4, <2>1 DEF RxPost
  <2>3. \A j \in Sessions : Holds(j)' => /\ Holds(j) /\ rxPc'[j] = rxPc[j] /\ rxPort'[j] = rxPort[j]
    BY <2>2 DEF Holds, TypeInv, TypeOK
  <2>4. Loaded(r) /\ Loaded(r)'
    <3>1. full'[r] > 0
      BY <2>1, <2>2 DEF TypeInv, TypeOK
    <3> QED BY <2>1, <3>1 DEF Loaded, Gives
  <2>5. \A s \in Streams : s # r => (Loaded(s)' <=> Loaded(s))
    <3>1. \A s \in Streams : s # r => full'[s] = full[s]
      BY <2>2 DEF TypeInv, TypeOK
    <3>2. \A s \in Streams, j \in Sessions : s # r =>
            (rxPc'[j] = "post" /\ rxPort'[j] = s <=> rxPc[j] = "post" /\ rxPort[j] = s)
      BY <2>1, <2>2 DEF TypeInv, TypeOK
    <3> QED BY <2>2, <3>1, <3>2 DEF Loaded, Gives
  <2>6. CopyInSlot'
    BY <2>2 DEF OwnInv, CopyInSlot, BufferOf
  <2>7. \A s \in Streams : Loaded(s)' <=> Loaded(s)
    BY <2>4, <2>5
  <2> QED BY <1>0, <2>2, <2>3, <2>6, <2>7, OwnFrame, OrderFrame
<1>5. ASSUME NEW w \in Workers, WkReady(w) PROVE OwnOrder'
  <2>1. /\ wkPc[w] = "post" /\ wkPc' = [wkPc EXCEPT ![w] = "wait"]
        /\ UNCHANGED <<frees, slot, sent, sessions, expected, addr, rxPc, rxBuf, rxPort, full, wkBuf>>
    BY <1>5 DEF WkReady
  <2>2. \A v \in Workers : wkPc'[v] = "work" <=> wkPc[v] = "work"
    BY <2>1 DEF TypeInv, TypeOK
  <2>3. CopyInSlot'
    BY <2>1, <2>2 DEF OwnInv, CopyInSlot, BufferOf
  <2>4. \A s \in Streams : Loaded(s)' <=> Loaded(s)
    BY <2>1, <2>2 DEF Loaded, Gives
  <2>5. \A k \in Sessions : Holds(k)' <=> Holds(k)
    BY <2>1 DEF Holds
  <2> QED BY <1>0, <2>1, <2>3, <2>4, <2>5, OwnFrame, OrderFrame
<1>6. ASSUME NEW w \in Workers, WkTake(w) PROVE OwnOrder'
  <2> DEFINE r == w[1]
  <2>1. r \in Streams /\ wkPc[w] = "wait" /\ full[r] > 0
    BY <1>6, WorkerShape DEF WkTake
  <2>2. /\ full' = [full EXCEPT ![r] = @ - 1] /\ wkPc' = [wkPc EXCEPT ![w] = "work"]
        /\ wkBuf' = [wkBuf EXCEPT ![w] = IF r \in Ddcs THEN slot[r] ELSE None]
        /\ UNCHANGED <<frees, slot, sent, sessions, expected, addr, rxPc, rxBuf, rxPort>>
    BY <1>6 DEF WkTake
  <2>3. /\ wkPc'[w] = "work" /\ (r \in Ddcs => wkBuf'[w] = slot[r])
        /\ \A v \in Workers : v # w => wkPc'[v] = wkPc[v] /\ wkBuf'[v] = wkBuf[v]
        /\ \A s \in Streams : s # r => full'[s] = full[s]
    BY <2>2 DEF TypeInv, TypeOK
  <2>4. CopyInSlot'
    BY <2>2, <2>3 DEF OwnInv, CopyInSlot, BufferOf
  <2>5. w[1] = r
    OBVIOUS
  <2> HIDE DEF r
  <2>6. \A s \in Streams : Loaded(s)' <=> Loaded(s)
    <3>1. Loaded(r) /\ Loaded(r)'
      BY <2>1, <2>3, <2>5 DEF Loaded
    <3>2. \A s \in Streams : s # r => (Loaded(s)' <=> Loaded(s))
      BY <2>2, <2>3, <2>5 DEF Loaded, Gives
    <3> QED BY <3>1, <3>2
  <2>7. \A k \in Sessions : Holds(k)' <=> Holds(k)
    BY <2>2 DEF Holds
  <2> QED BY <1>0, <2>2, <2>4, <2>6, <2>7, OwnFrame, OrderFrame
<1>7. CASE UNCHANGED vars
  BY <1>0, <1>1, <1>7 DEF vars
<1> QED BY <1>2, <1>3, <1>4, <1>5, <1>6, <1>7

LEMMA OwnStep ==
  ASSUME Unhurried
  PROVE  TypeInv /\ TurnInv /\ OwnOrder /\ [Next]_vars => OwnOrder'
BY OwnCommand, OwnReceive, OwnClassify, OwnPut, OwnServe, OwnOther
DEF Next, Receiver, Worker

LEMMA OwnHolds ==
  ASSUME Unhurried
  PROVE  Spec => [](TypeInv /\ TurnInv /\ OwnOrder)
<1>1. TypeInv /\ TurnInv /\ [Next]_vars => TurnInv'
  BY TurnStep
<1>2. TypeInv /\ TurnInv /\ OwnOrder /\ [Next]_vars => OwnOrder'
  BY OwnStep
<1>3. Init => OwnOrder
  BY OwnInit, OrderInit DEF OwnOrder
<1> QED BY <1>1, <1>2, <1>3, TypeInit, TypeStep, TurnInit, PTL DEF Spec

\* However often the radio was stopped and started, no packet's buffer is freed
\* twice and no worker follows a pointer to memory that was freed.
THEOREM OwnershipCorrect ==
  ASSUME Unhurried
  PROVE  Spec => []BuffersOwned
<1>1. TypeInv /\ TurnInv /\ OwnOrder => BuffersOwned
  <2> SUFFICES ASSUME TypeInv, OwnInv, NEW w \in Workers, wkPc[w] = "work"
               PROVE  BufferOf(w) # None /\ frees[BufferOf(w)] = 0
    BY DEF BuffersOwned, OwnOrder, OwnInv, FreedOnce
  <2>1. BufferOf(w) = slot[w[1]] /\ Loaded(w[1]) /\ w[1] \in Streams
    BY WorkerShape DEF OwnInv, CopyInSlot, Loaded
  <2> QED BY <2>1, PortsAssumption DEF OwnInv, FreedOnce, TypeInv, Filled
<1>2. Spec => [](TypeInv /\ TurnInv /\ OwnOrder)
  BY OwnHolds
<1> QED BY <1>1, <1>2, PTL

\* The steps that change a slot, or end a worker's work on a packet.
LEMMA SlotSteps ==
  ASSUME TypeInv, [Next]_vars
  PROVE  /\ slot' # slot => \E k \in Sessions : RxPut(k)
         /\ \A w \in Workers : wkPc[w] = "work" /\ wkPc'[w] = "post" =>
              WkServe(w) \/ (sessions' = sessions + 1 /\ StartWorkers)
<1> USE DEF sessionVars, handVars, rxVars, wkVars
<1>1. CASE Command
  BY <1>1 DEF Command, StartWorkers, StartReceiver, StopFlag, StopClose
<1>6. CASE UNCHANGED wkPc /\ (slot' # slot => \E k \in Sessions : RxPut(k))
  BY <1>6
<1>2. ASSUME NEW p \in Ports, Lose(p) \/ \E k \in Sessions : RxPacket(k, p)
      PROVE  UNCHANGED <<slot, wkPc>>
  BY <1>2 DEF Lose, RxPacket
<1>3. ASSUME NEW k \in Sessions, Timer(k) \/ Receiver(k)
      PROVE  UNCHANGED wkPc /\ (slot' # slot => RxPut(k))
  BY <1>3 DEF Timer, Receiver, RxStart, RxTop, RxClassify, RxPut, RxPost
<1>4. ASSUME NEW v \in Workers, Worker(v)
      PROVE  UNCHANGED slot /\ \A w \in Workers : wkPc[w] = "work" /\ wkPc'[w] = "post" => WkServe(w)
  BY <1>4 DEF Worker, WkReady, WkTake, WkServe, TypeInv, TypeOK
<1>5. CASE UNCHANGED vars
  BY <1>5 DEF vars
<1>7. CASE \E v \in Workers : Worker(v)
  BY <1>4, <1>7
<1> QED BY <1>1, <1>2, <1>3, <1>5, <1>6, <1>7 DEF Next

\* A buffer still in use is never replaced in its slot, and in the first session
\* every stream serves its packets in the order in which the radio sent them.
THEOREM SlotsCorrect ==
  ASSUME Unhurried
  PROVE  Spec => SlotsInOrder
<1>1. TypeInv /\ TurnInv /\ OwnOrder /\ [Next]_vars =>
        [/\ \A s \in Streams : slot'[s] # slot[s] => slot[s] = None \/ frees[slot[s]] > 0
         /\ \A w \in Workers :
              sessions = 1 /\ wkPc[w] = "work" /\ wkPc'[w] = "post"
                => BufferOf(w)[2] >= expected[w[1]]]_vars
  <2> SUFFICES ASSUME TypeInv, TurnInv, OwnOrder, [Next]_vars
               PROVE  /\ \A s \in Streams : slot'[s] # slot[s] => slot[s] = None \/ frees[slot[s]] > 0
                      /\ \A w \in Workers :
                           sessions = 1 /\ wkPc[w] = "work" /\ wkPc'[w] = "post"
                             => BufferOf(w)[2] >= expected[w[1]]
    OBVIOUS
  <2>1. ASSUME NEW s \in Streams, slot'[s] # slot[s]
        PROVE  slot[s] = None \/ frees[slot[s]] > 0
    BY <2>1, SlotSteps, OwnPut
  <2>2. ASSUME NEW w \in Workers, sessions = 1, wkPc[w] = "work", wkPc'[w] = "post"
        PROVE  BufferOf(w)[2] >= expected[w[1]]
    <3>1. CASE WkServe(w)
      BY <2>2, <3>1, OwnServe
    <3>2. CASE StartWorkers
      BY <2>2, <3>2 DEF StartWorkers, Quiet
    <3> QED BY <2>2, <3>1, <3>2, SlotSteps
  <2> QED BY <2>1, <2>2
<1>2. Spec => [](TypeInv /\ TurnInv /\ OwnOrder)
  BY OwnHolds
<1> QED BY <1>1, <1>2, PTL DEF Spec, SlotsInOrder
=============================================================================
