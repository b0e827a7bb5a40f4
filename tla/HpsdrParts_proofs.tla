------------------------ MODULE HpsdrParts_proofs --------------------------
(*****************************************************************************)
(* Theorems about the parts of hpsdr and the link that share no state, side  *)
(* by side as in HpsdrParts and LinkParts: Discovery, RadioPackets,          *)
(* RadioLink and CommandLink, for any radios, controllers and commands.      *)
(*****************************************************************************)
EXTENDS HpsdrParts, LinkParts, Sequences, FiniteSets, SequenceTheorems, FiniteSetTheorems,
        WellFoundedInduction, TLAPS

----------------------------------------------------------------------------
(* The search for radios *)

\* Every interface lets a broadcast out, so that each search is waited for.
Broadcasting ==
  /\ SearchUnreachable = {} /\ SearchInterfaces \in Seq(STRING) /\ SearchMaxDevices \in Nat

Places == 1 .. Len(Search!Searches)
Names == {SearchInterfaces[k] : k \in DOMAIN SearchInterfaces} \cup {"TCP", SearchNone}
Found == SearchRadios \cup {SearchFixed, SearchNone}

SearchTypes ==
  /\ dPlace \in 1 .. Len(Search!Searches) + 1 /\ dMain \in {"open", "send", "join", "done"}
  /\ dSocket \in 0 .. Len(Search!Searches)
  /\ dDevices \in 0 .. SearchMaxDevices /\ dBefore \in Nat /\ dHeard \in Nat
  /\ dInterface \in Names
  /\ dThread \in [Places ->
       [pc : {"none", "start", "wait", "describe", "locate", "again", "ended"},
        socket : Nat, answer : [radio : Found, to : Nat] \cup {SearchNone}]]
  /\ dAir \subseteq [radio : Found, to : Nat]
  /\ dDiscovered \in [0 .. SearchMaxDevices - 1 ->
       [what : Found, at : Found, over : Names, tcp : BOOLEAN, free : BOOLEAN]]
  /\ dStarted \subseteq 0 .. SearchMaxDevices - 1

Searching == dMain \in {"send", "join"}
InHand == Searching /\ dThread[dPlace].pc \in {"describe", "locate"}
Tcp == Search!Search.over = "TCP"

\* One thread at a time collects, that of the search the main thread waits for,
\* and the answers under way are to that search.
OneCollector ==
  /\ \A p \in Places : ~(Searching /\ p = dPlace) => dThread[p].pc \in {"none", "ended"}
  /\ dMain # "join" => dAir = {}
  /\ Searching =>
       /\ dPlace \in Places /\ dSocket = dPlace /\ dThread[dPlace].pc # "none"
       /\ dMain = "send" => dThread[dPlace].pc \in {"start", "wait"}
       /\ dThread[dPlace].pc = "wait" => dThread[dPlace].socket = dPlace
       /\ dThread[dPlace].pc = "ended" => dAir = {}
       /\ \A a \in dAir : a.to = dPlace /\ a.radio \in Search!Answering
       /\ dThread[dPlace].pc \in {"describe", "locate"} =>
            dThread[dPlace].answer.radio \in Search!Answering

\* An entry for each answer there was room for, the one in hand to come.
Counted ==
  /\ InHand => dDevices < SearchMaxDevices /\ dHeard = dDevices + 1
  /\ ~InHand => dDevices = IF dHeard < SearchMaxDevices THEN dHeard ELSE SearchMaxDevices
  /\ dMain = "done" => Len(dManifest) = dDevices

Good(e) ==
  /\ e.what = e.at /\ (e.over = "TCP" => e.what = SearchFixed)
  /\ e.over # "TCP" => e.over \in SearchReach[e.what]

\* Every entry is right, but for the one of the fixed address, whose interface is
\* put right when its search ends.
Entered ==
  /\ ~Searching => \A d \in 0 .. dDevices - 1 : Good(dDiscovered[d])
  /\ InHand /\ dThread[dPlace].pc = "locate" =>
       dDiscovered[dDevices].what = dThread[dPlace].answer.radio
  /\ Searching /\ ~Tcp =>
       /\ dInterface = Search!Search.over
       /\ \A d \in 0 .. dDevices - 1 : Good(dDiscovered[d])
  /\ Searching /\ Tcp =>
       /\ dDevices \in dBefore .. dBefore + 1
       /\ \A d \in 0 .. dBefore - 1 : Good(dDiscovered[d])
       /\ dDevices = dBefore + 1 =>
            dDiscovered[dBefore].what = SearchFixed /\ dDiscovered[dBefore].at = SearchFixed
       /\ dMain = "send" => dDevices = dBefore
       /\ InHand => dDevices = dBefore /\ dAir = {}
       /\ dDevices = dBefore + 1 => dAir = {}

SearchInv == SearchTypes /\ OneCollector /\ Counted /\ Entered

\* A set of numbers that is not empty has a least one.
LEMMA Least ==
  ASSUME NEW I, I \subseteq Nat, I # {}
  PROVE  Search!Min(I) \in I
<1>1. IsWellFoundedOn(OpToRel(<, Nat), Nat)
  BY NatLessThanWellFounded
<1>2. PICK x \in I : \A y \in I : ~(<<y, x>> \in OpToRel(<, Nat))
  BY <1>1, WFMin
<1>3. ASSUME NEW y \in I PROVE x <= y
  <2> SUFFICES ASSUME y < x PROVE FALSE
    OBVIOUS
  <2>1. <<y, x>> \in Nat \X Nat /\ <<y, x>>[1] = y /\ <<y, x>>[2] = x
    OBVIOUS
  <2>2. <<y, x>> \in OpToRel(<, Nat)
    BY <2>1 DEF OpToRel
  <2> QED BY <1>2, <2>2
<1> QED BY <1>3 DEF Search!Min

\* There are finitely many searches, each over an interface or the fixed address.
LEMMA SearchesListed ==
  ASSUME Broadcasting
  PROVE  /\ Search!Searches \in Seq([protocol : {1, 2}, over : Names])
         /\ Len(Search!Searches) \in Nat /\ DOMAIN Search!Searches = Places
<1> DEFINE S == [protocol : {1, 2}, over : Names]
           I == {i \in 1 .. Len(SearchInterfaces) : SearchInterfaces[i] = SearchLastLooked}
           at == Search!SelectInSeq(SearchInterfaces, LAMBDA name : name = SearchLastLooked)
           cut == Search!UpTo(SearchInterfaces)
           first ==
              [k \in DOMAIN SearchInterfaces |-> [protocol |-> 1, over |-> SearchInterfaces[k]]]
           tcp == << [protocol |-> 1, over |-> "TCP"] >>
           second == [k \in DOMAIN cut |-> [protocol |-> 2, over |-> SearchInterfaces[k]]]
<1>1. SearchInterfaces \in Seq(STRING) /\ Len(SearchInterfaces) \in Nat
  BY DEF Broadcasting
<1>2. cut \in Seq(STRING) /\ Len(cut) <= Len(SearchInterfaces)
  <2>0. cut = IF at = 0 THEN SearchInterfaces ELSE SubSeq(SearchInterfaces, 1, at)
    BY DEF Search!UpTo
  <2>1. CASE I = {}
    <3>1. at = 0
      BY <2>1 DEF Search!SelectInSeq
    <3> HIDE DEF at, cut
    <3> QED BY <1>1, <2>0, <3>1
  <2>2. CASE I # {}
    <3>1. at = Search!Min(I)
      BY <2>2 DEF Search!SelectInSeq
    <3>2. Search!Min(I) \in 1 .. Len(SearchInterfaces)
      <4>1. I \subseteq Nat
        BY <1>1
      <4>2. Search!Min(I) \in I
        BY ONLY <2>2, <4>1, Least
      <4> QED BY <4>2
    <3>3. /\ SubSeq(SearchInterfaces, 1, Search!Min(I)) \in Seq(STRING)
          /\ Len(SubSeq(SearchInterfaces, 1, Search!Min(I))) <= Len(SearchInterfaces)
      <4>1. PICK k \in 1 .. Len(SearchInterfaces) : Search!Min(I) = k
        BY <3>2
      <4> HIDE DEF I
      <4>2. /\ SubSeq(SearchInterfaces, 1, k) \in Seq(STRING)
            /\ Len(SubSeq(SearchInterfaces, 1, k)) = k
        BY ONLY <1>1, k \in 1 .. Len(SearchInterfaces)
      <4> QED BY <4>1, <4>2
    <3>4. Search!Min(I) # 0
      BY <3>2
    <3> HIDE DEF at, cut, I
    <3> QED BY <2>0, <3>1, <3>3, <3>4
  <2> QED BY <2>1, <2>2
<1> HIDE DEF cut
<1>3. ASSUME NEW n \in 0 .. Len(SearchInterfaces), NEW p \in {1, 2}
      PROVE  [k \in 1 .. n |-> [protocol |-> p, over |-> SearchInterfaces[k]]] \in Seq(S)
  <2>1. \A k \in 1 .. n : [protocol |-> p, over |-> SearchInterfaces[k]] \in S
    BY <1>1 DEF Names
  <2> HIDE DEF S
  <2>2. [k \in 1 .. n |-> [protocol |-> p, over |-> SearchInterfaces[k]]] \in [1 .. n -> S]
    BY <2>1
  <2>3. n \in Nat
    BY <1>1
  <2>4. \A f \in [1 .. n -> S] : f \in Seq(S)
    BY ONLY <2>3
  <2> QED BY ONLY <2>2, <2>4, Zenon
<1>4. first \in Seq(S) /\ second \in Seq(S)
  <2>1. /\ DOMAIN SearchInterfaces = 1 .. Len(SearchInterfaces)
        /\ Len(SearchInterfaces) \in 0 .. Len(SearchInterfaces)
        /\ DOMAIN cut = 1 .. Len(cut) /\ Len(cut) \in 0 .. Len(SearchInterfaces)
    BY <1>1, <1>2
  <2> QED BY <1>3, <2>1
<1>5. tcp \in Seq(S)
  <2>1. [protocol |-> 1, over |-> "TCP"] \in S
    BY DEF Names
  <2> HIDE DEF S
  <2> QED BY <2>1
<1>6. Search!Searches = first \o tcp \o second
  BY DEF Search!Searches, cut
<1> HIDE DEF first, tcp, second, S
<1>7. Search!Searches \in Seq(S)
  BY ONLY <1>4, <1>5, <1>6, ConcatProperties
<1> QED BY <1>7 DEF Places, S

\* The search under way is one of the list, and while it lasts so are its answers.
LEMMA SearchHeld ==
  ASSUME Broadcasting, SearchTypes
  PROVE  /\ Places = 1 .. Len(Search!Searches) /\ Len(Search!Searches) \in Nat
         /\ dPlace \in Places => Search!Search.over \in Names
         /\ dPlace' = dPlace => /\ Search!Answering' = Search!Answering
                                /\ Search!Search' = Search!Search /\ (Tcp' <=> Tcp)
<1> DEFINE S == [protocol : {1, 2}, over : Names]
<1>1. dPlace \in Places => Search!Search \in S
  <2>1. Search!Searches \in Seq(S) /\ Len(Search!Searches) \in Nat
    BY SearchesListed
  <2> HIDE DEF S
  <2> QED BY <2>1 DEF Search!Search, Places
<1>2. dPlace \in Places => Search!Search.over \in Names
  BY <1>1
<1>3. dPlace' = dPlace => Search!Search' = Search!Search
  BY DEF Search!Search
<1>4. dPlace' = dPlace => Search!Answering' = Search!Answering /\ (Tcp' <=> Tcp)
  BY <1>3 DEF Search!Answering, Tcp
<1> QED BY <1>2, <1>3, <1>4, SearchesListed DEF Places

LEMMA SearchStart == ASSUME Broadcasting PROVE Search!Init => SearchInv
<1> SUFFICES ASSUME Search!Init PROVE SearchInv
  OBVIOUS
<1>1. /\ dPlace = 1 /\ dMain = "open" /\ dSocket = 0 /\ dInterface = SearchNone /\ dBefore = 0
      /\ dThread = [p \in Places |-> Search!NoThread]
      /\ dAir = {} /\ dHeard = 0 /\ dDevices = 0 /\ dStarted = {} /\ Len(Search!Searches) \in Nat
      /\ dDiscovered = [d \in 0 .. SearchMaxDevices - 1 |-> Search!Blank]
  BY SearchesListed DEF Search!Init
<1>2. Search!NoThread \in
       [pc : {"none", "start", "wait", "describe", "locate", "again", "ended"},
        socket : Nat, answer : [radio : Found, to : Nat] \cup {SearchNone}]
  BY DEF Search!NoThread
<1>3. Search!Blank \in [what : Found, at : Found, over : Names, tcp : BOOLEAN, free : BOOLEAN]
  BY DEF Search!Blank, Found, Names
<1>4. SearchTypes
  BY <1>1, <1>2, <1>3 DEF SearchTypes, Broadcasting, Names
<1>5. ~Searching /\ ~InHand
  BY <1>1 DEF Searching, InHand
<1>6. OneCollector
  BY <1>1, <1>5 DEF OneCollector, Search!NoThread
<1>7. Counted /\ Entered
  BY <1>1, <1>5 DEF Counted, Entered, Broadcasting
<1> QED BY <1>4, <1>6, <1>7 DEF SearchInv

\* The fixed address does not answer, or a search begins.
LEMMA SearchOpen ==
  ASSUME Broadcasting, SearchInv, Search!TcpFails \/ Search!Open
  PROVE  SearchInv'
<1> USE DEF Search!tableVars
<1>0. SearchTypes /\ dMain = "open" /\ dPlace \in Places /\ dAir = {} /\ ~Searching /\ ~InHand
  BY SearchesListed DEF SearchInv, OneCollector, Searching, InHand, Search!TcpFails, Search!Open
<1>1. CASE Search!TcpFails
  <2>1. /\ UNCHANGED <<dMain, dInterface, dBefore, dThread, dAir, dHeard, dDevices, dDiscovered,
                       dManifest, dStarted>>
        /\ dPlace' = dPlace + 1 /\ dSocket' = dPlace
    BY <1>1 DEF Search!TcpFails
  <2>2. SearchTypes'
    BY <1>0, <2>1, SearchHeld DEF SearchTypes
  <2>3. ~Searching' /\ ~InHand'
    BY <1>0, <2>1 DEF Searching, InHand
  <2>4. OneCollector'
    BY <1>0, <2>1, <2>3 DEF SearchInv, OneCollector
  <2>5. Counted' /\ Entered'
    BY <1>0, <2>1, <2>3 DEF SearchInv, Counted, Entered, Good
  <2> QED BY <2>2, <2>4, <2>5 DEF SearchInv
<1>2. CASE Search!Open
  <2>1. /\ UNCHANGED <<dPlace, dAir, dHeard, dDevices, dDiscovered, dManifest, dStarted>>
        /\ dMain' = "send" /\ dSocket' = dPlace /\ dBefore' = dDevices
        /\ dInterface' = IF Tcp THEN dInterface ELSE Search!Search.over
        /\ dThread' = [dThread EXCEPT ![dPlace].pc = "start"]
    BY <1>2 DEF Search!Open, Tcp
  <2>2. SearchTypes'
    <3>1. dInterface' \in Names
      BY <1>0, <2>1, SearchHeld DEF SearchTypes
    <3>2. /\ dSocket' \in 0 .. Len(Search!Searches) /\ dBefore' \in Nat
      BY <1>0, <2>1, SearchHeld DEF SearchTypes, Broadcasting
    <3> QED BY <1>0, <2>1, <3>1, <3>2, ZenonT(60) DEF SearchTypes
  <2>3. Searching' /\ ~InHand' /\ dThread'[dPlace].pc = "start"
    BY <1>0, <2>1 DEF Searching, InHand, SearchTypes
  <2>4. OneCollector'
    BY <1>0, <2>1, <2>3 DEF SearchInv, OneCollector, SearchTypes
  <2>5. Counted'
    BY <1>0, <2>1, <2>3 DEF SearchInv, Counted
  <2>6. Entered'
    BY <1>0, <2>1, <2>3, SearchHeld, SMTT(30)
       DEF SearchInv, SearchTypes, Entered, Good, Broadcasting
  <2> QED BY <2>2, <2>4, <2>5, <2>6 DEF SearchInv
<1> QED BY <1>1, <1>2

\* The broadcast, and the end of the search: the thread is waited for.
LEMMA SearchJoin ==
  ASSUME Broadcasting, SearchInv, Search!Broadcast \/ Search!Join
  PROVE  SearchInv'
<1> USE DEF Search!tableVars
<1>0. SearchTypes /\ Searching /\ dPlace \in Places /\ dSocket = dPlace /\ dPlace \in Nat
  BY SearchHeld DEF SearchInv, OneCollector, Searching, Search!Broadcast, Search!Join
<1>1. CASE Search!Broadcast
  <2>1. /\ UNCHANGED <<dPlace, dSocket, dInterface, dBefore, dThread, dHeard, dDevices,
                       dDiscovered, dManifest, dStarted>>
        /\ dMain = "send" /\ dMain' = "join"
        /\ dAir' = dAir \cup {[radio |-> r, to |-> dSocket] : r \in Search!Answering}
    BY <1>1 DEF Search!Broadcast, Broadcasting
  <2>2. dAir = {} /\ dThread[dPlace].pc \in {"start", "wait"}
    BY <1>0, <2>1 DEF SearchInv, OneCollector
  <2>3. Searching' /\ ~InHand' /\ ~InHand
    BY <2>1, <2>2 DEF Searching, InHand
  <2>4. Search!Answering \subseteq Found
    BY DEF Search!Answering, Found
  <2>5. dAir' \subseteq [radio : Found, to : Nat]
    BY <1>0, <2>1, <2>2, <2>4
  <2>6. SearchTypes'
    BY <1>0, <2>1, <2>5 DEF SearchTypes
  <2>7. \A a \in dAir' : a.to = dPlace /\ a.radio \in Search!Answering
    BY <1>0, <2>1, <2>2
  <2>8. OneCollector'
    BY <1>0, <2>1, <2>2, <2>3, <2>7, SearchHeld DEF SearchInv, OneCollector
  <2>9. Counted'
    BY <2>1, <2>3 DEF SearchInv, Counted
  <2>10. Entered'
    BY <1>0, <2>1, <2>2, <2>3, SearchHeld DEF SearchInv, SearchTypes, Entered, Good
  <2> QED BY <2>6, <2>8, <2>9, <2>10 DEF SearchInv
<1>2. CASE Search!Join
  <2>1. /\ UNCHANGED <<dSocket, dInterface, dBefore, dThread, dAir, dHeard, dDevices, dManifest,
                       dStarted>>
        /\ dMain = "join" /\ dThread[dPlace].pc = "ended" /\ dMain' = "open" /\ dPlace' = dPlace + 1
        /\ dDiscovered' = IF Tcp /\ dDevices = dBefore + 1
                          THEN [dDiscovered EXCEPT ![dBefore].over = "TCP", ![dBefore].tcp = TRUE]
                          ELSE dDiscovered
    BY <1>2 DEF Search!Join, Tcp
  <2>2. dAir = {} /\ ~InHand /\ ~Searching' /\ ~InHand'
    BY <1>0, <2>1 DEF SearchInv, OneCollector, Searching, InHand
  <2>3. ASSUME Tcp /\ dDevices = dBefore + 1
        PROVE  SearchTypes' /\ \A d \in 0 .. dDevices - 1 : Good(dDiscovered'[d])
    <3>1. dBefore \in 0 .. SearchMaxDevices - 1 /\ dDevices \in Nat /\ dBefore = dDevices - 1
      BY <1>0, <2>3 DEF SearchTypes, Broadcasting
    <3>2. PICK e : /\ dDiscovered' = [dDiscovered EXCEPT ![dBefore] = e]
                   /\ e = [dDiscovered[dBefore] EXCEPT !.over = "TCP", !.tcp = TRUE]
      BY <1>0, <2>1, <2>3, <3>1 DEF SearchTypes
    <3>3. /\ e \in [what : Found, at : Found, over : Names, tcp : BOOLEAN, free : BOOLEAN]
          /\ e.what = dDiscovered[dBefore].what /\ e.at = dDiscovered[dBefore].at /\ e.over = "TCP"
      BY <1>0, <3>1, <3>2 DEF SearchTypes, Names
    <3>4. SearchTypes'
      BY <1>0, <2>1, <3>1, <3>2, <3>3, SearchHeld, SMTT(30) DEF SearchTypes
    <3>5. Good(e)
      BY <1>0, <2>3, <3>3 DEF SearchInv, Entered, Good
    <3>6. \A d \in 0 .. dDevices - 1 : Good(dDiscovered'[d])
      BY <1>0, <2>3, <3>1, <3>2, <3>5 DEF SearchInv, SearchTypes, Entered
    <3> QED BY <2>1, <3>4, <3>6
  <2>4. ASSUME ~(Tcp /\ dDevices = dBefore + 1)
        PROVE  SearchTypes' /\ \A d \in 0 .. dDevices - 1 : Good(dDiscovered'[d])
    <3>1. SearchTypes'
      BY <1>0, <2>1, <2>4, SearchHeld, SMTT(30) DEF SearchTypes
    <3>2. \A d \in 0 .. dDevices - 1 : Good(dDiscovered'[d])
      BY <1>0, <2>1, <2>4, SMTT(30) DEF SearchInv, SearchTypes, Entered, Broadcasting
    <3> QED BY <3>1, <3>2
  <2>5. SearchTypes' /\ \A d \in 0 .. dDevices - 1 : Good(dDiscovered'[d])
    BY <2>3, <2>4
  <2>6. OneCollector'
    BY <1>0, <2>1, <2>2 DEF SearchInv, OneCollector
  <2>7. Counted'
    BY <2>1, <2>2 DEF SearchInv, Counted
  <2>8. Entered'
    BY <2>1, <2>2, <2>5 DEF Entered, Good
  <2> QED BY <2>5, <2>6, <2>7, <2>8 DEF SearchInv
<1> QED BY <1>1, <1>2

Collecting == {"start", "wait", "describe", "locate", "again"}

\* Only the thread of the search under way does anything.
LEMMA SearchAlone ==
  ASSUME Broadcasting, SearchInv, NEW p \in Places, dThread[p].pc \in Collecting
  PROVE  p = dPlace /\ Searching /\ SearchTypes /\ dPlace \in Nat /\ dSocket = dPlace
<1>1. Searching /\ p = dPlace
  BY DEF SearchInv, OneCollector, Collecting
<1> QED BY <1>1, SearchHeld DEF SearchInv, OneCollector

\* The thread asks for the next answer, or gives up.
LEMMA SearchWait ==
  ASSUME Broadcasting, SearchInv, NEW p \in Places, Search!Wait(p) \/ Search!TimeOut(p)
  PROVE  SearchInv'
<1> USE DEF Search!searchVars, Search!tableVars
<1>0. p = dPlace /\ Searching /\ SearchTypes /\ dPlace \in Nat /\ dSocket = dPlace
  BY SearchAlone DEF Collecting, Search!Wait, Search!TimeOut
<1>1. /\ UNCHANGED <<dPlace, dMain, dSocket, dInterface, dBefore, dAir, dHeard, dDevices,
                     dDiscovered, dManifest, dStarted>>
      /\ dThread[dPlace].pc \in {"start", "again", "wait"}
  BY <1>0 DEF Search!Wait, Search!TimeOut
<1>2. /\ dThread' \in [Places ->
           [pc : {"none", "start", "wait", "describe", "locate", "again", "ended"},
            socket : Nat, answer : [radio : Found, to : Nat] \cup {SearchNone}]]
      /\ \A q \in Places \ {dPlace} : dThread'[q] = dThread[q]
      /\ \/ dThread'[dPlace].pc = "wait" /\ dThread'[dPlace].socket = dPlace
         \/ /\ dThread'[dPlace].pc = "ended" /\ dThread[dPlace].pc = "wait"
            /\ \A a \in dAir : a.to # dThread[dPlace].socket
            /\ dMain = "send" => dThread[dPlace].socket # dPlace
  <2>1. CASE Search!Wait(p)
    <3>1. PICK e : /\ e = [dThread[dPlace] EXCEPT !.pc = "wait", !.socket = dSocket]
                   /\ dThread' = [dThread EXCEPT ![dPlace] = e]
      BY <1>0, <2>1 DEF Search!Wait, SearchTypes
    <3>2. /\ e \in [pc : {"none", "start", "wait", "describe", "locate", "again", "ended"},
                    socket : Nat, answer : [radio : Found, to : Nat] \cup {SearchNone}]
          /\ e.pc = "wait" /\ e.socket = dPlace
      BY <1>0, <3>1, SearchHeld, ZenonT(60) DEF SearchTypes, SearchInv, OneCollector
    <3> QED BY <1>0, <3>1, <3>2, SearchHeld DEF SearchTypes, SearchInv, OneCollector
  <2>2. CASE Search!TimeOut(p)
    BY <1>0, <2>2, ZenonT(60) DEF Search!TimeOut, SearchTypes
  <2> QED BY <2>1, <2>2
<1>3. SearchTypes'
  BY <1>0, <1>1, <1>2, SearchHeld DEF SearchTypes
<1>4. Searching' /\ ~InHand /\ ~InHand'
  BY <1>0, <1>1, <1>2 DEF Searching, InHand
<1>5. OneCollector'
  BY <1>0, <1>1, <1>2, <1>4, SearchHeld DEF SearchInv, OneCollector
<1>6. Counted'
  BY <1>1, <1>4 DEF SearchInv, Counted
<1>7. Entered'
  BY <1>0, <1>1, <1>4, SearchHeld DEF SearchInv, Entered, Good
<1> QED BY <1>3, <1>5, <1>6, <1>7 DEF SearchInv

\* An answer comes: it is of a radio the search is for.
LEMMA SearchReceive ==
  ASSUME Broadcasting, SearchInv, NEW p \in Places, NEW a \in dAir, Search!Receive(p, a)
  PROVE  SearchInv'
<1> USE DEF Search!searchVars, Search!tableVars
<1>0. p = dPlace /\ Searching /\ SearchTypes /\ dPlace \in Nat /\ dSocket = dPlace
  BY SearchAlone DEF Collecting, Search!Receive
<1>1. /\ UNCHANGED <<dPlace, dMain, dSocket, dInterface, dBefore, dDevices, dDiscovered, dManifest,
                     dStarted>>
      /\ dThread[dPlace].pc = "wait" /\ dAir' = dAir \ {a} /\ dHeard' = dHeard + 1
      /\ dThread' = IF dDevices < SearchMaxDevices
                    THEN [dThread EXCEPT ![dPlace].pc = "describe", ![dPlace].answer = a]
                    ELSE [dThread EXCEPT ![dPlace].pc = "again"]
  BY <1>0 DEF Search!Receive
<1>2. /\ a \in [radio : Found, to : Nat] /\ dMain = "join" /\ a.radio \in Search!Answering
  BY <1>0, <1>1 DEF SearchInv, SearchTypes, OneCollector, Searching
<1>3. /\ dThread' \in [Places ->
           [pc : {"none", "start", "wait", "describe", "locate", "again", "ended"},
            socket : Nat, answer : [radio : Found, to : Nat] \cup {SearchNone}]]
      /\ \A q \in Places \ {dPlace} : dThread'[q] = dThread[q]
      /\ \/ /\ dThread'[dPlace].pc = "describe" /\ dThread'[dPlace].answer = a
            /\ dDevices < SearchMaxDevices
         \/ dThread'[dPlace].pc = "again" /\ ~(dDevices < SearchMaxDevices)
  <2>0. /\ dPlace \in Places
        /\ dThread \in [Places ->
             [pc : {"none", "start", "wait", "describe", "locate", "again", "ended"},
              socket : Nat, answer : [radio : Found, to : Nat] \cup {SearchNone}]]
    BY <1>0 DEF SearchTypes
  <2>1. CASE dDevices < SearchMaxDevices
    <3>1. PICK e : /\ e = [dThread[dPlace] EXCEPT !.pc = "describe", !.answer = a]
                   /\ dThread' = [dThread EXCEPT ![dPlace] = e]
      BY <1>0, <1>1, <2>1 DEF SearchTypes
    <3>2. /\ e \in [pc : {"none", "start", "wait", "describe", "locate", "again", "ended"},
                    socket : Nat, answer : [radio : Found, to : Nat] \cup {SearchNone}]
          /\ e.pc = "describe" /\ e.answer = a
      BY <2>0, <1>2, <3>1
    <3> QED BY <2>0, <2>1, <3>1, <3>2
  <2>2. CASE ~(dDevices < SearchMaxDevices)
    BY <1>1, <2>0, <2>2
  <2> QED BY <2>1, <2>2
<1>4. SearchTypes'
  BY <1>0, <1>1, <1>3, SearchHeld, SMTT(30) DEF SearchTypes
<1>5. Searching' /\ ~InHand /\ (InHand' <=> dThread'[dPlace].pc = "describe")
  BY <1>0, <1>1, <1>3 DEF Searching, InHand
<1>6. OneCollector'
  BY <1>0, <1>1, <1>2, <1>3, <1>5, SearchHeld DEF SearchInv, OneCollector
<1>7. Counted'
  BY <1>0, <1>1, <1>2, <1>3, <1>5, SMTT(30) DEF SearchInv, SearchTypes, Counted, Broadcasting
<1>8. Tcp => dAir' = {}
  <2> SUFFICES ASSUME Tcp PROVE \A b \in dAir : b = a
    BY <1>1
  <2> QED BY <1>0, <1>2 DEF SearchInv, SearchTypes, OneCollector, Search!Answering, Tcp
<1>9. Tcp => dDevices = dBefore
  BY <1>0, <1>2 DEF SearchInv, SearchTypes, Entered
<1>10. Entered'
  BY <1>0, <1>1, <1>3, <1>5, <1>8, <1>9, SearchHeld DEF SearchInv, SearchTypes, Entered, Good,
     Broadcasting
<1> QED BY <1>4, <1>6, <1>7, <1>10 DEF SearchInv

\* The first half of an entry.
LEMMA SearchDescribe ==
  ASSUME Broadcasting, SearchInv, NEW p \in Places, Search!Describe(p)
  PROVE  SearchInv'
<1> USE DEF Search!searchVars
<1>0. p = dPlace /\ Searching /\ SearchTypes /\ dPlace \in Nat /\ dSocket = dPlace
  BY SearchAlone DEF Collecting, Search!Describe
<1>1. InHand /\ dDevices \in 0 .. SearchMaxDevices - 1 /\ dDevices \in Nat
      /\ dThread[dPlace].answer.radio \in Search!Answering
  BY <1>0 DEF SearchInv, SearchTypes, InHand, OneCollector, Counted, Broadcasting, Search!Describe
<1>2. PICK r \in Found : r = dThread[dPlace].answer.radio
  BY <1>1 DEF Search!Answering, Found
<1>3. /\ UNCHANGED <<dPlace, dMain, dSocket, dInterface, dBefore, dAir, dHeard, dDevices,
                     dManifest, dStarted>>
      /\ dThread' = [dThread EXCEPT ![dPlace].pc = "locate"]
      /\ dDiscovered' = [dDiscovered EXCEPT ![dDevices].what = r]
  BY <1>0, <1>1, <1>2 DEF Search!Describe, Broadcasting
<1>4. /\ dPlace \in Places
      /\ dThread \in [Places ->
           [pc : {"none", "start", "wait", "describe", "locate", "again", "ended"},
            socket : Nat, answer : [radio : Found, to : Nat] \cup {SearchNone}]]
      /\ dDiscovered \in [0 .. SearchMaxDevices - 1 ->
           [what : Found, at : Found, over : Names, tcp : BOOLEAN, free : BOOLEAN]]
  BY <1>0 DEF SearchTypes
<1>5. /\ dThread' \in [Places ->
           [pc : {"none", "start", "wait", "describe", "locate", "again", "ended"},
            socket : Nat, answer : [radio : Found, to : Nat] \cup {SearchNone}]]
      /\ \A q \in Places \ {dPlace} : dThread'[q] = dThread[q]
      /\ dThread'[dPlace].pc = "locate" /\ dThread'[dPlace].answer = dThread[dPlace].answer
  BY <1>3, <1>4
<1>6. /\ dDiscovered' \in [0 .. SearchMaxDevices - 1 ->
           [what : Found, at : Found, over : Names, tcp : BOOLEAN, free : BOOLEAN]]
      /\ \A d \in 0 .. SearchMaxDevices - 1 : d # dDevices => dDiscovered'[d] = dDiscovered[d]
      /\ dDiscovered'[dDevices].what = r
  BY <1>1, <1>3, <1>4
<1>7. SearchTypes'
  BY <1>0, <1>3, <1>5, <1>6, SearchHeld DEF SearchTypes
<1>8. Searching' /\ InHand'
  BY <1>0, <1>3, <1>5 DEF Searching, InHand
<1>9. OneCollector'
  BY <1>0, <1>1, <1>3, <1>4, <1>5, <1>8, SearchHeld DEF SearchInv, OneCollector, InHand
<1>10. Counted'
  BY <1>1, <1>3, <1>8 DEF SearchInv, Counted
<1>11. \A d \in 0 .. dDevices - 1 : dDiscovered'[d] = dDiscovered[d]
  BY <1>1, <1>6, Broadcasting DEF Broadcasting
<1>12. Entered'
  <2>1. /\ dDiscovered'[dDevices].what = dThread'[dPlace].answer.radio
        /\ dPlace' = dPlace /\ dDevices' = dDevices /\ dMain' = dMain /\ dAir' = dAir
        /\ dBefore' = dBefore /\ dInterface' = dInterface
    BY <1>2, <1>3, <1>5, <1>6
  <2>2. ~Tcp => dInterface = Search!Search.over /\ \A d \in 0 .. dDevices - 1 : Good(dDiscovered[d])
    BY <1>0 DEF SearchInv, Entered
  <2>3. ~Tcp => \A d \in 0 .. dDevices - 1 : Good(dDiscovered'[d])
    BY <2>2, <1>11
  <2>4. Tcp => dDevices = dBefore /\ dAir = {} /\ \A d \in 0 .. dBefore - 1 : Good(dDiscovered[d])
    BY <1>0, <1>1 DEF SearchInv, Entered
  <2>5. Tcp => \A d \in 0 .. dBefore - 1 : Good(dDiscovered'[d])
    BY <2>4, <1>11
  <2>6. Tcp => dDevices # dBefore + 1
    BY <2>4, <1>1
  <2>7. Tcp' = Tcp /\ Search!Search' = Search!Search
    BY <2>1 DEF Tcp, Search!Search
  <2>8. Searching'
    BY <1>8
  <2>9. Tcp => dDevices' \in dBefore' .. dBefore' + 1 /\ dDevices' # dBefore' + 1
    BY <2>1, <2>4, <2>6, <1>1
  <2>10. /\ ~Tcp => \A d \in 0 .. dDevices' - 1 : Good(dDiscovered'[d])
         /\ Tcp => \A d \in 0 .. dBefore' - 1 : Good(dDiscovered'[d])
    BY <2>1, <2>3, <2>5
  <2>11. /\ dDiscovered'[dDevices'].what = dThread'[dPlace'].answer.radio
         /\ ~Tcp => dInterface' = Search!Search'.over
         /\ Tcp => dDevices' = dBefore' /\ dAir' = {}
    BY <2>1, <2>2, <2>4, <2>7
  <2> QED BY ONLY <2>7, <2>8, <2>9, <2>10, <2>11, Zenon DEF Entered
<1> QED BY <1>7, <1>9, <1>10, <1>12 DEF SearchInv

\* The second half of an entry, and the count.
LEMMA SearchLocate ==
  ASSUME Broadcasting, SearchInv, NEW p \in Places, Search!Locate(p)
  PROVE  SearchInv'
<1> USE DEF Search!searchVars
<1>0. p = dPlace /\ Searching /\ SearchTypes /\ dPlace \in Nat /\ dSocket = dPlace
  BY SearchAlone DEF Collecting, Search!Locate
<1>1. InHand /\ dDevices \in 0 .. SearchMaxDevices - 1 /\ dDevices \in Nat
      /\ dThread[dPlace].answer.radio \in Search!Answering
  BY <1>0 DEF SearchInv, SearchTypes, InHand, OneCollector, Counted, Broadcasting, Search!Locate
<1>2. PICK r \in Found : r = dThread[dPlace].answer.radio
  BY <1>1 DEF Search!Answering, Found
<1>3. /\ dPlace \in Places
      /\ dThread \in [Places ->
           [pc : {"none", "start", "wait", "describe", "locate", "again", "ended"},
            socket : Nat, answer : [radio : Found, to : Nat] \cup {SearchNone}]]
      /\ dDiscovered \in [0 .. SearchMaxDevices - 1 ->
           [what : Found, at : Found, over : Names, tcp : BOOLEAN, free : BOOLEAN]]
      /\ dInterface \in Names
  BY <1>0 DEF SearchTypes
<1>4. PICK e : /\ e = [dDiscovered[dDevices] EXCEPT !.at = r, !.over = dInterface, !.tcp = FALSE,
                         !.free = r \notin dBusy]
               /\ dDiscovered' = [dDiscovered EXCEPT ![dDevices] = e]
  <2>1. dDevices < SearchMaxDevices /\ dThread[p].answer.radio = r
    BY <1>0, <1>1, <1>2 DEF Broadcasting
  <2>2. dDiscovered' = [dDiscovered EXCEPT ![dDevices] =
          [@ EXCEPT !.at = dThread[p].answer.radio, !.over = dInterface, !.tcp = FALSE,
                    !.free = dThread[p].answer.radio \notin dBusy]]
    BY <2>1, Zenon DEF Search!Locate
  <2>3. dDiscovered' = [dDiscovered EXCEPT ![dDevices] =
          [dDiscovered[dDevices] EXCEPT !.at = r, !.over = dInterface, !.tcp = FALSE,
                                        !.free = r \notin dBusy]]
    BY <2>1, <2>2, Zenon
  <2> QED BY <2>3, Zenon
<1>5. PICK g : /\ g = [dThread[dPlace] EXCEPT !.pc = "again", !.answer = SearchNone]
               /\ dThread' = [dThread EXCEPT ![dPlace] = g]
  BY <1>0, <1>3 DEF Search!Locate
<1>6. /\ UNCHANGED <<dPlace, dMain, dSocket, dInterface, dBefore, dAir, dHeard, dManifest,
                     dStarted>>
      /\ dDevices' = dDevices + 1 /\ dThread[dPlace].pc = "locate"
  BY <1>0 DEF Search!Locate
<1>7. /\ dThread' \in [Places ->
           [pc : {"none", "start", "wait", "describe", "locate", "again", "ended"},
            socket : Nat, answer : [radio : Found, to : Nat] \cup {SearchNone}]]
      /\ \A q \in Places \ {dPlace} : dThread'[q] = dThread[q]
      /\ dThread'[dPlace].pc = "again"
  BY <1>3, <1>5, ZenonT(60)
<1>8. dDiscovered[dDevices].what = r
  BY <1>0, <1>1, <1>2, <1>6 DEF SearchInv, Entered
<1>9. /\ e \in [what : Found, at : Found, over : Names, tcp : BOOLEAN, free : BOOLEAN]
      /\ e.what = r /\ e.at = r /\ e.over = dInterface
  <2>1. dDiscovered[dDevices] \in [what : Found, at : Found, over : Names,
                                   tcp : BOOLEAN, free : BOOLEAN]
    BY <1>1, <1>3
  <2>2. PICK b \in BOOLEAN : b = (r \notin dBusy)
    OBVIOUS
  <2>3. e = [dDiscovered[dDevices] EXCEPT !.at = r, !.over = dInterface, !.tcp = FALSE, !.free = b]
    BY <1>4, <2>2
  <2> QED BY <1>2, <1>3, <1>8, <2>1, <2>3
<1>10. /\ dDiscovered' \in [0 .. SearchMaxDevices - 1 ->
           [what : Found, at : Found, over : Names, tcp : BOOLEAN, free : BOOLEAN]]
       /\ \A d \in 0 .. dDevices - 1 : dDiscovered'[d] = dDiscovered[d]
       /\ dDiscovered'[dDevices] = e
  BY <1>1, <1>3, <1>4, <1>9 DEF Broadcasting
<1>11. SearchTypes'
  BY <1>0, <1>1, <1>6, <1>7, <1>10, SearchHeld, SMTT(30) DEF SearchTypes, Broadcasting
<1>12. Searching' /\ ~InHand' /\ dMain = "join" /\ dMain' = "join"
  BY <1>0, <1>6, <1>7 DEF Searching, InHand, SearchInv, OneCollector
<1>13. OneCollector'
  BY <1>0, <1>3, <1>6, <1>7, <1>12, SearchHeld DEF SearchInv, OneCollector
<1>14. Counted'
  BY <1>0, <1>1, <1>6, <1>12 DEF SearchInv, SearchTypes, Counted, Broadcasting
<1>15. Entered'
  <2>1. CASE Tcp
    <3>1. /\ r = SearchFixed /\ dDevices = dBefore /\ dAir = {}
          /\ \A d \in 0 .. dBefore - 1 : Good(dDiscovered[d])
      BY <1>0, <1>1, <1>2, <2>1 DEF SearchInv, Entered, Search!Answering, Tcp
    <3>2. Tcp' /\ dBefore \in Nat
      BY <1>0, <1>6, <2>1, SearchHeld DEF SearchTypes
    <3> QED BY <1>1, <1>6, <1>9, <1>10, <1>12, <3>1, <3>2 DEF Entered, Good
  <2>2. CASE ~Tcp
    <3>1. dInterface = Search!Search.over /\ \A d \in 0 .. dDevices - 1 : Good(dDiscovered[d])
      BY <1>0, <2>2 DEF SearchInv, Entered
    <3>2. Good(e)
      BY <1>1, <1>2, <1>9, <2>2, <3>1 DEF Good, Search!Answering, Tcp
    <3>3. ~Tcp' /\ Search!Search' = Search!Search
      BY <1>6, <2>2, SearchHeld, <1>0
    <3>4. \A d \in 0 .. dDevices' - 1 : Good(dDiscovered'[d])
      BY <1>1, <1>6, <1>10, <3>1, <3>2
    <3>5. Search!Search'.over = Search!Search.over
      BY <3>3
    <3> QED BY <1>6, <1>12, <3>1, <3>3, <3>4, <3>5 DEF Entered, Good
  <2> QED BY <2>1, <2>2
<1> QED BY <1>11, <1>13, <1>14, <1>15 DEF SearchInv

\* An answer is lost, the manifest is made, a radio is started.
LEMMA SearchRest ==
  ASSUME Broadcasting, SearchInv,
         \/ \E a \in dAir : Search!Lose(a)
         \/ Search!Manifest
         \/ \E d \in 0 .. SearchMaxDevices - 1 : Search!StartRadio(d)
         \/ UNCHANGED Search!vars
  PROVE  SearchInv'
<1> USE DEF Search!searchVars, Search!tableVars
<1>0. SearchTypes
  BY DEF SearchInv
<1>1. CASE \E a \in dAir : Search!Lose(a)
  <2>1. /\ UNCHANGED <<dPlace, dMain, dSocket, dInterface, dBefore, dThread, dHeard, dDevices,
                       dDiscovered, dManifest, dStarted>>
        /\ dAir' \subseteq dAir
    BY <1>1 DEF Search!Lose
  <2>2. SearchTypes' /\ (Searching' <=> Searching) /\ (InHand' <=> InHand)
    BY <1>0, <2>1, SearchHeld DEF SearchTypes, Searching, InHand
  <2>3. OneCollector'
    BY <1>0, <2>1, <2>2, SearchHeld DEF SearchInv, OneCollector
  <2>4. Counted'
    BY <2>1, <2>2 DEF SearchInv, Counted
  <2>5. Entered'
    BY <1>0, <2>1, <2>2, SearchHeld DEF SearchInv, Entered, Good
  <2> QED BY <2>2, <2>3, <2>4, <2>5 DEF SearchInv
<1>2. CASE Search!Manifest
  <2>1. /\ UNCHANGED <<dPlace, dSocket, dInterface, dBefore, dThread, dAir, dHeard, dDevices,
                       dDiscovered, dStarted>>
        /\ dMain = "open" /\ dMain' = "done" /\ Len(dManifest') = dDevices
    <3>1. dDevices \in Nat
      BY <1>0 DEF SearchTypes, Broadcasting
    <3> QED BY <1>2, <3>1 DEF Search!Manifest
  <2>2. SearchTypes' /\ ~Searching /\ ~Searching' /\ ~InHand /\ ~InHand'
    BY <1>0, <2>1, SearchHeld DEF SearchTypes, Searching, InHand
  <2>3. OneCollector' /\ Counted' /\ Entered'
    BY <2>1, <2>2 DEF SearchInv, OneCollector, Counted, Entered, Good
  <2> QED BY <2>2, <2>3 DEF SearchInv
<1>3. CASE \/ \E d \in 0 .. SearchMaxDevices - 1 : Search!StartRadio(d)
           \/ UNCHANGED Search!vars
  <2>1. /\ UNCHANGED <<dPlace, dMain, dSocket, dInterface, dBefore, dThread, dAir, dHeard,
                       dDevices, dDiscovered, dManifest>>
        /\ dStarted' \subseteq dStarted \cup (0 .. SearchMaxDevices - 1)
    BY <1>3 DEF Search!StartRadio, Search!vars
  <2>2. SearchTypes' /\ (Searching' <=> Searching) /\ (InHand' <=> InHand)
    BY <1>0, <2>1, SearchHeld DEF SearchTypes, Searching, InHand
  <2>3. OneCollector'
    BY <1>0, <2>1, <2>2, SearchHeld DEF SearchInv, OneCollector
  <2>4. Counted'
    BY <2>1, <2>2 DEF SearchInv, Counted
  <2>5. Entered'
    BY <1>0, <2>1, <2>2, SearchHeld DEF SearchInv, Entered, Good
  <2> QED BY <2>2, <2>3, <2>4, <2>5 DEF SearchInv
<1> QED BY <1>1, <1>2, <1>3

\* However many radios answer, whichever answers are lost and on whichever interfaces
\* they are heard, the manifest has an element for every answer received while
\* discovered[] had room, each entry describes and locates the same radio, and the
\* interface it names is one that reaches it: discover and new_discover wait for the
\* thread that collects before the socket, the interface and the count are used again.
THEOREM SearchCorrect ==
  ASSUME Broadcasting PROVE Search!Spec => []ManifestComplete
<1>1. Search!Init => SearchInv
  BY SearchStart
<1>2. SearchInv /\ [Search!Next]_(Search!vars) => SearchInv'
  <2> SUFFICES ASSUME SearchInv, [Search!Next]_(Search!vars) PROVE SearchInv'
    OBVIOUS
  <2>1. CASE Search!TcpFails \/ Search!Open
    BY <2>1, SearchOpen
  <2>2. CASE Search!Broadcast \/ Search!Join
    BY <2>2, SearchJoin
  <2>3. ASSUME NEW p \in DOMAIN Search!Searches, Search!Collector(p) PROVE SearchInv'
    <3>1. p \in Places
      BY SearchesListed
    <3> QED BY <2>3, <3>1, SearchWait, SearchReceive, SearchDescribe, SearchLocate
            DEF Search!Collector
  <2>4. CASE \/ \E a \in dAir : Search!Lose(a)
             \/ Search!Manifest
             \/ \E d \in 0 .. SearchMaxDevices - 1 : Search!StartRadio(d)
             \/ UNCHANGED Search!vars
    BY <2>4, SearchRest
  <2> QED BY <2>1, <2>2, <2>3, <2>4 DEF Search!Next
<1>3. SearchInv => ManifestComplete
  <2> SUFFICES ASSUME SearchInv PROVE ManifestComplete
    OBVIOUS
  <2>1. Search!TypeOK
    BY SearchesListed DEF SearchInv, SearchTypes, Search!TypeOK, Places
  <2>2. ASSUME dMain = "done" PROVE Len(dManifest) = Search!Min({dHeard, SearchMaxDevices})
    <3>1. ~Searching /\ ~InHand
      BY <2>2 DEF Searching, InHand
    <3>2. Len(dManifest) = IF dHeard < SearchMaxDevices THEN dHeard ELSE SearchMaxDevices
      BY <2>2, <3>1 DEF SearchInv, Counted
    <3>3. dHeard \in Nat /\ SearchMaxDevices \in Nat
      BY DEF SearchInv, SearchTypes, Broadcasting
    <3>4. /\ Search!Min({dHeard, SearchMaxDevices}) \in {dHeard, SearchMaxDevices}
          /\ \A y \in {dHeard, SearchMaxDevices} : Search!Min({dHeard, SearchMaxDevices}) <= y
      <4>1. \E x \in {dHeard, SearchMaxDevices} : \A y \in {dHeard, SearchMaxDevices} : x <= y
        BY <3>3
      <4> QED BY <4>1 DEF Search!Min
    <3> QED BY <3>2, <3>3, <3>4
  <2>3. ASSUME dMain = "done" PROVE \A d \in 0 .. dDevices - 1 : Good(dDiscovered[d])
    BY <2>3 DEF SearchInv, Entered, Searching
  <2> QED BY <2>1, <2>2, <2>3 DEF ManifestComplete, Search!ManifestComplete, Good
<1> QED BY <1>1, <1>2, <1>3, PTL DEF Search!Spec

----------------------------------------------------------------------------
(* The packets with the settings *)

PacketLimits == PacketsMaxSettings \in Nat /\ PacketsMaxKeys \in Nat /\ PacketsMaxLost \in Nat

\* A thread's packets, and how far it is with the first if there is one.
Works == {"GE", "TS", "RS", "HP", "timer"}
Progress == [todo : Seq(Works), step : {"idle", "filled", "clear", "fill"}, saw : BOOLEAN]
Senders == {s \in Progress : Len(s.todo) <= 5 /\ (s.todo = <<>> => s.step = "idle")}

PacketTypes ==
  /\ pDevice \in PacketsDevices /\ pRunning \in BOOLEAN /\ pMox \in BOOLEAN
  /\ pCycling \in 0 .. 8
  /\ pThread \in [Packets!Threads -> Senders]
  /\ pRxcase \in [Packets!DDCs -> PacketsRx \cup {-1}]
  /\ pSettings \in 0 .. PacketsMaxSettings /\ pKeys \in 0 .. PacketsMaxKeys
  /\ pLost \in 0 .. PacketsMaxLost
  /\ DOMAIN pTold = Packets!Kinds /\ pTold = [p \in Packets!Kinds |-> pTold[p]]

\* A high priority packet of the command thread has still to be sent.
StopToSend ==
  /\ pThread["command"].todo # <<>> /\ Head(pThread["command"].todo) = "HP"
  /\ pThread["command"].step \in {"idle", "filled"}

\* After a stop the radio has been told so, or is about to be.  A packet the timer
\* thread was in the middle of says so as well: it looks at running when it is sent.
StopUnderway ==
  ~pRunning /\ pLost = 0 /\ pTold["HP"] # <<>> => ~pTold["HP"].tuning.run \/ StopToSend

PacketInv == PacketTypes /\ StopUnderway

\* A thread that has just been given some packets.
LEMMA Beginning ==
  ASSUME NEW work \in Seq(Works), Len(work) <= 5
  PROVE  /\ Packets!Begin(work) \in Senders
         /\ Packets!Begin(work).todo = work /\ Packets!Begin(work).step = "idle"
<1>1. /\ Packets!Begin(work).todo = work /\ Packets!Begin(work).step = "idle"
      /\ Packets!Begin(work) \in Progress
  BY DEF Packets!Begin, Progress
<1> QED BY <1>1 DEF Senders

\* A thread that has done with the first of its packets.
LEMMA Remaining ==
  ASSUME NEW s \in Senders, s.todo # <<>>
  PROVE  Packets!Begin(Tail(s.todo)) \in Senders
<1>1. s.todo \in Seq(Works) /\ Len(s.todo) <= 5
  BY DEF Senders, Progress
<1>2. Tail(s.todo) \in Seq(Works) /\ Len(Tail(s.todo)) <= 5
  BY <1>1
<1> QED BY <1>2, Beginning

\* The entries of the action table are receivers.
LEMMA TableTypes ==
  ASSUME NEW xmit
  PROVE  Packets!TableFor(xmit) \in [Packets!DDCs -> PacketsRx \cup {-1}]
<1>1. ASSUME NEW d \in Packets!DDCs, \E i \in PacketsRx : ~xmit /\ d = Packets!DdcOf(i)
      PROVE  (CHOOSE i \in PacketsRx : d = Packets!DdcOf(i)) \in PacketsRx
  BY <1>1
<1> QED BY <1>1 DEF Packets!TableFor

LEMMA PacketStart == ASSUME PacketLimits PROVE Packets!Init => PacketInv
<1> SUFFICES ASSUME Packets!Init PROVE PacketInv
  OBVIOUS
<1>1. <<>> \in Seq(Works) /\ Len(<<>>) <= 5
  OBVIOUS
<1>2. pThread = [t \in Packets!Threads |-> Packets!Begin(<<>>)]
  BY DEF Packets!Init
<1>3. pThread \in [Packets!Threads -> Senders]
  BY <1>1, <1>2, Beginning
<1>4. pRunning \in BOOLEAN /\ pMox \in BOOLEAN /\ pDevice \in PacketsDevices
  BY Zenon DEF Packets!Init
<1>5. /\ pCycling \in 0 .. 8 /\ pSettings \in 0 .. PacketsMaxSettings
      /\ pKeys \in 0 .. PacketsMaxKeys /\ pLost \in 0 .. PacketsMaxLost
  <2>1. pCycling = 0 /\ pSettings = 0 /\ pKeys = 0 /\ pLost = 0
    BY DEF Packets!Init
  <2> QED BY ONLY <2>1, PacketLimits DEF PacketLimits
<1>6. pRxcase \in [Packets!DDCs -> PacketsRx \cup {-1}]
  BY DEF Packets!Init
<1>7. pTold = [p \in Packets!Kinds |-> <<>>]
  BY DEF Packets!Init, Packets!Nothing
<1>8. /\ pTold["HP"] = <<>> /\ DOMAIN pTold = Packets!Kinds
      /\ pTold = [p \in Packets!Kinds |-> pTold[p]]
  BY <1>7 DEF Packets!Kinds
<1> QED BY <1>3, <1>4, <1>5, <1>6, <1>8 DEF PacketInv, PacketTypes, StopUnderway

\* The command thread is given packets, and is then between packets.
LEMMA CommandWork ==
  ASSUME PacketTypes,
         Packets!StartRadio \/ Packets!StartTimer \/ Packets!Setting \/ Packets!Mox \/ Packets!Stop
  PROVE  pThread' \in [Packets!Threads -> Senders]
<1>1. pThread \in [Packets!Threads -> Senders] /\ "command" \in Packets!Threads
  BY DEF PacketTypes, Packets!Threads
<1>2. /\ <<"GE", "TS", "RS", "timer", "HP">> \in Seq(Works)
      /\ <<"HP">> \in Seq(Works) /\ <<"HP", "RS">> \in Seq(Works)
      /\ Len(<<"GE", "TS", "RS", "timer", "HP">>) <= 5
      /\ Len(<<"HP">>) <= 5 /\ Len(<<"HP", "RS">>) <= 5
  BY DEF Works
<1>3. ASSUME NEW s \in Senders, pThread' = [pThread EXCEPT !["command"] = s]
      PROVE  pThread' \in [Packets!Threads -> Senders]
  BY <1>1, <1>3
<1>4. CASE Packets!StartRadio
  <2>1. pThread' = [pThread EXCEPT !["command"] = Packets!Begin(<<"GE", "TS", "RS", "timer",
                                                                  "HP">>)]
    BY <1>4 DEF Packets!StartRadio
  <2> QED BY <1>2, <1>3, <2>1, Beginning
<1>5. CASE Packets!StartTimer
  <2> DEFINE mine == pThread["command"]
  <2>1. /\ mine.todo # <<>>
        /\ pThread' = [pThread EXCEPT !["command"] = Packets!Begin(Tail(mine.todo))]
    BY <1>5 DEF Packets!StartTimer
  <2>2. mine \in Senders
    BY <1>1
  <2>3. Packets!Begin(Tail(mine.todo)) \in Senders
    BY <2>1, <2>2, Remaining
  <2> HIDE DEF mine
  <2> QED BY <1>3, <2>1, <2>3
<1>6. CASE Packets!Setting \/ Packets!Stop
  <2>1. pThread' = [pThread EXCEPT !["command"] = Packets!Begin(<<"HP">>)]
    BY <1>6 DEF Packets!Setting, Packets!Stop
  <2> QED BY <1>2, <1>3, <2>1, Beginning
<1>7. CASE Packets!Mox
  <2>1. pThread' = [pThread EXCEPT !["command"] = Packets!Begin(<<"HP", "RS">>)]
    BY <1>7 DEF Packets!Mox
  <2> QED BY <1>2, <1>3, <2>1, Beginning
<1> QED BY <1>4, <1>5, <1>6, <1>7

\* The radio is started, its settings changed, the transmitter keyed, the radio stopped.
LEMMA PacketCommands ==
  ASSUME PacketLimits, PacketInv,
         Packets!StartRadio \/ Packets!StartTimer \/ Packets!Setting \/ Packets!Mox \/ Packets!Stop
  PROVE  PacketInv'
<1>1. PacketTypes /\ StopUnderway
  BY DEF PacketInv
<1>2. pThread' \in [Packets!Threads -> Senders]
  BY <1>1, CommandWork
<1>3. UNCHANGED <<pDevice, pTold, pLost>> /\ pRunning' \in BOOLEAN /\ pMox' \in BOOLEAN
  <2>1. UNCHANGED <<pDevice, pTold, pLost>>
    BY DEF Packets!StartRadio, Packets!StartTimer, Packets!Setting, Packets!Mox, Packets!Stop
  <2>2. pRunning' = TRUE \/ pRunning' = FALSE \/ pRunning' = pRunning
    BY Zenon DEF Packets!StartRadio, Packets!StartTimer, Packets!Setting, Packets!Mox,
       Packets!Stop
  <2>3. pMox' = pMox \/ pMox' = ~pMox
    BY Zenon DEF Packets!StartRadio, Packets!StartTimer, Packets!Setting, Packets!Mox,
       Packets!Stop
  <2>4. pRunning \in BOOLEAN /\ pMox \in BOOLEAN
    BY <1>1 DEF PacketTypes
  <2> QED BY <2>1, <2>2, <2>3, <2>4
<1>4. /\ pCycling' \in 0 .. 8 /\ pSettings' \in 0 .. PacketsMaxSettings
      /\ pKeys' \in 0 .. PacketsMaxKeys
  <2>1. pCycling' \in {pCycling, 8, 0}
    BY DEF Packets!StartRadio, Packets!StartTimer, Packets!Setting, Packets!Mox, Packets!Stop
  <2>2. pSettings' = pSettings \/ (pSettings < PacketsMaxSettings /\ pSettings' = pSettings + 1)
    BY DEF Packets!StartRadio, Packets!StartTimer, Packets!Setting, Packets!Mox, Packets!Stop
  <2>3. pKeys' = pKeys \/ (pKeys < PacketsMaxKeys /\ pKeys' = pKeys + 1)
    BY DEF Packets!StartRadio, Packets!StartTimer, Packets!Setting, Packets!Mox, Packets!Stop
  <2>4. /\ pCycling \in 0 .. 8 /\ pSettings \in 0 .. PacketsMaxSettings
        /\ pKeys \in 0 .. PacketsMaxKeys
    BY <1>1 DEF PacketTypes
  <2> QED BY ONLY <2>1, <2>2, <2>3, <2>4, PacketLimits DEF PacketLimits
<1>5. pRxcase' \in [Packets!DDCs -> PacketsRx \cup {-1}]
  <2>1. pRxcase' = pRxcase \/ pRxcase' = Packets!TableFor(pMox)
    BY DEF Packets!StartRadio, Packets!StartTimer, Packets!Setting, Packets!Mox, Packets!Stop
  <2>2. pRxcase \in [Packets!DDCs -> PacketsRx \cup {-1}]
    BY <1>1 DEF PacketTypes
  <2> QED BY <2>1, <2>2, TableTypes
<1>6. PacketTypes'
  <2>1. /\ pDevice \in PacketsDevices /\ pLost \in 0 .. PacketsMaxLost
        /\ DOMAIN pTold = Packets!Kinds /\ pTold = [p \in Packets!Kinds |-> pTold[p]]
    BY <1>1 DEF PacketTypes
  <2> QED BY <1>2, <1>3, <1>4, <1>5, <2>1 DEF PacketTypes
<1>7. StopUnderway'
  <2>1. CASE Packets!StartRadio \/ Packets!Setting \/ Packets!Mox
    <3>1. pRunning' = TRUE
      BY <1>1, <2>1, Zenon DEF Packets!StartRadio, Packets!Setting, Packets!Mox, Packets!Ready,
         PacketTypes
    <3> QED BY <3>1 DEF StopUnderway
  <2>2. CASE Packets!StartTimer
    <3>1. pRunning' = pRunning /\ Head(pThread["command"].todo) = "timer"
      BY <2>2 DEF Packets!StartTimer
    <3>2. ~StopToSend
      BY <3>1 DEF StopToSend
    <3> QED BY <1>1, <1>3, <3>1, <3>2 DEF StopUnderway
  <2>3. CASE Packets!Stop
    <3>1. pThread'["command"] = Packets!Begin(<<"HP">>)
      BY <1>1, <2>3 DEF Packets!Stop, PacketTypes, Packets!Threads
    <3>2. pThread'["command"].todo = <<"HP">> /\ pThread'["command"].step = "idle"
      BY <3>1 DEF Packets!Begin
    <3> QED BY <3>2 DEF StopUnderway, StopToSend
  <2> QED BY <2>1, <2>2, <2>3
<1> QED BY <1>6, <1>7 DEF PacketInv

\* The timer thread takes up a round, or time passes.
LEMMA PacketTicks ==
  ASSUME PacketInv, Packets!Tick \/ UNCHANGED Packets!vars
  PROVE  PacketInv'
<1>1. PacketTypes /\ StopUnderway /\ "timer" \in Packets!Threads
  BY DEF PacketInv, Packets!Threads
<1>2. CASE Packets!Tick
  <2>1. /\ pCycling' = (pCycling % 8) + 1
        /\ pThread' = [pThread EXCEPT !["timer"] = Packets!Begin(Packets!Round(pCycling'))]
        /\ UNCHANGED <<pDevice, pRunning, pMox, pTold, pRxcase, pSettings, pKeys, pLost>>
    BY <1>2 DEF Packets!Tick
  <2>2. pRunning = TRUE
    BY <1>1, <1>2, Zenon DEF Packets!Tick, PacketTypes
  <2>3. pCycling' \in 1 .. 8
    BY <1>1, <2>1 DEF PacketTypes
  <2>4. Packets!Round(pCycling') \in Seq(Works) /\ Len(Packets!Round(pCycling')) <= 5
    <3>1. \/ pCycling' \in {1, 3, 5, 7} /\ Packets!Round(pCycling') = <<"HP", "TS">>
          \/ pCycling' \in {2, 4, 6} /\ Packets!Round(pCycling') = <<"HP", "RS">>
          \/ pCycling' = 8 /\ Packets!Round(pCycling') = <<"HP", "RS", "GE">>
      BY <2>3 DEF Packets!Round
    <3>2. CASE Packets!Round(pCycling') = <<"HP", "TS">>
      BY <3>2 DEF Works
    <3>3. CASE Packets!Round(pCycling') = <<"HP", "RS">>
      BY <3>3 DEF Works
    <3>4. CASE Packets!Round(pCycling') = <<"HP", "RS", "GE">>
      BY <3>4 DEF Works
    <3> QED BY <3>1, <3>2, <3>3, <3>4
  <2>5. pThread' \in [Packets!Threads -> Senders]
    <3> DEFINE next == Packets!Begin(Packets!Round(pCycling'))
    <3>1. next \in Senders
      BY <2>4, Beginning
    <3>2. pThread' = [pThread EXCEPT !["timer"] = next]
      BY <2>1
    <3> HIDE DEF next
    <3> QED BY <1>1, <3>1, <3>2 DEF PacketTypes
  <2>6. PacketTypes'
    BY <1>1, <2>1, <2>3, <2>5 DEF PacketTypes
  <2>7. StopUnderway'
    BY <2>1, <2>2 DEF StopUnderway
  <2> QED BY <2>6, <2>7 DEF PacketInv
<1>3. CASE UNCHANGED Packets!vars
  BY <1>1, <1>3 DEF PacketInv, PacketTypes, StopUnderway, StopToSend, Packets!vars
<1> QED BY <1>2, <1>3

\* What the radio is told of running is what running is when the packet is sent.
LEMMA TellsRunning ==
  ASSUME NEW saw PROVE Packets!Contents("HP", saw).tuning.run = pRunning
BY DEF Packets!Contents, Packets!HighPriority, Packets!Tuning

\* A thread's progress with its first packet.
LEMMA Progressed ==
  ASSUME NEW s \in Progress, NEW step, NEW saw
  PROVE  /\ [s EXCEPT !.step = step] = [todo |-> s.todo, step |-> step, saw |-> s.saw]
         /\ [s EXCEPT !.step = step, !.saw = saw] = [todo |-> s.todo, step |-> step, saw |-> saw]
<1>1. PICK a \in Seq(Works), b \in {"idle", "filled", "clear", "fill"}, c \in BOOLEAN :
        s = [todo |-> a, step |-> b, saw |-> c]
  BY DEF Progress
<1> DEFINE half == [s EXCEPT !.step = step]
<1>2. half = [todo |-> a, step |-> step, saw |-> c]
  BY <1>1
<1>3. [half EXCEPT !.saw = saw] = [todo |-> a, step |-> step, saw |-> saw]
  <2> HIDE DEF half
  <2> QED BY <1>2
<1>4. s.todo = a /\ s.saw = c
  BY <1>1
<1> QED BY <1>2, <1>3, <1>4

\* Two fields of one record are assigned.
LEMMA OneAssigned ==
  ASSUME NEW f \in [Packets!Threads -> Senders], NEW t \in Packets!Threads, NEW step, NEW saw
  PROVE  [f EXCEPT ![t].step = step, ![t].saw = saw]
           = [f EXCEPT ![t] = [f[t] EXCEPT !.step = step, !.saw = saw]]
OBVIOUS

\* A thread puts a packet together, sends it, or writes the action table.
LEMMA PacketWork ==
  ASSUME PacketTypes, NEW t \in Packets!Threads, Packets!Step(t)
  PROVE  \E next \in Senders : pThread' = [pThread EXCEPT ![t] = next]
<1> DEFINE mine == pThread[t]
<1>1. mine \in Senders /\ pMox \in BOOLEAN
  BY DEF PacketTypes
<1>2. mine \in Progress /\ Len(mine.todo) <= 5 /\ (mine.todo = <<>> => mine.step = "idle")
  BY <1>1 DEF Senders
<1>3. ASSUME NEW step \in {"filled", "clear", "fill"}, NEW saw \in BOOLEAN, mine.todo # <<>>
      PROVE  [todo |-> mine.todo, step |-> step, saw |-> saw] \in Senders
  BY <1>2, <1>3 DEF Senders, Progress
<1>4. mine.saw \in BOOLEAN
  BY <1>2 DEF Progress
<1>5. CASE Packets!PacketBegin(t)
  <2>1. mine.todo # <<>> /\ pThread' = [pThread EXCEPT ![t].step = "filled", ![t].saw = pMox]
    BY <1>5 DEF Packets!PacketBegin
  <2>2. pThread' = [pThread EXCEPT ![t] = [mine EXCEPT !.step = "filled", !.saw = pMox]]
    BY <2>1, OneAssigned DEF PacketTypes
  <2>3. [mine EXCEPT !.step = "filled", !.saw = pMox] \in Senders
   <3>1. [mine EXCEPT !.step = "filled", !.saw = pMox]
         = [todo |-> mine.todo, step |-> "filled", saw |-> pMox]
     BY <1>2, Progressed
   <3> QED BY <1>1, <1>3, <2>1, <3>1
  <2> QED BY <2>2, <2>3
<1>6. CASE Packets!PacketSend(t)
  <2>1. mine.todo # <<>>
    BY <1>6 DEF Packets!PacketSend
  <2>2. CASE Head(mine.todo) \in {"HP", "RS"}
    <3>1. pThread' = [pThread EXCEPT ![t] = [mine EXCEPT !.step = "clear", !.saw = pMox]]
      BY <1>6, <2>2 DEF Packets!PacketSend
    <3>2. [mine EXCEPT !.step = "clear", !.saw = pMox] \in Senders
     <4>1. [mine EXCEPT !.step = "clear", !.saw = pMox]
           = [todo |-> mine.todo, step |-> "clear", saw |-> pMox]
       BY <1>2, Progressed
     <4> QED BY <1>1, <1>3, <2>1, <4>1
    <3> QED BY <3>1, <3>2
  <2>3. CASE Head(mine.todo) \notin {"HP", "RS"}
    <3>1. pThread' = [pThread EXCEPT ![t] = Packets!Begin(Tail(mine.todo))]
      BY <1>6, <2>3 DEF Packets!PacketSend
    <3> QED BY <1>1, <2>1, <3>1, Remaining
  <2> QED BY <2>2, <2>3
<1>7. CASE Packets!TableClear(t)
  <2>1. mine.step = "clear" /\ pThread' = [pThread EXCEPT ![t] = [mine EXCEPT !.step = "fill"]]
    BY <1>7 DEF Packets!TableClear
  <2>2. mine.todo # <<>>
    BY <1>2, <2>1
  <2>3. [mine EXCEPT !.step = "fill"] \in Senders
    BY <1>2, <1>3, <1>4, <2>2, Progressed, ZenonT(60)
  <2> QED BY <2>1, <2>3
<1>8. CASE Packets!TableFill(t)
  <2>1. mine.step = "fill" /\ pThread' = [pThread EXCEPT ![t] = Packets!Begin(Tail(mine.todo))]
    BY <1>8 DEF Packets!TableFill
  <2>2. mine.todo # <<>>
    BY <1>2, <2>1
  <2> QED BY <1>1, <2>1, <2>2, Remaining
<1> QED BY <1>5, <1>6, <1>7, <1>8 DEF Packets!Step

\* What a step of a thread tells the radio, and whether a stop has still to be told.
LEMMA PacketTelling ==
  ASSUME PacketInv, NEW t \in Packets!Threads, Packets!Step(t)
  PROVE  StopUnderway'
<1>1. PacketTypes /\ StopUnderway
  BY DEF PacketInv
<1>2. UNCHANGED pRunning
  BY DEF Packets!Step, Packets!PacketBegin, Packets!PacketSend, Packets!TableClear,
     Packets!TableFill
<1>3. CASE Packets!PacketBegin(t)
  <2>1. /\ pThread[t].step = "idle"
        /\ pThread' = [pThread EXCEPT ![t].step = "filled", ![t].saw = pMox]
        /\ UNCHANGED <<pTold, pLost>>
    BY <1>3 DEF Packets!PacketBegin
  <2>2. /\ pThread'["command"].todo = pThread["command"].todo
        /\ pThread'["command"].step \in {pThread["command"].step, "filled"}
    BY <1>1, <2>1 DEF PacketTypes, Senders, Progress, Packets!Threads
  <2>3. StopToSend => StopToSend'
    BY <2>2 DEF StopToSend
  <2> QED BY <1>1, <1>2, <2>1, <2>3 DEF StopUnderway
<1>4. CASE Packets!PacketSend(t)
  <2> DEFINE p == Head(pThread[t].todo)
  <2>1. CASE pLost' = pLost + 1
    <3>1. pLost' # 0
      BY <1>1, <2>1 DEF PacketTypes
    <3> QED BY <3>1 DEF StopUnderway
  <2>2. CASE pTold' = [pTold EXCEPT ![p] = Packets!Contents(p, pThread[t].saw)] /\ UNCHANGED pLost
    <3>1. CASE p = "HP"
      <4>1. pTold'["HP"] = Packets!Contents("HP", pThread[t].saw)
        BY <1>1, <2>2, <3>1 DEF PacketTypes, Packets!Kinds
      <4>2. pTold'["HP"].tuning.run = pRunning
        BY <4>1, TellsRunning
      <4> QED BY <1>2, <4>2 DEF StopUnderway
    <3>2. CASE p # "HP"
      <4>1. pTold'["HP"] = pTold["HP"]
        BY <1>1, <2>2, <3>2 DEF PacketTypes, Packets!Kinds
      <4>2. CASE t = "command"
        <5>1. ~StopToSend
          BY <3>2, <4>2 DEF StopToSend
        <5> QED BY <1>1, <1>2, <2>2, <4>1, <5>1 DEF StopUnderway
      <4>3. CASE t # "command"
        <5>1. \E next : pThread' = [pThread EXCEPT ![t] = next]
          BY <1>4 DEF Packets!PacketSend
        <5>2. pThread'["command"] = pThread["command"]
          BY <1>1, <4>3, <5>1 DEF PacketTypes, Packets!Threads
        <5> QED BY <1>1, <1>2, <2>2, <4>1, <5>2 DEF StopUnderway, StopToSend
      <4> QED BY <4>2, <4>3
    <3> QED BY <3>1, <3>2
  <2> QED BY <1>4, <2>1, <2>2 DEF Packets!PacketSend
<1>5. CASE Packets!TableClear(t) \/ Packets!TableFill(t)
  <2>1. pThread[t].step \in {"clear", "fill"} /\ UNCHANGED <<pTold, pLost>>
    BY <1>5 DEF Packets!TableClear, Packets!TableFill
  <2>2. CASE t = "command"
    <3>1. ~StopToSend
      BY <2>1, <2>2 DEF StopToSend
    <3> QED BY <1>1, <1>2, <2>1, <3>1 DEF StopUnderway
  <2>3. CASE t # "command"
    <3>1. PICK next \in Senders : pThread' = [pThread EXCEPT ![t] = next]
      BY <1>1, PacketWork
    <3>2. pThread'["command"] = pThread["command"]
      BY <1>1, <2>3, <3>1 DEF PacketTypes, Packets!Threads
    <3> QED BY <1>1, <1>2, <2>1, <3>2 DEF StopUnderway, StopToSend
  <2> QED BY <2>2, <2>3
<1> QED BY <1>3, <1>4, <1>5 DEF Packets!Step

LEMMA PacketSteps ==
  ASSUME PacketLimits, PacketInv, NEW t \in Packets!Threads, Packets!Step(t)
  PROVE  PacketInv'
<1>1. PacketTypes
  BY DEF PacketInv
<1>2. UNCHANGED <<pDevice, pRunning, pMox, pCycling, pSettings, pKeys>>
  BY DEF Packets!Step, Packets!PacketBegin, Packets!PacketSend, Packets!TableClear,
     Packets!TableFill
<1>3. pThread' \in [Packets!Threads -> Senders]
  <2>1. PICK next \in Senders : pThread' = [pThread EXCEPT ![t] = next]
    BY <1>1, PacketWork
  <2> QED BY <1>1, <2>1 DEF PacketTypes
<1>4. pLost' \in 0 .. PacketsMaxLost
  <2>1. pLost' = pLost \/ (pLost < PacketsMaxLost /\ pLost' = pLost + 1)
    BY DEF Packets!Step, Packets!PacketBegin, Packets!PacketSend, Packets!TableClear,
       Packets!TableFill
  <2>2. pLost \in 0 .. PacketsMaxLost
    BY <1>1 DEF PacketTypes
  <2> QED BY ONLY <2>1, <2>2, PacketLimits DEF PacketLimits
<1>5. pRxcase' \in [Packets!DDCs -> PacketsRx \cup {-1}]
  <2>1. pRxcase \in [Packets!DDCs -> PacketsRx \cup {-1}]
    BY <1>1 DEF PacketTypes
  <2>2. CASE Packets!PacketBegin(t) \/ Packets!PacketSend(t)
    BY <2>1, <2>2 DEF Packets!PacketBegin, Packets!PacketSend
  <2>3. CASE Packets!TableClear(t)
    BY <2>3 DEF Packets!TableClear
  <2>4. CASE Packets!TableFill(t)
    <3> DEFINE table == Packets!TableFor(pThread[t].saw)
    <3>1. pRxcase' = [d \in Packets!DDCs |-> IF table[d] # -1 THEN table[d] ELSE pRxcase[d]]
      BY <2>4 DEF Packets!TableFill
    <3>2. table \in [Packets!DDCs -> PacketsRx \cup {-1}]
      BY TableTypes
    <3> HIDE DEF table
    <3> QED BY <2>1, <3>1, <3>2
  <2> QED BY <2>2, <2>3, <2>4 DEF Packets!Step
<1>6. DOMAIN pTold' = Packets!Kinds /\ pTold' = [p \in Packets!Kinds |-> pTold'[p]]
  <2>1. pTold' = pTold \/ \E p, v : pTold' = [pTold EXCEPT ![p] = v]
    BY DEF Packets!Step, Packets!PacketBegin, Packets!PacketSend, Packets!TableClear,
       Packets!TableFill
  <2>2. DOMAIN pTold = Packets!Kinds /\ pTold = [p \in Packets!Kinds |-> pTold[p]]
    BY <1>1 DEF PacketTypes
  <2> QED BY <2>1, <2>2
<1>7. PacketTypes'
  BY <1>1, <1>2, <1>3, <1>4, <1>5, <1>6 DEF PacketTypes
<1> QED BY <1>7, PacketTelling DEF PacketInv

\* Whatever is set, keyed and stopped in whatever order, and however the two threads
\* interleave: once both are between packets after a stop, and no packet was lost,
\* the last high priority packet told the radio to stop (new_protocol_stop,
\* new_protocol_high_priority).  It is the safety part of SettingsRepeated.
THEOREM StopCorrect ==
  ASSUME PacketLimits
  PROVE  Packets!Spec =>
           [](Packets!TypeOK /\ (Packets!StoppedUnlost => ~pTold["HP"].tuning.run))
<1>1. Packets!Init => PacketInv
  BY PacketStart
<1>2. PacketInv /\ [Packets!Next]_(Packets!vars) => PacketInv'
  BY PacketCommands, PacketTicks, PacketSteps DEF Packets!Next
<1>3. PacketInv => Packets!TypeOK /\ (Packets!StoppedUnlost => ~pTold["HP"].tuning.run)
  <2> SUFFICES ASSUME PacketInv
               PROVE  Packets!TypeOK /\ (Packets!StoppedUnlost => ~pTold["HP"].tuning.run)
    OBVIOUS
  <2>1. \A t \in Packets!Threads :
          pThread[t].step \in {"idle", "filled", "clear", "fill"} /\ Len(pThread[t].todo) <= 5
    BY DEF PacketInv, PacketTypes, Senders, Progress
  <2>2. Packets!TypeOK
    BY <2>1 DEF PacketInv, PacketTypes, Packets!TypeOK
  <2>3. ASSUME Packets!StoppedUnlost PROVE ~pTold["HP"].tuning.run
    <3>1. ~pRunning /\ pTold["HP"] # <<>> /\ pLost = 0 /\ pThread["command"] = Packets!Begin(<<>>)
      BY <2>3 DEF Packets!StoppedUnlost, Packets!Threads
    <3>2. pThread["command"].todo = <<>>
      BY <3>1 DEF Packets!Begin
    <3> QED BY <3>1, <3>2 DEF PacketInv, StopUnderway, StopToSend
  <2> QED BY <2>2, <2>3
<1> QED BY <1>1, <1>2, <1>3, PTL DEF Packets!Spec

----------------------------------------------------------------------------
(* The radios' connections to dspserver *)

\* The table has room for a radio, and the controllers are finitely many.
Tables ==
  /\ LinkMaxRadios \in Nat \ {0} /\ LinkMaxChannels \in Nat /\ LinkReceivers \in Nat
  /\ IsFiniteSet(LinkControllers) /\ LinkNobody \notin LinkControllers

Channel == [owner : LinkControllers \cup {LinkNobody}, connection : Link!Slots,
            index : 0 .. LinkReceivers, dsp : 0 .. LinkReceivers, tx : BOOLEAN]

\* The controllers whose connection was counted, or turned away.
Through == {c \in LinkControllers : rThread[c].pc \in {"watch", "done"}}

LinkTypes ==
  /\ rUp \in BOOLEAN /\ rCalm \in BOOLEAN /\ rGone \subseteq LinkControllers
  /\ rSocket \in [Link!Slots -> LinkControllers \cup {LinkNobody}]
  /\ rConnected \in [Link!Slots -> BOOLEAN]
  /\ rThread \in [LinkControllers ->
                   [pc : {"none", "start", "manifest", "count", "watch", "done"},
                    slot : Link!Slots]]
  /\ rChannels \in Seq(Channel) /\ Len(rChannels) <= LinkMaxChannels
  /\ rCount \in Nat /\ rCount <= Cardinality(Through)

\* One connection at most is on its way, to the first slot that is not counted.
Arrival ==
  /\ rUp /\ rGone = {} /\ rCount <= LinkMaxRadios
  /\ \A c \in LinkControllers :
       rThread[c].pc \in {"start", "manifest", "count"}
         => /\ rCount < LinkMaxRadios /\ rSocket[rCount] = c
            /\ \A d \in LinkControllers \ {c} : rThread[d].pc \in {"none", "watch"}

\* The threads that have entered have a slot each, that leads to their controller.
Seated ==
  /\ \A s \in 0 .. rCount - 1 : rConnected[s]
  /\ \A c \in LinkControllers :
       /\ rThread[c].pc \in {"manifest", "count"}
            => rThread[c].slot = rCount /\ rConnected[rCount]
       /\ rThread[c].pc = "watch"
            => rThread[c].slot < rCount /\ rSocket[rThread[c].slot] = c

\* A channel has the slot of the controller that described it, and the place it
\* was given there.
Described ==
  \A k \in DOMAIN rChannels :
    /\ rChannels[k].owner \in LinkControllers
    /\ rThread[rChannels[k].owner].pc \in {"count", "watch"}
    /\ rChannels[k].connection = rThread[rChannels[k].owner].slot
    /\ \A j \in DOMAIN rChannels :
         (j # k /\ rChannels[j].owner = rChannels[k].owner)
           => rChannels[j].index # rChannels[k].index

OneAtATime == rCalm => Arrival /\ Seated /\ Described

LinkInv == LinkTypes /\ OneAtATime

LEMMA LinkStart == ASSUME Tables PROVE Link!Init => LinkInv
<1> SUFFICES ASSUME Link!Init PROVE LinkInv
  OBVIOUS
<1> USE DEF Link!Init, Link!Slots, Tables
<1>1. Through = {}
  BY DEF Through
<1>2. rCount <= Cardinality(Through) /\ rCount \in Nat
  BY <1>1, FS_EmptySet
<1>3. rChannels \in Seq(Channel) /\ Len(rChannels) = 0
  OBVIOUS
<1>4. LinkTypes
  BY <1>2, <1>3 DEF LinkTypes
<1>5. Arrival /\ Seated /\ Described
  BY DEF Arrival, Seated, Described
<1> QED BY <1>4, <1>5 DEF LinkInv, OneAtATime

\* What createChannels adds to the table: channels of c at the connection slot,
\* numbered from 0.
Adds(c, slot, new) ==
  LET all == rChannels \o new IN
  /\ new \in Seq(Channel) /\ all \in Seq(Channel) /\ Len(all) <= LinkMaxChannels
  /\ Len(all) = Len(rChannels) + Len(new)
  /\ \A k \in 1 .. Len(new) :
       new[k].owner = c /\ new[k].connection = slot /\ new[k].index = k - 1
  /\ \A k \in 1 .. Len(rChannels) : all[k] = rChannels[k]
  /\ \A k \in 1 .. Len(new) : all[Len(rChannels) + k] = new[k]

LEMMA Created ==
  ASSUME Tables, LinkTypes, NEW c \in LinkControllers \cup {LinkNobody}, NEW slot \in Link!Slots,
         NEW n \in {0, LinkReceivers + 1}
  PROVE  Adds(c, slot, Link!NewChannels(c, slot, n))
<1> DEFINE first == Len(rChannels)
           room == LinkMaxChannels - first
           m == IF n < room THEN n ELSE room
           new == Link!NewChannels(c, slot, n)
<1>1. first \in Nat /\ rChannels \in Seq(Channel) /\ room \in Nat
  BY DEF Tables, LinkTypes
<1>2. n \in 0 .. LinkReceivers + 1 /\ LinkReceivers \in Nat
  BY DEF Tables
<1>3. m \in Nat /\ m <= LinkReceivers + 1 /\ m <= room
  BY <1>1, <1>2
<1>4. new = [k \in 1 .. m |-> [owner |-> c, connection |-> slot, index |-> k - 1,
                               dsp |-> k - 1, tx |-> k > LinkReceivers]]
  BY DEF Link!NewChannels
<1> HIDE DEF m, room, first, new
<1>5. ASSUME NEW k \in 1 .. m
      PROVE  [owner |-> c, connection |-> slot, index |-> k - 1,
              dsp |-> k - 1, tx |-> k > LinkReceivers] \in Channel
  BY <1>2, <1>3, <1>5 DEF Channel
<1>6. new \in [1 .. m -> Channel]
  BY <1>4, <1>5
<1>7. new \in Seq(Channel) /\ Len(new) = m
  BY <1>3, <1>6
<1>8. \A k \in 1 .. Len(new) :
        new[k].owner = c /\ new[k].connection = slot /\ new[k].index = k - 1
  BY <1>4, <1>7
<1>9. /\ rChannels \o new \in Seq(Channel) /\ Len(rChannels \o new) = first + m
      /\ \A k \in 1 .. first : (rChannels \o new)[k] = rChannels[k]
      /\ \A k \in 1 .. m : (rChannels \o new)[first + k] = new[k]
  BY <1>1, <1>3, <1>7 DEF first
<1>10. Len(rChannels \o new) <= LinkMaxChannels
  BY <1>1, <1>3, <1>9 DEF room, Tables
<1> QED BY <1>7, <1>8, <1>9, <1>10 DEF new, first, Adds

\* A step that leaves the counter, or counts it down, and lets no one back.
LEMMA CountHeld ==
  ASSUME Tables, LinkTypes, Through \subseteq Through', rCount' \in {rCount, rCount - 1},
         rCount' \in Nat
  PROVE  rCount' <= Cardinality(Through')
<1>1. IsFiniteSet(Through) /\ IsFiniteSet(Through')
  BY FS_Subset DEF Tables, Through
<1>2. Cardinality(Through) <= Cardinality(Through')
  BY <1>1, FS_Subset
<1>3. Cardinality(Through) \in Nat /\ Cardinality(Through') \in Nat
  BY <1>1, FS_CardinalityType
<1> QED BY <1>2, <1>3 DEF LinkTypes
----------------------------------------------------------------------------
(* Types are kept *)

LEMMA TypesKept ==
  ASSUME Tables
  PROVE  LinkTypes /\ [Link!Next]_(Link!vars) => LinkTypes'
<1> SUFFICES ASSUME LinkTypes, [Link!Next]_(Link!vars) PROVE LinkTypes'
  OBVIOUS
<1> USE DEF Tables
<1>0. /\ rCount \in Nat /\ rCount <= Cardinality(Through) /\ 0 \in Link!Slots
      /\ LinkMaxRadios \in Link!Slots
      /\ \A s \in Link!Slots : s \in Nat
  BY DEF LinkTypes, Link!Slots
<1>1. ASSUME NEW c \in LinkControllers, Link!Accept(c) PROVE LinkTypes'
  <2>1. /\ rSocket' \in [Link!Slots -> LinkControllers \cup {LinkNobody}] /\ rCalm' \in BOOLEAN
        /\ rThread' = [rThread EXCEPT ![c].pc = "start"]
        /\ UNCHANGED <<rUp, rCount, rConnected, rGone, rChannels>>
    BY <1>1 DEF Link!Accept, Link!Goto, LinkTypes
  <2>2. Through \subseteq Through'
    BY <1>1, <2>1 DEF Link!Accept, Link!At, Through, LinkTypes
  <2>3. rCount' <= Cardinality(Through') /\ rCount' \in Nat
    BY <1>0, <2>1, <2>2, CountHeld
  <2> QED BY <2>1, <2>3 DEF LinkTypes
<1>2. ASSUME NEW c \in LinkControllers, Link!AcceptBeyond(c) \/ Link!WatchNothing(c)
      PROVE  LinkTypes'
  <2>1. /\ rUp' \in BOOLEAN /\ rCalm' \in BOOLEAN
        /\ rThread' = [rThread EXCEPT ![c].pc = "done"]
        /\ UNCHANGED <<Link!tableVars, rGone, rChannels>>
    BY <1>2 DEF Link!AcceptBeyond, Link!WatchNothing, Link!Goto, LinkTypes
  <2>2. Through \subseteq Through'
    BY <2>1 DEF Through, LinkTypes
  <2>3. rCount' <= Cardinality(Through') /\ rCount' \in Nat
    BY <1>0, <2>1, <2>2, CountHeld DEF Link!tableVars
  <2> QED BY <2>1, <2>3 DEF LinkTypes, Link!tableVars
<1>3. ASSUME NEW c \in LinkControllers, Link!Refuse(c) PROVE LinkTypes'
  <2>1. /\ rSocket' \in [Link!Slots -> LinkControllers \cup {LinkNobody}]
        /\ rConnected' \in [Link!Slots -> BOOLEAN]
        /\ rCount' = rCount - 1 /\ rCount' \in Nat
        /\ rThread' = [rThread EXCEPT ![c].pc = "done"]
        /\ UNCHANGED <<rUp, rGone, rChannels, rCalm>>
    BY <1>0, <1>3 DEF Link!Refuse, Link!Goto, LinkTypes
  <2>2. Through \subseteq Through'
    BY <2>1 DEF Through, LinkTypes
  <2>3. rCount' <= Cardinality(Through')
    BY <2>1, <2>2, CountHeld
  <2> QED BY <2>1, <2>3 DEF LinkTypes
<1>4. ASSUME NEW c \in LinkControllers, Link!Enter(c) PROVE LinkTypes'
  <2>1. /\ rConnected' \in [Link!Slots -> BOOLEAN] /\ rCount \in Link!Slots
        /\ rThread' = [rThread EXCEPT ![c] = [pc |-> "manifest", slot |-> rCount]]
        /\ UNCHANGED <<rUp, rCount, rSocket, rGone, rChannels, rCalm>>
    BY <1>4 DEF Link!Enter, LinkTypes
  <2>2. Through \subseteq Through'
    BY <1>4, <2>1 DEF Link!Enter, Link!At, Through, LinkTypes
  <2>3. rCount' <= Cardinality(Through') /\ rCount' \in Nat
    BY <1>0, <2>1, <2>2, CountHeld
  <2> QED BY <2>1, <2>3 DEF LinkTypes
<1>5. ASSUME NEW c \in LinkControllers, Link!Manifest(c) PROVE LinkTypes'
  <2>1. UNCHANGED <<Link!tableVars, rGone, rCalm>> /\ rThread[c].slot \in Link!Slots
        /\ rSocket[rThread[c].slot] \in LinkControllers \cup {LinkNobody}
    BY <1>5 DEF Link!Manifest, LinkTypes
  <2>2. CASE rSocket[rThread[c].slot] \in rGone \cup {LinkNobody}
    <3>1. rUp' = FALSE /\ UNCHANGED <<rChannels, rThread>>
      BY <1>5, <2>2 DEF Link!Manifest
    <3> QED BY <2>1, <3>1 DEF LinkTypes, Link!tableVars, Through
  <2>3. CASE rSocket[rThread[c].slot] \notin rGone \cup {LinkNobody}
    <3>1. PICK n \in {0, LinkReceivers + 1} :
            rChannels' = rChannels \o Link!NewChannels(rSocket[rThread[c].slot], rThread[c].slot, n)
      BY <1>5, <2>3 DEF Link!Manifest
    <3>2. UNCHANGED rUp /\ rThread' = [rThread EXCEPT ![c].pc = "count"]
      BY <1>5, <2>3 DEF Link!Manifest, Link!Goto
    <3>3. rChannels' \in Seq(Channel) /\ Len(rChannels') <= LinkMaxChannels
      BY <2>1, <3>1, Created, ZenonT(60) DEF Adds
    <3>4. Through \subseteq Through'
      BY <1>5, <3>2 DEF Link!Manifest, Link!At, Through, LinkTypes
    <3>5. rCount' <= Cardinality(Through') /\ rCount' \in Nat
      BY <1>0, <2>1, <3>4, CountHeld DEF Link!tableVars
    <3> QED BY <2>1, <3>2, <3>3, <3>5 DEF LinkTypes, Link!tableVars
  <2> QED BY <2>2, <2>3
<1>6. ASSUME NEW c \in LinkControllers, Link!Count(c) PROVE LinkTypes'
  <2>1. /\ rCount' = rCount + 1 /\ rThread' = [rThread EXCEPT ![c].pc = "watch"]
        /\ UNCHANGED <<rUp, rSocket, rConnected, rGone, rChannels, rCalm>>
    BY <1>6 DEF Link!Count, Link!Goto
  <2>2. c \notin Through /\ Through' = Through \cup {c}
    BY <1>6, <2>1 DEF Link!Count, Link!At, Through, LinkTypes
  <2>3. IsFiniteSet(Through)
    BY FS_Subset DEF Through
  <2>4. Cardinality(Through') = Cardinality(Through) + 1 /\ Cardinality(Through) \in Nat
    BY <2>2, <2>3, FS_AddElement, FS_CardinalityType
  <2>5. rCount' \in Nat /\ rCount' <= Cardinality(Through')
    BY <1>0, <2>1, <2>4
  <2> QED BY <2>1, <2>5 DEF LinkTypes
<1>7. ASSUME NEW c \in LinkControllers, Link!Watch(c) PROVE LinkTypes'
  <2>1. /\ rSocket' \in [Link!Slots -> LinkControllers \cup {LinkNobody}]
        /\ rCount' = rCount - 1 /\ rCount' \in Nat
        /\ rThread' = [rThread EXCEPT ![c].pc = "done"]
        /\ UNCHANGED <<rUp, rConnected, rGone, rChannels, rCalm>>
    BY <1>0, <1>7 DEF Link!Watch, Link!Goto, LinkTypes
  <2>2. Through \subseteq Through'
    BY <2>1 DEF Through, LinkTypes
  <2>3. rCount' <= Cardinality(Through')
    BY <2>1, <2>2, CountHeld
  <2> QED BY <2>1, <2>3 DEF LinkTypes
<1>8. ASSUME NEW c \in LinkControllers, Link!Leave(c) PROVE LinkTypes'
  BY <1>8 DEF Link!Leave, LinkTypes, Link!tableVars, Through
<1>9. ASSUME NEW k \in 1 .. LinkMaxChannels, Link!CommandFails(k) PROVE LinkTypes'
  BY <1>9 DEF Link!CommandFails, LinkTypes, Through
<1>10. CASE UNCHANGED Link!vars
  BY <1>10 DEF Link!vars, Link!tableVars, LinkTypes, Through
<1> QED BY <1>1, <1>2, <1>3, <1>4, <1>5, <1>6, <1>7, <1>8, <1>9, <1>10 DEF Link!Next
----------------------------------------------------------------------------
(* The order of controllers that come one at a time is kept *)

LEMMA OrderAccept ==
  ASSUME Tables, LinkInv, NEW c \in LinkControllers, Link!Accept(c), rCalm'
  PROVE  Arrival' /\ Seated' /\ Described'
<1> USE DEF Tables, LinkTypes
<1>1. /\ rCalm /\ rCount < LinkMaxRadios /\ rCount \in Link!Slots /\ rThread[c].pc = "none"
      /\ \A d \in LinkControllers : rThread[d].pc \in {"none", "watch"}
      /\ rSocket' = [rSocket EXCEPT ![rCount] = c]
      /\ rThread' = [rThread EXCEPT ![c].pc = "start"]
      /\ UNCHANGED <<rUp, rCount, rConnected, rGone, rChannels>>
  BY DEF Link!Accept, Link!At, Link!Goto, LinkInv
<1>2. Arrival /\ Seated /\ Described /\ LinkTypes
  BY <1>1 DEF LinkInv, OneAtATime
<1>3. \A d \in LinkControllers : d # c => rThread'[d] = rThread[d]
  BY <1>1, <1>2
<1>4. rThread'[c].pc = "start" /\ rThread'[c].slot = rThread[c].slot
  BY <1>1, <1>2
<1>5. rSocket'[rCount] = c /\ \A s \in Link!Slots : s # rCount => rSocket'[s] = rSocket[s]
  BY <1>1, <1>2
<1>6. Arrival'
  BY <1>1, <1>2, <1>3, <1>4, <1>5 DEF Arrival
<1>7. Seated'
  <2>1. ASSUME NEW d \in LinkControllers, rThread'[d].pc = "watch"
        PROVE  rThread'[d].slot < rCount' /\ rSocket'[rThread'[d].slot] = d
    <3>1. d # c /\ rThread[d].pc = "watch" /\ rThread'[d].slot = rThread[d].slot
      BY <1>3, <1>4, <2>1
    <3>2. rThread[d].slot \in Link!Slots /\ rThread[d].slot < rCount
      BY <1>2, <3>1 DEF Seated
    <3>3. rThread[d].slot # rCount
      BY <1>2, <3>2 DEF Link!Slots
    <3> QED BY <1>1, <1>2, <1>5, <3>1, <3>2, <3>3 DEF Seated
  <2> QED BY <1>1, <1>2, <1>3, <1>4, <2>1 DEF Seated
<1>8. Described'
  BY <1>1, <1>2, <1>3, <1>4 DEF Described
<1> QED BY <1>6, <1>7, <1>8

LEMMA OrderEnter ==
  ASSUME Tables, LinkInv, NEW c \in LinkControllers, Link!Enter(c), rCalm'
  PROVE  Arrival' /\ Seated' /\ Described'
<1> USE DEF Tables, LinkTypes
<1>1. /\ rCalm /\ rThread[c].pc = "start" /\ rCount \in Link!Slots
      /\ rConnected' = [rConnected EXCEPT ![rCount] = TRUE]
      /\ rThread' = [rThread EXCEPT ![c] = [pc |-> "manifest", slot |-> rCount]]
      /\ UNCHANGED <<rUp, rCount, rSocket, rGone, rChannels>>
  BY DEF Link!Enter, Link!At, LinkInv
<1>2. Arrival /\ Seated /\ Described /\ LinkTypes
  BY <1>1 DEF LinkInv, OneAtATime
<1>3. \A d \in LinkControllers : d # c => rThread'[d] = rThread[d]
  BY <1>1, <1>2
<1>4. rThread'[c].pc = "manifest" /\ rThread'[c].slot = rCount
  BY <1>1, <1>2
<1>5. rConnected'[rCount] /\ \A s \in Link!Slots : rConnected[s] => rConnected'[s]
  BY <1>1, <1>2
<1>6. \A s \in 0 .. rCount - 1 : s \in Link!Slots
  BY <1>1, <1>2 DEF Link!Slots
<1>7. Arrival'
  BY <1>1, <1>2, <1>3, <1>4 DEF Arrival
<1>8. Seated'
  <2>1. \A s \in 0 .. rCount' - 1 : rConnected'[s]
    BY <1>1, <1>2, <1>5, <1>6 DEF Seated
  <2>2. ASSUME NEW d \in LinkControllers
        PROVE  /\ rThread'[d].pc \in {"manifest", "count"}
                    => rThread'[d].slot = rCount' /\ rConnected'[rCount']
               /\ rThread'[d].pc = "watch"
                    => rThread'[d].slot < rCount' /\ rSocket'[rThread'[d].slot] = d
    BY <1>1, <1>2, <1>3, <1>4, <1>5 DEF Seated
  <2> QED BY <2>1, <2>2 DEF Seated
<1>9. Described'
  BY <1>1, <1>2, <1>3 DEF Described
<1> QED BY <1>7, <1>8, <1>9

\* The controller at the slot of a thread that asks is the one that was accepted,
\* and its channels are new.
LEMMA OrderManifest ==
  ASSUME Tables, LinkInv, NEW c \in LinkControllers, Link!Manifest(c), rCalm'
  PROVE  Arrival' /\ Seated' /\ Described'
<1> USE DEF Tables, LinkTypes
<1>1. rCalm /\ rThread[c].pc = "manifest" /\ UNCHANGED <<Link!tableVars, rGone>>
  BY DEF Link!Manifest, Link!At, LinkInv
<1>2. Arrival /\ Seated /\ Described /\ LinkTypes
  BY <1>1 DEF LinkInv, OneAtATime
<1>3. rThread[c].slot = rCount /\ rSocket[rCount] = c /\ c \notin rGone \cup {LinkNobody}
  BY <1>1, <1>2 DEF Arrival, Seated
<1>4. PICK n \in {0, LinkReceivers + 1} : rChannels' = rChannels \o Link!NewChannels(c, rCount, n)
  BY <1>3 DEF Link!Manifest
<1>5. UNCHANGED rUp /\ rThread' = [rThread EXCEPT ![c].pc = "count"]
  BY <1>3 DEF Link!Manifest, Link!Goto
<1>6. \A d \in LinkControllers : d # c => rThread'[d] = rThread[d]
  BY <1>2, <1>5
<1>7. rThread'[c].pc = "count" /\ rThread'[c].slot = rCount
  BY <1>2, <1>3, <1>5
<1>8. UNCHANGED <<rCount, rSocket, rConnected>>
  BY <1>1 DEF Link!tableVars
<1>9. Arrival'
  BY <1>1, <1>2, <1>5, <1>6, <1>7, <1>8 DEF Arrival
<1>10. Seated'
  BY <1>1, <1>2, <1>5, <1>6, <1>7, <1>8 DEF Seated
<1>11. rCount \in Link!Slots
  BY <1>2, <1>3
<1>12. PICK new \in Seq(Channel) :
         /\ rChannels' \in Seq(Channel) /\ Len(rChannels') = Len(rChannels) + Len(new)
         /\ \A k \in 1 .. Len(new) :
              new[k].owner = c /\ new[k].connection = rCount /\ new[k].index = k - 1
         /\ \A k \in 1 .. Len(rChannels) : rChannels'[k] = rChannels[k]
         /\ \A k \in 1 .. Len(new) : rChannels'[Len(rChannels) + k] = new[k]
  <2> HIDE DEF Tables, LinkTypes
  <2>0. /\ Tables /\ LinkTypes /\ c \in LinkControllers \cup {LinkNobody}
        /\ n \in {0, LinkReceivers + 1} /\ rCount \in Link!Slots
    BY <1>2, <1>11
  <2> DEFINE add == Link!NewChannels(c, rCount, n)
  <2>1. Adds(c, rCount, add)
    BY ONLY <2>0, Created, Zenon
  <2> HIDE DEF add
  <2>2. rChannels' = rChannels \o add
    BY <1>4 DEF add
  <2> QED BY <2>1, <2>2 DEF Adds
<1>13. Len(rChannels) \in Nat /\ Len(new) \in Nat /\ DOMAIN rChannels = 1 .. Len(rChannels)
  BY <1>2, <1>12
<1>14. DOMAIN rChannels' = 1 .. Len(rChannels) + Len(new)
  BY <1>12
<1>15. \A k \in 1 .. Len(rChannels) : rChannels'[k] = rChannels[k] /\ rChannels[k].owner # c
  BY <1>1, <1>2, <1>12, <1>13 DEF Described
<1>16. ASSUME NEW k \in DOMAIN rChannels', k > Len(rChannels)
       PROVE  /\ rChannels'[k].owner = c /\ rChannels'[k].connection = rCount
              /\ rChannels'[k].index = k - Len(rChannels) - 1
  <2> DEFINE p == k - Len(rChannels)
  <2>1. p \in 1 .. Len(new) /\ k = Len(rChannels) + p /\ p - 1 = k - Len(rChannels) - 1
    BY <1>13, <1>14, <1>16
  <2> HIDE DEF p
  <2>2. /\ new[p].owner = c /\ new[p].connection = rCount /\ new[p].index = p - 1
        /\ rChannels'[k] = new[p]
    BY <1>12, <2>1
  <2> QED BY ONLY <2>1, <2>2
<1>17. Described'
  <2> SUFFICES ASSUME NEW k \in DOMAIN rChannels'
               PROVE  /\ rChannels'[k].owner \in LinkControllers
                      /\ rThread'[rChannels'[k].owner].pc \in {"count", "watch"}
                      /\ rChannels'[k].connection = rThread'[rChannels'[k].owner].slot
                      /\ \A j \in DOMAIN rChannels' :
                           (j # k /\ rChannels'[j].owner = rChannels'[k].owner)
                             => rChannels'[j].index # rChannels'[k].index
    BY DEF Described
  <2>1. k \in Nat /\ \A j \in DOMAIN rChannels' : j \in Nat
    BY <1>13, <1>14
  <2>2. CASE k > Len(rChannels)
    <3>1. rChannels'[k].owner = c /\ rChannels'[k].connection = rCount
          /\ rChannels'[k].index = k - Len(rChannels) - 1
      BY <1>16, <2>2
    <3>2. ASSUME NEW j \in DOMAIN rChannels', j # k, rChannels'[j].owner = c
          PROVE  rChannels'[j].index # rChannels'[k].index
      <4>1. j > Len(rChannels)
        BY <1>13, <1>14, <1>15, <3>2
      <4> QED BY <1>13, <1>16, <2>1, <3>1, <3>2, <4>1
    <3> QED BY <1>7, <3>1, <3>2
  <2>3. CASE k <= Len(rChannels)
    <3>1. k \in 1 .. Len(rChannels)
      BY <1>13, <1>14, <2>3
    <3>2. rChannels'[k] = rChannels[k] /\ rChannels[k].owner # c
          /\ rChannels[k].owner \in LinkControllers
      BY <1>2, <1>13, <1>15, <3>1 DEF Described
    <3>3. ASSUME NEW j \in DOMAIN rChannels', j # k, rChannels'[j].owner = rChannels'[k].owner
          PROVE  rChannels'[j].index # rChannels'[k].index
      <4>1. ~(j > Len(rChannels))
        BY <1>16, <3>2, <3>3
      <4>2. j \in 1 .. Len(rChannels)
        BY <1>13, <1>14, <4>1
      <4> QED BY <1>2, <1>13, <1>15, <3>1, <3>2, <3>3, <4>2 DEF Described
    <3> QED BY <1>2, <1>6, <1>13, <3>1, <3>2, <3>3 DEF Described
  <2> QED BY <1>13, <2>1, <2>2, <2>3
<1> QED BY <1>9, <1>10, <1>17

LEMMA OrderCount ==
  ASSUME Tables, LinkInv, NEW c \in LinkControllers, Link!Count(c), rCalm'
  PROVE  Arrival' /\ Seated' /\ Described'
<1> USE DEF Tables, LinkTypes
<1>1. /\ rCalm /\ rThread[c].pc = "count" /\ rCount' = rCount + 1
      /\ rThread' = [rThread EXCEPT ![c].pc = "watch"]
      /\ UNCHANGED <<rUp, rSocket, rConnected, rGone, rChannels>>
  BY DEF Link!Count, Link!At, Link!Goto, LinkInv
<1>2. Arrival /\ Seated /\ Described /\ LinkTypes
  BY <1>1 DEF LinkInv, OneAtATime
<1>3. /\ rCount < LinkMaxRadios /\ rSocket[rCount] = c /\ rThread[c].slot = rCount
      /\ rConnected[rCount]
      /\ \A d \in LinkControllers \ {c} : rThread[d].pc \in {"none", "watch"}
  BY <1>1, <1>2 DEF Arrival, Seated
<1>4. \A d \in LinkControllers : d # c => rThread'[d] = rThread[d]
  BY <1>1, <1>2
<1>5. rThread'[c].pc = "watch" /\ rThread'[c].slot = rCount
  BY <1>1, <1>2, <1>3
<1>6. Arrival'
  BY <1>1, <1>2, <1>3, <1>4, <1>5 DEF Arrival
<1>7. Seated'
  <2>1. \A s \in 0 .. rCount' - 1 : rConnected'[s]
    <3> SUFFICES ASSUME NEW s \in 0 .. rCount' - 1, s # rCount PROVE rConnected[s]
      BY <1>1, <1>3
    <3>1. s \in 0 .. rCount - 1
      BY <1>1, <1>2
    <3> QED BY <1>2, <3>1 DEF Seated
  <2>2. ASSUME NEW d \in LinkControllers
        PROVE  /\ rThread'[d].pc \notin {"manifest", "count"}
               /\ rThread'[d].pc = "watch"
                    => rThread'[d].slot < rCount' /\ rSocket'[rThread'[d].slot] = d
    <3>1. CASE d = c
      BY <1>1, <1>2, <1>3, <1>5, <3>1
    <3>2. CASE d # c
      <4>1. rThread'[d] = rThread[d] /\ rThread[d].pc \in {"none", "watch"}
        BY <1>3, <1>4, <3>2
      <4>2. rThread[d].slot \in Nat
        BY <1>2 DEF Link!Slots
      <4> QED BY <1>1, <1>2, <4>1, <4>2 DEF Seated
    <3> QED BY <3>1, <3>2
  <2> QED BY <2>1, <2>2 DEF Seated
<1>8. Described'
  BY <1>1, <1>2, <1>4, <1>5, <1>3 DEF Described
<1> QED BY <1>6, <1>7, <1>8

\* Nobody is turned away, missed or closed: those steps are not taken.
LEMMA OrderHolds ==
  ASSUME Tables, LinkInv, rCalm', NEW c \in LinkControllers
  PROVE  ~ (Link!AcceptBeyond(c) \/ Link!Refuse(c) \/ Link!Watch(c)
            \/ Link!WatchNothing(c) \/ Link!Leave(c))
<1> USE DEF Tables, LinkTypes
<1>1. ~Link!AcceptBeyond(c) /\ ~Link!Leave(c)
  BY DEF Link!AcceptBeyond, Link!Leave
<1>2. SUFFICES ASSUME Link!Refuse(c) \/ Link!Watch(c) \/ Link!WatchNothing(c) PROVE FALSE
  BY <1>1
<1>3. rCalm
  BY <1>2 DEF Link!Refuse, Link!Watch, Link!WatchNothing
<1>4. Arrival /\ Seated /\ LinkTypes
  BY <1>3 DEF LinkInv, OneAtATime
<1>5. rThread[c].pc = "start" => rCount \in Link!Slots /\ rCount < LinkMaxRadios
  BY <1>4 DEF Arrival, Link!Slots
<1>6. rThread[c].pc = "watch" => rCount - 1 \in Link!Slots /\ rConnected[rCount - 1]
  <2> SUFFICES ASSUME rThread[c].pc = "watch"
               PROVE  rCount - 1 \in Link!Slots /\ rConnected[rCount - 1]
    OBVIOUS
  <2>1. /\ rThread[c].slot \in 0 .. LinkMaxRadios /\ rThread[c].slot < rCount
        /\ rCount <= LinkMaxRadios
    BY <1>4 DEF Seated, Arrival, Link!Slots
  <2>2. rCount - 1 \in 0 .. rCount - 1 /\ rCount - 1 \in 0 .. LinkMaxRadios
    BY <1>4, <2>1
  <2> QED BY <1>4, <2>2 DEF Seated, Link!Slots
<1>7. ~Link!Refuse(c)
  <2> SUFFICES ASSUME rThread[c].pc = "start", rCount = LinkMaxRadios PROVE FALSE
    BY DEF Link!Refuse, Link!At
  <2> QED BY <1>5
<1>8. ~Link!Watch(c) /\ ~Link!WatchNothing(c)
  BY <1>5, <1>6 DEF Link!Watch, Link!WatchNothing, Link!At
<1> QED BY <1>2, <1>7, <1>8

LEMMA OrderKept ==
  ASSUME Tables
  PROVE  LinkInv /\ [Link!Next]_(Link!vars) => OneAtATime'
<1> SUFFICES ASSUME LinkInv, [Link!Next]_(Link!vars), rCalm' PROVE Arrival' /\ Seated' /\ Described'
  BY DEF OneAtATime
<1>1. ASSUME NEW c \in LinkControllers,
             Link!Accept(c) \/ Link!Enter(c) \/ Link!Manifest(c) \/ Link!Count(c)
      PROVE  Arrival' /\ Seated' /\ Described'
  BY <1>1, OrderAccept, OrderEnter, OrderManifest, OrderCount
<1>2. ASSUME NEW k \in 1 .. LinkMaxChannels PROVE ~Link!CommandFails(k)
  <2> SUFFICES ASSUME Link!CommandFails(k) PROVE FALSE
    OBVIOUS
  <2>1. rCalm /\ k \in DOMAIN rChannels
        /\ rSocket[rChannels[k].connection] \in rGone \cup {LinkNobody}
    BY DEF Link!CommandFails
  <2>2. Arrival /\ Seated /\ Described
    BY <2>1 DEF LinkInv, OneAtATime
  <2>3. PICK d \in LinkControllers : d = rChannels[k].owner /\ rThread[d].pc \in {"count", "watch"}
                                     /\ rChannels[k].connection = rThread[d].slot
    BY <2>1, <2>2 DEF Described
  <2>4. rSocket[rThread[d].slot] = d
    BY <2>2, <2>3 DEF Arrival, Seated
  <2> QED BY <2>1, <2>2, <2>3, <2>4 DEF Arrival, Tables
<1>3. CASE UNCHANGED Link!vars
  BY <1>3 DEF Link!vars, Link!tableVars, LinkInv, OneAtATime, Arrival, Seated, Described
<1> QED BY <1>1, <1>2, <1>3, OrderHolds DEF Link!Next

----------------------------------------------------------------------------
\* The table of radios stays a table, its counter never runs below nothing or past
\* the controllers there are, and while controllers come one at a time the commands
\* for a channel go to the controller and the receiver whose manifest named it
\* (hw_command_listener_thread, command_thread, createChannels, hw_send_command).
THEOREM LinkCorrect ==
  ASSUME Tables
  PROVE  Link!Spec => []ChannelReachesOwner
<1>1. Link!Init => LinkInv
  BY LinkStart
<1>2. LinkInv /\ [Link!Next]_(Link!vars) => LinkInv'
  BY TypesKept, OrderKept DEF LinkInv
<1>3. LinkInv => Link!TypeOK
  <2> SUFFICES ASSUME LinkInv PROVE Link!TypeOK
    OBVIOUS
  <2>1. IsFiniteSet(LinkControllers) /\ Through \subseteq LinkControllers
    BY DEF Tables, Through
  <2>2. /\ Cardinality(Through) <= Cardinality(LinkControllers)
        /\ Cardinality(Through) \in Nat /\ Cardinality(LinkControllers) \in Nat
    BY <2>1, FS_Subset, FS_CardinalityType
  <2>3. rCount \in 0 .. Cardinality(LinkControllers)
    BY <2>2 DEF LinkInv, LinkTypes
  <2>4. Link!Cardinality(LinkControllers) = Cardinality(LinkControllers)
    BY DEF Link!Cardinality, Cardinality
  <2> QED BY <2>3, <2>4 DEF LinkInv, LinkTypes, Link!TypeOK
<1>4. LinkInv => Link!ChannelReachesOwner
  <2> SUFFICES ASSUME LinkInv, rCalm, NEW k \in DOMAIN rChannels
               PROVE  /\ rSocket[rChannels[k].connection] = rChannels[k].owner
                      /\ rConnected[rChannels[k].connection]
                      /\ rChannels[k].index \in 0 .. LinkReceivers
                      /\ \A j \in DOMAIN rChannels :
                           (j # k /\ rChannels[j].owner = rChannels[k].owner)
                             => rChannels[j].index # rChannels[k].index
    BY DEF Link!ChannelReachesOwner
  <2>1. Arrival /\ Seated /\ Described /\ LinkTypes
    BY DEF LinkInv, OneAtATime
  <2>2. rChannels[k] \in Channel
    BY <2>1 DEF LinkTypes
  <2>3. PICK d \in LinkControllers : d = rChannels[k].owner /\ rThread[d].pc \in {"count", "watch"}
                                     /\ rChannels[k].connection = rThread[d].slot
    BY <2>1 DEF Described
  <2>4. rSocket[rThread[d].slot] = d
    BY <2>1, <2>3 DEF Arrival, Seated
  <2>5. rConnected[rThread[d].slot]
    <3>1. CASE rThread[d].pc = "count"
      BY <2>1, <3>1 DEF Seated
    <3>2. CASE rThread[d].pc = "watch"
      <4>1. rThread[d].slot \in 0 .. rCount - 1
        BY <2>1, <3>2 DEF LinkTypes, Seated, Link!Slots
      <4> QED BY <2>1, <4>1 DEF Seated
    <3> QED BY <2>3, <3>1, <3>2
  <2>6. rChannels[k].index \in 0 .. LinkReceivers
    BY <2>2 DEF Channel
  <2> QED BY <2>1, <2>3, <2>4, <2>5, <2>6 DEF Described
<1> QED BY <1>1, <1>2, <1>3, <1>4, PTL DEF Link!Spec, ChannelReachesOwner

----------------------------------------------------------------------------
(* The commands of one link *)

\* What the bytes of a command may be: none says that a longer command follows than
\* the start byte does, and the buffer has room for the commands of this model.
Bytes == {0, 2, Commands!Start} \cup (1 .. CommandsMaxCommands) \cup CommandsTails

BytesFit ==
  /\ CommandsMaxCommands \in Nat /\ CommandsMaxAnswers \in Nat \ {0}
  /\ CommandsCapacity \in Nat /\ CommandsCapacity >= 2 /\ CommandsLongest \in Nat
  /\ Bytes \ {Commands!Start} \subseteq 0 .. CommandsLongest

(* Types *)

Kinds == {"frequency", "rate"}
Answer == [of : 0 .. CommandsMaxCommands, ok : BOOLEAN]

Sending ==
  /\ cLinked \in BOOLEAN /\ cWaiting \in BOOLEAN /\ cAsked \in 0 .. CommandsMaxCommands
  /\ cKinds \in Seq(Kinds) /\ Len(cKinds) = cAsked
  /\ cAnswers \in Seq(Answer) /\ cGot \in Seq(Answer)
  /\ cLinked => cPermits = IF cWaiting THEN 0 ELSE 1
  /\ ~cLinked => ~cWaiting /\ cPermits \in 1 .. 2

\* The place never passes the length, nor the bytes written the place.
Parsing ==
  /\ cUp \in BOOLEAN /\ cStarted \in BOOLEAN /\ cByte \in Bytes
  /\ cNet \in Seq(Bytes) /\ cSocket \in Seq(Bytes) /\ cCommand \in Seq(Bytes)
  /\ cPlace \in -1 .. CommandsLongest /\ cLength \in 0 .. CommandsLongest
  /\ cPlace >= 0 /\ cStarted => cPlace < cLength
  /\ Len(cCommand) <= CommandsCapacity /\ Len(cCommand) <= (IF cPlace = -1 THEN 0 ELSE cPlace)

(* A command at a time *)

\* The parser is between commands, and the byte it looks at again starts none.
Between == ~cStarted /\ cByte # Commands!Start

\* How far hpsdr has read the command it was sent, which ends with tail.
Reading(tail) ==
  \/ cNet = Commands!Frame(cAsked, tail) /\ cSocket = <<>> /\ Between
  \/ cNet = <<>> /\ cSocket = Commands!Frame(cAsked, tail) /\ Between
  \/ /\ cNet = <<>> /\ cSocket = <<2, cAsked, tail>>
     /\ cStarted /\ cPlace = -1 /\ cCommand = <<>>
  \/ /\ cNet = <<>> /\ cSocket = <<cAsked, tail>>
     /\ cStarted /\ cPlace = 0 /\ cLength = 2 /\ cCommand = <<>>
  \/ /\ cNet = <<>> /\ cSocket = <<tail>>
     /\ cStarted /\ cPlace = 1 /\ cLength = 2 /\ cCommand = <<cAsked>>

\* dspserver has its answer, or never had a command.
Settled ==
  /\ ~cWaiting /\ cAnswers = <<>>
  /\ cGot # <<>> => Len(cGot) = 1 /\ cGot[1].of = cAsked
  /\ cUp => cNet = <<>> /\ cSocket = <<>> /\ Between /\ cNoted = cTuned

\* Its command is on its way.
Underway ==
  /\ cWaiting /\ cAnswers = <<>> /\ cGot = <<>> /\ cAsked >= 1
  /\ cUp => cNoted = cTuned /\ \E tail \in CommandsTails \ {Commands!Start} : Reading(tail)

\* The answer is.
Answered ==
  /\ cWaiting /\ cAsked >= 1 /\ Len(cAnswers) = 1 /\ cAnswers[1].of = cAsked
  /\ cUp => /\ cNet = <<>> /\ cSocket = <<>> /\ Between
            /\ cTuned = IF cAnswers[1].ok /\ cKinds[cAsked] = "frequency" THEN cAsked ELSE cNoted

InStep ==
  cIntact => /\ Len(cCommand) <= 2 /\ cLength <= 2
             /\ Settled \/ Underway \/ Answered

CommandInv == cIntact \in BOOLEAN /\ Sending /\ Parsing /\ InStep
LEMMA CommandStart == ASSUME BytesFit PROVE Commands!Init => CommandInv
<1> SUFFICES ASSUME Commands!Init PROVE CommandInv
  OBVIOUS
<1> USE DEF Commands!Init, BytesFit
<1>1. 0 \in Bytes /\ 0 # Commands!Start
  BY DEF Bytes, Commands!Start
<1>2. /\ cKinds \in Seq(Kinds) /\ cAnswers \in Seq(Answer) /\ cGot \in Seq(Answer)
      /\ cNet \in Seq(Bytes) /\ cSocket \in Seq(Bytes) /\ cCommand \in Seq(Bytes)
  <2>1. <<>> \in Seq(Kinds) /\ <<>> \in Seq(Answer) /\ <<>> \in Seq(Bytes)
    OBVIOUS
  <2> QED BY <2>1
<1>3. Len(cKinds) = 0 /\ Len(cCommand) = 0
  OBVIOUS
<1> HIDE DEF Commands!Init
<1>0. /\ cUp = TRUE /\ cLinked = TRUE /\ cAsked = 0 /\ cWaiting = FALSE /\ cPermits = 1
      /\ cByte = 0 /\ cStarted = FALSE /\ cPlace = -1 /\ cLength = 0
  BY DEF Commands!Init
<1>4. Sending
  <2>1. cLinked \in BOOLEAN /\ cWaiting \in BOOLEAN /\ cLinked /\ ~cWaiting
    BY <1>0
  <2> QED BY <1>0, <1>2, <1>3, <2>1 DEF Sending
<1>5. Parsing
  <2>1. cUp \in BOOLEAN /\ cStarted \in BOOLEAN /\ ~cStarted
    BY <1>0
  <2> QED BY <1>0, <1>1, <1>2, <1>3, <2>1 DEF Parsing
<1>6. InStep
  BY <1>0, <1>1, <1>3 DEF Commands!Init, InStep, Settled, Between
<1>7. cIntact \in BOOLEAN
  BY DEF Commands!Init
<1> QED BY <1>4, <1>5, <1>6, <1>7 DEF CommandInv

\* A sequence cut in two, as far as it matters here.
LEMMA Cut ==
  ASSUME NEW S, NEW s \in Seq(S), NEW n \in Nat, n < Len(s), n >= 1
  PROVE  SubSeq(s, 1, n) \in Seq(S) /\ SubSeq(s, n + 1, Len(s)) \in Seq(S)
OBVIOUS

LEMMA Pair ==
  ASSUME NEW S, NEW x \in S, NEW y \in S
  PROVE  Append(<<x>>, y) = <<x, y>>
<1> DEFINE pair == Append(<<x>>, y)
<1>1. <<x>> \in Seq(S) /\ Len(<<x>>) = 1
  OBVIOUS
<1>2. pair \in Seq(S) /\ Len(pair) = 2
  BY <1>1
<1>3. pair[1] = x
  BY <1>1
<1>4. pair[2] = y
  BY <1>1
<1> HIDE DEF pair
<1>5. pair = <<x, y>>
  BY <1>2, <1>3, <1>4
<1> QED BY <1>5 DEF pair

(* Types are kept *)

LEMMA ExecuteTypes ==
  ASSUME BytesFit, Sending, NEW bytes \in Seq(Bytes), Commands!Execute(bytes)
  PROVE  cAnswers' \in Seq(Answer) /\ cStarted' = FALSE
<1>1. PICK ok \in BOOLEAN :
        /\ cStarted' = FALSE
        /\ cAnswers' = IF Len(cAnswers) < CommandsMaxAnswers
                       THEN Append(cAnswers, [of |-> Commands!CommandOf(bytes), ok |-> ok])
                       ELSE cAnswers
  BY DEF Commands!Execute
<1>2. Commands!CommandOf(bytes) \in 0 .. CommandsMaxCommands
  BY DEF Commands!CommandOf, Commands!Garbage, BytesFit
<1>3. [of |-> Commands!CommandOf(bytes), ok |-> ok] \in Answer
  BY <1>2 DEF Answer
<1> QED BY <1>1, <1>3 DEF Sending

LEMMA ProcessTypes ==
  ASSUME BytesFit, Sending, Parsing, NEW b \in Bytes, Commands!Process(b)
  PROVE  /\ cAnswers' \in Seq(Answer) /\ cUp' \in BOOLEAN /\ cStarted' \in BOOLEAN
         /\ cCommand' \in Seq(Bytes) /\ cPlace' \in -1 .. CommandsLongest
         /\ cLength' \in 0 .. CommandsLongest
         /\ cPlace' >= 0 /\ cStarted' => cPlace' < cLength'
         /\ Len(cCommand') <= CommandsCapacity
         /\ Len(cCommand') <= (IF cPlace' = -1 THEN 0 ELSE cPlace')
<1> USE DEF BytesFit
<1>1. CASE ~cStarted
  <2>1. Commands!StartPacket(b)
    BY <1>1 DEF Commands!Process
  <2>2. CASE b = Commands!Start
    <3>1. /\ cStarted' = TRUE /\ cPlace' = -1 /\ cCommand' = <<>>
          /\ UNCHANGED <<cUp, cLength, cAnswers>>
      BY <2>1, <2>2 DEF Commands!StartPacket
    <3>2. <<>> \in Seq(Bytes) /\ Len(<<>>) = 0
      OBVIOUS
    <3> QED BY <3>1, <3>2 DEF Sending, Parsing
  <2>3. CASE b # Commands!Start
    <3>1. cStarted' = FALSE /\ UNCHANGED <<cUp, cPlace, cCommand, cLength, cAnswers>>
      BY <2>1, <2>3 DEF Commands!StartPacket
    <3> QED BY <3>1 DEF Sending, Parsing
  <2> QED BY <2>2, <2>3
<1>2. CASE cStarted /\ cPlace = -1
  <2>1. /\ cLength' = Commands!LengthOf(b) /\ cPlace' = 0 /\ UNCHANGED <<cUp, cCommand>>
        /\ IF 0 < Commands!LengthOf(b) THEN UNCHANGED <<cAnswers, cTuned, cStarted>>
              ELSE Commands!Execute(cCommand)
    BY <1>2 DEF Commands!Process, Commands!StoreLength
  <2>2. Commands!LengthOf(b) \in 0 .. CommandsLongest
    BY DEF Commands!LengthOf
  <2>3. cCommand \in Seq(Bytes) /\ Len(cCommand) \in Nat /\ Len(cCommand) <= 0
    BY <1>2 DEF Parsing
  <2>4. cAnswers' \in Seq(Answer) /\ cStarted' \in BOOLEAN /\ (cStarted' => 0 < cLength')
    BY <2>1, <2>2, <2>3, ExecuteTypes DEF Sending, Parsing
  <2> QED BY <2>1, <2>2, <2>3, <2>4 DEF Parsing
<1>3. CASE cStarted /\ cPlace # -1
  <2>1. /\ cCommand' = IF cPlace < CommandsCapacity THEN Append(cCommand, b) ELSE cCommand
        /\ cUp' \in IF cPlace < CommandsCapacity THEN {TRUE} ELSE BOOLEAN
        /\ cPlace' = cPlace + 1 /\ cLength' = cLength
        /\ IF cPlace + 1 < cLength THEN UNCHANGED <<cAnswers, cTuned, cStarted>>
              ELSE Commands!Execute(cCommand')
    BY <1>3 DEF Commands!Process, Commands!StoreByte
  <2>2. /\ cPlace \in 0 .. CommandsLongest /\ cPlace < cLength /\ cLength \in 0 .. CommandsLongest
        /\ cCommand \in Seq(Bytes) /\ Len(cCommand) \in Nat
        /\ Len(cCommand) <= cPlace /\ Len(cCommand) <= CommandsCapacity
    BY <1>3 DEF Parsing
  <2>3. /\ cCommand' \in Seq(Bytes) /\ Len(cCommand') <= cPlace + 1
        /\ Len(cCommand') <= CommandsCapacity
    BY <2>1, <2>2
  <2>4. cAnswers' \in Seq(Answer) /\ cStarted' \in BOOLEAN /\ (cStarted' => cPlace + 1 < cLength)
    BY <2>1, <2>2, <2>3, ExecuteTypes DEF Sending, Parsing
  <2>5. cUp' \in BOOLEAN
    BY <2>1
  <2> QED BY <2>1, <2>2, <2>3, <2>4, <2>5
<1> QED BY <1>1, <1>2, <1>3

LEMMA TypesSend ==
  ASSUME BytesFit, Sending, Parsing, NEW kind \in Kinds, NEW tail \in CommandsTails,
         cIntact \in BOOLEAN,
         Commands!SendCommand(kind, tail)
  PROVE  Sending' /\ Parsing' /\ cIntact' \in BOOLEAN
<1>1. /\ cLinked /\ ~cWaiting /\ cAsked < CommandsMaxCommands
      /\ cAsked' = cAsked + 1 /\ cWaiting' = TRUE /\ cPermits' = cPermits - 1
      /\ cKinds' = Append(cKinds, kind) /\ cGot' = <<>>
      /\ cNet' = cNet \o Commands!Frame(cAsked + 1, tail)
      /\ cIntact' = (cIntact /\ tail # Commands!Start)
      /\ UNCHANGED <<cUp, cLinked, cSocket, Commands!parserVars, cAnswers>>
  BY DEF Commands!SendCommand
<1>2. cKinds' \in Seq(Kinds) /\ Len(cKinds') = cAsked'
  BY <1>1 DEF Sending
<1>3. cGot' \in Seq(Answer)
  <2>1. <<>> \in Seq(Answer)
    OBVIOUS
  <2> QED BY <1>1, <2>1
<1>4. cAsked' \in 1 .. CommandsMaxCommands /\ cPermits = 1
  BY <1>1 DEF Sending, BytesFit
<1>5. cNet' \in Seq(Bytes)
  <2>1. Commands!Start \in Bytes /\ 2 \in Bytes /\ cAsked + 1 \in Bytes /\ tail \in Bytes
    BY <1>1, <1>4 DEF Bytes
  <2>2. <<Commands!Start, 2, cAsked + 1, tail>> \in Seq(Bytes)
    BY <2>1
  <2> QED BY <1>1, <2>2 DEF Commands!Frame, Parsing
<1>6. Sending'
  BY <1>1, <1>2, <1>3, <1>4 DEF Sending
<1>7. Parsing'
  BY <1>1, <1>5 DEF Parsing, Commands!parserVars
<1> QED BY <1>1, <1>6, <1>7

LEMMA CommandTypesKept ==
  ASSUME BytesFit
  PROVE  CommandInv /\ [Commands!Next]_(Commands!vars) =>
            Sending' /\ Parsing' /\ cIntact' \in BOOLEAN
<1> SUFFICES ASSUME CommandInv, [Commands!Next]_(Commands!vars)
             PROVE  Sending' /\ Parsing' /\ cIntact' \in BOOLEAN
  OBVIOUS
<1>0. Sending /\ Parsing /\ cIntact \in BOOLEAN
  BY DEF CommandInv
<1>1. ASSUME NEW tail \in CommandsTails,
             Commands!HwSetFrequency(tail) \/ Commands!HwSetSampleRate(tail)
      PROVE  Sending' /\ Parsing' /\ cIntact' \in BOOLEAN
  BY <1>0, <1>1, TypesSend DEF Commands!HwSetFrequency, Commands!HwSetSampleRate, Kinds
<1>2. CASE Commands!SendFails
  <2>1. /\ cLinked /\ ~cWaiting /\ cAsked < CommandsMaxCommands
        /\ cAsked' = cAsked + 1 /\ cPermits' = cPermits + 1 /\ cLinked' = FALSE
        /\ cKinds' = Append(cKinds, "rate") /\ cGot' = <<>>
        /\ UNCHANGED <<cUp, cWaiting, cNet, cSocket, Commands!parserVars, cAnswers, cIntact>>
    BY <1>2 DEF Commands!SendFails
  <2>2. "rate" \in Kinds /\ <<>> \in Seq(Answer)
    BY DEF Kinds
  <2>3. cKinds' \in Seq(Kinds) /\ Len(cKinds') = cAsked' /\ cGot' \in Seq(Answer)
    BY <1>0, <2>1, <2>2 DEF Sending
  <2>4. cAsked' \in 0 .. CommandsMaxCommands /\ cPermits' = 2
    BY <1>0, <2>1 DEF Sending, BytesFit
  <2>5. cLinked' \in BOOLEAN /\ ~cLinked' /\ cWaiting' \in BOOLEAN /\ ~cWaiting'
    BY <1>0, <2>1 DEF Sending
  <2>6. Sending'
    BY <1>0, <2>1, <2>3, <2>4, <2>5 DEF Sending
  <2>7. Parsing'
    BY <1>0, <2>1 DEF Parsing, Commands!parserVars
  <2> QED BY <1>0, <2>1, <2>6, <2>7
<1>3. CASE Commands!ReceiveAnswer
  <2>1. /\ cWaiting /\ cGot' = cAnswers /\ cAnswers' = <<>>
        /\ cWaiting' = FALSE /\ cPermits' = cPermits + 1
        /\ UNCHANGED <<cUp, cLinked, cAsked, cKinds, cNet, cSocket, Commands!parserVars, cIntact>>
    BY <1>3 DEF Commands!ReceiveAnswer
  <2>2. cAnswers' \in Seq(Answer)
    <3>1. <<>> \in Seq(Answer)
      OBVIOUS
    <3> QED BY <2>1, <3>1
  <2>3. cLinked /\ cPermits' = 1
    BY <1>0, <2>1 DEF Sending
  <2> QED BY <1>0, <2>1, <2>2, <2>3 DEF Sending, Parsing, Commands!parserVars
<1>4. CASE Commands!ReceiveFails
  <2>1. /\ cWaiting /\ cLinked' = FALSE /\ cWaiting' = FALSE /\ cPermits' = cPermits + 1
        /\ UNCHANGED <<cUp, cAsked, cGot, cKinds, cNet, cSocket, Commands!parserVars, cAnswers,
                       cIntact>>
    BY <1>4 DEF Commands!ReceiveFails
  <2>2. cPermits' = 1
    BY <1>0, <2>1 DEF Sending
  <2>3. cLinked' \in BOOLEAN /\ ~cLinked' /\ cWaiting' \in BOOLEAN /\ ~cWaiting'
    BY <2>1
  <2>4. Sending'
    BY <1>0, <2>1, <2>2, <2>3 DEF Sending
  <2>5. Parsing'
    BY <1>0, <2>1 DEF Parsing, Commands!parserVars
  <2> QED BY <1>0, <2>1, <2>4, <2>5
<1>5. CASE Commands!Deliver
  <2>1. /\ cSocket' = cSocket \o cNet /\ cNet' = <<>>
        /\ UNCHANGED <<cUp, Commands!senderVars, Commands!parserVars, cAnswers, cIntact>>
    BY <1>5 DEF Commands!Deliver
  <2>2. <<>> \in Seq(Bytes)
    OBVIOUS
  <2>3. cSocket' \in Seq(Bytes) /\ cNet' \in Seq(Bytes)
    BY <1>0, <2>1, <2>2 DEF Parsing
  <2> QED BY <1>0, <2>1, <2>3 DEF Sending, Parsing, Commands!senderVars, Commands!parserVars
<1>6. ASSUME NEW n \in 1 .. 3, Commands!DeliverPart(n)
      PROVE  Sending' /\ Parsing' /\ cIntact' \in BOOLEAN
  <2>1. /\ n < Len(cNet) /\ cIntact' = FALSE
        /\ cSocket' = cSocket \o SubSeq(cNet, 1, n) /\ cNet' = SubSeq(cNet, n + 1, Len(cNet))
        /\ UNCHANGED <<cUp, Commands!senderVars, Commands!parserVars, cAnswers>>
    BY <1>6 DEF Commands!DeliverPart
  <2>2. SubSeq(cNet, 1, n) \in Seq(Bytes) /\ cNet' \in Seq(Bytes)
    BY <1>0, <2>1, Cut DEF Parsing
  <2>3. cSocket' \in Seq(Bytes)
    BY <1>0, <2>1, <2>2 DEF Parsing
  <2> QED BY <1>0, <2>1, <2>2, <2>3 DEF Sending, Parsing, Commands!senderVars, Commands!parserVars
<1>7. CASE Commands!Hpsdr
  <2>1. /\ UNCHANGED <<Commands!senderVars, cNet, cIntact>>
        /\ cSocket' \in Seq(Bytes) /\ cByte' \in Bytes
        /\ \E b \in Bytes : Commands!Process(b)
    <3>1. CASE Commands!ReadByte
      <4>1. Head(cSocket) \in Bytes /\ Tail(cSocket) \in Seq(Bytes)
        BY <1>0, <3>1 DEF Commands!ReadByte, Parsing
      <4> QED BY <3>1, <4>1 DEF Commands!ReadByte
    <3>2. CASE Commands!ReadNothing
      BY <1>0, <3>2 DEF Commands!ReadNothing, Parsing
    <3> QED BY <1>7, <3>1, <3>2 DEF Commands!Hpsdr
  <2>2. PICK b \in Bytes : Commands!Process(b)
    BY <2>1
  <2>3. /\ cAnswers' \in Seq(Answer) /\ cUp' \in BOOLEAN /\ cStarted' \in BOOLEAN
        /\ cCommand' \in Seq(Bytes) /\ cPlace' \in -1 .. CommandsLongest
        /\ cLength' \in 0 .. CommandsLongest
        /\ cPlace' >= 0 /\ cStarted' => cPlace' < cLength'
        /\ Len(cCommand') <= CommandsCapacity
        /\ Len(cCommand') <= (IF cPlace' = -1 THEN 0 ELSE cPlace')
    BY <1>0, <2>2, ProcessTypes
  <2>4. Sending'
    BY <1>0, <2>1, <2>3 DEF Sending, Commands!senderVars
  <2>5. Parsing'
    BY <1>0, <2>1, <2>3 DEF Parsing
  <2> QED BY <1>0, <2>1, <2>4, <2>5
<1>8. CASE Commands!Exit
  BY <1>0, <1>8 DEF Commands!Exit, Sending, Parsing, Commands!senderVars, Commands!parserVars
<1>9. CASE UNCHANGED Commands!vars
  BY <1>0, <1>9 DEF Commands!vars, Sending, Parsing, Commands!senderVars, Commands!parserVars
<1> QED BY <1>1, <1>2, <1>3, <1>4, <1>5, <1>6, <1>7, <1>8, <1>9 DEF Commands!Next, Commands!Network

(* The step is kept *)

\* A byte of a command, and the answer after its last.
LEMMA StepRead ==
  ASSUME BytesFit, CommandInv, Commands!ReadByte, cIntact'
  PROVE  InStep'
<1> USE DEF BytesFit
<1>0. /\ cIntact /\ cUp /\ cSocket # <<>>
      /\ cByte' = Head(cSocket) /\ cSocket' = Tail(cSocket) /\ Commands!Process(Head(cSocket))
      /\ UNCHANGED <<cLinked, cAsked, cWaiting, cGot, cPermits, cKinds, cNoted, cNet, cIntact>>
  BY DEF Commands!ReadByte, Commands!senderVars
<1>1. /\ Sending /\ Parsing /\ Len(cCommand) <= 2 /\ cLength <= 2
      /\ Settled \/ Underway \/ Answered
  BY <1>0 DEF CommandInv, InStep
<1>2. /\ cWaiting /\ cAnswers = <<>> /\ cGot = <<>> /\ cAsked >= 1 /\ cNoted = cTuned
      /\ \E tail \in CommandsTails \ {Commands!Start} : Reading(tail)
  BY <1>0, <1>1 DEF Settled, Underway, Answered
<1>3. PICK tail \in CommandsTails \ {Commands!Start} : Reading(tail)
  BY <1>2
<1>4. cWaiting' /\ cAsked' >= 1
  BY <1>0, <1>2
<1>5. CASE cNet = <<>> /\ cSocket = Commands!Frame(cAsked, tail) /\ Between
  <2>1. Head(cSocket) = Commands!Start /\ cSocket' = <<2, cAsked, tail>>
    BY <1>0, <1>5 DEF Commands!Frame
  <2>2. /\ cStarted' = TRUE /\ cPlace' = -1 /\ cCommand' = <<>>
        /\ UNCHANGED <<cUp, cLength, cAnswers, cTuned>>
    BY <1>0, <1>5, <2>1 DEF Commands!Process, Commands!StartPacket, Between
  <2>3. Reading(tail)'
    BY <1>0, <1>5, <2>1, <2>2 DEF Reading
  <2>4. Underway'
    BY <1>0, <1>2, <1>4, <2>2, <2>3 DEF Underway
  <2>5. Len(cCommand') = 0
    BY <2>2
  <2> QED BY <1>1, <2>2, <2>4, <2>5 DEF InStep
<1>6. CASE /\ cNet = <<>> /\ cSocket = <<2, cAsked, tail>>
           /\ cStarted /\ cPlace = -1 /\ cCommand = <<>>
  <2>1. Head(cSocket) = 2 /\ cSocket' = <<cAsked, tail>>
    BY <1>0, <1>6
  <2>2. Commands!StoreLength(2) /\ Commands!LengthOf(2) = 2
    BY <1>0, <1>6, <2>1 DEF Commands!Process, Commands!LengthOf, Commands!Start
  <2>3. /\ cLength' = 2 /\ cPlace' = 0
        /\ UNCHANGED <<cUp, cCommand, cAnswers, cTuned, cStarted>>
    BY <2>2 DEF Commands!StoreLength
  <2>4. Reading(tail)'
    BY <1>0, <1>6, <2>1, <2>3 DEF Reading
  <2>5. Underway'
    BY <1>0, <1>2, <1>4, <2>3, <2>4 DEF Underway
  <2> QED BY <1>1, <2>3, <2>5 DEF InStep
<1>7. CASE /\ cNet = <<>> /\ cSocket = <<cAsked, tail>>
           /\ cStarted /\ cPlace = 0 /\ cLength = 2 /\ cCommand = <<>>
  <2>1. Head(cSocket) = cAsked /\ cSocket' = <<tail>>
    BY <1>0, <1>7
  <2>2. Commands!StoreByte(cAsked)
    BY <1>0, <1>7, <2>1 DEF Commands!Process
  <2>3. /\ cCommand' = <<cAsked>> /\ cUp' = TRUE /\ cPlace' = 1 /\ cLength' = 2
        /\ UNCHANGED <<cAnswers, cTuned, cStarted>>
    <3>1. cPlace < CommandsCapacity /\ cPlace + 1 = 1 /\ cPlace + 1 < cLength
      BY <1>7
    <3>2. cCommand' = Append(cCommand, cAsked) /\ cUp' \in {TRUE} /\ cPlace' = 1 /\ cLength' = 2
          /\ UNCHANGED <<cAnswers, cTuned, cStarted>>
      BY <1>7, <2>2, <3>1 DEF Commands!StoreByte
    <3>3. Append(cCommand, cAsked) = <<cAsked>>
      BY <1>7
    <3> QED BY <3>2, <3>3
  <2>4. Reading(tail)'
    BY <1>0, <1>7, <2>1, <2>3 DEF Reading
  <2>5. Underway'
    BY <1>0, <1>2, <1>4, <2>3, <2>4 DEF Underway
  <2>6. Len(cCommand') = 1
    BY <2>3
  <2> QED BY <2>3, <2>5, <2>6 DEF InStep
<1>8. CASE /\ cNet = <<>> /\ cSocket = <<tail>>
           /\ cStarted /\ cPlace = 1 /\ cLength = 2 /\ cCommand = <<cAsked>>
  <2>1. Head(cSocket) = tail /\ cSocket' = <<>>
    BY <1>0, <1>8
  <2>2. Commands!StoreByte(tail)
    BY <1>0, <1>8, <2>1 DEF Commands!Process
  <2>3. /\ cCommand' = <<cAsked, tail>> /\ cUp' = TRUE /\ cPlace' = 2 /\ cLength' = 2
        /\ Commands!Execute(<<cAsked, tail>>)
    <3>1. cPlace < CommandsCapacity /\ cPlace + 1 = 2 /\ ~(cPlace + 1 < cLength)
      BY <1>8
    <3>2. cCommand' = Append(cCommand, tail) /\ cUp' \in {TRUE} /\ cPlace' = 2 /\ cLength' = 2
          /\ Commands!Execute(cCommand')
      BY <1>8, <2>2, <3>1 DEF Commands!StoreByte
    <3>3. Append(cCommand, tail) = <<cAsked, tail>>
      <4>1. cAsked \in {cAsked, tail} /\ tail \in {cAsked, tail}
        OBVIOUS
      <4>2. Append(<<cAsked>>, tail) = <<cAsked, tail>>
        BY ONLY <4>1, Pair
      <4> QED BY <1>8, <4>2
    <3> QED BY <3>2, <3>3
  <2>4. Commands!CommandOf(<<cAsked, tail>>) = cAsked /\ cAsked \in DOMAIN cKinds
    BY <1>1, <1>2 DEF Commands!CommandOf, Sending
  <2>5. PICK ok \in BOOLEAN :
          /\ cAnswers' = IF Len(cAnswers) < CommandsMaxAnswers
                         THEN Append(cAnswers, [of |-> cAsked, ok |-> ok]) ELSE cAnswers
          /\ cTuned' = IF ok /\ cKinds[cAsked] = "frequency" THEN cAsked ELSE cTuned
          /\ cStarted' = FALSE
    BY <2>3, <2>4 DEF Commands!Execute
  <2>6. cAnswers' = <<[of |-> cAsked, ok |-> ok]>>
    BY <1>2, <2>5
  <2>7. Len(cAnswers') = 1 /\ cAnswers'[1].of = cAsked /\ cAnswers'[1].ok = ok
    BY <2>6
  <2>8. Between' /\ cNet' = <<>>
    BY <1>0, <1>8, <2>1, <2>5 DEF Between
  <2>9. Answered'
    BY <1>0, <1>2, <1>4, <2>1, <2>5, <2>7, <2>8 DEF Answered
  <2>10. Len(cCommand') = 2
    BY <2>3
  <2> QED BY <2>3, <2>9, <2>10 DEF InStep
<1> QED BY <1>0, <1>3, <1>5, <1>6, <1>7, <1>8 DEF Reading

LEMMA StepKept ==
  ASSUME BytesFit
  PROVE  CommandInv /\ [Commands!Next]_(Commands!vars) => InStep'
<1> SUFFICES ASSUME CommandInv, [Commands!Next]_(Commands!vars), cIntact' PROVE InStep'
  BY DEF InStep
<1> USE DEF BytesFit
<1>0. Sending /\ Parsing
  BY DEF CommandInv
<1>1. cIntact => Len(cCommand) <= 2 /\ cLength <= 2 /\ (Settled \/ Underway \/ Answered)
  BY DEF CommandInv, InStep
<1>2. ASSUME NEW kind \in Kinds, NEW tail \in CommandsTails, Commands!SendCommand(kind, tail)
      PROVE  InStep'
  <2>1. /\ cIntact /\ cUp /\ ~cWaiting /\ tail # Commands!Start
        /\ cAsked' = cAsked + 1 /\ cWaiting' = TRUE /\ cGot' = <<>>
        /\ cNet' = cNet \o Commands!Frame(cAsked + 1, tail)
        /\ UNCHANGED <<cUp, cNoted, cTuned, cSocket, cByte, cStarted, cPlace, cLength, cCommand,
                       cAnswers>>
    BY <1>2 DEF Commands!SendCommand, Commands!parserVars
  <2>2. /\ cAnswers = <<>> /\ cNet = <<>> /\ cSocket = <<>> /\ Between /\ cNoted = cTuned
    BY <1>1, <2>1 DEF Settled, Underway, Answered
  <2>3. cNet' = Commands!Frame(cAsked', tail) /\ cAsked' >= 1
    BY <1>0, <2>1, <2>2 DEF Commands!Frame, Sending
  <2>4. Reading(tail)'
    BY <2>1, <2>2, <2>3 DEF Reading, Between
  <2>5. Underway'
    BY <2>1, <2>2, <2>3, <2>4 DEF Underway
  <2> QED BY <1>1, <2>1, <2>5 DEF InStep
<1>3. CASE Commands!SendFails
  <2>1. /\ cIntact /\ ~cUp /\ ~cWaiting /\ cGot' = <<>>
        /\ UNCHANGED <<cUp, cWaiting, cAnswers, cLength, cCommand>>
    BY <1>3 DEF Commands!SendFails, Commands!parserVars
  <2>2. Settled'
    BY <1>1, <2>1 DEF Settled, Underway, Answered
  <2> QED BY <1>1, <2>1, <2>2 DEF InStep
<1>4. CASE Commands!ReceiveAnswer
  <2>1. /\ cIntact /\ cWaiting /\ cAnswers # <<>> /\ cGot' = cAnswers /\ cAnswers' = <<>>
        /\ cNoted' = Commands!Noted(cAsked, cAnswers) /\ cWaiting' = FALSE
        /\ UNCHANGED <<cUp, cAsked, cTuned, cNet, cSocket, cByte, cStarted, cLength, cCommand>>
    BY <1>4 DEF Commands!ReceiveAnswer, Commands!parserVars
  <2>2. Answered
    BY <1>1, <2>1 DEF Settled, Underway
  <2>3. cUp' => cNoted' = cTuned'
    BY <2>1, <2>2 DEF Answered, Commands!Noted
  <2>4. Settled'
    BY <2>1, <2>2, <2>3 DEF Settled, Answered, Between
  <2> QED BY <1>1, <2>1, <2>4 DEF InStep
<1>5. CASE Commands!ReceiveFails
  <2>1. /\ cIntact /\ ~cUp /\ cWaiting /\ cAnswers = <<>> /\ cWaiting' = FALSE
        /\ UNCHANGED <<cUp, cAsked, cGot, cAnswers, cLength, cCommand>>
    BY <1>5 DEF Commands!ReceiveFails, Commands!parserVars
  <2>2. cGot = <<>>
    BY <1>1, <2>1 DEF Settled, Underway, Answered
  <2>3. Settled'
    BY <2>1, <2>2 DEF Settled
  <2> QED BY <1>1, <2>1, <2>3 DEF InStep
<1>6. CASE Commands!Deliver
  <2>1. /\ cIntact /\ cNet # <<>> /\ cSocket' = cSocket \o cNet /\ cNet' = <<>>
        /\ UNCHANGED <<cUp, cLinked, cAsked, cWaiting, cGot, cPermits, cKinds, cNoted, cTuned,
                       cByte, cStarted, cPlace, cLength, cCommand, cAnswers>>
    BY <1>6 DEF Commands!Deliver, Commands!senderVars, Commands!parserVars
  <2>2. CASE ~cUp
    BY <1>1, <2>1, <2>2 DEF InStep, Settled, Underway, Answered
  <2>3. CASE cUp
    <3>1. Underway
      BY <1>1, <2>1, <2>3 DEF Settled, Answered
    <3>2. PICK tail \in CommandsTails \ {Commands!Start} : Reading(tail)
      BY <2>3, <3>1 DEF Underway
    <3>3. cNet = Commands!Frame(cAsked, tail) /\ cSocket = <<>> /\ Between
      BY <2>1, <3>2 DEF Reading
    <3>4. cSocket' = Commands!Frame(cAsked', tail)
      BY <2>1, <3>3 DEF Commands!Frame
    <3>5. Reading(tail)'
      BY <2>1, <3>3, <3>4 DEF Reading, Between
    <3>6. Underway'
      BY <2>1, <3>1, <3>5 DEF Underway
    <3> QED BY <1>1, <2>1, <3>6 DEF InStep
  <2> QED BY <2>2, <2>3
<1>7. ASSUME NEW n \in 1 .. 3 PROVE ~Commands!DeliverPart(n)
  BY DEF Commands!DeliverPart
<1>8. CASE Commands!ReadByte
  BY <1>8, StepRead
<1>9. ~Commands!ReadNothing
  <2> SUFFICES ASSUME Commands!ReadNothing PROVE FALSE
    OBVIOUS
  <2>1. cIntact /\ cUp /\ cSocket = <<>> /\ (cStarted \/ cByte = Commands!Start)
    BY DEF Commands!ReadNothing
  <2>2. Underway
    BY <1>1, <2>1 DEF Settled, Answered, Between
  <2>3. PICK tail \in CommandsTails \ {Commands!Start} : Reading(tail)
    BY <2>1, <2>2 DEF Underway
  <2> QED BY <2>1, <2>3 DEF Reading, Between, Commands!Frame
<1>10. CASE Commands!Exit
  <2>1. /\ cIntact /\ cUp' = FALSE
        /\ UNCHANGED <<cAsked, cWaiting, cGot, cAnswers, cLength, cCommand>>
    BY <1>10 DEF Commands!Exit, Commands!senderVars, Commands!parserVars
  <2> QED BY <1>1, <2>1 DEF InStep, Settled, Underway, Answered
<1>11. CASE UNCHANGED Commands!vars
  BY <1>1, <1>11 DEF Commands!vars, Commands!senderVars, Commands!parserVars, InStep, Settled,
     Underway, Answered,
     Reading, Between
<1> QED BY <1>2, <1>3, <1>4, <1>5, <1>6, <1>7, <1>8, <1>9, <1>10, <1>11
        DEF Commands!Next, Commands!Network, Commands!Hpsdr, Commands!HwSetFrequency,
        Commands!HwSetSampleRate, Kinds

\* Between dspserver and hpsdr, while commands come whole and none ends with the
\* start byte: one command is on its way at most, the answer received is that of
\* the command just sent, and the frequency dspserver notes is the one the radio is
\* tuned to (send_command, and the byte parser of client_thread).  Whatever TCP and
\* the bytes do, the semaphore stays a lock while the link stands and the parser's
\* buffer is written inside its bounds as far as the model counts.
THEOREM CommandsInStep ==
  ASSUME BytesFit
  PROVE  Commands!Spec => []LockStep
<1>1. Commands!Init => CommandInv
  BY CommandStart
<1>2. CommandInv /\ [Commands!Next]_(Commands!vars) => CommandInv'
  BY CommandTypesKept, StepKept DEF CommandInv
<1>3. CommandInv => Commands!TypeOK
  <2> SUFFICES ASSUME CommandInv PROVE Commands!TypeOK
    OBVIOUS
  <2>1. cPermits \in 0 .. 2
    BY DEF CommandInv, Sending
  <2> QED BY <2>1 DEF CommandInv, Sending, Parsing, Commands!TypeOK
<1>4. CommandInv => Commands!LockStep
  BY DEF CommandInv, InStep, Settled, Underway, Answered, Commands!LockStep
<1>5. CommandInv => LockStep
  BY <1>3, <1>4 DEF LockStep
<1> QED BY <1>1, <1>2, <1>5, PTL DEF Commands!Spec
============================================================================
