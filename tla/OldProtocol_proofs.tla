------------------------- MODULE OldProtocol_proofs -------------------------
(***************************************************************************)
(* Proof that samples stay with their receiver in protocol 1, whatever     *)
(* state the last session left the parser in, and that a radio stopped in  *)
(* order never meets a transmitter that is gone.                           *)
(***************************************************************************)
EXTENDS OldProtocol, TLAPS, NaturalsInduction, WellFoundedInduction, FiniteSetTheorems

----------------------------------------------------------------------------
(* Induction over the units of a packet *)

\* A set of places that holds the first, and with each the next, holds all.
LEMMA Every ==
  ASSUME NEW n \in Nat, NEW Good, 0 \in Good, \A k \in 1 .. n : k - 1 \in Good => k \in Good
  PROVE  \A k \in 0 .. n : k \in Good
<1> DEFINE Bad == {k \in 0 .. n : k \notin Good}
<1> SUFFICES ASSUME Bad # {} PROVE FALSE
  OBVIOUS
<1>1. IsWellFoundedOn(OpToRel(<, Nat), Nat)
  BY NatLessThanWellFounded
<1>2. Bad \subseteq Nat
  OBVIOUS
<1> HIDE DEF Bad
<1>3. PICK x \in Bad : \A y \in Bad : ~(<<y, x>> \in OpToRel(<, Nat))
  BY <1>1, <1>2, WFMin
<1>4. x \in 1 .. n /\ x \notin Good
  <2>1. x \in 0 .. n /\ x \notin Good
    BY <1>3 DEF Bad
  <2>2. x # 0
    BY <2>1
  <2> QED BY <2>1, <2>2
<1>5. x - 1 \in Bad
  BY <1>4 DEF Bad
<1>6. /\ <<x - 1, x>> \in Nat \X Nat
      /\ <<x - 1, x>>[1] = x - 1 /\ <<x - 1, x>>[2] = x
  BY <1>4
<1>7. <<x - 1, x>> \in OpToRel(<, Nat)
  BY <1>4, <1>6 DEF OpToRel
<1> QED BY <1>3, <1>5, <1>7

\* What Parsed goes through: it starts with the parser as it is and takes one unit
\* after the other.
LEMMA Walk ==
  ASSUME NEW units, Len(units) \in Nat
  PROVE  \E walk : /\ walk[0] = [state |-> parser, samples |-> {}]
                   /\ \A k \in 1 .. Len(units) : walk[k] = Take(walk[k - 1], units[k])
                   /\ Parsed(units) = walk[Len(units)]
<1> DEFINE L == Len(units)
           start == [state |-> parser, samples |-> {}]
           Next1(x, k) == CHOOSE next \in {Take(was, units[k]) : was \in {x}} : TRUE
           Step(f, k) == IF k = 0 THEN start ELSE Next1(f[k - 1], k)
           Through(f, n) == f = [k \in 0 .. n |-> Step(f, k)]
           Good == {n \in 0 .. L : \E f : Through(f, n)}
           after == CHOOSE f : Through(f, L)
<1>1. \A x, k : Next1(x, k) = Take(x, units[k])
  OBVIOUS
<1>2. 0 \in Good
  <2> DEFINE f == [k \in 0 .. 0 |-> start]
  <2>1. f = [k \in 0 .. 0 |-> Step(f, k)]
    BY SMT
  <2>2. Through(f, 0)
    BY <2>1
  <2> HIDE DEF f, Through
  <2> QED BY <2>2
<1> HIDE DEF Next1, start
<1>3. ASSUME NEW n \in 1 .. L, n - 1 \in Good PROVE n \in Good
  <2>1. PICK f : f = [k \in 0 .. n - 1 |-> Step(f, k)]
    BY <1>3
  <2> DEFINE g == [k \in 0 .. n |-> IF k = 0 THEN start ELSE Next1(f[k - 1], k)]
  <2>2. ASSUME NEW k \in 0 .. n - 1 PROVE g[k] = f[k]
    BY <2>1
  <2>3. ASSUME NEW k \in 0 .. n PROVE g[k] = Step(g, k)
    <3>1. CASE k = 0
      BY <3>1
    <3>2. CASE k # 0
      <4>1. k - 1 \in 0 .. n - 1
        BY <3>2
      <4> QED BY <2>2, <3>2, <4>1
    <3> QED BY <3>1, <3>2
  <2>4. g = [k \in 0 .. n |-> Step(g, k)]
    BY <2>3
  <2> HIDE DEF g
  <2> QED BY <2>4
<1>4. L \in Good
  <2> HIDE DEF Good, L
  <2>1. L \in Nat
    BY DEF L
  <2>2. \A k \in 0 .. L : k \in Good
    BY <1>2, <1>3, <2>1, Every
  <2> QED BY <2>1, <2>2
<1>5. Through(after, L)
  BY <1>4
<1>6. Parsed(units) = after[L]
  BY DEF Parsed, Next1, start
<1> HIDE DEF after
<1>7. after[0] = start /\ \A k \in 1 .. L : after[k] = Next1(after[k - 1], k)
  BY <1>5
<1> QED BY <1>1, <1>6, <1>7 DEF start

----------------------------------------------------------------------------
(* The packets of a radio with two receivers *)

Rows == Unit \div 3
States == {"sync", "iq", "mic"}
Parsers == [state : States, nreceiver : 0 .. 4, nsamples : Nat, rows : Nat]

Waits(p, s) == [p EXCEPT !.state = s]
Counts(p, s, n) == [p EXCEPT !.nreceiver = n, !.state = s]
Turns(p, s, n, m) == [p EXCEPT !.state = s, !.nreceiver = n, !.nsamples = m]

\* A parser that changes its state only.
LEMMA Waiting ==
  ASSUME NEW p \in Parsers, NEW s \in States
  PROVE  Waits(p, s) \in Parsers /\ Waits(p, s).state = s
BY DEF Parsers, Waits

\* A parser that goes on to another row.
LEMMA Turning ==
  ASSUME NEW p \in Parsers, NEW s \in States, NEW n \in 0 .. 4, NEW m \in Nat
  PROVE  LET q == Turns(p, s, n, m) IN
         /\ q \in Parsers /\ q.state = s /\ q.nreceiver = n
         /\ q.nsamples = m /\ q.rows = p.rows
BY DEF Parsers, Turns

\* The bounds of the counts for two receivers.
LEMMA Two == Cardinality(Rx) = 2 /\ Lost = 4 /\ Rows \in Nat /\ Rows >= 1
<1>1. Cardinality({0, 1}) = 2
  <2>1. IsFiniteSet({0}) /\ Cardinality({0}) = 1
    BY FS_Singleton
  <2>2. {0, 1} = {0} \cup {1} /\ 1 \notin {0}
    OBVIOUS
  <2> QED BY <2>1, <2>2, FS_AddElement
<1> QED BY <1>1, RadioAssumption DEF Lost, Rows

\* A packet: a header, and rows of a sample per receiver and one of the microphone.
LEMMA Packet ==
  /\ Len(Payload[2]) = 3 * Rows + 1
  /\ Payload[2][1] = -2
  /\ \A k \in 2 .. 3 * Rows + 1 : Payload[2][k] = ((k - 1) % 3) - 1
<1> DEFINE body == [k \in 1 .. RowsOf(2) * 3 |-> (k % 3) - 1]
<1>1. Payload[2] = <<Header>> \o body
  <2> DEFINE Body(n) == [k \in 1 .. RowsOf(n) * (n + 1) |-> (k % (n + 1)) - 1]
  <2>1. \A n \in 1 .. 8 : Payload[n] = <<Header>> \o Body(n)
    BY Zenon DEF Payload
  <2>4. 2 \in 1 .. 8
    OBVIOUS
  <2>2. RowsOf(2) * (2 + 1) = RowsOf(2) * 3 /\ 2 + 1 = 3
    BY DEF RowsOf
  <2>3. Body(2) = body
    BY <2>2
  <2> HIDE DEF Body, body
  <2> QED BY <2>1, <2>3, <2>4
<1>2. RowsOf(2) = Rows /\ Rows \in Nat
  BY Two DEF RowsOf, Rows
<1>3. body \in Seq(Int) /\ Len(body) = 3 * Rows
  BY <1>2
<1>4. \A k \in 1 .. 3 * Rows : body[k] = (k % 3) - 1
  BY <1>2
<1>5. <<Header>> \in Seq(Int) /\ Len(<<Header>>) = 1 /\ <<Header>>[1] = -2
  BY DEF Header
<1> HIDE DEF body
<1> QED BY <1>1, <1>2, <1>3, <1>4, <1>5

\* A parser that counted past the receivers there are, or finds none attached, hands no
\* sample on and stays as it is until the process ends.
LEMMA LostStays ==
  ASSUME NEW p \in Parsers, NEW u, NEW s,
         p.state = "iq", receivers \in {0, 2}, receivers = 2 => p.nreceiver >= 2
  PROVE  LET next == Take([state |-> p, samples |-> s], u) IN
         /\ next.samples = s /\ next.state \in Parsers /\ next.state.state = "iq"
         /\ next.state.nreceiver = IF p.nreceiver < 4 THEN p.nreceiver + 1 ELSE 4
<1> DEFINE q == TakeUnit(p, u)
           next == Take([state |-> p, samples |-> s], u)
<1>0. p.nreceiver \in 0 .. 4 /\ p.nreceiver + 1 # receivers /\ ~(p.nreceiver < receivers)
  BY DEF Parsers, States
<1>1. q = [p EXCEPT !.nreceiver = IF p.nreceiver < Lost THEN p.nreceiver + 1 ELSE p.nreceiver,
                    !.state = IF p.nreceiver + 1 = receivers THEN "mic" ELSE "iq"]
  BY DEF TakeUnit
<1>2. q = [p EXCEPT !.nreceiver = IF p.nreceiver < 4 THEN p.nreceiver + 1 ELSE p.nreceiver,
                    !.state = "iq"]
  BY <1>0, <1>1, Two
<1>4. /\ q \in Parsers /\ q.state = "iq"
      /\ q.nreceiver = IF p.nreceiver < 4 THEN p.nreceiver + 1 ELSE 4
  <2> DEFINE n == IF p.nreceiver < 4 THEN p.nreceiver + 1 ELSE p.nreceiver
  <2>1. n \in 0 .. 4 /\ n = IF p.nreceiver < 4 THEN p.nreceiver + 1 ELSE 4
    BY <1>0
  <2>2. q = [p EXCEPT !.nreceiver = n, !.state = "iq"]
    BY <1>2
  <2> HIDE DEF q, n
  <2>3. q \in Parsers /\ q.state = "iq" /\ q.nreceiver = n
    <3> DEFINE st == "iq"
    <3>1. n \in 0 .. 4 /\ q = Counts(p, st, n) /\ st \in States
      BY <2>1, <2>2 DEF Counts, States
    <3> HIDE DEF st
    <3> DEFINE r == Counts(p, st, n)
    <3>2. r \in Parsers /\ r.state = st /\ r.nreceiver = n
      BY <3>1 DEF Counts, Parsers
    <3>3. q = r
      BY <3>1
    <3> HIDE DEF r
    <3> QED BY <3>2, <3>3 DEF st
  <2> QED BY <2>1, <2>3
<1>3. next.state = q /\ next.samples = s
  <2> HIDE DEF q
  <2>1. next = [state |-> TakeUnit(p, u), samples |-> s]
    BY <1>0 DEF Take
  <2> QED BY <2>1 DEF q
<1> HIDE DEF q, next
<1> QED BY <1>3, <1>4 DEF next

\* Nothing is handed on when a lost parser goes through a packet.
LEMMA ParsedLost ==
  ASSUME parser \in Parsers, parser.state = "iq", parser.nreceiver >= 2, receivers \in {0, 2}
  PROVE  LET next == Parsed(Payload[2]) IN
         /\ next.samples = {}
         /\ next.state \in Parsers /\ next.state.state = "iq" /\ next.state.nreceiver >= 2
<1> DEFINE units == Payload[2]
           L == Len(units)
<1>1. L \in Nat
  BY Packet, Two
<1>2. PICK walk : /\ walk[0] = [state |-> parser, samples |-> {}]
                  /\ \A k \in 1 .. L : walk[k] = Take(walk[k - 1], units[k])
                  /\ Parsed(units) = walk[L]
  BY <1>1, Walk
<1> DEFINE Fine(x) == \E p \in Parsers : /\ x = [state |-> p, samples |-> {}]
                                          /\ p.state = "iq" /\ p.nreceiver >= 2
           Good == {k \in 0 .. L : Fine(walk[k])}
<1> HIDE DEF L, units
<1>3. 0 \in Good
  <2>1. Fine(walk[0])
    BY <1>2
  <2> HIDE DEF Fine
  <2> QED BY <1>1, <2>1
<1>4. ASSUME NEW k \in 1 .. L, k - 1 \in Good PROVE k \in Good
  <2>1. PICK p \in Parsers : /\ walk[k - 1] = [state |-> p, samples |-> {}]
                             /\ p.state = "iq" /\ p.nreceiver >= 2
    BY <1>4
  <2> DEFINE next == Take([state |-> p, samples |-> {}], units[k])
  <2>2. walk[k] = next
    BY <1>2, <2>1
  <2>3. /\ next.samples = {} /\ next.state \in Parsers /\ next.state.state = "iq"
        /\ next.state.nreceiver >= 2
    BY <2>1, LostStays DEF Parsers, States
  <2>4. next = [state |-> next.state, samples |-> {}]
    BY <2>3 DEF Take
  <2> HIDE DEF next
  <2>5. Fine(walk[k])
    BY <2>2, <2>3, <2>4
  <2> HIDE DEF Fine
  <2> QED BY <1>1, <2>5
<1>5. Fine(walk[L])
  <2>1. \A k \in 0 .. L : k \in Good
    <3> HIDE DEF Good
    <3> QED BY <1>1, <1>3, <1>4, Every
  <2> HIDE DEF Fine
  <2> QED BY <1>1, <2>1
<1>6. PICK p \in Parsers : /\ walk[L] = [state |-> p, samples |-> {}]
                           /\ p.state = "iq" /\ p.nreceiver >= 2
  BY <1>5
<1>7. Parsed(units) = [state |-> p, samples |-> {}]
  BY <1>2, <1>6
<1>8. Parsed(units).samples = {} /\ Parsed(units).state = p
  BY <1>7
<1> QED BY <1>6, <1>8 DEF units
\* A buffer that comes when no receiver is attached loses the parser.
LEMMA ParsedUnattached ==
  ASSUME parser \in Parsers, parser.state = "sync", receivers = 0
  PROVE  LET next == Parsed(Payload[2]) IN
         /\ next.samples = {}
         /\ next.state \in Parsers /\ next.state.state = "iq" /\ next.state.nreceiver >= 2
<1> DEFINE units == Payload[2]
           L == Len(units)
           least(k) == IF k < 3 THEN k - 1 ELSE 2
<1>1. L \in Nat /\ L >= 4 /\ units[1] = Header
  BY Packet, Two DEF Header
<1>2. PICK walk : /\ walk[0] = [state |-> parser, samples |-> {}]
                  /\ \A k \in 1 .. L : walk[k] = Take(walk[k - 1], units[k])
                  /\ Parsed(units) = walk[L]
  BY <1>1, Walk
<1> DEFINE Fine(x, k) == \E p \in Parsers : /\ x = [state |-> p, samples |-> {}]
                                             /\ p.state = "iq" /\ p.nreceiver >= least(k)
           Good == {k \in 0 .. L : k = 0 \/ Fine(walk[k], k)}
<1> HIDE DEF L, units
<1>3. 0 \in Good
  BY <1>1
<1>4. Fine(walk[1], 1)
  <2> DEFINE p == [state |-> "iq", nreceiver |-> 0, nsamples |-> 0, rows |-> RowsOf(receivers)]
  <2>1. walk[1] = Take([state |-> parser, samples |-> {}], Header)
    BY <1>1, <1>2
  <2>2. walk[1] = [state |-> p, samples |-> {}]
    BY <2>1 DEF Take, TakeUnit
  <2>3. RowsOf(receivers) \in Nat
    BY RadioAssumption DEF RowsOf
  <2>4. p \in Parsers /\ p.state = "iq" /\ p.nreceiver = 0
    BY <2>3 DEF Parsers, States
  <2>5. p.nreceiver >= least(1)
    BY <2>4
  <2> HIDE DEF p, least
  <2> QED BY <2>2, <2>4, <2>5
<1>5. ASSUME NEW k \in 2 .. L, Fine(walk[k - 1], k - 1) PROVE Fine(walk[k], k)
  <2>1. PICK p \in Parsers : /\ walk[k - 1] = [state |-> p, samples |-> {}]
                             /\ p.state = "iq" /\ p.nreceiver >= least(k - 1)
    BY <1>5
  <2> DEFINE next == Take([state |-> p, samples |-> {}], units[k])
  <2>2. walk[k] = next
    BY <1>2, <2>1
  <2>3. /\ next.samples = {} /\ next.state \in Parsers /\ next.state.state = "iq"
        /\ next.state.nreceiver = IF p.nreceiver < 4 THEN p.nreceiver + 1 ELSE 4
    BY <2>1, LostStays
  <2>4. next.state.nreceiver >= least(k)
    <3>1. p.nreceiver \in 0 .. 4
      BY DEF Parsers, States
    <3> HIDE DEF next
    <3> QED BY <2>1, <2>3, <3>1
  <2>5. next = [state |-> next.state, samples |-> {}]
    BY <2>3 DEF Take
  <2> HIDE DEF next, least
  <2> QED BY <2>2, <2>3, <2>4, <2>5
<1>6. ASSUME NEW k \in 1 .. L, k - 1 \in Good PROVE k \in Good
  <2>1. CASE k = 1
    <3> HIDE DEF Fine
    <3> QED BY <1>1, <1>4, <2>1
  <2>2. CASE k # 1
    <3> HIDE DEF Fine
    <3>1. k \in 2 .. L /\ k - 1 # 0 /\ Fine(walk[k - 1], k - 1)
      BY <1>6, <2>2
    <3> QED BY <1>5, <3>1
  <2> QED BY <2>1, <2>2
<1>7. Fine(walk[L], L)
  <2>1. \A k \in 0 .. L : k \in Good
    <3> HIDE DEF Good
    <3> QED BY <1>1, <1>3, <1>6, Every
  <2> HIDE DEF Fine
  <2> QED BY <1>1, <2>1
<1>8. PICK p \in Parsers : /\ walk[L] = [state |-> p, samples |-> {}]
                           /\ p.state = "iq" /\ p.nreceiver >= 2
  <2>1. least(L) = 2
    BY <1>1
  <2> HIDE DEF least
  <2> QED BY <1>7, <2>1
<1>9. Parsed(units) = [state |-> p, samples |-> {}]
  BY <1>2, <1>8
<1>10. Parsed(units).samples = {} /\ Parsed(units).state = p
  BY <1>9
<1> QED BY <1>8, <1>10 DEF units

\* Where a parser in step is after the header and j samples.
InRow(p, j) ==
  /\ p \in Parsers
  /\ IF j = 3 * Rows THEN p.state = "sync"
     ELSE /\ p.rows = Rows /\ p.nsamples = j \div 3 /\ p.nreceiver = j % 3
          /\ p.state = IF j % 3 = 2 THEN "mic" ELSE "iq"

Own == {<<0, 0>>, <<1, 1>>}

\* The next sample is taken for the receiver it is of, and the parser stays in step.
LEMMA RowTaken ==
  ASSUME receivers = 2, NEW j \in 0 .. 3 * Rows - 1, NEW p, InRow(p, j), NEW s, s \subseteq Own
  PROVE  LET next == Take([state |-> p, samples |-> s], ((j + 1) % 3) - 1) IN
         next.samples \subseteq Own /\ InRow(next.state, j + 1)
<1> DEFINE u == ((j + 1) % 3) - 1
           q == TakeUnit(p, u)
           next == Take([state |-> p, samples |-> s], u)
           a == j \div 3
           c == j % 3
<1>1. /\ a \in Nat /\ c \in 0 .. 2 /\ j = 3 * a + c /\ a < Rows /\ j # 3 * Rows
      /\ Rows \in Nat
  BY Two
<1>2. /\ p \in Parsers /\ p.rows = Rows /\ p.nsamples = a /\ p.nreceiver = c
      /\ p.state = IF c = 2 THEN "mic" ELSE "iq"
  BY <1>1 DEF InRow
<1> HIDE DEF a, c
<1>3. next = [state |-> q,
              samples |-> IF p.state = "iq" /\ p.nreceiver < receivers
                          THEN s \cup {<<p.nreceiver, u>>} ELSE s]
  BY DEF Take
<1>4. next.state = q /\ next.samples \subseteq s \cup (IF c = 2 THEN {} ELSE {<<c, u>>})
  <2> HIDE DEF q, u
  <2> QED BY <1>1, <1>2, <1>3
<1>5. CASE c = 0
  <2>1. u = 0 /\ j + 1 = 3 * a + 1 /\ (j + 1) \div 3 = a /\ (j + 1) % 3 = 1
    BY <1>1, <1>5
  <2>2. q = [p EXCEPT !.nreceiver = 1, !.state = "iq"]
    <3>1. p.state = "iq"
      BY <1>2, <1>5
    <3>2. q = [p EXCEPT
                 !.nreceiver = IF p.nreceiver < Lost THEN p.nreceiver + 1 ELSE p.nreceiver,
                 !.state = IF p.nreceiver + 1 = receivers THEN "mic" ELSE "iq"]
      BY <3>1 DEF TakeUnit
    <3> QED BY <1>2, <3>2, <1>5, Two
  <2>3. InRow(q, j + 1)
    <3> HIDE DEF q, u
    <3>1. /\ q \in Parsers /\ q.rows = Rows /\ q.nsamples = a
          /\ q.nreceiver = 1 /\ q.state = "iq"
      <4> DEFINE n == 1
                 st == "iq"
      <4>1. n \in 0 .. 4 /\ st \in States /\ q = Counts(p, st, n) /\ p \in Parsers
        BY <1>2, <2>2 DEF Counts, States
      <4> HIDE DEF n, st
      <4> DEFINE r == Counts(p, st, n)
      <4>2. /\ r \in Parsers /\ r.state = st /\ r.nreceiver = n
            /\ r.nsamples = p.nsamples /\ r.rows = p.rows
        BY <4>1 DEF Counts, Parsers
      <4>3. q = r
        BY <4>1
      <4> HIDE DEF r
      <4> QED BY <1>2, <4>2, <4>3 DEF n, st
    <3>2. j + 1 # 3 * Rows
      BY <1>1, <2>1
    <3> QED BY <2>1, <3>1, <3>2 DEF InRow
  <2> QED BY <1>4, <1>5, <2>1, <2>3 DEF Own
<1>6. CASE c = 1
  <2>1. u = 1 /\ j + 1 = 3 * a + 2 /\ (j + 1) \div 3 = a /\ (j + 1) % 3 = 2
    BY <1>1, <1>6
  <2>2. q = [p EXCEPT !.nreceiver = 2, !.state = "mic"]
    <3>1. p.state = "iq"
      BY <1>2, <1>6
    <3>2. q = [p EXCEPT
                 !.nreceiver = IF p.nreceiver < Lost THEN p.nreceiver + 1 ELSE p.nreceiver,
                 !.state = IF p.nreceiver + 1 = receivers THEN "mic" ELSE "iq"]
      BY <3>1 DEF TakeUnit
    <3> QED BY <1>2, <3>2, <1>6, Two
  <2>3. InRow(q, j + 1)
    <3> HIDE DEF q, u
    <3>1. /\ q \in Parsers /\ q.rows = Rows /\ q.nsamples = a
          /\ q.nreceiver = 2 /\ q.state = "mic"
      <4> DEFINE n == 2
                 st == "mic"
      <4>1. n \in 0 .. 4 /\ st \in States /\ q = Counts(p, st, n) /\ p \in Parsers
        BY <1>2, <2>2 DEF Counts, States
      <4> HIDE DEF n, st
      <4> DEFINE r == Counts(p, st, n)
      <4>2. /\ r \in Parsers /\ r.state = st /\ r.nreceiver = n
            /\ r.nsamples = p.nsamples /\ r.rows = p.rows
        BY <4>1 DEF Counts, Parsers
      <4>3. q = r
        BY <4>1
      <4> HIDE DEF r
      <4> QED BY <1>2, <4>2, <4>3 DEF n, st
    <3>2. j + 1 # 3 * Rows
      BY <1>1, <2>1
    <3> QED BY <2>1, <3>1, <3>2 DEF InRow
  <2> QED BY <1>4, <1>6, <2>1, <2>3 DEF Own
<1>7. CASE c = 2
  <2>1. j + 1 = 3 * (a + 1) /\ (j + 1) \div 3 = a + 1 /\ (j + 1) % 3 = 0
    BY <1>1, <1>7
  <2>2. q = IF a + 1 = Rows THEN [p EXCEPT !.state = "sync"]
            ELSE [p EXCEPT !.state = "iq", !.nreceiver = 0, !.nsamples = a + 1]
    <3>1. p.state = "mic"
      BY <1>2, <1>7
    <3>2. q = IF p.nsamples + 1 = p.rows THEN [p EXCEPT !.state = "sync"]
              ELSE [p EXCEPT !.state = "iq", !.nreceiver = 0, !.nsamples = p.nsamples + 1]
      BY <3>1 DEF TakeUnit
    <3> QED BY <1>2, <3>2
  <2>3. InRow(q, j + 1)
    <3> HIDE DEF q, u
    <3>1. CASE a + 1 = Rows
      <4>1. j + 1 = 3 * Rows
        BY <2>1, <3>1
      <4>2. q \in Parsers /\ q.state = "sync"
        <5>1. q = Waits(p, "sync") /\ "sync" \in States
          BY <2>2, <3>1 DEF Waits, States
        <5> QED BY <1>2, <5>1, Waiting
      <4> QED BY <4>1, <4>2 DEF InRow
    <3>2. CASE a + 1 # Rows
      <4>1. j + 1 # 3 * Rows
        BY <1>1, <2>1, <3>2
      <4> DEFINE b == a + 1
      <4>2. b \in Nat /\ q = [p EXCEPT !.state = "iq", !.nreceiver = 0, !.nsamples = b]
        BY <1>1, <2>2, <3>2
      <4> HIDE DEF b
      <4>3. /\ q \in Parsers /\ q.rows = Rows /\ q.nsamples = b
            /\ q.nreceiver = 0 /\ q.state = "iq"
        <5>1. q = Turns(p, "iq", 0, b) /\ "iq" \in States /\ 0 \in 0 .. 4
          BY <4>2 DEF Turns, States
        <5> QED BY <1>2, <4>2, <5>1, Turning
      <4> QED BY <2>1, <4>1, <4>3 DEF InRow, b
    <3> QED BY <3>1, <3>2
  <2> QED BY <1>4, <1>7, <2>3
<1> HIDE DEF next
<1> QED BY <1>1, <1>5, <1>6, <1>7

\* A parser that waits for a header takes a whole packet's samples for the receivers they
\* are of, and waits for the next header.
LEMMA ParsedInStep ==
  ASSUME parser \in Parsers, parser.state = "sync", receivers = 2
  PROVE  LET next == Parsed(Payload[2]) IN
         /\ next.samples \subseteq Own
         /\ next.state \in Parsers /\ next.state.state = "sync"
<1> DEFINE units == Payload[2]
           L == Len(units)
<1>1. /\ L \in Nat /\ L = 3 * Rows + 1 /\ Rows \in Nat /\ Rows >= 1 /\ units[1] = Header
      /\ \A k \in 2 .. L : units[k] = ((k - 1) % 3) - 1
  BY Packet, Two DEF Header
<1>2. PICK walk : /\ walk[0] = [state |-> parser, samples |-> {}]
                  /\ \A k \in 1 .. L : walk[k] = Take(walk[k - 1], units[k])
                  /\ Parsed(units) = walk[L]
  BY <1>1, Walk
<1> DEFINE Fine(x, k) == \E p, s : /\ x = [state |-> p, samples |-> s]
                                    /\ s \subseteq Own /\ InRow(p, k - 1)
           Good == {k \in 0 .. L : k = 0 \/ Fine(walk[k], k)}
<1> HIDE DEF L, units
<1>3. 0 \in Good
  BY <1>1
<1>4. Fine(walk[1], 1)
  <2> DEFINE p == [state |-> "iq", nreceiver |-> 0, nsamples |-> 0, rows |-> RowsOf(receivers)]
  <2>1. walk[1] = Take([state |-> parser, samples |-> {}], Header)
    BY <1>1, <1>2
  <2>2. walk[1] = [state |-> p, samples |-> {}]
    BY <2>1 DEF Take, TakeUnit
  <2>3. RowsOf(receivers) = Rows
    BY DEF RowsOf, Rows
  <2>4. p \in Parsers /\ p.state = "iq" /\ p.nreceiver = 0 /\ p.nsamples = 0 /\ p.rows = Rows
    BY <1>1, <2>3 DEF Parsers, States
  <2> HIDE DEF p
  <2>5. 0 # 3 * Rows /\ 0 \div 3 = 0 /\ 0 % 3 = 0
    BY <1>1
  <2>6. InRow(p, 0)
    BY <2>4, <2>5 DEF InRow
  <2>7. InRow(p, 1 - 1) /\ {} \subseteq Own
    BY <2>6
  <2> QED BY <2>2, <2>7
<1>5. ASSUME NEW k \in 2 .. L, Fine(walk[k - 1], k - 1) PROVE Fine(walk[k], k)
  <2>1. PICK p, s : walk[k - 1] = [state |-> p, samples |-> s] /\ s \subseteq Own
                    /\ InRow(p, (k - 1) - 1)
    BY <1>5
  <2> DEFINE j == k - 2
             next == Take([state |-> p, samples |-> s], ((j + 1) % 3) - 1)
  <2>2. j \in 0 .. 3 * Rows - 1 /\ (k - 1) - 1 = j /\ j + 1 = k - 1
    BY <1>1
  <2>3. walk[k] = next
    BY <1>1, <1>2, <2>1, <2>2
  <2> HIDE DEF j
  <2>4. next.samples \subseteq Own /\ InRow(next.state, j + 1)
    BY <2>1, <2>2, RowTaken
  <2>5. next = [state |-> next.state, samples |-> next.samples]
    BY DEF Take
  <2> HIDE DEF next
  <2>6. InRow(next.state, k - 1)
    BY <2>2, <2>4
  <2> QED BY <2>3, <2>4, <2>5, <2>6
<1>6. ASSUME NEW k \in 1 .. L, k - 1 \in Good PROVE k \in Good
  <2>1. CASE k = 1
    <3> HIDE DEF Fine
    <3> QED BY <1>1, <1>4, <2>1
  <2>2. CASE k # 1
    <3> HIDE DEF Fine
    <3>1. k \in 2 .. L /\ k - 1 # 0 /\ Fine(walk[k - 1], k - 1)
      BY <1>6, <2>2
    <3> QED BY <1>5, <3>1
  <2> QED BY <2>1, <2>2
<1>7. Fine(walk[L], L)
  <2>1. \A k \in 0 .. L : k \in Good
    <3> HIDE DEF Good
    <3> QED BY <1>1, <1>3, <1>6, Every
  <2> HIDE DEF Fine
  <2> QED BY <1>1, <2>1
<1>8. PICK p, s : walk[L] = [state |-> p, samples |-> s] /\ s \subseteq Own /\ InRow(p, L - 1)
  BY <1>7
<1>9. p \in Parsers /\ p.state = "sync"
  BY <1>1, <1>8 DEF InRow
<1>10. Parsed(units).samples = s /\ Parsed(units).state = p
  BY <1>2, <1>8
<1> QED BY <1>8, <1>9, <1>10 DEF units

----------------------------------------------------------------------------
(* The invariant *)

\* The transmitter is there while the receivers are, and the command thread needs both.
Attached ==
  /\ hasTx <=> receivers = 2
  /\ cmdPc \in {"prime", "burst", "go", "stop"} => receivers = 2

\* A radio is not stopped while it is keyed.
Released ==
  Orderly => up /\ (mox => hasTx) /\ (cmdPc \in {"stop", "delete"} => ~mox)

\* What says how many receivers there are says two.
Tells(said) == "count" \in DOMAIN said /\ said.count = 2

\* A radio that sends, or is about to be started, has been told of its receivers: the
\* first packet of a start goes out whole, and nobody else sends meanwhile.
Primed ==
  /\ suppress => cmdPc \in {"go", "stop"}
  /\ cmdPc = "prime" =>
       /\ speaker = "off"
       /\ burst = 7 => metisOffset = 8
       /\ burst = 6 => metisOffset = 520
  /\ radioOn => receivers = 2 /\ cmdPc \notin {"prime", "go", "delete"}
  /\ receivers = 2 /\ metisOffset = 520 => Tells(half)
  /\ radioOn \/ cmdPc = "go" \/ (cmdPc = "prime" /\ burst <= 5) => Tells(told)

\* Between packets the parser waits for a header, or it is lost for good.
Parsing ==
  /\ wire \in {<<>>, <<2>>}
  /\ parser \in Parsers
  /\ parser.state = "sync" \/ (parser.state = "iq" /\ parser.nreceiver >= 2)

\* TypeOK in two parts, the flags and the rest.
Flags ==
  /\ up \in BOOLEAN /\ device \in Devices /\ tcp \in BOOLEAN /\ hasTx \in BOOLEAN
  /\ mox \in BOOLEAN /\ suppress \in BOOLEAN /\ radioOn \in BOOLEAN /\ mixed \in BOOLEAN
Counters ==
  /\ starts \in 0 .. MaxStarts /\ settings \in 0 .. MaxSettings /\ receivers \in {0, 2}
  /\ cmdPc \in {"idle", "prime", "burst", "go", "stop", "delete"} /\ burst \in 0 .. 7
  /\ speaker \in {"off", "on", "last"}
  /\ metisOffset \in {8, 520} /\ currentRx \in {0, 1} /\ command \in 1 .. 10
  /\ heard \subseteq {0, 1}

IInv == Flags /\ Counters /\ Attached /\ Released /\ Primed /\ Parsing /\ ~mixed

\* The types that the run checks follow from the parts.
LEMMA Typed == Flags /\ Counters /\ Parsing => TypeOK
<1> SUFFICES ASSUME Flags, Counters, Parsing PROVE TypeOK
  OBVIOUS
<1>1. Len(wire) <= 1
  <2>1. wire = <<>> \/ wire = <<2>>
    BY DEF Parsing
  <2>2. CASE wire = <<>>
    BY <2>2
  <2>3. CASE wire = <<2>>
    BY <2>3
  <2> QED BY <2>1, <2>2, <2>3
<1>2. parser.state \in {"sync", "iq", "mic"} /\ parser.nreceiver \in 0 .. Lost
  BY Two DEF Parsing, Parsers, States
<1>3. receivers \in {0, Cardinality(Rx)} /\ currentRx \in Rx /\ heard \subseteq Rx
  BY Two, RadioAssumption DEF Counters
<1> QED BY <1>1, <1>2, <1>3 DEF TypeOK, Flags, Counters

\* Before anything is sent nothing is under way, and the parser waits for a header.
LEMMA Start == Init => IInv
<1> SUFFICES ASSUME Init PROVE IInv
  OBVIOUS
<1>1. Flags
  BY Zenon DEF Init, Flags
<1>2. Counters
  BY RadioAssumption DEF Init, Counters
<1>3. Attached
  BY DEF Init, Attached
<1>4. Released
  BY Zenon DEF Init, Released
<1>5. Primed
  BY DEF Init, Primed
<1>6. Parsing /\ ~mixed
  BY DEF Init, Parsing, Parsers, States
<1> QED BY <1>1, <1>2, <1>3, <1>4, <1>5, <1>6 DEF IInv

\* What a packet's first half says stays said when the second half is put to it.
LEMMA Overlaid ==
  ASSUME NEW new, NEW old, "count" \in DOMAIN old
  PROVE  /\ "count" \notin DOMAIN new => /\ "count" \in DOMAIN Upon(new, old)
                                         /\ Upon(new, old)["count"] = old["count"]
         /\ "count" \in DOMAIN Upon(old, new) /\ Upon(old, new)["count"] = old["count"]
BY DEF Upon

\* None of the ten registers says how many receivers there are.
LEMMA NoCount ==
  ASSUME command \in 1 .. 10, currentRx \in Rx
  PROVE  "count" \notin DOMAIN Upon([mox |-> mox], Registers[command])
<1>1. "count" \notin DOMAIN Registers[command]
  <2>1. CASE command = 1
    BY <2>1 DEF Registers, TxFrequencyRegister
  <2>2. CASE command = 2
    <3>1. Registers[2] = RxFrequencyRegister(currentRx)
      BY DEF Registers
    <3> QED BY <2>2, <3>1 DEF RxFrequencyRegister
  <2>3. CASE command = 3
    BY <2>3 DEF Registers, DriveRegister
  <2>4. CASE command = 4
    BY <2>4 DEF Registers, GainRegister
  <2>5. CASE command = 5
    BY <2>5 DEF Registers, SecondAdcRegister
  <2>6. CASE command = 6
    BY <2>6 DEF Registers, AdcRegister
  <2>7. CASE command \in {7, 8, 9}
    BY <2>7 DEF Registers, Nothing
  <2>8. CASE command = 10
    BY <2>8 DEF Registers, AlexRegister
  <2> QED BY <2>1, <2>2, <2>3, <2>4, <2>5, <2>6, <2>7, <2>8
<1> QED BY <1>1 DEF Upon

\* The configuration does.
LEMMA Counted ==
  ASSUME receivers = 2
  PROVE  Tells(Upon([mox |-> mox], Upon(Config, AntennaBits)))
<1>1. "count" \in DOMAIN Config /\ Config["count"] = 2
  BY DEF Config, CountBits
<1>2. "count" \in DOMAIN Upon(Config, AntennaBits) /\ Upon(Config, AntennaBits)["count"] = 2
  BY <1>1, Overlaid
<1>3. "count" \notin DOMAIN [mox |-> mox]
  OBVIOUS
<1> QED BY <1>2, <1>3, Overlaid DEF Tells

\* What a buffer does: halves take turns, the registers theirs, and what has been told of
\* the receivers stays told.
LEMMA Buffer ==
  ASSUME Counters, OzySendBuffer
  PROVE  /\ up' = (mox => hasTx)
         /\ metisOffset' = 528 - metisOffset
         /\ currentRx' \in {0, 1} /\ command' \in 1 .. 10
         /\ metisOffset = 8 => told' = told /\ (receivers = 2 => Tells(half'))
         /\ metisOffset = 520 => half' = half
         /\ metisOffset = 520 /\ Tells(half) /\ (~suppress \/ Tells(told)) => Tells(told')
<1>1. command \in 1 .. 10 /\ currentRx \in Rx /\ metisOffset \in {8, 520}
      /\ receivers \in {0, 2} /\ Rx = {0, 1}
  BY RadioAssumption DEF Counters
<1>2. up' = (mox => hasTx)
  BY DEF OzySendBuffer
<1>3. CASE metisOffset = 8
  <2>1. /\ metisOffset' = 520 /\ half' = Upon([mox |-> mox], Upon(Config, AntennaBits))
        /\ told' = told
    BY <1>3 DEF OzySendBuffer, MetisWrite
  <2>2. UNCHANGED <<currentRx, command>>
    BY <1>3 DEF OzySendBuffer
  <2>3. receivers = 2 => Tells(half')
    BY <2>1, Counted
  <2> QED BY <1>1, <1>2, <1>3, <2>1, <2>2, <2>3
<1>4. CASE metisOffset = 520
  <2> DEFINE bits == Upon([mox |-> mox], Registers[command])
  <2>1. /\ metisOffset' = 8 /\ half' = half
        /\ told' = IF suppress THEN told ELSE Upon(bits, Upon(half, told))
    BY <1>4 DEF OzySendBuffer, MetisWrite
  <2>2. Turn
    BY <1>4 DEF OzySendBuffer
  <2>3. currentRx' \in Rx
    BY <1>1, <2>2 DEF Turn
  <2>4. command' \in 1 .. 10
    BY <1>1, <2>2 DEF Turn
  <2>5. "count" \notin DOMAIN bits
    BY <1>1, NoCount
  <2> HIDE DEF bits
  <2>6. Tells(half) => Tells(Upon(bits, Upon(half, told)))
    BY <2>5, Overlaid DEF Tells
  <2>7. Tells(half) /\ (~suppress \/ Tells(told)) => Tells(told')
    BY <2>1, <2>6
  <2>8. metisOffset' = 528 - metisOffset /\ currentRx' \in {0, 1} /\ metisOffset # 8
    BY <1>1, <1>4, <2>1, <2>3
  <2> QED BY <1>2, <2>1, <2>4, <2>7, <2>8
<1> QED BY <1>1, <1>3, <1>4

\* A buffer of the speaker or the transmitter leaves the radio told, and the transmitter
\* is there when it is looked at.
LEMMA Sends ==
  ASSUME IInv, SpeakerSend \/ KeyedSend
  PROVE  IInv'
<1>1. /\ up /\ OzySendBuffer /\ speaker \in {"on", "last"}
      /\ speaker' = IF speaker = "last" THEN "off" ELSE "on"
  BY DEF SpeakerSend, KeyedSend
<1>2. UNCHANGED <<device, tcp, starts, hostVars, mox, cmdPc, burst, suppress, radioOn,
                  wire, inVars>>
  BY DEF SpeakerSend, KeyedSend
<1>3. /\ up' = (mox => hasTx)
      /\ metisOffset' = 528 - metisOffset /\ currentRx' \in {0, 1} /\ command' \in 1 .. 10
      /\ metisOffset = 8 => told' = told /\ (receivers = 2 => Tells(half'))
      /\ metisOffset = 520 => half' = half
      /\ metisOffset = 520 /\ Tells(half) /\ (~suppress \/ Tells(told)) => Tells(told')
  BY <1>1, Buffer DEF IInv
<1>4. metisOffset \in {8, 520}
  BY DEF IInv, Counters
<1>5. Flags'
  BY <1>2, <1>3, Zenon DEF IInv, Flags, hostVars, inVars
<1>6. Counters'
  BY <1>1, <1>2, <1>3 DEF IInv, Counters, hostVars, inVars
<1>7. Attached'
  BY <1>2 DEF IInv, Attached, hostVars
<1>8. Released'
  BY <1>2, <1>3, Zenon DEF IInv, Released, hostVars
<1>9. Primed'
  <2>1. cmdPc # "prime"
    BY <1>1 DEF IInv, Primed
  <2>2. receivers = 2 /\ metisOffset' = 520 => Tells(half')
    BY <1>3, <1>4
  <2>3. radioOn \/ cmdPc = "go" => Tells(told) /\ receivers = 2
    BY DEF IInv, Primed, Attached
  <2>4. radioOn \/ cmdPc = "go" => Tells(told')
    <3>1. CASE metisOffset = 8
      BY <1>3, <2>3, <3>1 DEF Tells
    <3>2. CASE metisOffset = 520
      BY <1>3, <2>3, <3>2 DEF IInv, Primed
    <3> QED BY <1>4, <3>1, <3>2
  <2> QED BY <1>2, <2>1, <2>2, <2>4 DEF IInv, Primed, hostVars
<1>10. Parsing' /\ ~mixed'
  BY <1>2 DEF IInv, Parsing, inVars
<1> QED BY <1>5, <1>6, <1>7, <1>8, <1>9, <1>10 DEF IInv

\* The command thread's buffers: the second of a start completes the first packet, and
\* from then on the radio has been told.
LEMMA Bursts ==
  ASSUME IInv, BurstSend
  PROVE  IInv'
<1>1. up /\ OzySendBuffer /\ cmdPc \in {"prime", "burst"} /\ burst > 0 /\ burst' = burst - 1
  BY DEF BurstSend
<1>2. UNCHANGED <<device, tcp, starts, hostVars, mox, cmdPc, speaker, suppress, radioOn,
                  wire, inVars>>
  BY DEF BurstSend
<1>3. /\ up' = (mox => hasTx)
      /\ metisOffset' = 528 - metisOffset /\ currentRx' \in {0, 1} /\ command' \in 1 .. 10
      /\ metisOffset = 8 => told' = told /\ (receivers = 2 => Tells(half'))
      /\ metisOffset = 520 => half' = half
      /\ metisOffset = 520 /\ Tells(half) /\ (~suppress \/ Tells(told)) => Tells(told')
  BY <1>1, Buffer DEF IInv
<1>4. metisOffset \in {8, 520} /\ burst \in 0 .. 7
  BY DEF IInv, Counters
<1>5. Flags'
  BY <1>2, <1>3, Zenon DEF IInv, Flags, hostVars, inVars
<1>6. Counters'
  BY <1>1, <1>2, <1>3 DEF IInv, Counters, hostVars, inVars
<1>7. Attached'
  BY <1>2 DEF IInv, Attached, hostVars
<1>8. Released'
  BY <1>2, <1>3, Zenon DEF IInv, Released, hostVars
<1>9. Primed'
  <2>1. receivers = 2 /\ ~suppress
    BY <1>1 DEF IInv, Primed, Attached
  <2>2. metisOffset' = 520 => Tells(half')
    BY <1>3, <1>4, <2>1
  <2>3. metisOffset = 520 => Tells(told')
    BY <1>3, <2>1 DEF IInv, Primed
  <2>4. metisOffset = 8 /\ Tells(told) => Tells(told')
    BY <1>3 DEF Tells
  <2>5. cmdPc = "prime" => (burst' = 6 => metisOffset' = 520) /\ burst' # 7
    BY <1>1, <1>3, <1>4 DEF IInv, Primed
  <2>6. radioOn => Tells(told')
    BY <1>4, <2>3, <2>4 DEF IInv, Primed
  <2>7. cmdPc = "prime" /\ burst' <= 5 => Tells(told')
    <3> SUFFICES ASSUME cmdPc = "prime", burst' <= 5 PROVE Tells(told')
      OBVIOUS
    <3>1. CASE burst = 6
      BY <2>3, <3>1 DEF IInv, Primed
    <3>2. CASE burst <= 5
      BY <1>4, <2>3, <2>4, <3>2 DEF IInv, Primed
    <3> QED BY <1>1, <1>4, <3>1, <3>2
  <2>8. cmdPc # "go" /\ (cmdPc = "prime" => speaker = "off")
    BY <1>1 DEF IInv, Primed
  <2> QED BY <1>2, <2>1, <2>2, <2>5, <2>6, <2>7, <2>8 DEF IInv, Primed, hostVars
<1>10. Parsing' /\ ~mixed'
  BY <1>2 DEF IInv, Parsing, inVars
<1> QED BY <1>5, <1>6, <1>7, <1>8, <1>9, <1>10 DEF IInv

\* A start begins a packet of its own, while nobody else sends.
LEMMA StartRadioKeeps ==
  ASSUME IInv, StartRadio
  PROVE  IInv'
<1>1. Flags'
  BY Zenon DEF IInv, Flags, StartRadio, hostVars, frameVars, radioVars, inVars
<1>2. Counters'
  BY RadioAssumption, Two DEF IInv, Counters, StartRadio, hostVars, frameVars, radioVars, inVars
<1>3. Attached'
  BY RadioAssumption, Two DEF IInv, Attached, StartRadio, hostVars, frameVars, radioVars, inVars,
     Counters
<1>4. Released'
  BY DEF IInv, Released, StartRadio, hostVars, frameVars, radioVars, inVars, Attached
<1>5. Primed'
  BY DEF IInv, Primed, StartRadio, hostVars, frameVars, radioVars, inVars, Attached, Counters
<1>6. Parsing' /\ ~mixed'
  BY DEF IInv, Parsing, StartRadio, hostVars, frameVars, radioVars, inVars
<1> QED BY <1>1, <1>2, <1>3, <1>4, <1>5, <1>6 DEF IInv

\* After the buffers of a start the radio has been told.
LEMMA BurstEndKeeps ==
  ASSUME IInv, BurstEnd
  PROVE  IInv'
<1>1. Flags'
  BY Zenon DEF IInv, Flags, BurstEnd, hostVars, frameVars, radioVars, inVars
<1>2. Counters'
  BY RadioAssumption, Two DEF IInv, Counters, BurstEnd, hostVars, frameVars, radioVars, inVars
<1>3. Attached'
  BY RadioAssumption, Two DEF IInv, Attached, BurstEnd, hostVars, frameVars, radioVars, inVars,
     Counters
<1>4. Released'
  BY DEF IInv, Released, BurstEnd, hostVars, frameVars, radioVars, inVars, Attached
<1>5. Primed'
  <2>1. cmdPc = "prime" => Tells(told)
    BY DEF IInv, Primed, BurstEnd
  <2>2. suppress' => cmdPc' = "go"
    BY DEF BurstEnd
  <2>3. cmdPc = "prime" => ~radioOn
    BY DEF IInv, Primed
  <2>4. /\ cmdPc' \in {"go", "idle"} /\ (cmdPc' = "go" => cmdPc = "prime")
        /\ UNCHANGED <<receivers, metisOffset, half, told, radioOn>>
    BY DEF BurstEnd, hostVars, frameVars, radioVars
  <2> QED BY <2>1, <2>2, <2>3, <2>4 DEF IInv, Primed
<1>6. Parsing' /\ ~mixed'
  BY DEF IInv, Parsing, BurstEnd, hostVars, frameVars, radioVars, inVars
<1> QED BY <1>1, <1>2, <1>3, <1>4, <1>5, <1>6 DEF IInv

\* The start packet.
LEMMA GoKeeps ==
  ASSUME IInv, Go
  PROVE  IInv'
<1>1. Flags'
  BY Zenon DEF IInv, Flags, Go, hostVars, frameVars, radioVars, inVars
<1>2. Counters'
  BY RadioAssumption, Two DEF IInv, Counters, Go, hostVars, frameVars, radioVars, inVars
<1>3. Attached'
  BY RadioAssumption, Two DEF IInv, Attached, Go, hostVars, frameVars, radioVars, inVars, Counters
<1>4. Released'
  BY DEF IInv, Released, Go, hostVars, frameVars, radioVars, inVars, Attached
<1>5. Primed'
  BY DEF IInv, Primed, Go, hostVars, frameVars, radioVars, inVars, Attached, Counters
<1>6. Parsing' /\ ~mixed'
  BY DEF IInv, Parsing, Go, hostVars, frameVars, radioVars, inVars
<1> QED BY <1>1, <1>2, <1>3, <1>4, <1>5, <1>6 DEF IInv

\* A stop, with the speaker thread left to its last buffer.
LEMMA StopKeeps ==
  ASSUME IInv, Stop
  PROVE  IInv'
<1>1. Flags'
  BY Zenon DEF IInv, Flags, Stop, hostVars, frameVars, radioVars, inVars
<1>2. Counters'
  BY RadioAssumption, Two DEF IInv, Counters, Stop, hostVars, frameVars, radioVars, inVars
<1>3. Attached'
  BY RadioAssumption, Two DEF IInv, Attached, Stop, hostVars, frameVars, radioVars, inVars, Counters
<1>4. Released'
  BY DEF IInv, Released, Stop, hostVars, frameVars, radioVars, inVars, Attached
<1>5. Primed'
  BY DEF IInv, Primed, Stop, hostVars, frameVars, radioVars, inVars, Attached, Counters
<1>6. Parsing' /\ ~mixed'
  BY DEF IInv, Parsing, Stop, hostVars, frameVars, radioVars, inVars
<1> QED BY <1>1, <1>2, <1>3, <1>4, <1>5, <1>6 DEF IInv

\* The stop packet.
LEMMA StopSendKeeps ==
  ASSUME IInv, StopSend
  PROVE  IInv'
<1>1. Flags'
  BY Zenon DEF IInv, Flags, StopSend, hostVars, frameVars, radioVars, inVars
<1>2. Counters'
  BY RadioAssumption, Two DEF IInv, Counters, StopSend, hostVars, frameVars, radioVars, inVars
<1>3. Attached'
  BY RadioAssumption, Two DEF IInv, Attached, StopSend, hostVars, frameVars, radioVars, inVars,
     Counters
<1>4. Released'
  BY DEF IInv, Released, StopSend, hostVars, frameVars, radioVars, inVars, Attached
<1>5. Primed'
  BY DEF IInv, Primed, StopSend, hostVars, frameVars, radioVars, inVars, Attached, Counters
<1>6. Parsing' /\ ~mixed'
  BY DEF IInv, Parsing, StopSend, hostVars, frameVars, radioVars, inVars
<1> QED BY <1>1, <1>2, <1>3, <1>4, <1>5, <1>6 DEF IInv

\* The receivers and the transmitter are deleted.
LEMMA MainDeleteKeeps ==
  ASSUME IInv, MainDelete
  PROVE  IInv'
<1>1. Flags'
  BY Zenon DEF IInv, Flags, MainDelete, hostVars, frameVars, radioVars, inVars
<1>2. Counters'
  BY RadioAssumption, Two DEF IInv, Counters, MainDelete, hostVars, frameVars, radioVars, inVars
<1>3. Attached'
  BY RadioAssumption, Two DEF IInv, Attached, MainDelete, hostVars, frameVars, radioVars, inVars,
     Counters
<1>4. Released'
  BY DEF IInv, Released, MainDelete, hostVars, frameVars, radioVars, inVars, Attached
<1>5. Primed'
  BY DEF IInv, Primed, MainDelete, hostVars, frameVars, radioVars, inVars, Attached, Counters
<1>6. Parsing' /\ ~mixed'
  BY DEF IInv, Parsing, MainDelete, hostVars, frameVars, radioVars, inVars
<1> QED BY <1>1, <1>2, <1>3, <1>4, <1>5, <1>6 DEF IInv

\* A setting is changed.
LEMMA SettingKeeps ==
  ASSUME IInv, Setting
  PROVE  IInv'
<1>1. Flags'
  BY Zenon DEF IInv, Flags, Setting, hostVars, frameVars, radioVars, inVars
<1>2. Counters'
  BY RadioAssumption, Two DEF IInv, Counters, Setting, hostVars, frameVars, radioVars, inVars
<1>3. Attached'
  BY RadioAssumption, Two DEF IInv, Attached, Setting, hostVars, frameVars, radioVars, inVars,
     Counters
<1>4. Released'
  BY DEF IInv, Released, Setting, hostVars, frameVars, radioVars, inVars, Attached
<1>5. Primed'
  BY DEF IInv, Primed, Setting, hostVars, frameVars, radioVars, inVars, Attached, Counters
<1>6. Parsing' /\ ~mixed'
  BY DEF IInv, Parsing, Setting, hostVars, frameVars, radioVars, inVars
<1> QED BY <1>1, <1>2, <1>3, <1>4, <1>5, <1>6 DEF IInv

\* Push-to-talk is pressed or released.
LEMMA MoxKeeps ==
  ASSUME IInv, Mox
  PROVE  IInv'
<1>1. Flags'
  BY Zenon DEF IInv, Flags, Mox, hostVars, frameVars, radioVars, inVars
<1>2. Counters'
  BY RadioAssumption, Two DEF IInv, Counters, Mox, hostVars, frameVars, radioVars, inVars
<1>3. Attached'
  BY RadioAssumption, Two DEF IInv, Attached, Mox, hostVars, frameVars, radioVars, inVars, Counters
<1>4. Released'
  <2>1. receivers = 2
    BY DEF IInv, Counters, Mox
  <2>2. hasTx' /\ up' /\ cmdPc' = "idle"
    BY <2>1 DEF IInv, Attached, Mox
  <2> QED BY <2>2 DEF Released
<1>5. Primed'
  BY DEF IInv, Primed, Mox, hostVars, frameVars, radioVars, inVars, Attached, Counters
<1>6. Parsing' /\ ~mixed'
  BY DEF IInv, Parsing, Mox, hostVars, frameVars, radioVars, inVars
<1> QED BY <1>1, <1>2, <1>3, <1>4, <1>5, <1>6 DEF IInv

\* The radio sends for as many receivers as it was told.
LEMMA RadioSendKeeps ==
  ASSUME IInv, RadioSend
  PROVE  IInv'
<1>1. Flags'
  BY Zenon DEF IInv, Flags, RadioSend, hostVars, frameVars, radioVars, inVars
<1>2. Counters'
  BY RadioAssumption, Two DEF IInv, Counters, RadioSend, hostVars, frameVars, radioVars, inVars
<1>3. Attached'
  BY RadioAssumption, Two DEF IInv, Attached, RadioSend, hostVars, frameVars, radioVars, inVars,
     Counters
<1>4. Released'
  BY DEF IInv, Released, RadioSend, hostVars, frameVars, radioVars, inVars, Attached
<1>5. Primed'
  BY DEF IInv, Primed, RadioSend, hostVars, frameVars, radioVars, inVars, Attached, Counters
<1>6. Parsing' /\ ~mixed'
  <2>1. wire' = <<2>>
    BY DEF IInv, Primed, Tells, RadioSend
  <2> QED BY <2>1 DEF IInv, Parsing, RadioSend, inVars
<1> QED BY <1>1, <1>2, <1>3, <1>4, <1>5, <1>6 DEF IInv

\* A packet is taken sample for sample for the receivers it is of, or, by a parser that is
\* lost, for none.
LEMMA ReceiveKeeps ==
  ASSUME IInv, ReceivePacket
  PROVE  IInv'
<1>1. wire = <<2>> /\ wire' = <<>>
  <2>1. wire = <<2>>
    BY DEF IInv, Parsing, ReceivePacket
  <2>2. wire' = Tail(wire)
    BY DEF ReceivePacket
  <2> QED BY <2>1, <2>2
<1> DEFINE parsed == Parsed(Payload[2])
<1>2. /\ parser' = parsed.state
      /\ heard' = IF mox THEN heard ELSE heard \cup {d[1] : d \in parsed.samples}
      /\ mixed' = (mixed \/ \E d \in parsed.samples : ~mox /\ d[1] # d[2])
  <2>1. Head(wire) = 2
    BY <1>1
  <2> HIDE DEF parsed
  <2> QED BY <2>1, Zenon DEF ReceivePacket, parsed
<1>3. /\ parsed.samples \subseteq Own /\ parsed.state \in Parsers
      /\ parsed.state.state = "sync"
         \/ (parsed.state.state = "iq" /\ parsed.state.nreceiver >= 2)
  <2>1. receivers \in {0, 2} /\ parser \in Parsers
    BY DEF IInv, Counters, Parsing
  <2>2. CASE parser.state = "sync" /\ receivers = 2
    BY <2>1, <2>2, ParsedInStep
  <2>3. CASE parser.state = "sync" /\ receivers = 0
    BY <2>1, <2>3, ParsedUnattached
  <2>4. CASE parser.state = "iq" /\ parser.nreceiver >= 2
    BY <2>1, <2>4, ParsedLost
  <2> QED BY <2>1, <2>2, <2>3, <2>4 DEF IInv, Parsing
<1>4. \A d \in parsed.samples : d[1] \in {0, 1} /\ d[1] = d[2]
  BY <1>3 DEF Own
<1> HIDE DEF parsed
<1>5. UNCHANGED <<up, device, tcp, starts, hostVars, mox, cmdPc, burst, speaker, suppress,
                  frameVars, radioVars>>
  BY DEF ReceivePacket
<1>6. ~mixed' /\ mixed' \in BOOLEAN
  <2>1. ~ \E d \in parsed.samples : ~mox /\ d[1] # d[2]
    BY <1>4
  <2>2. ~mixed
    BY DEF IInv
  <2> QED BY <1>2, <2>1, <2>2, Zenon
<1>7. heard' \subseteq {0, 1}
  <2>1. heard \subseteq {0, 1}
    BY DEF IInv, Counters
  <2>2. {d[1] : d \in parsed.samples} \subseteq {0, 1}
    BY <1>4
  <2> QED BY <1>2, <2>1, <2>2, Zenon
<1>8. Flags' /\ Released'
  <2>1. Flags'
    BY <1>5, <1>6, Zenon DEF IInv, Flags, hostVars, radioVars
  <2>2. Released'
    BY <1>5, Zenon DEF IInv, Released, hostVars
  <2> QED BY <2>1, <2>2
<1>9. Counters' /\ Attached'
  BY <1>5, <1>7 DEF IInv, Counters, Attached, hostVars, frameVars
<1>10. Primed'
  BY <1>5 DEF IInv, Primed, hostVars, frameVars, radioVars
<1>11. Parsing'
  BY <1>1, <1>2, <1>3 DEF Parsing
<1> QED BY <1>6, <1>8, <1>9, <1>10, <1>11 DEF IInv

----------------------------------------------------------------------------
(* The theorem *)

\* Every step of every thread keeps the invariant.
LEMMA Step == IInv /\ [Next]_vars => IInv'
<1> SUFFICES ASSUME IInv, [Next]_vars PROVE IInv'
  OBVIOUS
<1>1. CASE UNCHANGED vars
  <2>1. Flags' /\ Released'
    BY <1>1, Zenon DEF IInv, Flags, Released, vars, hostVars, radioVars, inVars
  <2>2. Counters' /\ Attached' /\ Primed'
    BY <1>1 DEF IInv, Counters, Attached, Primed, vars, hostVars, frameVars, radioVars, inVars
  <2>3. Parsing' /\ ~mixed'
    BY <1>1 DEF IInv, Parsing, vars, inVars
  <2> QED BY <2>1, <2>2, <2>3 DEF IInv
<1>2. CASE CommandThread
  BY <1>2, Bursts, BurstEndKeeps, GoKeeps, StopSendKeeps, MainDeleteKeeps DEF CommandThread
<1>3. CASE StartRadio \/ Stop \/ Setting \/ Mox
  BY <1>3, StartRadioKeeps, StopKeeps, SettingKeeps, MoxKeeps
<1>4. CASE SpeakerSend \/ KeyedSend
  BY <1>4, Sends
<1>5. CASE RadioSend \/ ReceivePacket
  BY <1>5, RadioSendKeeps, ReceiveKeeps
<1> QED BY <1>1, <1>2, <1>3, <1>4, <1>5 DEF Next

\* Samples are never taken for another receiver's, over any number of starts and however
\* the last session ended; and with clients that release push-to-talk and wait before they
\* stop a radio, no buffer looks at a transmitter that is gone.
THEOREM SamplesCorrect == Spec => []SamplesInStep
<1>1. IInv => SamplesInStep
  BY Typed DEF IInv, Released, SamplesInStep
<1> QED BY Start, Step, <1>1, PTL DEF Spec
=============================================================================
