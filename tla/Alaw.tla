-------------------------------- MODULE Alaw --------------------------------
(***************************************************************************)
(* The A-law companding of audio between dspserver and QtRadio.  Both keep *)
(* tables, built by the functions below: dspserver encodes what a receiver *)
(* hears and decodes the microphone, QtRadio does the reverse.  A byte is  *)
(* a sign, a segment and a mantissa; the pattern 0x55 both sides apply to  *)
(* its bits cancels out.                                                   *)
(***************************************************************************)
EXTENDS Integers, FiniteSetsExt

CONSTANT Row      \* samples are tried one after the other, Row of them in a row

VARIABLE sample  \* the 16-bit sample that is sent

Shorts == -32768 .. 32767

\* -32768 has no positive counterpart in 16 bits.
Negated(s) == IF s = -32768 THEN s ELSE -s

\* A segment's samples are shifted by one bit more than those of the segment below
\* it, but in the first two, which have the same steps.
Scale(e) == IF e = 0 THEN 1 ELSE <<1, 2, 4, 8, 16, 32, 64>>[e]

\* Mutant of Segment: the search for the highest bit starts one bit too low.
SegmentLow(m) == Max({0} \cup {e \in 1 .. 6 : m >= 256 * Scale(e)})

\* The highest of the bits 14 .. 8 that is set, 0 when none is.
Segment(m) == Max({0} \cup {e \in 1 .. 7 : m >= 256 * Scale(e)})

Encode(s) ==
  LET magnitude == IF s < 0 THEN Negated(s) ELSE s
      m == IF magnitude > 32635 THEN 32635 ELSE magnitude
      e == Segment(m)
  IN [negative |-> s < 0, segment |-> e, mantissa |-> (m \div (16 * Scale(e))) % 16]

Decode(b) ==
  LET row == b.mantissa * 16 + 8 + (IF b.segment >= 1 THEN 256 ELSE 0)
      value == row * Scale(b.segment)
  IN IF b.negative THEN -value ELSE value

Init == sample \in {s \in Shorts : s % Row = 0}
Next == (sample + 1) % Row # 0 /\ sample' = sample + 1
Spec == Init /\ [][Next]_sample
----------------------------------------------------------------------------
TypeOK == sample \in Shorts

\* The distance of the values that can be sent, where the sample lies.
Step(s) ==
  LET e == Max({1} \cup {k \in 1 .. 7 : s >= 256 * Scale(k) \/ -s >= 256 * Scale(k)})
  IN 16 * Scale(e)

\* What one side decodes is within half a step of what the other encoded, for
\* every sample but the most negative one, which comes out as nearly silent.
AlawClose ==
  sample # -32768 => LET error == Decode(Encode(sample)) - sample
                     IN 2 * error <= Step(sample) /\ -2 * error <= Step(sample)
=============================================================================
