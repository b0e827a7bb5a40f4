------------------------------ MODULE Filters -------------------------------
(***************************************************************************)
(* The filters of QtRadio (src/QtRadio/Filters.cpp).  Every set has eleven *)
(* filters, numbered from 0; the last one is the variable filter.          *)
(***************************************************************************)
EXTENDS Integers, Sequences

Variable == 10

Upper == <<5150, 4550, 3950, 3450, 3050, 2850, 2550, 2250, 1950, 1150, 2550>>
Half  == <<8000, 6000, 5000, 4000, 3300, 2600, 2000, 1550, 1450, 1200, 2600>>
Fm    == <<40000, 6000, 5000, 4000, 3300, 2600, 2000, 1550, 1450, 1200, 2600>>
Tone  == <<500, 400, 375, 300, 250, 200, 125, 50, 25, 13, 200>>

\* The edges of filter i of a set, measured from the carrier.
UpperSide(i)  == <<150, Upper[i + 1]>>
LowerSide(i)  == <<-Upper[i + 1], -150>>
BothSides(i)  == <<-Half[i + 1], Half[i + 1]>>
FmSides(i)    == <<-Fm[i + 1], Fm[i + 1]>>

\* The filters of CW lie around the pitch of the tone.
BelowPitch(i, pitch) == <<-pitch - Tone[i + 1], -pitch + Tone[i + 1]>>
AbovePitch(i, pitch) == <<pitch - Tone[i + 1], pitch + Tone[i + 1]>>

\* The passband of filter i of the set of mode m.
Edges(m, i, pitch) ==
    CASE m \in {"USB", "DIGU"} -> UpperSide(i)
      [] m \in {"LSB", "DIGL"} -> LowerSide(i)
      [] m \in {"AM", "SAM", "DSB"} -> BothSides(i)
      [] m = "FM" -> FmSides(i)
      [] m = "CWL" -> BelowPitch(i, pitch)
      [] m = "CWU" -> AbovePitch(i, pitch)
=============================================================================
