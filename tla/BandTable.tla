----------------------------- MODULE BandTable ------------------------------
(***************************************************************************)
(* The band table QtRadio loads when nothing was saved before: the quick   *)
(* memories of every band followed by its working entry, and the limits of *)
(* the bands, in Hz (Band::loadSettings, src/QtRadio/Band.cpp).            *)
(***************************************************************************)
EXTENDS Integers, Sequences

E(f, m, i) == [freq |-> f, mode |-> m, filter |-> i]

B160 == <<E(1810000, "CWL", 4), E(1835000, "LSB", 4), E(1845000, "AM", 4),
          E(1845000, "AM", 4)>>
B80 == <<E(3501000, "CWL", 4), E(3751000, "LSB", 5), E(3850000, "LSB", 5),
         E(3850000, "LSB", 5)>>
B60 == <<E(5330500, "CWL", 3), E(5346500, "LSB", 3), E(5366500, "LSB", 3),
         E(5371500, "LSB", 3), E(5403500, "LSB", 3)>>
B40 == <<E(7001000, "CWL", 4), E(7060000, "LSB", 3), E(7100000, "LSB", 3),
         E(7100000, "LSB", 3)>>
B30 == <<E(10120000, "CWU", 4), E(10130000, "CWU", 4), E(10140000, "CWU", 4),
         E(10140000, "CWU", 4)>>
B20 == <<E(14010000, "CWU", 4), E(14230000, "USB", 3), E(14336000, "USB", 3),
         E(14336000, "USB", 3)>>
B17 == <<E(18068600, "CWU", 4), E(18125000, "USB", 3), E(18140000, "USB", 3),
         E(18140000, "USB", 3)>>
B15 == <<E(21001000, "CWU", 4), E(21255000, "USB", 3), E(21300000, "USB", 3),
         E(21300000, "USB", 3)>>
B12 == <<E(24895000, "CWU", 4), E(24900000, "CWU", 3), E(24910000, "CWU", 3),
         E(24910000, "CWU", 3)>>
B10 == <<E(28010000, "CWU", 4), E(28300000, "USB", 3), E(28400000, "USB", 3),
         E(28400000, "USB", 3)>>
B6 == <<E(50010000, "CWU", 4), E(50125000, "USB", 3), E(50200000, "USB", 3),
        E(50200000, "USB", 3)>>
BGen == <<E(1359000, "AM", 3), E(6145000, "AM", 3), E(11765000, "AM", 3),
          E(15400000, "AM", 3), E(17795000, "AM", 3)>>
BWwv == <<E(2500000, "AM", 4), E(5000000, "AM", 4), E(10000000, "AM", 4),
          E(15000000, "AM", 4), E(20000000, "AM", 4)>>

Stacks ==
    [b160 |-> B160, b80 |-> B80, b60 |-> B60, b40 |-> B40, b30 |-> B30,
     b20 |-> B20, b17 |-> B17, b15 |-> B15, b12 |-> B12, b10 |-> B10,
     b6 |-> B6, GEN |-> BGen, WWV |-> BWwv]

\* The number of the last quick memory, the info of entry 0.
LastMemory == [b \in DOMAIN Stacks |-> IF b \in {"b60", "GEN", "WWV"} THEN 3 ELSE 2]

\* GEN has no limits and WWV has fixed frequencies.
Edge ==
    [b160 |-> <<1800000, 2000000>>, b80 |-> <<3500000, 4000000>>,
     b60 |-> <<5330500, 5403500>>, b40 |-> <<7000000, 7300000>>,
     b30 |-> <<10100000, 10150000>>, b20 |-> <<14000000, 14350000>>,
     b17 |-> <<18068000, 18168000>>, b15 |-> <<21000000, 21450000>>,
     b12 |-> <<24890000, 24990000>>, b10 |-> <<28000000, 29700000>>,
     b6 |-> <<50000000, 54000000>>]
=============================================================================
