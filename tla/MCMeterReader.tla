--------------------------- MODULE MCMeterReader ---------------------------
(***************************************************************************)
(* Finite instances of MeterReader.                                        *)
(***************************************************************************)
EXTENDS MeterReader

Read(m, n) == [meter |-> m, item |-> n]

OneItem  == <<Read("m1", "energy")>>
TwoItems == <<Read("m1", "energy"), Read("m1", "volts")>>
Shared   == <<Read("m1", "energy"), Read("m1", "volts"), Read("m2", "volts")>>

Bytes == [n \in Item |-> IF n = "energy" THEN 2 ELSE 1]

\* 1299 for energy, 99 for volts, with a byte more; and a value that is too short
\* for energy, and no decimal number, 0x3A, for volts.
Full   == [kind |-> "data", value |-> <<153, 18>>]
Short  == [kind |-> "data", value |-> <<58>>]

GoodAnswer  == {Full}
FewAnswers  == {Full, Short}
NoFault == {}
=============================================================================
