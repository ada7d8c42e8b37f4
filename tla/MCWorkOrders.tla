---------------------------- MODULE MCWorkOrders ----------------------------
(* Values of the constants of WorkOrders for model checking. *)
EXTENDS WorkOrders, TLC

CONSTANTS r1, r2, o1, o2, i1, i2, p1, car, other

\* Two orders of one vehicle, or of two.
OneVehicle == [o \in Orders |-> car]
TwoVehicles == [o \in Orders |-> IF o = o1 THEN car ELSE other]

StockOfTwo == [p \in Products |-> 2]
StockOfOne == [p \in Products |-> 1]

Symmetry == Permutations({r1, r2}) \cup Permutations({i1, i2})
============================================================================
