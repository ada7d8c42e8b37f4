---------------------------- MODULE MCAppointments ----------------------------
(* One booking made earlier, with a mechanic, in any status, and one to be made. *)
EXTENDS Appointments, TLC

\* Two slots that overlap and one that ends before it starts.
MCSlots == {<<0, 2>>, <<1, 3>>, <<1, 0>>}

CONSTANT m1

MCEarlierRows == {x \in Row : x.mechanic = m1 /\ x.slot = <<0, 2>>}

MCSymmetry == Permutations(Requests)
==============================================================================
