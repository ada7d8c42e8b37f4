---------------------------- MODULE MCCustomers ----------------------------
(* Two customers, a phone in two forms, the phone of those without one, one plate. *)
EXTENDS Customers, TLC

CONSTANTS c1, c2, p0, p1, p2, v1

Absent == [made |-> FALSE, deleted |-> FALSE, anonymized |-> FALSE, personal |-> {},
           phone |-> p1]

MCStandard == p0 :> p0 @@ p1 :> p1 @@ p2 :> p1
MCForms == p0 :> {p0} @@ p1 :> {p1, p2} @@ p2 :> {p1, p2}

WithAddress == NewCustomer(p1, Data)

MCInitialCustomers ==
    {c1 :> WithAddress @@ c2 :> Absent,
     c1 :> WithAddress @@ c2 :> NewCustomer(p2, {"identity"}),
     c1 :> [WithAddress EXCEPT !.deleted = TRUE] @@ c2 :> Absent}

MCInitialVehicles == {v1 :> [owner |-> c, deleted |-> FALSE] : c \in {c1, Null}}

Symmetry == Permutations(Requests)
============================================================================
