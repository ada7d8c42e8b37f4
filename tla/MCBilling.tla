----------------------------- MODULE MCBilling -----------------------------
(* TLC instances of Billing: constants that a .cfg cannot write. *)
EXTENDS Billing, TLC

CONSTANTS c1, c2

\* Every work order belongs to c1.
MCCustomerOf == [w \in WorkOrders |-> c1]

Symmetry == Permutations(Requests) \cup Permutations(Attempts)
============================================================================
