---------------------------- MODULE MCWarehouse ----------------------------
(* One product, two shelves of a cell each, two requests. *)
EXTENDS Warehouse, TLC

CONSTANTS c1, c2, s1, s2

MCShelfOf == c1 :> s1 @@ c2 :> s2

Symmetry == Permutations(Requests)
==============================================================================
