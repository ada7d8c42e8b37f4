------------------------------- MODULE Totals -------------------------------
(***************************************************************************)
(* Sums of natural numbers over the rows of a table, counted unit by unit: *)
(* the k-th unit of row x is the pair <<x, k>>.  A sum is then the size of *)
(* a finite set, so what is proved of it rests on the theorems about       *)
(* cardinality and needs no induction.                                     *)
(***************************************************************************)
EXTENDS Integers, FiniteSets

Units(S, amount) == UNION {{x} \X (1 .. amount[x]) : x \in S}

Total(S, amount) == Cardinality(Units(S, amount))
============================================================================
