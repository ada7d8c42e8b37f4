------------------------------ MODULE MCNotices ------------------------------
(* Two of the staff, one call, two channels. *)
EXTENDS Notices, TLC

Symmetry == Permutations(Staff) \cup Permutations(Notices)
=============================================================================
