----------------------------- MODULE MCSessions -----------------------------
(* One user, two requests in flight, one code. *)
EXTENDS Sessions, TLC

Symmetry == Permutations(Requests) \cup Permutations(Tokens) \cup Permutations(Families)
              \cup Permutations(Codes)
==============================================================================
