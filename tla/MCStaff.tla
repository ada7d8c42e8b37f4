------------------------------ MODULE MCStaff ------------------------------
(* Two users and five pairs of accounts to begin with. *)
EXTENDS Staff, TLC

CONSTANTS u1, u2

Account(role) == [role |-> role, active |-> TRUE, mechanic |-> role = "TECHNICIAN",
                  signed |-> FALSE]

\* The pairs of roles the two users begin with.
MCInitialUsers ==
    {(u1 :> Account(p[1]) @@ u2 :> Account(p[2])) :
        p \in {<<"OWNER", "SERVICE_MANAGER">>, <<"OWNER", "TECHNICIAN">>,
               <<"SUPER_ADMIN", "SUPER_ADMIN">>}}
      \cup {(u1 :> Account(p) @@ u2 :> Absent) : p \in {"OWNER", "SUPER_ADMIN"}}

Symmetry == Permutations(Requests) \cup Permutations(Leaves)
==============================================================================
