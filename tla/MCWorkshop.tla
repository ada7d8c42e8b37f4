----------------------------- MODULE MCWorkshop -----------------------------
(* A workshop with two bays or none, one service or none, and a booking or none. *)
EXTENDS Workshop, TLC

Bay(name) == [name |-> name, online |-> TRUE, live |-> TRUE]

MCInitialBays == {<<>>, <<Bay("lift1"), Bay("lift2")>>}

MCInitialServices == {<<>>, <<NewService("oil", "OIL")>>}

MCInitialBookings == {<<>>, <<[bay |-> "lift1", service |-> 0]>>}

MCInitialConsents == {<<>>, <<TRUE>>}

\* A note of somebody who is not a manager, and a secret that is stored.
MCInitialNotes == {<<[author |-> u, live |-> TRUE]>> : u \in Staff \ Managers}

MCInitialSecrets == {CHOOSE k \in Keys : TRUE}

\* srv01 is the code SRV01 as somebody types it.
MCUpper == [c \in {"srv01", "SRV01", "OIL"} |-> IF c = "srv01" THEN "SRV01" ELSE c]

Symmetry == Permutations(Slots)
==============================================================================
