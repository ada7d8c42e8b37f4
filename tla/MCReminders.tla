---------------------------- MODULE MCReminders ----------------------------
(* One appointment and one message; the times 1 and 2 are at night. *)
EXTENDS Reminders

MCNights == {1, 2}
==============================================================================
