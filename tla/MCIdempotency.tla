---------------------------- MODULE MCIdempotency ----------------------------
(* Three attempts with one key and two payloads. *)
EXTENDS Idempotency
==============================================================================
