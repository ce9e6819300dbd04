------------------------------ MODULE MCOutbox ------------------------------
(* More messages than a batch holds and two overlapping cron runs for TLC. *)
EXTENDS Outbox
=============================================================================
