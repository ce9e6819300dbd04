------------------------------ MODULE MCCancelV2 ------------------------------
(* One to three detalles, one or two requests and two concurrent handlers for TLC. *)
EXTENDS CancelV2, TLC

\* Items, handlers and requests are interchangeable; for the safety runs only.
Symmetry == Permutations(Items) \cup Permutations(Handlers) \cup Permutations(Requests)
=============================================================================
