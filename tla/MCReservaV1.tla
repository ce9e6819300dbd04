----------------------------- MODULE MCReservaV1 -----------------------------
(* Three detalles and two cancel requests for TLC. *)
EXTENDS ReservaV1, TLC

\* The cancel requests are interchangeable.
Symmetry == Permutations(Cancellers)
=============================================================================
