----------------------------- MODULE MCDashboard -----------------------------
(* Two providers of one or two tipos and two detalles for TLC. *)
EXTENDS Dashboard, TLC

\* Providers and detalles are interchangeable.
Symmetry == Permutations(Proveedores) \cup Permutations(Detalles)
=============================================================================
