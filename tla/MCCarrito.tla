------------------------------ MODULE MCCarrito ------------------------------
(* Requests of one client on products of different prices, for TLC. *)
EXTENDS Carrito, TLC

CONSTANTS p1, p2, p3

MCProducts == {p1, p2, p3}
MCPrecio == p1 :> 1 @@ p2 :> 3 @@ p3 :> 5

\* The requests are interchangeable.
Symmetry == Permutations(Requests)
=============================================================================
