--------------------------- MODULE MCCheckoutSaga ---------------------------
(* Two or three items and two concurrent handlers for TLC; no symmetry, which
   is not sound for the liveness properties. *)
EXTENDS CheckoutSaga
=============================================================================
