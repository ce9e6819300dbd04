----------------------- MODULE MCCheckoutAndCancelV2 -----------------------
(* A checkout of one or two items and one or two requests to cancel it, for TLC. *)
EXTENDS CheckoutAndCancelV2, TLC

\* Items, handlers and requests are interchangeable; for the safety run only.
Symmetry == Permutations(Items) \cup Permutations(Handlers)
            \cup Permutations(CancelHandlers) \cup Permutations(Requests)
=============================================================================
