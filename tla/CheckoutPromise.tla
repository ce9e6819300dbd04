--------------------------- MODULE CheckoutPromise ---------------------------
(***************************************************************************)
(* What a checkout promises to the providers, to finanzas and to the       *)
(* client, with no word about sagas, inboxes, handlers or crons: nobody is *)
(* charged before every item exists, each command goes out at most once    *)
(* and only after the answer it builds on, and what the client is told     *)
(* about the end is true then and later.                                   *)
(***************************************************************************)
EXTENDS Naturals

CONSTANT Items

VARIABLES created,   \* the items known to be reserved at their providers
          ids,       \* those of them that have an external id
          charges,   \* how often the payment was asked for
          paid,
          invoices,  \* how often the invoice was asked for
          invoiced,
          confirms,  \* how often the confirmation of each item was asked for
          confirmed, \* the items known to be confirmed
          told       \* what the client was told of the result

vars == <<created, ids, charges, paid, invoices, invoiced, confirms, confirmed, told>>

Init ==
  /\ created = {} /\ ids = {} /\ confirmed = {}
  /\ charges = 0 /\ invoices = 0
  /\ paid = FALSE /\ invoiced = FALSE
  /\ confirms = [i \in Items |-> 0]
  /\ told = "nothing"

\* The last item, and only that one, may set off the payment; not any more
\* when the client was told that the checkout failed.
ItemCreated(i) ==
  /\ i \in Items \ created
  /\ created' = created \cup {i}
  /\ ids' \in {ids, ids \cup {i}}
  /\ \/ charges' = charges
     \/ created' = Items /\ told # "badGateway" /\ charges = 0 /\ charges' = 1
  /\ UNCHANGED <<paid, invoices, invoiced, confirms, confirmed, told>>

PaymentProcessed ==
  /\ charges = 1 /\ ~paid
  /\ paid' = TRUE
  /\ invoices = 0 /\ invoices' = 1
  /\ UNCHANGED <<created, ids, charges, invoiced, confirms, confirmed, told>>

\* Some of the items with an external id are to be confirmed.
InvoiceIssued ==
  /\ paid /\ invoices = 1 /\ ~invoiced
  /\ invoiced' = TRUE
  /\ confirms = [i \in Items |-> 0]
  /\ \E S \in SUBSET ids : confirms' = [i \in Items |-> IF i \in S THEN 1 ELSE 0]
  /\ UNCHANGED <<created, ids, charges, paid, invoices, confirmed, told>>

ItemConfirmed(i) ==
  /\ i \in Items \ confirmed
  /\ confirms[i] = 1
  /\ confirmed' = confirmed \cup {i}
  /\ UNCHANGED <<created, ids, charges, paid, invoices, invoiced, confirms, told>>

\* The two answers that say how it ended; after one nothing else is told.
Tell(answer) ==
  /\ told = "nothing"
  /\ answer = "ok" => confirmed = Items
  /\ answer = "badGateway" => charges = 0
  /\ told' = answer
  /\ UNCHANGED <<created, ids, charges, paid, invoices, invoiced, confirms, confirmed>>

Next ==
  \/ \E i \in Items : ItemCreated(i) \/ ItemConfirmed(i)
  \/ PaymentProcessed
  \/ InvoiceIssued
  \/ \E answer \in {"ok", "badGateway"} : Tell(answer)

Spec == Init /\ [][Next]_vars
=============================================================================
