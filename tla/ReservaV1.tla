------------------------------ MODULE ReservaV1 ------------------------------
(***************************************************************************)
(* The synchronous mode, the default one: ReservasService.checkoutV1Sync   *)
(* drives integracion and finanzas by gRPC, one call at a time, and undoes *)
(* what it did when a call fails; cancelarMiReservaV1Sync may run at the   *)
(* same time on the same reserva.  Every await is a point where the other  *)
(* requests, or a crash of the process, come in between.                   *)
(***************************************************************************)
EXTENDS Naturals, FiniteSets

CONSTANTS N,           \* the reserva has detalles 1..N, handled in that order
          Cancellers,  \* requests to cancel it
          MaxFaults,   \* bound: calls that fail
          MaxCrashes   \* bound: restarts of the process

ASSUME NAssumption == N \in Nat \ {0}
ASSUME FaultsAssumption == MaxFaults \in Nat /\ MaxCrashes \in Nat

Items == 1..N

VARIABLES status,     \* reservas.status
          idExterno,  \* the items whose detalle has id_externo
          auditoria,  \* the kinds of audit rows written about money
          remote,     \* each item at its provider
          payment,    \* the payment in finanzas
          invoice,    \* the invoice in finanzas
          co,         \* the checkout request
          ca,         \* the cancel requests
          faults,     \* calls that failed so far
          lost,       \* did some failed call take effect, or an answer lack its id?
          crashes

remoteVars == <<remote, payment, invoice>>
dbVars     == <<status, idExterno, auditoria>>
faultVars  == <<faults, lost, crashes>>
vars == <<dbVars, remoteVars, co, ca, faultVars>>

Failed == {"FALLIDA_PROVEEDOR", "FALLIDA_PAGO", "FALLIDA_FACTURACION",
           "FALLIDA_CONFIRMACION"}

CancelAudits == {"MANUAL_REFUND_REQUIRED", "REFUND_FAILED", "REFUND_RECONCILIATION_NEEDED"}

\* pc: the call the checkout makes next; k: the detalle of its loops; created
\* and confirmed: its two lists; idPago: did the payment come with an id;
\* todo: what cancelRemoteReservations has left; fail: the status to end with.
Checkout == [pc : {"cart", "availability", "convert", "create", "record", "pay",
                   "invoice", "confirm", "finish", "refund", "cancel", "mark", "done"},
             k : 1..(N + 1), created : SUBSET Items, confirmed : SUBSET Items,
             idPago : BOOLEAN, todo : SUBSET Items, fail : Failed \cup {"NONE"},
             answer : {"none", "ok", "rejected", "unavailable", "failed", "error",
                       "connectionLost"}]

\* during: history, was the checkout still running when this request began?
\* unseen: history, was it told that there is no payment although there is?
\* audit: the row it is about to write.
Canceller == [pc : {"idle", "list", "cancel", "refund", "audit", "mark", "done"},
              todo : SUBSET Items, during : BOOLEAN, unseen : BOOLEAN,
              audit : CancelAudits \cup {"NONE"},
              answer : {"none", "ok", "rejected", "error", "connectionLost"}]

TypeOK ==
  /\ status \in {"NONE", "PENDIENTE", "CONFIRMADA", "CANCELADA"} \cup Failed
  /\ idExterno \subseteq Items
  /\ auditoria \subseteq CancelAudits \cup {"COMPENSATION_PENDING_REFUND"}
  /\ remote \in [Items -> {"none", "created", "confirmed", "cancelled"}]
  /\ payment \in {"none", "charged", "refunded"}
  /\ invoice \in {"none", "issued"}
  /\ co \in Checkout
  /\ ca \in [Cancellers -> Canceller]
  /\ faults \in 0..MaxFaults
  /\ lost \in BOOLEAN
  /\ crashes \in 0..MaxCrashes

Init ==
  /\ status = "NONE" /\ idExterno = {} /\ auditoria = {}
  /\ remote = [i \in Items |-> "none"] /\ payment = "none" /\ invoice = "none"
  /\ co = [pc |-> "cart", k |-> 1, created |-> {}, confirmed |-> {},
           idPago |-> FALSE, todo |-> {}, fail |-> "NONE", answer |-> "none"]
  /\ ca = [c \in Cancellers |-> [pc |-> "idle", todo |-> {}, during |-> FALSE,
                                 unseen |-> FALSE, audit |-> "NONE", answer |-> "none"]]
  /\ faults = 0 /\ lost = FALSE /\ crashes = 0

-----------------------------------------------------------------------------
(* How a call to another service, or to the database, may end. *)

CallSucceeds == UNCHANGED faultVars

\* The error arrives; takesEffect tells whether the service did the work.
CallFails(takesEffect) ==
  /\ faults < MaxFaults
  /\ faults' = faults + 1
  /\ lost' = (lost \/ takesEffect)
  /\ UNCHANGED crashes

\* The call works and the response lacks the identifier it should carry.
AnswerLacksId ==
  /\ faults < MaxFaults
  /\ faults' = faults + 1
  /\ lost' = TRUE
  /\ UNCHANGED crashes

\* cancelRemoteReservations goes through its list backwards.
IsLast(i, S) == i \in S /\ \A j \in S : j <= i

-----------------------------------------------------------------------------
(* What the other services do with a call. *)

CreateRemote(i) == remote' = [remote EXCEPT ![i] = "created"]

\* A provider does not confirm what was cancelled in the meantime.
Confirmable(i)   == remote[i] = "created"
ConfirmRemote(i) == remote' = [remote EXCEPT ![i] = "confirmed"]

CancelRemote(i)  == remote' = [remote EXCEPT ![i] = "cancelled"]

\* processPayment and issueInvoice: every step has an idempotency key of its
\* own and makes its call once.
Charge == payment' = "charged"
Issue  == invoice' = "issued"

\* refundPayment: finanzas refunds what is charged, and not twice.
Refundable == payment = "charged"
Refund     == payment' = "refunded"

\* What getPaymentByReservaId answers.  It is null for NOT_FOUND, and for a
\* payment whose amount is not a JavaScript number or whose id is missing:
\* amount_cents is an int64, which the gRPC loader, configured without longs,
\* delivers as an object.
PaymentAnswers == IF payment = "none" THEN {"null"} ELSE {"null", "payment"}

-----------------------------------------------------------------------------
(* Checkout: steps 4 to 10 of checkoutV1Sync. *)

\* Mutants of FailStatus: 7 and 8 swapped; a status that does not exist.
FailStatusSwapped(step) ==
  CASE step = 6 -> "FALLIDA_PROVEEDOR"
    [] step = 7 -> "FALLIDA_FACTURACION"
    [] step = 8 -> "FALLIDA_PAGO"
    [] step = 9 -> "FALLIDA_CONFIRMACION"
FailStatusTypo(step) == "FALLIDA"

\* The status each compensation leaves.
FailStatus(step) ==
  CASE step = 6 -> "FALLIDA_PROVEEDOR"
    [] step = 7 -> "FALLIDA_PAGO"
    [] step = 8 -> "FALLIDA_FACTURACION"
    [] step = 9 -> "FALLIDA_CONFIRMACION"

\* Mutants of Compensate: nothing is refunded; step 6 swallows the error.
CompensateNoRefund(row, step) ==
  [row EXCEPT !.pc = "cancel", !.fail = FailStatus(step),
              !.todo = IF step = 9 THEN row.confirmed ELSE row.created]
CompensateSwallows(row, step) ==
  [row EXCEPT !.pc = IF step = 6 THEN "pay" ELSE "cancel", !.fail = FailStatus(step),
              !.todo = IF step = 9 THEN row.confirmed ELSE row.created]

\* The catch blocks: compensateAfterStep6 and 7 cancel what was created and
\* recorded; 8 refunds first; 9 refunds first and cancels what was confirmed.
Compensate(row, step) ==
  [row EXCEPT !.pc = IF step \in {8, 9} THEN "refund" ELSE "cancel",
              !.todo = IF step = 9 THEN row.confirmed ELSE row.created,
              !.fail = FailStatus(step)]

\* Steps 1 to 3: the cart is refused when it is not ACTIVO or empty, or when a
\* line lacks a provider or what its type of reservation asks for.
ReadCart ==
  /\ co.pc = "cart"
  /\ \/ co' = [co EXCEPT !.pc = "availability"]
     \/ co' = [co EXCEPT !.pc = "done", !.answer = "rejected"]
  /\ UNCHANGED <<dbVars, remoteVars, ca, faultVars>>

\* Step 4: nothing was written yet when the items are not available.
CheckAvailability ==
  /\ co.pc = "availability"
  /\ \/ CallSucceeds /\ co' = [co EXCEPT !.pc = "convert"]
     \/ CallSucceeds /\ co' = [co EXCEPT !.pc = "done", !.answer = "unavailable"]
     \/ CallFails(FALSE) /\ co' = [co EXCEPT !.pc = "done", !.answer = "error"]
  /\ UNCHANGED <<dbVars, remoteVars, ca>>

\* Step 5: the cart becomes a reserva in one transaction.
ConvertCart ==
  /\ co.pc = "convert"
  /\ \/ /\ CallSucceeds
        /\ status' = "PENDIENTE"
        /\ co' = [co EXCEPT !.pc = "create"]
     \/ /\ CallFails(FALSE)
        /\ UNCHANGED status
        /\ co' = [co EXCEPT !.pc = "done", !.answer = "error"]
  /\ UNCHANGED <<idExterno, auditoria, remoteVars, ca>>

\* Step 6, the gRPC call.
CreateRemoteReservation ==
  /\ co.pc = "create"
  /\ \/ CallSucceeds /\ CreateRemote(co.k) /\ co' = [co EXCEPT !.pc = "record"]
     \/ AnswerLacksId /\ CreateRemote(co.k) /\ co' = Compensate(co, 6)
     \/ CallFails(FALSE) /\ UNCHANGED remote /\ co' = Compensate(co, 6)
     \/ CallFails(TRUE) /\ CreateRemote(co.k) /\ co' = Compensate(co, 6)
  /\ UNCHANGED <<dbVars, payment, invoice, ca>>

\* Step 6, the update of the detalle.  When the database fails here, the
\* reservation is at the provider and in no list.
RecordRemoteReservation ==
  /\ co.pc = "record"
  /\ \/ /\ CallSucceeds
        /\ idExterno' = idExterno \cup {co.k}
        /\ LET row == [co EXCEPT !.created = @ \cup {co.k}, !.k = @ + 1]
           IN  co' = IF row.k > N THEN [row EXCEPT !.pc = "pay"]
                                  ELSE [row EXCEPT !.pc = "create"]
     \/ /\ CallFails(TRUE)
        /\ UNCHANGED idExterno
        /\ co' = Compensate(co, 6)
  /\ UNCHANGED <<status, auditoria, remoteVars, ca>>

\* Step 7.
ProcessPayment ==
  /\ co.pc = "pay"
  /\ \/ /\ CallSucceeds
        /\ Charge
        /\ co' = [co EXCEPT !.pc = "invoice", !.idPago = TRUE]
     \/ AnswerLacksId /\ Charge /\ co' = [co EXCEPT !.pc = "invoice"]
     \/ CallFails(FALSE) /\ UNCHANGED payment /\ co' = Compensate(co, 7)
     \/ CallFails(TRUE) /\ Charge /\ co' = Compensate(co, 7)
  /\ UNCHANGED <<dbVars, remote, invoice, ca>>

\* Step 8: getIdPago throws before the call when the payment has no id.
IssueInvoice ==
  /\ co.pc = "invoice"
  /\ \/ /\ co.idPago /\ CallSucceeds
        /\ Issue
        /\ co' = [co EXCEPT !.pc = "confirm", !.k = 1]
     \/ co.idPago /\ CallFails(FALSE) /\ UNCHANGED invoice /\ co' = Compensate(co, 8)
     \/ co.idPago /\ CallFails(TRUE) /\ Issue /\ co' = Compensate(co, 8)
     \/ ~co.idPago /\ UNCHANGED <<invoice, faultVars>> /\ co' = Compensate(co, 8)
  /\ UNCHANGED <<dbVars, remote, payment, ca>>

\* Step 9.
ConfirmRemoteReservation ==
  /\ co.pc = "confirm"
  /\ \/ /\ CallSucceeds /\ Confirmable(co.k) /\ ConfirmRemote(co.k)
        /\ LET row == [co EXCEPT !.confirmed = @ \cup {co.k}, !.k = @ + 1]
           IN  co' = IF row.k > N THEN [row EXCEPT !.pc = "finish"] ELSE row
     \/ ~Confirmable(co.k) /\ UNCHANGED <<remote, faultVars>> /\ co' = Compensate(co, 9)
     \/ CallFails(FALSE) /\ UNCHANGED remote /\ co' = Compensate(co, 9)
     \/ Confirmable(co.k) /\ CallFails(TRUE) /\ ConfirmRemote(co.k) /\ co' = Compensate(co, 9)
  /\ UNCHANGED <<dbVars, payment, invoice, ca>>

\* Step 10: updateEstado without looking at the status.  It is outside every
\* try, so a failing database leaves the reserva as it is and answers 500.
ConfirmReserva ==
  /\ co.pc = "finish"
  /\ \/ /\ CallSucceeds
        /\ status' = "CONFIRMADA"
        /\ co' = [co EXCEPT !.pc = "done", !.answer = "ok"]
     \/ /\ CallFails(FALSE)
        /\ UNCHANGED status
        /\ co' = [co EXCEPT !.pc = "done", !.answer = "error"]
  /\ UNCHANGED <<idExterno, auditoria, remoteVars, ca>>

-----------------------------------------------------------------------------
(* Checkout: compensation. *)

\* tryRefundPayment: getIdPago is outside its try, so a payment without an id
\* ends the request there; UNIMPLEMENTED is audited, other errors are logged.
TryRefundPayment ==
  /\ co.pc = "refund"
  /\ \/ /\ ~co.idPago
        /\ co' = [co EXCEPT !.pc = "done", !.answer = "error"]
        /\ UNCHANGED <<auditoria, payment, faultVars>>
     \/ /\ co.idPago
        /\ co' = [co EXCEPT !.pc = "cancel"]
        /\ \/ CallSucceeds /\ Refund /\ UNCHANGED auditoria
           \/ /\ CallSucceeds
              /\ auditoria' = auditoria \cup {"COMPENSATION_PENDING_REFUND"}
              /\ UNCHANGED payment
           \/ CallFails(FALSE) /\ UNCHANGED <<auditoria, payment>>
           \/ CallFails(TRUE) /\ Refund /\ UNCHANGED auditoria
  /\ UNCHANGED <<status, idExterno, remote, invoice, ca>>

\* One round of cancelRemoteReservations: an error is logged and the next
\* reservation follows.
CancelRound(i) ==
  \/ CallSucceeds /\ CancelRemote(i)
  \/ CallFails(FALSE) /\ UNCHANGED remote
  \/ CallFails(TRUE) /\ CancelRemote(i)

CancelCreated ==
  /\ co.pc = "cancel"
  /\ \E i \in co.todo : /\ IsLast(i, co.todo)
                        /\ CancelRound(i)
                        /\ co' = [co EXCEPT !.todo = @ \ {i}]
  /\ UNCHANGED <<dbVars, payment, invoice, ca>>

MarkFailed ==
  /\ co.pc = "cancel" /\ co.todo = {}
  /\ \/ /\ CallSucceeds
        /\ status' = co.fail
        /\ co' = [co EXCEPT !.pc = "done", !.answer = "failed"]
     \/ /\ CallFails(FALSE)
        /\ UNCHANGED status
        /\ co' = [co EXCEPT !.pc = "done", !.answer = "error"]
  /\ UNCHANGED <<idExterno, auditoria, remoteVars, ca>>

-----------------------------------------------------------------------------
(* cancelarMiReservaV1Sync. *)

Goto(c, pc) == ca' = [ca EXCEPT ![c].pc = pc]

CancelRead(c) ==
  /\ ca[c].pc = "idle"
  /\ status # "NONE"
  /\ ca' = [ca EXCEPT ![c] =
              IF status = "CANCELADA"
                THEN [@ EXCEPT !.pc = "done", !.answer = "rejected"]
                ELSE [@ EXCEPT !.pc = "list", !.during = co.pc # "done"]]
  /\ UNCHANGED <<dbVars, remoteVars, co, faultVars>>

\* Mutant: only the reservations that were not confirmed yet.
CancelListUnconfirmed(c) ==
  /\ ca[c].pc = "list"
  /\ ca' = [ca EXCEPT ![c].pc = "cancel",
                      ![c].todo = {i \in idExterno : remote[i] = "created"}]
  /\ UNCHANGED <<dbVars, remoteVars, co, faultVars>>

CancelList(c) ==
  /\ ca[c].pc = "list"
  /\ ca' = [ca EXCEPT ![c].pc = "cancel", ![c].todo = idExterno]
  /\ UNCHANGED <<dbVars, remoteVars, co, faultVars>>

CancelOne(c) ==
  /\ ca[c].pc = "cancel"
  /\ \E i \in ca[c].todo : /\ IsLast(i, ca[c].todo)
                           /\ CancelRound(i)
                           /\ ca' = [ca EXCEPT ![c].todo = @ \ {i}]
  /\ UNCHANGED <<dbVars, payment, invoice, co>>

\* The catch blocks around the refund write an audit row before the request
\* goes on to mark the reserva.
AuditNext(c, kind) == ca' = [ca EXCEPT ![c].pc = "audit", ![c].audit = kind]

\* The answer to the lookup: without a payment there is nothing to refund.
Told(c, answer) ==
  ca' = [ca EXCEPT ![c].pc = IF answer = "null" THEN "mark" ELSE "refund",
                   ![c].unseen = (answer = "null" /\ payment # "none")]

\* Mutant: the catch block only logs.
LookupUnaudited(c) ==
  /\ ca[c].pc = "cancel" /\ ca[c].todo = {}
  /\ \/ CallSucceeds /\ \E answer \in PaymentAnswers : Told(c, answer)
     \/ CallFails(FALSE) /\ Goto(c, "mark")
  /\ UNCHANGED <<dbVars, remoteVars, co>>

LookupPayment(c) ==
  /\ ca[c].pc = "cancel" /\ ca[c].todo = {}
  /\ \/ CallSucceeds /\ \E answer \in PaymentAnswers : Told(c, answer)
     \/ CallFails(FALSE) /\ AuditNext(c, "REFUND_RECONCILIATION_NEEDED")
  /\ UNCHANGED <<dbVars, remoteVars, co>>

\* tryRefundPaymentByData: finanzas may also answer UNIMPLEMENTED.
RefundByData(c) ==
  /\ ca[c].pc = "refund"
  /\ \/ CallSucceeds /\ Refundable /\ Refund /\ Goto(c, "mark")
     \/ CallSucceeds /\ UNCHANGED payment /\ AuditNext(c, "MANUAL_REFUND_REQUIRED")
     \/ /\ AuditNext(c, "REFUND_FAILED")
        /\ \/ ~Refundable /\ UNCHANGED <<payment, faultVars>>
           \/ CallFails(FALSE) /\ UNCHANGED payment
           \/ Refundable /\ CallFails(TRUE) /\ Refund
  /\ UNCHANGED <<dbVars, remote, invoice, co>>

\* auditoriaRepository.create, inside the catch or try of the row that comes
\* next when the database fails; after the last one the request ends in a 500.
WriteAudit(c) ==
  /\ ca[c].pc = "audit"
  /\ \/ /\ CallSucceeds
        /\ auditoria' = auditoria \cup {ca[c].audit}
        /\ Goto(c, "mark")
     \/ /\ CallFails(FALSE)
        /\ UNCHANGED auditoria
        /\ \/ ca[c].audit = "MANUAL_REFUND_REQUIRED" /\ AuditNext(c, "REFUND_FAILED")
           \/ ca[c].audit = "REFUND_FAILED" /\ AuditNext(c, "REFUND_RECONCILIATION_NEEDED")
           \/ /\ ca[c].audit = "REFUND_RECONCILIATION_NEEDED"
              /\ ca' = [ca EXCEPT ![c].pc = "done", ![c].answer = "error"]
  /\ UNCHANGED <<status, idExterno, remoteVars, co>>

MarkCancelled(c) ==
  /\ ca[c].pc = "mark"
  /\ \/ /\ CallSucceeds
        /\ status' = "CANCELADA"
        /\ ca' = [ca EXCEPT ![c].pc = "done", ![c].answer = "ok"]
     \/ /\ CallFails(FALSE)
        /\ UNCHANGED status
        /\ ca' = [ca EXCEPT ![c].pc = "done", ![c].answer = "error"]
  /\ UNCHANGED <<idExterno, auditoria, remoteVars, co>>

\* The process restarts and its requests are gone; nothing resumes them.
Crash ==
  /\ crashes < MaxCrashes
  /\ crashes' = crashes + 1
  /\ co' = IF co.pc = "done" THEN co
           ELSE [co EXCEPT !.pc = "done", !.answer = "connectionLost"]
  /\ ca' = [c \in Cancellers |->
              IF ca[c].pc \in {"idle", "done"} THEN ca[c]
              ELSE [ca[c] EXCEPT !.pc = "done", !.answer = "connectionLost"]]
  /\ UNCHANGED <<dbVars, remoteVars, faults, lost>>

-----------------------------------------------------------------------------

CheckoutStep ==
  \/ ReadCart \/ CheckAvailability \/ ConvertCart
  \/ CreateRemoteReservation \/ RecordRemoteReservation
  \/ ProcessPayment \/ IssueInvoice \/ ConfirmRemoteReservation \/ ConfirmReserva
  \/ TryRefundPayment \/ CancelCreated \/ MarkFailed

CancelStep(c) ==
  \/ CancelRead(c) \/ CancelList(c) \/ CancelOne(c)
  \/ LookupPayment(c) \/ RefundByData(c) \/ WriteAudit(c) \/ MarkCancelled(c)

Next == CheckoutStep \/ (\E c \in Cancellers : CancelStep(c)) \/ Crash

Spec == Init /\ [][Next]_vars

-----------------------------------------------------------------------------
(* Safety. *)

NoCancelBegan == \A c \in Cancellers : ca[c].pc = "idle"

\* A checkout answered as a success left everything in place: every detalle
\* confirmed at its provider under the id we hold, the payment and the invoice.
SuccessIsWhole ==
  co.answer = "ok" /\ NoCancelBegan =>
    /\ status = "CONFIRMADA"
    /\ idExterno = Items /\ \A i \in Items : remote[i] = "confirmed"
    /\ payment = "charged" /\ invoice = "issued"

\* One call that fails without taking effect is undone by the catch block of
\* its step: the money is back or audited and nothing stays confirmed; unless
\* it was a confirmation, no reservation at all stays at a provider.
CleanFailureIsUndone ==
  co.answer = "failed" /\ NoCancelBegan /\ faults = 1 /\ ~lost =>
    /\ payment = "charged" => "COMPENSATION_PENDING_REFUND" \in auditoria
    /\ \A i \in Items : remote[i] # "confirmed"
    /\ status # "FALLIDA_CONFIRMACION" =>
         \A i \in Items : remote[i] \in {"none", "cancelled"}

\* The status of a failed reserva tells how far the checkout got.
FailedStatusIsHonest ==
  /\ status = "FALLIDA_PROVEEDOR" => payment = "none"
  /\ status = "FALLIDA_PAGO" => (payment = "charged" => lost)
  /\ status = "FALLIDA_FACTURACION" => /\ payment # "none"
                                       /\ (invoice = "issued" => lost)
  /\ status = "FALLIDA_CONFIRMACION" => invoice = "issued"

\* After a cancellation that did not overlap the checkout and was told of the
\* payment, the payment is refunded or an audit row asks somebody to do it,
\* whatever calls failed.
CancelAccountsForPayment ==
  \A c \in Cancellers :
    ca[c].answer = "ok" /\ ~ca[c].during /\ ~ca[c].unseen =>
      (payment = "charged" => auditoria # {})

\* And when no call failed, every reservation we have the id of is cancelled,
\* two concurrent requests to cancel included.
CancelReleasesItems ==
  \A c \in Cancellers :
    ca[c].answer = "ok" /\ ~ca[c].during /\ faults = 0 =>
      /\ status = "CANCELADA"
      /\ \A i \in idExterno : remote[i] = "cancelled"

-----------------------------------------------------------------------------
(* Strengthenings that make these inductive; see ReservaV1Proofs. *)

Unpaid == {"cart", "availability", "convert", "create", "record", "pay"}
Running == Unpaid \cup {"invoice", "confirm", "finish"}

\* How far finanzas and the status have got, by the call that is next and by
\* the step that failed.
StagesInOrder ==
  /\ co.answer = "none" <=> co.pc # "done"
  /\ co.pc \in Running => co.fail = "NONE"
  /\ co.pc = "refund" => co.fail \in {"FALLIDA_FACTURACION", "FALLIDA_CONFIRMACION"}
  /\ co.pc = "cancel" => co.fail # "NONE"
  /\ co.pc \in {"cart", "availability", "convert"} => co.k = 1
  /\ co.pc \in {"create", "record", "confirm"} => co.k \in Items
  /\ co.pc \in Unpaid => payment = "none" /\ invoice = "none"
  /\ co.pc = "invoice" => payment # "none" /\ invoice = "none"
  /\ co.pc \in {"confirm", "finish"} => payment # "none" /\ invoice = "issued"
  /\ co.fail = "FALLIDA_PROVEEDOR" => payment = "none"
  /\ co.fail = "FALLIDA_PAGO" => (payment = "charged" => lost)
  /\ co.fail = "FALLIDA_FACTURACION" => payment # "none" /\ (invoice = "issued" => lost)
  /\ co.fail = "FALLIDA_CONFIRMACION" => invoice = "issued"
  /\ status \in Failed => co.pc = "done" /\ co.fail = status

\* Those that have begun after the checkout, and go on or have succeeded.
Late(c) == /\ ~ca[c].during
           /\ ca[c].pc \in {"list", "cancel", "refund", "audit", "mark"} \/ ca[c].answer = "ok"

\* What a late cancellation has done for sure by the call that is next.
CancellerInOrder(c) ==
  /\ ca[c].answer # "none" => ca[c].pc = "done"
  /\ ca[c].pc = "audit" => ca[c].audit # "NONE"
  /\ ca[c].pc \in {"refund", "audit", "mark"} \/ ca[c].answer = "ok" => ca[c].todo = {}
  /\ Late(c) =>
       /\ co.pc = "done"
       /\ faults = 0 /\ ca[c].pc # "list" =>
            \A i \in idExterno \ ca[c].todo : remote[i] = "cancelled"
       /\ (ca[c].pc = "mark" \/ ca[c].answer = "ok") /\ ~ca[c].unseen =>
            (payment = "charged" => auditoria # {})
       /\ ca[c].answer = "ok" => status = "CANCELADA"

CancellersInOrder == \A c \in Cancellers : CancellerInOrder(c)

\* The lists of the checkout and the reservations at the providers, as long as
\* nobody cancels.
ItemsInOrder ==
  NoCancelBegan =>
    /\ co.pc \in {"cart", "availability", "convert"} =>
         /\ co.k = 1 /\ co.created = {} /\ idExterno = {} /\ co.confirmed = {}
         /\ \A i \in Items : remote[i] = "none"
    /\ co.pc \in {"create", "record"} =>
         /\ co.k \in Items /\ co.confirmed = {}
         /\ co.created = {i \in Items : i < co.k} /\ idExterno = co.created
         /\ \A i \in Items : remote[i] = IF i < co.k \/ (i = co.k /\ co.pc = "record")
                                         THEN "created" ELSE "none"
    /\ co.pc \in {"pay", "invoice"} =>
         /\ co.created = Items /\ idExterno = Items /\ co.confirmed = {}
         /\ \A i \in Items : remote[i] = "created"
    /\ co.pc \in {"invoice", "confirm", "finish"} => payment = "charged"
    /\ co.pc = "confirm" =>
         /\ co.k \in Items /\ idExterno = Items
         /\ co.confirmed = {i \in Items : i < co.k}
         /\ \A i \in Items : remote[i] = IF i < co.k THEN "confirmed" ELSE "created"
    /\ co.pc = "finish" => idExterno = Items /\ \A i \in Items : remote[i] = "confirmed"
    /\ co.answer = "ok" =>
         /\ status = "CONFIRMADA" /\ payment = "charged" /\ invoice = "issued"
         /\ idExterno = Items /\ \A i \in Items : remote[i] = "confirmed"

\* Up to the first failing call nothing has failed; if it was the only one and
\* had no effect, what is not on the list of the compensation is undone.
FaultsInOrder ==
  NoCancelBegan /\ ~lost =>
    /\ co.pc \in Running => faults = 0
    /\ co.pc \in {"invoice", "confirm", "finish", "refund"} => co.idPago
    /\ co.pc \in {"refund", "cancel"} => faults >= 1
    /\ co.answer = "failed" => co.todo = {} /\ status = co.fail
    /\ faults = 1 /\ (co.pc \in {"refund", "cancel"} \/ co.answer = "failed") =>
         /\ \A i \in Items \ co.todo : remote[i] # "confirmed"
         /\ co.fail # "FALLIDA_CONFIRMACION" =>
              \A i \in Items \ co.todo : remote[i] \in {"none", "cancelled"}
         /\ co.pc # "refund" /\ payment = "charged" =>
              "COMPENSATION_PENDING_REFUND" \in auditoria

IInv == TypeOK /\ StagesInOrder /\ CancellersInOrder /\ ItemsInOrder /\ FaultsInOrder

-----------------------------------------------------------------------------
(* What a comment or a message of the repository says and the code does not do. *)

\* ReservasController answers "Reserva cancelada exitosamente".
CancelSuccessHolds ==
  \A c \in Cancellers : ca[c].answer = "ok" => status = "CANCELADA"
=============================================================================
