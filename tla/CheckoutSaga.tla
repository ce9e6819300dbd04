---------------------------- MODULE CheckoutSaga ----------------------------
(***************************************************************************)
(* The V2 checkout of one cart: the HTTP handler that creates the reserva  *)
(* and its saga row, the consumers that move the saga when the answers of  *)
(* integracion and finanzas arrive, and the cron that fails stale sagas.   *)
(*                                                                         *)
(* A consumer runs in two steps: it reads (isProcessed, the saga row, the  *)
(* detalles) outside any transaction, and later commits one transaction    *)
(* that inserts the inbox row first.  Between the two, any other handler,  *)
(* the cron or the HTTP handler may run, so the row it read may be stale.  *)
(***************************************************************************)
EXTENDS Naturals, FiniteSets

CONSTANTS Items,            \* the detalles of the reserva
          NoItem,           \* the "item" of a command about the whole reserva
          Handlers,         \* consumer invocations that can be in flight at once
          NoJob,            \* an idle handler
          MaxRedeliveries,  \* bound: copies of an event beyond the first
          MaxCrashes        \* bound: restarts of the process

ASSUME ItemsAssumption == IsFiniteSet(Items) /\ Items # {} /\ NoItem \notin Items

ASSUME BoundsAssumption == MaxRedeliveries \in Nat /\ MaxCrashes \in Nat

Total == Cardinality(Items)

-----------------------------------------------------------------------------
(* What goes through the outbox, and what comes back. *)

Create(i)  == [type |-> "create",  item |-> i]
Confirm(i) == [type |-> "confirm", item |-> i]
Cancel(i)  == [type |-> "cancel",  item |-> i]
Payment    == [type |-> "payment", item |-> NoItem]
Refund     == [type |-> "refund",  item |-> NoItem]
Invoice    == [type |-> "invoice", item |-> NoItem]
SagaCompleted == [type |-> "sagaCompleted", item |-> NoItem]

\* The commands a checkout publishes and another service answers.
Commands == {Create(i) : i \in Items} \cup {Confirm(i) : i \in Items}
            \cup {Payment, Invoice}

Messages == Commands \cup {Cancel(i) : i \in Items} \cup {Refund, SagaCompleted}

\* integracion may report a reservation as created and give no external id.
Outcomes(c) == IF c.type = "create" THEN {"ok", "okWithoutId", "failed"}
                                    ELSE {"ok", "failed"}

Event == [cmd : Commands, out : {"ok", "okWithoutId", "failed"}]

-----------------------------------------------------------------------------
(* The saga row. *)

NoRow == "NO_ROW"

TerminalSteps == {"COMPLETED", "COMPENSATED", "FAILED"}

SagaStep == {"CREATING_REMOTE_RESERVATIONS", "PROCESSING_PAYMENT",
             "ISSUING_INVOICE", "CONFIRMING_REMOTE_RESERVATIONS",
             "COMPENSATING"} \cup TerminalSteps

SagaRow == [step : SagaStep \cup {NoRow}, items_created : Nat,
            items_confirmed : Nat, payable : BOOLEAN, payment_id : BOOLEAN,
            invoice_id : BOOLEAN, invoiceInContext : BOOLEAN]

Job == [ev : Event, step : SagaStep \cup {NoRow}, ext : SUBSET Items]

HttpState == {"request", "converted", "waiting", "sawCompleted", "ok",
              "error500", "badGateway", "gatewayTimeout", "connectionLost"}

VARIABLES reserva,      \* reservas.status
          saga,         \* the saga_state row of the reserva
          idExterno,    \* the items whose detalle has id_externo
          inbox,        \* processed_messages
          outbox,       \* how many event_outbox rows hold each message
          outcome,      \* what the other services answered to each command
          queue,        \* events RabbitMQ has ready for this service
          job,          \* the invocation each handler is running
          cron,         \* has the timeout cron read the saga as stale?
          http,         \* where the request of the client is
          redeliveries, crashes

vars == <<reserva, saga, idExterno, inbox, outbox, outcome, queue, job, cron,
          http, redeliveries, crashes>>

consumerVars == <<inbox, queue, job>>
boundVars == <<redeliveries, crashes>>

\* Everything but reservas.status, which a cancellation writes too.
StateOK ==
  /\ saga \in SagaRow
  /\ idExterno \subseteq Items
  /\ inbox \subseteq Event
  /\ outbox \in [Messages -> Nat]
  /\ outcome \in [Commands -> {"none", "ok", "okWithoutId", "failed"}]
  /\ queue \subseteq Event
  /\ job \in [Handlers -> Job \cup {NoJob}]
  /\ cron \in {"idle", "stale"}
  /\ http \in HttpState
  /\ redeliveries \in 0..MaxRedeliveries
  /\ crashes \in 0..MaxCrashes

TypeOK == StateOK /\ reserva \in {"NONE", "PENDIENTE", "CONFIRMADA", "FALLIDA_PROVEEDOR"}

Init ==
  /\ reserva = "NONE"
  /\ saga = [step |-> NoRow, items_created |-> 0, items_confirmed |-> 0,
             payable |-> FALSE, payment_id |-> FALSE, invoice_id |-> FALSE,
             invoiceInContext |-> FALSE]
  /\ idExterno = {}
  /\ inbox = {}
  /\ outbox = [m \in Messages |-> 0]
  /\ outcome = [c \in Commands |-> "none"]
  /\ queue = {}
  /\ job = [h \in Handlers |-> NoJob]
  /\ cron = "idle"
  /\ http = "request"
  /\ redeliveries = 0
  /\ crashes = 0

\* OutboxService.save inside the transaction of the caller.
Publish(ms) == outbox' = [m \in Messages |-> IF m \in ms THEN outbox[m] + 1
                                                         ELSE outbox[m]]

\* Mutant of Advance: the WHERE forgets current_step.
AdvanceUnguarded(row, from, patched) == patched

\* SagaService.advanceTx: UPDATE ... WHERE current_step = from.  No caller
\* looks at the boolean it returns.
Advance(row, from, patched) == IF row.step = from THEN patched ELSE row

\* Mutants of Fail: a status of reservas, and a step that is not terminal.
FailWithStatus(row) == [row EXCEPT !.step = "FALLIDA_PROVEEDOR"]
FailToCompensating(row) == [row EXCEPT !.step = "COMPENSATING"]

\* SagaService.failTx: no guard on the step.
Fail(row) == [row EXCEPT !.step = "FAILED"]

-----------------------------------------------------------------------------
(* The HTTP handler, CheckoutV2Service.execute. *)

\* The cart is valid and becomes a reserva, in a transaction of its own.
ConvertCart ==
  /\ http = "request"
  /\ http' = "converted"
  /\ reserva' = "PENDIENTE"
  /\ UNCHANGED <<saga, idExterno, consumerVars, outbox, outcome, cron, boundVars>>

\* One transaction: the saga row and one create command per detalle.  payable
\* is what the consumer of the last created event will ask of saga.context:
\* monto is not 0 and metodoPagoId is not empty.
CreateSaga(payable) ==
  /\ http = "converted"
  /\ http' = "waiting"
  /\ saga' = [saga EXCEPT !.step = "CREATING_REMOTE_RESERVATIONS",
                          !.payable = payable]
  /\ Publish({Create(i) : i \in Items})
  /\ UNCHANGED <<reserva, idExterno, consumerVars, outcome, cron, boundVars>>

\* A provider that maps to no ProviderType or incomplete metadata: the
\* transaction rolls back and the cart is already gone.
CreateSagaFails ==
  /\ http = "converted"
  /\ http' = "error500"
  /\ reserva' = "FALLIDA_PROVEEDOR"
  /\ UNCHANGED <<saga, idExterno, consumerVars, outbox, outcome, cron, boundVars>>

\* One poll of waitForTerminalState that finds a terminal step.
PollTerminal ==
  /\ http = "waiting"
  /\ saga.step \in TerminalSteps
  /\ http' = IF saga.step = "COMPLETED" THEN "sawCompleted" ELSE "badGateway"
  /\ UNCHANGED <<reserva, saga, idExterno, consumerVars, outbox, outcome, cron,
                 boundVars>>

\* The deadline passes between two polls, whatever the step is by then.
WaitTimesOut ==
  /\ http = "waiting"
  /\ http' = "gatewayTimeout"
  /\ UNCHANGED <<reserva, saga, idExterno, consumerVars, outbox, outcome, cron,
                 boundVars>>

\* updateEstado(CONFIRMADA) and the answer.
AnswerSuccess ==
  /\ http = "sawCompleted"
  /\ http' = "ok"
  /\ reserva' = "CONFIRMADA"
  /\ UNCHANGED <<saga, idExterno, consumerVars, outbox, outcome, cron, boundVars>>

-----------------------------------------------------------------------------
(* The other services, modelled from the commands and events they exchange. *)

\* integracion or finanzas takes the command and its event reaches our queue.
ServiceAnswers(c, out) ==
  /\ outbox[c] > 0
  /\ outcome[c] = "none"
  /\ outcome' = [outcome EXCEPT ![c] = out]
  /\ queue' = queue \cup {[cmd |-> c, out |-> out]}
  /\ UNCHANGED <<reserva, saga, idExterno, inbox, outbox, job, cron, http, boundVars>>

\* The event comes again: the sender's outbox repeats it, or RabbitMQ does
\* because the ack was lost.
Redeliver(e) ==
  /\ redeliveries < MaxRedeliveries
  /\ outcome[e.cmd] = e.out
  /\ e \notin queue
  /\ queue' = queue \cup {e}
  /\ redeliveries' = redeliveries + 1
  /\ UNCHANGED <<reserva, saga, idExterno, inbox, outbox, outcome, job, cron, http,
                 crashes>>

-----------------------------------------------------------------------------
(* The consumers: what they read first. *)

\* The step in which the answer to a command of each type is expected.
ExpectedStep(c) ==
  CASE c.type = "create"  -> "CREATING_REMOTE_RESERVATIONS"
    [] c.type = "payment" -> "PROCESSING_PAYMENT"
    [] c.type = "invoice" -> "ISSUING_INVOICE"
    [] c.type = "confirm" -> "CONFIRMING_REMOTE_RESERVATIONS"

\* The consumers of good news return without marking the inbox when the saga
\* is in another step; the one of invoice.issued also when no detalle has an
\* external id.  Those of bad news always go on.
Skips(e) ==
  /\ e.out # "failed"
  /\ \/ saga.step # ExpectedStep(e.cmd)
     \/ e.cmd = Invoice /\ idExterno = {}

\* Mutant: the duplicate is requeued instead of acked.
RequeueDuplicate(e) ==
  /\ e \in queue
  /\ e \in inbox
  /\ UNCHANGED vars

\* isProcessed: the event is acked and nothing else happens.
AckDuplicate(e) ==
  /\ e \in queue
  /\ e \in inbox
  /\ queue' = queue \ {e}
  /\ UNCHANGED <<reserva, saga, idExterno, inbox, outbox, outcome, job, cron, http,
                 boundVars>>

AckSkipped(e) ==
  /\ e \in queue
  /\ e \notin inbox
  /\ Skips(e)
  /\ queue' = queue \ {e}
  /\ UNCHANGED <<reserva, saga, idExterno, inbox, outbox, outcome, job, cron, http,
                 boundVars>>

\* The handler holds the event unacked, with the step and the confirmable
\* detalles as they are now.
Take(h, e) ==
  /\ job[h] = NoJob
  /\ e \in queue
  /\ e \notin inbox
  /\ ~Skips(e)
  /\ queue' = queue \ {e}
  /\ job' = [job EXCEPT ![h] = [ev |-> e, step |-> saga.step, ext |-> idExterno]]
  /\ UNCHANGED <<reserva, saga, idExterno, inbox, outbox, outcome, cron, http,
                 boundVars>>

-----------------------------------------------------------------------------
(* The consumers: the transaction. *)

\* Mutant: the inbox accepts an event it already holds.
CommitsAgain(h, type) ==
  /\ job[h] # NoJob
  /\ job[h].ev.cmd.type = type
  /\ inbox' = inbox \cup {job[h].ev}
  /\ job' = [job EXCEPT ![h] = NoJob]
  /\ UNCHANGED <<reserva, outcome, queue, cron, http, boundVars>>

\* markProcessedTx and the commit; the handler returns and the event is acked.
Commits(h, type) ==
  /\ job[h] # NoJob
  /\ job[h].ev.cmd.type = type
  /\ job[h].ev \notin inbox
  /\ inbox' = inbox \cup {job[h].ev}
  /\ job' = [job EXCEPT ![h] = NoJob]
  /\ UNCHANGED <<reserva, outcome, queue, cron, http, boundVars>>

Succeeded(h) == job[h].ev.out # "failed"

\* IntegrationCreatedConsumer
Created(h) ==
  /\ Commits(h, "create")
  /\ Succeeded(h)
  /\ idExterno' = IF job[h].ev.out = "ok" THEN idExterno \cup {job[h].ev.cmd.item}
                                          ELSE idExterno
  /\ LET row == [saga EXCEPT !.items_created = @ + 1]
     IN  \/ /\ row.items_created < Total
            /\ saga' = row
            /\ UNCHANGED outbox
         \/ /\ row.items_created >= Total
            /\ ~row.payable
            /\ saga' = Fail(row)
            /\ UNCHANGED outbox
         \/ /\ row.items_created >= Total
            /\ row.payable
            /\ Publish({Payment})
            /\ saga' = Advance(row, "CREATING_REMOTE_RESERVATIONS",
                               [row EXCEPT !.step = "PROCESSING_PAYMENT"])

\* PaymentProcessedConsumer
Processed(h) ==
  /\ Commits(h, "payment")
  /\ Succeeded(h)
  /\ Publish({Invoice})
  /\ saga' = Advance(saga, "PROCESSING_PAYMENT",
                     [saga EXCEPT !.step = "ISSUING_INVOICE", !.payment_id = TRUE])
  /\ UNCHANGED idExterno

\* The detalles with an external id, as the handler read them; and the mutant
\* that takes every detalle.
ConfirmEvery(h) == Items
Confirmables(h) == job[h].ext

\* InvoiceIssuedConsumer: one confirm command per detalle it read as
\* confirmable; the invoice goes into saga.context without a guard.
Issued(h) ==
  /\ Commits(h, "invoice")
  /\ Succeeded(h)
  /\ Publish({Confirm(i) : i \in Confirmables(h)})
  /\ LET row == [saga EXCEPT !.invoiceInContext = TRUE]
     IN  saga' = Advance(row, "ISSUING_INVOICE",
                         [row EXCEPT !.step = "CONFIRMING_REMOTE_RESERVATIONS",
                                     !.invoice_id = TRUE])
  /\ UNCHANGED idExterno

\* IntegrationConfirmedConsumer
Confirmed(h) ==
  /\ Commits(h, "confirm")
  /\ Succeeded(h)
  /\ LET row == [saga EXCEPT !.items_confirmed = @ + 1]
     IN  \/ /\ row.items_confirmed < Total
            /\ saga' = row
            /\ UNCHANGED outbox
         \/ /\ row.items_confirmed >= Total
            /\ Publish({SagaCompleted})
            /\ saga' = Advance(row, "CONFIRMING_REMOTE_RESERVATIONS",
                               [row EXCEPT !.step = "COMPLETED"])
  /\ UNCHANGED idExterno

\* What the four consumers of failures share: they advance to COMPENSATING
\* when the row they read was in the step of the command.
Compensate(h, type, step) ==
  /\ Commits(h, type)
  /\ ~Succeeded(h)
  /\ saga' = IF job[h].step = step
               THEN Advance(saga, step, [saga EXCEPT !.step = "COMPENSATING"])
               ELSE saga
  /\ UNCHANGED <<idExterno, outbox>>

CreateFailed(h)  == Compensate(h, "create",  "CREATING_REMOTE_RESERVATIONS")
PaymentFailed(h) == Compensate(h, "payment", "PROCESSING_PAYMENT")
InvoiceFailed(h) == Compensate(h, "invoice", "ISSUING_INVOICE")
ConfirmFailed(h) == Compensate(h, "confirm", "CONFIRMING_REMOTE_RESERVATIONS")

\* Another handler committed the same event first: the UNIQUE inbox row rolls
\* the transaction back, the handler throws and the event is requeued.
Rollback(h) ==
  /\ job[h] # NoJob
  /\ job[h].ev \in inbox
  /\ queue' = queue \cup {job[h].ev}
  /\ job' = [job EXCEPT ![h] = NoJob]
  /\ UNCHANGED <<reserva, saga, idExterno, inbox, outbox, outcome, cron, http,
                 boundVars>>

HandlerStep(h) ==
  \/ Created(h) \/ Processed(h) \/ Issued(h) \/ Confirmed(h)
  \/ CreateFailed(h) \/ PaymentFailed(h) \/ InvoiceFailed(h) \/ ConfirmFailed(h)
  \/ Rollback(h)

-----------------------------------------------------------------------------
(* The cron, and the process as a whole. *)

\* Mutant: a threshold shorter than the wait of the HTTP handler.
CronScanTooSoon ==
  /\ cron = "idle"
  /\ saga.step \in SagaStep \ TerminalSteps
  /\ cron' = "stale"
  /\ UNCHANGED <<reserva, saga, idExterno, consumerVars, outbox, outcome, http,
                 boundVars>>

\* findStaleSagas.  The threshold is five times the wait of the HTTP handler
\* and counts from the last update of the row, so that handler has given up.
CronScan ==
  /\ cron = "idle"
  /\ saga.step \in SagaStep \ TerminalSteps
  /\ http # "waiting"
  /\ cron' = "stale"
  /\ UNCHANGED <<reserva, saga, idExterno, consumerVars, outbox, outcome, http,
                 boundVars>>

\* failTx on the row found, in a transaction of its own.
CronFail ==
  /\ cron = "stale"
  /\ cron' = "idle"
  /\ saga' = Fail(saga)
  /\ UNCHANGED <<reserva, idExterno, consumerVars, outbox, outcome, http, boundVars>>

\* The process restarts: its handlers, the cron run and the request are gone;
\* RabbitMQ gives the unacked events back.
Crash ==
  /\ crashes < MaxCrashes
  /\ crashes' = crashes + 1
  /\ queue' = queue \cup {job[h].ev : h \in {g \in Handlers : job[g] # NoJob}}
  /\ job' = [h \in Handlers |-> NoJob]
  /\ cron' = "idle"
  /\ http' = IF http \in {"request", "converted", "waiting", "sawCompleted"}
               THEN "connectionLost" ELSE http
  /\ UNCHANGED <<reserva, saga, idExterno, inbox, outbox, outcome, redeliveries>>

HttpStep == \/ ConvertCart
            \/ \E payable \in BOOLEAN : CreateSaga(payable)
            \/ CreateSagaFails
            \/ PollTerminal
            \/ WaitTimesOut
            \/ AnswerSuccess

Receive(e) == \/ AckDuplicate(e)
              \/ AckSkipped(e)
              \/ \E h \in Handlers : Take(h, e)

Next == \/ HttpStep
        \/ \E c \in Commands : \E out \in Outcomes(c) : ServiceAnswers(c, out)
        \/ \E e \in Event : Redeliver(e) \/ Receive(e)
        \/ \E h \in Handlers : HandlerStep(h)
        \/ CronScan
        \/ CronFail
        \/ Crash

Spec == Init /\ [][Next]_vars

\* The process runs: its request, its consumers and its cron are never starved.
\* Nothing is asked of the other services, which may never answer.
FairSpec == /\ Spec
            /\ WF_vars(HttpStep)
            /\ \A e \in Event : WF_vars(Receive(e))
            /\ \A h \in Handlers : WF_vars(HandlerStep(h))
            /\ WF_vars(CronScan)
            /\ WF_vars(CronFail)
-----------------------------------------------------------------------------
(* Safety. *)

Accepted(c) == \E e \in inbox : e.cmd = c /\ e.out # "failed"
ItemsCreated   == {i \in Items : Accepted(Create(i))}
ItemsConfirmed == {i \in Items : Accepted(Confirm(i))}

\* No interleaving of handlers, redelivery or restart makes the saga publish a
\* command twice: the customer is charged and invoiced at most once.
PublishedOnce == \A m \in Messages : outbox[m] <= 1

\* The items_* counters, incremented without a guard on the step, are exactly
\* the good answers the inbox remembers.
CountersMatchInbox ==
  /\ saga.items_created = Cardinality(ItemsCreated)
  /\ saga.items_confirmed = Cardinality(ItemsConfirmed)

\* The payment is asked for only when every item was created remotely.
PaymentAfterAllCreated == outbox[Payment] > 0 => ItemsCreated = Items

\* An item is confirmed at its provider only with an external id, and only
\* once the reserva is paid and invoiced.
ConfirmOnlyPaidAndInvoiced ==
  \A i \in Items : outbox[Confirm(i)] > 0 =>
    i \in idExterno /\ Accepted(Payment) /\ Accepted(Invoice)

\* A COMPLETED saga has every item confirmed under its external id and has
\* kept both the payment and the invoice, the one in saga.context included.
CompletedIsWhole ==
  saga.step = "COMPLETED" =>
    /\ ItemsConfirmed = Items
    /\ idExterno = Items
    /\ saga.payment_id /\ saga.invoice_id /\ saga.invoiceInContext

\* A client told the checkout succeeded has a completed saga and, from then
\* on, a CONFIRMADA reserva: the cron cannot take it back.
SuccessIsReal ==
  http = "ok" => saga.step = "COMPLETED" /\ reserva = "CONFIRMADA"

\* A client told 502 was never charged, not even by a handler that commits
\* after the answer.
BadGatewayNeverCharged == http = "badGateway" => outbox[Payment] = 0

\* A saga that began to fail is not resurrected by a late good answer whose
\* handler read the row before it failed.
FailureIsNotUndone ==
  [][saga.step \in {"COMPENSATING", "FAILED"} =>
       saga'.step \in {"COMPENSATING", "FAILED"}]_vars

\* The detailed checkout implements what is promised of it.
Promise == INSTANCE CheckoutPromise WITH
  created <- ItemsCreated, ids <- idExterno,
  charges <- outbox[Payment], paid <- Accepted(Payment),
  invoices <- outbox[Invoice], invoiced <- Accepted(Invoice),
  confirms <- [i \in Items |-> outbox[Confirm(i)]], confirmed <- ItemsConfirmed,
  told <- IF http \in {"ok", "badGateway"} THEN http ELSE "nothing"
ImplementsPromise == Promise!Spec

-----------------------------------------------------------------------------
(* The inductive invariant the proofs of CheckoutSagaProofs rest on. *)

\* Every event known to this service is the one answer to its command, so two
\* different events of one command are never both accepted.
EventsAreAnswers ==
  /\ \A e \in inbox \cup queue : outcome[e.cmd] = e.out
  /\ \A h \in Handlers :
       job[h] # NoJob => outcome[job[h].ev.cmd] = job[h].ev.out

\* Each message is published at most once, and only by the commit that marks
\* the last good answer its stage waits for: whoever could publish it again
\* would have to mark that answer again.
StagesInOrder ==
  /\ \A i \in Items : /\ outbox[Create(i)] <= 1
                      /\ http \in {"request", "converted"} => outbox[Create(i)] = 0
                      /\ outbox[Cancel(i)] = 0
  /\ outbox[Payment] <= 1 /\ (outbox[Payment] > 0 => ItemsCreated = Items)
  /\ outbox[Invoice] <= 1 /\ (outbox[Invoice] > 0 => Accepted(Payment))
  /\ \A i \in Items : /\ outbox[Confirm(i)] <= 1
                      /\ outbox[Confirm(i)] > 0 => Accepted(Invoice)
  /\ outbox[SagaCompleted] <= 1
  /\ outbox[SagaCompleted] > 0 => ItemsConfirmed = Items
  /\ outbox[Refund] = 0

\* What holds even when somebody deletes the row of the saga.
Orderly == StateOK /\ EventsAreAnswers /\ StagesInOrder

IInv == Orderly /\ CountersMatchInbox

\* Nothing is answered that was not asked.
AnswersWereAsked == \A c \in Commands : outcome[c] # "none" => outbox[c] > 0

\* An external id comes with a creation, a handler read no id that is not there
\* any more, and only items with one are confirmed.
IdsInOrder ==
  /\ idExterno \subseteq ItemsCreated
  /\ \A h \in Handlers : job[h] # NoJob => job[h].ext \subseteq idExterno
  /\ \A i \in Items : outbox[Confirm(i)] > 0 => i \in idExterno

\* What the row has kept by the step it is in.
RowInOrder ==
  /\ saga.step # "COMPENSATED"
  /\ saga.step \in {"ISSUING_INVOICE", "CONFIRMING_REMOTE_RESERVATIONS", "COMPLETED"}
       => saga.payment_id
  /\ saga.step \in {"CONFIRMING_REMOTE_RESERVATIONS", "COMPLETED"}
       => saga.invoice_id /\ saga.invoiceInContext
  /\ saga.step = "COMPLETED" => ItemsConfirmed = Items

\* The cron stays away until the request has given up; until then a saga only
\* fails for want of anything to pay, and one that completed stays so.
RequestInOrder ==
  /\ http \in {"request", "converted"} => saga.step = NoRow
  /\ http \in {"request", "converted", "waiting"} => cron = "idle"
  /\ http \in {"sawCompleted", "ok"} => saga.step = "COMPLETED" /\ cron = "idle"
  /\ (http = "waiting" /\ saga.step = "FAILED") \/ http = "badGateway" =>
       ItemsCreated = Items /\ outbox[Payment] = 0

SagaInv == IInv /\ AnswersWereAsked /\ IdsInOrder /\ RowInOrder /\ RequestInOrder

\* The reserva of a successful checkout is closed before the client knows.
SuccessOnRecord == http = "ok" => reserva = "CONFIRMADA"

FullInv == SagaInv /\ SuccessOnRecord

-----------------------------------------------------------------------------
(* Liveness, under FairSpec. *)

\* The cron ends every saga the other services leave hanging.
SagaTerminates ==
  saga.step = "CREATING_REMOTE_RESERVATIONS" ~> saga.step \in TerminalSteps

\* No event is requeued for ever: a duplicate that lost the race for the inbox
\* row is acked at the next delivery.
EventsSettle == <>[](queue = {} /\ \A h \in Handlers : job[h] = NoJob)

-----------------------------------------------------------------------------
(* What a comment or a message of the repository says and the code does not do. *)

\* The 504 of the checkout says that GET will give the final result.
ReservaTellsTheResult ==
  (http = "gatewayTimeout" /\ saga.step = "COMPLETED") ~> reserva = "CONFIRMADA"

\* IntegrationConfirmFailedConsumer: "Compensacion: refund + void invoice +
\* cancel items ya confirmados", once a confirmation failed.
CompensationUndoes ==
  \A i \in Items :
    (saga.step = "COMPENSATING" /\ saga.payment_id /\ i \in ItemsConfirmed)
      ~> (outbox[Refund] > 0 /\ outbox[Cancel(i)] > 0)
=============================================================================
