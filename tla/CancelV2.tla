------------------------------ MODULE CancelV2 ------------------------------
(***************************************************************************)
(* The V2 cancellation of one reserva whose checkout has ended.  Each      *)
(* request deletes the saga row, creates one of its own (reserva_id is     *)
(* UNIQUE) with a cancel command per detalle, and polls the row until the  *)
(* consumers have counted an answer per detalle.  Requests run             *)
(* concurrently, and a client told 504 sends another one.                  *)
(***************************************************************************)
EXTENDS Naturals, FiniteSets

CONSTANTS Items,            \* the detalles of the reserva
          Requests,         \* DELETE requests; each names the saga it creates
          CheckoutSagaId,   \* the saga of the checkout
          NoSaga,           \* no saga row
          Handlers,         \* consumer invocations that can be in flight
          NoJob,
          RefundReports,    \* bound: what finanzas may report of a refund, once
          MaxRedeliveries,  \* bound: copies of an event beyond the first
          MaxCrashes        \* bound: restarts of the process

ASSUME ItemsAssumption == IsFiniteSet(Items) /\ IsFiniteSet(Requests)
ASSUME IdsAssumption == CheckoutSagaId \notin Requests
ASSUME RefundsAssumption == RefundReports \subseteq {"refunded", "refund_failed"}
ASSUME BoundsAssumption == MaxRedeliveries \in Nat /\ MaxCrashes \in Nat

\* A command and its answer share an id: the request and the item.
Cancel(r, i) == [type |-> "cancel", saga |-> r, item |-> i]
Cancels == {Cancel(r, i) : r \in Requests, i \in Items}

SagaIds == Requests \cup {CheckoutSagaId}

SagaRow == [id : SagaIds, total_items : Nat, items_cancelled : Nat,
            step : {"COMPLETED", "COMPENSATING", "FAILED"},
            last_error : {"none", "MANUAL_INTERVENTION_NEEDED", "SAGA_TIMEOUT",
                          "REFUND_RECONCILIATION_NEEDED"}]

Job == [ev : Cancels, saga : SagaIds]

Answered == {"ok", "rejected", "error500", "gatewayTimeout", "connectionLost"}

HttpState == {"request", "list", "direct", "clean", "create", "waiting", "mark"}
             \cup Answered

VARIABLES reserva,    \* reservas.status
          idExterno,  \* the items whose detalle has id_externo
          saga,       \* the saga_state row of the reserva
          inbox,      \* processed_messages
          outbox,     \* the messages published
          outcome,    \* what integracion answered to each command
          queue,      \* events RabbitMQ has ready for this service
          job,        \* the invocation each handler is running
          cron,       \* the saga the timeout cron found stale
          http,       \* where each request is
          cancellables, \* the detalles with id_externo, as each request read them
          refund,     \* the refund event this service has processed
          redeliveries, crashes

vars == <<reserva, idExterno, saga, inbox, outbox, outcome, queue, job, cron,
          http, cancellables, refund, redeliveries, crashes>>

consumerVars == <<inbox, queue, job>>
boundVars == <<redeliveries, crashes>>
readVars == <<cancellables, refund>>

\* Everything but reservas.status, which a checkout writes too.
StateOK ==
  /\ idExterno \subseteq Items
  /\ saga \in SagaRow \cup {NoSaga}
  /\ inbox \subseteq Cancels
  /\ outbox \subseteq Cancels
  /\ outcome \in [Cancels -> {"none", "ok", "failed"}]
  /\ queue \subseteq Cancels
  /\ job \in [Handlers -> Job \cup {NoJob}]
  /\ cron \in SagaIds \cup {NoSaga}
  /\ http \in [Requests -> HttpState]
  /\ cancellables \in [Requests -> SUBSET Items]
  /\ refund \in RefundReports \cup {"none"}
  /\ redeliveries \in 0..MaxRedeliveries
  /\ crashes \in 0..MaxCrashes

TypeOK == StateOK /\ reserva \in {"CONFIRMADA", "PENDIENTE", "FALLIDA_PROVEEDOR",
                                  "CANCELADA"}

CheckoutSaga(step) ==
  [id |-> CheckoutSagaId, total_items |-> Cardinality(Items), items_cancelled |-> 0,
   step |-> step, last_error |-> "none"]

\* The checkout succeeded, by V1 or V2, with every external id stored; or V2
\* failed and left the reserva PENDIENTE; or V1 failed (one status stands for
\* the four) and left no saga.
Init ==
  /\ idExterno \in SUBSET Items
  /\ \/ /\ reserva = "CONFIRMADA" /\ idExterno = Items
        /\ saga \in {NoSaga, CheckoutSaga("COMPLETED")}
     \/ reserva = "PENDIENTE" /\ saga = CheckoutSaga("FAILED")
     \/ reserva = "FALLIDA_PROVEEDOR" /\ saga = NoSaga
  /\ inbox = {} /\ outbox = {} /\ queue = {}
  /\ outcome = [c \in Cancels |-> "none"]
  /\ job = [h \in Handlers |-> NoJob]
  /\ cron = NoSaga
  /\ http = [r \in Requests |-> "request"]
  /\ cancellables = [r \in Requests |-> {}]
  /\ refund = "none"
  /\ redeliveries = 0 /\ crashes = 0

RowExists(id) == saga # NoSaga /\ saga.id = id

-----------------------------------------------------------------------------
(* CancelV2Service.execute. *)

Goto(r, pc) == http' = [http EXCEPT ![r] = pc]

\* The status check.
ReadReserva(r) ==
  /\ http[r] = "request"
  /\ Goto(r, IF reserva = "CANCELADA" THEN "rejected" ELSE "list")
  /\ UNCHANGED <<reserva, idExterno, saga, consumerVars, outbox, outcome, cron,
                 readVars, boundVars>>

\* The detalles with an external id; with none, the reserva is closed at once.
ListCancellables(r) ==
  /\ http[r] = "list"
  /\ Goto(r, IF idExterno = {} THEN "direct" ELSE "clean")
  /\ cancellables' = [cancellables EXCEPT ![r] = idExterno]
  /\ UNCHANGED <<reserva, idExterno, saga, consumerVars, outbox, outcome, cron,
                 refund, boundVars>>

\* Mutant: a status the rest of the code does not know.
MarkMisspelled(r) ==
  /\ http[r] \in {"direct", "mark"}
  /\ Goto(r, "ok")
  /\ reserva' = "CANCELED"
  /\ UNCHANGED <<idExterno, saga, consumerVars, outbox, outcome, cron, readVars,
                 boundVars>>

\* updateEstado(CANCELADA), with nothing to cancel or after the wait.
MarkCancelled(r) ==
  /\ http[r] \in {"direct", "mark"}
  /\ Goto(r, "ok")
  /\ reserva' = "CANCELADA"
  /\ UNCHANGED <<idExterno, saga, consumerVars, outbox, outcome, cron, readVars,
                 boundVars>>

\* deleteMany, a statement of its own.
CleanSaga(r) ==
  /\ http[r] = "clean"
  /\ Goto(r, "create")
  /\ saga' = NoSaga
  /\ UNCHANGED <<reserva, idExterno, consumerVars, outbox, outcome, cron, readVars,
                 boundVars>>

\* One transaction: the row and a cancel command per cancellable detalle.
CreateSaga(r) ==
  /\ http[r] = "create"
  /\ saga = NoSaga
  /\ Goto(r, "waiting")
  /\ saga' = [id |-> r, total_items |-> Cardinality(cancellables[r]), items_cancelled |-> 0,
              step |-> "COMPENSATING", last_error |-> "none"]
  /\ outbox' = outbox \cup {Cancel(r, i) : i \in cancellables[r]}
  /\ UNCHANGED <<reserva, idExterno, consumerVars, outcome, cron, readVars, boundVars>>

\* Another request holds the row, a provider is gone, or the database fails:
\* the transaction rolls back and the deletion before it stays.
CreateSagaFails(r) ==
  /\ http[r] = "create"
  /\ Goto(r, "error500")
  /\ UNCHANGED <<reserva, idExterno, saga, consumerVars, outbox, outcome, cron,
                 readVars, boundVars>>

\* One poll of waitForAllCancelled that ends the wait.
PollCancelled(r) ==
  /\ http[r] = "waiting"
  /\ \/ ~RowExists(r) /\ Goto(r, "gatewayTimeout")
     \/ /\ RowExists(r) /\ saga.items_cancelled >= saga.total_items
        /\ Goto(r, "mark")
     \/ /\ RowExists(r) /\ saga.items_cancelled < saga.total_items
        /\ saga.step = "FAILED"
        /\ Goto(r, "gatewayTimeout")
  /\ UNCHANGED <<reserva, idExterno, saga, consumerVars, outbox, outcome, cron,
                 readVars, boundVars>>

\* Mutant: the deadline is tested only once the saga failed.
WaitForEver(r) ==
  /\ http[r] = "waiting"
  /\ saga # NoSaga /\ saga.step = "FAILED"
  /\ Goto(r, "gatewayTimeout")
  /\ UNCHANGED <<reserva, idExterno, saga, consumerVars, outbox, outcome, cron,
                 readVars, boundVars>>

WaitTimesOut(r) ==
  /\ http[r] = "waiting"
  /\ Goto(r, "gatewayTimeout")
  /\ UNCHANGED <<reserva, idExterno, saga, consumerVars, outbox, outcome, cron,
                 readVars, boundVars>>

-----------------------------------------------------------------------------
(* integracion, modelled from the commands and events it exchanges. *)

ServiceAnswers(c, out) ==
  /\ c \in outbox
  /\ outcome[c] = "none"
  /\ outcome' = [outcome EXCEPT ![c] = out]
  /\ queue' = queue \cup {c}
  /\ UNCHANGED <<reserva, idExterno, saga, inbox, outbox, job, cron, http, readVars,
                 boundVars>>

Redeliver(c) ==
  /\ redeliveries < MaxRedeliveries
  /\ outcome[c] # "none"
  /\ c \notin queue
  /\ queue' = queue \cup {c}
  /\ redeliveries' = redeliveries + 1
  /\ UNCHANGED <<reserva, idExterno, saga, inbox, outbox, outcome, job, cron, http,
                 readVars, crashes>>

-----------------------------------------------------------------------------
(* IntegrationCancelledConsumer and IntegrationCancelFailedConsumer. *)

\* Mutant: an event without a saga row is requeued.
AckDuplicate(c) ==
  /\ c \in queue
  /\ c \in inbox
  /\ queue' = queue \ {c}
  /\ UNCHANGED <<reserva, idExterno, saga, inbox, outbox, outcome, job, cron, http,
                 readVars, boundVars>>

\* Already processed, or no saga row at the moment: acked and forgotten.
AckUnhandled(c) ==
  /\ c \in queue
  /\ c \in inbox \/ saga = NoSaga
  /\ queue' = queue \ {c}
  /\ UNCHANGED <<reserva, idExterno, saga, inbox, outbox, outcome, job, cron, http,
                 readVars, boundVars>>

\* findByReservaId: whichever saga the reserva has now, not the sender's.
Take(h, c) ==
  /\ job[h] = NoJob
  /\ c \in queue
  /\ c \notin inbox
  /\ saga # NoSaga
  /\ queue' = queue \ {c}
  /\ job' = [job EXCEPT ![h] = [ev |-> c, saga |-> saga.id]]
  /\ UNCHANGED <<reserva, idExterno, saga, inbox, outbox, outcome, cron, http,
                 readVars, boundVars>>

\* Mutants of Commit: the inbox accepts an event it already holds; a good
\* answer clears last_error.
CommitAgain(h) ==
  /\ job[h] # NoJob
  /\ RowExists(job[h].saga)
  /\ inbox' = inbox \cup {job[h].ev}
  /\ saga' = [saga EXCEPT !.items_cancelled = @ + 1]
  /\ job' = [job EXCEPT ![h] = NoJob]
  /\ UNCHANGED <<reserva, idExterno, outbox, outcome, queue, cron, http, readVars,
                 boundVars>>
CommitClearing(h) ==
  /\ job[h] # NoJob
  /\ job[h].ev \notin inbox
  /\ RowExists(job[h].saga)
  /\ inbox' = inbox \cup {job[h].ev}
  /\ saga' = [saga EXCEPT
       !.items_cancelled = @ + 1,
       !.last_error = IF outcome[job[h].ev] = "failed"
                        THEN "MANUAL_INTERVENTION_NEEDED" ELSE "none"]
  /\ job' = [job EXCEPT ![h] = NoJob]
  /\ UNCHANGED <<reserva, idExterno, outbox, outcome, queue, cron, http, readVars,
                 boundVars>>

\* The transaction: the inbox row, the count and, for a failure, last_error.
Commit(h) ==
  /\ job[h] # NoJob
  /\ job[h].ev \notin inbox
  /\ RowExists(job[h].saga)
  /\ inbox' = inbox \cup {job[h].ev}
  /\ saga' = [saga EXCEPT
       !.items_cancelled = @ + 1,
       !.last_error = IF outcome[job[h].ev] = "failed"
                        THEN "MANUAL_INTERVENTION_NEEDED" ELSE @]
  /\ job' = [job EXCEPT ![h] = NoJob]
  /\ UNCHANGED <<reserva, idExterno, outbox, outcome, queue, cron, http, readVars,
                 boundVars>>

\* The inbox row is there already or the saga row is gone: the transaction
\* throws and the event is requeued.
Rollback(h) ==
  /\ job[h] # NoJob
  /\ job[h].ev \in inbox \/ ~RowExists(job[h].saga)
  /\ queue' = queue \cup {job[h].ev}
  /\ job' = [job EXCEPT ![h] = NoJob]
  /\ UNCHANGED <<reserva, idExterno, saga, inbox, outbox, outcome, cron, http,
                 readVars, boundVars>>

\* What the report of a refund leaves in last_error.
RefundRecord(out) == IF out = "refunded" THEN "none" ELSE "REFUND_RECONCILIATION_NEEDED"

\* PaymentRefundedConsumer and PaymentRefundFailedConsumer, when an operator
\* refunds in finanzas: this service never asks for it.  They write last_error
\* of whichever saga there is; without one the event is acked and forgotten.
RefundReported(out) ==
  /\ refund = "none"
  /\ saga # NoSaga
  /\ refund' = out
  /\ saga' = [saga EXCEPT !.last_error = RefundRecord(out)]
  /\ UNCHANGED <<reserva, idExterno, consumerVars, outbox, outcome, cron, http,
                 cancellables, boundVars>>

-----------------------------------------------------------------------------
(* The cron, and the process as a whole. *)

\* Five times the wait of the request that created the row have passed.
CronScan ==
  /\ cron = NoSaga
  /\ saga # NoSaga
  /\ saga.step = "COMPENSATING"
  /\ http[saga.id] # "waiting"
  /\ cron' = saga.id
  /\ UNCHANGED <<reserva, idExterno, saga, consumerVars, outbox, outcome, http,
                 readVars, boundVars>>

\* failTx by id; an error (the row is gone) is caught and logged.
CronFail ==
  /\ cron # NoSaga
  /\ cron' = NoSaga
  /\ saga' = IF RowExists(cron)
               THEN [saga EXCEPT !.step = "FAILED", !.last_error = "SAGA_TIMEOUT"]
               ELSE saga
  /\ UNCHANGED <<reserva, idExterno, consumerVars, outbox, outcome, http, readVars,
                 boundVars>>

Crash ==
  /\ crashes < MaxCrashes
  /\ crashes' = crashes + 1
  /\ queue' = queue \cup {job[h].ev : h \in {g \in Handlers : job[g] # NoJob}}
  /\ job' = [h \in Handlers |-> NoJob]
  /\ cron' = NoSaga
  /\ http' = [r \in Requests |->
                IF http[r] \in Answered \cup {"request"} THEN http[r]
                                                         ELSE "connectionLost"]
  /\ UNCHANGED <<reserva, idExterno, saga, inbox, outbox, outcome, readVars, redeliveries>>

HttpStep(r) ==
  \/ ReadReserva(r) \/ ListCancellables(r) \/ MarkCancelled(r) \/ CleanSaga(r)
  \/ CreateSaga(r) \/ CreateSagaFails(r) \/ PollCancelled(r) \/ WaitTimesOut(r)

Receive(c) == AckUnhandled(c) \/ \E h \in Handlers : Take(h, c)

HandlerStep(h) == Commit(h) \/ Rollback(h)

Next == \/ \E r \in Requests : HttpStep(r)
        \/ \E c \in Cancels : \E out \in {"ok", "failed"} : ServiceAnswers(c, out)
        \/ \E c \in Cancels : Redeliver(c) \/ Receive(c)
        \/ \E h \in Handlers : HandlerStep(h)
        \/ \E out \in RefundReports : RefundReported(out)
        \/ CronScan
        \/ CronFail
        \/ Crash

Spec == Init /\ [][Next]_vars

-----------------------------------------------------------------------------
(* Safety. *)

\* However requests, answers, redeliveries and restarts interleave, a reserva
\* is CANCELADA only after as many different answers as it has detalles to
\* cancel: no answer is counted twice, not even towards two sagas.
CancelledNeedsAnswers ==
  reserva = "CANCELADA" => Cardinality(inbox) >= Cardinality(idExterno)

\* No request but r was ever made.
OnlyRequest(r) == \A q \in Requests \ {r} : http[q] = "request"

\* With a single request, CANCELADA means that every detalle was answered.
CancelledIsWhole ==
  \A r \in Requests :
    OnlyRequest(r) /\ reserva = "CANCELADA" =>
      \A i \in idExterno : Cancel(r, i) \in inbox

\* r has waited for its row and does so no more.
WaitOver(r) == http[r] \notin {"request", "list", "direct", "clean", "create", "waiting"}

\* With a single request, the failure of one cancellation stays on record while
\* later answers are counted.  Two others write over it: the cron, which fails
\* the row with its own message but only once the request waits no more, and
\* the report of a refund.
FailureIsOnRecord ==
  \A r \in Requests :
    OnlyRequest(r) /\ RowExists(r) /\ (\E c \in inbox : outcome[c] = "failed") =>
      \/ saga.last_error = "MANUAL_INTERVENTION_NEEDED"
      \/ saga.last_error = "SAGA_TIMEOUT" /\ saga.step = "FAILED" /\ WaitOver(r)
      \/ refund # "none" /\ saga.last_error = RefundRecord(refund)

-----------------------------------------------------------------------------
\* What the cron relies on: the row it found, and the one it failed, is of a
\* request that waits no more.  Part of the inductive invariants.
TimeoutIsLate ==
  \A r \in Requests :
    /\ cron # NoSaga /\ cron = r => WaitOver(r)
    /\ RowExists(r) => WaitOver(r) \/ (http[r] = "waiting" /\ saga.step # "FAILED")
=============================================================================
