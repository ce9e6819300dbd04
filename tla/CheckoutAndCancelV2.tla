------------------------- MODULE CheckoutAndCancelV2 -------------------------
(***************************************************************************)
(* CheckoutSaga and CancelV2 on one reserva: requests to cancel it arrive  *)
(* while its V2 checkout runs.  They share reservas.status, the detalles   *)
(* and the one saga_state row a reserva can have: a cancellation deletes   *)
(* the row of the checkout, whose request still polls it by id and whose   *)
(* answers still arrive, and puts its own in its place.                    *)
(***************************************************************************)
EXTENDS CheckoutSaga

CONSTANTS Requests, CheckoutSagaId, NoSaga, RefundReports,  \* as in CancelV2
          CancelHandlers  \* its consumer invocations that can be in flight

\* The row of the checkout is in "saga" of CheckoutSaga, with step NoRow when
\* there is none.  "row" is the row of the reserva as the cancellation knows
\* it: the row of a cancellation, or just the id of the checkout's.
VARIABLES row, cInbox, cOutbox, cOutcome, cQueue, cJob, cCron, cHttp, cancellables,
          refund

C == INSTANCE CancelV2 WITH
       Handlers <- CancelHandlers, saga <- row, inbox <- cInbox, outbox <- cOutbox,
       outcome <- cOutcome, queue <- cQueue, job <- cJob, cron <- cCron, http <- cHttp

\* A row is not the absence of a row, and requests have sagas of their own.
ASSUME RowAssumption == NoSaga \notin C!SagaRow
ASSUME RequestsAssumption == CheckoutSagaId \notin Requests
\* A report says something.
ASSUME ReportsAssumption == "none" \notin RefundReports

checkoutVars == <<saga, inbox, outbox, outcome, queue, job, cron, http>>
cancelVars == <<row, cInbox, cOutbox, cOutcome, cQueue, cJob, cCron, cHttp,
                cancellables, refund>>
allVars == <<vars, cancelVars>>

Init2 ==
  /\ Init
  /\ row = NoSaga
  /\ cInbox = {} /\ cOutbox = {} /\ cQueue = {}
  /\ cOutcome = [c \in C!Cancels |-> "none"]
  /\ cJob = [h \in CancelHandlers |-> NoJob]
  /\ cCron = NoSaga
  /\ cHttp = [r \in Requests |-> "request"]
  /\ cancellables = [r \in Requests |-> {}]
  /\ refund = "none"

Present == saga.step # NoRow
Started == http \notin {"request", "converted"}

-----------------------------------------------------------------------------
(* The checkout, now that its row may be gone. *)

StartCheckout(payable) ==
  /\ row = NoSaga
  /\ CreateSaga(payable)
  /\ row' = C!CheckoutSaga("COMPLETED")  \* of this record only the id is read
  /\ UNCHANGED <<cInbox, cOutbox, cOutcome, cQueue, cJob, cCron, cHttp, cancellables,
                 refund>>

\* Mutant: no row is neither FAILED nor COMPENSATED, so it counts as success.
PollGoneIsSuccess ==
  /\ http = "waiting"
  /\ ~Present
  /\ http' = "sawCompleted"
  /\ UNCHANGED <<reserva, saga, idExterno, consumerVars, outbox, outcome, cron,
                 boundVars>>

\* waitForTerminalState finds no row and gives up, as if the time were over.
PollGone ==
  /\ http = "waiting"
  /\ ~Present
  /\ http' = "gatewayTimeout"
  /\ UNCHANGED <<reserva, saga, idExterno, consumerVars, outbox, outcome, cron,
                 boundVars>>

\* Bad news about a reserva without any saga: acked, and not remembered.
AckOrphan(e) ==
  /\ e \in queue
  /\ e \notin inbox
  /\ row = NoSaga /\ e.out = "failed"
  /\ queue' = queue \ {e}
  /\ UNCHANGED <<reserva, saga, idExterno, inbox, outbox, outcome, job, cron, http,
                 boundVars>>

\* findByReservaId finds whichever saga there is.  The row of a cancellation is
\* never in a step that good news waits for; bad news is taken.
ReceiveAny(e) ==
  \/ AckDuplicate(e)
  \/ AckSkipped(e)
  \/ AckOrphan(e)
  \/ row # NoSaga /\ \E h \in Handlers : Take(h, e)

\* Mutant: a row that is gone is updated as if it were there.
UpdatesAnyway(h) == Created(h) \/ Issued(h) \/ Confirmed(h)

\* The handlers that update the saga by id: Prisma throws when it is gone.
UpdatesById(h) == Present /\ (Created(h) \/ Issued(h) \/ Confirmed(h))

\* Their transaction rolls back, the id of the detalle included, and the event
\* is requeued; at its next delivery it is skipped.
RollbackGone(h) ==
  /\ job[h] # NoJob
  /\ Succeeded(h) /\ job[h].ev.cmd # Payment
  /\ ~Present
  /\ queue' = queue \cup {job[h].ev}
  /\ job' = [job EXCEPT ![h] = NoJob]
  /\ UNCHANGED <<reserva, saga, idExterno, inbox, outbox, outcome, cron, http,
                 boundVars>>

\* The others only advance, which matches no row when it is gone: their
\* transaction commits, and the one of the payment orders the invoice.
ConsumerStep(h) ==
  \/ UpdatesById(h)
  \/ Processed(h)
  \/ CreateFailed(h) \/ PaymentFailed(h) \/ InvoiceFailed(h) \/ ConfirmFailed(h)
  \/ Rollback(h) \/ RollbackGone(h)

\* failTx on a row that is gone throws; the cron logs it.
CronFailAny ==
  \/ Present /\ CronFail
  \/ /\ ~Present
     /\ cron = "stale"
     /\ cron' = "idle"
     /\ UNCHANGED <<reserva, saga, idExterno, consumerVars, outbox, outcome, http,
                    boundVars>>

CheckoutHttp == ConvertCart \/ CreateSagaFails \/ PollTerminal \/ PollGone
                \/ WaitTimesOut \/ AnswerSuccess

CheckoutStep ==
  \/ CheckoutHttp
  \/ \E c \in Commands : \E out \in Outcomes(c) : ServiceAnswers(c, out)
  \/ \E e \in Event : Redeliver(e) \/ ReceiveAny(e)
  \/ \E h \in Handlers : ConsumerStep(h)
  \/ CronScan
  \/ CronFailAny

-----------------------------------------------------------------------------
(* The cancellation, beside the checkout. *)

\* deleteMany deletes the row of the checkout too, whatever its step.
CleanAnySaga(r) ==
  /\ C!CleanSaga(r)
  /\ saga' = [step |-> NoRow, items_created |-> 0, items_confirmed |-> 0,
              payable |-> FALSE, payment_id |-> FALSE, invoice_id |-> FALSE,
              invoiceInContext |-> FALSE]
  /\ UNCHANGED <<inbox, outbox, outcome, queue, job, cron, http>>

CancelHttp(r) ==
  \/ /\ http # "request"
     /\ \/ C!ReadReserva(r) \/ C!ListCancellables(r) \/ C!MarkCancelled(r)
        \/ C!CreateSaga(r) \/ C!CreateSagaFails(r)
        \/ C!PollCancelled(r) \/ C!WaitTimesOut(r)
     /\ UNCHANGED checkoutVars
  \/ CleanAnySaga(r)

CancelStep ==
  \/ \E c \in C!Cancels : \/ \E out \in {"ok", "failed"} : C!ServiceAnswers(c, out)
                          \/ C!Redeliver(c)
                          \/ C!Receive(c)
  \/ \E h \in CancelHandlers : C!HandlerStep(h)
  \/ ~Present /\ \E out \in RefundReports : C!RefundReported(out)
  \/ C!CronScan
  \/ C!CronFail

Next2 ==
  \/ CheckoutStep /\ UNCHANGED cancelVars
  \/ \E payable \in BOOLEAN : StartCheckout(payable)
  \/ CancelStep /\ UNCHANGED checkoutVars
  \/ \E r \in Requests : CancelHttp(r)
  \/ Crash /\ C!Crash

Spec2 == Init2 /\ [][Next2]_allVars

\* What this process does by itself, once a request has come in: all but the
\* answers and copies that come from outside, a new cancellation and a crash.
ProcessStep ==
  \/ /\ \/ CheckoutHttp \/ CronScan \/ CronFailAny
        \/ \E e \in Event : ReceiveAny(e)
        \/ \E h \in Handlers : ConsumerStep(h)
     /\ UNCHANGED cancelVars
  \/ \E payable \in BOOLEAN : StartCheckout(payable)
  \/ /\ \/ \E c \in C!Cancels : C!Receive(c)
        \/ \E h \in CancelHandlers : C!HandlerStep(h)
        \/ C!CronScan
        \/ C!CronFail
     /\ UNCHANGED checkoutVars
  \/ \E r \in Requests : cHttp[r] # "request" /\ CancelHttp(r)

\* The process does not stop while it has something to do; which of its
\* requests, handlers and crons goes first is not asked.
FairSpec2 == Spec2 /\ WF_allVars(ProcessStep)

-----------------------------------------------------------------------------
(* Safety. *)

\* Once a cancellation has deleted the row of the checkout, no answer or
\* handler still under way charges the customer, confirms an item or stores an
\* external id that the cancellation did not read.
DeletedSagaIsSilent ==
  [][Started /\ ~Present =>
       /\ outbox'[Payment] = outbox[Payment]
       /\ \A i \in Items : outbox'[Confirm(i)] = outbox[Confirm(i)]
       /\ idExterno' = idExterno]_allVars

CheckoutWasWhole ==
  /\ idExterno = Items /\ ItemsConfirmed = Items
  /\ Accepted(Payment) /\ Accepted(Invoice)

\* As many different answers as it had detalles to cancel, which with a single
\* request are those to its own commands.
CancellationWasWhole(r) ==
  /\ Cardinality(cInbox) >= Cardinality(cancellables[r])
  /\ C!OnlyRequest(r) => \A i \in cancellables[r] : C!Cancel(r, i) \in cInbox

\* A client told that the checkout succeeded was told the truth, whatever was
\* cancelled meanwhile; so was one told that a cancellation is done, and if that
\* had something to cancel it is overwritten by no other checkout than such a one.
AnswersHold ==
  /\ http = "ok" => CheckoutWasWhole
  /\ \A r \in Requests :
       cHttp[r] = "ok" =>
         /\ CancellationWasWhole(r)
         /\ cancellables[r] # {} /\ reserva # "CANCELADA" => http = "ok"

\* The failure of a cancellation stays on record when the answers of the
\* checkout and its cron come in between: only the cron of the cancellation,
\* after its request has ended, and the report of a refund write over it.
FailureIsOnRecord == C!FailureIsOnRecord

-----------------------------------------------------------------------------
(* The inductive invariant the proofs of CheckoutAndCancelV2Proofs rest on. *)

TypeOK2 ==
  /\ StateOK /\ C!StateOK
  /\ reserva \in {"NONE", "PENDIENTE", "CONFIRMADA", "FALLIDA_PROVEEDOR", "CANCELADA"}

\* Before its row exists and while it does the checkout is as CheckoutSaga
\* alone would be; after that its answers are still in order, and what the
\* client was told of the end stays true.
CheckoutInOrder ==
  /\ Orderly /\ AnswersWereAsked /\ IdsInOrder
  /\ Present \/ ~Started => SagaInv
  /\ http \in {"sawCompleted", "ok"} => ItemsConfirmed = Items
  /\ http = "badGateway" => outbox[Payment] = 0

\* The row of the checkout, seen from both sides.
RowsAgree == Present => row # NoSaga /\ row.id = CheckoutSagaId

\* A cancellation knows no id that the checkout has not stored.
CancellablesAreIds == \A r \in Requests : cancellables[r] \subseteq idExterno

\* The answers to cancel commands are of requests that created their row.
CancelsInOrder ==
  /\ \A c \in cInbox \cup cQueue : cOutcome[c] # "none"
  /\ \A h \in CancelHandlers : cJob[h] # NoJob => cOutcome[cJob[h].ev] # "none"
  /\ \A c \in C!Cancels : cOutcome[c] # "none" => c \in cOutbox
  /\ \A c \in cOutbox :
       cHttp[c.saga] \notin {"request", "list", "direct", "clean", "create"}

\* The second half of AnswersHold, whoever told what first.
CancelledHolds ==
  \A r \in Requests :
    cHttp[r] = "ok" /\ cancellables[r] # {} /\ reserva # "CANCELADA" => http = "ok"

IInv2 == /\ TypeOK2 /\ CheckoutInOrder /\ RowsAgree /\ CancellablesAreIds
         /\ CancelsInOrder /\ CancelledHolds /\ C!TimeoutIsLate /\ FailureIsOnRecord

\* What a cancellation counts: its row asks for one answer per detalle it
\* listed, the count is backed by the inbox, and a request that is about to
\* mark the reserva, or did, has seen enough of them.
CountsInOrder ==
  /\ IsFiniteSet(cInbox)
  /\ row # NoSaga => row.items_cancelled <= Cardinality(cInbox)
  /\ row # NoSaga /\ row.id \in Requests =>
       /\ cHttp[row.id] \notin {"request", "list", "direct", "clean", "create"}
       /\ row.total_items = Cardinality(cancellables[row.id])
  /\ \A r \in Requests :
       /\ cHttp[r] = "direct" => cancellables[r] = {}
       /\ cHttp[r] \in {"mark", "ok"} => Cardinality(cInbox) >= Cardinality(cancellables[r])
  /\ \A c \in cOutbox : c.item \in cancellables[c.saga]

FullInv2 == IInv2 /\ CountsInOrder

-----------------------------------------------------------------------------
(* Liveness, under FairSpec2. *)

\* No event of either saga is requeued for ever, whoever deletes its row.
EventsOfBothSettle ==
  <>[](/\ queue = {} /\ \A h \in Handlers : job[h] = NoJob
       /\ cQueue = {} /\ \A h \in CancelHandlers : cJob[h] = NoJob)

\* Both the client of the checkout and those who cancel it are answered.
EveryoneIsAnswered ==
  /\ http = "request" ~>
       http \in {"ok", "error500", "badGateway", "gatewayTimeout", "connectionLost"}
  /\ \A r \in Requests : cHttp[r] = "list" ~> cHttp[r] \in C!Answered
=============================================================================
