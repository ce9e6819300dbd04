---------------------- MODULE CheckoutAndCancelV2Proofs ----------------------
(***************************************************************************)
(* For any number of items, requests and handlers: what holds of a V2      *)
(* checkout and of the cancellations that run beside it and delete its     *)
(* row.  The checkout is taken from CheckoutSagaProofs as long as its row  *)
(* is there; what is left of it without the row is proved here.            *)
(***************************************************************************)
EXTENDS CheckoutAndCancelV2, CheckoutSagaProofs

-----------------------------------------------------------------------------
(* The checkout without its row. *)

\* Before the request has created its saga there is nothing to be found.
LEMMA NothingBefore ==
  ASSUME SagaInv, ~Started
  PROVE  /\ ~Present
         /\ ItemsCreated = {} /\ ItemsConfirmed = {} /\ idExterno = {}
<1> USE DEF SagaInv, IInv, Started
<1>0. Orderly /\ StateOK /\ StagesInOrder
  BY DEF Orderly
<1>1. ItemsCreated = {}
  BY <1>0, AcceptedWasAsked, MessageTypes DEF ItemsCreated, StagesInOrder
<1>2. idExterno = {}
  BY <1>1 DEF IdsInOrder
<1>3. ItemsConfirmed = {}
  BY <1>0, <1>2, AcceptedWasAsked, MessageTypes DEF ItemsConfirmed, IdsInOrder
<1> QED
  BY <1>1, <1>2, <1>3 DEF RequestInOrder, Present

\* With its row or before it, the checkout alone is in order here too.
LEMMA AloneIsInOrder == (SagaInv => CheckoutInOrder) /\ (SagaInv' => CheckoutInOrder')
BY DEF SagaInv, IInv, CheckoutInOrder, RowInOrder, RequestInOrder

\* Steps that read and write nothing of the saga: the answers under way and
\* what the client was told stay in order, row or no row.
LEMMA QuietKeeps ==
  ASSUME CheckoutInOrder, StateOK', EventsAreAnswers',
         UNCHANGED <<inbox, outbox, outcome, idExterno, saga>>,
         \A h \in Handlers : job'[h] = job[h] \/ job'[h] = NoJob,
         cron' \in {cron, "idle"},
         http' = http \/ (http' \in {"gatewayTimeout", "connectionLost"} /\ http # "ok")
  PROVE  CheckoutInOrder'
<1> USE DEF CheckoutInOrder
<1>0. /\ ItemsCreated' = ItemsCreated /\ ItemsConfirmed' = ItemsConfirmed
      /\ StagesInOrder'
  BY SameInbox, SameStages DEF Orderly
<1>1. Orderly' /\ AnswersWereAsked' /\ IdsInOrder'
  BY <1>0 DEF Orderly, AnswersWereAsked, IdsInOrder
<1>2. CASE ~Started /\ http' # http
  <2>1. SagaInv /\ RequestInOrder'
    BY <1>2, NothingBefore DEF SagaInv, RequestInOrder, Started, Present
  <2>2. SagaInv'
    BY <1>0, <1>1, <2>1 DEF SagaInv, IInv, CountersMatchInbox, RowInOrder
  <2> QED
    BY <2>2, AloneIsInOrder
<1>3. CASE (Present \/ ~Started) /\ (Started \/ http' = http)
  <2>1. SagaInv
    BY <1>3
  <2>2. RequestInOrder'
    BY <1>0, <1>3, <2>1 DEF SagaInv, RequestInOrder, Started
  <2>3. SagaInv'
    BY <1>0, <1>1, <2>1, <2>2 DEF SagaInv, IInv, CountersMatchInbox, RowInOrder
  <2> QED
    BY <1>0, <1>1, <2>3
<1>4. CASE ~Present /\ Started
  BY <1>0, <1>1, <1>4 DEF Present, Started
<1> QED
  BY <1>2, <1>3, <1>4

\* deleteMany takes the row of the checkout away, or finds none yet.
LEMMA RowDeletedKeeps ==
  ASSUME CheckoutInOrder, StateOK',
         UNCHANGED <<inbox, outbox, outcome, idExterno, queue, job, cron, http>>,
         saga' = [step |-> NoRow, items_created |-> 0, items_confirmed |-> 0,
                  payable |-> FALSE, payment_id |-> FALSE, invoice_id |-> FALSE,
                  invoiceInContext |-> FALSE]
  PROVE  CheckoutInOrder' /\ ~Present'
<1> USE DEF CheckoutInOrder
<1>0. /\ ItemsCreated' = ItemsCreated /\ ItemsConfirmed' = ItemsConfirmed
      /\ StagesInOrder'
  BY SameInbox, SameStages DEF Orderly
<1>1. Orderly' /\ AnswersWereAsked' /\ IdsInOrder' /\ ~Present'
  BY <1>0 DEF Orderly, EventsAreAnswers, AnswersWereAsked, IdsInOrder, Present
<1>2. CASE ~Started
  <2>1. SagaInv /\ ItemsCreated = {} /\ ItemsConfirmed = {}
    BY <1>2, NothingBefore
  <2>2. CountersMatchInbox'
    BY <1>0, <2>1, FS_EmptySet DEF CountersMatchInbox
  <2>3. RowInOrder' /\ RequestInOrder'
    BY <1>0, <1>2, <2>1 DEF RowInOrder, RequestInOrder, SagaInv, NoRow, Started
  <2>4. SagaInv'
    BY <1>1, <2>2, <2>3 DEF SagaInv, IInv
  <2> QED
    BY <1>1, <2>4, AloneIsInOrder
<1>3. CASE Started
  BY <1>0, <1>1, <1>3 DEF Started
<1> QED
  BY <1>2, <1>3

\* A step of the checkout on its row, or before it, is one of CheckoutSaga.
LEMMA PresentKeeps ==
  ASSUME CheckoutInOrder, Present \/ ~Started, [Next]_vars
  PROVE  CheckoutInOrder'
BY NextSagaInv, AloneIsInOrder DEF CheckoutInOrder

\* The four consumers of bad news.
Compensates(h) == CreateFailed(h) \/ PaymentFailed(h) \/ InvoiceFailed(h) \/ ConfirmFailed(h)

\* They do the same, from different steps of the saga.
LEMMA CompensatesFrom ==
  ASSUME NEW h \in Handlers, Compensates(h)
  PROVE  \E step \in FailableSteps : \E type : Compensate(h, type, step)
BY DEF Compensates, CreateFailed, PaymentFailed, InvoiceFailed, ConfirmFailed, FailableSteps

\* The steps that CheckoutSaga knows and that need no row.
Rowless == Silent \/ (\E h \in Handlers : Processed(h) \/ Compensates(h))

\* They leave a row that is gone gone, and tell nothing new of the end.
LEMMA RowlessFrame ==
  ASSUME StateOK, ~Present, Started, Rowless
  PROVE  /\ [Next]_vars /\ ~Present'
         /\ outbox'[Payment] = outbox[Payment] /\ idExterno' = idExterno
         /\ \/ UNCHANGED http
            \/ http = "sawCompleted" /\ http' = "ok" /\ AnswerSuccess
            \/ http \notin {"ok", "badGateway"}
               /\ http' \in {"gatewayTimeout", "connectionLost"}
<1>0. Payment \in Messages /\ Payment # Invoice
  BY MessageTypes, MessagesDiffer
<1>1. CASE Silent
  <2>0. ~PollTerminal /\ ~ConvertCart /\ ~CreateSagaFails /\ ~CronScan
    BY DEF PollTerminal, ConvertCart, CreateSagaFails, CronScan, Present, Started, NoRow,
           SagaStep, TerminalSteps
  <2>1. [Next]_vars
    BY <1>1 DEF Silent, Next, HttpStep, HandlerStep
  <2>2. \/ UNCHANGED http
        \/ http = "sawCompleted" /\ http' = "ok" /\ AnswerSuccess
        \/ http \notin {"ok", "badGateway"} /\ http' \in {"gatewayTimeout", "connectionLost"}
    BY <1>1, <2>0 DEF Silent, WaitTimesOut, AnswerSuccess, ServiceAnswers, Redeliver, Receive,
                AckDuplicate, AckSkipped, Take, Rollback, Crash, vars
  <2> QED
    BY <1>1, <2>1, <2>2, SilentFrame DEF Present
<1>2. ASSUME NEW h \in Handlers, Processed(h)
      PROVE  /\ [Next]_vars /\ ~Present' /\ UNCHANGED <<http, idExterno>>
             /\ outbox'[Payment] = outbox[Payment]
  BY <1>0, <1>2 DEF Processed, Commits, Publish, Advance, Present, Next, HandlerStep, NoRow
<1>3. ASSUME NEW h \in Handlers, NEW step \in FailableSteps, NEW type,
             Compensate(h, type, step)
      PROVE  /\ ~Present' /\ UNCHANGED <<http, idExterno, outbox>>
  BY <1>3 DEF Compensate, Commits, Advance, Present, NoRow, FailableSteps
<1>4. ASSUME NEW h \in Handlers, Compensates(h) PROVE [Next]_vars
  BY <1>4 DEF Compensates, Next, HandlerStep
<1> QED
  BY <1>1, <1>2, <1>3, <1>4, CompensatesFrom DEF Rowless

\* They keep the answers in order, for which nobody asks the row.
LEMMA RowlessKeeps ==
  ASSUME CheckoutInOrder, ~Present, Started, Rowless
  PROVE  CheckoutInOrder'
<1> USE DEF CheckoutInOrder
<1>0. StateOK /\ StateOK' /\ [Next]_vars /\ ~Present'
  BY RowlessFrame, NextStateOK DEF Orderly
<1>1. AnswersWereAsked'
  BY <1>0, NextAsked
<1>2. /\ EventsAreAnswers' /\ StagesInOrder'
      /\ ItemsCreated' = ItemsCreated /\ ItemsConfirmed' = ItemsConfirmed
      /\ UNCHANGED idExterno
      /\ \A i \in Items : outbox'[Confirm(i)] = outbox[Confirm(i)]
  <2>1. CASE Silent
    BY <2>1, SilentEvents, SilentFrame, SameStages, SameInbox DEF Orderly
  <2>2. ASSUME NEW h \in Handlers, Processed(h)
        PROVE  /\ EventsAreAnswers' /\ StagesInOrder'
               /\ ItemsCreated' = ItemsCreated /\ ItemsConfirmed' = ItemsConfirmed
               /\ UNCHANGED idExterno
               /\ \A i \in Items : outbox'[Confirm(i)] = outbox[Confirm(i)]
    BY <2>2, ProcessedInOrder, ProcessedEffect, MessageTypes, MessagesDiffer DEF OnlyPublishes
  <2>3. ASSUME NEW h \in Handlers, Compensates(h)
        PROVE  /\ EventsAreAnswers' /\ StagesInOrder'
               /\ ItemsCreated' = ItemsCreated /\ ItemsConfirmed' = ItemsConfirmed
               /\ UNCHANGED idExterno
               /\ \A i \in Items : outbox'[Confirm(i)] = outbox[Confirm(i)]
    BY <2>3, CompensatesFrom, CompensateInOrder, CompensateEffect
  <2> QED
    BY <2>1, <2>2, <2>3 DEF Rowless
<1>3. IdsInOrder'
  BY <1>0, <1>2, JobsRead DEF IdsInOrder
<1>4. /\ http' \in {"sawCompleted", "ok"} => ItemsConfirmed' = Items
      /\ http' = "badGateway" => outbox'[Payment] = 0
      /\ Started'
  BY <1>0, <1>2, RowlessFrame DEF Started
<1> QED
  BY <1>0, <1>1, <1>2, <1>3, <1>4 DEF Orderly

\* The steps that CheckoutSaga does not know: they give up for want of a row.
GivesUp == \/ PollGone
           \/ \E e \in Event : AckOrphan(e)
           \/ \E h \in Handlers : RollbackGone(h)
           \/ ~Present /\ CronFailAny

\* Giving up writes nothing but the queue, and tells the client a timeout.
LEMMA GivesUpFrame ==
  ASSUME StateOK, EventsAreAnswers, GivesUp
  PROVE  /\ StateOK' /\ EventsAreAnswers'
         /\ UNCHANGED <<reserva, inbox, outbox, outcome, idExterno, saga>>
         /\ \A h \in Handlers : job'[h] = job[h] \/ job'[h] = NoJob
         /\ cron' \in {cron, "idle"}
         /\ http' = http \/ (http = "waiting" /\ http' = "gatewayTimeout")
<1> USE DEF StateOK, EventsAreAnswers, consumerVars, boundVars
<1>1. CASE PollGone
  BY <1>1 DEF PollGone, HttpState
<1>2. ASSUME NEW e \in Event, AckOrphan(e)
      PROVE  /\ StateOK' /\ EventsAreAnswers'
             /\ UNCHANGED <<reserva, inbox, outbox, outcome, idExterno, saga, job, cron, http>>
  BY <1>2 DEF AckOrphan
<1>3. ASSUME NEW h \in Handlers, RollbackGone(h)
      PROVE  /\ StateOK' /\ EventsAreAnswers'
             /\ UNCHANGED <<reserva, inbox, outbox, outcome, idExterno, saga, cron, http>>
             /\ \A g \in Handlers : job'[g] = job[g] \/ job'[g] = NoJob
  <2>1. job[h].ev \in Event
    BY <1>3 DEF RollbackGone, Job
  <2> QED
    BY <1>3, <2>1 DEF RollbackGone
<1>4. CASE ~Present /\ CronFailAny
  BY <1>4 DEF CronFailAny
<1> QED
  BY <1>1, <1>2, <1>3, <1>4 DEF GivesUp

\* What a step of the checkout is: one of CheckoutSaga on its row or before it
\* has one, one that needs no row, or one that gives up.
LEMMA CheckoutKinds ==
  ASSUME CheckoutStep
  PROVE  \/ (Present \/ ~Started) /\ [Next]_vars
         \/ ~Present /\ Started /\ Rowless
         \/ GivesUp
<1>1. CASE Next /\ (Present \/ ~Started)
  BY <1>1
<1>2. CASE Silent /\ ~Present /\ Started
  BY <1>2 DEF Rowless
<1>3. CASE CheckoutHttp
  BY <1>1, <1>2, <1>3 DEF CheckoutHttp, Next, HttpStep, GivesUp, Silent
<1>4. ASSUME NEW e \in Event, ReceiveAny(e)
      PROVE  AckOrphan(e) \/ (Next /\ Silent)
  BY <1>4 DEF ReceiveAny, Receive, Next, Silent
<1>5. ASSUME NEW h \in Handlers, ConsumerStep(h)
      PROVE  \/ RollbackGone(h) \/ (Next /\ Present)
             \/ Next /\ (Processed(h) \/ Compensates(h) \/ Rollback(h))
  BY <1>5 DEF ConsumerStep, UpdatesById, Next, HandlerStep, Compensates
<1>6. ASSUME NEW h \in Handlers, ConsumerStep(h)
      PROVE  \/ (Present \/ ~Started) /\ [Next]_vars
             \/ ~Present /\ Started /\ Rowless
             \/ GivesUp
  BY <1>5, <1>6 DEF GivesUp, Rowless, Silent
<1>7. CASE CronFailAny
  BY <1>7 DEF CronFailAny, Next, GivesUp
<1>8. CASE \/ \E c \in Commands : \E out \in Outcomes(c) : ServiceAnswers(c, out)
           \/ \E e \in Event : Redeliver(e)
           \/ CronScan
  BY <1>1, <1>2, <1>8 DEF Next, Silent
<1>9. ASSUME NEW e \in Event, ReceiveAny(e)
      PROVE  \/ (Present \/ ~Started) /\ [Next]_vars
             \/ ~Present /\ Started /\ Rowless
             \/ GivesUp
  BY <1>1, <1>2, <1>4, <1>9 DEF GivesUp
<1> QED
  BY <1>3, <1>6, <1>7, <1>8, <1>9 DEF CheckoutStep

\* Nothing but the start of a checkout creates its row.
LEMMA NoRowStays == CheckoutStep /\ ~Present => ~Present'
<1> SUFFICES ASSUME CheckoutStep, ~Present PROVE ~Present'
  OBVIOUS
<1> USE DEF Present
<1>1. CASE CheckoutHttp
  BY <1>1
  DEF CheckoutHttp, ConvertCart, CreateSagaFails, PollTerminal, PollGone, WaitTimesOut,
      AnswerSuccess
<1>2. ASSUME NEW h \in Handlers, ConsumerStep(h) PROVE ~Present'
  <2>1. CASE Compensates(h)
    BY <2>1, CompensatesFrom DEF Compensate, Advance, FailableSteps, NoRow
  <2> QED
    BY <1>2, <2>1
    DEF ConsumerStep, UpdatesById, Processed, Advance, NoRow, Rollback, RollbackGone,
        Compensates
<1> QED
  BY <1>1, <1>2
  DEF CheckoutStep, ServiceAnswers, Redeliver, ReceiveAny, AckDuplicate, AckSkipped,
      AckOrphan, Take, CronScan, CronFailAny

\* External ids are only ever added.
LEMMA IdsGrow == [Next]_vars => idExterno \subseteq idExterno'
<1> SUFFICES ASSUME [Next]_vars PROVE idExterno \subseteq idExterno'
  OBVIOUS
<1> QED
  BY StepKinds, SilentFrame
  DEF CronFail, CreateSaga, Created, Processed, Issued, Confirmed, Compensate

\* What a step of the checkout leaves to those who look at it from beside.
LEMMA CheckoutStepKeeps ==
  ASSUME CheckoutInOrder, CheckoutStep
  PROVE  /\ StateOK' /\ CheckoutInOrder'
         /\ idExterno \subseteq idExterno'
<1>0. StateOK /\ EventsAreAnswers
  BY DEF CheckoutInOrder, Orderly
<1>1. CASE (Present \/ ~Started) /\ [Next]_vars
  BY <1>0, <1>1, NextStateOK, PresentKeeps, IdsGrow
<1>2. CASE ~Present /\ Started /\ Rowless
  BY <1>0, <1>2, NextStateOK, RowlessFrame, RowlessKeeps
<1>3. CASE GivesUp
  BY <1>0, <1>3, GivesUpFrame, QuietKeeps
<1> QED
  BY <1>1, <1>2, <1>3, CheckoutKinds

\* Who writes reservas.status: the request before it starts the saga, and the
\* success, which nothing takes back.
LEMMA CheckoutWrites ==
  ASSUME CheckoutStep
  PROVE  /\ reserva' \in {reserva, "PENDIENTE", "FALLIDA_PROVEEDOR", "CONFIRMADA"}
         /\ reserva' = reserva \/ ~Started \/ http' = "ok"
         /\ http = "ok" => http' = "ok"
<1>1. CASE CheckoutHttp
  BY <1>1
  DEF CheckoutHttp, ConvertCart, CreateSagaFails, PollTerminal, PollGone, WaitTimesOut,
      AnswerSuccess, Started
<1>2. ASSUME NEW h \in Handlers, ConsumerStep(h) PROVE UNCHANGED <<reserva, http>>
  BY <1>2
  DEF ConsumerStep, UpdatesById, Created, Processed, Issued, Confirmed, CreateFailed,
      PaymentFailed, InvoiceFailed, ConfirmFailed, Compensate, Commits, Rollback, RollbackGone
<1> QED
  BY <1>1, <1>2
  DEF CheckoutStep, ServiceAnswers, Redeliver, ReceiveAny, AckDuplicate, AckSkipped,
      AckOrphan, Take, CronScan, CronFail, CronFailAny

-----------------------------------------------------------------------------
(* The cancellation. *)

\* The instance counts like everybody else.
LEMMA SameCardinality == \A S : C!Cardinality(S) = Cardinality(S)
BY DEF C!Cardinality, Cardinality

\* The rows of a checkout and of a cancellation are rows.
LEMMA Rows ==
  /\ C!CheckoutSaga("COMPLETED") \in C!SagaRow
  /\ C!CheckoutSaga("COMPLETED").id = CheckoutSagaId
  /\ \A r \in Requests, s \in SUBSET Items :
       [id |-> r, total_items |-> C!Cardinality(s), items_cancelled |-> 0,
        step |-> "COMPENSATING", last_error |-> "none"] \in C!SagaRow
<1>1. \A s \in SUBSET Items : Cardinality(s) \in Nat
  BY ItemSets
<1>2. Cardinality(Items) \in Nat
  BY <1>1
<1>3. C!CheckoutSaga("COMPLETED") \in C!SagaRow /\ C!CheckoutSaga("COMPLETED").id = CheckoutSagaId
  BY <1>2, SameCardinality DEF C!CheckoutSaga, C!SagaRow, C!SagaIds
<1>4. ASSUME NEW r \in Requests, NEW s \in SUBSET Items
      PROVE  [id |-> r, total_items |-> C!Cardinality(s), items_cancelled |-> 0,
              step |-> "COMPENSATING", last_error |-> "none"] \in C!SagaRow
  <2>1. C!Cardinality(s) \in Nat
    BY <1>1, SameCardinality
  <2> QED
    BY <2>1 DEF C!SagaRow, C!SagaIds
<1> QED
  BY <1>3, <1>4

\* A command of a cancellation knows its request.
LEMMA CancelFields ==
  /\ \A c \in C!Cancels : c.saga \in Requests
  /\ \A r, i : C!Cancel(r, i).saga = r
BY DEF C!Cancels, C!Cancel

\* The requests that have not created their row.
Unsent == {"request", "list", "direct", "clean", "create"}

\* The part of the invariant that is about the cancellation alone.
CancelInv == C!StateOK /\ CancelsInOrder /\ C!TimeoutIsLate /\ FailureIsOnRecord

\* Nothing of the record is lost: the row is untouched or gone, and whoever
\* waits no more never will again.
LEMMA RecordKept2 ==
  ASSUME C!TimeoutIsLate, FailureIsOnRecord, UNCHANGED <<cInbox, cOutcome, refund>>,
         row' = row \/ row' = NoSaga, cCron' = cCron \/ cCron' = NoSaga,
         \A q \in Requests : /\ cHttp'[q] = "request" => cHttp[q] = "request"
                             /\ \/ cHttp'[q] = cHttp[q] \/ cHttp[q] \in Unsent
                                \/ cHttp'[q] \notin Unsent \cup {"waiting"}
  PROVE  C!TimeoutIsLate' /\ FailureIsOnRecord'
<1>1. \A q \in Requests : /\ C!WaitOver(q) => C!WaitOver(q)' /\ cHttp[q] \notin Unsent
                          /\ cHttp[q] = "waiting" => \/ C!WaitOver(q)'
                                                     \/ cHttp'[q] = "waiting"
  BY DEF C!WaitOver, Unsent
<1>2. \A q \in Requests : C!RowExists(q)' => C!RowExists(q) /\ row' = row
  BY DEF C!RowExists
<1>3. C!TimeoutIsLate'
  BY <1>1, <1>2 DEF C!TimeoutIsLate
<1>4. \A q \in Requests : C!OnlyRequest(q)' => C!OnlyRequest(q)
  BY DEF C!OnlyRequest
<1>5. FailureIsOnRecord'
  BY <1>1, <1>2, <1>4 DEF FailureIsOnRecord, C!FailureIsOnRecord
<1> QED
  BY <1>3, <1>5

\* A request moves, nothing else; commands and events stay in order when it
\* does not go back before its row.
LEMMA GotoKeeps ==
  ASSUME CancelInv, NEW r \in Requests, NEW pc \in C!HttpState \ {"request", "waiting"},
         C!Goto(r, pc), pc \in Unsent => cHttp[r] \in Unsent,
         UNCHANGED <<idExterno, cInbox, cQueue, cJob, cOutbox, cOutcome, cCron, refund,
                     redeliveries, crashes>>,
         cancellables' \in [Requests -> SUBSET Items],
         row' = row \/ row' = NoSaga
  PROVE  CancelInv'
<1> USE DEF CancelInv
<1>0. \A q \in Requests : cHttp'[q] = IF q = r THEN pc ELSE cHttp[q]
  BY DEF C!Goto, C!StateOK
<1>1. C!StateOK'
  BY DEF C!StateOK, C!Goto
<1>2. CancelsInOrder'
  BY <1>0, CancelFields DEF CancelsInOrder, C!StateOK, Unsent
<1>3. C!TimeoutIsLate' /\ FailureIsOnRecord'
  BY <1>0, RecordKept2 DEF Unsent
<1> QED
  BY <1>1, <1>2, <1>3

\* The steps of a request.
LEMMA CancelHttpKeeps ==
  ASSUME CancelInv, NEW r \in Requests, C!HttpStep(r)
  PROVE  CancelInv'
<1> USE DEF C!consumerVars, C!readVars, C!boundVars, C!HttpState, C!Answered, Unsent
<1>0. cancellables \in [Requests -> SUBSET Items] /\ idExterno \subseteq Items
  BY DEF CancelInv, C!StateOK
<1>1. CASE C!ReadReserva(r)
  BY <1>0, <1>1, GotoKeeps DEF C!ReadReserva
<1>2. CASE C!ListCancellables(r)
  BY <1>0, <1>2, GotoKeeps DEF C!ListCancellables
<1>3. CASE C!MarkCancelled(r)
  BY <1>0, <1>3, GotoKeeps DEF C!MarkCancelled
<1>4. CASE C!CleanSaga(r)
  BY <1>0, <1>4, GotoKeeps DEF C!CleanSaga
<1>5. CASE C!CreateSaga(r)
  <2>1. /\ UNCHANGED <<idExterno, cInbox, cQueue, cJob, cOutcome, cCron, refund,
                       cancellables, redeliveries, crashes>>
        /\ cOutbox' = cOutbox \cup {C!Cancel(r, i) : i \in cancellables[r]}
        /\ cHttp[r] = "create" /\ cHttp' = [cHttp EXCEPT ![r] = "waiting"]
        /\ row' = [id |-> r, total_items |-> C!Cardinality(cancellables[r]),
                   items_cancelled |-> 0, step |-> "COMPENSATING", last_error |-> "none"]
    BY <1>5 DEF C!CreateSaga, C!Goto
  <2>2. row' \in C!SagaRow /\ row'.id = r
    BY <1>0, <2>1, Rows
  <2>3. cOutbox' \subseteq C!Cancels
    BY <1>0, <2>1 DEF CancelInv, C!StateOK, C!Cancels
  <2>4. C!StateOK' /\ row'.step = "COMPENSATING"
    BY <2>1, <2>2, <2>3 DEF CancelInv, C!StateOK
  <2>5. \A q \in Requests : cHttp'[q] = IF q = r THEN "waiting" ELSE cHttp[q]
    BY <2>1 DEF CancelInv, C!StateOK
  <2>6. CancelsInOrder'
    BY <2>1, <2>5, CancelFields DEF CancelInv, CancelsInOrder, C!StateOK
  <2>7. FailureIsOnRecord'
    <3> SUFFICES ASSUME NEW s \in Requests, C!OnlyRequest(s)', C!RowExists(s)', NEW c \in cInbox
                 PROVE  FALSE
      BY <2>1 DEF FailureIsOnRecord, C!FailureIsOnRecord
    <3>1. s = r
      BY <2>2 DEF C!RowExists
    <3>2. c.saga \in Requests /\ cHttp[c.saga] \notin Unsent
      BY CancelFields DEF CancelInv, CancelsInOrder, C!StateOK
    <3>3. c.saga = r
      BY <2>5, <3>1, <3>2 DEF C!OnlyRequest
    <3> QED
      BY <2>1, <3>2, <3>3
  <2>8. C!TimeoutIsLate'
    <3>1. ~C!WaitOver(r) /\ \A q \in Requests : C!RowExists(q)' => q = r
      BY <2>1, <2>2 DEF C!WaitOver, C!RowExists
    <3> QED
      BY <2>1, <2>4, <2>5, <3>1 DEF CancelInv, C!TimeoutIsLate, C!WaitOver
  <2> QED
    BY <2>4, <2>6, <2>7, <2>8 DEF CancelInv
<1>6. CASE C!CreateSagaFails(r)
  BY <1>0, <1>6, GotoKeeps DEF C!CreateSagaFails
<1>7. CASE C!PollCancelled(r)
  BY <1>0, <1>7, GotoKeeps DEF C!PollCancelled
<1>8. CASE C!WaitTimesOut(r)
  BY <1>0, <1>8, GotoKeeps DEF C!WaitTimesOut
<1> QED
  BY <1>1, <1>2, <1>3, <1>4, <1>5, <1>6, <1>7, <1>8 DEF C!HttpStep

\* Events go back and forth between the queue and the handlers, and no row
\* changes: the record stays as it is.
LEMMA EventsMoveKeeps ==
  ASSUME CancelInv, C!StateOK', UNCHANGED <<cInbox, cOutbox, cOutcome, row, refund>>,
         \A c \in cQueue' : cOutcome[c] # "none",
         \A h \in CancelHandlers : cJob'[h] # NoJob => cOutcome[cJob'[h].ev] # "none",
         cCron' = cCron \/ cCron' = NoSaga,
         \A q \in Requests : cHttp'[q] \in {cHttp[q], "connectionLost"}
  PROVE  CancelInv'
<1>1. CancelsInOrder'
  BY CancelFields DEF CancelInv, CancelsInOrder, C!StateOK
<1>2. C!TimeoutIsLate' /\ FailureIsOnRecord'
  BY RecordKept2 DEF CancelInv, Unsent
<1> QED
  BY <1>1, <1>2 DEF CancelInv

\* What a handler or the cron may do to the row it finds: never take it from
\* its saga.
RowKept == row' = row \/ (row # NoSaga /\ row' \in C!SagaRow /\ row'.id = row.id)

\* The transaction of a handler: a failed answer is written down, a good one
\* leaves what is written.
LEMMA CommitKeeps ==
  ASSUME CancelInv, NEW h \in CancelHandlers, C!Commit(h)
  PROVE  CancelInv' /\ RowKept
<1>1. /\ cInbox' = cInbox \cup {cJob[h].ev} /\ cJob' = [cJob EXCEPT ![h] = NoJob]
      /\ cJob[h] # NoJob /\ row # NoSaga
      /\ row' = [row EXCEPT !.items_cancelled = @ + 1,
            !.last_error = IF cOutcome[cJob[h].ev] = "failed"
                             THEN "MANUAL_INTERVENTION_NEEDED" ELSE @]
      /\ UNCHANGED <<reserva, idExterno, cOutbox, cOutcome, cQueue, cCron, cHttp,
                     cancellables, refund, redeliveries, crashes>>
  BY DEF C!Commit, C!RowExists, C!readVars, C!boundVars
<1>2. row \in C!SagaRow /\ cJob[h] \in C!Job
  BY <1>1 DEF CancelInv, C!StateOK
<1>3. /\ row' \in C!SagaRow /\ row'.id = row.id /\ row'.step = row.step
      /\ row'.last_error = IF cOutcome[cJob[h].ev] = "failed"
                             THEN "MANUAL_INTERVENTION_NEEDED" ELSE row.last_error
  <2>1. PICK e \in {row.last_error, "MANUAL_INTERVENTION_NEEDED"} :
          /\ row' = [row EXCEPT !.items_cancelled = @ + 1, !.last_error = e]
          /\ e = IF cOutcome[cJob[h].ev] = "failed"
                   THEN "MANUAL_INTERVENTION_NEEDED" ELSE row.last_error
    BY <1>1
  <2>2. /\ e \in {"none", "MANUAL_INTERVENTION_NEEDED", "SAGA_TIMEOUT",
                  "REFUND_RECONCILIATION_NEEDED"}
        /\ row.items_cancelled + 1 \in Nat
    BY <1>2 DEF C!SagaRow
  <2>3. row' \in C!SagaRow
    BY <1>2, <2>1, <2>2 DEF C!SagaRow
  <2>4. row'.id = row.id /\ row'.step = row.step /\ row'.last_error = e
    BY <1>2, <2>1 DEF C!SagaRow
  <2> QED
    BY <2>1, <2>3, <2>4
<1>4. C!StateOK'
  BY <1>1, <1>2, <1>3 DEF CancelInv, C!StateOK, C!Job
<1>5. CancelsInOrder'
  <2>1. \A g \in CancelHandlers : cJob'[g] # NoJob => cJob'[g] = cJob[g]
    BY <1>1 DEF CancelInv, C!StateOK
  <2> QED
    BY <1>1, <2>1 DEF CancelInv, CancelsInOrder
<1>6. C!TimeoutIsLate' /\ FailureIsOnRecord'
  BY <1>1, <1>3, RowAssumption
  DEF CancelInv, C!TimeoutIsLate, FailureIsOnRecord, C!FailureIsOnRecord, C!OnlyRequest,
      C!RowExists, C!WaitOver
<1> QED
  BY <1>1, <1>3, <1>4, <1>5, <1>6 DEF CancelInv, RowKept

\* Everybody else.
LEMMA EnvironmentKeeps ==
  ASSUME CancelInv,
         \/ \E c \in C!Cancels : \E out \in {"ok", "failed"} : C!ServiceAnswers(c, out)
         \/ \E c \in C!Cancels : C!Redeliver(c) \/ C!Receive(c)
         \/ \E h \in CancelHandlers : C!Rollback(h)
         \/ \E out \in RefundReports : C!RefundReported(out)
         \/ C!CronScan \/ C!CronFail
  PROVE  CancelInv' /\ RowKept
<1> USE DEF C!consumerVars, C!readVars, C!boundVars
<1>0. /\ C!StateOK /\ CancelsInOrder /\ C!TimeoutIsLate /\ FailureIsOnRecord
      /\ cJob \in [CancelHandlers -> C!Job \cup {NoJob}]
      /\ cOutcome \in [C!Cancels -> {"none", "ok", "failed"}]
      /\ cInbox \subseteq C!Cancels /\ cQueue \subseteq C!Cancels
  BY DEF CancelInv, C!StateOK
<1>1. ASSUME NEW c \in C!Cancels, NEW out \in {"ok", "failed"}, C!ServiceAnswers(c, out)
      PROVE  CancelInv' /\ RowKept
  <2>1. /\ UNCHANGED <<idExterno, row, cInbox, cOutbox, cJob, cCron, cHttp, refund>>
        /\ cQueue' = cQueue \cup {c} /\ cOutcome[c] = "none" /\ c \in cOutbox
    BY <1>1 DEF C!ServiceAnswers
  <2>2. \A d \in C!Cancels : cOutcome'[d] = IF d = c THEN out ELSE cOutcome[d]
    BY <1>0, <1>1 DEF C!ServiceAnswers
  <2>3. \A h \in CancelHandlers : cJob[h] # NoJob => cJob[h].ev \in C!Cancels
    BY <1>0 DEF C!Job
  <2>4. CancelsInOrder'
    BY <1>0, <2>1, <2>2, <2>3 DEF CancelsInOrder
  <2>5. \A d \in cInbox : cOutcome'[d] = cOutcome[d]
    BY <1>0, <2>1, <2>2 DEF CancelsInOrder
  <2>6. C!TimeoutIsLate' /\ FailureIsOnRecord'
    BY <1>0, <2>1, <2>5 DEF C!TimeoutIsLate, FailureIsOnRecord, C!FailureIsOnRecord,
                            C!OnlyRequest, C!RowExists, C!WaitOver
  <2>7. C!StateOK'
    BY <1>0, <1>1 DEF C!ServiceAnswers, C!StateOK
  <2> QED
    BY <2>1, <2>4, <2>6, <2>7 DEF CancelInv, RowKept
<1>2. ASSUME NEW c \in C!Cancels, C!Redeliver(c) PROVE CancelInv' /\ RowKept
  <2>1. C!StateOK' /\ row' = row
    BY <1>0, <1>2, BoundsAssumption DEF C!Redeliver, C!StateOK
  <2> QED
    BY <1>0, <1>2, <2>1, EventsMoveKeeps DEF C!Redeliver, CancelsInOrder, RowKept
<1>3. ASSUME NEW c \in C!Cancels, C!Receive(c) PROVE CancelInv' /\ RowKept
  <2>1. CASE C!AckUnhandled(c)
    <3>1. C!StateOK' /\ row' = row
      BY <1>0, <2>1 DEF C!AckUnhandled, C!StateOK
    <3> QED
      BY <1>0, <2>1, <3>1, EventsMoveKeeps DEF C!AckUnhandled, CancelsInOrder, RowKept
  <2>2. ASSUME NEW h \in CancelHandlers, C!Take(h, c) PROVE CancelInv' /\ RowKept
    <3>1. [ev |-> c, saga |-> row.id] \in C!Job
      BY <1>0, <2>2 DEF C!Take, C!StateOK, C!SagaRow, C!Job
    <3>2. C!StateOK' /\ row' = row
      BY <1>0, <2>2, <3>1 DEF C!Take, C!StateOK
    <3>3. \A g \in CancelHandlers : cJob'[g] # NoJob => cJob'[g] = cJob[g] \/ cJob'[g].ev = c
      BY <1>0, <2>2 DEF C!Take
    <3> QED
      BY <1>0, <2>2, <3>2, <3>3, EventsMoveKeeps DEF C!Take, CancelsInOrder, RowKept
  <2> QED
    BY <1>3, <2>1, <2>2 DEF C!Receive
<1>4. ASSUME NEW h \in CancelHandlers, C!Rollback(h) PROVE CancelInv' /\ RowKept
  <2>1. cJob[h].ev \in C!Cancels
    BY <1>0, <1>4 DEF C!Rollback, C!Job
  <2>2. C!StateOK' /\ row' = row
    BY <1>0, <1>4, <2>1 DEF C!Rollback, C!StateOK
  <2>3. \A g \in CancelHandlers : cJob'[g] # NoJob => cJob'[g] = cJob[g]
    BY <1>0, <1>4 DEF C!Rollback
  <2> QED
    BY <1>0, <1>4, <2>2, <2>3, EventsMoveKeeps DEF C!Rollback, CancelsInOrder, RowKept
<1>5. ASSUME NEW out \in RefundReports, C!RefundReported(out) PROVE CancelInv' /\ RowKept
  <2>1. /\ UNCHANGED <<idExterno, cInbox, cQueue, cJob, cOutbox, cOutcome, cHttp, cCron,
                       cancellables, redeliveries, crashes>>
        /\ refund' = out /\ out # "none" /\ row # NoSaga
        /\ row' = [row EXCEPT !.last_error = C!RefundRecord(out)]
    BY <1>5, ReportsAssumption DEF C!RefundReported
  <2>2. row \in C!SagaRow
    BY <1>0, <2>1 DEF C!StateOK
  <2>3. /\ row' \in C!SagaRow /\ row'.id = row.id
        /\ row'.step = row.step /\ row'.last_error = C!RefundRecord(out)
    BY <2>1, <2>2 DEF C!SagaRow, C!RefundRecord
  <2>4. C!StateOK'
    BY <1>0, <2>1, <2>3 DEF C!StateOK
  <2>5. CancelsInOrder'
    BY <1>0, <2>1 DEF CancelsInOrder
  <2>6. C!TimeoutIsLate' /\ FailureIsOnRecord'
    BY <1>0, <2>1, <2>3 DEF C!TimeoutIsLate, C!RowExists, C!WaitOver, FailureIsOnRecord,
                            C!FailureIsOnRecord
  <2> QED
    BY <2>1, <2>3, <2>4, <2>5, <2>6 DEF CancelInv, RowKept
<1>6. CASE C!CronScan
  <2>1. row.id \in C!SagaIds
    BY <1>0, <1>6 DEF C!CronScan, C!StateOK, C!SagaRow
  <2>2. C!StateOK' /\ row' = row
    BY <1>0, <1>6, <2>1 DEF C!CronScan, C!StateOK
  <2>3. /\ UNCHANGED <<cInbox, cQueue, cJob, cOutbox, cOutcome, cHttp, refund>>
        /\ row # NoSaga /\ cCron' = row.id /\ cHttp[row.id] # "waiting"
    BY <1>6 DEF C!CronScan
  <2>4. CancelsInOrder' /\ FailureIsOnRecord'
    BY <1>0, <2>2, <2>3 DEF CancelsInOrder, FailureIsOnRecord, C!FailureIsOnRecord,
                            C!OnlyRequest, C!RowExists, C!WaitOver
  <2>5. C!TimeoutIsLate'
    BY <1>0, <2>2, <2>3 DEF C!TimeoutIsLate, C!RowExists, C!WaitOver
  <2> QED
    BY <2>2, <2>4, <2>5 DEF CancelInv, RowKept
<1>7. CASE C!CronFail
  <2>1. /\ UNCHANGED <<idExterno, cInbox, cQueue, cJob, cOutbox, cOutcome, cHttp,
                       cancellables, refund, redeliveries, crashes>>
        /\ cCron # NoSaga /\ cCron' = NoSaga
    BY <1>7 DEF C!CronFail
  <2>2. CASE row' = row
    <3>1. C!StateOK'
      BY <1>0, <2>1, <2>2 DEF C!StateOK
    <3> QED
      BY <1>0, <2>1, <2>2, <3>1, EventsMoveKeeps DEF CancelsInOrder, RowKept
  <2>3. CASE C!RowExists(cCron) /\ row' = [row EXCEPT !.step = "FAILED", !.last_error = "SAGA_TIMEOUT"]
    <3>1. row \in C!SagaRow /\ row # NoSaga /\ row.id = cCron
      BY <1>0, <2>3 DEF C!StateOK, C!RowExists
    <3>2. /\ row' \in C!SagaRow /\ row'.id = row.id
          /\ row'.step = "FAILED" /\ row'.last_error = "SAGA_TIMEOUT"
      BY <2>3, <3>1 DEF C!SagaRow
    <3>3. C!StateOK' /\ CancelsInOrder'
      BY <1>0, <2>1, <3>2 DEF C!StateOK, CancelsInOrder
    <3>4. \A q \in Requests : C!RowExists(q)' => C!WaitOver(q)'
      BY <1>0, <2>1, <3>1, <3>2 DEF C!TimeoutIsLate, C!RowExists, C!WaitOver
    <3>5. C!TimeoutIsLate' /\ FailureIsOnRecord'
      BY <2>1, <3>2, <3>4 DEF C!TimeoutIsLate, FailureIsOnRecord, C!FailureIsOnRecord
    <3> QED
      BY <3>1, <3>2, <3>3, <3>5 DEF CancelInv, RowKept
  <2> QED
    BY <1>7, <2>2, <2>3 DEF C!CronFail
<1> QED
  BY <1>1, <1>2, <1>3, <1>4, <1>5, <1>6, <1>7

\* A restart of the process.
LEMMA CrashKeeps ==
  ASSUME CancelInv, C!Crash
  PROVE  CancelInv'
<1>0. C!StateOK /\ CancelsInOrder
  BY DEF CancelInv
<1>1. /\ UNCHANGED <<idExterno, row, cInbox, cOutbox, cOutcome, refund, cancellables,
                     redeliveries>>
      /\ cQueue' = cQueue \cup {cJob[h].ev : h \in {g \in CancelHandlers : cJob[g] # NoJob}}
      /\ cJob' = [h \in CancelHandlers |-> NoJob] /\ cCron' = NoSaga
      /\ cHttp' = [r \in Requests |-> IF cHttp[r] \in C!Answered \cup {"request"}
                                        THEN cHttp[r] ELSE "connectionLost"]
      /\ crashes' \in 0..MaxCrashes
  BY <1>0, BoundsAssumption DEF C!Crash, C!readVars, C!StateOK
<1>2. \A h \in CancelHandlers : cJob[h] # NoJob => cJob[h].ev \in C!Cancels
  BY <1>0 DEF C!StateOK, C!Job
<1>3. cQueue' \subseteq C!Cancels
  BY <1>0, <1>1, <1>2 DEF C!StateOK
<1>4. \A q \in Requests : cHttp'[q] \in {cHttp[q], "connectionLost"}
  BY <1>1
<1>5. cHttp' \in [Requests -> C!HttpState]
  BY <1>0, <1>1, <1>4 DEF C!StateOK, C!HttpState, C!Answered
<1>6. C!StateOK'
  BY <1>0, <1>1, <1>3, <1>5 DEF C!StateOK
<1> QED
  BY <1>0, <1>1, <1>4, <1>6, EventsMoveKeeps DEF CancelsInOrder

-----------------------------------------------------------------------------
(* Both together. *)

\* Nothing was asked of either side yet.
LEMMA InitIInv2 == Init2 => IInv2
<1> SUFFICES ASSUME Init2 PROVE IInv2
  OBVIOUS
<1>1. SagaInv /\ CheckoutInOrder /\ StateOK
  BY InitSagaInv, InitStateOK, AloneIsInOrder DEF Init2
<1>2. C!StateOK
  BY <1>1, BoundsAssumption DEF Init2, Init, C!StateOK, C!HttpState, StateOK
<1>3. TypeOK2 /\ RowsAgree /\ CancellablesAreIds /\ CancelledHolds
  BY <1>1, <1>2
  DEF Init2, Init, TypeOK2, RowsAgree, Present, CancellablesAreIds, CancelledHolds
<1>4. CancelsInOrder /\ C!TimeoutIsLate /\ FailureIsOnRecord
  BY DEF Init2, CancelsInOrder, C!TimeoutIsLate, C!RowExists, FailureIsOnRecord,
         C!FailureIsOnRecord
<1> QED
  BY <1>1, <1>3, <1>4 DEF IInv2

\* A step of the checkout leaves the cancellation in order.
LEMMA CancelUntouched ==
  ASSUME CancelInv, StateOK', UNCHANGED cancelVars
  PROVE  CancelInv'
<1>1. C!StateOK'
  BY DEF CancelInv, C!StateOK, StateOK, cancelVars
<1> QED
  BY <1>1
  DEF CancelInv, cancelVars, CancelsInOrder, C!TimeoutIsLate, C!WaitOver,
      FailureIsOnRecord, C!FailureIsOnRecord, C!OnlyRequest, C!RowExists

\* The checkout goes on.
LEMMA CheckoutKeeps ==
  ASSUME IInv2, CheckoutStep, UNCHANGED cancelVars
  PROVE  IInv2'
<1> USE DEF IInv2
<1>1. /\ StateOK' /\ CheckoutInOrder' /\ idExterno \subseteq idExterno'
      /\ ~Present => ~Present'
  BY CheckoutStepKeeps, NoRowStays
<1>2. CancelInv'
  BY <1>1, CancelUntouched DEF CancelInv, TypeOK2
<1>3. TypeOK2'
  BY <1>1, <1>2, CheckoutWrites DEF TypeOK2, CancelInv
<1>4. RowsAgree' /\ CancellablesAreIds'
  BY <1>1 DEF RowsAgree, CancellablesAreIds, cancelVars
<1>5. ASSUME NEW r \in Requests, cHttp'[r] = "ok", cancellables'[r] # {},
             reserva' # "CANCELADA"
      PROVE  http' = "ok"
  <2>1. cHttp[r] = "ok" /\ cancellables[r] # {}
    BY <1>5 DEF cancelVars
  <2>2. Started
    BY <2>1, NothingBefore DEF CancellablesAreIds, CheckoutInOrder
  <2> QED
    BY <1>5, <2>1, <2>2, CheckoutWrites DEF CancelledHolds
<1> QED
  BY <1>1, <1>2, <1>3, <1>4, <1>5 DEF CancelInv, CancelledHolds

\* The checkout starts its saga, when no row is in its way.
LEMMA StartKeeps ==
  ASSUME IInv2, NEW payable \in BOOLEAN, StartCheckout(payable)
  PROVE  IInv2'
<1> USE DEF IInv2
<1>1. /\ CreateSaga(payable) /\ row' = C!CheckoutSaga("COMPLETED")
      /\ UNCHANGED <<cInbox, cOutbox, cOutcome, cQueue, cJob, cCron, cHttp, cancellables,
                     refund>>
  BY DEF StartCheckout
<1>2. [Next]_vars /\ http = "converted" /\ UNCHANGED <<reserva, idExterno>>
  BY <1>1 DEF CreateSaga, Next, HttpStep
<1>3. StateOK' /\ CheckoutInOrder'
  BY <1>2, NextStateOK, PresentKeeps DEF TypeOK2, Started
<1>4. row' \in C!SagaRow /\ row'.id = CheckoutSagaId /\ row' # NoSaga
  BY <1>1, Rows, RowAssumption
<1>5. TypeOK2'
  BY <1>1, <1>2, <1>3, <1>4 DEF TypeOK2, C!StateOK, StateOK
<1>6. RowsAgree' /\ CancellablesAreIds'
  BY <1>1, <1>2, <1>4 DEF RowsAgree, CancellablesAreIds
<1>7. CancelsInOrder'
  BY <1>1 DEF CancelsInOrder
<1>8. C!TimeoutIsLate' /\ FailureIsOnRecord'
  BY <1>1, <1>4, RequestsAssumption
  DEF C!TimeoutIsLate, C!WaitOver, FailureIsOnRecord, C!FailureIsOnRecord, C!RowExists
<1>9. CancelledHolds'
  BY <1>1, <1>2 DEF CancelledHolds
<1> QED
  BY <1>3, <1>5, <1>6, <1>7, <1>8, <1>9

\* The checkout, when only the cancellation moves.
LEMMA CheckoutUntouched ==
  ASSUME CheckoutInOrder, UNCHANGED checkoutVars, UNCHANGED idExterno,
         redeliveries' \in 0..MaxRedeliveries, crashes' \in 0..MaxCrashes
  PROVE  StateOK' /\ CheckoutInOrder'
<1>1. StateOK'
  BY DEF CheckoutInOrder, Orderly, StateOK, checkoutVars
<1>2. EventsAreAnswers'
  BY DEF CheckoutInOrder, Orderly, EventsAreAnswers, checkoutVars
<1> QED
  BY <1>1, <1>2, QuietKeeps DEF checkoutVars

\* The consumers and the cron of the cancellation, and what comes from outside.
LEMMA CancelKeeps ==
  ASSUME IInv2, CancelStep, UNCHANGED checkoutVars
  PROVE  IInv2'
<1> USE DEF IInv2
<1>1. CancelInv' /\ RowKept
  BY CommitKeeps, EnvironmentKeeps DEF CancelStep, C!HandlerStep, CancelInv, TypeOK2
<1>2. UNCHANGED <<reserva, idExterno, cHttp, cancellables>>
  BY DEF CancelStep, C!HandlerStep, C!ServiceAnswers, C!Redeliver, C!Receive, C!AckUnhandled,
         C!Take, C!Commit, C!Rollback, C!RefundReported, C!CronScan, C!CronFail, C!readVars
<1>3. StateOK' /\ CheckoutInOrder'
  BY <1>1, <1>2, CheckoutUntouched DEF CancelInv, C!StateOK
<1>4. TypeOK2'
  BY <1>1, <1>2, <1>3 DEF TypeOK2, CancelInv
<1>5. RowsAgree'
  BY <1>1, RowAssumption DEF RowKept, RowsAgree, Present, checkoutVars
<1>6. CancellablesAreIds' /\ CancelledHolds'
  BY <1>2 DEF CancellablesAreIds, CancelledHolds, checkoutVars
<1> QED
  BY <1>1, <1>3, <1>4, <1>5, <1>6 DEF CancelInv

\* What a request to cancel writes of what it shares with the checkout.
LEMMA CancelWrites ==
  ASSUME NEW r \in Requests, C!HttpStep(r), C!StateOK
  PROVE  /\ UNCHANGED idExterno
         /\ reserva' \in {reserva, "CANCELADA"}
         /\ row' = row \/ row' = NoSaga \/ row = NoSaga
         /\ \A q \in Requests : cancellables'[q] \in {cancellables[q], idExterno}
         /\ \/ reserva' = "CANCELADA"
            \/ \A q \in Requests :
                 cHttp'[q] = "ok" => cHttp[q] = "ok" /\ cancellables'[q] = cancellables[q]
BY DEF C!HttpStep, C!ReadReserva, C!ListCancellables, C!MarkCancelled, C!CleanSaga, C!CreateSaga,
       C!CreateSagaFails, C!PollCancelled, C!WaitTimesOut, C!Goto, C!readVars, C!StateOK

\* The requests to cancel; one of them deletes the row of the checkout.
LEMMA RequestKeeps ==
  ASSUME IInv2, NEW r \in Requests, CancelHttp(r)
  PROVE  IInv2'
<1> USE DEF IInv2
<1>1. C!HttpStep(r) /\ C!StateOK
  BY DEF CancelHttp, CleanAnySaga, C!HttpStep, TypeOK2
<1>2. CancelInv'
  BY <1>1, CancelHttpKeeps DEF CancelInv
<1>3. UNCHANGED idExterno /\ redeliveries' \in 0..MaxRedeliveries /\ crashes' \in 0..MaxCrashes
  BY <1>1, <1>2, CancelWrites DEF CancelInv, C!StateOK
<1>4. /\ StateOK' /\ CheckoutInOrder' /\ UNCHANGED http
      /\ ~Present' \/ (UNCHANGED saga /\ ~C!CleanSaga(r))
  <2>1. CASE CleanAnySaga(r)
    <3>1. /\ UNCHANGED <<inbox, outbox, outcome, queue, job, cron, http>>
          /\ saga' = [step |-> NoRow, items_created |-> 0, items_confirmed |-> 0,
                      payable |-> FALSE, payment_id |-> FALSE, invoice_id |-> FALSE,
                      invoiceInContext |-> FALSE]
      BY <2>1 DEF CleanAnySaga
    <3>2. StateOK'
      BY <1>3, <3>1 DEF TypeOK2, StateOK, SagaRow
    <3> QED
      BY <1>3, <3>1, <3>2, RowDeletedKeeps
  <2>2. CASE UNCHANGED checkoutVars /\ ~C!CleanSaga(r)
    BY <1>3, <2>2, CheckoutUntouched DEF checkoutVars
  <2>3. CASE UNCHANGED checkoutVars /\ ~CleanAnySaga(r)
    <3>1. ~C!CleanSaga(r)
      <4>1. \/ C!ReadReserva(r) \/ C!ListCancellables(r) \/ C!MarkCancelled(r)
            \/ C!CreateSaga(r) \/ C!CreateSagaFails(r)
            \/ C!PollCancelled(r) \/ C!WaitTimesOut(r)
        BY <2>3 DEF CancelHttp
      <4>2. cHttp[r] # "clean"
        BY <4>1 DEF C!ReadReserva, C!ListCancellables, C!MarkCancelled, C!CreateSaga,
                    C!CreateSagaFails, C!PollCancelled, C!WaitTimesOut
      <4> QED
        BY <4>2 DEF C!CleanSaga
    <3> QED
      BY <2>2, <2>3, <3>1
  <2> QED
    BY <2>1, <2>3 DEF CancelHttp
<1>5. TypeOK2'
  BY <1>1, <1>2, <1>4, CancelWrites DEF TypeOK2, CancelInv
<1>6. RowsAgree'
  <2>1. ASSUME Present', UNCHANGED saga, ~C!CleanSaga(r) PROVE row' = row
    <3>1. row # NoSaga
      BY <2>1 DEF RowsAgree, Present
    <3> QED
      BY <1>1, <2>1, <3>1
      DEF C!HttpStep, C!ReadReserva, C!ListCancellables, C!MarkCancelled, C!CreateSaga,
          C!CreateSagaFails, C!PollCancelled, C!WaitTimesOut
  <2> QED
    BY <1>4, <2>1 DEF RowsAgree, Present
<1>7. CancellablesAreIds' /\ CancelledHolds'
  BY <1>1, <1>3, <1>4, CancelWrites DEF CancellablesAreIds, CancelledHolds
<1> QED
  BY <1>2, <1>4, <1>5, <1>6, <1>7 DEF CancelInv

\* The process restarts, both sides of it.
LEMMA RestartKeeps ==
  ASSUME IInv2, Crash, C!Crash
  PROVE  IInv2'
<1> USE DEF IInv2
<1>1. CancelInv'
  BY CrashKeeps DEF CancelInv, TypeOK2
<1>2. /\ UNCHANGED <<reserva, saga, idExterno, inbox, outbox, outcome>>
      /\ http' = http \/ (http # "ok" /\ http' = "connectionLost")
      /\ cron' = "idle" /\ \A h \in Handlers : job'[h] = NoJob
      /\ [Next]_vars /\ Silent
  BY DEF Crash, Next, Silent
<1>3. StateOK' /\ EventsAreAnswers'
  BY <1>2, NextStateOK, SilentEvents DEF TypeOK2, CheckoutInOrder, Orderly
<1>4. CheckoutInOrder'
  BY <1>2, <1>3, QuietKeeps
<1>5. /\ UNCHANGED <<row, cancellables>>
      /\ \A r \in Requests : cHttp'[r] = "ok" => cHttp[r] = "ok"
  BY DEF C!Crash, C!readVars
<1>6. TypeOK2' /\ RowsAgree' /\ CancellablesAreIds' /\ CancelledHolds'
  BY <1>1, <1>2, <1>3, <1>5
  DEF TypeOK2, CancelInv, RowsAgree, Present, CancellablesAreIds, CancelledHolds
<1> QED
  BY <1>1, <1>4, <1>6 DEF CancelInv

\* Nothing happens.
LEMMA StutterKeeps == IInv2 /\ UNCHANGED allVars => IInv2'
<1> SUFFICES ASSUME IInv2, UNCHANGED allVars PROVE IInv2'
  OBVIOUS
<1>1. UNCHANGED vars /\ UNCHANGED cancelVars
  BY DEF allVars
<1>2. Silent /\ [Next]_vars
  BY <1>1 DEF Silent
<1>3. StateOK' /\ EventsAreAnswers'
  BY <1>2, NextStateOK, SilentEvents DEF IInv2, TypeOK2, CheckoutInOrder, Orderly
<1>4. CheckoutInOrder'
  BY <1>1, <1>3, QuietKeeps DEF IInv2, vars
<1>5. CancelInv'
  BY <1>1, <1>3, CancelUntouched DEF IInv2, CancelInv, TypeOK2
<1> QED
  BY <1>1, <1>3, <1>4, <1>5
  DEF IInv2, TypeOK2, CancelInv, vars, cancelVars, RowsAgree, Present, CancellablesAreIds,
      CancelledHolds

\* Every step of either side keeps the invariant of both.
LEMMA NextIInv2 == IInv2 /\ [Next2]_allVars => IInv2'
BY CheckoutKeeps, StartKeeps, CancelKeeps, RequestKeeps, RestartKeeps, StutterKeeps DEF Next2

\* Every reachable state satisfies it.
THEOREM Invariant2 == Spec2 => []IInv2
BY InitIInv2, NextIInv2, PTL DEF Spec2

\* The variables of both sides keep their types.
THEOREM TypeCorrect2 == Spec2 => []TypeOK2
<1>1. IInv2 => TypeOK2
  BY DEF IInv2
<1> QED
  BY <1>1, Invariant2, PTL

\* The checkout beside it does not erase the failure of a cancellation: with a
\* single request to cancel, only the cron of the cancellation, once the request
\* waits no more, and the report of a refund write over it.
THEOREM FailureIsOnRecordAlways == Spec2 => []FailureIsOnRecord
<1>1. IInv2 => FailureIsOnRecord
  BY DEF IInv2
<1> QED
  BY <1>1, Invariant2, PTL

\* After a cancellation deleted its row the checkout charges nobody, asks for no
\* confirmation and stores no id.
THEOREM DeletedSagaIsSilentAlways == Spec2 => DeletedSagaIsSilent
<1> DEFINE Same == /\ outbox'[Payment] = outbox[Payment]
                   /\ \A i \in Items : outbox'[Confirm(i)] = outbox[Confirm(i)]
                   /\ idExterno' = idExterno
<1>1. IInv2 /\ [Next2]_allVars => [Started /\ ~Present => Same]_allVars
  <2> SUFFICES ASSUME IInv2, Next2, Started, ~Present PROVE Same
    BY DEF allVars, vars
  <2>0. StateOK /\ EventsAreAnswers /\ Orderly
    BY DEF IInv2, TypeOK2, CheckoutInOrder, Orderly
  <2>1. CASE CheckoutStep
    <3>1. CASE Silent \/ GivesUp
      BY <2>0, <3>1, SilentFrame, GivesUpFrame
    <3>2. ASSUME NEW h \in Handlers, Processed(h) PROVE Same
      BY <2>0, <3>2, ProcessedEffect, MessageTypes, MessagesDiffer DEF OnlyPublishes
    <3>3. ASSUME NEW h \in Handlers, Compensates(h) PROVE Same
      BY <3>3, CompensatesFrom DEF Compensate
    <3> QED
      BY <2>1, <3>1, <3>2, <3>3, CheckoutKinds DEF Rowless
  <2>2. ASSUME NEW payable \in BOOLEAN, StartCheckout(payable) PROVE FALSE
    BY <2>2 DEF StartCheckout, CreateSaga, Started
  <2>3. CASE CancelStep /\ UNCHANGED checkoutVars
    BY <2>3 DEF checkoutVars, CancelStep, C!HandlerStep, C!ServiceAnswers, C!Redeliver,
                C!Receive, C!AckUnhandled, C!Take, C!Commit, C!Rollback, C!RefundReported,
                C!CronScan, C!CronFail
  <2>4. ASSUME NEW r \in Requests, CancelHttp(r) PROVE Same
    <3>1. UNCHANGED outbox
      BY <2>4 DEF CancelHttp, CleanAnySaga, checkoutVars
    <3>2. UNCHANGED idExterno
      BY <2>4, CancelWrites DEF CancelHttp, CleanAnySaga, C!HttpStep, IInv2, TypeOK2
    <3> QED
      BY <3>1, <3>2
  <2>5. CASE Crash
    BY <2>5 DEF Crash
  <2> QED
    BY <2>1, <2>2, <2>3, <2>4, <2>5 DEF Next2
<1> QED
  BY <1>1, Invariant2, PTL DEF Spec2, DeletedSagaIsSilent

-----------------------------------------------------------------------------
(* What a cancellation counts. *)

\* Whoever leaves the answers, the commands and what the requests read alone,
\* and takes no request towards its row or its end, leaves the counts right.
LEMMA CountsKept ==
  ASSUME CountsInOrder, UNCHANGED <<cInbox, cOutbox, cancellables>>,
         \/ row' = row \/ row' = NoSaga
         \/ row'.id \notin Requests /\ row'.items_cancelled = 0
         \/ /\ row # NoSaga /\ row'.id = row.id
            /\ row'.total_items = row.total_items
            /\ row'.items_cancelled = row.items_cancelled,
         \A q \in Requests : cHttp'[q] = cHttp[q] \/ cHttp'[q] \notin Unsent \cup {"mark", "ok"}
  PROVE  CountsInOrder'
<1>1. Cardinality(cInbox) \in Nat
  BY FS_CardinalityType DEF CountsInOrder
<1>2. row' # NoSaga => row'.items_cancelled <= Cardinality(cInbox)
  BY <1>1 DEF CountsInOrder
<1>3. row' # NoSaga /\ row'.id \in Requests =>
        cHttp'[row'.id] \notin Unsent /\ row'.total_items = Cardinality(cancellables[row'.id])
  BY DEF CountsInOrder, Unsent
<1>4. \A r \in Requests :
        /\ cHttp'[r] = "direct" => cancellables[r] = {}
        /\ cHttp'[r] \in {"mark", "ok"} => Cardinality(cInbox) >= Cardinality(cancellables[r])
  BY DEF CountsInOrder, Unsent
<1> QED
  BY <1>2, <1>3, <1>4 DEF CountsInOrder, Unsent

\* Nothing was counted yet.
LEMMA InitCounts == Init2 => CountsInOrder
<1> SUFFICES ASSUME Init2 PROVE CountsInOrder
  OBVIOUS
<1> QED
  BY FS_EmptySet DEF Init2, CountsInOrder

\* The transaction of a handler counts one more answer, a new one.
LEMMA CommitCounts ==
  ASSUME IInv2, CountsInOrder, NEW h \in CancelHandlers, C!Commit(h)
  PROVE  CountsInOrder'
<1>1. /\ cInbox' = cInbox \cup {cJob[h].ev} /\ cJob[h].ev \notin cInbox /\ row # NoSaga
      /\ row' = [row EXCEPT !.items_cancelled = @ + 1,
            !.last_error = IF cOutcome[cJob[h].ev] = "failed"
                             THEN "MANUAL_INTERVENTION_NEEDED" ELSE @]
      /\ UNCHANGED <<cOutbox, cHttp, cancellables>>
  BY DEF C!Commit, C!RowExists, C!readVars
<1>2. row \in C!SagaRow
  BY <1>1 DEF IInv2, TypeOK2, C!StateOK
<1>3. /\ row'.id = row.id /\ row'.total_items = row.total_items
      /\ row'.items_cancelled = row.items_cancelled + 1 /\ row.items_cancelled \in Nat
  BY <1>1, <1>2 DEF C!SagaRow
<1>4. /\ IsFiniteSet(cInbox') /\ Cardinality(cInbox) \in Nat
      /\ Cardinality(cInbox') = Cardinality(cInbox) + 1
  BY <1>1, FS_AddElement, FS_CardinalityType DEF CountsInOrder
<1>5. \A r \in Requests : Cardinality(cancellables[r]) \in Nat
  BY ItemSets DEF IInv2, TypeOK2, C!StateOK
<1>6. row'.items_cancelled <= Cardinality(cInbox')
  BY <1>1, <1>3, <1>4 DEF CountsInOrder
<1>7. \A r \in Requests : cHttp'[r] \in {"mark", "ok"} =>
        Cardinality(cInbox') >= Cardinality(cancellables[r])
  BY <1>1, <1>4, <1>5 DEF CountsInOrder
<1> QED
  BY <1>1, <1>3, <1>4, <1>6, <1>7 DEF CountsInOrder

\* Everybody else beside the requests.
LEMMA EnvironmentCounts ==
  ASSUME IInv2, CountsInOrder, CancelStep
  PROVE  CountsInOrder'
<1> USE DEF C!consumerVars, C!readVars
<1>0. row # NoSaga => row \in C!SagaRow
  BY DEF IInv2, TypeOK2, C!StateOK
<1>1. ASSUME NEW out \in RefundReports, C!RefundReported(out) PROVE CountsInOrder'
  <2>1. /\ row # NoSaga /\ UNCHANGED <<cInbox, cOutbox, cancellables, cHttp>>
        /\ row' = [row EXCEPT !.last_error = C!RefundRecord(out)]
    BY <1>1 DEF C!RefundReported
  <2>2. /\ row'.id = row.id /\ row'.total_items = row.total_items
        /\ row'.items_cancelled = row.items_cancelled
    BY <1>0, <2>1 DEF C!SagaRow
  <2> QED
    BY <2>1, <2>2, CountsKept
<1>2. CASE C!CronFail
  <2>1. /\ UNCHANGED <<cInbox, cOutbox, cancellables, cHttp>>
        /\ \/ row' = row
           \/ row # NoSaga /\ row' = [row EXCEPT !.step = "FAILED", !.last_error = "SAGA_TIMEOUT"]
    BY <1>2 DEF C!CronFail, C!RowExists
  <2>2. \/ row' = row
        \/ /\ row # NoSaga /\ row'.id = row.id
           /\ row'.total_items = row.total_items
           /\ row'.items_cancelled = row.items_cancelled
    BY <1>0, <2>1 DEF C!SagaRow
  <2> QED
    BY <2>1, <2>2, CountsKept
<1>3. ASSUME UNCHANGED <<row, cInbox, cOutbox, cancellables, cHttp>> PROVE CountsInOrder'
  BY <1>3, CountsKept
<1>4. ASSUME NEW c \in C!Cancels,
             C!Redeliver(c) \/ C!Receive(c) \/ \E out \in {"ok", "failed"} : C!ServiceAnswers(c, out)
      PROVE  CountsInOrder'
  BY <1>3, <1>4 DEF C!Redeliver, C!Receive, C!AckUnhandled, C!Take, C!ServiceAnswers
<1>5. ASSUME NEW h \in CancelHandlers, C!HandlerStep(h) PROVE CountsInOrder'
  BY <1>3, <1>5, CommitCounts DEF C!HandlerStep, C!Rollback
<1>6. CASE C!CronScan
  BY <1>3, <1>6 DEF C!CronScan
<1> QED
  BY <1>1, <1>2, <1>4, <1>5, <1>6 DEF CancelStep

\* The requests: one lists before it has commands or a row, one marks the
\* reserva when its row has counted as many answers as it listed detalles.
LEMMA RequestCounts ==
  ASSUME IInv2, CountsInOrder, NEW r \in Requests, C!HttpStep(r)
  PROVE  CountsInOrder'
<1> USE DEF C!consumerVars, C!readVars
<1>0. /\ cHttp \in [Requests -> C!HttpState] /\ cancellables \in [Requests -> SUBSET Items]
      /\ cOutbox \subseteq C!Cancels /\ idExterno \subseteq Items
      /\ row # NoSaga => row \in C!SagaRow
  BY DEF IInv2, TypeOK2, C!StateOK
<1>1. ASSUME NEW pc, C!Goto(r, pc)
      PROVE  \A q \in Requests : cHttp'[q] = IF q = r THEN pc ELSE cHttp[q]
  BY <1>0, <1>1 DEF C!Goto
<1>2. CASE C!ReadReserva(r)
  <2>1. /\ UNCHANGED <<row, cInbox, cOutbox, cancellables>> /\ cHttp[r] = "request"
        /\ C!Goto(r, "list") \/ C!Goto(r, "rejected")
    BY <1>2 DEF C!ReadReserva
  <2>2. \A q \in Requests : \/ q # r /\ cHttp'[q] = cHttp[q]
                            \/ q = r /\ cHttp'[q] \in {"list", "rejected"}
    BY <1>1, <2>1
  <2> QED
    BY <2>1, <2>2 DEF CountsInOrder
<1>3. CASE C!ListCancellables(r)
  <2>1. /\ UNCHANGED <<row, cInbox, cOutbox>> /\ cHttp[r] = "list"
        /\ cancellables' = [cancellables EXCEPT ![r] = idExterno]
        /\ C!Goto(r, IF idExterno = {} THEN "direct" ELSE "clean")
    BY <1>3 DEF C!ListCancellables
  <2>2. \A q \in Requests : /\ q # r => cHttp'[q] = cHttp[q] /\ cancellables'[q] = cancellables[q]
                            /\ q = r => /\ cHttp'[q] \in {"direct", "clean"}
                                        /\ cHttp'[q] = "direct" => cancellables'[q] = {}
    BY <1>0, <1>1, <2>1
  <2>3. row # NoSaga => row.id # r
    BY <2>1 DEF CountsInOrder
  <2>4. \A c \in cOutbox : c.saga # r /\ c.saga \in Requests
    BY <1>0, <2>1, CancelFields DEF IInv2, CancelsInOrder
  <2> QED
    BY <2>1, <2>2, <2>3, <2>4 DEF CountsInOrder
<1>4. CASE C!MarkCancelled(r)
  <2>1. /\ UNCHANGED <<row, cInbox, cOutbox, cancellables>> /\ cHttp[r] \in {"direct", "mark"}
        /\ C!Goto(r, "ok")
    BY <1>4 DEF C!MarkCancelled
  <2>2. \A q \in Requests : /\ q # r => cHttp'[q] = cHttp[q]
                            /\ q = r => cHttp'[q] = "ok"
    BY <1>1, <2>1
  <2>3. Cardinality(cInbox) >= Cardinality(cancellables[r])
    <3>1. Cardinality(cInbox) \in Nat /\ Cardinality({}) = 0
      BY FS_EmptySet, FS_CardinalityType DEF CountsInOrder
    <3>2. cancellables[r] = {} \/ cHttp[r] = "mark"
      BY <2>1 DEF CountsInOrder
    <3> QED
      BY <3>1, <3>2 DEF CountsInOrder
  <2> QED
    BY <2>1, <2>2, <2>3 DEF CountsInOrder
<1>5. CASE C!CreateSaga(r)
  <2>1. /\ UNCHANGED <<cInbox, cancellables>> /\ cHttp[r] = "create" /\ C!Goto(r, "waiting")
        /\ row' = [id |-> r, total_items |-> C!Cardinality(cancellables[r]),
                   items_cancelled |-> 0, step |-> "COMPENSATING", last_error |-> "none"]
        /\ cOutbox' = cOutbox \cup {C!Cancel(r, i) : i \in cancellables[r]}
    BY <1>5 DEF C!CreateSaga
  <2>2. \A q \in Requests : /\ q # r => cHttp'[q] = cHttp[q]
                            /\ q = r => cHttp'[q] = "waiting"
    BY <1>1, <2>1
  <2>3. /\ row'.id = r /\ row'.items_cancelled = 0
        /\ row'.total_items = Cardinality(cancellables[r])
    BY <2>1, SameCardinality
  <2>4. Cardinality(cInbox) \in Nat
    BY FS_CardinalityType DEF CountsInOrder
  <2>5. \A c \in cOutbox' : c.item \in cancellables[c.saga]
    BY <2>1 DEF CountsInOrder, C!Cancel
  <2> QED
    BY <2>1, <2>2, <2>3, <2>4, <2>5 DEF CountsInOrder
<1>6. CASE C!PollCancelled(r)
  <2>1. /\ UNCHANGED <<row, cInbox, cOutbox, cancellables>>
        /\ \/ C!Goto(r, "gatewayTimeout")
           \/ /\ row # NoSaga /\ row.id = r /\ row.items_cancelled >= row.total_items
              /\ C!Goto(r, "mark")
    BY <1>6 DEF C!PollCancelled, C!RowExists
  <2>2. CASE C!Goto(r, "gatewayTimeout")
    <3>1. \A q \in Requests : cHttp'[q] = cHttp[q] \/ cHttp'[q] \notin Unsent \cup {"mark", "ok"}
      BY <1>1, <2>2 DEF Unsent
    <3> QED
      BY <2>1, <3>1, CountsKept
  <2>3. CASE /\ row # NoSaga /\ row.id = r /\ row.items_cancelled >= row.total_items
             /\ C!Goto(r, "mark")
    <3>1. \A q \in Requests : /\ q # r => cHttp'[q] = cHttp[q]
                              /\ q = r => cHttp'[q] = "mark"
      BY <1>1, <2>3
    <3>2. Cardinality(cInbox) >= Cardinality(cancellables[r])
      <4>1. row.items_cancelled \in Nat /\ row.total_items \in Nat
        BY <1>0, <2>3 DEF C!SagaRow
      <4>2. Cardinality(cInbox) \in Nat
        BY FS_CardinalityType DEF CountsInOrder
      <4> QED
        BY <2>3, <4>1, <4>2 DEF CountsInOrder
    <3> QED
      BY <2>1, <2>3, <3>1, <3>2 DEF CountsInOrder
  <2> QED
    BY <2>1, <2>2, <2>3
<1>7. ASSUME row' \in {row, NoSaga}, UNCHANGED <<cInbox, cOutbox, cancellables>>,
             NEW pc \in {"create", "error500", "gatewayTimeout"}, C!Goto(r, pc),
             pc = "create" => row' = NoSaga
      PROVE  CountsInOrder'
  <2>1. \A q \in Requests : /\ q # r => cHttp'[q] = cHttp[q]
                            /\ q = r => cHttp'[q] = pc
    BY <1>1, <1>7
  <2> QED
    BY <1>7, <2>1 DEF CountsInOrder
<1>8. CASE C!CleanSaga(r)
  BY <1>7, <1>8 DEF C!CleanSaga
<1>9. CASE C!CreateSagaFails(r)
  BY <1>7, <1>9 DEF C!CreateSagaFails
<1>10. CASE C!WaitTimesOut(r)
  BY <1>7, <1>10 DEF C!WaitTimesOut
<1> QED
  BY <1>2, <1>3, <1>4, <1>5, <1>6, <1>8, <1>9, <1>10 DEF C!HttpStep

\* Every step leaves the counts right.
LEMMA NextCounts == FullInv2 /\ [Next2]_allVars => CountsInOrder'
<1> SUFFICES ASSUME IInv2, CountsInOrder, [Next2]_allVars PROVE CountsInOrder'
  BY DEF FullInv2
<1>1. CASE UNCHANGED cancelVars
  BY <1>1, CountsKept DEF cancelVars
<1>2. ASSUME NEW payable \in BOOLEAN, StartCheckout(payable) PROVE CountsInOrder'
  <2>1. row'.id \notin Requests /\ row'.items_cancelled = 0
    BY <1>2, RequestsAssumption DEF StartCheckout, C!CheckoutSaga
  <2> QED
    BY <1>2, <2>1, CountsKept DEF StartCheckout
<1>3. ASSUME NEW r \in Requests, CancelHttp(r) PROVE CountsInOrder'
  BY <1>3, RequestCounts DEF CancelHttp, CleanAnySaga, C!HttpStep
<1>4. CASE C!Crash
  <2>1. \A q \in Requests : cHttp'[q] \in {cHttp[q], "connectionLost"}
    BY <1>4 DEF C!Crash
  <2> QED
    BY <1>4, <2>1, CountsKept DEF C!Crash, C!readVars, Unsent
<1> QED
  BY <1>1, <1>2, <1>3, <1>4, EnvironmentCounts DEF Next2, allVars

\* Every reachable state satisfies both.
THEOREM FullInvariant2 == Spec2 => []FullInv2
<1>1. Init2 => FullInv2
  BY InitIInv2, InitCounts DEF FullInv2
<1>2. FullInv2 /\ [Next2]_allVars => FullInv2'
  BY NextIInv2, NextCounts DEF FullInv2
<1> QED
  BY <1>1, <1>2, PTL DEF Spec2

\* A cancellation told as done is whole: what is in the inbox was ordered by
\* some request, by none but r when there is no other; it has an answer per
\* detalle, and as many different ones as detalles.
LEMMA DoneIsWhole ==
  ASSUME FullInv2, NEW r \in Requests, cHttp[r] = "ok"
  PROVE  CancellationWasWhole(r)
<1>0. /\ IInv2 /\ CountsInOrder /\ CancelsInOrder /\ cInbox \subseteq C!Cancels
      /\ cancellables[r] \subseteq Items
  BY DEF FullInv2, IInv2, TypeOK2, C!StateOK
<1>1. Cardinality(cInbox) >= Cardinality(cancellables[r])
  BY <1>0 DEF CountsInOrder
<1>2. ASSUME C!OnlyRequest(r), NEW i \in cancellables[r] PROVE C!Cancel(r, i) \in cInbox
  <2> DEFINE f == [c \in cInbox |-> c.item]
  <2>1. \A c \in cInbox : c = C!Cancel(r, c.item) /\ c.item \in cancellables[r]
    <3> SUFFICES ASSUME NEW c \in cInbox
                 PROVE  c = C!Cancel(r, c.item) /\ c.item \in cancellables[r]
      OBVIOUS
    <3>1. c \in C!Cancels /\ c \in cOutbox
      BY <1>0 DEF CancelsInOrder
    <3>2. c.saga \in Requests /\ c = C!Cancel(c.saga, c.item)
      BY <3>1 DEF C!Cancels, C!Cancel
    <3>3. cHttp[c.saga] # "request" /\ c.item \in cancellables[c.saga]
      BY <1>0, <3>1 DEF CancelsInOrder, CountsInOrder
    <3> QED
      BY <1>2, <3>2, <3>3 DEF C!OnlyRequest
  <2>2. f \in Injection(cInbox, cancellables[r])
    <3>1. f \in [cInbox -> cancellables[r]]
      BY <2>1
    <3>2. \A c, d \in cInbox : f[c] = f[d] => c = d
      BY <2>1
    <3> QED
      BY <3>1, <3>2 DEF Injection, IsInjective
  <2>3. /\ IsFiniteSet(cancellables[r]) /\ Cardinality(cancellables[r]) \in Nat
        /\ Cardinality(cInbox) \in Nat
    BY <1>0, ItemSets, FS_Subset, FS_CardinalityType, ItemsAssumption DEF CountsInOrder
  <2>4. /\ Cardinality(cInbox) <= Cardinality(cancellables[r])
        /\ Cardinality(cInbox) = Cardinality(cancellables[r])
             <=> f \in Surjection(cInbox, cancellables[r])
    BY <2>2, <2>3, FS_Injection
  <2>5. f \in Surjection(cInbox, cancellables[r])
    BY <1>1, <2>3, <2>4
  <2>6. PICK c \in cInbox : f[c] = i
    BY <1>2, <2>5 DEF Surjection
  <2> QED
    BY <2>1, <2>6
<1> QED
  BY <1>1, <1>2 DEF CancellationWasWhole

\* A success told to the client of the checkout was one; a cancellation told as
\* done has its answers, and is overwritten by nothing but such a success.
THEOREM AnswersHoldAlways == Spec2 => []AnswersHold
<1>1. FullInv2 => AnswersHold
  <2> SUFFICES ASSUME FullInv2 PROVE AnswersHold
    OBVIOUS
  <2>1. http = "ok" => CheckoutWasWhole
    BY ConfirmedIsWhole DEF FullInv2, IInv2, CheckoutInOrder, CheckoutWasWhole
  <2>2. \A r \in Requests : cHttp[r] = "ok" => CancellationWasWhole(r)
    BY DoneIsWhole
  <2> QED
    BY <2>1, <2>2 DEF FullInv2, IInv2, CancelledHolds, AnswersHold
<1> QED
  BY <1>1, FullInvariant2, PTL

-----------------------------------------------------------------------------
(* What CheckoutSaga guarantees alone it guarantees with its row deleted. *)

\* The customer is charged and invoiced at most once, cancelled or not.
THEOREM PublishedOnceTogether == Spec2 => []PublishedOnce
<1>1. IInv2 => PublishedOnce
  BY StagesPublishOnce DEF IInv2, CheckoutInOrder
<1> QED
  BY <1>1, Invariant2, PTL

\* No item is confirmed unpaid or without an invoice, cancelled or not.
THEOREM ConfirmOnlyPaidAndInvoicedTogether == Spec2 => []ConfirmOnlyPaidAndInvoiced
<1>1. IInv2 => ConfirmOnlyPaidAndInvoiced
  BY ConfirmsAreBacked DEF IInv2, CheckoutInOrder
<1> QED
  BY <1>1, Invariant2, PTL

\* A client told 502 is not charged, cancelled or not.
THEOREM BadGatewayNeverChargedTogether == Spec2 => []BadGatewayNeverCharged
<1>1. IInv2 => BadGatewayNeverCharged
  BY DEF IInv2, CheckoutInOrder, BadGatewayNeverCharged
<1> QED
  BY <1>1, Invariant2, PTL

\* A step of a request or a consumer of the cancellation is invisible in the
\* promise of the checkout; so is what the checkout does without its row, but
\* for the invoice of a payment and the answer to a client.
LEMMA StepRefinesTogether == IInv2 /\ [Next2]_allVars => [Promise!Next]_(Promise!vars)
<1> SUFFICES ASSUME IInv2, [Next2]_allVars PROVE [Promise!Next]_(Promise!vars)
  OBVIOUS
<1>0. StateOK /\ EventsAreAnswers /\ Orderly /\ AnswersWereAsked
  BY DEF IInv2, TypeOK2, CheckoutInOrder, Orderly
<1>1. ASSUME UNCHANGED <<inbox, outbox, idExterno>>, UNCHANGED Told
      PROVE  UNCHANGED Promise!vars
  BY <1>1, QuietStages, StagesAndTold
<1>2. CASE CheckoutStep
  <2>1. CASE (Present \/ ~Started) /\ [Next]_vars
    BY <2>1, StepRefines DEF IInv2, CheckoutInOrder
  <2>2. CASE ~Present /\ Started /\ Rowless
    <3>1. CASE Silent /\ AnswerSuccess
      <4>1. ItemsConfirmed = Items
        BY <3>1 DEF AnswerSuccess, IInv2, CheckoutInOrder
      <4> QED
        BY <3>1, <4>1, AnswerRefines DEF Promise!Next
    <3>2. CASE Silent /\ ~AnswerSuccess
      <4>1. UNCHANGED Told
        BY <1>0, <2>2, <3>2, RowlessFrame DEF Told
      <4> QED
        BY <1>1, <3>2, <4>1, SilentFrame
    <3>3. ASSUME NEW h \in Handlers, Processed(h) PROVE Promise!Next
      BY <1>0, <3>3, ProcessedRefines DEF Promise!Next
    <3>4. ASSUME NEW h \in Handlers, Compensates(h) PROVE UNCHANGED Promise!vars
      BY <1>0, <3>4, CompensatesFrom, CompensateRefines
    <3> QED
      BY <2>2, <3>1, <3>2, <3>3, <3>4 DEF Rowless
  <2>3. CASE GivesUp
    BY <1>0, <1>1, <2>3, GivesUpFrame DEF Told
  <2> QED
    BY <1>2, <2>1, <2>2, <2>3, CheckoutKinds
<1>3. ASSUME NEW payable \in BOOLEAN, StartCheckout(payable)
      PROVE  [Promise!Next]_(Promise!vars)
  <2>1. [Next]_vars /\ ~Started
    BY <1>3 DEF StartCheckout, CreateSaga, Next, HttpStep, Started
  <2> QED
    BY <2>1, StepRefines DEF IInv2, CheckoutInOrder
<1>4. CASE CancelStep /\ UNCHANGED checkoutVars
  <2>1. UNCHANGED idExterno
    BY <1>4 DEF CancelStep, C!HandlerStep, C!ServiceAnswers, C!Redeliver,
                C!Receive, C!AckUnhandled, C!Take, C!Commit, C!Rollback, C!RefundReported,
                C!CronScan, C!CronFail
  <2> QED
    BY <1>1, <1>4, <2>1 DEF checkoutVars, Told
<1>5. ASSUME NEW r \in Requests, CancelHttp(r) PROVE UNCHANGED Promise!vars
  <2>1. UNCHANGED <<inbox, outbox, http>>
    BY <1>5 DEF CancelHttp, CleanAnySaga, checkoutVars
  <2>2. UNCHANGED idExterno
    BY <1>5, CancelWrites DEF CancelHttp, CleanAnySaga, C!HttpStep, IInv2, TypeOK2
  <2> QED
    BY <1>1, <2>1, <2>2 DEF Told
<1>6. CASE Crash
  BY <1>1, <1>6 DEF Crash, Told
<1>7. CASE UNCHANGED allVars
  BY <1>1, <1>7 DEF allVars, vars, Told
<1> QED
  BY <1>2, <1>3, <1>4, <1>5, <1>6, <1>7 DEF Next2

\* The checkout keeps its promise while requests cancel it and delete its row.
THEOREM ImplementationTogether == Spec2 => ImplementsPromise
<1>1. Init2 => Promise!Init
  BY InitRefines DEF Init2
<1> QED
  BY <1>1, Invariant2, StepRefinesTogether, PTL DEF Spec2, ImplementsPromise, Promise!Spec
=============================================================================
