--------------------------- MODULE CancelV2Proofs ---------------------------
(***************************************************************************)
(* For any number of detalles, concurrent cancel requests and handlers, of *)
(* redeliveries and restarts: a reserva is CANCELADA only after as many    *)
(* different answers as it has detalles to cancel.                         *)
(***************************************************************************)
EXTENDS CancelV2, FiniteSetTheorems, TLAPS

\* The count of the row is backed by the inbox, and the row a request waits
\* for asks for as many answers as there are detalles to cancel.
RowIsBacked ==
  saga # NoSaga =>
    /\ saga.items_cancelled <= Cardinality(inbox)
    /\ saga.id \in Requests => saga.total_items = Cardinality(idExterno)

\* A request that is about to mark the reserva has seen enough answers, and
\* one about to create its row will ask for one per detalle.
MarkIsBacked ==
  \A r \in Requests :
    /\ http[r] = "direct" => idExterno = {}
    /\ http[r] \in {"clean", "create"} => cancellables[r] = idExterno
    /\ http[r] = "mark" => Cardinality(inbox) >= Cardinality(idExterno)

IInv == TypeOK /\ IsFiniteSet(inbox) /\ RowIsBacked /\ MarkIsBacked
        /\ CancelledNeedsAnswers

-----------------------------------------------------------------------------

\* idExterno and the inbox are finite sets, whose sizes are natural numbers.
LEMMA Sizes == ASSUME IInv PROVE /\ Cardinality(idExterno) \in Nat
                                 /\ Cardinality(inbox) \in Nat
                                 /\ Cardinality({}) = 0
BY FS_EmptySet, FS_CardinalityType, FS_Subset, ItemsAssumption DEF IInv, TypeOK, StateOK

\* The invariant holds when the checkout has ended.
LEMMA InitIInv == Init => IInv
<1> SUFFICES ASSUME Init PROVE IInv
  OBVIOUS
<1>0. Cardinality(Items) \in Nat /\ IsFiniteSet({}) /\ Cardinality({}) = 0
  BY FS_EmptySet, FS_CardinalityType, ItemsAssumption
<1>1. \A s \in {"COMPLETED", "FAILED"} :
        /\ CheckoutSaga(s) \in SagaRow
        /\ CheckoutSaga(s).items_cancelled = 0
        /\ CheckoutSaga(s).id \notin Requests
  BY <1>0, IdsAssumption DEF CheckoutSaga, SagaRow, SagaIds
<1>2. saga \in {NoSaga, CheckoutSaga("COMPLETED"), CheckoutSaga("FAILED")}
  BY DEF Init
<1>3. TypeOK
  BY <1>1, <1>2, BoundsAssumption DEF Init, TypeOK, StateOK, HttpState
<1>4. RowIsBacked
  BY <1>0, <1>1, <1>2 DEF Init, RowIsBacked
<1>5. MarkIsBacked /\ CancelledNeedsAnswers
  BY DEF Init, MarkIsBacked, CancelledNeedsAnswers
<1> QED
  BY <1>0, <1>3, <1>4, <1>5 DEF Init, IInv

\* A request moves, nothing else: what it may be about to mark is backed.
LEMMA GotoKeeps ==
  ASSUME IInv, NEW r \in Requests, NEW pc, Goto(r, pc),
         pc \in HttpState, UNCHANGED <<idExterno, inbox>>,
         cancellables' \in [Requests -> SUBSET Items],
         \A q \in Requests \ {r} : cancellables'[q] = cancellables[q],
         pc = "direct" => idExterno = {},
         pc \in {"clean", "create"} => cancellables'[r] = idExterno,
         pc = "mark" => Cardinality(inbox) >= Cardinality(idExterno)
  PROVE  MarkIsBacked' /\ http' \in [Requests -> HttpState]
BY DEF IInv, TypeOK, StateOK, MarkIsBacked, Goto

\* Every step of a request keeps the invariant.
LEMMA HttpKeeps ==
  ASSUME IInv, NEW r \in Requests, HttpStep(r)
  PROVE  IInv'
<1> USE DEF IInv
<1>0. /\ Cardinality(idExterno) \in Nat /\ Cardinality(inbox) \in Nat
      /\ Cardinality({}) = 0
  BY Sizes
<1>1. CASE ReadReserva(r)
  <2>1. UNCHANGED <<reserva, idExterno, saga, inbox, outbox, outcome, queue, job, cron,
                    cancellables, refund, redeliveries, crashes>>
    BY <1>1 DEF ReadReserva, consumerVars, readVars, boundVars
  <2>2. \E pc \in {"rejected", "list"} : Goto(r, pc)
    BY <1>1 DEF ReadReserva
  <2>3. MarkIsBacked' /\ TypeOK'
    BY <2>1, <2>2, GotoKeeps DEF TypeOK, StateOK, HttpState, Answered
  <2> QED
    BY <2>1, <2>3 DEF RowIsBacked, CancelledNeedsAnswers
<1>8. CASE ListCancellables(r)
  <2>1. UNCHANGED <<reserva, idExterno, saga, inbox, outbox, outcome, queue, job, cron,
                    refund, redeliveries, crashes>>
    BY <1>8 DEF ListCancellables, consumerVars, boundVars
  <2>2. /\ cancellables' \in [Requests -> SUBSET Items]
        /\ \A q \in Requests \ {r} : cancellables'[q] = cancellables[q]
        /\ cancellables'[r] = idExterno
    BY <1>8 DEF ListCancellables, TypeOK, StateOK
  <2>3. \E pc \in {"direct", "clean"} : Goto(r, pc) /\ (pc = "direct" => idExterno = {})
    BY <1>8 DEF ListCancellables
  <2>4. MarkIsBacked' /\ TypeOK'
    BY <2>1, <2>2, <2>3, GotoKeeps DEF TypeOK, StateOK, HttpState
  <2> QED
    BY <2>1, <2>4 DEF RowIsBacked, CancelledNeedsAnswers
<1>2. CASE MarkCancelled(r)
  <2>1. UNCHANGED <<idExterno, saga, inbox, outbox, outcome, queue, job, cron,
                    cancellables, refund, redeliveries, crashes>> /\ reserva' = "CANCELADA"
    BY <1>2 DEF MarkCancelled, consumerVars, readVars, boundVars
  <2>2. MarkIsBacked' /\ TypeOK'
    BY <1>2, <2>1, GotoKeeps DEF MarkCancelled, TypeOK, StateOK, HttpState, Answered
  <2>3. Cardinality(inbox) >= Cardinality(idExterno)
    BY <1>0, <1>2 DEF MarkCancelled, MarkIsBacked
  <2> QED
    BY <2>1, <2>2, <2>3 DEF RowIsBacked, CancelledNeedsAnswers
<1>3. CASE CleanSaga(r)
  <2>1. UNCHANGED <<reserva, idExterno, inbox, outbox, outcome, queue, job, cron,
                    cancellables, refund, redeliveries, crashes>> /\ saga' = NoSaga
    BY <1>3 DEF CleanSaga, consumerVars, readVars, boundVars
  <2>2. MarkIsBacked' /\ TypeOK'
    BY <1>3, <2>1, GotoKeeps DEF CleanSaga, MarkIsBacked, TypeOK, StateOK, HttpState, Answered
  <2> QED
    BY <2>1, <2>2 DEF RowIsBacked, CancelledNeedsAnswers
<1>4. CASE CreateSaga(r)
  <2>1. /\ UNCHANGED <<reserva, idExterno, inbox, outcome, queue, job, cron,
                       cancellables, refund, redeliveries, crashes>>
        /\ saga' = [id |-> r, total_items |-> Cardinality(cancellables[r]),
                    items_cancelled |-> 0, step |-> "COMPENSATING",
                    last_error |-> "none"]
        /\ outbox' = outbox \cup {Cancel(r, i) : i \in cancellables[r]}
        /\ cancellables[r] = idExterno
    BY <1>4 DEF CreateSaga, MarkIsBacked, consumerVars, readVars, boundVars
  <2>2. saga' \in SagaRow
    BY <2>1, <1>0 DEF SagaRow, SagaIds
  <2>3. outbox' \subseteq Cancels
    BY <2>1 DEF TypeOK, StateOK, Cancels
  <2>4. MarkIsBacked' /\ http' \in [Requests -> HttpState]
    BY <1>4, <2>1, GotoKeeps DEF CreateSaga, TypeOK, StateOK, HttpState
  <2>5. RowIsBacked'
    BY <2>1, <1>0 DEF RowIsBacked
  <2> QED
    BY <2>1, <2>2, <2>3, <2>4, <2>5 DEF TypeOK, StateOK, CancelledNeedsAnswers
<1>5. CASE CreateSagaFails(r)
  <2>1. UNCHANGED <<reserva, idExterno, saga, inbox, outbox, outcome, queue, job, cron,
                    cancellables, refund, redeliveries, crashes>>
    BY <1>5 DEF CreateSagaFails, consumerVars, readVars, boundVars
  <2>2. MarkIsBacked' /\ TypeOK'
    BY <1>5, <2>1, GotoKeeps DEF CreateSagaFails, TypeOK, StateOK, HttpState, Answered
  <2> QED
    BY <2>1, <2>2 DEF RowIsBacked, CancelledNeedsAnswers
<1>6. CASE PollCancelled(r)
  <2>1. UNCHANGED <<reserva, idExterno, saga, inbox, outbox, outcome, queue, job, cron,
                    cancellables, refund, redeliveries, crashes>>
    BY <1>6 DEF PollCancelled, consumerVars, readVars, boundVars
  <2>2. ASSUME RowExists(r), saga.items_cancelled >= saga.total_items
        PROVE  Cardinality(inbox) >= Cardinality(idExterno)
    <3>1. saga \in SagaRow /\ saga.id = r
      BY <2>2 DEF RowExists, TypeOK, StateOK
    <3>2. saga.items_cancelled \in Nat /\ saga.total_items \in Nat
      BY <3>1 DEF SagaRow
    <3> QED
      BY <1>0, <2>2, <3>1, <3>2 DEF RowIsBacked, RowExists
  <2>3. \E pc \in {"mark", "gatewayTimeout"} :
          /\ Goto(r, pc)
          /\ pc = "mark" => Cardinality(inbox) >= Cardinality(idExterno)
    BY <1>6, <2>2 DEF PollCancelled
  <2>4. MarkIsBacked' /\ TypeOK'
    BY <2>1, <2>3, GotoKeeps DEF TypeOK, StateOK, HttpState, Answered
  <2> QED
    BY <2>1, <2>4 DEF RowIsBacked, CancelledNeedsAnswers
<1>7. CASE WaitTimesOut(r)
  <2>1. UNCHANGED <<reserva, idExterno, saga, inbox, outbox, outcome, queue, job, cron,
                    cancellables, refund, redeliveries, crashes>>
    BY <1>7 DEF WaitTimesOut, consumerVars, readVars, boundVars
  <2>2. MarkIsBacked' /\ TypeOK'
    BY <1>7, <2>1, GotoKeeps DEF WaitTimesOut, TypeOK, StateOK, HttpState, Answered
  <2> QED
    BY <2>1, <2>2 DEF RowIsBacked, CancelledNeedsAnswers
<1> QED
  BY <1>1, <1>2, <1>3, <1>4, <1>5, <1>6, <1>7, <1>8 DEF HttpStep

\* A commit adds a new event to the inbox and counts it once.
LEMMA CommitKeeps ==
  ASSUME IInv, NEW h \in Handlers, Commit(h)
  PROVE  IInv'
<1> USE DEF IInv
<1>0. Cardinality(idExterno) \in Nat /\ Cardinality(inbox) \in Nat
  BY Sizes
<1>1. /\ inbox' = inbox \cup {job[h].ev} /\ job[h].ev \notin inbox
      /\ job' = [job EXCEPT ![h] = NoJob] /\ job[h] \in Job
      /\ UNCHANGED <<reserva, idExterno, outbox, outcome, queue, cron, http,
                     cancellables, refund, redeliveries, crashes>>
  BY DEF Commit, readVars, boundVars, TypeOK, StateOK
<1>2. IsFiniteSet(inbox') /\ Cardinality(inbox') = Cardinality(inbox) + 1
  BY <1>1, FS_AddElement
<1>3. saga \in SagaRow /\ saga # NoSaga
  BY DEF Commit, RowExists, TypeOK, StateOK
<1>4. /\ saga' \in SagaRow
      /\ saga'.items_cancelled = saga.items_cancelled + 1
      /\ saga'.id = saga.id /\ saga'.total_items = saga.total_items
  <2>1. PICK e \in {saga.last_error, "MANUAL_INTERVENTION_NEEDED"} :
          saga' = [saga EXCEPT !.items_cancelled = @ + 1, !.last_error = e]
    BY DEF Commit
  <2>2. /\ e \in {"none", "MANUAL_INTERVENTION_NEEDED", "SAGA_TIMEOUT",
                 "REFUND_RECONCILIATION_NEEDED"}
        /\ saga.items_cancelled + 1 \in Nat
    BY <1>3 DEF SagaRow
  <2>3. saga' \in SagaRow
    BY <1>3, <2>1, <2>2 DEF SagaRow
  <2>4. saga'.items_cancelled = saga.items_cancelled + 1
    BY <1>3, <2>1 DEF SagaRow
  <2>5. saga'.id = saga.id /\ saga'.total_items = saga.total_items
    BY <1>3, <2>1 DEF SagaRow
  <2> QED
    BY <2>3, <2>4, <2>5
<1>5. saga.items_cancelled \in Nat
  BY <1>3 DEF SagaRow
<1>6. TypeOK'
  BY <1>1, <1>4 DEF TypeOK, StateOK, Job
<1>7. RowIsBacked'
  BY <1>0, <1>1, <1>2, <1>3, <1>4, <1>5 DEF RowIsBacked
<1>8. MarkIsBacked' /\ CancelledNeedsAnswers'
  BY <1>0, <1>1, <1>2 DEF MarkIsBacked, CancelledNeedsAnswers
<1> QED
  BY <1>2, <1>6, <1>7, <1>8

\* Steps that touch neither the inbox, the reserva nor a request.
LEMMA EnvironmentKeeps ==
  ASSUME IInv,
         \/ \E c \in Cancels : \E out \in {"ok", "failed"} : ServiceAnswers(c, out)
         \/ \E c \in Cancels : Redeliver(c) \/ Receive(c)
         \/ \E h \in Handlers : Rollback(h)
         \/ \E out \in RefundReports : RefundReported(out)
         \/ CronScan \/ CronFail \/ Crash \/ UNCHANGED vars
  PROVE  IInv'
<1> USE DEF IInv
<1>1. ASSUME TypeOK', UNCHANGED <<reserva, idExterno, saga, inbox, http, cancellables>>
      PROVE  IInv'
  BY <1>1 DEF RowIsBacked, MarkIsBacked, CancelledNeedsAnswers
<1>2. ASSUME NEW c \in Cancels, NEW out \in {"ok", "failed"}, ServiceAnswers(c, out)
      PROVE  IInv'
  BY <1>1, <1>2 DEF ServiceAnswers, TypeOK, StateOK, readVars, boundVars
<1>3. ASSUME NEW c \in Cancels, Redeliver(c) PROVE IInv'
  BY <1>1, <1>3, BoundsAssumption DEF Redeliver, readVars, TypeOK, StateOK
<1>4. ASSUME NEW c \in Cancels, AckUnhandled(c) PROVE IInv'
  BY <1>1, <1>4 DEF AckUnhandled, TypeOK, StateOK, readVars, boundVars
<1>5. ASSUME NEW c \in Cancels, NEW h \in Handlers, Take(h, c) PROVE IInv'
  <2>1. saga.id \in SagaIds
    BY <1>5 DEF Take, TypeOK, StateOK, SagaRow
  <2>2. [ev |-> c, saga |-> saga.id] \in Job
    BY <2>1 DEF Job
  <2> QED
    BY <1>1, <1>5, <2>2 DEF Take, TypeOK, StateOK, readVars, boundVars
<1>6. ASSUME NEW h \in Handlers, Rollback(h) PROVE IInv'
  <2>1. job[h].ev \in Cancels
    BY <1>6 DEF Rollback, TypeOK, StateOK, Job
  <2> QED
    BY <1>1, <1>6, <2>1 DEF Rollback, TypeOK, StateOK, readVars, boundVars
<1>7. CASE CronScan
  <2>1. saga.id \in SagaIds
    BY <1>7 DEF CronScan, TypeOK, StateOK, SagaRow
  <2> QED
    BY <1>1, <1>7, <2>1 DEF CronScan, TypeOK, StateOK, consumerVars, readVars, boundVars
<1>8. CASE CronFail
  <2>1. UNCHANGED <<reserva, idExterno, inbox, outbox, outcome, queue, job, http,
                    cancellables, refund, redeliveries, crashes>> /\ cron' = NoSaga
    BY <1>8 DEF CronFail, consumerVars, readVars, boundVars
  <2>2. CASE saga' = saga
    BY <2>1, <2>2 DEF TypeOK, StateOK, RowIsBacked, MarkIsBacked, CancelledNeedsAnswers
  <2>3. CASE RowExists(cron) /\ saga' = [saga EXCEPT !.step = "FAILED",
                                                     !.last_error = "SAGA_TIMEOUT"]
    <3>1. saga \in SagaRow
      BY <2>3 DEF RowExists, TypeOK, StateOK
    <3>2. /\ saga' \in SagaRow /\ saga'.id = saga.id
          /\ saga'.items_cancelled = saga.items_cancelled
          /\ saga'.total_items = saga.total_items
      BY <2>3, <3>1 DEF SagaRow
    <3>3. TypeOK'
      BY <2>1, <3>2 DEF TypeOK, StateOK
    <3>4. RowIsBacked'
      BY <2>1, <2>3, <3>2 DEF RowIsBacked, RowExists
    <3> QED
      BY <2>1, <3>3, <3>4 DEF MarkIsBacked, CancelledNeedsAnswers
  <2> QED
    BY <1>8, <2>2, <2>3 DEF CronFail
<1>9. CASE Crash
  <2>1. UNCHANGED <<reserva, idExterno, saga, inbox, outbox, outcome, cancellables, refund,
                    redeliveries>>
    BY <1>9 DEF Crash, readVars
  <2>2. \A h \in Handlers : job[h] # NoJob => job[h].ev \in Cancels
    BY DEF TypeOK, StateOK, Job
  <2>3. queue' \subseteq Cancels
    BY <1>9, <2>2 DEF Crash, TypeOK, StateOK
  <2>4. \A r \in Requests : http'[r] \in {http[r], "connectionLost"}
    BY <1>9 DEF Crash
  <2>5. http' \in [Requests -> HttpState]
    BY <1>9, <2>4 DEF Crash, TypeOK, StateOK, HttpState, Answered
  <2>6. TypeOK'
    BY <1>9, <2>1, <2>3, <2>5, BoundsAssumption DEF Crash, TypeOK, StateOK
  <2>7. MarkIsBacked'
    BY <2>1, <2>4 DEF MarkIsBacked
  <2> QED
    BY <2>1, <2>6, <2>7 DEF RowIsBacked, CancelledNeedsAnswers
<1>11. ASSUME NEW out \in RefundReports, RefundReported(out) PROVE IInv'
  <2>1. UNCHANGED <<reserva, idExterno, inbox, outbox, outcome, queue, job, cron, http,
                    cancellables, redeliveries, crashes>> /\ refund' = out
    BY <1>11 DEF RefundReported, consumerVars, boundVars
  <2>2. saga \in SagaRow /\ saga # NoSaga
    BY <1>11 DEF RefundReported, TypeOK, StateOK
  <2>3. PICK e \in {"none", "REFUND_RECONCILIATION_NEEDED"} :
          saga' = [saga EXCEPT !.last_error = e]
    BY <1>11 DEF RefundReported, RefundRecord
  <2>4. /\ saga' \in SagaRow /\ saga'.id = saga.id
        /\ saga'.items_cancelled = saga.items_cancelled
        /\ saga'.total_items = saga.total_items
    BY <2>2, <2>3 DEF SagaRow
  <2>5. TypeOK'
    BY <2>1, <2>4 DEF TypeOK, StateOK
  <2>6. RowIsBacked'
    BY <2>1, <2>2, <2>4 DEF RowIsBacked
  <2> QED
    BY <2>1, <2>5, <2>6 DEF MarkIsBacked, CancelledNeedsAnswers
<1>10. CASE UNCHANGED vars
  BY <1>1, <1>10 DEF vars, TypeOK, StateOK
<1> QED
  BY <1>2, <1>3, <1>4, <1>5, <1>6, <1>7, <1>8, <1>9, <1>10, <1>11
     DEF Receive

\* The invariant holds in every reachable state.
THEOREM Invariant == Spec => []IInv
<1>1. IInv /\ [Next]_vars => IInv'
  BY HttpKeeps, CommitKeeps, EnvironmentKeeps DEF Next, HandlerStep
<1> QED
  BY <1>1, InitIInv, PTL DEF Spec

\* The variables of the cancellation keep their types, for any constants.
THEOREM TypeCorrect == Spec => []TypeOK
<1>1. IInv => TypeOK
  BY DEF IInv
<1> QED
  BY <1>1, Invariant, PTL

\* CANCELADA needs as many different answers as detalles, whatever concurrent
\* requests do to the saga row.
THEOREM CancelledNeedsAnswersAlways == Spec => []CancelledNeedsAnswers
<1>1. IInv => CancelledNeedsAnswers
  BY DEF IInv
<1> QED
  BY <1>1, Invariant, PTL

-----------------------------------------------------------------------------
(* A single request. *)

Unsent == {"request", "list", "direct", "clean", "create"}

\* Events answer commands, and commands were sent by requests that created
\* their row, for detalles with an external id.
EventsInOrder ==
  /\ \A c \in inbox \cup queue : outcome[c] # "none"
  /\ \A h \in Handlers : job[h] # NoJob => outcome[job[h].ev] # "none"
  /\ \A c \in Cancels : outcome[c] # "none" => c \in outbox
  /\ \A c \in outbox : c.item \in idExterno /\ http[c.saga] \notin Unsent

FullInv == IInv /\ EventsInOrder /\ TimeoutIsLate /\ FailureIsOnRecord

\* A command knows its request and its detalle.
LEMMA CommandFields ==
  /\ \A c \in Cancels : c.saga \in Requests /\ c.item \in Items /\ c = Cancel(c.saga, c.item)
  /\ \A r, i : Cancel(r, i).saga = r /\ Cancel(r, i).item = i
BY DEF Cancels, Cancel

\* No request goes back to its start, and only the creation of its row takes
\* one out of the calls before it.
LEMMA EventsKept ==
  ASSUME TypeOK, EventsInOrder, TypeOK', UNCHANGED <<idExterno, outbox, outcome>>,
         inbox' \cup queue' \subseteq inbox \cup queue \cup {job[h].ev : h \in {g \in Handlers : job[g] # NoJob}},
         \A h \in Handlers : job'[h] = NoJob \/ job'[h] = job[h] \/ job'[h].ev \in queue,
         \A q \in Requests : http'[q] \in Unsent => http[q] \in Unsent
  PROVE  EventsInOrder'
<1>1. \A c \in inbox' \cup queue' : outcome'[c] # "none"
  BY DEF EventsInOrder
<1>2. \A h \in Handlers : job'[h] # NoJob => outcome'[job'[h].ev] # "none"
  BY DEF EventsInOrder
<1>3. \A c \in outbox' : c.item \in idExterno' /\ http'[c.saga] \notin Unsent
  BY CommandFields DEF EventsInOrder, TypeOK, StateOK
<1> QED
  BY <1>1, <1>2, <1>3 DEF EventsInOrder

\* Nothing of the record is lost: the row is untouched or gone, and whoever
\* waits no more never will again.
LEMMA RecordKept ==
  ASSUME TimeoutIsLate, FailureIsOnRecord, UNCHANGED <<inbox, outcome, refund>>,
         saga' = saga \/ saga' = NoSaga, cron' = cron \/ cron' = NoSaga,
         \A q \in Requests : /\ http'[q] = "request" => http[q] = "request"
                             /\ http'[q] = http[q] \/ WaitOver(q)' \/ http[q] \in Unsent
  PROVE  TimeoutIsLate' /\ FailureIsOnRecord'
<1>1. \A q \in Requests : /\ WaitOver(q) => WaitOver(q)' /\ http[q] \notin Unsent
                          /\ http[q] = "waiting" => http[q] \notin Unsent
  BY DEF WaitOver, Unsent
<1>2. \A q \in Requests : RowExists(q)' => RowExists(q) /\ saga' = saga
  BY DEF RowExists
<1>3. TimeoutIsLate'
  BY <1>1, <1>2 DEF TimeoutIsLate
<1>4. \A q \in Requests : OnlyRequest(q)' => OnlyRequest(q)
  BY DEF OnlyRequest
<1>5. FailureIsOnRecord'
  BY <1>1, <1>2, <1>4 DEF FailureIsOnRecord
<1> QED
  BY <1>3, <1>5

LEMMA InitFull == Init => FullInv
<1> SUFFICES ASSUME Init PROVE EventsInOrder /\ TimeoutIsLate /\ FailureIsOnRecord
  BY InitIInv DEF FullInv
<1>1. \A r \in Requests : ~RowExists(r)
  BY IdsAssumption DEF Init, RowExists, CheckoutSaga
<1> QED
  BY <1>1 DEF Init, EventsInOrder, TimeoutIsLate, FailureIsOnRecord

\* The steps of a request.
LEMMA HttpFull ==
  ASSUME FullInv, NEW r \in Requests, HttpStep(r)
  PROVE  EventsInOrder' /\ TimeoutIsLate' /\ FailureIsOnRecord'
<1> USE DEF consumerVars, readVars, boundVars
<1>0. IInv /\ TypeOK /\ EventsInOrder /\ TimeoutIsLate /\ FailureIsOnRecord
  BY DEF FullInv, IInv
<1>t. TypeOK' /\ http \in [Requests -> HttpState]
  BY <1>0, HttpKeeps DEF IInv, TypeOK, StateOK
<1>k. ASSUME UNCHANGED <<idExterno, outbox, outcome, inbox, queue, job, cron, refund>>,
             saga' = saga \/ saga' = NoSaga,
             \E pc \in HttpState \ {"request", "waiting"} :
               Goto(r, pc) /\ (pc \in Unsent => http[r] \in Unsent)
      PROVE  EventsInOrder' /\ TimeoutIsLate' /\ FailureIsOnRecord'
  <2>1. PICK pc \in HttpState \ {"request", "waiting"} :
          Goto(r, pc) /\ (pc \in Unsent => http[r] \in Unsent)
    BY <1>k
  <2>2. \A q \in Requests : http'[q] = IF q = r THEN pc ELSE http[q]
    BY <1>t, <2>1 DEF Goto
  <2>3. WaitOver(r)' \/ http[r] \in Unsent
    BY <2>1, <2>2 DEF WaitOver, Unsent
  <2> QED
    BY <1>0, <1>t, <1>k, <2>1, <2>2, <2>3, EventsKept, RecordKept
<1> USE DEF HttpState, Unsent, Answered
<1>1. CASE ReadReserva(r)
  BY <1>1, <1>k DEF ReadReserva
<1>2. CASE ListCancellables(r)
  BY <1>2, <1>k DEF ListCancellables
<1>3. CASE MarkCancelled(r)
  BY <1>3, <1>k DEF MarkCancelled
<1>4. CASE CleanSaga(r)
  BY <1>4, <1>k DEF CleanSaga
<1>5. CASE CreateSaga(r)
  <2>1. /\ UNCHANGED <<idExterno, outcome, inbox, queue, job, cron, refund>>
        /\ outbox' = outbox \cup {Cancel(r, i) : i \in cancellables[r]}
        /\ http[r] = "create" /\ http' = [http EXCEPT ![r] = "waiting"]
        /\ saga'.id = r /\ saga'.step = "COMPENSATING"
    BY <1>5 DEF CreateSaga, Goto
  <2>2. cancellables[r] = idExterno
    BY <1>0, <2>1 DEF IInv, MarkIsBacked
  <2>3. \A c \in outbox' : c.item \in idExterno /\ http'[c.saga] \notin Unsent
    BY <1>0, <1>t, <2>1, <2>2, CommandFields DEF EventsInOrder, TypeOK, StateOK
  <2>4. EventsInOrder'
    BY <1>0, <2>1, <2>3 DEF EventsInOrder
  <2>5. FailureIsOnRecord'
    <3> SUFFICES ASSUME NEW s \in Requests, OnlyRequest(s)', RowExists(s)',
                        NEW c \in inbox
                 PROVE  FALSE
      BY <2>1 DEF FailureIsOnRecord
    <3>1. s = r
      BY <2>1 DEF RowExists
    <3>2. c \in Cancels /\ c.saga \in Requests /\ http[c.saga] \notin Unsent
      BY <1>0, CommandFields DEF EventsInOrder, TypeOK, StateOK
    <3>3. c.saga = r
      BY <1>t, <2>1, <3>1, <3>2 DEF OnlyRequest
    <3> QED
      BY <2>1, <3>2, <3>3
  <2>6. TimeoutIsLate'
    <3>1. ~WaitOver(r) /\ \A q \in Requests : RowExists(q)' => q = r
      BY <2>1 DEF WaitOver, RowExists
    <3>2. /\ http'[r] = "waiting" /\ saga'.step # "FAILED"
          /\ \A q \in Requests : q # r => http'[q] = http[q]
      BY <1>t, <2>1
    <3> QED
      BY <1>0, <2>1, <3>1, <3>2 DEF TimeoutIsLate, WaitOver
  <2> QED
    BY <2>4, <2>5, <2>6
<1>6. CASE CreateSagaFails(r)
  BY <1>6, <1>k DEF CreateSagaFails
<1>7. CASE PollCancelled(r)
  BY <1>7, <1>k DEF PollCancelled
<1>8. CASE WaitTimesOut(r)
  BY <1>8, <1>k DEF WaitTimesOut
<1> QED
  BY <1>1, <1>2, <1>3, <1>4, <1>5, <1>6, <1>7, <1>8 DEF HttpStep

\* The transaction of a handler: a failed answer is written down, a good one
\* leaves what is written.
LEMMA CommitFull ==
  ASSUME FullInv, NEW h \in Handlers, Commit(h)
  PROVE  EventsInOrder' /\ TimeoutIsLate' /\ FailureIsOnRecord'
<1>0. IInv /\ TypeOK /\ EventsInOrder /\ TimeoutIsLate /\ FailureIsOnRecord
  BY DEF FullInv, IInv
<1>1. TypeOK'
  BY <1>0, CommitKeeps DEF IInv
<1>2. /\ inbox' = inbox \cup {job[h].ev} /\ job' = [job EXCEPT ![h] = NoJob]
      /\ job[h] # NoJob /\ RowExists(job[h].saga)
      /\ saga' = [saga EXCEPT !.items_cancelled = @ + 1,
            !.last_error = IF outcome[job[h].ev] = "failed"
                             THEN "MANUAL_INTERVENTION_NEEDED" ELSE @]
      /\ UNCHANGED <<idExterno, outbox, outcome, queue, cron, http, refund>>
  BY DEF Commit, readVars
<1>3. EventsInOrder'
  <2>1. \A g \in Handlers : job'[g] = NoJob \/ job'[g] = job[g]
    BY <1>0, <1>2 DEF TypeOK, StateOK
  <2> QED
    BY <1>0, <1>1, <1>2, <2>1, EventsKept
<1>4. TimeoutIsLate' /\ FailureIsOnRecord'
  <2>1. saga \in SagaRow /\ saga # NoSaga
    BY <1>0, <1>2 DEF TypeOK, StateOK, RowExists
  <2>2. /\ saga'.id = saga.id /\ saga'.step = saga.step
        /\ saga'.last_error = IF outcome[job[h].ev] = "failed"
                                THEN "MANUAL_INTERVENTION_NEEDED" ELSE saga.last_error
    BY <1>2, <2>1 DEF SagaRow
  <2> QED
    BY <1>0, <1>2, <2>1, <2>2
    DEF TimeoutIsLate, FailureIsOnRecord, OnlyRequest, RowExists, WaitOver
<1> QED
  BY <1>3, <1>4

\* Everybody else.
LEMMA EnvironmentFull ==
  ASSUME FullInv,
         \/ \E c \in Cancels : \E out \in {"ok", "failed"} : ServiceAnswers(c, out)
         \/ \E c \in Cancels : Redeliver(c) \/ Receive(c)
         \/ \E h \in Handlers : Rollback(h)
         \/ \E out \in RefundReports : RefundReported(out)
         \/ CronScan \/ CronFail \/ Crash \/ UNCHANGED vars
  PROVE  EventsInOrder' /\ TimeoutIsLate' /\ FailureIsOnRecord'
<1> USE DEF consumerVars, readVars, boundVars
<1>0. IInv /\ TypeOK /\ EventsInOrder /\ TimeoutIsLate /\ FailureIsOnRecord
  BY DEF FullInv, IInv
<1>t. TypeOK' /\ job \in [Handlers -> Job \cup {NoJob}]
  BY <1>0, EnvironmentKeeps DEF IInv, TypeOK, StateOK
<1>1. ASSUME NEW c \in Cancels, NEW out \in {"ok", "failed"}, ServiceAnswers(c, out)
      PROVE  EventsInOrder' /\ TimeoutIsLate' /\ FailureIsOnRecord'
  <2>1. /\ UNCHANGED <<idExterno, saga, inbox, outbox, job, cron, http, refund>>
        /\ queue' = queue \cup {c} /\ outcome[c] = "none" /\ c \in outbox
    BY <1>1 DEF ServiceAnswers
  <2>2. \A d \in Cancels : outcome'[d] = IF d = c THEN out ELSE outcome[d]
    BY <1>0, <1>1 DEF ServiceAnswers, TypeOK, StateOK
  <2>3. \A h \in Handlers : job[h] # NoJob => job[h].ev \in Cancels
    BY <1>0 DEF TypeOK, StateOK, Job
  <2>4. inbox \subseteq Cancels /\ queue \subseteq Cancels
    BY <1>0 DEF TypeOK, StateOK
  <2>5. EventsInOrder'
    BY <1>0, <2>1, <2>2, <2>3, <2>4 DEF EventsInOrder
  <2>6. \A d \in inbox : outcome'[d] = outcome[d]
    BY <1>0, <2>1, <2>2, <2>4 DEF EventsInOrder
  <2> QED
    BY <1>0, <2>1, <2>5, <2>6
    DEF TimeoutIsLate, FailureIsOnRecord, OnlyRequest, RowExists, WaitOver
<1>2. ASSUME NEW c \in Cancels, Redeliver(c)
      PROVE  EventsInOrder' /\ TimeoutIsLate' /\ FailureIsOnRecord'
  <2>1. /\ UNCHANGED <<idExterno, saga, inbox, outbox, outcome, job, cron, http, refund>>
        /\ queue' = queue \cup {c} /\ outcome[c] # "none"
    BY <1>2 DEF Redeliver
  <2>2. EventsInOrder'
    BY <1>0, <2>1 DEF EventsInOrder
  <2> QED
    BY <1>0, <2>1, <2>2, RecordKept
<1>3. ASSUME NEW c \in Cancels, Receive(c)
      PROVE  EventsInOrder' /\ TimeoutIsLate' /\ FailureIsOnRecord'
  <2>1. CASE AckUnhandled(c)
    BY <1>0, <1>t, <2>1, EventsKept, RecordKept DEF AckUnhandled
  <2>2. ASSUME NEW h \in Handlers, Take(h, c)
        PROVE  EventsInOrder' /\ TimeoutIsLate' /\ FailureIsOnRecord'
    <3>1. /\ UNCHANGED <<idExterno, saga, inbox, outbox, outcome, cron, http, refund>>
          /\ queue' = queue \ {c} /\ c \in queue
      BY <2>2 DEF Take
    <3>2. \A g \in Handlers : job'[g] = job[g] \/ job'[g].ev = c
      BY <1>t, <2>2 DEF Take
    <3> QED
      BY <1>0, <1>t, <3>1, <3>2, EventsKept, RecordKept
  <2> QED
    BY <1>3, <2>1, <2>2 DEF Receive
<1>4. ASSUME NEW h \in Handlers, Rollback(h)
      PROVE  EventsInOrder' /\ TimeoutIsLate' /\ FailureIsOnRecord'
  <2>1. /\ UNCHANGED <<idExterno, saga, inbox, outbox, outcome, cron, http, refund>>
        /\ queue' = queue \cup {job[h].ev} /\ job[h] # NoJob
    BY <1>4 DEF Rollback
  <2>2. \A g \in Handlers : job'[g] = NoJob \/ job'[g] = job[g]
    BY <1>t, <1>4 DEF Rollback
  <2> QED
    BY <1>0, <1>t, <2>1, <2>2, EventsKept, RecordKept
<1>5. ASSUME NEW out \in RefundReports, RefundReported(out)
      PROVE  EventsInOrder' /\ TimeoutIsLate' /\ FailureIsOnRecord'
  <2>1. /\ UNCHANGED <<idExterno, inbox, queue, job, outbox, outcome, cron, http>>
        /\ refund' = out /\ out # "none" /\ saga # NoSaga
        /\ saga' = [saga EXCEPT !.last_error = RefundRecord(out)]
    BY <1>5, RefundsAssumption DEF RefundReported
  <2>2. saga \in SagaRow
    BY <1>0, <2>1 DEF TypeOK, StateOK
  <2>3. /\ saga'.last_error = RefundRecord(out)
        /\ saga'.id = saga.id /\ saga'.step = saga.step
    BY <2>1, <2>2 DEF SagaRow
  <2>4. EventsInOrder'
    BY <1>0, <1>t, <2>1, EventsKept
  <2>5. TimeoutIsLate'
    BY <1>0, <2>1, <2>3 DEF TimeoutIsLate, RowExists, WaitOver
  <2> QED
    BY <2>1, <2>3, <2>4, <2>5 DEF FailureIsOnRecord
<1>6. CASE CronScan
  <2>1. /\ UNCHANGED <<idExterno, saga, inbox, queue, job, outbox, outcome, http, refund>>
        /\ RowExists(saga.id) /\ cron' = saga.id /\ http[saga.id] # "waiting"
    BY <1>6 DEF CronScan, RowExists
  <2>2. TimeoutIsLate'
    BY <1>0, <2>1 DEF TimeoutIsLate, RowExists, WaitOver
  <2>3. EventsInOrder' /\ FailureIsOnRecord'
    BY <1>0, <1>t, <2>1, EventsKept DEF FailureIsOnRecord, OnlyRequest, RowExists, WaitOver
  <2> QED
    BY <2>2, <2>3
<1>7. CASE CronFail
  <2>1. /\ UNCHANGED <<idExterno, inbox, queue, job, outbox, outcome, http, refund>>
        /\ cron # NoSaga /\ cron' = NoSaga
    BY <1>7 DEF CronFail
  <2>2. EventsInOrder'
    BY <1>0, <1>t, <2>1, EventsKept
  <2>3. CASE saga' = saga
    BY <1>0, <2>1, <2>2, <2>3, RecordKept
  <2>4. CASE RowExists(cron) /\ saga' = [saga EXCEPT !.step = "FAILED",
                                                     !.last_error = "SAGA_TIMEOUT"]
    <3>1. saga \in SagaRow
      BY <1>0, <2>4 DEF RowExists, TypeOK, StateOK
    <3>2. /\ saga'.last_error = "SAGA_TIMEOUT" /\ saga'.step = "FAILED"
          /\ saga'.id = cron /\ saga # NoSaga
      BY <2>4, <3>1 DEF SagaRow, RowExists
    <3>3. \A q \in Requests : RowExists(q)' => WaitOver(q)'
      BY <1>0, <2>1, <3>2 DEF TimeoutIsLate, RowExists, WaitOver
    <3> QED
      BY <2>1, <2>2, <3>2, <3>3 DEF TimeoutIsLate, FailureIsOnRecord
  <2> QED
    BY <1>7, <2>3, <2>4 DEF CronFail
<1>8. CASE Crash
  <2>1. /\ UNCHANGED <<idExterno, saga, inbox, outbox, outcome, refund>>
        /\ queue' = queue \cup {job[h].ev : h \in {g \in Handlers : job[g] # NoJob}}
        /\ (\A h \in Handlers : job'[h] = NoJob) /\ cron' = NoSaga
    BY <1>8 DEF Crash
  <2>2. \A q \in Requests : http'[q] = http[q] \/ http'[q] = "connectionLost"
    BY <1>8 DEF Crash
  <2>3. EventsInOrder'
    BY <1>0, <1>t, <2>1, <2>2, EventsKept DEF Unsent
  <2>4. \A q \in Requests : http'[q] = http[q] \/ WaitOver(q)'
    BY <2>2 DEF WaitOver
  <2> QED
    BY <1>0, <2>1, <2>2, <2>3, <2>4, RecordKept
<1>9. CASE UNCHANGED vars
  BY <1>0, <1>t, <1>9, EventsKept, RecordKept DEF vars
<1> QED
  BY <1>1, <1>2, <1>3, <1>4, <1>5, <1>6, <1>7, <1>8, <1>9

\* The invariant with the events in order.
THEOREM FullInvariant == Spec => []FullInv
<1>1. FullInv /\ [Next]_vars => FullInv'
  <2> SUFFICES ASSUME FullInv, [Next]_vars PROVE FullInv'
    OBVIOUS
  <2>1. IInv'
    BY HttpKeeps, CommitKeeps, EnvironmentKeeps DEF Next, HandlerStep, FullInv
  <2>2. EventsInOrder' /\ TimeoutIsLate' /\ FailureIsOnRecord'
    BY HttpFull, CommitFull, EnvironmentFull DEF Next, HandlerStep
  <2> QED
    BY <2>1, <2>2 DEF FullInv
<1> QED
  BY <1>1, InitFull, PTL DEF Spec

\* When only one request was made, every detalle of a CANCELADA reserva was
\* answered: the answers are the request's own, one per detalle at most, and
\* there are as many as detalles.
THEOREM CancelledIsWholeAlways == Spec => []CancelledIsWhole
<1>1. FullInv => CancelledIsWhole
  <2> SUFFICES ASSUME FullInv, NEW r \in Requests, OnlyRequest(r), reserva = "CANCELADA",
                      NEW i \in idExterno
               PROVE  Cancel(r, i) \in inbox
    BY DEF CancelledIsWhole
  <2> DEFINE f == [c \in inbox |-> c.item]
  <2>0. IInv /\ TypeOK /\ EventsInOrder
    BY DEF FullInv, IInv
  <2>1. \A c \in inbox : c = Cancel(r, c.item) /\ c.item \in idExterno
    <3> SUFFICES ASSUME NEW c \in inbox PROVE c = Cancel(r, c.item) /\ c.item \in idExterno
      OBVIOUS
    <3>1. c \in Cancels /\ c \in outbox
      BY <2>0 DEF EventsInOrder, TypeOK, StateOK
    <3>2. c.saga \in Requests /\ c = Cancel(c.saga, c.item)
      BY <3>1, CommandFields
    <3>3. http[c.saga] # "request" /\ c.item \in idExterno
      BY <2>0, <3>1 DEF EventsInOrder, Unsent
    <3> QED
      BY <3>2, <3>3 DEF OnlyRequest
  <2>2. f \in Injection(inbox, idExterno)
    <3>1. f \in [inbox -> idExterno]
      BY <2>1
    <3>2. \A c, d \in inbox : f[c] = f[d] => c = d
      BY <2>1
    <3> QED
      BY <3>1, <3>2 DEF Injection, IsInjective
  <2>3. IsFiniteSet(idExterno) /\ Cardinality(idExterno) \in Nat /\ Cardinality(inbox) \in Nat
    BY <2>0, Sizes, FS_Subset, ItemsAssumption DEF TypeOK, StateOK
  <2>4. Cardinality(inbox) <= Cardinality(idExterno)
        /\ (Cardinality(inbox) = Cardinality(idExterno) <=> f \in Surjection(inbox, idExterno))
    BY <2>2, <2>3, FS_Injection
  <2>5. Cardinality(inbox) >= Cardinality(idExterno)
    BY <2>0 DEF IInv, CancelledNeedsAnswers
  <2>6. f \in Surjection(inbox, idExterno)
    BY <2>3, <2>4, <2>5
  <2>7. PICK c \in inbox : f[c] = i
    BY <2>6 DEF Surjection
  <2> QED
    BY <2>1, <2>7
<1> QED
  BY <1>1, FullInvariant, PTL

\* With a single request the failure of a cancellation stays on record, for
\* any number of detalles, redeliveries and restarts: only the cron, once the
\* request waits no more, and the report of a refund write over it.
THEOREM FailureIsOnRecordAlways == Spec => []FailureIsOnRecord
<1>1. FullInv => FailureIsOnRecord
  BY DEF FullInv
<1> QED
  BY <1>1, FullInvariant, PTL
=============================================================================
