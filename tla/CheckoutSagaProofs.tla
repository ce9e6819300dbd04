------------------------- MODULE CheckoutSagaProofs -------------------------
(***************************************************************************)
(* Theorems about CheckoutSaga, for any number of items and handlers: its  *)
(* safety properties, and that it implements CheckoutPromise.              *)
(***************************************************************************)
EXTENDS CheckoutSaga, FiniteSetTheorems, TLAPS

-----------------------------------------------------------------------------
(* The message constructors. *)

\* Every command that is answered is a message, and has its own identity.
LEMMA MessageTypes ==
  /\ Commands \subseteq Messages
  /\ \A i \in Items : /\ Create(i) \in Commands /\ Confirm(i) \in Commands
                      /\ Cancel(i) \in Messages
  /\ Payment \in Commands /\ Invoice \in Commands
  /\ SagaCompleted \in Messages /\ Refund \in Messages
BY DEF Commands, Messages

\* An event is determined by its command and its outcome.
LEMMA EventEquality ==
  ASSUME NEW e \in Event, NEW f \in Event, e.cmd = f.cmd, e.out = f.out
  PROVE  e = f
BY DEF Event

\* There is at least one item to wait for.
LEMMA TotalType == Total \in Nat /\ Total > 0
BY ItemsAssumption, FS_CardinalityType, FS_EmptySet DEF Total

-----------------------------------------------------------------------------
(* Type correctness. *)

\* The initial state is well typed.
LEMMA InitStateOK == Init => StateOK
BY MessageTypes, BoundsAssumption DEF Init, StateOK, SagaRow, HttpState

\* Publishing keeps the outbox a count of rows per message.
LEMMA PublishType ==
  ASSUME StateOK, NEW ms, Publish(ms)
  PROVE  outbox' \in [Messages -> Nat]
BY DEF StateOK, Publish

\* The part that all eight consumers share keeps inbox and handlers typed.
LEMMA CommitsType ==
  ASSUME StateOK, NEW h \in Handlers, NEW type, Commits(h, type)
  PROVE  /\ job[h] \in Job
         /\ inbox' \subseteq Event
         /\ job' \in [Handlers -> Job \cup {NoJob}]
         /\ UNCHANGED <<reserva, outcome, queue, cron, http, boundVars>>
BY DEF StateOK, Commits, Job

\* Every step keeps every variable in its type.
LEMMA NextStateOK == StateOK /\ [Next]_vars => StateOK'
<1> SUFFICES ASSUME StateOK, [Next]_vars PROVE StateOK'
  OBVIOUS
<1> USE DEF StateOK
<1>1. CASE ConvertCart
  BY <1>1 DEF ConvertCart, consumerVars, boundVars, HttpState
<1>2. ASSUME NEW payable \in BOOLEAN, CreateSaga(payable) PROVE StateOK'
  <2>1. outbox' \in [Messages -> Nat]
    BY <1>2, PublishType DEF CreateSaga
  <2>2. saga' \in SagaRow
    BY <1>2 DEF CreateSaga, SagaRow, SagaStep
  <2> QED
    BY <1>2, <2>1, <2>2 DEF CreateSaga, consumerVars, boundVars, HttpState
<1>3. CASE CreateSagaFails
  BY <1>3 DEF CreateSagaFails, consumerVars, boundVars, HttpState
<1>4. CASE PollTerminal
  BY <1>4 DEF PollTerminal, consumerVars, boundVars, HttpState
<1>5. CASE WaitTimesOut
  BY <1>5 DEF WaitTimesOut, consumerVars, boundVars, HttpState
<1>6. CASE AnswerSuccess
  BY <1>6 DEF AnswerSuccess, consumerVars, boundVars, HttpState
<1>7. ASSUME NEW c \in Commands, NEW out \in Outcomes(c), ServiceAnswers(c, out)
      PROVE  StateOK'
  <2>1. out \in {"ok", "okWithoutId", "failed"}
    BY DEF Outcomes
  <2> QED
    BY <1>7, <2>1 DEF ServiceAnswers, boundVars, Event
<1>8. ASSUME NEW e \in Event, Redeliver(e) PROVE StateOK'
  BY <1>8, BoundsAssumption DEF Redeliver
<1>9. ASSUME NEW e \in Event, Receive(e) PROVE StateOK'
  <2>1. CASE AckDuplicate(e)
    BY <2>1 DEF AckDuplicate, boundVars
  <2>2. CASE AckSkipped(e)
    BY <2>2 DEF AckSkipped, boundVars
  <2>3. ASSUME NEW h \in Handlers, Take(h, e) PROVE StateOK'
    <3>1. [ev |-> e, step |-> saga.step, ext |-> idExterno] \in Job
      BY DEF Job, SagaRow
    <3> QED
      BY <2>3, <3>1 DEF Take, boundVars
  <2> QED
    BY <1>9, <2>1, <2>2, <2>3 DEF Receive
<1>10. ASSUME NEW h \in Handlers, HandlerStep(h) PROVE StateOK'
  <2> DEFINE row  == [saga EXCEPT !.items_created = @ + 1]
             rowC == [saga EXCEPT !.items_confirmed = @ + 1]
  <2>0. row \in SagaRow /\ rowC \in SagaRow
    BY DEF SagaRow
  <2>1. CASE Created(h)
    <3>1. saga' \in SagaRow
      BY <2>1, <2>0 DEF Created, Fail, Advance, SagaRow, SagaStep, TerminalSteps
    <3>2. outbox' \in [Messages -> Nat]
      BY <2>1, PublishType DEF Created
    <3>3. idExterno' \subseteq Items
      <4>1. job[h].ev.cmd \in Commands /\ job[h].ev.cmd.type = "create"
        BY <2>1, CommitsType DEF Created, Commits, Job, Event
      <4>2. job[h].ev.cmd.item \in Items
        BY <4>1 DEF Commands, Create, Confirm, Payment, Invoice
      <4> QED
        BY <2>1, <4>2 DEF Created
    <3> QED
      BY <2>1, <3>1, <3>2, <3>3, CommitsType DEF Created, boundVars
  <2>2. CASE Processed(h)
    <3>1. saga' \in SagaRow
      BY <2>2 DEF Processed, Advance, SagaRow, SagaStep
    <3> QED
      BY <2>2, <3>1, PublishType, CommitsType DEF Processed, boundVars
  <2>3. CASE Issued(h)
    <3>1. saga' \in SagaRow
      BY <2>3 DEF Issued, Advance, SagaRow, SagaStep
    <3> QED
      BY <2>3, <3>1, PublishType, CommitsType DEF Issued, boundVars
  <2>4. CASE Confirmed(h)
    <3>1. saga' \in SagaRow
      BY <2>4, <2>0 DEF Confirmed, Advance, SagaRow, SagaStep, TerminalSteps
    <3> QED
      BY <2>4, <3>1, PublishType, CommitsType DEF Confirmed, boundVars
  <2>5. ASSUME NEW type, NEW step, Compensate(h, type, step) PROVE StateOK'
    <3>1. saga' \in SagaRow
      BY <2>5 DEF Compensate, Advance, SagaRow, SagaStep
    <3> QED
      BY <2>5, <3>1, CommitsType DEF Compensate, boundVars
  <2>6. CASE Rollback(h)
    <3>1. job[h] \in Job
      BY <2>6 DEF Rollback
    <3> QED
      BY <2>6, <3>1 DEF Rollback, boundVars, Job
  <2> QED
    BY <1>10, <2>1, <2>2, <2>3, <2>4, <2>5, <2>6
    DEF HandlerStep, CreateFailed, PaymentFailed, InvoiceFailed, ConfirmFailed
<1>11. CASE CronScan
  BY <1>11 DEF CronScan, consumerVars, boundVars
<1>12. CASE CronFail
  BY <1>12 DEF CronFail, consumerVars, boundVars, Fail, SagaRow, SagaStep, TerminalSteps
<1>13. CASE Crash
  BY <1>13, BoundsAssumption DEF Crash, Job, HttpState
<1>14. CASE UNCHANGED vars
  BY <1>14 DEF vars, consumerVars, boundVars
<1> QED
  BY <1>1, <1>2, <1>3, <1>4, <1>5, <1>6, <1>7, <1>8, <1>9, <1>10, <1>11, <1>12,
     <1>13, <1>14
  DEF Next, HttpStep

\* Every reachable state is well typed, whatever the items and the handlers.
THEOREM TypeCorrect == Spec => []TypeOK
<1>1. Init => TypeOK
  BY InitStateOK DEF Init, TypeOK
<1>2. TypeOK /\ [Next]_vars => TypeOK'
  BY NextStateOK
  DEF TypeOK, vars, Next, HttpStep, HandlerStep, ConvertCart, CreateSaga, CreateSagaFails,
      PollTerminal, WaitTimesOut, AnswerSuccess, ServiceAnswers, Redeliver, Receive,
      AckDuplicate, AckSkipped, Take, Rollback, CronScan, CronFail, Crash, Created,
      Processed, Issued, Confirmed, CreateFailed, PaymentFailed, InvoiceFailed,
      ConfirmFailed, Compensate, Commits
<1> QED
  BY <1>1, <1>2, PTL DEF Spec

-----------------------------------------------------------------------------
(* Published at most once, and only after the previous stage was answered. *)

\* The constructors never collide.
LEMMA MessagesDiffer ==
  /\ Payment # Invoice /\ Payment # SagaCompleted /\ Payment # Refund
  /\ Invoice # SagaCompleted /\ Invoice # Refund /\ SagaCompleted # Refund
  /\ \A i, j \in Items :
       /\ Create(i) \notin {Confirm(j), Cancel(j), Payment, Invoice, SagaCompleted, Refund}
       /\ Confirm(i) \notin {Cancel(j), Payment, Invoice, SagaCompleted, Refund}
       /\ Cancel(i) \notin {Payment, Invoice, SagaCompleted, Refund}
       /\ Create(i) = Create(j) => i = j
       /\ Confirm(i) = Confirm(j) => i = j
BY DEF Create, Confirm, Cancel, Payment, Invoice, SagaCompleted, Refund

\* Sets of items have a cardinality, and only the whole set has Total members.
LEMMA ItemSets ==
  ASSUME NEW S, S \subseteq Items
  PROVE  /\ Cardinality(S) \in Nat
         /\ Cardinality(S) <= Total
         /\ Cardinality(S) >= Total => S = Items
         /\ \A i \in Items \ S : Cardinality(S \cup {i}) = Cardinality(S) + 1
BY ItemsAssumption, FS_Subset, FS_CardinalityType, FS_AddElement DEF Total

\* A handler commits an answer the inbox does not have yet, so no answer to
\* that command was accepted before.
LEMMA CommitAccepts ==
  ASSUME Orderly, NEW h \in Handlers, NEW type, Commits(h, type)
  PROVE  /\ job[h].ev \in Event
         /\ job[h].ev.cmd \in Commands /\ job[h].ev.cmd.type = type
         /\ ~Accepted(job[h].ev.cmd)
         /\ \A c : Accepted(c)' <=> \/ Accepted(c)
                                    \/ c = job[h].ev.cmd /\ Succeeded(h)
         /\ EventsAreAnswers'
<1> DEFINE e == job[h].ev
<1>1. e \in Event /\ e.cmd \in Commands /\ e.cmd.type = type /\ e \notin inbox
  BY CommitsType DEF Commits, Job, Event, Orderly
<1>2. outcome[e.cmd] = e.out
  BY DEF Commits, Orderly, EventsAreAnswers
<1>3. ASSUME NEW f \in inbox, f.cmd = e.cmd PROVE FALSE
  <2>1. f \in Event /\ f.out = e.out
    BY <1>2, <1>3 DEF Orderly, StateOK, EventsAreAnswers
  <2> QED
    BY <1>1, <1>3, <2>1, EventEquality
<1>4. inbox' = inbox \cup {e} /\ outcome' = outcome /\ queue' = queue
  BY DEF Commits
<1>5. \A c : Accepted(c)' <=> Accepted(c) \/ (c = e.cmd /\ Succeeded(h))
  BY <1>4 DEF Accepted, Succeeded
<1>6. EventsAreAnswers'
  <2>1. \A f \in inbox' \cup queue' : outcome'[f.cmd] = f.out
    BY <1>2, <1>4 DEF Orderly, EventsAreAnswers
  <2>2. \A g \in Handlers : job'[g] # NoJob => job'[g] = job[g] /\ job[g] # NoJob
    BY DEF Commits, Orderly, StateOK
  <2> QED
    BY <1>4, <2>1, <2>2 DEF Orderly, EventsAreAnswers
<1> QED
  BY <1>1, <1>3, <1>5, <1>6 DEF Accepted

\* The command of a "create" or "confirm" event names one item; the other two
\* types have one command each.
LEMMA CommandOfType ==
  ASSUME NEW c \in Commands
  PROVE  /\ c.type = "create"  => \E i \in Items : c = Create(i)
         /\ c.type = "confirm" => \E i \in Items : c = Confirm(i)
         /\ c.type = "payment" => c = Payment
         /\ c.type = "invoice" => c = Invoice
BY DEF Commands, Create, Confirm, Payment, Invoice

\* What a publish adds, message by message.
LEMMA PublishCounts ==
  ASSUME StateOK, NEW ms, Publish(ms), NEW m \in Messages
  PROVE  /\ outbox[m] \in Nat
         /\ outbox'[m] = IF m \in ms THEN outbox[m] + 1 ELSE outbox[m]
BY DEF StateOK, Publish

\* Nothing is published, counted or accepted in the initial state.
LEMMA InitIInv == Init => IInv
<1> SUFFICES ASSUME Init PROVE IInv
  OBVIOUS
<1>1. ItemsCreated = {} /\ ItemsConfirmed = {}
  BY DEF Init, ItemsCreated, ItemsConfirmed, Accepted
<1>2. CountersMatchInbox
  BY <1>1, FS_EmptySet DEF Init, CountersMatchInbox
<1>3. StagesInOrder
  BY MessageTypes DEF Init, StagesInOrder
<1> QED
  BY InitStateOK, <1>2, <1>3 DEF IInv, Orderly, Init, EventsAreAnswers

\* A step that touches neither the inbox nor the outbox, and does not take the
\* request back, keeps the stages.
LEMMA SameStages ==
  ASSUME StagesInOrder, UNCHANGED <<inbox, outbox>>,
         http' \in {"request", "converted"} => http \in {"request", "converted"}
  PROVE  StagesInOrder'
<1>1. \A c : Accepted(c)' <=> Accepted(c)
  BY DEF Accepted
<1>2. ItemsCreated' = ItemsCreated /\ ItemsConfirmed' = ItemsConfirmed
  BY <1>1 DEF ItemsCreated, ItemsConfirmed
<1> QED
  BY <1>1, <1>2 DEF StagesInOrder

\* When it does not touch the counters either, it keeps them right.
LEMMA FrameStages ==
  ASSUME IInv, UNCHANGED <<inbox, outbox>>,
         saga'.items_created = saga.items_created,
         saga'.items_confirmed = saga.items_confirmed,
         http' \in {"request", "converted"} => http \in {"request", "converted"}
  PROVE  CountersMatchInbox' /\ StagesInOrder'
<1>1. \A c : Accepted(c)' <=> Accepted(c)
  BY DEF Accepted
<1>2. ItemsCreated' = ItemsCreated /\ ItemsConfirmed' = ItemsConfirmed
  BY <1>1 DEF ItemsCreated, ItemsConfirmed
<1>3. CountersMatchInbox'
  BY <1>2 DEF IInv, Orderly, CountersMatchInbox
<1>4. StagesInOrder'
  BY SameStages DEF IInv, Orderly
<1> QED
  BY <1>3, <1>4

\* integracion.created: the payment goes out with the last item, once.
LEMMA CreatedKeeps ==
  ASSUME IInv, NEW h \in Handlers, Created(h)
  PROVE  EventsAreAnswers' /\ CountersMatchInbox' /\ StagesInOrder'
<1> USE DEF IInv, Orderly
<1>1. Commits(h, "create") /\ Succeeded(h) /\ UNCHANGED http
  BY DEF Created, Commits
<1>2. PICK i \in Items : job[h].ev.cmd = Create(i)
  BY <1>1, CommitAccepts, CommandOfType
<1>3. /\ ~Accepted(Create(i)) /\ EventsAreAnswers'
      /\ \A c : Accepted(c)' <=> Accepted(c) \/ c = Create(i)
  BY <1>1, <1>2, CommitAccepts
<1>4. i \notin ItemsCreated /\ ItemsCreated' = ItemsCreated \cup {i}
      /\ ItemsConfirmed' = ItemsConfirmed
  BY <1>3, MessagesDiffer DEF ItemsCreated, ItemsConfirmed
<1>5. ItemsCreated \subseteq Items /\ ItemsCreated' \subseteq Items
  BY <1>4 DEF ItemsCreated
<1>6. Cardinality(ItemsCreated') = Cardinality(ItemsCreated) + 1
  BY <1>4, <1>5, ItemSets
<1>7. /\ saga'.items_created = saga.items_created + 1
      /\ saga'.items_confirmed = saga.items_confirmed
  BY DEF Created, Fail, Advance, StateOK, SagaRow
<1>8. CountersMatchInbox'
  BY <1>4, <1>6, <1>7 DEF CountersMatchInbox
<1>9. outbox[Payment] = 0
  BY <1>4, MessageTypes DEF StagesInOrder, StateOK
<1>10. \/ UNCHANGED outbox
       \/ Publish({Payment}) /\ saga.items_created + 1 >= Total
  BY DEF Created, StateOK, SagaRow
<1>11. CASE UNCHANGED outbox
  <2>1. StagesInOrder'
    BY <1>1, <1>3, <1>4, <1>9, <1>11 DEF StagesInOrder, ItemsConfirmed
  <2> QED
    BY <1>3, <1>8, <2>1
<1>12. CASE Publish({Payment}) /\ saga.items_created + 1 >= Total
  <2>1. ItemsCreated' = Items
    BY <1>5, <1>6, <1>12, ItemSets DEF CountersMatchInbox
  <2>2. outbox'[Payment] = 1
    BY <1>9, <1>12, PublishCounts, MessageTypes
  <2>3. \A m \in Messages \ {Payment} : outbox'[m] = outbox[m]
    BY <1>12, PublishCounts
  <2>4. StagesInOrder'
    BY <1>1, <1>3, <1>4, <2>1, <2>2, <2>3, MessageTypes, MessagesDiffer
    DEF StagesInOrder
  <2> QED
    BY <1>3, <1>8, <2>4
<1> QED
  BY <1>10, <1>11, <1>12

\* payment.processed: the invoice is asked for once, whatever became of the row.
LEMMA ProcessedInOrder ==
  ASSUME Orderly, NEW h \in Handlers, Processed(h)
  PROVE  /\ EventsAreAnswers' /\ StagesInOrder'
         /\ ItemsCreated' = ItemsCreated /\ ItemsConfirmed' = ItemsConfirmed
<1> USE DEF Orderly
<1>1. /\ Commits(h, "payment") /\ Succeeded(h) /\ UNCHANGED http
      /\ Publish({Invoice})
  BY DEF Processed, Commits
<1>2. job[h].ev.cmd = Payment
  BY <1>1, CommitAccepts, CommandOfType
<1>3. /\ ~Accepted(Payment) /\ EventsAreAnswers'
      /\ \A c : Accepted(c)' <=> Accepted(c) \/ c = Payment
  BY <1>1, <1>2, CommitAccepts
<1>4. ItemsCreated' = ItemsCreated /\ ItemsConfirmed' = ItemsConfirmed
  BY <1>3, MessagesDiffer DEF ItemsCreated, ItemsConfirmed
<1>7. outbox[Invoice] = 0
  BY <1>3, MessageTypes DEF StagesInOrder, StateOK
<1>8. outbox'[Invoice] = 1
  BY <1>1, <1>7, PublishCounts, MessageTypes
<1>9. \A m \in Messages \ {Invoice} : outbox'[m] = outbox[m]
  BY <1>1, PublishCounts
<1>10. StagesInOrder'
  BY <1>1, <1>3, <1>4, <1>8, <1>9, MessageTypes, MessagesDiffer DEF StagesInOrder
<1> QED
  BY <1>3, <1>4, <1>10

\* The counters do not move with the payment.
LEMMA ProcessedKeeps ==
  ASSUME IInv, NEW h \in Handlers, Processed(h)
  PROVE  EventsAreAnswers' /\ CountersMatchInbox' /\ StagesInOrder'
<1>1. /\ saga'.items_created = saga.items_created
      /\ saga'.items_confirmed = saga.items_confirmed
  BY DEF Processed, Advance, IInv, Orderly, StateOK, SagaRow
<1> QED
  BY <1>1, ProcessedInOrder DEF IInv, CountersMatchInbox

\* invoice.issued: each confirm command goes out at most once.
LEMMA IssuedKeeps ==
  ASSUME IInv, NEW h \in Handlers, Issued(h)
  PROVE  EventsAreAnswers' /\ CountersMatchInbox' /\ StagesInOrder'
<1> USE DEF IInv, Orderly
<1> DEFINE ms == {Confirm(i) : i \in job[h].ext}
<1>1. /\ Commits(h, "invoice") /\ Succeeded(h) /\ UNCHANGED http
      /\ Publish(ms)
  BY DEF Issued, Commits, Confirmables
<1>2. job[h].ev.cmd = Invoice
  BY <1>1, CommitAccepts, CommandOfType
<1>3. /\ ~Accepted(Invoice) /\ EventsAreAnswers'
      /\ \A c : Accepted(c)' <=> Accepted(c) \/ c = Invoice
  BY <1>1, <1>2, CommitAccepts
<1>4. ItemsCreated' = ItemsCreated /\ ItemsConfirmed' = ItemsConfirmed
  BY <1>3, MessagesDiffer DEF ItemsCreated, ItemsConfirmed
<1>5. /\ saga'.items_created = saga.items_created
      /\ saga'.items_confirmed = saga.items_confirmed
  BY DEF Issued, Advance, StateOK, SagaRow
<1>6. CountersMatchInbox'
  BY <1>4, <1>5 DEF CountersMatchInbox
<1>7. \A i \in Items : outbox[Confirm(i)] = 0
  BY <1>3, MessageTypes DEF StagesInOrder, StateOK
<1>8. \A i \in Items : outbox'[Confirm(i)] \in {0, 1}
  BY <1>1, <1>7, PublishCounts, MessageTypes
<1>9. job[h].ext \subseteq Items
  BY <1>1, CommitsType DEF Job
<1>10. \A m \in Messages \ {Confirm(i) : i \in Items} : outbox'[m] = outbox[m]
  BY <1>1, <1>9, PublishCounts
<1>11. StagesInOrder'
  BY <1>1, <1>3, <1>4, <1>8, <1>10, MessageTypes, MessagesDiffer DEF StagesInOrder
<1> QED
  BY <1>3, <1>6, <1>11

\* integration.confirmed: saga.completed is announced with the last item, once.
LEMMA ConfirmedKeeps ==
  ASSUME IInv, NEW h \in Handlers, Confirmed(h)
  PROVE  EventsAreAnswers' /\ CountersMatchInbox' /\ StagesInOrder'
<1> USE DEF IInv, Orderly
<1>1. Commits(h, "confirm") /\ Succeeded(h) /\ UNCHANGED http
  BY DEF Confirmed, Commits
<1>2. PICK i \in Items : job[h].ev.cmd = Confirm(i)
  BY <1>1, CommitAccepts, CommandOfType
<1>3. /\ ~Accepted(Confirm(i)) /\ EventsAreAnswers'
      /\ \A c : Accepted(c)' <=> Accepted(c) \/ c = Confirm(i)
  BY <1>1, <1>2, CommitAccepts
<1>4. i \notin ItemsConfirmed /\ ItemsConfirmed' = ItemsConfirmed \cup {i}
      /\ ItemsCreated' = ItemsCreated
  BY <1>3, MessagesDiffer DEF ItemsCreated, ItemsConfirmed
<1>5. ItemsConfirmed \subseteq Items /\ ItemsConfirmed' \subseteq Items
  BY <1>4 DEF ItemsConfirmed
<1>6. Cardinality(ItemsConfirmed') = Cardinality(ItemsConfirmed) + 1
  BY <1>4, <1>5, ItemSets
<1>7. /\ saga'.items_confirmed = saga.items_confirmed + 1
      /\ saga'.items_created = saga.items_created
  BY DEF Confirmed, Advance, StateOK, SagaRow
<1>8. CountersMatchInbox'
  BY <1>4, <1>6, <1>7 DEF CountersMatchInbox
<1>9. outbox[SagaCompleted] = 0
  BY <1>4, MessageTypes DEF StagesInOrder, StateOK
<1>10. \/ UNCHANGED outbox
       \/ Publish({SagaCompleted}) /\ saga.items_confirmed + 1 >= Total
  BY DEF Confirmed, StateOK, SagaRow
<1>11. CASE UNCHANGED outbox
  <2>1. StagesInOrder'
    BY <1>1, <1>3, <1>4, <1>9, <1>11 DEF StagesInOrder
  <2> QED
    BY <1>3, <1>8, <2>1
<1>12. CASE Publish({SagaCompleted}) /\ saga.items_confirmed + 1 >= Total
  <2>1. ItemsConfirmed' = Items
    BY <1>5, <1>6, <1>12, ItemSets DEF CountersMatchInbox
  <2>2. outbox'[SagaCompleted] = 1
    BY <1>9, <1>12, PublishCounts, MessageTypes
  <2>3. \A m \in Messages \ {SagaCompleted} : outbox'[m] = outbox[m]
    BY <1>12, PublishCounts
  <2>4. StagesInOrder'
    BY <1>1, <1>3, <1>4, <2>1, <2>2, <2>3, MessageTypes, MessagesDiffer
    DEF StagesInOrder
  <2> QED
    BY <1>3, <1>8, <2>4
<1> QED
  BY <1>10, <1>11, <1>12

\* The four failure consumers mark the inbox with bad news, which counts for
\* no stage, whatever became of the row.
LEMMA CompensateInOrder ==
  ASSUME Orderly, NEW h \in Handlers, NEW type, NEW step, Compensate(h, type, step)
  PROVE  /\ EventsAreAnswers' /\ StagesInOrder'
         /\ ItemsCreated' = ItemsCreated /\ ItemsConfirmed' = ItemsConfirmed
<1> USE DEF Orderly
<1>1. Commits(h, type) /\ ~Succeeded(h) /\ UNCHANGED <<http, outbox>>
  BY DEF Compensate, Commits
<1>2. EventsAreAnswers' /\ \A c : Accepted(c)' <=> Accepted(c)
  BY <1>1, CommitAccepts
<1>3. ItemsCreated' = ItemsCreated /\ ItemsConfirmed' = ItemsConfirmed
  BY <1>2 DEF ItemsCreated, ItemsConfirmed
<1>4. StagesInOrder'
  BY <1>1, <1>2, <1>3 DEF StagesInOrder
<1> QED
  BY <1>2, <1>3, <1>4

\* Nor do the counters move.
LEMMA CompensateKeeps ==
  ASSUME IInv, NEW h \in Handlers, NEW type, NEW step, Compensate(h, type, step)
  PROVE  EventsAreAnswers' /\ CountersMatchInbox' /\ StagesInOrder'
<1>1. /\ saga'.items_created = saga.items_created
      /\ saga'.items_confirmed = saga.items_confirmed
  BY DEF Compensate, Advance, IInv, Orderly, StateOK, SagaRow
<1> QED
  BY <1>1, CompensateInOrder DEF IInv, CountersMatchInbox

\* The HTTP handler publishes the create commands once: it is past that point
\* for good, even when the process restarts.
LEMMA CreateSagaKeeps ==
  ASSUME IInv, NEW payable \in BOOLEAN, CreateSaga(payable)
  PROVE  EventsAreAnswers' /\ CountersMatchInbox' /\ StagesInOrder'
<1> USE DEF IInv, Orderly
<1> DEFINE ms == {Create(i) : i \in Items}
<1>1. /\ Publish(ms) /\ http = "converted" /\ http' = "waiting"
      /\ UNCHANGED <<inbox, queue, job, outcome>>
  BY DEF CreateSaga, consumerVars
<1>2. EventsAreAnswers'
  BY <1>1 DEF EventsAreAnswers
<1>3. \A c : Accepted(c)' <=> Accepted(c)
  BY <1>1 DEF Accepted
<1>4. ItemsCreated' = ItemsCreated /\ ItemsConfirmed' = ItemsConfirmed
  BY <1>3 DEF ItemsCreated, ItemsConfirmed
<1>5. /\ saga'.items_created = saga.items_created
      /\ saga'.items_confirmed = saga.items_confirmed
  BY DEF CreateSaga, StateOK, SagaRow
<1>6. CountersMatchInbox'
  BY <1>4, <1>5 DEF CountersMatchInbox
<1>7. \A i \in Items : outbox'[Create(i)] = 1
  BY <1>1, PublishCounts, MessageTypes DEF StagesInOrder
<1>8. \A m \in Messages \ ms : outbox'[m] = outbox[m]
  BY <1>1, PublishCounts
<1>9. StagesInOrder'
  BY <1>1, <1>3, <1>4, <1>7, <1>8, MessageTypes, MessagesDiffer DEF StagesInOrder
<1> QED
  BY <1>2, <1>6, <1>9

-----------------------------------------------------------------------------
(* The steps of the next-state relation, by what they touch. *)

\* Those that leave inbox, outbox, ids and the row alone.
Silent == ConvertCart \/ CreateSagaFails \/ PollTerminal \/ WaitTimesOut \/ AnswerSuccess
          \/ (\E c \in Commands : \E out \in Outcomes(c) : ServiceAnswers(c, out))
          \/ (\E e \in Event : Redeliver(e) \/ Receive(e))
          \/ (\E h \in Handlers : Rollback(h))
          \/ CronScan \/ Crash \/ UNCHANGED vars

\* The silent steps are what their name says.
LEMMA SilentFrame ==
  ASSUME Silent
  PROVE  /\ UNCHANGED <<inbox, outbox, idExterno, saga>>
         /\ http' \in {"request", "converted"} => http \in {"request", "converted"}
BY DEF Silent, ConvertCart, CreateSagaFails, PollTerminal, WaitTimesOut, AnswerSuccess,
       ServiceAnswers, Redeliver, Receive, AckDuplicate, AckSkipped, Take, Rollback,
       CronScan, Crash, vars, consumerVars

\* The steps that the answers to commands are expected in.
FailableSteps == {"CREATING_REMOTE_RESERVATIONS", "PROCESSING_PAYMENT",
                  "ISSUING_INVOICE", "CONFIRMING_REMOTE_RESERVATIONS"}

\* Every step is silent, the cron's, the start of the saga, or the commit of a
\* consumer: one of the four for good news, or one that compensates.
LEMMA StepKinds ==
  ASSUME [Next]_vars
  PROVE  \/ Silent
         \/ CronFail
         \/ \E payable \in BOOLEAN : CreateSaga(payable)
         \/ \E h \in Handlers : Created(h) \/ Processed(h) \/ Issued(h) \/ Confirmed(h)
         \/ \E h \in Handlers, step \in FailableSteps : \E type : Compensate(h, type, step)
<1>1. ASSUME NEW h \in Handlers, HandlerStep(h)
      PROVE  \/ Created(h) \/ Processed(h) \/ Issued(h) \/ Confirmed(h) \/ Rollback(h)
             \/ \E step \in FailableSteps : \E type : Compensate(h, type, step)
  BY <1>1
  DEF HandlerStep, CreateFailed, PaymentFailed, InvoiceFailed, ConfirmFailed, FailableSteps
<1> QED
  BY <1>1 DEF Next, HttpStep, Silent

\* Events come from those who answer, once per command, and go back and forth
\* between the queue and the handlers.
LEMMA SilentEvents ==
  ASSUME StateOK, EventsAreAnswers, Silent
  PROVE  EventsAreAnswers'
<1>1. ASSUME NEW c \in Commands, NEW out \in Outcomes(c), ServiceAnswers(c, out)
      PROVE  EventsAreAnswers'
  <2>1. /\ outcome[c] = "none" /\ outcome' = [outcome EXCEPT ![c] = out]
        /\ queue' = queue \cup {[cmd |-> c, out |-> out]}
        /\ UNCHANGED <<inbox, job>>
    BY <1>1 DEF ServiceAnswers
  <2>2. \A f \in Event : outcome[f.cmd] = f.out => outcome'[f.cmd] = f.out
    BY <2>1 DEF StateOK, Event
  <2>3. outcome'[c] = out
    BY <2>1 DEF StateOK
  <2>4. \A f \in inbox' \cup queue' : outcome'[f.cmd] = f.out
    BY <2>1, <2>2, <2>3 DEF EventsAreAnswers, StateOK
  <2>5. \A h \in Handlers : job'[h] # NoJob => outcome'[job'[h].ev.cmd] = job'[h].ev.out
    BY <2>1, <2>2 DEF EventsAreAnswers, StateOK, Job
  <2> QED
    BY <2>4, <2>5 DEF EventsAreAnswers
<1>2. ASSUME NEW e \in Event, Redeliver(e) PROVE EventsAreAnswers'
  BY <1>2 DEF Redeliver, EventsAreAnswers
<1>3. ASSUME NEW e \in Event, Receive(e) PROVE EventsAreAnswers'
  <2>1. CASE AckDuplicate(e) \/ AckSkipped(e)
    BY <2>1 DEF AckDuplicate, AckSkipped, EventsAreAnswers
  <2>2. ASSUME NEW h \in Handlers, Take(h, e) PROVE EventsAreAnswers'
    BY <2>2 DEF Take, EventsAreAnswers, StateOK
  <2> QED
    BY <1>3, <2>1, <2>2 DEF Receive
<1>4. ASSUME NEW h \in Handlers, Rollback(h) PROVE EventsAreAnswers'
  BY <1>4 DEF Rollback, EventsAreAnswers, StateOK
<1>5. CASE Crash
  BY <1>5 DEF Crash, EventsAreAnswers
<1>6. CASE \/ ConvertCart \/ CreateSagaFails \/ PollTerminal \/ WaitTimesOut
           \/ AnswerSuccess \/ CronScan \/ UNCHANGED vars
  BY <1>6 DEF ConvertCart, CreateSagaFails, PollTerminal, WaitTimesOut, AnswerSuccess,
              CronScan, vars, consumerVars, EventsAreAnswers
<1> QED
  BY <1>1, <1>2, <1>3, <1>4, <1>5, <1>6 DEF Silent

-----------------------------------------------------------------------------
(* The first invariant. *)

\* Every step keeps it.
LEMMA NextIInv == IInv /\ [Next]_vars => IInv'
<1> SUFFICES ASSUME IInv, [Next]_vars
             PROVE  EventsAreAnswers' /\ CountersMatchInbox' /\ StagesInOrder'
  BY NextStateOK DEF IInv, Orderly
<1> USE DEF IInv, Orderly
<1>1. CASE Silent
  BY <1>1, SilentEvents, SilentFrame, FrameStages
<1>2. ASSUME NEW payable \in BOOLEAN, CreateSaga(payable)
      PROVE  EventsAreAnswers' /\ CountersMatchInbox' /\ StagesInOrder'
  BY <1>2, CreateSagaKeeps
<1>3. CASE CronFail
  <2>1. /\ UNCHANGED <<inbox, outbox, http, outcome, queue, job>>
        /\ saga'.items_created = saga.items_created
        /\ saga'.items_confirmed = saga.items_confirmed
    BY <1>3 DEF CronFail, consumerVars, Fail, StateOK, SagaRow
  <2>2. EventsAreAnswers'
    BY <2>1 DEF EventsAreAnswers
  <2> QED
    BY <2>1, <2>2, FrameStages
<1> QED
  BY <1>1, <1>2, <1>3, StepKinds, CreatedKeeps, ProcessedKeeps, IssuedKeeps, ConfirmedKeeps,
     CompensateKeeps

\* Every reachable state satisfies the inductive invariant, for any constants.
THEOREM Invariant == Spec => []IInv
<1>1. Init => IInv
  BY InitIInv
<1>2. IInv /\ [Next]_vars => IInv'
  BY NextIInv
<1> QED
  BY <1>1, <1>2, PTL DEF Spec

\* The stages between them publish every message at most once.
LEMMA StagesPublishOnce == Orderly => PublishedOnce
<1> SUFFICES ASSUME Orderly, NEW m \in Messages PROVE outbox[m] <= 1
  BY DEF PublishedOnce
<1>1. \/ m \in {Payment, Invoice, Refund, SagaCompleted}
      \/ \E i \in Items : m \in {Create(i), Confirm(i), Cancel(i)}
  BY DEF Messages, Commands
<1> QED
  BY <1>1 DEF Orderly, StagesInOrder

\* However many items, handlers, redeliveries and restarts: no command is
\* published twice, so nobody is charged twice by this service.
THEOREM PublishedOnceAlways == Spec => []PublishedOnce
<1>1. IInv => PublishedOnce
  BY StagesPublishOnce DEF IInv
<1> QED
  BY <1>1, Invariant, PTL

\* The items_* counters are the good answers in the inbox, exactly.
THEOREM CountersMatchInboxAlways == Spec => []CountersMatchInbox
<1>1. IInv => CountersMatchInbox
  BY DEF IInv, Orderly
<1> QED
  BY <1>1, Invariant, PTL

\* Nobody is charged before every item exists at its provider.
THEOREM PaymentAfterAllCreatedAlways == Spec => []PaymentAfterAllCreated
<1>1. IInv => PaymentAfterAllCreated
  BY DEF IInv, Orderly, StagesInOrder, PaymentAfterAllCreated
<1> QED
  BY <1>1, Invariant, PTL


-----------------------------------------------------------------------------
(* What each consumer does, in terms of accepted answers and messages. *)

\* Only the listed messages gain a row.
OnlyPublishes(ms) == \A m \in Messages \ ms : outbox'[m] = outbox[m]

\* The frame of a commit, for those who do not care which one.
LEMMA CommitFrame ==
  ASSUME Orderly, NEW h \in Handlers, NEW type, Commits(h, type)
  PROVE  /\ UNCHANGED <<http, cron, outcome, reserva>>
         /\ \A g \in Handlers : job'[g] # NoJob => job'[g] = job[g]
         /\ job[h] # NoJob
BY DEF Commits, IInv, Orderly, StateOK

\* A commit of Created counts one new item, and at most sets off the payment.
LEMMA CreatedEffect ==
  ASSUME IInv, NEW h \in Handlers, Created(h)
  PROVE  \E i \in Items :
           /\ i \notin ItemsCreated /\ ItemsCreated' = ItemsCreated \cup {i}
           /\ ItemsConfirmed' = ItemsConfirmed
           /\ idExterno' \in {idExterno, idExterno \cup {i}}
           /\ \A c : Accepted(c)' <=> Accepted(c) \/ c = Create(i)
           /\ \/ UNCHANGED outbox
              \/ /\ ItemsCreated' = Items /\ saga.payable
                 /\ outbox[Payment] = 0 /\ outbox'[Payment] = 1
                 /\ OnlyPublishes({Payment})
<1> USE DEF IInv, Orderly
<1>1. Commits(h, "create") /\ Succeeded(h)
  BY DEF Created
<1>2. PICK i \in Items : job[h].ev.cmd = Create(i)
  BY <1>1, CommitAccepts, CommandOfType
<1>3. /\ ~Accepted(Create(i))
      /\ \A c : Accepted(c)' <=> Accepted(c) \/ c = Create(i)
  BY <1>1, <1>2, CommitAccepts
<1>4. i \notin ItemsCreated /\ ItemsCreated' = ItemsCreated \cup {i}
      /\ ItemsConfirmed' = ItemsConfirmed
  BY <1>3, MessagesDiffer DEF ItemsCreated, ItemsConfirmed
<1>5. idExterno' \in {idExterno, idExterno \cup {i}}
  BY <1>2 DEF Created, Create
<1>6. \/ UNCHANGED outbox
      \/ Publish({Payment}) /\ saga.items_created + 1 >= Total /\ saga.payable
  BY DEF Created, StateOK, SagaRow
<1>7. CASE UNCHANGED outbox
  BY <1>3, <1>4, <1>5, <1>7
<1>8. CASE Publish({Payment}) /\ saga.items_created + 1 >= Total /\ saga.payable
  <2>1. ItemsCreated \subseteq Items /\ ItemsCreated' \subseteq Items
    BY <1>4 DEF ItemsCreated
  <2>2. Cardinality(ItemsCreated') = Cardinality(ItemsCreated) + 1
    BY <1>4, <2>1, ItemSets
  <2>3. ItemsCreated' = Items
    BY <1>8, <2>1, <2>2, ItemSets DEF CountersMatchInbox
  <2>4. outbox[Payment] = 0
    BY <1>4, MessageTypes DEF StagesInOrder, StateOK
  <2>5. outbox'[Payment] = 1 /\ OnlyPublishes({Payment})
    BY <1>8, <2>4, PublishCounts, MessageTypes DEF OnlyPublishes
  <2> QED
    BY <1>3, <1>4, <1>5, <1>8, <2>3, <2>4, <2>5
<1> QED
  BY <1>6, <1>7, <1>8

\* A commit of Processed accepts the payment and orders the first invoice.
LEMMA ProcessedEffect ==
  ASSUME Orderly, NEW h \in Handlers, Processed(h)
  PROVE  /\ ~Accepted(Payment)
         /\ \A c : Accepted(c)' <=> Accepted(c) \/ c = Payment
         /\ ItemsCreated' = ItemsCreated /\ ItemsConfirmed' = ItemsConfirmed
         /\ outbox[Invoice] = 0 /\ outbox'[Invoice] = 1
         /\ OnlyPublishes({Invoice})
         /\ UNCHANGED idExterno
<1> USE DEF IInv, Orderly
<1>1. Commits(h, "payment") /\ Succeeded(h) /\ Publish({Invoice}) /\ UNCHANGED idExterno
  BY DEF Processed
<1>2. job[h].ev.cmd = Payment
  BY <1>1, CommitAccepts, CommandOfType
<1>3. /\ ~Accepted(Payment)
      /\ \A c : Accepted(c)' <=> Accepted(c) \/ c = Payment
  BY <1>1, <1>2, CommitAccepts
<1>4. ItemsCreated' = ItemsCreated /\ ItemsConfirmed' = ItemsConfirmed
  BY <1>3, MessagesDiffer DEF ItemsCreated, ItemsConfirmed
<1>5. outbox[Invoice] = 0
  BY <1>3, MessageTypes DEF StagesInOrder, StateOK
<1>6. outbox'[Invoice] = 1 /\ OnlyPublishes({Invoice})
  BY <1>1, <1>5, PublishCounts, MessageTypes DEF OnlyPublishes
<1> QED
  BY <1>1, <1>3, <1>4, <1>5, <1>6

\* A commit of Issued accepts the invoice and asks for the confirmation of the
\* items whose external id its reads saw.
LEMMA IssuedEffect ==
  ASSUME Orderly, NEW h \in Handlers, Issued(h)
  PROVE  /\ ~Accepted(Invoice)
         /\ \A c : Accepted(c)' <=> Accepted(c) \/ c = Invoice
         /\ ItemsCreated' = ItemsCreated /\ ItemsConfirmed' = ItemsConfirmed
         /\ job[h].ext \subseteq Items
         /\ \A i \in Items : /\ outbox[Confirm(i)] = 0
                             /\ outbox'[Confirm(i)] = IF i \in job[h].ext THEN 1 ELSE 0
         /\ OnlyPublishes({Confirm(i) : i \in Items})
         /\ UNCHANGED idExterno
<1> USE DEF IInv, Orderly
<1> DEFINE ms == {Confirm(i) : i \in job[h].ext}
<1>1. Commits(h, "invoice") /\ Succeeded(h) /\ Publish(ms) /\ UNCHANGED idExterno
  BY DEF Issued, Confirmables
<1>2. job[h].ev.cmd = Invoice
  BY <1>1, CommitAccepts, CommandOfType
<1>3. /\ ~Accepted(Invoice)
      /\ \A c : Accepted(c)' <=> Accepted(c) \/ c = Invoice
  BY <1>1, <1>2, CommitAccepts
<1>4. ItemsCreated' = ItemsCreated /\ ItemsConfirmed' = ItemsConfirmed
  BY <1>3, MessagesDiffer DEF ItemsCreated, ItemsConfirmed
<1>5. job[h].ext \subseteq Items
  BY <1>1, CommitsType DEF Job
<1>6. \A i \in Items : outbox[Confirm(i)] = 0
  BY <1>3, MessageTypes DEF StagesInOrder, StateOK
<1>7. ASSUME NEW i \in Items
      PROVE  outbox'[Confirm(i)] = IF i \in job[h].ext THEN 1 ELSE 0
  <2>1. Confirm(i) \in ms <=> i \in job[h].ext
    BY <1>5, MessagesDiffer
  <2> QED
    BY <1>1, <1>6, <2>1, PublishCounts, MessageTypes
<1>8. OnlyPublishes({Confirm(i) : i \in Items})
  BY <1>1, <1>5, PublishCounts DEF OnlyPublishes
<1> QED
  BY <1>1, <1>3, <1>4, <1>5, <1>6, <1>7, <1>8

\* A commit of Confirmed counts one new item; only the last one completes.
LEMMA ConfirmedEffect ==
  ASSUME IInv, NEW h \in Handlers, Confirmed(h)
  PROVE  \E i \in Items :
           /\ job[h].ev.cmd = Confirm(i)
           /\ i \notin ItemsConfirmed /\ ItemsConfirmed' = ItemsConfirmed \cup {i}
           /\ ItemsCreated' = ItemsCreated
           /\ \A c : Accepted(c)' <=> Accepted(c) \/ c = Confirm(i)
           /\ OnlyPublishes({SagaCompleted})
           /\ saga'.step \in {saga.step, "COMPLETED"}
           /\ saga'.step # saga.step =>
                saga.step = "CONFIRMING_REMOTE_RESERVATIONS" /\ ItemsConfirmed' = Items
           /\ UNCHANGED idExterno
<1> USE DEF IInv, Orderly
<1>1. Commits(h, "confirm") /\ Succeeded(h) /\ UNCHANGED idExterno
  BY DEF Confirmed
<1>2. PICK i \in Items : job[h].ev.cmd = Confirm(i)
  BY <1>1, CommitAccepts, CommandOfType
<1>3. /\ ~Accepted(Confirm(i))
      /\ \A c : Accepted(c)' <=> Accepted(c) \/ c = Confirm(i)
  BY <1>1, <1>2, CommitAccepts
<1>4. i \notin ItemsConfirmed /\ ItemsConfirmed' = ItemsConfirmed \cup {i}
      /\ ItemsCreated' = ItemsCreated
  BY <1>3, MessagesDiffer DEF ItemsCreated, ItemsConfirmed
<1>5. OnlyPublishes({SagaCompleted})
  BY PublishCounts DEF Confirmed, OnlyPublishes
<1>6. \/ saga'.step = saga.step
      \/ /\ saga.step = "CONFIRMING_REMOTE_RESERVATIONS" /\ saga'.step = "COMPLETED"
         /\ saga.items_confirmed + 1 >= Total
  BY DEF Confirmed, Advance, StateOK, SagaRow
<1>7. saga.items_confirmed + 1 >= Total => ItemsConfirmed' = Items
  <2>1. ItemsConfirmed \subseteq Items /\ ItemsConfirmed' \subseteq Items
    BY <1>4 DEF ItemsConfirmed
  <2>2. Cardinality(ItemsConfirmed') = Cardinality(ItemsConfirmed) + 1
    BY <1>4, <2>1, ItemSets
  <2> QED
    BY <2>1, <2>2, ItemSets DEF CountersMatchInbox
<1> QED
  BY <1>1, <1>2, <1>3, <1>4, <1>5, <1>6, <1>7

\* A commit of bad news accepts nothing and publishes nothing.
LEMMA CompensateEffect ==
  ASSUME Orderly, NEW h \in Handlers, NEW type, NEW step, Compensate(h, type, step)
  PROVE  /\ \A c : Accepted(c)' <=> Accepted(c)
         /\ ItemsCreated' = ItemsCreated /\ ItemsConfirmed' = ItemsConfirmed
         /\ UNCHANGED <<outbox, idExterno>>
<1>1. Commits(h, type) /\ ~Succeeded(h) /\ UNCHANGED <<outbox, idExterno>>
  BY DEF Compensate
<1>2. \A c : Accepted(c)' <=> Accepted(c)
  BY <1>1, CommitAccepts
<1> QED
  BY <1>1, <1>2 DEF ItemsCreated, ItemsConfirmed

\* A step that leaves the inbox alone accepts nothing.
LEMMA SameInbox ==
  ASSUME UNCHANGED inbox
  PROVE  /\ \A c : Accepted(c)' <=> Accepted(c)
         /\ ItemsCreated' = ItemsCreated /\ ItemsConfirmed' = ItemsConfirmed
<1>1. \A c : Accepted(c)' <=> Accepted(c)
  BY DEF Accepted
<1> QED
  BY <1>1 DEF ItemsCreated, ItemsConfirmed

-----------------------------------------------------------------------------
(* Messages and answers are never taken back. *)

\* No row of the outbox is ever taken back.
LEMMA OutboxGrows ==
  ASSUME StateOK, [Next]_vars
  PROVE  \A m \in Messages : outbox[m] > 0 => outbox'[m] > 0
<1>1. ASSUME NEW ms, Publish(ms)
      PROVE  \A m \in Messages : outbox[m] > 0 => outbox'[m] > 0
  BY <1>1, PublishCounts
<1>2. CASE Silent \/ CronFail
  BY <1>2, SilentFrame DEF CronFail
<1>3. ASSUME NEW payable \in BOOLEAN, CreateSaga(payable)
      PROVE  \A m \in Messages : outbox[m] > 0 => outbox'[m] > 0
  BY <1>1, <1>3 DEF CreateSaga
<1>4. ASSUME NEW h \in Handlers, Created(h) \/ Processed(h) \/ Issued(h) \/ Confirmed(h)
      PROVE  \A m \in Messages : outbox[m] > 0 => outbox'[m] > 0
  BY <1>1, <1>4 DEF Created, Processed, Issued, Confirmed
<1>5. ASSUME NEW h \in Handlers, NEW type, NEW step, Compensate(h, type, step)
      PROVE  \A m \in Messages : outbox[m] > 0 => outbox'[m] > 0
  BY <1>5 DEF Compensate
<1> QED
  BY <1>2, <1>3, <1>4, <1>5, StepKinds

\* Only integracion and finanzas answer.
LEMMA OutcomeOfService ==
  ASSUME StateOK, [Next]_vars
  PROVE  \/ UNCHANGED outcome
         \/ \E c \in Commands : /\ outbox[c] > 0
                                /\ \A d \in Commands \ {c} : outcome'[d] = outcome[d]
<1>1. ASSUME NEW c \in Commands, NEW out \in Outcomes(c), ServiceAnswers(c, out)
      PROVE  outbox[c] > 0 /\ \A d \in Commands \ {c} : outcome'[d] = outcome[d]
  BY <1>1 DEF ServiceAnswers, StateOK
<1>2. CASE Next /\ ~(\E c \in Commands : \E out \in Outcomes(c) : ServiceAnswers(c, out))
  BY <1>2
  DEF Next, HttpStep, HandlerStep, ConvertCart, CreateSaga, CreateSagaFails, PollTerminal,
      WaitTimesOut, AnswerSuccess, Redeliver, Receive, AckDuplicate, AckSkipped, Take,
      Rollback, CronScan, CronFail, Crash, Created, Processed, Issued, Confirmed,
      CreateFailed, PaymentFailed, InvoiceFailed, ConfirmFailed, Compensate, Commits
<1> QED
  BY <1>1, <1>2 DEF vars

\* Every step keeps that only what was asked for is answered.
LEMMA NextAsked == Orderly /\ AnswersWereAsked /\ [Next]_vars => AnswersWereAsked'
<1> SUFFICES ASSUME Orderly, AnswersWereAsked, [Next]_vars,
                    NEW c \in Commands, outcome'[c] # "none"
             PROVE  outbox'[c] > 0
  BY DEF AnswersWereAsked
<1>1. outbox[c] > 0
  BY OutcomeOfService DEF AnswersWereAsked, Orderly
<1> QED
  BY <1>1, OutboxGrows, MessageTypes DEF Orderly

-----------------------------------------------------------------------------
(* External ids. *)

\* Whoever is busy after a step was busy before with the same ids, or read the
\* ids of this moment.
LEMMA JobsRead ==
  ASSUME StateOK, [Next]_vars, NEW h \in Handlers, job'[h] # NoJob
  PROVE  job'[h] = job[h] \/ job'[h].ext = idExterno
<1>1. ASSUME NEW e \in Event, NEW g \in Handlers, Take(g, e)
      PROVE  job'[h] = job[h] \/ job'[h].ext = idExterno
  BY <1>1 DEF Take, StateOK
<1>2. ASSUME NEW g \in Handlers, NEW type, Commits(g, type)
      PROVE  job'[h] = job[h]
  BY <1>2 DEF Commits, StateOK
<1>3. ASSUME NEW g \in Handlers, HandlerStep(g)
      PROVE  job'[h] = job[h]
  BY <1>2, <1>3
  DEF HandlerStep, Created, Processed, Issued, Confirmed, CreateFailed, PaymentFailed,
      InvoiceFailed, ConfirmFailed, Compensate, Rollback, StateOK
<1>4. CASE Next /\ ~(\E e \in Event, g \in Handlers : Take(g, e))
                /\ ~(\E g \in Handlers : HandlerStep(g))
  BY <1>4
  DEF Next, HttpStep, ConvertCart, CreateSaga, CreateSagaFails, PollTerminal,
      WaitTimesOut, AnswerSuccess, ServiceAnswers, Redeliver, Receive, AckDuplicate,
      AckSkipped, CronScan, CronFail, Crash, consumerVars
<1> QED
  BY <1>1, <1>3, <1>4 DEF vars

\* Every step keeps that ids are those of created items, in the detalles and in
\* what the handlers have read.
LEMMA NextIds == IInv /\ IdsInOrder /\ [Next]_vars => IdsInOrder'
<1> SUFFICES ASSUME IInv, IdsInOrder, [Next]_vars PROVE IdsInOrder'
  OBVIOUS
<1> Orderly
  BY DEF IInv
<1> USE DEF IdsInOrder
<1> DEFINE Kept == /\ idExterno \subseteq idExterno'
                   /\ idExterno' \subseteq ItemsCreated'
                   /\ \A i \in Items : outbox'[Confirm(i)] > 0 => i \in idExterno'
<1>0. \A i \in Items : Confirm(i) \in Messages /\ outbox[Confirm(i)] \in Nat
  BY MessageTypes DEF IInv, Orderly, StateOK
<1>1. ASSUME Silent \/ CronFail PROVE Kept
  <2>1. UNCHANGED <<inbox, outbox, idExterno>>
    BY <1>1, SilentFrame DEF CronFail, consumerVars
  <2> QED
    BY <2>1, SameInbox
<1>2. ASSUME NEW payable \in BOOLEAN, CreateSaga(payable) PROVE Kept
  <2>1. UNCHANGED <<inbox, idExterno>> /\ Publish({Create(i) : i \in Items})
    BY <1>2 DEF CreateSaga, consumerVars
  <2>2. \A i \in Items : outbox'[Confirm(i)] = outbox[Confirm(i)]
    BY <1>0, <2>1, PublishCounts, MessagesDiffer DEF IInv, Orderly
  <2> QED
    BY <2>1, <2>2, SameInbox
<1>3. ASSUME NEW h \in Handlers, Created(h) PROVE Kept
  <2>1. \A i \in Items : outbox'[Confirm(i)] = outbox[Confirm(i)]
    BY <1>0, <1>3, CreatedEffect, MessagesDiffer DEF OnlyPublishes
  <2> QED
    BY <1>3, <2>1, CreatedEffect
<1>4. ASSUME NEW h \in Handlers, Processed(h) PROVE Kept
  <2>1. \A i \in Items : outbox'[Confirm(i)] = outbox[Confirm(i)]
    BY <1>0, <1>4, ProcessedEffect, MessagesDiffer DEF OnlyPublishes
  <2> QED
    BY <1>4, <2>1, ProcessedEffect
<1>5. ASSUME NEW h \in Handlers, Issued(h) PROVE Kept
  <2>1. job[h].ext \subseteq idExterno
    BY <1>5, CommitFrame DEF Issued
  <2> QED
    BY <1>5, <2>1, IssuedEffect
<1>6. ASSUME NEW h \in Handlers, Confirmed(h) PROVE Kept
  <2>1. \A i \in Items : outbox'[Confirm(i)] = outbox[Confirm(i)]
    BY <1>0, <1>6, ConfirmedEffect, MessagesDiffer DEF OnlyPublishes
  <2> QED
    BY <1>6, <2>1, ConfirmedEffect
<1>7. ASSUME NEW h \in Handlers, NEW type, NEW step, Compensate(h, type, step)
      PROVE  Kept
  BY <1>7, CompensateEffect
<1>8. Kept
  BY <1>1, <1>2, <1>3, <1>4, <1>5, <1>6, <1>7, StepKinds
<1>9. \A h \in Handlers : job'[h] # NoJob => job'[h].ext \subseteq idExterno'
  BY <1>8, JobsRead DEF IInv, Orderly
<1> QED
  BY <1>8, <1>9

-----------------------------------------------------------------------------
(* The saga row. *)

\* The step only moves from where the consumer expects it, except that the
\* last item of a saga with nothing to pay fails it from any step.
LEMMA CreatedRow ==
  ASSUME IInv, NEW h \in Handlers, Created(h)
  PROVE  /\ \/ saga'.step = saga.step
            \/ saga.step = "CREATING_REMOTE_RESERVATIONS" /\ saga'.step = "PROCESSING_PAYMENT"
            \/ saga'.step = "FAILED" /\ ItemsCreated' = Items /\ UNCHANGED outbox
         /\ saga'.payment_id = saga.payment_id
         /\ saga'.invoice_id = saga.invoice_id
         /\ saga'.invoiceInContext = saga.invoiceInContext
<1> USE DEF IInv, Orderly
<1>1. PICK i \in Items : i \notin ItemsCreated /\ ItemsCreated' = ItemsCreated \cup {i}
  BY CreatedEffect
<1>2. saga.items_created + 1 >= Total => ItemsCreated' = Items
  <2>1. ItemsCreated \subseteq Items /\ ItemsCreated' \subseteq Items
    BY <1>1 DEF ItemsCreated
  <2>2. Cardinality(ItemsCreated') = Cardinality(ItemsCreated) + 1
    BY <1>1, <2>1, ItemSets
  <2> QED
    BY <2>1, <2>2, ItemSets DEF CountersMatchInbox
<1> QED
  BY <1>2 DEF Created, Fail, Advance, StateOK, SagaRow

\* Every step keeps that the row of the saga tells the stages it went through.
LEMMA NextRowInOrder == IInv /\ RowInOrder /\ [Next]_vars => RowInOrder'
<1> SUFFICES ASSUME IInv, RowInOrder, [Next]_vars PROVE RowInOrder'
  OBVIOUS
<1> Orderly
  BY DEF IInv
<1> USE DEF RowInOrder
<1>0. saga \in SagaRow /\ ItemsConfirmed \subseteq Items
  BY DEF IInv, Orderly, StateOK, ItemsConfirmed
<1>1. CASE Silent
  <2>1. UNCHANGED <<inbox, saga>>
    BY <1>1, SilentFrame
  <2> QED
    BY <2>1, SameInbox
<1>2. CASE CronFail
  BY <1>0, <1>2 DEF CronFail, Fail, SagaRow
<1>3. ASSUME NEW payable \in BOOLEAN, CreateSaga(payable) PROVE RowInOrder'
  BY <1>0, <1>3 DEF CreateSaga, SagaRow
<1>4. ASSUME NEW h \in Handlers, Created(h) PROVE RowInOrder'
  BY <1>4, CreatedRow, CreatedEffect
<1>5. ASSUME NEW h \in Handlers, Processed(h) PROVE RowInOrder'
  <2>1. ItemsConfirmed' = ItemsConfirmed
    BY <1>5, ProcessedEffect
  <2> QED
    BY <1>0, <1>5, <2>1 DEF Processed, Advance, SagaRow
<1>6. ASSUME NEW h \in Handlers, Issued(h) PROVE RowInOrder'
  <2>1. ItemsConfirmed' = ItemsConfirmed
    BY <1>6, IssuedEffect
  <2> QED
    BY <1>0, <1>6, <2>1 DEF Issued, Advance, SagaRow
<1>7. ASSUME NEW h \in Handlers, Confirmed(h) PROVE RowInOrder'
  <2>1. /\ saga'.payment_id = saga.payment_id
        /\ saga'.invoice_id = saga.invoice_id
        /\ saga'.invoiceInContext = saga.invoiceInContext
    BY <1>0, <1>7 DEF Confirmed, Advance, SagaRow
  <2> QED
    BY <1>0, <1>7, <2>1, ConfirmedEffect
<1>8. ASSUME NEW h \in Handlers, NEW type, NEW step \in FailableSteps, Compensate(h, type, step)
      PROVE  RowInOrder'
  <2>1. ItemsConfirmed' = ItemsConfirmed
    BY <1>8, CompensateEffect
  <2> QED
    BY <1>0, <1>8, <2>1 DEF Compensate, Advance, SagaRow
<1> QED
  BY <1>1, <1>2, <1>3, <1>4, <1>5, <1>6, <1>7, <1>8, StepKinds

-----------------------------------------------------------------------------
(* The request and the cron. *)

\* Good news answers something that was asked.
LEMMA AcceptedWasAsked ==
  ASSUME Orderly, AnswersWereAsked, NEW c \in Commands, Accepted(c)
  PROVE  outbox[c] > 0
<1>1. PICK e \in inbox : e.cmd = c
  BY DEF Accepted
<1>2. outcome[c] = e.out /\ e.out # "none"
  BY <1>1 DEF Orderly, EventsAreAnswers, StateOK, Event
<1> QED
  BY <1>2 DEF AnswersWereAsked

\* Whoever confirmed every item has been through every stage.
LEMMA ConfirmedIsWhole ==
  ASSUME Orderly, AnswersWereAsked, IdsInOrder, ItemsConfirmed = Items
  PROVE  /\ ItemsCreated = Items /\ idExterno = Items
         /\ Accepted(Payment) /\ Accepted(Invoice)
<1> USE DEF Orderly, StagesInOrder, AnswersWereAsked, IdsInOrder
<1>1. \A c \in Commands : Accepted(c) => outbox[c] > 0
  BY AcceptedWasAsked
<1>2. \A i \in Items : outbox[Confirm(i)] > 0
  BY <1>1, MessageTypes DEF ItemsConfirmed
<1>3. Accepted(Invoice)
  BY <1>2, ItemsAssumption
<1>4. Accepted(Payment)
  BY <1>1, <1>3, MessageTypes
<1>5. ItemsCreated = Items
  BY <1>1, <1>4, MessageTypes
<1>6. idExterno = Items
  BY <1>2 DEF StateOK
<1> QED
  BY <1>3, <1>4, <1>5, <1>6

\* No item is created for a request that has not published its commands.
LEMMA CreatedIsAsked ==
  ASSUME IInv, AnswersWereAsked, NEW h \in Handlers, Created(h)
  PROVE  http \notin {"request", "converted"}
<1> USE DEF IInv, Orderly
<1>1. Commits(h, "create")
  BY DEF Created
<1>2. PICK i \in Items : job[h].ev.cmd = Create(i)
  BY <1>1, CommitAccepts, CommandOfType
<1>3. outcome[Create(i)] = job[h].ev.out /\ job[h].ev.out # "none"
  BY <1>1, <1>2, CommitAccepts DEF EventsAreAnswers, Commits, Event
<1>4. outbox[Create(i)] > 0
  BY <1>3, MessageTypes DEF AnswersWereAsked
<1> QED
  BY <1>4 DEF StagesInOrder

\* The other consumers create nothing, charge nobody, and neither fail a saga
\* nor move one that does not exist or has ended.
LEMMA OtherConsumers ==
  ASSUME IInv, NEW h \in Handlers,
         \/ Processed(h) \/ Issued(h) \/ Confirmed(h)
         \/ \E step \in FailableSteps : \E type : Compensate(h, type, step)
  PROVE  /\ UNCHANGED <<http, cron, reserva>>
         /\ ItemsCreated' = ItemsCreated
         /\ outbox'[Payment] = outbox[Payment]
         /\ saga'.step # "FAILED" \/ saga.step = "FAILED"
         /\ saga.step \in TerminalSteps \cup {NoRow} => saga'.step = saga.step
<1> Orderly
  BY DEF IInv
<1>0. Payment \in Messages /\ saga \in SagaRow
  BY MessageTypes DEF IInv, Orderly, StateOK
<1>1. CASE Processed(h)
  <2>1. UNCHANGED <<http, cron, reserva>>
    BY <1>1, CommitFrame DEF Processed
  <2>2. outbox'[Payment] = outbox[Payment] /\ ItemsCreated' = ItemsCreated
    BY <1>0, <1>1, ProcessedEffect, MessagesDiffer DEF OnlyPublishes
  <2> QED
    BY <1>0, <1>1, <2>1, <2>2 DEF Processed, Advance, SagaRow, TerminalSteps, NoRow
<1>2. CASE Issued(h)
  <2>1. UNCHANGED <<http, cron, reserva>>
    BY <1>2, CommitFrame DEF Issued
  <2>2. outbox'[Payment] = outbox[Payment] /\ ItemsCreated' = ItemsCreated
    BY <1>0, <1>2, IssuedEffect, MessagesDiffer DEF OnlyPublishes
  <2> QED
    BY <1>0, <1>2, <2>1, <2>2 DEF Issued, Advance, SagaRow, TerminalSteps, NoRow
<1>3. CASE Confirmed(h)
  <2>1. UNCHANGED <<http, cron, reserva>>
    BY <1>3, CommitFrame DEF Confirmed
  <2>2. outbox'[Payment] = outbox[Payment] /\ ItemsCreated' = ItemsCreated
    BY <1>0, <1>3, ConfirmedEffect, MessagesDiffer DEF OnlyPublishes
  <2> QED
    BY <1>3, <2>1, <2>2, ConfirmedEffect DEF TerminalSteps, NoRow
<1>4. ASSUME NEW step \in FailableSteps, NEW type, Compensate(h, type, step)
      PROVE  /\ UNCHANGED <<http, cron, reserva>>
             /\ ItemsCreated' = ItemsCreated
             /\ outbox'[Payment] = outbox[Payment]
             /\ saga'.step # "FAILED" \/ saga.step = "FAILED"
             /\ saga.step \in TerminalSteps \cup {NoRow} => saga'.step = saga.step
  <2>1. UNCHANGED <<http, cron, reserva>>
    BY <1>4, CommitFrame DEF Compensate
  <2> QED
    BY <1>0, <1>4, <2>1, CompensateEffect
    DEF Compensate, Advance, SagaRow, FailableSteps, TerminalSteps, NoRow
<1> QED
  BY <1>1, <1>2, <1>3, <1>4

\* The failed saga of a waiting request, or of one told 502, has every item.
NeverCharged == ItemsCreated = Items /\ outbox[Payment] = 0

\* Every step keeps that the client was told what the row says, or can no longer
\* be contradicted by it.
LEMMA NextRequestInOrder == SagaInv /\ [Next]_vars => RequestInOrder'
<1> SUFFICES ASSUME SagaInv, [Next]_vars PROVE RequestInOrder'
  OBVIOUS
<1> USE DEF RequestInOrder, SagaInv
<1> Orderly
  BY DEF IInv
<1>0. saga \in SagaRow /\ Payment \in Messages /\ saga.step # "COMPENSATED"
  BY MessageTypes DEF IInv, Orderly, StateOK, RowInOrder
<1>1. CASE Silent
  <2>0. /\ UNCHANGED <<saga, outbox>> /\ ItemsCreated' = ItemsCreated
    BY <1>1, SilentFrame, SameInbox
  <2>1. CASE ConvertCart
    BY <2>0, <2>1 DEF ConvertCart
  <2>2. CASE CreateSagaFails \/ WaitTimesOut
    BY <2>0, <2>2 DEF CreateSagaFails, WaitTimesOut
  <2>3. CASE PollTerminal
    BY <1>0, <2>0, <2>3 DEF PollTerminal, TerminalSteps
  <2>4. CASE AnswerSuccess
    BY <2>0, <2>4 DEF AnswerSuccess
  <2>5. CASE CronScan
    BY <2>0, <2>5 DEF CronScan, SagaStep, TerminalSteps, NoRow
  <2>6. CASE Crash
    BY <2>0, <2>6 DEF Crash
  <2>7. ASSUME UNCHANGED <<http, cron, reserva>> PROVE RequestInOrder'
    BY <2>0, <2>7
  <2>8. CASE \/ \E c \in Commands : \E out \in Outcomes(c) : ServiceAnswers(c, out)
             \/ \E e \in Event : Redeliver(e) \/ Receive(e)
             \/ \E h \in Handlers : Rollback(h)
    BY <2>7, <2>8 DEF ServiceAnswers, Redeliver, Receive, AckDuplicate, AckSkipped, Take,
                      Rollback
  <2>9. CASE UNCHANGED vars
    BY <2>7, <2>9 DEF vars
  <2> QED
    BY <1>1, <2>1, <2>2, <2>3, <2>4, <2>5, <2>6, <2>8, <2>9 DEF Silent
<1>2. CASE CronFail
  <2>1. /\ cron = "stale" /\ cron' = "idle" /\ saga' = Fail(saga)
        /\ UNCHANGED <<http, outbox, inbox, reserva>>
    BY <1>2 DEF CronFail, consumerVars
  <2>2. http \notin {"request", "converted", "waiting", "sawCompleted", "ok"}
    BY <2>1
  <2> QED
    BY <2>1, <2>2, SameInbox
<1>3. ASSUME NEW payable \in BOOLEAN, CreateSaga(payable) PROVE RequestInOrder'
  <2>1. /\ http = "converted" /\ http' = "waiting" /\ UNCHANGED cron
        /\ saga'.step = "CREATING_REMOTE_RESERVATIONS"
    BY <1>0, <1>3 DEF CreateSaga, SagaRow
  <2> QED
    BY <2>1
<1>4. ASSUME NEW h \in Handlers, Created(h) PROVE RequestInOrder'
  <2>1. UNCHANGED <<http, cron, reserva>> /\ http \notin {"request", "converted"}
    BY <1>4, CommitFrame, CreatedIsAsked DEF Created
  <2>2. ItemsCreated # Items
    BY <1>4, CreatedEffect
  <2>3. saga.step # "COMPLETED"
    BY <2>2, ConfirmedIsWhole DEF RowInOrder
  <2>4. http \notin {"sawCompleted", "ok", "badGateway"}
    BY <2>2, <2>3
  <2>5. http = "waiting" => saga.step # "FAILED"
    BY <2>2
  <2>6. outbox[Payment] = 0
    BY <2>2, MessageTypes DEF IInv, Orderly, StagesInOrder, StateOK
  <2>7. http' = "waiting" /\ saga'.step = "FAILED" => NeverCharged'
    BY <1>4, <2>1, <2>5, <2>6, CreatedRow DEF NeverCharged
  <2> QED
    BY <2>1, <2>4, <2>7 DEF NeverCharged
<1>5. ASSUME NEW h \in Handlers,
             \/ Processed(h) \/ Issued(h) \/ Confirmed(h)
             \/ \E step \in FailableSteps : \E type : Compensate(h, type, step)
      PROVE  RequestInOrder'
  <2>1. /\ UNCHANGED <<http, cron, reserva>>
        /\ ItemsCreated' = ItemsCreated
        /\ outbox'[Payment] = outbox[Payment]
        /\ saga'.step # "FAILED" \/ saga.step = "FAILED"
        /\ saga.step \in TerminalSteps \cup {NoRow} => saga'.step = saga.step
    BY <1>5, OtherConsumers
  <2> QED
    BY <2>1 DEF TerminalSteps
<1> QED
  BY <1>1, <1>2, <1>3, <1>4, <1>5, StepKinds

\* Nothing was asked, answered or stored before the checkout began.
LEMMA InitSagaInv == Init => SagaInv
<1> SUFFICES ASSUME Init PROVE SagaInv
  OBVIOUS
<1>1. IInv
  BY InitIInv
<1>2. ItemsCreated = {} /\ ItemsConfirmed = {}
  BY DEF Init, ItemsCreated, ItemsConfirmed, Accepted
<1>3. AnswersWereAsked /\ IdsInOrder
  BY <1>2, MessageTypes DEF Init, AnswersWereAsked, IdsInOrder
<1>4. RowInOrder /\ RequestInOrder
  BY <1>2 DEF Init, RowInOrder, RequestInOrder, NoRow
<1> QED
  BY <1>1, <1>3, <1>4 DEF SagaInv

\* Every step of the checkout keeps the invariant of its saga.
LEMMA NextSagaInv == SagaInv /\ [Next]_vars => SagaInv'
BY NextIInv, NextAsked, NextIds, NextRowInOrder, NextRequestInOrder DEF SagaInv, IInv

\* After the success of the checkout nothing in it writes reservas.status.
LEMMA NextSuccess == SuccessOnRecord /\ [Next]_vars => SuccessOnRecord'
BY DEF SuccessOnRecord, vars, Next, HttpStep, HandlerStep, ConvertCart, CreateSaga,
       CreateSagaFails, PollTerminal, WaitTimesOut, AnswerSuccess, ServiceAnswers,
       Redeliver, Receive, AckDuplicate, AckSkipped, Take, Rollback, CronScan, CronFail,
       Crash, Created, Processed, Issued, Confirmed, CreateFailed, PaymentFailed,
       InvoiceFailed, ConfirmFailed, Compensate, Commits

\* Every reachable state satisfies the whole invariant.
THEOREM FullInvariant == Spec => []FullInv
<1>1. Init => FullInv
  BY InitSagaInv DEF FullInv, Init, SuccessOnRecord
<1>2. FullInv /\ [Next]_vars => FullInv'
  BY NextSagaInv, NextSuccess DEF FullInv
<1> QED
  BY <1>1, <1>2, PTL DEF Spec

-----------------------------------------------------------------------------
(* The safety properties of CheckoutSaga. *)

\* A confirmation asked for has the stages before it behind it.
LEMMA ConfirmsAreBacked ==
  ASSUME Orderly, AnswersWereAsked, IdsInOrder
  PROVE  ConfirmOnlyPaidAndInvoiced
<1> SUFFICES ASSUME NEW i \in Items, outbox[Confirm(i)] > 0
             PROVE  i \in idExterno /\ Accepted(Payment) /\ Accepted(Invoice)
  BY DEF ConfirmOnlyPaidAndInvoiced
<1>1. i \in idExterno /\ Accepted(Invoice)
  BY DEF Orderly, IdsInOrder, StagesInOrder
<1>2. outbox[Invoice] > 0
  BY <1>1, AcceptedWasAsked, MessageTypes
<1> QED
  BY <1>1, <1>2 DEF Orderly, StagesInOrder

\* An item is confirmed only with an external id, paid and invoiced.
THEOREM ConfirmOnlyPaidAndInvoicedAlways == Spec => []ConfirmOnlyPaidAndInvoiced
<1>1. FullInv => ConfirmOnlyPaidAndInvoiced
  BY ConfirmsAreBacked DEF FullInv, SagaInv, IInv
<1> QED
  BY <1>1, FullInvariant, PTL

\* A COMPLETED saga has every confirmation, id, payment and invoice.
THEOREM CompletedIsWholeAlways == Spec => []CompletedIsWhole
<1>1. FullInv => CompletedIsWhole
  BY ConfirmedIsWhole DEF FullInv, SagaInv, IInv, RowInOrder, CompletedIsWhole
<1> QED
  BY <1>1, FullInvariant, PTL

\* A success that was told stays true.
THEOREM SuccessIsRealAlways == Spec => []SuccessIsReal
<1>1. FullInv => SuccessIsReal
  BY DEF FullInv, SagaInv, RequestInOrder, SuccessOnRecord, SuccessIsReal
<1> QED
  BY <1>1, FullInvariant, PTL

\* A client told 502 was not charged and never will be.
THEOREM BadGatewayNeverChargedAlways == Spec => []BadGatewayNeverCharged
<1>1. FullInv => BadGatewayNeverCharged
  BY DEF FullInv, SagaInv, RequestInOrder, BadGatewayNeverCharged
<1> QED
  BY <1>1, FullInvariant, PTL

\* No late answer resurrects a saga that began to fail.
THEOREM FailureIsNotUndoneAlways == Spec => FailureIsNotUndone
<1>1. FullInv /\ [Next]_vars =>
        [saga.step \in {"COMPENSATING", "FAILED"} =>
           saga'.step \in {"COMPENSATING", "FAILED"}]_vars
  <2> SUFFICES ASSUME FullInv, [Next]_vars, saga.step \in {"COMPENSATING", "FAILED"}
               PROVE  saga'.step \in {"COMPENSATING", "FAILED"}
    OBVIOUS
  <2>0. saga \in SagaRow /\ IInv
    BY DEF FullInv, SagaInv, IInv, Orderly, StateOK
  <2>1. CASE Silent
    BY <2>1, SilentFrame
  <2>2. CASE CronFail
    BY <2>0, <2>2 DEF CronFail, Fail, SagaRow
  <2>3. ASSUME NEW payable \in BOOLEAN, CreateSaga(payable) PROVE FALSE
    BY <2>3 DEF CreateSaga, FullInv, SagaInv, RequestInOrder, NoRow
  <2>4. ASSUME NEW h \in Handlers, Created(h)
        PROVE  saga'.step \in {"COMPENSATING", "FAILED"}
    BY <2>0, <2>4, CreatedRow
  <2>5. ASSUME NEW h \in Handlers, Processed(h) \/ Issued(h) \/ Confirmed(h)
        PROVE  saga'.step \in {"COMPENSATING", "FAILED"}
    BY <2>0, <2>5, ConfirmedEffect DEF Processed, Issued, Advance, SagaRow
  <2>6. ASSUME NEW h \in Handlers, NEW step \in FailableSteps, NEW type,
               Compensate(h, type, step)
        PROVE  saga'.step \in {"COMPENSATING", "FAILED"}
    BY <2>0, <2>6 DEF Compensate, Advance, SagaRow
  <2> QED
    BY <2>1, <2>2, <2>3, <2>4, <2>5, <2>6, StepKinds
<1> QED
  BY <1>1, FullInvariant, PTL DEF Spec, FailureIsNotUndone

-----------------------------------------------------------------------------
(* The refinement. *)

\* The checkout that has not begun has kept the promise so far.
LEMMA InitRefines == Init => Promise!Init
<1> SUFFICES ASSUME Init PROVE Promise!Init
  OBVIOUS
<1>1. \A c : ~Accepted(c)
  BY DEF Init, Accepted
<1>2. ItemsCreated = {} /\ ItemsConfirmed = {}
  BY <1>1 DEF ItemsCreated, ItemsConfirmed
<1>3. [i \in Items |-> outbox[Confirm(i)]] = [i \in Items |-> 0]
  BY MessageTypes DEF Init
<1> QED
  BY <1>1, <1>2, <1>3, MessageTypes DEF Init, Promise!Init

\* What the promise knows of the messages and answers, as one tuple.
Stages == <<ItemsCreated, idExterno, outbox[Payment], Accepted(Payment), outbox[Invoice],
            Accepted(Invoice), [i \in Items |-> outbox[Confirm(i)]], ItemsConfirmed>>

\* What the client was told.
Told == IF http \in {"ok", "badGateway"} THEN http ELSE "nothing"

\* A step that touches neither the inbox, the outbox nor the ids moves no stage.
LEMMA QuietStages == UNCHANGED <<inbox, outbox, idExterno>> => UNCHANGED Stages
BY SameInbox DEF Stages, Accepted

\* The promise is about nothing else than the stages and what was told.
LEMMA StagesAndTold == UNCHANGED Stages /\ UNCHANGED Told => UNCHANGED Promise!vars
BY DEF Promise!vars, Stages, Told

\* The answer of a success is one the promise allows when all is confirmed.
LEMMA AnswerRefines ==
  ASSUME AnswerSuccess, ItemsConfirmed = Items
  PROVE  Promise!Tell("ok")
<1>1. /\ UNCHANGED <<inbox, outbox, idExterno>>
      /\ http = "sawCompleted" /\ http' = "ok"
  BY DEF AnswerSuccess, consumerVars
<1>2. UNCHANGED Stages
  BY <1>1, QuietStages
<1> QED
  BY <1>1, <1>2 DEF Promise!Tell, Stages

\* The commit of the payment is that of the promise, whatever became of the row.
LEMMA ProcessedRefines ==
  ASSUME Orderly, AnswersWereAsked, NEW h \in Handlers, Processed(h)
  PROVE  Promise!PaymentProcessed
<1>0. /\ Payment \in Messages /\ Invoice \in Messages
      /\ \A i \in Items : Confirm(i) \in Messages
  BY MessageTypes
<1>1. UNCHANGED http /\ outbox[Payment] = 1
  <2>1. Commits(h, "payment")
    BY DEF Processed
  <2>2. job[h].ev.cmd = Payment /\ job[h].ev \in Event
    BY <2>1, CommitAccepts, CommandOfType
  <2>3. outcome[Payment] # "none"
    BY <2>1, <2>2 DEF Commits, Orderly, EventsAreAnswers, Event
  <2> QED
    BY <2>1, <2>3, MessageTypes DEF Commits, AnswersWereAsked, Orderly, StagesInOrder, StateOK
<1>2. /\ ~Accepted(Payment) /\ Accepted(Payment)'
      /\ Accepted(Invoice)' <=> Accepted(Invoice)
  BY ProcessedEffect, MessagesDiffer
<1>3. /\ outbox'[Payment] = outbox[Payment]
      /\ \A j \in Items : outbox'[Confirm(j)] = outbox[Confirm(j)]
  BY <1>0, ProcessedEffect, MessagesDiffer DEF OnlyPublishes
<1>4. [j \in Items |-> outbox[Confirm(j)]]' = [j \in Items |-> outbox[Confirm(j)]]
  BY <1>3
<1>5. Accepted(Payment)' = TRUE /\ Accepted(Invoice)' = Accepted(Invoice)
  BY <1>2 DEF Accepted
<1> QED
  BY <1>1, <1>2, <1>3, <1>4, <1>5, ProcessedEffect DEF Promise!PaymentProcessed

\* Bad news is no concern of the promise.
LEMMA CompensateRefines ==
  ASSUME Orderly, NEW h \in Handlers, NEW type, NEW step, Compensate(h, type, step)
  PROVE  UNCHANGED Promise!vars
<1>1. UNCHANGED http
  BY DEF Compensate, Commits
<1>2. UNCHANGED <<Accepted(Payment), Accepted(Invoice)>>
  BY CompensateEffect DEF Accepted
<1> QED
  BY <1>1, <1>2, CompensateEffect DEF Promise!vars

\* Each commit of good news and each answer to the client is a step of the
\* promise; every other step of the checkout is invisible in it.
LEMMA StepRefines == SagaInv /\ [Next]_vars => [Promise!Next]_(Promise!vars)
<1> SUFFICES ASSUME SagaInv, [Next]_vars PROVE [Promise!Next]_(Promise!vars)
  OBVIOUS
<1> USE DEF SagaInv
<1> Orderly
  BY DEF IInv
<1>0. /\ IInv /\ StateOK
      /\ Payment \in Messages /\ Invoice \in Messages
      /\ \A i \in Items : Confirm(i) \in Messages
  BY MessageTypes DEF IInv, Orderly
<1>1. CASE Silent
  <2>1. UNCHANGED Stages
    BY <1>1, SilentFrame, QuietStages
  <2>2. CASE UNCHANGED Told
    BY <2>1, <2>2, StagesAndTold
  <2>3. CASE PollTerminal
    <3>1. /\ http = "waiting" /\ http' \in {"sawCompleted", "badGateway"}
          /\ http' = "badGateway" => saga.step \in TerminalSteps \ {"COMPLETED"}
      BY <2>3 DEF PollTerminal
    <3>2. http' = "badGateway" => outbox[Payment] = 0
      BY <3>1 DEF RequestInOrder, RowInOrder, TerminalSteps
    <3>3. CASE http' = "badGateway"
      <4>1. Promise!Tell("badGateway")
        BY <2>1, <3>1, <3>2, <3>3 DEF Promise!Tell, Stages
      <4> QED
        BY <4>1 DEF Promise!Next
    <3>4. CASE http' = "sawCompleted"
      BY <2>2, <3>1, <3>4 DEF Told
    <3> QED
      BY <3>1, <3>3, <3>4
  <2>4. CASE AnswerSuccess
    <3>1. ItemsConfirmed = Items
      BY <2>4 DEF AnswerSuccess, RequestInOrder, RowInOrder
    <3> QED
      BY <2>4, <3>1, AnswerRefines DEF Promise!Next
  <2>5. CASE ConvertCart \/ CreateSagaFails \/ WaitTimesOut \/ Crash \/ UNCHANGED http
    BY <2>2, <2>5 DEF ConvertCart, CreateSagaFails, WaitTimesOut, Crash, Told
  <2> QED
    BY <1>1, <2>3, <2>4, <2>5
    DEF Silent, ServiceAnswers, Redeliver, Receive, AckDuplicate, AckSkipped, Take,
        Rollback, CronScan, vars
<1>2. ASSUME UNCHANGED <<inbox, idExterno, Told>>,
             UNCHANGED <<outbox[Payment], outbox[Invoice]>>,
             \A i \in Items : outbox'[Confirm(i)] = outbox[Confirm(i)]
      PROVE  UNCHANGED Promise!vars
  <2>1. UNCHANGED <<Accepted(Payment), Accepted(Invoice), ItemsCreated, ItemsConfirmed>>
    BY <1>2, SameInbox DEF Accepted
  <2> QED
    BY <1>2, <2>1 DEF Promise!vars, Told
<1>3. CASE CronFail
  BY <1>2, <1>3 DEF CronFail, consumerVars, Told
<1>4. ASSUME NEW payable \in BOOLEAN, CreateSaga(payable) PROVE UNCHANGED Promise!vars
  <2>1. /\ UNCHANGED <<inbox, idExterno>> /\ Publish({Create(i) : i \in Items})
        /\ http = "converted" /\ http' = "waiting"
    BY <1>4 DEF CreateSaga, consumerVars
  <2>2. \A m \in Messages \ {Create(i) : i \in Items} : outbox'[m] = outbox[m]
    BY <1>0, <2>1, PublishCounts
  <2>3. UNCHANGED <<outbox[Payment], outbox[Invoice]>>
        /\ \A i \in Items : outbox'[Confirm(i)] = outbox[Confirm(i)]
    BY <1>0, <2>2, MessagesDiffer
  <2> QED
    BY <1>2, <2>1, <2>3 DEF Told
<1>5. ASSUME NEW h \in Handlers, Created(h) PROVE Promise!Next
  <2>1. PICK i \in Items :
           /\ i \notin ItemsCreated /\ ItemsCreated' = ItemsCreated \cup {i}
           /\ ItemsConfirmed' = ItemsConfirmed
           /\ idExterno' \in {idExterno, idExterno \cup {i}}
           /\ \A c : Accepted(c)' <=> Accepted(c) \/ c = Create(i)
           /\ \/ UNCHANGED outbox
              \/ /\ ItemsCreated' = Items /\ saga.payable
                 /\ outbox[Payment] = 0 /\ outbox'[Payment] = 1
                 /\ OnlyPublishes({Payment})
    BY <1>0, <1>5, CreatedEffect
  <2>2. UNCHANGED http /\ http # "badGateway"
    BY <1>0, <1>5, <2>1, CommitFrame DEF Created, RequestInOrder
  <2>3. UNCHANGED <<Accepted(Payment), Accepted(Invoice)>>
    BY <2>1, MessagesDiffer DEF Accepted
  <2>4. /\ outbox'[Invoice] = outbox[Invoice]
        /\ \A j \in Items : outbox'[Confirm(j)] = outbox[Confirm(j)]
    BY <1>0, <2>1, MessagesDiffer DEF OnlyPublishes
  <2>5. [j \in Items |-> outbox[Confirm(j)]]' = [j \in Items |-> outbox[Confirm(j)]]
    BY <2>4
  <2>6. Promise!ItemCreated(i)
    BY <2>1, <2>2, <2>3, <2>4, <2>5 DEF Promise!ItemCreated
  <2> QED
    BY <2>6 DEF Promise!Next
<1>6. ASSUME NEW h \in Handlers, Processed(h) PROVE Promise!Next
  BY <1>6, ProcessedRefines DEF Promise!Next
<1>7. ASSUME NEW h \in Handlers, Issued(h) PROVE Promise!Next
  <2>0. Commits(h, "invoice") /\ job[h].ext \subseteq idExterno
    BY <1>0, <1>7, CommitFrame DEF Issued, IdsInOrder
  <2>1. UNCHANGED http /\ outbox[Invoice] = 1 /\ Accepted(Payment)
    <3>2. job[h].ev.cmd = Invoice /\ job[h].ev \in Event
      BY <1>0, <2>0, CommitAccepts, CommandOfType
    <3>3. outcome[Invoice] # "none"
      BY <1>0, <2>0, <3>2 DEF Commits, IInv, Orderly, EventsAreAnswers, Event
    <3> QED
      BY <1>0, <2>0, <3>3, MessageTypes DEF Commits, AnswersWereAsked, IInv, Orderly, StagesInOrder,
                                            StateOK
  <2>2. /\ ~Accepted(Invoice) /\ Accepted(Invoice)'
        /\ Accepted(Payment)' <=> Accepted(Payment)
    BY <1>0, <1>7, IssuedEffect, MessagesDiffer
  <2>3. outbox'[Payment] = outbox[Payment] /\ outbox'[Invoice] = outbox[Invoice]
    BY <1>0, <1>7, IssuedEffect, MessagesDiffer DEF OnlyPublishes
  <2>4. /\ [j \in Items |-> outbox[Confirm(j)]] = [j \in Items |-> 0]
        /\ [j \in Items |-> outbox[Confirm(j)]]'
             = [j \in Items |-> IF j \in job[h].ext THEN 1 ELSE 0]
    BY <1>0, <1>7, IssuedEffect
  <2>5. Accepted(Invoice)' = TRUE /\ Accepted(Payment)' = Accepted(Payment)
    BY <2>2 DEF Accepted
  <2>6. Promise!InvoiceIssued
    BY <1>0, <1>7, <2>0, <2>1, <2>2, <2>3, <2>4, <2>5, IssuedEffect
    DEF Promise!InvoiceIssued
  <2> QED
    BY <2>6 DEF Promise!Next
<1>8. ASSUME NEW h \in Handlers, Confirmed(h) PROVE Promise!Next
  <2>0. Commits(h, "confirm")
    BY <1>8 DEF Confirmed
  <2>1. PICK i \in Items :
           /\ job[h].ev.cmd = Confirm(i)
           /\ i \notin ItemsConfirmed /\ ItemsConfirmed' = ItemsConfirmed \cup {i}
           /\ ItemsCreated' = ItemsCreated
           /\ \A c : Accepted(c)' <=> Accepted(c) \/ c = Confirm(i)
           /\ OnlyPublishes({SagaCompleted})
           /\ UNCHANGED idExterno
    BY <1>0, <1>8, ConfirmedEffect
  <2>2. outbox[Confirm(i)] = 1
    <3>1. outcome[Confirm(i)] # "none"
      BY <1>0, <2>0, <2>1, CommitAccepts DEF Commits, IInv, Orderly, EventsAreAnswers, Event
    <3> QED
      BY <1>0, <3>1, MessageTypes DEF AnswersWereAsked, IInv, Orderly, StagesInOrder, StateOK
  <2>3. UNCHANGED <<Accepted(Payment), Accepted(Invoice)>>
    BY <2>1, MessagesDiffer DEF Accepted
  <2>4. /\ outbox'[Payment] = outbox[Payment] /\ outbox'[Invoice] = outbox[Invoice]
        /\ \A j \in Items : outbox'[Confirm(j)] = outbox[Confirm(j)]
    BY <1>0, <2>1, MessagesDiffer DEF OnlyPublishes
  <2>5. [j \in Items |-> outbox[Confirm(j)]]' = [j \in Items |-> outbox[Confirm(j)]]
    BY <2>4
  <2>6. UNCHANGED http
    BY <2>0 DEF Commits
  <2>7. Promise!ItemConfirmed(i)
    BY <2>1, <2>2, <2>3, <2>4, <2>5, <2>6 DEF Promise!ItemConfirmed
  <2> QED
    BY <2>7 DEF Promise!Next
<1>9. ASSUME NEW h \in Handlers, NEW type, NEW step, Compensate(h, type, step)
      PROVE  UNCHANGED Promise!vars
  BY <1>9, CompensateRefines
<1> QED
  BY <1>1, <1>3, <1>4, <1>5, <1>6, <1>7, <1>8, <1>9, StepKinds

\* Whatever interleaves, is redelivered, times out or restarts, the checkout
\* keeps its promise.
THEOREM Implementation == Spec => ImplementsPromise
<1>1. FullInv => SagaInv
  BY DEF FullInv
<1> QED
  BY <1>1, FullInvariant, InitRefines, StepRefines, PTL DEF Spec, ImplementsPromise, Promise!Spec
=============================================================================
