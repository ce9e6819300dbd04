# Verification of the reservas microservice

TLA+ models of the NestJS booking service under `src/`: how a cart becomes a
reserva that is created at its providers, paid, invoiced and confirmed, how
that is cancelled, and what happens when calls fail, messages repeat, handlers
interleave and the process restarts. TLC checks the models on small instances;
TLAPS proves their safety, and the refinements, for every value of the constants.
Paths below are relative to `src/src/business/` unless they start with `src/`.

## The system

Two modes exist side by side, chosen by `CHECKOUT_MODE`
(`reservas/reservas.service.ts:62-70, 225-231`):

* **V1** (default): the HTTP request calls integracion (providers) and finanzas
  (payments, invoices) by gRPC, one call at a time, and compensates in `catch`
  blocks.
* **V2**: the HTTP request writes a saga row and commands into an outbox, and
  polls the row. A cron publishes the outbox to RabbitMQ; consumers take the
  answers, move the saga and write the next commands. Another cron fails sagas
  that stopped moving.

| Component | State | Operations | Interacts with |
|---|---|---|---|
| Checkout V2, `reservas/checkout-v2.service.ts` | the request | validate, convert the cart, create saga + commands in one transaction, poll up to 30 s, mark the reserva | outbox, saga row, cart |
| Saga, `event-bus/saga/saga.service.ts` | `saga_state`: step, counters, payment and invoice ids, context, last_error | create, advance (guarded), increment (unguarded), fail (unguarded), find stale | consumers, cron, both V2 handlers |
| Consumers, `event-bus/consumers/*` | none of their own | 11 handlers: read (inbox, saga, detalles), then one transaction | inbox, saga row, detalles, outbox |
| Inbox, `event-bus/inbox/inbox.service.ts` | `processed_messages` | isProcessed (a read), markProcessedTx (UNIQUE insert), weekly cleanup | consumers |
| Outbox, `event-bus/outbox/*` | `event_outbox`: published_at, attempts | save in the caller's transaction; publishPending every second | every writer of V2, RabbitMQ |
| Timeout cron, `event-bus/saga/saga-timeout.cron.ts` | none | each minute: read stale sagas, fail each by id | saga row |
| Cancellation V2, `reservas/cancel-v2.service.ts` | the request | delete the saga, create another with cancel commands, poll, mark the reserva | saga row, outbox, consumers |
| Checkout and cancellation V1, `reservas/reservas.service.ts` | the requests; `reservas.status`, `detalles_reserva.id_externo`, audit rows | ten steps, four compensations; cancel, look the payment up, refund, audit | gRPC clients, database |
| Cart, `carrito/carrito.service.ts`, `src/src/data-management/unit-of-work.ts` | carts, items, total | add, update, remove, convert | both checkouts |
| Dashboard, `dashboard/dashboard.service.ts` | the request | read providers, detalles and the status of their reservas, then add up per provider and per tipo | the tables everybody else writes |
| HTTP idempotency, `event-bus/idempotency/*` | a table | find, saveTx, cleanup: nothing calls the first two | none |
| Catalogue, audit trail, HTTP API, auth, repositories, wiring, metrics | rows or nothing | CRUD, listings | database |

What is hard: (a) a consumer reads outside its transaction and commits later,
with ten messages prefetched and handlers running concurrently, so every read
may be stale; (b) delivery is at least once in both directions and in no order;
(c) the request, the consumers and the cron write the same row, two of them
without a guard; (d) the process may stop anywhere and nothing resumes a
request; (e) the gRPC calls of V1 may take effect and still fail; (f) the
cancellation may run beside a checkout, whose saga row it deletes, or beside
another cancellation; (g) the outbox cron does not wait for its last run; (h) a
report reads three tables one after the other while others write them. `PROJECT.json` lists each of these
hazards at its line, with the properties that watch it.

What makes each component correct: a checkout charges, invoices and confirms at
most once and only in order, and tells the client the truth; a compensation
undoes what was done; a cancellation ends only when every detalle was answered,
accounts for the money and does not count an answer twice; the outbox loses no
message silently and marks none that was not sent; a report counts every sale
once; every request is answered and every saga ends.

## Modules

| Module | Models |
|---|---|
| `CheckoutSaga` | checkout V2: HTTP handler, eight consumers, saga row, inbox, timeout cron |
| `ReservaV1` | checkout V1 with its compensations, and concurrent V1 cancellations |
| `CheckoutPromise` | the abstract promise of a checkout to providers, finanzas and client; `CheckoutSaga` implements it |
| `CancelV2` | concurrent V2 cancellations of a reserva whose checkout has ended |
| `CheckoutAndCancelV2` | both on one reserva: cancellations that arrive while its checkout runs |
| `Outbox` | the outbox table and overlapping runs of its publisher |
| `Delivery` | the abstract promise of the outbox; `Outbox` implements it |
| `Carrito` | the cart of a client, its changes and its conversion into a reserva |
| `Dashboard` | the sales report, beside the writers of the tables it reads |
| `MC*` | what TLC needs beside the constants the `.cfg` files give: symmetry sets, prices |
| `CheckoutSagaProofs`, `ReservaV1Proofs`, `CancelV2Proofs`, `CheckoutAndCancelV2Proofs`, `OutboxProofs`, `CarritoProofs`, `CarritoCheckoutProofs`, `DashboardProofs` | theorems and proofs |

Operators named in comments as mutants are not part of the specifications: each
is a plausible bug of one definition, kept beside it to show that a property
can tell the difference.

### CheckoutSaga

One reserva. `saga` is the row; `step` is `current_step` (or `NO_ROW`);
`payable` says whether `saga.context` holds a non-zero monto and a metodoPagoId
(`integration-consumers.ts:78`); `payment_id`, `invoice_id` and
`invoiceInContext` say whether those columns are set. `outbox` counts the rows
that hold each command, `queue` holds the events RabbitMQ has ready, `outcome`
what the other service decided once for a command. A command and its answer are
identified by type and item; the answer's `eventId` is its identity in `inbox`.

A consumer is two actions. `Take` is `isProcessed` and the reads of the saga and
the detalles, collapsed into one moment; `AckDuplicate` and `AckSkipped` are its
early returns. The second is one action per handler, the transaction: the
UNIQUE inbox insert (`Commits`), then counters, `Advance` (an `UPDATE ... WHERE
current_step`, evaluated on the row as it is now) and publications. When the
inbox row is there already the transaction rolls back, the handler throws and
the event is requeued (`Rollback`). A row lock serialises two transactions on
the saga row from their first update of it to their commit, which is why a
transaction is one action.

The reads of one handler happen a few milliseconds apart; collapsing them loses
the interleavings in which the saga changes between `isProcessed` and the read
of the row. Whatever is read first can only be older, and the transaction
re-checks the inbox and the step, so those reads reach no step that a later
`Take` does not reach as well; for the detalles, `idExterno` no longer grows once
every item was counted, which the saga needs to be in `ISSUING_INVOICE`.

`CronScan` requires that the request is not waiting: the threshold is five
times `SAGA_STEP_TIMEOUT_S`, counted from the last update of the row, and the
request polls for one. Between the scan and `failTx` anything may happen. A
handler may hold its event for as long as it likes.

Not modelled: `pending_command_id` and `last_error` (nothing reads the first),
the lifecycle event sagaStarted (sagaFailed and completeTx have no caller), the
consumer of invoice.voided (it only logs), a failing statement inside a
transaction (it rolls back and requeues: the same as a restart of that handler).
The consumers of payment.refunded and payment.refund_failed only write
`last_error`; they are `RefundReported` of `CancelV2`, where it matters.

### CheckoutPromise

Nine variables and five actions, with no word about sagas, inboxes, handlers or
crons: nobody is charged before every item exists, each command goes out once
and after the answer it builds on, and an answer about the end is true then and
later (no charge follows a 502). `CheckoutSaga` maps `created`, `paid`,
`invoiced` and `confirmed` to the accepted answers in the inbox, `charges`,
`invoices` and `confirms` to rows of the outbox, `told` to the state of the
request. The transaction of a consumer is one step of the promise, everything
else (deliveries, duplicates, rollbacks, the cron, restarts, compensations) is
invisible in it.

### ReservaV1

`co` is the checkout request: `pc` is the call it makes next, `created` and
`confirmed` are its two lists, `todo` what `cancelRemoteReservations` has left,
backwards. Each call succeeds, fails without effect, or fails after taking
effect (a lost response); a payment or a reservation may come without its id.
The last two set `lost`. `Compensate` is the four `compensateAfterStep*`
methods. `ca` is each cancellation; `during` is a history flag: was the checkout
still running when it began, and `unseen`: was it told that there is no payment
although there is one. `PaymentAnswers` is `getPaymentByReservaId`, which answers
null not only for NOT_FOUND but for every payment whose amount is not a
JavaScript number (`grpc-clients/finance.client.ts:173-185`). `ReadCart` and
`CheckAvailability` are steps 1 to 4, which end the request before anything is
written. A failing database read ends a request without a change and is left
out; failing writes are in.

Read from integracion and finanzas as the code uses them: integracion refuses to
confirm what was cancelled, finanzas refuses a second refund.

### CancelV2

Each request is the id of the saga it creates. `Take` remembers which saga the
handler found for the reserva, and `Commit` needs that row: if another request
deleted it meanwhile, the update throws and the event is requeued. `Init` is
every state a finished checkout of either mode can leave: CONFIRMADA with all
external ids, PENDIENTE with a FAILED saga, or failed in V1 with any set of
recorded ids. `CreateSagaFails` stands for a lost race on the UNIQUE
`reserva_id`, a provider that is gone or a failing database. The deletion is a
statement of its own, before the transaction, as in the code. `ReadReserva`,
`ListCancellables` and `CleanSaga` are three awaits: each request keeps the
detalles it read. `RefundReported` is what finanzas may report of a refund made
by an operator; the refund consumers write `last_error` of whichever saga there is.

A provider whose tipo maps to no ProviderType is skipped while it still counts
in total_items (`cancel-v2.service.ts:107`); every tipo of the code maps, so the
branch is dead and left out.

### CheckoutAndCancelV2

Extends `CheckoutSaga` and instantiates `CancelV2` for the same reserva. They
share `reserva` and `idExterno`, and the one row `saga_state` allows per reserva:
`saga` is the row of the checkout, `row` that of the cancellation (or the id of
the checkout's). `CleanAnySaga` deletes both. What the checkout does when its row
is gone is new here: its request polls null and gives up (`PollGone`); handlers
that update the row by id throw, roll back and are requeued (`RollbackGone`),
while those that only advance match no row and commit, so a payment that comes
late still orders its invoice; the cron's `failTx` throws and is logged. When the
next saga of the reserva is a cancellation's, `findByReservaId` finds that one:
good news does not fit its step and is skipped (the `AckSkipped` of
`CheckoutSaga`, since `saga.step` is then `NO_ROW`), bad news is taken and
`advanceTx` matches no step. The inboxes are two because the event ids of the
two are different.

### Outbox and Delivery

A run of `publishPending` is `Begin` (the query), then per row `Publish`, `Mark`
or `Count`. `amqp.publish` may reject before or after the broker took the
message. `MarkFails`, `CountFails` and `Crash` use up `faults`. `Delivery`
promises: only saved messages arrive, nothing is taken back, each is delivered
or openly given up; no order, no absence of copies. That is all the sagas need,
because their inbox makes copies harmless: in `CheckoutSaga` a copy is
`Redeliver`, and a message given up is a service that never answers.

### Carrito

`carritos`, `items` and `reservas` are the committed rows, named by the request
that inserts them; `req` is each request with what it has read. A transaction is
one action for each moment that another one can tell apart: the read of the
cart, the read of the row (`AddFindItem`), the write with the sum after it
(`WriteItem`: the UPDATE waits for the row, and taking the lock shows nothing to
anybody), and the update of the total with the commit (`Commit`; every
transaction takes its item row before its cart row, so none waits for another
in a circle). A read with `include` is two statements, and two actions in a
checkout. `Abort` rolls any request back, or stops a checkout after its
conversion. `meant` and `met` are history: the quantity the committed requests
add up to, and which requests overlapped. Nothing serialises the requests of a
client, so each property names the overlap that it needs in order to fail; every
one of these exceptions occurs.

One client: no query leaves a client's own carts but those by id, which
`Disponible` guards. A product has one price, which is why the price of a second
add, that the code drops, is not seen. The order of lines is left out: the code
pairs the i-th detalle with the i-th line of an unordered query
(`checkout-v2.service.ts:107`), and the model compares what is paired as a set.
`SinId` are the products the code takes for none, the empty string that the DTO
of a new item lets through: the checkout and the conversion skip their lines
(`checkout-v2.service.ts:65`, `unit-of-work.ts:222`) while the total counts them.
`StartSaga` is one transaction; it may throw for a missing provider, a field of
the metadata (`buildMetadata`) or the database, all left out as data, and then
nothing is sent and the reserva is FALLIDA_PROVEEDOR.
The V1 checkout reads and converts the same way; the model ends with the saga of
V2. Refusals that read only the
catalogue are left out.

### Dashboard

`ReadProveedores`, `ReadDetalles` and `ReadReservas` are the statements of
`ventasPorProveedor` (Prisma loads the related reservas with a query of its own);
no transaction surrounds them. Meanwhile providers are created, edited and
deleted (the foreign key keeps one with detalles), carts become reservas, and
statuses change. `Bucket`, `ProveedoresOut` and `TotalesPorTipo` are the loops in
memory, as folds. `since` is history: what was sold and what changed since the
report began. Each detalle has a reserva of its own, which loses nothing: the
code never looks at two detalles of one reserva together. Rounding, the two
quotients and the day strings are left out, and so is the loop's test of the
status of the detalle itself (`dashboard.service.ts:76`): the column has its
default and no code of the repository writes it. Of the FALLIDA statuses one,
FALLIDA_PAGO, stands for all: the loop treats them alike.

## Runs

| Run | Instance | Distinct states | Shows |
|---|---|---|---|
| checkout_saga | 3 items, 2 handlers, 1 redelivery, 1 restart, FairSpec | 607,428 | each message published once; counters equal the inbox; COMPLETED is whole; success and 502 are true; a failing saga is not resurrected; implements `CheckoutPromise`; the saga ends, events settle |
| v1_safety | 3 items, 2 cancellations, 2 faults, 1 restart | 716,430 | success is whole; one clean failure is undone; each FALLIDA status tells how far it got; a cancellation accounts for the payment and releases the items |
| cancel_safety | 2 items, 2 requests, 2 handlers, 1 redelivery, 1 restart | 2,777,139 | CANCELADA needs as many different answers as detalles; with one request, the right ones |
| cancel_during_checkout | 2 items, 1 cancellation, 1 + 1 handlers, 1 redelivery, 1 restart, a refund reported | 2,849,406 | a deleted checkout charges, confirms and records nothing any more; what the clients of both were told holds, and a cancellation told as done had its answers; only the late cron and a refund report write over a failed cancellation |
| cancel_during_checkout_liveness | 1 item, 2 cancellations, 1 + 1 handlers, FairSpec2 | 358,283 | events of both sagas settle, every client is answered |
| outbox | 3 messages, 2 runs, batch 2, 1 attempt, 1 fault, FairSpec | 687,807 | a marked row was sent; attempts and copies bounded; implements `Delivery`; every saved message is delivered or given up |
| cart_safety | 4 requests, 3 products with different prices, one of them without id, quantities 1 and 2 | 2,042,724 | one active cart, one row for a product, one reserva for a cart; totals, quantities, charges and commands are right; no item is left behind; each unless the named requests overlapped |
| dashboard | 2 providers of 2 tipos, 2 detalles, 2 days | 2,714,844 | every detalle sold before the report is counted once, in one column; the revenue is that of the settled sales, but for what changed and what has failed |

The bounds. Two handlers are enough for every race of this code, which is
between two commits on one row or one inbox key; with three items some answer is
neither first nor last. One redelivery gives the duplicate that races its
original; a duplicate of a duplicate meets the same inbox key, and the theorems
hold for any number. One restart reaches every point
between two writes, and a second adds no new kind of state because a restart
leaves only rows and queue. Two faults let a compensation itself fail. Two
cancellations are the concurrent pair. A batch of two of three messages makes
the third wait for the others and a run hold a row another run has finished, and
with one attempt a row leaves the query while a run still holds it. Beside a
checkout one handler for each of the two is enough, since two consumers of one
saga are raced in its own module, and one cancellation is enough for safety,
because a second one only meets the row of the first, which is `CancelV2`; the liveness run has two, since the
second may delete the row whose answers the first waits for. In the dashboard two
detalles are one the report sees and one it misses. Four requests in the cart are one to fill it, two that overlap and one
that reads what they left; with the quantities 1 and 2 and the prices 1, 3 and 5 each
line costs something else, and the third product is the one without id. `CHECK_DEADLOCK FALSE` in every run but the cart's: a
system that has answered every request stops, which `Carrito` says with `Quiet`.
`CheckoutPromise` and `Delivery` are checked as the PROPERTY of what implements
them.

### Runs in which a documented promise fails

Each checks one property that a comment or a message of the code states.

| Run | What happens |
|---|---|
| reserva_tells_the_result | the request answers 504, the saga completes, nobody marks the reserva: GET shows PENDIENTE for ever |
| compensation_undoes | an item is confirmed, another one fails to: COMPENSATING, then the cron; no refund and no cancel command is ever published |
| v1_cancel_success_holds | a cancellation of a running checkout succeeds, then the checkout overwrites CANCELADA |
| revenue_is_earned | a checkout ends FALLIDA_PAGO, and the report, whose comment names "PAGADA / CONFIRMADA / cualquier otro happy-path" (`dashboard.service.ts:82`), counts its price as revenue |

Further disagreements met while modelling, visible in the same models and not
given a run of their own:

* An item's `created` event that arrives once the saga compensates is acked and
  its external id, kept "para que cancel pueda referenciarlo"
  (`integration-consumers.ts:66`), is lost.
* `saga-timeout.cron.ts:34` fails by id a row read earlier, so a saga that
  completed in between becomes FAILED.
* A consumer that loses the race for the step still publishes the next command:
  the result of `advanceTx` is ignored (`integration-consumers.ts:82-91`,
  `payment-consumers.ts:72-81`, `invoice-consumers.ts:83-114`).
* `cancel-v2.service.ts:32` announces a refund command; none is published.
* No step ends the saga of a cancellation, so the cron marks each one FAILED
  and overwrites with SAGA_TIMEOUT (`saga.service.ts:206`) the
  MANUAL_INTERVENTION_NEEDED that `integration-consumers.ts:332` keeps for manual
  reconciliation. `FailureIsOnRecord` excepts it by name, and says that this
  comes only after the request has ended.
* A V1 cancellation that finds no payment yet writes no audit row although the
  running checkout then charges (`reservas.service.ts:272-281`).
* After a failed confirmation V1 cancels the confirmed items and leaves the
  created ones at their providers (`reservas.service.ts:384-394`): this is why
  `CleanFailureIsUndone` excepts FALLIDA_CONFIRMACION.
* The late answers to a cancellation that timed out are counted for the saga of
  the next one (`integration-consumers.ts:280`), which may end before its own
  items were answered, against "Esperar a que se cancelen todos"
  (`cancel-v2.service.ts:122`). `CancelledNeedsAnswers` is what is left of it,
  and `CancelledIsWhole` needs a single request.
* `amount_cents` is an int64 and the gRPC loader is configured without `longs`,
  so `getPaymentByReservaId` takes it for missing and answers null
  (`grpc-clients/finance.client.ts:173-185`): the V1 cancellation of a paid
  reserva then neither refunds nor writes the audit row of
  `reservas.service.ts:272-274`. `CancelAccountsForPayment` excepts it by name.
* A report of a refund sets `last_error` to null, whatever it said
  (`payment-consumers.ts:170`), and the report of a refund that failed replaces
  it: the other exception in `FailureIsOnRecord`.
* A V1 payment without id makes `getIdPago` throw inside the compensation
  (`reservas.service.ts:426`), which then neither cancels the items nor marks the
  reserva.
* A line whose `id_producto_externo` is empty gets no detalle and no command
  (`unit-of-work.ts:222`), and its price is in the total all the same (`:212`), which
  is charged; its cart is COMPLETADO. `NoItemLeftBehind` speaks of the others, and
  `ChargedIsReserved` compares the charge with that total.
* A payment processed after the row of its saga was deleted still orders the
  invoice: `advanceTx` matches no row and nobody looks.
* A reserva without any external id is cancelled without touching its saga
  (`cancel-v2.service.ts:73-77`): a running checkout goes on, charges, and may end as
  CONFIRMADA; `AnswersHold` asks for a cancellation that had something to cancel.
* An external id that a checkout stores after a cancellation has listed the detalles
  (`cancel-v2.service.ts:71-72`) and before it deletes the saga (`:84`) is in no
  cancel command, and the reserva becomes CANCELADA all the same:
  `CancellationWasWhole` speaks of the detalles as the cancellation listed them.
* V2 converts the cart before it validates the metadata of its lines, V1 after;
  and the dates of a hotel fall back to those of the line in V2 only.

## Fairness

`FairSpec` gives weak fairness to the steps of this process: the request, the
delivery of each ready event, each running handler, the cron. Node's event loop,
the `@Cron` schedule and RabbitMQ's redelivery justify it, and weak fairness is
enough because none of these steps is disabled again and again by the others
before it can happen. Nothing is asked of integracion and finanzas: they may
never answer, and liveness comes from the timeouts. `FairSpec2`
asks less: one weak fairness for all the steps of the process together, which
says only that it does not stop while it has something to do, since one Node
process runs them all. In `Outbox`, the cron goes on firing and each call
resolves or rejects. (amqplib buffers while it is
disconnected, so a run may stay in `Publish`; another run then starts on the
same rows, which the overlapping runs cover, but the liveness run assumes that
the connection comes back.)

## Proofs

For every set of items, handlers, requests, runs and every bound:

* **Checkout** (`CheckoutSagaProofs`): `TypeOK`, `PublishedOnce`,
  `CountersMatchInbox` and `PaymentAfterAllCreated`. None is inductive alone.
  `IInv` adds `EventsAreAnswers` (every event around is the one answer to its
  command, so no item is counted as created under two different events) and
  `StagesInOrder` (each message has been published at most once, and only if
  the answer that triggers it is in the inbox). The argument: publishing again
  would need a commit of an event that `StagesInOrder` says is already in the
  inbox, and the UNIQUE insert forbids it. For the counters, committing adds a
  new event to the inbox, `EventsAreAnswers` makes it the first accepted one of
  its item, and the cardinality grows by exactly one.
* **The promise of the checkout** (`CheckoutSagaProofs`):
  `ConfirmOnlyPaidAndInvoiced`, `CompletedIsWhole`, `SuccessIsReal`,
  `BadGatewayNeverCharged`, `FailureIsNotUndone`, and `Implementation`: every step
  of the saga is a step of `CheckoutPromise` or changes none of its variables.
  `SagaInv` adds to `IInv` that every accepted
  answer was asked for (`AnswersWereAsked`), that external ids come with creations
  and no handler holds one that is gone (`IdsInOrder`), what the row has kept by
  the step it is in (`RowInOrder`), and that the cron stays away until the request
  gave up, so that what the request saw is still true when it answers
  (`RequestInOrder`); `FullInv` adds what the status of the reserva tells of a
  success (`SuccessOnRecord`). In the refinement the commit of each
  good answer and each final answer to the client is a step of the promise, and
  every other action a stutter.
* **The two V2 sagas together** (`CheckoutAndCancelV2Proofs`): `AnswersHold`,
  `FailureIsOnRecord`, `DeletedSagaIsSilent`, and of the checkout `PublishedOnce`,
  `ConfirmOnlyPaidAndInvoiced`, `BadGatewayNeverCharged` and its `CheckoutPromise`,
  for any number of items, cancellations and handlers of either saga. A
  cancellation takes the row of the checkout away between any two of its steps, so
  most of what `CheckoutSaga` keeps about its row is no longer true. `IInv2` says
  what is: until the row is deleted the checkout is as it would be alone
  (`SagaInv`, which leaves out `reservas.status`, because the cancellation writes
  it), and without the row the rest of it: its messages and answers are in order
  (`Orderly`, `AnswersWereAsked`, `IdsInOrder`), and what the client was told
  stays true. The proof follows the row (`CheckoutKinds`):
  with it, and before there is one, each step of the checkout is a step of
  `CheckoutSaga` alone (`PresentKeeps`); without it, either one of those that need
  no row, which commit what orders at most the invoice (`RowlessKeeps`), or one that
  gives up, which writes nothing but its own queue and tells the client a timeout
  (`GivesUpFrame`). `RowsAgree` ties the row the checkout
  sees to the one the cancellation deletes, `CancellablesAreIds` and
  `CancelsInOrder` say that a cancellation acts on ids the checkout has stored and
  on answers to its own commands, and `CancelledHolds` is inductive with them.
  That a cancellation told as done was whole takes `CountsInOrder` (`FullInv2`):
  its row asks for as many answers as it listed detalles, no row counts more than
  the inbox holds, and every command is for a detalle its request listed. With a
  single request the answers then inject into the detalles listed and are as
  many, so each has its own (`DoneIsWhole`).
* **Checkout and cancellation V1** (`ReservaV1Proofs`): all six properties of
  `v1_safety`, for any number of detalles, concurrent cancellations, failing
  calls and restarts. Four parts make them inductive. `StagesInOrder` says how far
  finanzas has got by the call that comes next and by the status a compensation
  is to leave; `CancellersInOrder` what a cancellation that began after the
  checkout has done for sure by each of its calls, which no step of another one
  takes back; `ItemsInOrder` that, as long as nobody cancels, the two lists of
  the checkout are the first `k - 1` detalles and agree with the providers;
  `FaultsInOrder` that nothing has failed while the checkout goes forward, and
  that after a single failure without effect everything outside the list still
  to be cancelled is undone.
* **Cancellation** (`CancelV2Proofs`): `TypeOK` and `CancelledNeedsAnswers`, for
  any number of concurrent requests. Needed beside it: the counter of the
  current row is at most the number of different answers accepted, and a request
  that leaves its wait did so with enough of them. With a single request,
  `CancelledIsWhole` and `FailureIsOnRecord` too: by `EventsInOrder` every answer
  is to a command of that request for a detalle with an external id, so the
  answers map to the detalles one to one, and as many of them as there are
  detalles leave none out. That only the late cron and the report of a refund
  write over a failure needs `TimeoutIsLate`: a row the cron has found, or failed,
  is of a request that waits no more. It is part of `IInv2` too.
* **Outbox** (`OutboxProofs`): `TypeOK`, `MarkedWasSent`, and `Implementation`:
  every step of the concurrent runs is a step of `Delivery` or changes none of
  its variables. Needed beside it: whatever a run holds was saved by a committed
  transaction, and a run about to mark has sent. `AttemptsBounded` and
  `CopiesHaveCauses` are about rows that several runs hold at once, where each
  count depends on what the others may still add: `BoundsAhead` charges every
  run at a row in advance with the copy or the attempt it may still make, and
  the cardinality of that set of runs goes down as the counters go up.
* **Cart** (`CarritoProofs`, `CarritoCheckoutProofs`): all eight properties of
  `cart_safety`, for any number of requests, products, prices and quantities.
  `TypeOK` says that a total is a natural number: `SumIsNat` proves it of every
  finite set of lines, by an induction over a set of naturals, since the library
  states induction for a predicate only. The others are each about what a request
  has read and what others have committed since, so the strengthening says, for
  each request under way, that what it read is still true or that it has met
  whoever changed it. `ConvertedOnce` is that for a checkout and the estado of its
  cart, `CreatorsMet` and `InserterMet` for find-or-create, `AddRead` for the
  quantity of a row, `SumRead` for the sum about to be stored, `CheckoutRead` and
  `RowsCovered` for the total and the lines of a checkout, `AdderMet` for a cart
  converted while a row is on its way into it. They rest on three facts: requests
  in flight together have met (`InFlightMet`), one request only inserts a given
  cart or row (`CartsKnown`, `RowsKnown`), and one transaction holds a row at a
  time (`RowHeld`). The proof of `TotalIsSum` turns on the last: the writers of one
  row wait for each other and sum afterwards, so only writers of two rows can leave
  a wrong total.

* **Dashboard** (`DashboardProofs`): `TypeOK`, `ReportIsComplete`,
  `EverySaleIsCountedOnce` and `RevenueIsAccounted`, for any tables and prices. First
  what was read: every detalle that was there when the report
  began was read as it is, with a provider the report knows (providers are read
  first and the foreign key keeps those with detalles), and with its status
  unless somebody changed that meanwhile. For the upper bound of the revenue,
  `NewIsPending`: what was sold since is no sale yet unless it is among what
  changed. Then what was added up. Both loops are folds; for each of them the
  function the fold is made of is shown to exist (`FoldExists`), and an induction over
  the subsets of what is folded gives that the loop over the detalles adds to each
  column what each of them counts for (`LoopAdds`), and the loop over the providers
  their rows (`TotalesAdd`). Sums by provider are then one sum over the detalles of
  the providers read (`SumByKey`, `OverallIsCounted`), in which each weighs one in
  exactly one column (`SumOfColumns`) and its price or nothing in the revenue, which
  `SumDominated` compares with the price of the sales.

The assumptions are the named `ASSUME`s of the modules: finite sets, distinct
marker values, bounds and prices in Nat, positive quantities; and for the two V2
sagas together that the lack of a row is no row (`RowAssumption`), that the id
of the checkout's saga is not that of a cancellation's (`RequestsAssumption`, UUIDs in
the code) and that a report of a refund says something (`ReportsAssumption`).

Only model-checked: the liveness properties (fairness and ENABLED are beyond the
prover), which are `SagaTerminates`, `EventsSettle`, `EventsOfBothSettle`,
`EveryoneIsAnswered` and `SavedIsSettled`. Every safety property of a passing run
is a theorem.

## Not modelled

HTTP idempotency (nothing calls it); the listings of reservas, carts, catalogue
and audit rows, which read one statement and change nothing; the categories and
the other single-row edits of the catalogue; the field-by-field building of
metadata and booking items (`buildMetadata`, `toBookingItem`): strings from one
object into another, whose only effect here is that they may throw; authentication,
controllers, mappers, repositories, metrics and configuration; the weekly
cleanups (the inbox keeps its rows thirty days, and the cron ends every saga within
minutes); and
`updateEstado` by an administrator, which may write any status at any time and
would make every statement about the status void.

## Plan

Done, in this order: the checkout saga with its invariants and proofs; the V1
flows; the cancellation; the outbox and the promise it implements; the cart; the
checkout promise and the proof that the saga keeps it; the cancellation beside a
running checkout; the dashboard; the proofs about V1, about the bounds of the
outbox, about what the answers to a cancellation amount to, and about the overlaps
of the cart.

Then the V2 checkout and cancellation together, and the sums of the report, as theorems.
