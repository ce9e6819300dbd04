-------------------------- MODULE ReservaV1Proofs --------------------------
(***************************************************************************)
(* For any number of detalles, of concurrent cancellations, of failing     *)
(* calls and of restarts: what a V1 checkout leaves behind when it         *)
(* succeeds, when it fails, and when it is cancelled afterwards.           *)
(***************************************************************************)
EXTENDS ReservaV1, TLAPS

-----------------------------------------------------------------------------
(* Types. *)

\* What a compensation does to the row of the checkout.
LEMMA CompensateRow ==
  ASSUME NEW row \in Checkout, NEW step \in {6, 7, 8, 9}
  PROVE  /\ Compensate(row, step) \in Checkout
         /\ Compensate(row, step).pc = IF step \in {8, 9} THEN "refund" ELSE "cancel"
         /\ Compensate(row, step).todo = IF step = 9 THEN row.confirmed ELSE row.created
         /\ Compensate(row, step).fail = FailStatus(step)
         /\ FailStatus(step) \in Failed
         /\ Compensate(row, step).answer = row.answer
         /\ Compensate(row, step).idPago = row.idPago
<1>1. FailStatus(step) \in Failed
  BY DEF FailStatus, Failed
<1> QED
  BY <1>1 DEF Compensate, Checkout

\* Moving on: to another call, and to another detalle.
LEMMA MovedRow ==
  ASSUME NEW row \in Checkout, NEW k \in 1..(N + 1), NEW pc \in Running,
         NEW created \in SUBSET Items, NEW confirmed \in SUBSET Items
  PROVE  [row EXCEPT !.pc = pc, !.k = k, !.created = created, !.confirmed = confirmed]
           \in Checkout
<1> DEFINE Ks == 1..(N + 1)
<1> HIDE DEF Ks
<1>1. Checkout = [pc : {"cart", "availability", "convert", "create", "record", "pay",
                   "invoice", "confirm", "finish", "refund", "cancel", "mark", "done"},
             k : Ks, created : SUBSET Items, confirmed : SUBSET Items,
             idPago : BOOLEAN, todo : SUBSET Items, fail : Failed \cup {"NONE"},
             answer : {"none", "ok", "rejected", "unavailable", "failed", "error",
                       "connectionLost"}]
  BY DEF Checkout, Ks
<1>2. k \in Ks
  BY DEF Ks
<1> QED
  BY <1>1, <1>2 DEF Running, Unpaid

\* The statuses of the four steps.
LEMMA FailStatuses ==
  /\ FailStatus(6) = "FALLIDA_PROVEEDOR" /\ FailStatus(7) = "FALLIDA_PAGO"
  /\ FailStatus(8) = "FALLIDA_FACTURACION" /\ FailStatus(9) = "FALLIDA_CONFIRMACION"
BY DEF FailStatus

\* However a call ends, the counters keep their types.
LEMMA CallTypes ==
  ASSUME TypeOK, CallSucceeds \/ AnswerLacksId \/ (\E b \in BOOLEAN : CallFails(b))
  PROVE  faults' \in 0..MaxFaults /\ lost' \in BOOLEAN /\ crashes' \in 0..MaxCrashes
<1>1. faults' \in 0..MaxFaults /\ crashes' \in 0..MaxCrashes
  BY FaultsAssumption DEF TypeOK, CallSucceeds, AnswerLacksId, CallFails, faultVars
<1>2. lost' \in BOOLEAN
  BY Zenon DEF TypeOK, CallSucceeds, AnswerLacksId, CallFails, faultVars
<1> QED
  BY <1>1, <1>2

\* Every step of the checkout keeps the types.
LEMMA CheckoutTypes == TypeOK /\ StagesInOrder /\ CheckoutStep => TypeOK'
<1> SUFFICES ASSUME TypeOK, StagesInOrder, CheckoutStep PROVE TypeOK'
  OBVIOUS
<1> USE DEF dbVars, remoteVars, faultVars
<1>0. co \in Checkout /\ N \in Nat \ {0}
  BY NAssumption DEF TypeOK
<1>c. \A step \in {6, 7, 8, 9} : Compensate(co, step) \in Checkout
  BY <1>0, CompensateRow
<1>d. co.created \in SUBSET Items /\ co.confirmed \in SUBSET Items /\ 1 \in 1..(N + 1)
  BY <1>0 DEF Checkout
<1>1. CASE ReadCart
  <2>1. co' \in Checkout
    BY <1>0, <1>1 DEF ReadCart, Checkout
  <2> QED
    BY <1>1, <2>1 DEF ReadCart, TypeOK
<1>2. CASE CheckAvailability
  BY <1>0, <1>2, CallTypes DEF CheckAvailability, TypeOK, Checkout
<1>3. CASE ConvertCart
  BY <1>0, <1>3, CallTypes DEF ConvertCart, TypeOK, Checkout
<1>4. CASE CreateRemoteReservation
  <2>1. co' \in Checkout
    BY <1>0, <1>c, <1>4 DEF CreateRemoteReservation, Checkout
  <2>2. remote' \in [Items -> {"none", "created", "confirmed", "cancelled"}]
    BY <1>4 DEF CreateRemoteReservation, CreateRemote, TypeOK
  <2> QED
    BY <1>4, <2>1, <2>2, CallTypes DEF CreateRemoteReservation, TypeOK
<1>5. CASE RecordRemoteReservation
  <2>0. CASE CallFails(TRUE) /\ UNCHANGED idExterno /\ co' = Compensate(co, 6)
    BY <1>0, <1>5, <2>0, CompensateRow, CallTypes DEF RecordRemoteReservation, TypeOK
  <2>1. CASE /\ CallSucceeds /\ idExterno' = idExterno \cup {co.k}
             /\ LET row == [co EXCEPT !.created = @ \cup {co.k}, !.k = @ + 1]
                IN  co' = IF row.k > N THEN [row EXCEPT !.pc = "pay"]
                                       ELSE [row EXCEPT !.pc = "create"]
    <3>1. co.k \in Items
      BY <1>5 DEF RecordRemoteReservation, StagesInOrder
    <3>2. co' \in Checkout
      <4>1. co.k + 1 \in 1..(N + 1) /\ co.created \cup {co.k} \in SUBSET Items
        BY <1>0, <3>1 DEF Checkout, Items
      <4>2. PICK pc \in Running : co' = [co EXCEPT !.pc = pc, !.k = co.k + 1,
                            !.created = co.created \cup {co.k}, !.confirmed = co.confirmed]
        BY <1>0, <2>1 DEF Checkout, Running, Unpaid
      <4> QED
        BY <1>0, <1>d, <4>1, <4>2, MovedRow
    <3> QED
      BY <1>5, <2>1, <3>1, <3>2, CallTypes DEF RecordRemoteReservation, TypeOK
  <2> QED
    BY <1>5, <2>0, <2>1 DEF RecordRemoteReservation
<1>6. CASE ProcessPayment
  <2>1. co' \in Checkout
    BY <1>0, <1>c, <1>6 DEF ProcessPayment, Checkout
  <2> QED
    BY <1>6, <2>1, CallTypes DEF ProcessPayment, Charge, TypeOK
<1>7. CASE IssueInvoice
  <2>1. co' \in Checkout
    <3>1. co' = [co EXCEPT !.pc = "confirm", !.k = 1] \/ co' = Compensate(co, 8)
      BY <1>7 DEF IssueInvoice
    <3> QED
      <4>1. CASE co' = Compensate(co, 8)
        BY <1>c, <4>1
      <4>2. CASE co' = [co EXCEPT !.pc = "confirm", !.k = 1]
        <5>1. co' = [co EXCEPT !.pc = "confirm", !.k = 1, !.created = co.created,
                               !.confirmed = co.confirmed]
          BY <1>0, <4>2 DEF Checkout
        <5>2. "confirm" \in Running
          BY DEF Running
        <5> QED
          BY <1>0, <1>d, <5>1, <5>2, MovedRow
      <4> QED
        BY <3>1, <4>1, <4>2
  <2> QED
    BY <1>7, <2>1, CallTypes DEF IssueInvoice, Issue, TypeOK
<1>8. CASE ConfirmRemoteReservation
  <2>1. co' \in Checkout
    <3>0. co.k \in Items
      BY <1>8 DEF ConfirmRemoteReservation, StagesInOrder
    <3>1. CASE LET row == [co EXCEPT !.confirmed = @ \cup {co.k}, !.k = @ + 1]
               IN  co' = IF row.k > N THEN [row EXCEPT !.pc = "finish"] ELSE row
      <4>1. co.k + 1 \in 1..(N + 1) /\ co.confirmed \cup {co.k} \in SUBSET Items
        BY <1>0, <3>0 DEF Checkout, Items
      <4>2. PICK pc \in Running : co' = [co EXCEPT !.pc = pc, !.k = co.k + 1,
                            !.created = co.created, !.confirmed = co.confirmed \cup {co.k}]
        <5>1. co.pc = "confirm"
          BY <1>8 DEF ConfirmRemoteReservation
        <5> QED
          <6> DEFINE row == [co EXCEPT !.confirmed = @ \cup {co.k}, !.k = @ + 1]
          <6>1. co' = [row EXCEPT !.pc = "finish"] \/ co' = row
            BY <3>1
          <6>2. row = [co EXCEPT !.pc = "confirm", !.k = co.k + 1, !.created = co.created,
                                 !.confirmed = co.confirmed \cup {co.k}]
            BY <1>0, <5>1 DEF Checkout
          <6>3. [row EXCEPT !.pc = "finish"]
                  = [co EXCEPT !.pc = "finish", !.k = co.k + 1, !.created = co.created,
                               !.confirmed = co.confirmed \cup {co.k}]
            BY <1>0 DEF Checkout
          <6> HIDE DEF row
          <6> QED
            BY <6>1, <6>2, <6>3 DEF Running, Unpaid
      <4> QED
        BY <1>0, <1>d, <4>1, <4>2, MovedRow
    <3>2. CASE co' = Compensate(co, 9)
      BY <1>c, <3>2
    <3> QED
      BY <1>8, <3>1, <3>2 DEF ConfirmRemoteReservation
  <2>2. remote' \in [Items -> {"none", "created", "confirmed", "cancelled"}]
    BY <1>8 DEF ConfirmRemoteReservation, ConfirmRemote, TypeOK
  <2> QED
    BY <1>8, <2>1, <2>2, CallTypes DEF ConfirmRemoteReservation, TypeOK
<1>9. CASE ConfirmReserva
  BY <1>0, <1>9, CallTypes DEF ConfirmReserva, TypeOK, Checkout
<1>10. CASE TryRefundPayment
  <2>1. co' \in Checkout
    BY <1>0, <1>10 DEF TryRefundPayment, Checkout
  <2> QED
    BY <1>10, <2>1, CallTypes DEF TryRefundPayment, Refund, TypeOK
<1>11. CASE CancelCreated
  <2>1. co' \in Checkout
    BY <1>0, <1>11 DEF CancelCreated, Checkout
  <2>2. remote' \in [Items -> {"none", "created", "confirmed", "cancelled"}]
    BY <1>11 DEF CancelCreated, CancelRound, CancelRemote, TypeOK
  <2>3. CallSucceeds \/ \E b \in BOOLEAN : CallFails(b)
    BY <1>11 DEF CancelCreated, CancelRound
  <2> QED
    BY <1>11, <2>1, <2>2, <2>3, CallTypes DEF CancelCreated, TypeOK
<1>12. CASE MarkFailed
  <2>1. co' \in Checkout
    BY <1>0, <1>12 DEF MarkFailed, Checkout
  <2>2. CallSucceeds \/ \E b \in BOOLEAN : CallFails(b)
    BY <1>12 DEF MarkFailed
  <2>3. status' \in {"NONE", "PENDIENTE", "CONFIRMADA", "CANCELADA"} \cup Failed
    BY <1>12 DEF MarkFailed, TypeOK, Checkout
  <2> QED
    BY <1>12, <2>1, <2>2, <2>3, CallTypes DEF MarkFailed, TypeOK
<1> QED
  BY <1>1, <1>2, <1>3, <1>4, <1>5, <1>6, <1>7, <1>8, <1>9, <1>10, <1>11, <1>12
  DEF CheckoutStep

\* Every step of a cancellation keeps the types.
LEMMA CancelTypes ==
  ASSUME TypeOK, CancellersInOrder, NEW c \in Cancellers, CancelStep(c)
  PROVE  TypeOK'
<1> USE DEF dbVars, remoteVars, faultVars
<1>0. ca \in [Cancellers -> Canceller] /\ ca[c] \in Canceller
  BY DEF TypeOK
<1>a. ASSUME NEW kind \in CancelAudits, AuditNext(c, kind)
      PROVE  ca' \in [Cancellers -> Canceller]
  <2> DEFINE row == [ca[c] EXCEPT !.pc = "audit", !.audit = kind]
  <2>1. row \in Canceller
    BY <1>0 DEF Canceller
  <2>2. ca' = [ca EXCEPT ![c] = row]
    BY <1>0, <1>a DEF AuditNext
  <2> QED
    BY <1>0, <2>1, <2>2
<1>1. CASE CancelRead(c)
  <2>1. ca' \in [Cancellers -> Canceller]
    BY <1>0, <1>1 DEF CancelRead, Canceller
  <2> QED
    BY <1>1, <2>1 DEF CancelRead, TypeOK
<1>2. CASE CancelList(c)
  <2>1. ca' \in [Cancellers -> Canceller]
    BY <1>0, <1>2 DEF CancelList, Canceller, TypeOK
  <2> QED
    BY <1>2, <2>1 DEF CancelList, TypeOK
<1>3. CASE CancelOne(c)
  <2>1. ca' \in [Cancellers -> Canceller]
    BY <1>0, <1>3 DEF CancelOne, Canceller
  <2>2. remote' \in [Items -> {"none", "created", "confirmed", "cancelled"}]
    BY <1>3 DEF CancelOne, CancelRound, CancelRemote, TypeOK
  <2>3. CallSucceeds \/ \E b \in BOOLEAN : CallFails(b)
    BY <1>3 DEF CancelOne, CancelRound
  <2> QED
    BY <1>3, <2>1, <2>2, <2>3, CallTypes DEF CancelOne, TypeOK
<1>4. CASE LookupPayment(c)
  <2>1. CallSucceeds \/ \E b \in BOOLEAN : CallFails(b)
    BY <1>4 DEF LookupPayment
  <2>2. ca' \in [Cancellers -> Canceller]
    <3>1. CASE \E answer \in PaymentAnswers : Told(c, answer)
      <4>1. PICK answer \in PaymentAnswers : Told(c, answer)
        BY <3>1
      <4> DEFINE unseen == answer = "null" /\ payment # "none"
                 row == [ca[c] EXCEPT !.pc = IF answer = "null" THEN "mark" ELSE "refund",
                                      !.unseen = unseen]
      <4>2. unseen \in BOOLEAN
        OBVIOUS
      <4>3. ca' = [ca EXCEPT ![c] = row]
        BY <1>0, <4>1 DEF Told
      <4> HIDE DEF unseen
      <4>4. row \in Canceller
        BY <1>0, <4>2 DEF Canceller
      <4> QED
        BY <1>0, <4>3, <4>4
    <3>2. CASE AuditNext(c, "REFUND_RECONCILIATION_NEEDED")
      BY <1>a, <3>2 DEF CancelAudits
    <3> QED
      BY <1>4, <3>1, <3>2 DEF LookupPayment
  <2> QED
    BY <1>4, <2>1, <2>2, CallTypes DEF LookupPayment, TypeOK
<1>5. CASE RefundByData(c)
  <2>1. UNCHANGED faultVars \/ CallSucceeds \/ \E b \in BOOLEAN : CallFails(b)
    BY <1>5 DEF RefundByData
  <2>2. ca' \in [Cancellers -> Canceller]
    <3>1. CASE Goto(c, "mark")
      BY <1>0, <3>1 DEF Goto, Canceller
    <3>2. CASE \E kind \in CancelAudits : AuditNext(c, kind)
      BY <1>a, <3>2
    <3> QED
      BY <1>5, <3>1, <3>2 DEF RefundByData, CancelAudits
  <2> QED
    BY <1>5, <2>1, <2>2, CallTypes DEF RefundByData, Refund, CallSucceeds, TypeOK
<1>6. CASE WriteAudit(c)
  <2>1. CallSucceeds \/ \E b \in BOOLEAN : CallFails(b)
    BY <1>6 DEF WriteAudit
  <2>2. ca' \in [Cancellers -> Canceller]
    <3>1. CASE Goto(c, "mark")
      BY <1>0, <3>1 DEF Goto, Canceller
    <3>2. CASE \E kind \in CancelAudits : AuditNext(c, kind)
      BY <1>a, <3>2
    <3>3. CASE ca' = [ca EXCEPT ![c].pc = "done", ![c].answer = "error"]
      BY <1>0, <3>3 DEF Canceller
    <3> QED
      BY <1>6, <3>1, <3>2, <3>3 DEF WriteAudit, CancelAudits
  <2>3. auditoria' \subseteq CancelAudits \cup {"COMPENSATION_PENDING_REFUND"}
    <3>1. ca[c].audit # "NONE"
      BY <1>6 DEF WriteAudit, CancellersInOrder, CancellerInOrder
    <3> QED
      <4>1. ca[c].audit \in CancelAudits
        BY <1>0, <3>1 DEF Canceller
      <4> QED
        BY <1>6, <4>1 DEF WriteAudit, TypeOK
  <2> QED
    BY <1>6, <2>1, <2>2, <2>3, CallTypes DEF WriteAudit, TypeOK
<1>7. CASE MarkCancelled(c)
  <2>1. CallSucceeds \/ \E b \in BOOLEAN : CallFails(b)
    BY <1>7 DEF MarkCancelled
  <2>2. ca' \in [Cancellers -> Canceller]
    <3>1. PICK answer \in {"ok", "error"} :
            ca' = [ca EXCEPT ![c].pc = "done", ![c].answer = answer]
      BY <1>7 DEF MarkCancelled
    <3> QED
      BY <1>0, <3>1 DEF Canceller
  <2> QED
    BY <1>7, <2>1, <2>2, CallTypes DEF MarkCancelled, TypeOK
<1> QED
  BY <1>1, <1>2, <1>3, <1>4, <1>5, <1>6, <1>7 DEF CancelStep

\* And so does a crash.
LEMMA CrashTypes == TypeOK /\ Crash => TypeOK'
<1> SUFFICES ASSUME TypeOK, Crash PROVE TypeOK'
  OBVIOUS
<1>1. co' \in Checkout
  BY DEF Crash, TypeOK, Checkout
<1>2. ca' \in [Cancellers -> Canceller]
  <2>1. \A c \in Cancellers : ca[c] \in Canceller
    BY DEF TypeOK
  <2>2. \A c \in Cancellers : ca'[c] \in Canceller
    BY <2>1 DEF Crash, Canceller
  <2> QED
    BY <2>2 DEF Crash
<1>3. crashes' \in 0..MaxCrashes
  <2>1. crashes < MaxCrashes /\ crashes' = crashes + 1 /\ crashes \in 0..MaxCrashes
    BY DEF Crash, TypeOK
  <2> QED
    BY <2>1, FaultsAssumption
<1> QED
  BY <1>1, <1>2, <1>3 DEF Crash, TypeOK, dbVars, remoteVars

-----------------------------------------------------------------------------
(* What a step of one request leaves alone. *)

\* A call that fails is counted, and a lost one is not forgotten.
LEMMA CallEffect ==
  ASSUME TypeOK,
         UNCHANGED faultVars \/ CallSucceeds \/ AnswerLacksId
           \/ (\E b \in BOOLEAN : CallFails(b))
  PROVE  crashes' = crashes /\ faults' \in Nat /\ faults' >= faults /\ (lost => lost')
<1>1. crashes' = crashes /\ faults' \in Nat /\ faults' >= faults
  BY FaultsAssumption DEF TypeOK, CallSucceeds, AnswerLacksId, CallFails, faultVars
<1>2. lost => lost'
  BY Zenon DEF CallSucceeds, AnswerLacksId, CallFails, faultVars
<1> QED
  BY <1>1, <1>2

\* A round of cancelRemoteReservations cancels its reservation, or its call
\* failed, and touches no other.
LEMMA RoundEffect ==
  ASSUME TypeOK, NEW i \in Items, CancelRound(i)
  PROVE  /\ \A j \in Items : remote'[j] = IF j = i /\ remote' # remote THEN "cancelled" ELSE remote[j]
         /\ UNCHANGED faultVars \/ (\E b \in BOOLEAN : CallFails(b))
         /\ faults' = 0 => remote'[i] = "cancelled"
         /\ remote'[i] = "cancelled" \/ (remote' = remote /\ faults' = faults + 1 /\ faults' > 0)
<1>1. CallSucceeds \/ (\E b \in BOOLEAN : CallFails(b))
  BY DEF CancelRound
<1>2. remote' = [remote EXCEPT ![i] = "cancelled"] \/ (remote' = remote /\ CallFails(FALSE))
  BY DEF CancelRound, CancelRemote
<1> QED
  BY <1>1, <1>2, FaultsAssumption DEF TypeOK, CallFails, CallSucceeds

\* A step of one cancellation moves nothing of the checkout or of the other
\* cancellations, and only cancels, refunds and audits.
LEMMA CancelEffect ==
  ASSUME TypeOK, NEW c \in Cancellers, CancelStep(c)
  PROVE  /\ UNCHANGED <<co, invoice, idExterno>>
         /\ payment' = payment \/ (payment = "charged" /\ payment' = "refunded")
         /\ auditoria \subseteq auditoria'
         /\ \A i \in Items : remote'[i] \in {remote[i], "cancelled"}
         /\ faults' \in Nat /\ faults' >= faults /\ (lost => lost')
         /\ status' \in {status, "CANCELADA"}
         /\ \A d \in Cancellers : d # c => ca'[d] = ca[d]
         /\ ca'[c].pc # "idle"
<1> USE DEF dbVars, remoteVars, faultVars
<1>0. ca \in [Cancellers -> Canceller] /\ ca[c] \in Canceller
  BY DEF TypeOK
<1>1. CASE CancelRead(c)
  BY <1>0, <1>1, CallEffect DEF CancelRead, Canceller
<1>2. CASE CancelList(c)
  BY <1>0, <1>2, CallEffect DEF CancelList, Canceller
<1>3. CASE CancelOne(c)
  <2>1. PICK i \in ca[c].todo : CancelRound(i) /\ ca' = [ca EXCEPT ![c].todo = @ \ {i}]
    BY <1>3 DEF CancelOne
  <2>2. i \in Items
    BY <1>0 DEF Canceller
  <2>3. \A j \in Items : remote'[j] \in {remote[j], "cancelled"}
    BY <2>1, <2>2, RoundEffect
  <2>4. UNCHANGED faultVars \/ (\E b \in BOOLEAN : CallFails(b))
    BY <2>1, <2>2, RoundEffect
  <2>5. ca'[c].pc # "idle" /\ \A d \in Cancellers : d # c => ca'[d] = ca[d]
    BY <1>0, <1>3, <2>1 DEF CancelOne, Canceller
  <2> QED
    BY <1>3, <2>3, <2>4, <2>5, CallEffect DEF CancelOne
<1>4. CASE LookupPayment(c)
  <2>1. CallSucceeds \/ \E b \in BOOLEAN : CallFails(b)
    BY <1>4 DEF LookupPayment
  <2>2. ca'[c].pc # "idle" /\ \A d \in Cancellers : d # c => ca'[d] = ca[d]
    <3>1. CASE \E answer \in PaymentAnswers : Told(c, answer)
      <4>1. PICK answer \in PaymentAnswers : Told(c, answer)
        BY <3>1
      <4> DEFINE unseen == answer = "null" /\ payment # "none"
      <4>2. ca' = [ca EXCEPT ![c] = [ca[c] EXCEPT
                     !.pc = IF answer = "null" THEN "mark" ELSE "refund", !.unseen = unseen]]
        BY <1>0, <4>1 DEF Told
      <4> HIDE DEF unseen
      <4> QED
        BY <1>0, <4>2 DEF Canceller
    <3>2. CASE AuditNext(c, "REFUND_RECONCILIATION_NEEDED")
      BY <1>0, <3>2 DEF AuditNext, Canceller
    <3> QED
      BY <1>4, <3>1, <3>2 DEF LookupPayment
  <2> QED
    BY <1>4, <2>1, <2>2, CallEffect DEF LookupPayment
<1>5. CASE RefundByData(c)
  <2>1. UNCHANGED faultVars \/ CallSucceeds \/ \E b \in BOOLEAN : CallFails(b)
    BY <1>5 DEF RefundByData
  <2>2. ca'[c].pc # "idle" /\ \A d \in Cancellers : d # c => ca'[d] = ca[d]
    BY <1>0, <1>5 DEF RefundByData, AuditNext, Goto, Canceller
  <2>3. payment' = payment \/ (payment = "charged" /\ payment' = "refunded")
    BY <1>5 DEF RefundByData, Refundable, Refund
  <2> QED
    BY <1>5, <2>1, <2>2, <2>3, CallEffect DEF RefundByData
<1>6. CASE WriteAudit(c)
  <2>1. CallSucceeds \/ \E b \in BOOLEAN : CallFails(b)
    BY <1>6 DEF WriteAudit
  <2>2. ca'[c].pc # "idle" /\ \A d \in Cancellers : d # c => ca'[d] = ca[d]
    BY <1>0, <1>6 DEF WriteAudit, AuditNext, Goto, Canceller
  <2> QED
    BY <1>6, <2>1, <2>2, CallEffect DEF WriteAudit
<1>7. CASE MarkCancelled(c)
  <2>1. CallSucceeds \/ \E b \in BOOLEAN : CallFails(b)
    BY <1>7 DEF MarkCancelled
  <2>2. ca'[c].pc # "idle" /\ \A d \in Cancellers : d # c => ca'[d] = ca[d]
    BY <1>0, <1>7 DEF MarkCancelled, Canceller
  <2> QED
    BY <1>7, <2>1, <2>2, CallEffect DEF MarkCancelled
<1> QED
  BY <1>1, <1>2, <1>3, <1>4, <1>5, <1>6, <1>7 DEF CancelStep

-----------------------------------------------------------------------------
(* How far the checkout has got. *)

\* A step of the checkout keeps its stages in order.
LEMMA CheckoutStages == TypeOK /\ StagesInOrder /\ CheckoutStep => StagesInOrder'
<1> SUFFICES ASSUME TypeOK, StagesInOrder, CheckoutStep PROVE StagesInOrder'
  OBVIOUS
<1> USE DEF dbVars, remoteVars, faultVars
<1>0. co \in Checkout /\ N \in Nat \ {0}
  BY NAssumption DEF TypeOK
<1>c. \A step \in {6, 7, 8, 9} :
        /\ Compensate(co, step).pc = IF step \in {8, 9} THEN "refund" ELSE "cancel"
        /\ Compensate(co, step).fail = FailStatus(step)
        /\ Compensate(co, step).answer = co.answer
  BY <1>0, CompensateRow
<1>n. co.pc # "done" => status \notin Failed /\ co.answer = "none"
  BY DEF StagesInOrder
<1>f. "NONE" \notin Failed /\ "PENDIENTE" \notin Failed /\ "CONFIRMADA" \notin Failed
  BY DEF Failed
<1>s. FailStatus(6) = "FALLIDA_PROVEEDOR" /\ FailStatus(7) = "FALLIDA_PAGO"
      /\ FailStatus(8) = "FALLIDA_FACTURACION" /\ FailStatus(9) = "FALLIDA_CONFIRMACION"
  BY FailStatuses
<1>i. 1 \in Items
  BY <1>0 DEF Items
<1> USE DEF Running, Unpaid
<1>1. CASE ReadCart
  BY <1>0, <1>n, <1>1 DEF ReadCart, StagesInOrder, Checkout
<1>2. CASE CheckAvailability
  <2>1. co' \in {[co EXCEPT !.pc = "convert"],
                 [co EXCEPT !.pc = "done", !.answer = "unavailable"],
                 [co EXCEPT !.pc = "done", !.answer = "error"]}
    BY <1>2 DEF CheckAvailability
  <2>2. co.pc = "availability" /\ UNCHANGED <<status, payment, invoice>>
    BY <1>2 DEF CheckAvailability
  <2> QED
    BY <1>0, <1>n, <2>1, <2>2 DEF StagesInOrder, Checkout
<1>3. CASE ConvertCart
  BY <1>0, <1>n, <1>f, <1>i, <1>3 DEF ConvertCart, CallFails, CallSucceeds, StagesInOrder, Checkout
<1>4. CASE CreateRemoteReservation
  <2>1. co.pc = "create" /\ UNCHANGED <<status, payment, invoice>>
    BY <1>4 DEF CreateRemoteReservation
  <2>2. co' = [co EXCEPT !.pc = "record"] \/ co' = Compensate(co, 6)
    BY <1>4 DEF CreateRemoteReservation
  <2> QED
    BY <1>0, <1>c, <1>n, <1>s, <2>1, <2>2 DEF StagesInOrder, Checkout
<1>5. CASE RecordRemoteReservation
  <2>1. co.pc = "record" /\ UNCHANGED <<status, payment, invoice>> /\ co.k \in Items
    BY <1>5 DEF RecordRemoteReservation, StagesInOrder
  <2>2. CASE co' = Compensate(co, 6)
    BY <1>0, <1>c, <1>n, <1>s, <2>1, <2>2 DEF StagesInOrder, Checkout
  <2>3. CASE LET row == [co EXCEPT !.created = @ \cup {co.k}, !.k = @ + 1]
             IN  co' = IF row.k > N THEN [row EXCEPT !.pc = "pay"]
                                    ELSE [row EXCEPT !.pc = "create"]
    <3>1. /\ co'.pc \in {"pay", "create"} /\ co'.fail = co.fail /\ co'.answer = co.answer
          /\ co'.pc = "create" => co'.k \in Items
      BY <1>0, <2>1, <2>3 DEF Checkout, Items
    <3> QED
      BY <1>n, <2>1, <3>1 DEF StagesInOrder
  <2> QED
    BY <1>5, <2>2, <2>3 DEF RecordRemoteReservation
<1>6. CASE ProcessPayment
  <2>1. co.pc = "pay" /\ UNCHANGED <<status, invoice>> /\ payment = "none" /\ co.fail = "NONE"
    BY <1>6 DEF ProcessPayment, StagesInOrder
  <2>2. CASE co' = Compensate(co, 7)
    <3>1. payment' = "charged" => lost'
      BY <1>6, <2>1, <2>2, <1>0, <1>c DEF ProcessPayment, CallFails, Charge, Checkout, CallSucceeds, AnswerLacksId
    <3> QED
      BY <1>0, <1>c, <1>n, <1>s, <2>1, <2>2, <3>1 DEF StagesInOrder, Checkout
  <2>3. CASE /\ payment' = "charged"
             /\ co'.pc = "invoice" /\ co'.fail = co.fail /\ co'.answer = co.answer
    BY <1>n, <2>1, <2>3 DEF StagesInOrder
  <2> QED
    BY <1>0, <1>6, <2>2, <2>3 DEF ProcessPayment, Charge, Checkout
<1>7. CASE IssueInvoice
  <2>1. co.pc = "invoice" /\ UNCHANGED <<status, payment>> /\ payment # "none" /\ invoice = "none"
    BY <1>7 DEF IssueInvoice, StagesInOrder
  <2>2. CASE co' = Compensate(co, 8)
    <3>1. invoice' = "issued" => lost'
      BY <1>7, <2>1, <2>2, <1>0, <1>c DEF IssueInvoice, CallFails, Issue, Checkout, CallSucceeds
    <3> QED
      BY <1>0, <1>c, <1>n, <1>s, <2>1, <2>2, <3>1 DEF StagesInOrder, Checkout
  <2>3. CASE co' = [co EXCEPT !.pc = "confirm", !.k = 1] /\ invoice' = "issued"
    BY <1>0, <1>n, <1>i, <2>1, <2>3 DEF StagesInOrder, Checkout
  <2> QED
    BY <1>7, <2>2, <2>3 DEF IssueInvoice, Issue
<1>8. CASE ConfirmRemoteReservation
  <2>1. /\ co.pc = "confirm" /\ UNCHANGED <<status, payment, invoice>> /\ co.k \in Items
        /\ payment # "none" /\ invoice = "issued"
    BY <1>8 DEF ConfirmRemoteReservation, StagesInOrder
  <2>2. CASE co' = Compensate(co, 9)
    BY <1>0, <1>c, <1>n, <1>s, <2>1, <2>2 DEF StagesInOrder, Checkout
  <2>3. CASE LET row == [co EXCEPT !.confirmed = @ \cup {co.k}, !.k = @ + 1]
             IN  co' = IF row.k > N THEN [row EXCEPT !.pc = "finish"] ELSE row
    <3>1. /\ co'.pc \in {"confirm", "finish"} /\ co'.fail = co.fail /\ co'.answer = co.answer
          /\ co'.pc = "confirm" => co'.k \in Items
      BY <1>0, <2>1, <2>3 DEF Checkout, Items
    <3> QED
      BY <1>n, <2>1, <3>1 DEF StagesInOrder
  <2> QED
    BY <1>8, <2>2, <2>3 DEF ConfirmRemoteReservation
<1>9. CASE ConfirmReserva
  BY <1>0, <1>n, <1>f, <1>9 DEF ConfirmReserva, CallFails, CallSucceeds, StagesInOrder, Checkout
<1>10. CASE TryRefundPayment
  <2>0. UNCHANGED faultVars \/ CallSucceeds \/ AnswerLacksId \/ (\E b \in BOOLEAN : CallFails(b))
    BY <1>10 DEF TryRefundPayment
  <2>1. /\ co.pc = "refund" /\ UNCHANGED <<status, invoice>>
        /\ payment' = payment \/ payment' = "refunded"
    BY <1>10 DEF TryRefundPayment, Refund
  <2>2. \/ co' = [co EXCEPT !.pc = "cancel"]
        \/ co' = [co EXCEPT !.pc = "done", !.answer = "error"]
    BY <1>10 DEF TryRefundPayment
  <2>3. \/ payment' = payment /\ co' = [co EXCEPT !.pc = "done", !.answer = "error"]
        \/ co' = [co EXCEPT !.pc = "cancel"]
    BY <1>10 DEF TryRefundPayment
  <2>4. co.fail # "FALLIDA_PROVEEDOR"
    BY <1>10 DEF TryRefundPayment, StagesInOrder
  <2> QED
    BY <1>0, <1>n, <2>0, <2>1, <2>2, <2>3, <2>4, CallEffect DEF StagesInOrder, Checkout
<1>11. CASE CancelCreated
  <2>0. UNCHANGED faultVars \/ CallSucceeds \/ AnswerLacksId \/ (\E b \in BOOLEAN : CallFails(b))
    BY <1>11 DEF CancelCreated, CancelRound
  <2>1. co.pc = "cancel" /\ UNCHANGED <<status, payment, invoice>>
    BY <1>11 DEF CancelCreated
  <2>2. PICK i \in co.todo : co' = [co EXCEPT !.todo = @ \ {i}]
    BY <1>11 DEF CancelCreated
  <2> QED
    BY <1>0, <1>n, <2>0, <2>1, <2>2, CallEffect DEF StagesInOrder, Checkout
<1>12. CASE MarkFailed
  <2>0. UNCHANGED faultVars \/ CallSucceeds \/ AnswerLacksId \/ (\E b \in BOOLEAN : CallFails(b))
    BY <1>12 DEF MarkFailed
  <2>1. co.pc = "cancel" /\ UNCHANGED <<payment, invoice>>
    BY <1>12 DEF MarkFailed
  <2>2. \/ status' = co.fail /\ co' = [co EXCEPT !.pc = "done", !.answer = "failed"]
        \/ status' = status /\ co' = [co EXCEPT !.pc = "done", !.answer = "error"]
    BY <1>12 DEF MarkFailed
  <2> QED
    BY <1>0, <1>n, <2>0, <2>1, <2>2, CallEffect DEF StagesInOrder, Checkout
<1> QED
  BY <1>1, <1>2, <1>3, <1>4, <1>5, <1>6, <1>7, <1>8, <1>9, <1>10, <1>11, <1>12
  DEF CheckoutStep

\* Nor does a cancellation or a crash disturb them.
LEMMA OtherStages ==
  ASSUME TypeOK, StagesInOrder, (\E c \in Cancellers : CancelStep(c)) \/ Crash
  PROVE  StagesInOrder'
<1> USE DEF Running, Unpaid
<1>1. CASE \E c \in Cancellers : CancelStep(c)
  <2>1. PICK c \in Cancellers : CancelStep(c)
    BY <1>1
  <2>2. /\ co' = co /\ invoice' = invoice
        /\ payment' = payment \/ (payment = "charged" /\ payment' = "refunded")
        /\ (lost => lost') /\ status' \in {status, "CANCELADA"}
    BY <2>1, CancelEffect
  <2>3. "CANCELADA" \notin Failed
    BY DEF Failed
  <2> QED
    BY <2>2, <2>3 DEF StagesInOrder
<1>2. CASE Crash
  <2>1. co \in Checkout
    BY DEF TypeOK
  <2>2. UNCHANGED <<status, payment, invoice, lost>>
    BY <1>2 DEF Crash, dbVars, remoteVars
  <2>3. co' = IF co.pc = "done" THEN co
              ELSE [co EXCEPT !.pc = "done", !.answer = "connectionLost"]
    BY <1>2 DEF Crash
  <2> QED
    BY <2>1, <2>2, <2>3 DEF StagesInOrder, Checkout
<1> QED
  BY <1>1, <1>2

-----------------------------------------------------------------------------
(* The cancellations. *)

\* A step of the checkout finds no cancellation that began after it, and moves
\* none.
LEMMA CheckoutCancellers ==
  TypeOK /\ CancellersInOrder /\ CheckoutStep => CancellersInOrder'
<1> SUFFICES ASSUME TypeOK, CancellersInOrder, CheckoutStep PROVE CancellersInOrder'
  OBVIOUS
<1>1. ca' = ca /\ co.pc # "done"
  BY DEF CheckoutStep, ReadCart, CheckAvailability, ConvertCart, CreateRemoteReservation,
         RecordRemoteReservation, ProcessPayment, IssueInvoice, ConfirmRemoteReservation,
         ConfirmReserva, TryRefundPayment, CancelCreated, MarkFailed
<1>2. \A c \in Cancellers : Late(c)' <=> Late(c)
  BY <1>1 DEF Late
<1>3. \A c \in Cancellers : ~Late(c)
  BY <1>1 DEF CancellersInOrder, CancellerInOrder
<1> QED
  BY <1>1, <1>2, <1>3 DEF CancellersInOrder, CancellerInOrder

\* A crash ends them all without an answer.
LEMMA CrashCancellers == TypeOK /\ CancellersInOrder /\ Crash => CancellersInOrder'
<1> SUFFICES ASSUME TypeOK, CancellersInOrder, Crash, NEW c \in Cancellers
             PROVE  CancellerInOrder(c)'
  BY DEF CancellersInOrder
<1>0. ca[c] \in Canceller /\ CancellerInOrder(c)
  BY DEF TypeOK, CancellersInOrder
<1>1. UNCHANGED <<status, idExterno, auditoria, remote, payment, faults>>
  BY DEF Crash, dbVars, remoteVars
<1>2. CASE ca[c].pc \in {"idle", "done"}
  <2>1. ca'[c] = ca[c] /\ (co.pc = "done" => co' = co)
    BY <1>2 DEF Crash
  <2> QED
    BY <1>0, <1>1, <2>1 DEF CancellerInOrder, Late
<1>3. CASE ca[c].pc \notin {"idle", "done"}
  <2>1. ca'[c] = [ca[c] EXCEPT !.pc = "done", !.answer = "connectionLost"]
    BY <1>3 DEF Crash
  <2> QED
    BY <1>0, <2>1 DEF CancellerInOrder, Late, Canceller
<1> QED
  BY <1>2, <1>3

\* What one cancellation does leaves the other ones in order.
LEMMA OtherCancellers ==
  ASSUME TypeOK, CancellersInOrder, NEW c \in Cancellers, CancelStep(c),
         NEW d \in Cancellers, d # c
  PROVE  CancellerInOrder(d)'
<1>1. /\ UNCHANGED <<co, idExterno>> /\ ca'[d] = ca[d]
      /\ payment' = "charged" => payment = "charged"
      /\ auditoria \subseteq auditoria' /\ status' \in {status, "CANCELADA"}
      /\ \A i \in Items : remote'[i] \in {remote[i], "cancelled"}
      /\ faults' \in Nat /\ faults' >= faults
  BY CancelEffect
<1>2. CancellerInOrder(d) /\ idExterno \subseteq Items /\ faults \in Nat
  BY FaultsAssumption DEF TypeOK, CancellersInOrder
<1>3. faults' = 0 => faults = 0
  BY <1>1, <1>2
<1>4. Late(d)' <=> Late(d)
  BY <1>1 DEF Late
<1> QED
  BY <1>1, <1>2, <1>3, <1>4 DEF CancellerInOrder

\* And it keeps to its own order.
LEMMA OwnCanceller ==
  ASSUME TypeOK, CancellersInOrder, NEW c \in Cancellers, CancelStep(c)
  PROVE  CancellerInOrder(c)'
<1> USE DEF dbVars, remoteVars, faultVars
<1>0. ca \in [Cancellers -> Canceller] /\ ca[c] \in Canceller /\ CancellerInOrder(c)
  BY DEF TypeOK, CancellersInOrder
<1>e. /\ UNCHANGED <<co, idExterno>>
      /\ payment' = "charged" => payment = "charged"
      /\ auditoria \subseteq auditoria' /\ status' \in {status, "CANCELADA"}
      /\ \A i \in Items : remote'[i] \in {remote[i], "cancelled"}
      /\ faults' \in Nat /\ faults' >= faults
  BY CancelEffect
<1>t. idExterno \subseteq Items /\ faults \in Nat
  BY FaultsAssumption DEF TypeOK
<1>z. faults' = 0 => faults = 0
  BY <1>e, <1>t
<1>1. CASE CancelRead(c)
  <2>1. ca'[c] = IF status = "CANCELADA"
                   THEN [ca[c] EXCEPT !.pc = "done", !.answer = "rejected"]
                   ELSE [ca[c] EXCEPT !.pc = "list", !.during = co.pc # "done"]
    BY <1>0, <1>1 DEF CancelRead
  <2>2. ca[c].pc = "idle" /\ ca[c].answer = "none"
    BY <1>0, <1>1 DEF CancelRead, CancellerInOrder
  <2> QED
    BY <1>0, <1>1, <1>e, <2>1, <2>2 DEF CancelRead, CancellerInOrder, Late, Canceller
<1>2. CASE CancelList(c)
  <2>1. ca'[c] = [ca[c] EXCEPT !.pc = "cancel", !.todo = idExterno] /\ ca[c].pc = "list"
    BY <1>0, <1>2 DEF CancelList
  <2>2. Late(c)' => Late(c)
    BY <1>0, <2>1 DEF Late, Canceller
  <2> QED
    BY <1>0, <1>e, <2>1, <2>2 DEF CancellerInOrder, Canceller, Late
<1>3. CASE CancelOne(c)
  <2>1. PICK i \in ca[c].todo : CancelRound(i) /\ ca' = [ca EXCEPT ![c].todo = @ \ {i}]
    BY <1>3 DEF CancelOne
  <2>2. i \in Items /\ ca[c].pc = "cancel"
    BY <1>0, <1>3 DEF Canceller, CancelOne
  <2>3. ca'[c] = [ca[c] EXCEPT !.todo = ca[c].todo \ {i}]
    BY <1>0, <2>1
  <2>4. faults' = 0 => remote'[i] = "cancelled"
    BY <2>1, <2>2, RoundEffect
  <2>5. Late(c)' <=> Late(c)
    BY <1>0, <2>3 DEF Late, Canceller
  <2>6. ca[c].answer = "none"
    BY <1>0, <2>2 DEF CancellerInOrder
  <2>7. /\ ca'[c].pc = "cancel" /\ ca'[c].answer = "none"
        /\ ca'[c].todo = ca[c].todo \ {i}
    BY <1>0, <2>2, <2>3, <2>6 DEF Canceller
  <2>8. Late(c) /\ faults' = 0 => \A j \in idExterno \ ca'[c].todo : remote'[j] = "cancelled"
    BY <1>0, <1>e, <1>t, <1>z, <2>2, <2>4, <2>7 DEF CancellerInOrder
  <2> QED
    BY <1>0, <1>e, <2>5, <2>7, <2>8 DEF CancellerInOrder
<1>4. CASE LookupPayment(c)
  <2>0. /\ ca[c].pc = "cancel" /\ ca[c].todo = {} /\ ca[c].answer = "none"
        /\ UNCHANGED <<remote, payment, auditoria>>
    BY <1>0, <1>4 DEF LookupPayment, CancellerInOrder
  <2>1. CASE \E answer \in PaymentAnswers : Told(c, answer)
    <3>1. PICK answer \in PaymentAnswers : Told(c, answer)
      BY <2>1
    <3> DEFINE unseen == answer = "null" /\ payment # "none"
    <3>2. ca'[c] = [ca[c] EXCEPT !.pc = IF answer = "null" THEN "mark" ELSE "refund",
                                 !.unseen = unseen]
      BY <1>0, <3>1 DEF Told
    <3>3. /\ ca'[c].pc \in {"mark", "refund"} /\ ca'[c].answer = "none"
          /\ ca'[c].todo = {} /\ ca'[c].during = ca[c].during
          /\ ca'[c].pc = "mark" /\ ~ca'[c].unseen => payment = "none"
      BY <1>0, <2>0, <3>2 DEF Canceller
    <3>4. Late(c)' => Late(c)
      BY <2>0, <3>3 DEF Late
    <3> QED
      BY <1>0, <1>e, <1>z, <2>0, <3>3, <3>4 DEF CancellerInOrder
  <2>2. CASE AuditNext(c, "REFUND_RECONCILIATION_NEEDED")
    <3>1. /\ ca'[c].pc = "audit" /\ ca'[c].answer = "none" /\ ca'[c].todo = {}
          /\ ca'[c].during = ca[c].during /\ ca'[c].audit # "NONE"
      BY <1>0, <2>0, <2>2 DEF AuditNext, Canceller
    <3>2. Late(c)' => Late(c)
      BY <2>0, <3>1 DEF Late
    <3> QED
      BY <1>0, <1>e, <1>z, <2>0, <3>1, <3>2 DEF CancellerInOrder
  <2> QED
    BY <1>4, <2>1, <2>2 DEF LookupPayment
<1>5. CASE RefundByData(c)
  <2>0. /\ ca[c].pc = "refund" /\ ca[c].todo = {} /\ ca[c].answer = "none"
        /\ UNCHANGED <<remote, auditoria>>
    BY <1>0, <1>5 DEF RefundByData, CancellerInOrder
  <2>1. CASE Goto(c, "mark") /\ payment' = "refunded"
    <3>1. /\ ca'[c].pc = "mark" /\ ca'[c].answer = "none" /\ ca'[c].todo = {}
          /\ ca'[c].during = ca[c].during
      BY <1>0, <2>0, <2>1 DEF Goto, Canceller
    <3>2. Late(c)' => Late(c)
      BY <2>0, <3>1 DEF Late
    <3> QED
      BY <1>0, <1>e, <1>z, <2>0, <2>1, <3>1, <3>2 DEF CancellerInOrder
  <2>2. CASE \E kind \in CancelAudits : AuditNext(c, kind)
    <3>1. PICK kind \in CancelAudits : AuditNext(c, kind)
      BY <2>2
    <3>2. /\ ca'[c].pc = "audit" /\ ca'[c].answer = "none" /\ ca'[c].todo = {}
          /\ ca'[c].during = ca[c].during /\ ca'[c].audit # "NONE"
      BY <1>0, <2>0, <3>1 DEF AuditNext, Canceller, CancelAudits
    <3>3. Late(c)' => Late(c)
      BY <2>0, <3>2 DEF Late
    <3> QED
      BY <1>0, <1>e, <1>z, <2>0, <3>2, <3>3 DEF CancellerInOrder
  <2> QED
    BY <1>5, <2>1, <2>2 DEF RefundByData, CancelAudits, Refund
<1>6. CASE WriteAudit(c)
  <2>0. /\ ca[c].pc = "audit" /\ ca[c].todo = {} /\ ca[c].answer = "none"
        /\ UNCHANGED <<remote, payment>>
    BY <1>0, <1>6 DEF WriteAudit, CancellerInOrder
  <2>1. CASE Goto(c, "mark") /\ auditoria' # {}
    <3>1. /\ ca'[c].pc = "mark" /\ ca'[c].answer = "none" /\ ca'[c].todo = {}
          /\ ca'[c].during = ca[c].during
      BY <1>0, <2>0, <2>1 DEF Goto, Canceller
    <3>2. Late(c)' => Late(c)
      BY <2>0, <3>1 DEF Late
    <3> QED
      BY <1>0, <1>e, <1>z, <2>0, <2>1, <3>1, <3>2 DEF CancellerInOrder
  <2>2. CASE \E kind \in CancelAudits : AuditNext(c, kind)
    <3>1. PICK kind \in CancelAudits : AuditNext(c, kind)
      BY <2>2
    <3>2. /\ ca'[c].pc = "audit" /\ ca'[c].answer = "none" /\ ca'[c].todo = {}
          /\ ca'[c].during = ca[c].during /\ ca'[c].audit # "NONE"
      BY <1>0, <2>0, <3>1 DEF AuditNext, Canceller, CancelAudits
    <3>3. Late(c)' => Late(c)
      BY <2>0, <3>2 DEF Late
    <3> QED
      BY <1>0, <1>e, <1>z, <2>0, <3>2, <3>3 DEF CancellerInOrder
  <2>3. CASE ca' = [ca EXCEPT ![c].pc = "done", ![c].answer = "error"]
    <3>1. ca'[c].pc = "done" /\ ca'[c].answer = "error"
      BY <1>0, <2>3 DEF Canceller
    <3> QED
      BY <3>1 DEF CancellerInOrder, Late
  <2> QED
    BY <1>6, <2>1, <2>2, <2>3 DEF WriteAudit, CancelAudits
<1>7. CASE MarkCancelled(c)
  <2>0. /\ ca[c].pc = "mark" /\ ca[c].todo = {} /\ ca[c].answer = "none"
        /\ UNCHANGED <<remote, payment, auditoria>>
    BY <1>0, <1>7 DEF MarkCancelled, CancellerInOrder
  <2>1. PICK answer \in {"ok", "error"} :
          /\ ca' = [ca EXCEPT ![c].pc = "done", ![c].answer = answer]
          /\ answer = "ok" => status' = "CANCELADA"
    BY <1>7 DEF MarkCancelled
  <2>2. /\ ca'[c].pc = "done" /\ ca'[c].answer = answer /\ ca'[c].todo = {}
        /\ ca'[c].during = ca[c].during /\ ca'[c].unseen = ca[c].unseen
    BY <1>0, <2>0, <2>1 DEF Canceller
  <2>3. Late(c)' => Late(c)
    BY <2>0, <2>2 DEF Late
  <2> QED
    BY <1>0, <1>e, <1>z, <2>0, <2>1, <2>2, <2>3 DEF CancellerInOrder, Late
<1> QED
  BY <1>1, <1>2, <1>3, <1>4, <1>5, <1>6, <1>7 DEF CancelStep

-----------------------------------------------------------------------------
(* The checkout and the providers, as long as nobody cancels. *)

\* A step of the checkout keeps its lists and the reservations in order.
LEMMA CheckoutItems ==
  TypeOK /\ StagesInOrder /\ ItemsInOrder /\ CheckoutStep => ItemsInOrder'
<1> SUFFICES ASSUME TypeOK, StagesInOrder, ItemsInOrder, CheckoutStep, NoCancelBegan'
             PROVE  ItemsInOrder'
  BY DEF ItemsInOrder
<1> USE DEF dbVars, remoteVars, faultVars
<1>0. co \in Checkout /\ N \in Nat \ {0} /\ NoCancelBegan
  <2>1. ca' = ca
    BY DEF CheckoutStep, ReadCart, CheckAvailability, ConvertCart, CreateRemoteReservation,
         RecordRemoteReservation, ProcessPayment, IssueInvoice, ConfirmRemoteReservation,
         ConfirmReserva, TryRefundPayment, CancelCreated, MarkFailed
  <2> QED
    BY <2>1, NAssumption DEF TypeOK, NoCancelBegan
<1>c. \A step \in {6, 7, 8, 9} :
        /\ Compensate(co, step).pc \in {"refund", "cancel"}
        /\ Compensate(co, step).answer = co.answer
  <2> SUFFICES ASSUME NEW step \in {6, 7, 8, 9}
               PROVE  /\ Compensate(co, step).pc \in {"refund", "cancel"}
                      /\ Compensate(co, step).answer = co.answer
    OBVIOUS
  <2>1. Compensate(co, step).pc = IF step \in {8, 9} THEN "refund" ELSE "cancel"
    BY <1>0, CompensateRow
  <2>2. Compensate(co, step).answer = co.answer
    BY <1>0, CompensateRow
  <2> HIDE DEF Compensate
  <2> QED
    BY <2>1, <2>2
<1>n. co.pc # "done" => co.answer = "none"
  BY DEF StagesInOrder
<1>o. CASE co'.pc \in {"refund", "cancel"} /\ co'.answer = "none"
  BY <1>o DEF ItemsInOrder
<1>d. CASE co'.pc = "done" /\ co'.answer # "ok"
  BY <1>d DEF ItemsInOrder
<1>1. CASE ReadCart
  <2>1. co.pc = "cart" /\ UNCHANGED <<idExterno, remote>>
    BY <1>1 DEF ReadCart
  <2>2. CASE co' = [co EXCEPT !.pc = "availability"]
    BY <1>0, <1>n, <2>1, <2>2 DEF ItemsInOrder, Checkout
  <2>3. CASE co' = [co EXCEPT !.pc = "done", !.answer = "rejected"]
    BY <1>0, <1>d, <2>3 DEF Checkout
  <2> QED
    BY <1>1, <2>2, <2>3 DEF ReadCart
<1>2. CASE CheckAvailability
  <2>1. co.pc = "availability" /\ UNCHANGED <<idExterno, remote>>
    BY <1>2 DEF CheckAvailability
  <2>2. CASE co' = [co EXCEPT !.pc = "convert"]
    BY <1>0, <1>n, <2>1, <2>2 DEF ItemsInOrder, Checkout
  <2>3. CASE co' \in {[co EXCEPT !.pc = "done", !.answer = "unavailable"],
                      [co EXCEPT !.pc = "done", !.answer = "error"]}
    BY <1>0, <1>d, <2>3 DEF Checkout
  <2> QED
    BY <1>2, <2>2, <2>3 DEF CheckAvailability
<1>3. CASE ConvertCart
  <2>1. co.pc = "convert" /\ UNCHANGED <<idExterno, remote>>
    BY <1>3 DEF ConvertCart
  <2>2. CASE co' = [co EXCEPT !.pc = "create"]
    <3>1. /\ co'.pc = "create" /\ co'.k = 1 /\ co'.created = {} /\ co'.confirmed = {}
          /\ co'.answer = "none" /\ idExterno = {} /\ \A i \in Items : remote[i] = "none"
      BY <1>0, <1>n, <2>1, <2>2 DEF ItemsInOrder, Checkout
    <3>2. 1 \in Items /\ \A i \in Items : ~(i < 1)
      BY <1>0 DEF Items
    <3> QED
      BY <2>1, <3>1, <3>2 DEF ItemsInOrder
  <2>3. CASE co' = [co EXCEPT !.pc = "done", !.answer = "error"]
    BY <1>0, <1>d, <2>3 DEF Checkout
  <2> QED
    BY <1>3, <2>2, <2>3 DEF ConvertCart
<1>4. CASE CreateRemoteReservation
  <2>1. co.pc = "create" /\ UNCHANGED idExterno
    BY <1>4 DEF CreateRemoteReservation
  <2>2. CASE co' = Compensate(co, 6)
    BY <1>c, <1>n, <1>o, <2>1, <2>2
  <2>3. CASE CreateRemote(co.k) /\ co' = [co EXCEPT !.pc = "record"]
    <3>1. /\ co'.pc = "record" /\ co'.k = co.k /\ co'.created = co.created
          /\ co'.confirmed = co.confirmed /\ co'.answer = "none"
      BY <1>0, <1>n, <2>1, <2>3 DEF Checkout
    <3>2. \A i \in Items : remote'[i] = IF i = co.k THEN "created" ELSE remote[i]
      BY <2>3 DEF CreateRemote, TypeOK
    <3> QED
      BY <1>0, <2>1, <3>1, <3>2 DEF ItemsInOrder, Items
  <2> QED
    BY <1>4, <2>2, <2>3 DEF CreateRemoteReservation
<1>5. CASE RecordRemoteReservation
  <2>1. co.pc = "record" /\ UNCHANGED remote
    BY <1>5 DEF RecordRemoteReservation
  <2>2. CASE co' = Compensate(co, 6)
    BY <1>c, <1>n, <1>o, <2>1, <2>2
  <2>3. CASE /\ idExterno' = idExterno \cup {co.k}
             /\ LET row == [co EXCEPT !.created = @ \cup {co.k}, !.k = @ + 1]
                IN  co' = IF row.k > N THEN [row EXCEPT !.pc = "pay"]
                                       ELSE [row EXCEPT !.pc = "create"]
    <3>1. /\ co'.pc = IF co.k + 1 > N THEN "pay" ELSE "create"
          /\ co'.k = co.k + 1 /\ co'.created = co.created \cup {co.k}
          /\ co'.confirmed = co.confirmed /\ co'.answer = "none"
      BY <1>0, <1>n, <2>1, <2>3 DEF Checkout
    <3>2. /\ co.k \in Items /\ co.created = {i \in Items : i < co.k}
          /\ idExterno = co.created /\ co.confirmed = {}
          /\ \A i \in Items : remote[i] = IF i < co.k \/ i = co.k THEN "created" ELSE "none"
      BY <1>0, <2>1 DEF ItemsInOrder
    <3>3. co'.created = {i \in Items : i < co.k + 1} /\ idExterno' = co'.created
      BY <2>3, <3>1, <3>2 DEF Items
    <3>4. \A i \in Items : remote'[i] = IF i < co.k + 1 THEN "created" ELSE "none"
      BY <2>1, <3>2 DEF Items
    <3>5. CASE co.k + 1 > N
      <4>1. \A i \in Items : i < co.k + 1
        BY <1>0, <3>2, <3>5 DEF Items
      <4>2. co'.created = Items
        BY <3>3, <4>1
      <4> QED
        BY <3>1, <3>2, <3>3, <3>4, <3>5, <4>1, <4>2 DEF ItemsInOrder
    <3>6. CASE ~(co.k + 1 > N)
      <4>1. co.k + 1 \in Items
        BY <1>0, <3>2, <3>6 DEF Items
      <4> QED
        BY <3>1, <3>2, <3>3, <3>4, <3>6, <4>1 DEF ItemsInOrder
    <3> QED
      BY <3>5, <3>6
  <2> QED
    BY <1>5, <2>2, <2>3 DEF RecordRemoteReservation
<1>6. CASE ProcessPayment
  <2>1. co.pc = "pay" /\ UNCHANGED <<idExterno, remote>>
    BY <1>6 DEF ProcessPayment
  <2>2. CASE co' = Compensate(co, 7)
    BY <1>c, <1>n, <1>o, <2>1, <2>2
  <2>3. CASE /\ payment' = "charged"
             /\ co' \in {[co EXCEPT !.pc = "invoice", !.idPago = TRUE],
                         [co EXCEPT !.pc = "invoice"]}
    <3>1. /\ co'.pc = "invoice" /\ co'.created = co.created
          /\ co'.confirmed = co.confirmed /\ co'.answer = "none"
      BY <1>0, <1>n, <2>1, <2>3 DEF Checkout
    <3> QED
      BY <1>0, <2>1, <2>3, <3>1 DEF ItemsInOrder
  <2> QED
    BY <1>6, <2>2, <2>3 DEF ProcessPayment, Charge
<1>7. CASE IssueInvoice
  <2>1. co.pc = "invoice" /\ UNCHANGED <<idExterno, remote, payment>>
    BY <1>7 DEF IssueInvoice
  <2>2. CASE co' = Compensate(co, 8)
    BY <1>c, <1>n, <1>o, <2>1, <2>2
  <2>3. CASE co' = [co EXCEPT !.pc = "confirm", !.k = 1]
    <3>1. /\ co'.pc = "confirm" /\ co'.k = 1 /\ co'.created = co.created
          /\ co'.confirmed = co.confirmed /\ co'.answer = "none"
      BY <1>0, <1>n, <2>1, <2>3 DEF Checkout
    <3>2. 1 \in Items /\ \A i \in Items : ~(i < 1)
      BY <1>0 DEF Items
    <3> QED
      BY <1>0, <2>1, <3>1, <3>2 DEF ItemsInOrder
  <2> QED
    BY <1>7, <2>2, <2>3 DEF IssueInvoice
<1>8. CASE ConfirmRemoteReservation
  <2>1. co.pc = "confirm" /\ UNCHANGED <<idExterno, payment>>
    BY <1>8 DEF ConfirmRemoteReservation
  <2>2. CASE co' = Compensate(co, 9)
    BY <1>c, <1>n, <1>o, <2>1, <2>2
  <2>3. CASE /\ ConfirmRemote(co.k)
             /\ LET row == [co EXCEPT !.confirmed = @ \cup {co.k}, !.k = @ + 1]
                IN  co' = IF row.k > N THEN [row EXCEPT !.pc = "finish"] ELSE row
    <3>1. /\ co'.pc = IF co.k + 1 > N THEN "finish" ELSE "confirm"
          /\ co'.k = co.k + 1 /\ co'.confirmed = co.confirmed \cup {co.k}
          /\ co'.answer = "none"
      BY <1>0, <1>n, <2>1, <2>3 DEF Checkout
    <3>2. /\ co.k \in Items /\ idExterno = Items /\ payment = "charged"
          /\ co.confirmed = {i \in Items : i < co.k}
          /\ \A i \in Items : remote[i] = IF i < co.k THEN "confirmed" ELSE "created"
      BY <1>0, <2>1 DEF ItemsInOrder
    <3>3. \A i \in Items : remote'[i] = IF i = co.k THEN "confirmed" ELSE remote[i]
      BY <2>3, <3>2 DEF ConfirmRemote, TypeOK
    <3>4. /\ co'.confirmed = {i \in Items : i < co.k + 1}
          /\ \A i \in Items : remote'[i] = IF i < co.k + 1 THEN "confirmed" ELSE "created"
      BY <3>1, <3>2, <3>3 DEF Items
    <3>5. CASE co.k + 1 > N
      <4>1. \A i \in Items : i < co.k + 1
        BY <1>0, <3>2, <3>5 DEF Items
      <4> QED
        BY <2>1, <3>1, <3>2, <3>4, <3>5, <4>1 DEF ItemsInOrder
    <3>6. CASE ~(co.k + 1 > N)
      <4>1. co.k + 1 \in Items
        BY <1>0, <3>2, <3>6 DEF Items
      <4> QED
        BY <2>1, <3>1, <3>2, <3>4, <3>6, <4>1 DEF ItemsInOrder
    <3> QED
      BY <3>5, <3>6
  <2> QED
    BY <1>8, <2>2, <2>3 DEF ConfirmRemoteReservation
<1>9. CASE ConfirmReserva
  <2>1. co.pc = "finish" /\ UNCHANGED <<idExterno, remote, payment, invoice>>
    BY <1>9 DEF ConfirmReserva
  <2>2. CASE co' = [co EXCEPT !.pc = "done", !.answer = "error"]
    BY <1>0, <1>d, <2>2 DEF Checkout
  <2>3. CASE co' = [co EXCEPT !.pc = "done", !.answer = "ok"] /\ status' = "CONFIRMADA"
    <3>1. co'.pc = "done" /\ invoice = "issued"
      BY <1>0, <2>1, <2>3 DEF Checkout, StagesInOrder
    <3> QED
      BY <1>0, <2>1, <2>3, <3>1 DEF ItemsInOrder
  <2> QED
    BY <1>9, <2>2, <2>3 DEF ConfirmReserva
<1>10. CASE TryRefundPayment
  <2>1. co.pc = "refund"
    BY <1>10 DEF TryRefundPayment
  <2>2. CASE co' = [co EXCEPT !.pc = "done", !.answer = "error"]
    BY <1>0, <1>d, <2>2 DEF Checkout
  <2>3. CASE co' = [co EXCEPT !.pc = "cancel"]
    BY <1>0, <1>n, <1>o, <2>1, <2>3 DEF Checkout
  <2> QED
    BY <1>10, <2>2, <2>3 DEF TryRefundPayment
<1>11. CASE CancelCreated
  <2>1. co.pc = "cancel"
    BY <1>11 DEF CancelCreated
  <2>2. PICK i \in co.todo : co' = [co EXCEPT !.todo = @ \ {i}]
    BY <1>11 DEF CancelCreated
  <2> QED
    BY <1>0, <1>n, <1>o, <2>1, <2>2 DEF Checkout
<1>12. CASE MarkFailed
  BY <1>0, <1>d, <1>12 DEF MarkFailed, Checkout
<1> QED
  BY <1>1, <1>2, <1>3, <1>4, <1>5, <1>6, <1>7, <1>8, <1>9, <1>10, <1>11, <1>12
  DEF CheckoutStep

\* A cancellation ends the premise; a crash ends the checkout.
LEMMA OtherItems ==
  ASSUME TypeOK, StagesInOrder, ItemsInOrder, FaultsInOrder,
         (\E c \in Cancellers : CancelStep(c)) \/ Crash
  PROVE  ItemsInOrder' /\ FaultsInOrder'
<1>1. CASE \E c \in Cancellers : CancelStep(c)
  <2>1. PICK c \in Cancellers : ca'[c].pc # "idle"
    BY <1>1, CancelEffect
  <2> QED
    BY <2>1 DEF ItemsInOrder, FaultsInOrder, NoCancelBegan
<1>2. CASE Crash
  <2>0. co \in Checkout
    BY DEF TypeOK
  <2>1. UNCHANGED <<status, idExterno, auditoria, remote, payment, invoice, faults, lost>>
    BY <1>2 DEF Crash, dbVars, remoteVars
  <2>2. co' = IF co.pc = "done" THEN co
              ELSE [co EXCEPT !.pc = "done", !.answer = "connectionLost"]
    BY <1>2 DEF Crash
  <2>3. CASE co.pc # "done"
    <3>1. co'.pc = "done" /\ co'.answer = "connectionLost"
      BY <2>0, <2>2, <2>3 DEF Checkout
    <3> QED
      BY <3>1 DEF ItemsInOrder, FaultsInOrder, Running, Unpaid
  <2>4. CASE co.pc = "done"
    <3>1. co' = co
      BY <2>2, <2>4
    <3>2. NoCancelBegan' => NoCancelBegan
      <4>1. \A c \in Cancellers : ca[c] \in Canceller
        BY DEF TypeOK
      <4>2. \A c \in Cancellers : ca'[c].pc = "idle" => ca[c].pc = "idle"
        BY <1>2, <4>1 DEF Crash, Canceller
      <4> QED
        BY <4>2 DEF NoCancelBegan
    <3> QED
      BY <2>1, <3>1, <3>2 DEF ItemsInOrder, FaultsInOrder
  <2> QED
    BY <2>3, <2>4
<1> QED
  BY <1>1, <1>2

\* A step of the checkout keeps account of the first failing call.
LEMMA CheckoutFaults ==
  TypeOK /\ StagesInOrder /\ ItemsInOrder /\ FaultsInOrder /\ CheckoutStep => FaultsInOrder'
<1> SUFFICES ASSUME TypeOK, StagesInOrder, ItemsInOrder, FaultsInOrder, CheckoutStep,
                    NoCancelBegan', ~lost'
             PROVE  FaultsInOrder'
  BY DEF FaultsInOrder
<1> USE DEF dbVars, remoteVars, faultVars
<1>0. /\ co \in Checkout /\ N \in Nat \ {0} /\ NoCancelBegan /\ faults \in Nat
      /\ remote \in [Items -> {"none", "created", "confirmed", "cancelled"}]
  <2>1. ca' = ca
    BY DEF CheckoutStep, ReadCart, CheckAvailability, ConvertCart, CreateRemoteReservation,
         RecordRemoteReservation, ProcessPayment, IssueInvoice, ConfirmRemoteReservation,
         ConfirmReserva, TryRefundPayment, CancelCreated, MarkFailed
  <2> QED
    BY <2>1, NAssumption, FaultsAssumption DEF TypeOK, NoCancelBegan
<1>c. \A step \in {6, 7, 8, 9} :
        /\ Compensate(co, step).pc = IF step \in {8, 9} THEN "refund" ELSE "cancel"
        /\ Compensate(co, step).todo = IF step = 9 THEN co.confirmed ELSE co.created
        /\ Compensate(co, step).fail = FailStatus(step)
        /\ Compensate(co, step).answer = co.answer
        /\ Compensate(co, step).idPago = co.idPago
  BY <1>0, CompensateRow
<1>s. FailStatus(6) = "FALLIDA_PROVEEDOR" /\ FailStatus(7) = "FALLIDA_PAGO"
      /\ FailStatus(8) = "FALLIDA_FACTURACION" /\ FailStatus(9) = "FALLIDA_CONFIRMACION"
  BY FailStatuses
<1>n. co.pc # "done" => co.answer = "none"
  BY DEF StagesInOrder
<1>m. /\ UNCHANGED faultVars \/ CallSucceeds \/ AnswerLacksId \/ (\E b \in BOOLEAN : CallFails(b))
  BY DEF CheckoutStep, ReadCart, CheckAvailability, ConvertCart, CreateRemoteReservation,
         RecordRemoteReservation, ProcessPayment, IssueInvoice, ConfirmRemoteReservation,
         ConfirmReserva, TryRefundPayment, CancelCreated, MarkFailed, CancelRound
<1>l. ~lost
  BY <1>m, CallEffect
<1>f. ~CallFails(TRUE) /\ (CallFails(FALSE) => faults' = faults + 1)
  BY DEF CallFails
<1>a. ~AnswerLacksId
  BY DEF AnswerLacksId
<1> USE DEF Running, Unpaid
\* Going on: nothing has failed so far.
<1>r. ASSUME co'.pc \in Running, co'.answer = "none", faults' = 0,
             co'.pc \in {"invoice", "confirm", "finish"} => co'.idPago
      PROVE  FaultsInOrder'
  BY <1>r DEF FaultsInOrder
\* Ending without having failed the reserva.
<1>d. ASSUME co'.pc = "done", co'.answer # "failed"
      PROVE  FaultsInOrder'
  BY <1>d DEF FaultsInOrder
<1>1. CASE ReadCart
  <2>1. co.pc = "cart" /\ UNCHANGED faults
    BY <1>1 DEF ReadCart
  <2>2. faults = 0
    BY <1>0, <1>l, <2>1 DEF FaultsInOrder
  <2>3. CASE co' = [co EXCEPT !.pc = "availability"]
    BY <1>0, <1>n, <1>r, <2>1, <2>2, <2>3 DEF Checkout
  <2>4. CASE co' = [co EXCEPT !.pc = "done", !.answer = "rejected"]
    BY <1>0, <1>d, <2>4 DEF Checkout
  <2> QED
    BY <1>1, <2>3, <2>4 DEF ReadCart
<1>2. CASE CheckAvailability
  <2>1. co.pc = "availability"
    BY <1>2 DEF CheckAvailability
  <2>2. faults = 0
    BY <1>0, <1>l, <2>1 DEF FaultsInOrder
  <2>3. CASE CallSucceeds /\ co' = [co EXCEPT !.pc = "convert"]
    BY <1>0, <1>n, <1>r, <2>1, <2>2, <2>3 DEF Checkout, CallSucceeds
  <2>4. CASE co' \in {[co EXCEPT !.pc = "done", !.answer = "unavailable"],
                      [co EXCEPT !.pc = "done", !.answer = "error"]}
    BY <1>0, <1>d, <2>4 DEF Checkout
  <2> QED
    BY <1>2, <2>3, <2>4 DEF CheckAvailability
<1>3. CASE ConvertCart
  <2>1. co.pc = "convert"
    BY <1>3 DEF ConvertCart
  <2>2. faults = 0
    BY <1>0, <1>l, <2>1 DEF FaultsInOrder
  <2>3. CASE CallSucceeds /\ co' = [co EXCEPT !.pc = "create"]
    BY <1>0, <1>n, <1>r, <2>1, <2>2, <2>3 DEF Checkout, CallSucceeds
  <2>4. CASE co' = [co EXCEPT !.pc = "done", !.answer = "error"]
    BY <1>0, <1>d, <2>4 DEF Checkout
  <2> QED
    BY <1>3, <2>3, <2>4 DEF ConvertCart
<1>4. CASE CreateRemoteReservation
  <2>1. co.pc = "create" /\ UNCHANGED payment
    BY <1>4 DEF CreateRemoteReservation
  <2>2. faults = 0 /\ payment = "none"
    BY <1>0, <1>l, <2>1 DEF FaultsInOrder, StagesInOrder
  <2>3. CASE CallSucceeds /\ co' = [co EXCEPT !.pc = "record"]
    BY <1>0, <1>n, <1>r, <2>1, <2>2, <2>3 DEF Checkout, CallSucceeds
  <2>4. CASE CallFails(FALSE) /\ UNCHANGED remote /\ co' = Compensate(co, 6)
    <3>1. /\ co'.pc = "cancel" /\ co'.todo = co.created /\ co'.answer = "none"
          /\ faults' = 1
      BY <1>c, <1>f, <1>n, <2>1, <2>2, <2>4
    <3>2. /\ co.created = {i \in Items : i < co.k} /\ co.k \in Items
          /\ \A i \in Items : remote[i] = IF i < co.k THEN "created" ELSE "none"
      BY <1>0, <2>1 DEF ItemsInOrder, Items
    <3>3. \A i \in Items \ co'.todo : remote'[i] = "none"
      BY <2>4, <3>1, <3>2
    <3> QED
      BY <2>1, <2>2, <3>1, <3>3 DEF FaultsInOrder
  <2> QED
    BY <1>4, <1>a, <1>f, <2>3, <2>4 DEF CreateRemoteReservation
<1>5. CASE RecordRemoteReservation
  <2>1. co.pc = "record"
    BY <1>5 DEF RecordRemoteReservation
  <2>2. faults = 0
    BY <1>0, <1>l, <2>1 DEF FaultsInOrder
  <2>3. CASE /\ CallSucceeds
             /\ LET row == [co EXCEPT !.created = @ \cup {co.k}, !.k = @ + 1]
                IN  co' = IF row.k > N THEN [row EXCEPT !.pc = "pay"]
                                       ELSE [row EXCEPT !.pc = "create"]
    <3>1. co'.pc \in {"pay", "create"} /\ co'.answer = "none"
      BY <1>0, <1>n, <2>1, <2>3 DEF Checkout
    <3> QED
      BY <1>r, <2>2, <2>3, <3>1 DEF CallSucceeds
  <2> QED
    BY <1>5, <1>f, <2>3 DEF RecordRemoteReservation
<1>6. CASE ProcessPayment
  <2>1. co.pc = "pay" /\ UNCHANGED remote
    BY <1>6 DEF ProcessPayment
  <2>2. faults = 0 /\ payment = "none"
    BY <1>0, <1>l, <2>1 DEF FaultsInOrder, StagesInOrder
  <2>3. CASE CallSucceeds /\ co' = [co EXCEPT !.pc = "invoice", !.idPago = TRUE]
    BY <1>0, <1>n, <1>r, <2>1, <2>2, <2>3 DEF Checkout, CallSucceeds
  <2>4. CASE CallFails(FALSE) /\ UNCHANGED payment /\ co' = Compensate(co, 7)
    <3>1. /\ co'.pc = "cancel" /\ co'.todo = co.created /\ co'.answer = "none"
      BY <1>c, <1>n, <2>1, <2>4
    <3>2. co.created = Items /\ faults' >= 1
      BY <1>0, <1>f, <2>1, <2>2, <2>4 DEF ItemsInOrder
    <3> QED
      BY <2>2, <2>4, <3>1, <3>2 DEF FaultsInOrder
  <2> QED
    BY <1>6, <1>a, <1>f, <2>3, <2>4 DEF ProcessPayment
<1>7. CASE IssueInvoice
  <2>1. co.pc = "invoice" /\ UNCHANGED remote
    BY <1>7 DEF IssueInvoice
  <2>2. faults = 0 /\ co.idPago
    BY <1>0, <1>l, <2>1 DEF FaultsInOrder
  <2>3. CASE CallSucceeds /\ co' = [co EXCEPT !.pc = "confirm", !.k = 1]
    BY <1>0, <1>n, <1>r, <2>1, <2>2, <2>3 DEF Checkout, CallSucceeds
  <2>4. CASE CallFails(FALSE) /\ co' = Compensate(co, 8)
    <3>1. co'.pc = "refund" /\ co'.answer = "none"
      BY <1>c, <1>n, <2>1, <2>4
    <3>2. co'.todo = co.created /\ co'.idPago = co.idPago
      BY <1>c, <2>4
    <3>3. co.created = Items /\ faults' >= 1
      BY <1>0, <1>f, <2>1, <2>2, <2>4 DEF ItemsInOrder
    <3> QED
      BY <2>2, <3>1, <3>2, <3>3 DEF FaultsInOrder
  <2> QED
    BY <1>7, <1>f, <2>2, <2>3, <2>4 DEF IssueInvoice
<1>8. CASE ConfirmRemoteReservation
  <2>1. co.pc = "confirm"
    BY <1>8 DEF ConfirmRemoteReservation
  <2>2. faults = 0 /\ co.idPago
    BY <1>0, <1>l, <2>1 DEF FaultsInOrder
  <2>3. /\ co.k \in Items /\ co.confirmed = {i \in Items : i < co.k}
        /\ \A i \in Items : remote[i] = IF i < co.k THEN "confirmed" ELSE "created"
    BY <1>0, <2>1 DEF ItemsInOrder
  <2>4. Confirmable(co.k)
    BY <2>3 DEF Confirmable, Items
  <2>5. CASE /\ CallSucceeds
             /\ LET row == [co EXCEPT !.confirmed = @ \cup {co.k}, !.k = @ + 1]
                IN  co' = IF row.k > N THEN [row EXCEPT !.pc = "finish"] ELSE row
    <3>1. co'.pc \in {"confirm", "finish"} /\ co'.answer = "none" /\ co'.idPago = co.idPago
      BY <1>0, <1>n, <2>1, <2>5 DEF Checkout
    <3> QED
      BY <1>r, <2>2, <2>5, <3>1 DEF CallSucceeds
  <2>6. CASE CallFails(FALSE) /\ UNCHANGED remote /\ co' = Compensate(co, 9)
    <3>1. co'.pc = "refund" /\ co'.answer = "none" /\ co'.fail = "FALLIDA_CONFIRMACION"
      BY <1>c, <1>n, <1>s, <2>1, <2>6
    <3>2. co'.todo = co.confirmed /\ co'.idPago = co.idPago
      BY <1>c, <2>6
    <3>3. faults' >= 1 /\ \A i \in Items \ co'.todo : remote'[i] # "confirmed"
      BY <1>0, <1>f, <2>3, <2>6, <3>2
    <3> QED
      BY <2>2, <3>1, <3>2, <3>3 DEF FaultsInOrder
  <2> QED
    BY <1>8, <1>f, <2>4, <2>5, <2>6 DEF ConfirmRemoteReservation
<1>9. CASE ConfirmReserva
  <2>1. co' \in {[co EXCEPT !.pc = "done", !.answer = "ok"],
                 [co EXCEPT !.pc = "done", !.answer = "error"]}
    BY <1>9 DEF ConfirmReserva
  <2> QED
    BY <1>0, <1>d, <2>1 DEF Checkout
<1>10. CASE TryRefundPayment
  <2>1. co.pc = "refund" /\ UNCHANGED remote
    BY <1>10 DEF TryRefundPayment
  <2>2. faults >= 1 /\ co.idPago
    BY <1>0, <1>l, <2>1 DEF FaultsInOrder
  <2>3. co' = [co EXCEPT !.pc = "cancel"]
    BY <1>10, <2>2 DEF TryRefundPayment
  <2>4. /\ co'.pc = "cancel" /\ co'.answer = "none" /\ co'.todo = co.todo
        /\ co'.fail = co.fail
    BY <1>0, <1>n, <2>1, <2>3 DEF Checkout
  <2>5. CASE faults' = 1
    <3>1. ~CallFails(TRUE) /\ ~CallFails(FALSE) /\ faults = 1
      <4>1. faults' >= faults
        BY <1>m, CallEffect
      <4>2. faults = 1 /\ faults' # faults + 1
        BY <1>0, <2>2, <2>5, <4>1
      <4> QED
        BY <1>f, <4>2, Zenon
    <3>2. payment' = "refunded" \/ "COMPENSATION_PENDING_REFUND" \in auditoria'
      BY <1>10, <2>2, <3>1 DEF TryRefundPayment, Refund
    <3> QED
      BY <1>0, <1>l, <2>1, <2>2, <2>4, <2>5, <3>1, <3>2 DEF FaultsInOrder
  <2>6. CASE faults' # 1
    <3>1. faults' >= 1
      BY <1>0, <1>m, <2>2, CallEffect
    <3> QED
      BY <2>4, <2>6, <3>1 DEF FaultsInOrder
  <2> QED
    BY <2>5, <2>6
<1>11. CASE CancelCreated
  <2>1. co.pc = "cancel" /\ UNCHANGED <<auditoria, payment>>
    BY <1>11 DEF CancelCreated
  <2>2. PICK i \in co.todo : CancelRound(i) /\ co' = [co EXCEPT !.todo = @ \ {i}]
    BY <1>11 DEF CancelCreated
  <2>3. /\ co'.pc = "cancel" /\ co'.answer = "none" /\ co'.todo = co.todo \ {i}
        /\ co'.fail = co.fail /\ i \in Items
    BY <1>0, <1>n, <2>1, <2>2 DEF Checkout
  <2>4. faults >= 1
    BY <1>0, <1>l, <2>1 DEF FaultsInOrder
  <2>5. /\ \A j \in Items : remote'[j] = IF j = i /\ remote' # remote THEN "cancelled"
                                                                      ELSE remote[j]
        /\ remote'[i] = "cancelled" \/ (remote' = remote /\ faults' = faults + 1 /\ faults' > 0)
    BY <2>2, <2>3, RoundEffect
  <2>6. faults' >= faults /\ faults' \in Nat
    BY <1>m, CallEffect
  <2>7. CASE faults' = 1
    <3>1. faults = 1 /\ remote'[i] = "cancelled"
      BY <1>0, <2>4, <2>5, <2>6, <2>7
    <3>2. \A j \in Items \ co'.todo : remote'[j] = "cancelled" \/ (j \notin co.todo /\ remote'[j] = remote[j])
      BY <2>3, <2>5, <3>1
    <3> QED
      BY <1>0, <1>l, <2>1, <2>3, <2>7, <3>1, <3>2 DEF FaultsInOrder
  <2>8. CASE faults' # 1
    <3>1. faults' >= 1
      BY <1>0, <2>4, <2>6
    <3> QED
      BY <2>3, <2>8, <3>1 DEF FaultsInOrder
  <2> QED
    BY <2>7, <2>8
<1>12. CASE MarkFailed
  <2>1. co.pc = "cancel" /\ co.todo = {} /\ UNCHANGED <<auditoria, payment, remote>>
    BY <1>12 DEF MarkFailed
  <2>2. CASE co' = [co EXCEPT !.pc = "done", !.answer = "error"]
    BY <1>0, <1>d, <2>2 DEF Checkout
  <2>3. CASE /\ CallSucceeds /\ status' = co.fail
             /\ co' = [co EXCEPT !.pc = "done", !.answer = "failed"]
    <3>1. /\ co'.pc = "done" /\ co'.answer = "failed" /\ co'.todo = {} /\ co'.fail = co.fail
          /\ faults' = faults
      BY <1>0, <2>1, <2>3 DEF Checkout, CallSucceeds
    <3> QED
      BY <1>0, <1>l, <2>1, <2>3, <3>1 DEF FaultsInOrder
  <2> QED
    BY <1>12, <2>2, <2>3 DEF MarkFailed
<1> QED
  BY <1>1, <1>2, <1>3, <1>4, <1>5, <1>6, <1>7, <1>8, <1>9, <1>10, <1>11, <1>12
  DEF CheckoutStep

-----------------------------------------------------------------------------
(* The theorems. *)

LEMMA InitIInv == Init => IInv
<1> SUFFICES ASSUME Init PROVE IInv
  OBVIOUS
<1> USE DEF Init
<1>0. 1 \in Items /\ 1 \in 1..(N + 1)
  BY NAssumption DEF Items
<1>1. TypeOK
  <2>1. co \in Checkout
    BY <1>0 DEF Checkout
  <2>2. ca \in [Cancellers -> Canceller]
    BY DEF Canceller
  <2> QED
    <3>1. faults \in 0..MaxFaults /\ crashes \in 0..MaxCrashes
      BY FaultsAssumption
    <3>2. /\ status \in {"NONE", "PENDIENTE", "CONFIRMADA", "CANCELADA"} \cup Failed
          /\ idExterno \subseteq Items
          /\ auditoria \subseteq CancelAudits \cup {"COMPENSATION_PENDING_REFUND"}
          /\ remote \in [Items -> {"none", "created", "confirmed", "cancelled"}]
          /\ payment \in {"none", "charged", "refunded"} /\ invoice \in {"none", "issued"}
      OBVIOUS
    <3>3. lost \in BOOLEAN
      OBVIOUS
    <3> QED
      BY <2>1, <2>2, <3>1, <3>2, <3>3 DEF TypeOK
<1>2. StagesInOrder
  BY <1>0 DEF StagesInOrder, Running, Unpaid, Failed
<1>3. CancellersInOrder
  BY DEF CancellersInOrder, CancellerInOrder, Late
<1>4. ItemsInOrder
  BY DEF ItemsInOrder
<1>5. FaultsInOrder
  BY DEF FaultsInOrder, Running, Unpaid
<1> QED
  BY <1>1, <1>2, <1>3, <1>4, <1>5 DEF IInv

LEMMA NextIInv == IInv /\ [Next]_vars => IInv'
<1> SUFFICES ASSUME IInv, [Next]_vars PROVE IInv'
  OBVIOUS
<1>0. TypeOK /\ StagesInOrder /\ CancellersInOrder /\ ItemsInOrder /\ FaultsInOrder
  BY DEF IInv
<1>1. CASE CheckoutStep
  BY <1>0, <1>1, CheckoutTypes, CheckoutStages, CheckoutCancellers, CheckoutItems,
     CheckoutFaults DEF IInv
<1>2. CASE \E c \in Cancellers : CancelStep(c)
  <2>1. PICK c \in Cancellers : CancelStep(c)
    BY <1>2
  <2>2. TypeOK' /\ StagesInOrder' /\ ItemsInOrder' /\ FaultsInOrder'
    BY <1>0, <2>1, CancelTypes, OtherStages, OtherItems
  <2>3. \A d \in Cancellers : CancellerInOrder(d)'
    BY <1>0, <2>1, OwnCanceller, OtherCancellers
  <2> QED
    BY <2>2, <2>3 DEF IInv, CancellersInOrder
<1>3. CASE Crash
  BY <1>0, <1>3, CrashTypes, OtherStages, CrashCancellers, OtherItems DEF IInv
<1>4. CASE UNCHANGED vars
  BY <1>0, <1>4 DEF IInv, vars, dbVars, remoteVars, faultVars, TypeOK, StagesInOrder,
     CancellersInOrder, CancellerInOrder, Late, ItemsInOrder, FaultsInOrder, NoCancelBegan
<1> QED
  BY <1>1, <1>2, <1>3, <1>4 DEF Next

\* The strengthened invariant of the synchronous mode.
THEOREM Invariant == Spec => []IInv
BY InitIInv, NextIInv, PTL DEF Spec

\* Type correctness, for any number of detalles and cancellations.
THEOREM TypeCorrect == Spec => []TypeOK
<1>1. IInv => TypeOK
  BY DEF IInv
<1> QED
  BY <1>1, Invariant, PTL

\* A V1 checkout that answers a success left every detalle confirmed, the
\* payment and the invoice, whatever the number of detalles.
THEOREM SuccessIsWholeAlways == Spec => []SuccessIsWhole
<1>1. IInv => SuccessIsWhole
  BY DEF IInv, ItemsInOrder, SuccessIsWhole
<1> QED
  BY <1>1, Invariant, PTL

\* One call that failed without an effect was undone by the catch block of its
\* step, whichever step it was.
THEOREM CleanFailureIsUndoneAlways == Spec => []CleanFailureIsUndone
<1>1. IInv => CleanFailureIsUndone
  <2> SUFFICES ASSUME IInv, co.answer = "failed", NoCancelBegan, faults = 1, ~lost
               PROVE  /\ payment = "charged" => "COMPENSATION_PENDING_REFUND" \in auditoria
                      /\ \A i \in Items : remote[i] # "confirmed"
                      /\ status # "FALLIDA_CONFIRMACION" =>
                           \A i \in Items : remote[i] \in {"none", "cancelled"}
    BY DEF CleanFailureIsUndone
  <2>1. co.pc = "done"
    BY DEF IInv, StagesInOrder
  <2> QED
    BY <2>1 DEF IInv, FaultsInOrder
<1> QED
  BY <1>1, Invariant, PTL

\* The status of a failed reserva tells how far the checkout got.
THEOREM FailedStatusIsHonestAlways == Spec => []FailedStatusIsHonest
<1>1. IInv => FailedStatusIsHonest
  BY DEF IInv, StagesInOrder, FailedStatusIsHonest, Failed
<1> QED
  BY <1>1, Invariant, PTL

\* A cancellation after the checkout leaves no charge without a refund or an
\* audit row, for any number of concurrent cancellations and failing calls.
THEOREM CancelAccountsForPaymentAlways == Spec => []CancelAccountsForPayment
<1>1. IInv => CancelAccountsForPayment
  BY DEF IInv, CancellersInOrder, CancellerInOrder, Late, CancelAccountsForPayment
<1> QED
  BY <1>1, Invariant, PTL

\* And when no call fails it leaves no reservation we have the id of.
THEOREM CancelReleasesItemsAlways == Spec => []CancelReleasesItems
<1>1. IInv => CancelReleasesItems
  <2> SUFFICES ASSUME IInv, NEW c \in Cancellers,
                      ca[c].answer = "ok", ~ca[c].during, faults = 0
               PROVE  /\ status = "CANCELADA"
                      /\ \A i \in idExterno : remote[i] = "cancelled"
    BY DEF CancelReleasesItems
  <2>1. CancellerInOrder(c) /\ Late(c)
    BY DEF IInv, CancellersInOrder, Late
  <2>2. ca[c].todo = {} /\ ca[c].pc = "done"
    BY <2>1 DEF CancellerInOrder
  <2> QED
    BY <2>1, <2>2 DEF CancellerInOrder
<1> QED
  BY <1>1, Invariant, PTL
=============================================================================
