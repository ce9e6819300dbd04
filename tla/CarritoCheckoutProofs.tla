------------------------ MODULE CarritoCheckoutProofs ------------------------
(***************************************************************************)
(* Theorems about the money and the rows of Carrito: the stored total, and *)
(* what a checkout charges, reserves and leaves behind.  A sum is opaque   *)
(* here: two of them are equal when they are made of the same lines.       *)
(***************************************************************************)
EXTENDS CarritoProofs

-----------------------------------------------------------------------------
(* What a transaction, and a checkout, know of the cart they have read. *)

\* A committed request that wrote the cart of r while r was under way.
Overlapped(r) == \E w \in Writers(req[r].carrito) : Met(r, w)

\* The sum a transaction is about to store is that of the cart once it has
\* committed, unless somebody it has met wrote another row after it was made.
SumRead(r) ==
  req[r].pc = "commit" =>
    \/ req[r].monto = Total(LinesWritten(r))
    \/ \E w \in Writers(req[r].carrito) : Met(r, w) /\ req[w].row # req[r].row

\* What a checkout has read of its cart is still true, or a writer overlapped.
CheckoutRead(r) ==
  Converting(r) =>
    \/ Overlapped(r)
    \/ /\ req[r].monto = carritos[req[r].carrito].total
       /\ req[r].pc # "read_items" => req[r].seen = Detalles(Lines(req[r].carrito))
       /\ req[r].pc = "convert_commit" => req[r].lines = Lines(req[r].carrito)

\* The reserva of a checkout, until the saga has its commands.
ReservaMade(r) ==
  reservas[r] # NoReserva =>
    /\ req[r].pc \in {"start_saga", "done", "failed"}
    /\ req[r].carrito = reservas[r].carrito
    /\ req[r].pc = "start_saga" =>
         /\ reservas[r].status = "PENDIENTE"
         /\ reservas[r].commands = {}
         /\ reservas[r].detalles = req[r].seen \/ Overlapped(r)

\* A checkout about to convert its cart has every row, with the product it
\* keeps, or has met who added it.
RowsCovered(r) ==
  req[r].pc = "convert_commit" =>
    \A i \in Rows : items[i].carrito = req[r].carrito =>
      \/ \E l \in req[r].lines : l.row = i /\ l.producto = items[i].producto
      \/ Met(i, r)

\* Whoever is about to add a row to a cart that was converted meanwhile has met
\* the checkout that did.
AdderMet(r) ==
  (/\ req[r].pc = "find_item" \/ (Placing(r) /\ req[r].row = r)
   /\ carritos[req[r].carrito].estado = "COMPLETADO") =>
    \E s \in Requests : /\ reservas[s] # NoReserva /\ reservas[s].carrito = req[r].carrito
                        /\ Met(r, s)

CheckoutInv ==
  /\ FullInv
  /\ \A r \in Requests : /\ SumRead(r) /\ CheckoutRead(r) /\ ReservaMade(r)
                         /\ RowsCovered(r) /\ AdderMet(r)
  /\ TotalIsSum /\ ChargedIsReserved /\ CommandsMatchDetalles /\ NoItemLeftBehind

-----------------------------------------------------------------------------
(* The lines of a cart, as a function of the table. *)

LinesIn(table, c) ==
  {[row |-> i, producto |-> table[i].producto, cantidad |-> table[i].cantidad] :
     i \in {j \in Requests : table[j] # NoItem /\ table[j].carrito = c}}

WrittenIn(table, q) ==
  {l \in LinesIn(table, q.carrito) : l.row # q.row}
    \cup IF q.op = "remove" THEN {}
         ELSE {[row |-> q.row, producto |-> q.producto, cantidad |-> q.cantidad]}

LEMMA LinesAre == \A c : Lines(c) = LinesIn(items, c)
<1>1. ASSUME NEW c PROVE {j \in Rows : items[j].carrito = c}
                           = {j \in Requests : items[j] # NoItem /\ items[j].carrito = c}
  BY DEF Rows
<1> QED
  BY <1>1 DEF Lines, LineOf, LinesIn

LEMMA WrittenAre == \A r : LinesWritten(r) = WrittenIn(items, req[r])
BY LinesAre DEF LinesWritten, WrittenIn

\* An empty cart costs nothing.
LEMMA SumOfNone == Total({}) = 0
<1> DEFINE R(g, s) == IF s = {} THEN 0
                      ELSE LET x == CHOOSE x \in s : TRUE
                           IN  (x.cantidad * Precio[x.producto]) + g[s \ {x}]
<1>1. Total({}) = (CHOOSE iter : iter = [s \in SUBSET {} |-> R(iter, s)])[{}]
  BY DEF Total, MapThenSumSet, MapThenFoldSet
<1>2. \E g : g = [s \in SUBSET {} |-> R(g, s)]
  <2>1. [s \in SUBSET {} |-> 0] = [s \in SUBSET {} |-> R([t \in SUBSET {} |-> 0], s)]
    OBVIOUS
  <2> QED
    BY <2>1
<1> QED
  BY <1>1, <1>2

\* A commit replaces the lines of its cart by those it has summed up.
LEMMA CommitLines ==
  ASSUME Inv, RowsKnown, NEW r \in Requests, Commit(r)
  PROVE  /\ \A c \in Requests : c # req[r].carrito => LinesIn(items', c) = LinesIn(items, c)
         /\ LinesIn(items', req[r].carrito) = WrittenIn(items, req[r])
<1> DEFINE k == req[r].row
           d == req[r].carrito
           with(table, c) == {j \in Requests : table[j] # NoItem /\ table[j].carrito = c}
           line(table, j) ==
             [row |-> j, producto |-> table[j].producto, cantidad |-> table[j].cantidad]
<1>1. k \in Requests /\ d \in Requests /\ \A j \in Requests : j # k => items'[j] = items[j]
  BY CommitStep
<1>2. items[k] # NoItem => items[k].carrito = d
  BY <1>1, CommitStep DEF RowsKnown, RowKnown, Placing, Rows
<1>3. req[r].op = "remove" => items'[k] = NoItem
  BY CommitStep
<1>4. req[r].op # "remove" =>
        /\ items'[k] # NoItem /\ items'[k].carrito = d
        /\ items'[k].producto = req[r].producto /\ items'[k].cantidad = req[r].cantidad
  <2>1. req[r].op # "remove" =>
          items'[k] = [carrito |-> d, producto |-> req[r].producto,
                       cantidad |-> req[r].cantidad,
                       meant |-> (IF req[r].op = "add" /\ k # r
                                    THEN items[k].meant ELSE 0) + req[r].asked]
    BY CommitStep
  <2>2. req[r].op # "remove" => /\ items'[k].carrito = d
                                /\ items'[k].producto = req[r].producto
                                /\ items'[k].cantidad = req[r].cantidad
    BY <2>1
  <2>3. d # Nada /\ NoItem.carrito = Nada
    BY <1>1, RequestsAssumption DEF NoItem
  <2> QED
    BY <2>2, <2>3
<1>5. ASSUME NEW c \in Requests, c # d PROVE LinesIn(items', c) = LinesIn(items, c)
  <2>1. with(items', c) = with(items, c)
    BY <1>1, <1>2, <1>3, <1>4, <1>5
  <2>2. \A j \in with(items, c) : items'[j] = items[j]
    BY <1>1, <1>2, <1>5
  <2> QED
    BY <2>1, <2>2 DEF LinesIn
<1>6. LinesIn(items', d) = WrittenIn(items, req[r])
  <2>1. with(items', d) = (with(items, d) \ {k}) \cup (IF req[r].op = "remove" THEN {} ELSE {k})
    BY <1>1, <1>3, <1>4
  <2>2. {line(items', j) : j \in with(items, d) \ {k}}
          = {l \in LinesIn(items, d) : l.row # k}
    <3>1. \A j \in with(items, d) \ {k} : line(items', j) = line(items, j)
      BY <1>1
    <3>2. \A j \in Requests : line(items, j).row = j
      OBVIOUS
    <3>3. LinesIn(items, d) = {line(items, j) : j \in with(items, d)}
      BY DEF LinesIn
    <3>4. \A j \in with(items, d) : line(items, j).row = j
      BY <3>2
    <3> HIDE DEF with, line
    <3> QED
      BY <3>1, <3>3, <3>4
  <2>3. req[r].op # "remove" => line(items', k) = [row |-> k, producto |-> req[r].producto,
                                                   cantidad |-> req[r].cantidad]
    BY <1>4
  <2>4. LinesIn(items', d) = {line(items', j) : j \in with(items', d)}
    BY DEF LinesIn
  <2>5. WrittenIn(items, req[r]) =
          {line(items', j) : j \in with(items, d) \ {k}}
            \cup (IF req[r].op = "remove" THEN {} ELSE {line(items', k)})
    BY <2>2, <2>3 DEF WrittenIn
  <2> HIDE DEF with, line
  <2> QED
    BY <2>1, <2>4, <2>5
<1> QED
  BY <1>5, <1>6

\* How a transaction makes its sum.
LEMMA WriteStep ==
  ASSUME Inv, NEW r \in Requests, Silent(r), req'[r].pc = "commit"
  PROVE  /\ req'[r].monto = Total(WrittenIn(items, req[r]))
         /\ WrittenIn(items, req'[r]) = WrittenIn(items, req[r])
<1> USE DEF Inv, TypeInv, Types, TypesWith
<1>1. req[r] \in Request(Amount) /\ WriteItem(r)
  BY SilentStep
<1>2. ~Fail(r)
  BY DEF Fail, Goto, Ended, Idle
<1>3. req'[r] = [req[r] EXCEPT !.pc = "commit", !.monto = Total(LinesWritten(r))]
  BY <1>1, <1>2 DEF WriteItem, Goto
<1>4. /\ req'[r].monto = Total(LinesWritten(r))
      /\ req'[r].carrito = req[r].carrito /\ req'[r].row = req[r].row
      /\ req'[r].op = req[r].op /\ req'[r].producto = req[r].producto
      /\ req'[r].cantidad = req[r].cantidad
  BY <1>1, <1>3 DEF Request
<1> QED
  BY <1>4, WrittenAre DEF WrittenIn

\* How a checkout begins.
LEMMA CheckoutBegins ==
  ASSUME Inv, NEW r \in Requests, Beginning(r)
  PROVE  /\ Converting(r)' => /\ req'[r].pc = "read_items" /\ req'[r].carrito \in Requests
                              /\ req'[r].monto = carritos[req'[r].carrito].total
         /\ req'[r].pc = "find_item" => req'[r].carrito \in Activos \cup {r}
<1> USE DEF Inv, TypeInv, Types, TypesWith, Begin, Idle, Converting
<1>1. CASE GetCarritoActivo(r)
  BY <1>1 DEF GetCarritoActivo
<1>2. CASE \E p \in Products, q \in Cantidades : AddItem(r, p, q)
  BY <1>2 DEF AddItem
<1>3. CASE \E i \in Rows : RemoveItem(r, i)
  BY <1>3 DEF RemoveItem
<1>4. CASE \E i \in Rows, q \in Cantidades : UpdateItemCantidad(r, i, q)
  BY <1>4 DEF UpdateItemCantidad
<1>5. CASE \E c \in Requests : Checkout(r, c)
  BY <1>5 DEF Checkout
<1> QED
  BY <1>1, <1>2, <1>3, <1>4, <1>5 DEF Beginning

\* How it goes on, up to its commit.
LEMMA CheckoutGoesOn ==
  ASSUME Inv, NEW r \in Requests, Silent(r), Converting(r)'
  PROVE  /\ Converting(r) /\ req'[r].carrito = req[r].carrito
         /\ req'[r].monto = req[r].monto /\ req'[r].pc # "read_items"
         /\ req'[r].seen = IF req[r].pc = "read_items"
                           THEN Detalles(LinesIn(items, req[r].carrito)) ELSE req[r].seen
         /\ req'[r].pc = "convert_commit" =>
              req[r].pc = "convert_items" /\ req'[r].lines = LinesIn(items, req[r].carrito)
<1> USE DEF Inv, TypeInv, Types, TypesWith
<1>1. req[r] \in Request(Amount) /\ Converting(r) /\ ~Fail(r)
  <2>1. ~Fail(r)
    BY DEF Fail, Goto, Ended, Idle, Converting
  <2> QED
    BY <2>1, SilentStep DEF Converting, Writing
<1> DEFINE lines == Lines(req[r].carrito)
           named == Detalles(lines)
<1>2. /\ lines = LinesIn(items, req[r].carrito)
      /\ named = Detalles(LinesIn(items, req[r].carrito))
  BY LinesAre
<1> HIDE DEF lines, named
<1>3. \/ req[r].pc = "read_items" /\ Goto(r, [req[r] EXCEPT !.pc = "convert", !.seen = named])
      \/ req[r].pc = "convert" /\ Goto(r, [req[r] EXCEPT !.pc = "convert_items"])
      \/ /\ req[r].pc = "convert_items"
         /\ Goto(r, [req[r] EXCEPT !.pc = "convert_commit", !.lines = lines])
  BY <1>1 DEF Silent, AddFindItem, WriteItem, CheckoutReadItems, ConvertRead, ConvertReadItems,
              Abort, Converting, lines, named
<1>4. CASE req[r].pc = "read_items"
           /\ Goto(r, [req[r] EXCEPT !.pc = "convert", !.seen = named])
  <2>1. req'[r] = [req[r] EXCEPT !.pc = "convert", !.seen = named]
    BY <1>4 DEF Goto
  <2> QED
    BY <1>1, <1>2, <1>4, <2>1 DEF Request
<1>5. CASE req[r].pc = "convert" /\ Goto(r, [req[r] EXCEPT !.pc = "convert_items"])
  <2>1. req'[r] = [req[r] EXCEPT !.pc = "convert_items"]
    BY <1>5 DEF Goto
  <2> QED
    BY <1>1, <1>2, <1>5, <2>1 DEF Request
<1>6. CASE req[r].pc = "convert_items"
           /\ Goto(r, [req[r] EXCEPT !.pc = "convert_commit", !.lines = lines])
  <2>1. req'[r] = [req[r] EXCEPT !.pc = "convert_commit", !.lines = lines]
    BY <1>6 DEF Goto
  <2> QED
    BY <1>1, <1>2, <1>6, <2>1 DEF Request
<1> QED
  BY <1>3, <1>4, <1>5, <1>6

\* The reservas change when one is made and when its saga is told of it.
LEMMA ReservaSteps ==
  ASSUME Inv, NEW r \in Requests
  PROVE  /\ Beginning(r) \/ Silent(r) \/ CreateCarrito(r) \/ Commit(r) => reservas' = reservas
         /\ ConvertCommit(r) \/ StartSaga(r) =>
              /\ reservas'[r] # NoReserva
              /\ \A s \in Requests : s # r => reservas'[s] = reservas[s]
         /\ StartSaga(r) =>
              /\ reservas[r] # NoReserva
              /\ reservas'[r].carrito = reservas[r].carrito
              /\ reservas'[r].monto = reservas[r].monto
              /\ reservas'[r].total = reservas[r].total
              /\ reservas'[r].detalles = reservas[r].detalles
         /\ ConvertCommit(r) =>
              reservas'[r] = [status |-> "PENDIENTE", carrito |-> req[r].carrito,
                              total |-> Total(req[r].lines), monto |-> req[r].monto,
                              detalles |-> Detalles(req[r].lines), commands |-> {}]
<1> USE DEF Inv, TypeInv, Types, TypesWith
<1>1. Beginning(r) \/ Silent(r) \/ CreateCarrito(r) \/ Commit(r) => reservas' = reservas
  BY BeginStep, SilentStep DEF CreateCarrito, Commit
<1>2. ConvertCommit(r) =>
        /\ reservas'[r] = [status |-> "PENDIENTE", carrito |-> req[r].carrito,
                           total |-> Total(req[r].lines), monto |-> req[r].monto,
                           detalles |-> Detalles(req[r].lines), commands |-> {}]
        /\ \A s \in Requests : s # r => reservas'[s] = reservas[s]
  BY DEF ConvertCommit
<1>3. ConvertCommit(r) => reservas'[r] # NoReserva
  BY <1>2 DEF NoReserva
<1>4. ASSUME StartSaga(r)
      PROVE  /\ reservas[r] # NoReserva /\ reservas'[r] # NoReserva
             /\ reservas'[r].carrito = reservas[r].carrito
             /\ reservas'[r].monto = reservas[r].monto
             /\ reservas'[r].total = reservas[r].total
             /\ reservas'[r].detalles = reservas[r].detalles
             /\ \A s \in Requests : s # r => reservas'[s] = reservas[s]
  <2>1. reservas[r] \in Reserva(Amount) /\ reservas[r] # NoReserva
    BY <1>4 DEF StartSaga, FieldsSet
  <2>2. \/ reservas' = [reservas EXCEPT ![r].status = "FALLIDA_PROVEEDOR"]
        \/ \E S : reservas' = [reservas EXCEPT ![r].commands = S]
    BY <1>4 DEF StartSaga
  <2> QED
    BY <2>1, <2>2 DEF Reserva, NoReserva
<1> QED
  BY <1>1, <1>2, <1>3, <1>4

\* The initial state.
LEMMA InitCheckout == Init => CheckoutInv
<1> SUFFICES ASSUME Init PROVE CheckoutInv
  OBVIOUS
<1>1. FullInv
  BY InitFull
<1>2. /\ \A r \in Requests : /\ req[r].pc = "idle" /\ reservas[r] = NoReserva
                             /\ carritos[r] = NoCarrito
      /\ Rows = {}
  BY DEF Init, Idle, Rows
<1>3. \A r \in Requests : SumRead(r) /\ CheckoutRead(r) /\ ReservaMade(r) /\ RowsCovered(r)
                          /\ AdderMet(r)
  BY <1>2 DEF SumRead, CheckoutRead, ReservaMade, RowsCovered, AdderMet, Converting, Placing
<1> QED
  BY <1>1, <1>2, <1>3
  DEF CheckoutInv, TotalIsSum, ChargedIsReserved, CommandsMatchDetalles, NoItemLeftBehind

\* Whoever has overlapped a request has.
LEMMA OverlapStays ==
  ASSUME Inv, [Next]_vars, NEW r \in Requests, Overlapped(r),
         req'[r].carrito = req[r].carrito
  PROVE  Overlapped(r)'
<1>1. PICK w \in Writers(req[r].carrito) : Met(r, w)
  BY DEF Overlapped
<1>2. w \in Requests /\ req[w].pc = "done" /\ req'[w] = req[w]
  BY <1>1, DoneStays DEF Writers
<1>3. w \in Writers(req[r].carrito)' /\ Met(r, w)'
  BY <1>1, <1>2, MetStays DEF Writers, Met
<1> QED
  BY <1>3 DEF Overlapped

\* A commit on its cart overlaps a request under way.
LEMMA CommitOverlaps ==
  ASSUME Inv, RowsKnown, NEW w \in Requests, Commit(w),
         NEW r \in Requests, r # w, InFlight(r), req[r].carrito = req[w].carrito
  PROVE  /\ w \in Writers(req[r].carrito)' /\ Met(r, w)' /\ Overlapped(r)'
         /\ req'[w].row = req[w].row
<1>1. req[w].op \in {"add", "update", "remove"}
  BY CommitStep DEF RowsKnown, RowKnown, Placing
<1>2. /\ req'[w].pc = "done" /\ req'[w].op = req[w].op /\ req'[w].carrito = req[w].carrito
      /\ req'[r] = req[r] /\ Met(r, w) /\ met' = met /\ req'[w].row = req[w].row
  BY CommitStep
<1>3. w \in Writers(req[r].carrito)' /\ Met(r, w)'
  BY <1>1, <1>2 DEF Writers, Met
<1> QED
  BY <1>2, <1>3 DEF Overlapped

\* What a transaction has summed up stays true, or somebody it has met wrote.
LEMMA NextSumRead ==
  ASSUME CheckoutInv, [Next]_vars, NEW s \in Requests
  PROVE  SumRead(s)'
<1>0. Inv /\ Types /\ RowsKnown /\ SumRead(s) /\ RowHeld
  BY DEF CheckoutInv, FullInv, Inv, TypeInv
<1>a. SumRead(s)' <=>
        (req'[s].pc = "commit" =>
           \/ req'[s].monto = Total(WrittenIn(items', req'[s]))
           \/ (\E w \in Writers(req[s].carrito) : Met(s, w) /\ req[w].row # req[s].row)')
  <2>1. LinesWritten(s)' = WrittenIn(items', req'[s])
    BY DEF LinesWritten, WrittenIn, Lines, LinesIn, LineOf, Rows
  <2> QED
    BY <2>1 DEF SumRead
<1>b. req[s].pc = "commit" =>
        \/ req[s].monto = Total(WrittenIn(items, req[s]))
        \/ \E w \in Writers(req[s].carrito) : Met(s, w) /\ req[w].row # req[s].row
  BY <1>0, WrittenAre DEF SumRead
\* What excepted it still does.
<1>c. ASSUME req'[s] = req[s], NEW w \in Writers(req[s].carrito), Met(s, w),
             req[w].row # req[s].row
      PROVE  SumRead(s)'
  <2>1. w \in Requests /\ req[w].pc = "done" /\ req'[w] = req[w]
    BY <1>0, <1>c, DoneStays DEF Writers
  <2>2. w \in Writers(req[s].carrito)' /\ Met(s, w)' /\ (req[w].row # req[s].row)'
    BY <1>0, <1>c, <2>1, MetStays DEF Writers, Met
  <2> QED
    BY <2>2 DEF SumRead
<1>d. ASSUME req'[s] = req[s], WrittenIn(items', req[s]) = WrittenIn(items, req[s])
      PROVE  SumRead(s)'
  BY <1>a, <1>b, <1>c, <1>d
<1>1. ASSUME NEW r \in Requests,
             Beginning(r) \/ Silent(r) \/ CreateCarrito(r) \/ ConvertCommit(r) \/ StartSaga(r)
      PROVE  SumRead(s)'
  <2>0. items' = items /\ \A q \in Requests : q # r => req'[q] = req[q]
    BY <1>0, <1>1, RowsStay
  <2>1. CASE s # r
    BY <1>d, <2>0, <2>1
  <2>2. CASE s = r
    <3>1. CASE Silent(r) /\ req'[r].pc = "commit"
      BY <1>0, <1>a, <2>0, <2>2, <3>1, WriteStep
    <3>2. CASE req'[r].pc # "commit"
      BY <2>2, <3>2 DEF SumRead
    <3> QED
      BY <1>0, <1>1, <3>1, <3>2, BeginStep, OtherSteps
  <2> QED
    BY <2>1, <2>2
<1>2. ASSUME NEW r \in Requests, Commit(r) PROVE SumRead(s)'
  <2>1. CASE req'[s].pc # "commit"
    BY <2>1 DEF SumRead
  <2>2. CASE req'[s].pc = "commit"
    <3>1. s # r /\ req'[s] = req[s] /\ InFlight(s) /\ req[r].pc = "commit"
      BY <1>0, <1>2, <2>2, CommitStep DEF InFlight
    <3>2. CASE req[s].carrito = req[r].carrito
      <4>1. req[r].row # req[s].row
        BY <1>0, <2>2, <3>1 DEF RowHeld
      <4>2. r \in Writers(req[s].carrito)' /\ Met(s, r)' /\ (req[r].row # req[s].row)'
        BY <1>0, <1>2, <3>1, <3>2, <4>1, CommitOverlaps
      <4> QED
        BY <4>2 DEF SumRead
    <3>3. CASE req[s].carrito # req[r].carrito
      <4>1. req[s].carrito \in Requests
        BY <1>0, <2>2, <3>1 DEF Inv, TypeInv, FieldsSet, Writing
      <4>2. LinesIn(items', req[s].carrito) = LinesIn(items, req[s].carrito)
        BY <1>0, <1>2, <3>3, <4>1, CommitLines
      <4> QED
        BY <1>d, <3>1, <4>2 DEF WrittenIn
    <3> QED
      BY <3>2, <3>3
  <2> QED
    BY <2>1, <2>2
<1>3. CASE UNCHANGED vars
  BY <1>d, <1>3 DEF vars
<1> QED
  BY <1>1, <1>2, <1>3, StepKinds

\* The stored total stays the sum of the rows, or two writers have met.
LEMMA NextTotalIsSum == CheckoutInv /\ [Next]_vars => TotalIsSum'
<1> SUFFICES ASSUME CheckoutInv, [Next]_vars, NEW c \in Requests, carritos'[c] # NoCarrito
             PROVE  \/ carritos'[c].total = Total(LinesIn(items', c))
                    \/ \E r, s \in Requests :
                         /\ r \in Writers(c)' /\ s \in Writers(c)'
                         /\ {r, s} \in met' /\ req'[r].row # req'[s].row
  <2>1. \A d \in Requests : Lines(d)' = LinesIn(items', d)
    BY DEF Lines, LinesIn, LineOf, Rows
  <2> QED
    BY <2>1 DEF TotalIsSum, Met
<1>0. Inv /\ Types /\ RowsKnown /\ TotalIsSum
  BY DEF CheckoutInv, FullInv, Inv, TypeInv
<1>m. met \subseteq met'
  BY <1>0, MetStays
<1>a. carritos[c] # NoCarrito =>
        \/ carritos[c].total = Total(LinesIn(items, c))
        \/ \E r, s \in Requests : /\ r \in Writers(c)' /\ s \in Writers(c)'
                                  /\ {r, s} \in met' /\ req'[r].row # req'[s].row
  <2>1. ASSUME NEW r \in Writers(c), NEW s \in Writers(c), Met(r, s), req[r].row # req[s].row
        PROVE  /\ r \in Writers(c)' /\ s \in Writers(c)' /\ r \in Requests /\ s \in Requests
               /\ {r, s} \in met' /\ req'[r].row # req'[s].row
    <3>1. /\ r \in Requests /\ req[r].pc = "done" /\ req'[r] = req[r]
          /\ s \in Requests /\ req[s].pc = "done" /\ req'[s] = req[s]
      BY <1>0, DoneStays DEF Writers
    <3> QED
      BY <1>m, <2>1, <3>1 DEF Writers, Met
  <2> QED
    BY <1>0, <2>1, LinesAre DEF TotalIsSum
<1>1. CASE UNCHANGED <<carritos, items>>
  BY <1>a, <1>1
<1>2. ASSUME NEW r \in Requests, CreateCarrito(r)
      PROVE  \/ carritos'[c].total = Total(LinesIn(items', c))
             \/ carritos'[c] = carritos[c] /\ items' = items
  <2>1. items' = items /\ (c # r => carritos'[c] = carritos[c])
        /\ (c = r => carritos'[c].total = 0)
    BY <1>0, <1>2 DEF CreateCarrito, Types, TypesWith
  <2>2. CASE c = r
    <3>1. carritos[r] = NoCarrito /\ \A i \in Rows : carritos[items[i].carrito] # NoCarrito
      BY <1>0, <1>2 DEF CreateCarrito, Inv, CartsKnown
    <3>2. LinesIn(items, c) = {}
      BY <2>2, <3>1 DEF LinesIn, Rows
    <3> QED
      BY <2>1, <2>2, <3>2, SumOfNone
  <2> QED
    BY <2>1, <2>2
<1>3. ASSUME NEW r \in Requests, ConvertCommit(r)
      PROVE  carritos'[c].total = carritos[c].total /\ items' = items /\ carritos[c] # NoCarrito
  <2>1. /\ req[r].carrito \in Requests /\ carritos[req[r].carrito] \in Carrito(Amount)
        /\ carritos[req[r].carrito] # NoCarrito
    BY <1>0, <1>3 DEF ConvertCommit, Inv, TypeInv, Types, TypesWith, FieldsSet, Converting
  <2> QED
    BY <1>0, <1>3, <2>1 DEF ConvertCommit, Types, TypesWith, Carrito
<1>4. ASSUME NEW r \in Requests, Commit(r)
      PROVE  \/ carritos'[c].total = Total(LinesIn(items', c))
             \/ \E q, s \in Requests : /\ q \in Writers(c)' /\ s \in Writers(c)'
                                       /\ {q, s} \in met' /\ req'[q].row # req'[s].row
  <2>1. CASE c # req[r].carrito
    <3>1. carritos'[c] = carritos[c] /\ LinesIn(items', c) = LinesIn(items, c)
      BY <1>0, <1>4, <2>1, CommitCarts, CommitLines
    <3> QED
      BY <1>a, <3>1
  <2>2. CASE c = req[r].carrito
    <3>1. carritos'[c].total = req[r].monto
      BY <1>0, <1>4, <2>2 DEF Commit, Types, TypesWith
    <3>2. CASE req[r].monto = Total(LinesWritten(r))
      BY <1>0, <1>4, <2>2, <3>1, <3>2, CommitLines, WrittenAre
    <3>3. ASSUME NEW w \in Writers(c), Met(r, w), req[w].row # req[r].row
          PROVE  /\ r \in Writers(c)' /\ w \in Writers(c)' /\ w \in Requests
                 /\ {r, w} \in met' /\ req'[r].row # req'[w].row
      <4>1. w \in Requests /\ req[w].pc = "done" /\ req'[w] = req[w]
        BY <1>0, <3>3, DoneStays DEF Writers
      <4>2. req[r].op \in {"add", "update", "remove"}
        BY <1>0, <1>4, CommitStep DEF RowsKnown, RowKnown, Placing
      <4>3. /\ req'[r].pc = "done" /\ req'[r].op = req[r].op /\ req'[r].row = req[r].row
            /\ req'[r].carrito = c
        BY <1>0, <1>4, <2>2, CommitStep
      <4> QED
        BY <1>m, <3>3, <4>1, <4>2, <4>3 DEF Writers, Met
    <3> QED
      <4>1. SumRead(r) /\ req[r].pc = "commit"
        BY <1>0, <1>4, CommitStep DEF CheckoutInv
      <4>2. \/ req[r].monto = Total(LinesWritten(r))
            \/ \E w \in Writers(c) : Met(r, w) /\ req[w].row # req[r].row
        BY <2>2, <4>1 DEF SumRead
      <4> QED
        BY <3>2, <3>3, <4>2
  <2> QED
    BY <2>1, <2>2
<1>5. ASSUME NEW r \in Requests, Beginning(r) \/ Silent(r) \/ StartSaga(r)
      PROVE  UNCHANGED <<carritos, items>>
  BY <1>0, <1>5, BeginStep, SilentStep DEF StartSaga
<1>6. CASE UNCHANGED vars
  BY <1>1, <1>6 DEF vars
<1> QED
  BY <1>1, <1>2, <1>3, <1>4, <1>5, <1>6, <1>a, StepKinds

\* What a checkout has read stays true as long as no writer overlaps it.
LEMMA NextCheckoutRead ==
  ASSUME CheckoutInv, [Next]_vars, NEW s \in Requests
  PROVE  CheckoutRead(s)'
<1>0. Inv /\ Types /\ RowsKnown /\ CheckoutRead(s)
  BY DEF CheckoutInv, FullInv, Inv, TypeInv
<1>a. CheckoutRead(s)' <=>
        (Converting(s)' =>
           \/ Overlapped(s)'
           \/ /\ req'[s].monto = carritos'[req'[s].carrito].total
              /\ req'[s].pc # "read_items" =>
                   req'[s].seen = Detalles(LinesIn(items', req'[s].carrito))
              /\ req'[s].pc = "convert_commit" =>
                   req'[s].lines = LinesIn(items', req'[s].carrito))
  <2>1. Lines(req[s].carrito)' = LinesIn(items', req'[s].carrito)
    BY DEF Lines, LinesIn, LineOf, Rows
  <2>2. Detalles(Lines(req[s].carrito))' = Detalles(LinesIn(items', req'[s].carrito))
    BY <2>1 DEF Detalles
  <2> QED
    BY <2>1, <2>2 DEF CheckoutRead
<1>b. Converting(s) =>
        \/ Overlapped(s)
        \/ /\ req[s].monto = carritos[req[s].carrito].total
           /\ req[s].pc # "read_items" =>
                req[s].seen = Detalles(LinesIn(items, req[s].carrito))
           /\ req[s].pc = "convert_commit" => req[s].lines = LinesIn(items, req[s].carrito)
  BY <1>0, LinesAre DEF CheckoutRead
<1>c. Converting(s) => req[s].carrito \in Requests /\ carritos[req[s].carrito] # NoCarrito
                       /\ InFlight(s)
  BY <1>0 DEF Inv, TypeInv, FieldsSet, Converting, InFlight
<1>d. ASSUME req'[s] = req[s],
             Converting(s) =>
               /\ carritos'[req[s].carrito].total = carritos[req[s].carrito].total
               /\ LinesIn(items', req[s].carrito) = LinesIn(items, req[s].carrito)
      PROVE  CheckoutRead(s)'
  <2>1. Overlapped(s) => Overlapped(s)'
    BY <1>0, <1>d, OverlapStays
  <2> QED
    BY <1>a, <1>b, <1>d, <2>1 DEF Converting
<1>1. ASSUME NEW r \in Requests, s # r,
             Beginning(r) \/ Silent(r) \/ StartSaga(r) \/ CreateCarrito(r) \/ ConvertCommit(r)
      PROVE  CheckoutRead(s)'
  <2>0. items' = items /\ req'[s] = req[s]
    BY <1>0, <1>1, RowsStay
  <2>1. CASE Beginning(r) \/ Silent(r) \/ StartSaga(r)
    <3>1. carritos' = carritos
      BY <1>0, <2>1, BeginStep, SilentStep DEF StartSaga
    <3> QED
      BY <1>d, <2>0, <3>1
  <2>2. CASE CreateCarrito(r)
    <3>1. carritos[r] = NoCarrito /\ \A d \in Requests : d # r => carritos'[d] = carritos[d]
      BY <1>0, <2>2 DEF CreateCarrito, Inv, CartsKnown, Types, TypesWith
    <3> QED
      BY <1>c, <1>d, <2>0, <3>1
  <2>3. CASE ConvertCommit(r)
    <3>1. req[r].carrito \in Requests /\ carritos[req[r].carrito] \in Carrito(Amount)
      BY <1>0, <2>3 DEF ConvertCommit, Inv, TypeInv, Types, TypesWith, FieldsSet, Converting
    <3>2. \A d \in Requests : carritos'[d].total = carritos[d].total
      BY <1>0, <2>3, <3>1 DEF ConvertCommit, Types, TypesWith, Carrito
    <3> QED
      BY <1>c, <1>d, <2>0, <3>2
  <2> QED
    BY <1>1, <2>1, <2>2, <2>3
<1>2. ASSUME NEW r \in Requests, s = r,
             Beginning(r) \/ Silent(r) \/ StartSaga(r) \/ CreateCarrito(r) \/ ConvertCommit(r)
      PROVE  CheckoutRead(s)'
  <2>1. CASE ~Converting(r)'
    BY <1>2, <2>1 DEF CheckoutRead
  <2>2. CASE Beginning(r) /\ Converting(r)'
    <3>1. /\ req'[r].pc = "read_items"
          /\ req'[r].monto = carritos[req'[r].carrito].total /\ carritos' = carritos
      BY <1>0, <2>2, BeginStep, CheckoutBegins
    <3> QED
      BY <1>2, <1>a, <3>1
  <2>3. CASE Silent(r) /\ Converting(r)'
    <3>1. items' = items /\ carritos' = carritos /\ req'[r].carrito = req[r].carrito
      BY <1>0, <2>3, SilentStep
    <3>2. Overlapped(r) => Overlapped(r)'
      BY <1>0, <3>1, OverlapStays
    <3> QED
      BY <1>0, <1>2, <1>a, <1>b, <2>3, <3>1, <3>2, CheckoutGoesOn
  <2>4. CASE StartSaga(r) \/ CreateCarrito(r) \/ ConvertCommit(r)
    BY <1>0, <2>1, <2>4, OtherSteps DEF Converting
  <2> QED
    BY <1>2, <2>1, <2>2, <2>3, <2>4
<1>3. ASSUME NEW r \in Requests, Commit(r) PROVE CheckoutRead(s)'
  <2>1. CASE ~Converting(s)'
    BY <2>1 DEF CheckoutRead
  <2>2. CASE Converting(s)'
    <3>1. s # r /\ req'[s] = req[s] /\ Converting(s)
      BY <1>0, <1>3, <2>2, CommitStep DEF Converting
    <3>2. CASE req[s].carrito = req[r].carrito
      <4>1. Overlapped(s)'
        BY <1>0, <1>3, <1>c, <3>1, <3>2, CommitOverlaps
      <4> QED
        BY <4>1 DEF CheckoutRead
    <3>3. CASE req[s].carrito # req[r].carrito
      <4>1. carritos'[req[s].carrito] = carritos[req[s].carrito]
            /\ LinesIn(items', req[s].carrito) = LinesIn(items, req[s].carrito)
        BY <1>0, <1>3, <1>c, <3>1, <3>3, CommitCarts, CommitLines
      <4> QED
        BY <1>d, <3>1, <4>1
    <3> QED
      BY <3>2, <3>3
  <2> QED
    BY <2>1, <2>2
<1>4. CASE UNCHANGED vars
  BY <1>d, <1>4 DEF vars
<1> QED
  BY <1>1, <1>2, <1>3, <1>4, StepKinds

\* The reserva of a checkout keeps its lines until the saga is told of them.
LEMMA NextReservaMade ==
  ASSUME CheckoutInv, [Next]_vars, NEW s \in Requests
  PROVE  ReservaMade(s)'
<1>0. Inv /\ Types /\ RowsKnown /\ ReservaMade(s)
  BY DEF CheckoutInv, FullInv, Inv, TypeInv
<1>a. ASSUME req'[s] = req[s], reservas'[s] = reservas[s] PROVE ReservaMade(s)'
  <2>1. Overlapped(s) => Overlapped(s)'
    BY <1>0, <1>a, OverlapStays
  <2> QED
    BY <1>0, <1>a, <2>1 DEF ReservaMade
<1>1. ASSUME NEW r \in Requests, s # r,
             \/ Beginning(r) \/ Silent(r) \/ CreateCarrito(r) \/ Commit(r)
             \/ ConvertCommit(r) \/ StartSaga(r)
      PROVE  ReservaMade(s)'
  <2>1. req'[s] = req[s]
    BY <1>0, <1>1, RowsStay, CommitStep
  <2>2. reservas'[s] = reservas[s]
    BY <1>0, <1>1, ReservaSteps
  <2> QED
    BY <1>a, <2>1, <2>2
<1>2. ASSUME NEW r \in Requests, s = r,
             Beginning(r) \/ Silent(r) \/ CreateCarrito(r) \/ Commit(r)
      PROVE  ReservaMade(s)'
  <2>1. reservas' = reservas
    BY <1>0, <1>2, ReservaSteps
  <2>2. CASE reservas[r] = NoReserva
    BY <1>2, <2>1, <2>2 DEF ReservaMade
  <2>3. CASE reservas[r] # NoReserva
    <3>1. req[r].pc \in {"start_saga", "done", "failed"} /\ req[r].carrito = reservas[r].carrito
      BY <1>0, <1>2, <2>3 DEF ReservaMade
    <3>2. Silent(r)
      BY <1>0, <1>2, <3>1, BeginStep, CommitStep DEF CreateCarrito
    <3>3. req'[r].pc = "failed" /\ req'[r].carrito = req[r].carrito
      BY <1>0, <3>1, <3>2, SilentStep DEF Writing, Converting
    <3> QED
      BY <1>2, <2>1, <3>1, <3>3 DEF ReservaMade
  <2> QED
    BY <2>2, <2>3
<1>3. ASSUME NEW r \in Requests, s = r, ConvertCommit(r) PROVE ReservaMade(s)'
  <2>1. /\ req[r].pc = "convert_commit" /\ req[r] \in Request(Amount)
        /\ req' = [req EXCEPT ![r].pc = "start_saga"]
    BY <1>0, <1>3 DEF ConvertCommit, Types, TypesWith
  <2>2. /\ req'[r].pc = "start_saga" /\ req'[r].carrito = req[r].carrito
        /\ req'[r].seen = req[r].seen
    BY <1>0, <2>1 DEF Types, TypesWith, Request
  <2>3. /\ reservas'[r].carrito = req[r].carrito /\ reservas'[r].status = "PENDIENTE"
        /\ reservas'[r].commands = {}
        /\ reservas'[r].detalles = Detalles(req[r].lines)
    <3>1. reservas'[r] = [status |-> "PENDIENTE", carrito |-> req[r].carrito,
                          total |-> Total(req[r].lines), monto |-> req[r].monto,
                          detalles |-> Detalles(req[r].lines), commands |-> {}]
      BY <1>0, <1>3, ReservaSteps
    <3> QED
      BY <3>1
  <2>4. Detalles(req[r].lines) = req[r].seen \/ Overlapped(r)
    BY <1>3, <2>1 DEF CheckoutInv, CheckoutRead, Converting
  <2>5. Overlapped(r) => Overlapped(r)'
    BY <1>0, <2>2, OverlapStays
  <2> QED
    BY <1>3, <2>2, <2>3, <2>4, <2>5 DEF ReservaMade
<1>4. ASSUME NEW r \in Requests, s = r, StartSaga(r) PROVE ReservaMade(s)'
  <2>1. req'[r].pc = "done" /\ req'[r].carrito = req[r].carrito
    BY <1>0, <1>4 DEF StartSaga, End, Ended, Idle, Types, TypesWith
  <2>2. reservas[r] # NoReserva /\ reservas'[r].carrito = reservas[r].carrito
    BY <1>0, <1>4, ReservaSteps
  <2> QED
    BY <1>0, <1>4, <2>1, <2>2 DEF ReservaMade
<1>5. CASE UNCHANGED vars
  BY <1>a, <1>5 DEF vars
<1> QED
  BY <1>1, <1>2, <1>3, <1>4, <1>5, StepKinds

\* The rows of the cart stay covered: whoever adds one has met the checkout.
LEMMA NextRowsCovered ==
  ASSUME CheckoutInv, [Next]_vars, NEW s \in Requests
  PROVE  RowsCovered(s)'
<1>0. Inv /\ Types /\ RowsKnown /\ RowsCovered(s)
  BY DEF CheckoutInv, FullInv, Inv, TypeInv
<1>m. met \subseteq met'
  BY <1>0, MetStays
<1>1. ASSUME NEW r \in Requests,
             Beginning(r) \/ Silent(r) \/ CreateCarrito(r) \/ ConvertCommit(r) \/ StartSaga(r)
      PROVE  RowsCovered(s)'
  <2>0. items' = items /\ \A q \in Requests : q # r => req'[q] = req[q]
    BY <1>0, <1>1, RowsStay
  <2>1. CASE s # r
    BY <1>0, <1>m, <2>0, <2>1 DEF RowsCovered, Rows, Met
  <2>2. CASE s = r /\ req'[r].pc # "convert_commit"
    BY <2>2 DEF RowsCovered
  <2>3. CASE s = r /\ req'[r].pc = "convert_commit"
    <3>1. Silent(r)
      BY <1>0, <1>1, <2>3, BeginStep, OtherSteps
    <3>2. req'[r].carrito = req[r].carrito /\ req'[r].lines = LinesIn(items, req[r].carrito)
      BY <1>0, <2>3, <3>1, CheckoutGoesOn DEF Converting
    <3>3. ASSUME NEW i \in Rows', items'[i].carrito = req'[r].carrito
          PROVE  \E l \in req'[r].lines : l.row = i /\ l.producto = items'[i].producto
      <4> DEFINE l == [row |-> i, producto |-> items[i].producto,
                       cantidad |-> items[i].cantidad]
      <4>1. l \in req'[r].lines /\ l.row = i /\ l.producto = items'[i].producto
        BY <2>0, <3>2, <3>3 DEF LinesIn, Rows
      <4> QED
        BY <4>1
    <3> QED
      BY <2>3, <3>3 DEF RowsCovered
  <2> QED
    BY <2>1, <2>2, <2>3
<1>2. ASSUME NEW r \in Requests, Commit(r) PROVE RowsCovered(s)'
  <2> SUFFICES ASSUME req'[s].pc = "convert_commit", NEW i \in Rows',
                      items'[i].carrito = req'[s].carrito
               PROVE  \/ \E l \in req'[s].lines : /\ l.row = i
                                                   /\ l.producto = items'[i].producto
                      \/ Met(i, s)'
    BY DEF RowsCovered
  <2>1. s # r /\ req'[s] = req[s] /\ InFlight(s)
    BY <1>0, <1>2, CommitStep DEF InFlight
  <2>2. CASE i = r
    BY <1>0, <1>2, <1>m, <2>1, <2>2, CommitStep DEF Met
  <2>3. CASE i # r
    <3>1. /\ i \in Rows /\ items'[i].carrito = items[i].carrito
          /\ items'[i].producto = items[i].producto
      BY <1>0, <1>2, <2>3, CommitRow
    <3> QED
      BY <1>0, <1>m, <2>1, <3>1 DEF RowsCovered, Met
  <2> QED
    BY <2>2, <2>3
<1>3. CASE UNCHANGED vars
  BY <1>0, <1>3 DEF vars, RowsCovered, Rows, Met
<1> QED
  BY <1>1, <1>2, <1>3, StepKinds

\* No step but a conversion makes a cart COMPLETADO.
LEMMA CartEstados ==
  ASSUME Inv, NEW r \in Requests,
         Beginning(r) \/ Silent(r) \/ CreateCarrito(r) \/ Commit(r) \/ StartSaga(r)
  PROVE  \A d \in Requests : carritos'[d].estado = "COMPLETADO" =>
           carritos[d].estado = "COMPLETADO"
<1> USE DEF Inv, TypeInv, Types, TypesWith
<1>1. CASE Beginning(r) \/ Silent(r) \/ StartSaga(r)
  BY <1>1, BeginStep, SilentStep DEF StartSaga
<1>2. CASE CreateCarrito(r)
  BY <1>2 DEF CreateCarrito
<1>3. CASE Commit(r)
  <2>1. req[r].carrito \in Requests
    BY <1>3, CommitStep
  <2> QED
    BY <1>3, <2>1 DEF Commit
<1> QED
  BY <1>1, <1>2, <1>3

\* A request looks for its item once.
LEMMA SilentPc ==
  ASSUME Types, NEW r \in Requests, Silent(r)
  PROVE  req'[r].pc # "find_item"
<1>1. req[r] \in Request(Amount)
  BY DEF Types, TypesWith
<1>a. ASSUME NEW fields, Goto(r, fields), fields.pc # "find_item" PROVE req'[r].pc # "find_item"
  BY <1>a DEF Goto, Types, TypesWith
<1>f. Ended(r, "failed").pc = "failed"
  BY DEF Ended, Idle
<1>b. Fail(r) => req'[r].pc # "find_item"
  BY <1>a, <1>f DEF Fail
<1>2. \A i, q : [req[r] EXCEPT !.pc = "write", !.row = i, !.cantidad = q].pc = "write"
  BY <1>1 DEF Request
<1>3. \A m : [req[r] EXCEPT !.pc = "commit", !.monto = m].pc = "commit"
  BY <1>1 DEF Request
<1>4. \A l : /\ [req[r] EXCEPT !.pc = "convert", !.seen = l].pc = "convert"
             /\ [req[r] EXCEPT !.pc = "convert_items"].pc = "convert_items"
             /\ [req[r] EXCEPT !.pc = "convert_commit", !.lines = l].pc = "convert_commit"
  BY <1>1 DEF Request
<1>5. CASE AddFindItem(r)
  <2>1. ASSUME NEW i, NEW q, Goto(r, [req[r] EXCEPT !.pc = "write", !.row = i, !.cantidad = q])
        PROVE  req'[r].pc # "find_item"
    BY <1>2, <1>a, <2>1
  <2> QED
    BY <1>5, <2>1 DEF AddFindItem
<1>6. CASE WriteItem(r)
  BY <1>3, <1>6, <1>a, <1>b DEF WriteItem
<1>7. CASE CheckoutReadItems(r)
  BY <1>4, <1>7, <1>a, <1>b DEF CheckoutReadItems
<1>8. CASE ConvertRead(r)
  BY <1>4, <1>8, <1>a, <1>b DEF ConvertRead
<1>9. CASE ConvertReadItems(r)
  BY <1>4, <1>9, <1>a, <1>b DEF ConvertReadItems
<1> QED
  BY <1>5, <1>6, <1>7, <1>8, <1>9, <1>b DEF Silent, Abort

\* Whoever is about to add a row to a converted cart has met its checkout: it
\* found the cart active, so it is still under way when the cart is converted.
LEMMA NextAdderMet ==
  ASSUME CheckoutInv, [Next]_vars, NEW s \in Requests
  PROVE  AdderMet(s)'
<1>0. Inv /\ Types /\ RowsKnown /\ AdderMet(s)
  BY DEF CheckoutInv, FullInv, Inv, TypeInv
<1>m. met \subseteq met'
  BY <1>0, MetStays
\* It had, before the step, and the reservas keep their carts.
<1>a. ASSUME req[s].pc = "find_item" \/ (Placing(s) /\ req[s].row = s),
             carritos[req[s].carrito].estado = "COMPLETADO",
             req'[s].carrito = req[s].carrito,
             \A q \in Requests : reservas[q] # NoReserva =>
               reservas'[q] # NoReserva /\ reservas'[q].carrito = reservas[q].carrito
      PROVE  AdderMet(s)'
  <2>1. PICK q \in Requests : reservas[q] # NoReserva /\ reservas[q].carrito = req[s].carrito
                              /\ Met(s, q)
    BY <1>0, <1>a DEF AdderMet
  <2> QED
    BY <1>a, <1>m, <2>1 DEF AdderMet, Met
<1>1. ASSUME NEW r \in Requests, s # r,
             Beginning(r) \/ Silent(r) \/ CreateCarrito(r) \/ Commit(r) \/ StartSaga(r)
      PROVE  AdderMet(s)'
  <2>1. req'[s] = req[s]
    BY <1>0, <1>1, RowsStay, CommitStep
  <2>2. \A q \in Requests : reservas[q] # NoReserva =>
          reservas'[q] # NoReserva /\ reservas'[q].carrito = reservas[q].carrito
    BY <1>0, <1>1, ReservaSteps
  <2>3. \A d \in Requests : carritos'[d].estado = "COMPLETADO" =>
          carritos[d].estado = "COMPLETADO"
    BY <1>0, <1>1, CartEstados
  <2>4. req[s].pc = "find_item" \/ Placing(s) => req[s].carrito \in Requests
    BY <1>0 DEF Inv, TypeInv, FieldsSet, Writing, Placing
  <2> QED
    BY <1>a, <2>1, <2>2, <2>3, <2>4 DEF AdderMet, Placing
<1>2. ASSUME NEW r \in Requests, s = r, Beginning(r) PROVE AdderMet(s)'
  <2>0. carritos' = carritos /\ req[r].pc = "idle"
    BY <1>0, <1>2, BeginStep
  <2>1. CASE req'[r].pc = "find_item"
    <3>1. carritos[r] = NoCarrito
      BY <1>0, <2>0 DEF Inv, CartsKnown
    <3>2. carritos[req'[r].carrito].estado # "COMPLETADO"
      BY <1>0, <1>2, <2>1, <3>1, CheckoutBegins DEF Activos, NoCarrito
    <3> QED
      BY <1>2, <2>0, <2>1, <3>2 DEF AdderMet
  <2>2. CASE req'[r].pc # "find_item"
    <3>1. Placing(r)' => req'[r].row # r
      BY <1>0, <1>2, <2>0, BeginStep DEF Placing, RowsKnown, RowKnown, Rows
    <3> QED
      BY <1>2, <2>2, <3>1 DEF AdderMet, Placing
  <2> QED
    BY <2>1, <2>2
<1>3. ASSUME NEW r \in Requests, s = r, Silent(r) PROVE AdderMet(s)'
  <2>0. /\ carritos' = carritos /\ reservas' = reservas /\ req'[r].carrito = req[r].carrito
        /\ req'[r].pc # "find_item"
    BY <1>0, <1>3, SilentStep, SilentPc
  <2>1. CASE Placing(r)' /\ req'[r].row = r
    <3>1. req[r].pc = "find_item" \/ (Placing(r) /\ req[r].row = r)
      BY <1>0, <1>3, <2>1, PlacingStep
    <3>2. CASE carritos[req[r].carrito].estado = "COMPLETADO"
      BY <1>3, <1>a, <2>0, <3>1, <3>2
    <3>3. CASE carritos[req[r].carrito].estado # "COMPLETADO"
      BY <1>3, <2>0, <3>3 DEF AdderMet
    <3> QED
      BY <3>2, <3>3
  <2>2. CASE ~(Placing(r)' /\ req'[r].row = r)
    BY <1>3, <2>0, <2>2 DEF AdderMet, Placing
  <2> QED
    BY <2>1, <2>2
<1>4. ASSUME NEW r \in Requests, s = r,
             CreateCarrito(r) \/ Commit(r) \/ ConvertCommit(r) \/ StartSaga(r)
      PROVE  AdderMet(s)'
  <2>1. req'[r].pc \in {"done", "start_saga"}
    BY <1>0, <1>4, OtherSteps, CommitStep
  <2> QED
    BY <1>4, <2>1 DEF AdderMet, Placing
<1>5. ASSUME NEW r \in Requests, s # r, ConvertCommit(r) PROVE AdderMet(s)'
  <2> SUFFICES ASSUME req[s].pc = "find_item" \/ (Placing(s) /\ req[s].row = s),
                      carritos'[req[s].carrito].estado = "COMPLETADO"
               PROVE  AdderMet(s)'
    <3>1. req'[s] = req[s]
      BY <1>0, <1>5, OtherSteps
    <3> QED
      BY <3>1 DEF AdderMet, Placing
  <2>1. req'[s] = req[s] /\ req[r].pc = "convert_commit" /\ reservas[r] = NoReserva
    BY <1>0, <1>5, OtherSteps DEF ConvertCommit, CheckoutInv, ReservaMade
  <2>2. CASE req[s].carrito = req[r].carrito
    <3>1. Met(s, r)
      BY <1>0, <1>5, <2>1 DEF Inv, InFlightMet, InFlight, Placing
    <3>2. reservas'[r] # NoReserva /\ reservas'[r].carrito = req[r].carrito
      <4>1. reservas'[r] = [status |-> "PENDIENTE", carrito |-> req[r].carrito,
                            total |-> Total(req[r].lines), monto |-> req[r].monto,
                            detalles |-> Detalles(req[r].lines), commands |-> {}]
        BY <1>0, <1>5, ReservaSteps
      <4> QED
        BY <1>0, <1>5, <4>1, ReservaSteps
    <3> QED
      BY <1>m, <2>1, <2>2, <3>1, <3>2 DEF AdderMet, Met
  <2>3. CASE req[s].carrito # req[r].carrito
    <3>1. req[s].carrito \in Requests
      BY <1>0 DEF Inv, TypeInv, FieldsSet, Writing, Placing
    <3>2. carritos'[req[s].carrito] = carritos[req[s].carrito]
      BY <1>0, <1>5, <2>3, <3>1 DEF ConvertCommit, Types, TypesWith
    <3>3. \A q \in Requests : reservas[q] # NoReserva =>
            reservas'[q] # NoReserva /\ reservas'[q].carrito = reservas[q].carrito
      BY <1>0, <1>5, <2>1, ReservaSteps
    <3> QED
      BY <1>a, <2>1, <3>2, <3>3
  <2> QED
    BY <2>2, <2>3
<1>6. CASE UNCHANGED vars
  BY <1>0, <1>6 DEF vars, AdderMet, Placing, Met
<1> QED
  BY <1>1, <1>2, <1>3, <1>4, <1>5, <1>6, StepKinds

\* A conversion charges what it reserves: it has read the total and the lines
\* of a cart whose total is the sum of its lines, or somebody overlapped.
LEMMA NextChargedIsReserved == CheckoutInv /\ [Next]_vars => ChargedIsReserved'
<1> SUFFICES ASSUME CheckoutInv, [Next]_vars, NEW s \in Requests, reservas'[s] # NoReserva
             PROVE  \/ reservas'[s].monto = reservas'[s].total
                    \/ \E w \in Writers(reservas[s].carrito)' :
                         \/ Met(s, w)'
                         \/ \E x \in Writers(reservas[s].carrito)' :
                              Met(w, x)' /\ req'[w].row # req'[x].row
  BY DEF ChargedIsReserved
<1>0. Inv /\ Types /\ RowsKnown /\ ChargedIsReserved
  BY DEF CheckoutInv, FullInv, Inv, TypeInv
<1>m. met \subseteq met'
  BY <1>0, MetStays
<1>w. \A q \in Requests : req[q].pc = "done" => req'[q] = req[q]
  BY <1>0, DoneStays
<1>a. ASSUME reservas[s] # NoReserva, reservas'[s].carrito = reservas[s].carrito,
             reservas'[s].monto = reservas[s].monto, reservas'[s].total = reservas[s].total
      PROVE  \/ reservas'[s].monto = reservas'[s].total
             \/ \E w \in Writers(reservas[s].carrito)' :
                  \/ Met(s, w)'
                  \/ \E x \in Writers(reservas[s].carrito)' :
                       Met(w, x)' /\ req'[w].row # req'[x].row
  <2>1. \A w \in Writers(reservas[s].carrito) :
          w \in Writers(reservas[s].carrito)' /\ req'[w] = req[w]
    BY <1>a, <1>w DEF Writers
  <2>2. \A w, x : Met(w, x) => Met(w, x)'
    BY <1>m DEF Met
  <2> QED
    BY <1>0, <1>a, <2>1, <2>2 DEF ChargedIsReserved
<1>1. ASSUME NEW r \in Requests,
             \/ Beginning(r) \/ Silent(r) \/ CreateCarrito(r) \/ Commit(r) \/ StartSaga(r)
             \/ ConvertCommit(r) /\ s # r
      PROVE  /\ reservas[s] # NoReserva /\ reservas'[s].carrito = reservas[s].carrito
             /\ reservas'[s].monto = reservas[s].monto /\ reservas'[s].total = reservas[s].total
  BY <1>0, <1>1, ReservaSteps
<1>2. ASSUME NEW r \in Requests, ConvertCommit(r), s = r
      PROVE  \/ reservas'[r].monto = reservas'[r].total
             \/ \E w \in Writers(reservas[r].carrito)' :
                  \/ Met(r, w)'
                  \/ \E x \in Writers(reservas[r].carrito)' :
                       Met(w, x)' /\ req'[w].row # req'[x].row
  <2> DEFINE c == req[r].carrito
  <2>1. /\ reservas'[r].carrito = c /\ reservas'[r].monto = req[r].monto
        /\ reservas'[r].total = Total(req[r].lines)
    <3>1. reservas'[r] = [status |-> "PENDIENTE", carrito |-> req[r].carrito,
                          total |-> Total(req[r].lines), monto |-> req[r].monto,
                          detalles |-> Detalles(req[r].lines), commands |-> {}]
      BY <1>0, <1>2, ReservaSteps
    <3> QED
      BY <3>1
  <2>2. /\ req[r].pc = "convert_commit" /\ Converting(r) /\ c \in Requests
        /\ carritos[c] # NoCarrito
    BY <1>0, <1>2 DEF ConvertCommit, Converting, Inv, TypeInv, FieldsSet
  <2>3. \A w \in Writers(c) : w \in Writers(reservas[r].carrito)' /\ req'[w] = req[w]
    BY <1>w, <2>1 DEF Writers
  <2>4. \A w, x : Met(w, x) => Met(w, x)'
    BY <1>m DEF Met
  <2>5. CASE Overlapped(r)
    BY <2>3, <2>4, <2>5 DEF Overlapped
  <2>6. CASE req[r].monto = carritos[c].total /\ req[r].lines = Lines(c)
    <3>1. \/ carritos[c].total = Total(Lines(c))
          \/ \E w \in Writers(c), x \in Writers(c) : Met(w, x) /\ req[w].row # req[x].row
      BY <2>2 DEF CheckoutInv, TotalIsSum
    <3>2. CASE carritos[c].total = Total(Lines(c))
      BY <2>1, <2>6, <3>2
    <3> QED
      BY <2>3, <2>4, <3>1, <3>2
  <2>7. CheckoutRead(r)
    BY DEF CheckoutInv
  <2> QED
    BY <2>2, <2>5, <2>6, <2>7 DEF CheckoutRead
<1>3. CASE UNCHANGED vars
  BY <1>a, <1>3 DEF vars
<1> QED
  BY <1>1, <1>2, <1>3, <1>a, StepKinds

\* A saga is told of the lines of its reserva: those read before the conversion
\* are as many, and the same, or a writer overlapped.  When the transaction
\* throws it is told of none.
LEMMA NextCommandsMatch == CheckoutInv /\ [Next]_vars => CommandsMatchDetalles'
<1> DEFINE Told(q) ==
             \/ reservas[q].status = "PENDIENTE" /\ reservas[q].commands = reservas[q].detalles
             \/ reservas[q].status = "FALLIDA_PROVEEDOR" /\ reservas[q].commands = {}
             \/ \E w \in Writers(reservas[q].carrito) : Met(q, w)
<1> SUFFICES ASSUME CheckoutInv, [Next]_vars, NEW s \in Requests,
                    reservas'[s] # NoReserva, req'[s].pc = "done"
             PROVE  Told(s)'
  BY DEF CommandsMatchDetalles
<1>0. Inv /\ Types /\ RowsKnown /\ CommandsMatchDetalles /\ ReservaMade(s)
  BY DEF CheckoutInv, FullInv, Inv, TypeInv
<1>w. \A q \in Requests : req[q].pc = "done" => req'[q] = req[q]
  BY <1>0, DoneStays
<1>a. ASSUME reservas'[s] = reservas[s], req'[s] = req[s] PROVE Told(s)'
  <2>1. Told(s)
    BY <1>0, <1>a DEF CommandsMatchDetalles
  <2>2. \A w \in Writers(reservas[s].carrito) :
          w \in Writers(reservas[s].carrito)' /\ (Met(s, w) => Met(s, w)')
    BY <1>0, <1>a, <1>w, MetStays DEF Writers, Met
  <2> QED
    BY <1>a, <2>1, <2>2
<1>1. ASSUME NEW r \in Requests, s # r,
             \/ Beginning(r) \/ Silent(r) \/ CreateCarrito(r) \/ Commit(r)
             \/ ConvertCommit(r) \/ StartSaga(r)
      PROVE  reservas'[s] = reservas[s] /\ req'[s] = req[s]
  <2>1. reservas'[s] = reservas[s]
    BY <1>0, <1>1, ReservaSteps
  <2>2. req'[s] = req[s]
    BY <1>0, <1>1, RowsStay, CommitStep
  <2> QED
    BY <2>1, <2>2
<1>2. ASSUME NEW r \in Requests, s = r PROVE ~Beginning(r) /\ ~Silent(r)
  BY <1>0, <1>2, BeginStep, SilentStep DEF Writing, Converting
<1>3. ASSUME NEW r \in Requests, s = r PROVE ~CreateCarrito(r) /\ ~Commit(r)
  BY <1>0, <1>3, ReservaSteps DEF ReservaMade, CreateCarrito, Commit
<1>4. ASSUME NEW r \in Requests, s = r PROVE ~ConvertCommit(r)
  <2>1. req[r] \in Request(Amount)
    BY <1>0 DEF Types, TypesWith
  <2> QED
    BY <1>0, <1>4, <2>1 DEF ConvertCommit, Types, TypesWith, Request
<1>5. ASSUME NEW r \in Requests, s = r, StartSaga(r) PROVE Told(s)'
  <2>1. req[r].pc = "start_saga" /\ req'[r].carrito = req[r].carrito
    BY <1>0, <1>5 DEF StartSaga, End, Ended, Idle, Types, TypesWith
  <2>2. /\ reservas[r] # NoReserva /\ reservas'[r].carrito = reservas[r].carrito
        /\ reservas'[r].detalles = reservas[r].detalles
    BY <1>0, <1>5, ReservaSteps
  <2>3. /\ reservas[r].status = "PENDIENTE" /\ reservas[r].commands = {}
        /\ reservas[r].carrito = req[r].carrito
        /\ reservas[r].detalles = req[r].seen \/ Overlapped(r)
    BY <1>0, <1>5, <2>1, <2>2 DEF ReservaMade
  <2>4. CASE Overlapped(r)
    <3>1. Overlapped(r)'
      BY <1>0, <2>1, <2>4, OverlapStays
    <3> QED
      BY <1>5, <2>1, <2>2, <2>3, <3>1 DEF Overlapped
  <2>5. CASE reservas[r].detalles = req[r].seen
    <3>1. IsFiniteSet(req[r].seen) /\ Cardinality(req[r].seen) \in Nat
      BY <1>0, FS_CardinalityType DEF Inv, TypeInv, LinesFinite
    <3>2. reservas[r] \in Reserva(Amount)
      BY <1>0, <2>2 DEF Types, TypesWith
    <3>3. ASSUME NEW S \in kSubset(Cardinality(req[r].seen), req[r].seen),
                 reservas' = [reservas EXCEPT ![r].commands = S]
          PROVE  Told(s)'
      <4>1. S = req[r].seen
        BY <3>1, FS_Subset DEF kSubset
      <4>2. reservas'[r].status = reservas[r].status /\ reservas'[r].commands = S
        BY <1>0, <3>2, <3>3 DEF Types, TypesWith, Reserva
      <4> QED
        BY <1>5, <2>2, <2>3, <2>5, <4>1, <4>2
    <3>4. ASSUME reservas' = [reservas EXCEPT ![r].status = "FALLIDA_PROVEEDOR"]
          PROVE  Told(s)'
      <4>1. /\ reservas'[r].status = "FALLIDA_PROVEEDOR"
            /\ reservas'[r].commands = reservas[r].commands
        BY <1>0, <3>2, <3>4 DEF Types, TypesWith, Reserva
      <4> QED
        BY <1>5, <2>3, <4>1
    <3> QED
      BY <1>5, <2>5, <3>3, <3>4 DEF StartSaga
  <2> QED
    BY <2>3, <2>4, <2>5
<1>6. CASE UNCHANGED vars
  BY <1>a, <1>6 DEF vars
<1> HIDE DEF Told
<1> QED
  BY <1>1, <1>2, <1>3, <1>4, <1>5, <1>6, <1>a, StepKinds

\* No row is left behind in a converted cart, but by who met its checkout.
LEMMA NextNoItemLeftBehind == CheckoutInv /\ [Next]_vars => NoItemLeftBehind'
<1> SUFFICES ASSUME CheckoutInv, [Next]_vars, NEW i \in Rows',
                    carritos'[items'[i].carrito].estado = "COMPLETADO",
                    items'[i].producto \notin SinId
             PROVE  \E q \in Requests :
                      /\ reservas'[q] # NoReserva /\ reservas'[q].carrito = items'[i].carrito
                      /\ (\E l \in reservas'[q].detalles : l.row = i) \/ {i, q} \in met'
  BY DEF NoItemLeftBehind, Met
<1>0. Inv /\ Types /\ RowsKnown /\ NoItemLeftBehind
  BY DEF CheckoutInv, FullInv, Inv, TypeInv
<1>m. met \subseteq met'
  BY <1>0, MetStays
<1>a. ASSUME i \in Rows, items'[i].carrito = items[i].carrito,
             items'[i].producto = items[i].producto,
             carritos[items[i].carrito].estado = "COMPLETADO",
             \A q \in Requests : reservas[q] # NoReserva =>
               /\ reservas'[q] # NoReserva /\ reservas'[q].carrito = reservas[q].carrito
               /\ reservas'[q].detalles = reservas[q].detalles
      PROVE  \E q \in Requests :
               /\ reservas'[q] # NoReserva /\ reservas'[q].carrito = items'[i].carrito
               /\ (\E l \in reservas'[q].detalles : l.row = i) \/ {i, q} \in met'
  <2>1. \E q \in Requests :
          /\ reservas[q] # NoReserva /\ reservas[q].carrito = items[i].carrito
          /\ (\E l \in reservas[q].detalles : l.row = i) \/ {i, q} \in met
    BY <1>0, <1>a DEF NoItemLeftBehind, Met
  <2> QED
    BY <1>a, <1>m, <2>1
<1>1. ASSUME NEW r \in Requests,
             Beginning(r) \/ Silent(r) \/ CreateCarrito(r) \/ Commit(r) \/ StartSaga(r)
      PROVE  /\ \A q \in Requests : reservas[q] # NoReserva =>
                  /\ reservas'[q] # NoReserva /\ reservas'[q].carrito = reservas[q].carrito
                  /\ reservas'[q].detalles = reservas[q].detalles
             /\ \A d \in Requests : carritos'[d].estado = "COMPLETADO" =>
                  carritos[d].estado = "COMPLETADO"
  BY <1>0, <1>1, ReservaSteps, CartEstados
<1>b. \A j \in Rows : items[j].carrito \in Requests
  BY <1>0 DEF Types, TypesWith, Rows, Item
<1>2. ASSUME NEW r \in Requests, Beginning(r) \/ Silent(r) \/ CreateCarrito(r) \/ StartSaga(r)
      PROVE  \E q \in Requests :
               /\ reservas'[q] # NoReserva /\ reservas'[q].carrito = items'[i].carrito
               /\ (\E l \in reservas'[q].detalles : l.row = i) \/ {i, q} \in met'
  <2>1. items' = items /\ i \in Rows
    BY <1>0, <1>2, RowsStay DEF Rows
  <2> QED
    BY <1>1, <1>2, <1>a, <1>b, <2>1
<1>3. ASSUME NEW r \in Requests, Commit(r)
      PROVE  \E q \in Requests :
               /\ reservas'[q] # NoReserva /\ reservas'[q].carrito = items'[i].carrito
               /\ (\E l \in reservas'[q].detalles : l.row = i) \/ {i, q} \in met'
  <2>1. CASE i # r \/ req[r].row # r
    <3>1. /\ i \in Rows /\ items'[i].carrito = items[i].carrito
          /\ items'[i].producto = items[i].producto
      <4>1. CASE i # r
        BY <1>0, <1>3, <4>1, CommitRow
      <4>2. CASE i = r /\ req[r].row # r
        BY <1>0, <1>3, <4>2, CommitStep DEF Rows
      <4> QED
        BY <2>1, <4>1, <4>2
    <3> QED
      BY <1>1, <1>3, <1>a, <1>b, <3>1
  <2>2. CASE i = r /\ req[r].row = r
    <3>1. /\ Placing(r) /\ req[r].op # "remove" /\ req[r].carrito \in Requests
      BY <1>0, <1>3, <2>2, CommitStep DEF RowsKnown, RowKnown, Placing
    <3>2. items'[r].carrito = req[r].carrito
      <4>1. items'[r] =
              [carrito |-> req[r].carrito, producto |-> req[r].producto,
               cantidad |-> req[r].cantidad,
               meant |-> (IF req[r].op = "add" /\ req[r].row # r
                            THEN items[req[r].row].meant ELSE 0) + req[r].asked]
        BY <1>0, <1>3, <2>2, <3>1, CommitStep
      <4> QED
        BY <4>1
    <3>3. carritos[req[r].carrito].estado = "COMPLETADO"
      BY <1>1, <1>3, <2>2, <3>1, <3>2
    <3>4. PICK q \in Requests : reservas[q] # NoReserva /\ reservas[q].carrito = req[r].carrito
                                /\ {r, q} \in met
      BY <2>2, <3>1, <3>3 DEF CheckoutInv, AdderMet, Met
    <3> QED
      BY <1>1, <1>3, <1>m, <2>2, <3>2, <3>4
  <2> QED
    BY <2>1, <2>2
<1>4. ASSUME NEW r \in Requests, ConvertCommit(r)
      PROVE  \E q \in Requests :
               /\ reservas'[q] # NoReserva /\ reservas'[q].carrito = items'[i].carrito
               /\ (\E l \in reservas'[q].detalles : l.row = i) \/ {i, q} \in met'
  <2>1. items' = items /\ i \in Rows /\ req[r].pc = "convert_commit"
    BY <1>0, <1>4, OtherSteps DEF Rows, ConvertCommit
  <2>2. CASE items[i].carrito = req[r].carrito
    <3>1. \/ \E l \in req[r].lines : l.row = i /\ l.producto = items[i].producto
          \/ {i, r} \in met
      BY <2>1, <2>2 DEF CheckoutInv, RowsCovered, Met
    <3>2. /\ reservas'[r] # NoReserva /\ reservas'[r].carrito = req[r].carrito
          /\ reservas'[r].detalles = Detalles(req[r].lines)
      <4>1. reservas'[r] = [status |-> "PENDIENTE", carrito |-> req[r].carrito,
                            total |-> Total(req[r].lines), monto |-> req[r].monto,
                            detalles |-> Detalles(req[r].lines), commands |-> {}]
        BY <1>0, <1>4, ReservaSteps
      <4>2. reservas'[r] # NoReserva
        BY <1>0, <1>4, ReservaSteps
      <4> QED
        BY <4>1, <4>2
    <3>3. (\E l \in Detalles(req[r].lines) : l.row = i) \/ {i, r} \in met
      BY <2>1, <3>1 DEF Detalles
    <3> QED
      BY <1>m, <2>1, <2>2, <3>2, <3>3
  <2>3. CASE items[i].carrito # req[r].carrito
    <3>1. reservas[r] = NoReserva
      BY <2>1 DEF CheckoutInv, ReservaMade
    <3>2. carritos'[items[i].carrito] = carritos[items[i].carrito]
      BY <1>0, <1>4, <1>b, <2>1, <2>3 DEF ConvertCommit, Types, TypesWith
    <3> QED
      BY <1>0, <1>4, <1>a, <2>1, <3>1, <3>2, ReservaSteps
  <2> QED
    BY <2>2, <2>3
<1>5. CASE UNCHANGED vars
  BY <1>a, <1>5 DEF vars, Rows
<1> QED
  BY <1>2, <1>3, <1>4, <1>5, StepKinds

\* Every step keeps what is known of the checkouts.
LEMMA NextCheckoutInv == CheckoutInv /\ [Next]_vars => CheckoutInv'
<1> SUFFICES ASSUME CheckoutInv, [Next]_vars PROVE CheckoutInv'
  OBVIOUS
<1>1. FullInv'
  BY NextFullInv DEF CheckoutInv
<1>2. \A r \in Requests : /\ SumRead(r)' /\ CheckoutRead(r)' /\ ReservaMade(r)'
                          /\ RowsCovered(r)' /\ AdderMet(r)'
  BY NextSumRead, NextCheckoutRead, NextReservaMade, NextRowsCovered, NextAdderMet
<1>3. TotalIsSum' /\ ChargedIsReserved' /\ CommandsMatchDetalles' /\ NoItemLeftBehind'
  BY NextTotalIsSum, NextChargedIsReserved, NextCommandsMatch, NextNoItemLeftBehind
<1> QED
  BY <1>1, <1>2, <1>3 DEF CheckoutInv

-----------------------------------------------------------------------------
(* The theorems *)

\* The invariant with what transactions and checkouts know of their cart.
THEOREM CheckoutInvariance == Spec => []CheckoutInv
BY InitCheckout, NextCheckoutInv, PTL DEF Spec

\* UnitOfWork.addItemToCarritoAtomic and the like: a stored total is the sum of
\* the rows, unless writers of two rows of the cart overlapped.
THEOREM TotalIsSumAlways == Spec => []TotalIsSum
<1>1. CheckoutInv => TotalIsSum
  BY DEF CheckoutInv
<1> QED
  BY CheckoutInvariance, <1>1, PTL

\* CheckoutV2Service: what is charged is the total of the reserva, unless a
\* writer of the cart overlapped the checkout, or writers of it each other.
THEOREM ChargedIsReservedAlways == Spec => []ChargedIsReserved
<1>1. CheckoutInv => ChargedIsReserved
  BY DEF CheckoutInv
<1> QED
  BY CheckoutInvariance, <1>1, PTL

\* CheckoutV2Service: the saga is told to reserve every detalle of the reserva,
\* or the reserva has failed and nothing was sent, unless a writer of the cart
\* overlapped the checkout.
THEOREM CommandsMatchDetallesAlways == Spec => []CommandsMatchDetalles
<1>1. CheckoutInv => CommandsMatchDetalles
  BY DEF CheckoutInv
<1> QED
  BY CheckoutInvariance, <1>1, PTL

\* UnitOfWork.convertirCarritoAReservaGrpcAtomic: a row of a converted cart is
\* in one of its reservas, or who added it overlapped a checkout of the cart, or
\* it has no id_producto_externo.
THEOREM NoItemLeftBehindAlways == Spec => []NoItemLeftBehind
<1>1. CheckoutInv => NoItemLeftBehind
  BY DEF CheckoutInv
<1> QED
  BY CheckoutInvariance, <1>1, PTL
=============================================================================
