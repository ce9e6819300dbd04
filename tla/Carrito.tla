------------------------------- MODULE Carrito -------------------------------
(***************************************************************************)
(* The cart of one client and its conversion into a reserva.  Requests of  *)
(* CarritoService and of a checkout run side by side; UnitOfWork gives     *)
(* each a PostgreSQL transaction at READ COMMITTED: a statement sees what  *)
(* was committed when it began, and only a row that is being updated is    *)
(* locked.  A cart and a row are named by the request that inserts them.   *)
(***************************************************************************)
EXTENDS Naturals, FiniteSets, FiniteSetsExt

CONSTANTS Requests,
          Products,    \* the values of id_producto_externo
          SinId,       \* those the checkout takes for none: the empty string
          Precio,      \* the precio_unitario the client sends for a product
          Cantidades,  \* bound: the quantities a client asks for
          Nada         \* no cart, no row, no product

ASSUME RequestsAssumption == IsFiniteSet(Requests) /\ Nada \notin Requests \cup Products
ASSUME SinIdAssumption == SinId \subseteq Products
ASSUME PrecioAssumption == Precio \in [Products -> Nat]
ASSUME CantidadesAssumption == Cantidades \subseteq Nat \ {0}

VARIABLES carritos,  \* the rows of table carritos, all of one client
          items,     \* the rows of table items_carrito
          reservas,  \* the rows of table reservas with their detalles
          req,       \* each request: what it has read, and the step it is at
          met        \* history: the pairs of requests that ran at the same time

vars == <<carritos, items, reservas, req, met>>

\* "meant" is history: the quantity if the committed requests had run in turn.
Item == [carrito : Requests, producto : Products, cantidad : Nat \ {0}, meant : Nat \ {0}]
NoItem == [carrito |-> Nada]
NoCarrito == [estado |-> "NONE"]
NoReserva == [status |-> "NONE"]

\* What a query with include: items_carrito returns of a row.
Line == [row : Requests, producto : Products, cantidad : Nat \ {0}]

\* monto: the total read with the cart, which is what will be charged; seen:
\* the lines read before the conversion; lines: those its transaction read.
Request(Amount) ==
  [pc : {"idle", "create", "find_item", "write", "commit", "read_items", "convert",
         "convert_items", "convert_commit", "start_saga", "done", "failed"},
   op : {"none", "get", "add", "update", "remove", "checkout"},
   carrito : Requests \cup {Nada}, row : Requests \cup {Nada},
   producto : Products \cup {Nada}, asked : Nat, cantidad : Nat, monto : Amount,
   seen : SUBSET Line, lines : SUBSET Line]

Carrito(Amount) == [estado : {"ACTIVO", "COMPLETADO"}, total : Amount]

\* commands: the lines the saga was told to reserve at the providers.
Reserva(Amount) ==
  [status : {"PENDIENTE", "FALLIDA_PROVEEDOR"}, carrito : Requests, total : Amount,
   monto : Amount, detalles : SUBSET Line, commands : SUBSET Line]

\* The types, for a set of values that a sum of prices can have.
TypesWith(Amount) ==
  /\ carritos \in [Requests -> Carrito(Amount) \cup {NoCarrito}]
  /\ items \in [Requests -> Item \cup {NoItem}]
  /\ reservas \in [Requests -> Reserva(Amount) \cup {NoReserva}]
  /\ req \in [Requests -> Request(Amount)]
  /\ met \subseteq SUBSET Requests

TypeOK == TypesWith(Nat)

Idle == [pc |-> "idle", op |-> "none", carrito |-> Nada, row |-> Nada, producto |-> Nada,
         asked |-> 0, cantidad |-> 0, monto |-> 0, seen |-> {}, lines |-> {}]

Init ==
  /\ carritos = [r \in Requests |-> NoCarrito]
  /\ items = [r \in Requests |-> NoItem]
  /\ reservas = [r \in Requests |-> NoReserva]
  /\ req = [r \in Requests |-> Idle]
  /\ met = {}

-----------------------------------------------------------------------------
(* The queries, on what is committed. *)

Rows == {i \in Requests : items[i] # NoItem}

\* Mutant: the query forgets the estado.
AnyCarrito == {c \in Requests : carritos[c] # NoCarrito}

\* carritos.findFirst({ id_cliente, estado: 'ACTIVO' }): any of them.
Activos == {c \in Requests : carritos[c].estado = "ACTIVO"}

\* Mutant: every add inserts a row.
NoneExisting(c, p) == {}

\* items_carrito.findFirst({ id_carrito, id_producto_externo }): any of them.
Existing(c, p) == {i \in Rows : items[i].carrito = c /\ items[i].producto = p}

LineOf(i) == [row |-> i, producto |-> items[i].producto, cantidad |-> items[i].cantidad]

Lines(c) == {LineOf(i) : i \in {j \in Rows : items[j].carrito = c}}

Total(lines) == MapThenSumSet(LAMBDA l : l.cantidad * Precio[l.producto], lines)

\* Is the row updated by a transaction that has not ended?
Locked(i) == \E s \in Requests : req[s].pc = "commit" /\ req[s].row = i

InFlight(r) == req[r].pc \notin {"idle", "done", "failed"}

-----------------------------------------------------------------------------
(* Steps common to every request. *)

Begin(r, fields) ==
  /\ req[r].pc = "idle"
  /\ req' = [req EXCEPT ![r] = fields]
  /\ met' = met \cup {{r, s} : s \in {q \in Requests : InFlight(q)}}
  /\ UNCHANGED <<carritos, items, reservas>>

\* The request goes on with these fields; nothing is committed.
Goto(r, fields) ==
  /\ req' = [req EXCEPT ![r] = fields]
  /\ UNCHANGED <<carritos, items, reservas, met>>

\* What is kept of a request that ended is what the properties ask of it.
Ended(r, pc) == [Idle EXCEPT !.pc = pc, !.op = req[r].op, !.carrito = req[r].carrito,
                             !.row = req[r].row]

Fail(r) == Goto(r, Ended(r, "failed"))

End(r) == req' = [req EXCEPT ![r] = Ended(r, "done")] /\ UNCHANGED met

\* The transaction times out, the connection or the process dies: rollback.
Abort(r) == InFlight(r) /\ Fail(r)

-----------------------------------------------------------------------------
(* GET carrito/me: the active cart, created when there is none. *)

GetCarritoActivo(r) ==
  /\ Activos = {}
  /\ Begin(r, [Idle EXCEPT !.pc = "create", !.op = "get", !.carrito = r])

CreateCarrito(r) ==
  /\ req[r].pc = "create"
  /\ carritos' = [carritos EXCEPT ![r] = [estado |-> "ACTIVO", total |-> 0]]
  /\ End(r)
  /\ UNCHANGED <<items, reservas>>

-----------------------------------------------------------------------------
(* POST carrito/add, PATCH and DELETE carrito/item: one transaction each. *)

\* A cart the transaction inserts is not visible to the others before it ends.
AddItem(r, p, q) ==
  \E c \in IF Activos = {} THEN {r} ELSE Activos :
    Begin(r, [Idle EXCEPT !.pc = "find_item", !.op = "add", !.carrito = c,
                          !.producto = p, !.asked = q])

\* Mutants: the quantity is replaced; it is taken off.
OnlyTheNew(i, q) == q
TakenOff(i, q) == items[i].cantidad - q

\* The quantity read here is the one that is written, whatever it is by then.
NewCantidad(i, q) == items[i].cantidad + q

AddFindItem(r) ==
  LET found == Existing(req[r].carrito, req[r].producto) IN
  /\ req[r].pc = "find_item"
  /\ \/ /\ found = {}
        /\ Goto(r, [req[r] EXCEPT !.pc = "write", !.row = r, !.cantidad = req[r].asked])
     \/ \E i \in found :
          Goto(r, [req[r] EXCEPT !.pc = "write", !.row = i,
                                 !.cantidad = NewCantidad(i, req[r].asked)])

UpdateItemCantidad(r, i, q) ==
  Begin(r, [Idle EXCEPT !.pc = "write", !.op = "update", !.carrito = items[i].carrito,
                        !.row = i, !.producto = items[i].producto,
                        !.asked = q, !.cantidad = q])

RemoveItem(r, i) ==
  Begin(r, [Idle EXCEPT !.pc = "write", !.op = "remove", !.carrito = items[i].carrito,
                        !.row = i])

\* Mutants: the sum is made before the write; the old line is counted too.
LinesBefore(r) == Lines(req[r].carrito)
LinesAndNew(r) ==
  Lines(req[r].carrito)
    \cup IF req[r].op = "remove" THEN {}
         ELSE {[row |-> req[r].row, producto |-> req[r].producto,
                cantidad |-> req[r].cantidad]}

\* The lines the transaction sees once it has written its row.
LinesWritten(r) ==
  {l \in Lines(req[r].carrito) : l.row # req[r].row}
    \cup IF req[r].op = "remove" THEN {}
         ELSE {[row |-> req[r].row, producto |-> req[r].producto,
                cantidad |-> req[r].cantidad]}

\* Insert, update or delete of the row, then the sum of the rows.  An update
\* waits for the transaction that holds the row, and fails if that deleted it.
WriteItem(r) ==
  /\ req[r].pc = "write"
  /\ ~Locked(req[r].row)
  /\ IF req[r].row \in Rows \cup {r}
     THEN Goto(r, [req[r] EXCEPT !.pc = "commit", !.monto = Total(LinesWritten(r))])
     ELSE Fail(r)

\* The total is set, on the row as it is now, and the transaction commits.
Commit(r) ==
  LET c == req[r].carrito
      i == req[r].row
      base == IF req[r].op = "add" /\ i # r THEN items[i].meant ELSE 0
  IN /\ req[r].pc = "commit"
     /\ items' = [items EXCEPT ![i] =
                    IF req[r].op = "remove" THEN NoItem
                    ELSE [carrito |-> c, producto |-> req[r].producto,
                          cantidad |-> req[r].cantidad, meant |-> base + req[r].asked]]
     /\ carritos' = [carritos EXCEPT ![c] =
                       [estado |-> IF carritos[c] = NoCarrito THEN "ACTIVO"
                                   ELSE carritos[c].estado,
                        total |-> req[r].monto]]
     /\ End(r)
     /\ UNCHANGED reservas

-----------------------------------------------------------------------------
(* A checkout: the cart is read, then converted in a transaction. *)

\* Mutant: the estado is not looked at.
Exists(c) == carritos[c] # NoCarrito

Disponible(c) == carritos[c].estado = "ACTIVO"

\* findById reads the cart and its items in two statements, in no transaction.
Checkout(r, c) ==
  /\ Disponible(c)
  /\ Begin(r, [Idle EXCEPT !.pc = "read_items", !.op = "checkout", !.carrito = c,
                           !.monto = carritos[c].total])

\* The lines that become a detalle: both the checkout and the conversion skip
\* those without an id_producto_externo.
Detalles(lines) == {l \in lines : l.producto \notin SinId}

CheckoutReadItems(r) ==
  LET lines == Detalles(Lines(req[r].carrito)) IN
  /\ req[r].pc = "read_items"
  /\ IF lines = {} THEN Fail(r)
     ELSE Goto(r, [req[r] EXCEPT !.pc = "convert", !.seen = lines])

ConvertRead(r) ==
  /\ req[r].pc = "convert"
  /\ IF Disponible(req[r].carrito)
     THEN Goto(r, [req[r] EXCEPT !.pc = "convert_items"])
     ELSE Fail(r)

ConvertReadItems(r) ==
  LET lines == Lines(req[r].carrito) IN
  /\ req[r].pc = "convert_items"
  /\ IF lines = {} THEN Fail(r)
     ELSE Goto(r, [req[r] EXCEPT !.pc = "convert_commit", !.lines = lines])

\* The estado is updated with no condition on what it is by now, and the total
\* counts the lines that have no detalle too.
ConvertCommit(r) ==
  LET c == req[r].carrito IN
  /\ req[r].pc = "convert_commit"
  /\ reservas' = [reservas EXCEPT ![r] =
       [status |-> "PENDIENTE", carrito |-> c, total |-> Total(req[r].lines),
        monto |-> req[r].monto, detalles |-> Detalles(req[r].lines), commands |-> {}]]
  /\ carritos' = [carritos EXCEPT ![c].estado = "COMPLETADO"]
  /\ req' = [req EXCEPT ![r].pc = "start_saga"]
  /\ UNCHANGED <<items, met>>

\* Mutant: the commands are published outside the transaction, so those before
\* the one that throws are sent.
StartSagaPiecemeal(r) ==
  /\ req[r].pc = "start_saga"
  /\ \E S \in SUBSET req[r].seen :
       reservas' = [reservas EXCEPT
         ![r].commands = S,
         ![r].status = IF Cardinality(S) = Cardinality(reservas[r].detalles)
                       THEN "PENDIENTE" ELSE "FALLIDA_PROVEEDOR"]
  /\ End(r)
  /\ UNCHANGED <<carritos, items>>

\* One transaction makes the saga and the commands: the i-th detalle is ordered
\* with the i-th line that was read before the conversion.  It throws for want
\* of a line, of a provider, of a field of the metadata or of the database; no
\* command is sent then, and the reserva has failed.
StartSaga(r) ==
  /\ req[r].pc = "start_saga"
  /\ \/ \E S \in kSubset(Cardinality(reservas[r].detalles), req[r].seen) :
          reservas' = [reservas EXCEPT ![r].commands = S]
     \/ reservas' = [reservas EXCEPT ![r].status = "FALLIDA_PROVEEDOR"]
  /\ End(r)
  /\ UNCHANGED <<carritos, items>>

-----------------------------------------------------------------------------
\* Every request has been answered.
Quiet ==
  /\ \A r \in Requests : req[r].pc \in {"done", "failed"}
  /\ UNCHANGED vars

Next ==
  \/ \E r \in Requests :
       \/ GetCarritoActivo(r) \/ CreateCarrito(r)
       \/ \E p \in Products, q \in Cantidades : AddItem(r, p, q)
       \/ \E i \in Rows : RemoveItem(r, i) \/ \E q \in Cantidades : UpdateItemCantidad(r, i, q)
       \/ AddFindItem(r) \/ WriteItem(r) \/ Commit(r)
       \/ \E c \in Requests : Checkout(r, c)
       \/ CheckoutReadItems(r) \/ ConvertRead(r) \/ ConvertReadItems(r)
       \/ ConvertCommit(r) \/ StartSaga(r)
       \/ Abort(r)
  \/ Quiet

Spec == Init /\ [][Next]_vars

-----------------------------------------------------------------------------
(* Nothing serialises the requests of a client, so each property says which *)
(* two of them must have run at the same time for it to fail.               *)

Met(r, s) == {r, s} \in met

\* The committed requests that wrote a row of cart c.
Writers(c) == {r \in Requests : /\ req[r].pc = "done" /\ req[r].carrito = c
                                /\ req[r].op \in {"add", "update", "remove"}}

\* Find-or-create makes one: a client has two active carts, or a cart two rows
\* of one product, only if the two requests that inserted them overlapped.
FindOrCreateMakesOne ==
  /\ \A c \in Activos, d \in Activos : c = d \/ Met(c, d)
  /\ \A i \in Rows, j \in Rows :
       (i # j /\ items[i].carrito = items[j].carrito) =>
         items[i].producto # items[j].producto \/ Met(i, j)

\* The stored total is the sum of the rows unless writers of different rows
\* overlapped: those of one row wait for each other, and sum afterwards.
TotalIsSum ==
  \A c \in Requests :
    \/ carritos[c] = NoCarrito
    \/ carritos[c].total = Total(Lines(c))
    \/ \E r \in Writers(c), s \in Writers(c) : Met(r, s) /\ req[r].row # req[s].row

\* A row has the quantity its requests add up to unless an add, which reads
\* the quantity before it waits for the row, overlapped another writer of it.
QuantityIsMeant ==
  \A i \in Rows :
    \/ items[i].cantidad = items[i].meant
    \/ \E r \in Writers(items[i].carrito), s \in Writers(items[i].carrito) :
         req[r].op = "add" /\ req[r].row = i /\ req[s].row = i /\ r # s /\ Met(r, s)

\* A cart becomes two reservas only if the two checkouts overlapped: a retry
\* after the first one has answered never reserves and charges again.
OneReservaPerCart ==
  \A r \in Requests, s \in Requests :
    (reservas[r] # NoReserva /\ reservas[s] # NoReserva /\ r # s)
      => reservas[r].carrito # reservas[s].carrito \/ Met(r, s)

\* What is charged, the total read with the cart, is the total of the reserva
\* unless a writer overlapped the checkout, or writers of two rows each other.
ChargedIsReserved ==
  \A r \in Requests :
    \/ reservas[r] = NoReserva
    \/ reservas[r].monto = reservas[r].total
    \/ \E w \in Writers(reservas[r].carrito) :
         \/ Met(r, w)
         \/ \E x \in Writers(reservas[r].carrito) : Met(w, x) /\ req[w].row # req[x].row

\* A checkout that ended has told the saga to reserve every detalle of its
\* reserva as it is there, or has failed it and sent nothing at all, unless a
\* writer of the cart overlapped it.
CommandsMatchDetalles ==
  \A r \in Requests :
    (reservas[r] # NoReserva /\ req[r].pc = "done")
      => \/ reservas[r].status = "PENDIENTE" /\ reservas[r].commands = reservas[r].detalles
         \/ reservas[r].status = "FALLIDA_PROVEEDOR" /\ reservas[r].commands = {}
         \/ \E w \in Writers(reservas[r].carrito) : Met(r, w)

\* No item is left behind: a row of a converted cart that no reserva has was
\* added by a request that overlapped a checkout of that cart, or has no
\* id_producto_externo.
NoItemLeftBehind ==
  \A i \in Rows :
    LET c == items[i].carrito
        of == {r \in Requests : reservas[r] # NoReserva /\ reservas[r].carrito = c}
    IN (carritos[c].estado = "COMPLETADO" /\ items[i].producto \notin SinId) =>
         \/ \E r \in of : \E l \in reservas[r].detalles : l.row = i
         \/ \E r \in of : Met(i, r)
=============================================================================
