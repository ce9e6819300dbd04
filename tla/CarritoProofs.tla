---------------------------- MODULE CarritoProofs ----------------------------
(* Theorems about Carrito, for any number of requests and products. *)
EXTENDS Carrito, FiniteSetTheorems, WellFoundedInduction, TLAPS

-----------------------------------------------------------------------------
(* Sums.  The library states induction for a predicate, which the provers    *)
(* cannot instantiate; a set of natural numbers does as well.                *)

\* The least natural number of a set.
LEMMA Least ==
  ASSUME NEW T \in SUBSET Nat, T # {}
  PROVE  \E n \in T : \A m \in T : n <= m
<1>1. \E n \in T : \A m \in T : <<m, n>> \notin OpToRel(<, Nat)
  BY NatLessThanWellFounded, WFMin, Zenon
<1>2. \A m, n \in Nat : <<m, n>> \notin OpToRel(<, Nat) => n <= m
  BY DEF OpToRel
<1> QED
  BY <1>1, <1>2

\* Induction, over a set rather than a predicate.
LEMMA Induction ==
  ASSUME NEW T \in SUBSET Nat, 0 \in T, \A n \in T : n + 1 \in T
  PROVE  T = Nat
<1> SUFFICES ASSUME T # Nat PROVE FALSE
  OBVIOUS
<1>1. PICK n \in Nat \ T : \A m \in Nat \ T : n <= m
  BY Least
<1>2. n # 0 /\ n - 1 \in Nat /\ n - 1 \in T
  BY <1>1
<1> QED
  BY <1>1, <1>2

\* A sum of lines is a natural number: by induction on how many there are, the
\* function that the fold is made of exists, and its values are.
LEMMA SumIsNat ==
  ASSUME NEW S \in SUBSET Line, IsFiniteSet(S)
  PROVE  Total(S) \in Nat
<1> DEFINE Pick(s) == CHOOSE x \in s : TRUE
           Term(x) == x.cantidad * Precio[x.producto]
           R(g, s) == IF s = {} THEN 0 ELSE Term(Pick(s)) + g[s \ {Pick(s)}]
           Small(n) == {s \in SUBSET S : Cardinality(s) <= n}
           Has == {n \in Nat : \E g : g = [s \in Small(n) |-> R(g, s)]}
<1>1. \A s \in SUBSET S : IsFiniteSet(s) /\ Cardinality(s) \in Nat
                          /\ Cardinality(s) <= Cardinality(S)
  BY FS_Subset, FS_CardinalityType
<1>2. \A s \in SUBSET S : s # {} =>
        /\ Pick(s) \in s /\ s \ {Pick(s)} \in SUBSET S
        /\ Cardinality(s \ {Pick(s)}) = Cardinality(s) - 1 /\ Cardinality(s) # 0
  BY <1>1, FS_RemoveElement, FS_EmptySet
<1>3. \A s \in Small(0) : s = {}
  BY <1>1, FS_EmptySet
<1>4. Has = Nat
  <2>1. 0 \in Has
    <3> DEFINE g == [s \in Small(0) |-> 0]
    <3>1. g = [s \in Small(0) |-> R(g, s)]
      BY <1>3
    <3> QED
      BY <3>1
  <2>2. ASSUME NEW n \in Has PROVE n + 1 \in Has
    <3>1. PICK g : g = [s \in Small(n) |-> R(g, s)]
      OBVIOUS
    <3> DEFINE h == [s \in Small(n + 1) |-> IF s \in Small(n) THEN g[s] ELSE R(g, s)]
    <3>2. ASSUME NEW s \in Small(n + 1) PROVE h[s] = R(h, s)
      <4>1. CASE s = {}
        <5>1. s \in Small(n)
          BY <4>1, FS_EmptySet
        <5>2. h[s] = g[s] /\ g[s] = R(g, s)
          BY <3>1, <5>1
        <5> QED
          BY <4>1, <5>2
      <4>2. CASE s # {}
        <5> DEFINE t == s \ {Pick(s)}
        <5>1. t \in Small(n) /\ t \in Small(n + 1)
          BY <1>1, <1>2, <4>2
        <5>2. h[t] = g[t]
          BY <5>1
        <5>3. R(h, s) = R(g, s)
          BY <4>2, <5>2
        <5>4. h[s] = R(g, s)
          BY <3>1
        <5> QED
          BY <5>3, <5>4
      <4> QED
        BY <4>1, <4>2
    <3>3. h = [s \in Small(n + 1) |-> h[s]]
      OBVIOUS
    <3> HIDE DEF h, R, Small
    <3>4. h = [s \in Small(n + 1) |-> R(h, s)]
      BY <3>2, <3>3
    <3> QED
      BY <3>4
  <2> HIDE DEF Has
  <2>3. Has \in SUBSET Nat
    BY DEF Has
  <2> QED
    BY <2>1, <2>2, <2>3, Induction
<1> DEFINE iter == CHOOSE g : g = [s \in SUBSET S |-> R(g, s)]
<1>5. iter = [s \in SUBSET S |-> R(iter, s)]
  <2>1. Cardinality(S) \in Has
    BY <1>1, <1>4
  <2>2. Small(Cardinality(S)) = SUBSET S
    BY <1>1
  <2>3. \E g : g = [s \in SUBSET S |-> R(g, s)]
    BY <2>1, <2>2
  <2> QED
    BY <2>3
<1>6. Total(S) = iter[S]
  BY DEF Total, MapThenSumSet, MapThenFoldSet
<1> HIDE DEF iter
<1> DEFINE Typed == {n \in Nat : \A s \in Small(n) : iter[s] \in Nat}
<1>7. Typed = Nat
  <2>1. 0 \in Typed
    BY <1>3, <1>5
  <2>2. ASSUME NEW n \in Typed PROVE n + 1 \in Typed
    <3> SUFFICES ASSUME NEW s \in Small(n + 1) PROVE iter[s] \in Nat
      OBVIOUS
    <3>1. iter[s] = R(iter, s)
      BY <1>5
    <3>2. CASE s # {}
      <4>1. iter[s \ {Pick(s)}] \in Nat
        BY <1>1, <1>2, <3>2
      <4>2. Pick(s) \in Line
        BY <1>2, <3>2
      <4> HIDE DEF Pick
      <4>3. Term(Pick(s)) \in Nat
        BY <4>2, PrecioAssumption DEF Line
      <4> QED
        BY <3>1, <3>2, <4>1, <4>3
    <3> QED
      BY <3>1, <3>2
  <2> HIDE DEF Typed
  <2>3. Typed \in SUBSET Nat
    BY DEF Typed
  <2> QED
    BY <2>1, <2>2, <2>3, Induction
<1> QED
  BY <1>1, <1>6, <1>7

-----------------------------------------------------------------------------
(* Types *)

Amount == Nat

Types == TypesWith(Amount)

Writing(r) == req[r].pc \in {"find_item", "write", "commit"}
Converting(r) == req[r].pc \in {"read_items", "convert", "convert_items", "convert_commit"}

\* A request has the fields, and the rows, that its next step uses.
FieldsSet ==
  \A r \in Requests :
    /\ Converting(r) => carritos[req[r].carrito] # NoCarrito
    /\ req[r].pc = "start_saga" => reservas[r] # NoReserva
    /\ Writing(r) \/ Converting(r) \/ req[r].pc = "create" => req[r].carrito \in Requests
    /\ req[r].pc = "find_item" => req[r].op = "add"
    /\ req[r].pc \in {"write", "commit"} => req[r].row \in Requests
    /\ (Writing(r) /\ req[r].op # "remove") =>
         req[r].producto \in Products /\ req[r].asked > 0
    /\ (req[r].pc \in {"write", "commit"} /\ req[r].op # "remove") => req[r].cantidad > 0

\* A transaction about to commit holds its row: nobody else does, and it is
\* still there, unless the transaction inserts it.
RowHeld ==
  \A r \in Requests :
    req[r].pc = "commit" =>
      /\ req[r].row \in Rows \cup {r}
      /\ \A s \in Requests : (s # r /\ req[s].pc = "commit") => req[s].row # req[r].row

\* A request has read finitely many lines.
LinesFinite == \A r \in Requests : IsFiniteSet(req[r].seen) /\ IsFiniteSet(req[r].lines)

TypeInv == Types /\ FieldsSet /\ RowHeld /\ LinesFinite

\* What a query returns are lines, finitely many.
LEMMA LinesType ==
  ASSUME Types, NEW c
  PROVE  Lines(c) \subseteq Line /\ IsFiniteSet(Lines(c))
<1>1. \A i \in Rows : items[i] \in Item
  BY DEF Types, TypesWith, Rows
<1>2. Lines(c) \subseteq Line
  BY <1>1 DEF Lines, LineOf, Line, Item, Rows
<1> DEFINE S == {j \in Rows : items[j].carrito = c}
           f == [i \in S |-> LineOf(i)]
<1>3. IsFiniteSet(S)
  BY RequestsAssumption, FS_Subset DEF Rows
<1>4. f \in Surjection(S, Lines(c))
  BY DEF Surjection, Lines
<1>5. IsFiniteSet(Lines(c))
  BY <1>3, <1>4, FS_Surjection
<1> QED
  BY <1>2, <1>5

\* The lines that become a detalle are some of them.
LEMMA DetallesType == \A lines : Detalles(lines) \subseteq lines
BY DEF Detalles

\* So are those with the line a transaction has written.
LEMMA LinesWrittenType ==
  ASSUME Types, FieldsSet, NEW r \in Requests, req[r].pc = "write"
  PROVE  LinesWritten(r) \subseteq Line /\ IsFiniteSet(LinesWritten(r))
<1> DEFINE kept == {l \in Lines(req[r].carrito) : l.row # req[r].row}
           new == [row |-> req[r].row, producto |-> req[r].producto,
                   cantidad |-> req[r].cantidad]
<1>1. kept \subseteq Line /\ IsFiniteSet(kept)
  BY LinesType, FS_Subset
<1>2. req[r].op # "remove" => new \in Line
  BY DEF Types, TypesWith, FieldsSet, Writing, Line, Request
<1>3. IsFiniteSet(kept \cup {new})
  BY <1>1, FS_AddElement
<1>4. LinesWritten(r) = IF req[r].op = "remove" THEN kept ELSE kept \cup {new}
  BY DEF LinesWritten
<1> HIDE DEF kept, new
<1> QED
  BY <1>1, <1>2, <1>3, <1>4

\* The initial state is well typed.
LEMMA InitTypes == Init => Types
BY DEF Init, Types, TypesWith, Amount, Request, Idle

\* A request that begins or goes on with well-typed fields.
LEMMA RequestTypes ==
  ASSUME Types, NEW r \in Requests, NEW fields \in Request(Amount),
         Begin(r, fields) \/ Goto(r, fields)
  PROVE  Types'
<1>1. {{r, s} : s \in {q \in Requests : InFlight(q)}} \subseteq SUBSET Requests
  OBVIOUS
<1> QED
  BY <1>1 DEF Types, TypesWith, Begin, Goto

\* What is kept of a request that ended is well typed.
LEMMA EndedType ==
  ASSUME Types, NEW r \in Requests, NEW pc \in {"done", "failed"}
  PROVE  Ended(r, pc) \in Request(Amount)
BY DEF Types, TypesWith, Ended, Idle, Request, Amount

\* Every step keeps every variable in its type.
LEMMA NextTypes == TypeInv /\ [Next]_vars => Types'
<1> SUFFICES ASSUME TypeInv, [Next]_vars PROVE Types'
  OBVIOUS
<1>0. Types
  BY DEF TypeInv
<1>a. \A r \in Requests : req[r] \in Request(Amount)
  BY <1>0 DEF Types, TypesWith
<1>b. \A i \in Rows : items[i] \in Item
  BY <1>0 DEF Types, TypesWith, Rows
<1>1. ASSUME NEW r \in Requests, GetCarritoActivo(r) PROVE Types'
  <2>1. [Idle EXCEPT !.pc = "create", !.op = "get", !.carrito = r] \in Request(Amount)
    BY DEF Idle, Request, Amount
  <2> QED
    BY <1>1, <2>1, <1>0, RequestTypes DEF GetCarritoActivo
<1>2. ASSUME NEW r \in Requests, CreateCarrito(r) PROVE Types'
  BY <1>0, <1>2, EndedType DEF CreateCarrito, End, Types, TypesWith, Carrito, Amount
<1>3. ASSUME NEW r \in Requests, NEW p \in Products, NEW q \in Cantidades, AddItem(r, p, q)
      PROVE  Types'
  <2>1. PICK c \in Requests :
          Begin(r, [Idle EXCEPT !.pc = "find_item", !.op = "add", !.carrito = c,
                                !.producto = p, !.asked = q])
    BY <1>3 DEF AddItem, Activos
  <2>2. [Idle EXCEPT !.pc = "find_item", !.op = "add", !.carrito = c,
                     !.producto = p, !.asked = q] \in Request(Amount)
    BY CantidadesAssumption DEF Idle, Request, Amount
  <2> QED
    BY <2>1, <2>2, <1>0, RequestTypes
<1>4. ASSUME NEW r \in Requests, NEW i \in Rows, RemoveItem(r, i) PROVE Types'
  <2>1. [Idle EXCEPT !.pc = "write", !.op = "remove", !.carrito = items[i].carrito,
                     !.row = i] \in Request(Amount)
    BY <1>b DEF Idle, Request, Amount, Item, Rows
  <2> QED
    BY <1>4, <2>1, <1>0, RequestTypes DEF RemoveItem
<1>5. ASSUME NEW r \in Requests, NEW i \in Rows, NEW q \in Cantidades,
             UpdateItemCantidad(r, i, q)
      PROVE  Types'
  <2>1. [Idle EXCEPT !.pc = "write", !.op = "update", !.carrito = items[i].carrito,
                     !.row = i, !.producto = items[i].producto,
                     !.asked = q, !.cantidad = q] \in Request(Amount)
    BY <1>b, CantidadesAssumption DEF Idle, Request, Amount, Item, Rows
  <2> QED
    BY <1>5, <2>1, <1>0, RequestTypes DEF UpdateItemCantidad
<1>6. ASSUME NEW r \in Requests, AddFindItem(r) PROVE Types'
  <2>1. [req[r] EXCEPT !.pc = "write", !.row = r, !.cantidad = req[r].asked] \in Request(Amount)
    BY <1>a DEF Request
  <2>2. ASSUME NEW i \in Rows
        PROVE  [req[r] EXCEPT !.pc = "write", !.row = i,
                              !.cantidad = NewCantidad(i, req[r].asked)] \in Request(Amount)
    <3>1. NewCantidad(i, req[r].asked) \in Nat
      BY <1>a, <1>b DEF NewCantidad, Item, Request
    <3> QED
      BY <1>a, <3>1 DEF Request, Rows
  <2> QED
    BY <1>6, <2>1, <2>2, <1>0, RequestTypes DEF AddFindItem, Existing
<1>7. ASSUME NEW r \in Requests, WriteItem(r) PROVE Types'
  <2>1. CASE req[r].row \in Rows \cup {r}
    <3>1. Total(LinesWritten(r)) \in Amount
      BY <1>0, <1>7, LinesWrittenType, SumIsNat DEF WriteItem, TypeInv, Amount
    <3>2. [req[r] EXCEPT !.pc = "commit", !.monto = Total(LinesWritten(r))] \in Request(Amount)
      BY <1>a, <3>1 DEF Request
    <3> QED
      BY <1>0, <1>7, <2>1, <3>2, RequestTypes DEF WriteItem
  <2>2. CASE req[r].row \notin Rows \cup {r}
    BY <1>0, <1>7, <2>2, EndedType, RequestTypes DEF WriteItem, Fail
  <2> QED
    BY <2>1, <2>2
<1>8. ASSUME NEW r \in Requests, Commit(r) PROVE Types'
  <2> DEFINE c == req[r].carrito
             i == req[r].row
             base == IF req[r].op = "add" /\ i # r THEN items[i].meant ELSE 0
  <2>1. c \in Requests /\ i \in Requests /\ base \in Nat
    BY <1>8, <1>b DEF Commit, TypeInv, FieldsSet, RowHeld, Writing, Item
  <2>2. CASE req[r].op # "remove"
    <3>1. [carrito |-> c, producto |-> req[r].producto, cantidad |-> req[r].cantidad,
           meant |-> base + req[r].asked] \in Item
      BY <1>8, <1>a, <2>1, <2>2 DEF Commit, TypeInv, FieldsSet, Writing, Item, Request
    <3> QED
      BY <1>0, <1>8, <1>a, <2>1, <2>2, <3>1, EndedType
      DEF Commit, End, Types, TypesWith, Carrito, Request, NoCarrito
  <2>3. CASE req[r].op = "remove"
    BY <1>0, <1>8, <1>a, <2>1, <2>3, EndedType
    DEF Commit, End, Types, TypesWith, Carrito, Request, NoCarrito
  <2> QED
    BY <2>2, <2>3
<1>9. ASSUME NEW r \in Requests, NEW c \in Requests, Checkout(r, c) PROVE Types'
  <2>1. carritos[c] \in Carrito(Amount)
    BY <1>0, <1>9 DEF Checkout, Disponible, Types, TypesWith, NoCarrito
  <2>2. [Idle EXCEPT !.pc = "read_items", !.op = "checkout", !.carrito = c,
                     !.monto = carritos[c].total] \in Request(Amount)
    BY <2>1 DEF Idle, Request, Amount, Carrito
  <2> QED
    BY <1>0, <1>9, <2>2, RequestTypes DEF Checkout
<1>10. ASSUME NEW r \in Requests, CheckoutReadItems(r) PROVE Types'
  <2>1. [req[r] EXCEPT !.pc = "convert", !.seen = Detalles(Lines(req[r].carrito))]
          \in Request(Amount)
    BY <1>0, <1>a, LinesType, DetallesType DEF Request
  <2> QED
    BY <1>0, <1>10, <2>1, EndedType, RequestTypes DEF CheckoutReadItems, Fail
<1>11. ASSUME NEW r \in Requests, ConvertRead(r) PROVE Types'
  <2>1. [req[r] EXCEPT !.pc = "convert_items"] \in Request(Amount)
    BY <1>a DEF Request
  <2> QED
    BY <1>0, <1>11, <2>1, EndedType, RequestTypes DEF ConvertRead, Fail
<1>12. ASSUME NEW r \in Requests, ConvertReadItems(r) PROVE Types'
  <2>1. [req[r] EXCEPT !.pc = "convert_commit", !.lines = Lines(req[r].carrito)]
          \in Request(Amount)
    BY <1>0, <1>a, LinesType DEF Request
  <2> QED
    BY <1>0, <1>12, <2>1, EndedType, RequestTypes DEF ConvertReadItems, Fail
<1>13. ASSUME NEW r \in Requests, ConvertCommit(r) PROVE Types'
  <2>1. [req[r] EXCEPT !.pc = "start_saga"] \in Request(Amount)
    BY <1>a DEF Request
  <2>2. [status |-> "PENDIENTE", carrito |-> req[r].carrito, total |-> Total(req[r].lines),
         monto |-> req[r].monto, detalles |-> Detalles(req[r].lines), commands |-> {}]
          \in Reserva(Amount)
    <3>1. Total(req[r].lines) \in Amount
      BY <1>a, SumIsNat DEF TypeInv, LinesFinite, Amount, Request
    <3> QED
      BY <1>13, <1>a, <3>1, DetallesType
      DEF ConvertCommit, TypeInv, FieldsSet, Converting, Reserva, Request
  <2>3. carritos' \in [Requests -> Carrito(Amount) \cup {NoCarrito}]
    <3>1. req[r].carrito \in Requests /\ carritos[req[r].carrito] \in Carrito(Amount)
      BY <1>0, <1>13 DEF ConvertCommit, TypeInv, FieldsSet, Converting, Types, TypesWith
    <3> QED
      BY <1>0, <1>13, <3>1 DEF ConvertCommit, Types, TypesWith, Carrito
  <2> QED
    BY <1>0, <1>13, <2>1, <2>2, <2>3 DEF ConvertCommit, Types, TypesWith
<1>14. ASSUME NEW r \in Requests, StartSaga(r) PROVE Types'
  <2>1. reservas[r] \in Reserva(Amount)
    BY <1>0, <1>14 DEF StartSaga, TypeInv, FieldsSet, Types, TypesWith
  <2>2. req[r].seen \subseteq Line
    BY <1>a DEF Request
  <2>3. [reservas[r] EXCEPT !.status = "FALLIDA_PROVEEDOR"] \in Reserva(Amount)
    BY <2>1 DEF Reserva
  <2>4. ASSUME NEW S \in SUBSET req[r].seen
        PROVE  [reservas[r] EXCEPT !.commands = S] \in Reserva(Amount)
    BY <2>1, <2>2 DEF Reserva
  <2>5. reservas' \in [Requests -> Reserva(Amount) \cup {NoReserva}]
    BY <1>0, <1>14, <2>3, <2>4 DEF StartSaga, Types, TypesWith, kSubset
  <2> QED
    BY <1>0, <1>14, <2>5, EndedType DEF StartSaga, End, Types, TypesWith
<1>15. ASSUME NEW r \in Requests, Abort(r) PROVE Types'
  BY <1>0, <1>15, EndedType, RequestTypes DEF Abort, Fail
<1>16. CASE UNCHANGED vars
  BY <1>0, <1>16 DEF Types, TypesWith, vars
<1> QED
  BY <1>1, <1>2, <1>3, <1>4, <1>5, <1>6, <1>7, <1>8, <1>9, <1>10, <1>11, <1>12, <1>13,
     <1>14, <1>15, <1>16
  DEF Next, Quiet

-----------------------------------------------------------------------------
(* The invariant that both properties follow from. *)

\* Requests that are in flight together have met.
InFlightMet ==
  \A r \in Requests, s \in Requests : (r # s /\ InFlight(r) /\ InFlight(s)) => Met(r, s)

\* Each request names a cart that exists or that it is going to insert, and
\* only that request inserts it.
CartsKnown ==
  /\ \A r \in Requests :
       /\ req[r].pc \in {"idle", "create"} => carritos[r] = NoCarrito
       /\ req[r].pc = "create" => req[r].carrito = r
       /\ Writing(r) => req[r].carrito = r \/ carritos[req[r].carrito] # NoCarrito
  /\ \A i \in Rows : carritos[items[i].carrito] # NoCarrito

\* A cart with a reserva is COMPLETADO, so no checkout of it begins any more;
\* those still under way were there when the reserva was made.
ConvertedOnce ==
  \A r \in Requests :
    reservas[r] # NoReserva =>
      /\ carritos[reservas[r].carrito].estado = "COMPLETADO"
      /\ \A s \in Requests :
           (s # r /\ Converting(s) /\ req[s].carrito = reservas[r].carrito) => Met(r, s)

Inv == TypeInv /\ InFlightMet /\ CartsKnown /\ ConvertedOnce /\ OneReservaPerCart

\* There is nothing at the start.
LEMMA InitInv == Init => Inv
<1>1. Init => LinesFinite
  <2>1. Init => \A r \in Requests : req[r].seen = {} /\ req[r].lines = {}
    BY DEF Init, Idle
  <2> QED
    BY <2>1, FS_EmptySet DEF LinesFinite
<1> QED
  BY <1>1, InitTypes
   DEF Init, Inv, TypeInv, FieldsSet, RowHeld, InFlightMet, CartsKnown, ConvertedOnce,
       OneReservaPerCart, Idle, NoCarrito, NoItem, NoReserva, InFlight, Converting, Writing, Rows

\* A request that begins has met those in flight; one that goes on or ends
\* changes nothing of it.
LEMMA NextInFlightMet == Inv /\ [Next]_vars => InFlightMet'
<1> SUFFICES ASSUME Inv, [Next]_vars PROVE InFlightMet'
  OBVIOUS
<1> USE DEF Inv, TypeInv, Types, TypesWith, InFlightMet, InFlight, Met
<1>1. ASSUME NEW r \in Requests, NEW fields, Begin(r, fields) PROVE InFlightMet'
  BY <1>1 DEF Begin
<1>2. ASSUME NEW r \in Requests, NEW fields, InFlight(r), Goto(r, fields) PROVE InFlightMet'
  BY <1>2 DEF Goto
<1>3. ASSUME NEW r \in Requests, InFlight(r), End(r) PROVE InFlightMet'
  BY <1>3 DEF End, Ended, Idle
<1>4. ASSUME NEW r \in Requests, ConvertCommit(r) PROVE InFlightMet'
  BY <1>4 DEF ConvertCommit
<1>5. CASE UNCHANGED vars
  BY <1>5 DEF vars
<1> QED
  BY <1>1, <1>2, <1>3, <1>4, <1>5
  DEF Next, Quiet, GetCarritoActivo, CreateCarrito, AddItem, RemoveItem, UpdateItemCantidad,
      AddFindItem, WriteItem, Commit, Checkout, CheckoutReadItems, ConvertRead,
      ConvertReadItems, StartSaga, Abort, Fail

\* No step leaves a request without a field or a row that it needs next.
LEMMA NextFieldsSet == Inv /\ [Next]_vars => FieldsSet'
<1> SUFFICES ASSUME Inv, [Next]_vars PROVE FieldsSet'
  OBVIOUS
<1> USE CantidadesAssumption
    DEF Inv, TypeInv, Types, TypesWith, FieldsSet, Writing, Converting, Rows
<1>1. ASSUME NEW r \in Requests, GetCarritoActivo(r) PROVE FieldsSet'
  BY <1>1 DEF GetCarritoActivo, Begin, Idle, Request
<1>2. ASSUME NEW r \in Requests, CreateCarrito(r) PROVE FieldsSet'
  BY <1>2 DEF CreateCarrito, End, Ended, Idle, NoCarrito, Request
<1>3. ASSUME NEW r \in Requests, NEW p \in Products, NEW q \in Cantidades, AddItem(r, p, q)
      PROVE  FieldsSet'
  BY <1>3 DEF AddItem, Activos, Begin, Idle, Request
<1>4. ASSUME NEW r \in Requests, NEW i \in Rows, RemoveItem(r, i) PROVE FieldsSet'
  BY <1>4 DEF RemoveItem, Begin, Idle, Item, Request
<1>5. ASSUME NEW r \in Requests, NEW i \in Rows, NEW q \in Cantidades,
             UpdateItemCantidad(r, i, q)
      PROVE  FieldsSet'
  BY <1>5 DEF UpdateItemCantidad, Begin, Idle, Item, Request
<1>6. ASSUME NEW r \in Requests, AddFindItem(r) PROVE FieldsSet'
  <2>1. req[r] \in Request(Amount) /\ req[r].pc = "find_item"
    BY <1>6 DEF AddFindItem
  <2>2. CASE Goto(r, [req[r] EXCEPT !.pc = "write", !.row = r, !.cantidad = req[r].asked])
    BY <2>1, <2>2 DEF Goto, Request
  <2>3. ASSUME NEW i \in Rows,
               Goto(r, [req[r] EXCEPT !.pc = "write", !.row = i,
                                      !.cantidad = NewCantidad(i, req[r].asked)])
        PROVE  FieldsSet'
    <3>1. NewCantidad(i, req[r].asked) \in Nat \ {0}
      BY <2>1 DEF NewCantidad, Item, Request
    <3> QED
      BY <2>1, <2>3, <3>1 DEF Goto, Request
  <2> QED
    BY <1>6, <2>2, <2>3 DEF AddFindItem, Existing
<1>f. ASSUME NEW r \in Requests, Fail(r) PROVE FieldsSet'
  BY <1>f DEF Fail, Goto, Ended, Idle, Request
<1>7. ASSUME NEW r \in Requests, WriteItem(r) PROVE FieldsSet'
  <2>1. req[r] \in Request(Amount) /\ req[r].pc = "write"
    BY <1>7 DEF WriteItem
  <2>2. CASE Goto(r, [req[r] EXCEPT !.pc = "commit", !.monto = Total(LinesWritten(r))])
    BY <2>1, <2>2 DEF Goto, Request
  <2> QED
    BY <1>7, <1>f, <2>2 DEF WriteItem
<1>8. ASSUME NEW r \in Requests, Commit(r) PROVE FieldsSet'
  BY <1>8 DEF Commit, End, Ended, Idle, NoCarrito, Request
<1>9. ASSUME NEW r \in Requests, NEW c \in Requests, Checkout(r, c) PROVE FieldsSet'
  BY <1>9 DEF Checkout, Disponible, NoCarrito, Begin, Idle, Request
<1>10. ASSUME NEW r \in Requests,
              CheckoutReadItems(r) \/ ConvertRead(r) \/ ConvertReadItems(r) \/ Abort(r)
       PROVE  FieldsSet'
  <2>1. req[r] \in Request(Amount)
    OBVIOUS
  <2>2. CASE /\ req[r].pc = "read_items"
             /\ Goto(r, [req[r] EXCEPT !.pc = "convert", !.seen = Detalles(Lines(req[r].carrito))])
    BY <2>1, <2>2 DEF Goto, Request
  <2>3. CASE ConvertRead(r) /\ ~Fail(r)
    BY <2>1, <2>3 DEF ConvertRead, Goto, Request
  <2>4. CASE /\ req[r].pc = "convert_items"
             /\ Goto(r, [req[r] EXCEPT !.pc = "convert_commit", !.lines = Lines(req[r].carrito)])
    BY <2>1, <2>4 DEF Goto, Request
  <2> QED
    BY <1>10, <1>f, <2>2, <2>3, <2>4 DEF Abort, CheckoutReadItems, ConvertReadItems
<1>11. ASSUME NEW r \in Requests, ConvertCommit(r) PROVE FieldsSet'
  BY <1>11 DEF ConvertCommit, Carrito, NoCarrito, NoReserva, Request
<1>12. ASSUME NEW r \in Requests, StartSaga(r) PROVE FieldsSet'
  BY <1>12 DEF StartSaga, End, Ended, Idle, Request
<1>13. CASE UNCHANGED vars
  BY <1>13 DEF vars
<1> QED
  BY <1>1, <1>2, <1>3, <1>4, <1>5, <1>6, <1>7, <1>8, <1>9, <1>10, <1>11, <1>12, <1>13
  DEF Next, Quiet

\* What a request reads is finite, as its rows are.
LEMMA NextLinesFinite == Inv /\ [Next]_vars => LinesFinite'
<1> SUFFICES ASSUME Inv, [Next]_vars PROVE LinesFinite'
  OBVIOUS
<1>0. Types /\ LinesFinite /\ IsFiniteSet({})
  BY FS_EmptySet DEF Inv, TypeInv
<1>1. ASSUME NEW r \in Requests, IsFiniteSet(req'[r].seen), IsFiniteSet(req'[r].lines),
             \A s \in Requests : s # r => req'[s] = req[s]
      PROVE  LinesFinite'
  BY <1>0, <1>1 DEF LinesFinite
<1>2. ASSUME NEW r \in Requests, NEW fields, Begin(r, fields) \/ Goto(r, fields),
             IsFiniteSet(fields.seen), IsFiniteSet(fields.lines)
      PROVE  LinesFinite'
  BY <1>0, <1>1, <1>2 DEF Begin, Goto, Types, TypesWith
<1>3. ASSUME NEW r \in Requests PROVE req[r] \in Request(Amount)
                                      /\ IsFiniteSet(req[r].seen) /\ IsFiniteSet(req[r].lines)
  BY <1>0 DEF Types, TypesWith, LinesFinite
<1>4. ASSUME NEW r \in Requests, Fail(r) PROVE LinesFinite'
  <2>1. Ended(r, "failed").seen = {} /\ Ended(r, "failed").lines = {}
    BY DEF Ended, Idle
  <2> QED
    BY <1>0, <1>2, <1>4, <2>1 DEF Fail
<1>5. ASSUME NEW r \in Requests, End(r) PROVE LinesFinite'
  <2>1. req'[r] = Ended(r, "done") /\ \A s \in Requests : s # r => req'[s] = req[s]
    BY <1>0, <1>5 DEF End, Types, TypesWith
  <2>2. IsFiniteSet(req'[r].seen) /\ IsFiniteSet(req'[r].lines)
    BY <1>0, <2>1 DEF Ended, Idle
  <2> QED
    BY <1>1, <2>1, <2>2
<1>6. ASSUME NEW r \in Requests,
             \/ GetCarritoActivo(r)
             \/ \E p \in Products, q \in Cantidades : AddItem(r, p, q)
             \/ \E i \in Rows : RemoveItem(r, i) \/ \E q \in Cantidades : UpdateItemCantidad(r, i, q)
             \/ \E c \in Requests : Checkout(r, c)
      PROVE  LinesFinite'
  <2>1. req'[r].seen = {} /\ req'[r].lines = {} /\ \A s \in Requests : s # r => req'[s] = req[s]
    <3> USE <1>0 DEF Begin, Idle, Types, TypesWith
    <3>1. CASE GetCarritoActivo(r)
      BY <3>1 DEF GetCarritoActivo
    <3>2. CASE \E p \in Products, q \in Cantidades : AddItem(r, p, q)
      BY <3>2 DEF AddItem
    <3>3. CASE \E i \in Rows : RemoveItem(r, i)
      BY <3>3 DEF RemoveItem
    <3>4. CASE \E i \in Rows, q \in Cantidades : UpdateItemCantidad(r, i, q)
      BY <3>4 DEF UpdateItemCantidad
    <3>5. CASE \E c \in Requests : Checkout(r, c)
      BY <3>5 DEF Checkout
    <3> QED
      BY <1>6, <3>1, <3>2, <3>3, <3>4, <3>5
  <2> QED
    BY <1>0, <1>1, <2>1
<1>7. ASSUME NEW r \in Requests, AddFindItem(r) PROVE LinesFinite'
  <2>1. ASSUME NEW i, NEW q,
               Goto(r, [req[r] EXCEPT !.pc = "write", !.row = i, !.cantidad = q])
        PROVE  LinesFinite'
    <3> DEFINE fields == [req[r] EXCEPT !.pc = "write", !.row = i, !.cantidad = q]
    <3>1. fields.seen = req[r].seen /\ fields.lines = req[r].lines
      BY <1>3 DEF Request
    <3> HIDE DEF fields
    <3> QED
      BY <1>2, <1>3, <2>1, <3>1 DEF fields
  <2> QED
    BY <1>7, <2>1 DEF AddFindItem
<1>8. ASSUME NEW r \in Requests, WriteItem(r) PROVE LinesFinite'
  <2> DEFINE fields == [req[r] EXCEPT !.pc = "commit", !.monto = Total(LinesWritten(r))]
  <2>1. fields.seen = req[r].seen /\ fields.lines = req[r].lines
    BY <1>3 DEF Request
  <2>2. CASE Goto(r, fields)
    BY <1>2, <1>3, <2>1, <2>2
  <2> QED
    BY <1>4, <1>8, <2>2 DEF WriteItem
<1>9. ASSUME NEW r \in Requests, CheckoutReadItems(r) \/ ConvertRead(r) \/ ConvertReadItems(r)
      PROVE  LinesFinite'
  <2> DEFINE lines == Lines(req[r].carrito)
             named == Detalles(lines)
  <2>1. IsFiniteSet(lines) /\ IsFiniteSet(named)
    BY <1>0, LinesType, DetallesType, FS_Subset
  <2> HIDE DEF lines, named
  <2>2. CASE Goto(r, [req[r] EXCEPT !.pc = "convert", !.seen = named])
    <3> DEFINE fields == [req[r] EXCEPT !.pc = "convert", !.seen = named]
    <3>1. fields.seen = named /\ fields.lines = req[r].lines
      BY <1>3 DEF Request
    <3> HIDE DEF fields
    <3> QED
      BY <1>2, <1>3, <2>1, <2>2, <3>1 DEF fields
  <2>3. CASE Goto(r, [req[r] EXCEPT !.pc = "convert_items"])
    BY <1>2, <1>3, <2>3 DEF Request
  <2>4. CASE Goto(r, [req[r] EXCEPT !.pc = "convert_commit", !.lines = lines])
    <3> DEFINE fields == [req[r] EXCEPT !.pc = "convert_commit", !.lines = lines]
    <3>1. fields.seen = req[r].seen /\ fields.lines = lines
      BY <1>3 DEF Request
    <3> HIDE DEF fields
    <3> QED
      BY <1>2, <1>3, <2>1, <2>4, <3>1 DEF fields
  <2> QED
    BY <1>4, <1>9, <2>2, <2>3, <2>4
    DEF CheckoutReadItems, ConvertRead, ConvertReadItems, lines, named
<1>10. ASSUME NEW r \in Requests, ConvertCommit(r) PROVE LinesFinite'
  BY <1>0, <1>1, <1>3, <1>10 DEF ConvertCommit, Types, TypesWith, Request
<1>11. CASE UNCHANGED vars
  BY <1>0, <1>11 DEF vars, LinesFinite
<1> QED
  BY <1>4, <1>5, <1>6, <1>7, <1>8, <1>9, <1>10, <1>11
  DEF Next, Quiet, CreateCarrito, Commit, StartSaga, Abort

\* The steps that commit nothing.
Silent(r) == \/ AddFindItem(r) \/ WriteItem(r) \/ CheckoutReadItems(r) \/ ConvertRead(r)
             \/ ConvertReadItems(r) \/ Abort(r)

\* Such a step takes its request further on the same cart, or ends it.
LEMMA SilentStep ==
  ASSUME Types, NEW r \in Requests, Silent(r)
  PROVE  /\ UNCHANGED <<carritos, items, reservas, met>>
         /\ \A s \in Requests : s # r => req'[s] = req[s]
         /\ req'[r].carrito = req[r].carrito
         /\ \/ req'[r].pc = "failed"
            \/ Writing(r) /\ Writing(r)'
            \/ Converting(r) /\ Converting(r)'
         /\ req'[r].pc = "commit" => WriteItem(r)
<1> USE DEF Types, TypesWith, Writing, Converting
<1>1. req[r] \in Request(Amount)
  OBVIOUS
<1>2. ASSUME Fail(r) PROVE /\ UNCHANGED <<carritos, items, reservas, met>>
                           /\ \A s \in Requests : s # r => req'[s] = req[s]
                           /\ req'[r].carrito = req[r].carrito
                           /\ req'[r].pc = "failed"
  BY <1>1, <1>2 DEF Fail, Goto, Ended, Idle
<1>3. CASE AddFindItem(r)
  <2>1. ASSUME NEW i, NEW q, req[r].pc = "find_item",
               Goto(r, [req[r] EXCEPT !.pc = "write", !.row = i, !.cantidad = q])
        PROVE  /\ UNCHANGED <<carritos, items, reservas, met>>
               /\ \A s \in Requests : s # r => req'[s] = req[s]
               /\ req'[r].carrito = req[r].carrito /\ req'[r].pc = "write"
    <3>1. req'[r] = [req[r] EXCEPT !.pc = "write", !.row = i, !.cantidad = q]
      BY <2>1 DEF Goto
    <3>2. DOMAIN req[r] = {"pc", "op", "carrito", "row", "producto", "asked", "cantidad",
                           "monto", "seen", "lines"}
      BY <1>1 DEF Request
    <3> QED
      BY <2>1, <3>1, <3>2 DEF Goto
  <2> QED
    BY <1>3, <2>1 DEF AddFindItem
<1>4. CASE WriteItem(r)
  <2>1. CASE /\ req[r].pc = "write"
             /\ Goto(r, [req[r] EXCEPT !.pc = "commit", !.monto = Total(LinesWritten(r))])
    BY <1>1, <1>4, <2>1 DEF Goto, Request
  <2> QED
    BY <1>2, <1>4, <2>1 DEF WriteItem
<1>5. CASE CheckoutReadItems(r)
  <2>1. CASE /\ req[r].pc = "read_items"
             /\ Goto(r, [req[r] EXCEPT !.pc = "convert", !.seen = Detalles(Lines(req[r].carrito))])
    BY <1>1, <2>1 DEF Goto, Request
  <2> QED
    BY <1>2, <1>5, <2>1 DEF CheckoutReadItems
<1>6. CASE ConvertRead(r)
  <2>1. CASE req[r].pc = "convert" /\ Goto(r, [req[r] EXCEPT !.pc = "convert_items"])
    BY <1>1, <2>1 DEF Goto, Request
  <2> QED
    BY <1>2, <1>6, <2>1 DEF ConvertRead
<1>7. CASE ConvertReadItems(r)
  <2>1. CASE /\ req[r].pc = "convert_items"
             /\ Goto(r, [req[r] EXCEPT !.pc = "convert_commit", !.lines = Lines(req[r].carrito)])
    BY <1>1, <2>1 DEF Goto, Request
  <2> QED
    BY <1>2, <1>7, <2>1 DEF ConvertReadItems
<1>8. CASE Abort(r)
  BY <1>2, <1>8 DEF Abort
<1> QED
  BY <1>3, <1>4, <1>5, <1>6, <1>7, <1>8 DEF Silent

\* A row is taken only when nobody holds it, and deleted by its holder only.
LEMMA NextRowHeld == Inv /\ [Next]_vars => RowHeld'
<1> SUFFICES ASSUME Inv, [Next]_vars PROVE RowHeld'
  OBVIOUS
<1> USE DEF Inv, TypeInv, Types, TypesWith, RowHeld, Rows
<1>1. ASSUME NEW r \in Requests, NEW fields, fields.pc # "commit", Begin(r, fields)
      PROVE  RowHeld'
  BY <1>1 DEF Begin
<1>2. ASSUME NEW r \in Requests, NEW fields, fields.pc # "commit", Goto(r, fields)
      PROVE  RowHeld'
  BY <1>2 DEF Goto
<1>3. ASSUME NEW r \in Requests, End(r), UNCHANGED items PROVE RowHeld'
  BY <1>3 DEF End, Ended, Idle
<1>4. ASSUME NEW r \in Requests, WriteItem(r) PROVE RowHeld'
  <2>1. CASE req[r].row \in Rows \cup {r}
    <3>1. req[r] \in Request(Amount)
      OBVIOUS
    <3>2. Goto(r, [req[r] EXCEPT !.pc = "commit", !.monto = Total(LinesWritten(r))])
      BY <1>4, <2>1 DEF WriteItem
    <3>3. req'[r].pc = "commit" /\ req'[r].row = req[r].row
      BY <3>1, <3>2 DEF Goto, Request
    <3> QED
      BY <1>4, <2>1, <3>2, <3>3 DEF WriteItem, Goto, Locked
  <2>2. CASE req[r].row \notin Rows \cup {r}
    BY <1>2, <1>4, <2>2 DEF WriteItem, Fail, Ended, Idle
  <2> QED
    BY <2>1, <2>2
<1>5. ASSUME NEW r \in Requests, Commit(r) PROVE RowHeld'
  BY <1>5 DEF Commit, End, Ended, Idle, NoItem
<1>6. ASSUME NEW r \in Requests, ConvertCommit(r) PROVE RowHeld'
  BY <1>6 DEF ConvertCommit, Request
<1>7. ASSUME NEW r \in Requests, Silent(r), req'[r].pc # "commit" PROVE RowHeld'
  BY <1>7, SilentStep
<1>8. ASSUME NEW r \in Requests, Silent(r) PROVE RowHeld'
  BY <1>4, <1>7, <1>8, SilentStep
<1>9. ASSUME NEW r \in Requests, CreateCarrito(r) \/ StartSaga(r) PROVE RowHeld'
  BY <1>3, <1>9 DEF CreateCarrito, StartSaga
<1>10. CASE UNCHANGED vars
  BY <1>10 DEF vars
<1>11. ASSUME NEW r \in Requests,
              \/ GetCarritoActivo(r)
              \/ \E p \in Products, q \in Cantidades : AddItem(r, p, q)
              \/ \E i \in Rows :
                   RemoveItem(r, i) \/ \E q \in Cantidades : UpdateItemCantidad(r, i, q)
              \/ \E c \in Requests : Checkout(r, c)
       PROVE  RowHeld'
  BY <1>1, <1>11
  DEF GetCarritoActivo, AddItem, RemoveItem, UpdateItemCantidad, Checkout, Idle
<1> QED
  BY <1>5, <1>6, <1>8, <1>9, <1>10, <1>11 DEF Next, Quiet, Silent

\* Only the request a cart is named by inserts it, and no cart is ever deleted.
LEMMA NextCartsKnown == Inv /\ [Next]_vars => CartsKnown'
<1> SUFFICES ASSUME Inv, [Next]_vars PROVE CartsKnown'
  OBVIOUS
<1> USE DEF Inv, TypeInv, Types, TypesWith, FieldsSet, CartsKnown, Writing, Converting, Rows
<1>1. ASSUME NEW r \in Requests, GetCarritoActivo(r) PROVE CartsKnown'
  BY <1>1 DEF GetCarritoActivo, Begin, Idle
<1>2. ASSUME NEW r \in Requests, CreateCarrito(r) PROVE CartsKnown'
  BY <1>2 DEF CreateCarrito, End, Ended, Idle, NoCarrito
<1>3. ASSUME NEW r \in Requests, NEW p, NEW q, AddItem(r, p, q) PROVE CartsKnown'
  BY <1>3 DEF AddItem, Activos, Begin, Idle, NoCarrito
<1>4. ASSUME NEW r \in Requests, NEW i \in Rows, RemoveItem(r, i) PROVE CartsKnown'
  BY <1>4 DEF RemoveItem, Begin, Idle
<1>5. ASSUME NEW r \in Requests, NEW i \in Rows, NEW q, UpdateItemCantidad(r, i, q)
      PROVE  CartsKnown'
  BY <1>5 DEF UpdateItemCantidad, Begin, Idle
<1>6. ASSUME NEW r \in Requests, Silent(r) PROVE CartsKnown'
  BY <1>6, SilentStep
<1>7. ASSUME NEW r \in Requests, Commit(r) PROVE CartsKnown'
  <2> DEFINE c == req[r].carrito
  <2>1. c \in Requests /\ req[r].row \in Requests /\ Writing(r)
    BY <1>7 DEF Commit
  <2>2. \A d \in Requests : d # c => carritos'[d] = carritos[d]
    BY <1>7, <2>1 DEF Commit
  <2>3. carritos'[c] # NoCarrito
    BY <1>7, <2>1 DEF Commit, NoCarrito, Carrito
  <2>4. \A i \in Requests : i # req[r].row => items'[i] = items[i]
    BY <1>7, <2>1 DEF Commit
  <2>5. items'[req[r].row] = NoItem \/ items'[req[r].row].carrito = c
    BY <1>7, <2>1 DEF Commit
  <2>6. req'[r].pc = "done" /\ \A s \in Requests : s # r => req'[s] = req[s]
    BY <1>7 DEF Commit, End, Ended, Idle
  <2>7. \A i \in Rows' : items[i] = items'[i] \/ items'[i].carrito = c
    BY <1>7, <2>1, <2>4, <2>5 DEF Commit
  <2>8. \A i \in Rows' : carritos'[items'[i].carrito] # NoCarrito
    BY <1>7, <2>2, <2>3, <2>7 DEF Commit, Item
  <2> QED
    BY <2>1, <2>2, <2>3, <2>6, <2>8
<1>8. ASSUME NEW r \in Requests, NEW c \in Requests, Checkout(r, c) PROVE CartsKnown'
  BY <1>8 DEF Checkout, Begin, Idle
<1>9. ASSUME NEW r \in Requests, ConvertCommit(r) PROVE CartsKnown'
  <2>1. carritos[req[r].carrito] \in Carrito(Amount) /\ req[r] \in Request(Amount)
    BY <1>9 DEF ConvertCommit
  <2> QED
    BY <1>9, <2>1 DEF ConvertCommit, Carrito, Request, NoCarrito
<1>10. ASSUME NEW r \in Requests, StartSaga(r) PROVE CartsKnown'
  BY <1>10 DEF StartSaga, End, Ended, Idle
<1>11. CASE UNCHANGED vars
  BY <1>11 DEF vars
<1> QED
  BY <1>1, <1>2, <1>3, <1>4, <1>5, <1>6, <1>7, <1>8, <1>9, <1>10, <1>11
  DEF Next, Quiet, Silent

\* A checkout begins on an active cart only, so on none that has a reserva.
LEMMA NextConvertedOnce == Inv /\ [Next]_vars => ConvertedOnce'
<1> SUFFICES ASSUME Inv, [Next]_vars PROVE ConvertedOnce'
  OBVIOUS
<1> USE DEF Inv, TypeInv, Types, TypesWith, ConvertedOnce, Converting, Met
<1>a. \A r \in Requests :
        reservas[r] # NoReserva => reservas[r] \in Reserva(Amount)
  OBVIOUS
<1>1. ASSUME NEW r \in Requests, NEW fields, Begin(r, fields),
             \/ fields.pc \in {"create", "find_item", "write"}
             \/ carritos[fields.carrito].estado = "ACTIVO"
      PROVE  ConvertedOnce'
  BY <1>1 DEF Begin
<1>2. ASSUME NEW r \in Requests,
             \/ GetCarritoActivo(r)
             \/ \E p \in Products, q \in Cantidades : AddItem(r, p, q)
             \/ \E i \in Rows :
                  RemoveItem(r, i) \/ \E q \in Cantidades : UpdateItemCantidad(r, i, q)
             \/ \E c \in Requests : Checkout(r, c)
      PROVE  ConvertedOnce'
  BY <1>1, <1>2
  DEF GetCarritoActivo, AddItem, RemoveItem, UpdateItemCantidad, Checkout, Disponible, Idle
<1>3. ASSUME NEW r \in Requests, Silent(r) PROVE ConvertedOnce'
  BY <1>3, SilentStep DEF Writing
<1>4. ASSUME NEW r \in Requests, CreateCarrito(r) PROVE ConvertedOnce'
  <2>1. carritos[r].estado = "NONE"
    BY <1>4 DEF CreateCarrito, CartsKnown, NoCarrito
  <2> QED
    BY <1>a, <1>4, <2>1 DEF CreateCarrito, End, Ended, Idle, Reserva
<1>5. ASSUME NEW r \in Requests, Commit(r) PROVE ConvertedOnce'
  <2> DEFINE c == req[r].carrito
  <2>1. c \in Requests
    BY <1>5 DEF Commit, FieldsSet, Writing
  <2>2. \A d \in Requests :
          carritos[d].estado = "COMPLETADO" => carritos'[d].estado = "COMPLETADO"
    BY <1>5, <2>1 DEF Commit, NoCarrito
  <2> QED
    BY <1>a, <1>5, <2>2 DEF Commit, End, Ended, Idle, Reserva
<1>6. ASSUME NEW r \in Requests, ConvertCommit(r) PROVE ConvertedOnce'
  <2> DEFINE c == req[r].carrito
  <2>1. c \in Requests /\ carritos[c] \in Carrito(Amount) /\ req[r] \in Request(Amount)
    BY <1>6 DEF ConvertCommit, FieldsSet
  <2>2. /\ carritos'[c].estado = "COMPLETADO"
        /\ \A d \in Requests \ {c} : carritos'[d] = carritos[d]
    BY <1>6, <2>1 DEF ConvertCommit, Carrito
  <2>3. reservas'[r].carrito = c /\ \A s \in Requests \ {r} : reservas'[s] = reservas[s]
    BY <1>6 DEF ConvertCommit
  <2>4. req'[r].pc = "start_saga" /\ \A s \in Requests \ {r} : req'[s] = req[s]
    BY <1>6, <2>1 DEF ConvertCommit, Request
  <2>5. \A s \in Requests : (s # r /\ Converting(s)) => Met(r, s)
    BY <1>6 DEF ConvertCommit, InFlightMet, InFlight
  <2> QED
    BY <1>a, <1>6, <2>2, <2>3, <2>4, <2>5 DEF ConvertCommit, Reserva
<1>7. ASSUME NEW r \in Requests, StartSaga(r) PROVE ConvertedOnce'
  <2>1. reservas[r] \in Reserva(Amount) /\ reservas[r] # NoReserva
    BY <1>7 DEF StartSaga, FieldsSet
  <2>2. /\ reservas'[r].carrito = reservas[r].carrito
        /\ \A s \in Requests \ {r} : reservas'[s] = reservas[s]
    BY <1>7, <2>1 DEF StartSaga, Reserva
  <2> QED
    BY <1>7, <2>1, <2>2 DEF StartSaga, End, Ended, Idle
<1>8. CASE UNCHANGED vars
  BY <1>8 DEF vars
<1> QED
  BY <1>2, <1>3, <1>4, <1>5, <1>6, <1>7, <1>8 DEF Next, Quiet, Silent

\* When a checkout makes its reserva, it has met whoever made another.
LEMMA NextOneReserva == Inv /\ [Next]_vars => OneReservaPerCart'
<1> SUFFICES ASSUME Inv, [Next]_vars PROVE OneReservaPerCart'
  OBVIOUS
<1> USE DEF Inv, TypeInv, Types, TypesWith, OneReservaPerCart, Met
<1>1. ASSUME NEW r \in Requests, ConvertCommit(r) PROVE OneReservaPerCart'
  <2>1. /\ reservas'[r].carrito = req[r].carrito
        /\ \A s \in Requests \ {r} : reservas'[s] = reservas[s]
    BY <1>1 DEF ConvertCommit
  <2>2. \A s \in Requests \ {r} :
          (reservas[s] # NoReserva /\ reservas[s].carrito = req[r].carrito) => Met(s, r)
    BY <1>1 DEF ConvertCommit, ConvertedOnce, Converting
  <2> QED
    BY <1>1, <2>1, <2>2 DEF ConvertCommit
<1>2. ASSUME NEW r \in Requests, StartSaga(r) PROVE OneReservaPerCart'
  <2>1. reservas[r] \in Reserva(Amount) /\ reservas[r] # NoReserva
    BY <1>2 DEF StartSaga, FieldsSet
  <2>2. /\ reservas'[r].carrito = reservas[r].carrito
        /\ \A s \in Requests \ {r} : reservas'[s] = reservas[s]
    BY <1>2, <2>1 DEF StartSaga, Reserva
  <2> QED
    BY <1>2, <2>1, <2>2 DEF StartSaga, End
<1>3. CASE UNCHANGED reservas /\ met \subseteq met'
  BY <1>3
<1> QED
  BY <1>1, <1>2, <1>3
  DEF Next, Quiet, vars, Begin, Goto, End, GetCarritoActivo, CreateCarrito, AddItem, RemoveItem,
      UpdateItemCantidad, AddFindItem, WriteItem, Commit, Checkout, CheckoutReadItems,
      ConvertRead, ConvertReadItems, Abort, Fail

\* Every reachable state satisfies the invariant.
THEOREM Invariance == Spec => []Inv
<1>1. Inv /\ [Next]_vars => Inv'
  BY NextTypes, NextFieldsSet, NextLinesFinite, NextRowHeld, NextInFlightMet, NextCartsKnown,
     NextConvertedOnce, NextOneReserva
  DEF Inv, TypeInv
<1> QED
  BY InitInv, <1>1, PTL DEF Spec

\* UnitOfWork.convertirCarritoAReservaGrpcAtomic: a cart becomes two reservas
\* only if the two checkouts ran at the same time.
THEOREM CartIsConvertedOnce == Spec => []OneReservaPerCart
<1>1. Inv => OneReservaPerCart
  BY DEF Inv
<1> QED
  BY Invariance, <1>1, PTL

\* Every variable of the cart keeps its type; a total is a natural number.
THEOREM TypeCorrect == Spec => []TypeOK
<1>1. Inv => TypeOK
  BY DEF Inv, TypeInv, Types, Amount, TypeOK
<1> QED
  BY Invariance, <1>1, PTL

\* The rows that two transactions are about to commit are different and exist.
THEOREM RowsAreHeld == Spec => []RowHeld
<1>1. Inv => RowHeld
  BY DEF Inv, TypeInv
<1> QED
  BY Invariance, <1>1, PTL

-----------------------------------------------------------------------------
(* One active cart, one row for a product, and its quantity. *)

Placing(r) == req[r].pc \in {"write", "commit"}

\* The requests that are about to insert their cart.
Creating(r) == \/ req[r].pc = "create"
               \/ Writing(r) /\ req[r].carrito = r /\ carritos[r] = NoCarrito

\* Whoever is about to insert a cart has met those who inserted one since it
\* looked, when there was none.
CreatorsMet ==
  \A r \in Requests : Creating(r) => \A d \in Activos : Met(r, d)

\* The rows a request may touch: its own, which is not there before, or one it
\* found, which keeps its cart and product as long as it is there.
RowKnown(r) ==
  /\ req[r].pc \in {"idle", "find_item"} => items[r] = NoItem
  /\ Placing(r) =>
       /\ req[r].op \in {"add", "update", "remove"}
       /\ req[r].row = r => items[r] = NoItem /\ req[r].op = "add"
       /\ req[r].row # r => req[req[r].row].pc = "done"
       /\ req[r].row \in Rows =>
            /\ items[req[r].row].carrito = req[r].carrito
            /\ req[r].op # "remove" => items[req[r].row].producto = req[r].producto

\* A row is there once the request that inserts it has ended.
RowsKnown ==
  /\ \A i \in Rows : req[i].pc = "done"
  /\ \A r \in Requests : RowKnown(r)

\* Whoever is about to insert a row has met those who inserted one of the same
\* product since it looked.
InserterMet(r) ==
  (Placing(r) /\ req[r].row = r) =>
    \A j \in Rows : (/\ items[j].carrito = req[r].carrito
                     /\ items[j].producto = req[r].producto) => Met(r, j)

\* An add writes the quantity it has read plus its own, unless somebody it has
\* met wrote the row after that.
AddRead(r) ==
  Placing(r) =>
    /\ (req[r].row = r \/ req[r].op = "update") => req[r].cantidad = req[r].asked
    /\ (req[r].op = "add" /\ req[r].row # r /\ req[r].row \in Rows) =>
         \/ req[r].cantidad = items[req[r].row].cantidad + req[r].asked
         \/ \E s \in Writers(req[r].carrito) : s # r /\ req[s].row = req[r].row /\ Met(r, s)

FullInv ==
  /\ Inv /\ CreatorsMet /\ RowsKnown
  /\ \A r \in Requests : InserterMet(r) /\ AddRead(r)
  /\ FindOrCreateMakesOne /\ QuantityIsMeant

\* There are no carts and no rows at the start.
LEMMA InitFull == Init => FullInv
BY InitInv
   DEF Init, FullInv, CreatorsMet, RowsKnown, RowKnown, InserterMet, AddRead,
       FindOrCreateMakesOne, QuantityIsMeant, Idle, NoCarrito, NoItem, Creating, Placing, Writing, Activos, Rows

\* What a commit on a row does, to the row, to its cart and to the request.
LEMMA CommitStep ==
  ASSUME Inv, NEW r \in Requests, Commit(r)
  PROVE  /\ req[r].pc = "commit" /\ req[r].carrito \in Requests /\ req[r].row \in Rows \cup {r}
         /\ req[r].row \in Requests
         /\ \A j \in Requests : j # req[r].row => items'[j] = items[j]
         /\ req[r].op = "remove" => items'[req[r].row] = NoItem
         /\ req[r].op # "remove" =>
              items'[req[r].row] =
                [carrito |-> req[r].carrito, producto |-> req[r].producto,
                 cantidad |-> req[r].cantidad,
                 meant |-> (IF req[r].op = "add" /\ req[r].row # r
                              THEN items[req[r].row].meant ELSE 0) + req[r].asked]
         /\ \A s \in Requests : s # r => req'[s] = req[s]
         /\ req'[r].pc = "done" /\ req'[r].op = req[r].op
         /\ req'[r].carrito = req[r].carrito /\ req'[r].row = req[r].row
         /\ met' = met
         /\ \A s \in Requests : (s # r /\ InFlight(s)) => Met(r, s) /\ Met(s, r)
<1> USE DEF Inv, TypeInv, Types, TypesWith
<1>1. req[r].carrito \in Requests /\ req[r].row \in Requests /\ req[r].row \in Rows \cup {r}
  BY DEF Commit, FieldsSet, Writing, RowHeld
<1>2. /\ req'[r].pc = "done" /\ req'[r].op = req[r].op
      /\ req'[r].carrito = req[r].carrito /\ req'[r].row = req[r].row
      /\ \A s \in Requests : s # r => req'[s] = req[s]
  BY DEF Commit, End, Ended, Idle
<1>3. \A s \in Requests : (s # r /\ InFlight(s)) => Met(r, s) /\ Met(s, r)
  BY DEF Commit, InFlightMet, InFlight
<1>4. /\ req[r].pc = "commit" /\ met' = met
      /\ \A j \in Requests : j # req[r].row => items'[j] = items[j]
      /\ req[r].op = "remove" => items'[req[r].row] = NoItem
  BY <1>1 DEF Commit, End
<1>5. req[r].op # "remove" =>
        items'[req[r].row] =
          [carrito |-> req[r].carrito, producto |-> req[r].producto,
           cantidad |-> req[r].cantidad,
           meant |-> (IF req[r].op = "add" /\ req[r].row # r
                        THEN items[req[r].row].meant ELSE 0) + req[r].asked]
  BY <1>1 DEF Commit
<1> QED
  BY <1>1, <1>2, <1>3, <1>4, <1>5

\* A commit makes no cart active but the one its request inserts.
LEMMA CommitCarts ==
  ASSUME Inv, NEW r \in Requests, Commit(r)
  PROVE  /\ \A d \in Requests : d # req[r].carrito => carritos'[d] = carritos[d]
         /\ \A d \in Activos' : d \in Activos \/ (d = r /\ Creating(r))
         /\ \A d \in Requests : carritos'[d] = NoCarrito => carritos[d] = NoCarrito
<1> USE DEF Inv, TypeInv, Types, TypesWith
<1>1. req[r].carrito \in Requests /\ Writing(r)
  BY DEF Commit, FieldsSet, Writing
<1>2. \A d \in Requests : d # req[r].carrito => carritos'[d] = carritos[d]
  BY <1>1 DEF Commit
<1>3. carritos'[req[r].carrito] =
        [estado |-> IF carritos[req[r].carrito] = NoCarrito THEN "ACTIVO"
                    ELSE carritos[req[r].carrito].estado,
         total |-> req[r].monto]
  BY <1>1 DEF Commit
<1>4. carritos[req[r].carrito] = NoCarrito => req[r].carrito = r
  BY <1>1 DEF CartsKnown
<1>5. \A d \in Activos' : d \in Activos \/ (d = r /\ Creating(r))
  BY <1>1, <1>2, <1>3, <1>4 DEF Activos, Creating
<1>6. carritos'[req[r].carrito] # NoCarrito
  BY <1>3 DEF NoCarrito
<1> QED
  BY <1>2, <1>5, <1>6

\* The requests that may begin, and how.
Beginning(r) ==
  \/ GetCarritoActivo(r)
  \/ \E p \in Products, q \in Cantidades : AddItem(r, p, q)
  \/ \E i \in Rows : RemoveItem(r, i) \/ \E q \in Cantidades : UpdateItemCantidad(r, i, q)
  \/ \E c \in Requests : Checkout(r, c)

LEMMA BeginStep ==
  ASSUME Inv, NEW r \in Requests, Beginning(r)
  PROVE  /\ req[r].pc = "idle" /\ met \subseteq met'
         /\ UNCHANGED <<carritos, items, reservas>>
         /\ \A s \in Requests : s # r => req'[s] = req[s]
         /\ req'[r].pc \in {"create", "find_item", "write", "read_items"}
         /\ req'[r].pc = "create" => Activos = {}
         /\ req'[r].pc = "find_item" =>
              req'[r].carrito \in Activos \/ Activos = {}
         /\ req'[r].pc = "write" =>
              /\ req'[r].op \in {"update", "remove"} /\ req'[r].row \in Rows
              /\ req'[r].carrito = items[req'[r].row].carrito
              /\ req'[r].op = "update" =>
                   /\ req'[r].producto = items[req'[r].row].producto
                   /\ req'[r].cantidad = req'[r].asked
<1> USE DEF Inv, TypeInv, Types, TypesWith, Begin, Idle
<1>1. CASE GetCarritoActivo(r)
  BY <1>1 DEF GetCarritoActivo
<1>2. CASE \E p \in Products, q \in Cantidades : AddItem(r, p, q)
  BY <1>2 DEF AddItem
<1>3. CASE \E i \in Rows : RemoveItem(r, i)
  BY <1>3 DEF RemoveItem
<1>4. CASE \E i \in Rows, q \in Cantidades : UpdateItemCantidad(r, i, q)
  BY <1>4 DEF UpdateItemCantidad
<1>5. CASE \E c \in Requests : Checkout(r, c)
  BY <1>5 DEF Checkout
<1> QED
  BY <1>1, <1>2, <1>3, <1>4, <1>5 DEF Beginning

\* The steps, by what they commit.
LEMMA StepKinds ==
  ASSUME [Next]_vars
  PROVE  \/ \E r \in Requests : \/ Beginning(r) \/ Silent(r) \/ CreateCarrito(r) \/ Commit(r)
                                \/ ConvertCommit(r) \/ StartSaga(r)
         \/ UNCHANGED vars
BY DEF Next, Quiet, Beginning, Silent

\* The end of a checkout, and the creation of an empty cart, write no row.
LEMMA OtherSteps ==
  ASSUME Inv, NEW r \in Requests, CreateCarrito(r) \/ ConvertCommit(r) \/ StartSaga(r)
  PROVE  /\ UNCHANGED <<items, met>>
         /\ req'[r].pc \in {"done", "start_saga"}
         /\ req[r].pc \notin {"idle", "done"}
         /\ \A s \in Requests : s # r => req'[s] = req[s]
         /\ \A d \in Activos' : d \in Activos \/ (d = r /\ Creating(r))
         /\ \A d \in Requests : carritos'[d] = NoCarrito => carritos[d] = NoCarrito
<1> USE DEF Inv, TypeInv, Types, TypesWith, Activos
<1>1. CASE CreateCarrito(r)
  BY <1>1 DEF CreateCarrito, End, Ended, Idle, Creating, NoCarrito
<1>2. CASE ConvertCommit(r)
  <2>1. carritos[req[r].carrito] \in Carrito(Amount) /\ req[r] \in Request(Amount)
    BY <1>2 DEF ConvertCommit, FieldsSet, Converting
  <2> QED
    BY <1>2, <2>1 DEF ConvertCommit, Carrito, Request, NoCarrito
<1>3. CASE StartSaga(r)
  BY <1>3 DEF StartSaga, End, Ended, Idle
<1> QED
  BY <1>1, <1>2, <1>3

\* Nobody inserts a cart without having met those who did since it looked.
LEMMA NextCreatorsMet == FullInv /\ [Next]_vars => CreatorsMet'
<1> SUFFICES ASSUME FullInv, [Next]_vars PROVE CreatorsMet'
  OBVIOUS
<1>0. Inv /\ Types /\ CreatorsMet /\ CartsKnown /\ InFlightMet
  BY DEF FullInv, Inv, TypeInv
<1> USE DEF CreatorsMet, Met
<1>1. ASSUME NEW r \in Requests, Beginning(r) PROVE CreatorsMet'
  <2>1. \A s \in Requests : s # r => (Creating(s)' <=> Creating(s))
    BY <1>0, <1>1, BeginStep DEF Creating, Writing
  <2>2. Creating(r)' => Activos = {}
    <3>1. carritos[r] = NoCarrito /\ r \notin Activos
      BY <1>0, <1>1, BeginStep DEF CartsKnown, Activos, NoCarrito
    <3>2. \A i \in Rows : carritos[items[i].carrito] # NoCarrito
      BY <1>0 DEF CartsKnown
    <3> QED
      BY <1>0, <1>1, <3>1, <3>2, BeginStep DEF Creating, Writing
  <2>3. Activos' = Activos /\ met \subseteq met'
    BY <1>0, <1>1, BeginStep DEF Activos
  <2> QED
    BY <1>0, <2>1, <2>2, <2>3
<1>2. ASSUME NEW r \in Requests, Silent(r) PROVE CreatorsMet'
  <2>1. \A s \in Requests : Creating(s)' => Creating(s)
    BY <1>0, <1>2, SilentStep DEF Creating, Writing, Converting
  <2>2. Activos' = Activos /\ met' = met
    BY <1>0, <1>2, SilentStep DEF Activos
  <2> QED
    BY <1>0, <2>1, <2>2
<1>3. ASSUME NEW r \in Requests, Commit(r) \/ CreateCarrito(r) \/ ConvertCommit(r) \/ StartSaga(r)
      PROVE  CreatorsMet'
  <2>1. /\ \A d \in Activos' : d \in Activos \/ (d = r /\ Creating(r))
        /\ \A d \in Requests : carritos'[d] = NoCarrito => carritos[d] = NoCarrito
        /\ \A s \in Requests : s # r => req'[s] = req[s]
        /\ met' = met /\ req'[r].pc \in {"done", "start_saga"}
    <3>1. CASE Commit(r)
      BY <1>0, <3>1, CommitCarts, CommitStep
    <3>2. CASE CreateCarrito(r) \/ ConvertCommit(r) \/ StartSaga(r)
      BY <1>0, <3>2, OtherSteps
    <3> QED
      BY <1>3, <3>1, <3>2
  <2>2. \A s \in Requests : Creating(s)' => s # r /\ Creating(s)
    BY <2>1 DEF Creating, Writing
  <2>3. \A s \in Requests : (s # r /\ Creating(s) /\ Creating(r)) => {s, r} \in met
    BY <1>0 DEF InFlightMet, InFlight, Creating, Writing
  <2> QED
    BY <1>0, <2>1, <2>2, <2>3
<1>4. CASE UNCHANGED vars
  BY <1>0, <1>4 DEF vars, Creating, Writing, Activos
<1> QED
  BY <1>1, <1>2, <1>3, <1>4, StepKinds

\* How a request that goes on takes its row, and keeps it.
LEMMA PlacingStep ==
  ASSUME Inv, NEW r \in Requests, Silent(r), Placing(r)'
  PROVE  /\ req'[r].op = req[r].op /\ req'[r].carrito = req[r].carrito
         /\ req'[r].producto = req[r].producto /\ req'[r].asked = req[r].asked
         /\ \/ /\ Placing(r) /\ req'[r].row = req[r].row
               /\ req'[r].cantidad = req[r].cantidad
            \/ /\ req[r].pc = "find_item" /\ req[r].op = "add"
               /\ req'[r].row = r /\ req'[r].cantidad = req[r].asked
               /\ Existing(req[r].carrito, req[r].producto) = {}
            \/ /\ req[r].pc = "find_item" /\ req[r].op = "add"
               /\ req'[r].row \in Existing(req[r].carrito, req[r].producto)
               /\ req'[r].cantidad = items[req'[r].row].cantidad + req[r].asked
<1> USE DEF Inv, TypeInv, Types, TypesWith
<1>0. req[r] \in Request(Amount)
  OBVIOUS
<1>1. CASE AddFindItem(r)
  <2>0. req[r].pc = "find_item" /\ req[r].op = "add"
    BY <1>1 DEF AddFindItem, FieldsSet
  <2>1. ASSUME NEW i, NEW q,
               Goto(r, [req[r] EXCEPT !.pc = "write", !.row = i, !.cantidad = q])
        PROVE  /\ req'[r].op = req[r].op /\ req'[r].carrito = req[r].carrito
               /\ req'[r].producto = req[r].producto /\ req'[r].asked = req[r].asked
               /\ req'[r].row = i /\ req'[r].cantidad = q
    <3>1. req'[r] = [req[r] EXCEPT !.pc = "write", !.row = i, !.cantidad = q]
      BY <2>1 DEF Goto
    <3>2. DOMAIN req[r] = {"pc", "op", "carrito", "row", "producto", "asked", "cantidad",
                           "monto", "seen", "lines"}
      BY <1>0 DEF Request
    <3> QED
      BY <3>1, <3>2
  <2>2. CASE /\ Existing(req[r].carrito, req[r].producto) = {}
             /\ Goto(r, [req[r] EXCEPT !.pc = "write", !.row = r, !.cantidad = req[r].asked])
    BY <2>0, <2>1, <2>2
  <2>3. ASSUME NEW i \in Existing(req[r].carrito, req[r].producto),
               Goto(r, [req[r] EXCEPT !.pc = "write", !.row = i,
                                      !.cantidad = NewCantidad(i, req[r].asked)])
        PROVE  /\ req'[r].op = req[r].op /\ req'[r].carrito = req[r].carrito
               /\ req'[r].producto = req[r].producto /\ req'[r].asked = req[r].asked
               /\ req'[r].row = i
               /\ req'[r].cantidad = items[i].cantidad + req[r].asked
    BY <2>1, <2>3 DEF NewCantidad
  <2> QED
    BY <1>1, <2>0, <2>2, <2>3 DEF AddFindItem
<1>2. CASE WriteItem(r)
  <2>1. CASE Goto(r, [req[r] EXCEPT !.pc = "commit", !.monto = Total(LinesWritten(r))])
    BY <1>0, <1>2, <2>1 DEF WriteItem, Goto, Request, Placing
  <2>2. CASE Fail(r)
    BY <2>2 DEF Fail, Goto, Ended, Idle, Placing
  <2> QED
    BY <1>2, <2>1, <2>2 DEF WriteItem
<1>3. CASE CheckoutReadItems(r) \/ ConvertRead(r) \/ ConvertReadItems(r)
  <2>1. ~Writing(r)
    BY <1>3 DEF Writing, CheckoutReadItems, ConvertRead, ConvertReadItems
  <2>2. req'[r].pc = "failed" \/ Converting(r)'
    BY <2>1, SilentStep
  <2> QED
    BY <2>2 DEF Placing, Converting
<1>4. CASE Abort(r)
  BY <1>4 DEF Abort, Fail, Goto, Ended, Idle, Placing
<1> QED
  BY <1>1, <1>2, <1>3, <1>4 DEF Silent

\* No request that ended begins again.
LEMMA DoneStays ==
  ASSUME Inv, [Next]_vars, NEW s \in Requests, req[s].pc = "done"
  PROVE  req'[s] = req[s]
<1>0. Inv /\ Types
  BY DEF Inv, TypeInv
<1>1. ASSUME NEW r \in Requests,
             \/ Beginning(r) \/ Silent(r) \/ CreateCarrito(r) \/ Commit(r)
             \/ ConvertCommit(r) \/ StartSaga(r)
      PROVE  req'[s] = req[s]
  <2>1. CASE Beginning(r)
    BY <1>0, <2>1, BeginStep
  <2>2. CASE Silent(r)
    <3>1. r # s
      BY <1>0, <2>2 DEF Silent, AddFindItem, WriteItem, CheckoutReadItems, ConvertRead,
                        ConvertReadItems, Abort, InFlight
    <3> QED
      BY <1>0, <2>2, <3>1, SilentStep
  <2>3. CASE Commit(r)
    BY <1>0, <2>3, CommitStep
  <2>4. CASE CreateCarrito(r) \/ ConvertCommit(r) \/ StartSaga(r)
    BY <1>0, <2>4, OtherSteps
  <2> QED
    BY <1>1, <2>1, <2>2, <2>3, <2>4
<1>2. CASE UNCHANGED vars
  BY <1>2 DEF vars
<1> QED
  BY <1>1, <1>2, StepKinds

\* Requests that have met stay so.
LEMMA MetStays ==
  ASSUME Inv, [Next]_vars
  PROVE  met \subseteq met'
<1>1. ASSUME NEW r \in Requests, Commit(r) PROVE met \subseteq met'
  BY <1>1 DEF Commit, End
<1>2. ASSUME NEW r \in Requests, Silent(r) PROVE met \subseteq met'
  BY <1>2, SilentStep DEF Inv, TypeInv
<1>3. CASE UNCHANGED vars
  BY <1>3 DEF vars
<1> QED
  BY <1>1, <1>2, <1>3, BeginStep, OtherSteps, StepKinds

\* The steps that write no row leave the rows, and the other requests, alone.
LEMMA RowsStay ==
  ASSUME Inv, NEW r \in Requests,
         Beginning(r) \/ Silent(r) \/ CreateCarrito(r) \/ ConvertCommit(r) \/ StartSaga(r)
  PROVE  /\ items' = items /\ req[r].pc # "done"
         /\ \A s \in Requests : s # r => req'[s] = req[s]
<1>1. CASE Beginning(r)
  BY <1>1, BeginStep
<1>2. CASE Silent(r)
  <2>1. req[r].pc # "done"
    BY <1>2 DEF Silent, AddFindItem, WriteItem, CheckoutReadItems, ConvertRead,
                ConvertReadItems, Abort, InFlight
  <2> QED
    BY <1>2, <2>1, SilentStep DEF Inv, TypeInv
<1>3. CASE CreateCarrito(r) \/ ConvertCommit(r) \/ StartSaga(r)
  BY <1>3, OtherSteps
<1> QED
  BY <1>1, <1>2, <1>3

\* What a commit does to a row that is there: it stays one of the same cart
\* and product, or goes.
LEMMA CommitRow ==
  ASSUME Inv, RowsKnown, NEW r \in Requests, Commit(r), NEW j \in Rows', j # r
  PROVE  /\ j \in Rows
         /\ items'[j].carrito = items[j].carrito /\ items'[j].producto = items[j].producto
<1>1. CASE j # req[r].row
  BY <1>1, CommitStep DEF Rows
<1>2. CASE j = req[r].row
  <2>1. j \in Rows /\ req[r].op # "remove"
    BY <1>2, CommitStep DEF Rows
  <2>2. items[j].carrito = req[r].carrito /\ items[j].producto = req[r].producto
    BY <1>2, <2>1, CommitStep DEF RowsKnown, RowKnown, Placing
  <2>3. items'[j] = [carrito |-> req[r].carrito, producto |-> req[r].producto,
                     cantidad |-> req[r].cantidad,
                     meant |-> (IF req[r].op = "add" /\ req[r].row # r
                                  THEN items[req[r].row].meant ELSE 0) + req[r].asked]
    BY <1>2, <2>1, CommitStep
  <2> QED
    BY <2>1, <2>2, <2>3
<1> QED
  BY <1>1, <1>2

\* The rows stay known to those who touch them.
LEMMA NextRowsKnown == FullInv /\ [Next]_vars => RowsKnown'
<1> SUFFICES ASSUME FullInv, [Next]_vars PROVE RowsKnown'
  OBVIOUS
<1>0. Inv /\ Types /\ RowsKnown
  BY DEF FullInv, Inv, TypeInv
<1>a. \A i \in Rows : i \in Requests /\ req[i].pc = "done"
  BY <1>0 DEF RowsKnown, Rows
<1>1. ASSUME NEW r \in Requests,
             Beginning(r) \/ Silent(r) \/ CreateCarrito(r) \/ ConvertCommit(r) \/ StartSaga(r)
      PROVE  RowsKnown'
  <2>0. /\ items' = items /\ req[r].pc # "done"
        /\ \A s \in Requests : s # r => req'[s] = req[s]
    BY <1>0, <1>1, RowsStay
  <2>1. \A i \in Rows' : req'[i].pc = "done"
    BY <1>a, <2>0 DEF Rows
  <2>2. \A s \in Requests : req[s].pc = "done" => req'[s].pc = "done"
    BY <2>0
  <2>3. ASSUME NEW s \in Requests, s # r PROVE RowKnown(s)'
    <3>1. Placing(s) => req[s].row \in Requests
      BY <1>0 DEF Inv, TypeInv, FieldsSet, Placing
    <3>2. RowKnown(s) /\ req'[s] = req[s]
      BY <1>0, <2>0, <2>3 DEF RowsKnown
    <3> QED
      BY <2>0, <2>2, <3>1, <3>2 DEF RowKnown, Placing, Rows
  <2>4. RowKnown(r)'
    <3>1. CASE Beginning(r)
      <4>1. req[r].pc = "idle" /\ items[r] = NoItem
        BY <1>0, <3>1, BeginStep DEF RowsKnown, RowKnown
      <4>2. ASSUME req'[r].pc = "write"
            PROVE  req'[r].row \in Rows /\ req'[r].row # r /\ req[req'[r].row].pc = "done"
        BY <1>0, <1>a, <3>1, <4>1, <4>2, BeginStep DEF Rows
      <4>3. Placing(r)' => req'[r].pc = "write"
        BY <1>0, <3>1, BeginStep DEF Placing
      <4> QED
        BY <1>0, <2>0, <2>2, <3>1, <4>1, <4>2, <4>3, BeginStep DEF RowKnown, Rows
    <3>2. CASE Silent(r)
      <4>1. req'[r].pc \notin {"idle", "find_item"}
        <5>1. CASE Abort(r)
          BY <1>0, <5>1 DEF Abort, Fail, Goto, Ended, Idle, Types, TypesWith
        <5>2. CASE AddFindItem(r)
          <6>1. ASSUME NEW i, NEW q,
                       Goto(r, [req[r] EXCEPT !.pc = "write", !.row = i, !.cantidad = q])
                PROVE  req'[r].pc = "write"
            <7>1. req'[r] = [req[r] EXCEPT !.pc = "write", !.row = i, !.cantidad = q]
              BY <1>0, <6>1 DEF Goto, Types, TypesWith
            <7>2. "pc" \in DOMAIN req[r]
              BY <1>0 DEF Types, TypesWith, Request
            <7> QED
              BY <7>1, <7>2
          <6> QED
            BY <5>2, <6>1 DEF AddFindItem
        <5>3. CASE WriteItem(r)
          <6>0. req[r] \in Request(Amount)
            BY <1>0 DEF Types, TypesWith
          <6>1. CASE Goto(r, [req[r] EXCEPT !.pc = "commit", !.monto = Total(LinesWritten(r))])
            BY <1>0, <6>0, <6>1 DEF Goto, Types, TypesWith, Request
          <6>2. CASE Fail(r)
            BY <1>0, <6>2 DEF Fail, Goto, Ended, Idle, Types, TypesWith
          <6> QED
            BY <5>3, <6>1, <6>2 DEF WriteItem
        <5>4. CASE CheckoutReadItems(r) \/ ConvertRead(r) \/ ConvertReadItems(r)
          <6>1. ~Writing(r)
            BY <5>4 DEF Writing, CheckoutReadItems, ConvertRead, ConvertReadItems
          <6> QED
            BY <1>0, <3>2, <6>1, SilentStep DEF Converting
        <5> QED
          BY <3>2, <5>1, <5>2, <5>3, <5>4 DEF Silent
      <4>2. ASSUME Placing(r)' PROVE RowKnown(r)'
        <5>0. RowKnown(r) /\ req[r] \in Request(Amount)
          BY <1>0 DEF RowsKnown, Types, TypesWith
        <5>1. CASE Placing(r) /\ req'[r].row = req[r].row
          <6>1. /\ req'[r].op = req[r].op /\ req'[r].carrito = req[r].carrito
                /\ req'[r].producto = req[r].producto
            BY <1>0, <3>2, <4>2, PlacingStep
          <6>2. req[r].row # r => req'[req[r].row].pc = "done"
            BY <2>2, <5>0, <5>1, <1>0 DEF RowKnown, Inv, TypeInv, FieldsSet, Placing
          <6> QED
            BY <2>0, <4>1, <5>0, <5>1, <6>1, <6>2 DEF RowKnown, Rows
        <5>2. CASE req[r].pc = "find_item" /\ req'[r].row = r
          <6>1. req'[r].op = "add"
            BY <1>0, <3>2, <4>2, <5>2, PlacingStep DEF Placing
          <6>2. items'[r] = NoItem
            BY <2>0, <5>0, <5>2 DEF RowKnown
          <6> QED
            BY <4>1, <5>2, <6>1, <6>2 DEF RowKnown, Rows
        <5>3. CASE req[r].pc = "find_item" /\ req'[r].row \in Existing(req[r].carrito, req[r].producto)
          <6>1. /\ req'[r].op = "add" /\ req'[r].carrito = req[r].carrito
                /\ req'[r].producto = req[r].producto
            BY <1>0, <3>2, <4>2, <5>3, PlacingStep DEF Placing
          <6>2. req'[r].row \in Rows /\ items[r] = NoItem
            BY <5>0, <5>3 DEF RowKnown, Existing
          <6>3. req'[req'[r].row].pc = "done" /\ req'[r].row # r
            BY <1>a, <2>2, <6>2 DEF Rows
          <6> QED
            BY <2>0, <4>1, <5>3, <6>1, <6>2, <6>3 DEF RowKnown, Existing, Rows
        <5> QED
          BY <1>0, <3>2, <4>2, <5>1, <5>2, <5>3, PlacingStep
      <4> QED
        BY <4>1, <4>2 DEF RowKnown
    <3>3. CASE CreateCarrito(r) \/ ConvertCommit(r) \/ StartSaga(r)
      BY <1>0, <3>3, OtherSteps DEF RowKnown, Placing
    <3> QED
      BY <1>1, <3>1, <3>2, <3>3
  <2> QED
    BY <2>1, <2>3, <2>4 DEF RowsKnown
<1>2. ASSUME NEW r \in Requests, Commit(r) PROVE RowsKnown'
  <2>0. /\ req[r].pc = "commit" /\ req[r].row \in Rows \cup {r} /\ req'[r].pc = "done"
        /\ \A j \in Requests : j # req[r].row => items'[j] = items[j]
        /\ \A s \in Requests : s # r => req'[s] = req[s]
    BY <1>0, <1>2, CommitStep
  <2>1. \A j \in Rows' : j \in Requests /\ (j # r => j \in Rows)
    BY <1>0, <1>2, CommitRow DEF Rows
  <2>2. \A i \in Rows' : req'[i].pc = "done"
    BY <1>a, <2>0, <2>1
  <2>3. \A s \in Requests : req[s].pc = "done" => req'[s].pc = "done"
    BY <2>0
  <2>4. ASSUME NEW s \in Requests, s # r PROVE RowKnown(s)'
    <3>0. RowKnown(s) /\ req'[s] = req[s] /\ (Placing(s) => req[s].row \in Requests)
      BY <1>0, <2>0, <2>4 DEF RowsKnown, Inv, TypeInv, FieldsSet, Placing
    <3>1. items[s] = NoItem => items'[s] = NoItem
      BY <2>0, <2>4 DEF Rows
    <3>2. ASSUME Placing(s), req[s].row \in Rows'
          PROVE  /\ items'[req[s].row].carrito = req[s].carrito
                 /\ req[s].op # "remove" => items'[req[s].row].producto = req[s].producto
      <4>1. req[s].row # r
        BY <2>0, <2>4, <3>0, <3>2 DEF RowKnown
      <4> QED
        BY <1>0, <1>2, <3>0, <3>2, <4>1, CommitRow DEF RowKnown
    <3> QED
      BY <2>3, <3>0, <3>1, <3>2 DEF RowKnown, Placing
  <2>5. RowKnown(r)'
    BY <2>0 DEF RowKnown, Placing
  <2> QED
    BY <2>2, <2>4, <2>5 DEF RowsKnown
<1>3. CASE UNCHANGED vars
  BY <1>0, <1>3 DEF vars, RowsKnown, RowKnown, Placing, Rows
<1> QED
  BY <1>1, <1>2, <1>3, StepKinds

\* Nobody inserts a row without having met those who inserted one of the same
\* product since it looked.
LEMMA NextInsertersMet ==
  ASSUME FullInv, [Next]_vars, NEW s \in Requests
  PROVE  InserterMet(s)'
<1>0. Inv /\ Types /\ RowsKnown /\ InserterMet(s) /\ RowKnown(s)
  BY DEF FullInv, Inv, TypeInv, RowsKnown
<1>m. met \subseteq met'
  BY <1>0, MetStays
<1>1. ASSUME NEW r \in Requests,
             Beginning(r) \/ Silent(r) \/ CreateCarrito(r) \/ ConvertCommit(r) \/ StartSaga(r)
      PROVE  InserterMet(s)'
  <2>0. items' = items /\ \A q \in Requests : q # r => req'[q] = req[q]
    BY <1>0, <1>1, RowsStay
  <2>1. CASE s # r
    BY <1>0, <1>m, <2>0, <2>1 DEF InserterMet, Placing, Rows, Met
  <2>2. CASE s = r
    <3>1. CASE Beginning(r)
      <4>1. items[r] = NoItem
        BY <1>0, <2>2, <3>1, BeginStep DEF RowKnown
      <4> QED
        BY <1>0, <2>2, <3>1, <4>1, BeginStep DEF InserterMet, Placing, Rows
    <3>2. CASE Silent(r)
      <4> SUFFICES ASSUME Placing(r)', req'[r].row = r,
                          NEW j \in Rows', items'[j].carrito = req'[r].carrito,
                          items'[j].producto = req'[r].producto
                   PROVE  Met(r, j)'
        BY <2>2 DEF InserterMet
      <4>1. /\ req'[r].carrito = req[r].carrito /\ req'[r].producto = req[r].producto
            /\ j \in Rows /\ items'[j] = items[j]
        BY <1>0, <2>0, <3>2, PlacingStep DEF Rows
      <4>2. CASE Placing(r) /\ req'[r].row = req[r].row
        BY <1>0, <1>m, <2>2, <4>1, <4>2 DEF InserterMet, Met
      <4>3. CASE Existing(req[r].carrito, req[r].producto) = {}
        BY <4>1, <4>3 DEF Existing
      <4>4. CASE req[r].pc = "find_item"
                 /\ req'[r].row \in Existing(req[r].carrito, req[r].producto)
        BY <1>0, <2>2, <4>4 DEF RowKnown, Existing, Rows
      <4> QED
        BY <1>0, <3>2, <4>2, <4>3, <4>4, PlacingStep
    <3>3. CASE CreateCarrito(r) \/ ConvertCommit(r) \/ StartSaga(r)
      BY <1>0, <2>2, <3>3, OtherSteps DEF InserterMet, Placing
    <3> QED
      BY <1>1, <3>1, <3>2, <3>3
  <2> QED
    BY <2>1, <2>2
<1>2. ASSUME NEW r \in Requests, Commit(r) PROVE InserterMet(s)'
  <2> SUFFICES ASSUME Placing(s)', req'[s].row = s,
                      NEW j \in Rows', items'[j].carrito = req'[s].carrito,
                      items'[j].producto = req'[s].producto
               PROVE  Met(s, j)'
    BY DEF InserterMet
  <2>1. s # r
    BY <1>0, <1>2, CommitStep DEF Placing
  <2>2. req'[s] = req[s] /\ Placing(s) /\ InFlight(s)
    BY <1>0, <1>2, <2>1, CommitStep DEF Placing, InFlight
  <2>3. CASE j = r
    BY <1>0, <1>2, <1>m, <2>1, <2>2, <2>3, CommitStep DEF Met
  <2>4. CASE j # r
    BY <1>0, <1>2, <1>m, <2>2, <2>4, CommitRow DEF InserterMet, Met
  <2> QED
    BY <2>3, <2>4
<1>3. CASE UNCHANGED vars
  BY <1>0, <1>3 DEF vars, InserterMet, Placing, Rows, Met
<1> QED
  BY <1>1, <1>2, <1>3, StepKinds

\* Two active carts, or two rows of a product, come from requests that met.
LEMMA NextFindOrCreate == FullInv /\ [Next]_vars => FindOrCreateMakesOne'
<1> SUFFICES ASSUME FullInv, [Next]_vars PROVE FindOrCreateMakesOne'
  OBVIOUS
<1>0. Inv /\ Types /\ RowsKnown /\ FindOrCreateMakesOne /\ CreatorsMet
  BY DEF FullInv, Inv, TypeInv
<1>m. met \subseteq met'
  BY <1>0, MetStays
<1>1. ASSUME NEW r \in Requests, Beginning(r) \/ Silent(r) PROVE FindOrCreateMakesOne'
  <2>1. items' = items /\ carritos' = carritos
    BY <1>0, <1>1, BeginStep, SilentStep
  <2> QED
    BY <1>0, <1>m, <2>1 DEF FindOrCreateMakesOne, Activos, Rows, Met
<1>2. ASSUME NEW r \in Requests, CreateCarrito(r) \/ ConvertCommit(r) \/ StartSaga(r) \/ Commit(r)
      PROVE  \A c \in Activos', d \in Activos' : c = d \/ Met(c, d)'
  <2>1. \A d \in Activos' : d \in Activos \/ (d = r /\ Creating(r))
    BY <1>0, <1>2, OtherSteps, CommitCarts
  <2>2. Creating(r) => \A d \in Activos : {r, d} \in met
    BY <1>0 DEF CreatorsMet, Met
  <2> QED
    BY <1>0, <1>m, <2>1, <2>2 DEF FindOrCreateMakesOne, Met
<1>3. ASSUME NEW r \in Requests, CreateCarrito(r) \/ ConvertCommit(r) \/ StartSaga(r)
      PROVE  FindOrCreateMakesOne'
  <2>1. items' = items
    BY <1>0, <1>3, OtherSteps
  <2> QED
    BY <1>0, <1>2, <1>3, <1>m, <2>1 DEF FindOrCreateMakesOne, Rows, Met
<1>4. ASSUME NEW r \in Requests, Commit(r) PROVE FindOrCreateMakesOne'
  <2>1. ASSUME NEW i \in Rows', NEW j \in Rows', i # j,
               items'[i].carrito = items'[j].carrito, items'[i].producto = items'[j].producto
        PROVE  {i, j} \in met
    <3>1. CASE i # r /\ j # r
      BY <1>0, <1>4, <2>1, <3>1, CommitRow DEF FindOrCreateMakesOne, Met
    <3>2. ASSUME r \in Rows', NEW k \in Rows', k # r,
                 items'[k].carrito = items'[r].carrito, items'[k].producto = items'[r].producto
          PROVE  {r, k} \in met
      <4>1. k \in Rows /\ items'[k].carrito = items[k].carrito
            /\ items'[k].producto = items[k].producto
        BY <1>0, <1>4, <3>2, CommitRow
      <4>2. CASE req[r].row = r
        <5>1. items'[r] = [carrito |-> req[r].carrito, producto |-> req[r].producto,
                           cantidad |-> req[r].cantidad,
                           meant |-> (IF req[r].op = "add" /\ req[r].row # r
                                        THEN items[req[r].row].meant ELSE 0) + req[r].asked]
          BY <1>0, <1>4, <3>2, <4>2, CommitStep DEF Rows
        <5>2. InserterMet(r) /\ Placing(r)
          BY <1>0, <1>4, CommitStep DEF FullInv, Placing
        <5>3. items[k].carrito = req[r].carrito /\ items[k].producto = req[r].producto
          <6>1. items'[r].carrito = req[r].carrito /\ items'[r].producto = req[r].producto
            BY <5>1
          <6> QED
            BY <3>2, <4>1, <6>1
        <5> QED
          BY <4>1, <4>2, <5>2, <5>3 DEF InserterMet, Met
      <4>3. CASE req[r].row # r
        <5>1. r \in Rows /\ items'[r] = items[r]
          BY <1>0, <1>4, <3>2, <4>3, CommitStep DEF Rows
        <5> QED
          BY <1>0, <3>2, <4>1, <5>1 DEF FindOrCreateMakesOne, Met
      <4> QED
        BY <4>2, <4>3
    <3>3. {i, j} = {j, i}
      OBVIOUS
    <3> QED
      BY <2>1, <3>1, <3>2, <3>3
  <2> QED
    BY <1>2, <1>4, <1>m, <2>1 DEF FindOrCreateMakesOne, Met
<1>5. CASE UNCHANGED vars
  BY <1>0, <1>5 DEF vars, FindOrCreateMakesOne, Activos, Rows, Met
<1> QED
  BY <1>1, <1>3, <1>4, <1>5, StepKinds

\* An add that has read a row still knows its quantity, or has met its writer.
LEMMA NextAddRead ==
  ASSUME FullInv, [Next]_vars, NEW s \in Requests
  PROVE  AddRead(s)'
<1>0. Inv /\ Types /\ RowsKnown /\ AddRead(s) /\ RowKnown(s)
  BY DEF FullInv, Inv, TypeInv, RowsKnown
<1>m. met \subseteq met'
  BY <1>0, MetStays
<1>w. \A q \in Requests : req[q].pc = "done" => req'[q] = req[q]
  BY <1>0, DoneStays
<1>a. ASSUME Placing(s), req'[s] = req[s],
             (req[s].row # s /\ req[s].row \in Rows' /\ req[s].op = "add")
               => req[s].row \in Rows /\ items'[req[s].row] = items[req[s].row]
      PROVE  AddRead(s)'
  <2>1. CASE req[s].op = "add" /\ req[s].row # s /\ req[s].row \in Rows'
    <3>1. CASE req[s].cantidad = items[req[s].row].cantidad + req[s].asked
      BY <1>0, <1>a, <2>1, <3>1 DEF AddRead
    <3>2. ASSUME NEW q \in Writers(req[s].carrito), q # s, req[q].row = req[s].row, Met(s, q)
          PROVE  AddRead(s)'
      <4>1. q \in Writers(req[s].carrito)' /\ req'[q] = req[q] /\ Met(s, q)'
        BY <1>a, <1>m, <1>w, <3>2 DEF Met, Writers
      <4> QED
        BY <1>0, <1>a, <2>1, <3>2, <4>1 DEF AddRead
    <3> QED
      BY <1>0, <1>a, <2>1, <3>1, <3>2 DEF AddRead
  <2>2. CASE ~(req[s].op = "add" /\ req[s].row # s /\ req[s].row \in Rows')
    BY <1>0, <1>a, <2>2 DEF AddRead
  <2> QED
    BY <2>1, <2>2
<1>1. ASSUME NEW r \in Requests,
             Beginning(r) \/ Silent(r) \/ CreateCarrito(r) \/ ConvertCommit(r) \/ StartSaga(r)
      PROVE  AddRead(s)'
  <2>0. items' = items /\ \A q \in Requests : q # r => req'[q] = req[q]
    BY <1>0, <1>1, RowsStay
  <2>1. CASE s # r
    <3>1. req'[s] = req[s]
      BY <2>0, <2>1
    <3>2. CASE Placing(s)
      BY <1>a, <2>0, <3>1, <3>2 DEF Rows
    <3>3. CASE ~Placing(s)
      BY <3>1, <3>3 DEF AddRead, Placing
    <3> QED
      BY <3>2, <3>3
  <2>2. CASE s = r
    <3>1. CASE Beginning(r)
      <4>1. items[r] = NoItem
        BY <1>0, <2>2, <3>1, BeginStep DEF RowKnown
      <4> QED
        BY <1>0, <2>2, <3>1, <4>1, BeginStep DEF AddRead, Placing, Rows
    <3>2. CASE Silent(r)
      <4> SUFFICES ASSUME Placing(r)' PROVE AddRead(r)'
        BY <2>2 DEF AddRead
      <4>0. /\ req'[r].op = req[r].op /\ req'[r].carrito = req[r].carrito
            /\ req'[r].asked = req[r].asked
        BY <1>0, <3>2, PlacingStep
      <4>1. CASE Placing(r) /\ req'[r].row = req[r].row /\ req'[r].cantidad = req[r].cantidad
        <5>1. CASE req[r].op = "add" /\ req[r].row # r /\ req[r].row \in Rows
          <6>1. CASE req[r].cantidad = items[req[r].row].cantidad + req[r].asked
            BY <2>0, <4>0, <4>1, <5>1, <6>1 DEF AddRead
          <6>2. ASSUME NEW q \in Writers(req[r].carrito), q # r, req[q].row = req[r].row,
                       Met(r, q)
                PROVE  AddRead(r)'
            <7>1. q \in Writers(req[r].carrito)' /\ req'[q] = req[q] /\ Met(r, q)'
              BY <1>m, <1>w, <4>0, <6>2 DEF Met, Writers
            <7> QED
              BY <4>0, <4>1, <5>1, <6>2, <7>1 DEF AddRead
          <6> QED
            BY <1>0, <2>2, <4>1, <5>1, <6>1, <6>2 DEF AddRead
        <5>2. CASE ~(req[r].op = "add" /\ req[r].row # r /\ req[r].row \in Rows)
          BY <1>0, <2>0, <2>2, <4>0, <4>1, <5>2 DEF AddRead, Rows
        <5> QED
          BY <5>1, <5>2
      <4>2. CASE req[r].op = "add" /\ req'[r].row = r /\ req'[r].cantidad = req[r].asked
        BY <4>0, <4>2 DEF AddRead
      <4>3. CASE /\ req[r].pc = "find_item" /\ req[r].op = "add"
                 /\ req'[r].row \in Existing(req[r].carrito, req[r].producto)
                 /\ req'[r].cantidad = items[req'[r].row].cantidad + req[r].asked
        <5>1. req'[r].row # r
          BY <1>0, <2>2, <4>3 DEF RowKnown, Existing, Rows
        <5> QED
          BY <2>0, <4>0, <4>3, <5>1 DEF AddRead
      <4> QED
        BY <1>0, <3>2, <4>1, <4>2, <4>3, PlacingStep
    <3>3. CASE CreateCarrito(r) \/ ConvertCommit(r) \/ StartSaga(r)
      BY <1>0, <2>2, <3>3, OtherSteps DEF AddRead, Placing
    <3> QED
      BY <1>1, <3>1, <3>2, <3>3
  <2> QED
    BY <2>1, <2>2
<1>2. ASSUME NEW r \in Requests, Commit(r) PROVE AddRead(s)'
  <2>1. CASE ~Placing(s)'
    BY <2>1 DEF AddRead
  <2>2. CASE Placing(s)'
    <3>1. s # r /\ req'[s] = req[s] /\ Placing(s) /\ InFlight(s)
      BY <1>0, <1>2, <2>2, CommitStep DEF Placing, InFlight
    <3>2. CASE req[s].row # req[r].row
      <4>1. req[s].row \in Requests
        BY <1>0, <3>1 DEF Inv, TypeInv, FieldsSet, Placing
      <4>2. items'[req[s].row] = items[req[s].row]
        BY <1>0, <1>2, <3>2, <4>1, CommitStep
      <4> QED
        BY <1>a, <3>1, <4>1, <4>2 DEF Rows
    <3>3. CASE req[s].row = req[r].row
      <4>1. CASE req[s].op = "add" /\ req[s].row # s /\ req[s].row \in Rows'
        <5>0. RowKnown(r) /\ Placing(r)
          BY <1>0, <1>2, CommitStep DEF RowsKnown, Placing
        <5>1. req[r].op # "remove" /\ req[r].op \in {"add", "update", "remove"}
          <6>1. req[r].op = "remove" => items'[req[r].row] = NoItem
            BY <1>0, <1>2, CommitStep
          <6> QED
            BY <3>3, <4>1, <5>0, <6>1 DEF Rows, RowKnown
        <5>2. req[s].row # r
          BY <1>0, <1>2, <3>1, <4>1, CommitStep DEF RowKnown
        <5>3. req[s].row \in Rows
          BY <1>0, <1>2, <4>1, <5>2, CommitRow
        <5>4. req[r].carrito = req[s].carrito
          BY <1>0, <3>1, <3>3, <4>1, <5>0, <5>1, <5>3 DEF RowKnown
        <5>5. /\ req'[r].pc = "done" /\ req'[r].op = req[r].op
              /\ req'[r].carrito = req[r].carrito /\ req'[r].row = req[r].row /\ Met(s, r)
          BY <1>0, <1>2, <3>1, CommitStep
        <5>6. r \in Writers(req[s].carrito)' /\ req'[r].row = req[s].row /\ Met(s, r)'
          BY <1>m, <3>1, <3>3, <5>1, <5>4, <5>5 DEF Writers, Met
        <5> QED
          BY <1>0, <3>1, <4>1, <5>6 DEF AddRead
      <4>2. CASE ~(req[s].op = "add" /\ req[s].row # s /\ req[s].row \in Rows')
        BY <1>0, <3>1, <4>2 DEF AddRead
      <4> QED
        BY <4>1, <4>2
    <3> QED
      BY <3>2, <3>3
  <2> QED
    BY <2>1, <2>2
<1>3. CASE UNCHANGED vars
  <2>1. CASE Placing(s)
    BY <1>a, <1>3, <2>1 DEF vars, Rows
  <2>2. CASE ~Placing(s)
    BY <1>3, <2>2 DEF vars, AddRead, Placing
  <2> QED
    BY <2>1, <2>2
<1> QED
  BY <1>1, <1>2, <1>3, StepKinds

\* A commit writes the quantity that is meant, or its request has met the
\* writer it did not see.
LEMMA NextQuantityIsMeant == FullInv /\ [Next]_vars => QuantityIsMeant'
<1> SUFFICES ASSUME FullInv, [Next]_vars, NEW i \in Rows'
             PROVE  \/ items'[i].cantidad = items'[i].meant
                    \/ \E r \in Writers(items[i].carrito)', s \in Writers(items[i].carrito)' :
                         /\ req'[r].op = "add" /\ req'[r].row = i /\ req'[s].row = i
                         /\ r # s /\ Met(r, s)'
  BY DEF QuantityIsMeant
<1>0. Inv /\ Types /\ RowsKnown /\ QuantityIsMeant
  BY DEF FullInv, Inv, TypeInv
<1>m. met \subseteq met'
  BY <1>0, MetStays
<1>w. \A q \in Requests : req[q].pc = "done" => req'[q] = req[q]
  BY <1>0, DoneStays
\* What excepted a row before a step still does.
<1>a. ASSUME i \in Rows, items[i].cantidad # items[i].meant,
             items'[i].carrito = items[i].carrito
      PROVE  \E r \in Writers(items[i].carrito)', s \in Writers(items[i].carrito)' :
               /\ req'[r].op = "add" /\ req'[r].row = i /\ req'[s].row = i
               /\ r # s /\ Met(r, s)'
  <2>1. PICK r \in Writers(items[i].carrito), s \in Writers(items[i].carrito) :
          req[r].op = "add" /\ req[r].row = i /\ req[s].row = i /\ r # s /\ Met(r, s)
    BY <1>0, <1>a DEF QuantityIsMeant
  <2>2. Met(r, s)'
    BY <1>m, <2>1 DEF Met
  <2> QED
    BY <1>a, <1>w, <2>1, <2>2 DEF Writers
<1>1. CASE i \in Rows /\ items'[i] = items[i]
  BY <1>1, <1>a
<1>2. ASSUME NEW r \in Requests, Commit(r), req[r].row = i
      PROVE  \/ items'[i].cantidad = items'[i].meant
             \/ \E q \in Writers(items[i].carrito)', s \in Writers(items[i].carrito)' :
                  /\ req'[q].op = "add" /\ req'[q].row = i /\ req'[s].row = i
                  /\ q # s /\ Met(q, s)'
  <2>1. req[r].op \in {"add", "update"} /\ Placing(r) /\ AddRead(r) /\ RowKnown(r)
    BY <1>0, <1>2, CommitStep DEF FullInv, RowsKnown, RowKnown, Placing, Rows
  <2>2. items'[i] =
          [carrito |-> req[r].carrito, producto |-> req[r].producto,
           cantidad |-> req[r].cantidad,
           meant |-> (IF req[r].op = "add" /\ i # r THEN items[i].meant ELSE 0) + req[r].asked]
    BY <1>0, <1>2, <2>1, CommitStep
  <2>3. req[r].asked \in Nat
    BY <1>0 DEF Types, TypesWith, Request
  <2>4. CASE i = r \/ req[r].op = "update"
    <3>1. items'[i].meant = req[r].asked
      BY <2>1, <2>2, <2>3, <2>4, <1>2 DEF RowKnown
    <3> QED
      BY <1>2, <2>1, <2>2, <2>4, <3>1 DEF AddRead
  <2>5. CASE i # r /\ req[r].op = "add"
    <3>1. i \in Rows
      BY <1>0, <1>2, <2>5, CommitRow
    <3>2. items'[i].carrito = items[i].carrito /\ items[i].carrito = req[r].carrito
      BY <1>2, <2>1, <2>2, <2>5, <3>1 DEF RowKnown
    <3>3. CASE req[r].cantidad = items[i].cantidad + req[r].asked
      <4>1. CASE items[i].cantidad = items[i].meant
        BY <2>2, <2>5, <3>3, <4>1
      <4>2. CASE items[i].cantidad # items[i].meant
        BY <1>a, <3>1, <3>2, <4>2
      <4> QED
        BY <4>1, <4>2
    <3>4. ASSUME NEW s \in Writers(req[r].carrito), s # r, req[s].row = i, Met(r, s)
          PROVE  \E q \in Writers(items[i].carrito)', t \in Writers(items[i].carrito)' :
                   /\ req'[q].op = "add" /\ req'[q].row = i /\ req'[t].row = i
                   /\ q # t /\ Met(q, t)'
      <4>1. s \in Writers(items[i].carrito)' /\ req'[s].row = i /\ Met(r, s)'
        BY <1>m, <1>w, <3>2, <3>4 DEF Met, Writers
      <4>2. r \in Writers(items[i].carrito)' /\ req'[r].op = "add" /\ req'[r].row = i
        BY <1>0, <1>2, <2>5, <3>2, CommitStep DEF Writers
      <4> QED
        BY <3>4, <4>1, <4>2
    <3> QED
      BY <1>2, <2>1, <2>5, <3>1, <3>2, <3>3, <3>4 DEF AddRead
  <2> QED
    BY <2>1, <2>4, <2>5
<1>3. ASSUME NEW r \in Requests, Commit(r), req[r].row # i
      PROVE  i \in Rows /\ items'[i] = items[i]
  BY <1>0, <1>3, CommitStep DEF Rows
<1>4. ASSUME NEW r \in Requests,
             Beginning(r) \/ Silent(r) \/ CreateCarrito(r) \/ ConvertCommit(r) \/ StartSaga(r)
      PROVE  i \in Rows /\ items'[i] = items[i]
  BY <1>0, <1>4, RowsStay DEF Rows
<1>5. CASE UNCHANGED vars
  BY <1>1, <1>5 DEF vars, Rows
<1> QED
  BY <1>1, <1>2, <1>3, <1>4, <1>5, StepKinds

\* Every step keeps the invariant with what overlapping writers know.
LEMMA NextFullInv == FullInv /\ [Next]_vars => FullInv'
<1> SUFFICES ASSUME FullInv, [Next]_vars PROVE FullInv'
  OBVIOUS
<1>1. Inv'
  BY NextTypes, NextFieldsSet, NextLinesFinite, NextRowHeld, NextInFlightMet, NextCartsKnown,
     NextConvertedOnce, NextOneReserva
  DEF Inv, TypeInv, FullInv
<1>2. CreatorsMet' /\ RowsKnown' /\ FindOrCreateMakesOne' /\ QuantityIsMeant'
  BY NextCreatorsMet, NextRowsKnown, NextFindOrCreate, NextQuantityIsMeant
<1>3. \A r \in Requests : InserterMet(r)' /\ AddRead(r)'
  BY NextInsertersMet, NextAddRead
<1> QED
  BY <1>1, <1>2, <1>3 DEF FullInv

\* The invariant with what overlapping writers know of each other.
THEOREM FullInvariance == Spec => []FullInv
BY InitFull, NextFullInv, PTL DEF Spec

\* CarritoService.getCarritoActivo and addItem: a client has two active carts,
\* or a cart two rows of a product, only if the requests that inserted them
\* ran at the same time.
THEOREM FindOrCreateMakesOneAlways == Spec => []FindOrCreateMakesOne
<1>1. FullInv => FindOrCreateMakesOne
  BY DEF FullInv
<1> QED
  BY FullInvariance, <1>1, PTL

\* CarritoService.addItem: the quantity of a row is what its requests add up
\* to, unless an add overlapped another writer of the row.
THEOREM QuantityIsMeantAlways == Spec => []QuantityIsMeant
<1>1. FullInv => QuantityIsMeant
  BY DEF FullInv
<1> QED
  BY FullInvariance, <1>1, PTL
=============================================================================
