------------------------------ MODULE Dashboard ------------------------------
(***************************************************************************)
(* The sales report of the administrator, while providers are edited and   *)
(* reservas are made, paid and cancelled.  It reads the providers, then    *)
(* the detalles of a range of days, then (as Prisma loads a relation) the  *)
(* status of their reservas, with no transaction around them, and adds     *)
(* everything up in memory.                                                *)
(*                                                                         *)
(* Each detalle here has a reserva of its own: the report looks at the     *)
(* status and the day of a reserva only through its detalles.              *)
(***************************************************************************)
EXTENDS Naturals, FiniteSets, FiniteSetsExt

CONSTANTS Proveedores,  \* ids of providers that may be created
          Tipos,        \* the tipos they are given
          Detalles,     \* bound: ids of the detalles that may be sold
          Subtotales,   \* precio_unitario times cantidad
          LastDay       \* bound

TIPOS_BASE == {"VEHICLE", "FLIGHT", "HOTEL", "ATTRACTION"}

Status == {"PENDIENTE", "CONFIRMADA", "CANCELADA", "FALLIDA_PAGO"}

ASSUME TiposAssumption == Tipos \subseteq TIPOS_BASE
ASSUME SubtotalesAssumption == Subtotales \subseteq Nat
ASSUME DaysAssumption == LastDay \in Nat \ {0}

Days == 1..LastDay

VARIABLES proveedores, \* tipo and activo of the providers there are
          detalles,    \* provider, subtotal and day of the detalles there are
          status,      \* reservas.status of the reserva of each detalle
          today,
          pc,          \* the next statement of the report
          range,       \* desde and hasta
          leidos,      \* the providers, as it read them
          filas,       \* the detalles, as it read them
          estados,     \* the status of the reserva of each, as it read it
          since        \* history: the detalles sold, and those that got another
                       \* status, since it began

vars == <<proveedores, detalles, status, today, pc, range, leidos, filas, estados,
          since>>
dbVars == <<proveedores, detalles, status, today>>
readVars == <<pc, range, leidos, filas, estados, since>>

Since == [sold : SUBSET Detalles, changed : SUBSET Detalles]

\* The tables and the copies of them, whatever rows they have.
Proveedor == [tipo : Tipos, activo : BOOLEAN]
Detalle == [proveedor : Proveedores, subtotal : Subtotales, dia : Days]

TypeOK ==
  /\ DOMAIN proveedores \subseteq Proveedores /\ DOMAIN leidos \subseteq Proveedores
  /\ proveedores \in [DOMAIN proveedores -> Proveedor]
  /\ leidos \in [DOMAIN leidos -> Proveedor]
  /\ DOMAIN detalles \subseteq Detalles /\ DOMAIN filas \subseteq Detalles
  /\ detalles \in [DOMAIN detalles -> Detalle]
  /\ filas \in [DOMAIN filas -> Detalle]
  /\ status \in [DOMAIN detalles -> Status]
  /\ estados \in [DOMAIN estados -> Status]
  /\ today \in Days
  /\ pc \in {"proveedores", "detalles", "reservas", "done"}
  /\ range \in [desde : Days, hasta : Days]
  /\ since \in Since

Nothing == [x \in {} |-> 0]

Init ==
  /\ proveedores = Nothing /\ detalles = Nothing /\ status = Nothing
  /\ today = 1
  /\ pc = "proveedores"
  /\ range \in {r \in [desde : Days, hasta : Days] : r.desde <= r.hasta}
  /\ leidos = Nothing /\ filas = Nothing /\ estados = Nothing
  /\ since = [sold |-> {}, changed |-> {}]

-----------------------------------------------------------------------------
(* What others do to the tables meanwhile. *)

Begun == pc # "proveedores"

With(f, x, v) == [y \in DOMAIN f \cup {x} |-> IF y = x THEN v ELSE f[y]]

CreateProveedor(p, tipo) ==
  /\ p \notin DOMAIN proveedores
  /\ proveedores' = With(proveedores, p, [tipo |-> tipo, activo |-> TRUE])
  /\ UNCHANGED <<detalles, status, today, readVars>>

\* findById, then the update of the fields that were given.
UpdateProveedor(p, tipo, activo) ==
  /\ p \in DOMAIN proveedores
  /\ proveedores' = [proveedores EXCEPT ![p] = [tipo |-> tipo, activo |-> activo]]
  /\ UNCHANGED <<detalles, status, today, readVars>>

\* The foreign key keeps a provider that has a detalle.
DeleteProveedor(p) ==
  /\ p \in DOMAIN proveedores
  /\ \A d \in DOMAIN detalles : detalles[d].proveedor # p
  /\ proveedores' = [q \in DOMAIN proveedores \ {p} |-> proveedores[q]]
  /\ UNCHANGED <<detalles, status, today, readVars>>

\* A cart becomes a PENDIENTE reserva; fecha_reserva is the day it does.
Sell(d, p, subtotal) ==
  /\ d \notin DOMAIN detalles
  /\ p \in DOMAIN proveedores
  /\ detalles' = With(detalles, d, [proveedor |-> p, subtotal |-> subtotal, dia |-> today])
  /\ status' = With(status, d, "PENDIENTE")
  /\ since' = IF Begun THEN [since EXCEPT !.sold = @ \cup {d}] ELSE since
  /\ UNCHANGED <<proveedores, today, pc, range, leidos, filas, estados>>

\* updateEstado, by a checkout or a cancellation of either version.
UpdateEstado(d, s) ==
  /\ d \in DOMAIN detalles
  /\ s # "PENDIENTE"
  /\ status' = [status EXCEPT ![d] = s]
  /\ since' = IF Begun THEN [since EXCEPT !.changed = @ \cup {d}] ELSE since
  /\ UNCHANGED <<proveedores, detalles, today, pc, range, leidos, filas, estados>>

NextDay ==
  /\ today < LastDay
  /\ today' = today + 1
  /\ UNCHANGED <<proveedores, detalles, status, readVars>>

-----------------------------------------------------------------------------
(* DashboardService.ventasPorProveedor *)

\* Mutant: the report lists the active providers only.
ReadActivos ==
  /\ pc = "proveedores"
  /\ pc' = "detalles"
  /\ leidos' = [p \in {q \in DOMAIN proveedores : proveedores[q].activo} |-> proveedores[p]]
  /\ UNCHANGED <<dbVars, range, filas, estados, since>>

ReadProveedores ==
  /\ pc = "proveedores"
  /\ pc' = "detalles"
  /\ leidos' = proveedores
  /\ UNCHANGED <<dbVars, range, filas, estados, since>>

InRange(d) == range.desde <= detalles[d].dia /\ detalles[d].dia <= range.hasta

ReadDetalles ==
  /\ pc = "detalles"
  /\ pc' = "reservas"
  /\ filas' = [d \in {e \in DOMAIN detalles : InRange(e)} |-> detalles[d]]
  /\ UNCHANGED <<dbVars, range, leidos, estados, since>>

ReadReservas ==
  /\ pc = "reservas"
  /\ pc' = "done"
  /\ estados' = [d \in DOMAIN filas |-> status[d]]
  /\ UNCHANGED <<dbVars, range, leidos, filas, since>>

Empty == [confirmadas |-> 0, canceladas |-> 0, pendientes |-> 0, revenue |-> 0,
          ultimaVenta |-> 0]

\* Mutant: what is pending is revenue already.
ColumnOptimist(s) == IF s = "CANCELADA" THEN "canceladas" ELSE "confirmadas"

\* The column of a reserva.  The loop tests the status of the detalle itself for
\* CANCELADA too; no code of the repository writes it, so it is left out.
Column(s) == IF s = "CANCELADA" THEN "canceladas"
             ELSE IF s = "PENDIENTE" THEN "pendientes" ELSE "confirmadas"

\* One turn of the loop over the detalles; its bucket, and the 0 that stands
\* for an ultimaVenta of null.
Add(d, b) ==
  LET col == Column(estados[d])
  IN  [b EXCEPT ![col] = @ + 1,
                !.revenue = IF col = "confirmadas" THEN @ + filas[d].subtotal ELSE @,
                !.ultimaVenta = IF filas[d].dia > @ THEN filas[d].dia ELSE @]

Bucket(p) == FoldSet(Add, Empty, {d \in DOMAIN filas : filas[d].proveedor = p})

\* The rows of the answer, one per provider read; formatting and the two
\* quotients are left out.
ProveedoresOut == [p \in DOMAIN leidos |-> Bucket(p)]

SumsOf == {"confirmadas", "canceladas", "pendientes", "revenue"}

\* The rollup by tipo.
AddRow(p, t) ==
  [t EXCEPT ![leidos[p].tipo] = [c \in SumsOf |-> @[c] + ProveedoresOut[p][c]]]

TotalesPorTipo ==
  FoldSet(AddRow, [tipo \in TIPOS_BASE |-> [c \in SumsOf |-> 0]], DOMAIN leidos)

\* Bound: nothing happens after the answer.
Next ==
  /\ pc # "done"
  /\ \/ \E p \in Proveedores :
          \/ \E tipo \in Tipos : \/ CreateProveedor(p, tipo)
                                 \/ \E activo \in BOOLEAN : UpdateProveedor(p, tipo, activo)
          \/ DeleteProveedor(p)
          \/ \E d \in Detalles, n \in Subtotales : Sell(d, p, n)
     \/ \E d \in Detalles, s \in Status : UpdateEstado(d, s)
     \/ NextDay
     \/ ReadProveedores \/ ReadDetalles \/ ReadReservas

Spec == Init /\ [][Next]_vars

-----------------------------------------------------------------------------
(* Safety. *)

\* The detalles of the range, those of them there were when the report began,
\* and those nobody has touched since.
Relevant == {d \in DOMAIN detalles : detalles[d].dia \in range.desde..range.hasta}
Old      == Relevant \ since.sold
Settled  == Old \ since.changed

Sum(f, D)  == MapThenSumSet(LAMBDA x : f[x], D)
Overall(c) == Sum([tipo \in TIPOS_BASE |-> TotalesPorTipo[tipo][c]], TIPOS_BASE)
Earned(D)  == Sum([d \in DOMAIN detalles |-> detalles[d].subtotal], D)

\* A sale, by the words of the loop: a reserva on its happy path.
IsSale(d)    == status[d] = "CONFIRMADA"
HasFailed(d) == status[d] = "FALLIDA_PAGO"

\* Every detalle sold before the report began is in exactly one column of its
\* totals, and one sold since in at most one, whatever is edited meanwhile.
EverySaleIsCountedOnce ==
  pc = "done" =>
    LET counted == Overall("confirmadas") + Overall("canceladas") + Overall("pendientes")
    IN  Cardinality(Old) <= counted /\ counted <= Cardinality(Relevant)

\* The revenue is that of the sales: no reserva which was left alone while the
\* report was made, and is no sale, adds to it.
RevenueIsEarned ==
  pc = "done" =>
    Overall("revenue") <= Earned({d \in Settled : IsSale(d)} \cup (Relevant \cap since.changed))

\* What holds of it: every settled sale is in the revenue, and all that is in it
\* beside them is what changed its status meanwhile and what has failed.
RevenueIsAccounted ==
  pc = "done" =>
    LET sales  == {d \in Settled : IsSale(d)}
        failed == {d \in Settled : HasFailed(d)}
    IN  /\ Overall("revenue") >= Earned(sales)
        /\ Overall("revenue") <= Earned(sales \cup failed \cup (Relevant \cap since.changed))

\* What both rest on: every detalle of the range that was there when the report
\* began was read as it is, with its provider among those read, and those
\* nobody has touched since with the status they have.
ReportIsComplete ==
  pc = "done" =>
    /\ \A d \in Old : /\ d \in DOMAIN filas /\ filas[d] = detalles[d]
                      /\ filas[d].proveedor \in DOMAIN leidos
    /\ \A d \in Settled : estados[d] = status[d]

-----------------------------------------------------------------------------
(* The strengthening that makes it inductive; see DashboardProofs. *)

\* The foreign key.
ProvidersExist == \A d \in DOMAIN detalles : detalles[d].proveedor \in DOMAIN proveedores

\* What was read so far, against the tables as they are now.
ReadsAreSound ==
  /\ Begun => \A d \in DOMAIN detalles \ since.sold : detalles[d].proveedor \in DOMAIN leidos
  /\ pc \in {"reservas", "done"} =>
       /\ Old \subseteq DOMAIN filas /\ DOMAIN filas \subseteq Relevant
       /\ \A d \in DOMAIN filas : filas[d] = detalles[d]
  /\ pc = "done" =>
       /\ DOMAIN estados = DOMAIN filas
       /\ \A d \in DOMAIN filas \ since.changed : estados[d] = status[d]

\* What was sold since is pending until somebody changes it.
NewIsPending ==
  /\ ~ Begun => since.sold = {}
  /\ \A d \in since.sold \ since.changed : d \in DOMAIN detalles /\ status[d] = "PENDIENTE"

\* There is an end to what the report adds up.
TablesAreFinite ==
  IsFiniteSet(DOMAIN proveedores) /\ IsFiniteSet(DOMAIN leidos) /\ IsFiniteSet(DOMAIN detalles)

IInv == TypeOK /\ ProvidersExist /\ ReadsAreSound /\ NewIsPending /\ TablesAreFinite
=============================================================================
