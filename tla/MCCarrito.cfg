SPECIFICATION Spec
CONSTANTS
  Requests = {r1, r2, r3, r4}
  p1 = p1
  p2 = p2
  p3 = p3
  Products <- MCProducts
  SinId = {p3}
  Precio <- MCPrecio
  Cantidades = {1, 2}
  Nada = Nada
SYMMETRY Symmetry
INVARIANTS
  TypeOK
  FindOrCreateMakesOne
  TotalIsSum
  QuantityIsMeant
  OneReservaPerCart
  ChargedIsReserved
  CommandsMatchDetalles
  NoItemLeftBehind
