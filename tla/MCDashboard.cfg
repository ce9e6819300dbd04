SPECIFICATION Spec
CONSTANTS
  Proveedores = {p1, p2}
  Tipos = {"HOTEL", "FLIGHT"}
  Detalles = {d1, d2}
  Subtotales = {2}
  LastDay = 2
SYMMETRY Symmetry
CHECK_DEADLOCK FALSE
INVARIANTS
  EverySaleIsCountedOnce
  RevenueIsAccounted
