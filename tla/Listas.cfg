SPECIFICATION Spec
CONSTANTS
  tx = tx
  ty = ty
  EX = EX
  PX = PX
  NoNumero = NoNumero
  Clientes = {}
  Claves = {}
  Textos = {tx, ty}
  MinI32 <- Min8
  MaxI32 = 7
  Depuracion = FALSE
  Numericos = {}
  Rango <- Alfabetico
  Indice <- SinIndices
  Contienen = {}
  MaxLista = 4
  Indices <- Indices5
INVARIANTS
  RangoCorrecto
  PopCorrecto
  LRemCorrecto
  PushPopInversos
  LimiteCorrecto
