SPECIFICATION SpecJusta
CONSTANTS
  bS = bS
  bT = bT
  bR = bR
  bI = bI
  bN = bN
  bG = bG
  bL = bL
  bE = bE
  bX = bX
  ba = ba
  bb = bb
  bx = bx
  bu = bu
  bv = bv
  ra = ra
  rb = rb
  EX = EX
  PX = PX
  NoNumero = NoNumero
  Sep = Sep
  Nl = Nl
  Letras = {bS, bT, bR, bI, bN, bG, bL, bE, bX, ba, bb, bx, bu, bv}
  Abren = {bu}
  Siguen = {bv}
  TagString <- LaString
  TagLista <- LaLista
  TagSet <- ElSet
  MarcaEx <- ElEx
  Clientes = {}
  Claves <- Una
  Textos <- LosTextos
  MinI32 <- Min2
  MaxI32 = 1
  Rutas = {ra}
  Abribles = {ra}
  RutaInicial = ra
  Intervalo = 1
  Escrituras <- Eternas
  VidasNuevas <- Ninguna
  MaxTiempo = 3
  MaxCambios = 2
  MaxCaidas = 0
PROPERTIES
  UltimoCambioLlega
CHECK_DEADLOCK FALSE
