SPECIFICATION Spec
CONSTANTS
  bS = bS
  bT = bT
  bR = bR
  bI = bI
  bN = bN
  bG = bG
  bL = bL
  bE = bE
  bX = bX
  ba = ba
  bb = bb
  bx = bx
  bu = bu
  bv = bv
  ra = ra
  rb = rb
  EX = EX
  PX = PX
  NoNumero = NoNumero
  Sep = Sep
  Nl = Nl
  Letras = {bS, bT, bR, bI, bN, bG, bL, bE, bX, ba, bb, bx, bu, bv}
  Abren = {bu}
  Siguen = {bv}
  TagString <- LaString
  TagLista <- LaLista
  TagSet <- ElSet
  MarcaEx <- ElEx
  Clientes = {}
  Claves <- Dos
  Textos <- LosTextos
  MinI32 <- Min2
  MaxI32 = 1
  Rutas = {ra, rb}
  Abribles = {ra}
  RutaInicial = ra
  Intervalo = 2
  Escrituras <- Variadas
  VidasNuevas <- DeExpireYPersist
  MaxTiempo = 4
  MaxCambios = 3
  MaxCaidas = 2
INVARIANTS
  NuncaInventa
  RecargaFiel
  DescarteAcotado
CHECK_DEADLOCK FALSE
