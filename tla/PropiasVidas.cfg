SPECIFICATION Spec
CONSTANTS
  c1 = c1
  c2 = c2
  ka = ka
  kb = kb
  kv = kv
  kw = kw
  tx = tx
  ty = ty
  EX = EX
  PX = PX
  NoNumero = NoNumero
  Clientes = {c1, c2}
  Claves = {ka, kb}
  Textos = {tx}
  MinI32 <- Min3
  MaxI32 = 2
  Depuracion = TRUE
  Permitidas <- DeCadaUno
  Comandos <- ConVencimiento
  TablaInicial <- Vacia
  MaxTiempo = 1
  MaxLargo = 1
  Numeros = {1, 2}
  Tandas = {}
  Pedidos <- OpcionesDeVida
  Lotes = {}
  Grupos <- Propia
  MaxInstante = 1
INVARIANTS
  TypeOK
  CopiaVigente
PROPERTIES
  ImplementaAtomico
