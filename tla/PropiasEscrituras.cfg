SPECIFICATION Spec
CONSTANTS
  c1 = c1
  c2 = c2
  ka = ka
  kb = kb
  kv = kv
  kw = kw
  tx = tx
  ty = ty
  EX = EX
  PX = PX
  NoNumero = NoNumero
  Clientes = {c1, c2}
  Claves = {ka, kb}
  Textos = {tx, ty}
  MinI32 <- Min2
  MaxI32 = 1
  Depuracion = TRUE
  Permitidas <- DeCadaUno
  Comandos <- DeEscritura
  TablaInicial <- Vacia
  MaxTiempo = 0
  MaxLargo = 2
  Numeros <- Chicos
  Tandas <- Pares
  Pedidos <- Opciones
  Lotes = {}
  Grupos = {}
  MaxInstante = 9
PROPERTIES
  ImplementaAtomico
  VenenoCongela
