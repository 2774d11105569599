SPECIFICATION Spec
CONSTANTS
  c1 = c1
  c2 = c2
  ka = ka
  kb = kb
  kv = kv
  kw = kw
  tx = tx
  ty = ty
  EX = EX
  PX = PX
  NoNumero = NoNumero
  Clientes = {c1, c2}
  Claves = {ka, kb, kv, kw}
  Textos = {tx}
  MinI32 <- Min2
  MaxI32 = 1
  Depuracion = TRUE
  Permitidas <- DeTodos
  Comandos <- MsetMget
  TablaInicial <- Vacia
  MaxTiempo = 0
  MaxLargo = 2
  Numeros <- Chicos
  Tandas = {}
  Pedidos = {}
  Lotes <- Iguales
  Grupos <- LasDos
  MaxInstante = 9
INVARIANTS
  MgetCoherente
CHECK_DEADLOCK FALSE
