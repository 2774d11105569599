SPECIFICATION SpecJusta
CONSTANTS
  c1 = c1
  c2 = c2
  ka = ka
  kb = kb
  kv = kv
  kw = kw
  tx = tx
  ty = ty
  EX = EX
  PX = PX
  NoNumero = NoNumero
  Clientes = {c1, c2}
  Claves = {ka, kb}
  Textos = {tx}
  MinI32 <- Min2
  MaxI32 = 1
  Depuracion = TRUE
  Permitidas <- DeTodos
  Comandos <- Cruzadas
  TablaInicial <- Vacia
  MaxTiempo = 0
  MaxLargo = 1
  Numeros <- Extremos
  Tandas <- Sueltos
  Pedidos = {}
  Lotes <- Cruces
  Grupos <- UnaOLasDos
  MaxInstante = 0
INVARIANTS
  NuncaEnvenenado
  EnviadoAlDia
PROPERTIES
  TodoComandoTermina
