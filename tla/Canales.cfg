SPECIFICATION SpecPSJusta
CONSTANTS
  c1 = c1
  c2 = c2
  ka = ka
  kb = kb
  tx = tx
  EX = EX
  PX = PX
  NoNumero = NoNumero
  Clientes = {c1, c2}
  Claves = {ka, kb}
  Textos = {tx}
  MinI32 <- Min2
  MaxI32 = 1
  Depuracion = TRUE
  Permitidas <- ClavesDe
  Comandos <- Roles
  TablaInicial <- Vacia
  MaxTiempo = 0
  MaxLargo = 2
  Numeros = {}
  Tandas = {}
  Pedidos <- ConExSuelto
  Lotes = {}
  Grupos <- Canales
  MaxInstante = 9
  MaxAvisos <- UnaVez
  Sordas = {c1}
INVARIANTS
  SuscripcionesAlDia
  NadieDeMas
PROPERTIES
  CanalesTerminan
CHECK_DEADLOCK FALSE
