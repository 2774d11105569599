SPECIFICATION SpecHist
CONSTANTS
  c1 = c1
  c2 = c2
  ka = ka
  kb = kb
  kv = kv
  kw = kw
  tx = tx
  ty = ty
  EX = EX
  PX = PX
  NoNumero = NoNumero
  Clientes = {c1, c2}
  Claves = {ka, kb, kv, kw}
  Textos = {tx, ty}
  MinI32 <- Min2
  MaxI32 = 1
  Depuracion = TRUE
  Permitidas <- DeTodos
  Comandos <- Compartidos
  TablaInicial <- ConClaves
  MaxTiempo = 0
  MaxLargo = 2
  Numeros = {0}
  Tandas <- Repetidos
  Pedidos = {}
  Lotes = {}
  Grupos <- DePesos
  MaxInstante = 9
  Numericos = {tx}
  Rango <- Alfabetico
  Indice <- Sufijos
  Contienen <- UnNombre
  Sorts <- DeSort
  PatronPesos <- Pesos
  PatronObjetos <- Pesos
  ClaveSet = ka
  Contadas <- Pesos
INVARIANTS
  MiembrosContados
  BorradosContados
PROPERTIES
  SortConserva
