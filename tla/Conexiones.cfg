SPECIFICATION SpecJusta
CONSTANTS
  c1 = c1
  c2 = c2
  c3 = c3
  c4 = c4
  c5 = c5
  c6 = c6
  c7 = c7
  get = get
  publish = publish
  otro = otro
  Nadie = Nadie
  Conexiones = {c1, c2, c3, c4, c5, c6, c7}
  Guion <- Guiones
  Apuradas = {c3, c4}
  NombraHttp <- ConHttp
  NoUtf8 <- SinTexto
  MaxAbiertas = 2
  HttpSoporta = {get}
  Existen = {get, publish}
INVARIANTS
  NadaSePierde
  SinRepetir
  HttpUnaRespuesta
PROPERTIES
  TodosAtendidos
CHECK_DEADLOCK FALSE
