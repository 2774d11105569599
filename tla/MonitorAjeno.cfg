SPECIFICATION Spec
CONSTANTS
  c1 = c1
  c2 = c2
  c3 = c3
  ra = ra
  rb = rb
  Clientes = {c1, c2}
  Http = {}
  Pedidos <- MonitorYPing
  Rutas = {ra, rb}
  Abribles = {ra}
  RutaInicial = ra
  MaxPedidos = 1
  MaxCola = 1
INVARIANTS
  MonitorEsQuienPidio
CHECK_DEADLOCK FALSE
