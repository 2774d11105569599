SPECIFICATION SpecJusta
CONSTANTS
  c1 = c1
  c2 = c2
  c3 = c3
  ra = ra
  rb = rb
  Clientes = {c1, c2, c3}
  Http = {c3}
  Pedidos <- PedidosMixtos
  Rutas = {ra, rb}
  Abribles = {ra}
  RutaInicial = ra
  MaxPedidos = 1
  MaxCola = 1
INVARIANTS
  BanderaTransitoria
  MonitoresPedidos
  RutasAlDia
PROPERTIES
  TodoPedidoTermina
CHECK_DEADLOCK FALSE
