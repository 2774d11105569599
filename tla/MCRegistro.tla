----------------------------- MODULE MCRegistro -----------------------------
(* Instances of Registro for TLC: two Redis connections and one HTTP one,  *)
(* and two names of files of which one cannot be opened.                   *)
EXTENDS Registro

CONSTANTS c1, c2, c3,     \* connections; c3 speaks HTTP
          ra, rb          \* names of files; rb does not open

PedidosMixtos == [c \in Clientes |-> CASE c = c1 -> {"MONITOR", "INFO", "SETLOG"}
                                        [] c = c2 -> {"MONITOR", "OTRO", "SETDB", "PING"}
                                        [] OTHER  -> {"MONITOR", "CONFIGGET"}]

MonitorYPing == [c \in Clientes |-> IF c = c1 THEN {"MONITOR"} ELSE {"PING"}]

=============================================================================
