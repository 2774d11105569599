---------------------------- MODULE MCConexiones ----------------------------
(* The kinds of client, for TLC, any two of them at a time: c1 and c2 send *)
(* RESP commands one at a time, c3 and c4 without waiting, and c5, c6 and  *)
(* c7 are browsers.  c2, c4 and c6 send a word that is not UTF-8, and the  *)
(* last command of c3 has the word HTTP in it.                             *)
EXTENDS Conexiones

CONSTANTS c1, c2, c3, c4, c5, c6, c7, get, publish, otro

Resp(n, l) == [metodo |-> "RESP", nombre |-> n, largo |-> l]
Http(m, n, l) == [metodo |-> m, nombre |-> n, largo |-> l]

Guiones == [c \in Conexiones |->
  CASE c = c1 -> <<Resp(get, 2), Resp(otro, 1), Resp(get, 2)>>
    [] c = c2 -> <<Resp(get, 1), Resp(get, 3)>>
    [] c = c3 -> <<Resp(get, 1), Resp(get, 2), Resp(publish, 1)>>
    [] c = c4 -> <<Resp(get, 2), Resp(otro, 2)>>
    [] c = c5 -> <<Http("POST", get, 2), Http("GET", get, 0)>>
    [] c = c6 -> <<Http("POST", publish, 2)>>
    [] OTHER  -> <<Http("GET", get, 0), Http("PUT", get, 0)>>]
ConHttp == {<<c3, [req |-> 3, pos |-> 1]>>}
SinTexto == {<<c2, [req |-> 2, pos |-> 2]>>, <<c4, [req |-> 1, pos |-> 1]>>,
             <<c6, [req |-> 1, pos |-> 2]>>}

=============================================================================
