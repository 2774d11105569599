--------------------------- MODULE MCConservacion ---------------------------
(* Instance of Conservacion for TLC: ka holds a set, kb and kv are strings *)
(* that SORT ka BY takes as weights, and kw is where it stores.            *)
EXTENDS MCServidor, Conservacion

Pesos == {kb, kv}
ConClaves == [k \in Claves |->
  CASE k = kb -> NoExpirable(Str(<<ty>>))
    [] k = kv -> NoExpirable(Str(<<tx>>))
    [] OTHER  -> Ausente]
Compartidos == Reparto({"SADD", "SREM", "DEL", "SORT"}, {"SADD", "SREM", "DEL", "EXISTS"})
Repetidos == {<<tx, tx>>, <<tx, ty>>}
DePesos == {<<kb, kv>>, <<kv, kb>>, <<kb, kb>>}

(* Parameters of SORT.                                                     *)
Alfabetico == [x \in Textos |-> IF x = tx THEN 1 ELSE 2]
SufijoX == {tx, kb}
Sufijos == [x \in Textos \cup Claves |-> IF x \in SufijoX THEN "x" ELSE "y"]
UnNombre == {<<kb, tx>>}
Opcion(a, d, b, g, l, s) ==
  [alpha |-> a, desc |-> d, por |-> b, trae |-> g, limite |-> l, guarda |-> s, falta |-> ""]
Sin(o, palabra) == [o EXCEPT !.falta = palabra]
DeSort == {Opcion(TRUE, FALSE, TRUE, FALSE, <<>>, {kw}),
           Opcion(TRUE, FALSE, TRUE, TRUE, <<>>, {}),
           Opcion(FALSE, TRUE, FALSE, FALSE, <<0, 1>>, {}),
           Opcion(TRUE, FALSE, FALSE, FALSE, <<0>>, {}),
           Sin(Opcion(TRUE, FALSE, TRUE, FALSE, <<>>, {}), "BY"),
           Sin(Opcion(TRUE, FALSE, TRUE, TRUE, <<>>, {}), "GET"),
           Sin(Opcion(TRUE, FALSE, TRUE, FALSE, <<>>, {}), "STORE")}

=============================================================================
