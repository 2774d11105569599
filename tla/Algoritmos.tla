----------------------------- MODULE Algoritmos -----------------------------
(***************************************************************************)
(* The algorithms of ListaOps and OrdenOps against what they should        *)
(* compute, for every list up to MaxLista and every parameter in Indices:  *)
(* each input is an initial state, and a step moves on to another input.   *)
(***************************************************************************)
EXTENDS OrdenOps

CONSTANTS MaxLista, Indices

ASSUME AlgoritmosAssumption == MaxLista \in Nat /\ Indices \subseteq I32

VARIABLES lista, i, j, e

entrada == <<lista, i, j, e>>

Init == /\ lista \in BoundedSeq(Textos, MaxLista)
        /\ i \in Indices /\ j \in Indices
        /\ e \in Textos

(* The next input: only the parameters move.                               *)
Otra == \E h \in Indices : j' = h /\ UNCHANGED <<lista, i, e>>

Spec == Init /\ [][Otra]_entrada

-----------------------------------------------------------------------------
(* LRANGE answers the elements whose position, from 0, lies between the    *)
(* two indices, a negative one counting from the end, and never panics in  *)
(* a release build.                                                        *)
Pos(h) == IF h < 0 THEN Len(lista) + h ELSE h
RangoCorrecto ==
  LET en == {h \in 1 .. Len(lista) : Pos(i) <= h - 1 /\ h - 1 <= Pos(j)}
      desde == CHOOSE h \in en : \A g \in en : h <= g
  IN  PlanLRange(Lista(lista), i, j) =
        Responde(VectorDe([h \in 1 .. Cardinality(en) |-> lista[desde + h - 1]]))

(* LPOP n splits the list in its first n elements and the rest, RPOP n in  *)
(* the rest and its last n elements; both answer the elements in the order *)
(* of the list, and remove the key with its last element.                  *)
Partida(alFinal) ==
  LET p == PlanPop(Lista(lista), i, alFinal)
      sacados == IF i = 1 THEN p.res.str ELSE [h \in 1 .. i |-> p.res.elems[h].str[1]]
      resto == IF p.nuevo = Nada THEN <<>> ELSE p.nuevo.lista
  IN  /\ lista = IF alFinal THEN resto \o sacados ELSE sacados \o resto
      /\ p.nuevo # Lista(<<>>)
PopCorrecto ==
  i \in 0 .. Len(lista) => Partida(TRUE) /\ Partida(FALSE)

(* q is l without the elements at the positions F, the others in order.    *)
EsSin(q, l, F) ==
  \E f \in [DOMAIN q -> DOMAIN l] :
    /\ \A g, h \in DOMAIN q : g < h => f[g] < f[h]
    /\ {f[g] : g \in DOMAIN q} = DOMAIN l \ F
    /\ \A g \in DOMAIN q : q[g] = l[f[g]]

(* LREM i e with i # 0 takes out as many occurrences of e as there are, up *)
(* to |i|, answers how many, keeps everything else in order, and takes     *)
(* them from the front when i > 0 and from the back when i < 0: all that   *)
(* are on that side of some place of the list, and none on the other.      *)
LRemCorrecto ==
  LET p == PlanLRem(Lista(lista), i, e)
      q == IF p.nuevo = Nada THEN <<>> ELSE p.nuevo.lista
      veces == {g \in DOMAIN lista : lista[g] = e}
      n == IF i > 0 THEN i ELSE -i
  IN  i # 0 /\ i # MinI32 =>
        \E corte \in 0 .. Len(lista) :
          LET fuera == {g \in veces : IF i > 0 THEN g <= corte ELSE g > corte}
          IN  /\ p.res = Entero(Cardinality(fuera))
              /\ Cardinality(fuera) = IF n < Cardinality(veces) THEN n
                                      ELSE Cardinality(veces)
              /\ EsSin(q, lista, fuera)

(* LPUSH leaves the parameters in front of the list, the last one sent     *)
(* first, and RPUSH behind it in the order sent; LPOP and RPOP of as many  *)
(* elements give the list back.                                            *)
PushPopInversos ==
  \A alFinal \in BOOLEAN :
    LET ps == <<e>> \o lista
        p == PlanPush(Lista(lista), ps, alFinal, TRUE)
        v == PlanPop(p.nuevo, Len(ps), alFinal)
    IN  lista # <<>> => /\ p.res = Entero(2 * Len(lista) + 1)
                        /\ v.nuevo = Lista(lista)
                        /\ v.res = VectorDe(IF alFinal THEN ps ELSE Reverse(ps))

(* SORT with LIMIT i j, for a position i of the list, keeps the j elements *)
(* from i on, or as many as there are, and all of them when j is negative; *)
(* and it never panics.                                                    *)
LimiteCorrecto ==
  0 <= i /\ i < Len(lista) =>
    /\ ~RangoPanico(lista, <<i, j>>)
    /\ SeleccionarRango(lista, <<i, j>>) =
         SubSeq(lista, i + 1, IF j < 0 \/ i + j > Len(lista) THEN Len(lista) ELSE i + j)

=============================================================================
