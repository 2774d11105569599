-------------------------------- MODULE Orden --------------------------------
(***************************************************************************)
(* SORT (comando_key_handler.rs) run by the client threads of module Hilos *)
(* beside the other commands.  It takes the mutex once to read the list or *)
(* set, once for the keys that match BY, once for each weight, once for    *)
(* the keys that match GET, once for each of them, and once for STORE.     *)
(***************************************************************************)
EXTENDS Servidor, OrdenOps

CONSTANTS Sorts,          \* options of SORT
          PatronPesos,    \* the keys that match the pattern of BY
          PatronObjetos   \* the keys that match the pattern of GET

ASSUME SortAssumption == PatronPesos \subseteq Claves /\ PatronObjetos \subseteq Claves

Sintaxis == Error("SYNTAX")
NoDouble == Error("DOUBLE")
VectorSimple(l) == Vector([i \in DOMAIN l |-> Simple(<<l[i]>>)])

(* The value read, as a vector; that of a HashSet comes in any order.      *)
Vectores(v) == CASE v.tipo = "Lista" -> {v.lista}
                 [] v.tipo = "Set"   -> SetToSeqs(v.set)
                 [] v.tipo = "Nada"  -> {<<>>}
                 [] OTHER            -> {}

-----------------------------------------------------------------------------
(* sort_configuracion_lista_ordenada, whose panics, that of a STORE without *)
(* its key among them, are outside the mutex.                              *)
Terminar(c, p, l, leido) ==
  \/ (ConfigurarPanico(p, l) \/ p.falta = "STORE") /\ Morir(c)
  \/ /\ ~ConfigurarPanico(p, l) /\ p.falta # "STORE" /\ p.guarda = {}
     /\ Responder(c, VectorSimple(Configurar(p, l)))
  \/ /\ ~ConfigurarPanico(p, l) /\ p.falta # "STORE" /\ p.guarda # {}
     /\ Seguir(c, "sortStore", [sort |-> p, lista |-> Configurar(p, l), leido |-> leido])

(* sort, and sort_elemento_con_pesos_interno.  A BY without its pattern    *)
(* panics before the next section.                                         *)
SORT(c, k) ==
  \E p \in Sorts :
    /\ Pide(c, "SORT", {k} \cup p.guarda)
    /\ \/ envenenado /\ Responder(c, ErrBdd)
       \/ ~envenenado /\ Vectores(Leido(k)) = {} /\ Responder(c, WrongType)
       \/ /\ ~envenenado
          /\ \E l \in Vectores(Leido(k)) :
               \/ l = <<>> /\ Responder(c, VectorSimple(<<>>))
               \/ l # <<>> /\ p.por /\ p.falta = "BY" /\ Morir(c)
               \/ /\ l # <<>> /\ p.por /\ p.falta # "BY"
                  /\ Seguir(c, "sortPesos", [sort |-> p, leido |-> l])
               \/ /\ l # <<>> /\ ~p.por /\ ~p.alpha /\ ~(ToSet(l) \subseteq Numericos)
                  /\ Responder(c, NoDouble)
               \/ /\ l # <<>> /\ ~p.por /\ (p.alpha \/ ToSet(l) \subseteq Numericos)
                  /\ Terminar(c, p, OrdenarTextos(l), l)
    /\ UNCHANGED <<compartidas, ahora>>

(* The tuples are all there: a GET without its pattern panics.             *)
ConTuplas(c, tuplas) ==
  LET p == pend[c].sort
      l == OrdenarPorPeso(tuplas)
  IN  \/ p.trae /\ p.falta = "GET" /\ Morir(c)
      \/ /\ p.trae /\ p.falta # "GET"
         /\ Seguir(c, "sortObjetos", [sort |-> p, lista |-> l, leido |-> pend[c].leido])
      \/ ~p.trae /\ Terminar(c, p, l, pend[c].leido)

(* sort_elemento_con_pesos_externos: the value is answered as it was read  *)
(* when there are not as many weights as values.                           *)
SortPesos(c) ==
  /\ fase[c] = "sortPesos"
  /\ LET l == pend[c].leido
     IN  \/ envenenado /\ Responder(c, ErrBdd)
         \/ /\ ~envenenado
            /\ \E pesos \in SetToSeqs(PatronPesos \cap Presentes(tabla)) :
                 \/ Len(pesos) # Len(l) /\ Responder(c, VectorSimple(l))
                 \/ /\ Len(pesos) = Len(l) /\ Parejas(l, pesos) = <<>>
                    /\ ConTuplas(c, <<>>)
                 \/ /\ Len(pesos) = Len(l) /\ Parejas(l, pesos) # <<>>
                    /\ Seguir(c, "sortTupla", [sort |-> pend[c].sort, leido |-> l,
                                               parejas |-> Parejas(l, pesos),
                                               faltan |-> Parejas(l, pesos), tuplas |-> <<>>])
  /\ UNCHANGED <<compartidas, ahora>>

(* Mutant of SortTupla: a weight that is gone is passed over. *)
SortTuplaSalteando(c) ==
  /\ fase[c] = "sortTupla"
  /\ LET par == Head(pend[c].faltan)
         v == Leido(par.clave)
         tuplas == IF v.tipo = "Str"
                   THEN Append(pend[c].tuplas, [valor |-> par.valor, peso |-> v.str])
                   ELSE pend[c].tuplas
     IN  \/ Len(pend[c].faltan) = 1 /\ ConTuplas(c, tuplas)
         \/ /\ Len(pend[c].faltan) > 1
            /\ Seguir(c, "sortTupla", [pend[c] EXCEPT !.faltan = Tail(@), !.tuplas = tuplas])
  /\ UNCHANGED <<compartidas, ahora>>

(* obetener_tupla_valor_peso: SORT fails when a weight is gone, or is no   *)
(* string, when its turn comes.                                            *)
SortTupla(c) ==
  /\ fase[c] = "sortTupla"
  /\ LET par == Head(pend[c].faltan)
         v == Leido(par.clave)
         tuplas == Append(pend[c].tuplas, [valor |-> par.valor, peso |-> v.str])
     IN  \/ (envenenado \/ v.tipo # "Str") /\ Responder(c, Sintaxis)
         \/ /\ ~envenenado /\ v.tipo = "Str" /\ Len(pend[c].faltan) = 1
            /\ ConTuplas(c, tuplas)
         \/ /\ ~envenenado /\ v.tipo = "Str" /\ Len(pend[c].faltan) > 1
            /\ Seguir(c, "sortTupla", [pend[c] EXCEPT !.faltan = Tail(@), !.tuplas = tuplas])
  /\ UNCHANGED <<compartidas, ahora>>

-----------------------------------------------------------------------------
(* The loops of GET: groups without keys left are done with, and the next  *)
(* section reads the first key of the first group that has one.            *)
SeguirGet(c, grupos, traidos, pusheado) ==
  LET n == Vacios(grupos)
      r == traidos \o Nils(n, pusheado)
      resto == SubSeq(grupos, n + 1, Len(grupos))
  IN  \/ resto = <<>> /\ Responder(c, Vector(r))
      \/ /\ resto # <<>>
         /\ Seguir(c, "sortObjeto", [grupos |-> resto, traidos |-> r, pusheado |-> pusheado])

SortObjetos(c) ==
  /\ fase[c] = "sortObjetos"
  /\ \/ envenenado /\ Responder(c, ErrBdd)
     \/ /\ ~envenenado
        /\ \E objetos \in SetToSeqs(PatronObjetos \cap Presentes(tabla)) :
             SeguirGet(c, ObjetosDe(pend[c].lista, objetos), <<>>, FALSE)
  /\ UNCHANGED <<compartidas, ahora>>

SortObjeto(c) ==
  /\ fase[c] = "sortObjeto"
  /\ LET p == pend[c]
         v == Leido(Head(p.grupos[1]))
         grupos == [p.grupos EXCEPT ![1] = Tail(@)]
     IN  \/ envenenado /\ Responder(c, ErrBdd)
         \/ /\ ~envenenado /\ v.tipo = "Str"
            /\ SeguirGet(c, grupos, Append(p.traidos, Simple(v.str)), TRUE)
         \/ /\ ~envenenado /\ v.tipo # "Str"
            /\ SeguirGet(c, grupos, p.traidos, p.pusheado)
  /\ UNCHANGED <<compartidas, ahora>>

(* STORE replaces what the key holds, and its lifetime.                    *)
SortStore(c) ==
  /\ fase[c] = "sortStore"
  /\ \E k \in pend[c].sort.guarda :
       LET T == GuardarValor(tabla, k, Lista(pend[c].lista))
       IN  Seccion(c, T, T, Simple(<<Len(pend[c].lista)>>))

ContinuarSort(c) == \/ SortPesos(c) \/ SortTupla(c) \/ SortObjetos(c) \/ SortObjeto(c)
                    \/ SortStore(c)

-----------------------------------------------------------------------------
Elementos(r) == [i \in DOMAIN r.elems |-> r.elems[i].str[1]]
Permuta(l, m) == \A x \in ToSet(l) \cup ToSet(m) :
                   Cardinality({i \in DOMAIN l : l[i] = x}) = Cardinality({i \in DOMAIN m : m[i] = x})

(* The weights listed are one for each value.                              *)
UnPesoPorValor(p) == [i \in DOMAIN p.parejas |-> p.parejas[i].valor] = p.leido

(* SORT BY without LIMIT or GET loses no element and repeats none, however *)
(* the weights change or disappear between the section that lists them and *)
(* those that read them: it answers, or goes on to store, the value it     *)
(* read in another order, or it fails, its thread dead only when STORE     *)
(* came without a key.                                                     *)
SortConserva ==
  [][\A c \in Clientes :
       /\ fase[c] = "sortTupla" /\ fase'[c] # "sortTupla"
       /\ UnPesoPorValor(pend[c])
       /\ pend[c].sort.limite = <<>> /\ ~pend[c].sort.trae
       => CASE fase'[c] = "sortStore" -> Permuta(pend'[c].lista, pend[c].leido)
            [] fase'[c] = "libre"     -> \/ resp'[c] = Sintaxis
                                         \/ Permuta(Elementos(resp'[c]), pend[c].leido)
            [] OTHER                  -> fase'[c] = "muerto" /\ pend[c].sort.falta = "STORE"]_vars

=============================================================================
