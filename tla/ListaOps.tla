------------------------------- MODULE ListaOps -------------------------------
(***************************************************************************)
(* The list commands (comando_list_handler.rs) as functions from the value *)
(* read under the key (or Nada) and the parameters to a plan.  Indices are *)
(* those of the client, from 0.                                            *)
(***************************************************************************)
EXTENDS StringOps

BulkDe(x) == Bulk(<<x>>)
VectorDe(l) == Vector([i \in 1 .. Len(l) |-> BulkDe(l[i])])

(* A list is stored, or its key removed when nothing is left of it.        *)
ListaONada(l) == IF l = <<>> THEN Nada ELSE Lista(l)

-----------------------------------------------------------------------------
EstaEnRango(i, limite) == 0 <= i /\ i < limite

PlanLIndex(v, i) ==
  LET l == v.lista
  IN  CASE v.tipo # "Lista" -> Responde(WrongType)
        [] v.tipo = "Lista" /\ i = NoNumero -> Responde(NoEntero)
        [] OTHER ->
             CASE EstaEnRango(i, Len(l)) -> Responde(BulkDe(l[i + 1]))
               [] i < 0 /\ Len(l) + i >= 0 -> Responde(BulkDe(l[Len(l) + i + 1]))
               [] OTHER -> Responde(BulkNil)

PlanLLen(v) ==
  CASE v.tipo = "Lista" -> Responde(Entero(Len(v.lista)))
    [] v.tipo = "Nada"  -> Responde(Entero(0))
    [] OTHER            -> Responde(WrongType)

-----------------------------------------------------------------------------
(* Mutant of Sacar: what RPOP took is not reversed back. *)
SacarSinVuelta(l, n, alFinal) ==
  LET m == IF alFinal THEN Reverse(l) ELSE l
      resto == SubSeq(m, n + 1, Len(m))
  IN  [sacados |-> SubSeq(m, 1, n), resto |-> IF alFinal THEN Reverse(resto) ELSE resto]

(* LPOP and RPOP: the list is reversed for RPOP, its first n elements are  *)
(* drained, and both parts are reversed back.  Draining more than there is *)
(* panics.                                                                 *)
Sacar(l, n, alFinal) ==
  LET m == IF alFinal THEN Reverse(l) ELSE l
      vuelta(s) == IF alFinal THEN Reverse(s) ELSE s
  IN  [sacados |-> vuelta(SubSeq(m, 1, n)),
       resto |-> vuelta(SubSeq(m, n + 1, Len(m)))]

PlanPop(v, n, alFinal) ==
  LET p == Sacar(v.lista, n, alFinal)
  IN  CASE v.tipo = "Nada" -> Responde(Nil)
        [] v.tipo \notin {"Nada", "Lista"} -> Responde(WrongType)
        [] OTHER ->
             CASE n > Len(v.lista) -> Panico
               [] n <= Len(v.lista) ->
                    Escribe(ListaONada(p.resto),
                            IF Len(p.sacados) = 1 THEN BulkDe(p.sacados[1])
                            ELSE VectorDe(p.sacados))

(* Mutant of Empujar: LPUSH puts its parameters in front as they come. *)
EmpujarEnOrden(l, ps, alFinal) == IF alFinal THEN l \o ps ELSE ps \o l

(* LPUSH, RPUSH and their X forms, which create nothing.  Inserting the    *)
(* parameters one by one at the front reverses them.                       *)
Empujar(l, ps, alFinal) == IF alFinal THEN l \o ps ELSE Reverse(ps) \o l

PlanPush(v, ps, alFinal, crear) ==
  LET l == Empujar(IF v.tipo = "Nada" THEN <<>> ELSE v.lista, ps, alFinal)
  IN  CASE v.tipo = "Nada" /\ ~crear -> Responde(Entero(0))
        [] v.tipo \notin {"Nada", "Lista"} -> Responde(WrongType)
        [] OTHER -> Escribe(Lista(l), Entero(Len(l)))

-----------------------------------------------------------------------------
(* LRANGE.  NoHay stands for None; the upper index of an empty list is -1, *)
(* which as a usize is the largest one: b + 1 overflows.                   *)
NoHay == -2

(* Mutant of IndiceInferior: a start before the list is out of range. *)
IndiceInferiorEstricto(inicio, limite) ==
  CASE EstaEnRango(inicio, limite) -> inicio
    [] inicio < 0 /\ EstaEnRango(inicio + limite, limite) -> inicio + limite
    [] OTHER -> NoHay

IndiceInferior(inicio, limite) ==
  CASE EstaEnRango(inicio, limite) -> inicio
    [] inicio < 0 -> IF EstaEnRango(inicio + limite, limite) THEN inicio + limite ELSE 0
    [] OTHER -> NoHay

IndiceSuperior(fin, limite) ==
  CASE EstaEnRango(fin, limite) -> fin
    [] fin < 0 -> IF EstaEnRango(fin + limite, limite) THEN fin + limite ELSE NoHay
    [] OTHER -> limite - 1

PlanLRange(v, inicio, fin) ==
  LET l == v.lista
      a == IndiceInferior(inicio, Len(l))
      b == IndiceSuperior(fin, Len(l))
  IN  CASE v.tipo = "Nada" -> Responde(Vector(<<>>))
        [] v.tipo \notin {"Nada", "Lista"} -> Responde(WrongType)
        [] OTHER ->
             CASE NoHay \in {a, b} -> Responde(Vector(<<>>))
               [] b = -1 /\ a # NoHay ->
                    IF Depuracion THEN Panico ELSE Responde(Vector(<<>>))
               [] OTHER -> Responde(VectorDe(SubSeq(l, a + 1, b + 1)))

-----------------------------------------------------------------------------
(* LREM drops the first n occurrences of x, counted from the end (on the   *)
(* reversed list) when the parameter i is negative: the elements that stay *)
(* are the ones at the positions Q, in order.                              *)
Puesto(Q, j) == Cardinality({h \in Q : h <= j})

Elegidos(l, Q) ==
  [i \in 1 .. Cardinality(Q) |->
     l[CHOOSE j \in DOMAIN l : (\E h \in Q : Puesto(Q, h) = i)
                                  => j \in Q /\ Puesto(Q, j) = i]]

(* Mutant of Borrados: one occurrence too many. *)
BorradosDeMas(l, n, x) ==
  {j \in DOMAIN l : l[j] = x /\ Cardinality({h \in 1 .. j - 1 : l[h] = x}) <= n}

Borrados(l, n, x) ==
  {j \in DOMAIN l : l[j] = x /\ Cardinality({h \in 1 .. j - 1 : l[h] = x}) < n}

PlanLRem(v, i, x) ==
  LET n == IF i < 0 /\ i # MinI32 THEN -i ELSE i
      l == IF i < 0 THEN Reverse(v.lista) ELSE v.lista
      fuera == Borrados(l, n, x)
      quedan == Elegidos(l, DOMAIN l \ fuera)
      final == IF i < 0 THEN Reverse(quedan) ELSE quedan
  IN  CASE v.tipo = "Nada" -> Responde(Entero(0))
        [] v.tipo \notin {"Nada", "Lista"} -> Responde(WrongType)
        [] OTHER ->
             CASE i = MinI32 /\ Depuracion -> Panico       \* i32::MIN.abs()
               [] OTHER -> Escribe(ListaONada(final), Entero(Cardinality(fuera)))

(* LSET inserts before the position; it does not replace.                  *)
Insertar(l, i, x) == SubSeq(l, 1, i) \o <<x>> \o SubSeq(l, i + 1, Len(l))

PlanLSet(v, i, x) ==
  LET l == IF v.tipo = "Nada" THEN <<>> ELSE v.lista
  IN  CASE v.tipo \notin {"Nada", "Lista"} -> Responde(WrongType)
        [] v.tipo \in {"Nada", "Lista"} /\ EstaEnRango(i, Len(l)) ->
             Escribe(Lista(Insertar(l, i, x)), Ok)
        [] v.tipo \in {"Nada", "Lista"} /\ i < 0 /\ Len(l) + i >= 0 ->
             Escribe(Lista(Insertar(l, Len(l) + i, x)), Ok)
        [] OTHER -> Responde(NoEntero)

=============================================================================
