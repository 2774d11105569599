-------------------------- MODULE AlgoritmosPruebas --------------------------
(***************************************************************************)
(* Proofs about the algorithms of the list commands and of SORT ... LIMIT: *)
(* what module Algoritmos states, for lists of any length and all i32      *)
(* parameters.                                                             *)
(***************************************************************************)
EXTENDS Algoritmos, SecuenciasPruebas

(* What the parameters are.                                                *)
Entradas == lista \in Seq(Textos) /\ i \in Int /\ j \in Int /\ e \in Textos

(* The inputs keep their types: they are chosen once and never change.     *)
LEMMA EntradasSiempre == Spec => []Entradas
<1>1. Init => Entradas
  <2> SUFFICES ASSUME Init
               PROVE  Entradas
    OBVIOUS
  <2>1. i \in Int /\ j \in Int
    BY AlgoritmosAssumption, BddAssumption DEF Init, I32
  <2>2. PICK n \in 0 .. MaxLista : lista \in [1 .. n -> Textos]
    BY DEF Init, BoundedSeq, SeqOf
  <2>3. lista \in Seq(Textos)
    BY <2>2, AlgoritmosAssumption
  <2> QED BY <2>1, <2>3 DEF Init, Entradas
<1>2. Entradas /\ [Otra]_entrada => Entradas'
  <2> SUFFICES ASSUME Entradas, [Otra]_entrada
               PROVE  Entradas'
    OBVIOUS
  <2>1. CASE Otra
    BY <2>1, AlgoritmosAssumption, BddAssumption DEF Otra, Entradas, I32
  <2>2. CASE UNCHANGED entrada
    BY <2>2 DEF entrada, Entradas
  <2> QED BY <2>1, <2>2
<1> QED BY <1>1, <1>2, PTL DEF Spec

-----------------------------------------------------------------------------
(* LPOP takes the first n elements, RPOP the last n.                       *)
LEMMA SacarDeLaPunta ==
  ASSUME NEW l \in Seq(Textos), NEW n \in 0 .. Len(l)
  PROVE  /\ Sacar(l, n, FALSE).sacados = SubSeq(l, 1, n)
         /\ Sacar(l, n, FALSE).resto = SubSeq(l, n + 1, Len(l))
         /\ Sacar(l, n, TRUE).sacados = SubSeq(l, Len(l) - n + 1, Len(l))
         /\ Sacar(l, n, TRUE).resto = SubSeq(l, 1, Len(l) - n)
<1>1. /\ Sacar(l, n, FALSE).sacados = SubSeq(l, 1, n)
      /\ Sacar(l, n, FALSE).resto = SubSeq(l, n + 1, Len(l))
  BY DEF Sacar
<1>2. Len(Reverse(l)) = Len(l)
  BY DadaVuelta
<1>3. /\ Sacar(l, n, TRUE).sacados = Reverse(SubSeq(Reverse(l), 1, n))
      /\ Sacar(l, n, TRUE).resto = Reverse(SubSeq(Reverse(l), n + 1, Len(l)))
  BY <1>2 DEF Sacar
<1> QED BY <1>1, <1>3, PuntasDadasVuelta

(* Both parts are lists, and put together they are the list.               *)
LEMMA SacarParte ==
  ASSUME NEW l \in Seq(Textos), NEW n \in 0 .. Len(l), NEW alFinal \in BOOLEAN
  PROVE  LET p == Sacar(l, n, alFinal)
         IN  /\ p.sacados \in Seq(Textos) /\ Len(p.sacados) = n
             /\ p.resto \in Seq(Textos)
             /\ l = IF alFinal THEN p.resto \o p.sacados ELSE p.sacados \o p.resto
<1>1. CASE alFinal = FALSE
  <2>1. SubSeq(l, 1, n) \in Seq(Textos) /\ Len(SubSeq(l, 1, n)) = n
        /\ SubSeq(l, n + 1, Len(l)) \in Seq(Textos)
    OBVIOUS
  <2> QED BY <1>1, <2>1, SacarDeLaPunta, CortadaEnDos
<1>2. CASE alFinal = TRUE
  <2> DEFINE m == Len(l) - n
  <2>1. m \in 0 .. Len(l)
    OBVIOUS
  <2>2. /\ SubSeq(l, m + 1, Len(l)) \in Seq(Textos) /\ Len(SubSeq(l, m + 1, Len(l))) = n
        /\ SubSeq(l, 1, m) \in Seq(Textos)
    OBVIOUS
  <2>3. SubSeq(l, 1, m) \o SubSeq(l, m + 1, Len(l)) = l
    BY <2>1, CortadaEnDos
  <2>4. Sacar(l, n, TRUE).sacados = SubSeq(l, m + 1, Len(l)) /\ Sacar(l, n, TRUE).resto = SubSeq(l, 1, m)
    BY SacarDeLaPunta
  <2> HIDE DEF m
  <2> QED BY <1>2, <2>2, <2>3, <2>4
<1> QED BY <1>1, <1>2

(* The plan of a pop that does not ask for more than there is.             *)
LEMMA PlanDeSacar ==
  ASSUME NEW l \in Seq(Textos), NEW n \in 0 .. Len(l), NEW alFinal \in BOOLEAN
  PROVE  LET p == Sacar(l, n, alFinal)
             q == PlanPop(Lista(l), n, alFinal)
         IN  /\ q.nuevo = ListaONada(p.resto)
             /\ q.res = IF n = 1 THEN BulkDe(p.sacados[1]) ELSE VectorDe(p.sacados)
<1> DEFINE p == Sacar(l, n, alFinal)
<1>1. Lista(l).tipo = "Lista" /\ Lista(l).lista = l /\ n <= Len(l) /\ ~(n > Len(l))
  BY DEF Lista
<1>2. Len(p.sacados) = n
  BY SacarParte
<1> HIDE DEF p
<1>3. PlanPop(Lista(l), n, alFinal) =
        Escribe(ListaONada(p.resto), IF n = 1 THEN BulkDe(p.sacados[1]) ELSE VectorDe(p.sacados))
  BY <1>1, <1>2 DEF PlanPop, p
<1> QED BY <1>3 DEF Escribe, Plan, p

(* LPOP n splits the list in its first n elements and the rest, RPOP n in  *)
(* the rest and its last n (pop in comando_list_handler.rs); the elements  *)
(* are answered in the order of the list, and no key is left with an empty *)
(* list.                                                                   *)
THEOREM PopParteLaLista == Spec => []PopCorrecto
<1>1. ASSUME Entradas, i \in 0 .. Len(lista), NEW alFinal \in BOOLEAN
      PROVE  Partida(alFinal)
  <2> DEFINE q == PlanPop(Lista(lista), i, alFinal)
             s == Sacar(lista, i, alFinal).sacados
             r == Sacar(lista, i, alFinal).resto
             sacados == IF i = 1 THEN q.res.str ELSE [h \in 1 .. i |-> q.res.elems[h].str[1]]
             resto == IF q.nuevo = Nada THEN <<>> ELSE q.nuevo.lista
  <2>1. /\ q.nuevo = ListaONada(r)
        /\ q.res = IF i = 1 THEN BulkDe(s[1]) ELSE VectorDe(s)
    BY <1>1, PlanDeSacar DEF Entradas
  <2>2. /\ s \in Seq(Textos) /\ Len(s) = i /\ r \in Seq(Textos)
        /\ lista = IF alFinal THEN r \o s ELSE s \o r
    BY <1>1, SacarParte DEF Entradas
  <2> HIDE DEF q, s, r
  <2>3. resto = r /\ q.nuevo # Lista(<<>>)
    BY <2>1, <2>2 DEF ListaONada, Lista, Nada
  <2>4. sacados = s
    <3>1. CASE i = 1
      <4>1. q.res.str = <<s[1]>>
        BY <2>1, <3>1 DEF BulkDe, Bulk
      <4>2. <<s[1]>> = s
        BY <2>2, <3>1
      <4> QED BY <3>1, <4>1, <4>2
    <3>2. CASE i # 1
      <4>1. q.res.elems = [h \in 1 .. Len(s) |-> BulkDe(s[h])]
        BY <2>1, <3>2 DEF VectorDe, Vector
      <4>2. \A h \in 1 .. i : q.res.elems[h].str[1] = s[h]
        BY <2>2, <4>1 DEF BulkDe, Bulk
      <4>3. DOMAIN s = 1 .. i
        BY <2>2
      <4>4. s = [h \in 1 .. i |-> s[h]]
        BY <2>2, <4>3
      <4> QED BY <3>2, <4>2, <4>4
    <3> QED BY <3>1, <3>2
  <2> HIDE DEF sacados, resto
  <2>5. /\ lista = IF alFinal THEN resto \o sacados ELSE sacados \o resto
        /\ q.nuevo # Lista(<<>>)
    BY <2>2, <2>3, <2>4
  <2> QED BY <2>5 DEF Partida, q, sacados, resto
<1>2. Entradas => PopCorrecto
  BY <1>1 DEF PopCorrecto
<1> QED BY <1>2, EntradasSiempre, PTL

-----------------------------------------------------------------------------
(* LPUSH leaves its parameters in front of the list, the last one sent     *)
(* first, and RPUSH behind it in the order sent; a pop of as many elements *)
(* answers them and gives the list back (push and pop in                   *)
(* comando_list_handler.rs).                                               *)
THEOREM PopDeshacePush == Spec => []PushPopInversos
<1>1. ASSUME Entradas, lista # <<>>, NEW alFinal \in BOOLEAN
      PROVE  LET ps == <<e>> \o lista
                 p == PlanPush(Lista(lista), ps, alFinal, TRUE)
                 v == PlanPop(p.nuevo, Len(ps), alFinal)
             IN  /\ p.res = Entero(2 * Len(lista) + 1)
                 /\ v.nuevo = Lista(lista)
                 /\ v.res = VectorDe(IF alFinal THEN ps ELSE Reverse(ps))
  <2> DEFINE ps == <<e>> \o lista
             l == Empujar(lista, ps, alFinal)
             p == PlanPush(Lista(lista), ps, alFinal, TRUE)
             v == PlanPop(p.nuevo, Len(ps), alFinal)
             x == IF alFinal THEN ps ELSE Reverse(ps)
  <2>1. lista \in Seq(Textos) /\ Len(lista) \in Nat /\ Len(lista) > 0 /\ e \in Textos
    BY <1>1 DEF Entradas
  <2>2. ps \in Seq(Textos) /\ Len(ps) = Len(lista) + 1
    BY <2>1
  <2> HIDE DEF ps
  <2>3. Reverse(ps) \in Seq(Textos) /\ Len(Reverse(ps)) = Len(ps)
    BY <2>2, DadaVuelta
  <2>4. (alFinal = TRUE => l = lista \o ps) /\ (alFinal = FALSE => l = Reverse(ps) \o lista)
    BY DEF Empujar
  <2>5. p.nuevo = Lista(l) /\ p.res = Entero(Len(l))
    BY DEF PlanPush, Lista, Escribe, Plan
  <2> HIDE DEF l
  <2>6. l \in Seq(Textos) /\ Len(l) = Len(lista) + Len(ps) /\ Len(l) = 2 * Len(lista) + 1
    <3>1. /\ lista \o ps \in Seq(Textos) /\ Len(lista \o ps) = Len(lista) + Len(ps)
          /\ Reverse(ps) \o lista \in Seq(Textos)
          /\ Len(Reverse(ps) \o lista) = Len(ps) + Len(lista)
      BY <2>1, <2>2, <2>3
    <3>2. l \in Seq(Textos) /\ Len(l) = Len(lista) + Len(ps)
      <4>1. Len(ps) + Len(lista) = Len(lista) + Len(ps)
        BY <2>1, <2>2
      <4>2. CASE alFinal = TRUE
        BY <2>4, <3>1, <4>2
      <4>3. CASE alFinal = FALSE
        BY <2>4, <3>1, <4>1, <4>3
      <4> QED BY <4>2, <4>3
    <3> QED BY <2>1, <2>2, <3>2
  <2> DEFINE s == Sacar(l, Len(ps), alFinal)
  <2>7. s.sacados = x /\ s.resto = lista
    <3>1. Len(ps) \in 0 .. Len(l) /\ Len(l) - Len(ps) = Len(lista)
      BY <2>1, <2>2, <2>6
    <3>2. CASE alFinal = TRUE
      <4>1. s.sacados = SubSeq(l, Len(lista) + 1, Len(l)) /\ s.resto = SubSeq(l, 1, Len(lista))
        BY <2>6, <3>1, <3>2, SacarDeLaPunta
      <4>2. /\ SubSeq(l, Len(lista) + 1, Len(lista) + Len(ps)) = ps
            /\ SubSeq(l, 1, Len(lista)) = lista
        BY <2>1, <2>2, <2>4, <3>2, PegadaYCortada
      <4> QED BY <2>6, <3>2, <4>1, <4>2
    <3>3. CASE alFinal = FALSE
      <4>1. s.sacados = SubSeq(l, 1, Len(ps)) /\ s.resto = SubSeq(l, Len(ps) + 1, Len(l))
        BY <2>6, <3>1, <3>3, SacarDeLaPunta
      <4>2. /\ SubSeq(l, 1, Len(Reverse(ps))) = Reverse(ps)
            /\ SubSeq(l, Len(Reverse(ps)) + 1, Len(Reverse(ps)) + Len(lista)) = lista
        BY <2>1, <2>3, <2>4, <3>3, PegadaYCortada
      <4>3. Len(ps) + Len(lista) = Len(l)
        BY <2>1, <2>2, <2>6
      <4> QED BY <2>3, <3>3, <4>1, <4>2, <4>3
    <3> QED BY <3>2, <3>3
  <2>8. v.nuevo = ListaONada(s.resto) /\ v.res = VectorDe(s.sacados)
    <3>1. Len(ps) \in 0 .. Len(l) /\ Len(ps) # 1
      BY <2>1, <2>2, <2>6
    <3> HIDE DEF p
    <3>2. LET q == PlanPop(Lista(l), Len(ps), alFinal)
          IN  q.nuevo = ListaONada(s.resto) /\ q.res = VectorDe(s.sacados)
      BY <2>6, <3>1, PlanDeSacar
    <3> QED BY <2>5, <3>2
  <2> HIDE DEF v, p, s
  <2>9. /\ p.res = Entero(2 * Len(lista) + 1)
        /\ v.nuevo = Lista(lista)
        /\ v.res = VectorDe(x)
    BY <1>1, <2>5, <2>6, <2>7, <2>8 DEF ListaONada
  <2> QED BY <2>9 DEF v, p, ps
<1>2. Entradas => PushPopInversos
  BY <1>1 DEF PushPopInversos
<1> QED BY <1>2, EntradasSiempre, PTL

-----------------------------------------------------------------------------
(* SORT with LIMIT i j, for a position i of the list, keeps the j elements *)
(* from i on, or as many as there are, and all of them when j is negative; *)
(* and seleccionar_rango never panics on them.  The list is no longer than *)
(* an i32 can count, as the code takes its length as one.                  *)
THEOREM LimiteRecorta ==
  ASSUME MaxLista <= MaxI32
  PROVE  Spec => []LimiteCorrecto
<1> DEFINE Corta == Len(lista) <= MaxI32
<1>1. Init => Corta
  <2> SUFFICES ASSUME Init
               PROVE  Corta
    OBVIOUS
  <2>1. PICK n \in 0 .. MaxLista : lista \in [1 .. n -> Textos]
    BY DEF Init, BoundedSeq, SeqOf
  <2>2. Len(lista) = n
    BY <2>1, AlgoritmosAssumption
  <2> QED BY <2>1, <2>2, AlgoritmosAssumption, BddAssumption, MaxLista <= MaxI32
<1>2. Corta /\ [Otra]_entrada => Corta'
  BY DEF Otra, entrada
<1>3. Spec => []Corta
  BY <1>1, <1>2, PTL DEF Spec
<1>4. ASSUME Entradas, Corta, 0 <= i, i < Len(lista)
      PROVE  /\ ~RangoPanico(lista, <<i, j>>)
             /\ SeleccionarRango(lista, <<i, j>>) =
                  SubSeq(lista, i + 1, IF j < 0 \/ i + j > Len(lista) THEN Len(lista) ELSE i + j)
  <2> DEFINE L == Len(lista)
  <2>1. L \in Nat /\ L > 0 /\ i \in Nat /\ j \in Int /\ L - i <= MaxI32 /\ MaxI32 \in Int
    BY <1>4, BddAssumption DEF Entradas
  <2>2. /\ Len(<<i, j>>) = 2 /\ <<i, j>>[1] = i /\ <<i, j>>[2] = j
    OBVIOUS
  <2>3. Resta(L, i) = L - i
    BY <2>1 DEF Resta
  <2>4. ~RangoPanico(lista, <<i, j>>)
    BY <1>4, <2>1, <2>2, <2>3 DEF RangoPanico
  <2>5. IndiceMinimo(i, L) = i
    BY <1>4, <2>1 DEF IndiceMinimo
  <2>6. CASE j = 0
    <3>1. SeleccionarRango(lista, <<i, j>>) = <<>>
      BY <2>2, <2>6 DEF SeleccionarRango
    <3>2. SubSeq(lista, i + 1, i + j) = <<>>
      <4>1. i + 1 > i + j /\ i + 1 \in Int /\ i + j \in Int
        BY <2>1, <2>6
      <4> QED BY <1>4, <4>1, SubSeqProperties DEF Entradas
    <3>3. ~(j < 0 \/ i + j > L)
      BY <1>4, <2>1, <2>6
    <3> QED BY <2>4, <3>1, <3>2, <3>3
  <2>7. CASE j # 0
    <3> DEFINE m == IndiceMaximo(j, L, i)
               f == IF j < 0 \/ i + j > L THEN L ELSE i + j
    <3>1. m + 1 = f
      <4>1. CASE 0 <= j /\ j < L - i
        BY <2>1, <2>3, <4>1 DEF IndiceMaximo
      <4>2. CASE ~(0 <= j /\ j < L - i)
        BY <2>1, <2>3, <4>2 DEF IndiceMaximo
      <4> QED BY <4>1, <4>2
    <3>2. SeleccionarRango(lista, <<i, j>>) = SubSeq(lista, i + 1, m + 1)
      BY <2>2, <2>5, <2>7 DEF SeleccionarRango
    <3> QED BY <2>4, <3>1, <3>2
  <2> QED BY <2>6, <2>7
<1>5. Entradas /\ Corta => LimiteCorrecto
  BY <1>4 DEF LimiteCorrecto
<1> HIDE DEF Corta
<1> QED BY <1>3, <1>5, EntradasSiempre, PTL

-----------------------------------------------------------------------------
(* The positions between two bounds are an interval of the list.           *)
LEMMA Intervalo ==
  ASSUME NEW L \in Nat, NEW a \in Nat, NEW b \in Int, a <= b, b < L
  PROVE  LET en == a + 1 .. b + 1
         IN  /\ Cardinality(en) = b - a + 1
             /\ (CHOOSE h \in en : \A g \in en : h <= g) = a + 1
<1>1. Cardinality(a + 1 .. b + 1) = b - a + 1
  BY FS_Interval
<1>2. a + 1 \in a + 1 .. b + 1 /\ \A g \in a + 1 .. b + 1 : a + 1 <= g
  OBVIOUS
<1>3. \A h \in a + 1 .. b + 1 : (\A g \in a + 1 .. b + 1 : h <= g) => h = a + 1
  BY <1>2
<1>4. (CHOOSE h \in a + 1 .. b + 1 : \A g \in a + 1 .. b + 1 : h <= g) = a + 1
  BY <1>2, <1>3
<1> QED BY <1>1, <1>4

(* The answer with no elements.                                            *)
LEMMA VectorVacio == VectorDe(<<>>) = Vector(<<>>)
<1>1. Len(<<>>) = 0 /\ 1 .. 0 = {}
  OBVIOUS
<1>2. [h \in 1 .. Len(<<>>) |-> BulkDe(<<>>[h])] = <<>>
  BY <1>1
<1> QED BY <1>2 DEF VectorDe

(* LRANGE answers the elements whose position, from 0, lies between its    *)
(* two indices, a negative one counting from the end (lrange and its index *)
(* functions in comando_list_handler.rs): no off-by-one and no panic at    *)
(* either end, in a build that does not check overflow.                    *)
THEOREM LRangeResponde ==
  ASSUME Depuracion = FALSE
  PROVE  Spec => []RangoCorrecto
<1>1. ASSUME Entradas
      PROVE  RangoCorrecto
  <2> DEFINE L == Len(lista)
             a == IndiceInferior(i, L)
             b == IndiceSuperior(j, L)
             en == {h \in 1 .. L : Pos(i) <= h - 1 /\ h - 1 <= Pos(j)}
             desde == CHOOSE h \in en : \A g \in en : h <= g
             m == [h \in 1 .. Cardinality(en) |-> lista[desde + h - 1]]
  <2>1. L \in Nat /\ i \in Int /\ j \in Int /\ lista \in Seq(Textos)
    BY <1>1 DEF Entradas
  <2>2. /\ Pos(i) \in Int /\ Pos(i) = IF i < 0 THEN L + i ELSE i
        /\ Pos(j) \in Int /\ Pos(j) = IF j < 0 THEN L + j ELSE j
    BY <2>1 DEF Pos
  <2>3. Lista(lista).tipo = "Lista" /\ Lista(lista).lista = lista
    BY DEF Lista
  <2>4. a = IF i >= L /\ i >= 0 THEN NoHay ELSE IF Pos(i) >= 0 THEN Pos(i) ELSE 0
    BY <2>1, <2>2 DEF IndiceInferior, EstaEnRango
  <2>5. b = IF Pos(j) < 0 THEN NoHay ELSE IF Pos(j) < L THEN Pos(j) ELSE L - 1
    BY <2>1, <2>2 DEF IndiceSuperior, EstaEnRango
  <2>6. a \in Int /\ b \in Int
    BY <2>1, <2>2, <2>4, <2>5 DEF NoHay
  <2>7. PlanLRange(Lista(lista), i, j) =
          IF NoHay \in {a, b} \/ b = -1 THEN Responde(Vector(<<>>))
          ELSE Responde(VectorDe(SubSeq(lista, a + 1, b + 1)))
    <3> HIDE DEF a, b
    <3>1. CASE NoHay \in {a, b}
      BY <2>3, <3>1 DEF PlanLRange, a, b
    <3>2. CASE NoHay \notin {a, b} /\ b = -1
      BY <2>3, <3>2, Depuracion = FALSE DEF PlanLRange, a, b
    <3>3. CASE NoHay \notin {a, b} /\ b # -1
      BY <2>3, <3>3 DEF PlanLRange, a, b
    <3> QED BY <3>1, <3>2, <3>3
  <2> HIDE DEF a, b
  <2>8. CASE NoHay \in {a, b} \/ b = -1 \/ a > b
    <3>1. en = {}
      <4> SUFFICES ASSUME NEW h \in 1 .. L, Pos(i) <= h - 1, h - 1 <= Pos(j)
                   PROVE  FALSE
        OBVIOUS
      <4> QED BY <2>1, <2>2, <2>4, <2>5, <2>6, <2>8 DEF NoHay
    <3> HIDE DEF en, desde
    <3>2. Cardinality(en) = 0 /\ 1 .. 0 = {}
      BY <3>1, FS_EmptySet
    <3>3. m = <<>>
      BY <3>2
    <3>4. VectorDe(m) = Vector(<<>>)
      BY <3>3, VectorVacio
    <3>5. a > b /\ b # -1 /\ NoHay \notin {a, b} => SubSeq(lista, a + 1, b + 1) = <<>>
      BY <2>1, <2>6
    <3>6. a > b /\ b # -1 /\ NoHay \notin {a, b} =>
            VectorDe(SubSeq(lista, a + 1, b + 1)) = Vector(<<>>)
      BY <3>5, VectorVacio
    <3>7. PlanLRange(Lista(lista), i, j) = Responde(VectorDe(m))
      BY <2>7, <2>8, <3>4, <3>6
    <3> QED BY <3>7 DEF RangoCorrecto, m, desde, en
  <2>9. CASE NoHay \notin {a, b} /\ b # -1 /\ a <= b
    <3>1. a \in Nat /\ b < L
      BY <2>1, <2>2, <2>4, <2>5, <2>6, <2>9
    <3>2. en = a + 1 .. b + 1
      <4>1. \A h \in 1 .. L : Pos(i) <= h - 1 /\ h - 1 <= Pos(j) <=> h \in a + 1 .. b + 1
        BY <2>1, <2>2, <2>4, <2>5, <2>6, <2>9, <3>1
      <4>2. a + 1 .. b + 1 \subseteq 1 .. L
        BY <2>1, <2>6, <3>1
      <4> QED BY <4>1, <4>2
    <3> HIDE DEF en
    <3>3. Cardinality(en) = b - a + 1 /\ desde = a + 1
      <4>1. LET I == a + 1 .. b + 1
            IN  /\ Cardinality(I) = b - a + 1
                /\ (CHOOSE h \in I : \A g \in I : h <= g) = a + 1
        BY <2>1, <2>6, <2>9, <3>1, Intervalo, ZenonT(30)
      <4> QED BY <3>2, <4>1
    <3> HIDE DEF desde
    <3>4. m = SubSeq(lista, a + 1, b + 1)
      <4> DEFINE t == SubSeq(lista, a + 1, b + 1)
      <4>1. /\ t \in Seq(Textos) /\ Len(t) = b - a + 1
            /\ \A h \in 1 .. b - a + 1 : t[h] = lista[a + h]
        BY <2>1, <2>6, <2>9, <3>1
      <4> HIDE DEF t
      <4>2. DOMAIN t = 1 .. b - a + 1 /\ t = [h \in DOMAIN t |-> t[h]]
        BY <4>1
      <4>3. \A h \in 1 .. b - a + 1 : (a + 1) + h - 1 = a + h
        BY <2>6, <3>1
      <4>4. m = t
        BY <3>3, <4>1, <4>2, <4>3
      <4> QED BY <4>4 DEF t
    <3>5. PlanLRange(Lista(lista), i, j) = Responde(VectorDe(m))
      BY <2>7, <2>9, <3>4
    <3> QED BY <3>5 DEF RangoCorrecto, m, desde, en
  <2> QED BY <2>6, <2>8, <2>9
<1>2. Entradas => RangoCorrecto
  BY <1>1
<1> QED BY <1>2, EntradasSiempre, PTL

-----------------------------------------------------------------------------
(* LREM.  The place of a position among the positions Q, Puesto, numbers   *)
(* them in order without a gap: it is injective into as many numbers as    *)
(* there are positions, so it reaches them all.                            *)
LEMMA Puestos ==
  ASSUME NEW N \in Nat, NEW Q \in SUBSET (1 .. N)
  PROVE  /\ IsFiniteSet(Q) /\ Cardinality(Q) \in Nat
         /\ \A h \in Q : Puesto(Q, h) \in 1 .. Cardinality(Q)
         /\ \A g, h \in Q : g < h => Puesto(Q, g) < Puesto(Q, h)
         /\ \A m \in 1 .. Cardinality(Q) : \E h \in Q : Puesto(Q, h) = m
<1>0. IsFiniteSet(1 .. N)
  BY FS_Interval
<1>1. IsFiniteSet(Q)
  BY <1>0, FS_Subset
<1>2. PICK c \in Nat : c = Cardinality(Q)
  BY <1>1, FS_CardinalityType
<1>3. ASSUME NEW h \in Q
      PROVE  Puesto(Q, h) \in 1 .. c
  <2>1. PICK A \in SUBSET Q : A = {g \in Q : g <= h}
    OBVIOUS
  <2>2. h \in A
    BY <2>1
  <2>3. IsFiniteSet(A) /\ Cardinality(A) <= c
    BY <1>1, <1>2, FS_Subset
  <2>4. Cardinality(A) \in Nat /\ Cardinality(A) # 0
    BY <2>2, <2>3, FS_CardinalityType, FS_EmptySet
  <2>5. Puesto(Q, h) = Cardinality(A)
    BY <2>1 DEF Puesto
  <2> QED
    BY <2>3, <2>4, <2>5
<1>4. ASSUME NEW g \in Q, NEW h \in Q, g < h
      PROVE  Puesto(Q, g) < Puesto(Q, h)
  <2>1. PICK A, B : A = {x \in Q : x <= g} /\ B = {x \in Q : x <= h}
    OBVIOUS
  <2>2. A \in SUBSET B /\ A # B /\ B \in SUBSET Q
    <3>1. \A x \in Q : x \in Int
      OBVIOUS
    <3>2. \A x \in A : x \in B
      BY <1>4, <2>1, <3>1
    <3>3. h \in B /\ h \notin A
      BY <1>4, <2>1, <3>1
    <3> QED
      BY <2>1, <3>2, <3>3
  <2>3. IsFiniteSet(B)
    BY <1>1, <2>2, FS_Subset
  <2>4. Cardinality(A) <= Cardinality(B) /\ Cardinality(A) # Cardinality(B) /\ IsFiniteSet(A)
    BY <2>2, <2>3, FS_Subset
  <2>5. Cardinality(A) \in Nat /\ Cardinality(B) \in Nat
    BY <2>3, <2>4, FS_CardinalityType
  <2>6. Puesto(Q, g) = Cardinality(A) /\ Puesto(Q, h) = Cardinality(B)
    BY <2>1 DEF Puesto
  <2> QED
    BY <2>4, <2>5, <2>6
<1>5. \A m \in 1 .. c : \E h \in Q : Puesto(Q, h) = m
  <2> DEFINE f == [h \in Q |-> Puesto(Q, h)]
  <2>1. f \in [Q -> 1 .. c]
    BY <1>3
  <2>2. ASSUME NEW g \in Q, NEW h \in Q, f[g] = f[h]
        PROVE  g = h
    <3>1. Puesto(Q, g) = Puesto(Q, h)
      BY <2>2
    <3>2. ~(g < h) /\ ~(h < g)
      BY <3>1, <1>3, <1>4
    <3> QED
      BY <3>2
  <2>3. f \in Injection(Q, 1 .. c)
    BY <2>1, <2>2, Zenon DEF Injection, IsInjective
  <2>4. IsFiniteSet(1 .. c) /\ Cardinality(1 .. c) = c
    BY FS_Interval
  <2>5. f \in Surjection(Q, 1 .. c)
    <3> HIDE DEF f
    <3> QED
      BY <1>2, <2>3, <2>4, FS_Injection
  <2>6. \A m \in 1 .. c : \E h \in Q : f[h] = m
    <3> HIDE DEF f
    <3> QED
      BY <2>5 DEF Surjection
  <2> QED
    BY <2>6
<1> QED
  BY <1>1, <1>2, <1>3, <1>4, <1>5

(* What Elegidos takes from a list: the elements at the positions Q, all   *)
(* of them and in order.                                                   *)
LEMMA ElegidosEnOrden ==
  ASSUME NEW l \in Seq(Textos), NEW Q \in SUBSET DOMAIN l
  PROVE  Elegidos(l, Q) \in Seq(Textos) /\ EsSin(Elegidos(l, Q), l, DOMAIN l \ Q)
<1> DEFINE P(m, w) == (\E h \in Q : Puesto(Q, h) = m) => w \in Q /\ Puesto(Q, w) = m
<1>1. PICK N \in Nat : N = Len(l) /\ DOMAIN l = 1 .. N
  OBVIOUS
<1>0. Q \in SUBSET (1 .. N)
  BY <1>1
<1>2. PICK c \in Nat : c = Cardinality(Q)
  BY <1>0, Puestos
<1>3. /\ \A h \in Q : Puesto(Q, h) \in 1 .. c
      /\ \A g, h \in Q : g < h => Puesto(Q, g) < Puesto(Q, h)
      /\ \A m \in 1 .. c : \E h \in Q : Puesto(Q, h) = m
  BY <1>0, <1>2, Puestos
<1> DEFINE f == [m \in 1 .. c |-> CHOOSE w \in DOMAIN l : P(m, w)]
<1>4. ASSUME NEW m \in 1 .. c
      PROVE  f[m] \in Q /\ Puesto(Q, f[m]) = m
  <2>1. PICK h \in Q : Puesto(Q, h) = m
    BY <1>3
  <2>2. h \in DOMAIN l /\ P(m, h)
    BY <2>1
  <2>3. P(m, CHOOSE w \in DOMAIN l : P(m, w))
    <3> HIDE DEF P
    <3> QED
      BY <2>2, Zenon
  <2> QED
    BY <2>1, <2>3
<1>5. Elegidos(l, Q) = [m \in 1 .. c |-> l[f[m]]]
  <2>1. Elegidos(l, Q) = [m \in 1 .. c |-> l[CHOOSE w \in DOMAIN l : P(m, w)]]
    BY <1>2, Zenon DEF Elegidos
  <2>2. \A m \in 1 .. c : f[m] = CHOOSE w \in DOMAIN l : P(m, w)
    BY Zenon
  <2> HIDE DEF f, P
  <2> QED
    BY <2>1, <2>2, Zenon
<1>6. DOMAIN f = 1 .. c /\ f = [m \in 1 .. c |-> f[m]]
  OBVIOUS
<1> HIDE DEF f, P
<1>7. f \in [1 .. c -> DOMAIN l]
  BY <1>4, <1>6
<1>8. ASSUME NEW g \in 1 .. c, NEW h \in 1 .. c, g < h
      PROVE  f[g] < f[h]
  <2>1. f[g] \in Q /\ f[h] \in Q /\ Puesto(Q, f[g]) = g /\ Puesto(Q, f[h]) = h
    BY <1>4
  <2>2. f[g] \in Nat /\ f[h] \in Nat
    BY <2>1, <1>1
  <2>3. ~(f[h] < f[g]) /\ f[h] # f[g]
    BY <1>3, <1>8, <2>1
  <2> QED
    BY <2>2, <2>3
<1>9. ASSUME NEW x \in Q
      PROVE  \E m \in 1 .. c : f[m] = x
  <2>1. PICK m \in 1 .. c : m = Puesto(Q, x)
    BY <1>3
  <2>2. f[m] \in Q /\ Puesto(Q, f[m]) = m
    BY <1>4
  <2>3. x \in Nat /\ f[m] \in Nat
    BY <1>1, <2>2
  <2>4. ~(f[m] < x) /\ ~(x < f[m])
    BY <1>3, <2>1, <2>2
  <2> QED
    BY <2>3, <2>4
<1> DEFINE q == [m \in 1 .. c |-> l[f[m]]]
<1>10. q \in Seq(Textos) /\ DOMAIN q = 1 .. c /\ \A m \in 1 .. c : q[m] = l[f[m]]
  BY <1>7, <1>1
<1> HIDE DEF q
<1>11. {f[g] : g \in 1 .. c} = DOMAIN l \ (DOMAIN l \ Q)
  BY <1>4, <1>9
<1>12. EsSin(q, l, DOMAIN l \ Q)
  BY <1>7, <1>8, <1>10, <1>11 DEF EsSin
<1> QED
  BY <1>5, <1>10, <1>12 DEF q

(* Where x is.                                                             *)
Veces(l, x) == {g \in DOMAIN l : l[g] = x}

(* The positions LREM takes out are the first n of those that hold x, or   *)
(* all of them.                                                            *)
LEMMA BorradosPrimeros ==
  ASSUME NEW l \in Seq(Textos), NEW n \in Nat \ {0}, NEW x
  PROVE  /\ Cardinality(Borrados(l, n, x)) = IF n < Cardinality(Veces(l, x)) THEN n
                                             ELSE Cardinality(Veces(l, x))
         /\ \E corte \in 0 .. Len(l) :
              Borrados(l, n, x) = {g \in Veces(l, x) : g <= corte}
<1> SUFFICES ASSUME NEW O, O = Veces(l, x)
             PROVE  /\ Cardinality(Borrados(l, n, x))
                         = IF n < Cardinality(O) THEN n ELSE Cardinality(O)
                    /\ \E corte \in 0 .. Len(l) : Borrados(l, n, x) = {g \in O : g <= corte}
  OBVIOUS
<1>0. O = {g \in DOMAIN l : l[g] = x}
  BY DEF Veces
<1>1. PICK N \in Nat : N = Len(l) /\ DOMAIN l = 1 .. N
  OBVIOUS
<1>2. O \in SUBSET (1 .. N)
  BY <1>0, <1>1
<1>3. PICK c \in Nat : c = Cardinality(O)
  BY <1>2, Puestos
<1>4. /\ \A h \in O : Puesto(O, h) \in 1 .. c
      /\ \A g, h \in O : g < h => Puesto(O, g) < Puesto(O, h)
      /\ \A m \in 1 .. c : \E h \in O : Puesto(O, h) = m
      /\ IsFiniteSet(O)
  <2>1. /\ \A h \in O : Puesto(O, h) \in 1 .. Cardinality(O)
        /\ \A g, h \in O : g < h => Puesto(O, g) < Puesto(O, h)
        /\ \A m \in 1 .. Cardinality(O) : \E h \in O : Puesto(O, h) = m
        /\ IsFiniteSet(O)
    BY <1>2, Puestos
  <2> QED
    BY <1>3, <2>1
<1>5. ASSUME NEW h \in O
      PROVE  Cardinality({g \in 1 .. h - 1 : l[g] = x}) = Puesto(O, h) - 1
  <2>1. PICK A \in SUBSET O : A = {g \in O : g <= h}
    OBVIOUS
  <2>2. {g \in 1 .. h - 1 : l[g] = x} = A \ {h} /\ h \in A
    BY <1>0, <1>1, <1>2, <2>1
  <2>3. IsFiniteSet(A)
    BY <1>4, FS_Subset
  <2>4. Cardinality(A \ {h}) = Cardinality(A) - 1
    BY <2>2, <2>3, FS_RemoveElement
  <2>5. Puesto(O, h) = Cardinality(A)
    BY <2>1 DEF Puesto
  <2> QED
    BY <2>2, <2>4, <2>5
<1>6. Borrados(l, n, x) = {h \in O : Puesto(O, h) - 1 < n}
  <2>1. Borrados(l, n, x) = {h \in O : Cardinality({g \in 1 .. h - 1 : l[g] = x}) < n}
    BY <1>0 DEF Borrados
  <2> QED
    BY <2>1, <1>5
<1>7. CASE c <= n
  <2>1. Borrados(l, n, x) = O
    BY <1>4, <1>6, <1>7
  <2>2. O = {g \in O : g <= N}
    BY <1>2
  <2>3. N \in 0 .. Len(l)
    BY <1>1
  <2>4. Borrados(l, n, x) = {g \in O : g <= N}
    BY <2>1, <2>2
  <2>5. Cardinality(Borrados(l, n, x)) = IF n < c THEN n ELSE c
    BY <1>3, <1>7, <2>1
  <2> QED
    BY <1>3, <2>3, <2>4, <2>5
<1>8. CASE n < c
  <2>0. n \in 1 .. c
    BY <1>8
  <2>1. PICK k \in O : Puesto(O, k) = n
    BY <1>4, <2>0
  <2>2. ASSUME NEW h \in O
        PROVE  Puesto(O, h) - 1 < n <=> h <= k
    <3>1. h \in Nat /\ k \in Nat /\ Puesto(O, h) \in Nat
      BY <1>2, <1>4
    <3>2. CASE h = k
      BY <3>1, <3>2, <2>1
    <3>3. CASE h < k
      BY <3>1, <3>3, <2>1, <1>4
    <3>4. CASE k < h
      BY <3>1, <3>4, <2>1, <1>4
    <3> QED
      BY <3>1, <3>2, <3>3, <3>4
  <2>3. Borrados(l, n, x) = {h \in O : h <= k}
    BY <1>6, <2>2
  <2>4. Cardinality(Borrados(l, n, x)) = n
    BY <2>1, <2>3 DEF Puesto
  <2>5. k \in 0 .. Len(l)
    BY <1>1, <1>2
  <2> QED
    BY <1>3, <1>8, <2>3, <2>4, <2>5
<1> QED
  BY <1>7, <1>8

-----------------------------------------------------------------------------
(* The positions of a list seen from its other end.                        *)
Espejo(N, S) == {N + 1 - g : g \in S}

(* They are as many.                                                       *)
LEMMA EspejoCuenta ==
  ASSUME NEW N \in Nat, NEW S \in SUBSET (1 .. N)
  PROVE  Cardinality(Espejo(N, S)) = Cardinality(S)
<1> DEFINE f == [g \in S |-> N + 1 - g]
<1>1. f \in [S -> Espejo(N, S)] /\ \A y \in Espejo(N, S) : \E g \in S : f[g] = y
  BY DEF Espejo
<1>2. \A g, h \in S : f[g] = f[h] => g = h
  OBVIOUS
<1> HIDE DEF f
<1>3. f \in Bijection(S, Espejo(N, S))
  BY <1>1, <1>2 DEF Bijection, Injection, Surjection, IsInjective
<1>4. ExistsBijection(S, Espejo(N, S))
  BY <1>3 DEF ExistsBijection
<1>5. IsFiniteSet(1 .. N)
  BY FS_Interval
<1>6. IsFiniteSet(S)
  BY <1>5, FS_Subset
<1> QED
  BY <1>4, <1>6, FS_Bijection

(* Taking elements out of the reversed list takes out the ones at the      *)
(* mirrored positions.                                                     *)
LEMMA SinDadosVuelta ==
  ASSUME NEW l \in Seq(Textos), NEW q \in Seq(Textos), NEW F \in SUBSET (1 .. Len(l)),
         EsSin(q, Reverse(l), F)
  PROVE  EsSin(Reverse(q), l, Espejo(Len(l), F))
<1>1. PICK N \in Nat, c \in Nat : N = Len(l) /\ c = Len(q)
  OBVIOUS
<1> DEFINE r == Reverse(l)
           s == Reverse(q)
<1>2. /\ DOMAIN l = 1 .. N /\ DOMAIN q = 1 .. c /\ DOMAIN r = 1 .. N /\ DOMAIN s = 1 .. c
      /\ \A k \in 1 .. N : r[k] = l[N - k + 1]
      /\ \A k \in 1 .. c : s[k] = q[c - k + 1]
  <2>1. /\ r \in Seq(Textos) /\ Len(r) = N /\ s \in Seq(Textos) /\ Len(s) = c
        /\ \A k \in 1 .. N : r[k] = l[N - k + 1]
        /\ \A k \in 1 .. c : s[k] = q[c - k + 1]
    BY <1>1, DadaVuelta
  <2> HIDE DEF r, s
  <2> QED
    BY <1>1, <2>1
<1> HIDE DEF r, s
<1>3. PICK f \in [1 .. c -> 1 .. N] :
        /\ \A g, h \in 1 .. c : g < h => f[g] < f[h]
        /\ {f[g] : g \in 1 .. c} = (1 .. N) \ F
        /\ \A g \in 1 .. c : q[g] = r[f[g]]
  BY <1>2 DEF EsSin, r
<1> DEFINE t == [k \in 1 .. c |-> N + 1 - f[c + 1 - k]]
<1>4. ASSUME NEW k \in 1 .. c
      PROVE  c + 1 - k \in 1 .. c /\ t[k] = N + 1 - f[c + 1 - k] /\ t[k] \in 1 .. N
  <2>1. c + 1 - k \in 1 .. c
    OBVIOUS
  <2>2. f[c + 1 - k] \in 1 .. N
    BY <2>1
  <2> QED
    BY <2>1, <2>2
<1>5. t \in [1 .. c -> 1 .. N]
  BY <1>4
<1> HIDE DEF t
<1>6. ASSUME NEW g \in 1 .. c, NEW h \in 1 .. c, g < h
      PROVE  t[g] < t[h]
  <2>1. f[c + 1 - h] < f[c + 1 - g]
    BY <1>3, <1>4, <1>6
  <2>2. f[c + 1 - h] \in 1 .. N /\ f[c + 1 - g] \in 1 .. N
    BY <1>4
  <2> QED
    BY <1>4, <2>1, <2>2
<1>7. ASSUME NEW k \in 1 .. c
      PROVE  s[k] = l[t[k]]
  <2>1. PICK g \in 1 .. c : g = c + 1 - k
    BY <1>4
  <2>2. s[k] = q[g]
    <3>1. c - k + 1 = g
      BY <2>1
    <3> QED
      BY <3>1, <1>2
  <2>3. q[g] = r[f[g]] /\ f[g] \in 1 .. N
    BY <1>3
  <2>4. r[f[g]] = l[N - f[g] + 1]
    BY <1>2, <2>3
  <2>5. N - f[g] + 1 = t[k]
    BY <1>4, <2>1, <2>3
  <2> QED
    BY <2>2, <2>3, <2>4, <2>5
<1>8. {t[k] : k \in 1 .. c} = (1 .. N) \ Espejo(N, F)
  <2>1. ASSUME NEW k \in 1 .. c
        PROVE  t[k] \in (1 .. N) \ Espejo(N, F)
    <3>1. f[c + 1 - k] \in (1 .. N) \ F
      BY <1>3, <1>4
    <3>2. ASSUME NEW g \in F, t[k] = N + 1 - g
          PROVE  FALSE
      <4>1. g = f[c + 1 - k]
        BY <1>1, <1>4, <3>1, <3>2
      <4> QED
        BY <3>1, <4>1
    <3> QED
      BY <1>4, <3>2 DEF Espejo
  <2>2. ASSUME NEW y \in (1 .. N) \ Espejo(N, F)
        PROVE  \E k \in 1 .. c : t[k] = y
    <3>1. PICK x \in 1 .. N : x = N + 1 - y
      OBVIOUS
    <3>2. x \notin F
      <4>1. y = N + 1 - x
        BY <3>1
      <4> QED
        BY <2>2, <4>1 DEF Espejo
    <3>3. PICK g \in 1 .. c : f[g] = x
      BY <1>3, <3>2
    <3>4. PICK k \in 1 .. c : k = c + 1 - g
      OBVIOUS
    <3>5. c + 1 - k = g
      BY <3>4
    <3>6. t[k] = N + 1 - x
      BY <1>4, <3>3, <3>5
    <3> QED
      BY <3>1, <3>6
  <2> QED
    BY <2>1, <2>2
<1>9. EsSin(s, l, Espejo(N, F))
  BY <1>2, <1>5, <1>6, <1>7, <1>8 DEF EsSin
<1> QED
  BY <1>1, <1>9 DEF s

-----------------------------------------------------------------------------
(* What LREM stores and answers.                                           *)
LEMMA PlanDeLRemDeLista ==
  ASSUME NEW l \in Seq(Textos), NEW k \in Int, k # MinI32, NEW x
  PROVE  LET n == IF k > 0 THEN k ELSE -k
             m == IF k < 0 THEN Reverse(l) ELSE l
             fuera == Borrados(m, n, x)
             quedan == Elegidos(m, DOMAIN m \ fuera)
             q == IF k < 0 THEN Reverse(quedan) ELSE quedan
             p == PlanLRem(Lista(l), k, x)
         IN  /\ p.res = Entero(Cardinality(fuera))
             /\ q = IF p.nuevo = Nada THEN <<>> ELSE p.nuevo.lista
<1> DEFINE n == IF k > 0 THEN k ELSE -k
           m == IF k < 0 THEN Reverse(l) ELSE l
           fuera == Borrados(m, n, x)
           quedan == Elegidos(m, DOMAIN m \ fuera)
           q == IF k < 0 THEN Reverse(quedan) ELSE quedan
           p == PlanLRem(Lista(l), k, x)
<1>1. n = IF k < 0 /\ k # MinI32 THEN -k ELSE k
  OBVIOUS
<1>2. Lista(l).tipo = "Lista" /\ Lista(l).lista = l
  BY DEF Lista
<1>3. p = Escribe(ListaONada(q), Entero(Cardinality(fuera)))
  BY <1>1, <1>2 DEF PlanLRem
<1> HIDE DEF p, q, fuera
<1>4. p.res = Entero(Cardinality(fuera)) /\ p.nuevo = ListaONada(q)
  BY <1>3 DEF Escribe, Plan
<1>5. q = IF ListaONada(q) = Nada THEN <<>> ELSE ListaONada(q).lista
  BY DEF ListaONada, Lista, Nada
<1> QED
  BY <1>4, <1>5 DEF p, q, fuera

(* LREM takes out the first, or from the back the last, occurrences of the *)
(* element, up to the number asked for, and nothing else, for lists of any *)
(* length and every i32 that has an absolute value.                        *)
THEOREM LRemSaca == Spec => []LRemCorrecto
<1>1. Entradas => LRemCorrecto
  <2> SUFFICES ASSUME Entradas, i # 0, i # MinI32
               PROVE  LRemCorrecto
    BY DEF LRemCorrecto
  <2> DEFINE n == IF i > 0 THEN i ELSE -i
             m == IF i < 0 THEN Reverse(lista) ELSE lista
             F == Borrados(m, n, e)
             quedan == Elegidos(m, DOMAIN m \ F)
             q == IF i < 0 THEN Reverse(quedan) ELSE quedan
             p == PlanLRem(Lista(lista), i, e)
             veces == {g \in DOMAIN lista : lista[g] = e}
             O == {g \in DOMAIN m : m[g] = e}
             fuera(corte) == {g \in veces : IF i > 0 THEN g <= corte ELSE g > corte}
  <2>1. lista \in Seq(Textos) /\ i \in Int
    BY DEF Entradas
  <2>2. PICK N \in Nat : N = Len(lista) /\ DOMAIN lista = 1 .. N
    BY <2>1
  <2>3. p.res = Entero(Cardinality(F)) /\ q = IF p.nuevo = Nada THEN <<>> ELSE p.nuevo.lista
    BY <2>1, PlanDeLRemDeLista
  <2>4. n \in Nat \ {0}
    BY <2>1
  <2>5. /\ m \in Seq(Textos) /\ Len(m) = N /\ DOMAIN m = 1 .. N
        /\ i < 0 => \A g \in 1 .. N : m[g] = lista[N - g + 1]
        /\ ~(i < 0) => m = lista
    <3>1. /\ Reverse(lista) \in Seq(Textos) /\ Len(Reverse(lista)) = N
          /\ \A g \in 1 .. N : Reverse(lista)[g] = lista[N - g + 1]
      BY <2>1, <2>2, DadaVuelta
    <3>2. m \in Seq(Textos) /\ Len(m) = N
      BY <2>1, <2>2, <3>1
    <3> QED
      BY <3>1, <3>2
  <2>6. i < 0 => m = Reverse(lista)
    OBVIOUS
  <2> HIDE DEF m, n, p
  <2>7. PICK corte \in 0 .. N :
          /\ F = {g \in O : g <= corte}
          /\ Cardinality(F) = IF n < Cardinality(O) THEN n ELSE Cardinality(O)
    <3>1. /\ Cardinality(F) = IF n < Cardinality(Veces(m, e)) THEN n
                              ELSE Cardinality(Veces(m, e))
          /\ \E corte \in 0 .. Len(m) : F = {g \in Veces(m, e) : g <= corte}
      BY <2>4, <2>5, BorradosPrimeros
    <3>2. O = Veces(m, e)
      BY DEF Veces
    <3> HIDE DEF O, F
    <3> QED
      BY <2>5, <3>1, <3>2
  <2>8. F \in SUBSET (1 .. N) /\ O \in SUBSET (1 .. N)
    BY <2>5, <2>7
  <2>9. quedan \in Seq(Textos) /\ EsSin(quedan, m, F)
    <3>1. PICK Q \in SUBSET DOMAIN m : Q = DOMAIN m \ F
      OBVIOUS
    <3>2. DOMAIN m \ Q = F
      BY <2>5, <2>8, <3>1
    <3> QED
      BY <2>5, <3>1, <3>2, ElegidosEnOrden
  <2> HIDE DEF F, quedan
  <2> SUFFICES \E h \in 0 .. N :
                 /\ Cardinality(F) = Cardinality(fuera(h))
                 /\ Cardinality(O) = Cardinality(veces)
                 /\ EsSin(q, lista, fuera(h))
    <3>1. PICK h \in 0 .. Len(lista) :
            /\ p.res = Entero(Cardinality(fuera(h)))
            /\ Cardinality(fuera(h)) = IF n < Cardinality(veces) THEN n ELSE Cardinality(veces)
            /\ EsSin(IF p.nuevo = Nada THEN <<>> ELSE p.nuevo.lista, lista, fuera(h))
      BY <2>2, <2>3, <2>7
    <3> QED
      BY <3>1 DEF LRemCorrecto, p, n
  <2>10. CASE i > 0
    <3>1. m = lista /\ O = veces /\ q = quedan /\ F = fuera(corte)
      BY <2>1, <2>5, <2>7, <2>10
    <3> QED
      BY <2>9, <3>1
  <2>11. CASE i < 0
    <3>1. veces = Espejo(N, O)
      <4>1. ASSUME NEW g \in veces
            PROVE  g \in Espejo(N, O)
        <5>1. PICK h \in 1 .. N : h = N + 1 - g
          BY <2>2
        <5>2. N - h + 1 = g /\ N + 1 - h = g
          BY <2>2, <5>1
        <5>3. h \in O
          BY <2>5, <2>11, <5>2
        <5> QED
          BY <5>2, <5>3 DEF Espejo
      <4>2. ASSUME NEW h \in O
            PROVE  N + 1 - h \in veces
        <5>1. h \in 1 .. N /\ lista[N - h + 1] = e
          BY <2>5, <2>11
        <5>2. N - h + 1 = N + 1 - h /\ N + 1 - h \in 1 .. N
          BY <5>1
        <5> QED
          BY <2>2, <5>1, <5>2
      <4> QED
        BY <4>1, <4>2 DEF Espejo
    <3>2. PICK h \in 0 .. N : h = N - corte
      OBVIOUS
    <3>3. fuera(h) = Espejo(N, F)
      <4>1. ASSUME NEW g \in fuera(h)
            PROVE  g \in Espejo(N, F)
        <5>1. g \in Espejo(N, O) /\ g > h
          BY <2>1, <2>11, <3>1
        <5>2. PICK x \in O : g = N + 1 - x
          BY <5>1 DEF Espejo
        <5>3. x \in 1 .. N /\ x <= corte
          BY <2>8, <3>2, <5>1, <5>2
        <5> QED
          BY <2>7, <5>2, <5>3 DEF Espejo
      <4>2. ASSUME NEW x \in F
            PROVE  N + 1 - x \in fuera(h)
        <5>1. x \in O /\ x <= corte /\ x \in 1 .. N
          BY <2>7, <2>8
        <5>2. N + 1 - x \in veces
          BY <3>1, <5>1 DEF Espejo
        <5>3. N + 1 - x > h
          BY <3>2, <5>1
        <5> QED
          BY <2>1, <2>11, <5>2, <5>3
      <4> QED
        BY <4>1, <4>2 DEF Espejo
    <3>4. Cardinality(fuera(h)) = Cardinality(F) /\ Cardinality(veces) = Cardinality(O)
      BY <2>8, <3>1, <3>3, EspejoCuenta
    <3>5. EsSin(Reverse(quedan), lista, Espejo(N, F))
      BY <2>1, <2>2, <2>6, <2>8, <2>9, <2>11, SinDadosVuelta
    <3>6. q = Reverse(quedan)
      BY <2>11
    <3>7. EsSin(q, lista, fuera(h))
      BY <3>3, <3>5, <3>6
    <3> HIDE DEF q, fuera, veces, O
    <3> QED
      BY <3>4, <3>7
  <2>12. i > 0 \/ i < 0
    BY <2>1
  <2> HIDE DEF q, fuera, veces, O
  <2> QED
    BY <2>10, <2>11, <2>12
<1> QED
  BY <1>1, EntradasSiempre, PTL

=============================================================================
