--------------------------- MODULE ServidorPruebas ---------------------------
(***************************************************************************)
(* Proofs about the server, for every set of clients, keys, texts and      *)
(* parameters.  The argument is one invariant, Inv, and one lemma,         *)
(* PasoDeCliente: whatever a client thread does is a Paso of that thread,  *)
(* which says what the step may touch.  The safety theorems follow from    *)
(* it.  The refinement of AlmacenAtomico adds EnMarcha, the account each   *)
(* thread keeps of what it has done, and one lemma per form of section.    *)
(***************************************************************************)
EXTENDS ServidorProps, FiniteSetTheorems, WellFoundedInduction, TLAPS

-----------------------------------------------------------------------------
(* The operators that the handlers are built from: every plan a command    *)
(* makes from a well-formed value is well formed, and applying a plan to a *)
(* table gives a table that differs at most at the plan's key.             *)

(* The cases of a value read from the table.                               *)
LEMMA TiposDeValor ==
  ASSUME NEW v \in TipoONada
  PROVE  /\ v.tipo \in {"Nada", "Str", "Lista", "Set", "Canal"}
         /\ v.tipo = "Nada" => v = Nada
         /\ v.tipo = "Str" => v.str \in Seq(Fragmentos)
         /\ v.tipo = "Lista" => v.lista \in Seq(Textos)
         /\ v.tipo = "Set" => v.set \subseteq Textos
         /\ v # Nada => v \in TipoRedis
  BY DEF TipoONada, TipoRedis, Nada

(* The constructors of values.                                             *)
LEMMA Valores ==
  /\ Nada \in TipoONada
  /\ \A s \in Seq(Fragmentos) : Str(s) \in TipoONada
  /\ \A l \in Seq(Textos) : Lista(l) \in TipoONada
  /\ \A s \in SUBSET Textos : Conjunto(s) \in TipoONada
  BY DEF TipoONada, TipoRedis, Nada, Str, Lista, Conjunto

(* The constructors of answers.                                            *)
LEMMA Respuestas ==
  /\ Ok \in Simples /\ Nil \in Simples /\ BulkNil \in Simples
  /\ WrongType \in Simples /\ NoEntero \in Simples /\ ErrBdd \in Simples
  /\ \A e \in Errores : Error(e) \in Simples
  /\ \A n \in Int : Entero(n) \in Simples
  /\ \A s \in Seq(Fragmentos) : Bulk(s) \in Simples /\ Simple(s) \in Simples
  /\ \A v \in TipoONada : TipoDe(v) \in Simples
  /\ \A rs \in Seq(Simples) : Vector(rs) \in ResultadoRedis
  /\ \A S \in SUBSET (Textos \cup Claves) : Miembros(S) \in ResultadoRedis
  /\ Simples \subseteq ResultadoRedis
<1>1. /\ Ok \in Simples /\ Nil \in Simples /\ BulkNil \in Simples
  BY DEF Simples
<1>2. \A e \in Errores : Error(e) \in Simples
  BY DEF Simples, Error
<1>3. WrongType \in Simples /\ NoEntero \in Simples /\ ErrBdd \in Simples
  BY <1>2 DEF WrongType, NoEntero, ErrBdd, Errores
<1>4. \A n \in Int : Entero(n) \in Simples
  BY DEF Simples, Entero
<1>5. \A s \in Seq(Fragmentos) : Bulk(s) \in Simples /\ Simple(s) \in Simples
  BY DEF Simples, Bulk, Simple
<1>6. \A v \in TipoONada : TipoDe(v) \in Simples
  BY DEF Simples, TipoDe
<1>7. \A rs \in Seq(Simples) : Vector(rs) \in ResultadoRedis
  BY DEF ResultadoRedis, Vector
<1>8. \A S \in SUBSET (Textos \cup Claves) : Miembros(S) \in ResultadoRedis
  BY DEF ResultadoRedis, Miembros
<1>9. Simples \subseteq ResultadoRedis
  BY DEF ResultadoRedis
<1> QED BY <1>1, <1>2, <1>3, <1>4, <1>5, <1>6, <1>7, <1>8, <1>9

(* The constructors of plans.                                              *)
LEMMA ConstructoresDePlan ==
  /\ \A r \in ResultadoRedis : Responde(r) \in Planes
  /\ \A x \in TipoONada, r \in ResultadoRedis :
       Escribe(x, r) \in Planes /\ Canjea(x, r) \in Planes
  /\ \A x \in TipoONada, n \in Nat, r \in ResultadoRedis : EscribeHasta(x, n, r) \in Planes
  /\ Panico \in Planes
<1> USE Valores, Respuestas DEF Planes, Plan, SinVida, Vidas
<1>1. \A r \in ResultadoRedis : Responde(r) \in Planes
  BY DEF Responde
<1>2. \A x \in TipoONada, r \in ResultadoRedis :
        Escribe(x, r) \in Planes /\ Canjea(x, r) \in Planes
  BY DEF Escribe, Canjea
<1>3. \A x \in TipoONada, n \in Nat, r \in ResultadoRedis : EscribeHasta(x, n, r) \in Planes
  BY DEF EscribeHasta
<1>4. Panico \in Planes
  BY DEF Panico
<1> QED BY <1>1, <1>2, <1>3, <1>4

-----------------------------------------------------------------------------
(* The string commands.                                                    *)
(* GET, GETDEL, STRLEN and LLEN plan well-formed answers for every value.  *)
LEMMA PlanesDeLectura ==
  ASSUME NEW v \in TipoONada
  PROVE  /\ PlanGet(v) \in Planes /\ PlanGetDel(v) \in Planes /\ PlanStrlen(v) \in Planes
         /\ PlanLLen(v) \in Planes
<1> USE TiposDeValor, Valores, Respuestas, ConstructoresDePlan
<1>1. CASE v.tipo = "Str"
  BY <1>1 DEF PlanGet, PlanGetDel, PlanStrlen, PlanLLen
<1>2. CASE v.tipo = "Lista"
  BY <1>2 DEF PlanGet, PlanGetDel, PlanStrlen, PlanLLen
<1>3. CASE v.tipo \notin {"Str", "Lista"}
  BY <1>3 DEF PlanGet, PlanGetDel, PlanStrlen, PlanLLen
<1> QED BY <1>1, <1>2, <1>3

(* GETSET and APPEND store a string, or refuse another type.               *)
LEMMA PlanesDeAppend ==
  ASSUME NEW v \in TipoONada, NEW x \in Textos
  PROVE  PlanAppend(v, x) \in Planes /\ PlanGetSet(v, x) \in Planes
<1>0. <<x>> \in Seq(Fragmentos)
  BY DEF Fragmentos
<1> USE TiposDeValor, Valores, Respuestas, ConstructoresDePlan
<1>1. CASE v.tipo = "Str"
  <2>1. Append(v.str, x) \in Seq(Fragmentos) /\ Len(v.str) + 1 \in Int
    BY <1>1 DEF Fragmentos
  <2> QED BY <1>0, <1>1, <2>1 DEF PlanAppend, PlanGetSet
<1>2. CASE v.tipo = "Nada"
  <2>0. /\ Str(<<x>>) \in TipoONada
        /\ Entero(1) \in ResultadoRedis /\ Nil \in ResultadoRedis
    <3>1. Str(<<x>>) \in TipoONada
      BY ONLY <1>0, Valores, Zenon
    <3>2. Entero(1) \in Simples
      BY DEF Simples, Entero
    <3> QED BY ONLY <3>1, <3>2, Respuestas
  <2>1. Escribe(Str(<<x>>), Entero(1)) \in Planes /\ Canjea(Str(<<x>>), Nil) \in Planes
    BY ONLY <2>0, ConstructoresDePlan
  <2> QED BY ONLY <1>2, <2>1 DEF PlanAppend, PlanGetSet
<1>3. CASE v.tipo \in {"Lista", "Set", "Canal"}
  BY <1>0, <1>3 DEF PlanAppend, PlanGetSet
<1> QED BY <1>1, <1>2, <1>3

(* SET with EX or PX stores no negative lifetime: a negative number is     *)
(* refused.                                                                *)
LEMMA PlanDeSetConVida ==
  ASSUME NEW ps \in Seq(Fragmentos), ps # <<>>, NEW w, NEW d \in {1, 1000}
  PROVE  PlanSetConVida(ps, w, d) \in Planes
<1> DEFINE resto == TrasElUltimo(ps, w)
           u == <<ps[1]>>
<1>0. u \in Seq(Fragmentos)
  OBVIOUS
<1> USE Valores, Respuestas, ConstructoresDePlan
<1> HIDE DEF resto, u
<1>1. CASE resto = <<>>
  BY <1>1 DEF PlanSetConVida, resto
<1>2. CASE resto # <<>> /\ resto[1] \notin Nat
  BY <1>2 DEF PlanSetConVida, resto
<1>3. CASE resto # <<>> /\ resto[1] \in Nat
  <2>1. resto[1] \div d \in Nat
    BY <1>3
  <2>2. EscribeHasta(Str(u), resto[1] \div d, Ok) \in Planes
    BY <1>0, <2>1
  <2> QED BY <1>3, <2>2 DEF PlanSetConVida, resto, u
<1> QED BY <1>1, <1>2, <1>3

(* SET with any parameters stores a string, refuses, or panics.            *)
LEMMA PlanDeSet ==
  ASSUME NEW ps \in Seq(Fragmentos), ps # <<>>
  PROVE  PlanSet(ps) \in Planes
<1>0. <<ps[1]>> \in Seq(Fragmentos)
  OBVIOUS
<1>1. /\ PlanSetConVida(ps, EX, 1) \in Planes
      /\ PlanSetConVida(ps, PX, 1000) \in Planes
  BY PlanDeSetConVida
<1>2. Escribe(Str(<<ps[1]>>), Ok) \in Planes
  BY <1>0, Valores, Respuestas, ConstructoresDePlan
<1>3. CASE Contains(ps, EX)
  BY <1>1, <1>3 DEF PlanSet
<1>4. CASE ~Contains(ps, EX) /\ Contains(ps, PX)
  BY <1>1, <1>4 DEF PlanSet
<1>5. CASE ~Contains(ps, EX) /\ ~Contains(ps, PX)
  BY <1>2, <1>5 DEF PlanSet
<1> QED BY <1>3, <1>4, <1>5

(* A sum that wraps is again an i32 (release build).                       *)
LEMMA EnvolverEnRango ==
  ASSUME NEW n \in Int
  PROVE  Envolver(n) \in Int
<1>1. MaxI32 - MinI32 + 1 \in Nat \ {0}
  BY BddAssumption
<1>2. n - MinI32 \in Int
  BY BddAssumption
<1>3. (n - MinI32) % (MaxI32 - MinI32 + 1) \in Int
  BY <1>1, <1>2
<1> QED BY <1>3, BddAssumption DEF Envolver

(* INCRBY and DECRBY store an i32, refuse, or panic, in both builds.       *)
LEMMA PlanDeOperar ==
  ASSUME NEW v \in TipoONada, NEW d \in I32 \cup {NoNumero}, NEW signo \in {1, -1}
  PROVE  PlanOperar(v, d, signo) \in Planes
<1> DEFINE s == IF v.tipo = "Nada" THEN <<0>> ELSE v.str
           n == s[1] + signo * d
<1> USE TiposDeValor, Valores, Respuestas, ConstructoresDePlan
<1>1. CASE v.tipo \notin {"Nada", "Str"}
  BY <1>1 DEF PlanOperar
<1>2. CASE v.tipo \in {"Nada", "Str"} /\ (~EsNumero(s) \/ d = NoNumero)
  BY <1>2 DEF PlanOperar
<1>3. CASE v.tipo \in {"Nada", "Str"} /\ EsNumero(s) /\ d # NoNumero
  <2>1. n \in Int
    <3>1. s[1] \in Int
      BY <1>3, BddAssumption DEF EsNumero, I32
    <3>2. d \in Int
      BY <1>3, BddAssumption DEF I32
    <3> QED BY <3>1, <3>2
  <2>2. \A m \in Int : Escribe(Str(<<m>>), Bulk(<<m>>)) \in Planes
    <3>1. \A m \in Int : <<m>> \in Seq(Fragmentos)
      BY DEF Fragmentos
    <3> QED BY <3>1
  <2>3. CASE n \in I32
    BY <1>3, <2>1, <2>2, <2>3 DEF PlanOperar
  <2>4. CASE n \notin I32 /\ Depuracion
    BY <1>3, <2>4 DEF PlanOperar
  <2>5. CASE n \notin I32 /\ ~Depuracion
    <3>1. Envolver(n) \in Int
      BY <2>1, EnvolverEnRango
    <3> QED BY <1>3, <2>2, <2>5, <3>1 DEF PlanOperar
  <2> QED BY <2>3, <2>4, <2>5
<1> QED BY <1>1, <1>2, <1>3

-----------------------------------------------------------------------------
(* The sequences the list commands work with.                              *)
LEMMA Secuencias ==
  ASSUME NEW T, NEW l \in Seq(T)
  PROVE  /\ Reverse(l) \in Seq(T) /\ Len(Reverse(l)) = Len(l)
         /\ \A n \in 0 .. Len(l) : SubSeq(l, 1, n) \in Seq(T) /\ SubSeq(l, n + 1, Len(l)) \in Seq(T)
         /\ \A i \in 0 .. Len(l) - 1 : l[i + 1] \in T
<1>1. Reverse(l) \in Seq(T) /\ Len(Reverse(l)) = Len(l)
  BY DEF Reverse
<1>2. ASSUME NEW n \in 0 .. Len(l)
      PROVE  SubSeq(l, 1, n) \in Seq(T) /\ SubSeq(l, n + 1, Len(l)) \in Seq(T)
  OBVIOUS
<1>3. \A i \in 0 .. Len(l) - 1 : l[i + 1] \in T
  OBVIOUS
<1> QED BY <1>1, <1>2, <1>3

(* The answers of the list commands that carry elements.                   *)
LEMMA RespuestasDeLista ==
  /\ \A x \in Textos : BulkDe(x) \in Simples
  /\ \A l \in Seq(Textos) : VectorDe(l) \in ResultadoRedis
  /\ Vector(<<>>) \in ResultadoRedis
  /\ \A l \in Seq(Textos) : ListaONada(l) \in TipoONada
<1>1. \A x \in Textos : BulkDe(x) \in Simples
  <2>1. \A x \in Textos : <<x>> \in Seq(Fragmentos)
    BY DEF Fragmentos
  <2> QED BY <2>1, Respuestas DEF BulkDe
<1>2. ASSUME NEW l \in Seq(Textos) PROVE VectorDe(l) \in ResultadoRedis
  <2>1. \A i \in 1 .. Len(l) : BulkDe(l[i]) \in Simples
    BY <1>1
  <2>2. [i \in 1 .. Len(l) |-> BulkDe(l[i])] \in Seq(Simples)
    BY <2>1
  <2> QED BY <2>2, Respuestas DEF VectorDe
<1>3. Vector(<<>>) \in ResultadoRedis
  <2>1. <<>> \in Seq(Simples)
    OBVIOUS
  <2> QED BY <2>1, Respuestas
<1>4. \A l \in Seq(Textos) : ListaONada(l) \in TipoONada
  BY Valores DEF ListaONada
<1> QED BY <1>1, <1>2, <1>3, <1>4

(* LINDEX answers one element, nothing or an error for every index.        *)
LEMMA PlanDeLIndex ==
  ASSUME NEW v \in TipoONada, NEW i \in I32 \cup {NoNumero}
  PROVE  PlanLIndex(v, i) \in Planes
<1> DEFINE l == v.lista
<1> USE Respuestas, ConstructoresDePlan
<1>1. CASE v.tipo # "Lista"
  BY <1>1 DEF PlanLIndex
<1>2. CASE v.tipo = "Lista" /\ i = NoNumero
  BY <1>2 DEF PlanLIndex
<1>3. CASE v.tipo = "Lista" /\ i # NoNumero
  <2>1. i \in Int /\ l \in Seq(Textos)
    BY <1>3, TiposDeValor, BddAssumption DEF I32
  <2>2. CASE EstaEnRango(i, Len(l))
    <3>1. BulkDe(l[i + 1]) \in Simples
      BY <2>1, <2>2, RespuestasDeLista DEF EstaEnRango
    <3> QED BY <1>3, <2>1, <2>2, <3>1 DEF PlanLIndex, EstaEnRango
  <2>3. CASE i < 0 /\ Len(l) + i >= 0
    <3>1. BulkDe(l[Len(l) + i + 1]) \in Simples
      BY <2>1, <2>3, RespuestasDeLista
    <3> QED BY <1>3, <2>1, <2>3, <3>1 DEF PlanLIndex, EstaEnRango
  <2>4. CASE ~EstaEnRango(i, Len(l)) /\ ~(i < 0 /\ Len(l) + i >= 0)
    BY <1>3, <2>4 DEF PlanLIndex
  <2> QED BY <2>2, <2>3, <2>4
<1> QED BY <1>1, <1>2, <1>3

(* What pop takes from the list and what it leaves are both lists of       *)
(* texts.                                                                  *)
LEMMA PartesDeSacar ==
  ASSUME NEW l \in Seq(Textos), NEW n \in 0 .. Len(l), NEW alFinal \in BOOLEAN
  PROVE  /\ Sacar(l, n, alFinal).sacados \in Seq(Textos)
         /\ Sacar(l, n, alFinal).resto \in Seq(Textos)
<1> DEFINE m == IF alFinal THEN Reverse(l) ELSE l
<1>1. m \in Seq(Textos) /\ Len(m) = Len(l)
  BY Secuencias
<1>2. SubSeq(m, 1, n) \in Seq(Textos) /\ SubSeq(m, n + 1, Len(m)) \in Seq(Textos)
  BY <1>1, Secuencias
<1>3. \A s \in Seq(Textos) : Reverse(s) \in Seq(Textos)
  BY Secuencias
<1> QED BY <1>2, <1>3 DEF Sacar

(* LPOP and RPOP leave a list or remove the key, for every count.          *)
LEMMA PlanDePop ==
  ASSUME NEW v \in TipoONada, NEW n \in Nat, NEW alFinal \in BOOLEAN
  PROVE  PlanPop(v, n, alFinal) \in Planes
<1> DEFINE p == Sacar(v.lista, n, alFinal)
           r == IF Len(p.sacados) = 1 THEN BulkDe(p.sacados[1]) ELSE VectorDe(p.sacados)
<1>1. CASE v.tipo = "Nada"
  BY <1>1, Respuestas, ConstructoresDePlan DEF PlanPop
<1>2. CASE v.tipo \notin {"Nada", "Lista"}
  BY <1>2, Respuestas, ConstructoresDePlan DEF PlanPop
<1>3. CASE v.tipo = "Lista" /\ n > Len(v.lista)
  BY <1>3, ConstructoresDePlan, TiposDeValor DEF PlanPop
<1>4. CASE v.tipo = "Lista" /\ n <= Len(v.lista)
  <2>1. n \in 0 .. Len(v.lista) /\ v.lista \in Seq(Textos)
    BY <1>4, TiposDeValor
  <2>2. p.sacados \in Seq(Textos) /\ p.resto \in Seq(Textos)
    BY <2>1, PartesDeSacar
  <2> HIDE DEF p
  <2>3. r \in ResultadoRedis
    BY <2>2, Respuestas, RespuestasDeLista
  <2>4. Escribe(ListaONada(p.resto), r) \in Planes
    BY <2>2, <2>3, RespuestasDeLista, ConstructoresDePlan
  <2>5. PlanPop(v, n, alFinal) = Escribe(ListaONada(p.resto), r)
    BY <1>4, <2>1 DEF PlanPop, p
  <2> QED BY <2>4, <2>5
<1> QED BY <1>1, <1>2, <1>3, <1>4, TiposDeValor

(* The four pushes store a list, or only answer.                           *)
LEMMA PlanDePush ==
  ASSUME NEW v \in TipoONada, NEW ps \in Seq(Textos),
         NEW alFinal \in BOOLEAN, NEW crear \in BOOLEAN
  PROVE  PlanPush(v, ps, alFinal, crear) \in Planes
<1> DEFINE l0 == IF v.tipo = "Nada" THEN <<>> ELSE v.lista
           l == Empujar(l0, ps, alFinal)
<1>1. CASE v.tipo = "Nada" /\ ~crear
  BY <1>1, Respuestas, ConstructoresDePlan DEF PlanPush
<1>2. CASE v.tipo \notin {"Nada", "Lista"}
  BY <1>2, Respuestas, ConstructoresDePlan DEF PlanPush
<1>3. CASE v.tipo \in {"Nada", "Lista"} /\ ~(v.tipo = "Nada" /\ ~crear)
  <2>1. l0 \in Seq(Textos)
    BY <1>3, TiposDeValor
  <2>2. l \in Seq(Textos)
    <3> HIDE DEF l0
    <3>1. Reverse(ps) \in Seq(Textos)
      BY Secuencias
    <3> QED BY <2>1, <3>1 DEF Empujar
  <2>3. Escribe(Lista(l), Entero(Len(l))) \in Planes
    <3> HIDE DEF l
    <3>1. Len(l) \in Int
      BY <2>2
    <3> QED BY <2>2, <3>1, Valores, Respuestas, ConstructoresDePlan
  <2>4. PlanPush(v, ps, alFinal, crear) = Escribe(Lista(l), Entero(Len(l)))
    BY <1>3 DEF PlanPush
  <2> QED BY <2>3, <2>4
<1> QED BY <1>1, <1>2, <1>3

(* LRANGE answers a vector, or panics, for every pair of i32 indices.      *)
LEMMA PlanDeLRange ==
  ASSUME NEW v \in TipoONada, NEW i \in I32, NEW j \in I32
  PROVE  PlanLRange(v, i, j) \in Planes
<1> DEFINE l == v.lista
           a == IndiceInferior(i, Len(l))
           b == IndiceSuperior(j, Len(l))
<1> USE Respuestas, RespuestasDeLista, ConstructoresDePlan
<1>1. CASE v.tipo = "Nada"
  BY <1>1 DEF PlanLRange
<1>2. CASE v.tipo \notin {"Nada", "Lista"}
  BY <1>2 DEF PlanLRange
<1>3. CASE v.tipo = "Lista"
  <2>0. l \in Seq(Textos) /\ Len(l) \in Nat
    BY <1>3, TiposDeValor
  <2>1. i \in Int /\ j \in Int
    BY BddAssumption DEF I32
  <2>2. a = NoHay \/ a \in 0 .. Len(l)
    BY <2>0, <2>1 DEF IndiceInferior, EstaEnRango
  <2>3. b = NoHay \/ b \in -1 .. Len(l) - 1
    BY <2>0, <2>1 DEF IndiceSuperior, EstaEnRango
  <2> HIDE DEF a, b
  <2>4. CASE NoHay \in {a, b}
    BY <1>3, <2>4 DEF PlanLRange, a, b
  <2>5. CASE NoHay \notin {a, b} /\ b = -1
    BY <1>3, <2>5, StringAssumption DEF PlanLRange, a, b
  <2>6. CASE NoHay \notin {a, b} /\ b # -1
    <3>1. a \in Nat /\ b \in 0 .. Len(l) - 1
      BY <2>0, <2>2, <2>3, <2>6
    <3>2. SubSeq(l, a + 1, b + 1) \in Seq(Textos)
      BY <2>0, <3>1
    <3>3. PlanLRange(v, i, j) = Responde(VectorDe(SubSeq(l, a + 1, b + 1)))
      BY <1>3, <2>6 DEF PlanLRange, a, b
    <3> QED BY <3>2, <3>3
  <2> QED BY <2>4, <2>5, <2>6
<1> QED BY <1>1, <1>2, <1>3

(* The subsequence of l at the positions Q.                                *)
LEMMA SubsecuenciaElegida ==
  ASSUME NEW l \in Seq(Textos), NEW Q \in SUBSET DOMAIN l
  PROVE  Elegidos(l, Q) \in Seq(Textos) /\ Cardinality(Q) \in Nat
<1>1. DOMAIN l = 1 .. Len(l) /\ Len(l) \in Nat
  OBVIOUS
<1>2. IsFiniteSet(DOMAIN l)
  BY <1>1, FS_Interval
<1>3. IsFiniteSet(Q) /\ Cardinality(Q) \in Nat
  BY <1>2, FS_Subset, FS_CardinalityType
<1>4. ASSUME NEW i \in 1 .. Cardinality(Q)
      PROVE  l[CHOOSE j \in DOMAIN l : (\E h \in Q : Puesto(Q, h) = i)
                                         => j \in Q /\ Puesto(Q, j) = i] \in Textos
  <2>1. Q # {}
    <3>1. Cardinality({}) = 0
      BY FS_EmptySet
    <3>2. SUFFICES ASSUME Q = {} PROVE FALSE
      OBVIOUS
    <3>3. Cardinality(Q) = 0
      BY <3>1, <3>2
    <3> QED BY <1>4, <3>3
  <2>2. \E j \in DOMAIN l : (\E h \in Q : Puesto(Q, h) = i)
                              => j \in Q /\ Puesto(Q, j) = i
    <3>1. CASE \E h \in Q : Puesto(Q, h) = i
      BY <3>1
    <3>2. CASE ~(\E h \in Q : Puesto(Q, h) = i)
      BY <2>1, <3>2
    <3> QED BY <3>1, <3>2
  <2> DEFINE k == CHOOSE j \in DOMAIN l : (\E h \in Q : Puesto(Q, h) = i)
                                            => j \in Q /\ Puesto(Q, j) = i
  <2>3. k \in DOMAIN l
    BY <2>2, Zenon
  <2> HIDE DEF k
  <2>4. l[k] \in Textos
    BY <1>1, <2>3
  <2> QED BY <2>4 DEF k
<1> DEFINE f == [i \in 1 .. Cardinality(Q) |->
                  l[CHOOSE j \in DOMAIN l : (\E h \in Q : Puesto(Q, h) = i)
                                              => j \in Q /\ Puesto(Q, j) = i]]
<1>5. f \in [1 .. Cardinality(Q) -> Textos]
  BY <1>4, Zenon
<1>6. Elegidos(l, Q) = f
  BY Zenon DEF Elegidos
<1> HIDE DEF f
<1>7. f \in Seq(Textos)
  BY <1>3, <1>5
<1> QED BY <1>3, <1>6, <1>7

(* LREM leaves a list of texts for every count and element.                *)
LEMMA PlanDeLRem ==
  ASSUME NEW v \in TipoONada, NEW i \in I32, NEW x \in Textos
  PROVE  PlanLRem(v, i, x) \in Planes
<1> DEFINE n == IF i < 0 /\ i # MinI32 THEN -i ELSE i
           l == IF i < 0 THEN Reverse(v.lista) ELSE v.lista
           fuera == Borrados(l, n, x)
           quedan == Elegidos(l, DOMAIN l \ fuera)
           final == IF i < 0 THEN Reverse(quedan) ELSE quedan
<1>1. CASE v.tipo = "Nada"
  BY <1>1, Respuestas, ConstructoresDePlan DEF PlanLRem
<1>2. CASE v.tipo \notin {"Nada", "Lista"}
  BY <1>2, Respuestas, ConstructoresDePlan DEF PlanLRem
<1>3. CASE v.tipo = "Lista"
  <2>1. l \in Seq(Textos)
    BY <1>3, TiposDeValor, Secuencias
  <2> HIDE DEF l
  <2>2. fuera \in SUBSET DOMAIN l
    BY DEF Borrados
  <2> HIDE DEF fuera
  <2>3. quedan \in Seq(Textos) /\ Cardinality(fuera) \in Nat
    BY <2>1, <2>2, SubsecuenciaElegida
  <2> HIDE DEF quedan
  <2>4. final \in Seq(Textos)
    BY <2>3, Secuencias
  <2> HIDE DEF final
  <2>5. Escribe(ListaONada(final), Entero(Cardinality(fuera))) \in Planes
    <3>1. Entero(Cardinality(fuera)) \in ResultadoRedis
      BY <2>3, Respuestas
    <3> QED BY <2>4, <3>1, RespuestasDeLista, ConstructoresDePlan
  <2>6. CASE i = MinI32 /\ Depuracion
    BY <1>3, <2>6, ConstructoresDePlan DEF PlanLRem
  <2>7. CASE ~(i = MinI32 /\ Depuracion)
    <3>1. PlanLRem(v, i, x) = Escribe(ListaONada(final), Entero(Cardinality(fuera)))
      BY <1>3, <2>7 DEF PlanLRem, final, quedan, fuera, l
    <3> QED BY <2>5, <3>1
  <2> QED BY <2>6, <2>7
<1> QED BY <1>1, <1>2, <1>3

(* LSET leaves a list of texts for every index that it accepts.            *)
LEMMA PlanDeLSet ==
  ASSUME NEW v \in TipoONada, NEW i \in I32, NEW x \in Textos
  PROVE  PlanLSet(v, i, x) \in Planes
<1> DEFINE l == IF v.tipo = "Nada" THEN <<>> ELSE v.lista
           dentro == v.tipo \in {"Nada", "Lista"}
<1>0. i \in Int
  BY BddAssumption DEF I32
<1>1. CASE ~dentro
  BY <1>1, Respuestas, ConstructoresDePlan DEF PlanLSet
<1>2. CASE dentro
  <2>1. l \in Seq(Textos) /\ Len(l) \in Nat
    BY <1>2, TiposDeValor
  <2>2. ASSUME NEW m \in 0 .. Len(l) - 1
        PROVE  Escribe(Lista(Insertar(l, m, x)), Ok) \in Planes
    <3> HIDE DEF l
    <3>1. /\ SubSeq(l, 1, m) \in Seq(Textos) /\ <<x>> \in Seq(Textos)
          /\ SubSeq(l, m + 1, Len(l)) \in Seq(Textos)
      BY <2>1
    <3>2. Insertar(l, m, x) \in Seq(Textos)
      BY <3>1 DEF Insertar
    <3> QED BY <3>2, Valores, Respuestas, ConstructoresDePlan
  <2>3. CASE EstaEnRango(i, Len(l))
    <3>1. PlanLSet(v, i, x) = Escribe(Lista(Insertar(l, i, x)), Ok)
      BY <1>0, <1>2, <2>1, <2>3 DEF PlanLSet, EstaEnRango
    <3> QED BY <1>0, <2>1, <2>2, <2>3, <3>1 DEF EstaEnRango
  <2>4. CASE i < 0 /\ Len(l) + i >= 0
    <3>1. PlanLSet(v, i, x) = Escribe(Lista(Insertar(l, Len(l) + i, x)), Ok)
      BY <1>0, <1>2, <2>1, <2>4 DEF PlanLSet, EstaEnRango
    <3>2. Len(l) + i \in 0 .. Len(l) - 1
      BY <1>0, <2>1, <2>4
    <3> QED BY <2>2, <3>1, <3>2
  <2>5. CASE ~EstaEnRango(i, Len(l)) /\ ~(i < 0 /\ Len(l) + i >= 0)
    BY <1>2, <2>5, Respuestas, ConstructoresDePlan DEF PlanLSet
  <2> QED BY <2>3, <2>4, <2>5
<1> QED BY <1>1, <1>2

-----------------------------------------------------------------------------
(* The set commands.                                                       *)
(* The sets stored are finite, so that HashSet::len is a number.           *)
LEMMA Cardinales ==
  ASSUME NEW S \in SUBSET Textos
  PROVE  Cardinality(S) \in Nat
BY BddAssumption, FS_Subset, FS_CardinalityType

(* The answers and values of the set commands.                             *)
LEMMA RespuestasDeConjunto ==
  ASSUME NEW S \in SUBSET Textos, NEW R \in SUBSET Textos
  PROVE  /\ Escribe(Conjunto(S), Entero(Cardinality(R))) \in Planes
         /\ Responde(Entero(Cardinality(R))) \in Planes
         /\ Responde(Miembros(S)) \in Planes
<1>1. Cardinality(R) \in Int
  BY Cardinales
<1>2. Entero(Cardinality(R)) \in ResultadoRedis /\ Miembros(S) \in ResultadoRedis
  BY <1>1, Respuestas
<1> QED BY <1>2, Valores, ConstructoresDePlan

(* SADD and SREM store a set of texts, or refuse another type.             *)
LEMMA PlanesDeConjunto ==
  ASSUME NEW v \in TipoONada, NEW ps \in Seq(Textos)
  PROVE  PlanSAdd(v, ps) \in Planes /\ PlanSRem(v, ps) \in Planes
<1>0. ToSet(ps) \in SUBSET Textos
  BY DEF ToSet
<1>1. CASE v.tipo = "Nada"
  <2>1. PlanSAdd(v, ps) \in Planes
    BY <1>0, <1>1, RespuestasDeConjunto DEF PlanSAdd
  <2>2. PlanSRem(v, ps) \in Planes
    BY <1>1, Respuestas, ConstructoresDePlan DEF PlanSRem
  <2> QED BY <2>1, <2>2
<1>2. CASE v.tipo = "Set"
  <2>1. v.set \in SUBSET Textos
    BY <1>2, TiposDeValor
  <2>2. PlanSAdd(v, ps) \in Planes
    BY <1>0, <1>2, <2>1, RespuestasDeConjunto DEF PlanSAdd
  <2>3. PlanSRem(v, ps) \in Planes
    BY <1>0, <1>2, <2>1, RespuestasDeConjunto DEF PlanSRem
  <2> QED BY <2>2, <2>3
<1>3. CASE v.tipo \notin {"Nada", "Set"}
  BY <1>3, Respuestas, ConstructoresDePlan DEF PlanSAdd, PlanSRem
<1> QED BY <1>1, <1>2, <1>3

(* SCARD, SMEMBERS and SISMEMBER plan well-formed answers.                 *)
LEMMA PlanesDeConsulta ==
  ASSUME NEW v \in TipoONada
  PROVE  /\ PlanSCard(v) \in Planes /\ PlanSMembers(v) \in Planes
         /\ \A ps \in UnoONinguno : PlanSIsMember(v, ps) \in Planes
<1>1. CASE v.tipo = "Set"
  <2>1. v.set \in SUBSET Textos
    BY <1>1, TiposDeValor
  <2>2. PlanSCard(v) \in Planes /\ PlanSMembers(v) \in Planes
    BY <1>1, <2>1, RespuestasDeConjunto DEF PlanSCard, PlanSMembers
  <2>3. \A ps \in UnoONinguno : PlanSIsMember(v, ps) \in Planes
    BY <1>1, Respuestas, ConstructoresDePlan DEF PlanSIsMember
  <2> QED BY <2>2, <2>3
<1>2. CASE v.tipo = "Nada"
  <2>1. PlanSCard(v) \in Planes /\ \A ps \in UnoONinguno : PlanSIsMember(v, ps) \in Planes
    BY <1>2, Respuestas, ConstructoresDePlan DEF PlanSCard, PlanSIsMember
  <2>2. PlanSMembers(v) \in Planes
    BY <1>2, RespuestasDeConjunto DEF PlanSMembers
  <2> QED BY <2>1, <2>2
<1>3. CASE v.tipo \notin {"Nada", "Set"}
  BY <1>3, Respuestas, ConstructoresDePlan DEF PlanSCard, PlanSIsMember, PlanSMembers
<1> QED BY <1>1, <1>2, <1>3

-----------------------------------------------------------------------------
(* The operations of the table.                                            *)

(* The constructors of Valor.                                              *)
LEMMA ValoresDeTabla ==
  /\ Ausente \in Valor
  /\ \A x \in TipoONada : NoExpirable(x) \in Valor
  /\ \A x \in TipoONada, n \in Nat, t \in Nat : Expirable(x, n, t) \in Valor
<1>1. \A x \in TipoONada : NoExpirable(x) \in Valor
  BY DEF NoExpirable, Valor, Vidas, SinVida
<1>2. \A x \in TipoONada, n \in Nat, t \in Nat : Expirable(x, n, t) \in Valor
  BY DEF Expirable, Valor, Vidas
<1> QED BY <1>1, <1>2, Valores DEF Ausente

(* What obtener_valor and obtener_expiracion return from a well-formed     *)
(* table.                                                                  *)
LEMMA LecturaTipada ==
  ASSUME NEW T \in Tablas, NEW k \in Claves, NEW t \in Nat
  PROVE  /\ ObtenerValor(T, k, t) \in TipoONada
         /\ T[k].valor \in TipoONada
         /\ ObtenerExpiracion(T, k) \in Int
         /\ \/ ObtenerValor(T, k, t) = T[k].valor
            \/ ObtenerValor(T, k, t) = Nada /\ Expiro(T[k], t)
<1>1. T[k] \in Valor
  BY DEF Tablas
<1>2. T[k].valor \in TipoONada /\ T[k].vida \in Int
  BY <1>1 DEF Valor, Vidas, SinVida
<1> QED BY <1>2, Valores DEF ObtenerValor, ObtenerExpiracion, Get

(* The table operations on one key leave a well-formed table.              *)
LEMMA EscrituraTipada ==
  ASSUME NEW T \in Tablas, NEW k \in Claves, NEW t \in Nat, NEW x \in TipoONada, NEW n \in Nat
  PROVE  /\ GuardarValor(T, k, x) \in Tablas
         /\ GuardarValorConExpiracion(T, k, n, x, t) \in Tablas
         /\ EliminarClave(T, k) \in Tablas
         /\ ActualizarValorConExpiracion(T, k, n, t) \in Tablas
         /\ ActualizarValorSinExpiracion(T, k) \in Tablas
<1>1. /\ NoExpirable(x) \in Valor /\ Expirable(x, n, t) \in Valor /\ Ausente \in Valor
      /\ Expirable(T[k].valor, n, t) \in Valor /\ NoExpirable(T[k].valor) \in Valor
  BY LecturaTipada, ValoresDeTabla
<1>2. \A w \in Valor : [T EXCEPT ![k] = w] \in Tablas
  BY DEF Tablas
<1>3. /\ GuardarValor(T, k, x) \in Tablas
      /\ GuardarValorConExpiracion(T, k, n, x, t) \in Tablas
      /\ EliminarClave(T, k) \in Tablas
  BY <1>1, <1>2, Zenon DEF GuardarValor, GuardarValorConExpiracion, EliminarClave
<1>4. /\ ActualizarValorConExpiracion(T, k, n, t) \in Tablas
      /\ ActualizarValorSinExpiracion(T, k) \in Tablas
  BY <1>1, <1>2, Zenon DEF ActualizarValorConExpiracion, ActualizarValorSinExpiracion
<1> QED BY <1>3, <1>4

(* copiar_valor leaves a well-formed table.                                *)
LEMMA CopiaTipada ==
  ASSUME NEW T \in Tablas, NEW k \in Claves, NEW a \in Claves, NEW t \in Nat
  PROVE  CopiarValor(T, k, a, t) \in Tablas
<1>1. ObtenerValor(T, k, t) \in TipoONada
  BY LecturaTipada
<1>2. GuardarValor(T, a, ObtenerValor(T, k, t)) \in Tablas
  BY <1>1, EscrituraTipada
<1> QED BY <1>2 DEF CopiarValor

(* A non-empty set of naturals up to n has a maximum.                      *)
LEMMA Maximo ==
  ASSUME NEW n \in Nat, NEW S \in SUBSET (0 .. n), S # {}
  PROVE  \E i \in S : \A j \in S : j <= i
<1> DEFINE R == OpToRel(<, Nat)
           D == {n - i : i \in S}
<1>1. IsWellFoundedOn(R, Nat)
  BY NatLessThanWellFounded
<1>2. \A x, y \in Nat : x < y => <<x, y>> \in R
  BY DEF OpToRel
<1> HIDE DEF R
<1>3. D \subseteq Nat /\ D # {}
  <2>1. \A i \in S : n - i \in Nat
    OBVIOUS
  <2> QED BY <2>1, Zenon
<1>4. \E x \in D : \A y \in D : ~(<<y, x>> \in R)
  <2> HIDE DEF D
  <2> QED BY <1>1, <1>3, WFMin
<1>5. PICK x \in D : \A y \in D : ~(y < x)
  BY <1>2, <1>3, <1>4
<1>6. PICK i \in S : x = n - i
  BY <1>5
<1>7. ASSUME NEW j \in S
      PROVE  j <= i
  <2>1. n - j \in D
    OBVIOUS
  <2>2. ~(n - j < x)
    BY <1>5, <2>1
  <2> QED BY <1>6, <2>2
<1> QED BY <1>7

(* MSET leaves a well-formed table.                                        *)
LEMMA GuardarValoresTipada ==
  ASSUME NEW T \in Tablas, NEW ps \in Seq(Claves)
  PROVE  GuardarValores(T, ps) \in Tablas
<1> DEFINE usos(k) == {i \in 1 .. Len(ps) - 1 : ps[i] = k}
           ultimo(k) == CHOOSE i \in usos(k) : \A j \in usos(k) : j <= i
<1>1. ASSUME NEW k \in Claves, usos(k) # {}
      PROVE  NoExpirable(Str(<<ps[ultimo(k) + 1]>>)) \in Valor
  <2>1. usos(k) \in SUBSET (0 .. Len(ps)) /\ Len(ps) \in Nat
    OBVIOUS
  <2>2. \E i \in usos(k) : \A j \in usos(k) : j <= i
    <3> HIDE DEF usos
    <3> QED BY <1>1, <2>1, Maximo
  <2>3. ultimo(k) \in usos(k)
    BY <2>2, Zenon
  <2> HIDE DEF ultimo
  <2>4. ps[ultimo(k) + 1] \in Claves
    BY <2>3
  <2>5. <<ps[ultimo(k) + 1]>> \in Seq(Fragmentos)
    BY <2>4 DEF Fragmentos
  <2> QED BY <2>5, Valores, ValoresDeTabla
<1>2. \A k \in Claves : T[k] \in Valor
  BY DEF Tablas
<1>3. [k \in Claves |-> IF usos(k) = {} THEN T[k]
                         ELSE NoExpirable(Str(<<ps[ultimo(k) + 1]>>))] \in [Claves -> Valor]
  BY <1>1, <1>2, Zenon
<1> QED BY <1>3, Zenon DEF GuardarValores, Tablas

(* A plan changes the table at its own key at most.                        *)
LEMMA AplicarTipado ==
  ASSUME NEW T \in Tablas, NEW k \in Claves, NEW p \in Planes, NEW t \in Nat
  PROVE  /\ Aplicar(T, k, p, t) \in Tablas
         /\ \A j \in Claves \ {k} : Aplicar(T, k, p, t)[j] = T[j]
<1>1. p.nuevo \in TipoONada /\ (p.vida # SinVida => p.vida \in Nat)
  BY Valores DEF Planes, Vidas
<1>2. CASE p.nuevo = Nada /\ p.accion = "escribir"
  <2>1. Aplicar(T, k, p, t) = EliminarClave(T, k)
    BY <1>2 DEF Aplicar
  <2> QED BY <1>1, <2>1, EscrituraTipada DEF EliminarClave, Tablas
<1>3. CASE p.nuevo # Nada /\ p.vida = SinVida
  <2>1. Aplicar(T, k, p, t) = GuardarValor(T, k, p.nuevo)
    BY <1>3 DEF Aplicar
  <2> QED BY <1>1, <2>1, EscrituraTipada DEF GuardarValor, Tablas
<1>4. CASE p.nuevo # Nada /\ p.vida # SinVida
  <2>1. Aplicar(T, k, p, t) = GuardarValorConExpiracion(T, k, p.vida, p.nuevo, t)
    BY <1>4 DEF Aplicar
  <2> QED BY <1>1, <1>4, <2>1, EscrituraTipada DEF GuardarValorConExpiracion, Tablas
<1>5. CASE p.nuevo = Nada /\ p.accion # "escribir"
  <2>1. Aplicar(T, k, p, t) = T
    BY <1>5 DEF Aplicar
  <2> QED BY <2>1
<1> QED BY <1>2, <1>3, <1>4, <1>5

(* FLUSHDB leaves a well-formed table.                                     *)
LEMMA VaciaTipada == BorrarClaves \in Tablas
<1>1. Ausente \in Valor
  BY ValoresDeTabla
<1> QED BY <1>1 DEF BorrarClaves, Tablas

(* DBSIZE answers a number.                                                *)
LEMMA CantidadTipada ==
  ASSUME NEW T \in Tablas
  PROVE  CantidadClaves(T) \in Nat /\ Presentes(T) \in SUBSET Claves
<1>1. Presentes(T) \in SUBSET Claves
  BY DEF Presentes
<1>2. IsFiniteSet(Presentes(T))
  BY <1>1, BddAssumption, FS_Subset
<1> QED BY <1>1, <1>2, FS_CardinalityType DEF CantidadClaves

-----------------------------------------------------------------------------
(* The invariant.                                                          *)

(* A command in progress goes on with keys its client may use.             *)
EnCurso(c) ==
  /\ fase[c] \in {"escribir", "borrar", "expirar"} => pend[c].clave \in Permitidas[c]
  /\ fase[c] = "expirar" => "EXPIREAT" \in Comandos[c]
  /\ fase[c] = "multiple" => ToSet(pend[c].faltan) \subseteq Permitidas[c]

Inv == TypeOK /\ \A c \in Clientes : EnCurso(c)

(* The client uses a command that does not notify the observers.           *)
Callado(c) == Comandos[c] \cap {"GETSET", "EXPIRE", "EXPIREAT", "PERSIST"} # {}

(* Some SET panics inside its section.                                     *)
SetMuere == \E ps \in Pedidos : PlanSet(ps).accion = "panico"

Paso(c) ==
  /\ TypeOK'
  /\ EnCurso(c)'
  /\ ahora' = ahora
  /\ \A d \in Clientes \ {c} : fase'[d] = fase[d] /\ pend'[d] = pend[d]
  /\ \A k \in Claves \ Permitidas[c] : tabla'[k] = tabla[k]
  /\ fase'[c] = "escribir" => /\ tabla' = tabla
                              /\ pend'[c].leido = Leido(pend'[c].clave)
  /\ envenenado => envenenado' /\ UNCHANGED <<tabla, enviado>>
  /\ envenenado' = envenenado \/ SetMuere
  /\ UNCHANGED <<tabla, enviado>> \/ enviado' = tabla' \/ Callado(c)

-----------------------------------------------------------------------------
(* The forms of a section.                                                 *)

(* A thread that moves to a phase with what the phase needs stays well     *)
(* formed, and no other thread moves.                                      *)
LEMMA PasarTipado ==
  ASSUME TipoLocal, NEW c \in Clientes, NEW f \in Fases, NEW p \in PendDe(f),
         NEW r \in ResultadoRedis, Pasar(c, f, p, r)
  PROVE  /\ TipoLocal'
         /\ fase'[c] = f /\ pend'[c] = p /\ resp'[c] = r
         /\ \A d \in Clientes \ {c} : fase'[d] = fase[d] /\ pend'[d] = pend[d]
<1>1. p \in Pendientes
  BY DEF PendDe, Pendientes
<1>2. /\ fase \in [Clientes -> Fases] /\ pend \in [Clientes -> Pendientes]
      /\ resp \in [Clientes -> ResultadoRedis]
      /\ fase' = [fase EXCEPT ![c] = f] /\ pend' = [pend EXCEPT ![c] = p]
      /\ resp' = [resp EXCEPT ![c] = r]
  BY DEF TipoLocal, Pasar
<1>3. /\ fase' \in [Clientes -> Fases] /\ pend' \in [Clientes -> Pendientes]
      /\ resp' \in [Clientes -> ResultadoRedis]
  BY <1>1, <1>2
<1>4. /\ fase'[c] = f /\ pend'[c] = p /\ resp'[c] = r
      /\ \A d \in Clientes \ {c} : fase'[d] = fase[d] /\ pend'[d] = pend[d]
  BY <1>2
<1>5. \A d \in Clientes : pend'[d] \in PendDe(fase'[d])
  BY <1>4 DEF TipoLocal
<1> QED BY <1>3, <1>4, <1>5 DEF TipoLocal

(* Answering, or dying, ends the command of that thread only.              *)
LEMMA ResponderTipado ==
  ASSUME TipoLocal, NEW c \in Clientes, NEW r \in ResultadoRedis,
         Responder(c, r) \/ (Morir(c) /\ r = Nil)
  PROVE  /\ TipoLocal'
         /\ fase'[c] \in {"libre", "muerto"}
         /\ \A d \in Clientes \ {c} : fase'[d] = fase[d] /\ pend'[d] = pend[d]
<1>1. /\ SinPend \in PendDe("libre") /\ SinPend \in PendDe("muerto")
      /\ "libre" \in Fases /\ "muerto" \in Fases
  BY DEF PendDe, Fases
<1>2. CASE Responder(c, r)
  BY <1>1, <1>2, PasarTipado DEF Responder
<1>3. CASE Morir(c) /\ r = Nil
  BY <1>1, <1>3, PasarTipado DEF Morir, SinRespuesta
<1> QED BY <1>2, <1>3

(* A section that answers, changes no key but the client's own and either  *)
(* notifies the table it leaves or leaves it alone.                        *)
LEMMA SeccionEsPaso ==
  ASSUME Inv, NEW c \in Clientes, NEW T \in Tablas, NEW E \in Tablas,
         NEW r \in ResultadoRedis, Seccion(c, T, E, r),
         ~envenenado => /\ \A k \in Claves \ Permitidas[c] : T[k] = tabla[k]
                        /\ E = T \/ (T = tabla /\ E = enviado) \/ Callado(c)
  PROVE  Paso(c)
<1>0. TipoLocal /\ TipoCompartido
  BY DEF Inv, TypeOK
<1>1. TipoLocal' /\ fase'[c] \in {"libre", "muerto"}
      /\ \A d \in Clientes \ {c} : fase'[d] = fase[d] /\ pend'[d] = pend[d]
  <2>1. ErrBdd \in ResultadoRedis
    BY Respuestas
  <2>2. CASE envenenado
    BY <1>0, <2>1, <2>2, ResponderTipado DEF Seccion
  <2>3. CASE ~envenenado
    BY <1>0, <2>3, ResponderTipado DEF Seccion
  <2> QED BY <2>2, <2>3
<1>2. TipoCompartido'
  BY <1>0 DEF Seccion, TipoCompartido
<1>3. EnCurso(c)'
  BY <1>1 DEF EnCurso
<1>4. CASE envenenado
  BY <1>1, <1>2, <1>3, <1>4 DEF Paso, Seccion, TypeOK
<1>5. CASE ~envenenado
  BY <1>1, <1>2, <1>3, <1>5 DEF Paso, Seccion, TypeOK
<1> QED BY <1>4, <1>5

(* A command that holds the mutex throughout: it changes its own key at    *)
(* most, notifies unless it is GETSET, and poisons the mutex only through  *)
(* SET.                                                                    *)
LEMMA EnteraEsPaso ==
  ASSUME Inv, NEW c \in Clientes, NEW k \in Permitidas[c], k \in Claves, NEW p \in Planes,
         Entera(c, k, p),
         p.accion = "canjear" => Callado(c),
         p.accion = "panico" => SetMuere
  PROVE  Paso(c)
<1> DEFINE T == Aplicar(tabla, k, p, ahora)
           E == IF p.accion = "escribir" THEN T ELSE enviado
<1>0. TipoLocal /\ TipoCompartido
  BY DEF Inv, TypeOK
<1>1. /\ T \in Tablas
      /\ \A j \in Claves \ Permitidas[c] : T[j] = tabla[j]
  BY <1>0, AplicarTipado DEF TipoCompartido
<1>2. p.accion \in {"responder", "panico"} => T = tabla
  BY DEF Planes, Aplicar
<1>3. p.res \in ResultadoRedis /\ p.accion \in {"responder", "panico", "escribir", "canjear"}
  BY DEF Planes
<1>4. CASE Seccion(c, T, E, p.res)
  <2>1. E \in Tablas
    BY <1>0, <1>1 DEF TipoCompartido
  <2>2. E = T \/ (T = tabla /\ E = enviado) \/ Callado(c)
    BY <1>2, <1>3
  <2> HIDE DEF T, E
  <2> QED BY <1>1, <1>3, <1>4, <2>1, <2>2, SeccionEsPaso
<1>5. CASE p.accion = "panico" /\ ~envenenado
  <2> HIDE DEF T, E
  <2>1. envenenado' = TRUE /\ Morir(c) /\ UNCHANGED <<tabla, enviado, ahora>>
    BY <1>5 DEF Entera
  <2>2. TipoLocal' /\ fase'[c] \in {"libre", "muerto"}
        /\ \A d \in Clientes \ {c} : fase'[d] = fase[d] /\ pend'[d] = pend[d]
    BY <1>0, <2>1, Respuestas, ResponderTipado
  <2> QED BY <1>0, <1>5, <2>1, <2>2 DEF Paso, TypeOK, TipoCompartido, EnCurso
<1>6. Seccion(c, T, E, p.res) \/ (p.accion = "panico" /\ ~envenenado)
  BY DEF Entera
<1> QED BY <1>4, <1>5, <1>6

(* A step that leaves the table alone.                                     *)
LEMMA LocalEsPaso ==
  ASSUME Inv, NEW c \in Clientes, TipoLocal', EnCurso(c)', UNCHANGED <<compartidas, ahora>>,
         fase'[c] = "escribir" => pend'[c].leido = Leido(pend'[c].clave),
         \A d \in Clientes \ {c} : fase'[d] = fase[d] /\ pend'[d] = pend[d]
  PROVE  Paso(c)
BY DEF Inv, Paso, TypeOK, TipoCompartido, compartidas

(* Answering without a section.                                            *)
LEMMA ResponderEsPaso ==
  ASSUME Inv, NEW c \in Clientes, NEW r \in ResultadoRedis,
         Responder(c, r) \/ (Morir(c) /\ r = Nil),
         UNCHANGED <<compartidas, ahora>>
  PROVE  Paso(c)
<1>1. TipoLocal
  BY DEF Inv, TypeOK
<1>2. /\ TipoLocal' /\ fase'[c] \in {"libre", "muerto"}
      /\ \A d \in Clientes \ {c} : fase'[d] = fase[d] /\ pend'[d] = pend[d]
  BY <1>1, ResponderTipado
<1>3. EnCurso(c)'
  BY <1>2 DEF EnCurso
<1> QED BY <1>2, <1>3, LocalEsPaso

(* The first section of a command that reads and later writes.             *)
LEMMA LeerEsPaso ==
  ASSUME Inv, NEW c \in Clientes, NEW k \in Permitidas[c], k \in Claves, NEW p \in Planes,
         Leer(c, k, p)
  PROVE  Paso(c)
<1>0. UNCHANGED <<compartidas, ahora>>
  BY DEF Leer
<1>1. p.res \in ResultadoRedis /\ ErrBdd \in ResultadoRedis /\ Nil \in ResultadoRedis
  BY Respuestas DEF Planes
<1>2. CASE Responder(c, ErrBdd) \/ Responder(c, p.res) \/ Morir(c)
  BY <1>0, <1>1, <1>2, ResponderEsPaso
<1>3. CASE Seguir(c, "escribir", [clave |-> k, leido |-> Leido(k), plan |-> p])
  <2> DEFINE q == [clave |-> k, leido |-> Leido(k), plan |-> p]
  <2>1. TipoLocal /\ TipoCompartido
    BY DEF Inv, TypeOK
  <2>2. Leido(k) \in TipoONada
    BY <2>1, LecturaTipada DEF Leido, TipoCompartido
  <2>3. q \in PendDe("escribir") /\ q.clave = k /\ q.leido = Leido(k)
    BY <2>2 DEF PendDe, PendEscribir
  <2> HIDE DEF q
  <2>4. "escribir" \in Fases /\ resp[c] \in ResultadoRedis
    BY <2>1 DEF Fases, TipoLocal
  <2>5. /\ TipoLocal' /\ fase'[c] = "escribir" /\ pend'[c] = q
        /\ \A d \in Clientes \ {c} : fase'[d] = fase[d] /\ pend'[d] = pend[d]
    BY <1>3, <2>1, <2>3, <2>4, PasarTipado DEF Seguir, q
  <2>6. EnCurso(c)'
    BY <2>3, <2>5 DEF EnCurso
  <2> QED BY <1>0, <2>3, <2>5, <2>6, LocalEsPaso
<1> QED BY <1>2, <1>3 DEF Leer

-----------------------------------------------------------------------------
(* Every command is a step of its client.                                  *)

(* What a handler reads is well formed.                                    *)
LEMMA Lectura ==
  ASSUME Inv, NEW k \in Claves
  PROVE  Leido(k) \in TipoONada
BY LecturaTipada DEF Inv, TypeOK, TipoCompartido, Leido

(* The parameters of the requests, as the lemmas on plans need them.       *)
LEMMA Numerales ==
  /\ \A n \in Numeros : n \in I32
  /\ \A n \in Cantidades : n \in I32 /\ n \in Nat
  /\ \A ps \in Tandas : ps \in Seq(Textos)
  /\ \A ps \in Pedidos : ps \in Seq(Fragmentos) /\ ps # <<>>
BY ServidorAssumption DEF Cantidades

(* The string commands on one key.                                         *)
LEMMA PasoString ==
  ASSUME Inv, NEW c \in Clientes, NEW k \in Claves,
         \/ GET(c, k) \/ SET(c, k) \/ GETSET(c, k) \/ APPEND(c, k)
         \/ STRLEN(c, k) \/ GETDEL(c, k) \/ INCRBY(c, k) \/ DECRBY(c, k)
  PROVE  Paso(c)
<1>0. k \in Permitidas[c]
  BY DEF GET, SET, GETSET, APPEND, STRLEN, GETDEL, INCRBY, DECRBY, Pide
<1>1. Leido(k) \in TipoONada
  BY Lectura
<1> DEFINE v == Leido(k)
<1>2. CASE GET(c, k)
  <2>1. PlanGet(v) \in Planes /\ PlanGet(v).accion = "responder"
    BY <1>1, PlanesDeLectura DEF PlanGet, Responde, Plan
  <2> QED BY <1>0, <1>2, <2>1, EnteraEsPaso DEF GET
<1>3. CASE STRLEN(c, k)
  <2>1. PlanStrlen(v) \in Planes /\ PlanStrlen(v).accion = "responder"
    BY <1>1, PlanesDeLectura DEF PlanStrlen, Responde, Plan
  <2> QED BY <1>0, <1>3, <2>1, EnteraEsPaso DEF STRLEN
<1>4. CASE SET(c, k)
  <2>1. PICK ps \in Pedidos : Entera(c, k, PlanSet(ps))
    BY <1>4 DEF SET
  <2>2. PlanSet(ps) \in Planes
    BY Numerales, PlanDeSet
  <2>3. PlanSet(ps).accion # "canjear"
    BY DEF PlanSet, PlanSetConVida, Panico, Responde, EscribeHasta, Escribe, Plan
  <2>4. PlanSet(ps).accion = "panico" => SetMuere
    BY DEF SetMuere
  <2> QED BY <1>0, <2>1, <2>2, <2>3, <2>4, EnteraEsPaso
<1>5. CASE GETSET(c, k)
  <2>1. PICK x \in Textos : Entera(c, k, PlanGetSet(v, x))
    BY <1>5 DEF GETSET
  <2>2. PlanGetSet(v, x) \in Planes
    BY <1>1, PlanesDeAppend
  <2>3. PlanGetSet(v, x).accion # "panico"
    BY DEF PlanGetSet, Responde, Canjea, Plan
  <2>4. Callado(c)
    BY <1>5 DEF GETSET, Pide, Callado
  <2> QED BY <1>0, <2>1, <2>2, <2>3, <2>4, EnteraEsPaso
<1>6. CASE APPEND(c, k)
  <2>1. CASE \E x \in Textos : Entera(c, k, PlanAppend(v, x))
    <3>1. PICK x \in Textos : Entera(c, k, PlanAppend(v, x))
      BY <2>1
    <3>2. PlanAppend(v, x) \in Planes
      BY <1>1, PlanesDeAppend
    <3>3. PlanAppend(v, x).accion \in {"responder", "escribir"}
      BY DEF PlanAppend, Responde, Escribe, Plan
    <3> QED BY <1>0, <3>1, <3>2, <3>3, EnteraEsPaso
  <2>2. CASE Entera(c, k, Responde(WrongType))
    <3>1. WrongType \in ResultadoRedis
      BY Respuestas DEF WrongType, Errores
    <3>2. Responde(WrongType) \in Planes
      BY <3>1, ConstructoresDePlan
    <3>3. Responde(WrongType).accion = "responder"
      BY DEF Responde, Plan
    <3> QED BY <1>0, <2>2, <3>2, <3>3, EnteraEsPaso
  <2> QED BY <1>6, <2>1, <2>2 DEF APPEND
<1>7. CASE GETDEL(c, k)
  BY <1>0, <1>1, <1>7, PlanesDeLectura, LeerEsPaso DEF GETDEL
<1>8. CASE INCRBY(c, k)
  <2>1. PICK d \in Numeros \cup {NoNumero} : Leer(c, k, PlanOperar(v, d, 1))
    BY <1>8 DEF INCRBY
  <2>2. PlanOperar(v, d, 1) \in Planes
    BY <1>1, Numerales, PlanDeOperar
  <2> QED BY <1>0, <2>1, <2>2, LeerEsPaso
<1>9. CASE DECRBY(c, k)
  <2>1. PICK d \in Numeros \cup {NoNumero} : Leer(c, k, PlanOperar(v, d, -1))
    BY <1>9 DEF DECRBY
  <2>2. PlanOperar(v, d, -1) \in Planes
    BY <1>1, Numerales, PlanDeOperar
  <2> QED BY <1>0, <2>1, <2>2, LeerEsPaso
<1> QED BY <1>2, <1>3, <1>4, <1>5, <1>6, <1>7, <1>8, <1>9

(* The list commands.                                                      *)
LEMMA PasoList ==
  ASSUME Inv, NEW c \in Clientes, NEW k \in Claves,
         \/ LINDEX(c, k) \/ LLEN(c, k) \/ LPOP(c, k) \/ RPOP(c, k)
         \/ LPUSH(c, k) \/ LPUSHX(c, k) \/ RPUSH(c, k) \/ RPUSHX(c, k)
         \/ LRANGE(c, k) \/ LREM(c, k) \/ LSET(c, k)
  PROVE  Paso(c)
<1>0. k \in Permitidas[c]
  BY DEF LINDEX, LLEN, LPOP, RPOP, LPUSH, LPUSHX, RPUSH, RPUSHX, LRANGE, LREM, LSET, Pide
<1>1. Leido(k) \in TipoONada
  BY Lectura
<1> DEFINE v == Leido(k)
<1>2. CASE LINDEX(c, k)
  <2>1. PICK i \in Numeros \cup {NoNumero} : Leer(c, k, PlanLIndex(v, i))
    BY <1>2 DEF LINDEX
  <2>2. PlanLIndex(v, i) \in Planes
    BY <1>1, Numerales, PlanDeLIndex
  <2> QED BY <1>0, <2>1, <2>2, LeerEsPaso
<1>3. CASE LLEN(c, k)
  <2>1. PlanLLen(v) \in Planes /\ PlanLLen(v).accion = "responder"
    BY <1>1, PlanesDeLectura DEF PlanLLen, Responde, Plan
  <2> QED BY <1>0, <1>3, <2>1, EnteraEsPaso DEF LLEN
<1>4. CASE LPOP(c, k) \/ RPOP(c, k)
  <2>1. PICK n \in Cantidades, f \in BOOLEAN : Leer(c, k, PlanPop(v, n, f))
    BY <1>4 DEF LPOP, RPOP
  <2>2. PlanPop(v, n, f) \in Planes
    BY <1>1, Numerales, PlanDePop
  <2> QED BY <1>0, <2>1, <2>2, LeerEsPaso
<1>5. CASE LPUSH(c, k) \/ LPUSHX(c, k) \/ RPUSH(c, k) \/ RPUSHX(c, k)
  <2>1. PICK ps \in Tandas, f \in BOOLEAN, g \in BOOLEAN : Leer(c, k, PlanPush(v, ps, f, g))
    BY <1>5 DEF LPUSH, LPUSHX, RPUSH, RPUSHX
  <2>2. PlanPush(v, ps, f, g) \in Planes
    BY <1>1, Numerales, PlanDePush
  <2> QED BY <1>0, <2>1, <2>2, LeerEsPaso
<1>6. CASE LRANGE(c, k)
  <2>1. PICK i \in Numeros, j \in Numeros : Leer(c, k, PlanLRange(v, i, j))
    BY <1>6 DEF LRANGE
  <2>2. PlanLRange(v, i, j) \in Planes
    BY <1>1, Numerales, PlanDeLRange
  <2> QED BY <1>0, <2>1, <2>2, LeerEsPaso
<1>7. CASE LREM(c, k) \/ LSET(c, k)
  <2>1. PICK i \in Numeros, x \in Textos :
          Leer(c, k, PlanLRem(v, i, x)) \/ Leer(c, k, PlanLSet(v, i, x))
    BY <1>7 DEF LREM, LSET
  <2>2. PlanLRem(v, i, x) \in Planes /\ PlanLSet(v, i, x) \in Planes
    BY <1>1, Numerales, PlanDeLRem, PlanDeLSet
  <2> QED BY <1>0, <2>1, <2>2, LeerEsPaso
<1> QED BY <1>2, <1>3, <1>4, <1>5, <1>6, <1>7

(* The set commands.                                                       *)
LEMMA PasoSet ==
  ASSUME Inv, NEW c \in Clientes, NEW k \in Claves,
         \/ SADD(c, k) \/ SREM(c, k) \/ SCARD(c, k) \/ SISMEMBER(c, k) \/ SMEMBERS(c, k)
  PROVE  Paso(c)
<1>0. k \in Permitidas[c]
  BY DEF SADD, SREM, SCARD, SISMEMBER, SMEMBERS, Pide
<1>1. Leido(k) \in TipoONada
  BY Lectura
<1> DEFINE v == Leido(k)
<1>2. CASE SADD(c, k) \/ SREM(c, k)
  <2>1. PICK ps \in Tandas : Entera(c, k, PlanSAdd(v, ps)) \/ Entera(c, k, PlanSRem(v, ps))
    BY <1>2 DEF SADD, SREM
  <2>2. PlanSAdd(v, ps) \in Planes /\ PlanSRem(v, ps) \in Planes
    BY <1>1, Numerales, PlanesDeConjunto
  <2>3. /\ PlanSAdd(v, ps).accion \in {"responder", "escribir"}
        /\ PlanSRem(v, ps).accion \in {"responder", "escribir"}
    BY DEF PlanSAdd, PlanSRem, Responde, Escribe, Plan
  <2> QED BY <1>0, <2>1, <2>2, <2>3, EnteraEsPaso
<1>3. CASE SCARD(c, k) \/ SMEMBERS(c, k)
  <2>1. /\ PlanSCard(v) \in Planes /\ PlanSCard(v).accion = "responder"
        /\ PlanSMembers(v) \in Planes /\ PlanSMembers(v).accion = "responder"
    BY <1>1, PlanesDeConsulta DEF PlanSCard, PlanSMembers, Responde, Plan
  <2> QED BY <1>0, <1>3, <2>1, EnteraEsPaso DEF SCARD, SMEMBERS
<1>4. CASE SISMEMBER(c, k)
  <2>1. PICK ps \in UnoONinguno : Entera(c, k, PlanSIsMember(v, ps))
    BY <1>4 DEF SISMEMBER
  <2>2. PlanSIsMember(v, ps) \in Planes /\ PlanSIsMember(v, ps).accion = "responder"
    BY <1>1, PlanesDeConsulta DEF PlanSIsMember, Responde, Plan
  <2> QED BY <1>0, <2>1, <2>2, EnteraEsPaso
<1> QED BY <1>2, <1>3, <1>4

(* MSET.                                                                   *)
LEMMA PasoMSet ==
  ASSUME Inv, NEW c \in Clientes, MSET(c)
  PROVE  Paso(c)
<1>1. PICK ps \in Lotes : /\ Pide(c, "MSET", ToSet(SubSeq(ps, 1, Len(ps) - 1)))
                          /\ Seccion(c, GuardarValores(tabla, ps), GuardarValores(tabla, ps), Ok)
  BY DEF MSET
<1> DEFINE T == GuardarValores(tabla, ps)
<1>2. ps \in Seq(Claves) /\ Len(ps) \in Nat
  BY ServidorAssumption
<1>3. tabla \in Tablas
  BY DEF Inv, TypeOK, TipoCompartido
<1>4. T \in Tablas
  BY <1>2, <1>3, GuardarValoresTipada
<1>5. ASSUME NEW k \in Claves \ Permitidas[c]
      PROVE  T[k] = tabla[k]
  <2>1. ASSUME NEW i \in 1 .. Len(ps) - 1
        PROVE  ps[i] \in Permitidas[c]
    <3> DEFINE q == SubSeq(ps, 1, Len(ps) - 1)
    <3>1. i \in DOMAIN q /\ q[i] = ps[i]
      BY <1>2
    <3>2. q[i] \in ToSet(q)
      BY <3>1, Zenon DEF ToSet
    <3> QED BY <1>1, <3>1, <3>2 DEF Pide
  <2>2. {i \in 1 .. Len(ps) - 1 : ps[i] = k} = {}
    BY <2>1
  <2> QED BY <2>2 DEF GuardarValores
<1>6. Ok \in ResultadoRedis
  BY Respuestas
<1> HIDE DEF T
<1> QED BY <1>1, <1>4, <1>5, <1>6, SeccionEsPaso DEF T

(* What the sections of comando_key_handler leave in the table.            *)
LEMMA TablasDeClave ==
  ASSUME Inv, NEW k \in Claves, NEW a \in Claves, NEW n \in Nat
  PROVE  /\ CopiarValor(tabla, k, a, ahora) \in Tablas
         /\ \A j \in Claves \ {a} : CopiarValor(tabla, k, a, ahora)[j] = tabla[j]
         /\ Leido(k) = Nada => CopiarValor(tabla, k, a, ahora) = tabla
         /\ EliminarClave(tabla, k) \in Tablas
         /\ \A j \in Claves \ {k} : EliminarClave(tabla, k)[j] = tabla[j]
         /\ ActualizarValorConExpiracion(tabla, k, n, ahora) \in Tablas
         /\ \A j \in Claves \ {k} :
              ActualizarValorConExpiracion(tabla, k, n, ahora)[j] = tabla[j]
         /\ ActualizarValorSinExpiracion(tabla, k) \in Tablas
         /\ \A j \in Claves \ {k} : ActualizarValorSinExpiracion(tabla, k)[j] = tabla[j]
<1>1. tabla \in Tablas /\ ahora \in Nat
  BY DEF Inv, TypeOK, TipoCompartido
<1>2. DOMAIN tabla = Claves
  BY <1>1 DEF Tablas
<1>3. /\ CopiarValor(tabla, k, a, ahora) \in Tablas
      /\ \A j \in Claves \ {a} : CopiarValor(tabla, k, a, ahora)[j] = tabla[j]
      /\ Leido(k) = Nada => CopiarValor(tabla, k, a, ahora) = tabla
  <2>1. CopiarValor(tabla, k, a, ahora) \in Tablas
    BY <1>1, CopiaTipada
  <2> QED BY <1>2, <2>1 DEF CopiarValor, GuardarValor, Leido
<1>4. /\ EliminarClave(tabla, k) \in Tablas
      /\ ActualizarValorConExpiracion(tabla, k, n, ahora) \in Tablas
      /\ ActualizarValorSinExpiracion(tabla, k) \in Tablas
  BY <1>1, Valores, EscrituraTipada
<1>5. \A j \in Claves \ {k} :
        /\ EliminarClave(tabla, k)[j] = tabla[j]
        /\ ActualizarValorConExpiracion(tabla, k, n, ahora)[j] = tabla[j]
        /\ ActualizarValorSinExpiracion(tabla, k)[j] = tabla[j]
  BY <1>2 DEF EliminarClave, ActualizarValorConExpiracion, ActualizarValorSinExpiracion
<1> QED BY <1>3, <1>4, <1>5

(* A step that goes on to another section.                                 *)
LEMMA SeguirTipado ==
  ASSUME Inv, NEW c \in Clientes, NEW f \in Fases, NEW p \in PendDe(f), Seguir(c, f, p)
  PROVE  /\ TipoLocal' /\ fase'[c] = f /\ pend'[c] = p
         /\ \A d \in Clientes \ {c} : fase'[d] = fase[d] /\ pend'[d] = pend[d]
<1>1. TipoLocal /\ resp[c] \in ResultadoRedis
  BY DEF Inv, TypeOK, TipoLocal
<1> QED BY <1>1, PasarTipado DEF Seguir

(* The key commands on one key.                                            *)
LEMMA PasoKey ==
  ASSUME Inv, NEW c \in Clientes, NEW k \in Claves,
         TYPE(c, k) \/ EXPIRE(c, k) \/ EXPIREAT(c, k) \/ PERSIST(c, k) \/ TTL(c, k)
  PROVE  Paso(c)
<1>0. k \in Permitidas[c]
  BY DEF TYPE, EXPIRE, EXPIREAT, PERSIST, TTL, Pide
<1>1. tabla \in Tablas /\ enviado \in Tablas /\ ahora \in Nat
  BY DEF Inv, TypeOK, TipoCompartido
<1> DEFINE r == Entero(IF k \in Presentes(tabla) THEN 1 ELSE 0)
<1>2. r \in ResultadoRedis
  BY Respuestas
<1> HIDE DEF r
<1>3. CASE TYPE(c, k)
  <2>1. TipoDe(Leido(k)) \in ResultadoRedis
    BY Lectura, Respuestas
  <2>2. Responde(TipoDe(Leido(k))) \in Planes
    BY <2>1, ConstructoresDePlan
  <2>3. Responde(TipoDe(Leido(k))).accion = "responder"
    BY DEF Responde, Plan
  <2> QED BY <1>0, <1>3, <2>2, <2>3, EnteraEsPaso DEF TYPE
<1>4. CASE TTL(c, k)
  <2> DEFINE p == Responde(Entero(ObtenerExpiracion(tabla, k)))
  <2>1. Entero(ObtenerExpiracion(tabla, k)) \in ResultadoRedis
    BY <1>1, LecturaTipada, Respuestas
  <2>2. p \in Planes
    BY <2>1, ConstructoresDePlan
  <2>3. p.accion = "responder"
    BY DEF Responde, Plan
  <2>4. Entera(c, k, p)
    BY <1>4 DEF TTL
  <2> HIDE DEF p
  <2> QED BY <1>0, <2>2, <2>3, <2>4, EnteraEsPaso
<1>5. CASE EXPIRE(c, k)
  <2>1. PICK n \in Cantidades :
          Seccion(c, ActualizarValorConExpiracion(tabla, k, n, ahora), enviado, r)
    BY <1>5 DEF EXPIRE, r
  <2>2. Callado(c)
    BY <1>5 DEF EXPIRE, Pide, Callado
  <2>3. n \in Nat
    BY Numerales
  <2> QED BY <1>0, <1>1, <1>2, <2>1, <2>2, <2>3, TablasDeClave, SeccionEsPaso
<1>6. CASE PERSIST(c, k)
  <2>1. Seccion(c, ActualizarValorSinExpiracion(tabla, k), enviado, r)
    BY <1>6 DEF PERSIST, r
  <2>2. Callado(c)
    BY <1>6 DEF PERSIST, Pide, Callado
  <2> QED BY <1>0, <1>1, <1>2, <2>1, <2>2, TablasDeClave, SeccionEsPaso
<1>7. CASE EXPIREAT(c, k)
  <2>1. UNCHANGED <<compartidas, ahora>>
    BY <1>7 DEF EXPIREAT
  <2>2. CASE Responder(c, Error("TIEMPO"))
    <3>1. Error("TIEMPO") \in ResultadoRedis
      BY Respuestas DEF Errores
    <3> QED BY <2>1, <2>2, <3>1, ResponderEsPaso
  <2>3. CASE \E n \in Nat : Seguir(c, "expirar", [clave |-> k, vida |-> n])
    <3>1. PICK n \in Nat : Seguir(c, "expirar", [clave |-> k, vida |-> n])
      BY <2>3
    <3> DEFINE q == [clave |-> k, vida |-> n]
    <3>2. q \in PendDe("expirar") /\ q.clave = k /\ "expirar" \in Fases
      BY DEF PendDe, PendExpirar, Fases
    <3> HIDE DEF q
    <3>3. /\ TipoLocal' /\ fase'[c] = "expirar" /\ pend'[c] = q
          /\ \A d \in Clientes \ {c} : fase'[d] = fase[d] /\ pend'[d] = pend[d]
      BY <3>1, <3>2, SeguirTipado DEF q
    <3>4. "EXPIREAT" \in Comandos[c]
      BY <1>7 DEF EXPIREAT, Pide
    <3>5. EnCurso(c)'
      BY <1>0, <3>2, <3>3, <3>4 DEF EnCurso
    <3> QED BY <2>1, <3>3, <3>5, LocalEsPaso
  <2>4. CASE Morir(c)
    <3>1. Nil \in ResultadoRedis
      BY Respuestas
    <3> QED BY <2>1, <2>4, <3>1, ResponderEsPaso
  <2>5. \/ Responder(c, Error("TIEMPO"))
        \/ \E n \in Nat : Seguir(c, "expirar", [clave |-> k, vida |-> n])
        \/ Morir(c)
    BY <1>7 DEF EXPIREAT
  <2> QED BY <2>2, <2>3, <2>4, <2>5
<1> QED BY <1>3, <1>4, <1>5, <1>6, <1>7

(* COPY and the first section of RENAME.                                   *)
LEMMA PasoCopia ==
  ASSUME Inv, NEW c \in Clientes, NEW k \in Claves, NEW a \in Claves,
         COPY(c, k, a) \/ RENAME(c, k, a)
  PROVE  Paso(c)
<1>0. k \in Permitidas[c] /\ a \in Permitidas[c]
  BY DEF COPY, RENAME, Pide
<1>1. TipoCompartido /\ TipoLocal /\ tabla \in Tablas /\ enviado \in Tablas
  BY DEF Inv, TypeOK, TipoCompartido
<1> DEFINE T == CopiarValor(tabla, k, a, ahora)
<1>2. /\ T \in Tablas
      /\ \A j \in Claves \ Permitidas[c] : T[j] = tabla[j]
      /\ Leido(k) = Nada => T = tabla
  BY <1>0, TablasDeClave
<1>3. CASE COPY(c, k, a)
  <2>1. Entero(0) \in ResultadoRedis /\ Entero(1) \in ResultadoRedis
    BY Respuestas
  <2>2. CASE Leido(k) = Nada
    <3>1. Seccion(c, T, enviado, Entero(0))
      BY <1>3, <2>2 DEF COPY
    <3> HIDE DEF T
    <3> QED BY <1>1, <1>2, <2>1, <2>2, <3>1, SeccionEsPaso
  <2>3. CASE Leido(k) # Nada
    <3>1. Seccion(c, T, T, Entero(1))
      BY <1>3, <2>3 DEF COPY
    <3> HIDE DEF T
    <3> QED BY <1>2, <2>1, <3>1, SeccionEsPaso
  <2> QED BY <2>2, <2>3
<1>4. CASE RENAME(c, k, a) /\ envenenado
  <2>1. Error("NOKEY") \in ResultadoRedis
    BY Respuestas DEF Errores
  <2>2. Responder(c, Error("NOKEY")) /\ UNCHANGED <<compartidas, ahora>>
    BY <1>4 DEF RENAME, compartidas
  <2> QED BY <2>1, <2>2, ResponderEsPaso
<1>5. CASE RENAME(c, k, a) /\ ~envenenado
  <2> DEFINE q == [clave |-> k]
  <2>1. /\ tabla' = T
        /\ enviado' = IF Leido(k) = Nada THEN enviado ELSE T
        /\ Seguir(c, "borrar", q)
        /\ UNCHANGED <<envenenado, ahora>>
    BY <1>5 DEF RENAME
  <2>2. q \in PendDe("borrar") /\ q.clave = k /\ "borrar" \in Fases
    BY DEF PendDe, PendBorrar, Fases
  <2> HIDE DEF q, T
  <2>3. /\ TipoLocal' /\ fase'[c] = "borrar" /\ pend'[c] = q
        /\ \A d \in Clientes \ {c} : fase'[d] = fase[d] /\ pend'[d] = pend[d]
    BY <2>1, <2>2, SeguirTipado
  <2>4. EnCurso(c)'
    BY <1>0, <2>2, <2>3 DEF EnCurso
  <2>5. TipoCompartido'
    BY <1>1, <1>2, <2>1 DEF TipoCompartido
  <2>6. UNCHANGED <<tabla, enviado>> \/ enviado' = tabla'
    BY <1>2, <2>1
  <2> QED BY <1>2, <1>5, <2>1, <2>3, <2>4, <2>5, <2>6 DEF Paso, TypeOK
<1> QED BY <1>3, <1>4, <1>5

(* TOUCH, KEYS and the start of DEL, EXISTS and MGET.                      *)
LEMMA PasoDeVarias ==
  ASSUME Inv, NEW c \in Clientes, TOUCH(c) \/ KEYS(c) \/ Multiple(c)
  PROVE  Paso(c)
<1>1. tabla \in Tablas /\ enviado \in Tablas
  BY DEF Inv, TypeOK, TipoCompartido
<1>2. Permitidas[c] \subseteq Claves
  BY HilosAssumption
<1>3. CASE TOUCH(c)
  <2>1. PICK ks \in Grupos :
          Seccion(c, tabla, enviado,
                  Entero(Cardinality({i \in DOMAIN ks : ks[i] \in Presentes(tabla)})))
    BY <1>3 DEF TOUCH
  <2> DEFINE S == {i \in DOMAIN ks : ks[i] \in Presentes(tabla)}
  <2>2. IsFiniteSet(DOMAIN ks)
    <3>1. ks \in Seq(Claves)
      BY ServidorAssumption
    <3>2. DOMAIN ks = 1 .. Len(ks) /\ Len(ks) \in Nat
      BY <3>1
    <3> QED BY <3>2, FS_Interval
  <2>3. Cardinality(S) \in Nat
    <3>1. S \subseteq DOMAIN ks
      OBVIOUS
    <3> HIDE DEF S
    <3> QED BY <2>2, <3>1, FS_Subset, FS_CardinalityType
  <2> HIDE DEF S
  <2>4. Entero(Cardinality(S)) \in ResultadoRedis
    BY <2>3, Respuestas
  <2>5. Seccion(c, tabla, enviado, Entero(Cardinality(S)))
    BY <2>1 DEF S
  <2> QED BY <1>1, <2>4, <2>5, SeccionEsPaso
<1>4. CASE KEYS(c)
  <2>1. PICK S \in SUBSET Permitidas[c] :
          Seccion(c, tabla, enviado, Miembros(S \cap Presentes(tabla)))
    BY <1>4 DEF KEYS
  <2> DEFINE R == S \cap Presentes(tabla)
  <2>2. R \in SUBSET (Textos \cup Claves)
    BY <1>2
  <2> HIDE DEF R
  <2>3. Miembros(R) \in ResultadoRedis
    BY <2>2, Respuestas
  <2> QED BY <1>1, <2>1, <2>3, SeccionEsPaso DEF R
<1>5. CASE Multiple(c)
  <2>1. PICK op \in {"DEL", "EXISTS", "MGET"}, ks \in Grupos :
          /\ Pide(c, op, ToSet(ks))
          /\ Seguir(c, "multiple", [op |-> op, faltan |-> ks, cuenta |-> 0, valores |-> <<>>])
          /\ UNCHANGED <<compartidas, ahora>>
    BY <1>5 DEF Multiple
  <2> DEFINE q == [op |-> op, faltan |-> ks, cuenta |-> 0, valores |-> <<>>]
  <2>2. q \in PendDe("multiple") /\ q.faltan = ks /\ "multiple" \in Fases
    BY ServidorAssumption DEF PendDe, PendMultiple, Fases
  <2> HIDE DEF q
  <2>3. /\ TipoLocal' /\ fase'[c] = "multiple" /\ pend'[c] = q
        /\ \A d \in Clientes \ {c} : fase'[d] = fase[d] /\ pend'[d] = pend[d]
    BY <2>1, <2>2, SeguirTipado DEF q
  <2>4. EnCurso(c)'
    BY <2>1, <2>2, <2>3 DEF EnCurso, Pide
  <2> QED BY <2>1, <2>3, <2>4, LocalEsPaso
<1> QED BY <1>3, <1>4, <1>5

(* FLUSHDB and DBSIZE, a refused request, and a client that comes back.    *)
LEMMA PasoServer ==
  ASSUME Inv, NEW c \in Clientes,
         FLUSHDB(c) \/ DBSIZE(c) \/ PedidoInvalido(c) \/ Reconectar(c)
  PROVE  Paso(c)
<1>1. tabla \in Tablas /\ enviado \in Tablas
  BY DEF Inv, TypeOK, TipoCompartido
<1>2. CASE FLUSHDB(c)
  <2>1. Claves \ Permitidas[c] = {}
    BY <1>2 DEF FLUSHDB, Pide
  <2>2. Seccion(c, BorrarClaves, BorrarClaves, Ok) /\ Ok \in ResultadoRedis
    BY <1>2, Respuestas DEF FLUSHDB
  <2> QED BY <2>1, <2>2, VaciaTipada, SeccionEsPaso
<1>3. CASE DBSIZE(c)
  <2>1. CantidadClaves(tabla) \in Int
    BY <1>1, CantidadTipada
  <2>2. Entero(CantidadClaves(tabla)) \in ResultadoRedis
    BY <2>1, Respuestas
  <2>3. Seccion(c, tabla, enviado, Entero(CantidadClaves(tabla)))
    BY <1>3 DEF DBSIZE
  <2> QED BY <1>1, <2>2, <2>3, SeccionEsPaso
<1>4. CASE PedidoInvalido(c)
  <2>1. PICK r \in Rechazos : Responder(c, r)
    BY <1>4 DEF PedidoInvalido
  <2>2. r \in ResultadoRedis
    BY Respuestas DEF Rechazos, NoEntero, Errores
  <2>3. UNCHANGED <<compartidas, ahora>>
    BY <1>4 DEF PedidoInvalido
  <2> QED BY <2>1, <2>2, <2>3, ResponderEsPaso
<1>5. CASE Reconectar(c)
  BY <1>5, Respuestas, ResponderEsPaso DEF Reconectar, SinRespuesta
<1> QED BY <1>2, <1>3, <1>4, <1>5

(* The later sections of a command in progress.                            *)
LEMMA PasoContinuar ==
  ASSUME Inv, NEW c \in Clientes, Escribir(c) \/ RenameBorrar(c) \/ ExpireAtFijar(c)
  PROVE  Paso(c)
<1>0. TipoCompartido /\ TipoLocal /\ tabla \in Tablas /\ enviado \in Tablas /\ ahora \in Nat
  BY DEF Inv, TypeOK, TipoCompartido
<1>1. EnCurso(c) /\ pend[c] \in PendDe(fase[c])
  BY <1>0 DEF Inv, TipoLocal
<1>2. CASE Escribir(c)
  <2>1. pend[c] \in PendEscribir /\ pend[c].clave \in Permitidas[c]
    BY <1>1, <1>2 DEF Escribir, PendDe, EnCurso
  <2>2. /\ pend[c].clave \in Claves /\ pend[c].plan \in Planes
        /\ pend[c].plan.res \in ResultadoRedis
    BY <2>1 DEF PendEscribir, Planes
  <2> DEFINE T == Aplicar(tabla, pend[c].clave, pend[c].plan, ahora)
  <2>3. T \in Tablas /\ \A j \in Claves \ Permitidas[c] : T[j] = tabla[j]
    BY <1>0, <2>1, <2>2, AplicarTipado
  <2>4. Seccion(c, T, T, pend[c].plan.res)
    BY <1>2 DEF Escribir
  <2> HIDE DEF T
  <2> QED BY <2>2, <2>3, <2>4, SeccionEsPaso
<1>3. CASE RenameBorrar(c)
  <2> DEFINE k == pend[c].clave
  <2>1. k \in Claves /\ k \in Permitidas[c]
    BY <1>1, <1>3 DEF RenameBorrar, PendDe, PendBorrar, EnCurso
  <2>2. /\ EliminarClave(tabla, k) \in Tablas
        /\ \A j \in Claves \ Permitidas[c] : EliminarClave(tabla, k)[j] = tabla[j]
    BY <2>1, TablasDeClave
  <2>3. /\ Responder(c, Ok) /\ UNCHANGED <<envenenado, ahora>>
        /\ \/ UNCHANGED <<tabla, enviado>>
           \/ ~envenenado /\ tabla' = EliminarClave(tabla, k) /\ enviado' = tabla'
    BY <1>3 DEF RenameBorrar
  <2> HIDE DEF k
  <2>4. /\ TipoLocal' /\ fase'[c] \in {"libre", "muerto"}
        /\ \A d \in Clientes \ {c} : fase'[d] = fase[d] /\ pend'[d] = pend[d]
    <3>1. Ok \in ResultadoRedis
      BY Respuestas
    <3> QED BY <1>0, <2>3, <3>1, ResponderTipado
  <2>5. TipoCompartido' /\ EnCurso(c)'
    BY <1>0, <2>2, <2>3, <2>4 DEF TipoCompartido, EnCurso
  <2> QED BY <2>2, <2>3, <2>4, <2>5 DEF Paso, TypeOK
<1>4. CASE ExpireAtFijar(c)
  <2> DEFINE k == pend[c].clave
             r == Entero(IF k \in Presentes(tabla) THEN 1 ELSE 0)
             T == ActualizarValorConExpiracion(tabla, k, pend[c].vida, ahora)
  <2>1. k \in Claves /\ k \in Permitidas[c] /\ pend[c].vida \in Nat /\ Callado(c)
    BY <1>1, <1>4 DEF ExpireAtFijar, PendDe, PendExpirar, EnCurso, Callado
  <2>2. T \in Tablas /\ \A j \in Claves \ Permitidas[c] : T[j] = tabla[j]
    BY <2>1, TablasDeClave
  <2>3. r \in ResultadoRedis
    BY Respuestas
  <2>4. Seccion(c, T, enviado, r)
    BY <1>4 DEF ExpireAtFijar
  <2> HIDE DEF T, r
  <2> QED BY <1>0, <2>1, <2>2, <2>3, <2>4, SeccionEsPaso
<1> QED BY <1>2, <1>3, <1>4

(* One more key of the loop of DEL, EXISTS or MGET.                        *)
LEMMA VisitaTipada ==
  ASSUME NEW p \in PendMultiple, p.faltan # <<>>, NEW v \in TipoONada
  PROVE  /\ Visitar(p, v) \in PendMultiple
         /\ Visitar(p, v).faltan = Tail(p.faltan)
         /\ Head(p.faltan) \in Claves /\ Head(p.faltan) \in ToSet(p.faltan)
         /\ ToSet(Tail(p.faltan)) \subseteq ToSet(p.faltan)
<1>1. /\ p.op \in {"DEL", "EXISTS", "MGET"} /\ p.faltan \in Seq(Claves)
      /\ p.cuenta \in Nat /\ p.valores \in Seq(Simples)
  BY DEF PendMultiple
<1>2. Head(p.faltan) \in Claves /\ Tail(p.faltan) \in Seq(Claves)
  BY <1>1
<1>3. /\ Head(p.faltan) \in ToSet(p.faltan)
      /\ ToSet(Tail(p.faltan)) \subseteq ToSet(p.faltan)
  BY <1>1 DEF ToSet
<1> DEFINE m == IF v = Nada THEN p.cuenta ELSE p.cuenta + 1
           e == IF v.tipo = "Str" THEN Bulk(v.str) ELSE Nil
           vs == IF p.op = "MGET" THEN Append(p.valores, e) ELSE p.valores
<1>4. e \in Simples
  BY TiposDeValor, Respuestas
<1> HIDE DEF e
<1>5. m \in Nat /\ vs \in Seq(Simples)
  BY <1>1, <1>4
<1>6. Visitar(p, v) = [op |-> p.op, faltan |-> Tail(p.faltan), cuenta |-> m, valores |-> vs]
  BY DEF Visitar, e
<1> HIDE DEF m, vs
<1>7. Visitar(p, v) \in PendMultiple /\ Visitar(p, v).faltan = Tail(p.faltan)
  BY <1>1, <1>2, <1>5, <1>6 DEF PendMultiple
<1> QED BY <1>2, <1>3, <1>7

(* The loop of DEL, EXISTS and MGET.                                       *)
LEMMA PasoMultiple ==
  ASSUME Inv, NEW c \in Clientes, MultiplePaso(c) \/ MultipleFin(c)
  PROVE  Paso(c)
<1>0. TipoCompartido /\ TipoLocal /\ tabla \in Tablas /\ enviado \in Tablas
  BY DEF Inv, TypeOK, TipoCompartido
<1> DEFINE p == pend[c]
<1>1. p \in PendMultiple /\ ToSet(p.faltan) \subseteq Permitidas[c]
  BY <1>0 DEF MultiplePaso, MultipleFin, Inv, TipoLocal, PendDe, EnCurso
<1>2. CASE MultiplePaso(c) /\ envenenado
  <2>1. Responder(c, ErrBdd) /\ UNCHANGED <<compartidas, ahora>>
    BY <1>2 DEF MultiplePaso, compartidas
  <2> QED BY <2>1, Respuestas, ResponderEsPaso
<1>3. CASE MultiplePaso(c) /\ ~envenenado
  <2> DEFINE k == Head(p.faltan)
             borra == p.op = "DEL" /\ Leido(k) # Nada
             q == Visitar(p, Leido(k))
  <2>1. /\ p.faltan # <<>>
        /\ tabla' = IF borra THEN EliminarClave(tabla, k) ELSE tabla
        /\ enviado' = IF borra THEN tabla' ELSE enviado
        /\ Seguir(c, "multiple", q)
        /\ UNCHANGED <<envenenado, ahora>>
    BY <1>3 DEF MultiplePaso
  <2>2. k \in Claves /\ k \in Permitidas[c]
    BY <1>1, <2>1, Valores, VisitaTipada
  <2>3. Leido(k) \in TipoONada
    BY <2>2, Lectura
  <2>4. q \in PendDe("multiple") /\ ToSet(q.faltan) \subseteq Permitidas[c] /\ "multiple" \in Fases
    BY <1>1, <2>1, <2>3, VisitaTipada DEF PendDe, Fases
  <2>5. /\ EliminarClave(tabla, k) \in Tablas
        /\ \A j \in Claves \ Permitidas[c] : EliminarClave(tabla, k)[j] = tabla[j]
    BY <2>2, TablasDeClave
  <2> HIDE DEF q, k, borra
  <2>6. /\ TipoLocal' /\ fase'[c] = "multiple" /\ pend'[c] = q
        /\ \A d \in Clientes \ {c} : fase'[d] = fase[d] /\ pend'[d] = pend[d]
    BY <2>1, <2>4, SeguirTipado
  <2>7. TipoCompartido' /\ EnCurso(c)'
    BY <1>0, <2>1, <2>4, <2>5, <2>6 DEF TipoCompartido, EnCurso
  <2> QED BY <1>3, <2>1, <2>5, <2>6, <2>7 DEF Paso, TypeOK
<1>4. CASE MultipleFin(c)
  <2> DEFINE r == CASE p.op # "MGET"    -> Entero(p.cuenta)
                    [] p.op = "MGET" /\ p.valores = <<>> -> Error("ARGS")
                    [] OTHER            -> Vector(p.valores)
  <2>1. /\ Entero(p.cuenta) \in ResultadoRedis
        /\ Error("ARGS") \in ResultadoRedis
        /\ Vector(p.valores) \in ResultadoRedis
    <3>1. p.cuenta \in Int /\ p.valores \in Seq(Simples)
      BY <1>1 DEF PendMultiple
    <3> QED BY <3>1, Respuestas DEF Errores
  <2>2. r \in ResultadoRedis
    BY <2>1
  <2>3. Responder(c, r) /\ UNCHANGED <<compartidas, ahora>>
    BY <1>4 DEF MultipleFin
  <2> HIDE DEF r
  <2> QED BY <2>2, <2>3, ResponderEsPaso
<1> QED BY <1>2, <1>3, <1>4

-----------------------------------------------------------------------------
(* Whatever the thread of a client does is a step of that client.          *)
LEMMA ComandoEsPaso ==
  ASSUME Inv, NEW c \in Clientes,
         \/ PedidoInvalido(c) \/ ComandoString(c) \/ ComandoList(c) \/ ComandoSet(c)
         \/ ComandoKey(c) \/ ComandoServer(c)
         \/ Continuar(c) \/ Reconectar(c)
  PROVE  Paso(c)
<1>1. CASE ComandoString(c)
  BY <1>1, PasoString, PasoMSet DEF ComandoString
<1>2. CASE ComandoList(c)
  BY <1>2, PasoList DEF ComandoList
<1>3. CASE ComandoSet(c)
  BY <1>3, PasoSet DEF ComandoSet
<1>4. CASE ComandoKey(c)
  BY <1>4, PasoKey, PasoCopia, PasoDeVarias DEF ComandoKey
<1>5. CASE ComandoServer(c) \/ PedidoInvalido(c) \/ Reconectar(c)
  BY <1>5, PasoServer DEF ComandoServer
<1>6. CASE Continuar(c)
  BY <1>6, PasoContinuar, PasoMultiple DEF Continuar
<1> QED BY <1>1, <1>2, <1>3, <1>4, <1>5, <1>6

(* A step of the server is a step of one client or of the clock.           *)
LEMMA PasoDeCliente ==
  ASSUME Inv, Next
  PROVE  (\E c \in Clientes : Paso(c)) \/ Tick
BY ComandoEsPaso DEF Next

(* The server starts in the invariant.                                     *)
LEMMA InvInicial ==
  ASSUME Init
  PROVE  Inv
<1>1. TipoCompartido
  BY HilosAssumption DEF Init, TipoCompartido
<1>2. /\ Nil \in ResultadoRedis /\ SinPend \in Pendientes
      /\ "libre" \in Fases /\ SinPend \in PendDe("libre")
  BY Respuestas DEF Pendientes, Fases, PendDe
<1>3. TipoLocal
  BY <1>2 DEF Init, TipoLocal, SinRespuesta
<1>4. \A c \in Clientes : EnCurso(c)
  BY DEF Init, EnCurso
<1> QED BY <1>1, <1>3, <1>4 DEF Inv, TypeOK

(* A step of a client keeps the invariant,                                 *)
LEMMA PasoConserva ==
  ASSUME Inv, NEW c \in Clientes, Paso(c)
  PROVE  Inv'
<1>1. TypeOK' /\ EnCurso(c)'
  BY DEF Paso
<1>2. ASSUME NEW d \in Clientes \ {c}
      PROVE  EnCurso(d)'
  <2>1. EnCurso(d) /\ fase'[d] = fase[d] /\ pend'[d] = pend[d]
    BY DEF Paso, Inv
  <2> QED BY <2>1 DEF EnCurso
<1> QED BY <1>1, <1>2 DEF Inv

(* and so does every step of the server.                                   *)
LEMMA InvInductivo ==
  ASSUME Inv, [Next]_vars
  PROVE  Inv'
<1>1. CASE \E c \in Clientes : Paso(c)
  BY <1>1, PasoConserva
<1>2. CASE Tick
  BY <1>2 DEF Tick, Inv, TypeOK, TipoCompartido, TipoLocal, EnCurso, compartidas
<1>3. CASE UNCHANGED vars
  BY <1>3 DEF vars, Inv, TypeOK, TipoCompartido, TipoLocal, EnCurso
<1> QED BY <1>1, <1>2, <1>3, PasoDeCliente

(* The invariant behind every theorem below: well-formed state, and        *)
(* commands in progress that only go on with their client's keys.          *)
THEOREM Invariante == Spec => []Inv
<1>1. Init => Inv
  BY InvInicial
<1>2. Inv /\ [Next]_vars => Inv'
  BY InvInductivo
<1> QED BY <1>1, <1>2, PTL DEF Spec

(* Every table, plan, answer and pending section is well formed, whatever  *)
(* the clients send and however their sections interleave.                 *)
THEOREM TipoCorrecto == Spec => []TypeOK
<1>1. Inv => TypeOK
  BY DEF Inv
<1> QED BY <1>1, Invariante, PTL

(* Once a handler has panicked with the mutex held, the table and the copy *)
(* sent to the persistence thread never change again (lock() fails).       *)
THEOREM ElVenenoCongela == Spec => VenenoCongela
<1>1. Inv /\ [Next]_vars
        => [envenenado => envenenado' /\ UNCHANGED <<tabla, enviado>>]_vars
  <2> SUFFICES ASSUME Inv, [Next]_vars
               PROVE  [envenenado => envenenado' /\ UNCHANGED <<tabla, enviado>>]_vars
    OBVIOUS
  <2>1. CASE \E c \in Clientes : Paso(c)
    BY <2>1 DEF Paso
  <2>2. CASE Tick
    BY <2>2 DEF Tick, compartidas
  <2>3. CASE UNCHANGED vars
    BY <2>3
  <2> QED BY <2>1, <2>2, <2>3, PasoDeCliente
<1> QED BY <1>1, Invariante, PTL DEF Spec, VenenoCongela

(* One step keeps the copies that handlers carry past the unlock valid.    *)
LEMMA CopiaInductiva ==
  ASSUME Propias, Inv, CopiaVigente, [Next]_vars
  PROVE  CopiaVigente'
<1>0. /\ tabla \in Tablas /\ ahora \in Nat
      /\ \A d \in Clientes : fase[d] = "escribir" =>
           pend[d].clave \in Claves /\ pend[d].clave \in Permitidas[d]
  BY DEF Inv, TypeOK, TipoCompartido, TipoLocal, PendDe, PendEscribir, EnCurso
<1>1. CASE \E c \in Clientes : Paso(c)
  <2>1. PICK c \in Clientes : Paso(c)
    BY <1>1
  <2>2. ASSUME NEW d \in Clientes, d # c, fase'[d] = "escribir"
        PROVE  \/ pend'[d].leido = tabla'[pend'[d].clave].valor
               \/ pend'[d].leido = Nada /\ Expiro(tabla'[pend'[d].clave], ahora')
    <3>1. fase[d] = "escribir" /\ pend'[d] = pend[d] /\ ahora' = ahora
      BY <2>1, <2>2 DEF Paso
    <3>2. pend[d].clave \in Claves \ Permitidas[c]
      BY <1>0, <2>2, <3>1 DEF Propias
    <3>3. tabla'[pend[d].clave] = tabla[pend[d].clave]
      BY <2>1, <3>2 DEF Paso
    <3> QED BY <3>1, <3>3 DEF CopiaVigente
  <2>3. ASSUME fase'[c] = "escribir"
        PROVE  \/ pend'[c].leido = tabla'[pend'[c].clave].valor
               \/ pend'[c].leido = Nada /\ Expiro(tabla'[pend'[c].clave], ahora')
    <3>1. /\ tabla' = tabla /\ ahora' = ahora
          /\ pend'[c].leido = ObtenerValor(tabla, pend'[c].clave, ahora)
      BY <2>1, <2>3 DEF Paso, Leido
    <3>2. pend'[c].clave \in Claves
      <4>1. pend'[c] \in PendDe(fase'[c])
        BY <2>1 DEF Paso, TypeOK, TipoLocal
      <4> QED BY <2>3, <4>1 DEF PendDe, PendEscribir
    <3> QED BY <1>0, <3>1, <3>2, LecturaTipada
  <2> QED BY <2>2, <2>3 DEF CopiaVigente
<1>2. CASE Tick
  <2>1. /\ ahora' = ahora + 1 /\ tabla' = tabla /\ fase' = fase /\ pend' = pend
    BY <1>2 DEF Tick, compartidas
  <2>2. ASSUME NEW k \in Claves, Expiro(tabla[k], ahora)
        PROVE  Expiro(tabla[k], ahora + 1)
    <3>1. tabla[k] \in Valor
      BY <1>0 DEF Tablas
    <3>2. tabla[k].creado \in Nat /\ tabla[k].vida \in Int
      BY <3>1 DEF Valor, Vidas, SinVida
    <3> QED BY <1>0, <2>2, <3>2 DEF Expiro
  <2> QED BY <1>0, <2>1, <2>2 DEF CopiaVigente
<1>3. CASE UNCHANGED vars
  BY <1>3 DEF vars, CopiaVigente
<1> QED BY <1>1, <1>2, <1>3, PasoDeCliente

(* For clients that use keys of their own, what a handler read before it   *)
(* released the mutex still holds when it takes it again.                  *)
THEOREM CopiaSiempreVigente ==
  ASSUME Propias
  PROVE  Spec => []CopiaVigente
<1>1. Init => CopiaVigente
  BY DEF Init, CopiaVigente
<1>2. Inv /\ CopiaVigente /\ [Next]_vars => CopiaVigente'
  BY Propias, CopiaInductiva
<1> QED BY <1>1, <1>2, Invariante, PTL DEF Spec

(* The panics of the list and integer commands happen outside the mutex:   *)
(* it is never poisoned unless some SET panics.                            *)
THEOREM SinSetNoHayVeneno ==
  ASSUME ~SetMuere
  PROVE  Spec => []NuncaEnvenenado
<1>1. Init => NuncaEnvenenado
  BY DEF Init, NuncaEnvenenado
<1>2. Inv /\ NuncaEnvenenado /\ [Next]_vars => NuncaEnvenenado'
  <2> SUFFICES ASSUME Inv, NuncaEnvenenado, [Next]_vars PROVE NuncaEnvenenado'
    OBVIOUS
  <2>1. CASE \E c \in Clientes : Paso(c)
    BY <2>1, ~SetMuere DEF Paso, NuncaEnvenenado
  <2>2. CASE Tick
    BY <2>2 DEF Tick, compartidas, NuncaEnvenenado
  <2>3. CASE UNCHANGED vars
    BY <2>3 DEF vars, NuncaEnvenenado
  <2> QED BY <2>1, <2>2, <2>3, PasoDeCliente
<1> QED BY <1>1, <1>2, Invariante, PTL DEF Spec

(* Every other command that changes the table sends its copy within the    *)
(* same section: the persistence thread is never behind the table.         *)
THEOREM ObservadoresAlDia ==
  ASSUME \A c \in Clientes : ~Callado(c)
  PROVE  Spec => []EnviadoAlDia
<1>1. Init => EnviadoAlDia
  BY DEF Init, EnviadoAlDia
<1>2. Inv /\ EnviadoAlDia /\ [Next]_vars => EnviadoAlDia'
  <2> SUFFICES ASSUME Inv, EnviadoAlDia, [Next]_vars PROVE EnviadoAlDia'
    OBVIOUS
  <2>1. CASE \E c \in Clientes : Paso(c)
    BY <2>1, \A c \in Clientes : ~Callado(c) DEF Paso, EnviadoAlDia
  <2>2. CASE Tick
    BY <2>2 DEF Tick, compartidas, EnviadoAlDia
  <2>3. CASE UNCHANGED vars
    BY <2>3 DEF vars, EnviadoAlDia
  <2> QED BY <2>1, <2>2, <2>3, PasoDeCliente
<1> QED BY <1>1, <1>2, Invariante, PTL DEF Spec

-----------------------------------------------------------------------------
(* The refinement.  Atomico!Op is the copy of Op that the instance of      *)
(* AlmacenAtomico brings along: the copies are the originals.              *)

(* Values, answers and plans,                                              *)
LEMMA CopiasDeValores ==
  /\ Atomico!Nada = Nada /\ Atomico!SinVida = SinVida
  /\ Atomico!Nil = Nil /\ Atomico!Ok = Ok /\ Atomico!BulkNil = BulkNil
  /\ Atomico!WrongType = WrongType /\ Atomico!NoEntero = NoEntero
  /\ Atomico!ErrBdd = ErrBdd
  /\ \A e : Atomico!Error(e) = Error(e)
  /\ \A n : Atomico!Entero(n) = Entero(n)
  /\ \A s : Atomico!Str(s) = Str(s)
  /\ \A l : Atomico!Lista(l) = Lista(l)
  /\ \A s : Atomico!Conjunto(s) = Conjunto(s)
  /\ \A s : Atomico!Bulk(s) = Bulk(s) /\ Atomico!Simple(s) = Simple(s)
  /\ \A rs : Atomico!Vector(rs) = Vector(rs)
  /\ \A S : Atomico!Miembros(S) = Miembros(S)
  /\ \A v : Atomico!TipoDe(v) = TipoDe(v)
<1> USE DEF Atomico!Nada, Nada, Atomico!SinVida, SinVida, Atomico!Nil, Nil, Atomico!Ok, Ok,
        Atomico!BulkNil, BulkNil, Atomico!WrongType, WrongType, Atomico!NoEntero, NoEntero,
        Atomico!ErrBdd, ErrBdd, Atomico!Error, Error
<1>1. /\ Atomico!Nada = Nada /\ Atomico!SinVida = SinVida
      /\ Atomico!Nil = Nil /\ Atomico!Ok = Ok /\ Atomico!BulkNil = BulkNil
      /\ Atomico!WrongType = WrongType /\ Atomico!NoEntero = NoEntero
      /\ Atomico!ErrBdd = ErrBdd
      /\ \A e : Atomico!Error(e) = Error(e)
  OBVIOUS
<1>2. /\ \A n : Atomico!Entero(n) = Entero(n)
      /\ \A s : Atomico!Str(s) = Str(s)
      /\ \A l : Atomico!Lista(l) = Lista(l)
      /\ \A s : Atomico!Conjunto(s) = Conjunto(s)
      /\ \A s : Atomico!Bulk(s) = Bulk(s) /\ Atomico!Simple(s) = Simple(s)
      /\ \A rs : Atomico!Vector(rs) = Vector(rs)
      /\ \A S : Atomico!Miembros(S) = Miembros(S)
  BY DEF Atomico!Entero, Entero, Atomico!Str, Str, Atomico!Lista, Lista, Atomico!Conjunto,
         Conjunto, Atomico!Bulk, Bulk, Atomico!Simple, Simple, Atomico!Vector, Vector,
         Atomico!Miembros, Miembros
<1>3. \A v : Atomico!TipoDe(v) = TipoDe(v)
  BY DEF Atomico!TipoDe, TipoDe
<1> QED BY ONLY <1>1, <1>2, <1>3

(* Plans,                                                                  *)
LEMMA CopiasDePlan ==
  /\ Atomico!Panico = Panico
  /\ \A r : Atomico!Responde(r) = Responde(r)
  /\ \A x, r : Atomico!Escribe(x, r) = Escribe(x, r)
  /\ \A x, r : Atomico!Canjea(x, r) = Canjea(x, r)
  /\ \A x, n, r : Atomico!EscribeHasta(x, n, r) = EscribeHasta(x, n, r)
BY CopiasDeValores
   DEF Atomico!Plan, Plan, Atomico!Panico, Panico, Atomico!Responde, Responde,
       Atomico!Escribe, Escribe, Atomico!Canjea, Canjea, Atomico!EscribeHasta, EscribeHasta

(* sequences and cardinality,                                              *)
LEMMA CopiasDeSecuencias ==
  /\ \A S : Atomico!Cardinality(S) = Cardinality(S)
  /\ \A s : Atomico!Reverse(s) = Reverse(s)
  /\ \A s : Atomico!ToSet(s) = ToSet(s)
  /\ \A s, x : Atomico!Contains(s, x) = Contains(s, x)
<1>1. \A S : Atomico!Cardinality(S) = Cardinality(S)
  BY DEF Atomico!Cardinality, Cardinality
<1>2. /\ \A s : Atomico!Reverse(s) = Reverse(s)
      /\ \A s : Atomico!ToSet(s) = ToSet(s)
      /\ \A s, x : Atomico!Contains(s, x) = Contains(s, x)
  BY DEF Atomico!Reverse, Reverse, Atomico!ToSet, ToSet, Atomico!Contains, Contains
<1> QED BY ONLY <1>1, <1>2

(* the operations of the table,                                            *)
LEMMA CopiasDeTabla ==
  /\ \A T, k, t : Atomico!ObtenerValor(T, k, t) = ObtenerValor(T, k, t)
  /\ \A v, t : Atomico!Vence(v, t) = Vence(v, t)
  /\ \A T : Atomico!Presentes(T) = Presentes(T)
  /\ \A T : Atomico!CantidadClaves(T) = CantidadClaves(T)
  /\ \A T, k : Atomico!ObtenerExpiracion(T, k) = ObtenerExpiracion(T, k)
  /\ \A T, k, n, t : Atomico!ActualizarValorConExpiracion(T, k, n, t)
                       = ActualizarValorConExpiracion(T, k, n, t)
  /\ \A T, k : Atomico!ActualizarValorSinExpiracion(T, k) = ActualizarValorSinExpiracion(T, k)
  /\ \A T, k, a, t : Atomico!CopiarValor(T, k, a, t) = CopiarValor(T, k, a, t)
  /\ \A T, ps : Atomico!GuardarValores(T, ps) = GuardarValores(T, ps)
  /\ Atomico!BorrarClaves = BorrarClaves
  /\ \A T, k, p, t : Atomico!Aplicar(T, k, p, t) = Aplicar(T, k, p, t)
<1>1. /\ \A T, k, t : Atomico!ObtenerValor(T, k, t) = ObtenerValor(T, k, t)
      /\ \A v, t : Atomico!Vence(v, t) = Vence(v, t)
  BY CopiasDeValores
     DEF Atomico!ObtenerValor, ObtenerValor, Atomico!Get, Get, Atomico!Vence, Vence,
         Atomico!Expiro, Expiro
<1>2. /\ \A T : Atomico!Presentes(T) = Presentes(T)
      /\ \A T, k : Atomico!ObtenerExpiracion(T, k) = ObtenerExpiracion(T, k)
  BY CopiasDeValores
     DEF Atomico!Presentes, Presentes, Atomico!ObtenerExpiracion, ObtenerExpiracion
<1>3. \A T : Atomico!CantidadClaves(T) = CantidadClaves(T)
  BY <1>2, CopiasDeSecuencias DEF Atomico!CantidadClaves, CantidadClaves
<1>4. /\ \A x : Atomico!NoExpirable(x) = NoExpirable(x)
      /\ \A x, n, t : Atomico!Expirable(x, n, t) = Expirable(x, n, t)
      /\ Atomico!Ausente = Ausente
  BY CopiasDeValores DEF Atomico!NoExpirable, NoExpirable, Atomico!Expirable, Expirable,
                         Atomico!Ausente, Ausente
<1>5. /\ \A T, k, x : Atomico!GuardarValor(T, k, x) = GuardarValor(T, k, x)
      /\ \A T, k, n, x, t : Atomico!GuardarValorConExpiracion(T, k, n, x, t)
                              = GuardarValorConExpiracion(T, k, n, x, t)
      /\ \A T, k : Atomico!EliminarClave(T, k) = EliminarClave(T, k)
  BY <1>4 DEF Atomico!GuardarValor, GuardarValor, Atomico!GuardarValorConExpiracion,
              GuardarValorConExpiracion, Atomico!EliminarClave, EliminarClave
<1>6. /\ \A T, k, n, t : Atomico!ActualizarValorConExpiracion(T, k, n, t)
                           = ActualizarValorConExpiracion(T, k, n, t)
      /\ \A T, k : Atomico!ActualizarValorSinExpiracion(T, k) = ActualizarValorSinExpiracion(T, k)
  BY <1>2, <1>4 DEF Atomico!ActualizarValorConExpiracion, ActualizarValorConExpiracion,
                    Atomico!ActualizarValorSinExpiracion, ActualizarValorSinExpiracion
<1>7. \A T, k, a, t : Atomico!CopiarValor(T, k, a, t) = CopiarValor(T, k, a, t)
  BY <1>1, <1>5, CopiasDeValores DEF Atomico!CopiarValor, CopiarValor
<1>8. \A T, ps : Atomico!GuardarValores(T, ps) = GuardarValores(T, ps)
  BY <1>4, CopiasDeValores DEF Atomico!GuardarValores, GuardarValores
<1>9. Atomico!BorrarClaves = BorrarClaves
  BY <1>4 DEF Atomico!BorrarClaves, BorrarClaves
<1>10. \A T, k, p, t : Atomico!Aplicar(T, k, p, t) = Aplicar(T, k, p, t)
  <2> SUFFICES ASSUME NEW T, NEW k, NEW p, NEW t
               PROVE  Atomico!Aplicar(T, k, p, t) = Aplicar(T, k, p, t)
    OBVIOUS
  <2> QED BY <1>5, CopiasDeValores DEF Atomico!Aplicar, Aplicar
<1> QED BY ONLY <1>1, <1>2, <1>3, <1>6, <1>7, <1>8, <1>9, <1>10

(* the plans of the string commands,                                       *)
LEMMA CopiasDeString ==
  /\ \A v : /\ Atomico!PlanGet(v) = PlanGet(v)
            /\ Atomico!PlanGetDel(v) = PlanGetDel(v)
            /\ Atomico!PlanStrlen(v) = PlanStrlen(v)
  /\ \A v, x : /\ Atomico!PlanAppend(v, x) = PlanAppend(v, x)
               /\ Atomico!PlanGetSet(v, x) = PlanGetSet(v, x)
  /\ \A ps : Atomico!PlanSet(ps) = PlanSet(ps)
  /\ \A v, d, g : Atomico!PlanOperar(v, d, g) = PlanOperar(v, d, g)
<1> USE CopiasDeValores, CopiasDePlan
<1>1. ASSUME NEW v
      PROVE  /\ Atomico!PlanGet(v) = PlanGet(v)
             /\ Atomico!PlanGetDel(v) = PlanGetDel(v)
             /\ Atomico!PlanStrlen(v) = PlanStrlen(v)
  BY DEF Atomico!PlanGet, PlanGet, Atomico!PlanGetDel, PlanGetDel, Atomico!PlanStrlen, PlanStrlen
<1>2. ASSUME NEW v, NEW x
      PROVE  /\ Atomico!PlanAppend(v, x) = PlanAppend(v, x)
             /\ Atomico!PlanGetSet(v, x) = PlanGetSet(v, x)
  BY DEF Atomico!PlanAppend, PlanAppend, Atomico!PlanGetSet, PlanGetSet
<1>3. ASSUME NEW ps
      PROVE  Atomico!PlanSet(ps) = PlanSet(ps)
  <2>1. \A w : Atomico!TrasElUltimo(ps, w) = TrasElUltimo(ps, w)
    BY ONLY TRUE DEF Atomico!TrasElUltimo, TrasElUltimo
  <2>2. ASSUME NEW w, NEW d
        PROVE  Atomico!PlanSetConVida(ps, w, d) = PlanSetConVida(ps, w, d)
    BY <2>1 DEF Atomico!PlanSetConVida, PlanSetConVida
  <2> QED BY <2>2, CopiasDeSecuencias DEF Atomico!PlanSet, PlanSet
<1>4. ASSUME NEW v, NEW d, NEW g
      PROVE  Atomico!PlanOperar(v, d, g) = PlanOperar(v, d, g)
  BY DEF Atomico!PlanOperar, PlanOperar, Atomico!EsNumero, EsNumero, Atomico!Envolver, Envolver,
         Atomico!I32, I32
<1> QED BY ONLY <1>1, <1>2, <1>3, <1>4

(* of the list commands                                                    *)
LEMMA CopiasDeLista ==
  /\ \A v : Atomico!PlanLLen(v) = PlanLLen(v)
  /\ \A v, i : Atomico!PlanLIndex(v, i) = PlanLIndex(v, i)
  /\ \A v, n, f : Atomico!PlanPop(v, n, f) = PlanPop(v, n, f)
  /\ \A v, ps, f, g : Atomico!PlanPush(v, ps, f, g) = PlanPush(v, ps, f, g)
  /\ \A v, i, j : Atomico!PlanLRange(v, i, j) = PlanLRange(v, i, j)
  /\ \A v, i, x : /\ Atomico!PlanLRem(v, i, x) = PlanLRem(v, i, x)
                  /\ Atomico!PlanLSet(v, i, x) = PlanLSet(v, i, x)
<1> USE CopiasDeValores, CopiasDePlan
<1>1. /\ \A x : Atomico!BulkDe(x) = BulkDe(x)
      /\ \A l : Atomico!ListaONada(l) = ListaONada(l)
      /\ \A i, m : Atomico!EstaEnRango(i, m) = EstaEnRango(i, m)
  BY DEF Atomico!BulkDe, BulkDe, Atomico!ListaONada, ListaONada, Atomico!EstaEnRango, EstaEnRango
<1>2. \A l : Atomico!VectorDe(l) = VectorDe(l)
  BY <1>1 DEF Atomico!VectorDe, VectorDe
<1>3. ASSUME NEW v
      PROVE  Atomico!PlanLLen(v) = PlanLLen(v)
  BY DEF Atomico!PlanLLen, PlanLLen
<1>4. ASSUME NEW v, NEW i
      PROVE  Atomico!PlanLIndex(v, i) = PlanLIndex(v, i)
  BY <1>1 DEF Atomico!PlanLIndex, PlanLIndex
<1>5. ASSUME NEW v, NEW n, NEW f
      PROVE  Atomico!PlanPop(v, n, f) = PlanPop(v, n, f)
  <2>1. Atomico!Sacar(v.lista, n, f) = Sacar(v.lista, n, f)
    BY CopiasDeSecuencias DEF Atomico!Sacar, Sacar
  <2> QED BY <1>1, <1>2, <2>1 DEF Atomico!PlanPop, PlanPop
<1>6. ASSUME NEW v, NEW ps, NEW f, NEW g
      PROVE  Atomico!PlanPush(v, ps, f, g) = PlanPush(v, ps, f, g)
  <2>1. \A l : Atomico!Empujar(l, ps, f) = Empujar(l, ps, f)
    BY CopiasDeSecuencias DEF Atomico!Empujar, Empujar
  <2> QED BY <2>1 DEF Atomico!PlanPush, PlanPush
<1>7. ASSUME NEW v, NEW i, NEW j
      PROVE  Atomico!PlanLRange(v, i, j) = PlanLRange(v, i, j)
  <2>1. /\ Atomico!NoHay = NoHay
        /\ \A h, m : /\ Atomico!IndiceInferior(h, m) = IndiceInferior(h, m)
                     /\ Atomico!IndiceSuperior(h, m) = IndiceSuperior(h, m)
    BY <1>1 DEF Atomico!NoHay, NoHay, Atomico!IndiceInferior, IndiceInferior,
                Atomico!IndiceSuperior, IndiceSuperior
  <2> QED BY <1>2, <2>1 DEF Atomico!PlanLRange, PlanLRange
<1>8. ASSUME NEW v, NEW i, NEW x
      PROVE  Atomico!PlanLRem(v, i, x) = PlanLRem(v, i, x)
  <2>1. \A l, n : Atomico!Borrados(l, n, x) = Borrados(l, n, x)
    BY CopiasDeSecuencias DEF Atomico!Borrados, Borrados
  <2>2. ASSUME NEW l, NEW Q
        PROVE  Atomico!Elegidos(l, Q) = Elegidos(l, Q)
    <3>1. \A j : Atomico!Puesto(Q, j) = Puesto(Q, j)
      BY CopiasDeSecuencias DEF Atomico!Puesto, Puesto
    <3> DEFINE A(n) == CHOOSE j \in DOMAIN l : (\E h \in Q : Atomico!Puesto(Q, h) = n)
                                                 => j \in Q /\ Atomico!Puesto(Q, j) = n
               B(n) == CHOOSE j \in DOMAIN l : (\E h \in Q : Puesto(Q, h) = n)
                                                 => j \in Q /\ Puesto(Q, j) = n
    <3>2. ASSUME NEW n
          PROVE  A(n) = B(n)
      BY <3>1
    <3>3. Atomico!Elegidos(l, Q) = [n \in 1 .. Cardinality(Q) |-> l[A(n)]]
      BY CopiasDeSecuencias DEF Atomico!Elegidos
    <3>4. Elegidos(l, Q) = [n \in 1 .. Cardinality(Q) |-> l[B(n)]]
      BY DEF Elegidos
    <3> HIDE DEF A, B
    <3> QED BY <3>2, <3>3, <3>4
  <2> QED BY <1>1, <2>1, <2>2, CopiasDeSecuencias DEF Atomico!PlanLRem, PlanLRem
<1>9. ASSUME NEW v, NEW i, NEW x
      PROVE  Atomico!PlanLSet(v, i, x) = PlanLSet(v, i, x)
  BY <1>1 DEF Atomico!PlanLSet, PlanLSet, Atomico!Insertar, Insertar
<1> QED BY ONLY <1>3, <1>4, <1>5, <1>6, <1>7, <1>8, <1>9

(* and of the set commands.                                                *)
LEMMA CopiasDeConjunto ==
  /\ \A v, ps : /\ Atomico!PlanSAdd(v, ps) = PlanSAdd(v, ps)
                /\ Atomico!PlanSRem(v, ps) = PlanSRem(v, ps)
  /\ \A v : /\ Atomico!PlanSCard(v) = PlanSCard(v)
            /\ Atomico!PlanSMembers(v) = PlanSMembers(v)
  /\ \A v, ps : Atomico!PlanSIsMember(v, ps) = PlanSIsMember(v, ps)
<1> USE CopiasDeValores, CopiasDePlan, CopiasDeSecuencias
<1>1. ASSUME NEW v, NEW ps
      PROVE  /\ Atomico!PlanSAdd(v, ps) = PlanSAdd(v, ps)
             /\ Atomico!PlanSRem(v, ps) = PlanSRem(v, ps)
  BY DEF Atomico!PlanSAdd, PlanSAdd, Atomico!PlanSRem, PlanSRem
<1>2. ASSUME NEW v
      PROVE  /\ Atomico!PlanSCard(v) = PlanSCard(v)
             /\ Atomico!PlanSMembers(v) = PlanSMembers(v)
             /\ \A ps : Atomico!PlanSIsMember(v, ps) = PlanSIsMember(v, ps)
  BY DEF Atomico!PlanSCard, PlanSCard, Atomico!PlanSMembers, PlanSMembers,
         Atomico!PlanSIsMember, PlanSIsMember
<1> QED BY ONLY <1>1, <1>2

-----------------------------------------------------------------------------
(* What a thread in the middle of a command has done so far, in the words  *)
(* of AlmacenAtomico.  The keys that EXISTS and MGET have visited gave     *)
(* answers that one reading vs of all the keys explains: what the loop     *)
(* carries is what that reading gives for the first n keys.                *)
Llenos(vs, n) == {i \in 1 .. n : vs[i] # Nada}

Explica(c, ks, vs, n) ==
  /\ pend[c].faltan = SubSeq(ks, n + 1, Len(ks))
  /\ pend[c].op = "MGET" =>
       /\ Len(pend[c].valores) = n
       /\ \A i \in 1 .. n : pend[c].valores[i] = Atomico!DeMget(vs[i])
  /\ pend[c].op = "EXISTS" => pend[c].cuenta = Cardinality(Llenos(vs, n))

Reune(c) ==
  \E ks \in Grupos : \E vs \in Atomico!Lecturas(ks), n \in 0 .. Len(ks) :
    ToSet(ks) \subseteq Permitidas[c] /\ Explica(c, ks, vs, n)

(* The lifetime EXPIREAT carries is no shorter than it was asked for.      *)
EnPlazo(n, t) == n <= MaxI32 /\ \E p \in Cantidades : n <= p /\ p <= t + n + 1

(* A plan that waits for its second section is one that the command makes  *)
(* from the value read.                                                    *)
EnMarcha(c) ==
  /\ fase[c] # "borrar"
  /\ fase[c] = "muerto" => resp[c] = Nil
  /\ fase[c] = "escribir" =>
       /\ pend[c].plan.accion = "escribir"
       /\ \E cmd \in Comandos[c] : pend[c].plan \in Atomico!PlanesPartidos(cmd, pend[c].leido)
  /\ fase[c] = "expirar" => EnPlazo(pend[c].vida, ahora)
  /\ fase[c] = "multiple" => /\ pend[c].op \in Comandos[c] \cap {"EXISTS", "MGET"}
                             /\ Reune(c)

(* DEL and RENAME change their keys one section at a time: the abstract    *)
(* specification does not promise them.                                    *)
SinPorPartes == \A c \in Clientes : Comandos[c] \cap {"DEL", "RENAME"} = {}

PasoAbstracto(c) ==
  \/ Atomico!EjecutarEntera(c) \/ Atomico!Despedir(c) \/ Atomico!EjecutarPartida(c)
  \/ Atomico!Administrar(c) \/ Atomico!Desbordar(c) \/ Atomico!Consultar(c)
  \/ Atomico!Rechazar(c) \/ Atomico!Volver(c)
  \/ UNCHANGED Atomico!vars

(* A step of client c that AlmacenAtomico can take as well.                *)
Simula(c) ==
  /\ PasoAbstracto(c)
  /\ EnMarcha(c)'
  /\ \A d \in Clientes \ {c} : resp'[d] = resp[d]

(* An answer is an abstract answer,                                        *)
LEMMA RespuestaSimula ==
  ASSUME Inv, NEW c \in Clientes, fase[c] # "muerto", NEW r, Responder(c, r), ahora' = ahora
  PROVE  /\ Atomico!Contesta(c, r)
         /\ EnMarcha(c)'
         /\ \A d \in Clientes \ {c} : resp'[d] = resp[d]
<1>1. fase \in [Clientes -> Fases] /\ resp \in [Clientes -> ResultadoRedis]
  BY DEF Inv, TypeOK, TipoLocal
<1>2. /\ fase' = [fase EXCEPT ![c] = "libre"]
      /\ resp' = [resp EXCEPT ![c] = r]
  BY DEF Responder, Pasar
<1>3. fase'[c] = "libre" /\ \A d \in Clientes \ {c} : fase'[d] = fase[d] /\ resp'[d] = resp[d]
  BY <1>1, <1>2
<1>4. {d \in Clientes : fase'[d] = "muerto"} = {d \in Clientes : fase[d] = "muerto"}
  BY <1>3
<1>5. Atomico!Contesta(c, r)
  BY <1>2, <1>4 DEF Atomico!Contesta
<1>6. EnMarcha(c)'
  BY <1>3 DEF EnMarcha
<1> QED BY <1>3, <1>5, <1>6

(* the death of a thread is an abstract death,                             *)
LEMMA MuerteSimula ==
  ASSUME Inv, NEW c \in Clientes, fase[c] # "muerto", Morir(c), UNCHANGED <<tabla, ahora>>
  PROVE  /\ Atomico!Muere(c)
         /\ EnMarcha(c)'
         /\ \A d \in Clientes \ {c} : resp'[d] = resp[d]
<1>1. fase \in [Clientes -> Fases] /\ resp \in [Clientes -> ResultadoRedis]
  BY DEF Inv, TypeOK, TipoLocal
<1>2. /\ fase' = [fase EXCEPT ![c] = "muerto"]
      /\ resp' = [resp EXCEPT ![c] = Nil]
  BY DEF Morir, Pasar, SinRespuesta
<1>3. /\ fase'[c] = "muerto" /\ resp'[c] = Nil
      /\ \A d \in Clientes \ {c} : fase'[d] = fase[d] /\ resp'[d] = resp[d]
  BY <1>1, <1>2
<1>4. {d \in Clientes : fase'[d] = "muerto"} = {d \in Clientes : fase[d] = "muerto"} \cup {c}
  BY <1>3
<1>5. Atomico!Muere(c)
  BY <1>2, <1>4, CopiasDeValores DEF Atomico!Muere
<1>6. EnMarcha(c)'
  BY <1>3 DEF EnMarcha
<1> QED BY <1>3, <1>5, <1>6

(* and a section that is not the last one is no abstract step.             *)
LEMMA SeguirSimula ==
  ASSUME Inv, NEW c \in Clientes, fase[c] # "muerto",
         NEW f \in Fases \ {"muerto"}, NEW p, Seguir(c, f, p),
         UNCHANGED <<tabla, envenenado, ahora>>
  PROVE  /\ UNCHANGED Atomico!vars
         /\ fase'[c] = f /\ pend'[c] = p
         /\ \A d \in Clientes \ {c} : resp'[d] = resp[d]
<1>1. /\ fase \in [Clientes -> Fases] /\ resp \in [Clientes -> ResultadoRedis]
      /\ pend \in [Clientes -> Pendientes]
  BY DEF Inv, TypeOK, TipoLocal
<1>2. /\ fase' = [fase EXCEPT ![c] = f] /\ pend' = [pend EXCEPT ![c] = p]
      /\ resp' = [resp EXCEPT ![c] = resp[c]]
  BY DEF Seguir, Pasar
<1>3. /\ fase'[c] = f /\ pend'[c] = p /\ resp' = resp
      /\ \A d \in Clientes \ {c} : fase'[d] = fase[d]
  BY <1>1, <1>2
<1>4. {d \in Clientes : fase'[d] = "muerto"} = {d \in Clientes : fase[d] = "muerto"}
  BY <1>3
<1> QED BY <1>3, <1>4 DEF Atomico!vars

(* A command that finds the mutex poisoned is refused.                     *)
LEMMA RechazoSimula ==
  ASSUME Inv, NEW c \in Clientes, fase[c] # "muerto", envenenado, Responder(c, ErrBdd),
         UNCHANGED <<tabla, envenenado, ahora>>
  PROVE  Simula(c)
<1>1. /\ Atomico!Contesta(c, ErrBdd) /\ EnMarcha(c)'
      /\ \A d \in Clientes \ {c} : resp'[d] = resp[d]
  BY RespuestaSimula
<1>2. Atomico!Rechazar(c)
  BY <1>1, CopiasDeValores DEF Atomico!Rechazar
<1> QED BY <1>1, <1>2 DEF Simula, PasoAbstracto

(* A last section either refuses or answers and leaves its table.          *)
LEMMA SeccionSimula ==
  ASSUME Inv, NEW c \in Clientes, fase[c] # "muerto", NEW T, NEW E, NEW r,
         Seccion(c, T, E, r)
  PROVE  \/ Simula(c)
         \/ /\ ~envenenado /\ tabla' = T /\ UNCHANGED envenenado
            /\ Atomico!Contesta(c, r) /\ EnMarcha(c)'
            /\ \A d \in Clientes \ {c} : resp'[d] = resp[d]
<1>1. CASE envenenado
  BY <1>1, RechazoSimula DEF Seccion
<1>2. CASE ~envenenado
  <2>1. tabla' = T /\ Responder(c, r) /\ UNCHANGED <<envenenado, ahora>>
    BY <1>2 DEF Seccion
  <2> QED BY <1>2, <2>1, RespuestaSimula
<1> QED BY <1>1, <1>2

(* A command that holds the mutex throughout,                              *)
LEMMA EnteraSimula ==
  ASSUME Inv, NEW c \in Clientes, fase[c] = "libre",
         NEW k \in Permitidas[c], NEW cmd \in Comandos[c],
         NEW p \in Atomico!PlanesEnteros(cmd, Leido(k)),
         Entera(c, k, p)
  PROVE  Simula(c)
<1> DEFINE T == Aplicar(tabla, k, p, ahora)
           E == IF p.accion = "escribir" THEN T ELSE enviado
<1>0. Atomico!Visible(k) = Leido(k) /\ T = Atomico!Aplicar(tabla, k, p, ahora)
  BY CopiasDeTabla DEF Atomico!Visible, Leido
<1>1. CASE Seccion(c, T, E, p.res) /\ (p.accion # "panico" \/ envenenado)
  <2>1. CASE Simula(c)
    BY <2>1
  <2>2. CASE /\ ~envenenado /\ tabla' = T /\ UNCHANGED envenenado
             /\ Atomico!Contesta(c, p.res) /\ EnMarcha(c)'
             /\ \A d \in Clientes \ {c} : resp'[d] = resp[d]
    <3>1. Atomico!Ejecutar(c, k, p)
      BY <1>0, <1>1, <2>2 DEF Atomico!Ejecutar
    <3>2. Atomico!EjecutarEntera(c)
      BY <1>0, <2>2, <3>1 DEF Atomico!EjecutarEntera
    <3> QED BY <2>2, <3>2 DEF Simula, PasoAbstracto
  <2> HIDE DEF T, E
  <2> QED BY <1>1, <2>1, <2>2, SeccionSimula
<1>2. CASE p.accion = "panico" /\ ~envenenado
  <2>1. envenenado' = TRUE /\ Morir(c) /\ UNCHANGED <<tabla, ahora>>
    BY <1>2 DEF Entera
  <2>2. /\ Atomico!Muere(c) /\ EnMarcha(c)'
        /\ \A d \in Clientes \ {c} : resp'[d] = resp[d]
    BY <2>1, MuerteSimula
  <2>3. Atomico!EjecutarEntera(c)
    BY <1>0, <1>2, <2>1, <2>2 DEF Atomico!EjecutarEntera
  <2> QED BY <2>2, <2>3 DEF Simula, PasoAbstracto
<1> QED BY <1>1, <1>2 DEF Entera

(* and one that reads and then writes: its first section,                  *)
LEMMA LeerSimula ==
  ASSUME Inv, NEW c \in Clientes, fase[c] = "libre",
         NEW k \in Permitidas[c], NEW cmd \in Comandos[c],
         NEW p \in Planes, p \in Atomico!PlanesPartidos(cmd, Leido(k)),
         Leer(c, k, p)
  PROVE  Simula(c)
<1>0. /\ Atomico!Visible(k) = Leido(k)
      /\ UNCHANGED <<tabla, envenenado, ahora>>
  BY CopiasDeTabla DEF Atomico!Visible, Leido, Leer, compartidas
<1>1. Leido(k) \in Atomico!Vistos(k)
  BY <1>0 DEF Atomico!Vistos
<1>2. CASE envenenado /\ Responder(c, ErrBdd)
  BY <1>0, <1>2, RechazoSimula
<1>3. CASE ~envenenado /\ p.accion = "responder" /\ Responder(c, p.res)
  <2>1. Atomico!Aplicar(tabla, k, p, ahora) = tabla
    BY <1>3, CopiasDeTabla DEF Planes, Aplicar
  <2>2. /\ Atomico!Contesta(c, p.res) /\ EnMarcha(c)'
        /\ \A d \in Clientes \ {c} : resp'[d] = resp[d]
    BY <1>0, <1>3, RespuestaSimula
  <2>3. Atomico!Ejecutar(c, k, p)
    BY <1>0, <1>3, <2>1, <2>2 DEF Atomico!Ejecutar
  <2>4. Atomico!EjecutarPartida(c)
    BY <1>1, <1>3, <2>3 DEF Atomico!EjecutarPartida
  <2> QED BY <2>2, <2>4 DEF Simula, PasoAbstracto
<1>4. CASE ~envenenado /\ p.accion = "panico" /\ Morir(c)
  <2>1. /\ Atomico!Muere(c) /\ EnMarcha(c)'
        /\ \A d \in Clientes \ {c} : resp'[d] = resp[d]
    BY <1>0, <1>4, MuerteSimula
  <2>2. Atomico!EjecutarPartida(c)
    BY <1>0, <1>1, <1>4, <2>1 DEF Atomico!EjecutarPartida
  <2> QED BY <2>1, <2>2 DEF Simula, PasoAbstracto
<1>5. CASE /\ ~envenenado /\ p.accion = "escribir"
           /\ Seguir(c, "escribir", [clave |-> k, leido |-> Leido(k), plan |-> p])
  <2> DEFINE q == [clave |-> k, leido |-> Leido(k), plan |-> p]
  <2>1. q.leido = Leido(k) /\ q.plan = p /\ "escribir" \in Fases \ {"muerto"}
    BY DEF Fases
  <2>2. Seguir(c, "escribir", q)
    BY <1>5
  <2> HIDE DEF q
  <2>3. /\ UNCHANGED Atomico!vars /\ fase'[c] = "escribir" /\ pend'[c] = q
        /\ \A d \in Clientes \ {c} : resp'[d] = resp[d]
    BY <1>0, <2>1, <2>2, SeguirSimula
  <2>4. EnMarcha(c)'
    BY <1>5, <2>1, <2>3 DEF EnMarcha
  <2> QED BY <2>3, <2>4 DEF Simula, PasoAbstracto
<1> QED BY <1>2, <1>3, <1>4, <1>5 DEF Leer

(* and its second section, which acts on a value the key still shows.      *)
LEMMA EscribirSimula ==
  ASSUME Inv, CopiaVigente, NEW c \in Clientes, EnMarcha(c), Escribir(c)
  PROVE  Simula(c)
<1> DEFINE k == pend[c].clave
           p == pend[c].plan
           v == pend[c].leido
           T == Aplicar(tabla, k, p, ahora)
<1>0. fase[c] = "escribir" /\ Seccion(c, T, T, p.res)
  BY DEF Escribir
<1>1. k \in Permitidas[c] /\ p.accion = "escribir"
  BY <1>0 DEF Inv, EnCurso, EnMarcha
<1>2. PICK cmd \in Comandos[c] : p \in Atomico!PlanesPartidos(cmd, v)
  BY <1>0 DEF EnMarcha
<1>3. v \in Atomico!Vistos(k)
  BY <1>0, CopiasDeTabla DEF CopiaVigente, Atomico!Vistos, Atomico!Visible, ObtenerValor, Get
<1>4. T = Atomico!Aplicar(tabla, k, p, ahora)
  BY CopiasDeTabla
<1> HIDE DEF k, p, v, T
<1>5. CASE /\ ~envenenado /\ tabla' = T /\ UNCHANGED envenenado
           /\ Atomico!Contesta(c, p.res) /\ EnMarcha(c)'
           /\ \A d \in Clientes \ {c} : resp'[d] = resp[d]
  <2>1. Atomico!Ejecutar(c, k, p)
    BY <1>1, <1>4, <1>5 DEF Atomico!Ejecutar
  <2>2. Atomico!EjecutarPartida(c)
    BY <1>1, <1>2, <1>3, <1>5, <2>1 DEF Atomico!EjecutarPartida
  <2> QED BY <1>5, <2>2 DEF Simula, PasoAbstracto
<1> QED BY <1>0, <1>5, SeccionSimula

-----------------------------------------------------------------------------
(* The plan of every command is one the abstract specification has for it: *)
(* the commands that hold the mutex throughout,                            *)
LEMMA PlanEntero ==
  ASSUME NEW v
  PROVE  /\ PlanGet(v) \in Atomico!PlanesEnteros("GET", v)
         /\ PlanStrlen(v) \in Atomico!PlanesEnteros("STRLEN", v)
         /\ \A ps \in Pedidos : PlanSet(ps) \in Atomico!PlanesEnteros("SET", v)
         /\ \A x \in Textos : PlanGetSet(v, x) \in Atomico!PlanesEnteros("GETSET", v)
         /\ \A x \in Textos : PlanAppend(v, x) \in Atomico!PlanesEnteros("APPEND", v)
         /\ PlanLLen(v) \in Atomico!PlanesEnteros("LLEN", v)
         /\ \A ps \in Tandas : PlanSAdd(v, ps) \in Atomico!PlanesEnteros("SADD", v)
         /\ \A ps \in Tandas : PlanSRem(v, ps) \in Atomico!PlanesEnteros("SREM", v)
         /\ PlanSCard(v) \in Atomico!PlanesEnteros("SCARD", v)
         /\ \A ps \in UnoONinguno : PlanSIsMember(v, ps) \in Atomico!PlanesEnteros("SISMEMBER", v)
         /\ PlanSMembers(v) \in Atomico!PlanesEnteros("SMEMBERS", v)
         /\ Responde(TipoDe(v)) \in Atomico!PlanesEnteros("TYPE", v)
BY CopiasDeValores, CopiasDePlan, CopiasDeString, CopiasDeLista, CopiasDeConjunto
   DEF Atomico!PlanesEnteros, Atomico!UnoONinguno, UnoONinguno

(* and the ones that release it.                                           *)
LEMMA PlanPartido ==
  ASSUME NEW v
  PROVE  /\ PlanGetDel(v) \in Atomico!PlanesPartidos("GETDEL", v)
         /\ \A d \in Numeros \cup {NoNumero} :
              /\ PlanOperar(v, d, 1) \in Atomico!PlanesPartidos("INCRBY", v)
              /\ PlanOperar(v, d, -1) \in Atomico!PlanesPartidos("DECRBY", v)
              /\ PlanLIndex(v, d) \in Atomico!PlanesPartidos("LINDEX", v)
         /\ \A n \in Cantidades :
              /\ PlanPop(v, n, FALSE) \in Atomico!PlanesPartidos("LPOP", v)
              /\ PlanPop(v, n, TRUE) \in Atomico!PlanesPartidos("RPOP", v)
         /\ \A ps \in Tandas :
              /\ PlanPush(v, ps, FALSE, TRUE) \in Atomico!PlanesPartidos("LPUSH", v)
              /\ PlanPush(v, ps, FALSE, FALSE) \in Atomico!PlanesPartidos("LPUSHX", v)
              /\ PlanPush(v, ps, TRUE, TRUE) \in Atomico!PlanesPartidos("RPUSH", v)
              /\ PlanPush(v, ps, TRUE, FALSE) \in Atomico!PlanesPartidos("RPUSHX", v)
         /\ \A i \in Numeros, j \in Numeros :
              PlanLRange(v, i, j) \in Atomico!PlanesPartidos("LRANGE", v)
         /\ \A i \in Numeros, x \in Textos :
              /\ PlanLRem(v, i, x) \in Atomico!PlanesPartidos("LREM", v)
              /\ PlanLSet(v, i, x) \in Atomico!PlanesPartidos("LSET", v)
<1>1. /\ PlanGetDel(v) \in Atomico!PlanesPartidos("GETDEL", v)
      /\ \A d \in Numeros \cup {NoNumero} :
           /\ PlanOperar(v, d, 1) \in Atomico!PlanesPartidos("INCRBY", v)
           /\ PlanOperar(v, d, -1) \in Atomico!PlanesPartidos("DECRBY", v)
  BY CopiasDeString DEF Atomico!PlanesPartidos
<1>2. /\ \A d \in Numeros \cup {NoNumero} : PlanLIndex(v, d) \in Atomico!PlanesPartidos("LINDEX", v)
      /\ \A n \in Cantidades :
           /\ PlanPop(v, n, FALSE) \in Atomico!PlanesPartidos("LPOP", v)
           /\ PlanPop(v, n, TRUE) \in Atomico!PlanesPartidos("RPOP", v)
  <2>1. /\ Atomico!PlanesPartidos("LINDEX", v)
             = {Atomico!PlanLIndex(v, d) : d \in Numeros \cup {NoNumero}}
        /\ Atomico!PlanesPartidos("LPOP", v) = {Atomico!PlanPop(v, n, FALSE) : n \in Cantidades}
        /\ Atomico!PlanesPartidos("RPOP", v) = {Atomico!PlanPop(v, n, TRUE) : n \in Cantidades}
    BY DEF Atomico!PlanesPartidos, Atomico!Cantidades, Cantidades
  <2> QED BY <2>1, CopiasDeLista, Zenon
<1>3. \A ps \in Tandas :
        /\ PlanPush(v, ps, FALSE, TRUE) \in Atomico!PlanesPartidos("LPUSH", v)
        /\ PlanPush(v, ps, FALSE, FALSE) \in Atomico!PlanesPartidos("LPUSHX", v)
        /\ PlanPush(v, ps, TRUE, TRUE) \in Atomico!PlanesPartidos("RPUSH", v)
        /\ PlanPush(v, ps, TRUE, FALSE) \in Atomico!PlanesPartidos("RPUSHX", v)
  <2>1. /\ Atomico!PlanesPartidos("LPUSH", v)
             = {Atomico!PlanPush(v, ps, FALSE, TRUE) : ps \in Tandas}
        /\ Atomico!PlanesPartidos("LPUSHX", v)
             = {Atomico!PlanPush(v, ps, FALSE, FALSE) : ps \in Tandas}
        /\ Atomico!PlanesPartidos("RPUSH", v)
             = {Atomico!PlanPush(v, ps, TRUE, TRUE) : ps \in Tandas}
        /\ Atomico!PlanesPartidos("RPUSHX", v)
             = {Atomico!PlanPush(v, ps, TRUE, FALSE) : ps \in Tandas}
    BY DEF Atomico!PlanesPartidos
  <2> QED BY <2>1, CopiasDeLista, Zenon
<1>4. /\ \A i \in Numeros, j \in Numeros :
           PlanLRange(v, i, j) \in Atomico!PlanesPartidos("LRANGE", v)
      /\ \A i \in Numeros, x \in Textos :
           /\ PlanLRem(v, i, x) \in Atomico!PlanesPartidos("LREM", v)
           /\ PlanLSet(v, i, x) \in Atomico!PlanesPartidos("LSET", v)
  BY CopiasDeLista DEF Atomico!PlanesPartidos
<1> QED BY <1>1, <1>2, <1>3, <1>4

(* The string commands on one key.                                         *)
LEMMA StringSimula ==
  ASSUME Inv, NEW c \in Clientes, NEW k \in Claves,
         \/ GET(c, k) \/ SET(c, k) \/ GETSET(c, k) \/ APPEND(c, k)
         \/ STRLEN(c, k) \/ GETDEL(c, k) \/ INCRBY(c, k) \/ DECRBY(c, k)
  PROVE  Simula(c)
<1>0. k \in Permitidas[c] /\ fase[c] = "libre"
  BY DEF GET, SET, GETSET, APPEND, STRLEN, GETDEL, INCRBY, DECRBY, Pide
<1>1. PICK v \in TipoONada : v = Leido(k)
  BY Lectura
<1>2. CASE GET(c, k)
  BY <1>0, <1>1, <1>2, PlanEntero, EnteraSimula DEF GET, Pide
<1>3. CASE STRLEN(c, k)
  BY <1>0, <1>1, <1>3, PlanEntero, EnteraSimula DEF STRLEN, Pide
<1>4. CASE SET(c, k)
  BY <1>0, <1>1, <1>4, PlanEntero, EnteraSimula DEF SET, Pide
<1>5. CASE GETSET(c, k)
  BY <1>0, <1>1, <1>5, PlanEntero, EnteraSimula DEF GETSET, Pide
<1>6. CASE APPEND(c, k) /\ \E x \in Textos : Entera(c, k, PlanAppend(Leido(k), x))
  BY <1>0, <1>1, <1>6, PlanEntero, EnteraSimula DEF APPEND, Pide
<1>7. CASE APPEND(c, k) /\ Vence(tabla[k], ahora) /\ Entera(c, k, Responde(WrongType))
  <2> DEFINE p == Responde(WrongType)
             T == Aplicar(tabla, k, p, ahora)
             E == IF p.accion = "escribir" THEN T ELSE enviado
  <2>1. p.accion = "responder" /\ p.nuevo = Nada /\ p.accion # "panico"
    BY DEF Responde, Plan
  <2>2. Seccion(c, T, E, p.res)
    BY <1>7, <2>1 DEF Entera
  <2>3. T = Atomico!Aplicar(tabla, k, p, ahora) /\ p = Atomico!Responde(Atomico!WrongType)
        /\ Atomico!Vence(tabla[k], ahora)
    BY <1>7, CopiasDeTabla, CopiasDePlan, CopiasDeValores
  <2>4. "APPEND" \in Comandos[c]
    BY <1>7 DEF APPEND, Pide
  <2> HIDE DEF p, T, E
  <2>5. CASE /\ ~envenenado /\ tabla' = T /\ UNCHANGED envenenado
             /\ Atomico!Contesta(c, p.res) /\ EnMarcha(c)'
             /\ \A d \in Clientes \ {c} : resp'[d] = resp[d]
    <3>1. Atomico!Ejecutar(c, k, p)
      BY <2>1, <2>3, <2>5 DEF Atomico!Ejecutar
    <3>2. Atomico!Despedir(c)
      BY <1>0, <2>3, <2>4, <2>5, <3>1 DEF Atomico!Despedir
    <3> QED BY <2>5, <3>2 DEF Simula, PasoAbstracto
  <2> QED BY <1>0, <2>2, <2>5, SeccionSimula
<1>8. CASE GETDEL(c, k)
  BY <1>0, <1>1, <1>8, PlanesDeLectura, PlanPartido, LeerSimula DEF GETDEL, Pide
<1>9. CASE INCRBY(c, k)
  <2>1. PICK d \in Numeros \cup {NoNumero} : Leer(c, k, PlanOperar(v, d, 1))
    BY <1>1, <1>9 DEF INCRBY
  <2>2. PlanOperar(v, d, 1) \in Planes
    BY <1>1, Numerales, PlanDeOperar
  <2> QED BY <1>0, <1>1, <1>9, <2>1, <2>2, PlanPartido, LeerSimula DEF INCRBY, Pide
<1>10. CASE DECRBY(c, k)
  <2>1. PICK d \in Numeros \cup {NoNumero} : Leer(c, k, PlanOperar(v, d, -1))
    BY <1>1, <1>10 DEF DECRBY
  <2>2. PlanOperar(v, d, -1) \in Planes
    BY <1>1, Numerales, PlanDeOperar
  <2> QED BY <1>0, <1>1, <1>10, <2>1, <2>2, PlanPartido, LeerSimula DEF DECRBY, Pide
<1> QED BY <1>2, <1>3, <1>4, <1>5, <1>6, <1>7, <1>8, <1>9, <1>10 DEF APPEND

(* The list commands.                                                      *)
LEMMA ListSimula ==
  ASSUME Inv, NEW c \in Clientes, NEW k \in Claves,
         \/ LINDEX(c, k) \/ LLEN(c, k) \/ LPOP(c, k) \/ RPOP(c, k)
         \/ LPUSH(c, k) \/ LPUSHX(c, k) \/ RPUSH(c, k) \/ RPUSHX(c, k)
         \/ LRANGE(c, k) \/ LREM(c, k) \/ LSET(c, k)
  PROVE  Simula(c)
<1>0. k \in Permitidas[c] /\ fase[c] = "libre"
  BY DEF LINDEX, LLEN, LPOP, RPOP, LPUSH, LPUSHX, RPUSH, RPUSHX, LRANGE, LREM, LSET, Pide
<1>1. PICK v \in TipoONada : v = Leido(k)
  BY Lectura
<1>2. CASE LINDEX(c, k)
  <2>1. PICK i \in Numeros \cup {NoNumero} : Leer(c, k, PlanLIndex(v, i))
    BY <1>1, <1>2 DEF LINDEX
  <2>2. PlanLIndex(v, i) \in Planes
    BY <1>1, Numerales, PlanDeLIndex
  <2> QED BY <1>0, <1>1, <1>2, <2>1, <2>2, PlanPartido, LeerSimula DEF LINDEX, Pide
<1>3. CASE LLEN(c, k)
  BY <1>0, <1>1, <1>3, PlanEntero, EnteraSimula DEF LLEN, Pide
<1>4. CASE LPOP(c, k) \/ RPOP(c, k)
  <2>1. PICK n \in Cantidades, f \in BOOLEAN :
          /\ Leer(c, k, PlanPop(v, n, f))
          /\ (IF f THEN "RPOP" ELSE "LPOP") \in Comandos[c]
    BY <1>1, <1>4 DEF LPOP, RPOP, Pide
  <2>2. PlanPop(v, n, f) \in Planes
    BY <1>1, Numerales, PlanDePop
  <2>3. PlanPop(v, n, f) \in Atomico!PlanesPartidos(IF f THEN "RPOP" ELSE "LPOP", v)
    BY PlanPartido
  <2> QED BY <1>0, <1>1, <2>1, <2>2, <2>3, LeerSimula
<1>5. CASE LPUSH(c, k) \/ LPUSHX(c, k) \/ RPUSH(c, k) \/ RPUSHX(c, k)
  <2>1. PICK ps \in Tandas, f \in BOOLEAN, g \in BOOLEAN, cmd \in Comandos[c] :
          /\ Leer(c, k, PlanPush(v, ps, f, g))
          /\ PlanPush(v, ps, f, g) \in Atomico!PlanesPartidos(cmd, v)
    <3>1. CASE LPUSH(c, k)
      BY <1>1, <3>1, PlanPartido DEF LPUSH, Pide
    <3>2. CASE LPUSHX(c, k)
      BY <1>1, <3>2, PlanPartido DEF LPUSHX, Pide
    <3>3. CASE RPUSH(c, k)
      BY <1>1, <3>3, PlanPartido DEF RPUSH, Pide
    <3>4. CASE RPUSHX(c, k)
      BY <1>1, <3>4, PlanPartido DEF RPUSHX, Pide
    <3> QED BY <1>5, <3>1, <3>2, <3>3, <3>4
  <2>2. PlanPush(v, ps, f, g) \in Planes
    BY <1>1, Numerales, PlanDePush
  <2> QED BY <1>0, <1>1, <2>1, <2>2, LeerSimula
<1>6. CASE LRANGE(c, k)
  <2>1. PICK i \in Numeros, j \in Numeros : Leer(c, k, PlanLRange(v, i, j))
    BY <1>1, <1>6 DEF LRANGE
  <2>2. PlanLRange(v, i, j) \in Planes
    BY <1>1, Numerales, PlanDeLRange
  <2> QED BY <1>0, <1>1, <1>6, <2>1, <2>2, PlanPartido, LeerSimula DEF LRANGE, Pide
<1>7. CASE LREM(c, k)
  <2>1. PICK i \in Numeros, x \in Textos : Leer(c, k, PlanLRem(v, i, x))
    BY <1>1, <1>7 DEF LREM
  <2>2. PlanLRem(v, i, x) \in Planes
    BY <1>1, Numerales, PlanDeLRem
  <2> QED BY <1>0, <1>1, <1>7, <2>1, <2>2, PlanPartido, LeerSimula DEF LREM, Pide
<1>8. CASE LSET(c, k)
  <2>1. PICK i \in Numeros, x \in Textos : Leer(c, k, PlanLSet(v, i, x))
    BY <1>1, <1>8 DEF LSET
  <2>2. PlanLSet(v, i, x) \in Planes
    BY <1>1, Numerales, PlanDeLSet
  <2> QED BY <1>0, <1>1, <1>8, <2>1, <2>2, PlanPartido, LeerSimula DEF LSET, Pide
<1> QED BY <1>2, <1>3, <1>4, <1>5, <1>6, <1>7, <1>8

(* The set commands and TYPE.                                              *)
LEMMA SetSimula ==
  ASSUME Inv, NEW c \in Clientes, NEW k \in Claves,
         \/ SADD(c, k) \/ SREM(c, k) \/ SCARD(c, k) \/ SISMEMBER(c, k) \/ SMEMBERS(c, k)
         \/ TYPE(c, k)
  PROVE  Simula(c)
<1>0. k \in Permitidas[c] /\ fase[c] = "libre"
  BY DEF SADD, SREM, SCARD, SISMEMBER, SMEMBERS, TYPE, Pide
<1>1. PICK v \in TipoONada : v = Leido(k)
  BY Lectura
<1> USE <1>0, <1>1, PlanEntero, EnteraSimula DEF Pide
<1>2. CASE SADD(c, k)
  BY <1>2 DEF SADD
<1>3. CASE SREM(c, k)
  BY <1>3 DEF SREM
<1>4. CASE SCARD(c, k)
  BY <1>4 DEF SCARD
<1>5. CASE SISMEMBER(c, k)
  BY <1>5 DEF SISMEMBER
<1>6. CASE SMEMBERS(c, k)
  BY <1>6 DEF SMEMBERS
<1>7. CASE TYPE(c, k)
  BY <1>7 DEF TYPE
<1> QED BY ONLY <1>2, <1>3, <1>4, <1>5, <1>6, <1>7,
           \/ SADD(c, k) \/ SREM(c, k) \/ SCARD(c, k) \/ SISMEMBER(c, k) \/ SMEMBERS(c, k)
           \/ TYPE(c, k)

(* MSET, COPY, FLUSHDB, EXPIRE, PERSIST and the second section of EXPIREAT *)
(* change the table in one section.                                        *)
LEMMA AdministrarSimula ==
  ASSUME Inv, NEW c \in Clientes, EnMarcha(c),
         \/ MSET(c) \/ FLUSHDB(c) \/ ExpireAtFijar(c)
         \/ \E k \in Claves : \/ EXPIRE(c, k) \/ PERSIST(c, k)
                              \/ \E a \in Claves : COPY(c, k, a)
  PROVE  Simula(c)
<1>0. Permitidas[c] \subseteq Claves
  BY HilosAssumption
<1> DEFINE Deja(T, r) == /\ ~envenenado /\ tabla' = T /\ UNCHANGED envenenado
                         /\ Atomico!Contesta(c, r) /\ EnMarcha(c)'
                         /\ \A d \in Clientes \ {c} : resp'[d] = resp[d]
           R(k) == Entero(IF k \in Presentes(tabla) THEN 1 ELSE 0)
<1>1. ASSUME NEW T, NEW E, NEW r, Seccion(c, T, E, r), fase[c] # "muerto"
      PROVE  Simula(c) \/ Deja(T, r)
  BY <1>1, SeccionSimula
<1>2. ASSUME Atomico!Administrar(c), NEW T, NEW r, Deja(T, r)
      PROVE  Simula(c)
  BY <1>2 DEF Simula, PasoAbstracto
<1>3. \A k : R(k) = Atomico!Entero(IF k \in Atomico!Presentes(tabla) THEN 1 ELSE 0)
  BY CopiasDeValores, CopiasDeTabla
<1> HIDE DEF R
<1>4. CASE MSET(c)
  <2>1. PICK ps \in Lotes : /\ Pide(c, "MSET", ToSet(SubSeq(ps, 1, Len(ps) - 1)))
                            /\ Seccion(c, GuardarValores(tabla, ps), GuardarValores(tabla, ps), Ok)
    BY <1>4 DEF MSET
  <2>2. CASE Deja(GuardarValores(tabla, ps), Ok)
    <3>1. Atomico!Administrar(c)
      BY <2>1, <2>2, CopiasDeTabla, CopiasDeValores, CopiasDeSecuencias
         DEF Atomico!Administrar, Pide
    <3> QED BY <1>2, <2>2, <3>1
  <2> HIDE DEF Deja
  <2> QED BY <1>1, <2>1, <2>2 DEF Pide
<1>5. CASE FLUSHDB(c)
  <2>1. Pide(c, "FLUSHDB", Claves) /\ Seccion(c, BorrarClaves, BorrarClaves, Ok)
    BY <1>5 DEF FLUSHDB
  <2>2. CASE Deja(BorrarClaves, Ok)
    <3>1. Permitidas[c] = Claves
      BY <1>0, <2>1 DEF Pide
    <3>2. Atomico!Administrar(c)
      BY <2>1, <2>2, <3>1, CopiasDeTabla, CopiasDeValores DEF Atomico!Administrar, Pide
    <3> QED BY <1>2, <2>2, <3>2
  <2> HIDE DEF Deja
  <2> QED BY <1>1, <2>1, <2>2 DEF Pide
<1>6. ASSUME NEW k \in Permitidas[c], NEW n \in Atomico!Plazos(c), fase[c] # "muerto",
             Seccion(c, ActualizarValorConExpiracion(tabla, k, n, ahora), enviado, R(k))
      PROVE  Simula(c)
  <2> DEFINE T == ActualizarValorConExpiracion(tabla, k, n, ahora)
  <2>1. CASE Deja(T, R(k))
    <3>1. Atomico!Administrar(c)
      BY <1>3, <1>6, <2>1, CopiasDeTabla DEF Atomico!Administrar
    <3> QED BY <1>2, <2>1, <3>1
  <2> HIDE DEF Deja
  <2> QED BY <1>1, <1>6, <2>1
<1>7. CASE \E k \in Claves : EXPIRE(c, k)
  <2>1. PICK k \in Claves : EXPIRE(c, k)
    BY <1>7
  <2>2. PICK n \in Cantidades :
          Seccion(c, ActualizarValorConExpiracion(tabla, k, n, ahora), enviado, R(k))
    BY <2>1 DEF EXPIRE, R
  <2>3. n \in 0 .. MaxI32
    BY Numerales, BddAssumption DEF I32
  <2>4. k \in Permitidas[c] /\ fase[c] = "libre" /\ "EXPIRE" \in Comandos[c]
    BY <2>1 DEF EXPIRE, Pide
  <2>5. n \in Atomico!Plazos(c)
    BY <2>3, <2>4 DEF Atomico!Plazos, Cantidades, Atomico!Cantidades
  <2> QED BY <1>6, <2>2, <2>4, <2>5
<1>8. CASE ExpireAtFijar(c)
  <2>1. fase[c] = "expirar" /\ pend[c] \in PendExpirar /\ EnPlazo(pend[c].vida, ahora)
        /\ pend[c].clave \in Permitidas[c] /\ "EXPIREAT" \in Comandos[c]
    BY <1>8 DEF ExpireAtFijar, Inv, TypeOK, TipoLocal, PendDe, EnMarcha, EnCurso
  <2>2. pend[c].vida \in Atomico!Plazos(c)
    <3>1. pend[c].vida \in 0 .. MaxI32
      BY <2>1, BddAssumption DEF PendExpirar, EnPlazo
    <3> QED BY <2>1, <3>1 DEF EnPlazo, Atomico!Plazos, Cantidades, Atomico!Cantidades
  <2>3. Seccion(c, ActualizarValorConExpiracion(tabla, pend[c].clave, pend[c].vida, ahora),
                enviado, R(pend[c].clave))
    BY <1>8 DEF ExpireAtFijar, R
  <2> QED BY <1>6, <2>1, <2>2, <2>3
<1>9. CASE \E k \in Claves : PERSIST(c, k)
  <2>1. PICK k \in Claves : PERSIST(c, k)
    BY <1>9
  <2> DEFINE T == ActualizarValorSinExpiracion(tabla, k)
  <2>2. /\ k \in Permitidas[c] /\ fase[c] = "libre" /\ "PERSIST" \in Comandos[c]
        /\ Seccion(c, T, enviado, R(k))
    BY <2>1 DEF PERSIST, Pide, R
  <2>3. CASE Deja(T, R(k))
    <3>1. Atomico!Administrar(c)
      BY <1>3, <2>2, <2>3, CopiasDeTabla DEF Atomico!Administrar
    <3> QED BY <1>2, <2>3, <3>1
  <2> HIDE DEF Deja, T
  <2> QED BY <1>1, <2>2, <2>3
<1>10. CASE \E k, a \in Claves : COPY(c, k, a)
  <2>1. PICK k \in Claves, a \in Claves : COPY(c, k, a)
    BY <1>10
  <2> DEFINE T == CopiarValor(tabla, k, a, ahora)
             r == Entero(IF Leido(k) = Nada THEN 0 ELSE 1)
  <2>2. /\ k \in Permitidas[c] /\ a \in Permitidas[c]
        /\ fase[c] = "libre" /\ "COPY" \in Comandos[c]
        /\ \E E : Seccion(c, T, E, r)
    BY <2>1 DEF COPY, Pide
  <2>3. /\ T = Atomico!CopiarValor(tabla, k, a, ahora)
        /\ r = Atomico!Entero(IF Atomico!Visible(k) = Atomico!Nada THEN 0 ELSE 1)
    BY CopiasDeTabla, CopiasDeValores DEF Atomico!Visible, Leido
  <2> HIDE DEF T, r
  <2>4. CASE Deja(T, r)
    <3>1. Atomico!Administrar(c)
      BY <2>2, <2>3, <2>4 DEF Atomico!Administrar
    <3> QED BY <1>2, <2>4, <3>1
  <2> HIDE DEF Deja
  <2> QED BY <1>1, <2>2, <2>4
<1> QED BY <1>4, <1>5, <1>7, <1>8, <1>9, <1>10

(* TTL, TOUCH, KEYS and DBSIZE answer from the table as it is.             *)
LEMMA ConsultaSimula ==
  ASSUME Inv, NEW c \in Clientes,
         TOUCH(c) \/ KEYS(c) \/ DBSIZE(c) \/ \E k \in Claves : TTL(c, k)
  PROVE  Simula(c)
<1> DEFINE Deja(r) == /\ ~envenenado /\ tabla' = tabla /\ UNCHANGED envenenado
                      /\ Atomico!Contesta(c, r) /\ EnMarcha(c)'
                      /\ \A d \in Clientes \ {c} : resp'[d] = resp[d]
<1>1. ASSUME NEW r, Seccion(c, tabla, enviado, r), fase[c] # "muerto"
      PROVE  Simula(c) \/ Deja(r)
  BY <1>1, SeccionSimula
<1>2. ASSUME Atomico!Consultar(c), NEW r, Deja(r)
      PROVE  Simula(c)
  BY <1>2 DEF Simula, PasoAbstracto
<1>3. CASE TOUCH(c)
  <2>1. PICK ks \in Grupos :
          /\ Pide(c, "TOUCH", ToSet(ks))
          /\ Seccion(c, tabla, enviado,
                     Entero(Cardinality({i \in DOMAIN ks : ks[i] \in Presentes(tabla)})))
    BY <1>3 DEF TOUCH
  <2> DEFINE r == Entero(Cardinality({i \in DOMAIN ks : ks[i] \in Presentes(tabla)}))
  <2>2. r \in Atomico!Respuestas("TOUCH", ks)
    BY CopiasDeTabla, CopiasDeValores, CopiasDeSecuencias DEF Atomico!Respuestas
  <2>3. "TOUCH" \in Comandos[c] /\ fase[c] = "libre" /\ Atomico!ToSet(ks) \subseteq Permitidas[c]
    BY <2>1, CopiasDeSecuencias DEF Pide
  <2> HIDE DEF r
  <2>4. CASE Deja(r)
    <3>1. Atomico!Consultar(c)
      BY <2>2, <2>3, <2>4 DEF Atomico!Consultar
    <3> QED BY <1>2, <2>4, <3>1
  <2> HIDE DEF Deja
  <2> QED BY <1>1, <2>1, <2>3, <2>4 DEF r
<1>4. CASE KEYS(c)
  <2>1. PICK S \in SUBSET Permitidas[c] :
          /\ Pide(c, "KEYS", S)
          /\ Seccion(c, tabla, enviado, Miembros(S \cap Presentes(tabla)))
    BY <1>4 DEF KEYS
  <2> DEFINE r == Miembros(S \cap Presentes(tabla))
  <2>2. r = Atomico!Miembros(S \cap Atomico!Presentes(tabla))
    BY CopiasDeTabla, CopiasDeValores
  <2>3. "KEYS" \in Comandos[c] /\ fase[c] = "libre"
    BY <2>1 DEF Pide
  <2> HIDE DEF r
  <2>4. CASE Deja(r)
    <3>1. Atomico!Consultar(c)
      BY <2>2, <2>3, <2>4 DEF Atomico!Consultar
    <3> QED BY <1>2, <2>4, <3>1
  <2> HIDE DEF Deja
  <2> QED BY <1>1, <2>1, <2>3, <2>4 DEF r
<1>5. CASE DBSIZE(c)
  <2> DEFINE r == Entero(CantidadClaves(tabla))
  <2>1. "DBSIZE" \in Comandos[c] /\ fase[c] = "libre" /\ Seccion(c, tabla, enviado, r)
    BY <1>5 DEF DBSIZE, Pide
  <2>2. r = Atomico!Entero(Atomico!CantidadClaves(tabla))
    BY CopiasDeTabla, CopiasDeValores
  <2> HIDE DEF r
  <2>3. CASE Deja(r)
    <3>1. Atomico!Consultar(c)
      BY <2>1, <2>2, <2>3 DEF Atomico!Consultar
    <3> QED BY <1>2, <2>3, <3>1
  <2> HIDE DEF Deja
  <2> QED BY <1>1, <2>1, <2>3
<1>6. CASE \E k \in Claves : TTL(c, k)
  <2>1. PICK k \in Claves : TTL(c, k)
    BY <1>6
  <2> DEFINE r == Entero(ObtenerExpiracion(tabla, k))
             p == Responde(r)
  <2>2. p.accion = "responder" /\ p.nuevo = Nada /\ p.res = r
    BY DEF Responde, Plan
  <2>3. Aplicar(tabla, k, p, ahora) = tabla
    BY <2>2 DEF Aplicar
  <2>4. /\ "TTL" \in Comandos[c] /\ fase[c] = "libre" /\ k \in Permitidas[c]
        /\ Entera(c, k, p)
    BY <2>1 DEF TTL, Pide
  <2>5. r = Atomico!Entero(Atomico!ObtenerExpiracion(tabla, k))
    BY CopiasDeTabla, CopiasDeValores
  <2> HIDE DEF r, p
  <2>6. Seccion(c, tabla, enviado, r)
    BY <2>2, <2>3, <2>4 DEF Entera
  <2>7. CASE Deja(r)
    <3>1. Atomico!Consultar(c)
      BY <2>4, <2>5, <2>7 DEF Atomico!Consultar
    <3> QED BY <1>2, <2>7, <3>1
  <2> HIDE DEF Deja
  <2> QED BY <1>1, <2>4, <2>6, <2>7
<1> QED BY <1>3, <1>4, <1>5, <1>6

(* A refused request, a client that comes back and the first part of       *)
(* EXPIREAT.                                                               *)
LEMMA LocalSimula ==
  ASSUME Inv, NEW c \in Clientes, EnMarcha(c),
         PedidoInvalido(c) \/ Reconectar(c) \/ \E k \in Claves : EXPIREAT(c, k)
  PROVE  Simula(c)
<1>0. UNCHANGED <<tabla, envenenado, ahora>>
  BY DEF PedidoInvalido, Reconectar, EXPIREAT, compartidas
<1>1. CASE PedidoInvalido(c)
  <2>1. PICK r \in Rechazos : Responder(c, r)
    BY <1>1 DEF PedidoInvalido
  <2>2. fase[c] = "libre" /\ "INVALIDO" \in Comandos[c]
    BY <1>1 DEF PedidoInvalido, Pide
  <2>3. /\ Atomico!Contesta(c, r) /\ EnMarcha(c)'
        /\ \A d \in Clientes \ {c} : resp'[d] = resp[d]
    BY <1>0, <2>1, <2>2, RespuestaSimula
  <2>4. r \in Atomico!Rechazos
    BY <2>1, CopiasDeValores DEF Rechazos, NoEntero, Atomico!Rechazos
  <2>5. Atomico!Rechazar(c)
    BY <1>0, <2>2, <2>3, <2>4, CopiasDeValores DEF Atomico!Rechazar
  <2> QED BY <2>3, <2>5 DEF Simula, PasoAbstracto
<1>2. CASE Reconectar(c)
  <2>1. fase[c] = "muerto" /\ resp[c] = Nil
    BY <1>2 DEF Reconectar, EnMarcha
  <2>2. fase \in [Clientes -> Fases] /\ resp \in [Clientes -> ResultadoRedis]
    BY DEF Inv, TypeOK, TipoLocal
  <2>3. fase' = [fase EXCEPT ![c] = "libre"] /\ resp' = [resp EXCEPT ![c] = Nil]
    BY <1>2 DEF Reconectar, Responder, Pasar, SinRespuesta
  <2>4. fase'[c] = "libre" /\ resp' = resp /\ \A d \in Clientes \ {c} : fase'[d] = fase[d]
    BY <2>1, <2>2, <2>3
  <2>5. {d \in Clientes : fase'[d] = "muerto"} = {d \in Clientes : fase[d] = "muerto"} \ {c}
    BY <2>4
  <2>6. Atomico!Volver(c)
    BY <1>0, <2>1, <2>4, <2>5 DEF Atomico!Volver
  <2>7. EnMarcha(c)'
    BY <2>4 DEF EnMarcha
  <2> QED BY <2>4, <2>6, <2>7 DEF Simula, PasoAbstracto
<1>3. CASE \E k \in Claves : EXPIREAT(c, k)
  <2>1. PICK k \in Claves : EXPIREAT(c, k)
    BY <1>3
  <2>2. fase[c] = "libre" /\ "EXPIREAT" \in Comandos[c]
    BY <2>1 DEF EXPIREAT, Pide
  <2>3. PICK p \in Cantidades :
          \/ p > MaxInstante /\ Morir(c)
          \/ Responder(c, Error("TIEMPO"))
          \/ \E n \in {p - ahora, p - ahora - 1} \cap Nat :
               Seguir(c, "expirar", [clave |-> k, vida |-> n])
    BY <2>1 DEF EXPIREAT
  <2>4. CASE p > MaxInstante /\ Morir(c)
    <3>1. /\ Atomico!Muere(c) /\ EnMarcha(c)'
          /\ \A d \in Clientes \ {c} : resp'[d] = resp[d]
      BY <1>0, <2>2, <2>4, MuerteSimula
    <3>2. Atomico!Desbordar(c)
      BY <1>0, <2>2, <2>4, <3>1 DEF Atomico!Desbordar, Cantidades
    <3> QED BY <3>1, <3>2 DEF Simula, PasoAbstracto
  <2>5. CASE Responder(c, Error("TIEMPO"))
    <3>1. /\ Atomico!Contesta(c, Error("TIEMPO")) /\ EnMarcha(c)'
          /\ \A d \in Clientes \ {c} : resp'[d] = resp[d]
      BY <1>0, <2>2, <2>5, RespuestaSimula
    <3>2. Atomico!Rechazar(c)
      BY <1>0, <2>2, <3>1, CopiasDeValores DEF Atomico!Rechazar
    <3> QED BY <3>1, <3>2 DEF Simula, PasoAbstracto
  <2>6. CASE \E n \in {p - ahora, p - ahora - 1} \cap Nat :
               Seguir(c, "expirar", [clave |-> k, vida |-> n])
    <3>1. PICK n \in {p - ahora, p - ahora - 1} \cap Nat :
            Seguir(c, "expirar", [clave |-> k, vida |-> n])
      BY <2>6
    <3>2. EnPlazo(n, ahora')
      <4>1. ahora \in Nat /\ p \in Int /\ p <= MaxI32
        BY Numerales, BddAssumption DEF Inv, TypeOK, TipoCompartido, I32
      <4>2. n <= MaxI32 /\ n <= p /\ p <= ahora + n + 1
        BY <3>1, <4>1, BddAssumption
      <4> QED BY <1>0, <4>2 DEF EnPlazo
    <3> DEFINE q == [clave |-> k, vida |-> n]
    <3>3. q.vida = n /\ Seguir(c, "expirar", q) /\ "expirar" \in Fases \ {"muerto"}
      BY <3>1 DEF Fases
    <3> HIDE DEF q
    <3>4. /\ UNCHANGED Atomico!vars /\ fase'[c] = "expirar" /\ pend'[c] = q
          /\ \A d \in Clientes \ {c} : resp'[d] = resp[d]
      BY <1>0, <2>2, <3>3, SeguirSimula
    <3>5. EnMarcha(c)'
      BY <3>2, <3>3, <3>4 DEF EnMarcha
    <3> QED BY <3>4, <3>5 DEF Simula, PasoAbstracto
  <2> QED BY <2>3, <2>4, <2>5, <2>6
<1> QED BY <1>1, <1>2, <1>3

-----------------------------------------------------------------------------
(* The loop of EXISTS and MGET.                                            *)

(* A reading gives each key something the key shows.                       *)
LEMMA SonLecturas ==
  ASSUME NEW ks \in Seq(Claves), NEW vs
  PROVE  vs \in Atomico!Lecturas(ks) <=> /\ vs = [i \in DOMAIN ks |-> vs[i]]
                                         /\ \A i \in DOMAIN ks : vs[i] \in Atomico!Vistos(ks[i])
<1> DEFINE U == UNION {Atomico!Vistos(k) : k \in Atomico!ToSet(ks)}
<1>1. Atomico!Lecturas(ks) =
        {ws \in [DOMAIN ks -> U] : \A i \in DOMAIN ks : ws[i] \in Atomico!Vistos(ks[i])}
  BY DEF Atomico!Lecturas
<1>2. ASSUME NEW i \in DOMAIN ks
      PROVE  Atomico!Vistos(ks[i]) \subseteq U
  <2>1. ks[i] \in Atomico!ToSet(ks)
    BY CopiasDeSecuencias DEF ToSet
  <2> QED BY <2>1
<1> HIDE DEF U
<1> QED BY <1>1, <1>2

(* What a key shows it goes on showing while nobody writes it: a value     *)
(* that expires may still be seen by a command that had begun.             *)
LEMMA LecturasDuran ==
  ASSUME Inv, NEW ks \in Seq(Claves), ahora' \in {ahora, ahora + 1},
         \A k \in ToSet(ks) : tabla'[k] = tabla[k]
  PROVE  Atomico!Lecturas(ks) \subseteq Atomico!Lecturas(ks)'
<1>1. ASSUME NEW i \in DOMAIN ks
      PROVE  Atomico!Vistos(ks[i]) \subseteq Atomico!Vistos(ks[i])'
  <2>1. PICK k \in Claves : k = ks[i]
    OBVIOUS
  <2>2. tabla'[k] = tabla[k]
    BY <2>1 DEF ToSet
  <2>3. /\ ahora \in Nat /\ tabla[k].creado \in Nat /\ tabla[k].vida \in Int
    BY DEF Inv, TypeOK, TipoCompartido, Tablas, Valor, Vidas, SinVida
  <2>4. Expiro(tabla[k], ahora) => Expiro(tabla[k], ahora')
    BY <2>3 DEF Expiro
  <2>5. /\ Atomico!Visible(k) = IF Expiro(tabla[k], ahora) THEN Nada ELSE tabla[k].valor
        /\ Atomico!Visible(k)' = IF Expiro(tabla[k], ahora') THEN Nada ELSE tabla[k].valor
    BY <2>2, CopiasDeTabla DEF Atomico!Visible, ObtenerValor, Get
  <2>6. /\ Atomico!Vistos(k) = {Atomico!Visible(k), tabla[k].valor}
        /\ Atomico!Vistos(k)' = {Atomico!Visible(k)', tabla[k].valor}
    BY <2>2 DEF Atomico!Vistos
  <2> QED BY <2>1, <2>4, <2>5, <2>6
<1>2. ASSUME NEW vs \in Atomico!Lecturas(ks)
      PROVE  vs \in Atomico!Lecturas(ks)'
  <2>1. /\ vs = [i \in DOMAIN ks |-> vs[i]]
        /\ \A i \in DOMAIN ks : vs[i] \in Atomico!Vistos(ks[i])
    BY SonLecturas
  <2>2. \A i \in DOMAIN ks : vs[i] \in Atomico!Vistos(ks[i])'
    BY <1>1, <2>1
  <2> DEFINE U == UNION {Atomico!Vistos(k) : k \in Atomico!ToSet(ks)}
  <2>3. Atomico!Lecturas(ks)' =
          {ws \in [DOMAIN ks -> U'] : \A i \in DOMAIN ks : ws[i] \in Atomico!Vistos(ks[i])'}
    BY DEF Atomico!Lecturas
  <2>4. \A i \in DOMAIN ks : Atomico!Vistos(ks[i])' \subseteq U'
    <3>1. \A i \in DOMAIN ks : ks[i] \in Atomico!ToSet(ks)
      BY CopiasDeSecuencias DEF ToSet
    <3> QED BY <3>1
  <2> HIDE DEF U
  <2> QED BY <2>1, <2>2, <2>3, <2>4
<1> QED BY <1>2

(* So a loop that does not move keeps its explanation.                     *)
LEMMA ReuneDura ==
  ASSUME Inv, NEW c \in Clientes, Reune(c), pend'[c] = pend[c], ahora' \in {ahora, ahora + 1},
         \A k \in Permitidas[c] : tabla'[k] = tabla[k]
  PROVE  Reune(c)'
<1>1. PICK ks \in Grupos : \E vs \in Atomico!Lecturas(ks), n \in 0 .. Len(ks) :
        ToSet(ks) \subseteq Permitidas[c] /\ Explica(c, ks, vs, n)
  BY DEF Reune
<1>2. PICK vs \in Atomico!Lecturas(ks), n \in 0 .. Len(ks) :
        ToSet(ks) \subseteq Permitidas[c] /\ Explica(c, ks, vs, n)
  BY <1>1
<1>3. ks \in Seq(Claves)
  BY ServidorAssumption
<1>4. vs \in Atomico!Lecturas(ks)'
  BY <1>2, <1>3, LecturasDuran
<1>5. Explica(c, ks, vs, n)'
  BY <1>2 DEF Explica, Atomico!DeMget
<1> QED BY <1>2, <1>4, <1>5 DEF Reune

(* The loop begins with a reading that explains nothing yet.               *)
LEMMA MultipleSimula ==
  ASSUME Inv, SinPorPartes, NEW c \in Clientes, Multiple(c)
  PROVE  Simula(c)
<1>1. PICK op \in {"DEL", "EXISTS", "MGET"}, ks \in Grupos :
        /\ Pide(c, op, ToSet(ks))
        /\ Seguir(c, "multiple", [op |-> op, faltan |-> ks, cuenta |-> 0, valores |-> <<>>])
        /\ UNCHANGED <<compartidas, ahora>>
  BY DEF Multiple
<1>2. /\ fase[c] = "libre" /\ op \in Comandos[c] \cap {"EXISTS", "MGET"}
      /\ ToSet(ks) \subseteq Permitidas[c]
  BY <1>1 DEF Pide, SinPorPartes
<1>3. ks \in Seq(Claves)
  BY ServidorAssumption
<1> DEFINE q == [op |-> op, faltan |-> ks, cuenta |-> 0, valores |-> <<>>]
<1>v. PICK vs : vs = [i \in DOMAIN ks |-> Atomico!Visible(ks[i])]
  OBVIOUS
<1>4. q.op = op /\ q.faltan = ks /\ q.cuenta = 0 /\ Len(q.valores) = 0
  OBVIOUS
<1>5. Seguir(c, "multiple", q) /\ "multiple" \in Fases \ {"muerto"}
  BY <1>1 DEF Fases
<1>6. vs \in Atomico!Lecturas(ks)
  <2>1. vs = [i \in DOMAIN ks |-> vs[i]] /\ \A i \in DOMAIN ks : vs[i] \in Atomico!Vistos(ks[i])
    BY <1>v DEF Atomico!Vistos
  <2> QED BY <1>3, <2>1, SonLecturas
<1> HIDE DEF q
<1>7. /\ UNCHANGED Atomico!vars /\ fase'[c] = "multiple" /\ pend'[c] = q
      /\ \A d \in Clientes \ {c} : resp'[d] = resp[d]
  BY <1>1, <1>2, <1>5, SeguirSimula DEF compartidas
<1>8. vs \in Atomico!Lecturas(ks)'
  BY <1>1, <1>3, <1>6, LecturasDuran DEF compartidas
<1>9. Explica(c, ks, vs, 0)'
  <2>1. SubSeq(ks, 0 + 1, Len(ks)) = ks
    BY <1>3
  <2>2. Llenos(vs, 0) = {} /\ Cardinality({}) = 0
    BY FS_EmptySet DEF Llenos
  <2>3. \A i \in 1 .. 0 : FALSE
    OBVIOUS
  <2>4. /\ pend'[c].faltan = SubSeq(ks, 0 + 1, Len(ks)) /\ Len(pend'[c].valores) = 0
        /\ pend'[c].cuenta = Cardinality(Llenos(vs, 0))
    BY <1>4, <1>7, <2>1, <2>2
  <2> QED BY <2>3, <2>4 DEF Explica
<1>10. Reune(c)'
  <2>1. PICK n \in 0 .. Len(ks) : n = 0
    BY <1>3
  <2>2. Explica(c, ks, vs, n)'
    BY <1>9, <2>1
  <2> QED BY <1>2, <1>8, <2>2 DEF Reune
<1>11. EnMarcha(c)'
  BY <1>2, <1>4, <1>7, <1>10 DEF EnMarcha
<1> QED BY <1>7, <1>11 DEF Simula, PasoAbstracto

(* One more key that was there counts once.                                *)
LEMMA CuentaUnoMas ==
  ASSUME NEW n \in Nat, NEW vs, NEW ws, \A i \in 1 .. n : ws[i] = vs[i]
  PROVE  Cardinality(Llenos(ws, n + 1)) =
           IF ws[n + 1] = Nada THEN Cardinality(Llenos(vs, n))
           ELSE Cardinality(Llenos(vs, n)) + 1
<1>1. Llenos(ws, n + 1) = IF ws[n + 1] = Nada THEN Llenos(vs, n) ELSE Llenos(vs, n) \cup {n + 1}
  BY DEF Llenos
<1>2. n + 1 \notin Llenos(vs, n) /\ Llenos(vs, n) \subseteq 1 .. n
  BY DEF Llenos
<1>3. IsFiniteSet(1 .. n)
  BY FS_Interval
<1>4. IsFiniteSet(Llenos(vs, n))
  BY <1>2, <1>3, FS_Subset
<1> QED BY <1>1, <1>2, <1>4, FS_AddElement

(* What is left of a sequence after its first n elements.                  *)
LEMMA RestoTras ==
  ASSUME NEW T, NEW s \in Seq(T), NEW n \in 0 .. Len(s) - 1
  PROVE  /\ Head(SubSeq(s, n + 1, Len(s))) = s[n + 1]
         /\ Tail(SubSeq(s, n + 1, Len(s))) = SubSeq(s, n + 2, Len(s))
<1> DEFINE a == SubSeq(s, n + 1, Len(s))
           b == SubSeq(s, n + 2, Len(s))
<1>0. PICK l \in Nat : l = Len(s)
  OBVIOUS
<1>1. a \in Seq(T) /\ Len(a) = l - n
  BY <1>0
<1>2. ASSUME NEW i \in 1 .. l - n PROVE a[i] = s[n + i]
  BY <1>0, <1>2
<1>3. b \in Seq(T) /\ Len(b) = l - n - 1
  BY <1>0
<1>4. ASSUME NEW i \in 1 .. l - n - 1 PROVE b[i] = s[n + 1 + i]
  BY <1>0, <1>4
<1> HIDE DEF a, b
<1>5. /\ Tail(a) \in Seq(T) /\ Len(Tail(a)) = l - n - 1
      /\ \A i \in 1 .. l - n - 1 : Tail(a)[i] = a[i + 1]
  BY <1>0, <1>1
<1>6. ASSUME NEW i \in 1 .. l - n - 1 PROVE Tail(a)[i] = b[i]
  <2>1. i + 1 \in 1 .. l - n /\ n + (i + 1) = n + 1 + i
    BY <1>0
  <2> QED BY <1>2, <1>4, <1>5, <2>1
<1>7. Tail(a) = b
  <2>1. DOMAIN Tail(a) = 1 .. l - n - 1 /\ DOMAIN b = 1 .. l - n - 1
    BY <1>3, <1>5
  <2> QED BY <1>3, <1>5, <1>6, <2>1
<1>8. Head(a) = s[n + 1]
  <2>1. 1 \in 1 .. l - n
    BY <1>0
  <2>2. Head(a) = a[1]
    BY <1>1
  <2> QED BY <1>2, <2>1, <2>2
<1> QED BY <1>7, <1>8 DEF a, b

(* A turn of the loop extends the reading with what it saw.                *)
LEMMA VueltaExplicada ==
  ASSUME NEW c \in Clientes, NEW ks \in Seq(Claves), NEW vs, NEW n \in 0 .. Len(ks) - 1,
         Explica(c, ks, vs, n), pend[c] \in PendMultiple,
         NEW v, pend'[c] = Visitar(pend[c], v),
         NEW ws, ws[n + 1] = v, \A i \in 1 .. n : ws[i] = vs[i]
  PROVE  Explica(c, ks, ws, n + 1)'
<1> DEFINE p == pend[c]
           q == pend'[c]
           e == Atomico!DeMget(v)
<1>1. /\ p.op \in {"DEL", "EXISTS", "MGET"} /\ p.faltan \in Seq(Claves)
      /\ p.cuenta \in Nat /\ p.valores \in Seq(Simples)
  BY DEF PendMultiple
<1>2. e = IF v.tipo = "Str" THEN Bulk(v.str) ELSE Nil
  BY CopiasDeValores DEF Atomico!DeMget
<1>3. q = [op |-> p.op, faltan |-> Tail(p.faltan),
           cuenta |-> IF v = Nada THEN p.cuenta ELSE p.cuenta + 1,
           valores |-> IF p.op = "MGET" THEN Append(p.valores, e) ELSE p.valores]
  BY <1>2 DEF Visitar
<1> HIDE DEF e, p, q
<1>4. /\ q.op = p.op /\ q.faltan = Tail(p.faltan)
      /\ q.cuenta = (IF v = Nada THEN p.cuenta ELSE p.cuenta + 1)
      /\ p.op = "MGET" => q.valores = Append(p.valores, e)
  BY <1>3
<1>5. q.faltan = SubSeq(ks, n + 2, Len(ks))
  <2>1. p.faltan = SubSeq(ks, n + 1, Len(ks))
    BY DEF Explica, p
  <2> QED BY <1>4, <2>1, RestoTras
<1>6. q.op = "MGET" => /\ Len(q.valores) = n + 1
                       /\ \A i \in 1 .. n + 1 : q.valores[i] = Atomico!DeMget(ws[i])
  <2> SUFFICES ASSUME p.op = "MGET"
               PROVE  /\ Len(q.valores) = n + 1
                      /\ \A i \in 1 .. n + 1 : q.valores[i] = Atomico!DeMget(ws[i])
    BY <1>4
  <2>1. Len(p.valores) = n /\ \A i \in 1 .. n : p.valores[i] = Atomico!DeMget(vs[i])
    BY DEF Explica, p
  <2>2. q.valores = Append(p.valores, e)
    BY <1>4
  <2>3. /\ Len(q.valores) = n + 1 /\ q.valores[n + 1] = e
        /\ \A i \in 1 .. n : q.valores[i] = p.valores[i]
    BY <1>1, <2>1, <2>2
  <2>4. ASSUME NEW i \in 1 .. n + 1
        PROVE  q.valores[i] = Atomico!DeMget(ws[i])
    <3>1. CASE i = n + 1
      BY <2>3, <3>1 DEF e
    <3>2. CASE i \in 1 .. n
      BY <2>1, <2>3, <3>2
    <3> QED BY <3>1, <3>2
  <2> QED BY <2>3, <2>4
<1>7. q.op = "EXISTS" => q.cuenta = Cardinality(Llenos(ws, n + 1))
  <2> SUFFICES ASSUME p.op = "EXISTS"
               PROVE  q.cuenta = Cardinality(Llenos(ws, n + 1))
    BY <1>4
  <2>1. p.cuenta = Cardinality(Llenos(vs, n))
    BY DEF Explica, p
  <2>2. n \in Nat
    OBVIOUS
  <2>3. Cardinality(Llenos(ws, n + 1)) =
          IF ws[n + 1] = Nada THEN Cardinality(Llenos(vs, n))
          ELSE Cardinality(Llenos(vs, n)) + 1
    BY <2>2, CuentaUnoMas
  <2> QED BY <1>4, <2>1, <2>3
<1> QED BY <1>5, <1>6, <1>7 DEF Explica, q, Atomico!DeMget

(* A turn of the loop is no abstract step,                                 *)
LEMMA MultiplePasoSimula ==
  ASSUME Inv, NEW c \in Clientes, EnMarcha(c), MultiplePaso(c)
  PROVE  Simula(c)
<1>0. /\ fase[c] = "multiple" /\ pend[c].op \in Comandos[c] \cap {"EXISTS", "MGET"}
      /\ pend[c].faltan # <<>> /\ pend[c] \in PendMultiple
      /\ UNCHANGED <<envenenado, ahora>>
  BY DEF MultiplePaso, EnMarcha, Inv, TypeOK, TipoLocal, PendDe
<1>1. CASE envenenado
  BY <1>0, <1>1, RechazoSimula DEF MultiplePaso
<1>2. CASE ~envenenado
  <2>1. PICK ks \in Grupos : \E vs \in Atomico!Lecturas(ks), n \in 0 .. Len(ks) :
          ToSet(ks) \subseteq Permitidas[c] /\ Explica(c, ks, vs, n)
    BY <1>0 DEF EnMarcha, Reune
  <2>2. PICK vs \in Atomico!Lecturas(ks), n \in 0 .. Len(ks) :
          ToSet(ks) \subseteq Permitidas[c] /\ Explica(c, ks, vs, n)
    BY <2>1
  <2>3. ks \in Seq(Claves)
    BY ServidorAssumption
  <2>4. n \in 0 .. Len(ks) - 1 /\ Head(pend[c].faltan) = ks[n + 1]
    <3>1. pend[c].faltan = SubSeq(ks, n + 1, Len(ks))
      BY <2>2 DEF Explica
    <3>2. n # Len(ks)
      BY <1>0, <2>3, <3>1
    <3>3. n \in 0 .. Len(ks) - 1
      BY <2>3, <3>2
    <3> QED BY <2>3, <3>1, <3>3, RestoTras
  <2>k. PICK k : k = ks[n + 1]
    OBVIOUS
  <2>v. PICK v : v = Leido(k)
    OBVIOUS
  <2>w. PICK ws : ws = [i \in DOMAIN ks |-> IF i = n + 1 THEN v ELSE vs[i]]
    OBVIOUS
  <2> DEFINE q == Visitar(pend[c], v)
  <2>5. tabla' = tabla /\ Seguir(c, "multiple", q)
    BY <1>0, <1>2, <2>4, <2>k, <2>v DEF MultiplePaso
  <2>6. n + 1 \in DOMAIN ks /\ n + 1 \in 0 .. Len(ks) /\ \A i \in 1 .. n : i \in DOMAIN ks
    BY <2>3, <2>4
  <2>7. ws[n + 1] = v /\ \A i \in 1 .. n : ws[i] = vs[i]
    BY <2>4, <2>6, <2>w
  <2>8. ws \in Atomico!Lecturas(ks)
    <3>1. \A i \in DOMAIN ks : vs[i] \in Atomico!Vistos(ks[i])
      BY <2>3, SonLecturas
    <3>2. v \in Atomico!Vistos(k)
      BY <2>v, CopiasDeTabla DEF Atomico!Vistos, Atomico!Visible, Leido
    <3>3. ws = [i \in DOMAIN ks |-> ws[i]] /\ \A i \in DOMAIN ks : ws[i] \in Atomico!Vistos(ks[i])
      BY <2>k, <2>w, <3>1, <3>2
    <3> QED BY <2>3, <3>3, SonLecturas
  <2>9. "multiple" \in Fases \ {"muerto"} /\ q.op = pend[c].op
    BY DEF Fases, Visitar
  <2> HIDE DEF q
  <2>10. /\ UNCHANGED Atomico!vars /\ fase'[c] = "multiple" /\ pend'[c] = q
         /\ \A d \in Clientes \ {c} : resp'[d] = resp[d]
    BY <1>0, <2>5, <2>9, SeguirSimula
  <2>11. ws \in Atomico!Lecturas(ks)'
    BY <1>0, <2>3, <2>5, <2>8, LecturasDuran
  <2>12. Explica(c, ks, ws, n + 1)'
    BY <1>0, <2>2, <2>3, <2>4, <2>7, <2>10, VueltaExplicada DEF q
  <2>13. Reune(c)'
    <3>1. PICK m \in 0 .. Len(ks) : m = n + 1
      BY <2>6
    <3>2. Explica(c, ks, ws, m)'
      BY <2>12, <3>1
    <3> QED BY <2>2, <2>11, <3>2 DEF Reune
  <2>14. EnMarcha(c)'
    BY <1>0, <2>9, <2>10, <2>13 DEF EnMarcha
  <2> QED BY <2>10, <2>14 DEF Simula, PasoAbstracto
<1> QED BY <1>1, <1>2

(* and its end answers what the whole reading gives.                       *)
LEMMA MultipleFinSimula ==
  ASSUME Inv, NEW c \in Clientes, EnMarcha(c), MultipleFin(c)
  PROVE  Simula(c)
<1>0. /\ fase[c] = "multiple" /\ pend[c].op \in Comandos[c] \cap {"EXISTS", "MGET"}
      /\ pend[c].faltan = <<>> /\ pend[c] \in PendMultiple
      /\ UNCHANGED <<tabla, envenenado, ahora>>
  BY DEF MultipleFin, EnMarcha, Inv, TypeOK, TipoLocal, PendDe, compartidas
<1>1. PICK ks \in Grupos : \E vs \in Atomico!Lecturas(ks), n \in 0 .. Len(ks) :
        ToSet(ks) \subseteq Permitidas[c] /\ Explica(c, ks, vs, n)
  BY <1>0 DEF EnMarcha, Reune
<1>2. PICK vs \in Atomico!Lecturas(ks), n \in 0 .. Len(ks) :
        ToSet(ks) \subseteq Permitidas[c] /\ Explica(c, ks, vs, n)
  BY <1>1
<1>3. ks \in Seq(Claves)
  BY ServidorAssumption
<1>4. n = Len(ks) /\ 1 .. n = DOMAIN ks
  <2>1. SubSeq(ks, n + 1, Len(ks)) = <<>>
    BY <1>0, <1>2 DEF Explica
  <2>2. Len(SubSeq(ks, n + 1, Len(ks))) = Len(ks) - n
    BY <1>3
  <2>3. Len(ks) - n = 0
    BY <2>1, <2>2
  <2> QED BY <1>3, <2>3
<1> DEFINE rs == [i \in DOMAIN ks |-> Atomico!DeMget(vs[i])]
           r == CASE pend[c].op # "MGET"    -> Entero(pend[c].cuenta)
                  [] pend[c].op = "MGET" /\ pend[c].valores = <<>> -> Error("ARGS")
                  [] OTHER                  -> Vector(pend[c].valores)
<1>5. Responder(c, r)
  BY DEF MultipleFin
<1>6. r \in Atomico!Respuestas(pend[c].op, ks)
  <2>1. CASE pend[c].op = "EXISTS"
    <3>1. r = Entero(Cardinality({i \in DOMAIN ks : vs[i] # Nada}))
      BY <1>2, <1>4, <2>1 DEF Explica, Llenos
    <3> HIDE DEF r
    <3> QED BY <1>2, <2>1, <3>1, CopiasDeValores, CopiasDeSecuencias DEF Atomico!Respuestas
  <2>2. CASE pend[c].op = "MGET"
    <3>1. pend[c].valores = rs
      <4>1. /\ pend[c].valores \in Seq(Simples) /\ Len(pend[c].valores) = n
            /\ \A i \in 1 .. n : pend[c].valores[i] = Atomico!DeMget(vs[i])
        BY <1>0, <1>2, <2>2 DEF PendMultiple, Explica
      <4>2. DOMAIN pend[c].valores = DOMAIN ks
        BY <1>4, <4>1
      <4> QED BY <1>4, <4>1, <4>2
    <3>2. r = Atomico!Reunidos(rs)
      BY <2>2, <3>1, CopiasDeValores DEF Atomico!Reunidos
    <3>3. Atomico!Respuestas("MGET", ks)
            = {Atomico!Reunidos([i \in DOMAIN ks |-> Atomico!DeMget(us[i])])
                 : us \in Atomico!Lecturas(ks)}
      BY DEF Atomico!Respuestas
    <3> HIDE DEF r
    <3> QED BY <1>2, <2>2, <3>2, <3>3
  <2> QED BY <1>0, <2>1, <2>2
<1> HIDE DEF r
<1>7. /\ Atomico!Contesta(c, r) /\ EnMarcha(c)'
      /\ \A d \in Clientes \ {c} : resp'[d] = resp[d]
  BY <1>0, <1>5, RespuestaSimula
<1>8. Atomico!Consultar(c)
  BY <1>0, <1>2, <1>6, <1>7, CopiasDeSecuencias DEF Atomico!Consultar
<1> QED BY <1>7, <1>8 DEF Simula, PasoAbstracto

-----------------------------------------------------------------------------
(* Whatever a client does, AlmacenAtomico can do too.                      *)
LEMMA ComandoSimula ==
  ASSUME Inv, CopiaVigente, SinPorPartes, NEW c \in Clientes, EnMarcha(c),
         \/ PedidoInvalido(c) \/ ComandoString(c) \/ ComandoList(c) \/ ComandoSet(c)
         \/ ComandoKey(c) \/ ComandoServer(c)
         \/ Continuar(c) \/ Reconectar(c)
  PROVE  Simula(c)
<1>1. CASE ComandoString(c)
  BY <1>1, StringSimula, AdministrarSimula DEF ComandoString
<1>2. CASE ComandoList(c)
  BY <1>2, ListSimula DEF ComandoList
<1>3. CASE ComandoSet(c)
  BY <1>3, SetSimula DEF ComandoSet
<1>4. CASE ComandoKey(c)
  <2>1. ~ \E k, a \in Claves : RENAME(c, k, a)
    BY DEF RENAME, Pide, SinPorPartes
  <2>2. CASE \E k \in Claves : TYPE(c, k)
    BY <2>2, SetSimula
  <2>3. CASE \E k \in Claves : EXPIREAT(c, k)
    BY <2>3, LocalSimula
  <2>4. CASE \E k \in Claves : EXPIRE(c, k) \/ PERSIST(c, k) \/ \E a \in Claves : COPY(c, k, a)
    BY <2>4, AdministrarSimula
  <2>5. CASE TOUCH(c) \/ KEYS(c) \/ \E k \in Claves : TTL(c, k)
    BY <2>5, ConsultaSimula
  <2>6. CASE Multiple(c)
    BY <2>6, MultipleSimula
  <2> QED BY <1>4, <2>1, <2>2, <2>3, <2>4, <2>5, <2>6 DEF ComandoKey
<1>5. CASE ComandoServer(c)
  BY <1>5, AdministrarSimula, ConsultaSimula DEF ComandoServer
<1>6. CASE Continuar(c)
  <2>1. ~RenameBorrar(c)
    BY DEF RenameBorrar, EnMarcha
  <2> QED BY <1>6, <2>1, EscribirSimula, AdministrarSimula, MultiplePasoSimula,
             MultipleFinSimula DEF Continuar
<1>7. CASE PedidoInvalido(c) \/ Reconectar(c)
  BY <1>7, LocalSimula
<1> QED BY <1>1, <1>2, <1>3, <1>4, <1>5, <1>6, <1>7

(* A thread that does not move keeps its account while nobody writes the   *)
(* keys of its client.                                                     *)
LEMMA EnMarchaDura ==
  ASSUME Inv, NEW d \in Clientes, EnMarcha(d), ahora' \in {ahora, ahora + 1},
         fase'[d] = fase[d], pend'[d] = pend[d], resp'[d] = resp[d],
         \A k \in Permitidas[d] : tabla'[k] = tabla[k]
  PROVE  EnMarcha(d)'
<1>1. fase[d] = "multiple" => Reune(d)'
  <2> SUFFICES ASSUME fase[d] = "multiple" PROVE Reune(d)'
    OBVIOUS
  <2>1. Reune(d)
    BY DEF EnMarcha
  <2> QED BY <2>1, ReuneDura
<1>2. ASSUME fase[d] = "escribir"
      PROVE  \E cmd \in Comandos[d] : pend'[d].plan \in Atomico!PlanesPartidos(cmd, pend'[d].leido)
  BY <1>2 DEF EnMarcha
<1>3. ASSUME fase[d] = "expirar"
      PROVE  EnPlazo(pend'[d].vida, ahora')
  <2>1. ahora \in Nat /\ pend[d].vida \in Nat
    BY <1>3 DEF Inv, TypeOK, TipoCompartido, TipoLocal, PendDe, PendExpirar
  <2>2. PICK p \in Cantidades : pend[d].vida <= p /\ p <= ahora + pend[d].vida + 1
    BY <1>3 DEF EnMarcha, EnPlazo
  <2>3. p \in Int
    BY DEF Cantidades
  <2>4. p <= ahora' + pend[d].vida + 1
    BY <2>1, <2>2, <2>3
  <2> QED BY <1>3, <2>2, <2>4 DEF EnMarcha, EnPlazo
<1> QED BY <1>1, <1>2, <1>3 DEF EnMarcha

(* The step a client takes is an abstract step, and every thread keeps its *)
(* account of what it has done.                                            *)
LEMMA PasoRefina ==
  ASSUME Propias, SinPorPartes, Inv, CopiaVigente, \A c \in Clientes : EnMarcha(c),
         [Next]_vars
  PROVE  /\ [Atomico!Next]_(Atomico!vars)
         /\ \A c \in Clientes : EnMarcha(c)'
<1>1. ASSUME NEW c \in Clientes,
             \/ PedidoInvalido(c) \/ ComandoString(c) \/ ComandoList(c) \/ ComandoSet(c)
             \/ ComandoKey(c) \/ ComandoServer(c)
             \/ Continuar(c) \/ Reconectar(c)
      PROVE  /\ [Atomico!Next]_(Atomico!vars)
             /\ \A d \in Clientes : EnMarcha(d)'
  <2>1. Simula(c) /\ Paso(c)
    BY <1>1, ComandoSimula, ComandoEsPaso
  <2>2. [Atomico!Next]_(Atomico!vars)
    BY <2>1 DEF Simula, PasoAbstracto, Atomico!Next
  <2>3. ASSUME NEW d \in Clientes \ {c}
        PROVE  EnMarcha(d)'
    <3>1. /\ ahora' = ahora /\ fase'[d] = fase[d] /\ pend'[d] = pend[d]
          /\ \A k \in Claves \ Permitidas[c] : tabla'[k] = tabla[k]
      BY <2>1 DEF Paso
    <3>2. resp'[d] = resp[d]
      BY <2>1 DEF Simula
    <3>3. Permitidas[d] \subseteq Claves \ Permitidas[c]
      BY HilosAssumption DEF Propias
    <3> QED BY <3>1, <3>2, <3>3, EnMarchaDura
  <2> QED BY <2>1, <2>2, <2>3 DEF Simula
<1>2. CASE Tick
  <2>1. /\ ahora' = ahora + 1
        /\ UNCHANGED <<tabla, envenenado, fase, pend, resp>>
    BY <1>2 DEF Tick, compartidas
  <2>2. Atomico!Tick
    BY <2>1 DEF Atomico!Tick
  <2>3. \A c \in Clientes : EnMarcha(c)'
    BY <2>1, EnMarchaDura
  <2> QED BY <2>2, <2>3 DEF Atomico!Next
<1>3. CASE UNCHANGED vars
  <2>1. UNCHANGED <<ahora, tabla, envenenado, fase, pend, resp>>
    BY <1>3 DEF vars
  <2>2. UNCHANGED Atomico!vars
    BY <2>1 DEF Atomico!vars
  <2>3. \A c \in Clientes : EnMarcha(c)'
    BY <2>1, EnMarchaDura
  <2> QED BY <2>2, <2>3
<1> QED BY <1>1, <1>2, <1>3 DEF Next

(* For clients that use keys of their own and do not send DEL or RENAME,   *)
(* the server, whose handlers release the mutex between their sections,    *)
(* implements the store in which each command is one step.                 *)
THEOREM Refinamiento ==
  ASSUME Propias, SinPorPartes
  PROVE  Spec => ImplementaAtomico
<1> DEFINE Cuenta == \A c \in Clientes : EnMarcha(c)
<1>1. Init => Cuenta /\ Atomico!Init
  <2> SUFFICES ASSUME Init PROVE Cuenta /\ Atomico!Init
    OBVIOUS
  <2>1. /\ fase = [c \in Clientes |-> "libre"] /\ resp = [c \in Clientes |-> Nil]
        /\ tabla = TablaInicial /\ envenenado = FALSE /\ ahora = 0
    BY DEF Init, SinRespuesta
  <2>2. {c \in Clientes : fase[c] = "muerto"} = {}
    BY <2>1
  <2>3. Cuenta
    BY <2>1 DEF EnMarcha
  <2>4. Atomico!Init
    BY <2>1, <2>2, CopiasDeValores DEF Atomico!Init
  <2> QED BY <2>3, <2>4
<1>2. Inv /\ CopiaVigente /\ Cuenta /\ [Next]_vars
        => [Atomico!Next]_(Atomico!vars) /\ Cuenta'
  BY Propias, SinPorPartes, PasoRefina
<1>3. Spec => []CopiaVigente
  BY Propias, CopiaSiempreVigente
<1> HIDE DEF Cuenta
<1> QED BY <1>1, <1>2, <1>3, Invariante, PTL DEF Spec, ImplementaAtomico, Atomico!Spec

=============================================================================
