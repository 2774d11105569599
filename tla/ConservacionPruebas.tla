------------------------ MODULE ConservacionPruebas ------------------------
(***************************************************************************)
(* Proofs that what clients who race for the same keys are told accounts   *)
(* for every change of the table, for any number of clients, keys, members *)
(* and parameters.  The invariant ties the two history variables to the    *)
(* table, and says of every thread between two sections only what its next *)
(* section needs: the keys left to visit, and where SORT stores.           *)
(***************************************************************************)
EXTENDS Conservacion, FiniteSetTheorems, TLAPS

EsFuncion(f, S) == f = [x \in S |-> f[x]]

(* What a thread in phase f carries in p.                                  *)
FasesSort == {"sortPesos", "sortTupla", "sortObjetos", "sortStore"}
LlevaDe(f, p) ==
  /\ f = "multiple" => p.faltan \in Seq(Contadas) /\ p.cuenta \in Int
  /\ f \in FasesSort => "sort" \in DOMAIN p /\ p.sort \in Sorts

Hebras ==
  /\ EsFuncion(fase, Clientes) /\ EsFuncion(pend, Clientes) /\ EsFuncion(resp, Clientes)
  /\ \A c \in Clientes : LlevaDe(fase[c], pend[c])

(* What ClaveSet may hold: no set yet, or one without a lifetime.          *)
UnConjunto(v) == v = Ausente \/ \E S \in SUBSET Textos : v = NoExpirable(Conjunto(S))

Cuentas ==
  /\ envenenado = FALSE
  /\ EsFuncion(tabla, Claves)
  /\ UnConjunto(tabla[ClaveSet])
  /\ \A k \in Contadas : tabla[k].vida = SinVida
  /\ neto \in Int /\ quitadas \in Int
  /\ MiembrosContados
  /\ BorradosContados

InvHist == Hebras /\ Cuentas

-----------------------------------------------------------------------------
(* A thread that moves to a phase with what the phase needs leaves every   *)
(* thread with what it needs.                                              *)
LEMMA HebraPasa ==
  ASSUME Hebras, NEW c \in Clientes, NEW f, NEW p, NEW r, LlevaDe(f, p), Pasar(c, f, p, r)
  PROVE  Hebras' /\ fase'[c] = f /\ pend'[c] = p /\ resp'[c] = r
<1>1. /\ fase = [d \in Clientes |-> fase[d]] /\ pend = [d \in Clientes |-> pend[d]]
      /\ resp = [d \in Clientes |-> resp[d]]
      /\ fase' = [fase EXCEPT ![c] = f] /\ pend' = [pend EXCEPT ![c] = p]
      /\ resp' = [resp EXCEPT ![c] = r]
  BY DEF Hebras, EsFuncion, Pasar
<1>2. /\ fase' = [d \in Clientes |-> fase'[d]] /\ pend' = [d \in Clientes |-> pend'[d]]
      /\ resp' = [d \in Clientes |-> resp'[d]]
  BY <1>1
<1>3. /\ fase'[c] = f /\ pend'[c] = p /\ resp'[c] = r
      /\ \A d \in Clientes \ {c} : fase'[d] = fase[d] /\ pend'[d] = pend[d]
  BY <1>1
<1>4. \A d \in Clientes : LlevaDe(fase'[d], pend'[d])
  BY <1>3 DEF Hebras
<1> QED
  BY <1>2, <1>3, <1>4 DEF Hebras, EsFuncion

(* A thread that answers carries nothing.                                  *)
LEMMA HebraResponde ==
  ASSUME Hebras, NEW c \in Clientes, NEW r, Responder(c, r)
  PROVE  Hebras' /\ resp'[c] = r
  BY HebraPasa DEF Responder, LlevaDe, FasesSort

(* Nor does one that dies.                                                 *)
LEMMA HebraMuere ==
  ASSUME Hebras, NEW c \in Clientes, Morir(c)
  PROVE  Hebras'
  BY HebraPasa DEF Morir, LlevaDe, FasesSort

(* A thread goes on with what its next section needs.                      *)
LEMMA HebraSigue ==
  ASSUME Hebras, NEW c \in Clientes, NEW f, NEW p, LlevaDe(f, p), Seguir(c, f, p)
  PROVE  Hebras' /\ pend'[c] = p
  BY HebraPasa DEF Seguir

(* A step that leaves the table and the counts alone keeps the accounts.   *)
LEMMA CuentasQuietas ==
  ASSUME Cuentas, UNCHANGED compartidas, UNCHANGED hist
  PROVE  Cuentas'
  BY DEF Cuentas, compartidas, hist, MiembrosContados, BorradosContados, EsFuncion,
         UnConjunto, Presentes

-----------------------------------------------------------------------------
(* What SADD adds to a set, and SREM takes from it, in members.            *)
LEMMA CuentaUnion ==
  ASSUME NEW S \in SUBSET Textos, NEW P \in SUBSET Textos
  PROVE  /\ Cardinality(S) \in Nat /\ Cardinality(P \ S) \in Nat
         /\ Cardinality(S \cap P) \in Nat
         /\ Cardinality(S \cup P) = Cardinality(S) + Cardinality(P \ S)
         /\ Cardinality(S \ P) = Cardinality(S) - Cardinality(S \cap P)
<1>1. IsFiniteSet(S) /\ IsFiniteSet(P)
  BY FS_Subset, BddAssumption
<1>2. IsFiniteSet(P \ S) /\ IsFiniteSet(S \cap P) /\ IsFiniteSet(S \ P)
  BY <1>1, FS_Subset
<1>3. /\ Cardinality(S) \in Nat /\ Cardinality(P \ S) \in Nat
      /\ Cardinality(S \cap P) \in Nat /\ Cardinality(S \ P) \in Nat
  BY <1>1, <1>2, FS_CardinalityType
<1>4. S \cup (P \ S) = S \cup P /\ S \cap (P \ S) = {}
  OBVIOUS
<1>5. (S \ P) \cup (S \cap P) = S /\ (S \ P) \cap (S \cap P) = {}
  OBVIOUS
<1>6. Cardinality({}) = 0
  BY FS_EmptySet
<1>7. Cardinality(S \cup (P \ S))
        = Cardinality(S) + Cardinality(P \ S) - Cardinality(S \cap (P \ S))
  BY <1>1, <1>2, FS_Union
<1>8. Cardinality((S \ P) \cup (S \cap P))
        = Cardinality(S \ P) + Cardinality(S \cap P) - Cardinality((S \ P) \cap (S \cap P))
  BY <1>2, FS_Union
<1>9. Cardinality(S \cup P) = Cardinality(S) + Cardinality(P \ S) - 0
  BY <1>4, <1>6, <1>7
<1>10. Cardinality(S) = Cardinality(S \ P) + Cardinality(S \cap P) - 0
  BY <1>5, <1>6, <1>8
<1> QED
  BY <1>3, <1>9, <1>10

(* The parameters of a request are finitely many texts.                    *)
LEMMA Parametros ==
  ASSUME NEW ps \in Tandas
  PROVE  ToSet(ps) \in SUBSET Textos
<1>1. ps \in Seq(Textos)
  BY ServidorAssumption
<1> QED
  BY <1>1 DEF ToSet

(* What a client reads under ClaveSet is what the key holds.               *)
LEMMA LeeConjunto ==
  ASSUME Cuentas
  PROVE  \/ tabla[ClaveSet] = Ausente /\ Leido(ClaveSet) = Nada /\ neto = 0
         \/ \E S \in SUBSET Textos : /\ tabla[ClaveSet] = NoExpirable(Conjunto(S))
                                     /\ Leido(ClaveSet) = Conjunto(S)
                                     /\ neto = Cardinality(S)
<1>1. CASE tabla[ClaveSet] = Ausente
  BY <1>1 DEF Cuentas, MiembrosContados, Leido, ObtenerValor, Get, Expiro, Ausente,
              NoExpirable, Nada
<1>2. ASSUME NEW S \in SUBSET Textos, tabla[ClaveSet] = NoExpirable(Conjunto(S))
      PROVE  Leido(ClaveSet) = Conjunto(S) /\ neto = Cardinality(S)
  BY <1>2 DEF Cuentas, MiembrosContados, Leido, ObtenerValor, Get, Expiro,
              NoExpirable, Conjunto
<1> QED
  BY <1>1, <1>2 DEF Cuentas, UnConjunto

(* A table that gets another set under ClaveSet keeps the accounts when    *)
(* the count follows.                                                      *)
LEMMA CambiaConjunto ==
  ASSUME Cuentas, NEW S \in SUBSET Textos, envenenado' = envenenado,
         tabla' = GuardarValor(tabla, ClaveSet, Conjunto(S)),
         neto' = Cardinality(S), UNCHANGED quitadas
  PROVE  Cuentas'
<1>1. ClaveSet \in Claves /\ Contadas \subseteq Claves \ {ClaveSet}
  BY ConservacionAssumption
<1>2. /\ EsFuncion(tabla', Claves)
      /\ tabla'[ClaveSet] = NoExpirable(Conjunto(S))
      /\ \A k \in Claves \ {ClaveSet} : tabla'[k] = tabla[k]
  BY <1>1 DEF Cuentas, EsFuncion, GuardarValor
<1>3. Presentes(tabla') \cap Contadas = Presentes(tabla) \cap Contadas
  BY <1>1, <1>2 DEF Presentes
<1>4. BorradosContados'
  BY <1>3 DEF Cuentas, BorradosContados
<1>5. MiembrosContados'
  BY <1>2 DEF MiembrosContados, NoExpirable, Conjunto
<1>6. Cardinality(S) \in Nat
  BY CuentaUnion
<1>7. \A k \in Contadas : tabla'[k].vida = SinVida
  BY <1>1, <1>2 DEF Cuentas
<1> QED
  BY <1>2, <1>4, <1>5, <1>6, <1>7 DEF Cuentas, UnConjunto

(* A section of SADD or SREM on ClaveSet that writes the set S and answers *)
(* n.                                                                      *)
LEMMA SeccionConjunto ==
  ASSUME Hebras, Cuentas, NEW c \in Clientes, NEW S \in SUBSET Textos, NEW n,
         Entera(c, ClaveSet, Escribe(Conjunto(S), Entero(n)))
  PROVE  /\ Hebras' /\ resp'[c].int = n
         /\ envenenado' = envenenado
         /\ tabla' = GuardarValor(tabla, ClaveSet, Conjunto(S))
<1> DEFINE p == Escribe(Conjunto(S), Entero(n))
           T == Aplicar(tabla, ClaveSet, p, ahora)
<1>1. p.accion = "escribir" /\ p.nuevo = Conjunto(S) /\ p.vida = SinVida
      /\ p.res = Entero(n)
  BY DEF Escribe, Plan
<1>2. Conjunto(S) # Nada
  BY DEF Conjunto, Nada
<1>3. T = GuardarValor(tabla, ClaveSet, Conjunto(S))
  BY <1>1, <1>2 DEF Aplicar
<1>4. ~envenenado
  BY DEF Cuentas
<1>5. Seccion(c, T, IF p.accion = "escribir" THEN T ELSE enviado, p.res)
  BY <1>1, <1>4 DEF Entera
<1> HIDE DEF p, T
<1>6. tabla' = T /\ Responder(c, Entero(n)) /\ envenenado' = envenenado
  BY <1>1, <1>4, <1>5 DEF Seccion
<1>7. Hebras' /\ resp'[c] = Entero(n)
  BY <1>6, HebraResponde
<1> QED
  BY <1>3, <1>6, <1>7 DEF Entero

-----------------------------------------------------------------------------
(* SADD counts what it adds.                                               *)
LEMMA SAddCuenta ==
  ASSUME Hebras, Cuentas, NEW c \in Clientes, SADD(c, ClaveSet),
         neto' = neto + resp'[c].int, UNCHANGED quitadas
  PROVE  Hebras' /\ Cuentas'
<1> DEFINE v == Leido(ClaveSet)
<1>1. PICK ps \in Tandas : Entera(c, ClaveSet, PlanSAdd(v, ps))
  BY DEF SADD
<1>2. PICK P \in SUBSET Textos : P = ToSet(ps)
  BY Parametros
<1>3. PICK S \in SUBSET Textos :
        /\ PlanSAdd(v, ps) = Escribe(Conjunto(S \cup P), Entero(Cardinality(P \ S)))
        /\ neto = Cardinality(S)
  <2>1. CASE v = Nada /\ neto = 0
    <3>1. PlanSAdd(v, ps) = Escribe(Conjunto({} \cup P), Entero(Cardinality(P \ {})))
      BY <2>1, <1>2 DEF PlanSAdd, Nada
    <3>2. Cardinality({}) = 0
      BY FS_EmptySet
    <3> QED
      BY <2>1, <3>1, <3>2
  <2>2. ASSUME NEW S \in SUBSET Textos, v = Conjunto(S), neto = Cardinality(S)
        PROVE  PlanSAdd(v, ps) = Escribe(Conjunto(S \cup P), Entero(Cardinality(P \ S)))
    BY <2>2, <1>2 DEF PlanSAdd, Conjunto
  <2> QED
    BY <2>1, <2>2, LeeConjunto
<1>4. S \cup P \in SUBSET Textos
  OBVIOUS
<1>5. Entera(c, ClaveSet, Escribe(Conjunto(S \cup P), Entero(Cardinality(P \ S))))
  BY <1>1, <1>3
<1> HIDE DEF v
<1>6. /\ Hebras' /\ resp'[c].int = Cardinality(P \ S) /\ envenenado' = envenenado
      /\ tabla' = GuardarValor(tabla, ClaveSet, Conjunto(S \cup P))
  BY <1>4, <1>5, SeccionConjunto
<1>7. neto' = Cardinality(S \cup P)
  BY <1>3, <1>6, CuentaUnion
<1> QED
  BY <1>4, <1>6, <1>7, CambiaConjunto

(* SREM counts what it removes.                                            *)
LEMMA SRemCuenta ==
  ASSUME Hebras, Cuentas, NEW c \in Clientes, SREM(c, ClaveSet),
         neto' = neto - resp'[c].int, UNCHANGED quitadas
  PROVE  Hebras' /\ Cuentas'
<1> DEFINE v == Leido(ClaveSet)
<1>1. PICK ps \in Tandas : Entera(c, ClaveSet, PlanSRem(v, ps))
  BY DEF SREM
<1>2. PICK P \in SUBSET Textos : P = ToSet(ps)
  BY Parametros
<1>3. CASE v = Nada
  <2> DEFINE p == PlanSRem(v, ps)
  <2>1. p = Responde(Entero(0))
    BY <1>3 DEF PlanSRem, Nada
  <2>2. p.accion = "responder" /\ p.nuevo = Nada /\ p.res = Entero(0)
    BY <2>1 DEF Responde, Plan
  <2>3. Aplicar(tabla, ClaveSet, p, ahora) = tabla
    BY <2>2 DEF Aplicar
  <2>4. ~envenenado
    BY DEF Cuentas
  <2> HIDE DEF p, v
  <2>5. Seccion(c, tabla, enviado, Entero(0))
    <3>1. Entera(c, ClaveSet, p)
      BY <1>1 DEF p
    <3>2. p.accion # "panico" /\ p.accion # "escribir"
      BY <2>2
    <3> QED
      BY <3>1, <3>2, <2>2, <2>3 DEF Entera
  <2>6. tabla' = tabla /\ enviado' = enviado /\ Responder(c, Entero(0))
        /\ envenenado' = envenenado
    BY <2>4, <2>5 DEF Seccion
  <2>7. Hebras' /\ resp'[c] = Entero(0)
    BY <2>6, HebraResponde
  <2>8. neto' = neto
    BY <2>7 DEF Entero, Cuentas
  <2> QED
    BY <2>6, <2>7, <2>8, CuentasQuietas DEF compartidas, hist
<1>4. ASSUME NEW S \in SUBSET Textos, v = Conjunto(S), neto = Cardinality(S)
      PROVE  Hebras' /\ Cuentas'
  <2>1. PlanSRem(v, ps) = Escribe(Conjunto(S \ P), Entero(Cardinality(S \cap P)))
    BY <1>4, <1>2 DEF PlanSRem, Conjunto
  <2>2. S \ P \in SUBSET Textos
    OBVIOUS
  <2>3. Entera(c, ClaveSet, Escribe(Conjunto(S \ P), Entero(Cardinality(S \cap P))))
    BY <1>1, <2>1
  <2> HIDE DEF v
  <2>4. /\ Hebras' /\ resp'[c].int = Cardinality(S \cap P) /\ envenenado' = envenenado
        /\ tabla' = GuardarValor(tabla, ClaveSet, Conjunto(S \ P))
    BY <2>2, <2>3, SeccionConjunto
  <2>5. neto' = Cardinality(S \ P)
    BY <1>4, <2>4, CuentaUnion
  <2> QED
    BY <2>2, <2>4, <2>5, CambiaConjunto
<1> QED
  BY <1>3, <1>4, LeeConjunto

-----------------------------------------------------------------------------
(* Of the keys that DEL is asked for, one that is removed is one less.     *)
LEMMA UnaMenos ==
  ASSUME NEW A \in SUBSET Claves, NEW k \in A
  PROVE  Cardinality(A) \in Nat /\ Cardinality(A \ {k}) = Cardinality(A) - 1
<1>1. IsFiniteSet(A)
  BY FS_Subset, BddAssumption
<1>2. Cardinality(A) \in Nat
  BY <1>1, FS_CardinalityType
<1> QED
  BY <1>1, <1>2, FS_RemoveElement

(* A turn of the loop of DEL, EXISTS or MGET: DEL counts the key when it   *)
(* removes it, and the others change nothing.                              *)
LEMMA VisitaCuenta ==
  ASSUME Hebras, Cuentas, NEW c \in Clientes, MultiplePaso(c), UNCHANGED neto,
         quitadas' = IF pend[c].op = "DEL" THEN quitadas + pend'[c].cuenta - pend[c].cuenta
                     ELSE quitadas
  PROVE  Hebras' /\ Cuentas'
<1> DEFINE p == pend[c]
           k == Head(p.faltan)
           v == Leido(k)
           q == Visitar(p, v)
<1>1. p.faltan \in Seq(Contadas) /\ p.faltan # <<>> /\ p.cuenta \in Int
  BY DEF MultiplePaso, Hebras, LlevaDe
<1>2. k \in Contadas /\ Tail(p.faltan) \in Seq(Contadas)
  BY <1>1
<1>3. v = tabla[k].valor
  BY <1>2 DEF Cuentas, Leido, ObtenerValor, Get, Expiro
<1>4. q.faltan = Tail(p.faltan) /\ q.cuenta = IF v = Nada THEN p.cuenta ELSE p.cuenta + 1
  BY DEF Visitar
<1>5. /\ tabla' = IF p.op = "DEL" /\ v # Nada THEN EliminarClave(tabla, k) ELSE tabla
      /\ Seguir(c, "multiple", q) /\ envenenado' = envenenado
  BY DEF MultiplePaso, Cuentas
<1>6. Contadas \subseteq Claves \ {ClaveSet}
  BY ConservacionAssumption
<1> HIDE DEF p, k, v, q
<1>7. LlevaDe("multiple", q)
  BY <1>1, <1>2, <1>4 DEF LlevaDe, FasesSort
<1>8. Hebras' /\ pend'[c] = q
  BY <1>5, <1>7, HebraSigue
<1>9. quitadas' = IF p.op = "DEL" /\ v # Nada THEN quitadas + 1 ELSE quitadas
  BY <1>1, <1>4, <1>8 DEF p, Cuentas
<1>10. CASE p.op = "DEL" /\ v # Nada
  <2>1. /\ EsFuncion(tabla', Claves) /\ tabla'[k] = Ausente
        /\ \A j \in Claves \ {k} : tabla'[j] = tabla[j]
    BY <1>2, <1>5, <1>6, <1>10 DEF EliminarClave, Cuentas, EsFuncion
  <2>2. /\ k \in Presentes(tabla) \cap Contadas
        /\ Presentes(tabla') \cap Contadas = (Presentes(tabla) \cap Contadas) \ {k}
    BY <2>1, <1>2, <1>3, <1>6, <1>10 DEF Presentes, Ausente, NoExpirable
  <2>3. BorradosContados'
    <3> DEFINE A == Presentes(tabla) \cap Contadas
    <3>1. A \in SUBSET Claves /\ k \in A
      BY <2>2 DEF Presentes
    <3> HIDE DEF A
    <3>2. Cardinality(A) \in Nat /\ Cardinality(A \ {k}) = Cardinality(A) - 1
      BY <3>1, UnaMenos
    <3>3. quitadas + Cardinality(A) = Cardinality(Contadas) /\ quitadas \in Int
      BY DEF A, Cuentas, BorradosContados
    <3>4. (quitadas + 1) + Cardinality(A \ {k}) = Cardinality(Contadas)
      BY <3>2, <3>3
    <3>5. Presentes(tabla') \cap Contadas = A \ {k} /\ quitadas' = quitadas + 1
      BY <2>2, <1>9, <1>10 DEF A
    <3> QED
      BY <3>4, <3>5 DEF BorradosContados
  <2>4. tabla'[ClaveSet] = tabla[ClaveSet]
    BY <2>1, <1>2, <1>6, ConservacionAssumption
  <2>5. MiembrosContados'
    BY <2>4 DEF Cuentas, MiembrosContados
  <2>6. \A j \in Contadas : tabla'[j].vida = SinVida
    BY <2>1, <1>6 DEF Cuentas, Ausente, NoExpirable
  <2> QED
    BY <1>5, <1>8, <1>9, <1>10, <2>1, <2>3, <2>4, <2>5, <2>6 DEF Cuentas
<1>11. CASE ~(p.op = "DEL" /\ v # Nada)
  <2>1. tabla' = tabla /\ quitadas' = quitadas
    BY <1>5, <1>9, <1>11
  <2>2. Cuentas'
    BY <2>1, <1>5 DEF Cuentas, MiembrosContados, BorradosContados, EsFuncion, UnConjunto,
                      Presentes
  <2> QED
    BY <1>8, <2>2
<1> QED
  BY <1>10, <1>11

-----------------------------------------------------------------------------
(* SORT up to STORE only reads.                                            *)

(* The end of SORT: it panics, answers, or goes on to store where it was   *)
(* asked to.                                                               *)
LEMMA TerminarPasa ==
  ASSUME Hebras, NEW c \in Clientes, NEW p \in Sorts, NEW l, NEW leido, Terminar(c, p, l, leido)
  PROVE  Hebras'
<1>1. CASE Morir(c)
  BY <1>1, HebraMuere
<1>2. CASE Responder(c, VectorSimple(Configurar(p, l)))
  BY <1>2, HebraResponde
<1>3. CASE Seguir(c, "sortStore", [sort |-> p, lista |-> Configurar(p, l), leido |-> leido])
  <2>1. LlevaDe("sortStore", [sort |-> p, lista |-> Configurar(p, l), leido |-> leido])
    BY DEF LlevaDe
  <2> QED
    BY <1>3, <2>1, HebraSigue
<1> QED
  BY <1>1, <1>2, <1>3 DEF Terminar

(* Its first section keeps the options of the request.                     *)
LEMMA SortPasa ==
  ASSUME Hebras, NEW c \in Clientes, NEW k \in Claves, SORT(c, k)
  PROVE  Hebras' /\ UNCHANGED compartidas
<1>1. PICK p \in Sorts :
        \/ Responder(c, ErrBdd)
        \/ Responder(c, WrongType)
        \/ \E l \in Vectores(Leido(k)) :
             \/ Responder(c, VectorSimple(<<>>))
             \/ Morir(c)
             \/ Seguir(c, "sortPesos", [sort |-> p, leido |-> l])
             \/ Responder(c, NoDouble)
             \/ Terminar(c, p, OrdenarTextos(l), l)
  BY DEF SORT
<1>2. UNCHANGED compartidas
  BY DEF SORT
<1>3. ASSUME NEW r, Responder(c, r)
      PROVE  Hebras'
  BY <1>3, HebraResponde
<1>4. ASSUME NEW l, Seguir(c, "sortPesos", [sort |-> p, leido |-> l])
      PROVE  Hebras'
  <2>1. LlevaDe("sortPesos", [sort |-> p, leido |-> l])
    BY DEF LlevaDe
  <2> QED
    BY <1>4, <2>1, HebraSigue
<1>5. ASSUME NEW l, NEW m, Terminar(c, p, m, l)
      PROVE  Hebras'
  BY <1>5, TerminarPasa
<1> QED
  BY <1>1, <1>2, <1>3, <1>4, <1>5, HebraMuere

(* So does the sort by weight.                                             *)
LEMMA ConTuplasPasa ==
  ASSUME Hebras, NEW c \in Clientes, fase[c] \in FasesSort, NEW tuplas, ConTuplas(c, tuplas)
  PROVE  Hebras'
<1> DEFINE p == pend[c].sort
           l == OrdenarPorPeso(tuplas)
           q == [sort |-> p, lista |-> l, leido |-> pend[c].leido]
<1>1. p \in Sorts
  BY DEF Hebras, LlevaDe
<1>2. Morir(c) \/ Seguir(c, "sortObjetos", q) \/ Terminar(c, p, l, pend[c].leido)
  BY DEF ConTuplas
<1>3. LlevaDe("sortObjetos", q)
  BY <1>1 DEF LlevaDe
<1> HIDE DEF p, l, q
<1> QED
  BY <1>1, <1>2, <1>3, HebraMuere, HebraSigue, TerminarPasa

(* So does the section that lists the weights.                             *)
LEMMA SortPesosPasa ==
  ASSUME Hebras, NEW c \in Clientes, SortPesos(c)
  PROVE  Hebras'
<1> DEFINE l == pend[c].leido
           q(pesos) == [sort |-> pend[c].sort, leido |-> l, parejas |-> Parejas(l, pesos),
                        faltan |-> Parejas(l, pesos), tuplas |-> <<>>]
<1>1. fase[c] \in FasesSort
  BY DEF SortPesos, FasesSort
<1>2. pend[c].sort \in Sorts
  BY <1>1 DEF Hebras, LlevaDe
<1>3. \/ Responder(c, ErrBdd) \/ Responder(c, VectorSimple(l)) \/ ConTuplas(c, <<>>)
      \/ \E pesos \in SetToSeqs(PatronPesos \cap Presentes(tabla)) :
           Seguir(c, "sortTupla", q(pesos))
  BY DEF SortPesos
<1>4. ASSUME NEW pesos, Seguir(c, "sortTupla", q(pesos))
      PROVE  Hebras'
  <2>1. LlevaDe("sortTupla", q(pesos))
    BY <1>2 DEF LlevaDe
  <2> HIDE DEF q
  <2> QED
    BY <1>4, <2>1, HebraSigue
<1> HIDE DEF l, q
<1> QED
  BY <1>1, <1>3, <1>4, HebraResponde, ConTuplasPasa

(* So does the one that reads a weight.                                    *)
LEMMA SortTuplaPasa ==
  ASSUME Hebras, NEW c \in Clientes, SortTupla(c)
  PROVE  Hebras'
<1> DEFINE par == Head(pend[c].faltan)
           tuplas == Append(pend[c].tuplas, [valor |-> par.valor, peso |-> Leido(par.clave).str])
           q == [pend[c] EXCEPT !.faltan = Tail(@), !.tuplas = tuplas]
<1>1. fase[c] \in FasesSort /\ fase[c] = "sortTupla"
  BY DEF SortTupla, FasesSort
<1>2. "sort" \in DOMAIN pend[c] /\ pend[c].sort \in Sorts
  BY <1>1 DEF Hebras, LlevaDe
<1>3. Responder(c, Sintaxis) \/ ConTuplas(c, tuplas) \/ Seguir(c, "sortTupla", q)
  BY DEF SortTupla
<1>4. LlevaDe("sortTupla", q)
  <2>1. "sort" \in DOMAIN q /\ q.sort = pend[c].sort
    BY <1>2
  <2> HIDE DEF q
  <2> QED
    BY <1>2, <2>1 DEF LlevaDe
<1> HIDE DEF par, tuplas, q
<1> QED
  BY <1>1, <1>3, <1>4, HebraResponde, ConTuplasPasa, HebraSigue

(* The loops of GET need no options any more.                              *)
LEMMA SeguirGetPasa ==
  ASSUME Hebras, NEW c \in Clientes, NEW grupos, NEW traidos, NEW pusheado,
         SeguirGet(c, grupos, traidos, pusheado)
  PROVE  Hebras'
<1>1. PICK r, q : Responder(c, r) \/ Seguir(c, "sortObjeto", q)
  BY DEF SeguirGet
<1>2. LlevaDe("sortObjeto", q)
  BY DEF LlevaDe, FasesSort
<1> QED
  BY <1>1, <1>2, HebraResponde, HebraSigue

(* Nor do the sections that read what GET asks for.                        *)
LEMMA SortObjetosPasa ==
  ASSUME Hebras, NEW c \in Clientes, SortObjetos(c) \/ SortObjeto(c)
  PROVE  Hebras'
<1>1. PICK r, g, t, b : Responder(c, r) \/ SeguirGet(c, g, t, b)
  BY DEF SortObjetos, SortObjeto
<1> QED
  BY <1>1, HebraResponde, SeguirGetPasa

(* STORE touches neither the set nor the keys that are counted.            *)
LEMMA SortStorePasa ==
  ASSUME Hebras, Cuentas, NEW c \in Clientes, SortStore(c), UNCHANGED hist
  PROVE  Hebras' /\ Cuentas'
<1>1. fase[c] = "sortStore" /\ fase[c] \in FasesSort
  BY DEF SortStore, FasesSort
<1>2. pend[c].sort \in Sorts
  BY <1>1 DEF Hebras, LlevaDe
<1>3. PICK k \in pend[c].sort.guarda :
        LET T == GuardarValor(tabla, k, Lista(pend[c].lista))
        IN  Seccion(c, T, T, Simple(<<Len(pend[c].lista)>>))
  BY DEF SortStore
<1>4. k \in Claves /\ k # ClaveSet /\ k \notin Contadas
  BY <1>2, ConservacionAssumption
<1>5. PICK x, r : Seccion(c, GuardarValor(tabla, k, x), GuardarValor(tabla, k, x), r)
  BY <1>3
<1>6. tabla' = GuardarValor(tabla, k, x) /\ Responder(c, r) /\ envenenado' = envenenado
  BY <1>5 DEF Seccion, Cuentas
<1>7. Hebras'
  BY <1>6, HebraResponde
<1>8. ClaveSet \in Claves /\ Contadas \subseteq Claves
  BY ConservacionAssumption
<1>9. /\ EsFuncion(tabla', Claves)
      /\ \A j \in Claves \ {k} : tabla'[j] = tabla[j]
  BY <1>4, <1>6 DEF GuardarValor, Cuentas, EsFuncion
<1>10. tabla'[ClaveSet] = tabla[ClaveSet] /\ \A j \in Contadas : tabla'[j] = tabla[j]
  BY <1>4, <1>8, <1>9
<1>11. Presentes(tabla') \cap Contadas = Presentes(tabla) \cap Contadas
  BY <1>8, <1>10 DEF Presentes
<1>12. MiembrosContados' /\ BorradosContados'
  BY <1>10, <1>11 DEF Cuentas, MiembrosContados, BorradosContados, hist
<1> QED
  BY <1>6, <1>7, <1>9, <1>10, <1>12 DEF Cuentas, hist

-----------------------------------------------------------------------------
(* The counts start right, with every key that DEL is asked for there.     *)
LEMMA CuentasIniciales == InitHist => InvHist
<1> SUFFICES ASSUME InitHist
             PROVE  InvHist
  OBVIOUS
<1>1. Hebras
  BY DEF InitHist, Init, Hebras, EsFuncion, LlevaDe, FasesSort
<1>2. tabla = TablaInicial /\ envenenado = FALSE /\ neto = 0 /\ quitadas = 0
  BY DEF InitHist, Init
<1>3. EsFuncion(tabla, Claves)
  BY <1>2, HilosAssumption DEF Tablas, EsFuncion
<1>4. tabla[ClaveSet] = Ausente
  BY <1>2, ConservacionAssumption
<1>5. MiembrosContados
  BY <1>2, <1>4 DEF MiembrosContados, Ausente, NoExpirable, Nada
<1>6. Presentes(tabla) \cap Contadas = Contadas /\ \A k \in Contadas : tabla[k].vida = SinVida
  BY <1>2, ConservacionAssumption
<1>7. Cardinality(Contadas) \in Nat
  BY FS_Subset, FS_CardinalityType, BddAssumption, ConservacionAssumption
<1>8. BorradosContados
  BY <1>2, <1>6, <1>7 DEF BorradosContados
<1> QED
  BY <1>1, <1>2, <1>3, <1>4, <1>5, <1>6, <1>8 DEF InvHist, Cuentas, UnConjunto

(* Every step keeps the counts right.                                      *)
LEMMA CuentasSeMantienen == InvHist /\ [NextHist]_varsHist => InvHist'
<1> SUFFICES ASSUME Hebras, Cuentas, [NextHist]_varsHist
             PROVE  Hebras' /\ Cuentas'
  BY DEF InvHist
<1>1. CASE UNCHANGED varsHist
  <2>1. UNCHANGED compartidas /\ UNCHANGED hist /\ UNCHANGED <<fase, pend, resp>>
    BY <1>1 DEF varsHist, vars, compartidas, hist
  <2>2. Hebras'
    BY <2>1 DEF Hebras, EsFuncion, LlevaDe
  <2> QED
    BY <2>1, <2>2, CuentasQuietas
<1>2. ASSUME NEW c \in Clientes,
             SADD(c, ClaveSet) /\ neto' = neto + resp'[c].int /\ UNCHANGED quitadas
      PROVE  Hebras' /\ Cuentas'
  BY <1>2, SAddCuenta
<1>3. ASSUME NEW c \in Clientes,
             SREM(c, ClaveSet) /\ neto' = neto - resp'[c].int /\ UNCHANGED quitadas
      PROVE  Hebras' /\ Cuentas'
  BY <1>3, SRemCuenta
<1>4. ASSUME NEW c \in Clientes, MultiplePaso(c), UNCHANGED neto,
             quitadas' = IF pend[c].op = "DEL"
                         THEN quitadas + pend'[c].cuenta - pend[c].cuenta
                         ELSE quitadas
      PROVE  Hebras' /\ Cuentas'
  BY <1>4, VisitaCuenta
<1>5. ASSUME NEW c \in Clientes, Multiple(c), UNCHANGED hist
      PROVE  Hebras' /\ Cuentas'
  <2>1. PICK op \in {"DEL", "EXISTS", "MGET"}, ks \in Grupos :
          Seguir(c, "multiple", [op |-> op, faltan |-> ks, cuenta |-> 0, valores |-> <<>>])
    BY <1>5 DEF Multiple
  <2>2. ks \in Seq(Contadas)
    BY ConservacionAssumption
  <2>3. LlevaDe("multiple", [op |-> op, faltan |-> ks, cuenta |-> 0, valores |-> <<>>])
    BY <2>2 DEF LlevaDe, FasesSort
  <2>4. Hebras'
    BY <2>1, <2>3, HebraSigue
  <2>5. UNCHANGED compartidas
    BY <1>5 DEF Multiple
  <2> QED
    BY <1>5, <2>4, <2>5, CuentasQuietas
<1>6. ASSUME NEW c \in Clientes, MultipleFin(c) \/ Reconectar(c), UNCHANGED hist
      PROVE  Hebras' /\ Cuentas'
  <2>1. UNCHANGED compartidas /\ \E r : Responder(c, r)
    BY <1>6 DEF MultipleFin, Reconectar
  <2> QED
    BY <1>6, <2>1, HebraResponde, CuentasQuietas
<1>7. ASSUME NEW c \in Clientes, NEW k \in Claves, SORT(c, k), UNCHANGED hist
      PROVE  Hebras' /\ Cuentas'
  BY <1>7, SortPasa, CuentasQuietas
<1>8. ASSUME NEW c \in Clientes, ContinuarSort(c), UNCHANGED hist
      PROVE  Hebras' /\ Cuentas'
  <2>1. CASE SortStore(c)
    BY <1>8, <2>1, SortStorePasa
  <2>2. CASE SortPesos(c) \/ SortTupla(c) \/ SortObjetos(c) \/ SortObjeto(c)
    <3>1. UNCHANGED compartidas
      BY <2>2 DEF SortPesos, SortTupla, SortObjetos, SortObjeto
    <3> QED
      BY <1>8, <2>2, <3>1, SortPesosPasa, SortTuplaPasa, SortObjetosPasa, CuentasQuietas
  <2> QED
    BY <1>8, <2>1, <2>2 DEF ContinuarSort
<1>9. CASE NextHist
  BY <1>9, <1>2, <1>3, <1>4, <1>5, <1>6, <1>7, <1>8 DEF NextHist
<1> QED
  BY <1>1, <1>9

(* The members of the set are those whose addition some client was told of *)
(* and whose removal none was, however many clients race with SADD and     *)
(* SREM, DEL, EXISTS, MGET and SORT.                                       *)
THEOREM MiembrosSiempreContados == SpecHist => []MiembrosContados
<1>1. InvHist => MiembrosContados
  BY DEF InvHist, Cuentas
<1> QED
  BY CuentasIniciales, CuentasSeMantienen, <1>1, PTL DEF SpecHist

(* However many DEL race for the same keys, in whatever order and however  *)
(* often each names them, every key is counted once by the DEL that        *)
(* removed it.                                                             *)
THEOREM BorradosSiempreContados == SpecHist => []BorradosContados
<1>1. InvHist => BorradosContados
  BY DEF InvHist, Cuentas
<1> QED
  BY CuentasIniciales, CuentasSeMantienen, <1>1, PTL DEF SpecHist

=============================================================================
