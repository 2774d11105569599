------------------------- MODULE PersistenciaPruebas -------------------------
(***************************************************************************)
(* Proofs about the persistence thread and its file, for every interval,   *)
(* history of commands, crash and file that does or does not open: a copy  *)
(* of the table is dropped only close to a save; a save that left no byte  *)
(* over is read back as what was saved; and a file that was rewritten in   *)
(* place over longer lines can be read, and gives no key a value that was  *)
(* never stored under it.                                                  *)
(***************************************************************************)
EXTENDS Persistencia, SequenceTheorems, FiniteSetTheorems, WellFoundedInduction, TLAPS

(* The clock of the thread, instante, is the time of the last save that    *)
(* ended or of its start, for as long as the thread lives: a save that is  *)
(* under way, and so may never end, has not moved it.  This is what makes  *)
(* the bound on what is dropped inductive.                                 *)
Vivo == pers.paso \in {"esperar", "texto", "fin"}
Reloj == /\ "t" \in DOMAIN guardada
         /\ Vivo => "instante" \in DOMAIN pers /\ pers.instante = guardada.t

Horas == /\ ahora \in Nat /\ guardada.t \in Nat
         /\ descartada.t \in Nat /\ descartada.base \in Nat

(* A process that is down has no thread.                                   *)
SinHilo == proceso # "arriba" => pers.paso = "muerto"

InvDescarte == Reloj /\ SinHilo /\ Horas /\ DescarteAcotado

(* A field that an update does not name keeps its value, and the domain of *)
(* a record that is updated stays what it was.                             *)
LEMMA CampoIntacto ==
  ASSUME NEW r, NEW f, NEW g \in DOMAIN r, NEW v
  PROVE  LET s == [r EXCEPT ![f] = v]
         IN  g \in DOMAIN s /\ (f # g => s[g] = r[g]) /\ (f = g => s[g] = v)
OBVIOUS

(* Steps that leave the thread, its saves and its clock alone.             *)
LEMMA PasosAjenos ==
  ASSUME InvDescarte, UNCHANGED <<proceso, pers, guardada, descartada>>, ahora' \in {ahora, ahora + 1}
  PROVE  InvDescarte'
<1>1. ahora' \in Nat
  BY DEF InvDescarte, Horas
<1> QED BY <1>1 DEF InvDescarte, Reloj, SinHilo, Vivo, Horas,
                                      DescarteAcotado

(* Steps that write to the file, or that change its name: instante stays.  *)
LEMMA PasosDelHilo ==
  ASSUME InvDescarte, Vivo, UNCHANGED <<proceso, guardada, descartada, ahora>>,
         "instante" \in DOMAIN pers', pers'.instante = pers.instante
  PROVE  InvDescarte'
BY DEF InvDescarte, Reloj, SinHilo, Vivo, Horas, DescarteAcotado

(* A message received: dropped within the interval, or saved after it.     *)
LEMMA RecibirAcotado ==
  ASSUME InvDescarte, Recibir
  PROVE  InvDescarte'
<1> DEFINE m == Head(cola)
<1>0. /\ pers.paso = "esperar" /\ ahora' = ahora /\ proceso = "arriba" /\ proceso' = proceso
      /\ "t" \in DOMAIN guardada /\ "instante" \in DOMAIN pers /\ pers.instante = guardada.t
  BY DEF Recibir, InvDescarte, Reloj, Vivo
<1>1. CASE pers' = [pers EXCEPT !.archivo = m.ruta] /\ UNCHANGED <<guardada, descartada>>
  <2>1. "instante" \in DOMAIN pers' /\ pers'.instante = pers.instante
    BY <1>0, <1>1, CampoIntacto
  <2> QED BY <1>0, <1>1, <2>1, PasosDelHilo DEF Vivo
<1>2. CASE ahora - pers.instante < Intervalo /\ Descartar /\ UNCHANGED guardada
  <2>1. descartada'.t = ahora /\ descartada'.base = guardada.t /\ pers' = pers
    BY <1>2 DEF Descartar
  <2>2. ahora - guardada.t < Intervalo
    BY <1>0, <1>2
  <2> QED BY <1>0, <1>2, <2>1, <2>2 DEF InvDescarte, Reloj, SinHilo, Vivo, Horas,
                                      DescarteAcotado
<1>3. CASE /\ pers' = Guardando(pers, m.tabla, ahora)
           /\ guardada' = [guardada EXCEPT !.sobra = Incompleta]
           /\ UNCHANGED descartada
  <2>1. "t" \in DOMAIN guardada' /\ guardada'.t = guardada.t
    BY <1>0, <1>3, CampoIntacto
  <2>2. "instante" \in DOMAIN pers' /\ pers'.instante = pers.instante
    BY <1>3 DEF Guardando
  <2> QED BY <1>0, <1>3, <2>1, <2>2 DEF InvDescarte, Reloj, SinHilo, Vivo, Horas,
                                      DescarteAcotado
<1>4. CASE pers' = [paso |-> "muerto"] /\ UNCHANGED <<guardada, descartada>>
  <2>1. ~Vivo'
    BY <1>4 DEF Vivo
  <2> QED BY <1>0, <1>4, <2>1 DEF InvDescarte, Reloj, SinHilo, Horas, DescarteAcotado
<1> QED BY <1>1, <1>2, <1>3, <1>4 DEF Recibir

(* Whatever the thread, the clients, the clock or a crash does.            *)
LEMMA DescarteInductivo ==
  ASSUME InvDescarte, [Next]_vars
  PROVE  InvDescarte'
<1>1. ASSUME NEW k \in Claves, Guardar(k) \/ CambiarVida(k)
      PROVE  InvDescarte'
  BY <1>1, PasosAjenos DEF Guardar, CambiarVida, historia
<1>2. CASE CambiarArchivo \/ Tick
  BY <1>2, PasosAjenos DEF CambiarArchivo, Tick, historia
<1>3. CASE Recibir
  BY <1>3, RecibirAcotado
<1>4. CASE EscribirTexto
  <2>1. PICK k \in pers.faltan : \E cs \in pers.lineas[k] :
          pers' = [pers EXCEPT !.paso = "fin", !.faltan = @ \ {k}, !.pos = @ + Len(Texto(cs))]
    BY <1>4 DEF EscribirTexto
  <2>2. Vivo /\ "instante" \in DOMAIN pers
        /\ UNCHANGED <<proceso, guardada, descartada, ahora>>
    BY <1>4 DEF EscribirTexto, Vivo, InvDescarte, Reloj, historia
  <2>3. "instante" \in DOMAIN pers' /\ pers'.instante = pers.instante
    BY <2>1, <2>2
  <2> QED BY <2>2, <2>3, PasosDelHilo
<1>5. CASE EscribirFin
  <2>1. Vivo /\ "instante" \in DOMAIN pers
        /\ UNCHANGED <<proceso, guardada, descartada, ahora>>
    BY <1>5 DEF EscribirFin, Vivo, InvDescarte, Reloj, historia
  <2>2. "instante" \in DOMAIN pers' /\ pers'.instante = pers.instante
    BY <1>5, <2>1 DEF EscribirFin
  <2> QED BY <2>1, <2>2, PasosDelHilo
<1>6. CASE TerminarDeGuardar
  <2>1. /\ "instante" \in DOMAIN pers' /\ pers'.instante = ahora
        /\ "t" \in DOMAIN guardada' /\ guardada'.t = ahora
    BY <1>6 DEF TerminarDeGuardar, Esperando
  <2> QED BY <1>6, <2>1 DEF TerminarDeGuardar, InvDescarte, Reloj, SinHilo, Horas,
                           DescarteAcotado
<1>7. CASE Caer
  <2>1. ~Vivo'
    BY <1>7 DEF Caer, Vivo
  <2> QED BY <1>7, <2>1 DEF Caer, InvDescarte, Reloj, SinHilo, Horas, DescarteAcotado
<1>8. CASE Levantar
  <2>1. "t" \in DOMAIN guardada' /\ guardada'.t = ahora
    BY <1>8, CampoIntacto DEF Levantar, InvDescarte, Reloj
  <2>2. UNCHANGED <<descartada, ahora>>
    BY <1>8 DEF Levantar
  <2>3. CASE proceso' = "arriba" /\ pers' = Esperando(RutaInicial, ahora)
    <3>1. "instante" \in DOMAIN pers' /\ pers'.instante = ahora
      BY <2>3 DEF Esperando
    <3> QED BY <2>1, <2>2, <2>3, <3>1 DEF InvDescarte, Reloj, SinHilo, Horas, DescarteAcotado
  <2>4. CASE UNCHANGED pers
    <3>1. pers.paso = "muerto"
      BY <1>8 DEF Levantar, InvDescarte, SinHilo
    <3> QED BY <2>1, <2>2, <2>4, <3>1 DEF InvDescarte, Reloj, SinHilo, Vivo, Horas,
                                          DescarteAcotado
  <2> QED BY <1>8, <2>3, <2>4 DEF Levantar
<1>9. CASE UNCHANGED vars
  BY <1>9, PasosAjenos DEF vars
<1> QED BY <1>1, <1>2, <1>3, <1>4, <1>5, <1>6, <1>7, <1>8, <1>9 DEF Next, HiloPersistencia

(* At the start nothing has been saved or dropped.                         *)
LEMMA DescarteAlEmpezar ==
  ASSUME Init
  PROVE  InvDescarte
BY PersistenciaAssumption DEF Init, InvDescarte, Reloj, SinHilo, Vivo, Horas, DescarteAcotado,
                              Esperando

(* persistir drops a copy of the table only when less than the interval    *)
(* has gone by since the last save ended, or since the thread started:     *)
(* whatever the crashes, the changes of file and the copies dropped before *)
(* it, one that arrives an interval or more after both is never dropped.   *)
THEOREM DescarteSiempreAcotado == Spec => []DescarteAcotado
<1>1. Init => InvDescarte
  BY DescarteAlEmpezar
<1>2. InvDescarte => DescarteAcotado
  BY DEF InvDescarte
<1> QED BY <1>1, <1>2, DescarteInductivo, PTL DEF Spec

-----------------------------------------------------------------------------
(* Reading a file, byte by byte.                                           *)

(* A set that has 0, and with each number below N the next one, has all of *)
(* them up to N.                                                           *)
LEMMA HastaElFinal ==
  ASSUME NEW N \in Nat, NEW S, 0 \in S, \A n \in 0 .. N - 1 : n \in S => n + 1 \in S
  PROVE  \A n \in 0 .. N : n \in S
<1> DEFINE R == OpToRel(<, Nat)
           D == {n \in 0 .. N : n \notin S}
<1> SUFFICES ASSUME D # {} PROVE FALSE
  OBVIOUS
<1>1. IsWellFoundedOn(R, Nat)
  BY NatLessThanWellFounded
<1>7. D \subseteq Nat
  OBVIOUS
<1>2. \A x, y \in Nat : x < y => <<x, y>> \in R
  BY DEF OpToRel
<1> HIDE DEF R
<1>3. PICK x \in D : \A y \in D : ~(<<y, x>> \in R)
  <2> HIDE DEF D
  <2> QED BY <1>1, <1>7, WFMin
<1>4. x \in 1 .. N
  <2>1. x \in 0 .. N /\ x # 0
    BY <1>3
  <2> QED BY <2>1
<1>5. x - 1 \in 0 .. N - 1 /\ x - 1 < x /\ x = (x - 1) + 1
  BY <1>4
<1>6. x - 1 \in D
  <2>1. x \notin S
    BY <1>3
  <2>2. x - 1 \notin S
    BY <1>5, <2>1
  <2> QED BY <1>5, <2>2
<1> QED BY <1>2, <1>3, <1>5, <1>6, <1>7

(* What is read of a file up to each byte is well defined.                 *)
Principio == Lectura(SinClaves, "lee")
EsLectura(g, f, t, m) ==
  g = [n \in 0 .. m |-> IF n = 0 THEN Principio ELSE Avanzar(g[n - 1], f[n], t)]

(* Leyendo is the function its equation describes: there is one.           *)
LEMMA HayLectura ==
  ASSUME NEW f, Len(f) \in Nat, NEW t
  PROVE  EsLectura(Leyendo(f, t), f, t, Len(f))
<1> DEFINE S == {m \in Nat : \E g : EsLectura(g, f, t, m)}
<1>1. 0 \in S
  <2>1. EsLectura([n \in 0 .. 0 |-> Principio], f, t, 0)
    BY DEF EsLectura
  <2> QED BY <2>1
<1>2. ASSUME NEW m \in 0 .. Len(f) - 1, m \in S
      PROVE  m + 1 \in S
  <2>1. PICK g : EsLectura(g, f, t, m)
    BY <1>2
  <2> DEFINE h == [n \in 0 .. m + 1 |-> IF n = m + 1 THEN Avanzar(g[m], f[m + 1], t) ELSE g[n]]
  <2>2. ASSUME NEW n \in 0 .. m + 1
        PROVE  h[n] = IF n = 0 THEN Principio ELSE Avanzar(h[n - 1], f[n], t)
    <3>1. CASE n = 0
      <4>1. h[n] = g[0]
        BY <3>1
      <4> QED BY <2>1, <3>1, <4>1 DEF EsLectura
    <3>2. CASE n \in 1 .. m
      <4>1. h[n] = g[n] /\ h[n - 1] = g[n - 1]
        BY <3>2
      <4>2. g[n] = Avanzar(g[n - 1], f[n], t)
        BY <2>1, <3>2 DEF EsLectura
      <4> QED BY <3>2, <4>1, <4>2
    <3>3. CASE n = m + 1
      <4>1. h[n] = Avanzar(g[m], f[m + 1], t) /\ h[m] = g[m]
        BY <3>3
      <4> QED BY <3>3, <4>1
    <3> QED BY <3>1, <3>2, <3>3
  <2>3. h = [n \in 0 .. m + 1 |-> h[n]]
    OBVIOUS
  <2> HIDE DEF h
  <2>4. EsLectura(h, f, t, m + 1)
    BY <2>2, <2>3 DEF EsLectura
  <2> QED BY <2>4
<1>3. Len(f) \in S
  <2> HIDE DEF S
  <2>1. \A n \in 0 .. Len(f) : n \in S
    BY <1>1, <1>2, HastaElFinal
  <2> QED BY <2>1
<1>4. PICK g : EsLectura(g, f, t, Len(f))
  BY <1>3
<1>5. Leyendo(f, t) = CHOOSE h : EsLectura(h, f, t, Len(f))
  BY DEF Leyendo, EsLectura, Principio
<1> QED BY <1>4, <1>5

(* One byte more.                                                          *)
LEMMA UnByteMas ==
  ASSUME NEW f, Len(f) \in Nat, NEW t
  PROVE  /\ Leyendo(f, t)[0] = Principio
         /\ \A n \in 1 .. Len(f) : Leyendo(f, t)[n] = Avanzar(Leyendo(f, t)[n - 1], f[n], t)
<1>1. PICK g : g = Leyendo(f, t)
  OBVIOUS
<1>2. EsLectura(g, f, t, Len(f))
  BY <1>1, HayLectura
<1>3. g[0] = Principio /\ \A n \in 1 .. Len(f) : g[n] = Avanzar(g[n - 1], f[n], t)
  BY <1>2 DEF EsLectura
<1> QED BY <1>1, <1>3

(* What is read up to a byte depends on nothing after it.                  *)
LEMMA LecturaLocal ==
  ASSUME NEW f, Len(f) \in Nat, NEW g, Len(g) \in Nat, NEW t,
         NEW m \in Nat, m <= Len(f), m <= Len(g), \A i \in 1 .. m : f[i] = g[i]
  PROVE  Leyendo(f, t)[m] = Leyendo(g, t)[m]
<1> DEFINE S == {n \in Nat : Leyendo(f, t)[n] = Leyendo(g, t)[n]}
<1>1. 0 \in S
  BY UnByteMas
<1>2. ASSUME NEW n \in 0 .. m - 1, n \in S
      PROVE  n + 1 \in S
  <2>1. /\ n + 1 \in 1 .. Len(f) /\ n + 1 \in 1 .. Len(g) /\ n + 1 \in 1 .. m
        /\ (n + 1) - 1 = n /\ n + 1 \in Nat
    OBVIOUS
  <2>2. /\ Leyendo(f, t)[n + 1] = Avanzar(Leyendo(f, t)[n], f[n + 1], t)
        /\ Leyendo(g, t)[n + 1] = Avanzar(Leyendo(g, t)[n], g[n + 1], t)
    BY <2>1, UnByteMas
  <2> QED BY <1>2, <2>1, <2>2
<1> HIDE DEF S
<1>3. \A n \in 0 .. m : n \in S
  BY <1>1, <1>2, HastaElFinal
<1>4. m \in S
  BY <1>3
<1> QED BY <1>4 DEF S

-----------------------------------------------------------------------------
(* A number that is written in decimal is parsed back.                     *)

EsSuma(g, s, m) == g = [i \in 0 .. m |-> IF i = 0 THEN 0 ELSE 10 * g[i - 1] + s[i]]
Sumadas(g, s, m) == /\ g[0] = 0 /\ g \in [0 .. m -> Nat]
                    /\ \A i \in 1 .. m : g[i] = 10 * g[i - 1] + s[i]

(* A sequence of numbers is parsed to a number.                            *)
LEMMA HaySuma ==
  ASSUME NEW s \in Seq(Nat)
  PROVE  \E g : Cuenta(s) = g[Len(s)] /\ Sumadas(g, s, Len(s))
<1>1. PICK N \in Nat : N = Len(s)
  OBVIOUS
<1> DEFINE S == {m \in 0 .. N : \E g : EsSuma(g, s, m) /\ g \in [0 .. m -> Nat]}
<1>2. 0 \in S
  <2>1. PICK g : g = [i \in 0 .. 0 |-> 0]
    OBVIOUS
  <2>2. EsSuma(g, s, 0) /\ g \in [0 .. 0 -> Nat]
    BY <2>1 DEF EsSuma
  <2> QED BY <2>2
<1>3. ASSUME NEW m \in 0 .. N - 1, m \in S PROVE m + 1 \in S
  <2>1. PICK g : EsSuma(g, s, m) /\ g \in [0 .. m -> Nat]
    BY <1>3
  <2>2. m \in 0 .. m /\ m + 1 \in 1 .. N /\ m + 1 \in 0 .. N /\ (m + 1) - 1 = m
    BY <1>1
  <2>3. g[m] \in Nat /\ s[m + 1] \in Nat
    BY <1>1, <2>1, <2>2
  <2>4. PICK x \in Nat : x = 10 * g[m] + s[m + 1]
    BY <2>3
  <2>5. PICK h : h = [i \in 0 .. m + 1 |-> IF i = m + 1 THEN x ELSE g[i]]
    OBVIOUS
  <2>6. \A i \in 0 .. m : h[i] = g[i] /\ g[i] \in Nat
    BY <2>1, <2>5
  <2>7. h[m + 1] = x /\ DOMAIN h = 0 .. m + 1
    BY <2>5
  <2>8. \A i \in 0 .. m + 1 : i \in 0 .. m \/ i = m + 1
    OBVIOUS
  <2>9. h \in [0 .. m + 1 -> Nat]
    BY <2>5, <2>6, <2>7, <2>8
  <2>10. ASSUME NEW i \in 0 .. m + 1 PROVE h[i] = IF i = 0 THEN 0 ELSE 10 * h[i - 1] + s[i]
    <3>1. CASE i = 0
      <4>1. g[0] = 0 /\ 0 \in 0 .. m
        BY <2>1 DEF EsSuma
      <4> QED BY <2>6, <3>1, <4>1
    <3>2. CASE i \in 1 .. m
      <4>1. g[i] = 10 * g[i - 1] + s[i]
        BY <2>1, <3>2 DEF EsSuma
      <4>2. i - 1 \in 0 .. m /\ i \in 0 .. m
        BY <3>2
      <4> QED BY <2>6, <3>2, <4>1, <4>2
    <3>3. CASE i = m + 1
      <4>1. h[m] = g[m]
        BY <2>2, <2>6
      <4> QED BY <2>2, <2>4, <2>7, <3>3, <4>1
    <3> QED BY <3>1, <3>2, <3>3
  <2>11. EsSuma(h, s, m + 1)
    BY <2>7, <2>9, <2>10 DEF EsSuma
  <2> QED BY <2>2, <2>9, <2>11
<1>4. N \in S
  <2> HIDE DEF S
  <2>1. \A n \in 0 .. N : n \in S
    BY <1>2, <1>3, HastaElFinal
  <2> QED BY <2>1
<1>5. PICK u : EsSuma(u, s, N)
  BY <1>4
<1>6. PICK g : g = CHOOSE h : EsSuma(h, s, N)
  OBVIOUS
<1>7. EsSuma(g, s, N) /\ Cuenta(s) = g[N]
  BY <1>1, <1>5, <1>6 DEF Cuenta, EsSuma
<1>8. /\ g[0] = 0 /\ \A i \in 1 .. N : g[i] = 10 * g[i - 1] + s[i]
      /\ g = [i \in 0 .. N |-> g[i]]
  BY <1>7 DEF EsSuma
<1> DEFINE R == {i \in 0 .. N : g[i] \in Nat}
<1>9. 0 \in R
  BY <1>8
<1>10. ASSUME NEW m \in 0 .. N - 1, m \in R PROVE m + 1 \in R
  <2>1. m + 1 \in 1 .. N /\ (m + 1) - 1 = m /\ m + 1 \in 0 .. N
    OBVIOUS
  <2>4. g[m + 1] = 10 * g[(m + 1) - 1] + s[m + 1]
    BY <1>8, <2>1
  <2>2. g[m + 1] = 10 * g[m] + s[m + 1] /\ s[m + 1] \in Nat
    BY <1>1, <2>1, <2>4
  <2>3. g[m] \in Nat
    BY <1>10
  <2> QED BY <2>1, <2>2, <2>3
<1>11. \A i \in 0 .. N : i \in R
  <2> HIDE DEF R
  <2> QED BY <1>9, <1>10, HastaElFinal
<1>12. g \in [0 .. N -> Nat]
  BY <1>8, <1>11
<1> QED BY <1>1, <1>7, <1>8, <1>12 DEF Sumadas

(* One digit more.                                                         *)
LEMMA CuentaMasUno ==
  ASSUME NEW s \in Seq(Nat), NEW d \in Nat
  PROVE  /\ Cuenta(s) \in Nat /\ Cuenta(Append(s, d)) = 10 * Cuenta(s) + d
         /\ Cuenta(<<d>>) = d
<1>1. PICK N \in Nat : N = Len(s)
  OBVIOUS
<1>2. PICK r : r = Append(s, d)
  OBVIOUS
<1>3. r \in Seq(Nat) /\ Len(r) = N + 1 /\ r[N + 1] = d /\ \A i \in 1 .. N : r[i] = s[i]
  BY <1>1, <1>2
<1>12. PICK g : Cuenta(s) = g[N] /\ Sumadas(g, s, N)
  BY <1>1, HaySuma
<1>13. PICK h : Cuenta(r) = h[N + 1] /\ Sumadas(h, r, N + 1)
  BY <1>3, HaySuma
<1>4. /\ Cuenta(s) = g[N] /\ g[0] = 0 /\ g \in [0 .. N -> Nat]
      /\ \A i \in 1 .. N : g[i] = 10 * g[i - 1] + s[i]
  BY <1>12 DEF Sumadas
<1>5. /\ Cuenta(r) = h[N + 1] /\ h[0] = 0
      /\ \A i \in 1 .. N + 1 : h[i] = 10 * h[i - 1] + r[i]
  BY <1>13 DEF Sumadas
<1> DEFINE S == {i \in 0 .. N : h[i] = g[i]}
<1>6. 0 \in S
  BY <1>4, <1>5
<1>7. ASSUME NEW m \in 0 .. N - 1, m \in S PROVE m + 1 \in S
  <2>1. m + 1 \in 1 .. N /\ m + 1 \in 1 .. N + 1 /\ (m + 1) - 1 = m /\ m + 1 \in 0 .. N
    OBVIOUS
  <2>2. h[m + 1] = 10 * h[m] + r[m + 1] /\ g[m + 1] = 10 * g[m] + s[m + 1]
    BY <1>4, <1>5, <2>1
  <2>3. h[m] = g[m]
    BY <1>7
  <2> QED BY <1>3, <2>1, <2>2, <2>3
<1>8. h[N] = g[N]
  <2>1. \A i \in 0 .. N : i \in S
    <3> HIDE DEF S
    <3> QED BY <1>6, <1>7, HastaElFinal
  <2> QED BY <2>1
<1>9. N \in 0 .. N /\ N + 1 \in 1 .. N + 1 /\ (N + 1) - 1 = N
  OBVIOUS
<1>10. Cuenta(s) \in Nat /\ Cuenta(r) = 10 * Cuenta(s) + d
  BY <1>3, <1>4, <1>5, <1>8, <1>9
<1>11. Cuenta(<<d>>) = d
  <2>1. PICK w : w = <<d>>
    OBVIOUS
  <2>2. w \in Seq(Nat) /\ Len(w) = 1 /\ w[1] = d
    BY <2>1
  <2>6. PICK u : Cuenta(w) = u[1] /\ Sumadas(u, w, 1)
    BY <2>2, HaySuma
  <2>3. Cuenta(w) = u[1] /\ u[0] = 0 /\ \A i \in 1 .. 1 : u[i] = 10 * u[i - 1] + w[i]
    BY <2>6 DEF Sumadas
  <2>4. u[1] = 10 * u[1 - 1] + w[1] /\ 1 - 1 = 0
    BY <2>3
  <2>5. u[1] = d
    BY <2>2, <2>3, <2>4
  <2> QED BY <2>1, <2>3, <2>5
<1> QED BY <1>2, <1>10, <1>11

Cifras(g, i) == (i < 10 => g[i] = <<i>>) /\ (i >= 10 => g[i] = Append(g[i \div 10], i % 10))
EsDecimal(g, m) ==
  g = [i \in 0 .. m |-> IF i < 10 THEN <<i>> ELSE Append(g[i \div 10], i % 10)]

(* The function behind to_string.                                          *)
LEMMA HayCifras ==
  ASSUME NEW N \in Nat
  PROVE  \E g : Decimal(N) = g[N] /\ \A i \in 0 .. N : Cifras(g, i)
<1> DEFINE S == {m \in 0 .. N : \E g : EsDecimal(g, m)}
<1>1. 0 \in S
  <2>1. EsDecimal([i \in 0 .. 0 |-> <<i>>], 0)
    BY DEF EsDecimal
  <2> QED BY <2>1
<1>2. ASSUME NEW m \in 0 .. N - 1, m \in S PROVE m + 1 \in S
  <2>1. PICK g : EsDecimal(g, m)
    BY <1>2
  <2>2. PICK x : x = IF m + 1 < 10 THEN <<m + 1>> ELSE Append(g[(m + 1) \div 10], (m + 1) % 10)
    OBVIOUS
  <2>3. PICK h : h = [i \in 0 .. m + 1 |-> IF i = m + 1 THEN x ELSE g[i]]
    OBVIOUS
  <2>4. /\ \A i \in 0 .. m : h[i] = g[i]
        /\ h[m + 1] = x /\ h = [i \in 0 .. m + 1 |-> h[i]]
    BY <2>3
  <2>5. \A i \in 0 .. m + 1 : i >= 10 => i \div 10 \in 0 .. m
    BY SMTT(30)
  <2>6. ASSUME NEW i \in 0 .. m + 1
        PROVE  h[i] = IF i < 10 THEN <<i>> ELSE Append(h[i \div 10], i % 10)
    <3>1. i >= 10 => h[i \div 10] = g[i \div 10]
      BY <2>4, <2>5
    <3>2. CASE i \in 0 .. m
      <4>1. g[i] = IF i < 10 THEN <<i>> ELSE Append(g[i \div 10], i % 10)
        BY <2>1, <3>2 DEF EsDecimal
      <4>2. h[i] = g[i]
        BY <2>4, <3>2
      <4>3. CASE i < 10
        BY <4>1, <4>2, <4>3
      <4>4. CASE i >= 10
        BY <3>1, <4>1, <4>2, <4>4
      <4> QED BY <4>3, <4>4
    <3>3. CASE i = m + 1
      BY <2>2, <2>4, <3>1, <3>3
    <3> QED BY <3>2, <3>3
  <2>7. EsDecimal(h, m + 1)
    BY <2>4, <2>6 DEF EsDecimal
  <2> QED BY <2>7
<1>3. \A n \in 0 .. N : n \in S
  <2> HIDE DEF S
  <2> QED BY <1>1, <1>2, HastaElFinal
<1>4. PICK u : EsDecimal(u, N)
  BY <1>3
<1>5. PICK g : g = CHOOSE h : EsDecimal(h, N)
  OBVIOUS
<1>6. EsDecimal(g, N) /\ Decimal(N) = g[N]
  BY <1>4, <1>5 DEF Decimal, EsDecimal
<1>7. ASSUME NEW i \in 0 .. N PROVE Cifras(g, i)
  <2>1. g[i] = IF i < 10 THEN <<i>> ELSE Append(g[i \div 10], i % 10)
    BY <1>6 DEF EsDecimal
  <2> QED BY <2>1 DEF Cifras
<1> QED BY <1>6, <1>7

(* The digits of a number are digits, and add up to it.                    *)
LEMMA NumeroDecimal ==
  ASSUME NEW N \in Nat
  PROVE  Decimal(N) \in Seq(Digitos) /\ Decimal(N) # <<>> /\ Numero(Decimal(N)) = N
<1>1. PICK g : Decimal(N) = g[N] /\ \A i \in 0 .. N : Cifras(g, i)
  BY HayCifras
<1> DEFINE Bien(i) == g[i] \in Seq(Digitos) /\ g[i] # <<>> /\ Cuenta(g[i]) = i
           S == {m \in 0 .. N : \A i \in 0 .. m : Bien(i)}
<1>2. ASSUME NEW i \in 0 .. N, i < 10 PROVE Bien(i)
  <2>1. g[i] = <<i>> /\ i \in Digitos /\ i \in Nat
    BY <1>1, <1>2 DEF Digitos, Cifras
  <2>2. Cuenta(<<i>>) = i
    <3>1. <<>> \in Seq(Nat)
      OBVIOUS
    <3> QED BY <2>1, <3>1, CuentaMasUno
  <2> QED BY <2>1, <2>2
<1>3. ASSUME NEW i \in 0 .. N, i >= 10, Bien(i \div 10) PROVE Bien(i)
  <2>1. PICK s, d : s = g[i \div 10] /\ d = i % 10
    OBVIOUS
  <2>2. d \in Nat /\ d \in Digitos /\ i = 10 * (i \div 10) + d
    BY <2>1, SMTT(30) DEF Digitos
  <2>3. s \in Seq(Digitos) /\ Cuenta(s) = i \div 10 /\ g[i] = Append(s, d)
    BY <1>1, <1>3, <2>1 DEF Cifras
  <2>4. s \in Seq(Nat)
    BY <2>3 DEF Digitos
  <2>5. Cuenta(Append(s, d)) = 10 * Cuenta(s) + d
    BY <2>2, <2>4, CuentaMasUno
  <2>6. Append(s, d) \in Seq(Digitos) /\ Append(s, d) # <<>>
    BY <2>2, <2>3
  <2> QED BY <2>2, <2>3, <2>5, <2>6
<1> HIDE DEF Bien
<1>4. 0 \in S
  BY <1>2
<1>5. ASSUME NEW m \in 0 .. N - 1, m \in S PROVE m + 1 \in S
  <2>1. m + 1 \in 0 .. N /\ (m + 1 >= 10 => (m + 1) \div 10 \in 0 .. m)
    BY SMTT(30)
  <2>2. \A i \in 0 .. m : Bien(i)
    BY <1>5
  <2>3. Bien(m + 1)
    BY <1>2, <1>3, <2>1, <2>2
  <2>4. \A i \in 0 .. m + 1 : i \in 0 .. m \/ i = m + 1
    OBVIOUS
  <2> QED BY <2>1, <2>2, <2>3, <2>4
<1>6. Bien(N)
  <2>1. \A n \in 0 .. N : n \in S
    <3> HIDE DEF S
    <3> QED BY <1>4, <1>5, HastaElFinal
  <2> QED BY <2>1
<1>7. Decimal(N) \in Seq(Digitos) /\ Decimal(N) # <<>> /\ Cuenta(Decimal(N)) = N
  BY <1>1, <1>6 DEF Bien
<1>8. \A i \in DOMAIN Decimal(N) : Decimal(N)[i] \in Digitos
  BY <1>7
<1> QED BY <1>7, <1>8 DEF Numero

(* Whatever a field says, what is made of it is a number.                  *)
LEMMA NumeroEsNat ==
  ASSUME NEW A, NEW s \in Seq(A)
  PROVE  Numero(s) \in Nat
<1>1. CASE s # <<>> /\ \A i \in DOMAIN s : s[i] \in Digitos
  <2>1. s \in Seq(Nat)
    BY <1>1 DEF Digitos
  <2>2. Cuenta(s) \in Nat
    BY <2>1, CuentaMasUno
  <2> QED BY <1>1, <2>2 DEF Numero
<1>2. CASE ~(s # <<>> /\ \A i \in DOMAIN s : s[i] \in Digitos)
  BY <1>2 DEF Numero
<1> QED BY <1>1, <1>2

(* What Pisar leaves in a file.                                            *)
LEMMA Pisado ==
  ASSUME NEW A, NEW f \in Seq(A), NEW cs \in Seq(A), NEW p \in 0 .. Len(f)
  PROVE  LET g == Pisar(f, p, cs)
         IN  /\ g \in Seq(A) /\ p + Len(cs) <= Len(g) /\ Len(f) <= Len(g)
             /\ Len(g) = IF p + Len(cs) > Len(f) THEN p + Len(cs) ELSE Len(f)
             /\ \A i \in 1 .. p : g[i] = f[i]
             /\ \A i \in 1 .. Len(cs) : g[p + i] = cs[i]
             /\ \A i \in p + Len(cs) + 1 .. Len(g) : g[i] = f[i]
<1> DEFINE N == IF p + Len(cs) > Len(f) THEN p + Len(cs) ELSE Len(f)
           v(i) == IF p < i /\ i <= p + Len(cs) THEN cs[i - p] ELSE f[i]
           g == Pisar(f, p, cs)
<1>1. PICK l \in Nat : l = Len(f)
  OBVIOUS
<1>2. PICK c \in Nat : c = Len(cs)
  OBVIOUS
<1>3. N \in Nat /\ N = IF p + c > l THEN p + c ELSE l
  BY <1>1, <1>2
<1>4. ASSUME NEW i \in 1 .. N PROVE v(i) \in A
  <2>1. CASE p < i /\ i <= p + Len(cs)
    <3>1. i - p \in 1 .. Len(cs)
      BY <2>1
    <3> QED BY <2>1, <3>1
  <2>2. CASE ~(p < i /\ i <= p + Len(cs))
    <3>1. i \in 1 .. Len(f)
      BY <1>1, <1>2, <1>3, <2>2
    <3> QED BY <2>2, <3>1
  <2> QED BY <2>1, <2>2
<1>5. g = [i \in 1 .. N |-> v(i)]
  BY DEF Pisar
<1> HIDE DEF N, v, g
<1>6. g \in Seq(A) /\ Len(g) = N /\ \A i \in 1 .. N : g[i] = v(i)
  BY <1>3, <1>4, <1>5
<1>7. p \in Nat /\ p <= l
  BY <1>1
<1>8. ASSUME NEW i \in 1 .. p PROVE g[i] = f[i]
  <2>1. i \in 1 .. N /\ ~(p < i)
    BY <1>1, <1>2, <1>3, <1>7
  <2> QED BY <1>6, <2>1 DEF v
<1>9. ASSUME NEW i \in 1 .. c PROVE g[p + i] = cs[i]
  <2>1. p + i \in 1 .. N /\ p < p + i /\ p + i <= p + Len(cs) /\ (p + i) - p = i
    BY <1>1, <1>2, <1>3, <1>7
  <2> QED BY <1>6, <2>1 DEF v
<1>10. ASSUME NEW i \in p + c + 1 .. N PROVE g[i] = f[i]
  <2>1. i \in 1 .. N /\ ~(i <= p + Len(cs))
    BY <1>1, <1>2, <1>3, <1>7
  <2> QED BY <1>6, <2>1 DEF v
<1>11. p + c <= N /\ l <= N
  BY <1>3, <1>7
<1>12. N = IF p + Len(cs) > Len(f) THEN p + Len(cs) ELSE Len(f)
  BY DEF N
<1> QED BY <1>1, <1>2, <1>6, <1>8, <1>9, <1>10, <1>11, <1>12 DEF g

(* A write at pos leaves what is read up to pos as it was.                 *)
LEMMA LecturaPisada ==
  ASSUME NEW A, NEW f \in Seq(A), NEW cs \in Seq(A), NEW p \in 0 .. Len(f), NEW t
  PROVE  Leyendo(Pisar(f, p, cs), t)[p] = Leyendo(f, t)[p]
<1>1. PICK g : g = Pisar(f, p, cs)
  OBVIOUS
<1>2. g \in Seq(A) /\ Len(f) <= Len(g) /\ \A i \in 1 .. p : g[i] = f[i]
  BY <1>1, Pisado
<1>3. p \in Nat /\ p <= Len(f) /\ p <= Len(g) /\ Len(f) \in Nat /\ Len(g) \in Nat
  BY <1>2
<1>4. Leyendo(g, t)[p] = Leyendo(f, t)[p]
  BY <1>2, <1>3, LecturaLocal
<1> QED BY <1>1, <1>4

(* A prefix that is one longer.                                            *)
LEMMA UnoMas ==
  ASSUME NEW A, NEW s \in Seq(A), NEW n \in 0 .. Len(s) - 1
  PROVE  SubSeq(s, 1, n + 1) = Append(SubSeq(s, 1, n), s[n + 1])
<1>1. PICK l \in Nat : l = Len(s)
  OBVIOUS
<1>2. n \in Nat /\ n + 1 \in 1 .. l /\ n + 1 <= l /\ n <= l
  BY <1>1
<1>3. PICK a, b, x : a = SubSeq(s, 1, n + 1) /\ b = SubSeq(s, 1, n) /\ x = s[n + 1]
  OBVIOUS
<1>4. /\ a \in Seq(A) /\ Len(a) = n + 1 /\ (\A i \in 1 .. n + 1 : a[i] = s[i])
      /\ b \in Seq(A) /\ Len(b) = n /\ (\A i \in 1 .. n : b[i] = s[i])
      /\ x \in A
  BY <1>1, <1>2, <1>3
<1>5. /\ Append(b, x) \in Seq(A) /\ Len(Append(b, x)) = n + 1 /\ Append(b, x)[n + 1] = x
      /\ \A i \in 1 .. n : Append(b, x)[i] = b[i]
  BY <1>2, <1>4
<1>6. ASSUME NEW i \in 1 .. n + 1 PROVE a[i] = Append(b, x)[i]
  <2>1. i \in 1 .. n \/ i = n + 1
    BY <1>2
  <2> QED BY <1>3, <1>4, <1>5, <2>1
<1>7. a = Append(b, x)
  BY <1>4, <1>5, <1>6, SeqEqual
<1> QED BY <1>3, <1>7

-----------------------------------------------------------------------------
(* The text of a line, and what is read of it.                             *)

(* Two sequences with one byte between them.                               *)
LEMMA Pegado ==
  ASSUME NEW A, NEW a \in Seq(A), NEW c \in Seq(A), NEW x \in A, NEW g, g = a \o <<x>> \o c
  PROVE  /\ g \in Seq(A) /\ Len(g) = Len(a) + 1 + Len(c) /\ g[Len(a) + 1] = x
         /\ \A i \in 1 .. Len(a) : g[i] = a[i]
         /\ \A i \in 1 .. Len(c) : g[Len(a) + 1 + i] = c[i]
<1>1. PICK b : b = a \o <<x>>
  OBVIOUS
<1>2. /\ b \in Seq(A) /\ Len(b) = Len(a) + 1 /\ b[Len(a) + 1] = x
      /\ \A i \in 1 .. Len(a) : b[i] = a[i]
  BY <1>1
<1>3. /\ g \in Seq(A) /\ Len(g) = Len(b) + Len(c)
      /\ \A i \in 1 .. Len(b) : g[i] = b[i]
      /\ \A i \in 1 .. Len(c) : g[Len(b) + i] = c[i]
  BY <1>1, <1>2
<1>4. \A i \in 1 .. Len(a) : i \in 1 .. Len(b)
  BY <1>2
<1>5. Len(a) + 1 \in 1 .. Len(b)
  BY <1>2
<1> QED BY <1>2, <1>3, <1>4, <1>5

EsUnion(u, cs, m) ==
  u = [n \in 0 .. m |-> IF n = 0 THEN <<>> ELSE IF n = 1 THEN cs[1] ELSE u[n - 1] \o <<Sep>> \o cs[n]]
Unidos(u, cs, m) == /\ u[0] = <<>> /\ (m >= 1 => u[1] = cs[1])
                    /\ \A n \in 2 .. m : u[n] = u[n - 1] \o <<Sep>> \o cs[n]

(* The function behind Texto.                                              *)
LEMMA HayUnion ==
  ASSUME NEW cs, NEW N \in Nat, N = Len(cs)
  PROVE  \E u : Texto(cs) = u[N] /\ Unidos(u, cs, N)
<1> DEFINE S == {m \in 0 .. N : \E u : EsUnion(u, cs, m)}
<1>1. 0 \in S
  <2>1. EsUnion([n \in 0 .. 0 |-> <<>>], cs, 0)
    BY DEF EsUnion
  <2> QED BY <2>1
<1>2. ASSUME NEW m \in 0 .. N - 1, m \in S PROVE m + 1 \in S
  <2>1. PICK u : EsUnion(u, cs, m)
    BY <1>2
  <2>2. PICK x : x = IF m + 1 = 1 THEN cs[1] ELSE u[m] \o <<Sep>> \o cs[m + 1]
    OBVIOUS
  <2>3. PICK h : h = [n \in 0 .. m + 1 |-> IF n = m + 1 THEN x ELSE u[n]]
    OBVIOUS
  <2>4. /\ \A n \in 0 .. m : h[n] = u[n]
        /\ h[m + 1] = x /\ h = [n \in 0 .. m + 1 |-> h[n]]
    BY <2>3
  <2>6. ASSUME NEW n \in 0 .. m + 1
        PROVE  h[n] = IF n = 0 THEN <<>> ELSE IF n = 1 THEN cs[1] ELSE h[n - 1] \o <<Sep>> \o cs[n]
    <3>1. n # 0 => n - 1 \in 0 .. m /\ h[n - 1] = u[n - 1]
      BY <2>4
    <3>2. CASE n \in 0 .. m
      <4>1. u[n] = IF n = 0 THEN <<>> ELSE IF n = 1 THEN cs[1] ELSE u[n - 1] \o <<Sep>> \o cs[n]
        BY <2>1, <3>2 DEF EsUnion
      <4>2. h[n] = u[n]
        BY <2>4, <3>2
      <4> QED BY <3>1, <4>1, <4>2
    <3>3. CASE n = m + 1
      <4>1. n - 1 = m /\ n # 0
        BY <3>3
      <4> QED BY <2>2, <2>4, <3>1, <3>3, <4>1
    <3> QED BY <3>2, <3>3
  <2>7. EsUnion(h, cs, m + 1)
    BY <2>4, <2>6 DEF EsUnion
  <2> QED BY <2>7
<1>3. \A n \in 0 .. N : n \in S
  <2> HIDE DEF S
  <2> QED BY <1>1, <1>2, HastaElFinal
<1>4. PICK v : EsUnion(v, cs, N)
  BY <1>3
<1>5. PICK u : u = CHOOSE h : EsUnion(h, cs, N)
  OBVIOUS
<1>6. EsUnion(u, cs, N) /\ Texto(cs) = u[N]
  BY <1>4, <1>5 DEF Texto, EsUnion
<1>7. ASSUME NEW n \in 0 .. N
      PROVE  u[n] = IF n = 0 THEN <<>> ELSE IF n = 1 THEN cs[1] ELSE u[n - 1] \o <<Sep>> \o cs[n]
  BY <1>6 DEF EsUnion
<1>8. u[0] = <<>> /\ (N >= 1 => u[1] = cs[1])
  BY <1>7
<1>9. ASSUME NEW n \in 2 .. N PROVE u[n] = u[n - 1] \o <<Sep>> \o cs[n]
  <2>1. n \in 0 .. N /\ n # 0 /\ n # 1
    OBVIOUS
  <2> QED BY <1>7, <2>1
<1> QED BY <1>6, <1>8, <1>9 DEF Unidos

(* Each prefix of the text is one, and is followed by a separator and a    *)
(* field.                                                                  *)
Crecen(u, cs, A, N) ==
  /\ u[0] = <<>>
  /\ \A n \in 0 .. N : u[n] \in Seq(A)
  /\ N >= 1 => u[1] = cs[1]
  /\ \A n \in 1 .. N - 1 :
       /\ Len(u[n + 1]) = Len(u[n]) + 1 + Len(cs[n + 1]) /\ u[n + 1][Len(u[n]) + 1] = Sep
       /\ \A i \in 1 .. Len(u[n]) : u[n + 1][i] = u[n][i]
       /\ \A i \in 1 .. Len(cs[n + 1]) : u[n + 1][Len(u[n]) + 1 + i] = cs[n + 1][i]

(* The texts of the first fields of a line, from none of them to all.      *)
LEMMA TextoPorPartes ==
  ASSUME NEW A, Sep \in A, NEW cs \in Seq(Seq(A)), NEW N \in Nat, N = Len(cs)
  PROVE  \E u : Texto(cs) = u[N] /\ Crecen(u, cs, A, N)
<1>1. PICK u : Texto(cs) = u[N] /\ Unidos(u, cs, N)
  BY HayUnion
<1>2. /\ u[0] = <<>> /\ (N >= 1 => u[1] = cs[1])
      /\ \A n \in 2 .. N : u[n] = u[n - 1] \o <<Sep>> \o cs[n]
  BY <1>1 DEF Unidos
<1>3. \A n \in 1 .. N : cs[n] \in Seq(A)
  OBVIOUS
<1> DEFINE S == {n \in 0 .. N : u[n] \in Seq(A)}
<1>4. 0 \in S
  <2>1. u[0] \in Seq(A)
    BY <1>2
  <2> QED BY <2>1
<1>5. ASSUME NEW n \in 0 .. N - 1, n \in S PROVE n + 1 \in S
  <2>1. n + 1 \in 1 .. N /\ n + 1 \in 0 .. N /\ (n + 1) - 1 = n /\ u[n] \in Seq(A)
    BY <1>5
  <2>2. CASE n = 0
    BY <1>2, <1>3, <2>1, <2>2
  <2>3. CASE n # 0
    <3>1. n + 1 \in 2 .. N
      BY <2>3
    <3>2. u[n + 1] = u[n] \o <<Sep>> \o cs[n + 1]
      BY <1>2, <2>1, <3>1
    <3>3. cs[n + 1] \in Seq(A)
      BY <1>3, <2>1
    <3>4. u[n + 1] \in Seq(A)
      BY <2>1, <3>2, <3>3, Pegado
    <3> QED BY <2>1, <3>4
  <2> QED BY <2>2, <2>3
<1>6. \A n \in 0 .. N : u[n] \in Seq(A)
  <2>1. \A n \in 0 .. N : n \in S
    <3> HIDE DEF S
    <3> QED BY <1>4, <1>5, HastaElFinal
  <2> QED BY <2>1
<1>7. ASSUME NEW n \in 1 .. N - 1
      PROVE  /\ Len(u[n + 1]) = Len(u[n]) + 1 + Len(cs[n + 1]) /\ u[n + 1][Len(u[n]) + 1] = Sep
             /\ \A i \in 1 .. Len(u[n]) : u[n + 1][i] = u[n][i]
             /\ \A i \in 1 .. Len(cs[n + 1]) : u[n + 1][Len(u[n]) + 1 + i] = cs[n + 1][i]
  <2>1. n + 1 \in 2 .. N /\ (n + 1) - 1 = n /\ n \in 0 .. N /\ n + 1 \in 1 .. N
    OBVIOUS
  <2>2. u[n + 1] = u[n] \o <<Sep>> \o cs[n + 1]
    BY <1>2, <2>1
  <2>3. PICK a, c, g : a = u[n] /\ c = cs[n + 1] /\ g = u[n + 1]
    OBVIOUS
  <2>4. a \in Seq(A) /\ c \in Seq(A) /\ g = a \o <<Sep>> \o c
    BY <1>3, <1>6, <2>1, <2>2, <2>3
  <2>5. /\ g \in Seq(A) /\ Len(g) = Len(a) + 1 + Len(c) /\ g[Len(a) + 1] = Sep
        /\ \A i \in 1 .. Len(a) : g[i] = a[i]
        /\ \A i \in 1 .. Len(c) : g[Len(a) + 1 + i] = c[i]
    BY <2>4, Pegado
  <2> QED BY <2>3, <2>5
<1>8. Crecen(u, cs, A, N)
  BY <1>2, <1>6, <1>7 DEF Crecen
<1> QED BY <1>1, <1>8

(* The text of words of some bytes is one of those bytes and Sep.          *)
LEMMA TextoTipo ==
  ASSUME NEW A, Sep \in A, NEW cs \in Seq(Seq(A))
  PROVE  Texto(cs) \in Seq(A)
<1>1. PICK N \in Nat : N = Len(cs)
  OBVIOUS
<1>2. PICK u : Texto(cs) = u[N] /\ Crecen(u, cs, A, N)
  BY <1>1, TextoPorPartes
<1> QED BY <1>2 DEF Crecen

(* A reading with the table T, the fields C and the field c so far.        *)
Leido(T, C, c, e) == [tabla |-> T, campos |-> C, campo |-> c, estado |-> e]

(* The marks of a file are not bytes of fields.                            *)
LEMMA Marcas ==
  /\ \A b \in DeCampo : b # Sep /\ b # Nl
  /\ Sep # Nl /\ Sep \in Bytes /\ Nl \in Bytes /\ DeCampo \subseteq Bytes
  /\ Letras \subseteq DeCampo /\ Digitos \subseteq DeCampo
BY PersistenciaAssumption DEF DeCampo, Bytes

(* bs is what f says after p.                                              *)
Dicho(f, p, bs) == p + Len(bs) <= Len(f) /\ \A i \in 1 .. Len(bs) : f[p + i] = bs[i]

(* The bytes of a field are read into campo.                               *)
LEMMA CampoLeido ==
  ASSUME NEW f, Len(f) \in Nat, NEW t, NEW s \in Seq(DeCampo), NEW p \in Nat, Dicho(f, p, s),
         NEW T, NEW C, NEW e, Leyendo(f, t)[p] = Leido(T, C, <<>>, e)
  PROVE  Leyendo(f, t)[p + Len(s)] = Leido(T, C, s, e)
<1>1. PICK L, c : L = Len(f) /\ c = Len(s)
  OBVIOUS
<1>2. PICK g : g = Leyendo(f, t)
  OBVIOUS
<1>3. /\ L \in Nat /\ c \in Nat /\ (\A n \in 1 .. L : g[n] = Avanzar(g[n - 1], f[n], t)) /\ p + c <= L
      /\ \A i \in 1 .. c : f[p + i] = s[i]
  BY <1>1, <1>2, UnByteMas DEF Dicho
<1> DEFINE S == {n \in 0 .. c : g[p + n] = Leido(T, C, SubSeq(s, 1, n), e)}
<1>4. 0 \in S
  <2>1. SubSeq(s, 1, 0) = <<>> /\ p + 0 = p /\ 0 \in 0 .. c
    BY <1>3
  <2> QED BY <1>2, <2>1
<1>5. ASSUME NEW n \in 0 .. c - 1, n \in S PROVE n + 1 \in S
  <2>1. /\ p + (n + 1) \in 1 .. L /\ (p + (n + 1)) - 1 = p + n
        /\ n + 1 \in 1 .. c /\ n + 1 \in 0 .. c /\ n \in 0 .. Len(s) - 1
    BY <1>1, <1>3
  <2>2. g[p + (n + 1)] = Avanzar(g[p + n], s[n + 1], t) /\ s[n + 1] \in DeCampo
    BY <1>1, <1>3, <2>1
  <2>3. s[n + 1] # Nl /\ s[n + 1] # Sep
    BY <2>2, Marcas
  <2>4. g[p + n] = Leido(T, C, SubSeq(s, 1, n), e)
    BY <1>5
  <2>5. SubSeq(s, 1, n + 1) = Append(SubSeq(s, 1, n), s[n + 1])
    BY <2>1, UnoMas
  <2>6. PICK d, x : d = SubSeq(s, 1, n) /\ x = s[n + 1]
    OBVIOUS
  <2>7. Avanzar(Leido(T, C, d, e), x, t) = Leido(T, C, Append(d, x), e)
    BY <2>3, <2>6 DEF Avanzar, Leido
  <2> QED BY <2>1, <2>2, <2>4, <2>5, <2>6, <2>7
<1>6. c \in S
  <2> HIDE DEF S
  <2>1. \A n \in 0 .. c : n \in S
    BY <1>3, <1>4, <1>5, HastaElFinal
  <2> QED BY <1>3, <2>1
<1>7. SubSeq(s, 1, c) = s
  BY <1>1
<1> QED BY <1>1, <1>2, <1>6, <1>7

(* The text of a line is read as its fields, whatever follows it.          *)
LEMMA TextoLeido ==
  ASSUME NEW f, Len(f) \in Nat, NEW t, NEW cs \in Seq(Seq(DeCampo)), cs # <<>>, NEW p \in Nat,
         Dicho(f, p, Texto(cs)), NEW T, NEW e, Leyendo(f, t)[p] = Lectura(T, e)
  PROVE  \E C, c : Leyendo(f, t)[p + Len(Texto(cs))] = Leido(T, C, c, e) /\ Append(C, c) = cs
<1>1. PICK N \in Nat : N = Len(cs)
  OBVIOUS
<1>2. PICK A : A = DeCampo \cup {Sep}
  OBVIOUS
<1>3. cs \in Seq(Seq(A)) /\ Sep \in A
  <2>1. \A n \in 1 .. N : cs[n] \in Seq(A)
    BY <1>1, <1>2
  <2> QED BY <1>1, <1>2, <2>1
<1>4. PICK u : Texto(cs) = u[N] /\ Crecen(u, cs, A, N)
  BY <1>1, <1>3, TextoPorPartes
<1>5. PICK g, L : g = Leyendo(f, t) /\ L = Len(f)
  OBVIOUS
<1>6. L \in Nat /\ \A n \in 1 .. L : g[n] = Avanzar(g[n - 1], f[n], t)
  BY <1>5, UnByteMas
<1> DEFINE S == {n \in 0 .. N : n >= 1 /\ Dicho(f, p, u[n]) =>
                    g[p + Len(u[n])] = Leido(T, SubSeq(cs, 1, n - 1), cs[n], e)}
<1>7. 0 \in S
  OBVIOUS
<1>8. ASSUME NEW n \in 0 .. N - 1, n \in S PROVE n + 1 \in S
  <2>1. n + 1 \in 0 .. N /\ (n + 1) - 1 = n /\ n + 1 \in 1 .. N /\ n \in 0 .. N
    OBVIOUS
  <2>2. SUFFICES ASSUME Dicho(f, p, u[n + 1])
                 PROVE  g[p + Len(u[n + 1])] = Leido(T, SubSeq(cs, 1, n), cs[n + 1], e)
    BY <2>1
  <2>3. PICK s \in Seq(DeCampo) : s = cs[n + 1]
    BY <1>1, <2>1
  <2>4. CASE n = 0
    <3>1. u[n + 1] = s /\ SubSeq(cs, 1, n) = <<>>
      BY <1>4, <2>1, <2>3, <2>4 DEF Crecen
    <3>2. Leyendo(f, t)[p] = Leido(T, <<>>, <<>>, e)
      BY DEF Lectura, Leido
    <3>3. Leyendo(f, t)[p + Len(s)] = Leido(T, <<>>, s, e)
      BY <2>2, <3>1, <3>2, CampoLeido
    <3> QED BY <1>5, <2>3, <3>1, <3>3
  <2>5. CASE n # 0
    <3>0. n \in 1 .. N - 1 /\ n >= 1
      BY <2>5
    <3>1. PICK a, b : a = u[n] /\ b = u[n + 1]
      OBVIOUS
    <3>2. a \in Seq(A) /\ b \in Seq(A)
      BY <1>4, <2>1, <3>1 DEF Crecen
    <3>3. /\ Len(b) = Len(a) + 1 + Len(s) /\ b[Len(a) + 1] = Sep
          /\ \A i \in 1 .. Len(a) : b[i] = a[i]
          /\ \A i \in 1 .. Len(s) : b[Len(a) + 1 + i] = s[i]
      BY <1>4, <2>3, <3>0, <3>1 DEF Crecen
    <3>4. PICK x, y, z : x = Len(a) /\ y = Len(b) /\ z = Len(s)
      OBVIOUS
    <3>5. x \in Nat /\ y \in Nat /\ z \in Nat /\ y = x + 1 + z
      BY <3>2, <3>3, <3>4
    <3>6. p + y <= L /\ \A i \in 1 .. y : f[p + i] = b[i]
      BY <1>5, <2>2, <3>1, <3>4 DEF Dicho
    <3>7. Dicho(f, p, a)
      <4>1. ASSUME NEW i \in 1 .. x PROVE f[p + i] = a[i]
        <5>1. i \in 1 .. y
          BY <3>5
        <5> QED BY <3>3, <3>4, <3>6, <5>1
      <4>2. p + x <= L
        BY <1>6, <3>5, <3>6
      <4> QED BY <1>5, <3>4, <4>1, <4>2 DEF Dicho
    <3>8. g[p + x] = Leido(T, SubSeq(cs, 1, n - 1), cs[n], e)
      BY <1>8, <3>0, <3>1, <3>4, <3>7
    <3>9. f[p + (x + 1)] = Sep
      <4>1. x + 1 \in 1 .. y
        BY <3>5
      <4> QED BY <3>3, <3>4, <3>6, <4>1
    <3>10. g[p + (x + 1)] = Leido(T, SubSeq(cs, 1, n), <<>>, e)
      <4>1. p + (x + 1) \in 1 .. L /\ (p + (x + 1)) - 1 = p + x
        BY <1>6, <3>5, <3>6
      <4>2. g[p + (x + 1)] = Avanzar(g[p + x], Sep, t)
        BY <1>6, <3>9, <4>1
      <4>3. PICK C, c : C = SubSeq(cs, 1, n - 1) /\ c = cs[n]
        OBVIOUS
      <4>4. Avanzar(Leido(T, C, c, e), Sep, t) = Leido(T, Append(C, c), <<>>, e)
        BY Marcas DEF Avanzar, Leido
      <4>5. Append(C, c) = SubSeq(cs, 1, n)
        <5>1. n - 1 \in 0 .. Len(cs) - 1 /\ (n - 1) + 1 = n
          BY <1>1, <3>0
        <5>2. SubSeq(cs, 1, (n - 1) + 1) = Append(SubSeq(cs, 1, n - 1), cs[(n - 1) + 1])
          BY <5>1, UnoMas
        <5> QED BY <4>3, <5>1, <5>2
      <4> QED BY <3>8, <4>2, <4>3, <4>4, <4>5
    <3>11. PICK q \in Nat : q = p + (x + 1)
      BY <3>5
    <3>12. q + z <= L /\ q + z = p + y
      BY <1>6, <3>5, <3>6, <3>11
    <3>13. ASSUME NEW i \in 1 .. z PROVE f[q + i] = s[i]
      <4>1. x + 1 + i \in 1 .. y /\ q + i = p + (x + 1 + i)
        BY <3>5, <3>11
      <4>2. f[p + (x + 1 + i)] = b[x + 1 + i]
        BY <3>6, <4>1
      <4> QED BY <3>3, <3>4, <4>1, <4>2
    <3>14. Leyendo(f, t)[q] = Leido(T, SubSeq(cs, 1, n), <<>>, e)
      BY <1>5, <3>10, <3>11
    <3>16. Dicho(f, q, s)
      BY <1>5, <3>4, <3>12, <3>13 DEF Dicho
    <3>15. Leyendo(f, t)[q + z] = Leido(T, SubSeq(cs, 1, n), s, e)
      BY <3>4, <3>14, <3>16, CampoLeido
    <3> QED BY <1>5, <2>3, <3>1, <3>4, <3>12, <3>15
  <2> QED BY <2>4, <2>5
<1>9. N \in S
  <2>1. \A n \in 0 .. N : n \in S
    <3> HIDE DEF S
    <3> QED BY <1>7, <1>8, HastaElFinal
  <2> QED BY <2>1
<1>10. N >= 1 /\ N - 1 \in 0 .. Len(cs) - 1 /\ (N - 1) + 1 = N
  BY <1>1
<1>11. g[p + Len(u[N])] = Leido(T, SubSeq(cs, 1, N - 1), cs[N], e)
  BY <1>4, <1>9, <1>10
<1>12. Append(SubSeq(cs, 1, N - 1), cs[N]) = cs
  <2>1. SubSeq(cs, 1, (N - 1) + 1) = Append(SubSeq(cs, 1, N - 1), cs[(N - 1) + 1])
    BY <1>10, UnoMas
  <2>2. SubSeq(cs, 1, N) = cs
    BY <1>1
  <2> QED BY <1>10, <2>1, <2>2
<1> QED BY <1>4, <1>5, <1>11, <1>12

-----------------------------------------------------------------------------
(* The line of a value is read back as that value.                         *)

(* Names and texts, of clients or read from a file, and values of them.    *)
Palabras == {s \in Seq(DeCampo \cup {Sep}) : EsUtf8(s)}

DatoBueno(x) ==
  \/ \E y \in Palabras : x = Str(<<y>>)
  \/ x.tipo = "Lista" /\ x.lista \in Seq(Palabras) /\ x = Lista(x.lista)
  \/ x.tipo = "Set" /\ x.set \subseteq Palabras /\ IsFiniteSet(x.set) /\ x = Conjunto(x.set)

(* What clients store is good, and so is what the file adds to it.         *)
LEMMA SonPalabras ==
  /\ Claves \subseteq Palabras /\ Textos \subseteq Palabras /\ MarcaEx \in Palabras
  /\ Etiquetas \subseteq Palabras
  /\ \A x : EsDato(x) => DatoBueno(x)
  /\ \A n \in Nat : Decimal(n) \in Palabras
<1>1. /\ Claves \subseteq Palabras /\ Textos \subseteq Palabras /\ MarcaEx \in Palabras
      /\ Etiquetas \subseteq Palabras
  BY PersistenciaAssumption DEF Palabras
<1>2. ASSUME NEW x, EsDato(x) PROVE DatoBueno(x)
  <2>1. CASE \E y \in Textos : x = Str(<<y>>)
    BY <1>1, <2>1 DEF DatoBueno
  <2>2. CASE x.tipo = "Lista" /\ x.lista \in Seq(Textos) /\ x = Lista(x.lista)
    <3>1. x.lista \in Seq(Palabras)
      BY <1>1, <2>2
    <3> QED BY <2>2, <3>1 DEF DatoBueno
  <2>3. CASE x.tipo = "Set" /\ x.set \subseteq Textos /\ x = Conjunto(x.set)
    <3>1. IsFiniteSet(x.set)
      BY <2>3, BddAssumption, FS_Subset
    <3> QED BY <1>1, <2>3, <3>1 DEF DatoBueno
  <2> QED BY <1>2, <2>1, <2>2, <2>3 DEF EsDato
<1>3. ASSUME NEW n \in Nat PROVE Decimal(n) \in Palabras
  <2>1. PICK s \in Seq(Digitos) : s = Decimal(n)
    BY NumeroDecimal
  <2>2. \A i \in DOMAIN s : s[i] \in Digitos /\ s[i] \notin Abren /\ s[i] \notin Siguen
    BY PersistenciaAssumption
  <2>3. \A i \in DOMAIN s : i > 1 => i - 1 \in DOMAIN s
    OBVIOUS
  <2>4. EsUtf8(s)
    BY <2>2, <2>3 DEF EsUtf8
  <2>5. s \in Seq(DeCampo \cup {Sep})
    BY DEF DeCampo
  <2> QED BY <2>1, <2>4, <2>5 DEF Palabras
<1> QED BY <1>1, <1>2, <1>3

(* q holds the texts of the value x, whose line has the tag e.             *)
DeDato(x, e, q) ==
  /\ q \in Seq(Palabras) /\ Elementos(x) = {q[i] : i \in DOMAIN q}
  /\ \/ e = TagString /\ x.tipo = "Str" /\ x = Str(q) /\ Len(q) = 1
     \/ e = TagLista /\ x.tipo = "Lista" /\ x = Lista(q)
     \/ e = TagSet /\ x.tipo = "Set" /\ x = Conjunto({q[i] : i \in DOMAIN q})

EnTres(cs, e, k, q, v) == cs = <<e, k>> \o q \o v

(* The lines of a value by their parts.                                    *)
LEMMA LineaEnTres ==
  ASSUME NEW k, NEW x, DatoBueno(x), NEW v, NEW cs \in Lineas(k, x, v)
  PROVE  \E e, q : e \in Etiquetas /\ EnTres(cs, e, k, q, v) /\ DeDato(x, e, q)
<1>1. CASE \E y \in Palabras : x = Str(<<y>>)
  <2>1. PICK y \in Palabras : x = Str(<<y>>)
    BY <1>1
  <2>2. PICK q : q = <<y>>
    OBVIOUS
  <2>3. /\ q \in Seq(Palabras) /\ Len(q) = 1 /\ x = Str(q) /\ x.tipo = "Str" /\ x.str = q
        /\ DOMAIN q = 1 .. 1
    BY <2>1, <2>2 DEF Str
  <2>4. cs = <<TagString, k>> \o q \o v /\ Elementos(x) = {q[i] : i \in DOMAIN q}
    BY <2>3 DEF Lineas, Elementos
  <2>5. DeDato(x, TagString, q)
    BY <2>3, <2>4 DEF DeDato
  <2> QED BY <2>4, <2>5 DEF Etiquetas, EnTres
<1>2. CASE x.tipo = "Lista" /\ x.lista \in Seq(Palabras) /\ x = Lista(x.lista)
  <2>1. PICK q : q = x.lista
    OBVIOUS
  <2>2. cs = <<TagLista, k>> \o q \o v /\ Elementos(x) = {q[i] : i \in DOMAIN q}
    BY <1>2, <2>1 DEF Lineas, Elementos
  <2>3. DeDato(x, TagLista, q)
    BY <1>2, <2>1, <2>2 DEF DeDato
  <2> QED BY <2>2, <2>3 DEF Etiquetas, EnTres
<1>3. CASE x.tipo = "Set" /\ x.set \subseteq Palabras /\ IsFiniteSet(x.set) /\ x = Conjunto(x.set)
  <2>1. PICK q \in SetToSeqs(x.set) : cs = <<TagSet, k>> \o q \o v
    BY <1>3 DEF Lineas
  <2>2. q \in Seq(Palabras) /\ {q[i] : i \in DOMAIN q} = x.set
    <3>1. PICK S : S = x.set
      OBVIOUS
    <3>2. IsFiniteSet(S) /\ S \subseteq Palabras
      BY <1>3, <3>1
    <3>3. PICK c \in Nat : c = Cardinality(S)
      BY <3>2, FS_CardinalityType
    <3>4. q \in [1 .. c -> S] /\ \A i, j \in 1 .. c : i # j => q[i] # q[j]
      BY <2>1, <3>1, <3>3 DEF SetToSeqs
    <3>5. q \in Injection(1 .. c, S)
      BY <3>4 DEF Injection, IsInjective
    <3>6. Cardinality(1 .. c) = c
      BY FS_Interval
    <3>7. q \in Surjection(1 .. c, S)
      BY <3>2, <3>3, <3>5, <3>6, FS_Injection
    <3>8. \A y \in S : \E i \in 1 .. c : q[i] = y
      BY <3>7 DEF Surjection
    <3>9. DOMAIN q = 1 .. c /\ {q[i] : i \in DOMAIN q} = S
      BY <3>4, <3>8
    <3> QED BY <3>1, <3>2, <3>4, <3>9
  <2>3. Elementos(x) = x.set
    BY <1>3 DEF Elementos
  <2>4. DeDato(x, TagSet, q)
    BY <1>3, <2>2, <2>3 DEF DeDato
  <2> QED BY <2>1, <2>4 DEF Etiquetas, EnTres
<1> QED BY <1>1, <1>2, <1>3 DEF DatoBueno

(* Two sequences joined.                                                   *)
Seguidas(g, a, c, A) == /\ g \in Seq(A) /\ Len(g) = Len(a) + Len(c)
                        /\ \A i \in 1 .. Len(a) : g[i] = a[i]
                        /\ \A i \in 1 .. Len(c) : g[Len(a) + i] = c[i]

(* The second one starts where the first ends.                             *)
LEMMA Junto ==
  ASSUME NEW A, NEW a \in Seq(A), NEW c \in Seq(A)
  PROVE  Seguidas(a \o c, a, c, A)
BY DEF Seguidas

(* The fields of a line, one by one.                                       *)
Partes(c, e, k, q, n) ==
  /\ c \in Seq(Palabras) /\ Len(c) = 2 + Len(q) + IF n = SinVida THEN 0 ELSE 2
  /\ c[1] = e /\ c[2] = k
  /\ \A i \in 1 .. Len(q) : c[2 + i] = q[i]
  /\ n # SinVida => n \in Nat /\ c[2 + Len(q) + 1] = MarcaEx /\ c[2 + Len(q) + 2] = Decimal(n)

(* By the three parts it is joined from.                                   *)
LEMMA LineaPorPartes ==
  ASSUME NEW k \in Palabras, NEW e \in Etiquetas, NEW q \in Seq(Palabras), NEW n \in Vidas,
         NEW c, EnTres(c, e, k, q, Vencimiento(n))
  PROVE  Partes(c, e, k, q, n)
<1>1. PICK v : v = Vencimiento(n)
  OBVIOUS
<1>2. PICK h : h = <<e, k>>
  OBVIOUS
<1>3. h \in Seq(Palabras) /\ Len(h) = 2 /\ h[1] = e /\ h[2] = k
  BY <1>2, SonPalabras
<1>4. n # SinVida => n \in Nat
  BY DEF Vidas
<1>5. /\ v \in Seq(Palabras) /\ Len(v) = IF n = SinVida THEN 0 ELSE 2
      /\ n # SinVida => v[1] = MarcaEx /\ v[2] = Decimal(n)
  <2>1. CASE n = SinVida
    BY <1>1, <2>1 DEF Vencimiento
  <2>2. CASE n # SinVida
    <3>1. v = <<MarcaEx, Decimal(n)>> /\ MarcaEx \in Palabras /\ Decimal(n) \in Palabras
      BY <1>1, <1>4, <2>2, SonPalabras DEF Vencimiento
    <3> QED BY <2>2, <3>1
  <2> QED BY <2>1, <2>2
<1>6. PICK b : b = h \o q
  OBVIOUS
<1>7. /\ b \in Seq(Palabras) /\ Len(b) = 2 + Len(q) /\ b[1] = e /\ b[2] = k
      /\ \A i \in 1 .. Len(q) : b[2 + i] = q[i]
  <2>1. /\ b \in Seq(Palabras) /\ Len(b) = Len(h) + Len(q)
        /\ \A i \in 1 .. Len(h) : b[i] = h[i]
        /\ \A i \in 1 .. Len(q) : b[Len(h) + i] = q[i]
    <3>1. Seguidas(h \o q, h, q, Palabras)
      BY <1>3, Junto
    <3> QED BY <1>6, <3>1 DEF Seguidas
  <2>2. 1 \in 1 .. Len(h) /\ 2 \in 1 .. Len(h)
    BY <1>3
  <2> QED BY <1>3, <2>1, <2>2
<1>8. c = b \o v
  BY <1>1, <1>2, <1>6 DEF EnTres
<1>9. /\ c \in Seq(Palabras) /\ Len(c) = Len(b) + Len(v)
      /\ \A i \in 1 .. Len(b) : c[i] = b[i]
      /\ \A i \in 1 .. Len(v) : c[Len(b) + i] = v[i]
  <2>1. Seguidas(b \o v, b, v, Palabras)
    BY <1>5, <1>7, Junto
  <2> QED BY <1>8, <2>1 DEF Seguidas
<1>10. 1 \in 1 .. Len(b) /\ 2 \in 1 .. Len(b) /\ \A i \in 1 .. Len(q) : 2 + i \in 1 .. Len(b)
  BY <1>7
<1>11. n # SinVida => 1 \in 1 .. Len(v) /\ 2 \in 1 .. Len(v)
  BY <1>5
<1>12. c[1] = e /\ c[2] = k /\ \A i \in 1 .. Len(q) : c[2 + i] = q[i]
  BY <1>7, <1>9, <1>10
<1>13. n # SinVida => c[2 + Len(q) + 1] = MarcaEx /\ c[2 + Len(q) + 2] = Decimal(n)
  BY <1>5, <1>7, <1>9, <1>11
<1>14. Len(c) = 2 + Len(q) + IF n = SinVida THEN 0 ELSE 2
  BY <1>5, <1>7, <1>9
<1> QED BY <1>4, <1>9, <1>12, <1>13, <1>14 DEF Partes

(* The lines of a value are of words.                                      *)
LEMMA LineaTipo ==
  ASSUME NEW k \in Palabras, NEW x, DatoBueno(x), NEW n \in Vidas,
         NEW cs \in Lineas(k, x, Vencimiento(n))
  PROVE  cs \in Seq(Palabras)
<1>3. PICK v : v = Vencimiento(n)
  OBVIOUS
<1>4. cs \in Lineas(k, x, v)
  BY <1>3
<1>1. PICK e, q : e \in Etiquetas /\ EnTres(cs, e, k, q, v) /\ DeDato(x, e, q)
  BY <1>4, LineaEnTres
<1>2. Partes(cs, e, k, q, n)
  BY <1>1, <1>3, LineaPorPartes DEF DeDato
<1> QED BY <1>2 DEF Partes

(* Where a mark of the file can be in the line of a readable value.        *)
Ubicadas(c, e, l, m, n) ==
  /\ \A i \in 1 .. m : c[i] = TagString => e = TagString
  /\ e = TagSet => \A i \in 1 .. m : c[i] # TagLista
  /\ e = TagString => \A i \in 1 .. m : c[i] = MarcaEx <=> n # SinVida /\ i = 2 + l + 1
  /\ \A i \in 3 .. m : c[i] = MarcaEx <=> n # SinVida /\ i = 2 + l + 1

(* A number is none of them.                                               *)
LEMMA DecimalNoEsMarca ==
  ASSUME NEW n \in Nat, NEW w \in Etiquetas \cup {MarcaEx}
  PROVE  Decimal(n) # w
<1>1. PICK s : s = Decimal(n) /\ s \in Seq(Digitos) /\ s # <<>>
  BY NumeroDecimal
<1>2. w \in Seq(Letras)
  BY PersistenciaAssumption
<1>3. 1 \in DOMAIN s /\ s[1] \in Digitos
  BY <1>1
<1>4. s = w => s[1] \in Letras
  BY <1>2, <1>3
<1> QED BY <1>1, <1>3, <1>4, PersistenciaAssumption

(* Tag, key, texts and lifetime.                                           *)
LEMMA MarcasUbicadas ==
  ASSUME NEW k, NEW x, Legible(k, x), NEW e \in Etiquetas, NEW q, DeDato(x, e, q), NEW n \in Vidas,
         NEW c, Partes(c, e, k, q, n), NEW l, l = Len(q), NEW m, m = Len(c)
  PROVE  Ubicadas(c, e, l, m, n)
<1>1. /\ l \in Nat /\ m \in Nat /\ m = 2 + l + IF n = SinVida THEN 0 ELSE 2
      /\ c[1] = e /\ c[2] = k
      /\ \A i \in 1 .. l : c[2 + i] = q[i]
      /\ n # SinVida => n \in Nat /\ c[2 + l + 1] = MarcaEx /\ c[2 + l + 2] = Decimal(n)
  BY DEF Partes, DeDato
<1>2. \A i \in 1 .. l : q[i] \in Elementos(x)
  BY <1>1 DEF DeDato
<1>3. /\ e = TagString => x.tipo = "Str"
      /\ e # TagString => x.tipo # "Str"
      /\ e = TagSet => x.tipo = "Set"
  BY PersistenciaAssumption DEF DeDato
<1>4. /\ e # MarcaEx /\ TagString # MarcaEx /\ TagLista # MarcaEx
      /\ TagString # TagLista /\ TagString # TagSet /\ TagLista # TagSet
  BY PersistenciaAssumption DEF Etiquetas
<1>5. n # SinVida => /\ Decimal(n) # TagString /\ Decimal(n) # TagLista /\ Decimal(n) # MarcaEx
  BY <1>1, DecimalNoEsMarca DEF Etiquetas
<1>6. ASSUME NEW i \in 1 .. m
      PROVE  /\ c[i] = TagString => e = TagString
             /\ e = TagSet => c[i] # TagLista
             /\ e = TagString \/ i >= 3 => (c[i] = MarcaEx <=> n # SinVida /\ i = 2 + l + 1)
  <2>1. CASE i = 1
    <3>1. c[i] = e /\ i # 2 + l + 1
      BY <1>1, <2>1
    <3> QED BY <1>4, <2>1, <3>1
  <2>2. CASE i = 2
    <3>1. c[i] = k /\ i # 2 + l + 1
      BY <1>1, <2>2
    <3>2. /\ e # TagString => k # TagString
          /\ e = TagSet => k # TagLista
          /\ e = TagString => k # MarcaEx
      BY <1>3 DEF Legible
    <3> QED BY <2>2, <3>1, <3>2
  <2>3. CASE i \in 3 .. 2 + l
    <3>1. i - 2 \in 1 .. l /\ i = 2 + (i - 2) /\ i # 2 + l + 1
      BY <1>1, <2>3
    <3>2. c[2 + (i - 2)] = q[i - 2]
      BY <1>1, <3>1
    <3>3. c[i] \in Elementos(x)
      BY <1>2, <3>1, <3>2
    <3>4. /\ e # TagString => c[i] # TagString
          /\ e = TagSet => c[i] # TagLista
          /\ c[i] # MarcaEx
      BY <1>3, <3>3 DEF Legible
    <3> QED BY <3>1, <3>4
  <2>4. CASE i = 2 + l + 1
    <3>1. n # SinVida /\ c[i] = MarcaEx
      BY <1>1, <2>4
    <3> QED BY <1>4, <2>4, <3>1
  <2>5. CASE i = 2 + l + 2
    <3>1. n # SinVida /\ i # 2 + l + 1 /\ c[i] = Decimal(n)
      BY <1>1, <2>5
    <3> QED BY <1>5, <3>1
  <2>6. i = 1 \/ i = 2 \/ i \in 3 .. 2 + l \/ i = 2 + l + 1 \/ i = 2 + l + 2
    BY <1>1
  <2> QED BY <2>1, <2>2, <2>3, <2>4, <2>5, <2>6
<1>7. \A i \in 3 .. m : i \in 1 .. m /\ i >= 3
  BY <1>1
<1> QED BY <1>6, <1>7 DEF Ubicadas

EsResto(c, q, v) == Resto(c) = q \o v

(* The texts of the line of a value, with the lifetime after them.         *)
LEMMA RestoDeLinea ==
  ASSUME NEW k, NEW e, NEW q \in Seq(Palabras), NEW n \in Vidas, NEW c, Partes(c, e, k, q, n)
  PROVE  EsResto(c, q, Vencimiento(n))
<1>1. PICK l, m : l = Len(q) /\ m = Len(c)
  OBVIOUS
<1>2. /\ l \in Nat /\ m \in Nat /\ m = 2 + l + IF n = SinVida THEN 0 ELSE 2
      /\ \A i \in 1 .. l : c[2 + i] = q[i]
      /\ n # SinVida => n \in Nat /\ c[2 + l + 1] = MarcaEx /\ c[2 + l + 2] = Decimal(n)
      /\ c \in Seq(Palabras)
  BY <1>1 DEF Partes
<1>3. PICK s : s = Resto(c)
  OBVIOUS
<1>4. s \in Seq(Palabras) /\ Len(s) = m - 2 /\ \A i \in 1 .. m - 2 : s[i] = c[2 + i]
  <2>4. m >= 2
    BY <1>2
  <2>1. s = SubSeq(c, 3, m)
    BY <1>1, <1>3 DEF Resto
  <2>5. c \in Seq(Palabras) /\ m \in Nat /\ Len(c) = m
    BY <1>1, <1>2
  <2>2. s \in Seq(Palabras) /\ Len(s) = m - 2
    BY <2>1, <2>4, <2>5
  <2>3. ASSUME NEW i \in 1 .. m - 2 PROVE s[i] = c[2 + i]
    BY <2>1, <2>4, <2>5
  <2> QED BY <2>2, <2>3
<1>5. PICK v : v = Vencimiento(n)
  OBVIOUS
<1>6. /\ v \in Seq(Palabras) /\ Len(v) = IF n = SinVida THEN 0 ELSE 2
      /\ n # SinVida => v[1] = MarcaEx /\ v[2] = Decimal(n)
  <2>1. CASE n = SinVida
    BY <1>5, <2>1 DEF Vencimiento
  <2>2. CASE n # SinVida
    <3>1. v = <<MarcaEx, Decimal(n)>> /\ MarcaEx \in Palabras /\ Decimal(n) \in Palabras
      BY <1>2, <1>5, <2>2, SonPalabras DEF Vencimiento
    <3> QED BY <2>2, <3>1
  <2> QED BY <2>1, <2>2
<1>7. PICK r : r = q \o v
  OBVIOUS
<1>8. /\ r \in Seq(Palabras) /\ Len(r) = l + Len(v) /\ (\A i \in 1 .. l : r[i] = q[i])
      /\ \A i \in 1 .. Len(v) : r[l + i] = v[i]
  <2>1. Seguidas(q \o v, q, v, Palabras)
    BY <1>6, Junto
  <2> QED BY <1>1, <1>7, <2>1 DEF Seguidas
<1>9. Len(r) = m - 2
  BY <1>2, <1>6, <1>8
<1>10. ASSUME NEW i \in 1 .. m - 2 PROVE s[i] = r[i]
  <2>1. CASE i \in 1 .. l
    BY <1>2, <1>4, <1>8, <2>1
  <2>2. CASE i \notin 1 .. l
    <3>1. n # SinVida /\ (i = l + 1 \/ i = l + 2) /\ Len(v) = 2
      BY <1>2, <1>6, <2>2
    <3>2. c[2 + i] = v[i - l] /\ i - l \in 1 .. Len(v) /\ r[l + (i - l)] = v[i - l] /\ l + (i - l) = i
      <4>1. CASE i = l + 1
        <5>1. i - l = 1 /\ 2 + i = 2 + l + 1 /\ l + (i - l) = i /\ 1 \in 1 .. Len(v)
          BY <1>2, <3>1, <4>1
        <5> QED BY <1>2, <1>6, <1>8, <3>1, <5>1
      <4>2. CASE i = l + 2
        <5>1. i - l = 2 /\ 2 + i = 2 + l + 2 /\ l + (i - l) = i /\ 2 \in 1 .. Len(v)
          BY <1>2, <3>1, <4>2
        <5> QED BY <1>2, <1>6, <1>8, <3>1, <5>1
      <4> QED BY <3>1, <4>1, <4>2
    <3> QED BY <1>4, <3>2
  <2> QED BY <2>1, <2>2
<1>11. s = r
  BY <1>4, <1>8, <1>9, <1>10, SeqEqual
<1> QED BY <1>3, <1>5, <1>7, <1>11 DEF EsResto

(* What the end of a line makes of the line of the value x of k.           *)
Devuelve(h, t, T, k, x, n) ==
  \E v : TerminarLinea(h, t) = Lectura(Poner(T, k, v), "lee") /\ v.valor = Vuelve(x, n) /\ v.vida = n

(* The key, the value and the lifetime come back.                          *)
LEMMA LineaDevuelta ==
  ASSUME NEW k \in Palabras, NEW x, DatoBueno(x), Legible(k, x), NEW n \in Vidas,
         NEW c \in Lineas(k, x, Vencimiento(n)), NEW T, NEW C, NEW d, Append(C, d) = c, NEW t
  PROVE  Devuelve(Leido(T, C, d, "lee"), t, T, k, x, n)
<1>0. PICK z : z = Vencimiento(n) /\ c \in Lineas(k, x, z)
  OBVIOUS
<1>1. PICK e, q : e \in Etiquetas /\ EnTres(c, e, k, q, z) /\ DeDato(x, e, q)
  BY <1>0, LineaEnTres
<1>2. q \in Seq(Palabras)
  BY <1>1 DEF DeDato
<1>3. Partes(c, e, k, q, n)
  BY <1>0, <1>1, <1>2, LineaPorPartes
<1>4. PICK l, m : l = Len(q) /\ m = Len(c)
  OBVIOUS
<1>5. /\ c \in Seq(Palabras) /\ l \in Nat /\ m \in Nat /\ m = 2 + l + IF n = SinVida THEN 0 ELSE 2
      /\ c[1] = e /\ c[2] = k
      /\ \A i \in 1 .. l : c[2 + i] = q[i]
      /\ n # SinVida => n \in Nat /\ c[2 + l + 1] = MarcaEx /\ c[2 + l + 2] = Decimal(n)
      /\ DOMAIN c = 1 .. m
  BY <1>2, <1>3, <1>4 DEF Partes
<1>6. Ubicadas(c, e, l, m, n)
  BY <1>1, <1>3, <1>4, MarcasUbicadas
<1>7. Resto(c) = q \o z /\ (\A i \in 1 .. m - 2 : Resto(c)[i] = c[2 + i]) /\ Len(Resto(c)) = m - 2
  <2>3. EsResto(c, q, z)
    BY <1>0, <1>2, <1>3, RestoDeLinea
  <2>1. Resto(c) = q \o z
    BY <2>3 DEF EsResto
  <2>2. (\A i \in 1 .. m - 2 : Resto(c)[i] = c[2 + i]) /\ Len(Resto(c)) = m - 2
    BY <1>4, <1>5 DEF Resto
  <2> QED BY <2>1, <2>2
<1>8. m >= 2 /\ (e = TagString => l = 1 /\ m >= 3) /\ 1 \in 1 .. m
  <2>1. m >= 2 + l
    BY <1>5
  <2>2. e = TagString => l = 1
    BY <1>1, <1>4, PersistenciaAssumption DEF DeDato
  <2> QED BY <1>5, <2>1, <2>2
<1>9. Dice(c, TagString) <=> e = TagString
  BY <1>5, <1>6, <1>8 DEF Dice, Ubicadas
<1>10. (e = TagSet => ~Dice(c, TagLista)) /\ (e = TagLista => Dice(c, TagLista)) /\ ~SinEtiqueta(c)
  BY <1>1, <1>5, <1>6, <1>8 DEF Dice, Ubicadas, SinEtiqueta
<1>11. EsExpirable(c) <=> n # SinVida
  <2>1. CASE e = TagString
    <3>1. n # SinVida => 2 + l + 1 \in 1 .. m
      BY <1>5
    <3>2. Dice(c, MarcaEx) <=> n # SinVida
      BY <1>5, <1>6, <2>1, <3>1 DEF Dice, Ubicadas
    <3> QED BY <1>9, <2>1, <3>2 DEF EsExpirable
  <2>2. CASE e # TagString
    <3>1. PICK s : s = Resto(c)
      OBVIOUS
    <3>2. DOMAIN s = 1 .. m - 2 /\ \A i \in 1 .. m - 2 : s[i] = c[2 + i]
      <4>1. s \in Seq(Palabras) /\ Len(s) = m - 2
        BY <1>4, <1>5, <3>1 DEF Resto
      <4> QED BY <1>7, <3>1, <4>1
    <3>3. \A i \in 1 .. m - 2 : c[2 + i] = MarcaEx <=> n # SinVida /\ i = l + 1
      <4>1. ASSUME NEW i \in 1 .. m - 2 PROVE c[2 + i] = MarcaEx <=> n # SinVida /\ i = l + 1
        <5>1. 2 + i \in 3 .. m /\ (2 + i = 2 + l + 1 <=> i = l + 1)
          BY <1>5
        <5> QED BY <1>6, <5>1 DEF Ubicadas
      <4> QED BY <4>1
    <3>4. n # SinVida => l + 1 \in 1 .. m - 2
      BY <1>5
    <3>5. Dice(s, MarcaEx) <=> n # SinVida
      BY <3>2, <3>3, <3>4 DEF Dice
    <3> QED BY <1>9, <2>2, <3>1, <3>5 DEF EsExpirable
  <2> QED BY <2>1, <2>2
<1>12. ~FueraDeRango(c)
  <2>1. ~(Len(c) < IF Dice(c, TagString) THEN 3 ELSE 2)
    BY <1>4, <1>5, <1>8, <1>9
  <2>2. n # SinVida => c[Len(c)] # MarcaEx
    <3>1. SUFFICES ASSUME n # SinVida PROVE c[m] # MarcaEx
      BY <1>4
    <3>2. m = 2 + l + 2
      BY <1>5, <3>1
    <3> QED BY <1>5, <3>1, <3>2, DecimalNoEsMarca
  <2> QED BY <1>11, <2>1, <2>2 DEF FueraDeRango
<1>13. \A i \in DOMAIN c : EsUtf8(c[i])
  BY <1>5 DEF Palabras
<1>14. n # SinVida => TiempoExpiracion(c) = n
  <2>1. SUFFICES ASSUME n # SinVida PROVE TiempoExpiracion(c) = n
    OBVIOUS
  <2>2. PICK j : j = 2 + l + 1
    OBVIOUS
  <2>3. j \in 1 .. m /\ j \in 3 .. m /\ c[j] = MarcaEx /\ c[j + 1] = Decimal(n) /\ n \in Nat
    BY <1>5, <2>1, <2>2
  <2>4. \A i \in 1 .. m : i > j => c[i] # MarcaEx
    <3>1. ASSUME NEW i \in 1 .. m, i > j PROVE c[i] # MarcaEx
      <4>1. i \in 3 .. m /\ i # 2 + l + 1
        BY <1>5, <2>2, <2>3, <3>1
      <4> QED BY <1>6, <4>1 DEF Ubicadas
    <3> QED BY <3>1
  <2> DEFINE P(i) == c[i] = MarcaEx /\ \A h \in DOMAIN c : h > i => c[h] # MarcaEx
  <2>5. P(j)
    BY <1>5, <2>3, <2>4
  <2>6. \A i \in 1 .. m : P(i) => i = j
    <3>1. ASSUME NEW i \in 1 .. m, P(i) PROVE i = j
      <4>1. ~(j > i)
        BY <1>5, <2>3, <3>1
      <4>2. ~(i > j)
        BY <2>4, <3>1
      <4> QED BY <1>5, <2>3, <4>1, <4>2
    <3> QED BY <3>1
  <2>7. (CHOOSE i \in DOMAIN c : P(i)) = j
    <3> HIDE DEF P
    <3> QED BY <1>5, <2>3, <2>5, <2>6
  <2>8. Numero(Decimal(n)) = n
    BY <2>3, NumeroDecimal
  <2> QED BY <2>3, <2>7, <2>8 DEF TiempoExpiracion
<1>15. ValorDeLinea(c) = Vuelve(x, n)
  <2>1. CASE e = TagString
    <3>1. x = Str(q) /\ x.tipo = "Str" /\ l = 1
      BY <1>1, <1>4, <2>1, PersistenciaAssumption DEF DeDato
    <3>2. 1 \in 1 .. l /\ 2 + 1 = 3
      BY <3>1
    <3>3. c[3] = q[1]
      BY <1>5, <3>2
    <3>4. <<q[1]>> = q
      <4>1. PICK r : r = <<q[1]>>
        OBVIOUS
      <4>2. q[1] \in Palabras /\ Len(q) = 1
        <5>1. Len(q) = 1 /\ 1 \in 1 .. Len(q)
          BY <1>4, <3>1
        <5>2. \A i \in 1 .. Len(q) : q[i] \in Palabras
          BY <1>2
        <5>3. q[1] \in Palabras
          BY <5>1, <5>2, Zenon
        <5> QED BY <5>1, <5>3
      <4>3. r \in Seq(Palabras) /\ Len(r) = 1 /\ \A i \in 1 .. 1 : r[i] = q[i]
        BY <4>1, <4>2
      <4> QED BY <1>2, <4>1, <4>2, <4>3, SeqEqual
    <3>5. ValorDeLinea(c) = Str(<<c[3]>>)
      BY <1>9, <2>1 DEF ValorDeLinea
    <3>6. Vuelve(x, n) = x
      BY <3>1 DEF Vuelve
    <3> QED BY <3>1, <3>3, <3>4, <3>5, <3>6
  <2>2. CASE e = TagLista
    <3>1. x = Lista(q) /\ x.tipo = "Lista" /\ x.lista = q /\ e # TagString
      BY <1>1, <2>2, PersistenciaAssumption DEF DeDato, Lista
    <3>2. ValorDeLinea(c) = Lista(q \o z)
      BY <1>7, <1>9, <1>10, <2>2, <3>1 DEF ValorDeLinea
    <3> QED BY <1>0, <3>1, <3>2 DEF Vuelve
  <2>3. CASE e = TagSet
    <3>1. PICK Q : Q = {q[i] : i \in 1 .. l}
      OBVIOUS
    <3>8. e # TagString /\ e # TagLista
      BY <2>3, PersistenciaAssumption
    <3>9. DOMAIN q = 1 .. l
      BY <1>2, <1>4
    <3>10. {q[i] : i \in DOMAIN q} = Q
      BY <3>1, <3>9
    <3>11. x = Conjunto(Q) /\ x.tipo = "Set"
      BY <1>1, <3>8, <3>10 DEF DeDato
    <3>2. x = Conjunto(Q) /\ x.tipo = "Set" /\ x.set = Q /\ e # TagString /\ e # TagLista
      BY <3>8, <3>11 DEF Conjunto
    <3>3. ValorDeLinea(c) = Conjunto({c[i] : i \in 3 .. m})
      BY <1>4, <1>9, <1>10, <2>3, <3>2 DEF ValorDeLinea
    <3>4. ASSUME NEW i \in 3 .. 2 + l PROVE c[i] \in Q
      <4>1. PICK j \in 1 .. l : j = i - 2 /\ 2 + j = i
        <5>1. i - 2 \in 1 .. l /\ 2 + (i - 2) = i
          BY <1>5
        <5> QED BY <5>1
      <4>2. c[2 + j] = q[j]
        BY <1>5
      <4>3. q[j] \in Q
        BY <3>1
      <4> QED BY <4>1, <4>2, <4>3
    <3>5. ASSUME NEW i \in 1 .. l PROVE \E j \in 3 .. 2 + l : c[j] = q[i]
      <4>1. 2 + i \in 3 .. 2 + l
        BY <1>5
      <4> QED BY <1>5, <4>1
    <3>6. CASE n = SinVida
      <4>1. m = 2 + l
        BY <1>5, <3>6
      <4>2. {c[i] : i \in 3 .. m} = Q
        BY <3>1, <3>4, <3>5, <4>1
      <4> QED BY <3>2, <3>3, <3>6, <4>2 DEF Vuelve
    <3>7. CASE n # SinVida
      <4>1. PICK a, b : a = 2 + l + 1 /\ b = 2 + l + 2
        OBVIOUS
      <4>2. a \in 3 .. m /\ b \in 3 .. m /\ c[a] = MarcaEx /\ c[b] = Decimal(n)
        BY <1>5, <3>7, <4>1
      <4>3. \A i \in 3 .. m : i \in 3 .. 2 + l \/ i = a \/ i = b
        BY <1>5, <3>7, <4>1
      <4>4. \A i \in 3 .. 2 + l : i \in 3 .. m
        BY <1>5
      <4>5. {c[i] : i \in 3 .. m} = Q \cup {MarcaEx, Decimal(n)}
        BY <3>1, <3>4, <3>5, <4>2, <4>3, <4>4
      <4> QED BY <3>2, <3>3, <3>7, <4>5 DEF Vuelve
    <3> QED BY <3>6, <3>7
  <2> QED BY <1>1, <2>1, <2>2, <2>3 DEF Etiquetas
<1>16. PICK v : v = IF EsExpirable(c) THEN Expirable(ValorDeLinea(c), TiempoExpiracion(c), t)
                    ELSE NoExpirable(ValorDeLinea(c))
  OBVIOUS
<1>17. v.valor = Vuelve(x, n) /\ v.vida = n
  BY <1>11, <1>14, <1>15, <1>16 DEF Expirable, NoExpirable
<1>18. LevantarLinea(T, c, t) = Poner(T, k, v)
  BY <1>5, <1>16 DEF LevantarLinea
<1>19. PICK h : h = Leido(T, C, d, "lee")
  OBVIOUS
<1>20. h.tabla = T /\ Append(h.campos, h.campo) = c /\ h.estado = "lee"
  BY <1>19 DEF Leido
<1>21. TerminarLinea(h, t) = Lectura(Poner(T, k, v), "lee")
  BY <1>10, <1>12, <1>13, <1>18, <1>20 DEF TerminarLinea
<1> QED BY <1>17, <1>19, <1>21 DEF Devuelve

(* The end of an empty line changes nothing.                               *)
LEMMA LineaVacia ==
  ASSUME NEW T, NEW e \in {"lee", "corta"}, NEW t
  PROVE  TerminarLinea(Lectura(T, e), t) = Lectura(T, e)
<1>1. PICK l : l = Append(<<>>, <<>>)
  OBVIOUS
<1>2. l = <<<<>>>> /\ DOMAIN l = 1 .. 1 /\ l[1] = <<>>
  BY <1>1
<1>3. \A i \in DOMAIN l : EsUtf8(l[i])
  BY <1>2 DEF EsUtf8
<1>4. SinEtiqueta(l)
  BY <1>2, PersistenciaAssumption DEF SinEtiqueta, Dice
<1>5. PICK h : h = Lectura(T, e)
  OBVIOUS
<1>6. h.tabla = T /\ Append(h.campos, h.campo) = l /\ h.estado = e
  BY <1>1, <1>5 DEF Lectura
<1>7. TerminarLinea(h, t) = Lectura(T, e)
  BY <1>3, <1>4, <1>6 DEF TerminarLinea
<1> QED BY <1>5, <1>7

-----------------------------------------------------------------------------
(* Whatever a file says, the table read from it is one of words.           *)

TablaDePalabras(T) ==
  \A k \in DOMAIN T : k \in Palabras /\ DatoBueno(T[k].valor) /\ T[k].vida \in Vidas

LecturaDeBytes(h) ==
  /\ TablaDePalabras(h.tabla) /\ h.campos \in Seq(Seq(DeCampo)) /\ h.campo \in Seq(DeCampo)

(* Of the EX in a line, one is the last.                                   *)
LEMMA UltimoEx ==
  ASSUME NEW l, NEW N \in Nat, NEW j \in 1 .. N, l[j] = MarcaEx
  PROVE  \E i \in 1 .. N : l[i] = MarcaEx /\ \A h \in 1 .. N : h > i => l[h] # MarcaEx
<1> DEFINE S == {n \in 0 .. N : (\E i \in 1 .. n : l[i] = MarcaEx) =>
                    \E i \in 1 .. n : l[i] = MarcaEx /\ \A h \in 1 .. n : h > i => l[h] # MarcaEx}
<1>1. 0 \in S
  OBVIOUS
<1>2. ASSUME NEW n \in 0 .. N - 1, n \in S PROVE n + 1 \in S
  <2>1. n + 1 \in 0 .. N /\ n + 1 \in 1 .. n + 1 /\ \A h \in 1 .. n + 1 : h \in 1 .. n \/ h = n + 1
    OBVIOUS
  <2>2. CASE l[n + 1] = MarcaEx
    <3>1. \A h \in 1 .. n + 1 : ~(h > n + 1)
      OBVIOUS
    <3> QED BY <2>1, <2>2, <3>1
  <2>3. CASE l[n + 1] # MarcaEx
    <3>1. SUFFICES ASSUME NEW i \in 1 .. n + 1, l[i] = MarcaEx
                   PROVE  \E g \in 1 .. n + 1 :
                            l[g] = MarcaEx /\ \A h \in 1 .. n + 1 : h > g => l[h] # MarcaEx
      BY <2>1
    <3>2. i \in 1 .. n
      BY <2>1, <2>3, <3>1
    <3>3. PICK g \in 1 .. n : l[g] = MarcaEx /\ \A h \in 1 .. n : h > g => l[h] # MarcaEx
      BY <1>2, <3>1, <3>2
    <3>4. g \in 1 .. n + 1
      OBVIOUS
    <3> QED BY <2>1, <2>3, <3>3, <3>4
  <2> QED BY <2>2, <2>3
<1>3. N \in S
  <2> HIDE DEF S
  <2>1. \A n \in 0 .. N : n \in S
    BY <1>1, <1>2, HastaElFinal
  <2> QED BY <2>1
<1> QED BY <1>3

(* The lifetime read from a line is a number.                              *)
LEMMA TiempoEsNat ==
  ASSUME NEW l \in Seq(Palabras), EsExpirable(l), ~FueraDeRango(l)
  PROVE  TiempoExpiracion(l) \in Nat
<1>1. PICK N \in Nat : N = Len(l)
  OBVIOUS
<1>2. N >= 2 /\ l[N] # MarcaEx /\ DOMAIN l = 1 .. N
  BY <1>1 DEF FueraDeRango
<1>3. PICK j \in 1 .. N : l[j] = MarcaEx
  <2>1. CASE Dice(l, TagString)
    BY <1>2, <2>1 DEF EsExpirable, Dice
  <2>2. CASE ~Dice(l, TagString)
    <3>1. PICK s : s = Resto(l)
      OBVIOUS
    <3>2. s \in Seq(Palabras) /\ Len(s) = N - 2 /\ \A i \in 1 .. N - 2 : s[i] = l[2 + i]
      BY <1>1, <1>2, <3>1 DEF Resto
    <3>3. PICK i \in 1 .. N - 2 : s[i] = MarcaEx
      BY <2>2, <3>1, <3>2 DEF EsExpirable, Dice
    <3>4. 2 + i \in 1 .. N
      BY <1>2
    <3> QED BY <3>2, <3>3, <3>4
  <2> QED BY <2>1, <2>2
<1> DEFINE P(i) == l[i] = MarcaEx /\ \A h \in DOMAIN l : h > i => l[h] # MarcaEx
<1>4. \E i \in DOMAIN l : P(i)
  BY <1>2, <1>3, UltimoEx
<1>5. PICK u : u = CHOOSE i \in DOMAIN l : P(i)
  OBVIOUS
<1>6. u \in 1 .. N /\ l[u] = MarcaEx
  BY <1>2, <1>4, <1>5
<1>7. u + 1 \in 1 .. N
  BY <1>2, <1>6
<1>8. l[u + 1] \in Seq(DeCampo \cup {Sep})
  BY <1>1, <1>7 DEF Palabras
<1>9. Numero(l[u + 1]) \in Nat
  BY <1>8, NumeroEsNat
<1> QED BY <1>5, <1>9 DEF TiempoExpiracion

(* The value read from a line is one of words.                             *)
LEMMA ValorDePalabras ==
  ASSUME NEW l \in Seq(Palabras), ~FueraDeRango(l)
  PROVE  DatoBueno(ValorDeLinea(l)) /\ l[2] \in Palabras
<1>1. PICK N \in Nat : N = Len(l)
  OBVIOUS
<1>2. N >= 2 /\ (Dice(l, TagString) => N >= 3)
  BY <1>1 DEF FueraDeRango
<1>3. \A i \in 1 .. N : l[i] \in Palabras
  BY <1>1
<1>4. l[2] \in Palabras
  <2>1. 2 \in 1 .. N
    BY <1>2
  <2> QED BY <1>3, <2>1
<1>5. CASE Dice(l, TagString)
  <2>1. 3 \in 1 .. N
    BY <1>2, <1>5
  <2>2. l[3] \in Palabras
    BY <1>3, <2>1
  <2>3. ValorDeLinea(l) = Str(<<l[3]>>)
    BY <1>5 DEF ValorDeLinea
  <2> QED BY <1>4, <2>2, <2>3 DEF DatoBueno
<1>6. CASE ~Dice(l, TagString) /\ Dice(l, TagLista)
  <2>1. PICK s : s = Resto(l)
    OBVIOUS
  <2>2. s \in Seq(Palabras)
    BY <1>1, <1>2, <2>1 DEF Resto
  <2>3. PICK x : x = Lista(s)
    OBVIOUS
  <2>4. ValorDeLinea(l) = x
    BY <1>6, <2>1, <2>3 DEF ValorDeLinea
  <2>5. x.tipo = "Lista" /\ x.lista = s /\ x = Lista(x.lista)
    BY <2>3 DEF Lista
  <2>6. DatoBueno(x)
    BY <2>2, <2>5 DEF DatoBueno
  <2> QED BY <1>4, <2>4, <2>6
<1>7. CASE ~Dice(l, TagString) /\ ~Dice(l, TagLista)
  <2>1. PICK S : S = {l[i] : i \in 3 .. N}
    OBVIOUS
  <2>2. S \subseteq Palabras
    BY <1>3, <2>1
  <2>3. IsFiniteSet(S)
    <3>1. PICK g : g = [i \in 3 .. N |-> l[i]]
      OBVIOUS
    <3>2. IsFiniteSet(3 .. N)
      BY FS_Interval
    <3>3. g \in Surjection(3 .. N, S)
      BY <2>1, <3>1 DEF Surjection
    <3> QED BY <3>2, <3>3, FS_Surjection
  <2>4. PICK x : x = Conjunto(S)
    OBVIOUS
  <2>5. ValorDeLinea(l) = x
    BY <1>1, <1>7, <2>1, <2>4 DEF ValorDeLinea
  <2>6. x.tipo = "Set" /\ x.set = S /\ x = Conjunto(x.set)
    BY <2>4 DEF Conjunto
  <2>7. DatoBueno(x)
    BY <2>2, <2>3, <2>6 DEF DatoBueno
  <2> QED BY <1>4, <2>5, <2>7
<1> QED BY <1>5, <1>6, <1>7

(* One line more.                                                          *)
LEMMA LineaDePalabras ==
  ASSUME NEW h, LecturaDeBytes(h), NEW t
  PROVE  LecturaDeBytes(TerminarLinea(h, t))
<1>1. PICK l, T : l = Append(h.campos, h.campo) /\ T = h.tabla
  OBVIOUS
<1>2. l \in Seq(Seq(DeCampo)) /\ TablaDePalabras(T)
  BY <1>1 DEF LecturaDeBytes
<1>3. \A U, e : TablaDePalabras(U) => LecturaDeBytes(Lectura(U, e))
  BY DEF LecturaDeBytes, Lectura
<1>4. CASE TerminarLinea(h, t) # Lectura(LevantarLinea(T, l, t), "lee")
  <2>1. \E e : TerminarLinea(h, t) = Lectura(T, e)
    BY <1>1, <1>4 DEF TerminarLinea
  <2> QED BY <1>2, <1>3, <2>1
<1>5. CASE (\A i \in DOMAIN l : EsUtf8(l[i])) /\ ~FueraDeRango(l)
  <2>1. l \in Seq(Palabras)
    <3>1. PICK N \in Nat : N = Len(l)
      BY <1>2
    <3>2. DOMAIN l = 1 .. N /\ \A i \in 1 .. N : l[i] \in Seq(DeCampo)
      BY <1>2, <3>1
    <3>4. \A i \in 1 .. N : EsUtf8(l[i])
      BY <1>5, <3>2
    <3>3. \A i \in 1 .. N : l[i] \in Palabras
      BY <3>2, <3>4 DEF Palabras
    <3> QED BY <1>2, <3>1, <3>3
  <2>2. PICK v : v = IF EsExpirable(l) THEN Expirable(ValorDeLinea(l), TiempoExpiracion(l), t)
                     ELSE NoExpirable(ValorDeLinea(l))
    OBVIOUS
  <2>3. DatoBueno(ValorDeLinea(l)) /\ l[2] \in Palabras
    BY <1>5, <2>1, ValorDePalabras
  <2>4. v.valor = ValorDeLinea(l) /\ v.vida \in Vidas
    <3>1. CASE EsExpirable(l)
      <4>1. TiempoExpiracion(l) \in Nat
        BY <1>5, <2>1, <3>1, TiempoEsNat
      <4> QED BY <2>2, <3>1, <4>1 DEF Expirable, Vidas
    <3>2. CASE ~EsExpirable(l)
      BY <2>2, <3>2 DEF NoExpirable, Vidas
    <3> QED BY <3>1, <3>2
  <2>5. LevantarLinea(T, l, t) = Poner(T, l[2], v)
    BY <2>2 DEF LevantarLinea
  <2>6. TablaDePalabras(Poner(T, l[2], v))
    BY <1>2, <2>3, <2>4 DEF TablaDePalabras, Poner
  <2>7. LecturaDeBytes(Lectura(LevantarLinea(T, l, t), "lee"))
    BY <1>3, <2>5, <2>6
  <2> QED BY <1>4, <2>7
<1>6. CASE ~((\A i \in DOMAIN l : EsUtf8(l[i])) /\ ~FueraDeRango(l))
  <2>1. \E e : TerminarLinea(h, t) = Lectura(T, e)
    BY <1>1, <1>6 DEF TerminarLinea
  <2> QED BY <1>2, <1>3, <2>1
<1> QED BY <1>5, <1>6

(* All of a file.                                                          *)
LEMMA ArchivoLeido ==
  ASSUME NEW f \in Seq(Bytes), NEW t
  PROVE  TablaDePalabras(LevantarTabla(f, t).tabla)
<1>1. PICK N \in Nat : N = Len(f)
  OBVIOUS
<1>2. PICK g : g = Leyendo(f, t)
  OBVIOUS
<1>3. g[0] = Principio /\ \A n \in 1 .. N : g[n] = Avanzar(g[n - 1], f[n], t)
  BY <1>1, <1>2, UnByteMas
<1> DEFINE S == {n \in 0 .. N : LecturaDeBytes(g[n])}
<1>4. 0 \in S
  <2>1. LecturaDeBytes(Principio)
    BY DEF LecturaDeBytes, TablaDePalabras, Principio, Lectura, SinClaves
  <2> QED BY <1>3, <2>1
<1>5. ASSUME NEW n \in 0 .. N - 1, n \in S PROVE n + 1 \in S
  <2>1. n + 1 \in 1 .. N /\ (n + 1) - 1 = n /\ n + 1 \in 0 .. N
    OBVIOUS
  <2>2. PICK b, h : b = f[n + 1] /\ h = g[n]
    OBVIOUS
  <2>3. b \in Bytes /\ LecturaDeBytes(h) /\ g[n + 1] = Avanzar(h, b, t)
    BY <1>1, <1>3, <1>5, <2>1, <2>2
  <2>4. CASE b = Nl
    <3>1. g[n + 1] = TerminarLinea(h, t)
      BY <2>3, <2>4 DEF Avanzar
    <3> QED BY <2>1, <2>3, <3>1, LineaDePalabras
  <2>5. CASE b = Sep
    <3>1. g[n + 1] = [h EXCEPT !.campos = Append(@, h.campo), !.campo = <<>>]
      BY <2>3, <2>5, Marcas DEF Avanzar
    <3>2. g[n + 1].tabla = h.tabla /\ g[n + 1].campos \in Seq(Seq(DeCampo)) /\ g[n + 1].campo \in Seq(DeCampo)
      BY <2>3, <3>1 DEF LecturaDeBytes
    <3>3. LecturaDeBytes(g[n + 1])
      BY <2>3, <3>2 DEF LecturaDeBytes
    <3> QED BY <2>1, <3>3
  <2>6. CASE b \in DeCampo
    <3>1. g[n + 1] = [h EXCEPT !.campo = Append(@, b)]
      BY <2>3, <2>6, Marcas DEF Avanzar
    <3>2. g[n + 1].tabla = h.tabla /\ g[n + 1].campos \in Seq(Seq(DeCampo)) /\ g[n + 1].campo \in Seq(DeCampo)
      BY <2>3, <2>6, <3>1 DEF LecturaDeBytes
    <3>3. LecturaDeBytes(g[n + 1])
      BY <2>3, <3>2 DEF LecturaDeBytes
    <3> QED BY <2>1, <3>3
  <2> QED BY <2>3, <2>4, <2>5, <2>6 DEF Bytes
<1>6. N \in S
  <2>1. \A n \in 0 .. N : n \in S
    <3> HIDE DEF S
    <3> QED BY <1>4, <1>5, HastaElFinal
  <2> QED BY <2>1
<1>7. LecturaDeBytes(TerminarLinea(g[N], t))
  BY <1>6, LineaDePalabras
<1> QED BY <1>1, <1>2, <1>7 DEF LevantarTabla, LecturaDeBytes

-----------------------------------------------------------------------------
(* The tables, the copies in the channel and the files are of words and of *)
(* bytes, and what they hold was stored under its key at some time.        *)

TablaBuena(T, tu) == TablaDePalabras(T) /\ \A k \in DOMAIN T : <<k, T[k].valor>> \in tu

MensajeBueno(m, tu) == /\ m.msg = "info" => TablaBuena(m.tabla, tu)
                       /\ m.msg = "archivo" => m.ruta \in Rutas

ColaBuena(c, tu) == \E S : c \in Seq(S) /\ \A m \in S : MensajeBueno(m, tu)

(* The fields written for k: those of its value in the copy G, or none.    *)
LineaDe(k, cs, G) == IF k \in DOMAIN G THEN cs \in Lineas(k, G[k].valor, Vencimiento(G[k].vida))
                     ELSE cs = <<>>

GuardandoBien(p, d, tu) ==
  /\ p.pos \in 0 .. Len(d[p.archivo]) /\ TablaBuena(p.copia, tu)
  /\ p.faltan \subseteq DOMAIN p.lineas /\ DOMAIN p.copia \subseteq DOMAIN p.lineas
  /\ \A k \in DOMAIN p.lineas : \A cs \in p.lineas[k] : LineaDe(k, cs, p.copia)

Campos == {"paso", "archivo", "lineas", "faltan", "pos", "copia"}

HiloBueno(p, d, tu) ==
  /\ p.paso \in {"esperar", "texto", "fin"} => "archivo" \in DOMAIN p /\ p.archivo \in Rutas
  /\ p.paso \in {"texto", "fin"} => Campos \subseteq DOMAIN p /\ GuardandoBien(p, d, tu)

TuvoBueno(tu) == \A p \in tu : \E k \in Palabras : \E x : p = <<k, x>> /\ DatoBueno(x)

Archivos ==
  /\ disco \in [Rutas -> Seq(Bytes)] /\ TablaBuena(tabla, tuvo) /\ ColaBuena(cola, tuvo)
  /\ HiloBueno(pers, disco, tuvo) /\ TuvoBueno(tuvo)

(* What is stored later does not undo any of it.                           *)
LEMMA TodoCrece ==
  ASSUME NEW tu, NEW tv, tu \subseteq tv
  PROVE  /\ \A T : TablaBuena(T, tu) => TablaBuena(T, tv)
         /\ \A c : ColaBuena(c, tu) => ColaBuena(c, tv)
         /\ \A p, d : HiloBueno(p, d, tu) => HiloBueno(p, d, tv)
<1>3. \A T : TablaBuena(T, tu) => TablaBuena(T, tv)
  BY DEF TablaBuena
<1>4. \A m : MensajeBueno(m, tu) => MensajeBueno(m, tv)
  BY <1>3 DEF MensajeBueno
<1>5. ASSUME NEW c, ColaBuena(c, tu) PROVE ColaBuena(c, tv)
  <2>1. PICK S : c \in Seq(S) /\ \A m \in S : MensajeBueno(m, tu)
    BY <1>5 DEF ColaBuena
  <2> QED BY <1>4, <2>1 DEF ColaBuena
<1>6. ASSUME NEW p, NEW d, HiloBueno(p, d, tu) PROVE HiloBueno(p, d, tv)
  BY <1>3, <1>6 DEF HiloBueno, GuardandoBien
<1> QED BY <1>3, <1>5, <1>6

(* A good message sent.                                                    *)
LEMMA ColaMasUno ==
  ASSUME NEW tu, NEW c, ColaBuena(c, tu), NEW m, MensajeBueno(m, tu)
  PROVE  ColaBuena(Append(c, m), tu)
<1>1. PICK S : c \in Seq(S) /\ \A x \in S : MensajeBueno(x, tu)
  BY DEF ColaBuena
<1>2. c \in Seq(S \cup {m})
  BY <1>1
<1>3. Append(c, m) \in Seq(S \cup {m})
  BY <1>2
<1> QED BY <1>1, <1>3 DEF ColaBuena

(* A message taken.                                                        *)
LEMMA ColaMenosUno ==
  ASSUME NEW tu, NEW c, ColaBuena(c, tu), c # <<>>
  PROVE  ColaBuena(Tail(c), tu) /\ MensajeBueno(Head(c), tu)
<1>1. PICK S : c \in Seq(S) /\ \A x \in S : MensajeBueno(x, tu)
  BY DEF ColaBuena
<1>2. Tail(c) \in Seq(S) /\ Head(c) \in S
  BY <1>1
<1> QED BY <1>1, <1>2 DEF ColaBuena

(* The channel of a process that has just started.                         *)
LEMMA ColaVacia ==
  ASSUME NEW tu
  PROVE  ColaBuena(<<>>, tu)
<1>1. PICK S : S = {}
  OBVIOUS
<1>2. <<>> \in Seq(S) /\ \A m \in S : MensajeBueno(m, tu)
  BY <1>1
<1> QED BY <1>2 DEF ColaBuena

(* A command that stores or removes a value.                               *)
LEMMA GuardarEntero ==
  ASSUME Archivos, NEW k \in Claves, Guardar(k)
  PROVE  Archivos'
<1>1. PICK w \in Escrituras[k] :
        /\ tabla' = IF w.valor = Nada THEN Quitar(tabla, k)
                    ELSE Poner(tabla, k, IF w.vida = SinVida THEN NoExpirable(w.valor)
                                         ELSE Expirable(w.valor, w.vida, ahora))
        /\ tuvo' = IF w.valor = Nada THEN tuvo ELSE tuvo \cup {<<k, w.valor>>}
  BY DEF Guardar
<1>2. w.vida \in Vidas /\ (w.valor = Nada \/ DatoBueno(w.valor)) /\ k \in Palabras
  BY PersistenciaAssumption, SonPalabras
<1>3. tuvo \subseteq tuvo' /\ (w.valor # Nada => <<k, w.valor>> \in tuvo')
  BY <1>1
<1>4. TuvoBueno(tuvo')
  <2>1. TuvoBueno(tuvo)
    BY DEF Archivos
  <2>2. CASE w.valor = Nada
    BY <1>1, <2>1, <2>2
  <2>3. CASE w.valor # Nada
    <3>1. \A p \in tuvo' : p \in tuvo \/ p = <<k, w.valor>>
      BY <1>1, <2>3
    <3> QED BY <1>2, <2>1, <2>3, <3>1 DEF TuvoBueno
  <2> QED BY <2>2, <2>3
<1>5. /\ TablaBuena(tabla, tuvo') /\ ColaBuena(cola, tuvo') /\ HiloBueno(pers, disco, tuvo')
  <2>1. PICK tv : tv = tuvo'
    OBVIOUS
  <2>2. tuvo \subseteq tv
    BY <1>3, <2>1
  <2> QED BY <2>1, <2>2, TodoCrece DEF Archivos
<1>6. TablaBuena(tabla', tuvo')
  <2>1. CASE w.valor = Nada
    BY <1>1, <1>5, <2>1 DEF TablaBuena, TablaDePalabras, Quitar
  <2>2. CASE w.valor # Nada
    <3>1. PICK v : v = IF w.vida = SinVida THEN NoExpirable(w.valor)
                       ELSE Expirable(w.valor, w.vida, ahora)
      OBVIOUS
    <3>2. v.valor = w.valor /\ v.vida \in Vidas
      BY <1>2, <3>1 DEF NoExpirable, Expirable, Vidas
    <3>3. tabla' = Poner(tabla, k, v)
      BY <1>1, <2>2, <3>1
    <3> QED BY <1>2, <1>3, <1>5, <2>2, <3>2, <3>3 DEF TablaBuena, TablaDePalabras, Poner
  <2> QED BY <2>1, <2>2
<1>7. ColaBuena(cola', tuvo')
  <2>1. MensajeBueno(Info(tabla'), tuvo')
    BY <1>6 DEF MensajeBueno, Info
  <2>2. cola' = cola \/ cola' = Append(cola, Info(tabla'))
    BY DEF Guardar, Enviar
  <2> QED BY <1>5, <2>1, <2>2, ColaMasUno
<1>8. disco' = disco /\ pers' = pers
  BY DEF Guardar
<1> QED BY <1>4, <1>5, <1>6, <1>7, <1>8 DEF Archivos

(* EXPIRE and PERSIST leave the value itself.                              *)
LEMMA CambiarVidaEntero ==
  ASSUME Archivos, NEW k \in Claves, CambiarVida(k)
  PROVE  Archivos'
<1>1. PICK n \in VidasNuevas[k] :
        tabla' = Poner(tabla, k, IF n = SinVida THEN NoExpirable(tabla[k].valor)
                                 ELSE Expirable(tabla[k].valor, n, ahora))
  BY DEF CambiarVida
<1>2. n \in Vidas
  BY PersistenciaAssumption
<1>3. PICK v : v = IF n = SinVida THEN NoExpirable(tabla[k].valor)
                   ELSE Expirable(tabla[k].valor, n, ahora)
  OBVIOUS
<1>4. v.valor = tabla[k].valor /\ v.vida \in Vidas /\ k \in DOMAIN tabla /\ tabla' = Poner(tabla, k, v)
  BY <1>1, <1>2, <1>3 DEF NoExpirable, Expirable, Vidas, CambiarVida
<1>5. TablaBuena(tabla', tuvo)
  BY <1>4 DEF Archivos, TablaBuena, TablaDePalabras, Poner
<1>6. UNCHANGED <<disco, cola, pers, tuvo>>
  BY DEF CambiarVida, historia
<1> QED BY <1>5, <1>6 DEF Archivos

(* CONFIG SET dbfilename only sends a name.                                *)
LEMMA CambiarArchivoEntero ==
  ASSUME Archivos, CambiarArchivo
  PROVE  Archivos'
<1>1. PICK r \in Rutas : Enviar(ArchivoAPersistir(r))
  BY DEF CambiarArchivo
<1>2. MensajeBueno(ArchivoAPersistir(r), tuvo)
  BY DEF MensajeBueno, ArchivoAPersistir
<1>3. cola' = cola \/ cola' = Append(cola, ArchivoAPersistir(r))
  BY <1>1 DEF Enviar
<1>4. ColaBuena(cola', tuvo)
  BY <1>2, <1>3, ColaMasUno DEF Archivos
<1>5. UNCHANGED <<disco, tabla, pers, tuvo>>
  BY DEF CambiarArchivo, historia
<1> QED BY <1>4, <1>5 DEF Archivos

(* The lines of a copy are those of its values.                            *)
LEMMA CopiaPorLineas ==
  ASSUME NEW T, NEW tu, TablaBuena(T, tu), NEW s
  PROVE  /\ TablaBuena(Visible(T, s), tu) /\ DOMAIN Visible(T, s) \subseteq DOMAIN T
         /\ \A k \in DOMAIN T : \A cs \in GuardarClaveValor(k, T[k], s) : LineaDe(k, cs, Visible(T, s))
<1>1. PICK G : G = Visible(T, s)
  OBVIOUS
<1>2. /\ DOMAIN G = {k \in DOMAIN T : Get(T[k], s).tipo \notin {"Nada", "Canal"}}
      /\ \A k \in DOMAIN G : G[k] = T[k]
  BY <1>1 DEF Visible
<1>3. TablaBuena(G, tu)
  BY <1>2 DEF TablaBuena, TablaDePalabras
<1>4. ASSUME NEW k \in DOMAIN T, NEW cs \in GuardarClaveValor(k, T[k], s) PROVE LineaDe(k, cs, G)
  <2>1. PICK x : x = T[k].valor
    OBVIOUS
  <2>2. cs \in Lineas(k, Get(T[k], s), Vencimiento(T[k].vida))
    BY <1>4 DEF GuardarClaveValor
  <2>3. CASE Get(T[k], s) = Nada
    <3>1. Nada.tipo = "Nada"
      BY DEF Nada
    <3>2. cs = <<>>
      BY <2>2, <2>3, <3>1 DEF Lineas
    <3>3. k \notin DOMAIN G
      BY <1>2, <2>3, <3>1
    <3> QED BY <3>2, <3>3 DEF LineaDe
  <2>4. CASE Get(T[k], s) = x
    <3>1. DatoBueno(x)
      BY <2>1 DEF TablaBuena, TablaDePalabras
    <3>2. x.tipo \in {"Str", "Lista", "Set"}
      BY <3>1 DEF DatoBueno, Str
    <3>3. k \in DOMAIN G /\ G[k] = T[k]
      BY <1>2, <2>4, <3>2
    <3> QED BY <2>1, <2>2, <2>4, <3>3 DEF LineaDe
  <2>5. Get(T[k], s) \in {Nada, x}
    BY <2>1 DEF Get
  <2> QED BY <2>3, <2>4, <2>5
<1> QED BY <1>1, <1>2, <1>3, <1>4

(* A copy received is good, and so is what is written of it.               *)
LEMMA RecibirEntero ==
  ASSUME Archivos, Recibir
  PROVE  Archivos'
<1> DEFINE m == Head(cola)
<1>1. /\ pers.paso = "esperar" /\ cola # <<>> /\ UNCHANGED <<disco, tabla, tuvo>>
      /\ "archivo" \in DOMAIN pers /\ pers.archivo \in Rutas
  BY DEF Recibir, Archivos, HiloBueno
<1>2. ColaBuena(Tail(cola), tuvo) /\ MensajeBueno(m, tuvo) /\ ColaBuena(<<>>, tuvo)
  BY <1>1, ColaMenosUno, ColaVacia DEF Archivos
<1>3. ColaBuena(cola', tuvo)
  BY <1>2 DEF Recibir
<1> SUFFICES HiloBueno(pers', disco, tuvo)
  BY <1>1, <1>3 DEF Archivos
<1>4. CASE m.msg = "archivo" /\ pers' = [pers EXCEPT !.archivo = m.ruta]
  <2>1. m.ruta \in Rutas
    BY <1>2, <1>4 DEF MensajeBueno
  <2>2. pers'.paso \in {"esperar"} /\ "archivo" \in DOMAIN pers' /\ pers'.archivo \in Rutas
    BY <1>1, <1>4, <2>1
  <2> QED BY <2>2 DEF HiloBueno
<1>5. CASE pers' = pers
  BY <1>5 DEF Archivos
<1>6. CASE m.msg = "info" /\ pers' = Guardando(pers, m.tabla, ahora)
  <2>1. PICK T : T = m.tabla
    OBVIOUS
  <2>2. TablaBuena(T, tuvo)
    BY <1>2, <1>6, <2>1 DEF MensajeBueno
  <2>3. /\ pers'.paso = "texto" /\ Campos \subseteq DOMAIN pers'
        /\ pers'.archivo = pers.archivo /\ pers'.pos = 0 /\ pers'.faltan = DOMAIN T
        /\ pers'.lineas = [k \in DOMAIN T |-> GuardarClaveValor(k, T[k], ahora)]
        /\ pers'.copia = Visible(T, ahora)
    BY <1>6, <2>1 DEF Guardando, Campos
  <2>4. /\ TablaBuena(Visible(T, ahora), tuvo) /\ DOMAIN Visible(T, ahora) \subseteq DOMAIN T
        /\ \A k \in DOMAIN T :
             \A cs \in GuardarClaveValor(k, T[k], ahora) : LineaDe(k, cs, Visible(T, ahora))
    <3>1. PICK tu, s : tu = tuvo /\ s = ahora
      OBVIOUS
    <3>2. TablaBuena(T, tu)
      BY <2>2, <3>1
    <3> QED BY <3>1, <3>2, CopiaPorLineas
  <2>5. 0 \in 0 .. Len(disco[pers.archivo])
    BY <1>1 DEF Archivos
  <2>6. GuardandoBien(pers', disco, tuvo)
    BY <2>3, <2>4, <2>5 DEF GuardandoBien
  <2>7. "archivo" \in DOMAIN pers' /\ pers'.archivo \in Rutas
    BY <1>1, <2>3 DEF Campos
  <2> QED BY <2>3, <2>6, <2>7 DEF HiloBueno
<1>7. CASE pers' = [paso |-> "muerto"]
  BY <1>7 DEF HiloBueno
<1> QED BY <1>4, <1>5, <1>6, <1>7 DEF Recibir, Descartar

(* The text of a line is of bytes.                                         *)
LEMMA TextoDeBytes ==
  ASSUME NEW k, NEW G, NEW tu, TablaBuena(G, tu), NEW cs, LineaDe(k, cs, G)
  PROVE  cs \in Seq(Palabras) /\ Texto(cs) \in Seq(Bytes) /\ (cs = <<>> => Texto(cs) = <<>>)
<1>1. cs \in Seq(Palabras)
  <2>1. CASE k \in DOMAIN G
    <3>1. k \in Palabras /\ DatoBueno(G[k].valor) /\ G[k].vida \in Vidas
      BY <2>1 DEF TablaBuena, TablaDePalabras
    <3>2. cs \in Lineas(k, G[k].valor, Vencimiento(G[k].vida))
      BY <2>1 DEF LineaDe
    <3> QED BY <3>1, <3>2, LineaTipo
  <2>2. CASE k \notin DOMAIN G
    BY <2>2 DEF LineaDe
  <2> QED BY <2>1, <2>2
<1>2. PICK N \in Nat : N = Len(cs)
  BY <1>1
<1>3. \A i \in 1 .. N : cs[i] \in Palabras
  BY <1>1, <1>2
<1>4. \A i \in 1 .. N : cs[i] \in Seq(Bytes)
  BY <1>3, Marcas DEF Palabras
<1>5. cs \in Seq(Seq(Bytes))
  BY <1>1, <1>2, <1>4
<1>6. Texto(cs) \in Seq(Bytes)
  BY <1>5, Marcas, TextoTipo
<1>7. ASSUME cs = <<>> PROVE Texto(cs) = <<>>
  <2>1. N = 0
    BY <1>2, <1>7
  <2>3. Sep \in Bytes
    BY Marcas
  <2>2. PICK u : Texto(cs) = u[N] /\ Crecen(u, cs, Bytes, N)
    BY <1>2, <1>5, <2>3, TextoPorPartes
  <2> QED BY <2>1, <2>2 DEF Crecen
<1> QED BY <1>1, <1>6, <1>7

(* The file and the place in it where the thread writes.                   *)
LEMMA DondeEscribe ==
  ASSUME Archivos, pers.paso \in {"texto", "fin"}
  PROVE  /\ pers.archivo \in Rutas /\ disco[pers.archivo] \in Seq(Bytes)
         /\ pers.pos \in 0 .. Len(disco[pers.archivo])
         /\ disco \in [Rutas -> Seq(Bytes)]
         /\ Campos \subseteq DOMAIN pers /\ GuardandoBien(pers, disco, tuvo)
BY DEF Archivos, HiloBueno, GuardandoBien

(* A write of the thread, of a text or of an end of line.                  *)
LEMMA EscrituraEntera ==
  ASSUME Archivos, NEW bs \in Seq(Bytes), pers.paso \in {"texto", "fin"},
         disco' = [disco EXCEPT ![pers.archivo] = Pisar(@, pers.pos, bs)],
         UNCHANGED <<tabla, cola, tuvo>>,
         pers'.paso \in {"texto", "fin"}, DOMAIN pers' = DOMAIN pers,
         pers'.archivo = pers.archivo, pers'.lineas = pers.lineas, pers'.copia = pers.copia,
         pers'.faltan \subseteq pers.faltan, pers'.pos = pers.pos + Len(bs)
  PROVE  Archivos'
<1>1. PICK r \in Rutas : r = pers.archivo
  BY DondeEscribe
<1>2. PICK p : p = pers.pos
  OBVIOUS
<1>3. PICK f : f = disco[r]
  OBVIOUS
<1>4. f \in Seq(Bytes) /\ p \in 0 .. Len(f) /\ disco \in [Rutas -> Seq(Bytes)]
  BY <1>1, <1>2, <1>3, DondeEscribe
<1>5. PICK g : g = Pisar(f, p, bs)
  OBVIOUS
<1>6. g \in Seq(Bytes) /\ p + Len(bs) <= Len(g)
  BY <1>4, <1>5, Pisado
<1>8. disco' = [disco EXCEPT ![r] = g]
  BY <1>1, <1>2, <1>3, <1>5
<1>9. disco' \in [Rutas -> Seq(Bytes)]
  BY <1>4, <1>6, <1>8
<1>10. disco'[r] = g
  BY <1>4, <1>8
<1>11. p + Len(bs) \in 0 .. Len(g)
  BY <1>4, <1>6
<1>12. GuardandoBien(pers', disco', tuvo)
  <2>1. GuardandoBien(pers, disco, tuvo)
    BY DondeEscribe
  <2> QED BY <1>1, <1>2, <1>10, <1>11, <2>1 DEF GuardandoBien
<1>13. HiloBueno(pers', disco', tuvo)
  <2>1. Campos \subseteq DOMAIN pers
    BY DondeEscribe
  <2> QED BY <1>1, <1>12, <2>1 DEF HiloBueno, Campos
<1> QED BY <1>9, <1>13 DEF Archivos

(* The text of a line.                                                     *)
LEMMA EscribirTextoEntero ==
  ASSUME Archivos, EscribirTexto
  PROVE  Archivos'
<1>1. PICK k \in pers.faltan : \E cs \in pers.lineas[k] :
         /\ disco' = [disco EXCEPT ![pers.archivo] = Pisar(@, pers.pos, Texto(cs))]
         /\ pers' = [pers EXCEPT !.paso = "fin", !.faltan = @ \ {k}, !.pos = @ + Len(Texto(cs))]
  BY DEF EscribirTexto
<1>2. PICK cs \in pers.lineas[k] :
         /\ disco' = [disco EXCEPT ![pers.archivo] = Pisar(@, pers.pos, Texto(cs))]
         /\ pers' = [pers EXCEPT !.paso = "fin", !.faltan = @ \ {k}, !.pos = @ + Len(Texto(cs))]
  BY <1>1
<1>3. /\ pers.paso = "texto" /\ UNCHANGED <<tabla, cola, tuvo>>
  BY DEF EscribirTexto, historia
<1>4. Campos \subseteq DOMAIN pers /\ GuardandoBien(pers, disco, tuvo)
  BY <1>3, DondeEscribe
<1>5. LineaDe(k, cs, pers.copia) /\ TablaBuena(pers.copia, tuvo)
  BY <1>4 DEF GuardandoBien
<1>6. PICK bs : bs = Texto(cs)
  OBVIOUS
<1>7. bs \in Seq(Bytes)
  <2>1. PICK G, tu : G = pers.copia /\ tu = tuvo
    OBVIOUS
  <2>2. LineaDe(k, cs, G) /\ TablaBuena(G, tu)
    BY <1>5, <2>1
  <2> QED BY <1>6, <2>2, TextoDeBytes
<1>8. /\ pers'.paso = "fin" /\ DOMAIN pers' = DOMAIN pers /\ pers'.archivo = pers.archivo
      /\ pers'.lineas = pers.lineas /\ pers'.faltan \subseteq pers.faltan
      /\ pers'.copia = pers.copia /\ pers'.pos = pers.pos + Len(bs)
  BY <1>2, <1>4, <1>6 DEF Campos
<1>9. disco' = [disco EXCEPT ![pers.archivo] = Pisar(@, pers.pos, bs)]
  BY <1>2, <1>6
<1> QED BY <1>3, <1>7, <1>8, <1>9, EscrituraEntera

(* The end of a line.                                                      *)
LEMMA EscribirFinEntero ==
  ASSUME Archivos, EscribirFin
  PROVE  Archivos'
<1>1. /\ pers.paso = "fin" /\ UNCHANGED <<tabla, cola, tuvo>>
      /\ disco' = [disco EXCEPT ![pers.archivo] = Pisar(@, pers.pos, <<Nl>>)]
      /\ pers' = [pers EXCEPT !.paso = "texto", !.pos = @ + 1]
  BY DEF EscribirFin, historia
<1>4. Campos \subseteq DOMAIN pers
  BY <1>1, DondeEscribe
<1>2. PICK bs : bs = <<Nl>>
  OBVIOUS
<1>3. bs \in Seq(Bytes) /\ Len(bs) = 1
  BY <1>2, Marcas
<1>5. /\ pers'.paso = "texto" /\ DOMAIN pers' = DOMAIN pers /\ pers'.archivo = pers.archivo
      /\ pers'.lineas = pers.lineas /\ pers'.faltan \subseteq pers.faltan
      /\ pers'.copia = pers.copia /\ pers'.pos = pers.pos + Len(bs)
  BY <1>1, <1>3, <1>4 DEF Campos
<1>6. disco' = [disco EXCEPT ![pers.archivo] = Pisar(@, pers.pos, bs)]
  BY <1>1, <1>2
<1> QED BY <1>1, <1>3, <1>5, <1>6, EscrituraEntera

(* A table that is read is one of words, and is in tuvo from then on.      *)
LEMMA LevantarEntero ==
  ASSUME Archivos, Levantar
  PROVE  Archivos'
<1>1. PICK h : /\ h = IF RutaInicial \in Abribles THEN LevantarTabla(disco[RutaInicial], ahora)
                      ELSE Lectura(SinClaves, "lee")
               /\ \/ UNCHANGED <<tabla, pers, tuvo>>
                  \/ /\ tabla' = h.tabla /\ pers' = Esperando(RutaInicial, ahora)
                     /\ tuvo' = tuvo \cup {<<k, h.tabla[k].valor>> : k \in DOMAIN h.tabla}
  BY DEF Levantar
<1>2. UNCHANGED <<cola, disco>>
  BY DEF Levantar
<1>3. RutaInicial \in Rutas
  BY PersistenciaAssumption
<1>4. TablaDePalabras(h.tabla)
  <2>1. PICK f, t : f = disco[RutaInicial] /\ t = ahora
    OBVIOUS
  <2>2. f \in Seq(Bytes)
    BY <1>3, <2>1 DEF Archivos
  <2>3. TablaDePalabras(LevantarTabla(f, t).tabla)
    BY <2>2, ArchivoLeido
  <2>4. TablaDePalabras(Lectura(SinClaves, "lee").tabla)
    BY DEF TablaDePalabras, Lectura, SinClaves
  <2> QED BY <1>1, <2>1, <2>3, <2>4
<1>5. CASE UNCHANGED <<tabla, pers, tuvo>>
  BY <1>2, <1>5 DEF Archivos
<1>6. CASE /\ tabla' = h.tabla /\ pers' = Esperando(RutaInicial, ahora)
           /\ tuvo' = tuvo \cup {<<k, h.tabla[k].valor>> : k \in DOMAIN h.tabla}
  <2>1. TablaBuena(tabla', tuvo')
    BY <1>4, <1>6 DEF TablaBuena
  <2>2. HiloBueno(pers', disco', tuvo')
    BY <1>3, <1>6 DEF HiloBueno, Esperando
  <2>3. TuvoBueno(tuvo')
    <3>1. ASSUME NEW p \in tuvo' PROVE \E k \in Palabras : \E x : p = <<k, x>> /\ DatoBueno(x)
      <4>1. CASE p \in tuvo
        BY <4>1 DEF Archivos, TuvoBueno
      <4>2. CASE \E k \in DOMAIN h.tabla : p = <<k, h.tabla[k].valor>>
        BY <1>4, <4>2 DEF TablaDePalabras
      <4> QED BY <1>6, <4>1, <4>2
    <3> QED BY <3>1 DEF TuvoBueno
  <2>4. ColaBuena(cola', tuvo')
    <3>1. PICK tv : tv = tuvo'
      OBVIOUS
    <3>2. tuvo \subseteq tv
      BY <1>6, <3>1
    <3>3. ColaBuena(cola, tv)
      BY <3>2, TodoCrece DEF Archivos
    <3> QED BY <1>2, <3>1, <3>3
  <2> QED BY <1>2, <2>1, <2>2, <2>3, <2>4 DEF Archivos
<1> QED BY <1>1, <1>5, <1>6

(* Whatever the clients, the thread, a crash or a restart does.            *)
LEMMA ArchivosInductivo ==
  ASSUME Archivos, [Next]_vars
  PROVE  Archivos'
<1>3. ASSUME NEW k \in Claves, Guardar(k) \/ CambiarVida(k) PROVE Archivos'
  BY <1>3, GuardarEntero, CambiarVidaEntero
<1>4. CASE CambiarArchivo
  BY <1>4, CambiarArchivoEntero
<1>5. CASE Recibir
  BY <1>5, RecibirEntero
<1>6. CASE EscribirTexto
  BY <1>6, EscribirTextoEntero
<1>7. CASE EscribirFin
  BY <1>7, EscribirFinEntero
<1>8. CASE TerminarDeGuardar
  <2>1. UNCHANGED <<disco, tabla, cola, tuvo>> /\ pers' = Esperando(pers.archivo, ahora)
        /\ pers.archivo \in Rutas
    BY <1>8 DEF TerminarDeGuardar, Archivos, HiloBueno
  <2>2. HiloBueno(pers', disco, tuvo)
    BY <2>1 DEF HiloBueno, Esperando
  <2> QED BY <2>1, <2>2 DEF Archivos
<1>9. CASE Caer
  <2>1. TablaBuena(SinClaves, tuvo) /\ ColaBuena(<<>>, tuvo)
    BY ColaVacia DEF TablaBuena, TablaDePalabras, SinClaves
  <2>2. HiloBueno([paso |-> "muerto"], disco, tuvo)
    BY DEF HiloBueno
  <2> QED BY <1>9, <2>1, <2>2 DEF Caer, Archivos
<1>10. CASE Levantar
  BY <1>10, LevantarEntero
<1>11. CASE Tick \/ UNCHANGED vars
  BY <1>11 DEF Tick, vars, historia, Archivos
<1> QED BY <1>3, <1>4, <1>5, <1>6, <1>7, <1>8, <1>9, <1>10, <1>11 DEF Next, HiloPersistencia

(* Every file starts empty.                                                *)
LEMMA ArchivosAlEmpezar ==
  ASSUME Init
  PROVE  Archivos
<1>1. TablaBuena(SinClaves, tuvo) /\ ColaBuena(<<>>, tuvo)
  BY ColaVacia DEF TablaBuena, TablaDePalabras, SinClaves
<1>2. HiloBueno(Esperando(RutaInicial, 0), disco, tuvo)
  BY PersistenciaAssumption DEF HiloBueno, Esperando
<1>3. [r \in Rutas |-> <<>>] \in [Rutas -> Seq(Bytes)]
  OBVIOUS
<1>4. TuvoBueno({})
  BY DEF TuvoBueno
<1> QED BY <1>1, <1>2, <1>3, <1>4 DEF Init, Archivos


-----------------------------------------------------------------------------
(* What a save writes is read back.                                        *)

CopiaLegible(G) == \A k \in DOMAIN G : Legible(k, G[k].valor)

(* R is what a reader gets of G under the keys of K.                       *)
Recuperada(R, G, K) ==
  /\ DOMAIN R = DOMAIN G \cap K
  /\ \A k \in DOMAIN R : R[k].valor = Vuelve(G[k].valor, G[k].vida) /\ R[k].vida = G[k].vida

(* A reader at the start of a line who has all of K.                       *)
Repuesta(h, G, K) == \E R : h = Lectura(R, "lee") /\ Recuperada(R, G, K)

(* A word without a separator.                                             *)
LEMMA SinSep ==
  ASSUME NEW s \in Palabras, \A i \in DOMAIN s : s[i] # Sep
  PROVE  s \in Seq(DeCampo)
<1>1. s \in Seq(DeCampo \cup {Sep})
  BY DEF Palabras
<1>2. PICK N \in Nat : N = Len(s)
  BY <1>1
<1>3. \A i \in 1 .. N : s[i] \in DeCampo \cup {Sep} /\ s[i] # Sep
  BY <1>1, <1>2
<1>4. \A i \in 1 .. N : s[i] \in DeCampo
  BY <1>3
<1> QED BY <1>1, <1>2, <1>4

(* The fields of a legible line are the words of its value.                *)
LEMMA CamposSinSep ==
  ASSUME NEW k \in Palabras, NEW x, DatoBueno(x), Legible(k, x), NEW n \in Vidas,
         NEW c \in Lineas(k, x, Vencimiento(n))
  PROVE  c \in Seq(Seq(DeCampo)) /\ c # <<>>
<1>0. PICK z : z = Vencimiento(n) /\ c \in Lineas(k, x, z)
  OBVIOUS
<1>1. PICK e, q : e \in Etiquetas /\ EnTres(c, e, k, q, z) /\ DeDato(x, e, q)
  BY <1>0, LineaEnTres
<1>2. q \in Seq(Palabras)
  BY <1>1 DEF DeDato
<1>3. Partes(c, e, k, q, n)
  BY <1>0, <1>1, <1>2, LineaPorPartes
<1>4. PICK l, m : l = Len(q) /\ m = Len(c)
  OBVIOUS
<1>5. /\ c \in Seq(Palabras) /\ l \in Nat /\ m \in Nat /\ m = 2 + l + IF n = SinVida THEN 0 ELSE 2
      /\ c[1] = e /\ c[2] = k
      /\ \A i \in 1 .. l : c[2 + i] = q[i]
      /\ n # SinVida => n \in Nat /\ c[2 + l + 1] = MarcaEx /\ c[2 + l + 2] = Decimal(n)
      /\ DOMAIN c = 1 .. m
  BY <1>2, <1>3, <1>4 DEF Partes
<1>6. e \in Seq(DeCampo) /\ MarcaEx \in Seq(DeCampo)
  <2>1. \A w \in Etiquetas \cup {MarcaEx} : w \in Seq(Letras)
    BY PersistenciaAssumption
  <2>2. \A w \in Seq(Letras) : w \in Seq(DeCampo)
    BY DEF DeCampo
  <2> QED BY <1>1, <2>1, <2>2
<1>7. k \in Seq(DeCampo)
  BY SinSep DEF Legible
<1>8. ASSUME NEW i \in 1 .. l PROVE q[i] \in Seq(DeCampo)
  <2>1. DOMAIN q = 1 .. l /\ q[i] \in Palabras
    BY <1>2, <1>4
  <2>2. q[i] \in Elementos(x)
    BY <1>1, <2>1 DEF DeDato
  <2>3. \A j \in DOMAIN q[i] : q[i][j] # Sep
    BY <2>2 DEF Legible
  <2> QED BY <2>1, <2>3, SinSep
<1>9. n # SinVida => Decimal(n) \in Seq(DeCampo)
  <2>1. SUFFICES ASSUME n # SinVida PROVE Decimal(n) \in Seq(DeCampo)
    OBVIOUS
  <2>2. Decimal(n) \in Seq(Digitos)
    BY <1>5, <2>1, NumeroDecimal
  <2> QED BY <2>2, Marcas
<1>10. ASSUME NEW i \in 1 .. m PROVE c[i] \in Seq(DeCampo)
  <2>1. CASE i = 1
    BY <1>5, <1>6, <2>1
  <2>2. CASE i = 2
    BY <1>5, <1>7, <2>2
  <2>3. CASE i \in 3 .. 2 + l
    <3>1. i - 2 \in 1 .. l /\ 2 + (i - 2) = i
      BY <1>5, <2>3
    <3>2. c[i] = q[i - 2]
      BY <1>5, <3>1
    <3> QED BY <1>8, <3>1, <3>2
  <2>4. CASE n # SinVida /\ i = 2 + l + 1
    BY <1>5, <1>6, <2>4
  <2>5. CASE n # SinVida /\ i = 2 + l + 2
    BY <1>5, <1>9, <2>5
  <2>6. i = 1 \/ i = 2 \/ i \in 3 .. 2 + l \/ (n # SinVida /\ (i = 2 + l + 1 \/ i = 2 + l + 2))
    BY <1>5
  <2> QED BY <2>1, <2>2, <2>3, <2>4, <2>5, <2>6
<1>11. c \in Seq(Seq(DeCampo))
  BY <1>4, <1>5, <1>10
<1>12. m >= 1
  BY <1>5
<1> QED BY <1>4, <1>11, <1>12

(* The line of k, read, puts k in the table.                               *)
LEMMA UnaLineaMas ==
  ASSUME NEW G, NEW tu, TablaBuena(G, tu), CopiaLegible(G), NEW k, NEW cs, LineaDe(k, cs, G),
         NEW f \in Seq(Bytes), NEW p \in Nat, Dicho(f, p, Texto(cs)), NEW t,
         NEW K, k \notin K, Repuesta(Leyendo(f, t)[p], G, K)
  PROVE  Repuesta(TerminarLinea(Leyendo(f, t)[p + Len(Texto(cs))], t), G, K \cup {k})
<1>1. PICK R : Leyendo(f, t)[p] = Lectura(R, "lee") /\ Recuperada(R, G, K)
  BY DEF Repuesta
<1>2. CASE k \in DOMAIN G
  <2>1. PICK x, n : x = G[k].valor /\ n = G[k].vida
    OBVIOUS
  <2>2. k \in Palabras /\ DatoBueno(x) /\ n \in Vidas /\ Legible(k, x)
    BY <1>2, <2>1 DEF TablaBuena, TablaDePalabras, CopiaLegible
  <2>3. cs \in Lineas(k, x, Vencimiento(n))
    BY <1>2, <2>1 DEF LineaDe
  <2>4. cs \in Seq(Seq(DeCampo)) /\ cs # <<>>
    BY <2>2, <2>3, CamposSinSep
  <2>5. Len(f) \in Nat
    OBVIOUS
  <2>6. PICK C, c : Leyendo(f, t)[p + Len(Texto(cs))] = Leido(R, C, c, "lee") /\ Append(C, c) = cs
    BY <1>1, <2>4, <2>5, TextoLeido
  <2>7. Devuelve(Leido(R, C, c, "lee"), t, R, k, x, n)
    BY <2>2, <2>3, <2>6, LineaDevuelta
  <2>8. PICK v : /\ TerminarLinea(Leido(R, C, c, "lee"), t) = Lectura(Poner(R, k, v), "lee")
                 /\ v.valor = Vuelve(x, n) /\ v.vida = n
    BY <2>7 DEF Devuelve
  <2>9. Recuperada(Poner(R, k, v), G, K \cup {k})
    BY <1>1, <1>2, <2>1, <2>8 DEF Recuperada, Poner
  <2> QED BY <2>6, <2>8, <2>9 DEF Repuesta
<1>3. CASE k \notin DOMAIN G
  <2>1. cs = <<>>
    BY <1>3 DEF LineaDe
  <2>2. Len(Texto(cs)) = 0
    BY <2>1, TextoDeBytes
  <2>3. p + Len(Texto(cs)) = p
    BY <2>2
  <2>4. TerminarLinea(Lectura(R, "lee"), t) = Lectura(R, "lee")
    BY LineaVacia
  <2>5. Recuperada(R, G, K \cup {k})
    BY <1>1, <1>3 DEF Recuperada
  <2> QED BY <1>1, <2>3, <2>4, <2>5 DEF Repuesta
<1> QED BY <1>2, <1>3

(* A save under way: the file, as far as it has been written, is read back *)
(* as the keys written so far.                                             *)
Fielmente(p, d) ==
  \A t : LET h == Leyendo(d[p.archivo], t)[p.pos]
             K == DOMAIN p.lineas \ p.faltan
         IN  /\ p.paso = "texto" => Repuesta(h, p.copia, K)
             /\ p.paso = "fin" => Repuesta(TerminarLinea(h, t), p.copia, K)

Guardada == {"tabla", "ruta", "sobra"}

Fieles ==
  /\ Guardada \subseteq DOMAIN guardada
  /\ pers.paso \in {"texto", "fin"} =>
       guardada.sobra = Incompleta /\ (CopiaLegible(pers.copia) => Fielmente(pers, disco))
  /\ guardada.sobra = 0 /\ CopiaLegible(guardada.tabla) =>
       \A t : Repuesta(LevantarTabla(disco[guardada.ruta], t), guardada.tabla, DOMAIN guardada.tabla)

(* Steps that leave the file, the thread and the last save alone.          *)
LEMMA FielesAjenos ==
  ASSUME Fieles, UNCHANGED <<disco, pers, guardada>>
  PROVE  Fieles'
BY DEF Fieles

(* Steps after which the thread is not saving.                             *)
LEMMA FielesEnReposo ==
  ASSUME Fieles, UNCHANGED disco, pers'.paso \notin {"texto", "fin"} \/ UNCHANGED pers,
         Guardada \subseteq DOMAIN guardada', guardada'.tabla = guardada.tabla,
         guardada'.ruta = guardada.ruta, guardada'.sobra = guardada.sobra
  PROVE  Fieles'
BY DEF Fieles

(* A save starts at the start of the file, with nothing read yet.          *)
LEMMA RecibirFiel ==
  ASSUME Archivos, Fieles, Recibir
  PROVE  Fieles'
<1> DEFINE m == Head(cola)
<1>1. /\ pers.paso = "esperar" /\ UNCHANGED disco
      /\ "archivo" \in DOMAIN pers /\ pers.archivo \in Rutas /\ Guardada \subseteq DOMAIN guardada
  BY DEF Recibir, Archivos, HiloBueno, Fieles
<1>2. CASE m.msg = "archivo" /\ pers' = [pers EXCEPT !.archivo = m.ruta] /\ UNCHANGED guardada
  <2>1. pers'.paso = "esperar"
    BY <1>1, <1>2
  <2> QED BY <1>1, <1>2, <2>1, FielesEnReposo
<1>3. CASE UNCHANGED <<pers, guardada>>
  BY <1>1, <1>3, FielesAjenos
<1>4. CASE pers' = [paso |-> "muerto"] /\ UNCHANGED guardada
  <2>1. pers'.paso = "muerto"
    BY <1>4
  <2> QED BY <1>1, <1>4, <2>1, FielesEnReposo
<1>5. CASE /\ m.msg = "info" /\ pers' = Guardando(pers, m.tabla, ahora)
           /\ guardada' = [guardada EXCEPT !.sobra = Incompleta]
  <2>1. PICK T, G : T = m.tabla /\ G = Visible(T, ahora)
    OBVIOUS
  <2>2. /\ pers'.paso = "texto" /\ pers'.archivo = pers.archivo /\ pers'.pos = 0
        /\ pers'.faltan = DOMAIN T /\ DOMAIN pers'.lineas = DOMAIN T /\ pers'.copia = G
    BY <1>5, <2>1 DEF Guardando
  <2>3. \A t : Leyendo(disco[pers.archivo], t)[0] = Lectura(SinClaves, "lee")
    <3>1. Len(disco[pers.archivo]) \in Nat
      BY <1>1 DEF Archivos
    <3> QED BY <3>1, UnByteMas DEF Principio
  <2>4. Repuesta(Lectura(SinClaves, "lee"), G, {})
    <3>1. Recuperada(SinClaves, G, {})
      BY DEF Recuperada, SinClaves
    <3> QED BY <3>1 DEF Repuesta
  <2>5. DOMAIN pers'.lineas \ pers'.faltan = {}
    BY <2>2
  <2>6. Fielmente(pers', disco)
    BY <2>2, <2>3, <2>4, <2>5 DEF Fielmente
  <2>7. Guardada \subseteq DOMAIN guardada' /\ guardada'.sobra = Incompleta /\ Incompleta # 0
    BY <1>1, <1>5 DEF Incompleta, Guardada
  <2> QED BY <1>1, <2>2, <2>6, <2>7 DEF Fieles
<1> QED BY <1>2, <1>3, <1>4, <1>5 DEF Recibir, Descartar

(* The text of a line, once its end is read.                               *)
LEMMA EscribirTextoFiel ==
  ASSUME Archivos, Fieles, EscribirTexto
  PROVE  Fieles'
<1>0. /\ pers.paso = "texto" /\ UNCHANGED guardada /\ guardada.sobra = Incompleta
      /\ CopiaLegible(pers.copia) => Fielmente(pers, disco)
      /\ Guardada \subseteq DOMAIN guardada
  BY DEF EscribirTexto, historia, Fieles
<1>1. PICK k \in pers.faltan : \E cs \in pers.lineas[k] :
         /\ disco' = [disco EXCEPT ![pers.archivo] = Pisar(@, pers.pos, Texto(cs))]
         /\ pers' = [pers EXCEPT !.paso = "fin", !.faltan = @ \ {k}, !.pos = @ + Len(Texto(cs))]
  BY DEF EscribirTexto
<1>2. PICK cs \in pers.lineas[k] :
         /\ disco' = [disco EXCEPT ![pers.archivo] = Pisar(@, pers.pos, Texto(cs))]
         /\ pers' = [pers EXCEPT !.paso = "fin", !.faltan = @ \ {k}, !.pos = @ + Len(Texto(cs))]
  BY <1>1
<1>3. PICK f, p, G, tu : f = disco[pers.archivo] /\ p = pers.pos /\ G = pers.copia /\ tu = tuvo
  OBVIOUS
<1>4. /\ f \in Seq(Bytes) /\ p \in 0 .. Len(f) /\ Campos \subseteq DOMAIN pers
      /\ GuardandoBien(pers, disco, tuvo) /\ disco \in [Rutas -> Seq(Bytes)] /\ pers.archivo \in Rutas
  BY <1>0, <1>3, DondeEscribe
<1>5. TablaBuena(G, tu) /\ LineaDe(k, cs, G) /\ pers.faltan \subseteq DOMAIN pers.lineas
  BY <1>3, <1>4 DEF GuardandoBien
<1>6. PICK bs : bs = Texto(cs)
  OBVIOUS
<1>7. bs \in Seq(Bytes)
  BY <1>5, <1>6, TextoDeBytes
<1>8. PICK g : g = Pisar(f, p, bs)
  OBVIOUS
<1>9. disco'[pers.archivo] = g
  BY <1>2, <1>3, <1>4, <1>6, <1>8
<1>10. g \in Seq(Bytes) /\ p \in Nat /\ Dicho(g, p, Texto(cs))
  <2>1. g \in Seq(Bytes) /\ p + Len(bs) <= Len(g) /\ \A i \in 1 .. Len(bs) : g[p + i] = bs[i]
    BY <1>4, <1>7, <1>8, Pisado
  <2>2. Dicho(g, p, bs)
    BY <2>1 DEF Dicho
  <2> QED BY <1>4, <1>6, <2>1, <2>2
<1>11. /\ pers'.paso = "fin" /\ pers'.archivo = pers.archivo
       /\ pers'.lineas = pers.lineas /\ pers'.copia = G
       /\ pers'.faltan = pers.faltan \ {k} /\ pers'.pos = p + Len(Texto(cs))
  BY <1>2, <1>3, <1>4 DEF Campos
<1>12. PICK K : K = DOMAIN pers.lineas \ pers.faltan
  OBVIOUS
<1>13. k \notin K /\ DOMAIN pers'.lineas \ pers'.faltan = K \cup {k}
  BY <1>5, <1>11, <1>12
<1>14. ASSUME CopiaLegible(G), NEW t
       PROVE  Repuesta(TerminarLinea(Leyendo(g, t)[p + Len(Texto(cs))], t), G, K \cup {k})
  <2>1. Leyendo(g, t)[p] = Leyendo(f, t)[p]
    BY <1>4, <1>7, <1>8, LecturaPisada
  <2>2. Repuesta(Leyendo(f, t)[p], G, K)
    BY <1>0, <1>3, <1>12, <1>14 DEF Fielmente
  <2>3. Repuesta(Leyendo(g, t)[p], G, K)
    BY <2>1, <2>2
  <2> QED BY <1>5, <1>10, <1>13, <1>14, <2>3, UnaLineaMas
<1>15. CopiaLegible(G) => Fielmente(pers', disco')
  BY <1>9, <1>11, <1>13, <1>14 DEF Fielmente
<1>16. Incompleta # 0
  BY DEF Incompleta
<1> QED BY <1>0, <1>3, <1>11, <1>15, <1>16 DEF Fieles

(* The end of a line puts its key in the table.                            *)
LEMMA EscribirFinFiel ==
  ASSUME Archivos, Fieles, EscribirFin
  PROVE  Fieles'
<1>0. /\ pers.paso = "fin" /\ UNCHANGED guardada /\ guardada.sobra = Incompleta
      /\ CopiaLegible(pers.copia) => Fielmente(pers, disco)
      /\ Guardada \subseteq DOMAIN guardada
      /\ disco' = [disco EXCEPT ![pers.archivo] = Pisar(@, pers.pos, <<Nl>>)]
      /\ pers' = [pers EXCEPT !.paso = "texto", !.pos = @ + 1]
  BY DEF EscribirFin, historia, Fieles
<1>1. PICK f, p, G : f = disco[pers.archivo] /\ p = pers.pos /\ G = pers.copia
  OBVIOUS
<1>2. PICK K : K = DOMAIN pers.lineas \ pers.faltan
  OBVIOUS
<1>3. PICK n : n = <<Nl>>
  OBVIOUS
<1>4. n \in Seq(Bytes)
  BY <1>3, Marcas
<1>5. /\ f \in Seq(Bytes) /\ p \in 0 .. Len(f) /\ disco'[pers.archivo] = Pisar(f, p, n)
      /\ Campos \subseteq DOMAIN pers
  BY <1>0, <1>1, <1>3, DondeEscribe
<1>6. PICK g : g = Pisar(f, p, n)
  OBVIOUS
<1>7. g \in Seq(Bytes) /\ p + 1 \in 1 .. Len(g) /\ g[p + 1] = Nl /\ (p + 1) - 1 = p /\ Len(g) \in Nat
  <2>1. Len(n) = 1 /\ n[1] = Nl /\ 1 \in 1 .. Len(n)
    BY <1>3
  <2>2. g \in Seq(Bytes) /\ p + Len(n) <= Len(g) /\ \A i \in 1 .. Len(n) : g[p + i] = n[i]
    BY <1>4, <1>5, <1>6, Pisado
  <2>3. g[p + 1] = Nl
    BY <2>1, <2>2
  <2> QED BY <1>5, <2>1, <2>2, <2>3
<1>8. ASSUME NEW t PROVE Leyendo(g, t)[p + 1] = TerminarLinea(Leyendo(f, t)[p], t)
  <2>1. Leyendo(g, t)[p] = Leyendo(f, t)[p]
    BY <1>4, <1>5, <1>6, LecturaPisada
  <2>2. Leyendo(g, t)[p + 1] = Avanzar(Leyendo(g, t)[(p + 1) - 1], g[p + 1], t)
    BY <1>7, UnByteMas
  <2>3. Leyendo(g, t)[p + 1] = Avanzar(Leyendo(f, t)[p], Nl, t)
    BY <1>7, <2>1, <2>2
  <2> QED BY <2>3 DEF Avanzar
<1>9. /\ pers'.paso = "texto" /\ pers'.archivo = pers.archivo
      /\ pers'.lineas = pers.lineas /\ pers'.copia = G
      /\ pers'.faltan = pers.faltan /\ pers'.pos = p + 1
  BY <1>0, <1>1, <1>5 DEF Campos
<1>10. ASSUME CopiaLegible(G), NEW t PROVE Repuesta(Leyendo(g, t)[p + 1], G, K)
  <2>1. Repuesta(TerminarLinea(Leyendo(f, t)[p], t), G, K)
    BY <1>0, <1>1, <1>2, <1>10 DEF Fielmente
  <2> QED BY <1>8, <2>1
<1>11. CopiaLegible(G) => Fielmente(pers', disco')
  BY <1>2, <1>5, <1>6, <1>9, <1>10 DEF Fielmente
<1>12. Incompleta # 0
  BY DEF Incompleta
<1> QED BY <1>0, <1>1, <1>9, <1>11, <1>12 DEF Fieles

(* At the end of a save all keys have been written.                        *)
LEMMA TerminarFiel ==
  ASSUME Archivos, Fieles, TerminarDeGuardar
  PROVE  Fieles'
<1>1. /\ pers.paso = "texto" /\ pers.faltan = {} /\ disco' = disco
      /\ CopiaLegible(pers.copia) => Fielmente(pers, disco)
      /\ pers' = Esperando(pers.archivo, ahora)
      /\ guardada' = [tabla |-> pers.copia, ruta |-> pers.archivo, t |-> ahora,
                      sobra |-> Len(disco[pers.archivo]) - pers.pos]
  BY DEF TerminarDeGuardar, Fieles
<1>2. PICK f, p, G : f = disco[pers.archivo] /\ p = pers.pos /\ G = pers.copia
  OBVIOUS
<1>3. f \in Seq(Bytes) /\ p \in 0 .. Len(f) /\ DOMAIN G \subseteq DOMAIN pers.lineas
  BY <1>1, <1>2, DondeEscribe DEF GuardandoBien
<1>4. /\ pers'.paso = "esperar" /\ Guardada \subseteq DOMAIN guardada'
      /\ guardada'.tabla = G /\ guardada'.ruta = pers.archivo /\ guardada'.sobra = Len(f) - p
  BY <1>1, <1>2 DEF Esperando, Guardada
<1>5. ASSUME Len(f) - p = 0, CopiaLegible(G), NEW t
      PROVE  Repuesta(LevantarTabla(f, t), G, DOMAIN G)
  <2>1. Repuesta(Leyendo(f, t)[p], G, DOMAIN pers.lineas \ {})
    BY <1>1, <1>2, <1>5 DEF Fielmente
  <2>2. PICK R : Leyendo(f, t)[p] = Lectura(R, "lee") /\ Recuperada(R, G, DOMAIN pers.lineas \ {})
    BY <2>1 DEF Repuesta
  <2>3. p = Len(f)
    BY <1>3, <1>5
  <2>4. LevantarTabla(f, t) = Lectura(R, "lee")
    BY <2>2, <2>3, LineaVacia DEF LevantarTabla
  <2>5. Recuperada(R, G, DOMAIN G)
    BY <1>3, <2>2 DEF Recuperada
  <2> QED BY <2>4, <2>5 DEF Repuesta
<1>6. guardada'.sobra = 0 /\ CopiaLegible(guardada'.tabla) =>
        \A t : Repuesta(LevantarTabla(disco'[guardada'.ruta], t), guardada'.tabla,
                        DOMAIN guardada'.tabla)
  BY <1>1, <1>2, <1>4, <1>5
<1> QED BY <1>4, <1>6 DEF Fieles

(* Nothing else writes to a file.                                          *)
LEMMA FielesInductivo ==
  ASSUME Archivos, Fieles, [Next]_vars
  PROVE  Fieles'
<1>4. ASSUME NEW k \in Claves, Guardar(k) \/ CambiarVida(k) PROVE Fieles'
  BY <1>4, FielesAjenos DEF Guardar, CambiarVida, historia
<1>5. CASE CambiarArchivo \/ Tick \/ UNCHANGED vars
  BY <1>5, FielesAjenos DEF CambiarArchivo, Tick, vars, historia
<1>6. CASE Recibir
  BY <1>6, RecibirFiel
<1>7. CASE EscribirTexto
  BY <1>7, EscribirTextoFiel
<1>8. CASE EscribirFin
  BY <1>8, EscribirFinFiel
<1>9. CASE TerminarDeGuardar
  BY <1>9, TerminarFiel
<1>10. CASE Caer
  <2>1. pers'.paso = "muerto" /\ UNCHANGED <<disco, guardada>>
    BY <1>10 DEF Caer, historia
  <2>2. Guardada \subseteq DOMAIN guardada
    BY DEF Fieles
  <2> QED BY <2>1, <2>2, FielesEnReposo
<1>11. CASE Levantar
  <2>1. Guardada \subseteq DOMAIN guardada
    BY DEF Fieles
  <2>2. guardada' = [guardada EXCEPT !.t = ahora] /\ disco' = disco
    BY <1>11 DEF Levantar
  <2>3. /\ Guardada \subseteq DOMAIN guardada' /\ guardada'.tabla = guardada.tabla
        /\ guardada'.ruta = guardada.ruta /\ guardada'.sobra = guardada.sobra
    BY <2>1, <2>2 DEF Guardada
  <2>4. pers'.paso \notin {"texto", "fin"} \/ UNCHANGED pers
    BY <1>11 DEF Levantar, Esperando
  <2> QED BY <2>2, <2>3, <2>4, FielesEnReposo
<1> QED BY <1>4, <1>5, <1>6, <1>7, <1>8, <1>9, <1>10, <1>11 DEF Next, HiloPersistencia

(* A save that ended and left no byte over is read back, at any time and   *)
(* whatever happened since, as the copy that was saved: its keys and no    *)
(* others, with their whole lifetimes and the values as Vuelve says.  For  *)
(* any copy whose words can be told from the marks of the file.            *)
THEOREM RecargaSiempreFiel == Spec => []RecargaFiel
<1>1. Init => Archivos /\ Fieles
  <2> SUFFICES ASSUME Init PROVE Archivos /\ Fieles
    OBVIOUS
  <2>1. Archivos
    BY ArchivosAlEmpezar
  <2>2. ASSUME NEW t PROVE LevantarTabla(<<>>, t) = Lectura(SinClaves, "lee")
    <3>1. Len(<<>>) = 0 /\ Leyendo(<<>>, t)[0] = Lectura(SinClaves, "lee")
      BY UnByteMas DEF Principio
    <3> QED BY <3>1, LineaVacia DEF LevantarTabla
  <2>3. Recuperada(SinClaves, SinClaves, DOMAIN SinClaves)
    BY DEF Recuperada, SinClaves
  <2>4. /\ pers.paso = "esperar" /\ Guardada \subseteq DOMAIN guardada
        /\ guardada.tabla = SinClaves /\ guardada.ruta = RutaInicial
        /\ disco[RutaInicial] = <<>>
    BY PersistenciaAssumption DEF Init, Esperando, Guardada
  <2>5. \A t : Repuesta(LevantarTabla(disco[RutaInicial], t), SinClaves, DOMAIN SinClaves)
    BY <2>2, <2>3, <2>4 DEF Repuesta
  <2> QED BY <2>1, <2>4, <2>5 DEF Fieles
<1>2. Archivos /\ Fieles /\ [Next]_vars => (Archivos /\ Fieles)'
  BY ArchivosInductivo, FielesInductivo
<1>3. Archivos /\ Fieles => RecargaFiel
  <2> SUFFICES ASSUME Fieles, guardada.sobra = 0, CopiaLegible(guardada.tabla) PROVE RecargaFiel
    BY DEF RecargaFiel, CopiaLegible
  <2>1. PICK h, G : h = LevantarTabla(disco[guardada.ruta], ahora) /\ G = guardada.tabla
    OBVIOUS
  <2>2. PICK R : h = Lectura(R, "lee") /\ Recuperada(R, G, DOMAIN G)
    BY <2>1 DEF Fieles, Repuesta
  <2>3. h.estado = "lee" /\ h.tabla = R
    BY <2>2 DEF Lectura
  <2> QED BY <2>1, <2>2, <2>3 DEF RecargaFiel, Recuperada
<1> QED BY <1>1, <1>2, <1>3, PTL DEF Spec

-----------------------------------------------------------------------------
(* What is left of older lines.                                            *)

Cortables(tu) == \A p \in tu : LegibleCortado(p[1], p[2])

(* The line of a value that was stored, with some lifetime.                *)
Renglon(b, tu) == \E p \in tu : \E n \in Vidas :
                    \E cs \in Lineas(p[1], p[2], Vencimiento(n)) : b = Texto(cs)

(* A tag is the first of the fields and no other field ends in one.        *)
Encabezada(cs) == /\ cs \in Seq(Seq(DeCampo)) /\ cs # <<>> /\ cs[1] \in Etiquetas
                  /\ \A i \in 2 .. Len(cs) : \A w \in Etiquetas : ~TerminaEn(cs[i], w)

Buena(b, tu, k, x, n, cs) ==
  /\ <<k, x>> \in tu /\ k \in Palabras /\ DatoBueno(x) /\ Legible(k, x) /\ n \in Vidas
  /\ cs \in Lineas(k, x, Vencimiento(n)) /\ b = Texto(cs) /\ Encabezada(cs)

(* A number is none of the tags, nor does it end in one.                   *)
LEMMA DecimalNoTermina ==
  ASSUME NEW n \in Nat, NEW w \in Etiquetas
  PROVE  ~TerminaEn(Decimal(n), w)
<1>1. PICK s : s = Decimal(n)
  OBVIOUS
<1>2. s \in Seq(Digitos)
  BY <1>1, NumeroDecimal
<1>3. w \in Seq(Letras) /\ w # <<>> /\ Letras \cap Digitos = {}
  BY PersistenciaAssumption
<1>4. PICK N \in Nat, M \in Nat : N = Len(s) /\ M = Len(w) /\ M >= 1
  BY <1>2, <1>3
<1>5. SUFFICES ASSUME M <= N, \A i \in 1 .. M : s[N - M + i] = w[i] PROVE FALSE
  BY <1>1, <1>4 DEF TerminaEn
<1>6. N - M + M = N /\ N \in 1 .. N /\ M \in 1 .. M
  BY <1>4, <1>5
<1>7. s[N] = w[M]
  BY <1>5, <1>6
<1>8. s[N] \in Digitos /\ w[M] \in Letras
  BY <1>2, <1>3, <1>4, <1>6
<1> QED BY <1>3, <1>7, <1>8

(* Such is the line of any value whose words can be cut.                   *)
LEMMA LineaBuena ==
  ASSUME NEW tu, TuvoBueno(tu), Cortables(tu), NEW b, Renglon(b, tu)
  PROVE  \E k, x, n, cs : Buena(b, tu, k, x, n, cs)
<1>1. PICK p \in tu, n \in Vidas : \E cs \in Lineas(p[1], p[2], Vencimiento(n)) : b = Texto(cs)
  BY DEF Renglon
<1>2. PICK k \in Palabras : \E x : p = <<k, x>> /\ DatoBueno(x)
  BY DEF TuvoBueno
<1>3. PICK x : p = <<k, x>> /\ DatoBueno(x)
  BY <1>2
<1>4. p[1] = k /\ p[2] = x
  BY <1>3
<1>5. PICK z : z = Vencimiento(n)
  OBVIOUS
<1>6. PICK c \in Lineas(k, x, z) : b = Texto(c)
  BY <1>1, <1>4, <1>5
<1>7. LegibleCortado(k, x)
  BY <1>4 DEF Cortables
<1>8. Legible(k, x) /\ \A s \in {k} \cup Elementos(x) : \A w \in Etiquetas : ~TerminaEn(s, w)
  BY <1>7 DEF LegibleCortado
<1>9. c \in Seq(Seq(DeCampo)) /\ c # <<>>
  BY <1>3, <1>5, <1>6, <1>8, CamposSinSep
<1>10. PICK e, q : e \in Etiquetas /\ EnTres(c, e, k, q, z) /\ DeDato(x, e, q)
  BY <1>3, <1>6, LineaEnTres
<1>11. q \in Seq(Palabras)
  BY <1>10 DEF DeDato
<1>12. Partes(c, e, k, q, n)
  BY <1>5, <1>10, <1>11, LineaPorPartes
<1>13. PICK l, m : l = Len(q) /\ m = Len(c)
  OBVIOUS
<1>14. /\ l \in Nat /\ m \in Nat /\ m = 2 + l + IF n = SinVida THEN 0 ELSE 2
       /\ c[1] = e /\ c[2] = k
       /\ \A i \in 1 .. l : c[2 + i] = q[i]
       /\ n # SinVida => n \in Nat /\ c[2 + l + 1] = MarcaEx /\ c[2 + l + 2] = Decimal(n)
  BY <1>11, <1>12, <1>13 DEF Partes
<1>15. ASSUME NEW i \in 2 .. m, NEW w \in Etiquetas PROVE ~TerminaEn(c[i], w)
  <2>2. CASE i = 2
    BY <1>8, <1>14, <2>2
  <2>3. CASE i \in 3 .. 2 + l
    <3>1. i - 2 \in 1 .. l /\ 2 + (i - 2) = i
      BY <1>14, <2>3
    <3>2. c[i] = q[i - 2]
      BY <1>14, <3>1
    <3>3. i - 2 \in DOMAIN q
      BY <1>11, <1>13, <3>1
    <3>4. q[i - 2] \in Elementos(x)
      BY <1>10, <3>3 DEF DeDato
    <3> QED BY <1>8, <3>2, <3>4
  <2>4. CASE n # SinVida /\ i = 2 + l + 1
    <3>1. c[i] = MarcaEx
      BY <1>14, <2>4
    <3>2. MarcaEx # w
      BY PersistenciaAssumption
    <3> QED BY <3>1, <3>2, PersistenciaAssumption
  <2>5. CASE n # SinVida /\ i = 2 + l + 2
    BY <1>14, <2>5, DecimalNoTermina
  <2>6. i = 2 \/ i \in 3 .. 2 + l \/ (n # SinVida /\ (i = 2 + l + 1 \/ i = 2 + l + 2))
    BY <1>14
  <2> QED BY <2>2, <2>3, <2>4, <2>5, <2>6
<1>16. Encabezada(c)
  BY <1>9, <1>10, <1>13, <1>14, <1>15 DEF Encabezada
<1>17. Buena(b, tu, k, x, n, c)
  BY <1>2, <1>3, <1>5, <1>6, <1>8, <1>16 DEF Buena
<1> QED BY <1>17

-----------------------------------------------------------------------------
(* A field ends, a line starts, a line ends at i.                          *)
Cierra(f, i) == i = Len(f) \/ f[i + 1] \in {Sep, Nl}
Inicio(f, i) == i = 0 \/ f[i] = Nl
Fin(f, i) == i = Len(f) \/ f[i + 1] = Nl

(* A tag inside a field, if it ends with it, is the end of the field.      *)
LEMMA EtiquetaAlFinal ==
  ASSUME NEW s \in Seq(DeCampo), NEW w \in Etiquetas, NEW j \in Nat, Dicho(s, j, w),
         Cierra(s, j + Len(w))
  PROVE  j + Len(w) = Len(s) /\ TerminaEn(s, w)
<1>1. w \in Seq(Letras)
  BY PersistenciaAssumption
<1>2. PICK N \in Nat, M \in Nat : N = Len(s) /\ M = Len(w)
  BY <1>1
<1>3. j + M <= N /\ \A i \in 1 .. M : s[j + i] = w[i]
  BY <1>2 DEF Dicho
<1>4. j + M = N
  <2>1. SUFFICES ASSUME j + M # N PROVE FALSE
    OBVIOUS
  <2>2. j + M + 1 \in 1 .. N
    BY <1>3, <2>1
  <2>3. s[j + M + 1] \in DeCampo
    BY <1>2, <2>2
  <2>4. s[j + M + 1] \in {Sep, Nl}
    BY <1>2, <2>1 DEF Cierra
  <2> QED BY <2>3, <2>4, Marcas
<1>5. N - M = j
  BY <1>4
<1> QED BY <1>2, <1>3, <1>4, <1>5 DEF TerminaEn

(* In a line with its tag in front a tag is found nowhere else.            *)
LEMMA EtiquetaAdelante ==
  ASSUME NEW cs, Encabezada(cs), NEW w \in Etiquetas, NEW j \in Nat, Dicho(Texto(cs), j, w),
         Cierra(Texto(cs), j + Len(w))
  PROVE  j = 0
<1> DEFINE A == DeCampo \cup {Sep}
<1>1. cs \in Seq(Seq(DeCampo)) /\ cs # <<>> /\ cs[1] \in Etiquetas
  BY DEF Encabezada
<1>2. PICK N \in Nat : N = Len(cs) /\ N >= 1
  BY <1>1
<1>3. \A i \in 1 .. N : cs[i] \in Seq(DeCampo)
  BY <1>1, <1>2
<1>4. \A i \in 2 .. N : ~TerminaEn(cs[i], w)
  BY <1>2 DEF Encabezada
<1>5. cs \in Seq(Seq(A)) /\ Sep \in A
  <2>1. \A i \in 1 .. N : cs[i] \in Seq(A)
    BY <1>3
  <2> QED BY <1>1, <1>2, <2>1
<1>6. PICK u : Texto(cs) = u[N] /\ Crecen(u, cs, A, N)
  BY <1>2, <1>5, TextoPorPartes
<1>7. w \in Seq(Letras) /\ Letras \subseteq DeCampo
  BY PersistenciaAssumption DEF DeCampo
<1>8. PICK M \in Nat : M = Len(w)
  BY <1>7
<1> DEFINE Adelante(n) == \A i \in Nat : Dicho(u[n], i, w) /\ Cierra(u[n], i + M) => i = 0
           S == {n \in 0 .. N - 1 : Adelante(n + 1)}
<1>9. Adelante(1)
  <2> SUFFICES ASSUME NEW i \in Nat, Dicho(u[1], i, w), Cierra(u[1], i + M) PROVE i = 0
    OBVIOUS
  <2>1. u[1] = cs[1] /\ cs[1] \in Seq(DeCampo)
    BY <1>2, <1>3, <1>6 DEF Crecen
  <2>2. i + M = Len(cs[1]) /\ TerminaEn(cs[1], w)
    BY <1>8, <2>1, EtiquetaAlFinal
  <2>3. cs[1] = w
    BY <1>1, <2>2, PersistenciaAssumption
  <2> QED BY <1>8, <2>2, <2>3
<1>10. ASSUME NEW n \in 1 .. N - 1, Adelante(n) PROVE Adelante(n + 1)
  <2> SUFFICES ASSUME NEW i \in Nat, Dicho(u[n + 1], i, w), Cierra(u[n + 1], i + M) PROVE i = 0
    OBVIOUS
  <2>1. PICK a, c, g : a = u[n] /\ c = cs[n + 1] /\ g = u[n + 1]
    OBVIOUS
  <2>2. /\ a \in Seq(A) /\ g \in Seq(A) /\ c \in Seq(DeCampo) /\ ~TerminaEn(c, w)
    <3>1. n \in 0 .. N /\ n + 1 \in 0 .. N /\ n + 1 \in 1 .. N /\ n + 1 \in 2 .. N
      OBVIOUS
    <3> QED BY <1>3, <1>4, <1>6, <2>1, <3>1 DEF Crecen
  <2>3. PICK L \in Nat, P \in Nat : L = Len(a) /\ P = Len(c)
    BY <2>2
  <2>4. /\ Len(g) = L + 1 + P /\ g[L + 1] = Sep
        /\ \A h \in 1 .. L : g[h] = a[h]
        /\ \A h \in 1 .. P : g[L + 1 + h] = c[h]
    BY <1>6, <2>1, <2>3 DEF Crecen
  <2>5. i + M <= L + 1 + P /\ \A h \in 1 .. M : g[i + h] = w[h]
    BY <1>8, <2>1, <2>4 DEF Dicho
  <2>6. i + M = L + 1 + P \/ g[i + M + 1] \in {Sep, Nl}
    BY <2>1, <2>4 DEF Cierra
  <2>7. CASE i + M <= L
    <3>1. \A h \in 1 .. M : a[i + h] = w[h]
      <4>1. ASSUME NEW h \in 1 .. M PROVE a[i + h] = w[h]
        <5>1. i + h \in 1 .. L
          BY <2>7
        <5> QED BY <2>4, <2>5, <5>1
      <4> QED BY <4>1
    <3>2. Dicho(a, i, w)
      BY <1>8, <2>3, <2>7, <3>1 DEF Dicho
    <3>3. i + M = L \/ a[i + M + 1] \in {Sep, Nl}
      <4>1. SUFFICES ASSUME i + M # L PROVE a[i + M + 1] \in {Sep, Nl}
        OBVIOUS
      <4>2. i + M + 1 \in 1 .. L /\ i + M # L + 1 + P
        BY <2>7, <4>1
      <4> QED BY <2>4, <2>6, <4>2
    <3>4. Cierra(a, i + M)
      BY <2>3, <3>3 DEF Cierra
    <3> QED BY <1>10, <2>1, <3>2, <3>4
  <2>8. CASE i <= L /\ L < i + M
    <3>1. L + 1 - i \in 1 .. M /\ i + (L + 1 - i) = L + 1
      BY <2>8
    <3>2. g[L + 1] = w[L + 1 - i]
      BY <2>5, <3>1
    <3>3. w[L + 1 - i] \in Letras
      BY <1>7, <1>8, <3>1
    <3> QED BY <1>7, <2>4, <3>2, <3>3, Marcas
  <2>9. CASE i > L
    <3>1. PICK o \in Nat : i = L + 1 + o
      <4>1. i - (L + 1) \in Nat /\ i = L + 1 + (i - (L + 1))
        BY <2>9
      <4> QED BY <4>1
    <3>2. o + M <= P
      BY <2>5, <3>1
    <3>3. ASSUME NEW h \in 1 .. M PROVE c[o + h] = w[h]
      <4>1. o + h \in 1 .. P /\ L + 1 + (o + h) = i + h
        BY <3>1, <3>2
      <4> QED BY <2>4, <2>5, <4>1
    <3>4. Dicho(c, o, w)
      BY <1>8, <2>3, <3>2, <3>3 DEF Dicho
    <3>5. o + M = P \/ c[o + M + 1] \in {Sep, Nl}
      <4>1. SUFFICES ASSUME o + M # P PROVE c[o + M + 1] \in {Sep, Nl}
        OBVIOUS
      <4>2. o + M + 1 \in 1 .. P /\ L + 1 + (o + M + 1) = i + M + 1 /\ i + M # L + 1 + P
        BY <3>1, <3>2, <4>1
      <4>3. g[i + M + 1] = c[o + M + 1]
        BY <2>4, <4>2
      <4> QED BY <2>6, <4>2, <4>3
    <3>6. Cierra(c, o + M)
      BY <2>3, <3>5 DEF Cierra
    <3> QED BY <1>8, <2>2, <3>4, <3>6, EtiquetaAlFinal
  <2> QED BY <2>3, <2>7, <2>8, <2>9
<1>11. \A n \in 0 .. N - 1 : n \in S
  <2>1. 0 \in S
    BY <1>2, <1>9
  <2>2. \A n \in 0 .. (N - 1) - 1 : n \in S => n + 1 \in S
    <3>1. ASSUME NEW n \in 0 .. (N - 1) - 1, Adelante(n + 1) PROVE Adelante((n + 1) + 1)
      <4> HIDE DEF Adelante
      <4>1. n + 1 \in 1 .. N - 1
        BY <1>2
      <4> QED BY <1>10, <3>1, <4>1
    <3> HIDE DEF Adelante
    <3> QED BY <1>2, <3>1
  <2>3. N - 1 \in Nat
    BY <1>2
  <2> HIDE DEF S
  <2> QED BY <2>1, <2>2, <2>3, HastaElFinal
<1>12. Adelante(N)
  <2> HIDE DEF Adelante
  <2>1. N - 1 \in 0 .. N - 1 /\ (N - 1) + 1 = N
    BY <1>2
  <2> QED BY <1>11, <2>1
<1> QED BY <1>6, <1>8, <1>12

(* The bytes of a line hold no end of line.                                *)
LEMMA LineaSinFin ==
  ASSUME NEW cs, Encabezada(cs)
  PROVE  Texto(cs) \in Seq(DeCampo \cup {Sep}) /\ \A i \in 1 .. Len(Texto(cs)) : Texto(cs)[i] # Nl
<1> DEFINE A == DeCampo \cup {Sep}
<1>1. cs \in Seq(Seq(DeCampo))
  BY DEF Encabezada
<1>2. PICK N \in Nat : N = Len(cs)
  BY <1>1
<1>3. \A i \in 1 .. N : cs[i] \in Seq(DeCampo)
  BY <1>1, <1>2
<1>4. \A i \in 1 .. N : cs[i] \in Seq(A)
  BY <1>3
<1>5. cs \in Seq(Seq(A)) /\ Sep \in A
  BY <1>1, <1>2, <1>4
<1>6. PICK b : b = Texto(cs)
  OBVIOUS
<1>7. b \in Seq(A)
  BY <1>5, <1>6, TextoTipo
<1>8. ASSUME NEW i \in 1 .. Len(b) PROVE b[i] # Nl
  <2>1. b[i] \in A
    BY <1>7
  <2> QED BY <2>1, Marcas
<1> QED BY <1>6, <1>7, <1>8

-----------------------------------------------------------------------------
(* A file whose tags are all at the start of the line of a stored value.   *)
(* Where a later line was written over an older one and is shorter, what   *)
(* is left of the older one has no tag.                                    *)

Entera(f, i, tu) == \E b : Renglon(b, tu) /\ Dicho(f, i, b) /\ Fin(f, i + Len(b))

Sano(f, tu) ==
  \A w \in Etiquetas : \A i \in Nat :
    Dicho(f, i, w) /\ Cierra(f, i + Len(w)) => Inicio(f, i) /\ Entera(f, i, tu)

(* What is stored later does not undo it.                                  *)
LEMMA SanoCrece ==
  ASSUME NEW tu, NEW tv, tu \subseteq tv, NEW f, Sano(f, tu)
  PROVE  Sano(f, tv)
BY DEF Sano, Entera, Renglon

(* The letters of a tag.                                                   *)
LEMMA Letrada ==
  ASSUME NEW w \in Etiquetas
  PROVE  /\ Len(w) \in Nat /\ Len(w) >= 1
         /\ \A i \in 1 .. Len(w) : w[i] # Sep /\ w[i] # Nl
<1>1. w \in Seq(Letras) /\ w # <<>>
  BY PersistenciaAssumption
<1>2. \A i \in 1 .. Len(w) : w[i] \in Letras
  BY <1>1
<1>3. \A i \in 1 .. Len(w) : w[i] # Sep /\ w[i] # Nl
  BY <1>2, Marcas
<1> QED BY <1>1, <1>3

(* What starts before an end of line and has none ends before it.          *)
LEMMA NoPasa ==
  ASSUME NEW f, NEW i \in Nat, NEW b, Len(b) \in Nat, Dicho(f, i, b),
         \A h \in 1 .. Len(b) : b[h] # Nl, NEW p \in Nat, i < p, f[p] = Nl
  PROVE  i + Len(b) < p
<1> SUFFICES ASSUME p <= i + Len(b) PROVE FALSE
  OBVIOUS
<1>1. p - i \in 1 .. Len(b) /\ i + (p - i) = p
  OBVIOUS
<1>2. f[p] = b[p - i]
  BY <1>1 DEF Dicho
<1> QED BY <1>1, <1>2

(* g is f with the line b, or an empty one, written at p.                  *)
Escrita(f, g, p, b) ==
  /\ Inicio(f, p) /\ Dicho(g, p, b) /\ Fin(g, p + Len(b))
  /\ \A i \in 1 .. p : g[i] = f[i]
  /\ Len(g) > p + Len(b) + 1 => Len(g) = Len(f)
  /\ \A i \in p + Len(b) + 2 .. Len(g) : g[i] = f[i]

(* The file stays sound.                                                   *)
LEMMA SanoEscrita ==
  ASSUME NEW tu, TuvoBueno(tu), Cortables(tu), NEW f \in Seq(Bytes), NEW g \in Seq(Bytes),
         Sano(f, tu), NEW p \in 0 .. Len(f), NEW b, Renglon(b, tu) \/ b = <<>>, Escrita(f, g, p, b)
  PROVE  Sano(g, tu)
<1> SUFFICES ASSUME NEW w \in Etiquetas, NEW i \in Nat, Dicho(g, i, w), Cierra(g, i + Len(w))
             PROVE  Inicio(g, i) /\ Entera(g, i, tu)
  BY DEF Sano
<1>1. PICK W \in Nat : W = Len(w) /\ W >= 1
  BY Letrada
<1>2. \A h \in 1 .. W : w[h] # Sep /\ w[h] # Nl
  BY <1>1, Letrada
<1>3. PICK F \in Nat, G \in Nat : F = Len(f) /\ G = Len(g)
  OBVIOUS
<1>4. Len(b) \in Nat
  <2>1. CASE b = <<>>
    BY <2>1
  <2>2. CASE Renglon(b, tu)
    <3>1. PICK k, x, n, cs : Buena(b, tu, k, x, n, cs)
      BY <2>2, LineaBuena
    <3>2. b \in Seq(DeCampo \cup {Sep})
      BY <3>1, LineaSinFin DEF Buena
    <3> QED BY <3>2
  <2> QED BY <2>1, <2>2
<1>5. PICK B \in Nat : B = Len(b)
  BY <1>4
<1>6. PICK c \in Nat : c = p + B
  BY <1>3
<1>7. /\ p \in Nat /\ p <= F /\ p <= c /\ c <= G
      /\ p = 0 \/ f[p] = Nl
      /\ \A h \in 1 .. B : g[p + h] = b[h]
      /\ c = G \/ g[c + 1] = Nl
      /\ \A h \in 1 .. p : g[h] = f[h]
      /\ G > c + 1 => G = F
      /\ \A h \in c + 2 .. G : g[h] = f[h]
  BY <1>3, <1>5, <1>6 DEF Escrita, Inicio, Dicho, Fin
<1>8. i + W <= G /\ (\A h \in 1 .. W : g[i + h] = w[h]) /\ (i + W = G \/ g[i + W + 1] \in {Sep, Nl})
  BY <1>1, <1>3 DEF Dicho, Cierra
<1>9. CASE i >= c + 1
  <2>1. G = F /\ i + W >= c + 2
    BY <1>1, <1>7, <1>8, <1>9
  <2>2. ASSUME NEW h \in 1 .. W PROVE f[i + h] = w[h]
    <3>1. i + h \in c + 2 .. G
      BY <1>8, <1>9
    <3> QED BY <1>7, <1>8, <3>1
  <2>3. i + W = F \/ f[i + W + 1] \in {Sep, Nl}
    <3>1. SUFFICES ASSUME i + W # F PROVE f[i + W + 1] \in {Sep, Nl}
      OBVIOUS
    <3>2. i + W + 1 \in c + 2 .. G
      BY <1>8, <2>1, <3>1
    <3> QED BY <1>7, <1>8, <2>1, <3>1, <3>2
  <2>4. Dicho(f, i, w) /\ Cierra(f, i + Len(w))
    BY <1>1, <1>3, <1>8, <2>1, <2>2, <2>3 DEF Dicho, Cierra
  <2>5. Inicio(f, i) /\ Entera(f, i, tu)
    BY <2>4 DEF Sano
  <2>6. Inicio(g, i)
    <3>1. CASE i = c + 1
      BY <1>7, <1>8, <3>1, <1>1 DEF Inicio
    <3>2. CASE i >= c + 2
      <4>1. i \in c + 2 .. G /\ i # 0
        BY <1>8, <3>2
      <4> QED BY <1>7, <2>5, <4>1 DEF Inicio
    <3> QED BY <1>9, <3>1, <3>2
  <2>7. PICK d : Renglon(d, tu) /\ Dicho(f, i, d) /\ Fin(f, i + Len(d))
    BY <2>5 DEF Entera
  <2>8. PICK D \in Nat : D = Len(d)
    <3>1. PICK k, x, n, cs : Buena(d, tu, k, x, n, cs)
      BY <2>7, LineaBuena
    <3>2. d \in Seq(DeCampo \cup {Sep})
      BY <3>1, LineaSinFin DEF Buena
    <3> QED BY <3>2
  <2>9. i + D <= F /\ (\A h \in 1 .. D : f[i + h] = d[h]) /\ (i + D = F \/ f[i + D + 1] = Nl)
    BY <1>3, <2>7, <2>8 DEF Dicho, Fin
  <2>10. ASSUME NEW h \in 1 .. D PROVE g[i + h] = d[h]
    <3>1. i + h \in c + 2 .. G
      BY <1>9, <2>1, <2>9
    <3> QED BY <1>7, <2>9, <3>1
  <2>11. i + D = G \/ g[i + D + 1] = Nl
    <3>1. SUFFICES ASSUME i + D # G PROVE g[i + D + 1] = Nl
      OBVIOUS
    <3>2. i + D + 1 \in c + 2 .. G
      BY <1>9, <2>1, <2>9, <3>1
    <3> QED BY <1>7, <2>1, <2>9, <3>1, <3>2
  <2>12. Dicho(g, i, d) /\ Fin(g, i + Len(d))
    BY <1>3, <2>1, <2>8, <2>9, <2>10, <2>11 DEF Dicho, Fin
  <2> QED BY <2>6, <2>7, <2>12 DEF Entera
<1>10. CASE i <= c /\ i + W > c
  <2>1. c + 1 - i \in 1 .. W /\ i + (c + 1 - i) = c + 1 /\ c # G
    BY <1>7, <1>8, <1>10
  <2>2. g[c + 1] = w[c + 1 - i]
    BY <1>8, <2>1
  <2> QED BY <1>2, <1>7, <2>1, <2>2
<1>11. CASE i >= p /\ i + W <= c
  <2>1. PICK j \in Nat : i = p + j
    <3>1. i - p \in Nat /\ i = p + (i - p)
      BY <1>7, <1>11
    <3> QED BY <3>1
  <2>2. j + W <= B
    BY <1>6, <1>7, <1>11, <2>1
  <2>3. b # <<>>
    BY <1>1, <1>5, <2>2
  <2>4. PICK k, x, n, cs : Buena(b, tu, k, x, n, cs)
    BY <2>3, LineaBuena
  <2>5. Encabezada(cs) /\ b = Texto(cs)
    BY <2>4 DEF Buena
  <2>6. ASSUME NEW h \in 1 .. W PROVE b[j + h] = w[h]
    <3>1. j + h \in 1 .. B /\ p + (j + h) = i + h
      BY <1>7, <2>1, <2>2
    <3> QED BY <1>7, <1>8, <3>1
  <2>7. j + W = B \/ b[j + W + 1] \in {Sep, Nl}
    <3>1. SUFFICES ASSUME j + W # B PROVE b[j + W + 1] \in {Sep, Nl}
      OBVIOUS
    <3>2. j + W + 1 \in 1 .. B /\ p + (j + W + 1) = i + W + 1 /\ i + W # G
      BY <1>6, <1>7, <2>1, <2>2, <3>1
    <3>3. g[i + W + 1] = b[j + W + 1]
      <4>1. PICK o \in 1 .. B : o = j + W + 1 /\ p + o = i + W + 1
        BY <3>2
      <4>2. g[p + o] = b[o]
        BY <1>7
      <4> QED BY <4>1, <4>2
    <3> QED BY <1>8, <3>2, <3>3
  <2>8. Dicho(b, j, w) /\ Cierra(b, j + Len(w))
    BY <1>1, <1>5, <2>2, <2>6, <2>7 DEF Dicho, Cierra
  <2>9. j = 0
    BY <2>5, <2>8, EtiquetaAdelante
  <2>10. i = p
    BY <1>7, <2>1, <2>9
  <2>11. Inicio(g, i)
    <3>1. CASE p = 0
      BY <2>10, <3>1 DEF Inicio
    <3>2. CASE p # 0
      <4>1. p \in 1 .. p
        BY <1>7, <3>2
      <4> QED BY <1>7, <2>10, <3>2, <4>1 DEF Inicio
    <3> QED BY <3>1, <3>2
  <2>12. Dicho(g, i, b) /\ Fin(g, i + Len(b))
    BY <2>10 DEF Escrita
  <2> QED BY <2>3, <2>11, <2>12 DEF Entera
<1>12. CASE i < p /\ i + W <= c
  <2>1. p # 0 /\ f[p] = Nl /\ p \in 1 .. p
    BY <1>7, <1>12
  <2>2. g[p] = Nl
    BY <1>7, <2>1
  <2>3. i + W < p
    BY <1>1, <1>2, <1>7, <1>12, <2>2, NoPasa
  <2>4. ASSUME NEW h \in 1 .. W PROVE f[i + h] = w[h]
    <3>1. i + h \in 1 .. p
      BY <1>7, <2>3
    <3> QED BY <1>7, <1>8, <3>1
  <2>5. i + W + 1 \in 1 .. p /\ i + W # G /\ i + W <= F
    BY <1>7, <2>3
  <2>6. f[i + W + 1] \in {Sep, Nl}
    BY <1>7, <1>8, <2>5
  <2>7. Dicho(f, i, w) /\ Cierra(f, i + Len(w))
    BY <1>1, <1>3, <2>4, <2>5, <2>6 DEF Dicho, Cierra
  <2>8. Inicio(f, i) /\ Entera(f, i, tu)
    BY <2>7 DEF Sano
  <2>9. Inicio(g, i)
    <3>1. CASE i = 0
      BY <3>1 DEF Inicio
    <3>2. CASE i # 0
      <4>1. i \in 1 .. p
        BY <1>7, <1>12, <3>2
      <4> QED BY <1>7, <2>8, <3>2, <4>1 DEF Inicio
    <3> QED BY <3>1, <3>2
  <2>10. PICK d : Renglon(d, tu) /\ Dicho(f, i, d) /\ Fin(f, i + Len(d))
    BY <2>8 DEF Entera
  <2>11. PICK D \in Nat : D = Len(d) /\ \A h \in 1 .. D : d[h] # Nl
    <3>1. PICK k, x, n, cs : Buena(d, tu, k, x, n, cs)
      BY <2>10, LineaBuena
    <3>2. d \in Seq(DeCampo \cup {Sep}) /\ \A h \in 1 .. Len(d) : d[h] # Nl
      BY <3>1, LineaSinFin DEF Buena
    <3>3. Len(d) \in Nat
      BY <3>2
    <3> QED BY <3>2, <3>3
  <2>12. i + D < p
    BY <1>7, <1>12, <2>1, <2>10, <2>11, NoPasa
  <2>13. i + D <= F /\ (\A h \in 1 .. D : f[i + h] = d[h]) /\ (i + D = F \/ f[i + D + 1] = Nl)
    BY <1>3, <2>10, <2>11 DEF Dicho, Fin
  <2>14. ASSUME NEW h \in 1 .. D PROVE g[i + h] = d[h]
    <3>1. i + h \in 1 .. p
      BY <1>7, <2>12
    <3> QED BY <1>7, <2>13, <3>1
  <2>15. i + D + 1 \in 1 .. p /\ i + D # F /\ i + D <= G
    BY <1>7, <2>12
  <2>16. g[i + D + 1] = Nl
    BY <1>7, <2>13, <2>15
  <2>17. Dicho(g, i, d) /\ Fin(g, i + Len(d))
    BY <1>3, <2>11, <2>14, <2>15, <2>16 DEF Dicho, Fin
  <2> QED BY <2>9, <2>10, <2>17 DEF Entera
<1>13. i >= c + 1 \/ (i <= c /\ i + W > c) \/ (i >= p /\ i + W <= c) \/ (i < p /\ i + W <= c)
  BY <1>7
<1> QED BY <1>9, <1>10, <1>11, <1>12, <1>13

-----------------------------------------------------------------------------
(* Reading such a file.                                                    *)

(* What a reader has: no panic, and only values that were stored.          *)
Cuerda(T, e, tu) ==
  /\ e \in {"lee", "corta"}
  /\ \A k \in DOMAIN T : \E p \in tu : p[1] = k /\ T[k].valor = Vuelve(p[2], T[k].vida)

(* The fields C and c of the line that starts at a, read up to m.          *)
Situados(f, C, c, a, m) ==
  /\ C \in Seq(Seq(DeCampo)) /\ c \in Seq(DeCampo)
  /\ \E i \in Nat : a <= i /\ i + Len(c) = m /\ Dicho(f, i, c)
  /\ \A j \in 1 .. Len(C) :
       \E i \in Nat : /\ a <= i /\ i + Len(C[j]) < m /\ Dicho(f, i, C[j])
                      /\ f[i + Len(C[j]) + 1] = Sep

EnLinea(f, t, tu, m, a, T, e, C, c) ==
  /\ a \in Nat /\ a <= m /\ Inicio(f, a) /\ \A i \in a + 1 .. m : f[i] # Nl
  /\ Leyendo(f, t)[a] = Lectura(T, e) /\ Leyendo(f, t)[m] = Leido(T, C, c, e)
  /\ Cuerda(T, e, tu) /\ Situados(f, C, c, a, m)

(* A field that is a tag is the start of the line of a stored value, and   *)
(* that line is the whole of it.                                           *)
LEMMA CampoConEtiqueta ==
  ASSUME NEW tu, TuvoBueno(tu), Cortables(tu), NEW f \in Seq(Bytes), Sano(f, tu),
         NEW m \in Nat, m <= Len(f), Fin(f, m), NEW a \in Nat, a <= m,
         \A i \in a + 1 .. m : f[i] # Nl,
         NEW w \in Etiquetas, NEW i \in Nat, a <= i, i + Len(w) <= m, Dicho(f, i, w),
         Cierra(f, i + Len(w))
  PROVE  \E b : Renglon(b, tu) /\ Dicho(f, a, b) /\ a + Len(b) = m
<1>1. Inicio(f, i) /\ Entera(f, i, tu)
  BY DEF Sano
<1>2. PICK W \in Nat : W = Len(w) /\ W >= 1
  BY Letrada
<1>3. i = a
  <2>1. SUFFICES ASSUME i # a PROVE FALSE
    OBVIOUS
  <2>2. i \in a + 1 .. m /\ i # 0
    BY <1>2, <2>1
  <2> QED BY <1>1, <2>2 DEF Inicio
<1>4. PICK b : Renglon(b, tu) /\ Dicho(f, a, b) /\ Fin(f, a + Len(b))
  BY <1>1, <1>3 DEF Entera
<1>5. PICK D \in Nat : D = Len(b) /\ \A h \in 1 .. D : b[h] # Nl
  <2>1. PICK k, x, n, cs : Buena(b, tu, k, x, n, cs)
    BY <1>4, LineaBuena
  <2>2. b \in Seq(DeCampo \cup {Sep}) /\ \A h \in 1 .. Len(b) : b[h] # Nl
    BY <2>1, LineaSinFin DEF Buena
  <2>3. Len(b) \in Nat
    BY <2>2
  <2> QED BY <2>2, <2>3
<1>6. PICK F \in Nat : F = Len(f)
  OBVIOUS
<1>7. a + D <= F /\ (\A h \in 1 .. D : f[a + h] = b[h]) /\ (a + D = F \/ f[a + D + 1] = Nl)
  BY <1>4, <1>5, <1>6 DEF Dicho, Fin
<1>8. ~(a + D < m)
  <2>1. SUFFICES ASSUME a + D < m PROVE FALSE
    OBVIOUS
  <2>2. a + D + 1 \in a + 1 .. m /\ a + D # F
    BY <1>6, <2>1
  <2> QED BY <1>7, <2>2
<1>9. ~(a + D > m)
  <2>1. SUFFICES ASSUME a + D > m PROVE FALSE
    OBVIOUS
  <2>2. f[m + 1] = Nl
    BY <1>6, <1>7, <2>1 DEF Fin
  <2>3. m + 1 - a \in 1 .. D /\ a + (m + 1 - a) = m + 1
    BY <2>1
  <2> QED BY <1>5, <1>7, <2>2, <2>3
<1>10. a + Len(b) = m
  BY <1>5, <1>8, <1>9
<1> QED BY <1>4, <1>10

(* Every field of the line is followed by a separator, or by its end.      *)
LEMMA CampoSituado ==
  ASSUME NEW f \in Seq(Bytes), NEW m \in Nat, m <= Len(f), Fin(f, m), NEW a \in Nat,
         NEW C, NEW c, Situados(f, C, c, a, m), NEW j \in DOMAIN Append(C, c),
         NEW w, w = Append(C, c)[j]
  PROVE  \E i \in Nat : a <= i /\ i + Len(w) <= m /\ Dicho(f, i, w) /\ Cierra(f, i + Len(w))
<1>1. C \in Seq(Seq(DeCampo)) /\ c \in Seq(DeCampo)
  BY DEF Situados
<1>2. PICK N \in Nat : N = Len(C)
  BY <1>1
<1>3. DOMAIN Append(C, c) = 1 .. N + 1 /\ Append(C, c)[N + 1] = c
      /\ \A h \in 1 .. N : Append(C, c)[h] = C[h]
  BY <1>1, <1>2
<1>4. CASE j = N + 1
  <2>1. w = c
    BY <1>3, <1>4
  <2>2. PICK i \in Nat : a <= i /\ i + Len(c) = m /\ Dicho(f, i, c)
    BY DEF Situados
  <2>3. Cierra(f, m)
    BY DEF Fin, Cierra
  <2>4. i + Len(w) <= m
    BY <2>1, <2>2
  <2> QED BY <2>1, <2>2, <2>3, <2>4
<1>5. CASE j \in 1 .. N
  <2>1. w = C[j] /\ w \in Seq(DeCampo)
    <3>1. \A h \in 1 .. N : C[h] \in Seq(DeCampo)
      BY <1>1, <1>2
    <3> QED BY <1>3, <1>5, <3>1
  <2>2. PICK i \in Nat : /\ a <= i /\ i + Len(w) < m /\ Dicho(f, i, w) /\ f[i + Len(w) + 1] = Sep
    BY <1>2, <1>5, <2>1 DEF Situados
  <2>3. Cierra(f, i + Len(w))
    BY <2>2 DEF Cierra
  <2>4. i + Len(w) <= m
    <3>1. PICK L \in Nat : L = Len(w)
      BY <2>1
    <3> QED BY <2>2, <3>1
  <2> QED BY <2>2, <2>3, <2>4
<1> QED BY <1>3, <1>4, <1>5

(* At the end of a line the reader has only what was stored.               *)
LEMMA FinDeLinea ==
  ASSUME NEW tu, TuvoBueno(tu), Cortables(tu), NEW f \in Seq(Bytes), Sano(f, tu), NEW t,
         NEW m \in Nat, m <= Len(f), Fin(f, m),
         NEW a, NEW T, NEW e, NEW C, NEW c, EnLinea(f, t, tu, m, a, T, e, C, c)
  PROVE  \E R, s : TerminarLinea(Leyendo(f, t)[m], t) = Lectura(R, s) /\ Cuerda(R, s, tu)
<1>1. /\ a \in Nat /\ a <= m /\ Inicio(f, a) /\ \A i \in a + 1 .. m : f[i] # Nl
      /\ Leyendo(f, t)[a] = Lectura(T, e) /\ Leyendo(f, t)[m] = Leido(T, C, c, e)
      /\ Cuerda(T, e, tu) /\ Situados(f, C, c, a, m)
  BY DEF EnLinea
<1>2. PICK h, l : h = Leido(T, C, c, e) /\ l = Append(C, c)
  OBVIOUS
<1>3. h.tabla = T /\ h.estado = e /\ Append(h.campos, h.campo) = l
  BY <1>2 DEF Leido
<1>4. Cuerda(T, "corta", tu)
  BY <1>1 DEF Cuerda
<1>5. CASE e # "lee"
  <2>1. TerminarLinea(h, t) = Lectura(T, e)
    BY <1>3, <1>5 DEF TerminarLinea
  <2> QED BY <1>1, <1>2, <2>1
<1>6. CASE e = "lee" /\ \E i \in DOMAIN l : ~EsUtf8(l[i])
  <2>1. TerminarLinea(h, t) = Lectura(T, "corta")
    BY <1>3, <1>6 DEF TerminarLinea
  <2> QED BY <1>1, <1>2, <1>4, <2>1
<1>7. CASE e = "lee" /\ ~(\E i \in DOMAIN l : ~EsUtf8(l[i])) /\ SinEtiqueta(l)
  <2>1. TerminarLinea(h, t) = Lectura(T, e)
    BY <1>3, <1>7 DEF TerminarLinea
  <2> QED BY <1>1, <1>2, <2>1
<1>8. CASE e = "lee" /\ ~SinEtiqueta(l)
  <2>1. PICK w \in Etiquetas : Dice(l, w)
    BY <1>8 DEF SinEtiqueta
  <2>2. PICK j \in DOMAIN l : l[j] = w
    BY <2>1 DEF Dice
  <2>3. PICK i \in Nat : a <= i /\ i + Len(w) <= m /\ Dicho(f, i, w) /\ Cierra(f, i + Len(w))
    BY <1>1, <1>2, <2>2, CampoSituado
  <2>4. PICK b : Renglon(b, tu) /\ Dicho(f, a, b) /\ a + Len(b) = m
    BY <1>1, <2>3, CampoConEtiqueta
  <2>5. PICK k, x, n, cs : Buena(b, tu, k, x, n, cs)
    BY <2>4, LineaBuena
  <2>6. /\ <<k, x>> \in tu /\ k \in Palabras /\ DatoBueno(x) /\ Legible(k, x) /\ n \in Vidas
        /\ cs \in Lineas(k, x, Vencimiento(n)) /\ b = Texto(cs)
        /\ cs \in Seq(Seq(DeCampo)) /\ cs # <<>>
    BY <2>5 DEF Buena, Encabezada
  <2>7. Dicho(f, a, Texto(cs)) /\ a + Len(Texto(cs)) = m /\ Len(f) \in Nat
    BY <2>4, <2>6
  <2>8. PICK D, d : Leyendo(f, t)[a + Len(Texto(cs))] = Leido(T, D, d, e) /\ Append(D, d) = cs
    BY <1>1, <2>6, <2>7, TextoLeido
  <2>9. Leyendo(f, t)[m] = Leido(T, D, d, "lee")
    BY <1>8, <2>7, <2>8
  <2>10. Devuelve(Leido(T, D, d, "lee"), t, T, k, x, n)
    BY <2>6, <2>8, LineaDevuelta
  <2>11. PICK v : /\ TerminarLinea(Leido(T, D, d, "lee"), t) = Lectura(Poner(T, k, v), "lee")
                  /\ v.valor = Vuelve(x, n) /\ v.vida = n
    BY <2>10 DEF Devuelve
  <2>12. PICK R : R = Poner(T, k, v)
    OBVIOUS
  <2>13. ASSUME NEW q \in DOMAIN R
         PROVE  \E p \in tu : p[1] = q /\ R[q].valor = Vuelve(p[2], R[q].vida)
    <3>1. CASE q = k
      <4>1. R[q] = v
        BY <2>12, <3>1 DEF Poner
      <4>2. PICK p \in tu : p = <<k, x>>
        BY <2>6
      <4>3. p[1] = q /\ p[2] = x
        BY <3>1, <4>2
      <4> QED BY <2>11, <4>1, <4>3
    <3>2. CASE q # k
      <4>1. q \in DOMAIN T /\ R[q] = T[q]
        BY <2>12, <3>2 DEF Poner
      <4> QED BY <1>1, <4>1 DEF Cuerda
    <3> QED BY <3>1, <3>2
  <2>14. Cuerda(R, "lee", tu)
    BY <2>13 DEF Cuerda
  <2> QED BY <2>9, <2>11, <2>12, <2>14
<1> QED BY <1>5, <1>6, <1>7, <1>8

(* A separator, or another byte, goes on with the line.                    *)
LEMMA OtroByte ==
  ASSUME NEW f \in Seq(Bytes), NEW t, NEW tu, NEW m \in Nat, m + 1 <= Len(f), f[m + 1] # Nl,
         NEW a, NEW T, NEW e, NEW C, NEW c, EnLinea(f, t, tu, m, a, T, e, C, c)
  PROVE  \E D, d : EnLinea(f, t, tu, m + 1, a, T, e, D, d)
<1>1. /\ a \in Nat /\ a <= m /\ Inicio(f, a) /\ \A i \in a + 1 .. m : f[i] # Nl
      /\ Leyendo(f, t)[a] = Lectura(T, e) /\ Leyendo(f, t)[m] = Leido(T, C, c, e)
      /\ Cuerda(T, e, tu) /\ Situados(f, C, c, a, m)
  BY DEF EnLinea
<1>2. C \in Seq(Seq(DeCampo)) /\ c \in Seq(DeCampo)
  BY <1>1 DEF Situados
<1>3. PICK N \in Nat, L \in Nat : N = Len(C) /\ L = Len(c)
  BY <1>2
<1>4. PICK i \in Nat : a <= i /\ i + L = m /\ Dicho(f, i, c)
  BY <1>1, <1>3 DEF Situados
<1>5. PICK F \in Nat : F = Len(f)
  OBVIOUS
<1>6. m + 1 \in 1 .. F /\ (m + 1) - 1 = m
  BY <1>5
<1>7. f[m + 1] \in Bytes
  BY <1>5, <1>6
<1>8. Leyendo(f, t)[m + 1] = Avanzar(Leido(T, C, c, e), f[m + 1], t)
  <2>1. Leyendo(f, t)[m + 1] = Avanzar(Leyendo(f, t)[(m + 1) - 1], f[m + 1], t)
    BY <1>5, <1>6, UnByteMas
  <2> QED BY <1>1, <1>6, <2>1
<1>9. a <= m + 1 /\ \A h \in a + 1 .. m + 1 : f[h] # Nl
  BY <1>1
<1>10. ASSUME NEW j \in 1 .. N
       PROVE  \E h \in Nat : /\ a <= h /\ h + Len(C[j]) < m + 1 /\ Dicho(f, h, C[j])
                             /\ f[h + Len(C[j]) + 1] = Sep
  <2>1. PICK h \in Nat : /\ a <= h /\ h + Len(C[j]) < m /\ Dicho(f, h, C[j])
                         /\ f[h + Len(C[j]) + 1] = Sep
    BY <1>1, <1>3 DEF Situados
  <2>2. C[j] \in Seq(DeCampo)
    BY <1>2, <1>3
  <2>3. PICK P \in Nat : P = Len(C[j])
    BY <2>2
  <2>4. h + Len(C[j]) < m + 1
    BY <2>1, <2>3
  <2> QED BY <2>1, <2>4
<1>11. CASE f[m + 1] = Sep
  <2>1. PICK D : D = Append(C, c)
    OBVIOUS
  <2>2. D \in Seq(Seq(DeCampo)) /\ Len(D) = N + 1 /\ D[N + 1] = c /\ \A j \in 1 .. N : D[j] = C[j]
    BY <1>2, <1>3, <2>1
  <2>3. Leyendo(f, t)[m + 1] = Leido(T, D, <<>>, e)
    BY <1>8, <1>11, <2>1, Marcas DEF Avanzar, Leido
  <2>4. \E h \in Nat : a <= h /\ h + Len(<<>>) = m + 1 /\ Dicho(f, h, <<>>)
    <3>1. Len(<<>>) = 0 /\ a <= m + 1 /\ m + 1 + 0 = m + 1 /\ m + 1 \in Nat
      BY <1>1
    <3>2. Dicho(f, m + 1, <<>>)
      BY <3>1 DEF Dicho
    <3> QED BY <3>1, <3>2
  <2>5. ASSUME NEW j \in 1 .. N + 1
        PROVE  \E h \in Nat : /\ a <= h /\ h + Len(D[j]) < m + 1 /\ Dicho(f, h, D[j])
                              /\ f[h + Len(D[j]) + 1] = Sep
    <3>1. CASE j \in 1 .. N
      BY <1>10, <2>2, <3>1
    <3>2. CASE j = N + 1
      <4>1. D[j] = c
        BY <2>2, <3>2
      <4>2. i + Len(c) < m + 1 /\ i + Len(c) + 1 = m + 1
        BY <1>3, <1>4
      <4> QED BY <1>4, <1>11, <4>1, <4>2
    <3> QED BY <3>1, <3>2
  <2>6. <<>> \in Seq(DeCampo)
    OBVIOUS
  <2>7. Situados(f, D, <<>>, a, m + 1)
    BY <2>2, <2>4, <2>5, <2>6 DEF Situados
  <2> QED BY <1>1, <1>9, <2>3, <2>7 DEF EnLinea
<1>12. CASE f[m + 1] \in DeCampo
  <2>1. PICK d : d = Append(c, f[m + 1])
    OBVIOUS
  <2>2. d \in Seq(DeCampo) /\ Len(d) = L + 1 /\ d[L + 1] = f[m + 1] /\ \A h \in 1 .. L : d[h] = c[h]
    BY <1>2, <1>3, <1>12, <2>1
  <2>3. Leyendo(f, t)[m + 1] = Leido(T, C, d, e)
    BY <1>8, <1>12, <2>1, Marcas DEF Avanzar, Leido
  <2>4. Dicho(f, i, d)
    <3>1. ASSUME NEW h \in 1 .. L + 1 PROVE f[i + h] = d[h]
      <4>1. CASE h \in 1 .. L
        BY <1>3, <1>4, <2>2, <4>1 DEF Dicho
      <4>2. CASE h = L + 1
        <5>1. i + h = m + 1
          BY <1>4, <4>2
        <5> QED BY <2>2, <4>2, <5>1
      <4> QED BY <4>1, <4>2
    <3>2. i + (L + 1) <= F
      BY <1>4, <1>6
    <3> QED BY <1>5, <2>2, <3>1, <3>2 DEF Dicho
  <2>5. i + Len(d) = m + 1
    BY <1>4, <2>2
  <2>6. Situados(f, C, d, a, m + 1)
    BY <1>2, <1>3, <1>4, <1>10, <2>2, <2>4, <2>5 DEF Situados
  <2> QED BY <1>1, <1>9, <2>3, <2>6 DEF EnLinea
<1>13. f[m + 1] = Sep \/ f[m + 1] \in DeCampo
  BY <1>7 DEF Bytes
<1> QED BY <1>11, <1>12, <1>13

(* At the start of a line nothing of it has been read.                     *)
LEMMA AlEmpezarLinea ==
  ASSUME NEW f \in Seq(Bytes), NEW t, NEW tu, NEW m \in Nat, m <= Len(f), Inicio(f, m),
         NEW T, NEW e, Leyendo(f, t)[m] = Lectura(T, e), Cuerda(T, e, tu)
  PROVE  EnLinea(f, t, tu, m, m, T, e, <<>>, <<>>)
<1>1. Lectura(T, e) = Leido(T, <<>>, <<>>, e)
  BY DEF Lectura, Leido
<1>2. Len(<<>>) = 0 /\ <<>> \in Seq(DeCampo) /\ <<>> \in Seq(Seq(DeCampo))
  OBVIOUS
<1>3. m + Len(<<>>) = m /\ m <= m
  BY <1>2
<1>4. Dicho(f, m, <<>>)
  BY <1>2 DEF Dicho
<1>5. Situados(f, <<>>, <<>>, m, m)
  BY <1>2, <1>3, <1>4 DEF Situados
<1> QED BY <1>1, <1>3, <1>5 DEF EnLinea

(* All of the file can be read, and nothing is made up.                    *)
LEMMA LecturaCuerda ==
  ASSUME NEW tu, TuvoBueno(tu), Cortables(tu), NEW f \in Seq(Bytes), Sano(f, tu), NEW t
  PROVE  \E R, s : LevantarTabla(f, t) = Lectura(R, s) /\ Cuerda(R, s, tu)
<1> DEFINE P(m) == \E a, T, e, C, c : EnLinea(f, t, tu, m, a, T, e, C, c)
           S == {m \in 0 .. Len(f) : P(m)}
<1>1. PICK F \in Nat : F = Len(f)
  OBVIOUS
<1>2. P(0)
  <2>1. Leyendo(f, t)[0] = Lectura(SinClaves, "lee")
    BY UnByteMas DEF Principio
  <2>2. Cuerda(SinClaves, "lee", tu)
    BY DEF Cuerda, SinClaves
  <2>3. Inicio(f, 0)
    BY DEF Inicio
  <2>4. 0 \in Nat /\ 0 <= Len(f)
    OBVIOUS
  <2>5. EnLinea(f, t, tu, 0, 0, SinClaves, "lee", <<>>, <<>>)
    BY <2>1, <2>2, <2>3, <2>4, AlEmpezarLinea
  <2> QED BY <2>5
<1>3. ASSUME NEW m \in 0 .. F - 1, P(m) PROVE P(m + 1)
  <2>1. PICK a, T, e, C, c : EnLinea(f, t, tu, m, a, T, e, C, c)
    BY <1>3
  <2>2. m \in Nat /\ m <= Len(f) /\ m + 1 <= Len(f) /\ m + 1 \in Nat /\ m + 1 \in 1 .. Len(f)
        /\ (m + 1) - 1 = m
    BY <1>1
  <2>3. CASE f[m + 1] # Nl
    <3>1. \E D, d : EnLinea(f, t, tu, m + 1, a, T, e, D, d)
      BY <2>1, <2>2, <2>3, OtroByte
    <3> QED BY <3>1
  <2>4. CASE f[m + 1] = Nl
    <3>1. Fin(f, m) /\ Inicio(f, m + 1)
      BY <2>4 DEF Fin, Inicio
    <3>2. PICK R, s : TerminarLinea(Leyendo(f, t)[m], t) = Lectura(R, s) /\ Cuerda(R, s, tu)
      BY <2>1, <2>2, <3>1, FinDeLinea
    <3>3. Leyendo(f, t)[m + 1] = Avanzar(Leyendo(f, t)[(m + 1) - 1], f[m + 1], t)
      BY <2>2, UnByteMas
    <3>4. Leyendo(f, t)[m + 1] = Lectura(R, s)
      BY <2>2, <2>4, <3>2, <3>3 DEF Avanzar
    <3>5. EnLinea(f, t, tu, m + 1, m + 1, R, s, <<>>, <<>>)
      BY <2>2, <3>1, <3>2, <3>4, AlEmpezarLinea
    <3> QED BY <3>5
  <2> QED BY <2>3, <2>4
<1>4. \A m \in 0 .. F : m \in S
  <2> HIDE DEF P
  <2>1. 0 \in S
    BY <1>1, <1>2
  <2>2. \A m \in 0 .. F - 1 : m \in S => m + 1 \in S
    BY <1>1, <1>3
  <2> HIDE DEF S
  <2> QED BY <1>1, <2>1, <2>2, HastaElFinal
<1>5. P(F)
  BY <1>1, <1>4
<1>6. PICK a, T, e, C, c : EnLinea(f, t, tu, F, a, T, e, C, c)
  BY <1>5
<1>7. Fin(f, F) /\ F <= Len(f)
  BY <1>1 DEF Fin
<1>8. PICK R, s : TerminarLinea(Leyendo(f, t)[F], t) = Lectura(R, s) /\ Cuerda(R, s, tu)
  BY <1>6, <1>7, FinDeLinea
<1> QED BY <1>1, <1>8 DEF LevantarTabla

-----------------------------------------------------------------------------
(* The file being written is sound once the end of the line is there; it   *)
(* is before that where nothing follows the line.                          *)
ConFin(f, p) == Pisar(f, p, <<Nl>>)

SanoHasta(f, p, tu) == Sano(ConFin(f, p), tu) /\ (p = Len(f) => Sano(f, tu))

TodosSanos(pa, p, d, tu) ==
  /\ \A r \in Rutas : pa # "fin" \/ r # p.archivo => Sano(d[r], tu)
  /\ pa = "fin" => SanoHasta(d[p.archivo], p.pos, tu)
  /\ pa = "texto" => Inicio(d[p.archivo], p.pos)

Sanos == Cortables(tuvo) /\ ~cortada => TodosSanos(pers.paso, pers, disco, tuvo)

InvSanos == InvDescarte /\ Archivos /\ Sanos

(* A line written at the start of one, and then its end.                   *)
LEMMA LineaEscrita ==
  ASSUME NEW tu, TuvoBueno(tu), Cortables(tu), NEW f \in Seq(Bytes), Sano(f, tu),
         NEW p \in 0 .. Len(f), Inicio(f, p), NEW b \in Seq(Bytes), Renglon(b, tu) \/ b = <<>>
  PROVE  SanoHasta(Pisar(f, p, b), p + Len(b), tu)
<1>1. PICK g : g = Pisar(f, p, b)
  OBVIOUS
<1>2. PICK F \in Nat, B \in Nat : F = Len(f) /\ B = Len(b)
  OBVIOUS
<1>3. /\ g \in Seq(Bytes) /\ p + B <= Len(g) /\ F <= Len(g)
      /\ Len(g) = IF p + B > F THEN p + B ELSE F
      /\ \A i \in 1 .. p : g[i] = f[i]
      /\ \A i \in 1 .. B : g[p + i] = b[i]
      /\ \A i \in p + B + 1 .. Len(g) : g[i] = f[i]
  BY <1>1, <1>2, Pisado
<1>4. PICK G \in Nat, c \in Nat : G = Len(g) /\ c = p + B
  BY <1>2, <1>3
<1>5. ASSUME c = Len(g) PROVE Sano(g, tu)
  <2>1. Dicho(g, p, b) /\ Fin(g, p + Len(b))
    BY <1>2, <1>3, <1>4, <1>5 DEF Dicho, Fin
  <2>2. Len(g) > p + Len(b) + 1 => Len(g) = Len(f)
    BY <1>2, <1>4, <1>5
  <2>3. \A i \in p + Len(b) + 2 .. Len(g) : g[i] = f[i]
    BY <1>2, <1>4, <1>5
  <2>4. Escrita(f, g, p, b)
    BY <1>3, <2>1, <2>2, <2>3 DEF Escrita
  <2> QED BY <1>3, <2>4, SanoEscrita
<1>6. PICK n : n = <<Nl>>
  OBVIOUS
<1>7. n \in Seq(Bytes) /\ Len(n) = 1 /\ n[1] = Nl
  BY <1>6, Marcas
<1>8. PICK o : o = Pisar(g, c, n)
  OBVIOUS
<1>9. c \in 0 .. Len(g)
  BY <1>3, <1>4
<1>10. /\ o \in Seq(Bytes) /\ c + 1 <= Len(o)
       /\ Len(o) = IF c + 1 > G THEN c + 1 ELSE G
       /\ \A i \in 1 .. c : o[i] = g[i]
       /\ \A i \in 1 .. 1 : o[c + i] = n[i]
       /\ \A i \in c + 1 + 1 .. Len(o) : o[i] = g[i]
  <2>1. /\ o \in Seq(Bytes) /\ c + Len(n) <= Len(o)
        /\ Len(o) = IF c + Len(n) > Len(g) THEN c + Len(n) ELSE Len(g)
        /\ \A i \in 1 .. c : o[i] = g[i]
        /\ \A i \in 1 .. Len(n) : o[c + i] = n[i]
        /\ \A i \in c + Len(n) + 1 .. Len(o) : o[i] = g[i]
    <3>1. g \in Seq(Bytes) /\ n \in Seq(Bytes)
      BY <1>3, <1>7
    <3> QED BY <1>8, <1>9, <3>1, Pisado
  <2> QED BY <1>4, <1>7, <2>1
<1>11. Sano(o, tu)
  <2>0. PICK O \in Nat : O = Len(o)
    BY <1>10
  <2>1. o[c + 1] = Nl
    BY <1>7, <1>10
  <2>2. ASSUME NEW i \in 1 .. B PROVE o[p + i] = b[i]
    <3>1. p + i \in 1 .. c
      BY <1>4
    <3> QED BY <1>3, <1>10, <3>1
  <2>3. Dicho(o, p, b)
    <3>1. p + B <= O
      BY <1>4, <1>10, <2>0
    <3> QED BY <1>2, <2>0, <2>2, <3>1 DEF Dicho
  <2>4. Fin(o, p + Len(b))
    BY <1>2, <1>4, <2>1 DEF Fin
  <2>5. ASSUME NEW i \in 1 .. p PROVE o[i] = f[i]
    <3>1. i \in 1 .. c
      BY <1>4
    <3> QED BY <1>3, <1>10, <3>1
  <2>6. O > c + 1 => O = F
    BY <1>3, <1>4, <1>10, <2>0
  <2>7. ASSUME NEW i \in c + 2 .. O PROVE o[i] = f[i]
    <3>3. O >= c + 2 /\ O = IF c + 1 > G THEN c + 1 ELSE G
      BY <1>10, <2>0
    <3>4. O = G
      BY <3>3
    <3>1. i \in c + 1 + 1 .. O /\ O = G /\ i \in p + B + 1 .. G
      BY <1>4, <3>4
    <3>2. o[i] = g[i]
      BY <1>10, <2>0, <3>1
    <3> QED BY <1>3, <1>4, <3>1, <3>2
  <2>8. Escrita(f, o, p, b)
    BY <1>2, <1>4, <2>0, <2>3, <2>4, <2>5, <2>6, <2>7 DEF Escrita
  <2> QED BY <1>10, <2>8, SanoEscrita
<1>12. ConFin(g, c) = o
  BY <1>6, <1>8 DEF ConFin
<1>13. SanoHasta(g, c, tu)
  BY <1>5, <1>11, <1>12 DEF SanoHasta
<1> QED BY <1>1, <1>2, <1>4, <1>13

(* The steps that write nothing.                                           *)
LEMMA SanosSinEscribir ==
  ASSUME InvSanos, UNCHANGED disco, tuvo \subseteq tuvo', cortada' = cortada,
         UNCHANGED pers \/ (pers.paso # "fin" /\ pers'.paso \notin {"texto", "fin"})
  PROVE  Sanos'
<1> SUFFICES ASSUME Cortables(tuvo'), ~cortada' PROVE TodosSanos(pers'.paso, pers', disco, tuvo')
  BY DEF Sanos
<1>1. PICK tu, tv : tu = tuvo /\ tv = tuvo'
  OBVIOUS
<1>2. Cortables(tu)
  BY <1>1 DEF Cortables
<1>3. TodosSanos(pers.paso, pers, disco, tu)
  BY <1>1, <1>2 DEF InvSanos, Sanos
<1>4. \A f : Sano(f, tu) => Sano(f, tv)
  BY <1>1, SanoCrece
<1>5. TodosSanos(pers.paso, pers, disco, tv)
  BY <1>3, <1>4 DEF TodosSanos, SanoHasta
<1>6. CASE UNCHANGED pers
  BY <1>1, <1>5, <1>6
<1>7. CASE pers.paso # "fin" /\ pers'.paso \notin {"texto", "fin"}
  BY <1>1, <1>5, <1>7 DEF TodosSanos
<1> QED BY <1>6, <1>7

(* A copy received: the save starts at the start of the file.              *)
LEMMA RecibirSano ==
  ASSUME InvSanos, Recibir
  PROVE  Sanos'
<1>1. UNCHANGED <<disco, tuvo, cortada>> /\ pers.paso = "esperar"
  BY DEF Recibir
<1> DEFINE m == Head(cola)
<1>2. CASE UNCHANGED pers
  BY <1>1, <1>2, SanosSinEscribir
<1>3. CASE pers' = [pers EXCEPT !.archivo = m.ruta]
  <2>1. pers'.paso = "esperar"
    BY <1>1, <1>3
  <2> QED BY <1>1, <2>1, SanosSinEscribir
<1>4. CASE pers' = [paso |-> "muerto"]
  <2>1. pers'.paso = "muerto"
    BY <1>4
  <2> QED BY <1>1, <2>1, SanosSinEscribir
<1>5. CASE pers' = Guardando(pers, m.tabla, ahora)
  <2>1. pers'.paso = "texto" /\ pers'.pos = 0
    BY <1>5 DEF Guardando
  <2>2. Inicio(disco[pers'.archivo], 0)
    BY DEF Inicio
  <2>3. Cortables(tuvo) /\ ~cortada => \A r \in Rutas : Sano(disco[r], tuvo)
    BY <1>1 DEF InvSanos, Sanos, TodosSanos
  <2> QED BY <1>1, <2>1, <2>2, <2>3 DEF Sanos, TodosSanos
<1> QED BY <1>2, <1>3, <1>4, <1>5 DEF Recibir, Descartar

(* The text of a line.                                                     *)
LEMMA EscribirTextoSano ==
  ASSUME InvSanos, EscribirTexto
  PROVE  Sanos'
<1>1. PICK k \in pers.faltan : \E cs \in pers.lineas[k] :
         /\ disco' = [disco EXCEPT ![pers.archivo] = Pisar(@, pers.pos, Texto(cs))]
         /\ pers' = [pers EXCEPT !.paso = "fin", !.faltan = @ \ {k}, !.pos = @ + Len(Texto(cs))]
  BY DEF EscribirTexto
<1>2. PICK cs \in pers.lineas[k] :
         /\ disco' = [disco EXCEPT ![pers.archivo] = Pisar(@, pers.pos, Texto(cs))]
         /\ pers' = [pers EXCEPT !.paso = "fin", !.faltan = @ \ {k}, !.pos = @ + Len(Texto(cs))]
  BY <1>1
<1>3. pers.paso = "texto" /\ UNCHANGED <<tuvo, cortada>>
  BY DEF EscribirTexto, historia
<1> SUFFICES ASSUME Cortables(tuvo), ~cortada PROVE TodosSanos(pers'.paso, pers', disco', tuvo)
  BY <1>3 DEF Sanos
<1>4. TodosSanos("texto", pers, disco, tuvo)
  BY <1>3 DEF InvSanos, Sanos
<1>5. PICK f, p, G, tu, r :
        f = disco[pers.archivo] /\ p = pers.pos /\ G = pers.copia /\ tu = tuvo /\ r = pers.archivo
  OBVIOUS
<1>6. /\ f \in Seq(Bytes) /\ p \in 0 .. Len(f) /\ Campos \subseteq DOMAIN pers
      /\ GuardandoBien(pers, disco, tuvo) /\ disco \in [Rutas -> Seq(Bytes)] /\ r \in Rutas
  BY <1>3, <1>5, DondeEscribe DEF InvSanos
<1>7. TablaBuena(G, tu) /\ LineaDe(k, cs, G)
  BY <1>5, <1>6 DEF GuardandoBien
<1>8. PICK b : b = Texto(cs)
  OBVIOUS
<1>9. b \in Seq(Bytes) /\ (cs = <<>> => b = <<>>)
  BY <1>7, <1>8, TextoDeBytes
<1>10. Renglon(b, tu) \/ b = <<>>
  <2>1. CASE k \in DOMAIN G
    <3>1. PICK q \in tu : q = <<k, G[k].valor>>
      BY <1>7, <2>1 DEF TablaBuena
    <3>2. q[1] = k /\ q[2] = G[k].valor
      BY <3>1
    <3>3. G[k].vida \in Vidas /\ cs \in Lineas(q[1], q[2], Vencimiento(G[k].vida))
      BY <1>7, <2>1, <3>2 DEF TablaBuena, TablaDePalabras, LineaDe
    <3> QED BY <1>8, <3>3 DEF Renglon
  <2>2. CASE k \notin DOMAIN G
    BY <1>7, <1>9, <2>2 DEF LineaDe
  <2> QED BY <2>1, <2>2
<1>11. Sano(f, tu) /\ Inicio(f, p) /\ TuvoBueno(tu) /\ Cortables(tu)
  BY <1>4, <1>5, <1>6 DEF TodosSanos, InvSanos, Archivos
<1>12. SanoHasta(Pisar(f, p, b), p + Len(b), tu)
  BY <1>6, <1>9, <1>10, <1>11, LineaEscrita
<1>13. pers'.paso = "fin" /\ pers'.archivo = r /\ pers'.pos = p + Len(b)
  BY <1>2, <1>5, <1>6, <1>8 DEF Campos
<1>14. disco'[r] = Pisar(f, p, b) /\ \A o \in Rutas : o # r => disco'[o] = disco[o]
  BY <1>2, <1>5, <1>6, <1>8
<1>15. \A o \in Rutas : o # r => Sano(disco'[o], tuvo)
  BY <1>4, <1>14 DEF TodosSanos
<1> QED BY <1>5, <1>12, <1>13, <1>14, <1>15 DEF TodosSanos

(* The end of a line.                                                      *)
LEMMA EscribirFinSano ==
  ASSUME InvSanos, EscribirFin
  PROVE  Sanos'
<1>1. /\ pers.paso = "fin" /\ UNCHANGED <<tuvo, cortada>>
      /\ disco' = [disco EXCEPT ![pers.archivo] = Pisar(@, pers.pos, <<Nl>>)]
      /\ pers' = [pers EXCEPT !.paso = "texto", !.pos = @ + 1]
  BY DEF EscribirFin, historia
<1> SUFFICES ASSUME Cortables(tuvo), ~cortada PROVE TodosSanos(pers'.paso, pers', disco', tuvo)
  BY <1>1 DEF Sanos
<1>2. TodosSanos("fin", pers, disco, tuvo)
  BY <1>1 DEF InvSanos, Sanos
<1>3. PICK f, p, r : f = disco[pers.archivo] /\ p = pers.pos /\ r = pers.archivo
  OBVIOUS
<1>4. /\ f \in Seq(Bytes) /\ p \in 0 .. Len(f) /\ Campos \subseteq DOMAIN pers
      /\ disco \in [Rutas -> Seq(Bytes)] /\ r \in Rutas
  BY <1>1, <1>3, DondeEscribe DEF InvSanos
<1>5. PICK g : g = ConFin(f, p)
  OBVIOUS
<1>6. disco'[r] = g /\ \A o \in Rutas : o # r => disco'[o] = disco[o]
  BY <1>1, <1>3, <1>4, <1>5 DEF ConFin
<1>7. Sano(g, tuvo)
  BY <1>2, <1>3, <1>5 DEF TodosSanos, SanoHasta
<1>8. g[p + 1] = Nl
  <2>1. PICK n : n = <<Nl>>
    OBVIOUS
  <2>2. n \in Seq(Bytes) /\ Len(n) = 1 /\ n[1] = Nl /\ 1 \in 1 .. Len(n)
    BY <2>1, Marcas
  <2>4. g = Pisar(f, p, n)
    BY <1>5, <2>1 DEF ConFin
  <2>5. n \in Seq(Bytes)
    BY <2>2
  <2>6. f \in Seq(Bytes) /\ p \in 0 .. Len(f)
    BY <1>4
  <2>3. g \in Seq(Bytes) /\ \A i \in 1 .. Len(n) : g[p + i] = n[i]
    BY <2>4, <2>5, <2>6, Pisado
  <2> QED BY <2>2, <2>3
<1>9. pers'.paso = "texto" /\ pers'.archivo = r /\ pers'.pos = p + 1
  BY <1>1, <1>3, <1>4 DEF Campos
<1>10. Inicio(disco'[pers'.archivo], pers'.pos)
  BY <1>6, <1>8, <1>9 DEF Inicio
<1>11. \A o \in Rutas : Sano(disco'[o], tuvo)
  BY <1>2, <1>3, <1>6, <1>7 DEF TodosSanos
<1> QED BY <1>9, <1>10, <1>11 DEF TodosSanos

(* A crash that leaves no line joined to an older one.                     *)
LEMMA CaerSano ==
  ASSUME InvSanos, Caer
  PROVE  Sanos'
<1>1. UNCHANGED <<disco, tuvo>> /\ pers' = [paso |-> "muerto"] /\ cortada' = (cortada \/ AMedias)
  BY DEF Caer
<1> SUFFICES ASSUME Cortables(tuvo), ~cortada' PROVE TodosSanos(pers'.paso, pers', disco, tuvo)
  BY <1>1 DEF Sanos
<1>2. ~cortada /\ ~AMedias
  BY <1>1, Zenon
<1>3. TodosSanos(pers.paso, pers, disco, tuvo)
  BY <1>2 DEF InvSanos, Sanos
<1>4. pers'.paso = "muerto"
  BY <1>1
<1>5. \A r \in Rutas : Sano(disco[r], tuvo)
  <2>1. CASE pers.paso # "fin"
    BY <1>3, <2>1 DEF TodosSanos
  <2>2. CASE pers.paso = "fin"
    <3>1. disco[pers.archivo] \in Seq(Bytes) /\ pers.pos \in 0 .. Len(disco[pers.archivo])
      BY <2>2, DondeEscribe DEF InvSanos
    <3>2. pers.pos = Len(disco[pers.archivo])
      BY <1>2, <2>2, <3>1 DEF AMedias
    <3> QED BY <1>3, <2>2, <3>2 DEF TodosSanos, SanoHasta
  <2> QED BY <2>1, <2>2
<1> QED BY <1>4, <1>5 DEF TodosSanos

(* Whatever the clients, the thread, a crash or a restart does.            *)
LEMMA SanosInductivo ==
  ASSUME InvSanos, [Next]_vars
  PROVE  Sanos'
<1>1. ASSUME NEW k \in Claves, Guardar(k) \/ CambiarVida(k) PROVE Sanos'
  <2>1. UNCHANGED <<disco, pers, cortada>> /\ tuvo \subseteq tuvo'
    BY <1>1 DEF Guardar, CambiarVida, historia
  <2> QED BY <2>1, SanosSinEscribir
<1>2. CASE CambiarArchivo \/ Tick \/ UNCHANGED vars
  <2>1. UNCHANGED <<disco, pers, cortada, tuvo>>
    BY <1>2 DEF CambiarArchivo, Tick, vars, historia
  <2> QED BY <2>1, SanosSinEscribir
<1>3. CASE Recibir
  BY <1>3, RecibirSano
<1>4. CASE EscribirTexto
  BY <1>4, EscribirTextoSano
<1>5. CASE EscribirFin
  BY <1>5, EscribirFinSano
<1>6. CASE TerminarDeGuardar
  <2>1. UNCHANGED <<disco, tuvo, cortada>> /\ pers.paso = "texto" /\ pers'.paso = "esperar"
    BY <1>6 DEF TerminarDeGuardar, Esperando
  <2> QED BY <2>1, SanosSinEscribir
<1>7. CASE Caer
  BY <1>7, CaerSano
<1>8. CASE Levantar
  <2>1. UNCHANGED <<disco, cortada>> /\ tuvo \subseteq tuvo'
    BY <1>8 DEF Levantar
  <2>2. pers.paso = "muerto"
    BY <1>8 DEF Levantar, InvSanos, InvDescarte, SinHilo
  <2>3. UNCHANGED pers \/ pers'.paso \notin {"texto", "fin"}
    BY <1>8 DEF Levantar, Esperando
  <2> QED BY <2>1, <2>2, <2>3, SanosSinEscribir
<1> QED BY <1>1, <1>2, <1>3, <1>4, <1>5, <1>6, <1>7, <1>8 DEF Next, HiloPersistencia

(* Every file, be it cut by a crash or rewritten in place over longer      *)
(* lines, can be read without a panic, and no key gets a value that was    *)
(* not stored under it at some time.  If every word stored so far can be   *)
(* told from the marks of the file, and no crash came between the text of  *)
(* a line and its end.                                                     *)
THEOREM NadaSeInventa == Spec => []NuncaInventa
<1>1. Init => InvSanos
  <2> SUFFICES ASSUME Init PROVE InvSanos
    OBVIOUS
  <2>1. Archivos /\ InvDescarte
    BY ArchivosAlEmpezar, DescarteAlEmpezar
  <2>2. Sano(<<>>, tuvo)
    <3>1. ASSUME NEW w \in Etiquetas, NEW i \in Nat PROVE ~Dicho(<<>>, i, w)
      <4>1. PICK W \in Nat : W = Len(w) /\ W >= 1
        BY Letrada
      <4>2. Len(<<>>) = 0
        OBVIOUS
      <4> QED BY <4>1, <4>2 DEF Dicho
    <3> QED BY <3>1 DEF Sano
  <2>3. pers.paso = "esperar" /\ \A r \in Rutas : disco[r] = <<>>
    BY DEF Init, Esperando
  <2>4. TodosSanos(pers.paso, pers, disco, tuvo)
    BY <2>2, <2>3 DEF TodosSanos
  <2> QED BY <2>1, <2>4 DEF InvSanos, Sanos
<1>2. InvSanos /\ [Next]_vars => InvSanos'
  BY ArchivosInductivo, DescarteInductivo, SanosInductivo DEF InvSanos
<1>3. InvSanos => NuncaInventa
  <2> SUFFICES ASSUME InvSanos, Cortables(tuvo), ~cortada, ~AMedias, NEW r \in Rutas
               PROVE  LET h == LevantarTabla(disco[r], ahora)
                      IN  /\ h.estado # "panico"
                          /\ \A k \in DOMAIN h.tabla :
                               \E p \in tuvo : p[1] = k /\ h.tabla[k].valor = Vuelve(p[2], h.tabla[k].vida)
    BY DEF NuncaInventa, Cortables
  <2>1. TodosSanos(pers.paso, pers, disco, tuvo)
    BY DEF InvSanos, Sanos
  <2>2. Sano(disco[r], tuvo)
    <3>1. CASE pers.paso # "fin" \/ r # pers.archivo
      BY <2>1, <3>1 DEF TodosSanos
    <3>2. CASE pers.paso = "fin" /\ r = pers.archivo
      <4>1. disco[pers.archivo] \in Seq(Bytes) /\ pers.pos \in 0 .. Len(disco[pers.archivo])
        BY <3>2, DondeEscribe DEF InvSanos
      <4>2. pers.pos = Len(disco[pers.archivo])
        BY <3>2, <4>1 DEF AMedias
      <4> QED BY <2>1, <3>2, <4>2 DEF TodosSanos, SanoHasta
    <3> QED BY <3>1, <3>2
  <2>3. PICK f, t, tu : f = disco[r] /\ t = ahora /\ tu = tuvo
    OBVIOUS
  <2>4. f \in Seq(Bytes) /\ Sano(f, tu) /\ TuvoBueno(tu) /\ Cortables(tu)
    BY <2>2, <2>3 DEF InvSanos, Archivos
  <2>5. PICK R, s : LevantarTabla(f, t) = Lectura(R, s) /\ Cuerda(R, s, tu)
    BY <2>4, LecturaCuerda
  <2>6. PICK h : h = LevantarTabla(f, t)
    OBVIOUS
  <2>7. h.estado = s /\ h.tabla = R
    BY <2>5, <2>6 DEF Lectura
  <2>8. s # "panico" /\ \A k \in DOMAIN R : \E p \in tu : p[1] = k /\ R[k].valor = Vuelve(p[2], R[k].vida)
    BY <2>5 DEF Cuerda
  <2> QED BY <2>3, <2>6, <2>7, <2>8
<1> QED BY <1>1, <1>2, <1>3, PTL DEF Spec
=============================================================================
