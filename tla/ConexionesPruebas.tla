-------------------------- MODULE ConexionesPruebas --------------------------
(***************************************************************************)
(* Proofs about the connections, for any number of clients, any requests   *)
(* and any way of cutting them into packets.  The invariant is one of each *)
(* connection by itself; what ties connections together is only the queue  *)
(* of the listener.                                                        *)
(***************************************************************************)
EXTENDS Conexiones, SecuenciasPruebas

(* The units c may send, and what is kept of a command that was executed.  *)
Unidades(c) == {u \in [req : DOMAIN Guion[c], pos : Nat] : u.pos <= Guion[c][u.req].largo}
Hechos == [req : Nat, palabras : SUBSET Nat, corrio : BOOLEAN]

TipoDe(c) ==
  /\ red[c] \in Seq(Unidades(c)) /\ leido[c] \in Seq(Unidades(c))
  /\ hechos[c] \in Seq(Hechos)
  /\ proximo[c].req \in DOMAIN Guion[c] => proximo[c] \in Unidades(c)
  /\ proto[c] = "ninguno" <=> hilo[c] \in {"no", "cola"}

(* A connection is in the queue of the listener, or at its head, once and  *)
(* only before its thread exists.                                          *)
Fila ==
  /\ aceptando # Nadie => hilo[aceptando] = "cola"
  /\ \A i \in DOMAIN pendientes :
       /\ hilo[pendientes[i]] = "cola" /\ pendientes[i] # aceptando
       /\ \A j \in DOMAIN pendientes : pendientes[i] = pendientes[j] => i = j

-----------------------------------------------------------------------------
(* Until an HTTP client is read, its first unit is where it was.           *)
Intacta(c) ==
  (hilo[c] \in {"no", "cola"} \/ (proto[c] = "http" /\ ~mando[c])) =>
    /\ respuestas[c] = 0 /\ hechos[c] = <<>>
    /\ hilo[c] \in {"no", "cola", "espera", "lee"}
    /\ \/ red[c] = <<>> /\ proximo[c] = Unidad(1, 0)
       \/ red[c] # <<>> /\ red[c][1] = Unidad(1, 0)

(* After that it is not read again: it has one command at most.            *)
Atendida(c) ==
  (proto[c] = "http" /\ mando[c]) =>
    /\ hilo[c] \in {"espera", "ejecuta", "responde", "fin"}
    /\ hilo[c] = "ejecuta" => hechos[c] = <<>> /\ leido[c] # <<>> /\ leido[c][1].req = 1
    /\ hilo[c] \in {"ejecuta", "responde"} => respuestas[c] = 0
    /\ respuestas[c] <= 1
    /\ Len(hechos[c]) <= 1 /\ \A k \in DOMAIN hechos[c] : hechos[c][k].req = 1

-----------------------------------------------------------------------------
(* What a RESP client has sent and no command has been made of.            *)
Tubo(c) == IF hilo[c] = "lee" THEN leido[c] \o red[c] ELSE red[c]

(* Unit v was sent d units after u.                                        *)
Lejos(c, u, v, d) ==
  \/ u.req = v.req /\ v.pos = u.pos + d
  \/ u.req < v.req /\ d > Pedido(c, u).largo - u.pos

(* The units of s were sent one after another, and n comes next.           *)
Cadena(c, s, n) ==
  \A i \in DOMAIN s : /\ Lejos(c, s[i], n, Len(s) + 1 - i)
                      /\ \A j \in DOMAIN s : i < j => Lejos(c, s[i], s[j], j - i)

(* The request r is behind all that c may yet have read.                   *)
Pasado(c, r) ==
  /\ \A i \in DOMAIN Tubo(c) : r < Tubo(c)[i].req
  /\ r < proximo[c].req \/ cerrada[c]

Creciente(h) == \A k, l \in DOMAIN h : k < l => h[k].req < h[l].req

EnOrden(c) ==
  proto[c] # "http" =>
    /\ Cadena(c, Tubo(c), proximo[c])
    /\ \A k \in DOMAIN hechos[c] : Pasado(c, hechos[c][k].req)
    /\ hilo[c] = "ejecuta" =>
         /\ leido[c] # <<>> /\ Pasado(c, leido[c][1].req)
         /\ \A k \in DOMAIN hechos[c] : hechos[c][k].req < leido[c][1].req
    /\ Creciente(hechos[c])

-----------------------------------------------------------------------------
(* Of a client that waits: s is the beginning of the request r, or all of  *)
(* it, and n comes next.                                                   *)
Empieza(c, s, r, n) ==
  /\ \A i \in DOMAIN s : s[i] = Unidad(r, i - 1)
  /\ \/ n = Unidad(r, Len(s))
     \/ n = Unidad(r + 1, 0) /\ Len(s) = Guion[c][r].largo + 1

Enteros(c) == \A k \in DOMAIN hechos[c] : Entero(c, hechos[c][k])
Numerados(c) ==
  \A k \in DOMAIN hechos[c] :
    /\ hechos[c][k].req = k
    /\ Entero(c, hechos[c][k]) \/ (cerrada[c] /\ k = Len(hechos[c]))

(* The client left amid a command, which was executed as it was.           *)
Cortada(c) == cerrada[c] /\ red[c] = <<>> /\ hilo[c] # "lee"

Espera(c) ==
  LET n == Len(hechos[c])
  IN  /\ hilo[c] \in {"no", "cola", "espera", "lee"} =>
           /\ respuestas[c] = n
           /\ Cortada(c) \/ (Enteros(c) /\ Empieza(c, Tubo(c), n + 1, proximo[c]))
      /\ hilo[c] = "ejecuta" =>
           /\ respuestas[c] = n /\ Enteros(c) /\ red[c] = <<>>
           /\ leido[c] # <<>> /\ leido[c][1].req = n + 1
           /\ \/ cerrada[c]
              \/ /\ Palabras(c, leido[c]) = 1 .. Guion[c][n + 1].largo
                 /\ proximo[c] = Unidad(n + 2, 0)
      /\ hilo[c] = "responde" =>
           /\ respuestas[c] = n - 1 /\ red[c] = <<>>
           /\ cerrada[c] \/ (Enteros(c) /\ proximo[c] = Unidad(n + 1, 0))

Paciente(c) == proto[c] # "http" /\ c \notin Apuradas => Numerados(c) /\ Espera(c)

-----------------------------------------------------------------------------
InvDe(c) == TipoDe(c) /\ Intacta(c) /\ Atendida(c) /\ EnOrden(c) /\ Paciente(c)
Inv == TypeOK /\ Fila /\ \A c \in Conexiones : InvDe(c)

-----------------------------------------------------------------------------
(* The state of one connection, and a step that changes no other.          *)
EstadoDe(c) == <<proximo[c], cerrada[c], red[c], hilo[c], proto[c], mando[c], leido[c],
                 hechos[c], respuestas[c]>>
Solo(c) == \A d \in Conexiones \ {c} : UNCHANGED EstadoDe(d)

(* What the invariant says of a connection depends on its own state.       *)
LEMMA InvAjena ==
  ASSUME NEW c \in Conexiones, InvDe(c), UNCHANGED EstadoDe(c)
  PROVE  InvDe(c)'
<1> USE DEF EstadoDe
<1>1. TipoDe(c)'
  BY DEF InvDe, TipoDe
<1>2. Intacta(c)' /\ Atendida(c)'
  BY DEF InvDe, Intacta, Atendida
<1>3. EnOrden(c)'
  BY DEF InvDe, EnOrden, Pasado, Tubo
<1>4. Paciente(c)'
  BY DEF InvDe, Paciente, Numerados, Espera, Cortada, Enteros, Tubo
<1> QED BY <1>1, <1>2, <1>3, <1>4 DEF InvDe

(* Every step but those of the listener is a step of one connection.       *)
LEMMA PasosDeUna ==
  ASSUME TypeOK, NEW c \in Conexiones,
         Conectar(c) \/ Enviar(c) \/ Cerrar(c) \/ CrearCliente(c) \/ HiloCliente(c)
  PROVE  Solo(c)
<1> USE DEF TypeOK, Solo, EstadoDe, cliente
<1>1. CASE Conectar(c) \/ Enviar(c) \/ Cerrar(c) \/ CrearCliente(c)
  BY <1>1 DEF Conectar, Enviar, Cerrar, CrearCliente
<1>2. CASE Ciclo(c)
  BY <1>2 DEF Ciclo
<1>3. CASE LeerRedis(c)
  BY <1>3 DEF LeerRedis, Pasa
<1>4. CASE FinDeStream(c)
  BY <1>4 DEF FinDeStream, Pasa
<1>5. CASE LeerHttp(c)
  BY <1>5 DEF LeerHttp, Escribir, Pasa
<1>6. CASE Ejecutar(c)
  BY <1>6 DEF Ejecutar
<1>7. CASE Responder(c)
  BY <1>7 DEF Responder, Escribir
<1> QED BY <1>1, <1>2, <1>3, <1>4, <1>5, <1>6, <1>7 DEF HiloCliente

(* Setting a flag leaves a flag.                                           *)
LEMMA BanderaCambiada ==
  ASSUME NEW S, NEW f \in [S -> BOOLEAN], NEW c \in S, NEW b \in BOOLEAN
  PROVE  [f EXCEPT ![c] = b] \in [S -> BOOLEAN]
  BY Zenon

(* What writing an answer does to a thread.                                *)
LEMMA EscribirTipo ==
  ASSUME TypeOK, NEW c \in Conexiones, Escribir(c, "espera")
  PROVE  /\ hilo' \in [Conexiones -> {"no", "cola", "espera", "lee", "ejecuta", "responde", "fin"}]
         /\ respuestas' \in [Conexiones -> Nat]
<1>1. CASE /\ respuestas' = [respuestas EXCEPT ![c] = @ + 1]
           /\ hilo' = [hilo EXCEPT ![c] = "espera"]
  BY <1>1 DEF TypeOK
<1>2. CASE hilo' = [hilo EXCEPT ![c] = "fin"] /\ UNCHANGED respuestas
  BY <1>2 DEF TypeOK
<1> QED BY <1>1, <1>2 DEF Escribir

(* The types of the variables.                                             *)
LEMMA TipoInductivo ==
  ASSUME TypeOK, [Next]_vars,
         \A c \in Conexiones : TipoDe(c)
  PROVE  TypeOK'
<1> DEFINE Estados == {"no", "cola", "espera", "lee", "ejecuta", "responde", "fin"}
<1>1. ASSUME NEW c \in Conexiones, Conectar(c) \/ Enviar(c) \/ Cerrar(c) \/ CrearCliente(c)
      PROVE  TypeOK'
  <2>1. CASE Enviar(c)
    <3>1. Siguiente(c, proximo[c]) \in [req : Nat, pos : Nat]
      BY DEF TypeOK, Siguiente, Unidad
    <3> QED BY <2>1, <3>1 DEF TypeOK, Enviar, escucha
  <2>2. CASE Conectar(c)
    <3>1. pendientes' \in Seq(Conexiones)
      BY <2>2, <1>1 DEF TypeOK, Conectar
    <3>2. hilo' \in [Conexiones -> Estados]
      BY <2>2, <1>1 DEF TypeOK, Conectar
    <3> QED BY <2>2, <3>1, <3>2 DEF TypeOK, Conectar, cliente
  <2>3. CASE Cerrar(c)
    <3>1. cerrada' \in [Conexiones -> BOOLEAN]
      BY <2>3, <1>1, BanderaCambiada DEF TypeOK, Cerrar
    <3> QED BY <2>3, <3>1 DEF TypeOK, Cerrar, escucha
  <2>4. CASE CrearCliente(c)
    <3>1. hilo' \in [Conexiones -> Estados]
      BY <2>4, <1>1 DEF TypeOK, CrearCliente
    <3>2. proto' \in [Conexiones -> {"ninguno", "redis", "http"}]
      <4>1. CASE DiceHttp(c, red[c])
        BY <2>4, <1>1, <4>1 DEF TypeOK, CrearCliente
      <4>2. CASE ~DiceHttp(c, red[c])
        BY <2>4, <1>1, <4>2 DEF TypeOK, CrearCliente
      <4> QED BY <4>1, <4>2
    <3> QED BY <2>4, <3>1, <3>2 DEF TypeOK, CrearCliente, cliente
  <2> QED BY <1>1, <2>1, <2>2, <2>3, <2>4
<1>2. CASE Aceptar
  BY <1>2 DEF TypeOK, Aceptar, cliente
<1>3. ASSUME NEW c \in Conexiones, HiloCliente(c)
      PROVE  TypeOK'
  <2> USE DEF TypeOK, escucha, cliente
  <2>1. CASE Ciclo(c)
    BY <2>1 DEF Ciclo
  <2>2. CASE LeerRedis(c)
    <3>1. PICK p \in Estados : hilo' = [hilo EXCEPT ![c] = p]
      BY <2>2 DEF LeerRedis, Pasa
    <3>2. hilo' \in [Conexiones -> Estados]
      BY <1>3, <3>1
    <3>3. DOMAIN leido' = Conexiones /\ DOMAIN red' = Conexiones
      BY <2>2 DEF LeerRedis, Pasa
    <3> QED BY <2>2, <3>2, <3>3 DEF LeerRedis
  <2>3. CASE FinDeStream(c)
    BY <2>3 DEF FinDeStream, Pasa
  <2>4. CASE LeerHttp(c)
    <3>1. mando' \in [Conexiones -> BOOLEAN]
      BY <2>4, <1>3, BanderaCambiada DEF LeerHttp
    <3>2. hilo' \in [Conexiones -> Estados] /\ respuestas' \in [Conexiones -> Nat]
      <4>1. CASE Escribir(c, "espera")
        BY <4>1, <1>3, EscribirTipo
      <4>2. ~Escribir(c, "espera") => \E p \in Estados : Pasa(c, p, red[c]) /\ UNCHANGED respuestas
        BY <2>4 DEF LeerHttp
      <4>3. ASSUME NEW p \in Estados, Pasa(c, p, red[c]), UNCHANGED respuestas
            PROVE  hilo' \in [Conexiones -> Estados] /\ respuestas' \in [Conexiones -> Nat]
        BY <4>3, <1>3 DEF Pasa
      <4> QED BY <4>1, <4>2, <4>3
    <3>3. DOMAIN leido' = Conexiones /\ DOMAIN red' = Conexiones
      BY <2>4, <1>3 DEF LeerHttp, Escribir, Pasa
    <3> QED BY <2>4, <3>1, <3>2, <3>3 DEF LeerHttp
  <2>5. CASE Ejecutar(c)
    BY <2>5 DEF Ejecutar
  <2>6. CASE Responder(c)
    <3>1. mando' = [mando EXCEPT ![c] = mando[c] \/ proto[c] = "http"]
      BY <2>6 DEF Responder
    <3>2. (mando[c] \/ proto[c] = "http") \in BOOLEAN
      OBVIOUS
    <3>3. mando' \in [Conexiones -> BOOLEAN]
      BY <3>1, <3>2, <1>3, BanderaCambiada
    <3>4. hilo' \in [Conexiones -> Estados] /\ respuestas' \in [Conexiones -> Nat]
      <4>1. Escribir(c, "espera")
        BY <2>6 DEF Responder
      <4> QED BY <4>1, <1>3, EscribirTipo
    <3> QED BY <2>6, <3>3, <3>4 DEF Responder
  <2> QED BY <1>3, <2>1, <2>2, <2>3, <2>4, <2>5, <2>6 DEF HiloCliente
<1>4. CASE UNCHANGED vars
  BY <1>4 DEF TypeOK, vars
<1> QED BY <1>1, <1>2, <1>3, <1>4 DEF Next, HiloPrincipal

-----------------------------------------------------------------------------
(* A step that leaves the queue, and the threads of those in it, alone.    *)
LEMMA FilaAjena ==
  ASSUME TypeOK, Fila, UNCHANGED escucha,
         \A d \in Conexiones : hilo[d] = "cola" => hilo'[d] = "cola"
  PROVE  Fila'
<1>1. \A i \in DOMAIN pendientes : pendientes[i] \in Conexiones
  BY DEF TypeOK
<1> QED BY <1>1, ConexionesAssumption DEF Fila, TypeOK, escucha

(* A connection joins the end of the listener's queue, once.               *)
LEMMA FilaConectar ==
  ASSUME TypeOK, Fila, NEW c \in Conexiones, Conectar(c)
  PROVE  Fila'
<1>1. /\ pendientes' = Append(pendientes, c) /\ aceptando' = aceptando
      /\ hilo[c] = "no" /\ hilo'[c] = "cola"
      /\ \A d \in Conexiones : hilo[d] = "cola" => hilo'[d] = "cola"
  BY DEF TypeOK, Conectar
<1>2. pendientes \in Seq(Conexiones)
  BY DEF TypeOK
<1>3. /\ \A i \in DOMAIN pendientes : pendientes[i] \in Conexiones
      /\ \A i \in DOMAIN pendientes' :
           IF i \in DOMAIN pendientes THEN pendientes'[i] = pendientes[i]
           ELSE pendientes'[i] = c /\ i = Len(pendientes) + 1
  BY <1>1, <1>2
<1>4. aceptando' # Nadie => hilo'[aceptando'] = "cola" /\ aceptando' # c
  BY <1>1 DEF Fila, TypeOK
<1>5. \A i \in DOMAIN pendientes : hilo[pendientes[i]] = "cola" /\ pendientes[i] # aceptando
  BY DEF Fila
<1>6. \A i \in DOMAIN pendientes : pendientes[i] # c
  BY <1>5, <1>1
<1>7. \A i \in DOMAIN pendientes' : hilo'[pendientes'[i]] = "cola" /\ pendientes'[i] # aceptando'
  BY <1>1, <1>3, <1>4, <1>5, ConexionesAssumption
<1>8. \A i, j \in DOMAIN pendientes' : pendientes'[i] = pendientes'[j] => i = j
  BY <1>3, <1>6 DEF Fila
<1> QED BY <1>4, <1>7, <1>8 DEF Fila

(* The accept loop takes the first of the queue; it waits in it no more.   *)
LEMMA FilaAceptar ==
  ASSUME TypeOK, Fila, Aceptar
  PROVE  Fila'
<1>1. /\ pendientes \in Seq(Conexiones) /\ pendientes # <<>>
      /\ aceptando' = Head(pendientes) /\ pendientes' = Tail(pendientes) /\ hilo' = hilo
  BY DEF TypeOK, Aceptar
<1>2. 1 \in DOMAIN pendientes /\ aceptando' = pendientes[1]
  BY <1>1
<1>3. \A i \in DOMAIN pendientes' : i + 1 \in DOMAIN pendientes /\ pendientes'[i] = pendientes[i + 1]
  BY <1>1
<1>4. \A i \in DOMAIN pendientes' : i \in Nat /\ i + 1 # 1 /\ i \in Int
  BY <1>1
<1>5. \A i \in DOMAIN pendientes' : hilo'[pendientes'[i]] = "cola" /\ pendientes'[i] # aceptando'
  BY <1>1, <1>2, <1>3, <1>4 DEF Fila
<1>6. \A i, j \in DOMAIN pendientes' : pendientes'[i] = pendientes'[j] => i + 1 = j + 1
  BY <1>3 DEF Fila
<1>7. \A i, j \in DOMAIN pendientes' : pendientes'[i] = pendientes'[j] => i = j
  BY <1>4, <1>6
<1>8. hilo'[aceptando'] = "cola"
  BY <1>1, <1>2 DEF Fila
<1> QED BY <1>5, <1>7, <1>8 DEF Fila

(* crear_cliente frees the accept loop and touches no queue.               *)
LEMMA FilaCrear ==
  ASSUME TypeOK, Fila, NEW c \in Conexiones, CrearCliente(c)
  PROVE  Fila'
<1>1. /\ pendientes' = pendientes /\ aceptando = c /\ aceptando' = Nadie
      /\ \A d \in Conexiones \ {c} : hilo'[d] = hilo[d]
  BY DEF TypeOK, CrearCliente
<1>2. \A i \in DOMAIN pendientes : pendientes[i] \in Conexiones \ {c}
  BY <1>1 DEF TypeOK, Fila
<1> QED BY <1>1, <1>2, ConexionesAssumption DEF Fila

(* The queue of the listener.                                              *)
LEMMA FilaInductiva ==
  ASSUME TypeOK, Fila, [Next]_vars
  PROVE  Fila'
<1>1. CASE UNCHANGED vars
  BY <1>1, FilaAjena DEF vars, escucha
<1>2. ASSUME NEW c \in Conexiones, Enviar(c) \/ Cerrar(c)
      PROVE  Fila'
  BY <1>2, FilaAjena DEF Enviar, Cerrar
<1>3. ASSUME NEW c \in Conexiones, HiloCliente(c)
      PROVE  Fila'
  <2>1. UNCHANGED escucha
    BY <1>3 DEF HiloCliente, Ciclo, LeerRedis, FinDeStream, LeerHttp, Ejecutar, Responder
  <2>2. hilo[c] # "cola"
    BY <1>3 DEF HiloCliente, Ciclo, LeerRedis, FinDeStream, LeerHttp, Ejecutar, Responder
  <2>3. \A d \in Conexiones \ {c} : hilo'[d] = hilo[d]
    BY <1>3, PasosDeUna DEF Solo, EstadoDe
  <2> QED BY <2>1, <2>2, <2>3, FilaAjena
<1> QED BY <1>1, <1>2, <1>3, FilaConectar, FilaAceptar, FilaCrear DEF Next, HiloPrincipal

-----------------------------------------------------------------------------
(* The unit after one that was sent is a unit, and one farther.            *)
LEMMA SiguienteUnidad ==
  ASSUME NEW c \in Conexiones, NEW u \in Unidades(c)
  PROVE  /\ Siguiente(c, u).req \in Nat /\ u.req <= Siguiente(c, u).req
         /\ Siguiente(c, u).req \in DOMAIN Guion[c] => Siguiente(c, u) \in Unidades(c)
         /\ Lejos(c, u, Siguiente(c, u), 1)
         /\ \A v \in Unidades(c), d \in Nat : Lejos(c, v, u, d) => Lejos(c, v, Siguiente(c, u), d + 1)
<1>1. /\ \A r \in DOMAIN Guion[c] : r \in Nat /\ Guion[c][r].largo \in Nat
  BY ConexionesAssumption
<1>2. u \in [req : DOMAIN Guion[c], pos : Nat] /\ u.pos <= Guion[c][u.req].largo
  BY DEF Unidades
<1>3. CASE u.pos < Guion[c][u.req].largo
  <2>1. Siguiente(c, u) = [req |-> u.req, pos |-> u.pos + 1]
    BY <1>3 DEF Siguiente, Pedido, Unidad
  <2> QED BY <1>1, <1>2, <1>3, <2>1 DEF Lejos, Pedido, Unidades
<1>4. CASE ~(u.pos < Guion[c][u.req].largo)
  <2>1. Siguiente(c, u) = [req |-> u.req + 1, pos |-> 0]
    BY <1>4 DEF Siguiente, Pedido, Unidad
  <2>2. u.pos = Guion[c][u.req].largo
    BY <1>1, <1>2, <1>4
  <2> QED BY <1>1, <1>2, <2>1, <2>2 DEF Lejos, Pedido, Unidades
<1> QED BY <1>3, <1>4

(* Sending a unit makes the chain longer.                                  *)
LEMMA CadenaCrece ==
  ASSUME NEW c \in Conexiones, NEW s \in Seq(Unidades(c)), NEW u \in Unidades(c), Cadena(c, s, u)
  PROVE  Cadena(c, Append(s, u), Siguiente(c, u))
<1> DEFINE t == Append(s, u)  n == Siguiente(c, u)
<1>1. /\ Len(s) \in Nat /\ DOMAIN s = 1 .. Len(s) /\ DOMAIN t = 1 .. Len(s) + 1
      /\ Len(t) = Len(s) + 1 /\ t[Len(s) + 1] = u
      /\ \A i \in DOMAIN s : t[i] = s[i] /\ s[i] \in Unidades(c)
  OBVIOUS
<1>2. ASSUME NEW i \in DOMAIN t
      PROVE  Lejos(c, t[i], n, Len(t) + 1 - i)
  <2>1. CASE i \in DOMAIN s
    <3>1. Lejos(c, s[i], u, Len(s) + 1 - i) /\ Len(s) + 1 - i \in Nat
      BY <2>1, <1>1 DEF Cadena
    <3>2. Lejos(c, s[i], n, (Len(s) + 1 - i) + 1)
      BY <3>1, <2>1, <1>1, SiguienteUnidad
    <3>3. (Len(s) + 1 - i) + 1 = Len(t) + 1 - i
      BY <1>1, <2>1
    <3> QED BY <3>2, <3>3, <1>1, <2>1
  <2>2. CASE i \notin DOMAIN s
    <3>1. i = Len(s) + 1 /\ Len(t) + 1 - i = 1
      BY <2>2, <1>1
    <3> QED BY <3>1, <1>1, SiguienteUnidad
  <2> QED BY <2>1, <2>2
<1>3. ASSUME NEW i \in DOMAIN t, NEW j \in DOMAIN t, i < j
      PROVE  Lejos(c, t[i], t[j], j - i)
  <2>1. i \in DOMAIN s
    BY <1>1, <1>3
  <2>2. CASE j \in DOMAIN s
    BY <1>1, <1>3, <2>1, <2>2 DEF Cadena
  <2>3. CASE j \notin DOMAIN s
    <3>1. j = Len(s) + 1
      BY <1>1, <2>3
    <3> QED BY <1>1, <2>1, <3>1 DEF Cadena
  <2> QED BY <2>2, <2>3
<1> QED BY <1>2, <1>3 DEF Cadena

(* Sending a unit goes on with the request, or ends it.                    *)
LEMMA EmpiezaCrece ==
  ASSUME NEW c \in Conexiones, NEW s \in Seq(Unidades(c)), NEW u \in Unidades(c),
         NEW r \in Nat, u = Unidad(r, Len(s)), \A i \in DOMAIN s : s[i] = Unidad(r, i - 1)
  PROVE  Empieza(c, Append(s, u), r, Siguiente(c, u))
<1> DEFINE t == Append(s, u)
<1>1. /\ Len(s) \in Nat /\ DOMAIN t = 1 .. Len(s) + 1
      /\ Len(t) = Len(s) + 1 /\ t[Len(s) + 1] = u
      /\ \A i \in 1 .. Len(s) : t[i] = s[i] /\ i \in DOMAIN s
  OBVIOUS
<1>2. \A i \in DOMAIN t : t[i] = Unidad(r, i - 1)
  <2>1. (Len(s) + 1) - 1 = Len(s)
    BY <1>1
  <2>2. \A i \in DOMAIN t : i \in 1 .. Len(s) \/ i = Len(s) + 1
    BY <1>1
  <2> QED BY <1>1, <2>1, <2>2
<1>3. u.req = r /\ u.pos = Len(s) /\ u.pos <= Guion[c][r].largo
  BY DEF Unidades, Unidad
<1>4. Guion[c][r].largo \in Nat
  BY ConexionesAssumption, <1>3 DEF Unidades
<1>5. CASE u.pos < Guion[c][r].largo
  BY <1>1, <1>2, <1>3, <1>5 DEF Siguiente, Pedido, Empieza
<1>6. CASE ~(u.pos < Guion[c][r].largo)
  <2>1. Len(t) = Guion[c][r].largo + 1
    BY <1>1, <1>3, <1>4, <1>6
  <2>2. Siguiente(c, u) = Unidad(r + 1, 0)
    BY <1>3, <1>6 DEF Siguiente, Pedido
  <2> QED BY <1>2, <2>1, <2>2 DEF Empieza
<1> QED BY <1>5, <1>6

(* The pipe holds units.                                                   *)
LEMMA TuboTipo ==
  ASSUME NEW c \in Conexiones, TipoDe(c)
  PROVE  Tubo(c) \in Seq(Unidades(c))
  BY DEF TipoDe, Tubo

-----------------------------------------------------------------------------
(* The steps of a client, and of the listener, keep what is said of c.     *)
LEMMA ConectarInv ==
  ASSUME TypeOK, NEW c \in Conexiones, InvDe(c), Conectar(c)
  PROVE  InvDe(c)'
<1>1. /\ hilo[c] = "no" /\ hilo'[c] = "cola"
      /\ UNCHANGED <<proximo[c], cerrada[c], red[c], proto[c], mando[c], leido[c], hechos[c],
                     respuestas[c]>>
  BY DEF TypeOK, Conectar, cliente
<1>2. TipoDe(c)'
  BY <1>1 DEF InvDe, TipoDe
<1>3. proto[c] = "ninguno" /\ Tubo(c)' = Tubo(c)
  BY <1>1 DEF InvDe, TipoDe, Tubo
<1>4. Intacta(c)' /\ Atendida(c)'
  BY <1>1, <1>3 DEF InvDe, Intacta, Atendida
<1>5. EnOrden(c)'
  BY <1>1, <1>3 DEF InvDe, EnOrden, Pasado
<1>6. Paciente(c)'
  BY <1>1, <1>3 DEF InvDe, Paciente, Numerados, Espera, Cortada, Enteros
<1> QED BY <1>2, <1>4, <1>5, <1>6 DEF InvDe

(* A client that leaves changes nothing of what it sent or was run for it. *)
LEMMA CerrarInv ==
  ASSUME TypeOK, NEW c \in Conexiones, InvDe(c), Cerrar(c)
  PROVE  InvDe(c)'
<1>1. /\ cerrada'[c]
      /\ UNCHANGED <<proximo[c], hilo[c], red[c], proto[c], mando[c], leido[c], hechos[c],
                     respuestas[c]>>
  BY DEF TypeOK, Cerrar
<1>2. TipoDe(c)' /\ Intacta(c)' /\ Atendida(c)'
  BY <1>1 DEF InvDe, TipoDe, Intacta, Atendida
<1>3. Tubo(c)' = Tubo(c)
  BY <1>1 DEF Tubo
<1>4. EnOrden(c)'
  BY <1>1, <1>3 DEF InvDe, EnOrden, Pasado
<1>5. Paciente(c)'
  BY <1>1, <1>3 DEF InvDe, Paciente, Numerados, Espera, Cortada, Enteros
<1> QED BY <1>2, <1>4, <1>5 DEF InvDe

(* crear_cliente only peeks: the units stay in the socket for the thread.  *)
LEMMA CrearClienteInv ==
  ASSUME TypeOK, NEW c \in Conexiones, InvDe(c), hilo[c] = "cola", CrearCliente(c)
  PROVE  InvDe(c)'
<1>1. /\ hilo'[c] = "espera" /\ proto'[c] \in {"http", "redis"}
      /\ UNCHANGED <<proximo[c], cerrada[c], red[c], mando[c], leido[c], hechos[c],
                     respuestas[c]>>
  BY DEF TypeOK, CrearCliente, cliente
<1>2. TipoDe(c)'
  BY <1>1 DEF InvDe, TipoDe
<1>3. proto[c] = "ninguno" /\ Tubo(c)' = Tubo(c)
  BY <1>1 DEF InvDe, TipoDe, Tubo
<1>4. Intacta(c)' /\ Atendida(c)'
  BY <1>1, <1>3 DEF InvDe, Intacta, Atendida
<1>5. EnOrden(c)'
  BY <1>1, <1>3 DEF InvDe, EnOrden, Pasado
<1>6. Paciente(c)'
  BY <1>1, <1>3 DEF InvDe, Paciente, Numerados, Espera, Cortada, Enteros
<1> QED BY <1>2, <1>4, <1>5, <1>6 DEF InvDe

(* A turn of the loop of manejar_cliente consumes nothing from the socket. *)
LEMMA CicloInv ==
  ASSUME TypeOK, NEW c \in Conexiones, InvDe(c), Ciclo(c)
  PROVE  InvDe(c)'
<1>1. /\ hilo[c] = "espera" /\ leido'[c] = <<>> /\ hilo'[c] \in {"lee", "fin"}
      /\ hilo'[c] = "lee" <=> EnvioInformacion(c)
      /\ UNCHANGED <<proximo[c], cerrada[c], red[c], proto[c], mando[c], hechos[c],
                     respuestas[c]>>
  BY DEF TypeOK, Ciclo, cliente
<1>2. TipoDe(c)'
  BY <1>1 DEF InvDe, TipoDe
<1>3. proto[c] # "ninguno" /\ Tubo(c)' = Tubo(c)
  <2>1. red[c] \in Seq(Unidades(c))
    BY DEF InvDe, TipoDe
  <2>2. <<>> \o red[c] = red[c]
    BY <2>1
  <2> QED BY <1>1, <2>2 DEF InvDe, TipoDe, Tubo
<1>4. Intacta(c)' /\ Atendida(c)'
  BY <1>1, <1>3 DEF InvDe, Intacta, Atendida, EnvioInformacion
<1>5. EnOrden(c)'
  BY <1>1, <1>3 DEF InvDe, EnOrden, Pasado
<1>6. Paciente(c)'
  BY <1>1, <1>3 DEF InvDe, Paciente, Numerados, Espera, Cortada, Enteros, EnvioInformacion
<1> QED BY <1>2, <1>4, <1>5, <1>6 DEF InvDe

(* A unit that a client sends joins the end of what its socket holds, so the*)
(* run of consecutive units that starts with the one read first grows by one.*)
LEMMA EnviarInv ==
  ASSUME TypeOK, NEW c \in Conexiones, InvDe(c), Enviar(c)
  PROVE  InvDe(c)'
<1> DEFINE u == proximo[c]
<1>1. /\ hilo[c] \notin {"no", "fin"} /\ ~cerrada[c]
      /\ c \in Apuradas \/ u.pos > 0 \/ respuestas[c] = u.req - 1
      /\ red'[c] = Append(red[c], u) /\ proximo'[c] = Siguiente(c, u)
      /\ UNCHANGED <<cerrada[c], hilo[c], proto[c], mando[c], leido[c], hechos[c],
                     respuestas[c]>>
  BY DEF TypeOK, Enviar
<1>2. u \in Unidades(c) /\ u.req \in Nat /\ red[c] \in Seq(Unidades(c)) /\ leido[c] \in Seq(Unidades(c))
  BY DEF Enviar, InvDe, TipoDe, TypeOK
<1>3. TipoDe(c)'
  <2>1. red'[c] \in Seq(Unidades(c))
    BY <1>1, <1>2
  <2> QED BY <1>1, <1>2, <2>1, SiguienteUnidad DEF InvDe, TipoDe
<1>4. Tubo(c)' = Append(Tubo(c), u) /\ Tubo(c) \in Seq(Unidades(c))
  <2>1. leido[c] \o Append(red[c], u) = Append(leido[c] \o red[c], u)
    <3> HIDE DEF u
    <3>1. \A s, t \in Seq(Unidades(c)) : s \o Append(t, u) = Append(s \o t, u)
      BY <1>2, PegadaExtendida
    <3> QED BY <1>2, <3>1
  <2> QED BY <1>1, <2>1, TuboTipo DEF Tubo, InvDe
<1>5. Intacta(c)' /\ Atendida(c)'
  <2>1. red'[c] # <<>> /\ red'[c][1] = IF red[c] = <<>> THEN u ELSE red[c][1]
    BY <1>1, <1>2, PrimeraDeExtendida
  <2>2. Intacta(c)'
    BY <1>1, <2>1 DEF InvDe, Intacta
  <2> QED BY <1>1, <2>2 DEF InvDe, Atendida
<1>6. EnOrden(c)'
  <2> SUFFICES ASSUME proto[c] # "http"
               PROVE  EnOrden(c)'
    BY <1>1 DEF EnOrden
  <2>1. Cadena(c, Tubo(c)', proximo'[c])
    BY <1>1, <1>2, <1>4, CadenaCrece DEF InvDe, EnOrden
  <2>2. ASSUME NEW r \in Nat, Pasado(c, r)
        PROVE  Pasado(c, r)'
    <3>1. r < u.req
      BY <1>1, <2>2 DEF Pasado
    <3>2. \A i \in DOMAIN Tubo(c)' : r < Tubo(c)'[i].req
      BY <1>4, <3>1, <2>2 DEF Pasado
    <3>3. r < proximo'[c].req
      BY <1>1, <1>2, <3>1, SiguienteUnidad
    <3> QED BY <3>2, <3>3 DEF Pasado
  <2>3. \A k \in DOMAIN hechos[c] : hechos[c][k].req \in Nat
    <3>1. hechos[c] \in Seq(Hechos)
      BY DEF InvDe, TipoDe
    <3>2. \A k \in DOMAIN hechos[c] : hechos[c][k] \in Hechos
      BY <3>1
    <3> QED BY <3>2 DEF Hechos
  <2>4. hilo[c] = "ejecuta" => leido[c][1].req \in Nat
    <3>1. hilo[c] = "ejecuta" => leido[c] # <<>>
      BY DEF InvDe, EnOrden
    <3>2. leido[c] # <<>> => leido[c][1] \in Unidades(c)
      BY <1>2
    <3>3. DOMAIN Guion[c] \subseteq Nat
      BY ConexionesAssumption
    <3> QED BY <3>1, <3>2, <3>3 DEF Unidades
  <2>5. \A k \in DOMAIN hechos[c] : Pasado(c, hechos[c][k].req)'
    BY <1>1, <2>2, <2>3 DEF InvDe, EnOrden
  <2>6. hilo[c] = "ejecuta" => Pasado(c, leido[c][1].req)'
    BY <1>1, <2>2, <2>4 DEF InvDe, EnOrden
  <2> QED BY <1>1, <2>1, <2>5, <2>6 DEF InvDe, EnOrden
<1>7. Paciente(c)'
  <2> SUFFICES ASSUME proto[c] # "http", c \notin Apuradas
               PROVE  Paciente(c)'
    BY <1>1 DEF Paciente
  <2> DEFINE n == Len(hechos[c])
  <2>1. n \in Nat
    BY DEF InvDe, TipoDe
  <2>2. Numerados(c) /\ Espera(c)
    BY DEF InvDe, Paciente
  <2>3. hilo[c] \notin {"ejecuta", "responde"}
    BY <1>1, <2>1, <2>2 DEF Espera, Unidad
  <2>4. /\ hilo[c] \in {"no", "cola", "espera", "lee"}
        /\ respuestas[c] = n /\ Enteros(c) /\ Empieza(c, Tubo(c), n + 1, u)
    BY <1>1, <2>2, <2>3 DEF Espera, Cortada, TypeOK
  <2>5. u # Unidad((n + 1) + 1, 0)
    BY <1>1, <2>1, <2>4 DEF Unidad
  <2>6. u = Unidad(n + 1, Len(Tubo(c))) /\ \A i \in DOMAIN Tubo(c) : Tubo(c)[i] = Unidad(n + 1, i - 1)
    BY <2>4, <2>5 DEF Empieza
  <2>7. Empieza(c, Tubo(c)', n + 1, proximo'[c])
    BY <1>1, <1>2, <1>4, <2>1, <2>6, EmpiezaCrece
  <2>8. Numerados(c)' /\ Enteros(c)'
    BY <1>1, <2>2, <2>4 DEF Numerados, Enteros
  <2> QED BY <1>1, <2>4, <2>7, <2>8 DEF Paciente, Espera
<1> QED BY <1>3, <1>5, <1>6, <1>7 DEF InvDe

-----------------------------------------------------------------------------
(* The steps of the thread of a RESP client keep what is said of c.  Both  *)
(* the parser that has not finished and the thread that ends:              *)
LEMMA LeerSinTerminar ==
  ASSUME TypeOK, NEW c \in Conexiones, InvDe(c), hilo[c] = "lee", proto[c] = "redis",
         red'[c] = <<>>, leido'[c] \in Seq(Unidades(c)),
         \/ hilo'[c] = "fin"
         \/ hilo'[c] = "lee" /\ leido'[c] = leido[c] \o red[c],
         UNCHANGED <<proximo[c], cerrada[c], proto[c], mando[c], hechos[c], respuestas[c]>>
  PROVE  InvDe(c)'
<1>1. TipoDe(c)'
  <2>1. red'[c] \in Seq(Unidades(c))
    OBVIOUS
  <2>2. hilo'[c] \notin {"no", "cola"}
    OBVIOUS
  <2> QED BY <2>1, <2>2 DEF InvDe, TipoDe
<1>2. Intacta(c)' /\ Atendida(c)'
  BY DEF Intacta, Atendida
<1>3. Tubo(c)' = <<>> \/ Tubo(c)' = Tubo(c)
  <2>1. leido'[c] \o <<>> = leido'[c]
    BY ConcatEmptySeq
  <2> QED BY <2>1 DEF Tubo
<1>4. EnOrden(c)'
  <2>1. Cadena(c, Tubo(c)', proximo'[c])
    BY <1>3 DEF InvDe, EnOrden, Cadena
  <2>2. \A k \in DOMAIN hechos[c] : Pasado(c, hechos[c][k].req)'
    BY <1>3 DEF InvDe, EnOrden, Pasado
  <2> QED BY <2>1, <2>2 DEF InvDe, EnOrden
<1>5. Paciente(c)'
  <2>1. hilo'[c] = "lee" => Tubo(c)' = Tubo(c)
    <3>1. leido'[c] \o <<>> = leido'[c]
      BY ConcatEmptySeq
    <3> QED BY <3>1 DEF Tubo
  <2> QED BY <2>1 DEF InvDe, Paciente, Numerados, Espera, Cortada, Enteros
<1> QED BY <1>1, <1>2, <1>4, <1>5 DEF InvDe

(* A parser that goes to execute has taken the last word of its command,   *)
(* or gone on into the next one.                                           *)
LEMMA UltimaPalabra ==
  ASSUME NEW c \in Conexiones, NEW us \in Seq(Unidades(c)), us # <<>>,
         Completo(c, us) \/ Corrido(c, us)
  PROVE  \E i \in DOMAIN us : \/ us[i].req = us[1].req /\ us[i].pos = Guion[c][us[1].req].largo
                              \/ us[i].req > us[1].req
<1>1. \A v \in ToSet(us) : \E i \in DOMAIN us : v = us[i]
  BY DEF ToSet
<1>2. CASE Corrido(c, us)
  BY <1>1, <1>2 DEF Corrido
<1>3. CASE Completo(c, us)
  <2>1. us[1] \in Unidades(c)
    OBVIOUS
  <2>2. Guion[c][us[1].req].largo \in Nat /\ Guion[c][us[1].req].largo # 0
    BY <1>3, <2>1, ConexionesAssumption DEF Completo, EnSuLugar, EsHttp, Pedido, Unidades
  <2>3. Guion[c][us[1].req].largo \in Palabras(c, us)
    BY <1>3, <2>2 DEF Completo, Pedido
  <2> QED BY <1>1, <2>3 DEF Palabras
<1> QED BY <1>2, <1>3

(* The parser that has its command, whole or as much as there will be.     *)
LEMMA LeerComando ==
  ASSUME TypeOK, NEW c \in Conexiones, InvDe(c), hilo[c] = "lee", proto[c] = "redis",
         red'[c] = <<>>, hilo'[c] = "ejecuta", Tubo(c) # <<>>,
         leido'[c] = Tubo(c),
         cerrada[c] \/ Completo(c, Tubo(c)) \/ Corrido(c, Tubo(c)),
         UNCHANGED <<proximo[c], cerrada[c], proto[c], mando[c], hechos[c], respuestas[c]>>
  PROVE  InvDe(c)'
<1> DEFINE us == Tubo(c)  n == Len(hechos[c])
<1>1. us \in Seq(Unidades(c)) /\ 1 \in DOMAIN us /\ us[1] \in Unidades(c)
  BY TuboTipo DEF InvDe
<1>2. TipoDe(c)' /\ Intacta(c)' /\ Atendida(c)'
  <2>1. leido'[c] \in Seq(Unidades(c)) /\ red'[c] \in Seq(Unidades(c))
    BY <1>1
  <2> QED BY <2>1 DEF InvDe, TipoDe, Intacta, Atendida
<1>3. Tubo(c)' = <<>>
  BY DEF Tubo
<1>4. cerrada[c] \/ us[1].req < proximo[c].req
  <2> SUFFICES ASSUME ~cerrada[c]
               PROVE  us[1].req < proximo[c].req
    OBVIOUS
  <2> HIDE DEF us
  <2>1. PICK i \in DOMAIN us :
          \/ us[i].req = us[1].req /\ us[i].pos = Guion[c][us[1].req].largo
          \/ us[i].req > us[1].req
    BY <1>1, UltimaPalabra DEF us
  <2>2. us[i] \in Unidades(c) /\ Lejos(c, us[i], proximo[c], Len(us) + 1 - i)
    BY <1>1 DEF InvDe, EnOrden, Cadena, us
  <2>3. Len(us) + 1 - i >= 1 /\ Len(us) + 1 - i \in Nat
    BY <1>1
  <2>4. us[1].req = proximo[c].req => proximo[c].pos <= Guion[c][us[1].req].largo
    BY <1>1 DEF InvDe, TipoDe, Unidades
  <2>5. /\ us[1].req \in Nat /\ us[i].req \in Nat /\ Guion[c][us[1].req].largo \in Nat
        /\ proximo[c].req \in Nat
    <3>1. \A r \in DOMAIN Guion[c] : r \in Nat /\ Guion[c][r].largo \in Nat
      BY ConexionesAssumption
    <3>2. us[1].req \in DOMAIN Guion[c] /\ us[i].req \in DOMAIN Guion[c]
      BY <1>1, <2>2 DEF Unidades
    <3>3. proximo[c].req \in Nat
      BY DEF TypeOK
    <3> QED BY <3>1, <3>2, <3>3
  <2>6. us[i].req <= proximo[c].req
    BY <2>2, <2>5 DEF Lejos
  <2>7. CASE us[i].req > us[1].req
    BY <2>5, <2>6, <2>7
  <2>8. CASE us[i].req = us[1].req /\ us[i].pos = Guion[c][us[1].req].largo
    <3>1. us[i].req = proximo[c].req => proximo[c].pos = us[i].pos + (Len(us) + 1 - i)
      BY <2>2, <2>5 DEF Lejos
    <3>2. us[1].req # proximo[c].req
      BY <2>3, <2>4, <2>5, <2>8, <3>1
    <3> QED BY <2>5, <2>6, <2>8, <3>2
  <2> QED BY <2>1, <2>7, <2>8
<1>5. EnOrden(c)'
  <2>1. Cadena(c, Tubo(c)', proximo'[c])
    BY <1>3 DEF Cadena
  <2>2. \A k \in DOMAIN hechos[c] : Pasado(c, hechos[c][k].req) /\ Pasado(c, hechos[c][k].req)'
    BY <1>3 DEF InvDe, EnOrden, Pasado
  <2>3. Pasado(c, leido[c][1].req)'
    BY <1>3, <1>4 DEF Pasado
  <2>4. \A k \in DOMAIN hechos[c] : hechos[c][k].req < us[1].req
    BY <2>2, <1>1 DEF Pasado
  <2> QED BY <2>1, <2>2, <2>3, <2>4 DEF InvDe, EnOrden
<1>6. Paciente(c)'
  <2> SUFFICES ASSUME c \notin Apuradas
               PROVE  Paciente(c)'
    BY DEF Paciente
  <2>1. Numerados(c) /\ Espera(c)
    BY DEF InvDe, Paciente
  <2>2. respuestas[c] = n /\ Enteros(c) /\ Empieza(c, us, n + 1, proximo[c]) /\ n \in Nat
    BY <2>1 DEF Espera, Cortada, InvDe, TipoDe
  <2>3. us[1] = Unidad(n + 1, 1 - 1)
    BY <1>1, <2>2 DEF Empieza
  <2>4. us[1].req = n + 1
    BY <2>3 DEF Unidad
  <2>5. ASSUME ~cerrada[c]
        PROVE  Palabras(c, us) = 1 .. Guion[c][n + 1].largo /\ proximo[c] = Unidad(n + 2, 0)
    <3>1. proximo[c] # Unidad(n + 1, Len(us))
      BY <1>4, <2>4, <2>5 DEF Unidad
    <3>2. proximo[c] = Unidad((n + 1) + 1, 0)
      BY <2>2, <3>1 DEF Empieza
    <3>3. (n + 1) + 1 = n + 2
      BY <2>2
    <3>4. \A i \in DOMAIN us : us[i].req = us[1].req
      BY <2>2, <2>4 DEF Empieza, Unidad
    <3>5. ~Corrido(c, us)
      <4>1. ASSUME NEW v \in ToSet(us)
            PROVE  v.req = us[1].req /\ us[1].req \in Nat
        BY <1>1, <2>2, <2>4, <3>4 DEF ToSet
      <4> QED BY <4>1 DEF Corrido
    <3>6. Palabras(c, us) = 1 .. Pedido(c, us[1]).largo
      BY <2>5, <3>5 DEF Completo
    <3> QED BY <2>4, <3>2, <3>3, <3>6 DEF Pedido
  <2>6. Numerados(c)' /\ Enteros(c)'
    BY <2>1, <2>2 DEF Numerados, Enteros
  <2> QED BY <2>2, <2>4, <2>5, <2>6 DEF Paciente, Espera
<1> QED BY <1>2, <1>5, <1>6 DEF InvDe

(* A read moves every unit of the socket to the parser, in their order.    *)
LEMMA LeerRedisInv ==
  ASSUME TypeOK, NEW c \in Conexiones, InvDe(c), LeerRedis(c)
  PROVE  InvDe(c)'
<1> DEFINE us == leido[c] \o red[c]
<1>1. /\ hilo[c] = "lee" /\ proto[c] = "redis" /\ red[c] # <<>> /\ red'[c] = <<>>
      /\ UNCHANGED <<proximo[c], cerrada[c], proto[c], mando[c], hechos[c], respuestas[c]>>
      /\ leido'[c] = us
      /\ \/ (Completo(c, us) \/ Corrido(c, us)) /\ hilo'[c] = "ejecuta"
         \/ hilo'[c] \in {"lee", "fin"}
  BY DEF TypeOK, LeerRedis, Pasa, cliente
<1>2. us \in Seq(Unidades(c)) /\ us # <<>> /\ Tubo(c) = us
  BY <1>1 DEF InvDe, TipoDe, Tubo
<1>3. CASE hilo'[c] \in {"lee", "fin"}
  BY <1>1, <1>2, <1>3, LeerSinTerminar
<1>4. CASE (Completo(c, us) \/ Corrido(c, us)) /\ hilo'[c] = "ejecuta"
  BY <1>1, <1>2, <1>4, LeerComando
<1> QED BY <1>1, <1>3, <1>4

(* The end of the stream closes a command with the words that came.        *)
LEMMA FinDeStreamInv ==
  ASSUME TypeOK, NEW c \in Conexiones, InvDe(c), FinDeStream(c)
  PROVE  InvDe(c)'
<1>1. /\ hilo[c] = "lee" /\ proto[c] = "redis" /\ red[c] = <<>> /\ cerrada[c]
      /\ UNCHANGED <<proximo[c], red[c], cerrada[c], proto[c], mando[c], leido[c], hechos[c], respuestas[c]>>
      /\ \/ hilo'[c] = "ejecuta" /\ (Palabras(c, leido[c]) # {} \/ Corrido(c, leido[c]))
         \/ hilo'[c] = "fin"
  BY DEF TypeOK, FinDeStream, Pasa, cliente
<1>2. leido[c] \in Seq(Unidades(c))
  BY DEF InvDe, TipoDe
<1>3. Tubo(c) = leido[c]
  BY <1>1, <1>2, ConcatEmptySeq DEF Tubo
<1>4. CASE hilo'[c] = "fin"
  BY <1>1, <1>2, <1>4, LeerSinTerminar
<1>5. CASE hilo'[c] = "ejecuta" /\ (Palabras(c, leido[c]) # {} \/ Corrido(c, leido[c]))
  <2>1. leido[c] # <<>>
    BY <1>5 DEF Palabras, Corrido, ToSet
  <2> QED BY <1>1, <1>2, <1>3, <1>5, <2>1, LeerComando
<1> QED BY <1>1, <1>4, <1>5

-----------------------------------------------------------------------------
(* The steps of an HTTP client, the execution and the answer.              *)
LEMMA LeerHttpInv ==
  ASSUME TypeOK, NEW c \in Conexiones, InvDe(c), LeerHttp(c)
  PROVE  InvDe(c)'
<1>1. /\ hilo[c] = "lee" /\ proto[c] = "http" /\ red[c] # <<>> /\ red'[c] = <<>>
      /\ UNCHANGED <<proximo[c], cerrada[c], proto[c], hechos[c]>>
  BY DEF TypeOK, LeerHttp, cliente
<1>2. mando'[c]
  BY DEF TypeOK, LeerHttp
<1>3. /\ respuestas'[c] = respuestas[c] \/ respuestas'[c] = respuestas[c] + 1
      /\ leido'[c] = leido[c] \/ leido'[c] = red[c]
      /\ hilo'[c] \in {"espera", "fin", "ejecuta"}
      /\ hilo'[c] = "ejecuta" => respuestas'[c] = respuestas[c] /\ leido'[c] = red[c]
  <2>1. CASE Escribir(c, "espera") /\ UNCHANGED leido
    BY <2>1 DEF TypeOK, Escribir
  <2>2. ASSUME NEW p \in {"ejecuta", "fin"}, Pasa(c, p, red[c]), UNCHANGED respuestas
        PROVE  <1>3!:
    BY <2>2 DEF TypeOK, Pasa
  <2> QED BY <2>1, <2>2 DEF LeerHttp
<1>4. ~mando[c]
  BY <1>1 DEF InvDe, Atendida
<1>5. respuestas[c] = 0 /\ hechos[c] = <<>> /\ red[c][1] = Unidad(1, 0)
  BY <1>1, <1>4 DEF InvDe, Intacta
<1>6. TipoDe(c)'
  BY <1>1, <1>3 DEF InvDe, TipoDe
<1>7. Intacta(c)'
  BY <1>1, <1>2, <1>3 DEF Intacta
<1>8. Atendida(c)'
  <2>1. Len(hechos'[c]) = 0 /\ DOMAIN hechos'[c] = {}
    BY <1>1, <1>5
  <2>2. red[c][1].req = 1
    BY <1>5 DEF Unidad
  <2> QED BY <1>1, <1>3, <1>5, <2>1, <2>2 DEF Atendida
<1>9. EnOrden(c)' /\ Paciente(c)'
  BY <1>1 DEF EnOrden, Paciente
<1> QED BY <1>6, <1>7, <1>8, <1>9 DEF InvDe

(* A command that is run is the next of its client and is run once.        *)
LEMMA EjecutarInv ==
  ASSUME TypeOK, NEW c \in Conexiones, InvDe(c), Ejecutar(c)
  PROVE  InvDe(c)'
<1>0. PICK corre \in BOOLEAN :
        hechos' = [hechos EXCEPT ![c] = Append(@,
          [req |-> leido[c][1].req, palabras |-> Palabras(c, leido[c]), corrio |-> corre])]
  BY DEF Ejecutar
<1> DEFINE n == Len(hechos[c])
           h == [req |-> leido[c][1].req, palabras |-> Palabras(c, leido[c]), corrio |-> corre]
<1>1. /\ hilo[c] = "ejecuta" /\ hilo'[c] = "responde" /\ hechos'[c] = Append(hechos[c], h)
      /\ UNCHANGED <<proximo[c], cerrada[c], red[c], proto[c], mando[c], leido[c], respuestas[c]>>
  BY <1>0 DEF TypeOK, Ejecutar, cliente
<1>2. proto[c] = "http" => mando[c]
  BY <1>1 DEF InvDe, Intacta
<1>3. leido[c] \in Seq(Unidades(c)) /\ leido[c] # <<>>
  BY <1>1, <1>2 DEF InvDe, TipoDe, Atendida, EnOrden
<1>4. leido[c][1] \in Unidades(c) /\ leido[c][1].req \in Nat /\ Len(leido[c]) \in Nat
  <2>1. leido[c][1] \in Unidades(c)
    BY <1>3
  <2>2. DOMAIN Guion[c] \subseteq Nat
    BY ConexionesAssumption
  <2> QED BY <1>3, <2>1, <2>2 DEF Unidades
<1>5. h \in Hechos /\ h.req = leido[c][1].req /\ h.palabras = Palabras(c, leido[c])
  <2>1. \A u \in ToSet(leido[c]) : u.pos \in Nat
    BY <1>3 DEF ToSet, Unidades
  <2>2. Palabras(c, leido[c]) \in SUBSET Nat
    BY <2>1 DEF Palabras
  <2>3. h \in Hechos
    BY <1>4, <2>2 DEF Hechos
  <2> QED BY <2>3
<1> HIDE DEF h
<1>6. /\ hechos[c] \in Seq(Hechos) /\ n \in Nat /\ hechos'[c] \in Seq(Hechos)
      /\ Len(hechos'[c]) = n + 1 /\ hechos'[c][n + 1] = h
      /\ DOMAIN hechos'[c] = 1 .. n + 1 /\ DOMAIN hechos[c] = 1 .. n
      /\ \A k \in 1 .. n : hechos'[c][k] = hechos[c][k]
  BY <1>1, <1>5 DEF InvDe, TipoDe
<1>7. \A k \in DOMAIN hechos'[c] : k \in DOMAIN hechos[c] \/ k = n + 1
  BY <1>6
<1>8. TipoDe(c)' /\ Intacta(c)'
  BY <1>1, <1>2, <1>6 DEF InvDe, TipoDe, Intacta
<1>9. Atendida(c)'
  <2> SUFFICES ASSUME proto[c] = "http", mando[c]
               PROVE  Atendida(c)'
    BY <1>1 DEF Atendida
  <2>1. hechos[c] = <<>> /\ h.req = 1 /\ respuestas[c] = 0
    BY <1>1, <1>5 DEF InvDe, Atendida
  <2>2. n = 0
    BY <2>1
  <2>3. Len(hechos'[c]) <= 1 /\ \A k \in DOMAIN hechos'[c] : hechos'[c][k].req = 1
    BY <2>1, <2>2, <1>6
  <2> QED BY <1>1, <2>1, <2>3 DEF Atendida
<1>10. EnOrden(c)'
  <2> SUFFICES ASSUME proto[c] # "http"
               PROVE  EnOrden(c)'
    BY <1>1 DEF EnOrden
  <2>1. Tubo(c)' = Tubo(c)
    BY <1>1 DEF Tubo
  <2>2. ASSUME NEW r, Pasado(c, r)
        PROVE  Pasado(c, r)'
    BY <1>1, <2>1, <2>2 DEF Pasado
  <2>3. \A k \in DOMAIN hechos[c] : hechos[c][k].req < h.req /\ Pasado(c, hechos[c][k].req)
    BY <1>1, <1>5 DEF InvDe, EnOrden
  <2>4. Pasado(c, h.req)
    BY <1>1, <1>5 DEF InvDe, EnOrden
  <2>5. ASSUME NEW k \in DOMAIN hechos'[c]
        PROVE  Pasado(c, hechos[c][k].req)'
    BY <1>1, <1>6, <1>7, <2>2, <2>3, <2>4 DEF Pasado
  <2>6. Creciente(hechos'[c])
    <3> SUFFICES ASSUME NEW k \in DOMAIN hechos'[c], NEW l \in DOMAIN hechos'[c], k < l
                 PROVE  hechos'[c][k].req < hechos'[c][l].req
      BY DEF Creciente
    <3>1. k \in DOMAIN hechos[c] /\ hechos'[c][k] = hechos[c][k]
      BY <1>6
    <3>2. CASE l \in DOMAIN hechos[c]
      BY <1>6, <3>1, <3>2 DEF InvDe, EnOrden, Creciente
    <3>3. CASE l = n + 1
      BY <1>6, <3>1, <3>3, <2>3
    <3> QED BY <1>7, <3>2, <3>3
  <2>7. Cadena(c, Tubo(c)', proximo'[c])
    BY <1>1, <2>1 DEF InvDe, EnOrden
  <2> QED BY <1>1, <2>5, <2>6, <2>7 DEF EnOrden
<1>11. Paciente(c)'
  <2> SUFFICES ASSUME proto[c] # "http", c \notin Apuradas
               PROVE  Paciente(c)'
    BY <1>1 DEF Paciente
  <2>1. /\ Numerados(c) /\ respuestas[c] = n /\ Enteros(c) /\ red[c] = <<>> /\ h.req = n + 1
        /\ \/ cerrada[c]
           \/ h.palabras = 1 .. Guion[c][n + 1].largo /\ proximo[c] = Unidad(n + 2, 0)
    BY <1>1, <1>5 DEF InvDe, Paciente, Espera
  <2>2. \A k \in DOMAIN hechos[c] : hechos'[c][k].req = k /\ Entero(c, hechos'[c][k])
    BY <2>1, <1>6 DEF Numerados, Enteros
  <2>3. cerrada[c] \/ Entero(c, h)
    BY <2>1 DEF Entero
  <2>4. Numerados(c)'
    BY <1>1, <1>6, <1>7, <2>1, <2>2, <2>3 DEF Numerados
  <2>5. cerrada[c] \/ Enteros(c)'
    BY <1>1, <1>6, <1>7, <2>2, <2>3 DEF Enteros
  <2>6. n = (n + 1) - 1 /\ (n + 1) + 1 = n + 2
    BY <1>6
  <2>7. Espera(c)'
    BY <1>1, <1>6, <2>1, <2>5, <2>6 DEF Espera
  <2> QED BY <2>4, <2>7 DEF Paciente
<1> QED BY <1>8, <1>9, <1>10, <1>11 DEF InvDe

(* The answer is what lets a client that waits send its next command.      *)
LEMMA ResponderInv ==
  ASSUME TypeOK, NEW c \in Conexiones, InvDe(c), Responder(c)
  PROVE  InvDe(c)'
<1>1. /\ hilo[c] = "responde"
      /\ UNCHANGED <<proximo[c], cerrada[c], red[c], proto[c], leido[c], hechos[c]>>
  BY DEF Responder, cliente
<1>2. proto[c] = "http" => mando[c]
  BY <1>1 DEF InvDe, Intacta
<1>3. proto[c] = "http" => mando'[c]
  BY DEF TypeOK, Responder
<1>4. \/ hilo'[c] = "espera" /\ respuestas'[c] = respuestas[c] + 1
      \/ hilo'[c] = "fin" /\ respuestas'[c] = respuestas[c]
  <2>1. Escribir(c, "espera")
    BY DEF Responder
  <2> QED BY <2>1 DEF TypeOK, Escribir
<1>5. TipoDe(c)' /\ Intacta(c)'
  BY <1>1, <1>3, <1>4 DEF InvDe, TipoDe, Intacta
<1>6. Atendida(c)'
  BY <1>1, <1>2, <1>4 DEF InvDe, Atendida
<1>7. Tubo(c)' = Tubo(c)
  BY <1>1, <1>4 DEF Tubo
<1>8. EnOrden(c)'
  BY <1>1, <1>4, <1>7 DEF InvDe, EnOrden, Pasado
<1>9. Paciente(c)'
  <2> SUFFICES ASSUME proto[c] # "http", c \notin Apuradas
               PROVE  Paciente(c)'
    BY <1>1 DEF Paciente
  <2> DEFINE n == Len(hechos[c])
  <2>1. /\ Numerados(c) /\ respuestas[c] = n - 1 /\ red[c] = <<>> /\ n \in Nat
        /\ cerrada[c] \/ (Enteros(c) /\ proximo[c] = Unidad(n + 1, 0))
    BY <1>1 DEF InvDe, Paciente, Espera, TipoDe
  <2>2. Numerados(c)' /\ (Enteros(c) => Enteros(c)')
    BY <1>1, <2>1 DEF Numerados, Enteros
  <2>3. hilo'[c] = "espera" => respuestas'[c] = n
    BY <1>4, <2>1
  <2>4. Tubo(c)' = <<>>
    BY <1>1, <1>4, <2>1 DEF Tubo
  <2>5. proximo[c] = Unidad(n + 1, 0) => Empieza(c, <<>>, n + 1, proximo[c])
    BY DEF Empieza
  <2>6. hilo'[c] = "espera" => Cortada(c)' \/ (Enteros(c)' /\ Empieza(c, Tubo(c)', n + 1, proximo[c]))
    BY <1>1, <2>1, <2>2, <2>4, <2>5 DEF Cortada
  <2>7. Espera(c)'
    BY <1>1, <1>4, <2>3, <2>6 DEF Espera
  <2> QED BY <2>2, <2>7 DEF Paciente
<1> QED BY <1>5, <1>6, <1>8, <1>9 DEF InvDe

-----------------------------------------------------------------------------
(* Before anyone connects nothing was sent, read or run.                   *)
LEMMA InvInicial == Init => Inv
<1> SUFFICES ASSUME Init
             PROVE  Inv
  OBVIOUS
<1> USE DEF Init, Unidad
<1>1. TypeOK
  BY ConexionesAssumption DEF TypeOK
<1>2. Fila
  BY DEF Fila
<1>3. ASSUME NEW c \in Conexiones
      PROVE  InvDe(c)
  <2>1. TipoDe(c)
    <3>1. 1 \in DOMAIN Guion[c] => [req |-> 1, pos |-> 0] \in Unidades(c)
      BY ConexionesAssumption DEF Unidades
    <3> QED BY <3>1 DEF TipoDe
  <2>2. Intacta(c) /\ Atendida(c)
    BY DEF Intacta, Atendida
  <2>3. Tubo(c) = <<>>
    BY DEF Tubo
  <2>4. EnOrden(c)
    BY <2>3 DEF EnOrden, Cadena, Creciente
  <2>5. Paciente(c)
    <3>1. Empieza(c, <<>>, 0 + 1, proximo[c])
      BY DEF Empieza
    <3> QED BY <2>3, <3>1 DEF Paciente, Numerados, Espera, Enteros
  <2> QED BY <2>1, <2>2, <2>4, <2>5 DEF InvDe
<1> QED BY <1>1, <1>2, <1>3 DEF Inv

(* A step of one connection keeps the invariant of all.                    *)
LEMMA InvInductiva == Inv /\ [Next]_vars => Inv'
<1> SUFFICES ASSUME Inv, [Next]_vars
             PROVE  Inv'
  OBVIOUS
<1>1. TypeOK /\ Fila /\ \A c \in Conexiones : InvDe(c) /\ TipoDe(c)
  BY DEF Inv, InvDe
<1>2. TypeOK' /\ Fila'
  BY <1>1, TipoInductivo, FilaInductiva
<1>3. ASSUME NEW d \in Conexiones
      PROVE  InvDe(d)'
  <2>1. CASE UNCHANGED vars \/ Aceptar
    <3>1. UNCHANGED EstadoDe(d)
      BY <2>1 DEF vars, Aceptar, cliente, EstadoDe
    <3> QED BY <1>1, <3>1, InvAjena
  <2>2. ASSUME NEW c \in Conexiones,
               Conectar(c) \/ Enviar(c) \/ Cerrar(c) \/ CrearCliente(c) \/ HiloCliente(c)
        PROVE  InvDe(d)'
    <3>1. CASE c # d
      <4>1. UNCHANGED EstadoDe(d)
        BY <1>1, <2>2, <3>1, PasosDeUna DEF Solo
      <4> QED BY <1>1, <4>1, InvAjena
    <3>2. CASE c = d
      <4>1. CrearCliente(c) => hilo[c] = "cola"
        BY <1>1, ConexionesAssumption DEF Fila, CrearCliente
      <4> QED BY <1>1, <2>2, <3>2, <4>1, ConectarInv, EnviarInv, CerrarInv, CrearClienteInv,
                 CicloInv, LeerRedisInv, FinDeStreamInv, LeerHttpInv, EjecutarInv, ResponderInv
              DEF HiloCliente
    <3> QED BY <3>1, <3>2
  <2> QED BY <2>1, <2>2 DEF Next, HiloPrincipal
<1> QED BY <1>2, <1>3 DEF Inv

(* The invariant holds in every state of the connections.                  *)
LEMMA InvSiempre == Spec => []Inv
  BY InvInicial, InvInductiva, PTL DEF Spec

(* Whatever the packets its commands travel in, a RESP client that waits   *)
(* for each answer has its commands executed in the order it sent them,    *)
(* none lost and each whole, but for the last one when it closes amid it   *)
(* (Parser::parsear_stream under manejar_cliente), for any clients, any    *)
(* scripts and any interleaving.                                           *)
THEOREM NadaSePierdeNunca == Spec => []NadaSePierde
<1>1. Inv => NadaSePierde
  BY DEF Inv, InvDe, Paciente, Numerados, NadaSePierde
<1> QED BY <1>1, InvSiempre, PTL

(* No command is executed twice or before one that was sent earlier, even  *)
(* for a client that does not wait and loses some with the parser's        *)
(* buffer.                                                                 *)
THEOREM NuncaSeRepite == Spec => []SinRepetir
<1>1. ASSUME Inv, NEW c \in Conexiones
      PROVE  Creciente(hechos[c])
  <2>1. CASE proto[c] # "http"
    BY <1>1, <2>1 DEF Inv, InvDe, EnOrden
  <2>2. CASE proto[c] = "http"
    <3>1. hechos[c] = <<>> \/ Len(hechos[c]) <= 1
      BY <1>1, <2>2 DEF Inv, InvDe, Intacta, Atendida
    <3>2. hechos[c] \in Seq(Hechos)
      BY <1>1 DEF Inv, InvDe, TipoDe
    <3> QED BY <3>1, <3>2 DEF Creciente
  <2> QED BY <2>1, <2>2
<1>2. Inv => SinRepetir
  BY <1>1 DEF SinRepetir, Creciente
<1> QED BY <1>2, InvSiempre, PTL

(* An HTTP connection is answered once at most, and for its first request  *)
(* (ClienteHttp.mando in envio_informacion and esta_conectado).            *)
THEOREM HttpRespondeUnaVez == Spec => []HttpUnaRespuesta
<1>1. ASSUME Inv, NEW c \in Conexiones, proto[c] = "http"
      PROVE  respuestas[c] <= 1 /\ \A k \in DOMAIN hechos[c] : hechos[c][k].req = 1
  <2>1. CASE mando[c]
    BY <1>1, <2>1 DEF Inv, InvDe, Atendida
  <2>2. CASE ~mando[c]
    BY <1>1, <2>2 DEF Inv, InvDe, Intacta
  <2> QED BY <2>1, <2>2
<1>2. Inv => HttpUnaRespuesta
  BY <1>1 DEF HttpUnaRespuesta
<1> QED BY <1>2, InvSiempre, PTL

=============================================================================
