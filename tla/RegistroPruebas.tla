--------------------------- MODULE RegistroPruebas ---------------------------
(***************************************************************************)
(* Proofs about the configuration, the log thread and MONITOR, for every   *)
(* set of connections, whatever they ask, and however long the channel and *)
(* the conversations are.  The invariants that TLC checks on three         *)
(* connections are inductive, given the types of the variables.            *)
(***************************************************************************)
EXTENDS Registro, SecuenciasPruebas

(* The messages, and what a channel may be extended with.                  *)
LEMMA TiposDeMensaje ==
  /\ Linea \in Mensajes
  /\ \A c \in Clientes : Monitor(c) \in Mensajes
  /\ \A r \in Rutas : ArchivoALogear(r) \in Mensajes
  /\ \A m \in Mensajes : /\ m.msg \in {"linea", "monitor", "archivo"}
                         /\ m.msg = "monitor" => m.cliente \in Clientes
                         /\ m.msg = "archivo" => m.ruta \in Rutas /\ m = ArchivoALogear(m.ruta)
BY DEF Mensajes, Linea, Monitor, ArchivoALogear

(* A send keeps the type of the channel, whether or not anybody receives.  *)
LEMMA EnviarTipado ==
  ASSUME TypeOK, NEW ms \in Seq(Mensajes), Enviar(ms)
  PROVE  cola' \in Seq(Mensajes)
BY DEF TypeOK, Enviar

(* A thread that moves on to a place f that exists.                        *)
LEMMA IrTipado ==
  ASSUME TypeOK, NEW c \in Clientes, NEW f \in Fases, Ir(c, f)
  PROVE  /\ fase' \in [Clientes -> Fases]
         /\ pedido' = pedido /\ cuenta' = cuenta
         /\ fase'[c] = f
         /\ \A d \in Clientes : d # c => fase'[d] = fase[d]
BY DEF TypeOK, Ir

(* What actualizar sends: the monitor, if the flag is up, and the file.    *)
Avisos(c) == (IF bandera THEN <<Monitor(c)>> ELSE <<>>) \o <<ArchivoALogear(config["logfile"])>>

(* The two cases of what actualizar sends.                                 *)
LEMMA AvisosTipados ==
  ASSUME TypeOK, NEW c \in Clientes
  PROVE  /\ Avisos(c) \in Seq(Mensajes)
         /\ bandera => Avisos(c) = <<Monitor(c), ArchivoALogear(config["logfile"])>>
         /\ ~bandera => Avisos(c) = <<ArchivoALogear(config["logfile"])>>
<1>1. Monitor(c) \in Mensajes /\ ArchivoALogear(config["logfile"]) \in Mensajes
  BY TiposDeMensaje DEF TypeOK
<1>2. CASE bandera
  <2>1. Avisos(c) = <<Monitor(c)>> \o <<ArchivoALogear(config["logfile"])>>
    BY <1>2, Zenon DEF Avisos
  <2>2. Avisos(c) = <<Monitor(c), ArchivoALogear(config["logfile"])>>
    BY <1>1, <2>1, Escritas
  <2> QED BY <1>1, <1>2, <2>2
<1>3. CASE ~bandera
  <2>1. Avisos(c) = <<>> \o <<ArchivoALogear(config["logfile"])>>
    BY <1>3, Zenon DEF Avisos
  <2>2. Avisos(c) = <<ArchivoALogear(config["logfile"])>>
    BY <1>1, <2>1, Escritas
  <2> QED BY <1>1, <1>3, <2>2
<1> QED BY <1>2, <1>3

(* The channel after actualizar.                                           *)
LEMMA ActualizarEnvia ==
  ASSUME NEW c \in Clientes, Actualizar(c)
  PROVE  Enviar(Avisos(c))
BY DEF Actualizar, Avisos

(* The state of the log thread.                                            *)
Logs == [vivo : BOOLEAN, ruta : Rutas, monitores : Seq(Clientes)]

(* What the log thread does to its own state.                              *)
LEMMA CambiosDelLog ==
  ASSUME NEW l \in Logs
  PROVE  /\ \A b \in BOOLEAN : LET n == [l EXCEPT !.vivo = b]
                             IN  n \in Logs /\ n.vivo = b /\ n.ruta = l.ruta
                                            /\ n.monitores = l.monitores
         /\ \A c \in Clientes : LET n == [l EXCEPT !.monitores = Append(@, c)]
                              IN  n \in Logs /\ n.vivo = l.vivo /\ n.ruta = l.ruta
                                             /\ Len(n.monitores) = Len(l.monitores) + 1
         /\ \A r \in Rutas : LET n == [l EXCEPT !.ruta = r]
                           IN  n \in Logs /\ n.vivo = l.vivo /\ n.ruta = r
                                          /\ n.monitores = l.monitores
BY DEF Logs

(* Every step of the threads keeps the types.                              *)
LEMMA TipoInductivo ==
  TypeOK /\ [Next]_vars => TypeOK'
<1> SUFFICES ASSUME TypeOK, [Next]_vars
             PROVE  TypeOK'
  OBVIOUS
<1> USE RegistroAssumption
<1>0. <<Linea>> \in Seq(Mensajes) /\ <<Linea, Linea>> \in Seq(Mensajes)
  BY TiposDeMensaje
<1>1. ASSUME NEW c \in Clientes, Conectar(c)
      PROVE  TypeOK'
  <2>1. cola' \in Seq(Mensajes)
    BY <1>0, <1>1, EnviarTipado DEF Conectar
  <2>2. fase' \in [Clientes -> Fases] /\ pedido' = pedido /\ cuenta' = cuenta
    BY <1>1, IrTipado DEF Conectar, Fases
  <2> QED BY <1>1, <2>1, <2>2 DEF Conectar, TypeOK
<1>2. ASSUME NEW c \in Clientes, Recibir(c)
      PROVE  TypeOK'
  <2>1. cola' \in Seq(Mensajes)
    BY <1>0, <1>2, EnviarTipado DEF Recibir
  <2>2. fase' \in [Clientes -> Fases] /\ cuenta' \in [Clientes -> Nat]
    BY <1>2 DEF Recibir, TypeOK, Fases
  <2>3. pedido' \in [Clientes -> {"nada"} \cup UNION {Pedidos[d] : d \in Clientes}]
    BY <1>2 DEF Recibir, TypeOK
  <2> QED BY <1>2, <2>1, <2>2, <2>3 DEF Recibir, TypeOK
<1>3. ASSUME NEW c \in Clientes, SinMutex(c) \/ ConfigGet(c) \/ TomarBdd(c)
                                   \/ InfoConfig(c) \/ InfoBdd(c)
      PROVE  TypeOK'
  <2>1. fase' \in [Clientes -> Fases] /\ pedido' = pedido /\ cuenta' = cuenta
    BY <1>3, IrTipado DEF SinMutex, ConfigGet, TomarBdd, InfoConfig, InfoBdd, Fases
  <2> QED BY <1>3, <2>1 DEF SinMutex, ConfigGet, TomarBdd, InfoConfig, InfoBdd, TypeOK
<1>4. ASSUME NEW c \in Clientes, MONITOR(c)
      PROVE  TypeOK'
  <2>1. fase' \in [Clientes -> Fases] /\ pedido' = pedido /\ cuenta' = cuenta
    BY <1>4, IrTipado DEF MONITOR, Fases
  <2> QED BY <1>4, <2>1 DEF MONITOR, TypeOK
<1>5. ASSUME NEW c \in Clientes, ConfigSet(c)
      PROVE  TypeOK'
  <2>1. fase' \in [Clientes -> Fases] /\ pedido' = pedido /\ cuenta' = cuenta
    BY <1>5, IrTipado DEF ConfigSet, Fases
  <2> QED BY <1>5, <2>1, ZenonT(30) DEF ConfigSet, TypeOK
<1>6. ASSUME NEW c \in Clientes, SoltarBdd(c)
      PROVE  TypeOK'
  <2>1. fase' \in [Clientes -> Fases] /\ pedido' = pedido /\ cuenta' = cuenta
    BY <1>6, IrTipado DEF SoltarBdd, Fases
  <2> QED BY <1>6, <2>1 DEF SoltarBdd, TypeOK
<1>7. ASSUME NEW c \in Clientes, Actualizar(c)
      PROVE  TypeOK'
  <2>1. cola' \in Seq(Mensajes)
    BY <1>7, AvisosTipados, ActualizarEnvia, EnviarTipado
  <2>2. fase' \in [Clientes -> Fases] /\ pedido' = pedido /\ cuenta' = cuenta
    BY <1>7, IrTipado DEF Actualizar, Fases
  <2> QED BY <1>7, <2>1, <2>2 DEF Actualizar, TypeOK
<1>8. ASSUME NEW c \in Clientes, Responder(c) \/ Desconectar(c)
      PROVE  TypeOK'
  <2>1. cola' \in Seq(Mensajes)
    BY <1>0, <1>8, EnviarTipado DEF Responder, Desconectar, TypeOK
  <2>2. fase' \in [Clientes -> Fases] /\ pedido' = pedido /\ cuenta' = cuenta
    BY <1>8, IrTipado DEF Responder, Desconectar, Fases
  <2> QED BY <1>8, <2>1, <2>2 DEF Responder, Desconectar, TypeOK
<1>9. CASE Logear
  <2>1. Head(cola) \in Mensajes /\ Tail(cola) \in Seq(Mensajes) /\ <<>> \in Seq(Mensajes)
    BY <1>9 DEF Logear, TypeOK
  <2>2. cola' \in Seq(Mensajes)
    BY <1>9, <2>1 DEF Logear
  <2>3. log' \in [vivo : BOOLEAN, ruta : Rutas, monitores : Seq(Clientes)]
    <3>1. log \in Logs
      BY DEF TypeOK, Logs
    <3>2. \/ log' = log
          \/ \E b \in BOOLEAN : log' = [log EXCEPT !.vivo = b]
          \/ \E c \in Clientes : log' = [log EXCEPT !.monitores = Append(@, c)]
          \/ \E r \in Rutas : log' = [log EXCEPT !.ruta = r]
      BY <1>9, <2>1, TiposDeMensaje, Zenon DEF Logear
    <3>3. log' \in Logs
      <4>1. ASSUME NEW b \in BOOLEAN, log' = [log EXCEPT !.vivo = b]
            PROVE  log' \in Logs
        BY <3>1, <4>1, CambiosDelLog, Zenon
      <4>2. ASSUME NEW c \in Clientes, log' = [log EXCEPT !.monitores = Append(@, c)]
            PROVE  log' \in Logs
        BY <3>1, <4>2, CambiosDelLog
      <4>3. ASSUME NEW r \in Rutas, log' = [log EXCEPT !.ruta = r]
            PROVE  log' \in Logs
        BY <3>1, <4>3, CambiosDelLog
      <4> QED BY <3>1, <3>2, <4>1, <4>2, <4>3, Zenon
    <3> QED BY <3>3 DEF Logs
  <2> QED BY <1>9, <2>2, <2>3 DEF Logear, TypeOK, hilos
<1>10. CASE UNCHANGED vars
  BY <1>10 DEF vars, TypeOK
<1> QED
  BY <1>1, <1>2, <1>3, <1>4, <1>5, <1>6, <1>7, <1>8, <1>9, <1>10 DEF Next, Seguir

(* The configuration, the channel, the log thread and every client thread  *)
(* keep their types: what actualizar sends is a message the log thread     *)
(* knows how to read, and its list of monitors is one of connections.      *)
THEOREM TipoRegistro == Spec => []TypeOK
<1>1. Init => TypeOK
  <2> SUFFICES ASSUME Init PROVE TypeOK
    OBVIOUS
  <2>1. /\ config \in [{"logfile", "dbfilename"} -> Rutas] /\ rutaDb \in Rutas
        /\ cola \in Seq(Mensajes) /\ pidieron \in Seq(Clientes)
        /\ log \in [vivo : BOOLEAN, ruta : Rutas, monitores : Seq(Clientes)]
    BY RegistroAssumption DEF Init
  <2>2. /\ fase \in [Clientes -> Fases] /\ cuenta \in [Clientes -> Nat]
        /\ pedido \in [Clientes -> {"nada"} \cup UNION {Pedidos[d] : d \in Clientes}]
    BY DEF Init, Fases
  <2>3. bandera \in BOOLEAN /\ envenenada \in BOOLEAN
    BY DEF Init
  <2> QED BY <2>1, <2>2, <2>3 DEF TypeOK
<1> QED BY <1>1, TipoInductivo, PTL DEF Spec

-----------------------------------------------------------------------------
(* What most steps have in common: thread c, which is not in actualizar,   *)
(* moves on, and no more than lines to be logged enters the channel.       *)
Tranquilo(c) ==
  /\ fase[c] # "actualizar"
  /\ \A d \in Clientes \ {c} : fase'[d] = fase[d] /\ pedido'[d] = pedido[d]
  /\ UNCHANGED cola \/ Enviar(<<Linea>>) \/ Enviar(<<Linea, Linea>>)
  /\ UNCHANGED <<config, bandera, log, rutaDb, pidieron>>

(* The steps that are so: all but those that change the configuration or the*)
(* flag, and those of actualizar and of the log thread.                    *)
LEMMA PasosTranquilos ==
  ASSUME TypeOK, NEW c \in Clientes,
         \/ Conectar(c) \/ Recibir(c) \/ Desconectar(c)
         \/ SinMutex(c) \/ ConfigGet(c) \/ TomarBdd(c) \/ SoltarBdd(c)
         \/ InfoConfig(c) \/ InfoBdd(c) \/ Responder(c)
  PROVE  Tranquilo(c)
<1>1. CASE Recibir(c)
  BY <1>1 DEF Recibir, Tranquilo, TypeOK
<1>2. CASE Conectar(c) \/ Desconectar(c) \/ Responder(c)
  BY <1>2 DEF Conectar, Desconectar, Responder, Tranquilo, Ir, TypeOK
<1>3. CASE SinMutex(c) \/ ConfigGet(c) \/ TomarBdd(c) \/ SoltarBdd(c)
             \/ InfoConfig(c) \/ InfoBdd(c)
  BY <1>3 DEF SinMutex, ConfigGet, TomarBdd, SoltarBdd, InfoConfig, InfoBdd, Ejecuta,
              Tranquilo, Ir, TypeOK
<1> QED BY <1>1, <1>2, <1>3

(* The steps there are, as far as the invariants tell them apart.          *)
LEMMA Pasos ==
  ASSUME TypeOK, [Next]_vars
  PROVE  \/ \E c \in Clientes : Tranquilo(c) \/ MONITOR(c) \/ ConfigSet(c) \/ Actualizar(c)
         \/ Logear
         \/ UNCHANGED vars
BY PasosTranquilos DEF Next, Seguir

-----------------------------------------------------------------------------
(* The flag goes up with its thread on its way to actualizar, and only     *)
(* actualizar, which lowers it, takes a thread from there.                 *)
LEMMA BanderaInductiva ==
  ASSUME TypeOK, BanderaTransitoria, [Next]_vars
  PROVE  BanderaTransitoria'
<1>1. ASSUME NEW c \in Clientes, Tranquilo(c)
      PROVE  BanderaTransitoria'
  BY <1>1 DEF Tranquilo, BanderaTransitoria
<1>2. ASSUME NEW c \in Clientes, MONITOR(c)
      PROVE  BanderaTransitoria'
  BY <1>2 DEF MONITOR, Ejecuta, Ir, BanderaTransitoria, TypeOK
<1>3. ASSUME NEW c \in Clientes, ConfigSet(c)
      PROVE  BanderaTransitoria'
  BY <1>3 DEF ConfigSet, Ejecuta, Ir, BanderaTransitoria, TypeOK
<1>4. ASSUME NEW c \in Clientes, Actualizar(c)
      PROVE  BanderaTransitoria'
  BY <1>4 DEF Actualizar, BanderaTransitoria
<1>5. CASE Logear
  BY <1>5 DEF Logear, hilos, BanderaTransitoria
<1>6. CASE UNCHANGED vars
  BY <1>6 DEF vars, BanderaTransitoria
<1> QED BY <1>1, <1>2, <1>3, <1>4, <1>5, <1>6, Pasos

(* The flag of MONITOR is up only while a client that sent MONITOR is      *)
(* between its two sections, however many clients there are: what          *)
(* actualizar takes for a new monitor is never an old request.             *)
THEOREM LaBanderaEsTransitoria == Spec => []BanderaTransitoria
<1>1. Init => BanderaTransitoria
  BY DEF Init, BanderaTransitoria
<1> QED BY <1>1, BanderaInductiva, TipoRegistro, PTL DEF Spec

-----------------------------------------------------------------------------
(* MonitoresPedidos in terms of the counting lemmas.                       *)
Registros == [msg : {"monitor"}, cliente : Clientes]
Levantada == IF bandera THEN 1 ELSE 0
Conteo == Len(log.monitores) + Cuantas(cola, Registros) + Levantada <= Len(pidieron)

(* What the property counts in the queue is what these lemmas count.       *)
LEMMA ConteoEsPedidos ==
  ASSUME TypeOK
  PROVE  MonitoresPedidos <=> Conteo
<1>1. Posiciones(cola, Registros) = {i \in DOMAIN cola : cola[i].msg = "monitor"}
  <2>1. \A i \in DOMAIN cola : cola[i] \in Mensajes
    BY DEF TypeOK
  <2>2. \A m \in Mensajes : m \in Registros <=> m.msg = "monitor"
    BY DEF Mensajes, Registros, Linea
  <2> QED BY <2>1, <2>2 DEF Posiciones
<1> QED BY <1>1 DEF MonitoresPedidos, Conteo, Cuantas, Levantada

(* Which messages are registrations.                                       *)
LEMMA CualesRegistran ==
  /\ Linea \notin Registros
  /\ \A c \in Clientes : Monitor(c) \in Registros
  /\ \A r \in Rutas : ArchivoALogear(r) \notin Registros
BY DEF Linea, Monitor, ArchivoALogear, Registros

(* Sending lines registers nobody; actualizar, one client if the flag is up. *)
LEMMA EnviosContados ==
  ASSUME TypeOK
  PROVE  /\ Enviar(<<Linea>>) => Cuantas(cola', Registros) = Cuantas(cola, Registros)
         /\ Enviar(<<Linea, Linea>>) => Cuantas(cola', Registros) = Cuantas(cola, Registros)
         /\ \A c \in Clientes :
              Enviar(Avisos(c)) => Cuantas(cola', Registros) <= Cuantas(cola, Registros) + Levantada
<1> DEFINE n == Cuantas(cola, Registros)
<1>0. cola \in Seq(Mensajes) /\ n \in Nat
  BY CuantasEsNat DEF TypeOK
<1>1. ASSUME NEW a \in Mensajes, NEW b \in Mensajes, b \notin Registros
      PROVE  /\ Cuantas(cola \o <<b>>, Registros) = n
             /\ Cuantas(cola \o <<a, b>>, Registros) = IF a \in Registros THEN n + 1 ELSE n
  <2>1. Append(cola, a) \in Seq(Mensajes)
    BY <1>0
  <2>2. Cuantas(Append(cola, b), Registros) = n
        /\ Cuantas(Append(cola, a), Registros) = IF a \in Registros THEN n + 1 ELSE n
    BY <1>0, <1>1, CuantasDeAppend
  <2>3. Cuantas(Append(Append(cola, a), b), Registros) = Cuantas(Append(cola, a), Registros)
    BY <1>1, <2>1, CuantasDeAppend
  <2>4. cola \o <<b>> = Append(cola, b) /\ cola \o <<a, b>> = Append(Append(cola, a), b)
    BY <1>0, Extendida
  <2> QED BY <2>2, <2>3, <2>4
<1> HIDE DEF n
<1>2. Linea \in Mensajes /\ Linea \notin Registros
  BY TiposDeMensaje, CualesRegistran
<1>3. ASSUME NEW c \in Clientes, Enviar(Avisos(c))
      PROVE  Cuantas(cola', Registros) <= n + Levantada
  <2>1. Monitor(c) \in Mensajes /\ Monitor(c) \in Registros
        /\ ArchivoALogear(config["logfile"]) \in Mensajes
        /\ ArchivoALogear(config["logfile"]) \notin Registros
    BY TiposDeMensaje, CualesRegistran DEF TypeOK
  <2>2. CASE ~log.vivo
    BY <1>0, <1>3, <2>2 DEF Enviar, Levantada, n
  <2>3. CASE log.vivo /\ bandera
    <3>1. cola' = cola \o <<Monitor(c), ArchivoALogear(config["logfile"])>>
      BY <1>3, <2>3, AvisosTipados, Zenon DEF Enviar
    <3>2. Cuantas(cola', Registros) = n + 1
      BY <1>1, <2>1, <3>1, Zenon
    <3> QED BY <1>0, <2>3, <3>2 DEF Levantada
  <2>4. CASE log.vivo /\ ~bandera
    <3>1. cola' = cola \o <<ArchivoALogear(config["logfile"])>>
      BY <1>3, <2>4, AvisosTipados, Zenon DEF Enviar
    <3>2. Cuantas(cola', Registros) = n
      BY <1>1, <2>1, <3>1, Zenon
    <3> QED BY <1>0, <2>4, <3>2 DEF Levantada
  <2> QED BY <2>2, <2>3, <2>4
<1>4. Cuantas(cola \o <<Linea>>, Registros) = n /\ Cuantas(cola \o <<Linea, Linea>>, Registros) = n
  BY <1>1, <1>2, Zenon
<1>5. /\ Enviar(<<Linea>>) => Cuantas(cola', Registros) = n
      /\ Enviar(<<Linea, Linea>>) => Cuantas(cola', Registros) = n
  <2>1. Cuantas(cola, Registros) = n
    BY DEF n
  <2> QED BY <1>4, <2>1, Zenon DEF Enviar
<1> QED BY <1>3, <1>5 DEF n

(* The log thread turns a registration in the channel into a monitor, or   *)
(* drops it.                                                               *)
LEMMA LogearContado ==
  ASSUME TypeOK, Logear
  PROVE  Len(log'.monitores) + Cuantas(cola', Registros)
           <= Len(log.monitores) + Cuantas(cola, Registros)
<1> DEFINE n == Cuantas(cola, Registros)
           m == Head(cola)
<1>1. /\ cola \in Seq(Mensajes) /\ cola # <<>> /\ n \in Nat
      /\ log \in Logs /\ Len(log.monitores) \in Nat
  BY CuantasEsNat DEF TypeOK, Logear, Logs
<1>2. m \in Mensajes /\ Cuantas(<<>>, Registros) = 0
  BY <1>1, CuantasDeVacia
<1>3. Cuantas(Tail(cola), Registros) \in Nat
      /\ Cuantas(Tail(cola), Registros) <= n
      /\ (m.msg = "monitor" => Cuantas(Tail(cola), Registros) <= n - 1)
  <2>1. Tail(cola) \in Seq(Mensajes)
    BY <1>1
  <2>2. m.msg = "monitor" => m \in Registros
    BY <1>2 DEF Mensajes, Registros, Linea
  <2>3. Cuantas(Tail(cola), Registros) \in Nat
    BY <2>1, CuantasEsNat
  <2>4. Cuantas(Tail(cola), Registros) <= IF m \in Registros THEN n - 1 ELSE n
    BY <1>1, CuantasDeTail, Zenon
  <2> HIDE DEF n, m
  <2> QED BY <1>1, <2>2, <2>3, <2>4
<1> HIDE DEF n
<1>4. CASE cola' = Tail(cola) /\ UNCHANGED log
  BY <1>1, <1>3, <1>4 DEF n
<1>5. CASE cola' = <<>> /\ log' = [log EXCEPT !.vivo = FALSE]
  <2>1. log'.monitores = log.monitores
    BY <1>1, <1>5, CambiosDelLog, Zenon
  <2> QED BY <1>1, <1>2, <1>5, <2>1 DEF n
<1>6. CASE m.msg = "monitor" /\ cola' = Tail(cola)
             /\ log' = [log EXCEPT !.monitores = Append(@, m.cliente)]
  <2>1. m.cliente \in Clientes
    BY <1>2, <1>6, TiposDeMensaje
  <2>2. Len(log'.monitores) = Len(log.monitores) + 1
    BY <1>1, <1>6, <2>1, CambiosDelLog, Zenon
  <2> QED BY <1>1, <1>3, <1>6, <2>2 DEF n
<1>7. CASE m.msg = "archivo" /\ cola' = Tail(cola) /\ log' = [log EXCEPT !.ruta = m.ruta]
  <2>1. m.ruta \in Rutas
    BY <1>2, <1>7, TiposDeMensaje
  <2>2. log'.monitores = log.monitores
    BY <1>1, <1>7, <2>1, CambiosDelLog, Zenon
  <2> QED BY <1>1, <1>3, <1>7, <2>2 DEF n
<1> QED BY <1>4, <1>5, <1>6, <1>7, Zenon DEF Logear

(* MONITOR adds one to both sides, actualizar moves the flag into the      *)
(* channel, and the log thread the channel into its list.                  *)
LEMMA ConteoInductivo ==
  ASSUME TypeOK, Conteo, [Next]_vars
  PROVE  Conteo'
<1>0. /\ Cuantas(cola, Registros) \in Nat /\ Len(log.monitores) \in Nat
      /\ Len(pidieron) \in Nat /\ Levantada \in {0, 1}
      /\ Cuantas(cola', Registros) \in Nat /\ Len(log'.monitores) \in Nat
  BY TipoInductivo, CuantasEsNat DEF TypeOK, Levantada
<1>1. ASSUME NEW c \in Clientes, Tranquilo(c)
      PROVE  Conteo'
  <2>1. Cuantas(cola', Registros) = Cuantas(cola, Registros)
    BY <1>1, EnviosContados DEF Tranquilo
  <2> QED BY <1>1, <2>1 DEF Tranquilo, Conteo, Levantada
<1>2. ASSUME NEW c \in Clientes, MONITOR(c)
      PROVE  Conteo'
  <2>1. Len(pidieron') = Len(pidieron) + 1 /\ cola' = cola /\ log' = log /\ Levantada' = 1
    BY <1>2 DEF MONITOR, Levantada, TypeOK
  <2> QED BY <1>0, <2>1 DEF Conteo
<1>3. ASSUME NEW c \in Clientes, ConfigSet(c)
      PROVE  Conteo'
  BY <1>3 DEF ConfigSet, Conteo, Levantada
<1>4. ASSUME NEW c \in Clientes, Actualizar(c)
      PROVE  Conteo'
  <2>1. Cuantas(cola', Registros) <= Cuantas(cola, Registros) + Levantada
    BY <1>4, ActualizarEnvia, EnviosContados
  <2>2. log' = log /\ pidieron' = pidieron /\ Levantada' = 0
    BY <1>4 DEF Actualizar, Levantada
  <2> QED BY <1>0, <2>1, <2>2 DEF Conteo
<1>5. CASE Logear
  <2>1. Levantada' = Levantada /\ pidieron' = pidieron
    BY <1>5 DEF Logear, hilos, Levantada
  <2> QED BY <1>0, <1>5, <2>1, LogearContado DEF Conteo
<1>6. CASE UNCHANGED vars
  BY <1>6 DEF vars, Conteo, Levantada
<1> QED BY <1>1, <1>2, <1>3, <1>4, <1>5, <1>6, Pasos

(* No request of MONITOR makes two monitors, for any number of clients,    *)
(* requests and messages on the way: of the registrations that are up,     *)
(* in the channel or in the list of the log thread there are no more than  *)
(* requests.                                                               *)
THEOREM LosMonitoresSePidieron == Spec => []MonitoresPedidos
<1>1. Init => Conteo
  <2>1. Cuantas(<<>>, Registros) = 0
    BY CuantasDeVacia
  <2> QED BY <2>1 DEF Init, Conteo, Levantada
<1>2. Spec => []Conteo
  BY <1>1, ConteoInductivo, TipoRegistro, PTL DEF Spec
<1> QED BY <1>2, ConteoEsPedidos, TipoRegistro, PTL

-----------------------------------------------------------------------------
(* RutaPendiente of a channel q and a file actual.                         *)
SinArchivo(q) == \A j \in DOMAIN q : q[j].msg # "archivo"
Pendiente(q, actual, r) ==
  \/ \E i \in DOMAIN q : /\ q[i] = ArchivoALogear(r)
                         /\ \A j \in DOMAIN q : j > i => q[j].msg # "archivo"
  \/ actual = r /\ SinArchivo(q)

(* A message that names no file, put at the end, leaves it pending.        *)
LEMMA PendienteAppend ==
  ASSUME NEW q \in Seq(Mensajes), NEW actual, NEW r, Pendiente(q, actual, r),
         NEW m \in Mensajes, m.msg # "archivo"
  PROVE  Pendiente(Append(q, m), actual, r)
<1>1. /\ Append(q, m) \in Seq(Mensajes) /\ Len(Append(q, m)) = Len(q) + 1
      /\ DOMAIN Append(q, m) = 1 .. Len(q) + 1 /\ DOMAIN q = 1 .. Len(q) /\ Len(q) \in Nat
      /\ \A i \in 1 .. Len(q) : Append(q, m)[i] = q[i]
      /\ Append(q, m)[Len(q) + 1] = m
  OBVIOUS
<1> QED BY <1>1 DEF Pendiente, SinArchivo

(* The name sent last is the one pending.                                  *)
LEMMA PendienteNuevo ==
  ASSUME NEW q \in Seq(Mensajes), NEW actual, NEW r \in Rutas
  PROVE  Pendiente(Append(q, ArchivoALogear(r)), actual, r)
<1> DEFINE m == ArchivoALogear(r)
<1>1. m \in Mensajes
  BY TiposDeMensaje
<1> HIDE DEF m
<1>2. /\ DOMAIN Append(q, m) = 1 .. Len(q) + 1 /\ Len(q) \in Nat
      /\ Append(q, m)[Len(q) + 1] = m
  BY <1>1
<1>3. \A j \in 1 .. Len(q) + 1 : ~(j > Len(q) + 1)
  BY <1>2
<1> QED BY <1>2, <1>3 DEF Pendiente, m

(* The log thread takes the head of the channel: a name becomes its file.  *)
LEMMA PendienteTail ==
  ASSUME NEW q \in Seq(Mensajes), q # <<>>, NEW actual, NEW r, Pendiente(q, actual, r)
  PROVE  Pendiente(Tail(q), IF Head(q).msg = "archivo" THEN Head(q).ruta ELSE actual, r)
<1> DEFINE t == Tail(q)
           sigue == IF Head(q).msg = "archivo" THEN Head(q).ruta ELSE actual
<1>1. /\ DOMAIN t = 1 .. Len(q) - 1 /\ DOMAIN q = 1 .. Len(q) /\ Len(q) \in Nat /\ Len(q) > 0
      /\ \A i \in 1 .. Len(q) - 1 : t[i] = q[i + 1]
      /\ Head(q) = q[1]
  OBVIOUS
<1> HIDE DEF t
<1>2. CASE actual = r /\ SinArchivo(q)
  <2>1. SinArchivo(t)
    BY <1>1, <1>2 DEF SinArchivo
  <2>2. sigue = r
    BY <1>1, <1>2 DEF SinArchivo
  <2> QED BY <2>1, <2>2 DEF Pendiente, t
<1>3. ASSUME NEW i \in DOMAIN q, q[i] = ArchivoALogear(r),
             \A j \in DOMAIN q : j > i => q[j].msg # "archivo"
      PROVE  Pendiente(t, sigue, r)
  <2>1. CASE i = 1
    <3>1. Head(q).msg = "archivo" /\ Head(q).ruta = r
      BY <1>1, <1>3, <2>1 DEF ArchivoALogear
    <3>2. SinArchivo(t)
      BY <1>1, <1>3, <2>1 DEF SinArchivo
    <3> QED BY <3>1, <3>2 DEF Pendiente
  <2>2. CASE i # 1
    <3>1. i - 1 \in DOMAIN t /\ t[i - 1] = ArchivoALogear(r)
      BY <1>1, <1>3, <2>2
    <3>2. ASSUME NEW j \in DOMAIN t, j > i - 1
          PROVE  t[j].msg # "archivo"
      <4>1. j + 1 \in DOMAIN q /\ j + 1 > i /\ t[j] = q[j + 1]
        BY <1>1, <3>2
      <4>2. q[j + 1].msg # "archivo"
        BY <1>3, <4>1
      <4> QED BY <4>1, <4>2
    <3> QED BY <3>1, <3>2 DEF Pendiente
  <2> QED BY <2>1, <2>2
<1> QED BY <1>2, <1>3 DEF Pendiente, t

(* The two halves of RutasAlDia, kept apart: each is inductive.            *)
LogAlDia == log.vivo => Pendiente(cola, log.ruta, config["logfile"]) \/ EnCamino("SETLOG")
DbAlDia == rutaDb = config["dbfilename"] \/ EnCamino("SETDB")

(* A thread on its way to actualizar is still there after the step of      *)
(* another, or of one that is not in actualizar.                           *)
LEMMA SigueEnCamino ==
  ASSUME TypeOK, NEW p, EnCamino(p),
         \/ \E c \in Clientes : Tranquilo(c) \/ MONITOR(c) \/ ConfigSet(c)
         \/ Logear
  PROVE  EnCamino(p)'
<1>1. ASSUME NEW c \in Clientes, Tranquilo(c)
      PROVE  EnCamino(p)'
  BY <1>1 DEF Tranquilo, EnCamino
<1>2. ASSUME NEW c \in Clientes, MONITOR(c) \/ ConfigSet(c)
      PROVE  EnCamino(p)'
  BY <1>2 DEF MONITOR, ConfigSet, Ejecuta, Ir, EnCamino, TypeOK
<1>3. CASE Logear
  BY <1>3 DEF Logear, hilos, EnCamino
<1> QED BY <1>1, <1>2, <1>3

(* Lines sent to the channel change nothing that is pending, and what      *)
(* actualizar sends makes the logfile of the configuration pending.        *)
LEMMA EnviarPendiente ==
  ASSUME TypeOK
  PROVE  /\ \A r : \A ms \in {<<Linea>>, <<Linea, Linea>>} :
              Pendiente(cola, log.ruta, r) /\ Enviar(ms) => Pendiente(cola', log.ruta, r)
         /\ \A c \in Clientes :
              log.vivo /\ Enviar(Avisos(c)) => Pendiente(cola', log.ruta, config["logfile"])
<1>0. cola \in Seq(Mensajes) /\ config["logfile"] \in Rutas
  BY DEF TypeOK
<1>1. Linea \in Mensajes /\ Linea.msg # "archivo"
  BY TiposDeMensaje DEF Linea
<1>2. ASSUME NEW r, NEW ms \in {<<Linea>>, <<Linea, Linea>>},
             Pendiente(cola, log.ruta, r), Enviar(ms)
      PROVE  Pendiente(cola', log.ruta, r)
  <2>1. Append(cola, Linea) \in Seq(Mensajes)
    BY <1>0, <1>1
  <2>2. Pendiente(Append(cola, Linea), log.ruta, r)
    BY <1>0, <1>1, <1>2, PendienteAppend
  <2>3. Pendiente(Append(Append(cola, Linea), Linea), log.ruta, r)
    BY <1>1, <2>1, <2>2, PendienteAppend
  <2>4. cola \o <<Linea>> = Append(cola, Linea)
        /\ cola \o <<Linea, Linea>> = Append(Append(cola, Linea), Linea)
    BY <1>0, <1>1, Extendida
  <2>5. cola' = cola \/ cola' = cola \o <<Linea>> \/ cola' = cola \o <<Linea, Linea>>
    BY <1>2, Zenon DEF Enviar
  <2> QED BY <1>2, <2>2, <2>3, <2>4, <2>5, Zenon
<1>3. ASSUME NEW c \in Clientes, log.vivo, Enviar(Avisos(c))
      PROVE  Pendiente(cola', log.ruta, config["logfile"])
  <2> DEFINE a == ArchivoALogear(config["logfile"])
  <2>1. Monitor(c) \in Mensajes /\ a \in Mensajes
    BY <1>0, TiposDeMensaje
  <2>2. Append(cola, Monitor(c)) \in Seq(Mensajes)
    BY <1>0, <2>1
  <2>3. Pendiente(Append(cola, a), log.ruta, config["logfile"])
        /\ Pendiente(Append(Append(cola, Monitor(c)), a), log.ruta, config["logfile"])
    BY <1>0, <2>2, PendienteNuevo
  <2>4. cola \o <<a>> = Append(cola, a)
        /\ cola \o <<Monitor(c), a>> = Append(Append(cola, Monitor(c)), a)
    BY <1>0, <2>1, Extendida
  <2>5. cola' = cola \o <<a>> \/ cola' = cola \o <<Monitor(c), a>>
    BY <1>3, AvisosTipados, Zenon DEF Enviar
  <2> QED BY <2>3, <2>4, <2>5, Zenon
<1> QED BY <1>2, <1>3

(* Each step keeps the log thread's file up to date or on its way.         *)
LEMMA LogAlDiaInductivo ==
  ASSUME TypeOK, LogAlDia, [Next]_vars
  PROVE  LogAlDia'
<1>1. ASSUME NEW c \in Clientes, Tranquilo(c)
      PROVE  LogAlDia'
  <2>1. log' = log /\ config' = config
    BY <1>1 DEF Tranquilo
  <2>2. Pendiente(cola, log.ruta, config["logfile"])
          => Pendiente(cola', log.ruta, config["logfile"])
    BY <1>1, EnviarPendiente, Zenon DEF Tranquilo
  <2>3. EnCamino("SETLOG") => EnCamino("SETLOG")'
    BY <1>1, SigueEnCamino
  <2> QED BY <2>1, <2>2, <2>3 DEF LogAlDia
<1>2. ASSUME NEW c \in Clientes, MONITOR(c)
      PROVE  LogAlDia'
  <2>1. log' = log /\ config' = config /\ cola' = cola
    BY <1>2 DEF MONITOR
  <2>2. EnCamino("SETLOG") => EnCamino("SETLOG")'
    BY <1>2, SigueEnCamino
  <2> QED BY <2>1, <2>2 DEF LogAlDia
<1>3. ASSUME NEW c \in Clientes, ConfigSet(c)
      PROVE  LogAlDia'
  <2>1. log' = log /\ cola' = cola
    BY <1>3 DEF ConfigSet
  <2>2. EnCamino("SETLOG") => EnCamino("SETLOG")'
    BY <1>3, SigueEnCamino
  <2>3. CASE Ejecuta(c, "SETLOG")
    <3>1. EnCamino("SETLOG")'
      BY <1>3, <2>3 DEF ConfigSet, Ejecuta, Ir, EnCamino, TypeOK
    <3> QED BY <3>1 DEF LogAlDia
  <2>4. CASE Ejecuta(c, "SETDB")
    <3>1. config'["logfile"] = config["logfile"]
      BY <1>3, <2>4 DEF ConfigSet, Ejecuta, TypeOK
    <3> QED BY <2>1, <2>2, <3>1 DEF LogAlDia
  <2> QED BY <1>3, <2>3, <2>4 DEF ConfigSet
<1>4. ASSUME NEW c \in Clientes, Actualizar(c)
      PROVE  LogAlDia'
  <2>1. log' = log /\ config' = config
    BY <1>4 DEF Actualizar
  <2>2. log.vivo => Pendiente(cola', log.ruta, config["logfile"])
    BY <1>4, ActualizarEnvia, EnviarPendiente, Zenon
  <2> QED BY <2>1, <2>2 DEF LogAlDia
<1>5. CASE Logear
  <2> DEFINE m == Head(cola)
             sigue == IF m.msg = "archivo" THEN m.ruta ELSE log.ruta
  <2>1. /\ cola \in Seq(Mensajes) /\ cola # <<>> /\ log \in Logs /\ m \in Mensajes
        /\ log.vivo
    BY <1>5 DEF Logear, TypeOK, Logs
  <2>2. config' = config /\ (EnCamino("SETLOG") => EnCamino("SETLOG")')
    BY <1>5, SigueEnCamino DEF Logear
  <2>3. Pendiente(cola, log.ruta, config["logfile"])
          => Pendiente(Tail(cola), sigue, config["logfile"])
    BY <2>1, PendienteTail
  <2>4. \/ ~log'.vivo
        \/ cola' = Tail(cola) /\ log'.ruta = sigue
    <3>1. CASE m.msg = "linea" /\ cola' = Tail(cola) /\ UNCHANGED log
      BY <3>1
    <3>2. CASE log' = [log EXCEPT !.vivo = FALSE]
      BY <2>1, <3>2, CambiosDelLog, Zenon
    <3>3. CASE m.msg = "monitor" /\ cola' = Tail(cola)
                 /\ \/ log' = [log EXCEPT !.monitores = Append(@, m.cliente)]
                    \/ UNCHANGED log
      <4>1. m.cliente \in Clientes /\ m.msg # "archivo"
        BY <2>1, <3>3, TiposDeMensaje
      <4>2. log'.ruta = log.ruta
        <5>1. [log EXCEPT !.monitores = Append(@, m.cliente)].ruta = log.ruta
          <6> HIDE DEF m
          <6> QED BY <2>1 DEF Logs
        <5> QED BY <3>3, <5>1, Zenon
      <4> QED BY <3>3, <4>1, <4>2, Zenon
    <3>4. CASE m.msg = "archivo" /\ cola' = Tail(cola) /\ log' = [log EXCEPT !.ruta = m.ruta]
      <4>1. m.ruta \in Rutas
        BY <2>1, <3>4, TiposDeMensaje
      <4>2. log'.ruta = m.ruta
        BY <2>1, <3>4, <4>1, CambiosDelLog, ZenonT(30)
      <4> QED BY <3>4, <4>2, Zenon
    <3> QED BY <1>5, <3>1, <3>2, <3>3, <3>4, Zenon DEF Logear
  <2> HIDE DEF sigue
  <2> QED BY <2>1, <2>2, <2>3, <2>4, Zenon DEF LogAlDia
<1>6. CASE UNCHANGED vars
  BY <1>6 DEF vars, LogAlDia, EnCamino
<1> QED BY <1>1, <1>2, <1>3, <1>4, <1>5, <1>6, Pasos

(* The same of the name last sent to the persistence thread.               *)
LEMMA DbAlDiaInductivo ==
  ASSUME TypeOK, DbAlDia, [Next]_vars
  PROVE  DbAlDia'
<1>1. ASSUME NEW c \in Clientes, Tranquilo(c) \/ MONITOR(c)
      PROVE  DbAlDia'
  BY <1>1, SigueEnCamino DEF Tranquilo, MONITOR, DbAlDia
<1>2. ASSUME NEW c \in Clientes, ConfigSet(c)
      PROVE  DbAlDia'
  <2>1. EnCamino("SETDB") => EnCamino("SETDB")'
    BY <1>2, SigueEnCamino
  <2>2. CASE Ejecuta(c, "SETDB")
    <3>1. EnCamino("SETDB")'
      BY <1>2, <2>2 DEF ConfigSet, Ejecuta, Ir, EnCamino, TypeOK
    <3> QED BY <3>1 DEF DbAlDia
  <2>3. CASE Ejecuta(c, "SETLOG")
    <3>1. config'["dbfilename"] = config["dbfilename"] /\ rutaDb' = rutaDb
      BY <1>2, <2>3 DEF ConfigSet, Ejecuta, TypeOK
    <3> QED BY <2>1, <3>1 DEF DbAlDia
  <2> QED BY <1>2, <2>2, <2>3 DEF ConfigSet
<1>3. ASSUME NEW c \in Clientes, Actualizar(c)
      PROVE  DbAlDia'
  BY <1>3 DEF Actualizar, DbAlDia
<1>4. CASE Logear
  BY <1>4, SigueEnCamino DEF Logear, DbAlDia
<1>5. CASE UNCHANGED vars
  BY <1>5 DEF vars, DbAlDia, EnCamino
<1> QED BY <1>1, <1>2, <1>3, <1>4, <1>5, Pasos

(* However CONFIG SET, actualizar and the log thread interleave, the log   *)
(* thread ends up with the logfile of the configuration once it has read   *)
(* its channel, and the persistence thread was sent the dbfilename, unless *)
(* a CONFIG SET is still on its way to actualizar.                         *)
THEOREM LasRutasEstanAlDia == Spec => []RutasAlDia
<1>1. Init => LogAlDia /\ DbAlDia
  BY DEF Init, LogAlDia, DbAlDia, Pendiente, SinArchivo
<1>2. LogAlDia /\ DbAlDia => RutasAlDia
  BY DEF LogAlDia, DbAlDia, RutasAlDia, RutaPendiente, Pendiente, SinArchivo
<1> QED BY <1>1, <1>2, LogAlDiaInductivo, DbAlDiaInductivo, TipoRegistro, PTL DEF Spec

=============================================================================
