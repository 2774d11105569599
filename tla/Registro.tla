------------------------------ MODULE Registro ------------------------------
(***************************************************************************)
(* The configuration that all clients share (config.rs), the log thread    *)
(* (log_handler.rs), the commands CONFIG, INFO, MONITOR and PING, and the   *)
(* loop of a client thread around a command (manejar_cliente).             *)
(*                                                                         *)
(* A client is a connection: its token is never used again.  Of the        *)
(* configuration only the two file names matter here; the flag verbose     *)
(* decides whether a line is also printed, and is left out.  The commands  *)
(* on the table are one command, OTRO, that takes and releases its mutex.  *)
(***************************************************************************)
EXTENDS Integers, Sequences, FiniteSets, SequencesExt

CONSTANTS Clientes,       \* connections
          Http,           \* those that speak HTTP: one request each
          Pedidos,        \* what each client may ask
          Rutas,          \* names of files
          Abribles,       \* the files the process can open
          RutaInicial,    \* logfile and dbfilename at start-up
          MaxPedidos,     \* bound: requests of each client
          MaxCola         \* bound: no client sends while the log is further behind

ASSUME RegistroAssumption ==
  /\ Http \subseteq Clientes
  /\ Pedidos \in [Clientes -> SUBSET {"MONITOR", "INFO", "CONFIGGET", "PING", "OTRO",
                                       "SETLOG", "SETDB"}]
  /\ Abribles \subseteq Rutas /\ RutaInicial \in Rutas
  /\ MaxPedidos \in Nat /\ MaxCola \in Nat

VARIABLES config,      \* mapa_config: logfile and dbfilename
          bandera,     \* monitorear_ultimo_cliente
          cola,        \* channel to the log thread
          log,         \* the log thread: whether it runs, its file, its monitors
          rutaDb,      \* the file name last sent to the persistence thread
          envenenada,  \* the mutex of the table is poisoned
          fase,        \* where each client thread is in manejar_cliente
          pedido,      \* the command each client thread is running
          cuenta,      \* requests of each client so far
          pidieron     \* history: clients that sent MONITOR, once per request

vars == <<config, bandera, cola, log, rutaDb, envenenada, fase, pedido, cuenta, pidieron>>
hilos == <<fase, pedido, cuenta, pidieron>>

-----------------------------------------------------------------------------
(* Mensaje.  The three kinds of line the thread logs are one.              *)
Linea == [msg |-> "linea"]
Monitor(c) == [msg |-> "monitor", cliente |-> c]
ArchivoALogear(r) == [msg |-> "archivo", ruta |-> r]

Mensajes == {Linea} \cup [msg : {"monitor"}, cliente : Clientes]
                    \cup [msg : {"archivo"}, ruta : Rutas]

Fases == {"nuevo", "libre", "ejecutar", "conBdd", "conConfig", "actualizar", "responder",
          "ido"}

TypeOK ==
  /\ config \in [{"logfile", "dbfilename"} -> Rutas]
  /\ bandera \in BOOLEAN /\ envenenada \in BOOLEAN
  /\ cola \in Seq(Mensajes)
  /\ log \in [vivo : BOOLEAN, ruta : Rutas, monitores : Seq(Clientes)]
  /\ rutaDb \in Rutas
  /\ fase \in [Clientes -> Fases]
  /\ pedido \in [Clientes -> {"nada"} \cup UNION {Pedidos[c] : c \in Clientes}]
  /\ cuenta \in [Clientes -> Nat]
  /\ pidieron \in Seq(Clientes)

Init ==
  /\ config = [p \in {"logfile", "dbfilename"} |-> RutaInicial]
  /\ bandera = FALSE /\ envenenada = FALSE
  /\ cola = <<>>
  /\ log = [vivo |-> TRUE, ruta |-> RutaInicial, monitores |-> <<>>]
  /\ rutaDb = RutaInicial
  /\ fase = [c \in Clientes |-> "nuevo"]
  /\ pedido = [c \in Clientes |-> "nada"]
  /\ cuenta = [c \in Clientes |-> 0]
  /\ pidieron = <<>>

-----------------------------------------------------------------------------
(* send fails, and nobody notices, once the receiver is gone.              *)
Enviar(ms) == cola' = IF log.vivo THEN cola \o ms ELSE cola

Ir(c, f) == fase' = [fase EXCEPT ![c] = f] /\ UNCHANGED <<pedido, cuenta>>

(* INFO holds the mutex of the configuration while it waits for the other. *)
ConfigLibre == \A c \in Clientes : fase[c] # "conConfig"
BddLibre == \A c \in Clientes : fase[c] # "conBdd"

(* The accept loop reads the timeout from the configuration; the thread    *)
(* starts by logging the connection.                                       *)
Conectar(c) ==
  /\ fase[c] = "nuevo" /\ ConfigLibre /\ Len(cola) <= MaxCola
  /\ Ir(c, "libre") /\ Enviar(<<Linea>>)
  /\ UNCHANGED <<config, bandera, log, rutaDb, envenenada, pidieron>>

(* obtener_comando and log_comando.                                        *)
Recibir(c) ==
  /\ fase[c] = "libre" /\ cuenta[c] < MaxPedidos /\ Len(cola) <= MaxCola
  /\ \E p \in Pedidos[c] : pedido' = [pedido EXCEPT ![c] = p]
  /\ fase' = [fase EXCEPT ![c] = "ejecutar"]
  /\ cuenta' = [cuenta EXCEPT ![c] = @ + 1]
  /\ Enviar(<<Linea>>)
  /\ UNCHANGED <<config, bandera, log, rutaDb, envenenada, pidieron>>

Ejecuta(c, p) == fase[c] = "ejecutar" /\ pedido[c] = p

(* crear_comando_handler gives an HTTP client the null handler for MONITOR,*)
(* and PING takes no mutex.                                                *)
SinMutex(c) ==
  /\ Ejecuta(c, "PING") \/ (Ejecuta(c, "MONITOR") /\ c \in Http)
  /\ Ir(c, "actualizar")
  /\ UNCHANGED <<config, bandera, cola, log, rutaDb, envenenada, pidieron>>

MONITOR(c) ==
  /\ Ejecuta(c, "MONITOR") /\ c \notin Http /\ ConfigLibre
  /\ bandera' = TRUE
  /\ pidieron' = Append(pidieron, c)
  /\ Ir(c, "actualizar")
  /\ UNCHANGED <<config, cola, log, rutaDb, envenenada>>

ConfigSet(c) ==
  /\ ConfigLibre
  /\ \E r \in Rutas :
       \/ Ejecuta(c, "SETLOG") /\ config' = [config EXCEPT !["logfile"] = r]
       \/ Ejecuta(c, "SETDB") /\ config' = [config EXCEPT !["dbfilename"] = r]
  /\ Ir(c, "actualizar")
  /\ UNCHANGED <<bandera, cola, log, rutaDb, envenenada, pidieron>>

ConfigGet(c) ==
  /\ Ejecuta(c, "CONFIGGET") /\ ConfigLibre
  /\ Ir(c, "actualizar")
  /\ UNCHANGED <<config, bandera, cola, log, rutaDb, envenenada, pidieron>>

(* A command on the table, which may panic, with the guard held or not.    *)
TomarBdd(c) ==
  /\ Ejecuta(c, "OTRO")
  /\ \/ envenenada /\ Ir(c, "actualizar")
     \/ ~envenenada /\ BddLibre /\ Ir(c, "conBdd")
  /\ UNCHANGED <<config, bandera, cola, log, rutaDb, envenenada, pidieron>>

(* Mutant of SoltarBdd: the handler reads the configuration before it      *)
(* releases the table. *)
SoltarBddTrasConfig(c) ==
  /\ fase[c] = "conBdd" /\ ConfigLibre
  /\ Ir(c, "actualizar")
  /\ UNCHANGED <<config, bandera, cola, log, rutaDb, envenenada, pidieron>>

SoltarBdd(c) ==
  /\ fase[c] = "conBdd"
  /\ \/ Ir(c, "actualizar") /\ UNCHANGED envenenada
     \/ Ir(c, "ido") /\ envenenada' \in {envenenada, TRUE}
  /\ UNCHANGED <<config, bandera, cola, log, rutaDb, pidieron>>

(* INFO: (config.lock(), bdd.lock()), and both guards are released.        *)
InfoConfig(c) ==
  /\ Ejecuta(c, "INFO") /\ ConfigLibre
  /\ Ir(c, "conConfig")
  /\ UNCHANGED <<config, bandera, cola, log, rutaDb, envenenada, pidieron>>

InfoBdd(c) ==
  /\ fase[c] = "conConfig" /\ BddLibre
  /\ Ir(c, "actualizar")
  /\ UNCHANGED <<config, bandera, cola, log, rutaDb, envenenada, pidieron>>

(* Mutant of Actualizar: the flag is not lowered. *)
ActualizarSinBajar(c) ==
  /\ fase[c] = "actualizar" /\ ConfigLibre
  /\ Enviar((IF bandera THEN <<Monitor(c)>> ELSE <<>>)
              \o <<ArchivoALogear(config["logfile"])>>)
  /\ rutaDb' = config["dbfilename"]
  /\ Ir(c, "responder")
  /\ UNCHANGED <<config, bandera, log, envenenada, pidieron>>

(* Mutant of Actualizar: the client that sent MONITOR is registered too. *)
ActualizarDoble(c) ==
  /\ fase[c] = "actualizar" /\ ConfigLibre
  /\ Enviar((IF bandera \/ pedido[c] = "MONITOR" THEN <<Monitor(c)>> ELSE <<>>)
              \o <<ArchivoALogear(config["logfile"])>>)
  /\ bandera' = FALSE
  /\ rutaDb' = config["dbfilename"]
  /\ Ir(c, "responder")
  /\ UNCHANGED <<config, log, envenenada, pidieron>>

(* Mutant of Actualizar: a new monitor, or else the file names. *)
ActualizarUnaCosa(c) ==
  /\ fase[c] = "actualizar" /\ ConfigLibre
  /\ Enviar(IF bandera THEN <<Monitor(c)>> ELSE <<ArchivoALogear(config["logfile"])>>)
  /\ bandera' = FALSE
  /\ rutaDb' = config["dbfilename"]
  /\ Ir(c, "responder")
  /\ UNCHANGED <<config, log, envenenada, pidieron>>

(* Config::actualizar, under the mutex: whoever gets here first with the   *)
(* flag up becomes a monitor; then the file names are sent again.          *)
Actualizar(c) ==
  /\ fase[c] = "actualizar" /\ ConfigLibre
  /\ Enviar((IF bandera THEN <<Monitor(c)>> ELSE <<>>)
              \o <<ArchivoALogear(config["logfile"])>>)
  /\ bandera' = FALSE
  /\ rutaDb' = config["dbfilename"]
  /\ Ir(c, "responder")
  /\ UNCHANGED <<config, log, envenenada, pidieron>>

(* enviar_resultado: the loop goes on, or it ends because the client was   *)
(* HTTP or the socket is broken.                                           *)
Responder(c) ==
  /\ fase[c] = "responder"
  /\ \/ c \notin Http /\ Ir(c, "libre") /\ UNCHANGED cola
     \/ c \in Http /\ Ir(c, "ido") /\ Enviar(<<Linea>>)
     \/ Ir(c, "ido") /\ Enviar(<<Linea, Linea>>)
  /\ UNCHANGED <<config, bandera, log, rutaDb, envenenada, pidieron>>

(* The loop ends without a command: the client left, asked for a page, or  *)
(* sent something obtener_comando refuses, which is logged too.            *)
Desconectar(c) ==
  /\ fase[c] = "libre"
  /\ Ir(c, "ido")
  /\ Enviar(<<Linea>>) \/ Enviar(<<Linea, Linea>>)
  /\ UNCHANGED <<config, bandera, log, rutaDb, envenenada, pidieron>>

(* LogHandler::logear.  A line goes to the monitors and to the file; the   *)
(* thread ends, and its channel with it, when the file does not open.  A   *)
(* new monitor is told first, and left out if its socket is closed.        *)
Logear ==
  /\ log.vivo /\ cola # <<>>
  /\ LET m == Head(cola)
     IN  \/ /\ m.msg = "linea" /\ log.ruta \in Abribles
            /\ cola' = Tail(cola) /\ UNCHANGED log
         \/ /\ m.msg = "linea" /\ log.ruta \notin Abribles
            /\ cola' = <<>> /\ log' = [log EXCEPT !.vivo = FALSE]
         \/ /\ m.msg = "monitor"
            /\ cola' = Tail(cola)
            /\ \/ log' = [log EXCEPT !.monitores = Append(@, m.cliente)]
               \/ UNCHANGED log
         \/ /\ m.msg = "archivo"
            /\ cola' = Tail(cola) /\ log' = [log EXCEPT !.ruta = m.ruta]
  /\ UNCHANGED <<config, bandera, rutaDb, envenenada, hilos>>

-----------------------------------------------------------------------------
Seguir(c) == \/ SinMutex(c) \/ MONITOR(c) \/ ConfigSet(c) \/ ConfigGet(c) \/ TomarBdd(c)
             \/ SoltarBdd(c) \/ InfoConfig(c) \/ InfoBdd(c) \/ Actualizar(c) \/ Responder(c)

Next == \/ \E c \in Clientes : Conectar(c) \/ Recibir(c) \/ Seguir(c) \/ Desconectar(c)
        \/ Logear

Spec == Init /\ [][Next]_vars

(* The operating system runs every thread that can run.  Clients need not  *)
(* send anything.                                                          *)
SpecJusta == /\ Spec
             /\ WF_vars(Logear)
             /\ \A c \in Clientes : WF_vars(Seguir(c))

-----------------------------------------------------------------------------
(* The flag of MONITOR is only up while the thread that raised it is on    *)
(* its way to actualizar: a client can be made a monitor in place of       *)
(* another only while that other is between its two sections.              *)
BanderaTransitoria ==
  bandera => \E c \in Clientes : fase[c] = "actualizar" /\ pedido[c] = "MONITOR"

(* Every registration of a monitor, done or on its way, is accounted for   *)
(* by a MONITOR of some client: none is registered twice for one request.  *)
MonitoresPedidos ==
  LET registros == {i \in DOMAIN cola : cola[i].msg = "monitor"}
  IN  Len(log.monitores) + Cardinality(registros) + (IF bandera THEN 1 ELSE 0)
        <= Len(pidieron)

(* The log thread's file is, or will be once it has read its channel, the  *)
(* logfile of the configuration; so is the name sent to the persistence    *)
(* thread.  The exception is a CONFIG SET not yet past actualizar.         *)
RutaPendiente(r) ==
  \/ \E i \in DOMAIN cola :
       /\ cola[i] = ArchivoALogear(r)
       /\ \A j \in DOMAIN cola : j > i => cola[j].msg # "archivo"
  \/ log.ruta = r /\ \A j \in DOMAIN cola : cola[j].msg # "archivo"
EnCamino(p) == \E c \in Clientes : fase[c] = "actualizar" /\ pedido[c] = p
RutasAlDia ==
  /\ log.vivo => RutaPendiente(config["logfile"]) \/ EnCamino("SETLOG")
  /\ rutaDb = config["dbfilename"] \/ EnCamino("SETDB")

(* Every request is answered or its thread ends: the nested mutexes of     *)
(* INFO never block each other, nor does a log thread that has ended.      *)
TodoPedidoTermina ==
  \A c \in Clientes : fase[c] = "ejecutar" ~> fase[c] \in {"libre", "ido"}

(* comando_server_handler.rs:169, "imprime al cliente cada comando         *)
(* procesado por el servidor", of MONITOR: the log goes to clients that    *)
(* asked for it.                                                           *)
MonitorEsQuienPidio == ToSet(log.monitores) \subseteq ToSet(pidieron)

=============================================================================
