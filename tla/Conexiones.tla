----------------------------- MODULE Conexiones -----------------------------
(***************************************************************************)
(* Connections: the accept loop of redis.rs, the two kinds of client       *)
(* (cliente.rs, cliente_redis.rs, cliente_http.rs) and the two parsers     *)
(* (parser.rs, http_parser.rs).                                            *)
(*                                                                         *)
(* What travels is a sequence of units.  Unit 0 of a RESP command is its   *)
(* *n line, and unit j its j-th word with the $len line before it; unit 0  *)
(* of an HTTP request is its request line and headers, and unit j the j-th *)
(* word of its body.  Words are data the parser only measures: a word read *)
(* where a length is due is taken to be a wrong one.                       *)
(***************************************************************************)
EXTENDS Integers, Sequences, SequencesExt, FiniteSets

CONSTANTS Conexiones,   \* clients, with one connection each
          Nadie,        \* no connection
          Guion,        \* Guion[c]: the requests of c, in the order it sends them
          Apuradas,     \* the clients that do not wait for one answer to send on
          NombraHttp,   \* the units of RESP clients with the word HTTP in them
          NoUtf8,       \* the units that are words of bytes that are not UTF-8
          MaxAbiertas,  \* bound: the clients that ever connect
          HttpSoporta,  \* the commands soporta_comando accepts from HTTP clients
          Existen       \* the commands some handler knows

(* A request has a metodo (RESP, or the one of an HTTP request), the       *)
(* nombre of its command and the number of its words, largo.               *)
ASSUME ConexionesAssumption ==
  /\ Nadie \notin Conexiones
  /\ DOMAIN Guion = Conexiones
  /\ \A c \in Conexiones : Len(Guion[c]) \in Nat /\ DOMAIN Guion[c] = 1 .. Len(Guion[c])
  /\ \A c \in Conexiones : \A i \in DOMAIN Guion[c] :
       LET p == Guion[c][i]
       IN  /\ p.metodo \in {"RESP", "GET", "POST", "PUT"}
           /\ p.largo \in Nat /\ (p.largo = 0) = (p.metodo \in {"GET", "PUT"})
           /\ p.metodo # "RESP" => c \notin Apuradas
  /\ \A x \in NoUtf8 : x[2].pos > 0

VARIABLES pendientes,  \* connections the listener has not returned yet
          aceptando,   \* the connection crear_cliente is peeking at
          proximo,     \* the unit each client sends next
          cerrada,     \* the client has closed its end
          red,         \* the units that arrived and were not read
          hilo,        \* where the thread of each connection is
          proto,       \* the kind of client crear_cliente chose
          mando,       \* ClienteHttp.mando
          leido,       \* the units the parser has taken of the command it reads
          hechos,      \* history: the commands executed for each connection
          respuestas   \* answers written to each connection

vars == <<pendientes, aceptando, proximo, cerrada, red, hilo, proto, mando,
          leido, hechos, respuestas>>
cliente == <<proximo, cerrada>>
escucha == <<pendientes, aceptando>>

-----------------------------------------------------------------------------
(* Unit pos of the request req, the request u is of, and the unit that     *)
(* follows u: the next of its request or the first of the next one.        *)
Unidad(r, p) == [req |-> r, pos |-> p]
Pedido(c, u) == Guion[c][u.req]
Siguiente(c, u) == IF u.pos < Pedido(c, u).largo THEN Unidad(u.req, u.pos + 1)
                   ELSE Unidad(u.req + 1, 0)
EsHttp(c, u) == Pedido(c, u).metodo # "RESP"

(* The units from_utf8, and lines(), cannot make a String of.              *)
Ilegible(c, u) == <<c, u>> \in NoUtf8
Ilegibles(c, us) == {u \in ToSet(us) : Ilegible(c, u)}

(* The word HTTP is in what crear_cliente peeks, if it is text at all.     *)
DiceHttp(c, us) ==
  /\ Ilegibles(c, us) = {}
  /\ \E u \in ToSet(us) : (EsHttp(c, u) /\ u.pos = 0) \/ <<c, u>> \in NombraHttp

(* The words of its request that a parser gets out of us.                  *)
Palabras(c, us) ==
  {u.pos : u \in {v \in ToSet(us) : v.req = us[1].req /\ v.pos > 0 /\ ~Ilegible(c, v)}}

(* parsear_stream starts at a *n line, and has all the words it announced. *)
EnSuLugar(c, us) == us[1].pos = 0 /\ ~EsHttp(c, us[1])
Completo(c, us) == EnSuLugar(c, us) /\ Palabras(c, us) = 1 .. Pedido(c, us[1]).largo

(* A word that is not UTF-8 is skipped, and the parser goes on for as many *)
(* words as were announced: into the next request, whose *n line is taken  *)
(* for a length and the $len line after it for a word.                     *)
Corrido(c, us) == /\ EnSuLugar(c, us) /\ ~Completo(c, us)
                  /\ \E u \in ToSet(us) : u.req > us[1].req /\ u.pos > 0

(* HttpParser::parsear_stream fails on what one read returned: it starts   *)
(* with no request line, it is a POST whose body is yet to come, or it is  *)
(* not UTF-8.                                                              *)
Metodo(c, us) == Pedido(c, us[1]).metodo
NoEsHttp(c, us) == \/ Metodo(c, us) = "RESP" \/ Ilegibles(c, us) # {}
                   \/ Metodo(c, us) = "POST" /\ Palabras(c, us) = {}

Init ==
  /\ pendientes = <<>> /\ aceptando = Nadie
  /\ proximo = [c \in Conexiones |-> Unidad(1, 0)]
  /\ cerrada = [c \in Conexiones |-> FALSE]
  /\ red = [c \in Conexiones |-> <<>>]
  /\ hilo = [c \in Conexiones |-> "no"]
  /\ proto = [c \in Conexiones |-> "ninguno"]
  /\ mando = [c \in Conexiones |-> FALSE]
  /\ leido = [c \in Conexiones |-> <<>>]
  /\ hechos = [c \in Conexiones |-> <<>>]
  /\ respuestas = [c \in Conexiones |-> 0]

TypeOK ==
  /\ pendientes \in Seq(Conexiones) /\ aceptando \in Conexiones \cup {Nadie}
  /\ proximo \in [Conexiones -> [req : Nat, pos : Nat]]
  /\ respuestas \in [Conexiones -> Nat]
  /\ cerrada \in [Conexiones -> BOOLEAN] /\ mando \in [Conexiones -> BOOLEAN]
  /\ hilo \in [Conexiones -> {"no", "cola", "espera", "lee", "ejecuta", "responde", "fin"}]
  /\ proto \in [Conexiones -> {"ninguno", "redis", "http"}]
  /\ DOMAIN red = Conexiones /\ DOMAIN leido = Conexiones /\ DOMAIN hechos = Conexiones

-----------------------------------------------------------------------------
(* The clients.                                                            *)
Conectar(c) ==
  /\ hilo[c] = "no" /\ Cardinality({d \in Conexiones : hilo[d] # "no"}) < MaxAbiertas
  /\ pendientes' = Append(pendientes, c)
  /\ hilo' = [hilo EXCEPT ![c] = "cola"]
  /\ UNCHANGED <<aceptando, cliente, red, proto, mando, leido, hechos, respuestas>>

(* A client that waits starts a request when the ones before are answered. *)
Enviar(c) ==
  /\ hilo[c] \notin {"no", "fin"} /\ ~cerrada[c] /\ proximo[c].req \in DOMAIN Guion[c]
  /\ LET u == proximo[c]
     IN  /\ c \in Apuradas \/ u.pos > 0 \/ respuestas[c] = u.req - 1
         /\ red' = [red EXCEPT ![c] = Append(@, u)]
         /\ proximo' = [proximo EXCEPT ![c] = Siguiente(c, u)]
  /\ UNCHANGED <<escucha, cerrada, hilo, proto, mando, leido, hechos, respuestas>>

Cerrar(c) ==
  /\ hilo[c] \notin {"no", "fin"} /\ ~cerrada[c]
  /\ cerrada' = [cerrada EXCEPT ![c] = TRUE]
  /\ UNCHANGED <<escucha, proximo, red, hilo, proto, mando, leido, hechos, respuestas>>

-----------------------------------------------------------------------------
(* The accept loop.  Every other connection waits while crear_cliente      *)
(* peeks at this one.                                                      *)
Aceptar ==
  /\ aceptando = Nadie /\ pendientes # <<>>
  /\ aceptando' = Head(pendientes) /\ pendientes' = Tail(pendientes)
  /\ UNCHANGED <<cliente, red, hilo, proto, mando, leido, hechos, respuestas>>

CrearCliente(c) ==
  /\ aceptando = c
  /\ red[c] # <<>> \/ cerrada[c]
  /\ proto' = [proto EXCEPT ![c] = IF DiceHttp(c, red[c]) THEN "http" ELSE "redis"]
  /\ hilo' = [hilo EXCEPT ![c] = "espera"]
  /\ aceptando' = Nadie
  /\ UNCHANGED <<pendientes, cliente, red, mando, leido, hechos, respuestas>>

-----------------------------------------------------------------------------
(* Mutant of EnvioInformacion: HTTP clients are peeked at like the others. *)
EnvioInformacionMirando(c) == red[c] # <<>>

(* manejar_cliente: a peek that finds data starts a new parser, and one    *)
(* that finds the end, or an HTTP client that was served, ends the thread. *)
EnvioInformacion(c) ==
  IF proto[c] = "http" THEN ~mando[c] ELSE red[c] # <<>>
EstaConectado(c) ==
  IF proto[c] = "http" THEN ~mando[c] ELSE ~cerrada[c]

Ciclo(c) ==
  /\ hilo[c] = "espera"
  /\ \/ EnvioInformacion(c) /\ hilo' = [hilo EXCEPT ![c] = "lee"]
     \/ ~EnvioInformacion(c) /\ ~EstaConectado(c) /\ hilo' = [hilo EXCEPT ![c] = "fin"]
  /\ leido' = [leido EXCEPT ![c] = <<>>]
  /\ UNCHANGED <<escucha, cliente, red, proto, mando, hechos, respuestas>>

(* The thread goes to p having taken us; it ends without an answer.        *)
Pasa(c, p, us) == /\ hilo' = [hilo EXCEPT ![c] = p]
                  /\ leido' = [leido EXCEPT ![c] = us]

(* Mutant of LeerRedis: what one read returns is taken to be the command. *)
LeerDeUna(c) ==
  /\ hilo[c] = "lee" /\ proto[c] = "redis" /\ red[c] # <<>>
  /\ Pasa(c, IF Len(red[c]) > 1 THEN "ejecuta" ELSE "fin", red[c])
  /\ red' = [red EXCEPT ![c] = <<>>]
  /\ UNCHANGED <<escucha, cliente, proto, mando, hechos, respuestas>>

(* Mutant of LeerRedis: the units of a command stay to be read again. *)
LeerSinConsumir(c) ==
  /\ hilo[c] = "lee" /\ proto[c] = "redis" /\ red[c] # <<>>
  /\ IF Completo(c, red[c])
     THEN Pasa(c, "ejecuta", red[c])
     ELSE Pasa(c, "lee", leido[c])
  /\ UNCHANGED <<escucha, cliente, red, proto, mando, hechos, respuestas>>

(* Mutant of LeerRedis: waits for one word more than announced. *)
LeerUnaMas(c) ==
  /\ hilo[c] = "lee" /\ proto[c] = "redis" /\ red[c] # <<>>
  /\ LET us == leido[c] \o red[c]
     IN  IF Completo(c, us) /\ Len(us) > Pedido(c, us[1]).largo + 1
         THEN Pasa(c, "ejecuta", us)
         ELSE Pasa(c, "lee", us)
  /\ red' = [red EXCEPT ![c] = <<>>]
  /\ UNCHANGED <<escucha, cliente, proto, mando, hechos, respuestas>>

(* Parser::parsear_stream, as far as one read of its BufReader goes.  The  *)
(* read takes all that arrived; what follows the command is dropped with   *)
(* the parser.  A command with a word that is not UTF-8 waits for words    *)
(* that are not to come; those of the next request, should the client send *)
(* it, may be the wrong length, another command, or not enough either.  A  *)
(* command read from its middle ends the connection, as soon as there is a *)
(* word to compare its false length with, and so does an HTTP request.     *)
LeerRedis(c) ==
  /\ hilo[c] = "lee" /\ proto[c] = "redis" /\ red[c] # <<>>
  /\ LET us == leido[c] \o red[c]
     IN  \/ Completo(c, us) /\ Pasa(c, "ejecuta", us)
         \/ /\ EnSuLugar(c, us) /\ ~Completo(c, us) /\ ~Corrido(c, us)
            /\ Pasa(c, "lee", us)
         \/ Corrido(c, us) /\ \E p \in {"lee", "ejecuta", "fin"} : Pasa(c, p, us)
         \/ /\ us[1].pos > 0
            /\ Pasa(c, IF Len(us) > 1 \/ Ilegible(c, us[1]) THEN "fin" ELSE "lee", us)
         \/ EsHttp(c, us[1]) /\ us[1].pos = 0 /\ Pasa(c, "fin", us)
  /\ red' = [red EXCEPT ![c] = <<>>]
  /\ UNCHANGED <<escucha, cliente, proto, mando, hechos, respuestas>>

(* The stream ends inside a command, which is then executed with the words *)
(* that arrived.  With none, ComandoInfo::new panics; a word cut in two is *)
(* a syntax error: the thread ends.                                        *)
FinDeStream(c) ==
  /\ hilo[c] = "lee" /\ proto[c] = "redis" /\ red[c] = <<>> /\ cerrada[c]
  /\ \/ /\ EnSuLugar(c, leido[c])
        /\ Palabras(c, leido[c]) # {} \/ Corrido(c, leido[c])
        /\ Pasa(c, "ejecuta", leido[c])
     \/ Pasa(c, "fin", leido[c])
  /\ UNCHANGED <<escucha, cliente, red, proto, mando, hechos, respuestas>>

(* Writing to a client that has gone may or may not fail.                  *)
Escribir(c, sigue) ==
  \/ /\ respuestas' = [respuestas EXCEPT ![c] = @ + 1]
     /\ hilo' = [hilo EXCEPT ![c] = sigue]
  \/ /\ cerrada[c]
     /\ hilo' = [hilo EXCEPT ![c] = "fin"]
     /\ UNCHANGED respuestas

(* ClienteHttp::obtener_comando: one read, whatever has arrived of the     *)
(* request by then.  GET answers the page (or the icon) and any other      *)
(* method but POST a 400; a POST without a body, and a RESP command taken  *)
(* for a request, end the connection.                                      *)
LeerHttp(c) ==
  /\ hilo[c] = "lee" /\ proto[c] = "http" /\ red[c] # <<>>
  /\ mando' = [mando EXCEPT ![c] = TRUE]
  /\ LET us == red[c]
     IN  \/ /\ Metodo(c, us) \in {"GET", "PUT"}
            /\ Escribir(c, "espera") /\ UNCHANGED leido
         \/ /\ Metodo(c, us) = "POST" /\ ~NoEsHttp(c, us)
            /\ Pasa(c, "ejecuta", us) /\ UNCHANGED respuestas
         \/ NoEsHttp(c, us) /\ Pasa(c, "fin", us) /\ UNCHANGED respuestas
  /\ red' = [red EXCEPT ![c] = <<>>]
  /\ UNCHANGED <<escucha, cliente, proto, hechos>>

(* crear_comando_handler finds a handler for the command.                  *)
TieneHandler(c, nombre) ==
  nombre \in Existen /\ (proto[c] = "http" => nombre \in HttpSoporta)

(* manejar_comando: a command without a handler is answered and not run.   *)
(* One that lost its first word has the next one for a name.               *)
Ejecutar(c) ==
  /\ hilo[c] = "ejecuta"
  /\ LET us == leido[c]
     IN  \E corre \in BOOLEAN :
           /\ 1 \in Palabras(c, us) => corre = TieneHandler(c, Pedido(c, us[1]).nombre)
           /\ hechos' = [hechos EXCEPT ![c] = Append(@,
                [req |-> us[1].req, palabras |-> Palabras(c, us), corrio |-> corre])]
  /\ hilo' = [hilo EXCEPT ![c] = "responde"]
  /\ UNCHANGED <<escucha, cliente, red, proto, mando, leido, respuestas>>

(* enviar_resultado.                                                       *)
Responder(c) ==
  /\ hilo[c] = "responde"
  /\ Escribir(c, "espera")
  /\ mando' = [mando EXCEPT ![c] = @ \/ proto[c] = "http"]
  /\ UNCHANGED <<escucha, cliente, red, proto, leido, hechos>>

HiloCliente(c) == \/ Ciclo(c) \/ LeerRedis(c) \/ FinDeStream(c) \/ LeerHttp(c)
                  \/ Ejecutar(c) \/ Responder(c)
HiloPrincipal == Aceptar \/ \E c \in Conexiones : CrearCliente(c)

Next == \/ HiloPrincipal
        \/ \E c \in Conexiones : Conectar(c) \/ Enviar(c) \/ Cerrar(c) \/ HiloCliente(c)

Spec == Init /\ [][Next]_vars

(* The operating system runs every thread that is not blocked; clients may *)
(* stop at any time.                                                       *)
SpecJusta == Spec /\ WF_vars(HiloPrincipal) /\ \A c \in Conexiones : WF_vars(HiloCliente(c))

-----------------------------------------------------------------------------
Entero(c, h) == h.palabras = 1 .. Guion[c][h.req].largo

(* Whatever the packets its commands travel in, a RESP client that waits   *)
(* for each answer has its commands executed in the order it sent them,    *)
(* none lost and each whole, but for the last one when it closes amid it.  *)
NadaSePierde ==
  \A c \in Conexiones \ Apuradas : proto[c] = "redis" =>
    \A k \in DOMAIN hechos[c] :
      /\ hechos[c][k].req = k
      /\ Entero(c, hechos[c][k]) \/ (cerrada[c] /\ k = Len(hechos[c]))

(* A client that does not wait may lose commands with the parser's buffer, *)
(* but none is executed twice, or before one it had sent earlier.          *)
SinRepetir ==
  \A c \in Conexiones : \A k, l \in DOMAIN hechos[c] :
    k < l => hechos[c][k].req < hechos[c][l].req

(* An HTTP connection is answered once at most, for its first request.     *)
HttpUnaRespuesta ==
  \A c \in Conexiones : proto[c] = "http" =>
    /\ respuestas[c] <= 1
    /\ \A k \in DOMAIN hechos[c] : hechos[c][k].req = 1

(* A RESP request that c has sent has a word that is not UTF-8: its parser *)
(* waits for one more, and nothing wakes it but the client.                *)
Colgada(c) ==
  proto[c] # "http" /\ \E x \in NoUtf8 : x[1] = c /\ x[2].req < proximo[c].req /\ ~EsHttp(c, x[2])

(* Every request of c was sent to its end, and one waits for its answer.   *)
EsperaRespuesta(c) ==
  /\ c \notin Apuradas /\ hilo[c] \notin {"no", "fin"} /\ ~Colgada(c)
  /\ proximo[c].pos = 0 /\ respuestas[c] < proximo[c].req - 1

(* As long as no client leaves the accept loop peeking forever, whoever    *)
(* has sent a whole request, all of it text, and waits is answered or      *)
(* disconnected in the end; and the connection of an HTTP client is        *)
(* closed, which is how it knows that the answer is over.  Every client    *)
(* sends finitely much.                                                    *)
TodosAtendidos ==
  []<>(aceptando = Nadie) =>
    <>[](\A c \in Conexiones : /\ ~EsperaRespuesta(c)
                               /\ proto[c] = "http" => hilo[c] = "fin")

=============================================================================
