------------------------------- MODULE PubSub -------------------------------
(***************************************************************************)
(* Channels (canal.rs) and the commands on them (comando_pubsub_handler.rs)*)
(* run by the client threads of module Hilos, beside the other commands.   *)
(*                                                                         *)
(* A client is a connection, and its token is not used again.  Of a Canal  *)
(* only its subscribers are kept; of a message, the channel it came from.  *)
(* A write to a socket the peer has closed may still succeed; one to the   *)
(* socket of a subscriber that does not read may block until it closes.    *)
(***************************************************************************)
EXTENDS Servidor

CONSTANTS Sordas,      \* clients that do not read, whose buffers may fill up
          MaxAvisos    \* bound: subscriptions of a client to each channel

ASSUME PubSubAssumption == Sordas \subseteq Clientes /\ MaxAvisos \in [Claves -> Nat]

VARIABLES ps,        \* where each thread is inside a command on channels
          abierto,   \* whether the client keeps its end of the socket open
          altas,     \* "subscribe" notices each client received of each channel
          bajas,     \* "unsubscribe" notices
          buzon      \* the channels each client received messages from

varsPS == <<vars, ps, abierto, altas, bajas, buzon>>
avisos == <<altas, bajas, buzon>>

-----------------------------------------------------------------------------
Recorridos == {"SUBSCRIBE", "UNSUBSCRIBE", "NUMSUB"}

Ocioso == [paso |-> "nada"]
Recorre(op, ks, ns) == [paso |-> "recorrer", op |-> op, faltan |-> ks, largos |-> ns]
Guarda(op, ks, cs) == [paso |-> "guardar", op |-> op, faltan |-> ks, suscriptores |-> cs]
Publica(k, cs, n, bs) == [paso |-> "publicar", clave |-> k, faltan |-> cs,
                          publicados |-> n, bloquea |-> bs]

PsRecorrer == [paso : {"recorrer"}, op : Recorridos, faltan : Seq(Claves),
               largos : Seq([res : {"Int"}, int : Nat])]
PsGuardar == [paso : {"guardar"}, op : Recorridos, faltan : Seq(Claves) \ {<<>>},
              suscriptores : Seq(Clientes)]
PsPublicar == [paso : {"publicar"}, clave : Claves, faltan : Seq(Clientes), publicados : Nat,
               bloquea : SUBSET Clientes]

TipoPubSub ==
  /\ ps \in [Clientes -> {Ocioso} \cup PsRecorrer \cup PsGuardar \cup PsPublicar]
  /\ abierto \in [Clientes -> BOOLEAN]
  /\ altas \in [Clientes -> [Claves -> Nat]]
  /\ bajas \in [Clientes -> [Claves -> Nat]]
  /\ buzon \in [Clientes -> SUBSET Claves]

InitPS ==
  /\ Init
  /\ ps = [c \in Clientes |-> Ocioso]
  /\ abierto = [c \in Clientes |-> TRUE]
  /\ altas = [c \in Clientes |-> [k \in Claves |-> 0]]
  /\ bajas = [c \in Clientes |-> [k \in Claves |-> 0]]
  /\ buzon = [c \in Clientes |-> {}]

-----------------------------------------------------------------------------
(* The subscribers of the channel under a key, and whether one may         *)
(* subscribe to it: a key that holds nothing is a new channel.             *)
EsCanal(v) == v.tipo = "Canal"
Suscriptores(v) == IF EsCanal(v) THEN v.suscriptores ELSE <<>>

Veces(c, cs) == Cardinality({i \in DOMAIN cs : cs[i] = c})

(* Mutant of Suscribirse: a client on the list is not told again. *)
SuscribirseCallado(c, k, cs) ==
  /\ abierto[c]
  /\ altas' = IF Veces(c, cs) > 0 THEN altas ELSE [altas EXCEPT ![c][k] = @ + 1]
  /\ ps' = [ps EXCEPT ![c] = Guarda(@.op, @.faltan, Append(cs, c))]

(* Canal::suscribirse: the client is told first, and goes on the list if   *)
(* it could be told; it may be there already.                              *)
Suscribirse(c, k, cs) ==
  \/ /\ abierto[c]
     /\ altas' = [altas EXCEPT ![c][k] = @ + 1]
     /\ ps' = [ps EXCEPT ![c] = Guarda(@.op, @.faltan, Append(cs, c))]
  \/ /\ ~abierto[c]
     /\ \E ds \in {cs, Append(cs, c)} : ps' = [ps EXCEPT ![c] = Guarda(@.op, @.faltan, ds)]
     /\ UNCHANGED altas

(* Mutant of Desuscribirse: every subscription of the client is removed. *)
DesuscribirseDeTodo(c, k, cs) ==
  /\ ps' = [ps EXCEPT ![c] = Guarda(@.op, @.faltan, SelectSeq(cs, LAMBDA d : d # c))]
  /\ bajas' = IF Veces(c, cs) = 0 \/ ~abierto[c] THEN bajas
              ELSE [bajas EXCEPT ![c][k] = @ + 1]

(* Canal::desuscribirse: one occurrence is removed, and the client told.   *)
Desuscribirse(c, k, cs) ==
  LET i == CHOOSE i \in DOMAIN cs : cs[i] = c /\ \A j \in 1 .. i - 1 : cs[j] # c
  IN  \/ /\ Veces(c, cs) = 0
         /\ ps' = [ps EXCEPT ![c] = Guarda(@.op, @.faltan, cs)]
         /\ UNCHANGED bajas
      \/ /\ Veces(c, cs) > 0
         /\ ps' = [ps EXCEPT ![c] = Guarda(@.op, @.faltan, RemoveAt(cs, i))]
         /\ bajas' = IF abierto[c] THEN [bajas EXCEPT ![c][k] = @ + 1] ELSE bajas

-----------------------------------------------------------------------------
(* subscribe, unsubscribe and numsub visit their keys one after another.   *)
Recorrer(c) ==
  /\ abierto[c] /\ ps[c] = Ocioso
  /\ \E op \in Recorridos, ks \in Grupos :
       /\ Pide(c, op, ToSet(ks))
       /\ op = "SUBSCRIBE" => \A k \in ToSet(ks) : altas[c][k] < MaxAvisos[k]
       /\ ps' = [ps EXCEPT ![c] = Recorre(op, ks, <<>>)]
  /\ UNCHANGED <<vars, abierto, avisos>>

Terminar(c, r) == /\ Responder(c, r)
                  /\ ps' = [ps EXCEPT ![c] = Ocioso]
                  /\ UNCHANGED <<altas, bajas>>

(* The section that reads a channel, and what is done with the copy before *)
(* the next section.                                                       *)
LeerCanal(c) ==
  /\ ps[c].paso = "recorrer" /\ ps[c].faltan # <<>>
  /\ LET k == Head(ps[c].faltan)
         v == Leido(k)
         sirve == EsCanal(v) \/ (v = Nada /\ ps[c].op = "SUBSCRIBE")
     IN  \/ envenenado /\ Terminar(c, ErrBdd)
         \/ ~envenenado /\ ~sirve /\ Terminar(c, WrongType)
         \/ /\ ~envenenado /\ sirve /\ ps[c].op = "NUMSUB"
            /\ ps' = [ps EXCEPT ![c] =
                        Recorre(@.op, Tail(@.faltan),
                                Append(@.largos, Entero(Len(v.suscriptores))))]
            /\ UNCHANGED <<fase, pend, resp, altas, bajas>>
         \/ /\ ~envenenado /\ sirve /\ ps[c].op = "SUBSCRIBE"
            /\ Suscribirse(c, k, Suscriptores(v))
            /\ UNCHANGED <<fase, pend, resp, bajas>>
         \/ /\ ~envenenado /\ sirve /\ ps[c].op = "UNSUBSCRIBE"
            /\ Desuscribirse(c, k, Suscriptores(v))
            /\ UNCHANGED <<fase, pend, resp, altas>>
  /\ UNCHANGED <<compartidas, ahora, abierto, buzon>>

(* The section that stores the channel over whatever the key holds by now. *)
GuardarCanal(c) ==
  /\ ps[c].paso = "guardar"
  /\ \/ /\ envenenado /\ Terminar(c, ErrBdd)
        /\ UNCHANGED <<tabla, enviado>>
     \/ /\ ~envenenado
        /\ tabla' = GuardarValor(tabla, Head(ps[c].faltan), Canal(ps[c].suscriptores))
        /\ enviado' = tabla'
        /\ ps' = [ps EXCEPT ![c] = Recorre(@.op, Tail(@.faltan), <<>>)]
        /\ UNCHANGED <<fase, pend, resp, altas, bajas>>
  /\ UNCHANGED <<envenenado, ahora, abierto, buzon>>

FinRecorrer(c) ==
  /\ ps[c].paso = "recorrer" /\ ps[c].faltan = <<>>
  /\ Terminar(c, IF ps[c].op = "NUMSUB" THEN Vector(ps[c].largos) ELSE Vacio)
  /\ UNCHANGED <<compartidas, ahora, abierto, buzon>>

(* publish sends to the subscribers of a copy, after releasing the mutex.  *)
PUBLISH(c, k) ==
  /\ abierto[c] /\ ps[c] = Ocioso /\ Pide(c, "PUBLISH", {k})
  /\ \/ envenenado /\ Terminar(c, ErrBdd)
     \/ ~envenenado /\ ~EsCanal(Leido(k)) /\ Terminar(c, WrongType)
     \/ /\ ~envenenado /\ EsCanal(Leido(k))
        /\ ps' = [ps EXCEPT ![c] = Publica(k, Leido(k).suscriptores, 0, {})]
        /\ UNCHANGED <<fase, pend, resp, altas, bajas>>
  /\ UNCHANGED <<compartidas, ahora, abierto, buzon>>

(* Mutant of Entregar: a send that fails is tried again. *)
EntregarInsistiendo(c) ==
  /\ ps[c].paso = "publicar" /\ ps[c].faltan # <<>>
  /\ LET s == Head(ps[c].faltan)
     IN  /\ abierto[s]
         /\ buzon' = [buzon EXCEPT ![s] = @ \cup {ps[c].clave}]
         /\ ps' = [ps EXCEPT ![c] = Publica(@.clave, Tail(@.faltan), @.publicados + 1, {})]
  /\ UNCHANGED <<vars, abierto, altas, bajas>>

(* The message is written to the next subscriber; bloquea holds it when    *)
(* the write does not return.                                              *)
Entregar(c) ==
  /\ ps[c].paso = "publicar" /\ ps[c].faltan # <<>>
  /\ LET s == Head(ps[c].faltan)
     IN  \/ /\ abierto[s] => ps[c].bloquea = {}
            /\ buzon' = IF abierto[s] THEN [buzon EXCEPT ![s] = @ \cup {ps[c].clave}]
                        ELSE buzon
            /\ ps' = [ps EXCEPT ![c] = Publica(@.clave, Tail(@.faltan), @.publicados + 1, {})]
         \/ /\ ~abierto[s]
            /\ ps' = [ps EXCEPT ![c] = Publica(@.clave, Tail(@.faltan), @.publicados, {})]
            /\ UNCHANGED buzon
         \/ /\ abierto[s] /\ s \in Sordas /\ ps[c].bloquea = {}
            /\ ps' = [ps EXCEPT ![c] = Publica(@.clave, @.faltan, @.publicados, {s})]
            /\ UNCHANGED buzon
  /\ UNCHANGED <<vars, abierto, altas, bajas>>

FinPublicar(c) ==
  /\ ps[c].paso = "publicar" /\ ps[c].faltan = <<>>
  /\ Terminar(c, Entero(ps[c].publicados))
  /\ UNCHANGED <<compartidas, ahora, abierto, buzon>>

(* channels: of the keys S that match, those with more than one subscriber *)
CHANNELS(c) ==
  /\ abierto[c] /\ ps[c] = Ocioso
  /\ \E S \in SUBSET Permitidas[c] :
       /\ Pide(c, "CHANNELS", S)
       /\ Seccion(c, tabla, enviado,
                  Miembros({k \in S : Len(Suscriptores(Leido(k))) > 1}))
  /\ UNCHANGED <<ps, abierto, avisos>>

(* A client goes; its thread still ends the command it is running, and the *)
(* lists keep the client.                                                  *)
Cerrar(c) ==
  /\ abierto[c]
  /\ abierto' = [abierto EXCEPT ![c] = FALSE]
  /\ UNCHANGED <<vars, ps, avisos>>

(* The commands of the other handlers.                                     *)
OtroComando(c) ==
  /\ ps[c] = Ocioso
  /\ \/ Continuar(c)
     \/ abierto[c] /\ (\/ ComandoString(c) \/ ComandoList(c) \/ ComandoSet(c)
                       \/ ComandoKey(c) \/ ComandoServer(c))
  /\ UNCHANGED <<ps, abierto, avisos>>

SeguirPS(c) == \/ LeerCanal(c) \/ GuardarCanal(c) \/ FinRecorrer(c)
               \/ Entregar(c) \/ FinPublicar(c)

NextPS == \E c \in Clientes :
            \/ Recorrer(c) \/ CHANNELS(c) \/ Cerrar(c) \/ OtroComando(c) \/ SeguirPS(c)
            \/ \E k \in Claves : PUBLISH(c, k)

SpecPS == InitPS /\ [][NextPS]_varsPS

(* As in Servidor: a thread in a command is scheduled again.               *)
SpecPSJusta == SpecPS /\ \A c \in Clientes : WF_varsPS(SeguirPS(c))

-----------------------------------------------------------------------------
(* The keys that only c uses.                                              *)
SoloDe(c) == {k \in Permitidas[c] : \A d \in Clientes \ {c} : k \notin Permitidas[d]}

(* What k holds once the section in progress of c, if any, is done.        *)
ListaDe(c, k) == IF ps[c].paso = "guardar" /\ Head(ps[c].faltan) = k
                 THEN ps[c].suscriptores ELSE Suscriptores(tabla[k].valor)

(* On a channel that no other client touches, a client is subscribed as    *)
(* often as it was told so and not told otherwise, although the list is    *)
(* read in one section and stored in another.  A mutex poisoned between    *)
(* the notice and the second section costs at most that one notice.        *)
SuscripcionesAlDia ==
  \A c \in Clientes : abierto[c] =>
    \A k \in SoloDe(c) :
      LET neto == altas[c][k] - bajas[c][k] - Veces(c, ListaDe(c, k))
      IN  IF envenenado THEN neto \in -1 .. 1 ELSE neto = 0

(* However the sections of subscribe and unsubscribe interleave, a client  *)
(* is on no list more often than it was told that it subscribed, be it in  *)
(* the table or in the copy some thread carries, and it gets messages only *)
(* from channels that it was told of.                                      *)
Listas(k) ==
  {Suscriptores(tabla[k].valor)}
    \cup {ps[c].suscriptores : c \in {d \in Clientes : /\ ps[d].paso = "guardar"
                                                       /\ Head(ps[d].faltan) = k}}
    \cup {ps[c].faltan : c \in {d \in Clientes : /\ ps[d].paso = "publicar"
                                                 /\ ps[d].clave = k}}
NadieDeMas ==
  \A c \in Clientes : abierto[c] =>
    \A k \in Claves : /\ \A cs \in Listas(k) : Veces(c, cs) <= altas[c][k]
                      /\ k \in buzon[c] => altas[c][k] > 0

(* Every command on channels ends, whoever left and whatever was poisoned, *)
(* but a PUBLISH whose write blocks for as long as its subscriber stays    *)
(* without reading: it holds nobody else up.                               *)
Bloqueada(c) == /\ ps[c].paso = "publicar" /\ ps[c].bloquea # {}
                /\ abierto[Head(ps[c].faltan)]
CanalesTerminan == \A c \in Clientes : ps[c] # Ocioso ~> ps[c] = Ocioso \/ Bloqueada(c)

=============================================================================
