-------------------------------- MODULE Hilos --------------------------------
(***************************************************************************)
(* One thread per client (redis.rs) over the table behind a mutex.         *)
(*                                                                         *)
(* A step is one critical section of a handler together with the local     *)
(* computation around it: what a handler read before it released the       *)
(* mutex stays in pend[c] until its next section.  A panic ends the        *)
(* thread; when it happens inside a section it also poisons the mutex, and *)
(* from then on lock() fails.                                              *)
(*                                                                         *)
(* enviado is the last copy of the table handed to the observer (the       *)
(* sender of the persistence channel) by notificar_observadores, which     *)
(* runs inside the section.                                                *)
(***************************************************************************)
EXTENDS SetOps

CONSTANTS Permitidas,     \* the keys each client uses
          Comandos,       \* the commands each client issues
          TablaInicial,   \* the table levantar_tabla restored at start-up
          MaxTiempo,      \* bound: seconds the clock runs
          MaxLargo        \* bound: length of the strings and lists written

ASSUME HilosAssumption ==
  /\ Permitidas \in [Clientes -> SUBSET Claves]
  /\ Comandos \in [Clientes -> SUBSET STRING]
  /\ TablaInicial \in Tablas
  /\ MaxTiempo \in Nat /\ MaxLargo \in Nat

VARIABLES tabla,        \* the HashMap behind Mutex<BaseDeDatos>
          enviado,      \* the last copy sent to the persistence thread
          envenenado,   \* the mutex is poisoned
          ahora,        \* the clock, in seconds
          fase,         \* where each thread is in its handler
          pend,         \* what each thread carries to its next section
          resp          \* the last answer each client received

compartidas == <<tabla, enviado, envenenado>>
vars == <<tabla, enviado, envenenado, ahora, fase, pend, resp>>

-----------------------------------------------------------------------------
Fases == {"libre", "escribir", "multiple", "borrar", "expirar", "muerto"}

SinPend == [pend |-> "nada"]
SinRespuesta == Nil

(* Between its two sections: the plan made from the value read.            *)
PendEscribir == [clave : Claves, leido : TipoONada, plan : Planes]
(* Inside the loop of DEL, EXISTS or MGET: the keys left to visit.         *)
PendMultiple == [op : {"DEL", "EXISTS", "MGET"}, faltan : Seq(Claves),
                 cuenta : Nat, valores : Seq(Simples)]
(* RENAME after its copy, EXPIREAT after reading the clock.                *)
PendBorrar == [clave : Claves]
PendExpirar == [clave : Claves, vida : Nat]

Pendientes == {SinPend} \cup PendEscribir \cup PendMultiple \cup PendBorrar
                \cup PendExpirar

PendDe(f) == CASE f = "escribir" -> PendEscribir
               [] f = "multiple" -> PendMultiple
               [] f = "borrar"   -> PendBorrar
               [] f = "expirar"  -> PendExpirar
               [] OTHER          -> {SinPend}

TipoCompartido == /\ tabla \in Tablas
                  /\ enviado \in Tablas
                  /\ envenenado \in BOOLEAN
                  /\ ahora \in Nat

TipoLocal == /\ fase \in [Clientes -> Fases]
             /\ pend \in [Clientes -> Pendientes]
             /\ resp \in [Clientes -> ResultadoRedis]
             /\ \A c \in Clientes : pend[c] \in PendDe(fase[c])

(* Every thread carries to its next section what that section needs, and   *)
(* every value stored, plan and answer is well formed: no handler gives a  *)
(* key a lifetime below zero or answers with a type that does not exist.   *)
TypeOK == TipoCompartido /\ TipoLocal

Init ==
  /\ tabla = TablaInicial
  /\ enviado = TablaInicial
  /\ envenenado = FALSE
  /\ ahora = 0
  /\ fase = [c \in Clientes |-> "libre"]
  /\ pend = [c \in Clientes |-> SinPend]
  /\ resp = [c \in Clientes |-> SinRespuesta]

-----------------------------------------------------------------------------
Leido(k) == ObtenerValor(tabla, k, ahora)

Pide(c, cmd, ks) == /\ fase[c] = "libre"
                    /\ cmd \in Comandos[c]
                    /\ ks \subseteq Permitidas[c]

(* Bound on the values written, not a condition of the code.               *)
Cabe(x) == /\ x.tipo = "Str" => Len(x.str) <= MaxLargo
           /\ x.tipo = "Lista" => Len(x.lista) <= MaxLargo

Pasar(c, f, p, r) == /\ fase' = [fase EXCEPT ![c] = f]
                     /\ pend' = [pend EXCEPT ![c] = p]
                     /\ resp' = [resp EXCEPT ![c] = r]

Responder(c, r) == Pasar(c, "libre", SinPend, r)
Seguir(c, f, p) == Pasar(c, f, p, resp[c])
Morir(c) == Pasar(c, "muerto", SinPend, SinRespuesta)

(* A last section: T is the table it leaves, E the copy it sends.          *)
Seccion(c, T, E, r) ==
  /\ \/ /\ envenenado
        /\ Responder(c, ErrBdd)
        /\ UNCHANGED <<tabla, enviado>>
     \/ /\ ~envenenado
        /\ tabla' = T /\ enviado' = E
        /\ Responder(c, r)
  /\ UNCHANGED <<envenenado, ahora>>

(* A command on key k that holds the mutex from its read to its write.     *)
Entera(c, k, p) ==
  /\ Cabe(p.nuevo)
  /\ \/ /\ p.accion # "panico" \/ envenenado
        /\ LET T == Aplicar(tabla, k, p, ahora)
           IN  Seccion(c, T, IF p.accion = "escribir" THEN T ELSE enviado, p.res)
     \/ /\ p.accion = "panico" /\ ~envenenado
        /\ envenenado' = TRUE
        /\ Morir(c)
        /\ UNCHANGED <<tabla, enviado, ahora>>

(* Mutant of Leer: the mutex is still held when the handler computes. *)
LeerConGuardia(c, k, p) ==
  /\ Cabe(p.nuevo)
  /\ \/ envenenado /\ Responder(c, ErrBdd) /\ UNCHANGED envenenado
     \/ ~envenenado /\ p.accion = "responder" /\ Responder(c, p.res) /\ UNCHANGED envenenado
     \/ ~envenenado /\ p.accion = "panico" /\ Morir(c) /\ envenenado' = TRUE
     \/ /\ ~envenenado /\ p.accion = "escribir"
        /\ Seguir(c, "escribir", [clave |-> k, leido |-> Leido(k), plan |-> p])
        /\ UNCHANGED envenenado
  /\ UNCHANGED <<tabla, enviado, ahora>>

(* A command on key k that releases the mutex between its read and its     *)
(* write: its first section, and the plan made from what it read.          *)
Leer(c, k, p) ==
  /\ Cabe(p.nuevo)
  /\ \/ envenenado /\ Responder(c, ErrBdd)
     \/ ~envenenado /\ p.accion = "responder" /\ Responder(c, p.res)
     \/ ~envenenado /\ p.accion = "panico" /\ Morir(c)
     \/ /\ ~envenenado /\ p.accion = "escribir"
        /\ Seguir(c, "escribir", [clave |-> k, leido |-> Leido(k), plan |-> p])
  /\ UNCHANGED <<compartidas, ahora>>

(* Mutant of Escribir: a key left with nothing is not removed. *)
EscribirSinBorrar(c) ==
  /\ fase[c] = "escribir"
  /\ LET T == IF pend[c].plan.nuevo = Nada THEN tabla
              ELSE Aplicar(tabla, pend[c].clave, pend[c].plan, ahora)
     IN  Seccion(c, T, T, pend[c].plan.res)

(* Mutant of Escribir: the data of a poisoned mutex is used all the same. *)
EscribirEnvenenado(c) ==
  /\ fase[c] = "escribir"
  /\ tabla' = Aplicar(tabla, pend[c].clave, pend[c].plan, ahora)
  /\ enviado' = tabla'
  /\ Responder(c, pend[c].plan.res)
  /\ UNCHANGED <<envenenado, ahora>>

(* Its second section.                                                     *)
Escribir(c) ==
  /\ fase[c] = "escribir"
  /\ LET T == Aplicar(tabla, pend[c].clave, pend[c].plan, ahora)
     IN  Seccion(c, T, T, pend[c].plan.res)

(* A new connection is served by a new thread.                             *)
Reconectar(c) ==
  /\ fase[c] = "muerto"
  /\ Responder(c, SinRespuesta)
  /\ UNCHANGED <<compartidas, ahora>>

Tick ==
  /\ ahora < MaxTiempo
  /\ ahora' = ahora + 1
  /\ UNCHANGED <<compartidas, fase, pend, resp>>

=============================================================================
