---------------------------- MODULE ServidorProps ----------------------------
(***************************************************************************)
(* The properties of the server that the runs check and the proofs use.    *)
(***************************************************************************)
EXTENDS Servidor

(* No two clients use the same key.                                        *)
Propias == \A c, d \in Clientes : c # d => Permitidas[c] \cap Permitidas[d] = {}

(* What a handler read in its first section is still what the key holds    *)
(* when its second section comes, or it saw nothing because the value had  *)
(* expired: the copy that pop, push, lrem, lset, incrby and getdel carry   *)
(* past the unlock is never stale.  Holds when clients use keys of their   *)
(* own, whatever the interleaving.                                         *)
CopiaVigente ==
  \A c \in Clientes : fase[c] = "escribir" =>
    LET p == pend[c]
        v == tabla[p.clave]
    IN  \/ p.leido = v.valor
        \/ p.leido = Nada /\ Expiro(v, ahora)

(* The commands are atomic for clients that use keys of their own: the     *)
(* server implements AlmacenAtomico once handler phases are hidden.        *)
Atomico == INSTANCE AlmacenAtomico WITH
             muertos <- {c \in Clientes : fase[c] = "muerto"}

ImplementaAtomico == Atomico!Spec

(* A poisoned mutex stays so, and from then on no handler changes the      *)
(* table or sends a copy of it, the second sections of commands that were  *)
(* in progress included.                                                   *)
VenenoCongela ==
  [][envenenado => envenenado' /\ UNCHANGED <<tabla, enviado>>]_vars

(* No handler panics inside a section: the panics of pop, lrange, lrem and *)
(* incrby end their own thread and leave the mutex usable.  Holds while no *)
(* SET ends in EX or PX.                                                   *)
NuncaEnvenenado == ~envenenado

(* The copy of the table last handed to the persistence thread is the      *)
(* table.  Holds while no client uses GETSET, EXPIRE, EXPIREAT or PERSIST. *)
EnviadoAlDia == enviado = tabla

(* Every command in progress is answered, or its thread dies.              *)
TodoComandoTermina ==
  \A c \in Clientes : fase[c] \notin {"libre", "muerto"} ~> fase[c] \in {"libre", "muerto"}

=============================================================================
