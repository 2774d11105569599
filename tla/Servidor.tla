------------------------------ MODULE Servidor ------------------------------
(***************************************************************************)
(* The command handlers of the server, run concurrently by the client      *)
(* threads of module Hilos.  One action per command, and one more for each *)
(* later section of a command that releases the mutex.                     *)
(***************************************************************************)
EXTENDS Hilos

CONSTANTS Numeros,   \* the numbers clients send
          Tandas,    \* sequences of texts: parameters of LPUSH, SADD, ...
          Pedidos,   \* parameters of SET after the key
          Lotes,     \* parameters of MSET
          Grupos,    \* key parameters of DEL, EXISTS, MGET and TOUCH
          MaxInstante  \* the last second a SystemTime can hold

ASSUME ServidorAssumption ==
  /\ Numeros \subseteq I32
  /\ Tandas \subseteq Seq(Textos)
  /\ Pedidos \subseteq Seq(Fragmentos) \ {<<>>}
  /\ Lotes \subseteq {ps \in Seq(Claves) : Len(ps) > 0 /\ Len(ps) % 2 = 0}
  /\ Grupos \subseteq Seq(Claves)
  /\ MaxInstante \in Nat

Cantidades == Numeros \cap Nat

(* A request without its arguments, or with one that does not parse, is    *)
(* refused before the mutex is taken.                                      *)
PedidoInvalido(c) ==
  /\ Pide(c, "INVALIDO", {})
  /\ \E r \in Rechazos : Responder(c, r)
  /\ UNCHANGED <<compartidas, ahora>>

-----------------------------------------------------------------------------
(* comando_string_handler.rs                                               *)

GET(c, k) == Pide(c, "GET", {k}) /\ Entera(c, k, PlanGet(Leido(k)))

SET(c, k) == /\ Pide(c, "SET", {k})
             /\ \E ps \in Pedidos : Entera(c, k, PlanSet(ps))

GETSET(c, k) == /\ Pide(c, "GETSET", {k})
                /\ \E x \in Textos : Entera(c, k, PlanGetSet(Leido(k), x))

(* APPEND looks at the clock twice, in existe_clave and in obtener_valor: a *)
(* value that expires in between is taken for one of another type.         *)
APPEND(c, k) == /\ Pide(c, "APPEND", {k})
                /\ \/ \E x \in Textos : Entera(c, k, PlanAppend(Leido(k), x))
                   \/ Vence(tabla[k], ahora) /\ Entera(c, k, Responde(WrongType))

STRLEN(c, k) == Pide(c, "STRLEN", {k}) /\ Entera(c, k, PlanStrlen(Leido(k)))

GETDEL(c, k) == Pide(c, "GETDEL", {k}) /\ Leer(c, k, PlanGetDel(Leido(k)))

INCRBY(c, k) == /\ Pide(c, "INCRBY", {k})
                /\ \E d \in Numeros \cup {NoNumero} : Leer(c, k, PlanOperar(Leido(k), d, 1))

DECRBY(c, k) == /\ Pide(c, "DECRBY", {k})
                /\ \E d \in Numeros \cup {NoNumero} : Leer(c, k, PlanOperar(Leido(k), d, -1))

(* Mutant of MSET: the observers are not told. *)
MSETCallado(c) ==
  \E ps \in Lotes :
    /\ Pide(c, "MSET", ToSet(SubSeq(ps, 1, Len(ps) - 1)))
    /\ Seccion(c, GuardarValores(tabla, ps), enviado, Ok)

(* MSET touches every parameter but the last: see GuardarValores.          *)
MSET(c) ==
  \E ps \in Lotes :
    /\ Pide(c, "MSET", ToSet(SubSeq(ps, 1, Len(ps) - 1)))
    /\ LET T == GuardarValores(tabla, ps) IN Seccion(c, T, T, Ok)

-----------------------------------------------------------------------------
(* comando_list_handler.rs                                                 *)

LINDEX(c, k) == /\ Pide(c, "LINDEX", {k})
                /\ \E i \in Numeros \cup {NoNumero} : Leer(c, k, PlanLIndex(Leido(k), i))

LLEN(c, k) == Pide(c, "LLEN", {k}) /\ Entera(c, k, PlanLLen(Leido(k)))

LPOP(c, k) == /\ Pide(c, "LPOP", {k})
              /\ \E n \in Cantidades : Leer(c, k, PlanPop(Leido(k), n, FALSE))

RPOP(c, k) == /\ Pide(c, "RPOP", {k})
              /\ \E n \in Cantidades : Leer(c, k, PlanPop(Leido(k), n, TRUE))

LPUSH(c, k) == /\ Pide(c, "LPUSH", {k})
               /\ \E ps \in Tandas : Leer(c, k, PlanPush(Leido(k), ps, FALSE, TRUE))

LPUSHX(c, k) == /\ Pide(c, "LPUSHX", {k})
                /\ \E ps \in Tandas : Leer(c, k, PlanPush(Leido(k), ps, FALSE, FALSE))

RPUSH(c, k) == /\ Pide(c, "RPUSH", {k})
               /\ \E ps \in Tandas : Leer(c, k, PlanPush(Leido(k), ps, TRUE, TRUE))

RPUSHX(c, k) == /\ Pide(c, "RPUSHX", {k})
                /\ \E ps \in Tandas : Leer(c, k, PlanPush(Leido(k), ps, TRUE, FALSE))

LRANGE(c, k) == /\ Pide(c, "LRANGE", {k})
                /\ \E i, j \in Numeros : Leer(c, k, PlanLRange(Leido(k), i, j))

LREM(c, k) == /\ Pide(c, "LREM", {k})
              /\ \E i \in Numeros, x \in Textos : Leer(c, k, PlanLRem(Leido(k), i, x))

LSET(c, k) == /\ Pide(c, "LSET", {k})
              /\ \E i \in Numeros, x \in Textos : Leer(c, k, PlanLSet(Leido(k), i, x))

-----------------------------------------------------------------------------
(* comando_set_handler.rs                                                  *)

SADD(c, k) == /\ Pide(c, "SADD", {k})
              /\ \E ps \in Tandas : Entera(c, k, PlanSAdd(Leido(k), ps))

SREM(c, k) == /\ Pide(c, "SREM", {k})
              /\ \E ps \in Tandas : Entera(c, k, PlanSRem(Leido(k), ps))

SCARD(c, k) == Pide(c, "SCARD", {k}) /\ Entera(c, k, PlanSCard(Leido(k)))

SISMEMBER(c, k) == /\ Pide(c, "SISMEMBER", {k})
                   /\ \E ps \in UnoONinguno : Entera(c, k, PlanSIsMember(Leido(k), ps))

SMEMBERS(c, k) == Pide(c, "SMEMBERS", {k}) /\ Entera(c, k, PlanSMembers(Leido(k)))

-----------------------------------------------------------------------------
(* comando_key_handler.rs                                                  *)

COPY(c, k, a) ==
  /\ Pide(c, "COPY", {k, a})
  /\ LET T == CopiarValor(tabla, k, a, ahora)
     IN  IF Leido(k) = Nada THEN Seccion(c, T, enviado, Entero(0))
         ELSE Seccion(c, T, T, Entero(1))

(* RENAME copies in one section and deletes in another.  It goes on when   *)
(* there was nothing to copy, and does not look at what DEL answers.       *)
RENAME(c, k, a) ==
  /\ Pide(c, "RENAME", {k, a})
  /\ \/ /\ envenenado
        /\ Responder(c, Error("NOKEY"))
        /\ UNCHANGED <<tabla, enviado>>
     \/ /\ ~envenenado
        /\ tabla' = CopiarValor(tabla, k, a, ahora)
        /\ enviado' = IF Leido(k) = Nada THEN enviado ELSE tabla'
        /\ Seguir(c, "borrar", [clave |-> k])
  /\ UNCHANGED <<envenenado, ahora>>

RenameBorrar(c) ==
  /\ fase[c] = "borrar"
  /\ LET k == pend[c].clave
     IN  \/ /\ envenenado \/ Leido(k) = Nada
            /\ UNCHANGED <<tabla, enviado>>
         \/ /\ ~envenenado /\ Leido(k) # Nada
            /\ tabla' = EliminarClave(tabla, k) /\ enviado' = tabla'
  /\ Responder(c, Ok)
  /\ UNCHANGED <<envenenado, ahora>>

TYPE(c, k) == Pide(c, "TYPE", {k}) /\ Entera(c, k, Responde(TipoDe(Leido(k))))

EXPIRE(c, k) ==
  /\ Pide(c, "EXPIRE", {k})
  /\ \E n \in Cantidades :
       Seccion(c, ActualizarValorConExpiracion(tabla, k, n, ahora), enviado,
               Entero(IF k \in Presentes(tabla) THEN 1 ELSE 0))

(* EXPIREAT turns the instant p into whole seconds from now before it      *)
(* takes the mutex.  The real clock is somewhere in the second ahora.  The *)
(* sum UNIX_EPOCH + p panics when the result is not a SystemTime.          *)
EXPIREAT(c, k) ==
  /\ Pide(c, "EXPIREAT", {k})
  /\ \E p \in Cantidades :
       \/ p > MaxInstante /\ Morir(c)
       \/ p <= MaxInstante /\ p <= ahora /\ Responder(c, Error("TIEMPO"))
       \/ /\ p <= MaxInstante
          /\ \E n \in {p - ahora, p - ahora - 1} \cap Nat :
               Seguir(c, "expirar", [clave |-> k, vida |-> n])
  /\ UNCHANGED <<compartidas, ahora>>

ExpireAtFijar(c) ==
  /\ fase[c] = "expirar"
  /\ LET k == pend[c].clave
     IN  Seccion(c, ActualizarValorConExpiracion(tabla, k, pend[c].vida, ahora), enviado,
                 Entero(IF k \in Presentes(tabla) THEN 1 ELSE 0))

PERSIST(c, k) ==
  /\ Pide(c, "PERSIST", {k})
  /\ Seccion(c, ActualizarValorSinExpiracion(tabla, k), enviado,
             Entero(IF k \in Presentes(tabla) THEN 1 ELSE 0))

TTL(c, k) ==
  /\ Pide(c, "TTL", {k})
  /\ Entera(c, k, Responde(Entero(ObtenerExpiracion(tabla, k))))

TOUCH(c) ==
  \E ks \in Grupos :
    /\ Pide(c, "TOUCH", ToSet(ks))
    /\ Seccion(c, tabla, enviado,
               Entero(Cardinality({i \in DOMAIN ks : ks[i] \in Presentes(tabla)})))

(* KEYS with a pattern that matches the keys S.                            *)
KEYS(c) ==
  \E S \in SUBSET Permitidas[c] :
    /\ Pide(c, "KEYS", S)
    /\ Seccion(c, tabla, enviado, Miembros(S \cap Presentes(tabla)))

(* DEL, EXISTS and MGET take the mutex once for each key.                  *)
Multiple(c) ==
  \E op \in {"DEL", "EXISTS", "MGET"}, ks \in Grupos :
    /\ Pide(c, op, ToSet(ks))
    /\ Seguir(c, "multiple", [op |-> op, faltan |-> ks, cuenta |-> 0, valores |-> <<>>])
    /\ UNCHANGED <<compartidas, ahora>>

(* Mutant of Visitar: the loop does not advance. *)
VisitarSinAvanzar(p, v) ==
  [op |-> p.op, faltan |-> p.faltan, cuenta |-> p.cuenta, valores |-> p.valores]

(* Mutant of Visitar: a key is counted whether it existed or not. *)
VisitarContando(p, v) ==
  [op |-> p.op, faltan |-> Tail(p.faltan), cuenta |-> p.cuenta + 1, valores |-> p.valores]

(* Mutant of Visitar: MGET leaves out the keys without a string. *)
VisitarSinNil(p, v) ==
  [op |-> p.op, faltan |-> Tail(p.faltan),
   cuenta |-> IF v = Nada THEN p.cuenta ELSE p.cuenta + 1,
   valores |-> IF p.op = "MGET" /\ v.tipo = "Str" THEN Append(p.valores, Bulk(v.str))
               ELSE p.valores]

(* The loop after a section that read v: DEL and EXISTS count the keys that *)
(* were there, MGET collects the strings.                                  *)
Visitar(p, v) ==
  [op |-> p.op, faltan |-> Tail(p.faltan),
   cuenta |-> IF v = Nada THEN p.cuenta ELSE p.cuenta + 1,
   valores |-> IF p.op = "MGET"
               THEN Append(p.valores, IF v.tipo = "Str" THEN Bulk(v.str) ELSE Nil)
               ELSE p.valores]

MultiplePaso(c) ==
  /\ fase[c] = "multiple"
  /\ pend[c].faltan # <<>>
  /\ LET k == Head(pend[c].faltan)
         borra == pend[c].op = "DEL" /\ Leido(k) # Nada
     IN  \/ /\ envenenado
            /\ Responder(c, ErrBdd)
            /\ UNCHANGED <<tabla, enviado>>
         \/ /\ ~envenenado
            /\ tabla' = IF borra THEN EliminarClave(tabla, k) ELSE tabla
            /\ enviado' = IF borra THEN tabla' ELSE enviado
            /\ Seguir(c, "multiple", Visitar(pend[c], Leido(k)))
  /\ UNCHANGED <<envenenado, ahora>>

MultipleFin(c) ==
  /\ fase[c] = "multiple"
  /\ pend[c].faltan = <<>>
  /\ Responder(c, CASE pend[c].op # "MGET"    -> Entero(pend[c].cuenta)
                    [] pend[c].op = "MGET" /\ pend[c].valores = <<>> -> Error("ARGS")
                    [] OTHER                  -> Vector(pend[c].valores))
  /\ UNCHANGED <<compartidas, ahora>>

-----------------------------------------------------------------------------
(* comando_server_handler.rs                                               *)

(* FLUSHDB empties the table, or fails when the mutex is poisoned.         *)
FLUSHDB(c) == /\ Pide(c, "FLUSHDB", Claves)
              /\ Seccion(c, BorrarClaves, BorrarClaves, Ok)

DBSIZE(c) == /\ Pide(c, "DBSIZE", {})
             /\ Seccion(c, tabla, enviado, Entero(CantidadClaves(tabla)))

-----------------------------------------------------------------------------
ComandoString(c) ==
  \/ \E k \in Claves : \/ GET(c, k) \/ SET(c, k) \/ GETSET(c, k) \/ APPEND(c, k)
                       \/ STRLEN(c, k) \/ GETDEL(c, k) \/ INCRBY(c, k) \/ DECRBY(c, k)
  \/ MSET(c)

ComandoList(c) ==
  \E k \in Claves : \/ LINDEX(c, k) \/ LLEN(c, k) \/ LPOP(c, k) \/ RPOP(c, k)
                    \/ LPUSH(c, k) \/ LPUSHX(c, k) \/ RPUSH(c, k) \/ RPUSHX(c, k)
                    \/ LRANGE(c, k) \/ LREM(c, k) \/ LSET(c, k)

ComandoSet(c) ==
  \E k \in Claves : \/ SADD(c, k) \/ SREM(c, k) \/ SCARD(c, k)
                    \/ SISMEMBER(c, k) \/ SMEMBERS(c, k)

ComandoKey(c) ==
  \/ \E k \in Claves : \/ TYPE(c, k) \/ EXPIRE(c, k) \/ EXPIREAT(c, k)
                       \/ PERSIST(c, k) \/ TTL(c, k)
                       \/ \E a \in Claves : COPY(c, k, a) \/ RENAME(c, k, a)
  \/ TOUCH(c) \/ KEYS(c) \/ Multiple(c)

ComandoServer(c) == FLUSHDB(c) \/ DBSIZE(c)

(* The later sections of the commands in progress.                         *)
Continuar(c) == \/ Escribir(c) \/ RenameBorrar(c) \/ ExpireAtFijar(c)
                \/ MultiplePaso(c) \/ MultipleFin(c)

Next ==
  \/ \E c \in Clientes :
       \/ PedidoInvalido(c) \/ ComandoString(c) \/ ComandoList(c) \/ ComandoSet(c)
       \/ ComandoKey(c) \/ ComandoServer(c)
       \/ Continuar(c) \/ Reconectar(c)
  \/ Tick

(* A thread that released the mutex is scheduled again, and lock() returns *)
(* because every section is finite.  Clients need not send anything.       *)
Equidad == \A c \in Clientes : WF_vars(Continuar(c))

Spec == Init /\ [][Next]_vars
SpecJusta == Spec /\ Equidad

=============================================================================
