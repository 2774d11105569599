--------------------------- MODULE AlmacenAtomico ---------------------------
(***************************************************************************)
(* What the server promises to clients that keep to keys of their own:     *)
(* every command on one key is a single step that reads the key, writes it *)
(* and answers.  There are no handler phases and no pending copies here,   *)
(* and every step belongs to a command that the client issues.             *)
(*                                                                         *)
(* Three promises are weaker.  A command that reads and later writes may   *)
(* still act on a value whose lifetime ran out while it was working        *)
(* (Vistos).  APPEND may refuse a value in its last second (Despedir).     *)
(* DEL and RENAME, which change their keys one section at a time, promise  *)
(* no atomicity and are not commands of this specification.                *)
(***************************************************************************)
EXTENDS SetOps

CONSTANTS Permitidas, Comandos, TablaInicial, Numeros, Tandas, Pedidos, Lotes,
          Grupos, MaxInstante

VARIABLES tabla, envenenado, ahora, muertos, resp

vars == <<tabla, envenenado, ahora, muertos, resp>>

Init ==
  /\ tabla = TablaInicial
  /\ envenenado = FALSE
  /\ ahora = 0
  /\ muertos = {}
  /\ resp = [c \in Clientes |-> Nil]

Visible(k) == ObtenerValor(tabla, k, ahora)
Vistos(k) == {Visible(k), tabla[k].valor}

Cantidades == Numeros \cap Nat

(* The plans of a command that holds the mutex throughout, and of one that *)
(* reads and then writes, given the value v it read.                       *)
PlanesEnteros(cmd, v) ==
  CASE cmd = "GET"       -> {PlanGet(v)}
    [] cmd = "STRLEN"    -> {PlanStrlen(v)}
    [] cmd = "SET"       -> {PlanSet(ps) : ps \in Pedidos}
    [] cmd = "GETSET"    -> {PlanGetSet(v, x) : x \in Textos}
    [] cmd = "APPEND"    -> {PlanAppend(v, x) : x \in Textos}
    [] cmd = "LLEN"      -> {PlanLLen(v)}
    [] cmd = "SADD"      -> {PlanSAdd(v, ps) : ps \in Tandas}
    [] cmd = "SREM"      -> {PlanSRem(v, ps) : ps \in Tandas}
    [] cmd = "SCARD"     -> {PlanSCard(v)}
    [] cmd = "SISMEMBER" -> {PlanSIsMember(v, ps) : ps \in UnoONinguno}
    [] cmd = "SMEMBERS"  -> {PlanSMembers(v)}
    [] cmd = "TYPE"      -> {Responde(TipoDe(v))}
    [] OTHER             -> {}

PlanesPartidos(cmd, v) ==
  CASE cmd = "GETDEL" -> {PlanGetDel(v)}
    [] cmd = "INCRBY" -> {PlanOperar(v, d, 1) : d \in Numeros \cup {NoNumero}}
    [] cmd = "DECRBY" -> {PlanOperar(v, d, -1) : d \in Numeros \cup {NoNumero}}
    [] cmd = "LINDEX" -> {PlanLIndex(v, i) : i \in Numeros \cup {NoNumero}}
    [] cmd = "LPOP"   -> {PlanPop(v, n, FALSE) : n \in Cantidades}
    [] cmd = "RPOP"   -> {PlanPop(v, n, TRUE) : n \in Cantidades}
    [] cmd = "LPUSH"  -> {PlanPush(v, ps, FALSE, TRUE) : ps \in Tandas}
    [] cmd = "LPUSHX" -> {PlanPush(v, ps, FALSE, FALSE) : ps \in Tandas}
    [] cmd = "RPUSH"  -> {PlanPush(v, ps, TRUE, TRUE) : ps \in Tandas}
    [] cmd = "RPUSHX" -> {PlanPush(v, ps, TRUE, FALSE) : ps \in Tandas}
    [] cmd = "LRANGE" -> {PlanLRange(v, i, j) : i \in Numeros, j \in Numeros}
    [] cmd = "LREM"   -> {PlanLRem(v, i, x) : i \in Numeros, x \in Textos}
    [] cmd = "LSET"   -> {PlanLSet(v, i, x) : i \in Numeros, x \in Textos}
    [] OTHER          -> {}

Contesta(c, r) == /\ c \notin muertos
                  /\ resp' = [resp EXCEPT ![c] = r]
                  /\ UNCHANGED <<ahora, muertos>>

Muere(c) == /\ c \notin muertos
            /\ muertos' = muertos \cup {c}
            /\ resp' = [resp EXCEPT ![c] = Nil]
            /\ UNCHANGED <<tabla, ahora>>

(* A command on one key.                                                   *)
Ejecutar(c, k, p) ==
  /\ p.accion # "panico"
  /\ Contesta(c, p.res)
  /\ tabla' = Aplicar(tabla, k, p, ahora)
  /\ UNCHANGED envenenado

EjecutarEntera(c) ==
  \E k \in Permitidas[c], cmd \in Comandos[c] :
  \E p \in PlanesEnteros(cmd, Visible(k)) :
    /\ ~envenenado
    /\ \/ Ejecutar(c, k, p)
       \/ p.accion = "panico" /\ Muere(c) /\ envenenado' = TRUE

(* APPEND to a value in its last second may find it gone and refuse.       *)
Despedir(c) ==
  /\ "APPEND" \in Comandos[c] /\ ~envenenado
  /\ \E k \in Permitidas[c] : /\ Vence(tabla[k], ahora)
                              /\ Ejecutar(c, k, Responde(WrongType))

EjecutarPartida(c) ==
  \E k \in Permitidas[c], cmd \in Comandos[c] :
  \E v \in Vistos(k) : \E p \in PlanesPartidos(cmd, v) :
    /\ ~envenenado
    /\ \/ Ejecutar(c, k, p)
       \/ p.accion = "panico" /\ Muere(c) /\ UNCHANGED envenenado

(* The lifetimes that EXPIRE and EXPIREAT give.  EXPIREAT p leaves the key *)
(* until the second before p at least: longer by what it had to wait, but  *)
(* never less.                                                             *)
Plazos(c) ==
  {n \in 0 .. MaxI32 :
     \/ "EXPIRE" \in Comandos[c] /\ n \in Cantidades
     \/ /\ "EXPIREAT" \in Comandos[c]
        /\ \E p \in Cantidades : n <= p /\ p <= ahora + n + 1}

(* A change of lifetime, a copy, or a write of several keys at once.       *)
Administrar(c) ==
  /\ ~envenenado
  /\ \/ \E k \in Permitidas[c] :
          /\ \/ \E n \in Plazos(c) :
                  tabla' = ActualizarValorConExpiracion(tabla, k, n, ahora)
             \/ /\ "PERSIST" \in Comandos[c]
                /\ tabla' = ActualizarValorSinExpiracion(tabla, k)
          /\ Contesta(c, Entero(IF k \in Presentes(tabla) THEN 1 ELSE 0))
     \/ /\ "COPY" \in Comandos[c]
        /\ \E k, a \in Permitidas[c] :
             /\ tabla' = CopiarValor(tabla, k, a, ahora)
             /\ Contesta(c, Entero(IF Visible(k) = Nada THEN 0 ELSE 1))
     \/ /\ "FLUSHDB" \in Comandos[c] /\ Permitidas[c] = Claves
        /\ tabla' = BorrarClaves
        /\ Contesta(c, Ok)
     \/ /\ "MSET" \in Comandos[c]
        /\ \E ps \in Lotes :
             /\ ToSet(SubSeq(ps, 1, Len(ps) - 1)) \subseteq Permitidas[c]
             /\ tabla' = GuardarValores(tabla, ps)
        /\ Contesta(c, Ok)
  /\ UNCHANGED envenenado

(* MGET and EXISTS answer from one reading vs of all their keys; TTL,      *)
(* TOUCH, KEYS and DBSIZE from the table as it is.  MGET of no key is an   *)
(* error.                                                                  *)
DeMget(v) == IF v.tipo = "Str" THEN Bulk(v.str) ELSE Nil

Reunidos(rs) == IF rs = <<>> THEN Error("ARGS") ELSE Vector(rs)

Lecturas(ks) ==
  {vs \in [DOMAIN ks -> UNION {Vistos(k) : k \in ToSet(ks)}] :
     \A i \in DOMAIN ks : vs[i] \in Vistos(ks[i])}

Respuestas(cmd, ks) ==
  CASE cmd = "MGET"   -> {Reunidos([i \in DOMAIN ks |-> DeMget(vs[i])])
                            : vs \in Lecturas(ks)}
    [] cmd = "EXISTS" -> {Entero(Cardinality({i \in DOMAIN ks : vs[i] # Nada}))
                            : vs \in Lecturas(ks)}
    [] cmd = "TOUCH"  -> LET S == {i \in DOMAIN ks : ks[i] \in Presentes(tabla)}
                         IN  {Entero(Cardinality(S))}
    [] OTHER          -> {}

Consultar(c) ==
  /\ \E cmd \in Comandos[c] :
       \/ \E ks \in Grupos : /\ ToSet(ks) \subseteq Permitidas[c]
                             /\ envenenado => cmd # "TOUCH"
                             /\ \E r \in Respuestas(cmd, ks) : Contesta(c, r)
       \/ /\ ~envenenado
          /\ \/ /\ cmd = "TTL"
                /\ \E k \in Permitidas[c] :
                     Contesta(c, Entero(ObtenerExpiracion(tabla, k)))
             \/ /\ cmd = "KEYS"
                /\ \E S \in SUBSET Permitidas[c] :
                     Contesta(c, Miembros(S \cap Presentes(tabla)))
             \/ cmd = "DBSIZE" /\ Contesta(c, Entero(CantidadClaves(tabla)))
  /\ UNCHANGED <<tabla, envenenado>>

(* EXPIREAT with an instant no SystemTime holds ends the client's thread.  *)
Desbordar(c) == /\ "EXPIREAT" \in Comandos[c]
                /\ \E p \in Numeros : p > MaxInstante
                /\ Muere(c) /\ UNCHANGED envenenado

(* A request refused for its arguments, any command once the mutex is      *)
(* poisoned, and a client that comes back.                                 *)
Rechazar(c) ==
  /\ \/ /\ "INVALIDO" \in Comandos[c]
        /\ \E r \in Rechazos : Contesta(c, r)
     \/ "EXPIREAT" \in Comandos[c] /\ Contesta(c, Error("TIEMPO"))
     \/ envenenado /\ Contesta(c, ErrBdd)
  /\ UNCHANGED <<tabla, envenenado>>

Volver(c) ==
  /\ c \in muertos
  /\ muertos' = muertos \ {c}
  /\ UNCHANGED <<tabla, envenenado, ahora, resp>>

Tick == ahora' = ahora + 1 /\ UNCHANGED <<tabla, envenenado, muertos, resp>>

Next ==
  \/ \E c \in Clientes : \/ EjecutarEntera(c) \/ Despedir(c) \/ EjecutarPartida(c)
                         \/ Administrar(c) \/ Desbordar(c)
                         \/ Consultar(c) \/ Rechazar(c) \/ Volver(c)
  \/ Tick

Spec == Init /\ [][Next]_vars

=============================================================================
