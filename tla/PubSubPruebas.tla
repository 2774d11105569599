---------------------------- MODULE PubSubPruebas ----------------------------
(***************************************************************************)
(* Proofs about channels, for any number of clients and channels.  The     *)
(* commands of the other handlers are summed up in RespetaCanales: they    *)
(* remove or overwrite channels, and make none.  COPY and RENAME do make   *)
(* one, with the subscribers of another, and are left out.                 *)
(***************************************************************************)
EXTENDS PubSub, ServidorPruebas, SecuenciasPruebas

(* No client copies a channel to another key.                              *)
SinCopias == \A c \in Clientes : Comandos[c] \cap {"COPY", "RENAME"} = {}

(* levantar_tabla restores strings, lists and sets.                        *)
SinCanalesAlInicio == \A k \in Claves : ~EsCanal(TablaInicial[k].valor)

(* T has no channel that U has not, with the same subscribers.             *)
Conserva(T, U) == \A k \in Claves : EsCanal(T[k].valor) => T[k].valor = U[k].valor

RespetaCanales(c) ==
  /\ Conserva(tabla', tabla)
  /\ fase'[c] = "escribir" => ~EsCanal(pend'[c].plan.nuevo)

-----------------------------------------------------------------------------
(* The other commands make no channels.                                    *)

(* The constructors of plans that write no channel.                        *)
LEMMA PlanesSinCanal ==
  /\ \A r : ~EsCanal(Responde(r).nuevo)
  /\ \A r : ~EsCanal(Escribe(Nada, r).nuevo)
  /\ \A s, r : ~EsCanal(Escribe(Str(s), r).nuevo) /\ ~EsCanal(Canjea(Str(s), r).nuevo)
  /\ \A s, n, r : ~EsCanal(EscribeHasta(Str(s), n, r).nuevo)
  /\ \A l, r : ~EsCanal(Escribe(Lista(l), r).nuevo) /\ ~EsCanal(Escribe(ListaONada(l), r).nuevo)
  /\ \A s, r : ~EsCanal(Escribe(Conjunto(s), r).nuevo)
  /\ ~EsCanal(Panico.nuevo)
BY DEF EsCanal, Responde, Escribe, EscribeHasta, Canjea, Panico, Plan, Nada, Str, Lista,
       ListaONada, Conjunto

(* No string command makes a channel of its key, whatever it read there;   *)
LEMMA PlanesDeStringSinCanal ==
  ASSUME NEW v \in TipoONada
  PROVE  /\ ~EsCanal(PlanGet(v).nuevo) /\ ~EsCanal(PlanGetDel(v).nuevo)
         /\ ~EsCanal(PlanStrlen(v).nuevo)
         /\ \A x : ~EsCanal(PlanAppend(v, x).nuevo) /\ ~EsCanal(PlanGetSet(v, x).nuevo)
         /\ \A qs : ~EsCanal(PlanSet(qs).nuevo)
         /\ \A d, g : ~EsCanal(PlanOperar(v, d, g).nuevo)
<1> USE PlanesSinCanal
<1>1. ~EsCanal(PlanGet(v).nuevo) /\ ~EsCanal(PlanGetDel(v).nuevo) /\ ~EsCanal(PlanStrlen(v).nuevo)
  BY DEF PlanGet, PlanGetDel, PlanStrlen
<1>2. \A x : ~EsCanal(PlanAppend(v, x).nuevo) /\ ~EsCanal(PlanGetSet(v, x).nuevo)
  BY DEF PlanAppend, PlanGetSet
<1>3. \A qs, w, n : ~EsCanal(PlanSetConVida(qs, w, n).nuevo)
  BY DEF PlanSetConVida
<1>4. \A qs : ~EsCanal(PlanSet(qs).nuevo)
  BY <1>3 DEF PlanSet
<1>5. ASSUME NEW d, NEW g
      PROVE  ~EsCanal(PlanOperar(v, d, g).nuevo)
  BY DEF PlanOperar
<1> QED BY <1>1, <1>2, <1>4, <1>5

(* nor does a list command,                                                *)
LEMMA PlanesDeListaSinCanal ==
  ASSUME NEW v \in TipoONada
  PROVE  /\ ~EsCanal(PlanLLen(v).nuevo)
         /\ \A i : ~EsCanal(PlanLIndex(v, i).nuevo)
         /\ \A n \in Nat : \A f : ~EsCanal(PlanPop(v, n, f).nuevo)
         /\ \A qs, f, g : ~EsCanal(PlanPush(v, qs, f, g).nuevo)
         /\ \A i, j : ~EsCanal(PlanLRange(v, i, j).nuevo)
         /\ \A i, x : ~EsCanal(PlanLRem(v, i, x).nuevo) /\ ~EsCanal(PlanLSet(v, i, x).nuevo)
<1> USE PlanesSinCanal
<1>1. ~EsCanal(PlanLLen(v).nuevo) /\ \A i : ~EsCanal(PlanLIndex(v, i).nuevo)
  BY DEF PlanLLen, PlanLIndex
<1>2. ASSUME NEW n \in Nat, NEW f
      PROVE  ~EsCanal(PlanPop(v, n, f).nuevo)
  <2>1. v.tipo = "Lista" => Len(v.lista) \in Nat
    BY TiposDeValor
  <2> QED BY <2>1, TiposDeValor DEF PlanPop
<1>3. \A qs, f, g : ~EsCanal(PlanPush(v, qs, f, g).nuevo)
  BY DEF PlanPush
<1>4. \A i, j : ~EsCanal(PlanLRange(v, i, j).nuevo)
  BY DEF PlanLRange
<1>5. \A i, x : ~EsCanal(PlanLRem(v, i, x).nuevo) /\ ~EsCanal(PlanLSet(v, i, x).nuevo)
  BY DEF PlanLRem, PlanLSet
<1> QED BY <1>1, <1>2, <1>3, <1>4, <1>5

(* nor a set command.                                                      *)
LEMMA PlanesDeConjuntoSinCanal ==
  ASSUME NEW v \in TipoONada
  PROVE  /\ \A qs : ~EsCanal(PlanSAdd(v, qs).nuevo) /\ ~EsCanal(PlanSRem(v, qs).nuevo)
         /\ ~EsCanal(PlanSCard(v).nuevo) /\ ~EsCanal(PlanSMembers(v).nuevo)
         /\ \A x : ~EsCanal(PlanSIsMember(v, x).nuevo)
BY PlanesSinCanal DEF PlanSAdd, PlanSRem, PlanSCard, PlanSMembers, PlanSIsMember

(* Writing a plan that is no channel, deleting, and changing a lifetime    *)
(* leave the other channels as they were.                                  *)
LEMMA AplicarConserva ==
  ASSUME NEW T \in Tablas, NEW k \in Claves, NEW p, NEW t, ~EsCanal(p.nuevo)
  PROVE  Conserva(Aplicar(T, k, p, t), T)
<1> DEFINE U == Aplicar(T, k, p, t)
<1>1. \A j \in Claves \ {k} : U[j] = T[j]
  BY DEF Tablas, Aplicar, EliminarClave, GuardarValor, GuardarValorConExpiracion
<1>2. U[k].valor \in {p.nuevo, Nada, T[k].valor}
  BY DEF Tablas, Aplicar, EliminarClave, GuardarValor, GuardarValorConExpiracion,
         Ausente, NoExpirable, Expirable
<1>3. ~EsCanal(Nada)
  BY DEF EsCanal, Nada
<1> HIDE DEF U
<1>4. Conserva(U, T)
  BY <1>1, <1>2, <1>3 DEF Conserva
<1> QED BY <1>4 DEF U

(* So do the other operations on the table.                                *)
LEMMA OperacionesConservan ==
  ASSUME NEW T \in Tablas, NEW k \in Claves, NEW n \in Nat, NEW t \in Nat
  PROVE  /\ Conserva(T, T)
         /\ Conserva(BorrarClaves, T)
         /\ Conserva(EliminarClave(T, k), T)
         /\ Conserva(ActualizarValorConExpiracion(T, k, n, t), T)
         /\ Conserva(ActualizarValorSinExpiracion(T, k), T)
         /\ \A qs : Conserva(GuardarValores(T, qs), T)
<1>1. ~EsCanal(Nada) /\ Ausente.valor = Nada /\ \A s : ~EsCanal(NoExpirable(Str(s)).valor)
  BY DEF EsCanal, Nada, Ausente, NoExpirable, Str
<1>2. /\ Conserva(T, T) /\ Conserva(BorrarClaves, T) /\ Conserva(EliminarClave(T, k), T)
  BY <1>1 DEF Conserva, BorrarClaves, EliminarClave, Tablas
<1>3. ActualizarValorConExpiracion(T, k, n, t)[k].valor = T[k].valor
  BY DEF ActualizarValorConExpiracion, Expirable, Tablas
<1>4. ActualizarValorSinExpiracion(T, k)[k].valor = T[k].valor
  BY DEF ActualizarValorSinExpiracion, NoExpirable, Tablas
<1>5. \A j \in Claves \ {k} : /\ ActualizarValorConExpiracion(T, k, n, t)[j] = T[j]
                              /\ ActualizarValorSinExpiracion(T, k)[j] = T[j]
  BY DEF ActualizarValorConExpiracion, ActualizarValorSinExpiracion, Tablas
<1>6. /\ Conserva(ActualizarValorConExpiracion(T, k, n, t), T)
      /\ Conserva(ActualizarValorSinExpiracion(T, k), T)
  BY <1>3, <1>4, <1>5 DEF Conserva
<1>7. ASSUME NEW qs
      PROVE  Conserva(GuardarValores(T, qs), T)
  <2> DEFINE U == GuardarValores(T, qs)
  <2>1. \A j \in Claves : U[j] = T[j] \/ \E s : U[j] = NoExpirable(Str(s))
    BY DEF GuardarValores
  <2> HIDE DEF U
  <2>2. Conserva(U, T)
    BY <1>1, <2>1 DEF Conserva
  <2> QED BY <2>2 DEF U
<1> QED BY <1>2, <1>6, <1>7

(* A section that leaves a table without new channels;                     *)
LEMMA SeccionRespeta ==
  ASSUME TypeOK, NEW c \in Clientes, NEW T, NEW E, NEW r, Seccion(c, T, E, r),
         Conserva(T, tabla)
  PROVE  RespetaCanales(c)
<1>1. fase'[c] = "libre"
  BY DEF Seccion, Responder, Pasar, TypeOK, TipoLocal
<1>2. Conserva(tabla, tabla)
  BY DEF Conserva
<1> QED BY <1>1, <1>2 DEF Seccion, RespetaCanales

(* a command that holds the mutex throughout, and writes no channel;       *)
LEMMA EnteraRespeta ==
  ASSUME TypeOK, NEW c \in Clientes, NEW k \in Claves, NEW p, ~EsCanal(p.nuevo),
         Entera(c, k, p)
  PROVE  RespetaCanales(c)
<1> DEFINE T == Aplicar(tabla, k, p, ahora)
<1>1. Conserva(T, tabla) /\ Conserva(tabla, tabla)
  BY AplicarConserva DEF TypeOK, TipoCompartido, Conserva
<1>2. CASE \E E : Seccion(c, T, E, p.res)
  <2> HIDE DEF T
  <2> QED BY <1>1, <1>2, SeccionRespeta
<1>3. CASE Morir(c) /\ UNCHANGED tabla
  <2>1. fase'[c] = "muerto"
    BY <1>3 DEF Morir, Pasar, TypeOK, TipoLocal
  <2> QED BY <1>1, <1>3, <2>1 DEF RespetaCanales
<1> QED BY <1>2, <1>3 DEF Entera

(* the first section of one that releases it.                              *)
LEMMA LeerRespeta ==
  ASSUME TypeOK, NEW c \in Clientes, NEW k \in Claves, NEW p, ~EsCanal(p.nuevo),
         Leer(c, k, p)
  PROVE  RespetaCanales(c)
<1>1. Conserva(tabla', tabla)
  BY DEF Leer, compartidas, Conserva
<1>2. \/ fase'[c] \in {"libre", "muerto"}
      \/ pend'[c] = [clave |-> k, leido |-> Leido(k), plan |-> p]
  BY DEF Leer, Responder, Seguir, Morir, Pasar, TypeOK, TipoLocal
<1> QED BY <1>1, <1>2 DEF RespetaCanales

(* The string commands,                                                    *)
LEMMA StringRespeta ==
  ASSUME Inv, NEW c \in Clientes, ComandoString(c)
  PROVE  RespetaCanales(c)
<1>0. TypeOK /\ tabla \in Tablas /\ 0 \in Nat
  BY DEF Inv, TypeOK, TipoCompartido
<1>1. ASSUME NEW k \in Claves,
             \/ GET(c, k) \/ SET(c, k) \/ GETSET(c, k) \/ APPEND(c, k)
             \/ STRLEN(c, k) \/ GETDEL(c, k) \/ INCRBY(c, k) \/ DECRBY(c, k)
      PROVE  RespetaCanales(c)
  <2>1. Leido(k) \in TipoONada
    BY Lectura
  <2>2. ~EsCanal(Responde(WrongType).nuevo)
    BY PlanesSinCanal
  <2>3. CASE GET(c, k) \/ SET(c, k) \/ GETSET(c, k) \/ APPEND(c, k) \/ STRLEN(c, k)
    BY <1>0, <2>1, <2>2, <2>3, PlanesDeStringSinCanal, EnteraRespeta
       DEF GET, SET, GETSET, APPEND, STRLEN
  <2>4. CASE GETDEL(c, k) \/ INCRBY(c, k) \/ DECRBY(c, k)
    BY <1>0, <2>1, <2>4, PlanesDeStringSinCanal, LeerRespeta DEF GETDEL, INCRBY, DECRBY
  <2> QED BY <1>1, <2>3, <2>4
<1>2. CASE MSET(c)
  <2>1. PICK qs \in Lotes : Seccion(c, GuardarValores(tabla, qs), GuardarValores(tabla, qs), Ok)
    BY <1>2 DEF MSET
  <2>2. Conserva(GuardarValores(tabla, qs), tabla)
    <3>1. CASE Claves = {}
      BY <3>1 DEF Conserva
    <3>2. CASE Claves # {}
      BY <1>0, <3>2, OperacionesConservan
    <3> QED BY <3>1, <3>2
  <2> QED BY <1>0, <2>1, <2>2, SeccionRespeta
<1> QED BY <1>1, <1>2 DEF ComandoString

(* the list commands,                                                      *)
LEMMA ListRespeta ==
  ASSUME Inv, NEW c \in Clientes, ComandoList(c)
  PROVE  RespetaCanales(c)
<1>0. TypeOK
  BY DEF Inv
<1>1. PICK k \in Claves : \/ LINDEX(c, k) \/ LLEN(c, k) \/ LPOP(c, k) \/ RPOP(c, k)
                          \/ LPUSH(c, k) \/ LPUSHX(c, k) \/ RPUSH(c, k) \/ RPUSHX(c, k)
                          \/ LRANGE(c, k) \/ LREM(c, k) \/ LSET(c, k)
  BY DEF ComandoList
<1>2. Leido(k) \in TipoONada
  BY Lectura
<1>3. CASE LLEN(c, k)
  BY <1>0, <1>2, <1>3, PlanesDeListaSinCanal, EnteraRespeta DEF LLEN
<1>4. CASE LPOP(c, k) \/ RPOP(c, k)
  <2>1. PICK n \in Nat, f \in BOOLEAN : Leer(c, k, PlanPop(Leido(k), n, f))
    BY <1>4, Numerales DEF LPOP, RPOP
  <2> QED BY <1>0, <1>2, <2>1, PlanesDeListaSinCanal, LeerRespeta
<1>5. CASE LINDEX(c, k) \/ LPUSH(c, k) \/ LPUSHX(c, k) \/ RPUSH(c, k) \/ RPUSHX(c, k)
  BY <1>0, <1>2, <1>5, PlanesDeListaSinCanal, LeerRespeta
     DEF LINDEX, LPUSH, LPUSHX, RPUSH, RPUSHX
<1>6. CASE LRANGE(c, k) \/ LREM(c, k) \/ LSET(c, k)
  BY <1>0, <1>2, <1>6, PlanesDeListaSinCanal, LeerRespeta DEF LRANGE, LREM, LSET
<1> QED BY <1>1, <1>3, <1>4, <1>5, <1>6

(* the set commands,                                                       *)
LEMMA SetRespeta ==
  ASSUME Inv, NEW c \in Clientes, ComandoSet(c)
  PROVE  RespetaCanales(c)
<1>0. TypeOK
  BY DEF Inv
<1>1. PICK k \in Claves : \/ SADD(c, k) \/ SREM(c, k) \/ SCARD(c, k)
                          \/ SISMEMBER(c, k) \/ SMEMBERS(c, k)
  BY DEF ComandoSet
<1>2. Leido(k) \in TipoONada
  BY Lectura
<1> QED BY <1>0, <1>1, <1>2, PlanesDeConjuntoSinCanal, EnteraRespeta
        DEF SADD, SREM, SCARD, SISMEMBER, SMEMBERS

(* those of keys but COPY and RENAME, of the server,                       *)
LEMMA KeyRespeta ==
  ASSUME Inv, SinCopias, NEW c \in Clientes, ComandoKey(c) \/ ComandoServer(c)
  PROVE  RespetaCanales(c)
<1>0. TypeOK /\ tabla \in Tablas /\ ahora \in Nat
  BY DEF Inv, TypeOK, TipoCompartido
<1>1. ASSUME NEW k \in Claves, TYPE(c, k) \/ EXPIRE(c, k) \/ EXPIREAT(c, k)
                                 \/ PERSIST(c, k) \/ TTL(c, k)
      PROVE  RespetaCanales(c)
  <2>1. \A r : ~EsCanal(Responde(r).nuevo)
    BY PlanesSinCanal
  <2>2. CASE TYPE(c, k) \/ TTL(c, k)
    BY <1>0, <2>1, <2>2, EnteraRespeta DEF TYPE, TTL
  <2>3. CASE EXPIRE(c, k) \/ PERSIST(c, k)
    BY <1>0, <2>3, Numerales, OperacionesConservan, SeccionRespeta DEF EXPIRE, PERSIST
  <2>4. CASE EXPIREAT(c, k)
    <3>1. fase'[c] \in {"muerto", "libre", "expirar"} /\ tabla' = tabla
      BY <1>0, <2>4 DEF EXPIREAT, Morir, Responder, Seguir, Pasar, TypeOK, TipoLocal, compartidas
    <3> QED BY <3>1 DEF RespetaCanales, Conserva
  <2> QED BY <1>1, <2>2, <2>3, <2>4
<1>2. ~\E k, a \in Claves : COPY(c, k, a) \/ RENAME(c, k, a)
  BY DEF SinCopias, COPY, RENAME, Pide
<1>3. Conserva(tabla, tabla) /\ Conserva(BorrarClaves, tabla)
  <2>1. ~EsCanal(Ausente.valor)
    BY DEF EsCanal, Ausente, NoExpirable, Nada
  <2> QED BY <2>1 DEF Conserva, BorrarClaves
<1>4. CASE TOUCH(c) \/ KEYS(c)
  BY <1>0, <1>3, <1>4, SeccionRespeta DEF TOUCH, KEYS
<1>5. CASE Multiple(c)
  <2>1. fase'[c] = "multiple" /\ tabla' = tabla
    BY <1>0, <1>5 DEF Multiple, Seguir, Pasar, TypeOK, TipoLocal, compartidas
  <2> QED BY <1>3, <2>1 DEF RespetaCanales
<1>6. CASE ComandoServer(c)
  BY <1>0, <1>3, <1>6, SeccionRespeta DEF ComandoServer, FLUSHDB, DBSIZE
<1> QED BY <1>1, <1>2, <1>4, <1>5, <1>6 DEF ComandoKey

(* and the later sections of a command.                                    *)
LEMMA ContinuarRespeta ==
  ASSUME Inv, NEW c \in Clientes, Continuar(c),
         fase[c] = "escribir" => ~EsCanal(pend[c].plan.nuevo)
  PROVE  RespetaCanales(c)
<1>0. TypeOK /\ tabla \in Tablas /\ ahora \in Nat /\ pend[c] \in PendDe(fase[c])
  BY DEF Inv, TypeOK, TipoCompartido, TipoLocal
<1>1. CASE Escribir(c)
  <2>1. pend[c].clave \in Claves
    BY <1>0, <1>1 DEF Escribir, PendDe, PendEscribir
  <2>2. Conserva(Aplicar(tabla, pend[c].clave, pend[c].plan, ahora), tabla)
    BY <1>0, <1>1, <2>1, AplicarConserva DEF Escribir
  <2> QED BY <1>0, <1>1, <2>2, SeccionRespeta DEF Escribir
<1>2. CASE RenameBorrar(c)
  <2>1. pend[c].clave \in Claves
    BY <1>0, <1>2 DEF RenameBorrar, PendDe, PendBorrar
  <2>2. fase'[c] = "libre"
    BY <1>0, <1>2 DEF RenameBorrar, Responder, Pasar, TypeOK, TipoLocal
  <2>3. tabla' = tabla \/ tabla' = EliminarClave(tabla, pend[c].clave)
    BY <1>2 DEF RenameBorrar
  <2>4. Conserva(tabla', tabla)
    BY <1>0, <2>1, <2>3, OperacionesConservan
  <2> QED BY <2>2, <2>4 DEF RespetaCanales
<1>3. CASE ExpireAtFijar(c)
  <2>1. pend[c].clave \in Claves /\ pend[c].vida \in Nat
    BY <1>0, <1>3 DEF ExpireAtFijar, PendDe, PendExpirar
  <2> QED BY <1>0, <1>3, <2>1, OperacionesConservan, SeccionRespeta DEF ExpireAtFijar
<1>4. CASE MultiplePaso(c)
  <2>1. pend[c] \in PendMultiple /\ pend[c].faltan # <<>>
    BY <1>0, <1>4 DEF MultiplePaso, PendDe
  <2>2. Head(pend[c].faltan) \in Claves
    BY <2>1, Valores, VisitaTipada
  <2>3. fase'[c] \in {"libre", "multiple"}
    BY <1>0, <1>4 DEF MultiplePaso, Responder, Seguir, Pasar, TypeOK, TipoLocal
  <2>4. tabla' = tabla \/ tabla' = EliminarClave(tabla, Head(pend[c].faltan))
    BY <1>4 DEF MultiplePaso
  <2>5. Conserva(tabla', tabla)
    BY <1>0, <2>2, <2>4, OperacionesConservan
  <2> QED BY <2>3, <2>5 DEF RespetaCanales
<1>5. CASE MultipleFin(c)
  <2>1. fase'[c] = "libre" /\ tabla' = tabla
    BY <1>0, <1>5 DEF MultipleFin, Responder, Pasar, TypeOK, TipoLocal, compartidas
  <2> QED BY <2>1 DEF RespetaCanales, Conserva
<1> QED BY <1>1, <1>2, <1>3, <1>4, <1>5 DEF Continuar

-----------------------------------------------------------------------------
(* The state of a thread inside a command on channels.                     *)

Estados == {Ocioso} \cup PsRecorrer \cup PsGuardar \cup PsPublicar

(* Meanwhile its client has no other command, and it only visits keys that *)
(* its client may use.                                                     *)
EnCanal(c) ==
  /\ ps[c] # Ocioso => fase[c] = "libre"
  /\ ps[c].paso \in {"recorrer", "guardar"} => ToSet(ps[c].faltan) \subseteq Permitidas[c]
  /\ fase[c] = "escribir" => ~EsCanal(pend[c].plan.nuevo)

InvPS == Inv /\ TipoPubSub /\ \A c \in Clientes : EnCanal(c)

(* The step it is at tells what the thread carries.                        *)
LEMMA EstadosPorPaso ==
  ASSUME NEW e \in Estados
  PROVE  /\ e.paso \in {"nada", "recorrer", "guardar", "publicar"}
         /\ e.paso = "nada" <=> e = Ocioso
         /\ e.paso = "recorrer" => e \in PsRecorrer
         /\ e.paso = "guardar" => e \in PsGuardar
         /\ e.paso = "publicar" => e \in PsPublicar
BY DEF Estados, Ocioso, PsRecorrer, PsGuardar, PsPublicar

(* The constructors of these states.                                       *)
LEMMA EstadosTipados ==
  ASSUME NEW op \in Recorridos, NEW ks \in Seq(Claves), NEW k \in Claves,
         NEW cs \in Seq(Clientes), NEW n \in Nat, NEW bs \in SUBSET Clientes, NEW ns \in Seq([res : {"Int"}, int : Nat])
  PROVE  /\ Ocioso \in Estados
         /\ Recorre(op, ks, ns) \in Estados
         /\ ks # <<>> => Guarda(op, ks, cs) \in Estados
         /\ Publica(k, cs, n, bs) \in Estados
BY DEF Estados, Ocioso, Recorre, Guarda, Publica, PsRecorrer, PsGuardar, PsPublicar

(* A thread moves to another of these states, alone.                       *)
LEMMA MoverTipado ==
  ASSUME TipoPubSub, NEW c \in Clientes, NEW e \in Estados, ps' = [ps EXCEPT ![c] = e]
  PROVE  /\ ps' \in [Clientes -> Estados] /\ ps'[c] = e
         /\ \A d \in Clientes \ {c} : ps'[d] = ps[d]
BY DEF TipoPubSub, Estados

(* The keys left when the first has been visited.                          *)
LEMMA Visitadas ==
  ASSUME NEW T, NEW s \in Seq(T), s # <<>>
  PROVE  /\ Head(s) \in T /\ Tail(s) \in Seq(T)
         /\ Head(s) \in ToSet(s) /\ ToSet(Tail(s)) \subseteq ToSet(s)
<1>1. Head(s) \in T /\ Tail(s) \in Seq(T)
  OBVIOUS
<1>2. Head(s) \in ToSet(s) /\ ToSet(Tail(s)) \subseteq ToSet(s)
  BY DEF ToSet
<1> QED BY <1>1, <1>2

-----------------------------------------------------------------------------
(* How often a client is on a list.                                        *)
LEMMA VecesContadas ==
  ASSUME NEW cs \in Seq(Clientes), NEW c \in Clientes, NEW d \in Clientes
  PROVE  /\ Veces(d, cs) \in Nat /\ Veces(d, <<>>) = 0
         /\ Append(cs, c) \in Seq(Clientes)
         /\ Veces(d, Append(cs, c)) = IF d = c THEN Veces(d, cs) + 1 ELSE Veces(d, cs)
         /\ cs # <<>> => /\ Veces(d, Tail(cs)) <= Veces(d, cs)
                         /\ Head(cs) = d => Veces(d, cs) > 0
         /\ \A i \in 1 .. Len(cs) :
              /\ RemoveAt(cs, i) \in Seq(Clientes)
              /\ Veces(d, RemoveAt(cs, i)) = IF cs[i] = d THEN Veces(d, cs) - 1 ELSE Veces(d, cs)
<1>1. \A s : Veces(d, s) = Cuantas(s, {d})
  BY DEF Veces, Cuantas, Posiciones
<1>2. Cuantas(cs, {d}) \in Nat /\ Cuantas(<<>>, {d}) = 0
  BY CuantasEsNat, CuantasDeVacia
<1>3. /\ Append(cs, c) \in Seq(Clientes)
      /\ Cuantas(Append(cs, c), {d}) = IF d = c THEN Cuantas(cs, {d}) + 1 ELSE Cuantas(cs, {d})
  BY CuantasDeAppend
<1>4. ASSUME cs # <<>>
      PROVE  /\ Cuantas(Tail(cs), {d}) <= Cuantas(cs, {d})
             /\ Head(cs) = d => Cuantas(cs, {d}) > 0
  <2>1. Cuantas(Tail(cs), {d}) <=
          IF Head(cs) \in {d} THEN Cuantas(cs, {d}) - 1 ELSE Cuantas(cs, {d})
    BY <1>4, CuantasDeTail
  <2>2. Cuantas(Tail(cs), {d}) \in Nat
    <3>1. Tail(cs) \in Seq(Clientes)
      BY <1>4
    <3> QED BY <3>1, CuantasEsNat
  <2> QED BY <1>2, <2>1, <2>2
<1>5. \A i \in 1 .. Len(cs) :
        /\ RemoveAt(cs, i) \in Seq(Clientes)
        /\ Cuantas(RemoveAt(cs, i), {d}) =
             IF cs[i] \in {d} THEN Cuantas(cs, {d}) - 1 ELSE Cuantas(cs, {d})
  BY CuantasDeRemoveAt
<1> QED BY <1>1, <1>2, <1>3, <1>4, <1>5

(* The occurrence that desuscribirse removes exists.                       *)
LEMMA PrimeraVez ==
  ASSUME NEW cs \in Seq(Clientes), NEW c \in Clientes, Veces(c, cs) # 0,
         NEW i, i = CHOOSE j \in DOMAIN cs : cs[j] = c /\ \A h \in 1 .. j - 1 : cs[h] # c
  PROVE  i \in 1 .. Len(cs) /\ cs[i] = c
<1> DEFINE P == {j \in DOMAIN cs : cs[j] = c}
           n == Len(cs)
           S == {n - j : j \in P}
<1>1. n \in Nat /\ DOMAIN cs = 1 .. n /\ P \subseteq 1 .. n
  OBVIOUS
<1>2. P # {}
  BY FS_EmptySet DEF Veces
<1>3. S \in SUBSET (0 .. n) /\ S # {}
  <2>1. \A j \in P : n - j \in 0 .. n
    <3> HIDE DEF P, n
    <3> QED BY <1>1
  <2> HIDE DEF P, n
  <2> QED BY <1>2, <2>1
<1>4. PICK m \in S : \A h \in S : h <= m
  <2> HIDE DEF S, n
  <2> QED BY <1>1, <1>3, Maximo
<1>5. PICK j \in P : m = n - j
  BY <1>4
<1>6. ASSUME NEW h \in 1 .. j - 1
      PROVE  cs[h] # c
  <2>1. h \in 1 .. n /\ j \in 1 .. n /\ h < j
    BY <1>1, <1>5, <1>6
  <2>2. SUFFICES ASSUME cs[h] = c PROVE FALSE
    OBVIOUS
  <2>3. n - h \in S
    BY <1>1, <2>1, <2>2
  <2>4. n - h <= n - j
    BY <1>4, <1>5, <2>3
  <2> QED BY <1>1, <2>1, <2>4
<1>7. j \in DOMAIN cs /\ cs[j] = c /\ \A h \in 1 .. j - 1 : cs[h] # c
  BY <1>5, <1>6
<1> QED BY <1>1, <1>7

-----------------------------------------------------------------------------
(* Nobody is subscribed without a notice.  NadieDeMas, by parts: the lists *)
(* in the table, the copy that each thread carries, and the messages.      *)

Contadas(cs, k) == \A d \in Clientes : abierto[d] => Veces(d, cs) <= altas[d][k]

EnMano(c) ==
  /\ ps[c].paso = "guardar" => Contadas(ps[c].suscriptores, Head(ps[c].faltan))
  /\ ps[c].paso = "publicar" => Contadas(ps[c].faltan, ps[c].clave)

Recibidos == \A d \in Clientes : abierto[d] => \A k \in buzon[d] : altas[d][k] > 0

Cuentas == /\ \A k \in Claves : Contadas(Suscriptores(tabla[k].valor), k)
           /\ \A c \in Clientes : EnMano(c)
           /\ Recibidos

(* What a step of c may do, to channels and otherwise: the only list it    *)
(* puts in the table is the one that it carries.                           *)
Crecen == /\ \A d \in Clientes : abierto'[d] => abierto[d]
          /\ \A d \in Clientes, k \in Claves : altas[d][k] <= altas'[d][k]

Guardada(c, k) == /\ ps[c].paso = "guardar" /\ k = Head(ps[c].faltan)
                  /\ tabla'[k].valor = Canal(ps[c].suscriptores)

PasoPS(c) ==
  /\ Paso(c) \/ UNCHANGED vars
  /\ TipoPubSub'
  /\ EnCanal(c)'
  /\ \A d \in Clientes \ {c} : ps'[d] = ps[d]
  /\ Crecen
  /\ \A k \in Claves : EsCanal(tabla'[k].valor) =>
       tabla'[k].valor = tabla[k].valor \/ Guardada(c, k)
  /\ EnMano(c)'
  /\ Recibidos'

(* The parts make up the property.                                         *)
LEMMA CuentasSonNadieDeMas == Cuentas => NadieDeMas
<1> SUFFICES ASSUME Cuentas, NEW c \in Clientes, abierto[c], NEW k \in Claves
             PROVE  /\ \A cs \in Listas(k) : Veces(c, cs) <= altas[c][k]
                    /\ k \in buzon[c] => altas[c][k] > 0
  BY DEF NadieDeMas
<1>1. ASSUME NEW cs \in Listas(k)
      PROVE  Contadas(cs, k)
  <2>1. CASE cs = Suscriptores(tabla[k].valor)
    BY <2>1 DEF Cuentas
  <2>2. ASSUME NEW d \in Clientes, ps[d].paso = "guardar", Head(ps[d].faltan) = k,
               cs = ps[d].suscriptores
        PROVE  Contadas(cs, k)
    BY <2>2 DEF Cuentas, EnMano
  <2>3. ASSUME NEW d \in Clientes, ps[d].paso = "publicar", ps[d].clave = k,
               cs = ps[d].faltan
        PROVE  Contadas(cs, k)
    BY <2>3 DEF Cuentas, EnMano
  <2> QED BY <1>1, <2>1, <2>2, <2>3 DEF Listas
<1>2. \A cs \in Listas(k) : Veces(c, cs) <= altas[c][k]
  BY <1>1 DEF Contadas
<1> QED BY <1>2 DEF Cuentas, Recibidos

(* The list that a section reads is one that counts.                       *)
LEMMA ListaLeida ==
  ASSUME InvPS, NEW k \in Claves
  PROVE  /\ Suscriptores(Leido(k)) \in Seq(Clientes)
         /\ Suscriptores(tabla[k].valor) \in Seq(Clientes)
         /\ EsCanal(Leido(k)) => Leido(k).suscriptores = Suscriptores(Leido(k))
         /\ Cuentas => Contadas(Suscriptores(Leido(k)), k)
<1>1. tabla \in Tablas /\ ahora \in Nat
  BY DEF InvPS, Inv, TypeOK, TipoCompartido
<1>2. /\ tabla[k].valor \in TipoONada /\ Leido(k) \in TipoONada
      /\ Leido(k) = tabla[k].valor \/ Leido(k) = Nada
  BY <1>1, LecturaTipada DEF Leido
<1>3. \A v \in TipoONada : Suscriptores(v) \in Seq(Clientes)
  BY DEF TipoONada, TipoRedis, Suscriptores, EsCanal, Nada
<1>4. Suscriptores(Nada) = <<>>
  BY DEF Suscriptores, EsCanal, Nada
<1>5. Contadas(<<>>, k)
  <2>1. \A d \in Clientes : altas[d][k] \in Nat /\ Veces(d, <<>>) = 0
    <3>1. <<>> \in Seq(Clientes)
      OBVIOUS
    <3>2. \A d \in Clientes : Veces(d, <<>>) = 0
      BY <3>1, VecesContadas
    <3>3. \A d \in Clientes : altas[d][k] \in Nat
      BY DEF InvPS, TipoPubSub
    <3> QED BY <3>2, <3>3
  <2> QED BY <2>1 DEF Contadas
<1> QED BY <1>2, <1>3, <1>4, <1>5 DEF Cuentas, Suscriptores

(* More notices, and fewer clients, leave a list that counts one.          *)
LEMMA ContadasCrecen ==
  ASSUME TipoPubSub, TipoPubSub', Crecen
  PROVE  /\ \A k \in Claves, cs \in Seq(Clientes) : Contadas(cs, k) => Contadas(cs, k)'
         /\ Recibidos /\ UNCHANGED buzon => Recibidos'
<1>1. \A d \in Clientes, k \in Claves : altas[d][k] \in Nat /\ altas'[d][k] \in Nat
  BY DEF TipoPubSub
<1>2. ASSUME NEW k \in Claves, NEW cs \in Seq(Clientes), Contadas(cs, k)
      PROVE  Contadas(cs, k)'
  <2>1. \A d \in Clientes : Veces(d, cs) \in Nat
    BY VecesContadas
  <2> QED BY <1>1, <1>2, <2>1 DEF Contadas, Crecen
<1>3. ASSUME Recibidos, UNCHANGED buzon
      PROVE  Recibidos'
  <2>1. \A d \in Clientes : buzon[d] \subseteq Claves
    BY DEF TipoPubSub
  <2> QED BY <1>1, <1>3, <2>1 DEF Recibidos, Crecen
<1> QED BY <1>2, <1>3

-----------------------------------------------------------------------------
(* Every action is a step of this kind.                                    *)

(* A thread that moves on inside a command on channels, outside a section. *)
LEMMA MoverEsPasoPS ==
  ASSUME InvPS, Cuentas, NEW c \in Clientes, NEW e \in Estados,
         ps' = [ps EXCEPT ![c] = e], UNCHANGED <<vars, abierto>>, fase[c] = "libre",
         e.paso \in {"recorrer", "guardar"} => ToSet(e.faltan) \subseteq Permitidas[c],
         altas' \in [Clientes -> [Claves -> Nat]], bajas' \in [Clientes -> [Claves -> Nat]],
         buzon' \in [Clientes -> SUBSET Claves],
         \A d \in Clientes, k \in Claves : altas[d][k] <= altas'[d][k],
         e.paso = "guardar" => Contadas(e.suscriptores, Head(e.faltan))',
         e.paso = "publicar" => Contadas(e.faltan, e.clave)',
         UNCHANGED buzon \/ Recibidos'
  PROVE  PasoPS(c)
<1>1. TipoPubSub /\ Recibidos
  BY DEF InvPS, Cuentas
<1>2. /\ ps' \in [Clientes -> Estados] /\ ps'[c] = e
      /\ \A d \in Clientes \ {c} : ps'[d] = ps[d]
  BY <1>1, MoverTipado
<1>3. TipoPubSub'
  BY <1>1, <1>2 DEF TipoPubSub, Estados
<1>4. Crecen
  BY DEF Crecen
<1>5. Recibidos'
  BY <1>1, <1>3, <1>4, ContadasCrecen
<1>6. EnCanal(c)'
  BY <1>2 DEF EnCanal, vars
<1>7. EnMano(c)'
  BY <1>2 DEF EnMano
<1> QED BY <1>2, <1>3, <1>4, <1>5, <1>6, <1>7 DEF PasoPS, vars

(* The end of a command on channels.                                       *)
LEMMA TerminarEsPasoPS ==
  ASSUME InvPS, Cuentas, NEW c \in Clientes, NEW r \in ResultadoRedis, Terminar(c, r),
         UNCHANGED <<compartidas, ahora, abierto, buzon>>
  PROVE  PasoPS(c) /\ Paso(c)
<1>1. Inv /\ TipoPubSub /\ Recibidos
  BY DEF InvPS, Cuentas
<1>2. Paso(c)
  BY <1>1, ResponderEsPaso DEF Terminar
<1>3. Ocioso \in Estados /\ Ocioso.paso = "nada"
  BY DEF Estados, Ocioso
<1>4. /\ ps' \in [Clientes -> Estados] /\ ps'[c] = Ocioso
      /\ \A d \in Clientes \ {c} : ps'[d] = ps[d]
  BY <1>1, <1>3, MoverTipado DEF Terminar
<1>5. TipoPubSub'
  BY <1>1, <1>4 DEF TipoPubSub, Estados, Terminar
<1>6. Crecen
  BY <1>1 DEF Crecen, Terminar, TipoPubSub
<1>7. Recibidos'
  BY <1>1, <1>5, <1>6, ContadasCrecen
<1>8. fase'[c] = "libre"
  BY <1>1 DEF Terminar, Responder, Pasar, Inv, TypeOK, TipoLocal
<1>9. EnCanal(c)' /\ EnMano(c)'
  BY <1>3, <1>4, <1>8 DEF EnCanal, EnMano
<1>10. tabla' = tabla
  BY DEF compartidas
<1> QED BY <1>2, <1>4, <1>5, <1>6, <1>7, <1>9, <1>10 DEF PasoPS

(* A step that leaves the channels to themselves.                          *)
LEMMA AjenoEsPasoPS ==
  ASSUME InvPS, Cuentas, NEW c \in Clientes, Paso(c), ps[c] = Ocioso, RespetaCanales(c),
         UNCHANGED <<ps, abierto, avisos>>
  PROVE  PasoPS(c)
<1>1. TipoPubSub /\ Recibidos /\ Ocioso.paso = "nada"
  BY DEF InvPS, Cuentas, Ocioso
<1>2. TipoPubSub' /\ Crecen
  BY <1>1 DEF TipoPubSub, Crecen, avisos
<1>3. Recibidos'
  BY <1>1, <1>2, ContadasCrecen DEF avisos
<1>4. EnCanal(c)' /\ EnMano(c)'
  BY <1>1 DEF EnCanal, EnMano, RespetaCanales
<1> QED BY <1>2, <1>3, <1>4 DEF PasoPS, RespetaCanales, Conserva

(* The commands of the other handlers.                                     *)
LEMMA OtroEsPasoPS ==
  ASSUME InvPS, Cuentas, SinCopias, NEW c \in Clientes, OtroComando(c)
  PROVE  PasoPS(c)
<1>1. Inv /\ EnCanal(c)
  BY DEF InvPS
<1>2. Paso(c)
  BY <1>1, ComandoEsPaso DEF OtroComando
<1>3. RespetaCanales(c)
  <2>1. CASE Continuar(c)
    BY <1>1, <2>1, ContinuarRespeta DEF EnCanal
  <2>2. CASE ComandoString(c) \/ ComandoList(c) \/ ComandoSet(c)
    BY <1>1, <2>2, StringRespeta, ListRespeta, SetRespeta
  <2>3. CASE ComandoKey(c) \/ ComandoServer(c)
    BY <1>1, <2>3, KeyRespeta
  <2> QED BY <2>1, <2>2, <2>3 DEF OtroComando
<1> QED BY <1>2, <1>3, AjenoEsPasoPS DEF OtroComando

(* PUBSUB CHANNELS, which only reads the table.                            *)
LEMMA ChannelsEsPasoPS ==
  ASSUME InvPS, Cuentas, NEW c \in Clientes, CHANNELS(c)
  PROVE  PasoPS(c)
<1>1. Inv /\ TypeOK /\ tabla \in Tablas /\ enviado \in Tablas
  BY DEF InvPS, Inv, TypeOK, TipoCompartido
<1>2. PICK S \in SUBSET Permitidas[c] :
        Seccion(c, tabla, enviado, Miembros({k \in S : Len(Suscriptores(Leido(k))) > 1}))
  BY DEF CHANNELS
<1> DEFINE M == {k \in S : Len(Suscriptores(Leido(k))) > 1}
<1>3. M \subseteq Claves
  BY HilosAssumption
<1> HIDE DEF M
<1>4. Miembros(M) \in ResultadoRedis
  BY <1>3 DEF Miembros, ResultadoRedis
<1>5. Seccion(c, tabla, enviado, Miembros(M))
  BY <1>2 DEF M
<1>6. Paso(c)
  BY <1>1, <1>4, <1>5, SeccionEsPaso
<1>7. RespetaCanales(c)
  <2>1. Conserva(tabla, tabla)
    BY DEF Conserva
  <2> QED BY <1>1, <1>5, <2>1, SeccionRespeta
<1> QED BY <1>6, <1>7, AjenoEsPasoPS DEF CHANNELS

(* A client that leaves: the lists keep it, and count nothing of it.       *)
LEMMA CerrarEsPasoPS ==
  ASSUME InvPS, Cuentas, NEW c \in Clientes, Cerrar(c)
  PROVE  PasoPS(c)
<1>1. TipoPubSub /\ Recibidos /\ EnCanal(c) /\ EnMano(c)
  BY DEF InvPS, Cuentas
<1>2. /\ abierto' = [abierto EXCEPT ![c] = FALSE] /\ UNCHANGED <<vars, ps, altas, bajas, buzon>>
  BY DEF Cerrar, avisos
<1>3. abierto' \in [Clientes -> BOOLEAN] /\ \A d \in Clientes : abierto'[d] => abierto[d]
  BY <1>1, <1>2, Zenon DEF TipoPubSub
<1>4. TipoPubSub' /\ Crecen
  BY <1>1, <1>2, <1>3 DEF TipoPubSub, Crecen
<1>5. Recibidos'
  BY <1>1, <1>2, <1>4, ContadasCrecen
<1>6. EnCanal(c)'
  BY <1>1, <1>2 DEF EnCanal, vars
<1>7. EnMano(c)'
  <2>1. ps[c] \in Estados
    BY <1>1 DEF TipoPubSub, Estados
  <2>2. ps[c].paso = "guardar" => /\ ps[c].suscriptores \in Seq(Clientes)
                                  /\ Head(ps[c].faltan) \in Claves
    BY <2>1, EstadosPorPaso DEF PsGuardar
  <2>3. ps[c].paso = "publicar" => ps[c].faltan \in Seq(Clientes) /\ ps[c].clave \in Claves
    BY <2>1, EstadosPorPaso DEF PsPublicar
  <2> QED BY <1>1, <1>2, <1>4, <2>2, <2>3, ContadasCrecen DEF EnMano
<1> QED BY <1>2, <1>4, <1>5, <1>6, <1>7 DEF PasoPS, vars

(* A client that starts to visit channels.                                 *)
LEMMA RecorrerEsPasoPS ==
  ASSUME InvPS, Cuentas, NEW c \in Clientes, Recorrer(c)
  PROVE  PasoPS(c)
<1>1. TipoPubSub
  BY DEF InvPS
<1>2. PICK op \in Recorridos, ks \in Grupos :
        /\ Pide(c, op, ToSet(ks)) /\ ps' = [ps EXCEPT ![c] = Recorre(op, ks, <<>>)]
  BY DEF Recorrer
<1>3. ks \in Seq(Claves) /\ <<>> \in Seq([res : {"Int"}, int : Nat])
  BY ServidorAssumption
<1> DEFINE e == Recorre(op, ks, <<>>)
<1>4. e \in Estados /\ e.paso = "recorrer" /\ e.faltan = ks
  BY <1>3 DEF Estados, PsRecorrer, Recorre
<1> HIDE DEF e
<1>5. fase[c] = "libre" /\ ToSet(ks) \subseteq Permitidas[c]
  BY <1>2 DEF Pide
<1>6. UNCHANGED <<vars, abierto, altas, bajas, buzon>>
  BY DEF Recorrer, avisos
<1>7. \A d \in Clientes, k \in Claves : altas[d][k] <= altas'[d][k]
  BY <1>1, <1>6 DEF TipoPubSub
<1>8. ps' = [ps EXCEPT ![c] = e]
  BY <1>2 DEF e
<1> QED BY <1>1, <1>4, <1>5, <1>6, <1>7, <1>8, MoverEsPasoPS DEF TipoPubSub

(* The notices of suscribirse and desuscribirse.                           *)
LEMMA AvisoTipado ==
  ASSUME NEW A \in [Clientes -> [Claves -> Nat]], NEW c \in Clientes, NEW k \in Claves,
         NEW B, B = [A EXCEPT ![c][k] = @ + 1]
  PROVE  /\ B \in [Clientes -> [Claves -> Nat]]
         /\ B[c][k] = A[c][k] + 1
         /\ \A d \in Clientes, j \in Claves : d # c \/ j # k => B[d][j] = A[d][j]
         /\ \A d \in Clientes, j \in Claves : A[d][j] <= B[d][j]
<1>1. /\ B \in [Clientes -> [Claves -> Nat]]
      /\ B[c][k] = A[c][k] + 1
      /\ \A d \in Clientes, j \in Claves : d # c \/ j # k => B[d][j] = A[d][j]
  OBVIOUS
<1>2. \A d \in Clientes, j \in Claves : A[d][j] \in Nat
  OBVIOUS
<1> QED BY <1>1, <1>2

(* suscribirse on a list that counts leaves one that counts;               *)
LEMMA SuscribirseCuenta ==
  ASSUME TipoPubSub, NEW c \in Clientes, NEW k \in Claves, NEW cs \in Seq(Clientes),
         Contadas(cs, k), UNCHANGED abierto, Suscribirse(c, k, cs)
  PROVE  \E ds \in Seq(Clientes) :
           /\ ps' = [ps EXCEPT ![c] = Guarda(ps[c].op, ps[c].faltan, ds)]
           /\ Contadas(ds, k)'
           /\ altas' \in [Clientes -> [Claves -> Nat]]
           /\ \A d \in Clientes, j \in Claves : altas[d][j] <= altas'[d][j]
<1>0. /\ altas \in [Clientes -> [Claves -> Nat]]
      /\ \A d \in Clientes, j \in Claves : altas[d][j] \in Nat
  BY DEF TipoPubSub
<1>1. \A d \in Clientes :
        /\ Veces(d, cs) \in Nat
        /\ Veces(d, Append(cs, c)) = IF d = c THEN Veces(d, cs) + 1 ELSE Veces(d, cs)
  BY VecesContadas
<1>2. Append(cs, c) \in Seq(Clientes)
  OBVIOUS
<1>3. CASE /\ abierto[c] /\ altas' = [altas EXCEPT ![c][k] = @ + 1]
           /\ ps' = [ps EXCEPT ![c] = Guarda(@.op, @.faltan, Append(cs, c))]
  <2>1. /\ altas' \in [Clientes -> [Claves -> Nat]]
        /\ altas'[c][k] = altas[c][k] + 1
        /\ \A d \in Clientes, j \in Claves : d # c \/ j # k => altas'[d][j] = altas[d][j]
        /\ \A d \in Clientes, j \in Claves : altas[d][j] <= altas'[d][j]
    BY <1>0, <1>3, AvisoTipado
  <2>2. PICK ds : ds = Append(cs, c)
    OBVIOUS
  <2>3. ASSUME NEW d \in Clientes, abierto[d]
        PROVE  Veces(d, ds) <= altas'[d][k]
    <3>1. Veces(d, cs) <= altas[d][k]
      BY <2>3 DEF Contadas
    <3>2. altas[d][k] \in Nat /\ Veces(d, cs) \in Nat
      BY <1>0, <1>1
    <3>3. CASE d = c
      <4>1. Veces(d, ds) = Veces(d, cs) + 1 /\ altas'[d][k] = altas[d][k] + 1
        BY <1>1, <2>1, <2>2, <3>3
      <4> QED BY <3>1, <3>2, <4>1
    <3>4. CASE d # c
      <4>1. Veces(d, ds) = Veces(d, cs) /\ altas'[d][k] = altas[d][k]
        BY <1>1, <2>1, <2>2, <3>4
      <4> QED BY <3>1, <4>1
    <3> QED BY <3>3, <3>4
  <2>4. Contadas(ds, k)'
    BY <2>3 DEF Contadas
  <2> QED BY <1>2, <1>3, <2>1, <2>2, <2>4
<1>4. CASE /\ ~abierto[c] /\ UNCHANGED altas
           /\ \E ds \in {cs, Append(cs, c)} : ps' = [ps EXCEPT ![c] = Guarda(@.op, @.faltan, ds)]
  <2>1. Contadas(cs, k)' /\ Contadas(Append(cs, c), k)'
    BY <1>1, <1>4 DEF Contadas
  <2>2. \A d \in Clientes, j \in Claves : altas[d][j] <= altas'[d][j]
    BY <1>0, <1>4
  <2> QED BY <1>0, <1>2, <1>4, <2>1, <2>2
<1> QED BY <1>3, <1>4 DEF Suscribirse

(* so does desuscribirse.                                                  *)
LEMMA DesuscribirseCuenta ==
  ASSUME TipoPubSub, NEW c \in Clientes, NEW k \in Claves, NEW cs \in Seq(Clientes),
         Contadas(cs, k), UNCHANGED <<abierto, altas>>, Desuscribirse(c, k, cs)
  PROVE  \E ds \in Seq(Clientes) :
           /\ ps' = [ps EXCEPT ![c] = Guarda(ps[c].op, ps[c].faltan, ds)]
           /\ Contadas(ds, k)'
           /\ bajas' \in [Clientes -> [Claves -> Nat]]
<1>0. /\ bajas \in [Clientes -> [Claves -> Nat]]
      /\ \A d \in Clientes : altas[d][k] \in Nat
  BY DEF TipoPubSub
<1>1. CASE /\ ps' = [ps EXCEPT ![c] = Guarda(@.op, @.faltan, cs)] /\ UNCHANGED bajas
  BY <1>0, <1>1 DEF Contadas
<1>2. CASE Veces(c, cs) > 0
  <2>0. PICK i : i = CHOOSE j \in DOMAIN cs : cs[j] = c /\ \A h \in 1 .. j - 1 : cs[h] # c
    OBVIOUS
  <2>1. Veces(c, cs) \in Nat /\ Veces(c, cs) # 0
    BY <1>2, VecesContadas
  <2>2. i \in 1 .. Len(cs) /\ cs[i] = c
    BY <2>0, <2>1, PrimeraVez
  <2>3. /\ ps' = [ps EXCEPT ![c] = Guarda(@.op, @.faltan, RemoveAt(cs, i))]
        /\ bajas' = IF abierto[c] THEN [bajas EXCEPT ![c][k] = @ + 1] ELSE bajas
    BY <2>0, <2>1 DEF Desuscribirse
  <2>4. /\ RemoveAt(cs, i) \in Seq(Clientes)
        /\ \A d \in Clientes : Veces(d, cs) \in Nat
        /\ \A d \in Clientes : Veces(d, RemoveAt(cs, i)) =
                                 IF cs[i] = d THEN Veces(d, cs) - 1 ELSE Veces(d, cs)
    BY <2>2, VecesContadas
  <2>5. PICK ds : ds = RemoveAt(cs, i)
    OBVIOUS
  <2>6. ASSUME NEW d \in Clientes, abierto[d]
        PROVE  Veces(d, ds) <= altas[d][k]
    <3>1. Veces(d, cs) <= altas[d][k]
      BY <2>6 DEF Contadas
    <3>2. Veces(d, cs) \in Nat /\ altas[d][k] \in Nat
      BY <1>0, <2>4
    <3>3. Veces(d, ds) = Veces(d, cs) \/ Veces(d, ds) = Veces(d, cs) - 1
      BY <2>4, <2>5
    <3> QED BY <3>1, <3>2, <3>3
  <2>7. Contadas(ds, k)'
    BY <2>6 DEF Contadas
  <2>8. bajas' \in [Clientes -> [Claves -> Nat]]
    <3>1. CASE abierto[c]
      BY <1>0, <2>3, <3>1, AvisoTipado
    <3>2. CASE ~abierto[c]
      BY <1>0, <2>3, <3>2
    <3> QED BY <3>1, <3>2
  <2> QED BY <2>3, <2>4, <2>5, <2>7, <2>8
<1> QED BY <1>1, <1>2 DEF Desuscribirse

(* The section of subscribe, unsubscribe and numsub that reads a channel.  *)
LEMMA LeerCanalEsPasoPS ==
  ASSUME InvPS, Cuentas, NEW c \in Clientes, LeerCanal(c)
  PROVE  PasoPS(c)
<1>0. TipoPubSub /\ EnCanal(c)
  BY DEF InvPS
<1>1. /\ ps[c] \in PsRecorrer /\ ps[c].paso = "recorrer" /\ ps[c].faltan # <<>>
  BY <1>0, EstadosPorPaso DEF LeerCanal, TipoPubSub, Estados
<1>2. /\ ps[c].op \in Recorridos /\ ps[c].faltan \in Seq(Claves)
      /\ ps[c].largos \in Seq([res : {"Int"}, int : Nat])
  BY <1>1 DEF PsRecorrer
<1>a. PICK k, v, cs : k = Head(ps[c].faltan) /\ v = Leido(k) /\ cs = Suscriptores(v)
  OBVIOUS
<1>3. /\ k \in Claves /\ Tail(ps[c].faltan) \in Seq(Claves)
      /\ ToSet(Tail(ps[c].faltan)) \subseteq ToSet(ps[c].faltan)
  BY <1>a, <1>1, <1>2, Visitadas
<1>4. fase[c] = "libre" /\ ToSet(ps[c].faltan) \subseteq Permitidas[c]
  BY <1>0, <1>1 DEF EnCanal, Ocioso
<1>5. cs \in Seq(Clientes) /\ Contadas(cs, k) /\ (EsCanal(v) => v.suscriptores = cs)
  BY <1>a, <1>3, ListaLeida
<1>6. /\ altas \in [Clientes -> [Claves -> Nat]] /\ bajas \in [Clientes -> [Claves -> Nat]]
      /\ buzon \in [Clientes -> SUBSET Claves]
      /\ \A d \in Clientes, j \in Claves : altas[d][j] \in Nat
  BY <1>0 DEF TipoPubSub
<1>7. UNCHANGED <<compartidas, ahora, abierto, buzon>>
  BY DEF LeerCanal
<1> DEFINE quieto == UNCHANGED <<fase, pend, resp>>
<1>8. \/ Terminar(c, ErrBdd) \/ Terminar(c, WrongType)
      \/ /\ EsCanal(v) /\ quieto /\ UNCHANGED <<altas, bajas>>
         /\ ps' = [ps EXCEPT ![c] = Recorre(@.op, Tail(@.faltan),
                                            Append(@.largos, Entero(Len(v.suscriptores))))]
      \/ Suscribirse(c, k, cs) /\ quieto /\ UNCHANGED bajas
      \/ Desuscribirse(c, k, cs) /\ quieto /\ UNCHANGED altas
  BY <1>a DEF LeerCanal
<1>9. quieto => UNCHANGED <<vars, abierto>>
  BY <1>7 DEF vars, compartidas
<1>10. CASE Terminar(c, ErrBdd) \/ Terminar(c, WrongType)
  <2>1. ErrBdd \in ResultadoRedis /\ WrongType \in ResultadoRedis
    BY Respuestas
  <2> QED BY <1>7, <1>10, <2>1, TerminarEsPasoPS
<1>11. CASE /\ EsCanal(v) /\ quieto /\ UNCHANGED <<altas, bajas>>
            /\ ps' = [ps EXCEPT ![c] = Recorre(@.op, Tail(@.faltan),
                                            Append(@.largos, Entero(Len(v.suscriptores))))]
  <2> DEFINE ns == Append(ps[c].largos, Entero(Len(v.suscriptores)))
             e == Recorre(ps[c].op, Tail(ps[c].faltan), ns)
  <2>1. Entero(Len(v.suscriptores)) \in [res : {"Int"}, int : Nat]
    BY <1>5, <1>11 DEF Entero
  <2>2. ns \in Seq([res : {"Int"}, int : Nat])
    BY <1>2, <2>1
  <2> HIDE DEF ns
  <2>3. e \in Estados /\ e.paso = "recorrer" /\ e.faltan = Tail(ps[c].faltan)
    BY <1>2, <1>3, <2>2 DEF Estados, PsRecorrer, Recorre
  <2>4. ps' = [ps EXCEPT ![c] = e]
    BY <1>11 DEF ns
  <2>5. \A d \in Clientes, j \in Claves : altas[d][j] <= altas'[d][j]
    BY <1>6, <1>11
  <2> HIDE DEF e
  <2> QED BY <1>3, <1>4, <1>6, <1>7, <1>9, <1>11, <2>3, <2>4, <2>5, MoverEsPasoPS
<1>12. ASSUME NEW ds \in Seq(Clientes), quieto, Contadas(ds, k)',
              ps' = [ps EXCEPT ![c] = Guarda(ps[c].op, ps[c].faltan, ds)],
              altas' \in [Clientes -> [Claves -> Nat]],
              bajas' \in [Clientes -> [Claves -> Nat]],
              \A d \in Clientes, j \in Claves : altas[d][j] <= altas'[d][j]
       PROVE  PasoPS(c)
  <2>0. PICK e : e = Guarda(ps[c].op, ps[c].faltan, ds)
    OBVIOUS
  <2>1. /\ e \in Estados /\ e.paso = "guardar" /\ e.faltan = ps[c].faltan
        /\ e.suscriptores = ds /\ Head(e.faltan) = k
    BY <1>a, <1>1, <1>2, <1>12, <2>0 DEF Estados, PsGuardar, Guarda
  <2>2. ps' = [ps EXCEPT ![c] = e]
    BY <1>12, <2>0
  <2>3. Contadas(e.suscriptores, Head(e.faltan))'
    BY <1>12, <2>1 DEF Contadas
  <2> QED BY <1>4, <1>6, <1>7, <1>9, <1>12, <2>1, <2>2, <2>3, MoverEsPasoPS
<1>13. CASE Suscribirse(c, k, cs) /\ quieto /\ UNCHANGED bajas
  <2> HIDE DEF quieto
  <2> QED BY <1>0, <1>3, <1>5, <1>6, <1>7, <1>12, <1>13, SuscribirseCuenta
<1>14. CASE Desuscribirse(c, k, cs) /\ quieto /\ UNCHANGED altas
  <2>1. \A d \in Clientes, j \in Claves : altas[d][j] <= altas'[d][j]
    BY <1>6, <1>14
  <2> HIDE DEF quieto
  <2> QED BY <1>0, <1>3, <1>5, <1>6, <1>7, <1>12, <1>14, <2>1, DesuscribirseCuenta
<1> QED BY <1>8, <1>10, <1>11, <1>13, <1>14

(* The section that stores it.                                             *)
LEMMA GuardarCanalEsPasoPS ==
  ASSUME InvPS, Cuentas, NEW c \in Clientes, GuardarCanal(c)
  PROVE  PasoPS(c)
<1>0. /\ Inv /\ TipoPubSub /\ EnCanal(c) /\ Recibidos
      /\ TypeOK /\ TipoLocal /\ TipoCompartido /\ EnCurso(c)
  BY DEF InvPS, Cuentas, Inv, TypeOK
<1>1. /\ ps[c] \in PsGuardar /\ ps[c].paso = "guardar"
  BY <1>0, EstadosPorPaso DEF GuardarCanal, TipoPubSub, Estados
<1>2. /\ ps[c].op \in Recorridos /\ ps[c].faltan \in Seq(Claves) /\ ps[c].faltan # <<>>
      /\ ps[c].suscriptores \in Seq(Clientes)
  BY <1>1 DEF PsGuardar
<1>3. PICK k : k = Head(ps[c].faltan)
  OBVIOUS
<1>4. /\ k \in Claves /\ k \in ToSet(ps[c].faltan) /\ Tail(ps[c].faltan) \in Seq(Claves)
      /\ ToSet(Tail(ps[c].faltan)) \subseteq ToSet(ps[c].faltan)
  BY <1>2, <1>3, Visitadas
<1>5. fase[c] = "libre" /\ ToSet(ps[c].faltan) \subseteq Permitidas[c]
  BY <1>0, <1>1 DEF EnCanal, Ocioso
<1>6. CASE Terminar(c, ErrBdd) /\ UNCHANGED <<tabla, enviado>>
  <2>1. UNCHANGED <<compartidas, ahora, abierto, buzon>>
    BY <1>6 DEF GuardarCanal, compartidas
  <2>2. ErrBdd \in ResultadoRedis
    BY Respuestas
  <2> QED BY <1>6, <2>1, <2>2, TerminarEsPasoPS
<1>7. CASE ~envenenado /\ UNCHANGED <<fase, pend, resp>>
  <2> DEFINE x == Canal(ps[c].suscriptores)
             e == Recorre(ps[c].op, Tail(ps[c].faltan), <<>>)
  <2>1. /\ tabla' = GuardarValor(tabla, k, x) /\ enviado' = tabla'
        /\ UNCHANGED <<envenenado, ahora, abierto, buzon, altas, bajas>>
        /\ ps' = [ps EXCEPT ![c] = e]
    BY <1>3, <1>7 DEF GuardarCanal, Terminar
  <2>2. x \in TipoONada
    BY <1>2 DEF Canal, TipoONada, TipoRedis
  <2>3. e \in Estados /\ e.paso = "recorrer" /\ e.faltan = Tail(ps[c].faltan)
    <3>1. <<>> \in Seq([res : {"Int"}, int : Nat])
      OBVIOUS
    <3> QED BY <1>2, <1>4, <3>1 DEF Estados, PsRecorrer, Recorre
  <2> HIDE DEF e
  <2>4. /\ ps' \in [Clientes -> Estados] /\ ps'[c] = e
        /\ \A d \in Clientes \ {c} : ps'[d] = ps[d]
    BY <1>0, <2>1, <2>3, MoverTipado
  <2>5. tabla' \in Tablas
    BY <1>0, <1>4, <2>1, <2>2, EscrituraTipada DEF TipoCompartido
  <2>6. /\ \A j \in Claves \ {k} : tabla'[j] = tabla[j]
        /\ tabla'[k].valor = x
    BY <1>0, <1>4, <2>1 DEF TipoCompartido, Tablas, GuardarValor, NoExpirable
  <2>7. TypeOK'
    BY <1>0, <1>7, <2>1, <2>5 DEF TypeOK, TipoCompartido, TipoLocal
  <2>8. Paso(c)
    BY <1>0, <1>4, <1>5, <1>7, <2>1, <2>6, <2>7 DEF Paso, EnCurso
  <2>9. TipoPubSub' /\ Crecen
    BY <1>0, <2>1, <2>4 DEF TipoPubSub, Estados, Crecen
  <2>10. Recibidos'
    BY <1>0, <2>1, <2>9, ContadasCrecen
  <2>11. EnCanal(c)' /\ EnMano(c)'
    BY <1>4, <1>5, <1>7, <2>3, <2>4 DEF EnCanal, EnMano
  <2> HIDE DEF x
  <2>12. \A j \in Claves : EsCanal(tabla'[j].valor) =>
            tabla'[j].valor = tabla[j].valor \/ Guardada(c, j)
    BY <1>1, <1>3, <2>6 DEF Guardada, x
  <2> QED BY <2>4, <2>8, <2>9, <2>10, <2>11, <2>12 DEF PasoPS
<1> QED BY <1>6, <1>7 DEF GuardarCanal

(* The ends of the loops.                                                  *)
LEMMA FinesSonPasoPS ==
  ASSUME InvPS, Cuentas, NEW c \in Clientes, FinRecorrer(c) \/ FinPublicar(c)
  PROVE  PasoPS(c)
<1>0. ps[c] \in Estados
  BY DEF InvPS, TipoPubSub, Estados
<1>1. CASE FinRecorrer(c)
  <2>1. ps[c].largos \in Seq([res : {"Int"}, int : Nat])
    BY <1>0, <1>1, EstadosPorPaso DEF FinRecorrer, PsRecorrer
  <2>2. [res : {"Int"}, int : Nat] \subseteq Simples
    BY DEF Simples
  <2>3. ps[c].largos \in Seq(Simples)
    <3>1. PICK S, s : S = [res : {"Int"}, int : Nat] /\ s = ps[c].largos
      OBVIOUS
    <3>2. s \in Seq(S) /\ S \subseteq Simples
      BY <2>1, <2>2, <3>1
    <3>3. s \in Seq(Simples)
      <4>1. Len(s) \in Nat /\ s = [i \in 1 .. Len(s) |-> s[i]]
        BY <3>2
      <4>2. \A i \in 1 .. Len(s) : s[i] \in Simples
        BY <3>2
      <4> QED BY <4>1, <4>2
    <3> QED BY <3>1, <3>3
  <2>4. Vector(ps[c].largos) \in ResultadoRedis /\ Vacio \in ResultadoRedis
    BY <2>3, Respuestas DEF ResultadoRedis, Simples
  <2> QED BY <1>1, <2>4, TerminarEsPasoPS DEF FinRecorrer
<1>2. CASE FinPublicar(c)
  <2>1. ps[c].publicados \in Int
    BY <1>0, <1>2, EstadosPorPaso DEF FinPublicar, PsPublicar
  <2>2. Entero(ps[c].publicados) \in ResultadoRedis
    BY <2>1, Respuestas
  <2> QED BY <1>2, <2>2, TerminarEsPasoPS DEF FinPublicar
<1> QED BY <1>1, <1>2

(* PUBLISH takes the subscribers of the channel it read,                   *)
LEMMA PublishEsPasoPS ==
  ASSUME InvPS, Cuentas, NEW c \in Clientes, NEW k \in Claves, PUBLISH(c, k)
  PROVE  PasoPS(c)
<1>0. TipoPubSub
  BY DEF InvPS
<1>1. UNCHANGED <<compartidas, ahora, abierto, buzon>> /\ fase[c] = "libre"
  BY DEF PUBLISH, Pide
<1>2. CASE Terminar(c, ErrBdd) \/ Terminar(c, WrongType)
  <2>1. ErrBdd \in ResultadoRedis /\ WrongType \in ResultadoRedis
    BY Respuestas
  <2> QED BY <1>1, <1>2, <2>1, TerminarEsPasoPS
<1>3. CASE /\ EsCanal(Leido(k)) /\ UNCHANGED <<fase, pend, resp, altas, bajas>>
           /\ ps' = [ps EXCEPT ![c] = Publica(k, Leido(k).suscriptores, 0, {})]
  <2>1. PICK cs, e : cs = Suscriptores(Leido(k)) /\ e = Publica(k, cs, 0, {})
    OBVIOUS
  <2>2. cs \in Seq(Clientes) /\ Contadas(cs, k) /\ Leido(k).suscriptores = cs
    BY <1>3, <2>1, ListaLeida
  <2>3. e \in Estados /\ e.paso = "publicar" /\ e.faltan = cs /\ e.clave = k
    BY <2>1, <2>2 DEF Estados, PsPublicar, Publica
  <2>4. ps' = [ps EXCEPT ![c] = e]
    BY <1>3, <2>1, <2>2
  <2>5. UNCHANGED <<vars, abierto>>
    BY <1>1, <1>3 DEF vars, compartidas
  <2>6. Contadas(e.faltan, e.clave)'
    BY <1>1, <1>3, <2>2, <2>3 DEF Contadas
  <2>7. \A d \in Clientes, j \in Claves : altas[d][j] <= altas'[d][j]
    BY <1>0, <1>3 DEF TipoPubSub
  <2> QED BY <1>0, <1>1, <1>3, <2>3, <2>4, <2>5, <2>6, <2>7, MoverEsPasoPS DEF TipoPubSub
<1> QED BY <1>2, <1>3 DEF PUBLISH

(* and hands the message to one after another: a client that still has to  *)
(* get it was told of the channel.                                         *)
LEMMA EntregarEsPasoPS ==
  ASSUME InvPS, Cuentas, NEW c \in Clientes, Entregar(c)
  PROVE  PasoPS(c)
<1>0. TipoPubSub /\ EnCanal(c) /\ EnMano(c) /\ Recibidos
  BY DEF InvPS, Cuentas
<1>1. ps[c] \in PsPublicar /\ ps[c].paso = "publicar" /\ ps[c].faltan # <<>>
  BY <1>0, EstadosPorPaso DEF Entregar, TipoPubSub, Estados
<1>2. PICK k, cs, s : k = ps[c].clave /\ cs = ps[c].faltan /\ s = Head(ps[c].faltan)
  OBVIOUS
<1>3. /\ k \in Claves /\ cs \in Seq(Clientes) /\ cs # <<>> /\ s = Head(cs)
      /\ ps[c].publicados \in Nat /\ Contadas(cs, k) /\ fase[c] = "libre"
  BY <1>0, <1>1, <1>2 DEF PsPublicar, EnMano, EnCanal, Ocioso
<1>4. s \in Clientes /\ Tail(cs) \in Seq(Clientes)
  BY <1>3
<1>5. UNCHANGED <<vars, abierto, altas, bajas>>
  BY DEF Entregar
<1>6. /\ altas \in [Clientes -> [Claves -> Nat]] /\ bajas \in [Clientes -> [Claves -> Nat]]
      /\ buzon \in [Clientes -> SUBSET Claves]
      /\ \A d \in Clientes, j \in Claves : altas[d][j] \in Nat
  BY <1>0 DEF TipoPubSub
<1>7. \A d \in Clientes, j \in Claves : altas[d][j] <= altas'[d][j]
  BY <1>5, <1>6
<1>8. Contadas(Tail(cs), k)'
  <2>1. PICK ds : ds = Tail(cs)
    OBVIOUS
  <2>2. ASSUME NEW d \in Clientes, abierto[d]
        PROVE  Veces(d, ds) <= altas[d][k]
    <3>1. Veces(d, ds) <= Veces(d, cs) /\ Veces(d, cs) \in Nat /\ Veces(d, ds) \in Nat
      BY <1>3, <1>4, <2>1, VecesContadas
    <3>2. Veces(d, cs) <= altas[d][k] /\ altas[d][k] \in Nat
      BY <1>3, <1>6, <2>2 DEF Contadas
    <3> QED BY <3>1, <3>2
  <2>3. Contadas(ds, k)'
    BY <1>5, <2>2 DEF Contadas
  <2> QED BY <1>2, <1>3, <2>1, <2>3 DEF Contadas
<1>9. /\ buzon' \in [Clientes -> SUBSET Claves]
      /\ UNCHANGED buzon \/ Recibidos'
  <2>1. CASE UNCHANGED buzon
    BY <1>6, <2>1
  <2>2. CASE abierto[s] /\ buzon' = [buzon EXCEPT ![s] = @ \cup {k}]
    <3>1. /\ buzon' \in [Clientes -> SUBSET Claves] /\ buzon'[s] = buzon[s] \cup {k}
          /\ \A d \in Clientes \ {s} : buzon'[d] = buzon[d]
      BY <1>3, <1>4, <1>6, <2>2
    <3>2. altas[s][k] > 0
      <4>1. Veces(s, cs) > 0 /\ Veces(s, cs) \in Nat
        BY <1>3, <1>4, VecesContadas
      <4>2. Veces(s, cs) <= altas[s][k] /\ altas[s][k] \in Nat
        BY <1>3, <1>4, <1>6, <2>2 DEF Contadas
      <4> QED BY <4>1, <4>2
    <3> QED BY <1>0, <1>5, <3>1, <3>2 DEF Recibidos
  <2> QED BY <1>2, <2>1, <2>2 DEF Entregar
<1>10. PICK n \in Nat, bs \in SUBSET Clientes, ds \in {cs, Tail(cs)} :
         ps' = [ps EXCEPT ![c] = Publica(k, ds, n, bs)]
  <2>1. ps[c].publicados \in Nat /\ ps[c].publicados + 1 \in Nat
    BY <1>3
  <2>2. {s} \in SUBSET Clientes /\ {} \in SUBSET Clientes
    BY <1>4
  <2>3. \/ ps' = [ps EXCEPT ![c] = Publica(k, Tail(cs), ps[c].publicados + 1, {})]
        \/ ps' = [ps EXCEPT ![c] = Publica(k, Tail(cs), ps[c].publicados, {})]
        \/ ps' = [ps EXCEPT ![c] = Publica(k, cs, ps[c].publicados, {s})]
    BY <1>2 DEF Entregar
  <2> QED BY <2>1, <2>2, <2>3
<1>11. PICK e : e = Publica(k, ds, n, bs)
  OBVIOUS
<1>12. e \in Estados /\ e.paso = "publicar" /\ e.faltan = ds /\ e.clave = k
  BY <1>3, <1>4, <1>10, <1>11 DEF Estados, PsPublicar, Publica
<1>13. Contadas(e.faltan, e.clave)'
  <2>1. Contadas(cs, k)'
    BY <1>3, <1>5 DEF Contadas
  <2> QED BY <1>8, <1>10, <1>12, <2>1 DEF Contadas
<1> QED BY <1>3, <1>5, <1>6, <1>7, <1>9, <1>10, <1>11, <1>12, <1>13, MoverEsPasoPS

-----------------------------------------------------------------------------
(* The invariant is inductive.                                             *)

(* Every step is of this kind,                                             *)
LEMMA PasoDeCanales ==
  ASSUME InvPS, Cuentas, SinCopias, NextPS
  PROVE  \E c \in Clientes : PasoPS(c)
<1>1. PICK c \in Clientes : \/ Recorrer(c) \/ CHANNELS(c) \/ Cerrar(c) \/ OtroComando(c)
                            \/ SeguirPS(c) \/ \E k \in Claves : PUBLISH(c, k)
  BY DEF NextPS
<1>2. CASE Recorrer(c) \/ CHANNELS(c) \/ Cerrar(c) \/ OtroComando(c)
  BY <1>2, RecorrerEsPasoPS, ChannelsEsPasoPS, CerrarEsPasoPS, OtroEsPasoPS
<1>3. CASE SeguirPS(c)
  BY <1>3, LeerCanalEsPasoPS, GuardarCanalEsPasoPS, FinesSonPasoPS, EntregarEsPasoPS
     DEF SeguirPS
<1>4. CASE \E k \in Claves : PUBLISH(c, k)
  BY <1>4, PublishEsPasoPS
<1> QED BY <1>1, <1>2, <1>3, <1>4

(* and keeps the invariant.                                                *)
LEMMA PasoPSConserva ==
  ASSUME InvPS, Cuentas, NEW c \in Clientes, PasoPS(c)
  PROVE  InvPS' /\ Cuentas'
<1>1. /\ Inv /\ TipoPubSub /\ TipoPubSub' /\ Crecen /\ EnCanal(c)' /\ EnMano(c)' /\ Recibidos'
      /\ \A d \in Clientes \ {c} : ps'[d] = ps[d]
      /\ \A k \in Claves : EsCanal(tabla'[k].valor) =>
           tabla'[k].valor = tabla[k].valor \/ Guardada(c, k)
  BY DEF InvPS, PasoPS
<1>2. /\ Inv'
      /\ \A d \in Clientes \ {c} : fase'[d] = fase[d] /\ pend'[d] = pend[d]
  <2>1. CASE Paso(c)
    BY <1>1, <2>1, PasoConserva DEF Paso
  <2>2. CASE UNCHANGED vars
    <3>1. TypeOK /\ \A d \in Clientes : EnCurso(d)
      BY <1>1 DEF Inv
    <3>2. TypeOK'
      BY <2>2, <3>1 DEF TypeOK, TipoCompartido, TipoLocal, vars, compartidas
    <3>3. \A d \in Clientes : EnCurso(d)'
      BY <2>2, <3>1 DEF EnCurso, vars
    <3> QED BY <2>2, <3>2, <3>3 DEF Inv, vars
  <2> QED BY <2>1, <2>2 DEF PasoPS
<1>3. \A d \in Clientes : EnCanal(d)'
  <2>1. ASSUME NEW d \in Clientes \ {c}
        PROVE  EnCanal(d)'
    <3>1. EnCanal(d) /\ ps'[d] = ps[d] /\ fase'[d] = fase[d] /\ pend'[d] = pend[d]
      BY <1>1, <1>2 DEF InvPS
    <3> QED BY <3>1 DEF EnCanal
  <2> QED BY <1>1, <2>1
<1>4. \A d \in Clientes : EnMano(d)'
  <2>1. ASSUME NEW d \in Clientes \ {c}
        PROVE  EnMano(d)'
    <3>1. EnMano(d) /\ ps'[d] = ps[d] /\ ps[d] \in Estados
      BY <1>1 DEF Cuentas, TipoPubSub, Estados
    <3>2. ps[d].paso = "guardar" => /\ ps[d].suscriptores \in Seq(Clientes)
                                    /\ Head(ps[d].faltan) \in Claves
      BY <3>1, EstadosPorPaso DEF PsGuardar
    <3>3. ps[d].paso = "publicar" => ps[d].faltan \in Seq(Clientes) /\ ps[d].clave \in Claves
      BY <3>1, EstadosPorPaso DEF PsPublicar
    <3>4. PICK e : e = ps[d]
      OBVIOUS
    <3>5. /\ e.paso = "guardar" => Contadas(e.suscriptores, Head(e.faltan))'
          /\ e.paso = "publicar" => Contadas(e.faltan, e.clave)'
      BY <1>1, <3>1, <3>2, <3>3, <3>4, ContadasCrecen DEF EnMano
    <3> QED BY <3>1, <3>4, <3>5 DEF EnMano
  <2> QED BY <1>1, <2>1
<1>5. ASSUME NEW k \in Claves
      PROVE  Contadas(Suscriptores(tabla[k].valor), k)'
  <2>0. /\ Contadas(Suscriptores(tabla[k].valor), k)
        /\ Suscriptores(tabla[k].valor) \in Seq(Clientes)
    BY ListaLeida DEF Cuentas
  <2>1. PICK v : v = tabla'[k].valor
    OBVIOUS
  <2>2. CASE ~EsCanal(v)
    <3>1. Suscriptores(v) = <<>>
      BY <2>2 DEF Suscriptores
    <3>2. \A d \in Clientes : altas'[d][k] \in Nat /\ Veces(d, <<>>) = 0
      <4>1. <<>> \in Seq(Clientes)
        OBVIOUS
      <4>2. \A d \in Clientes : Veces(d, <<>>) = 0
        BY <4>1, VecesContadas
      <4>3. \A d \in Clientes : altas'[d][k] \in Nat
        BY <1>1 DEF TipoPubSub
      <4> QED BY <4>2, <4>3
    <3> QED BY <2>1, <3>1, <3>2 DEF Contadas
  <2>3. CASE v = tabla[k].valor
    <3>1. PICK cs \in Seq(Clientes) : cs = Suscriptores(v)
      BY <2>0, <2>3
    <3>2. Contadas(cs, k)'
      BY <1>1, <2>0, <2>3, <3>1, ContadasCrecen
    <3> QED BY <2>1, <3>1, <3>2 DEF Contadas
  <2>4. CASE Guardada(c, k)
    <3>1. /\ ps[c].paso = "guardar" /\ k = Head(ps[c].faltan) /\ ps[c] \in Estados
          /\ EnMano(c)
      BY <1>1, <2>4 DEF Guardada, Cuentas, TipoPubSub, Estados
    <3>2. PICK cs \in Seq(Clientes) : cs = ps[c].suscriptores
      BY <3>1, EstadosPorPaso DEF PsGuardar
    <3>3. Contadas(cs, k)'
      BY <1>1, <3>1, <3>2, ContadasCrecen DEF EnMano
    <3>4. Suscriptores(v) = cs
      BY <2>1, <2>4, <3>2 DEF Guardada, Suscriptores, EsCanal, Canal
    <3> QED BY <2>1, <3>3, <3>4 DEF Contadas
  <2> QED BY <1>1, <2>1, <2>2, <2>3, <2>4
<1> QED BY <1>1, <1>2, <1>3, <1>4, <1>5 DEF InvPS, Cuentas

(* At the start there are no channels,                                     *)
LEMMA InvPSInicial ==
  ASSUME SinCanalesAlInicio, InitPS
  PROVE  InvPS /\ Cuentas
<1>1. Inv
  BY InvInicial DEF InitPS
<1>2. TipoPubSub
  BY DEF InitPS, TipoPubSub
<1>3. \A c \in Clientes : ps[c] = Ocioso /\ fase[c] = "libre"
  BY DEF InitPS, Init
<1>4. \A c \in Clientes : EnCanal(c) /\ EnMano(c)
  BY <1>3 DEF EnCanal, EnMano, Ocioso
<1>5. Recibidos
  BY DEF InitPS, Recibidos
<1>6. ASSUME NEW k \in Claves
      PROVE  Contadas(Suscriptores(tabla[k].valor), k)
  <2>1. Suscriptores(tabla[k].valor) = <<>>
    BY DEF InitPS, Init, SinCanalesAlInicio, Suscriptores
  <2>2. <<>> \in Seq(Clientes)
    OBVIOUS
  <2>3. \A d \in Clientes : Veces(d, <<>>) = 0
    BY <2>2, VecesContadas
  <2>4. \A d \in Clientes : altas[d][k] \in Nat
    BY <1>2 DEF TipoPubSub
  <2> QED BY <2>1, <2>3, <2>4 DEF Contadas
<1> QED BY <1>1, <1>2, <1>4, <1>5, <1>6 DEF InvPS, Cuentas

(* and every step, or none, keeps the counts.                              *)
LEMMA CuentasInductivas ==
  ASSUME InvPS, Cuentas, SinCopias, [NextPS]_varsPS
  PROVE  InvPS' /\ Cuentas'
<1>1. CASE NextPS
  BY <1>1, PasoDeCanales, PasoPSConserva
<1>2. CASE UNCHANGED varsPS
  <2>1. UNCHANGED vars /\ UNCHANGED <<ps, abierto, altas, bajas, buzon>>
    BY <1>2 DEF varsPS
  <2>2. Inv'
    <3>1. TypeOK /\ \A d \in Clientes : EnCurso(d)
      BY DEF InvPS, Inv
    <3>2. TypeOK'
      BY <2>1, <3>1 DEF TypeOK, TipoCompartido, TipoLocal, vars, compartidas
    <3>3. \A d \in Clientes : EnCurso(d)'
      BY <2>1, <3>1 DEF EnCurso, vars
    <3> QED BY <3>2, <3>3 DEF Inv
  <2>3. TipoPubSub' /\ \A c \in Clientes : EnCanal(c)'
    BY <2>1 DEF InvPS, TipoPubSub, EnCanal, vars
  <2>4. Cuentas'
    BY <2>1 DEF Cuentas, Contadas, EnMano, Recibidos, vars
  <2> QED BY <2>2, <2>3, <2>4 DEF InvPS
<1> QED BY <1>1, <1>2

(* Unless a channel is copied to another key, no interleaving of subscribe *)
(* and unsubscribe with each other and with the other commands leaves a    *)
(* client on a list more often than it was told so, or sends it a message  *)
(* of a channel it was not told of.                                        *)
THEOREM NuncaNadieDeMas ==
  ASSUME SinCopias, SinCanalesAlInicio
  PROVE  SpecPS => []NadieDeMas
<1>1. InitPS => InvPS /\ Cuentas
  BY SinCanalesAlInicio, InvPSInicial
<1>2. (InvPS /\ Cuentas) /\ [NextPS]_varsPS => (InvPS /\ Cuentas)'
  BY SinCopias, CuentasInductivas
<1>3. InvPS /\ Cuentas => NadieDeMas
  BY CuentasSonNadieDeMas
<1> QED BY <1>1, <1>2, <1>3, PTL DEF SpecPS

-----------------------------------------------------------------------------
(* The channels that only one client uses.                                 *)

(* A client with channels of its own only issues commands on channels.     *)
DeCanales == Recorridos \cup {"PUBLISH", "CHANNELS"}
Dedicados == \A c \in Clientes : SoloDe(c) # {} => Comandos[c] \subseteq DeCanales

EnTabla(k) == Suscriptores(tabla[k].valor)
Carga(c, k) == ps[c].paso = "guardar" /\ Head(ps[c].faltan) = k
Neto(c, k, cs) == altas[c][k] - bajas[c][k] - Veces(c, cs)

(* What c was told of k agrees with the list that it carries, or else with *)
(* the one in the table.  The two differ by the notice in between, which a *)
(* poisoned mutex leaves there for good.  A channel never expires.         *)
AlDia(c, k) ==
  /\ fase[c] = "libre"
  /\ EsCanal(tabla[k].valor) => tabla[k].vida = SinVida
  /\ abierto[c] =>
       /\ Neto(c, k, EnTabla(k)) \in -1 .. 1
       /\ Carga(c, k) => Neto(c, k, ps[c].suscriptores) = 0
       /\ ~Carga(c, k) /\ ~envenenado => Neto(c, k, EnTabla(k)) = 0

TodosAlDia == \A c \in Clientes : \A k \in SoloDe(c) : AlDia(c, k)

(* This is the property.                                                   *)
LEMMA AlDiaEsSuscripciones == TodosAlDia => SuscripcionesAlDia
<1> SUFFICES ASSUME TodosAlDia, NEW c \in Clientes, abierto[c], NEW k \in SoloDe(c)
             PROVE  LET neto == altas[c][k] - bajas[c][k] - Veces(c, ListaDe(c, k))
                    IN  IF envenenado THEN neto \in -1 .. 1 ELSE neto = 0
  BY DEF SuscripcionesAlDia
<1>1. AlDia(c, k)
  BY DEF TodosAlDia
<1>2. CASE Carga(c, k)
  BY <1>1, <1>2 DEF AlDia, Carga, Neto, ListaDe
<1>3. CASE ~Carga(c, k)
  BY <1>1, <1>3 DEF AlDia, Carga, Neto, ListaDe, EnTabla
<1> QED BY <1>2, <1>3

(* Such a client never runs a command of another handler.                  *)
LEMMA SinOtros ==
  ASSUME NEW c \in Clientes, Comandos[c] \subseteq DeCanales, fase[c] = "libre"
  PROVE  ~OtroComando(c)
<1> USE DEF DeCanales, Recorridos, Pide
<1>1. ~ComandoString(c)
  BY DEF ComandoString, GET, SET, GETSET, APPEND, STRLEN, GETDEL, INCRBY, DECRBY, MSET
<1>2. ~ComandoList(c)
  BY DEF ComandoList, LINDEX, LLEN, LPOP, RPOP, LPUSH, LPUSHX, RPUSH, RPUSHX, LRANGE, LREM, LSET
<1>3. ~ComandoSet(c)
  BY DEF ComandoSet, SADD, SREM, SCARD, SISMEMBER, SMEMBERS
<1>4. ~ComandoKey(c)
  BY DEF ComandoKey, TYPE, EXPIRE, EXPIREAT, PERSIST, TTL, COPY, RENAME, TOUCH, KEYS, Multiple
<1>5. ~ComandoServer(c)
  BY DEF ComandoServer, FLUSHDB, DBSIZE
<1>6. ~Continuar(c)
  BY DEF Continuar, Escribir, RenameBorrar, ExpireAtFijar, MultiplePaso, MultipleFin
<1> QED BY <1>1, <1>2, <1>3, <1>4, <1>5, <1>6 DEF OtroComando

(* A step that gives c no notice of k, leaves the key alone and does not   *)
(* take c in or out of the gap between its sections keeps what was so.     *)
LEMMA AlDiaQuieto ==
  ASSUME NEW c \in Clientes, NEW k \in Claves, AlDia(c, k), fase'[c] = "libre",
         tabla'[k] = tabla[k], altas'[c][k] = altas[c][k], bajas'[c][k] = bajas[c][k],
         abierto'[c] => abierto[c], envenenado => envenenado',
         \/ ps'[c] = ps[c]
         \/ ~Carga(c, k) /\ ps'[c].paso # "guardar"
         \/ envenenado /\ ps'[c].paso # "guardar"
  PROVE  AlDia(c, k)'
<1>1. EnTabla(k)' = EnTabla(k)
  BY DEF EnTabla
<1>2. Neto(c, k, EnTabla(k))' = Neto(c, k, EnTabla(k))
  BY <1>1 DEF Neto
<1>3. Carga(c, k)' => ps'[c] = ps[c]
  BY DEF Carga
<1>4. ps'[c] = ps[c] => /\ Carga(c, k)' = Carga(c, k)
                        /\ Neto(c, k, ps[c].suscriptores)' = Neto(c, k, ps[c].suscriptores)
  BY DEF Carga, Neto
<1>5. (EsCanal(tabla[k].valor) => tabla[k].vida = SinVida)'
  BY DEF AlDia
<1>6. ASSUME abierto'[c]
      PROVE  /\ Neto(c, k, EnTabla(k))' \in -1 .. 1
             /\ Carga(c, k)' => Neto(c, k, ps[c].suscriptores)' = 0
             /\ ~Carga(c, k)' /\ ~envenenado' => Neto(c, k, EnTabla(k))' = 0
  <2>1. /\ Neto(c, k, EnTabla(k)) \in -1 .. 1
        /\ Carga(c, k) => Neto(c, k, ps[c].suscriptores) = 0
        /\ ~Carga(c, k) /\ ~envenenado => Neto(c, k, EnTabla(k)) = 0
    BY <1>6 DEF AlDia
  <2> QED BY <1>2, <1>3, <1>4, <2>1
<1> QED BY <1>5, <1>6 DEF AlDia

(* Notices are only sent to the client whose command it is.                *)
LEMMA AvisosPropios ==
  ASSUME TipoPubSub, NEW d \in Clientes, NEW c \in Clientes \ {d},
         \/ Recorrer(d) \/ CHANNELS(d) \/ Cerrar(d) \/ OtroComando(d)
         \/ SeguirPS(d) \/ \E k \in Claves : PUBLISH(d, k)
  PROVE  altas'[c] = altas[c] /\ bajas'[c] = bajas[c]
<1>1. CASE Recorrer(d) \/ CHANNELS(d) \/ Cerrar(d) \/ OtroComando(d)
  BY <1>1 DEF Recorrer, CHANNELS, Cerrar, OtroComando, avisos
<1>2. CASE \/ GuardarCanal(d) \/ FinRecorrer(d) \/ Entregar(d) \/ FinPublicar(d)
           \/ \E k \in Claves : PUBLISH(d, k)
  BY <1>2 DEF GuardarCanal, FinRecorrer, Entregar, FinPublicar, PUBLISH, Terminar
<1>3. CASE LeerCanal(d)
  <2>1. \/ UNCHANGED <<altas, bajas>>
        \/ UNCHANGED bajas /\ \E k, cs : Suscribirse(d, k, cs)
        \/ UNCHANGED altas /\ \E k, cs : Desuscribirse(d, k, cs)
    BY <1>3 DEF LeerCanal, Terminar
  <2>2. ASSUME NEW k, NEW cs, Suscribirse(d, k, cs)
        PROVE  altas'[c] = altas[c]
    BY <2>2 DEF Suscribirse, TipoPubSub
  <2>3. ASSUME NEW k, NEW cs, Desuscribirse(d, k, cs)
        PROVE  bajas'[c] = bajas[c]
    BY <2>3 DEF Desuscribirse, TipoPubSub
  <2> QED BY <2>1, <2>2, <2>3
<1> QED BY <1>1, <1>2, <1>3 DEF SeguirPS

(* suscribirse and desuscribirse tell the client what they do to the list  *)
(* of the channel j: cs becomes ds, with x more of c.                      *)
Aviso(c, j, cs, ds, x) ==
  /\ ps' = [ps EXCEPT ![c] = Guarda(ps[c].op, ps[c].faltan, ds)]
  /\ Veces(c, ds) = Veces(c, cs) + x
  /\ altas'[c][j] - bajas'[c][j] = altas[c][j] - bajas[c][j] + x
  /\ \A i \in Claves \ {j} : altas'[c][i] = altas[c][i] /\ bajas'[c][i] = bajas[c][i]

(* An open client is told exactly.                                         *)
LEMMA AvisoExacto ==
  ASSUME TipoPubSub, NEW c \in Clientes, NEW j \in Claves, NEW cs \in Seq(Clientes),
         abierto[c],
         \/ Suscribirse(c, j, cs) /\ UNCHANGED bajas
         \/ Desuscribirse(c, j, cs) /\ UNCHANGED altas
  PROVE  \E ds \in Seq(Clientes), x \in -1 .. 1 : Aviso(c, j, cs, ds, x)
<1>0. /\ altas \in [Clientes -> [Claves -> Nat]] /\ bajas \in [Clientes -> [Claves -> Nat]]
      /\ altas[c][j] \in Nat /\ bajas[c][j] \in Nat
  BY DEF TipoPubSub
<1>1. CASE Suscribirse(c, j, cs) /\ UNCHANGED bajas
  <2>1. /\ altas' = [altas EXCEPT ![c][j] = @ + 1]
        /\ ps' = [ps EXCEPT ![c] = Guarda(@.op, @.faltan, Append(cs, c))]
    BY <1>1 DEF Suscribirse
  <2>2. /\ altas'[c][j] = altas[c][j] + 1
        /\ \A i \in Claves \ {j} : altas'[c][i] = altas[c][i]
    BY <1>0, <2>1, AvisoTipado
  <2>3. PICK ds \in Seq(Clientes) : ds = Append(cs, c)
    BY VecesContadas
  <2>4. Veces(c, ds) = Veces(c, cs) + 1
    BY <2>3, VecesContadas
  <2>5. altas'[c][j] - bajas'[c][j] = altas[c][j] - bajas[c][j] + 1
    BY <1>0, <1>1, <2>2
  <2>6. ps' = [ps EXCEPT ![c] = Guarda(ps[c].op, ps[c].faltan, ds)]
    BY <2>1, <2>3
  <2>7. Aviso(c, j, cs, ds, 1)
    BY <1>1, <2>2, <2>4, <2>5, <2>6 DEF Aviso
  <2> QED BY <2>7
<1>2. CASE Desuscribirse(c, j, cs) /\ UNCHANGED altas
  <2>1. CASE Veces(c, cs) = 0
    <3>1. Veces(c, cs) \in Nat /\ ~(Veces(c, cs) > 0)
      BY <2>1
    <3>2. ps' = [ps EXCEPT ![c] = Guarda(ps[c].op, ps[c].faltan, cs)] /\ UNCHANGED bajas
      BY <1>2, <3>1 DEF Desuscribirse
    <3>3. Veces(c, cs) = Veces(c, cs) + 0
      BY <3>1
    <3>4. altas'[c][j] - bajas'[c][j] = altas[c][j] - bajas[c][j] + 0
      BY <1>0, <1>2, <3>2
    <3>5. Aviso(c, j, cs, cs, 0)
      BY <1>2, <3>2, <3>3, <3>4 DEF Aviso
    <3> QED BY <3>5
  <2>2. CASE Veces(c, cs) # 0
    <3>0. PICK i : i = CHOOSE h \in DOMAIN cs : cs[h] = c /\ \A g \in 1 .. h - 1 : cs[g] # c
      OBVIOUS
    <3>1. i \in 1 .. Len(cs) /\ cs[i] = c
      BY <2>2, <3>0, PrimeraVez
    <3>2. /\ ps' = [ps EXCEPT ![c] = Guarda(@.op, @.faltan, RemoveAt(cs, i))]
          /\ bajas' = [bajas EXCEPT ![c][j] = @ + 1]
      BY <1>2, <2>2, <3>0 DEF Desuscribirse
    <3>3. PICK ds \in Seq(Clientes) : ds = RemoveAt(cs, i)
      BY <3>1, VecesContadas
    <3>4. Veces(c, ds) = Veces(c, cs) + (-1)
      <4>1. Veces(c, ds) = Veces(c, cs) - 1 /\ Veces(c, cs) \in Nat
        BY <3>1, <3>3, VecesContadas
      <4> QED BY <4>1
    <3>5. /\ bajas'[c][j] = bajas[c][j] + 1
          /\ \A h \in Claves \ {j} : bajas'[c][h] = bajas[c][h]
      BY <1>0, <3>2, AvisoTipado
    <3>6. altas'[c][j] - bajas'[c][j] = altas[c][j] - bajas[c][j] + (-1)
      BY <1>0, <1>2, <3>5
    <3>7. ps' = [ps EXCEPT ![c] = Guarda(ps[c].op, ps[c].faltan, ds)]
      BY <3>2, <3>3
    <3>8. Aviso(c, j, cs, ds, -1)
      BY <1>2, <3>4, <3>5, <3>6, <3>7 DEF Aviso
    <3> QED BY <3>8
  <2> QED BY <2>1, <2>2
<1> QED BY <1>1, <1>2

(* The list that c reads of a channel of its own is the one in the table.  *)
LEMMA LeidoAlDia ==
  ASSUME InvPS, NEW c \in Clientes, NEW k \in Claves, AlDia(c, k)
  PROVE  Suscriptores(Leido(k)) = EnTabla(k)
<1>1. Leido(k) = IF Expiro(tabla[k], ahora) THEN Nada ELSE tabla[k].valor
  BY DEF Leido, ObtenerValor, Get
<1>2. EsCanal(tabla[k].valor) => Leido(k) = tabla[k].valor
  BY <1>1 DEF AlDia, Expiro
<1>3. ~EsCanal(Nada)
  BY DEF EsCanal, Nada
<1> QED BY <1>1, <1>2, <1>3 DEF EnTabla, Suscriptores

(* The first section of c: it now carries a list that agrees with what it  *)
(* was told.                                                               *)
LEMMA LeerCanalAlDia ==
  ASSUME InvPS, NEW c \in Clientes, NEW k \in Claves, AlDia(c, k), LeerCanal(c)
  PROVE  AlDia(c, k)'
<1>0. /\ TipoPubSub /\ ps \in [Clientes -> Estados]
      /\ fase \in [Clientes -> Fases] /\ fase[c] = "libre"
  BY DEF InvPS, TipoPubSub, Estados, Inv, TypeOK, TipoLocal, AlDia
<1>1. ps[c] \in PsRecorrer /\ ps[c].paso = "recorrer" /\ ~Carga(c, k)
  BY <1>0, EstadosPorPaso DEF LeerCanal, Carga
<1>2. PICK j, v, cs : j = Head(ps[c].faltan) /\ v = Leido(j) /\ cs = Suscriptores(v)
  OBVIOUS
<1>3. /\ tabla' = tabla /\ envenenado' = envenenado /\ abierto' = abierto
  BY DEF LeerCanal, compartidas
<1>4. \/ Terminar(c, ErrBdd) \/ Terminar(c, WrongType)
      \/ /\ UNCHANGED <<fase, altas, bajas>>
         /\ ps' = [ps EXCEPT ![c] = Recorre(@.op, Tail(@.faltan),
                                            Append(@.largos, Entero(Len(v.suscriptores))))]
      \/ /\ ~envenenado /\ UNCHANGED fase
         /\ \/ Suscribirse(c, j, cs) /\ UNCHANGED bajas
            \/ Desuscribirse(c, j, cs) /\ UNCHANGED altas
  BY <1>2 DEF LeerCanal
<1>5. CASE Terminar(c, ErrBdd) \/ Terminar(c, WrongType)
  <2>1. /\ fase'[c] = "libre" /\ ps'[c] = Ocioso /\ altas' = altas /\ bajas' = bajas
    BY <1>0, <1>5 DEF Terminar, Responder, Pasar
  <2>2. ps'[c].paso # "guardar"
    BY <2>1 DEF Ocioso
  <2> QED BY <1>1, <1>3, <2>1, <2>2, AlDiaQuieto
<1>6. CASE /\ UNCHANGED <<fase, altas, bajas>>
           /\ ps' = [ps EXCEPT ![c] = Recorre(@.op, Tail(@.faltan),
                                            Append(@.largos, Entero(Len(v.suscriptores))))]
  <2>1. ps'[c].paso # "guardar"
    BY <1>0, <1>6 DEF Recorre
  <2> QED BY <1>0, <1>1, <1>3, <1>6, <2>1, AlDiaQuieto
<1>7. CASE /\ ~envenenado /\ UNCHANGED fase
           /\ \/ Suscribirse(c, j, cs) /\ UNCHANGED bajas
              \/ Desuscribirse(c, j, cs) /\ UNCHANGED altas
  <2>0. (EsCanal(tabla[k].valor) => tabla[k].vida = SinVida)' /\ fase'[c] = "libre"
    BY <1>0, <1>3, <1>7 DEF AlDia
  <2>1. CASE ~abierto[c]
    BY <1>3, <2>0, <2>1 DEF AlDia
  <2>2. CASE abierto[c]
    <3>1. j \in Claves /\ cs \in Seq(Clientes)
      <4>1. j \in Claves
        BY <1>1, <1>2 DEF LeerCanal, PsRecorrer
      <4> QED BY <1>2, <4>1, ListaLeida
    <3>2. PICK ds \in Seq(Clientes), x \in -1 .. 1 : Aviso(c, j, cs, ds, x)
      BY <1>0, <1>7, <2>2, <3>1, AvisoExacto
    <3>3. /\ ps'[c].paso = "guardar" /\ Head(ps'[c].faltan) = j
          /\ ps'[c].suscriptores = ds
      BY <1>0, <1>2, <3>2 DEF Aviso, Guarda
    <3>4. PICK ts : ts = EnTabla(k)
      OBVIOUS
    <3>5. EnTabla(k)' = ts
      BY <1>3, <3>4 DEF EnTabla
    <3>6. altas[c][k] - bajas[c][k] - Veces(c, ts) = 0
      BY <1>1, <1>7, <2>2, <3>4 DEF AlDia, Neto
    <3>7. /\ altas[c][k] \in Nat /\ bajas[c][k] \in Nat
          /\ Veces(c, ts) \in Nat
      <4>1. ts \in Seq(Clientes)
        BY <3>4, ListaLeida DEF EnTabla
      <4> QED BY <1>0, <4>1, VecesContadas DEF TipoPubSub
    <3>8. CASE k = j
      <4>1. ts = cs
        BY <1>2, <3>4, <3>8, LeidoAlDia
      <4>2. /\ Veces(c, ds) = Veces(c, ts) + x
            /\ altas'[c][k] - bajas'[c][k] = altas[c][k] - bajas[c][k] + x
        BY <3>2, <3>8, <4>1 DEF Aviso
      <4>3. /\ altas'[c][k] - bajas'[c][k] - Veces(c, ts) \in -1 .. 1
            /\ altas'[c][k] - bajas'[c][k] - Veces(c, ds) = 0
        BY <3>6, <3>7, <4>2
      <4>4. /\ Carga(c, k)' /\ Neto(c, k, ps[c].suscriptores)' = 0
            /\ Neto(c, k, EnTabla(k))' \in -1 .. 1
        BY <3>3, <3>5, <3>8, <4>3 DEF Carga, Neto
      <4> QED BY <2>0, <4>4 DEF AlDia
    <3>9. CASE k # j
      <4>1. ~Carga(c, k)'
        BY <3>3, <3>9 DEF Carga
      <4>2. altas'[c][k] - bajas'[c][k] - Veces(c, ts) = 0
        BY <3>2, <3>6, <3>9 DEF Aviso
      <4>3. Neto(c, k, EnTabla(k))' = 0
        BY <3>5, <4>2 DEF Neto
      <4> QED BY <2>0, <4>1, <4>3 DEF AlDia
    <3> QED BY <3>8, <3>9
  <2> QED BY <2>1, <2>2
<1> QED BY <1>4, <1>5, <1>6, <1>7

(* The second: the table gets the list that c carries.                     *)
LEMMA GuardarCanalAlDia ==
  ASSUME InvPS, NEW c \in Clientes, NEW k \in Claves, AlDia(c, k), GuardarCanal(c)
  PROVE  AlDia(c, k)'
<1>0. /\ TipoPubSub /\ ps \in [Clientes -> Estados] /\ tabla \in Tablas
      /\ fase \in [Clientes -> Fases] /\ fase[c] = "libre"
  BY DEF InvPS, TipoPubSub, Estados, Inv, TypeOK, TipoLocal, TipoCompartido, AlDia
<1>1. PICK j, cs : j = Head(ps[c].faltan) /\ cs = ps[c].suscriptores
  OBVIOUS
<1>2. /\ envenenado' = envenenado /\ abierto' = abierto /\ altas' = altas /\ bajas' = bajas
      /\ ps[c].paso = "guardar" /\ (Carga(c, k) <=> k = j)
  BY <1>1 DEF GuardarCanal, Terminar, Carga
<1>3. CASE envenenado /\ Terminar(c, ErrBdd) /\ UNCHANGED <<tabla, enviado>>
  <2>1. fase'[c] = "libre" /\ ps'[c] = Ocioso
    BY <1>0, <1>3 DEF Terminar, Responder, Pasar
  <2>2. ps'[c].paso # "guardar"
    BY <2>1 DEF Ocioso
  <2> QED BY <1>2, <1>3, <2>1, <2>2, AlDiaQuieto
<1>4. CASE /\ ~envenenado /\ UNCHANGED fase
           /\ tabla' = GuardarValor(tabla, j, Canal(cs))
           /\ ps' = [ps EXCEPT ![c] = Recorre(@.op, Tail(@.faltan), <<>>)]
  <2>1. ps'[c].paso # "guardar" /\ fase'[c] = "libre"
    BY <1>0, <1>4 DEF Recorre
  <2>2. CASE k # j
    <3>1. tabla'[k] = tabla[k]
      BY <1>0, <1>4, <2>2 DEF Tablas, GuardarValor
    <3> QED BY <1>2, <2>1, <2>2, <3>1, AlDiaQuieto
  <2>3. CASE k = j
    <3>1. tabla'[k] = NoExpirable(Canal(cs))
      BY <1>0, <1>4, <2>3 DEF Tablas, GuardarValor
    <3>2. EnTabla(k)' = cs /\ tabla'[k].vida = SinVida
      BY <3>1 DEF EnTabla, Suscriptores, EsCanal, Canal, NoExpirable
    <3>3. ~Carga(c, k)'
      BY <2>1 DEF Carga
    <3>4. abierto[c] => Neto(c, k, EnTabla(k))' = 0
      BY <1>1, <1>2, <2>3, <3>2 DEF AlDia, Neto
    <3> QED BY <1>2, <2>1, <3>2, <3>3, <3>4 DEF AlDia
  <2> QED BY <2>2, <2>3
<1> QED BY <1>1, <1>3, <1>4 DEF GuardarCanal

(* The other steps of c: none of them writes its list.                     *)
LEMMA PropioAlDia ==
  ASSUME InvPS, NEW c \in Clientes, NEW k \in Claves, AlDia(c, k),
         Comandos[c] \subseteq DeCanales,
         \/ Recorrer(c) \/ CHANNELS(c) \/ Cerrar(c) \/ OtroComando(c)
         \/ SeguirPS(c) \/ \E j \in Claves : PUBLISH(c, j)
  PROVE  AlDia(c, k)'
<1>0. /\ TipoPubSub /\ ps \in [Clientes -> Estados]
      /\ fase \in [Clientes -> Fases] /\ fase[c] = "libre"
      /\ abierto \in [Clientes -> BOOLEAN]
  BY DEF InvPS, TipoPubSub, Estados, Inv, TypeOK, TipoLocal, AlDia
<1>1. CASE LeerCanal(c) \/ GuardarCanal(c)
  BY <1>1, LeerCanalAlDia, GuardarCanalAlDia
<1>2. CASE Cerrar(c)
  <2>1. abierto'[c] => abierto[c]
    BY <1>0, <1>2, Zenon DEF Cerrar
  <2> QED BY <1>0, <1>2, <2>1, AlDiaQuieto DEF Cerrar, vars, avisos
<1>3. ASSUME /\ ps[c].paso # "guardar" /\ ps'[c].paso # "guardar" /\ fase'[c] = "libre"
             /\ UNCHANGED <<tabla, envenenado, abierto, altas, bajas>>
      PROVE  AlDia(c, k)'
  <2>1. ~Carga(c, k)
    BY <1>3 DEF Carga
  <2> QED BY <1>3, <2>1, AlDiaQuieto
<1>4. CASE Recorrer(c) \/ Entregar(c)
  BY <1>0, <1>3, <1>4 DEF Recorrer, Entregar, Recorre, Publica, Ocioso, vars, avisos
<1>5. CASE CHANNELS(c)
  <2>1. UNCHANGED <<tabla, envenenado>> /\ \E r : Responder(c, r)
    BY <1>5 DEF CHANNELS, Seccion
  <2>2. fase'[c] = "libre"
    BY <1>0, <2>1 DEF Responder, Pasar
  <2> QED BY <1>3, <1>5, <2>1, <2>2 DEF CHANNELS, Ocioso, avisos
<1>6. CASE FinRecorrer(c) \/ FinPublicar(c) \/ \E j \in Claves : PUBLISH(c, j)
  <2>1. /\ ps[c].paso # "guardar" /\ UNCHANGED <<tabla, envenenado, abierto>>
        /\ \/ \E r : Terminar(c, r)
           \/ /\ UNCHANGED <<fase, altas, bajas>>
              /\ \E j, cs : ps' = [ps EXCEPT ![c] = Publica(j, cs, 0, {})]
    <3>1. CASE FinRecorrer(c)
      BY <3>1 DEF FinRecorrer, compartidas
    <3>2. CASE FinPublicar(c)
      BY <3>2 DEF FinPublicar, compartidas
    <3>3. ASSUME NEW j \in Claves, PUBLISH(c, j)
          PROVE  /\ ps[c] = Ocioso /\ UNCHANGED <<tabla, envenenado, abierto>>
                 /\ \/ Terminar(c, ErrBdd) \/ Terminar(c, WrongType)
                    \/ /\ UNCHANGED <<fase, altas, bajas>>
                       /\ ps' = [ps EXCEPT ![c] = Publica(j, Leido(j).suscriptores, 0, {})]
      BY <3>3 DEF PUBLISH, compartidas
    <3>4. Ocioso.paso # "guardar"
      BY DEF Ocioso
    <3> QED BY <1>6, <3>1, <3>2, <3>3, <3>4
  <2>2. ASSUME NEW r, Terminar(c, r)
        PROVE  fase'[c] = "libre" /\ ps'[c].paso # "guardar" /\ UNCHANGED <<altas, bajas>>
    BY <1>0, <2>2 DEF Terminar, Responder, Pasar, Ocioso
  <2>3. ASSUME NEW j, NEW cs, ps' = [ps EXCEPT ![c] = Publica(j, cs, 0, {})]
        PROVE  ps'[c].paso # "guardar"
    BY <1>0, <2>3 DEF Publica
  <2> QED BY <1>0, <1>3, <2>1, <2>2, <2>3
<1>7. ~OtroComando(c)
  BY <1>0, SinOtros
<1> QED BY <1>1, <1>2, <1>4, <1>5, <1>6, <1>7 DEF SeguirPS

(* Steps of the other clients leave the key, the notices and the place of  *)
(* c alone; those of c agree with what it is told.                         *)
LEMMA AlDiaInductivo ==
  ASSUME InvPS, Cuentas, SinCopias, Dedicados, TodosAlDia, [NextPS]_varsPS
  PROVE  TodosAlDia'
<1> SUFFICES ASSUME NEW c \in Clientes, NEW k \in SoloDe(c)
             PROVE  AlDia(c, k)'
  BY DEF TodosAlDia, SoloDe
<1>0. /\ AlDia(c, k) /\ TipoPubSub /\ Comandos[c] \subseteq DeCanales /\ k \in Claves
      /\ \A d \in Clientes \ {c} : k \notin Permitidas[d]
  BY HilosAssumption DEF InvPS, TodosAlDia, Dedicados, SoloDe
<1>1. CASE NextPS
  <2>1. PICK d \in Clientes : \/ Recorrer(d) \/ CHANNELS(d) \/ Cerrar(d) \/ OtroComando(d)
                              \/ SeguirPS(d) \/ \E j \in Claves : PUBLISH(d, j)
    BY <1>1 DEF NextPS
  <2>2. CASE d = c
    BY <1>0, <2>1, <2>2, PropioAlDia
  <2>3. CASE d # c
    <3>1. PasoPS(d)
      BY <2>1, RecorrerEsPasoPS, ChannelsEsPasoPS, CerrarEsPasoPS, OtroEsPasoPS,
         LeerCanalEsPasoPS, GuardarCanalEsPasoPS, FinesSonPasoPS, EntregarEsPasoPS,
         PublishEsPasoPS DEF SeguirPS
    <3>2. altas'[c] = altas[c] /\ bajas'[c] = bajas[c]
      BY <1>0, <2>1, <2>3, AvisosPropios
    <3>3. ps'[c] = ps[c] /\ (abierto'[c] => abierto[c])
      BY <2>3, <3>1 DEF PasoPS, Crecen
    <3>4. /\ fase'[c] = fase[c] /\ tabla'[k] = tabla[k] /\ (envenenado => envenenado')
      <4>1. CASE Paso(d)
        BY <1>0, <2>3, <4>1 DEF Paso
      <4>2. CASE UNCHANGED vars
        BY <4>2 DEF vars
      <4> QED BY <3>1, <4>1, <4>2 DEF PasoPS
    <3>5. fase'[c] = "libre"
      BY <1>0, <3>4 DEF AlDia
    <3> QED BY <1>0, <3>2, <3>3, <3>4, <3>5, AlDiaQuieto
  <2> QED BY <2>2, <2>3
<1>2. CASE UNCHANGED varsPS
  <2>1. fase' = fase /\ tabla' = tabla /\ envenenado' = envenenado /\ ps' = ps
        /\ abierto' = abierto /\ altas' = altas /\ bajas' = bajas
    BY <1>2 DEF varsPS, vars
  <2>2. fase'[c] = "libre"
    BY <1>0, <2>1 DEF AlDia
  <2> QED BY <1>0, <2>1, <2>2, AlDiaQuieto
<1> QED BY <1>1, <1>2

(* Of a channel that no other client uses, the list in the table, or the   *)
(* copy between the two sections, has the client as often as it was told,  *)
(* and a mutex poisoned in between costs one notice at most.  Clients that *)
(* share other channels, publish or use other keys make no difference.     *)
THEOREM SiempreAlDia ==
  ASSUME SinCopias, SinCanalesAlInicio, Dedicados
  PROVE  SpecPS => []SuscripcionesAlDia
<1>1. InitPS => InvPS /\ Cuentas /\ TodosAlDia
  <2> SUFFICES ASSUME InitPS PROVE InvPS /\ Cuentas /\ TodosAlDia
    OBVIOUS
  <2>1. InvPS /\ Cuentas
    BY SinCanalesAlInicio, InvPSInicial
  <2>2. ASSUME NEW c \in Clientes, NEW k \in Claves
        PROVE  AlDia(c, k)
    <3>1. /\ fase[c] = "libre" /\ ~EsCanal(tabla[k].valor) /\ ps[c].paso = "nada"
      BY SinCanalesAlInicio DEF InitPS, Init, SinCanalesAlInicio, Ocioso
    <3>2. EnTabla(k) = <<>> /\ <<>> \in Seq(Clientes)
      BY <3>1 DEF EnTabla, Suscriptores
    <3>3. altas[c][k] = 0 /\ bajas[c][k] = 0
      BY DEF InitPS
    <3>4. Veces(c, EnTabla(k)) = 0
      BY <3>2, VecesContadas
    <3>5. Neto(c, k, EnTabla(k)) = 0
      BY <3>3, <3>4 DEF Neto
    <3> QED BY <3>1, <3>5 DEF AlDia, Carga
  <2>3. TodosAlDia
    BY <2>2, HilosAssumption DEF TodosAlDia, SoloDe
  <2> QED BY <2>1, <2>3
<1>2. (InvPS /\ Cuentas /\ TodosAlDia) /\ [NextPS]_varsPS => (InvPS /\ Cuentas /\ TodosAlDia)'
  BY SinCopias, Dedicados, CuentasInductivas, AlDiaInductivo
<1>3. InvPS /\ Cuentas /\ TodosAlDia => SuscripcionesAlDia
  BY AlDiaEsSuscripciones
<1> QED BY <1>1, <1>2, <1>3, PTL DEF SpecPS

=============================================================================
