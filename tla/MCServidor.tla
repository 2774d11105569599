----------------------------- MODULE MCServidor -----------------------------
(***************************************************************************)
(* Instances of the server for TLC: two client threads, one to four keys,  *)
(* the commands each client issues and the parameters it sends.  The range *)
(* of i32 is -2 .. 1 or -3 .. 2: overflow is a step or two away.           *)
(***************************************************************************)
EXTENDS ServidorProps, Documentado

CONSTANTS c1, c2,         \* clients
          ka, kb, kv, kw, \* keys; kv and kw are also values of MSET
          tx, ty          \* texts

Min2 == -2
Min3 == -3
Chicos == -1 .. 1
Extremos == {-1, 1}

(* Keys of each client's own, or every key for both.                       *)
DeCadaUno == [c \in Clientes |-> IF c = c1 THEN {ka} ELSE {kb}]
DeTodos == [c \in Clientes |-> Claves]

(* The table restored at start-up.                                         *)
Vacia == [k \in Claves |-> Ausente]

(* Commands of the passing runs.                                           *)
Reparto(A, B) == [c \in Clientes |-> IF c = c1 THEN A ELSE B]

DeEscritura == Reparto({"LPUSH", "RPUSHX", "LPOP", "RPOP", "LREM", "LSET", "LLEN", "LINDEX",
                        "SADD", "SREM", "SCARD", "SISMEMBER", "SMEMBERS"},
                       {"SET", "INCRBY", "DECRBY", "GETDEL", "APPEND", "TYPE"})
ConVencimiento == Reparto({"SET", "INCRBY", "EXPIRE", "GET", "STRLEN"},
                          {"APPEND", "GETSET", "EXPIREAT", "PERSIST", "MGET", "EXISTS"})
Cruzadas ==
  Reparto({"RPUSH", "LPUSHX", "RPOP", "LRANGE", "LREM", "TTL", "TOUCH", "KEYS", "DBSIZE",
           "INVALIDO"},
          {"MSET", "DEL", "RENAME", "COPY", "INCRBY", "EXPIREAT", "FLUSHDB"})

(* Commands of the run that refutes a comment.                             *)
MsetMget == Reparto({"MSET"}, {"MGET"})

(* Parameters.                                                             *)
Pares == {<<tx>>, <<tx, ty>>}
Sueltos == {<<tx>>}
Opciones == {<<tx>>, <<0>>, <<tx, EX>>}
OpcionesDeVida == {<<0, PX, 1500>>, <<tx, EX, -2>>}
Iguales == {<<ka, kv, kb, kv>>, <<ka, kw, kb, kw>>}
Cruces == {<<ka, kb>>}
LasDos == {<<ka, kb>>}
UnaOLasDos == {<<ka>>, <<ka, kb>>, <<kb, ka>>}
Propia == {<<>>, <<kb, kb>>}

=============================================================================
