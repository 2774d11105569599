----------------------------- MODULE BaseDeDatos -----------------------------
(***************************************************************************)
(* The shared table of the server (base_de_datos.rs, valor.rs) and the     *)
(* values that command handlers exchange with it, as constant operators:   *)
(* every table operation takes the table T, and the current second t where *)
(* the code reads the clock.                                               *)
(*                                                                         *)
(* A String of the program is a sequence of fragments: opaque texts, key   *)
(* names, the words EX and PX, and numbers.  It parses as an i32 when it   *)
(* is one fragment in the i32 range.  No key is named EX or PX.            *)
(***************************************************************************)
EXTENDS Integers, Sequences, FiniteSets, SequencesExt

CONSTANTS Clientes,       \* client threads
          Claves,         \* the key names
          Textos,         \* opaque texts: elements of lists and sets, values
          EX, PX,         \* the option words of SET
          NoNumero,       \* a parameter that does not parse as a number
          MinI32, MaxI32  \* the range of i32 (small in the instances)

(* A String has a bounded length: there are finitely many names and texts. *)
ASSUME BddAssumption ==
  /\ IsFiniteSet(Claves) /\ IsFiniteSet(Textos)
  /\ EX \notin Int /\ PX \notin Int /\ NoNumero \notin Int
  /\ MinI32 \in Int /\ MaxI32 \in Int
  /\ 0 < MaxI32 /\ MinI32 = -MaxI32 - 1

I32 == MinI32 .. MaxI32

Fragmentos == Textos \cup Claves \cup {EX, PX} \cup Int

-----------------------------------------------------------------------------
(* TipoRedis: what a key may hold; Nada is Option::None.                   *)

Nada == [tipo |-> "Nada"]
Str(s) == [tipo |-> "Str", str |-> s]
Lista(l) == [tipo |-> "Lista", lista |-> l]
Conjunto(s) == [tipo |-> "Set", set |-> s]
Canal(cs) == [tipo |-> "Canal", suscriptores |-> cs]

TipoRedis ==
  [tipo : {"Str"}, str : Seq(Fragmentos)]
    \cup [tipo : {"Lista"}, lista : Seq(Textos)]
    \cup [tipo : {"Set"}, set : SUBSET Textos]
    \cup [tipo : {"Canal"}, suscriptores : Seq(Clientes)]

TipoONada == TipoRedis \cup {Nada}

(* ResultadoRedis.  A vector whose order is that of a HashMap or HashSet   *)
(* is the set of its elements (Miembros).                                  *)
Ok == [res |-> "Ok"]
Nil == [res |-> "Nil"]
Vacio == [res |-> "Vacio"]
BulkNil == [res |-> "BulkNil"]        \* the bulk string "nil"
Error(e) == [res |-> "Error", error |-> e]
Entero(n) == [res |-> "Int", int |-> n]
TipoDe(v) == [res |-> "Tipo",
              tipo |-> IF v.tipo \in {"Str", "Lista", "Set"} THEN v.tipo ELSE "none"]
Bulk(s) == [res |-> "Bulk", str |-> s]
Simple(s) == [res |-> "Simple", str |-> s]
Vector(rs) == [res |-> "Vector", elems |-> rs]
Miembros(S) == [res |-> "Miembros", miembros |-> S]

Errores == {"ARGS", "NOENTERO", "WRONGTYPE", "BDD", "NOKEY", "TIEMPO"}
ErrBdd == Error("BDD")
WrongType == Error("WRONGTYPE")
NoEntero == Error("NOENTERO")

(* The answers to a request without its arguments, or with one that does   *)
(* not parse: RENAME says that there is no such key, STRLEN 0.             *)
Rechazos == {Error("ARGS"), NoEntero, Error("NOKEY"), Entero(0)}

Simples == {Ok, Nil, BulkNil, Vacio}
             \cup [res : {"Error"}, error : Errores]
             \cup [res : {"Int"}, int : Int]
             \cup [res : {"Tipo"}, tipo : {"Str", "Lista", "Set", "none"}]
             \cup [res : {"Bulk", "Simple"}, str : Seq(Fragmentos)]

ResultadoRedis == Simples
                    \cup [res : {"Vector"}, elems : Seq(Simples)]
                    \cup [res : {"Miembros"}, miembros : SUBSET (Textos \cup Claves)]

-----------------------------------------------------------------------------
(* Valor: a TipoRedis with its lifetime.  SinVida is vida_util = None; the *)
(* instant of creation of a value without lifetime is never read, so it is *)
(* 0.  An absent key holds Ausente.  ultimo_acceso is written and never    *)
(* read: it is left out.                                                   *)

SinVida == -1
Vidas == Nat \cup {SinVida}

Valor == [valor : TipoONada, creado : Nat, vida : Vidas]

NoExpirable(x) == [valor |-> x, creado |-> 0, vida |-> SinVida]
Expirable(x, vida, t) == [valor |-> x, creado |-> t, vida |-> vida]
Ausente == NoExpirable(Nada)

Expiro(v, t) == v.vida # SinVida /\ t - v.creado >= v.vida
(* Mutant of Get: the value disappears one second early. *)
GetTemprano(v, t) == IF Expiro(v, t + 1) THEN Nada ELSE v.valor

Get(v, t) == IF Expiro(v, t) THEN Nada ELSE v.valor

(* The second after t is the first in which v has expired.                 *)
Vence(v, t) == ~Expiro(v, t) /\ Expiro(v, t + 1)

Tablas == [Claves -> Valor]

-----------------------------------------------------------------------------
(* Operations of BaseDeDatos.                                              *)

ObtenerValor(T, k, t) == Get(T[k], t)

Presentes(T) == {k \in Claves : T[k].valor # Nada}

ObtenerExpiracion(T, k) == IF k \in Presentes(T) THEN T[k].vida ELSE -2

GuardarValor(T, k, x) == [T EXCEPT ![k] = NoExpirable(x)]

GuardarValorConExpiracion(T, k, vida, x, t) ==
  [T EXCEPT ![k] = Expirable(x, vida, t)]

(* EXPIRE and PERSIST reach the stored value whether it has expired or not *)
ActualizarValorConExpiracion(T, k, vida, t) ==
  IF k \in Presentes(T) THEN [T EXCEPT ![k] = Expirable(T[k].valor, vida, t)] ELSE T

ActualizarValorSinExpiracion(T, k) ==
  IF k \in Presentes(T) THEN [T EXCEPT ![k] = NoExpirable(T[k].valor)] ELSE T

(* MSET: the index advances by one, so every parameter but the last is     *)
(* taken as a key whose value is the parameter after it; the last          *)
(* occurrence of a key wins.                                               *)
GuardarValores(T, ps) ==
  LET usos(k) == {i \in 1 .. Len(ps) - 1 : ps[i] = k}
      ultimo(k) == CHOOSE i \in usos(k) : \A j \in usos(k) : j <= i
  IN  [k \in Claves |-> IF usos(k) = {} THEN T[k]
                        ELSE NoExpirable(Str(<<ps[ultimo(k) + 1]>>))]

EliminarClave(T, k) == [T EXCEPT ![k] = Ausente]

CopiarValor(T, de, a, t) ==
  LET x == ObtenerValor(T, de, t)
  IN  IF x = Nada THEN T ELSE GuardarValor(T, a, x)

BorrarClaves == [k \in Claves |-> Ausente]

CantidadClaves(T) == Cardinality(Presentes(T))

-----------------------------------------------------------------------------
(* What a handler decides from the value it read: answer only, write (a    *)
(* new value, or Nada to remove the key) and answer, write without         *)
(* notifying the observers (GETSET), or panic.                             *)

Planes ==
  [accion : {"responder", "panico"}, nuevo : {Nada}, vida : {SinVida}, res : ResultadoRedis]
    \cup [accion : {"escribir", "canjear"}, nuevo : TipoONada, vida : Vidas,
          res : ResultadoRedis]

Plan(a, x, vida, r) == [accion |-> a, nuevo |-> x, vida |-> vida, res |-> r]

Responde(r) == Plan("responder", Nada, SinVida, r)
Escribe(x, r) == Plan("escribir", x, SinVida, r)
EscribeHasta(x, vida, r) == Plan("escribir", x, vida, r)
Canjea(x, r) == Plan("canjear", x, SinVida, r)
Panico == Plan("panico", Nada, SinVida, Nil)

Aplicar(T, k, p, t) ==
  CASE p.nuevo = Nada /\ p.accion = "escribir" -> EliminarClave(T, k)
    [] p.nuevo # Nada /\ p.vida = SinVida -> GuardarValor(T, k, p.nuevo)
    [] p.nuevo # Nada /\ p.vida # SinVida ->
         GuardarValorConExpiracion(T, k, p.vida, p.nuevo, t)
    [] OTHER -> T

=============================================================================
