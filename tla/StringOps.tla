------------------------------ MODULE StringOps ------------------------------
(***************************************************************************)
(* The string commands (comando_string_handler.rs) as functions from the   *)
(* value read under the key (or Nada) and the parameters to a plan.        *)
(***************************************************************************)
EXTENDS BaseDeDatos

CONSTANT Depuracion   \* TRUE: overflow panics (debug build); FALSE: it wraps

ASSUME StringAssumption == Depuracion \in BOOLEAN

EsNumero(s) == Len(s) = 1 /\ s[1] \in I32

(* The value of an overflowing i32 operation in a release build.           *)
Envolver(n) == MinI32 + ((n - MinI32) % (MaxI32 - MinI32 + 1))

PlanGet(v) ==
  CASE v.tipo = "Str"  -> Responde(Bulk(v.str))
    [] v.tipo = "Nada" -> Responde(Nil)
    [] OTHER           -> Responde(WrongType)

PlanGetDel(v) ==
  IF v.tipo = "Str" THEN Escribe(Nada, Bulk(v.str)) ELSE PlanGet(v)

PlanStrlen(v) ==
  IF v.tipo = "Str" THEN Responde(Entero(Len(v.str))) ELSE Responde(WrongType)

PlanAppend(v, x) ==
  CASE v.tipo = "Nada" -> Escribe(Str(<<x>>), Entero(1))
    [] v.tipo = "Str"  -> Escribe(Str(Append(v.str, x)), Entero(Len(v.str) + 1))
    [] OTHER           -> Responde(WrongType)

PlanGetSet(v, x) ==
  CASE v.tipo \in {"Lista", "Set"} -> Responde(WrongType)
    [] v.tipo = "Str"              -> Canjea(Str(<<x>>), Simple(v.str))
    [] OTHER                       -> Canjea(Str(<<x>>), Nil)

(* SET: ps are the parameters after the key.  What follows the last        *)
(* occurrence of the option word must parse as a u64; indexing an empty    *)
(* rest panics.                                                            *)
TrasElUltimo(ps, w) ==
  LET i == CHOOSE j \in DOMAIN ps : ps[j] = w /\ \A h \in j + 1 .. Len(ps) : ps[h] # w
  IN  SubSeq(ps, i + 1, Len(ps))

(* Mutant of PlanSetConVida: the lifetime is parsed as a signed number. *)
PlanSetConSigno(ps, w, divisor) ==
  LET resto == TrasElUltimo(ps, w)
  IN  CASE resto = <<>> -> Panico
        [] resto # <<>> /\ resto[1] \notin Int -> Responde(NoEntero)
        [] OTHER -> EscribeHasta(Str(<<ps[1]>>), resto[1] \div divisor, Ok)

PlanSetConVida(ps, w, divisor) ==
  LET resto == TrasElUltimo(ps, w)
  IN  CASE resto = <<>>         -> Panico
        [] resto # <<>> /\ resto[1] \notin Nat -> Responde(NoEntero)
        [] OTHER -> EscribeHasta(Str(<<ps[1]>>), resto[1] \div divisor, Ok)

PlanSet(ps) ==
  CASE Contains(ps, EX) -> PlanSetConVida(ps, EX, 1)
    [] ~Contains(ps, EX) /\ Contains(ps, PX) -> PlanSetConVida(ps, PX, 1000)
    [] OTHER -> Escribe(Str(<<ps[1]>>), Ok)

(* operar_sobre_int: signo is 1 for INCRBY and -1 for DECRBY.              *)
PlanOperar(v, d, signo) ==
  LET s == IF v.tipo = "Nada" THEN <<0>> ELSE v.str
      guarda(n) == Escribe(Str(<<n>>), Bulk(<<n>>))
      n == s[1] + signo * d
  IN  CASE v.tipo \notin {"Nada", "Str"}   -> Responde(WrongType)
        [] v.tipo \in {"Nada", "Str"} /\ (~EsNumero(s) \/ d = NoNumero)
                                           -> Responde(NoEntero)
        [] OTHER -> CASE n \in I32         -> guarda(n)
                      [] n \notin I32 /\ Depuracion  -> Panico
                      [] n \notin I32 /\ ~Depuracion -> guarda(Envolver(n))

=============================================================================
