------------------------------- MODULE SetOps -------------------------------
(***************************************************************************)
(* The set commands (comando_set_handler.rs) as functions from the value   *)
(* read under the key (or Nada) and the parameters to a plan.              *)
(***************************************************************************)
EXTENDS ListaOps

(* Mutant of PlanSAdd: a parameter sent twice is counted twice. *)
PlanSAddContandoTodo(v, ps) ==
  LET antes == IF v.tipo = "Nada" THEN {} ELSE v.set
  IN  IF v.tipo \in {"Nada", "Set"}
      THEN Escribe(Conjunto(antes \cup ToSet(ps)),
                   Entero(Cardinality({i \in DOMAIN ps : ps[i] \notin antes})))
      ELSE Responde(WrongType)

(* Each parameter that was not yet a member counts once.                   *)
PlanSAdd(v, ps) ==
  LET antes == IF v.tipo = "Nada" THEN {} ELSE v.set
  IN  IF v.tipo \in {"Nada", "Set"}
      THEN Escribe(Conjunto(antes \cup ToSet(ps)),
                   Entero(Cardinality(ToSet(ps) \ antes)))
      ELSE Responde(WrongType)

(* A set that loses its last member stays, empty.                          *)
PlanSRem(v, ps) ==
  CASE v.tipo = "Nada" -> Responde(Entero(0))
    [] v.tipo = "Set"  -> Escribe(Conjunto(v.set \ ToSet(ps)),
                                  Entero(Cardinality(v.set \cap ToSet(ps))))
    [] OTHER           -> Responde(WrongType)

PlanSCard(v) ==
  CASE v.tipo = "Set"  -> Responde(Entero(Cardinality(v.set)))
    [] v.tipo = "Nada" -> Responde(Entero(0))
    [] OTHER           -> Responde(WrongType)

(* The parameter of SISMEMBER, if any, looked at only once there is a set. *)
UnoONinguno == {{}} \cup {{x} : x \in Textos}
PlanSIsMember(v, ps) ==
  CASE v.tipo = "Set" /\ ps # {} -> Responde(Entero(IF ps \subseteq v.set THEN 1 ELSE 0))
    [] v.tipo = "Nada" -> Responde(Entero(0))
    [] OTHER           -> Responde(WrongType)

PlanSMembers(v) ==
  CASE v.tipo = "Set"  -> Responde(Miembros(v.set))
    [] v.tipo = "Nada" -> Responde(Miembros({}))
    [] OTHER           -> Responde(WrongType)

=============================================================================
