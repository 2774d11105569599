---------------------------- MODULE Conservacion ----------------------------
(***************************************************************************)
(* Clients that race for the same keys: SADD and SREM on ClaveSet, DEL on  *)
(* the Contadas, SORT on any of them, which may store elsewhere.  Two      *)
(* history variables add up what the clients were told: what they were     *)
(* answered must account for every change of the table, whatever the       *)
(* interleaving.                                                           *)
(***************************************************************************)
EXTENDS Orden

CONSTANTS ClaveSet,   \* the key that holds the set
          Contadas    \* the keys that DEL, EXISTS and MGET are asked for

(* What the clients do: they share these keys, without lifetimes, and SORT *)
(* stores in none of them.                                                 *)
ASSUME ConservacionAssumption ==
  /\ ClaveSet \in Claves /\ Contadas \subseteq Claves \ {ClaveSet}
  /\ Grupos \subseteq Seq(Contadas)
  /\ \A p \in Sorts : p.guarda \subseteq Claves \ (Contadas \cup {ClaveSet})
  /\ TablaInicial[ClaveSet] = Ausente
  /\ \A k \in Contadas : k \in Presentes(TablaInicial) /\ TablaInicial[k].vida = SinVida

VARIABLES neto,       \* members SADD said it added, less those SREM said it removed
          quitadas    \* keys that DEL has counted as removed

varsHist == <<vars, neto, quitadas>>
hist == <<neto, quitadas>>

InitHist == Init /\ neto = 0 /\ quitadas = 0

NextHist ==
  \E c \in Clientes :
    \/ SADD(c, ClaveSet) /\ neto' = neto + resp'[c].int /\ UNCHANGED quitadas
    \/ SREM(c, ClaveSet) /\ neto' = neto - resp'[c].int /\ UNCHANGED quitadas
    \/ /\ MultiplePaso(c) /\ UNCHANGED neto
       /\ quitadas' = IF pend[c].op = "DEL" THEN quitadas + pend'[c].cuenta - pend[c].cuenta
                      ELSE quitadas
    \/ (Multiple(c) \/ MultipleFin(c)) /\ UNCHANGED hist
    \/ (\E k \in Claves : SORT(c, k)) /\ UNCHANGED hist
    \/ ContinuarSort(c) /\ UNCHANGED hist
    \/ Reconectar(c) /\ UNCHANGED hist

SpecHist == InitHist /\ [][NextHist]_varsHist

-----------------------------------------------------------------------------
(* The members of the set are exactly those whose addition some client was *)
(* told of and whose removal none was: concurrent SADD and SREM never      *)
(* count a member twice, nor miss one.                                     *)
MiembrosContados ==
  LET m == tabla[ClaveSet].valor
  IN  neto = IF m.tipo = "Set" THEN Cardinality(m.set) ELSE 0

(* Two DEL that race for the same keys count each key once between them,   *)
(* whatever EXISTS and MGET look at meanwhile.                             *)
BorradosContados ==
  quitadas + Cardinality(Presentes(tabla) \cap Contadas) = Cardinality(Contadas)

=============================================================================
