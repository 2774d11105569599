----------------------------- MODULE Documentado -----------------------------
(***************************************************************************)
(* What a comment above a handler says of its command, where the code does *)
(* something else: a run refutes it.                                       *)
(***************************************************************************)
EXTENDS Servidor

(* comando_string_handler.rs:332, "No es posible para los clientes ver que *)
(* algunas claves del conjunto fueron modificadas, mientras otras no".     *)
(* Where every MSET gives all its keys one value, an MGET answer is        *)
(* uniform.                                                                *)
MgetCoherente ==
  \A c \in Clientes : resp[c].res = "Vector" =>
    \A i, j \in DOMAIN resp[c].elems : resp[c].elems[i] = resp[c].elems[j]

=============================================================================
