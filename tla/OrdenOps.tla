------------------------------ MODULE OrdenOps ------------------------------
(***************************************************************************)
(* The local computations of SORT (comando_key_handler.rs).                *)
(*                                                                         *)
(* The options of a request are a record: alpha, desc, por (BY) and trae   *)
(* (GET) say whether the word is there, limite holds the numbers among its *)
(* parameters when LIMIT is one of them (<<>> when it is not), guarda the  *)
(* key of STORE, if any, and falta is which of BY, GET and STORE is the    *)
(* last word, what it needs missing ("" when none is).  Strings compare by *)
(* the rank of their parts.                                                *)
(***************************************************************************)
EXTENDS ListaOps, TLC

CONSTANTS Numericos,    \* the texts that parse as an i32
          Rango,        \* the place of each text in the order of strings
          Indice,       \* what follows the last _ in a text or the name of a key
          Contienen     \* the keys with a text in their name, and that text

ASSUME OrdenAssumption ==
  /\ Numericos \subseteq Textos
  /\ Rango \in [Textos -> Nat]
  /\ \A x, y \in Textos : Rango[x] = Rango[y] => x = y
  /\ DOMAIN Indice = Textos \cup Claves
  /\ Contienen \subseteq Claves \X Textos

-----------------------------------------------------------------------------
OrdenarTextos(l) == SortSeq(l, LAMBDA x, y : Rango[x] < Rango[y])

(* sort_by on the weight is stable.  A tuple is a value and its weight.    *)
MenorStr(s, t) ==
  \E i \in 1 .. Len(s) + 1 :
    /\ i <= Len(t) /\ SubSeq(s, 1, i - 1) = SubSeq(t, 1, i - 1)
    /\ i > Len(s) \/ Rango[s[i]] < Rango[t[i]]

OrdenarPorPeso(tuplas) ==
  LET menor(i, j) == \/ MenorStr(tuplas[i].peso, tuplas[j].peso)
                     \/ tuplas[i].peso = tuplas[j].peso /\ i < j
      orden == SortSeq([i \in DOMAIN tuplas |-> i], menor)
  IN  [i \in DOMAIN tuplas |-> tuplas[orden[i]].valor]

-----------------------------------------------------------------------------
(* Mutant of IndiceMaximo: the count is taken for the last position. *)
IndiceMaximoPorCuenta(n, largo, offset) ==
  IF 0 <= n /\ n < largo THEN n ELSE largo - 1

IndiceMinimo(offset, largo) == IF 0 <= offset /\ offset < largo THEN offset ELSE 0

(* largo - offset in i32, when overflow does not panic.                    *)
Resta(largo, offset) ==
  IF largo - offset > MaxI32 THEN largo - offset - (MaxI32 - MinI32 + 1) ELSE largo - offset

IndiceMaximo(n, largo, offset) ==
  IF 0 <= n /\ n < Resta(largo, offset) THEN n + offset - 1 ELSE largo - 1

(* seleccionar_rango panics: two numbers are missing, or the indices, of   *)
(* type usize, fall below 0.                                               *)
RangoPanico(l, nums) ==
  LET offset == nums[1]
      n == nums[2]
      corta == 0 < n /\ n < Resta(Len(l), offset)
  IN  Len(nums) >= 2 =>
        \/ Depuracion /\ Len(l) = 0
        \/ Depuracion /\ n > 0 /\ Len(l) - offset > MaxI32
        \/ Depuracion /\ offset < 0 /\ corta
        \/ n # 0 /\ Len(l) = 0
        \/ corta /\ n + offset <= 0

SeleccionarRango(l, nums) ==
  LET min == IndiceMinimo(nums[1], Len(l))
      max == IndiceMaximo(nums[2], Len(l), nums[1])
  IN  IF nums[2] = 0 THEN <<>> ELSE SubSeq(l, min + 1, max + 1)

(* sort_configuracion_lista_ordenada up to its STORE.                      *)
Invertir(p, l) == IF p.desc THEN Reverse(l) ELSE l
ConfigurarPanico(p, l) == p.limite # <<>> /\ RangoPanico(l, p.limite)
Configurar(p, l) ==
  IF p.limite = <<>> THEN Invertir(p, l) ELSE SeleccionarRango(Invertir(p, l), p.limite)

(* The pairs of a value and a weight key that end alike, in the order of   *)
(* the two loops of obetener_tupla_valor_peso.                             *)
Parejas(l, pesos) ==
  FlattenSeq([i \in DOMAIN l |->
    LET suyos == SelectSeq(pesos, LAMBDA w : Indice[w] = Indice[l[i]])
    IN  [j \in DOMAIN suyos |-> [valor |-> l[i], clave |-> suyos[j]]]])

(* For each value, the keys of GET with the value in their name.           *)
ObjetosDe(l, objetos) ==
  [i \in DOMAIN l |-> SelectSeq(objetos, LAMBDA o : <<o, l[i]>> \in Contienen)]

(* Once the keys of a value are visited GET answers Nil for it, but only   *)
(* until pusheado is set, for the rest of the command.                     *)
Vacios(grupos) == CHOOSE n \in 0 .. Len(grupos) :
                    /\ \A i \in 1 .. n : grupos[i] = <<>>
                    /\ n < Len(grupos) => grupos[n + 1] # <<>>
Nils(n, pusheado) == IF pusheado THEN <<>> ELSE [i \in 1 .. n |-> Nil]

=============================================================================
