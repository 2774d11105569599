--------------------------- MODULE MCPersistencia ---------------------------
(* Instances of Persistencia for TLC.  ka holds strings, with a character  *)
(* of two bytes or a separator in them, and kb a list or a set, whose      *)
(* member is EX; rb is a file that does not open.  bS, ..., bv are bytes,  *)
(* bu and bv the two of one character.                                     *)
EXTENDS Persistencia

CONSTANTS bS, bT, bR, bI, bN, bG, bL, bE, bX, ba, bb, bx, bu, bv, ra, rb

Min2 == -2
LaString == <<bS, bT, bR, bI, bN, bG>>
LaLista == <<bL, bI, bS, bT>>
ElSet == <<bS, bE, bT>>
ElEx == <<bE, bX>>
ka == <<ba>>
kb == <<bb>>
Dos == {ka, kb}
Una == {ka}
Corto == <<bx>>
ConEnie == <<bx, bu, bv>>
ConSep == <<bx, Sep, bx>>
LosTextos == {Corto, ConEnie, ConSep, ElEx}

Con(y, n) == [valor |-> y, vida |-> n]
Variadas == [k \in Claves |->
  IF k = ka
  THEN {Con(Str(<<Corto>>), SinVida), Con(Str(<<ConEnie>>), 1), Con(Str(<<ConSep>>), SinVida),
        Con(Nada, SinVida)}
  ELSE {Con(Lista(<<Corto, ConEnie>>), SinVida), Con(Conjunto({ElEx}), SinVida),
        Con(Conjunto({Corto}), 1)}]
Eternas == [k \in Claves |-> {Con(Str(<<Corto>>), SinVida), Con(Str(<<ConEnie>>), SinVida)}]
DeExpireYPersist == [k \in Claves |-> IF k = ka THEN {SinVida, 1} ELSE {SinVida}]
Ninguna == [k \in Claves |-> {}]

=============================================================================
