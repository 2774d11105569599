---------------------------- MODULE MCAlgoritmos ----------------------------
(* The instance of Algoritmos: lists of up to four elements over two texts *)
(* and indices that go past both ends of them.                             *)
EXTENDS Algoritmos

CONSTANTS tx, ty

Min8 == -8
Indices5 == -5 .. 5
Alfabetico == [x \in Textos |-> IF x = tx THEN 1 ELSE 2]
SinIndices == [x \in Textos |-> x]

=============================================================================
