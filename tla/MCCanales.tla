----------------------------- MODULE MCCanales ------------------------------
(* The instance of PubSub for TLC: c1 has the channel ka to itself and     *)
(* shares kb with c2, who publishes and may poison the mutex.  c1 does not *)
(* read, and its socket may fill up.                                       *)
EXTENDS PubSub

CONSTANTS c1, c2, ka, kb, tx

Min2 == -2
Vacia == [k \in Claves |-> Ausente]
ClavesDe == [c \in Clientes |-> IF c = c1 THEN {ka, kb} ELSE {kb}]
Roles == [c \in Clientes |-> IF c = c1 THEN {"SUBSCRIBE", "UNSUBSCRIBE"}
                             ELSE {"SUBSCRIBE", "PUBLISH", "NUMSUB", "CHANNELS", "SET"}]
Canales == {<<kb>>, <<ka, ka>>}
ConExSuelto == {<<tx, EX>>}
UnaVez == [k \in Claves |-> 1]

=============================================================================
