------------------------------ MODULE MCInterfaces ------------------------------
(* Instances of Interfaces for TLC: two interfaces, one of them twice in the   *)
(* list, and an entry that cannot be used; the status up, down, and one that   *)
(* does not exist, for one or both of the objects asked.                       *)
EXTENDS Interfaces

CONSTANTS k1, k2, vazio

Entrada(k, v) == [tinfo |-> k, valida |-> v]
Entradas == <<Entrada(k1, TRUE), Entrada(k2, FALSE), Entrada(k2, TRUE),
              Entrada(k1, TRUE)>>
Estados == {<<1, 1>>, <<2, 1>>, <<1, 9>>, <<9, 9>>}
===============================================================================
