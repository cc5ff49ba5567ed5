-------------------------------- MODULE MCIdSnmp ---------------------------------
(* Two hosts; the name of h1 is part of the name of h2, so that the rm for h1   *)
(* removes the log of h2 too.  h1 has a serial interface with two indexes,     *)
(* whose lines may be cut before the name, and lacks e1, of the group rtt and   *)
(* the only one of its two with a "."; h2 has e1 and e10, whose name is e1 when *)
(* its line is cut.                                                            *)
EXTENDS IdSnmp, TLC

CONSTANTS h1, h2, s1, e1, e10, vazio

MCOrdens == {<<h1, h2>>, <<h2, h1>>}
MCCasa(h) == IF h = h1 THEN {h1, h2} ELSE {h2}
L(n, k) == [n |-> n, id |-> k]
MCTabela == h1 :> <<L(s1, 1), L(s1, 2)>> @@ h2 :> <<L(e1, 1), L(e10, 2)>>
MCCortes == {<<e10, e1>>, <<s1, vazio>>}
MCInteresse == {<<h1, s1>>, <<h1, e1>>, <<h2, e1>>, <<h2, e10>>}
MCGrupoSnmp == MCInteresse \ {<<h1, e1>>}
MCComPonto == {<<h1, e1>>, <<h2, e1>>, <<h2, e10>>}
MCLadoA == {<<h2, e1>>, <<h2, e10>>}
MCLadoB == {<<h2, e10>>}
===============================================================================
