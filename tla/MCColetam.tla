------------------------------- MODULE MCColetam -------------------------------
(* Instances of Coletam for TLC: a router with two interfaces, which are two   *)
(* ports, the name of one the beginning of the name of the other, or two        *)
(* channels of one port.                                                       *)
EXTENDS Coletam, TLC

CONSTANTS h1, p1, p10, vazio, c0, c1

Respostas == {[adm |-> "up(1)", oper |-> "up(1)"], [adm |-> "down(2)", oper |-> "down(2)"]}
Portas == [x \in Host \X Indice |->
             [porta |-> IF x[2] = 1 THEN p1 ELSE p10, canal |-> c0]]
Canais == [x \in Host \X Indice |->
             [porta |-> p1, canal |-> IF x[2] = 1 THEN c0 ELSE c1]]
\* Of p10 a cut may leave p1, of both nothing.
Inicios == {<<<<h, p10>>, <<h, p1>>>> : h \in Host}
             \cup {<<<<h, p>>, <<h, vazio>>>> : h \in Host, p \in {p1, p10}}

\* The condition of the proofs tells the ports from the channels.
ASSUME NomesConferem == NomesUnicos <=> ifDescr = Portas
===============================================================================
