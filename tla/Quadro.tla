--------------------------------- MODULE Quadro ---------------------------------
(* What res_get.txt promises to the monitoring server that reads it: a board   *)
(* of interfaces that changes as a whole, in which the time of an interface is *)
(* the time its status changed last.                                           *)
EXTENDS Integers, Sequences

CONSTANTS
  Chave,        \* the interfaces
  Visivel,      \* those the board shows
  Nomes,        \* the names of the status values
  Tempo,        \* the times
  Vazio         \* no time

VARIABLES
  quadro,       \* per interface: <<line>>, or <<>>
  troca         \* when the board was last replaced

Linha == [desde : Tempo \cup {Vazio}, oper : Nomes, admin : Nomes]

\* The status the board shows; an interface that is not there has an empty one.
Mostra(x) == IF x = <<>> THEN <<"", "">> ELSE <<x[1].oper, x[1].admin>>
Quando(x) == IF x = <<>> THEN Vazio ELSE x[1].desde

QuadroInit == quadro = [k \in Chave |-> <<>>] /\ troca \in Tempo

\* A new board shows every interface.  The time of a status that stays is kept;
\* a new status has a time since the board before.
Troca ==
  /\ troca' \in Tempo
  /\ troca <= troca'
  /\ quadro' \in [Chave -> {x \in Seq(Linha) : Len(x) <= 1}]
  /\ \A k \in Chave : quadro'[k] # <<>> <=> k \in Visivel
  /\ \A k \in Visivel :
       IF Mostra(quadro'[k]) = Mostra(quadro[k])
       THEN Quando(quadro'[k]) = Quando(quadro[k])
       ELSE /\ Quando(quadro'[k]) # Vazio
            /\ troca <= Quando(quadro'[k])
            /\ Quando(quadro'[k]) <= troca'

QuadroSpec == QuadroInit /\ [][Troca]_<<quadro, troca>>
===============================================================================
