--------------------------------- MODULE MCMem ---------------------------------
(* Instances of Mem for TLC: one router with fans, power supplies and either a *)
(* memory pool or two sensors that share a file.                               *)
EXTENDS Mem, TLC

CONSTANTS r1, proc, sens, fan, pwr

UmHost == <<r1>>
Fixos == {[host |-> r1, tipo |-> "fan", it |-> 0, arq |-> fan],
          [host |-> r1, tipo |-> "pwr", it |-> 0, arq |-> pwr]}
UmPool == Fixos \cup {[host |-> r1, tipo |-> "mem", it |-> 1, arq |-> proc]}
DoisSensores == Fixos \cup
  {[host |-> r1, tipo |-> "temp", it |-> k, arq |-> sens] : k \in 1 .. 2}
CasaNomes == proc :> {"Processor"}
Vazio == <<>>
Celulas == Coluna \cup {0}
Valores ==
  {Vazio} \cup {<<p[1], p[2], MemPct(p[1], p[2])>> :
                  p \in {q \in Celulas \X Celulas : q[1] + q[2] > 0}}
===============================================================================
