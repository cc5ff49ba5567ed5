-------------------------------- MODULE SumCpu --------------------------------
(* snmp/gera_sum/00_sum_cpu.pl, the first step of consolida_cpu_mem.sh: copy   *)
(* the first line of every history file of the directory to sum_cpu.txt, and   *)
(* remove the files that nobody has modified for an hour.                      *)
EXTENDS Historico

CONSTANT Idade  \* the 3599 seconds of "if ($dif>3599)"

ASSUME SumCpuAssumption == Idade \in Nat

VARIABLES
  spc,          \* where the program is
  resta,        \* the names of readdir it has not visited
  dados,        \* the file it visits
  rttx,         \* the first of the lines it has read, if there is one
  sum           \* sum_cpu.txt: the line it holds for each file, if any

consolidador == <<spc, resta, dados, rttx, sum>>

SumCpuInit ==
  /\ spc = "fim"
  /\ resta = {}
  /\ dados \in Arq
  /\ rttx = <<>>
  /\ sum = [a \in Arq |-> <<>>]

\* Variant: '.' is not skipped.
SIniciaComPonto ==
  /\ spc = "fim"
  /\ spc' = "laco"
  /\ resta' = dir \cup {"."}
  /\ sum' = [a \in Arq |-> <<>>]
  /\ UNCHANGED <<now, disco, escritor, dados, rttx>>

\* The program starts: readdir, and open(">sum_cpu.txt").
SInicia ==
  /\ spc = "fim"
  /\ spc' = "laco"
  /\ resta' = dir
  /\ sum' = [a \in Arq |-> <<>>]
  /\ UNCHANGED <<now, disco, escritor, dados, rttx>>

\* Variant: the last line read is the one that is used.
SLeUltima ==
  /\ spc = "laco"
  /\ \E a \in resta :
       /\ resta' = resta \ {a}
       /\ dados' = a
       /\ rttx' = LET n == Len(linhas[a]) IN SubSeq(linhas[a], n + 1 - Menor(n, 1), n)
  /\ spc' = "stat"
  /\ UNCHANGED <<now, disco, escritor, sum>>

\* The next name, in the order of readdir: open it and read its lines, of which
\* only the first is ever used.
SLe ==
  /\ spc = "laco"
  /\ \E a \in resta :
       /\ resta' = resta \ {a}
       /\ dados' = a
       /\ rttx' = SubSeq(linhas[a], 1, Menor(Len(linhas[a]), 1))
  /\ spc' = "stat"
  /\ UNCHANGED <<now, disco, escritor, sum>>

\* lstat of the open file and time(): a file modified within the hour has its
\* first line printed ...
SImprime ==
  /\ spc = "stat"
  /\ now - mtime[dados] <= Idade
  /\ sum' = [sum EXCEPT ![dados] = rttx]
  /\ rttx' = <<>>
  /\ spc' = "laco"
  /\ UNCHANGED <<now, disco, escritor, resta, dados>>

\* ... and an older one is going to be removed,
SVencido ==
  /\ spc = "stat"
  /\ now - mtime[dados] > Idade
  /\ rttx' = <<>>
  /\ spc' = "rm"
  /\ UNCHANGED <<now, disco, escritor, resta, dados, sum>>

\* Variant: rm fails.
SRemoveNada ==
  /\ spc = "rm"
  /\ spc' = "laco"
  /\ UNCHANGED <<now, disco, escritor, resta, dados, rttx, sum>>

\* by the command rm, which is a process of its own and is given the name.
SRemove ==
  /\ spc = "rm"
  /\ Remove(dados)
  /\ spc' = "laco"
  /\ UNCHANGED <<now, resta, dados, rttx, sum>>

\* Every name visited: close(sum) and exit.
STermina ==
  /\ spc = "laco"
  /\ resta = {}
  /\ spc' = "fim"
  /\ UNCHANGED <<now, disco, escritor, resta, dados, rttx, sum>>

SumCpuNext ==
  \/ SInicia
  \/ SLe
  \/ SImprime
  \/ SVencido
  \/ SRemove
  \/ STermina

SumCpuTypeOK ==
  /\ spc \in {"fim", "laco", "stat", "rm"}
  /\ resta \subseteq Arq
  /\ dados \in Arq
  /\ rttx \in Seq(Linha)
  /\ sum \in [Arq -> Seq(Linha)]
===============================================================================
