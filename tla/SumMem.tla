-------------------------------- MODULE SumMem --------------------------------
(* snmp/gera_sum/01_sum_mem.pl, the second step of consolida_cpu_mem.sh: the   *)
(* first line of every history of mem/ goes to one of four files, chosen by    *)
(* the name of the history; histories nobody modified for an hour are removed. *)
EXTENDS Historico

CONSTANTS
  ArqMem,       \* the names a file of mem/ can have
  Casa,         \* for every such name, the alternatives of the tests it matches
  Idade         \* the 3599 seconds of "if ($dif>3599)"

Padrao == {"Processor", "I_O|io", "Transient", "Driver|driver"}
Saida == {"memproc", "memio", "memtr", "memdr"}

ASSUME SumMemAssumption ==
  /\ ArqMem \subseteq Arq
  /\ Casa \in [ArqMem -> SUBSET Padrao]
  /\ Idade \in Nat

VARIABLES
  mpc,          \* where the program is
  resta,        \* the names of readdir it has not visited
  dados,        \* the file it visits
  rttx,         \* the first of the lines it has read, if there is one
  sums          \* the four files: the lines printed, each with its history's name

consolidador == <<mpc, resta, dados, rttx, sums>>

Vazios == [s \in Saida |-> <<>>]

SumMemInit ==
  /\ mpc = "fim"
  /\ resta = {}
  /\ dados \in ArqMem
  /\ rttx = <<>>
  /\ sums = Vazios

\* Variant: the directory is not the one of the pools.
MIniciaTudo ==
  /\ mpc = "fim"
  /\ mpc' = "laco"
  /\ resta' = dir
  /\ sums' = Vazios
  /\ UNCHANGED <<now, disco, escritor, dados, rttx>>

\* The program starts: readdir, and open(">") of the four files.
MInicia ==
  /\ mpc = "fim"
  /\ mpc' = "laco"
  /\ resta' = dir \cap ArqMem
  /\ sums' = Vazios
  /\ UNCHANGED <<now, disco, escritor, dados, rttx>>

\* Variant: without "last", every line is printed.
MLeTudo ==
  /\ mpc = "laco"
  /\ \E a \in resta :
       /\ resta' = resta \ {a}
       /\ dados' = a
       /\ rttx' = linhas[a]
  /\ mpc' = "stat"
  /\ UNCHANGED <<now, disco, escritor, sums>>

\* The next name: open it and read its lines.
MLe ==
  /\ mpc = "laco"
  /\ \E a \in resta :
       /\ resta' = resta \ {a}
       /\ dados' = a
       /\ rttx' = SubSeq(linhas[a], 1, Menor(Len(linhas[a]), 1))
  /\ mpc' = "stat"
  /\ UNCHANGED <<now, disco, escritor, sums>>

\* $saida: of the four tests in a row, the last that matches decides.
SaidaDe(a) ==
  IF "Driver|driver" \in Casa[a] THEN "memdr"
  ELSE IF "Transient" \in Casa[a] THEN "memtr"
  ELSE IF "I_O|io" \in Casa[a] THEN "memio"
  ELSE "memproc"

\* A file modified within the hour has its first line printed, if it has one.
MImprime ==
  /\ mpc = "stat"
  /\ now - mtime[dados] <= Idade
  /\ sums' = [sums EXCEPT ![SaidaDe(dados)] =
                @ \o [k \in DOMAIN rttx |-> [arq |-> dados, linha |-> rttx[k]]]]
  /\ rttx' = <<>>
  /\ mpc' = "laco"
  /\ UNCHANGED <<now, disco, escritor, resta, dados>>

\* An older one is going to be removed,
MVencido ==
  /\ mpc = "stat"
  /\ now - mtime[dados] > Idade
  /\ rttx' = <<>>
  /\ mpc' = "rm"
  /\ UNCHANGED <<now, disco, escritor, resta, dados, sums>>

\* by the command rm, which is given its name.
MRemove ==
  /\ mpc = "rm"
  /\ Remove(dados)
  /\ mpc' = "laco"
  /\ UNCHANGED <<now, resta, dados, rttx, sums>>

\* Every name visited: close the four files and exit.
MTermina ==
  /\ mpc = "laco"
  /\ resta = {}
  /\ mpc' = "fim"
  /\ UNCHANGED <<now, disco, escritor, resta, dados, rttx, sums>>

SumMemNext ==
  \/ MInicia
  \/ MLe
  \/ MImprime
  \/ MVencido
  \/ MRemove
  \/ MTermina

SumMemTypeOK ==
  /\ mpc \in {"fim", "laco", "stat", "rm"}
  /\ resta \subseteq ArqMem
  /\ dados \in ArqMem
  /\ rttx \in Seq(Linha)
  /\ sums \in [Saida -> Seq([arq : ArqMem, linha : Linha])]
===============================================================================
