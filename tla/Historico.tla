------------------------------- MODULE Historico -------------------------------
(* The history files of the collectors: one text file per host (cpu/, fan/,   *)
(* pwr/) or per host and item (mem/, temp/), newest sample first.  Every       *)
(* collector rewrites such a file in the same way:                             *)
(*                                                                             *)
(*    open(tcpu0,F); @inf=<tcpu0>; close(tcpu0);       Ler                     *)
(*    open(tcpu,">F"); print new line; copy @inf       AbreEscrita             *)
(*    (the output buffer fills up)                     Descarrega              *)
(*    close(tcpu);                                     Fecha                   *)
(*                                                                             *)
(* open(">") empties the file at once, while the printed lines wait in the     *)
(* output buffer of the process; a full buffer and close() send them to disk.  *)
(* There is no lock and no temporary file, so every other process sees the     *)
(* states in between.                                                          *)
EXTENDS Integers, Sequences

CONSTANTS
  Arq,          \* the names a history file of the directory can have
  Valor,        \* what the collector prints after the time: a measurement ...
  SemResposta,  \* ... or the empty field of a request that was not answered
  HistMax,      \* the 288 of "if ($c>288)": one day of samples every 5 minutes
  Bloco,        \* lines that fit in the output buffer of the process
  MaxT          \* bound: the clock stops here

ASSUME HistoricoAssumption ==
  /\ SemResposta \in Valor
  /\ HistMax \in Nat
  /\ Bloco \in Nat \ {0}
  /\ MaxT \in Nat

VARIABLES
  now,          \* time()
  dir,          \* the files that exist
  linhas,       \* their lines on disk (<<>> when the file does not exist)
  mtime,        \* their time of last modification
  arq,          \* the file the collector reads and rewrites
  amostra,      \* $t and the value the collector is about to print
  inf,          \* @inf, the old lines it has read
  saida,        \* everything it prints between open(">") and close
  w,            \* how many lines of saida have left the buffer
  ligado        \* the file it has open is still the one called arq

disco == <<dir, linhas, mtime>>
escritor == <<arq, amostra, inf, saida, w, ligado>>

\* A line; a line the buffer cut in two is on disk without its end.
Linha == [t : Nat, v : Valor, inteira : BOOLEAN]
Nova(tempo, valor) == [t |-> tempo, v |-> valor, inteira |-> TRUE]
Rasga(l) == [l EXCEPT !.inteira = FALSE]

Menor(m, n) == IF m <= n THEN m ELSE n

\* Variants: the copy loop is never left; the new line is printed last.
RenovaSemLimite(s, velhas) == <<s>> \o velhas
RenovaNoFim(s, velhas) == SubSeq(velhas, 1, Menor(Len(velhas), HistMax + 1)) \o <<s>>

\* The copy loop: $c counts the old lines printed, and the loop is left after
\* the line that makes $c>288, so HistMax + 1 old lines follow the new one.
Renova(s, velhas) == <<s>> \o SubSeq(velhas, 1, Menor(Len(velhas), HistMax + 1))

\* Variant: the buffer holds less than a line.
PedacoMenor(s, k, corta) == SubSeq(s, 1, k - 1) \o <<Rasga(s[k])>>

\* What k whole lines of s, and possibly a piece of the next, look like on disk.
Pedaco(s, k, corta) ==
  SubSeq(s, 1, k) \o (IF corta THEN <<Rasga(s[k + 1])>> ELSE <<>>)

-------------------------------------------------------------------------------
\* open(tcpu0,F); @inf=<tcpu0>: a file that does not exist reads as no lines.
Ler(a) ==
  /\ arq' = a
  /\ inf' = linhas[a]
  /\ UNCHANGED <<disco, amostra, saida, w, ligado>>

\* Variant: the old lines are read after open(">").
AbreAntesDeLer(s) ==
  /\ dir' = dir \cup {arq}
  /\ linhas' = [linhas EXCEPT ![arq] = <<>>]
  /\ mtime' = [mtime EXCEPT ![arq] = now]
  /\ saida' = Renova(s, <<>>)
  /\ w' = 0
  /\ ligado' = TRUE
  /\ inf' = <<>>
  /\ UNCHANGED arq

\* open(tcpu,">F") and the prints: the file exists and is empty, the lines are
\* in the buffer.  inf is not used again before it is assigned.
AbreEscrita(s) ==
  /\ dir' = dir \cup {arq}
  /\ linhas' = [linhas EXCEPT ![arq] = <<>>]
  /\ mtime' = [mtime EXCEPT ![arq] = now]
  /\ saida' = Renova(s, inf)
  /\ w' = 0
  /\ ligado' = TRUE
  /\ inf' = <<>>
  /\ UNCHANGED arq

\* The data goes to the open file; when it was removed meanwhile, to a file that
\* no longer has a name.
Grava(conteudo) ==
  IF ligado
  THEN /\ linhas' = [linhas EXCEPT ![arq] = conteudo]
       /\ mtime' = [mtime EXCEPT ![arq] = now]
       /\ UNCHANGED dir
  ELSE UNCHANGED disco

\* The buffer is full and there is more to print.
Descarrega ==
  /\ w + Bloco < Len(saida)
  /\ \E corta \in BOOLEAN : Grava(Pedaco(saida, w + Bloco, corta))
  /\ w' = w + Bloco
  /\ UNCHANGED <<arq, amostra, inf, saida, ligado>>

\* Variant: the rest of the buffer is lost.
FechaSemGravar ==
  /\ Len(saida) <= w + Bloco
  /\ saida' = <<>>
  /\ w' = 0
  /\ ligado' = FALSE
  /\ UNCHANGED <<disco, arq, amostra, inf>>

\* close(tcpu) writes what is left in the buffer.
Fecha ==
  /\ Len(saida) <= w + Bloco
  /\ Grava(saida)
  /\ saida' = <<>>
  /\ w' = 0
  /\ ligado' = FALSE
  /\ UNCHANGED <<arq, amostra, inf>>

\* rm F, by another process: an open handle keeps the file without its name.
Remove(a) ==
  /\ dir' = dir \ {a}
  /\ linhas' = [linhas EXCEPT ![a] = <<>>]
  /\ ligado' = (ligado /\ arq # a)
  /\ UNCHANGED <<mtime, arq, amostra, inf, saida, w>>

\* Time passes while the processes run.
Tick ==
  /\ now < MaxT
  /\ now' = now + 1
  /\ UNCHANGED <<disco, escritor>>

\* Files of earlier runs: absent, or with one sample, unanswered, of time 0.
HistoricoInit ==
  /\ now = 0
  /\ dir \in SUBSET Arq
  /\ linhas = [a \in Arq |->
                  IF a \in dir THEN <<Nova(0, SemResposta)>> ELSE <<>>]
  /\ mtime = [a \in Arq |-> 0]
  /\ arq \in Arq
  /\ amostra = Nova(0, SemResposta)
  /\ inf = <<>>
  /\ saida = <<>>
  /\ w = 0
  /\ ligado = FALSE

-------------------------------------------------------------------------------
(* What the properties of the histories are made of.                           *)

\* Newest sample first.
Decrescente(s) == \A k \in 1 .. Len(s) - 1 : s[k].t >= s[k + 1].t

\* A line without its end is the last one, and not the first.
FimRasgado(s) ==
  \A k \in 1 .. Len(s) : ~s[k].inteira => k > 1 /\ k = Len(s)

Boa(s) == Len(s) <= HistMax + 2 /\ Decrescente(s) /\ FimRasgado(s)
AteTempo(s, tempo) == \A k \in 1 .. Len(s) : s[k].t <= tempo

HistoricoTypeOK ==
  /\ now \in Nat
  /\ dir \subseteq Arq
  /\ linhas \in [Arq -> Seq(Linha)]
  /\ mtime \in [Arq -> Nat]
  /\ arq \in Arq
  /\ amostra \in Linha
  /\ inf \in Seq(Linha)
  /\ saida \in Seq(Linha)
  /\ w \in Nat
  /\ ligado \in BOOLEAN
===============================================================================
