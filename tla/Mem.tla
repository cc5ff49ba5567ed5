---------------------------------- MODULE Mem ----------------------------------
(* The memory half of the active system: coleta_mem_temp_pwr.pl writes the     *)
(* histories of pools, sensors, fans and power supplies while 01_sum_mem.pl    *)
(* reads, and removes, those of the pools.                                     *)
EXTENDS ColetaMem, SumMem

\* mem/ is the directory of the pools, and of nothing else.
ASSUME MemAssumption == \A e \in Item : e.tipo = "mem" <=> e.arq \in ArqMem

vars == <<now, disco, escritor, coletor, fila, consolidador>>

Init == ColetaMemInit /\ SumMemInit

Next ==
  \/ ColetaMemNext /\ UNCHANGED consolidador
  \/ SumMemNext /\ UNCHANGED <<coletor, fila>>
  \/ Tick /\ UNCHANGED <<coletor, fila, consolidador>>

Spec == Init /\ [][Next]_vars

TypeOK == ColetaMemTypeOK /\ SumMemTypeOK
-------------------------------------------------------------------------------
\* A host whose visit ends normally has a new line for its fans and one for its
\* power supplies, with the time of this visit, whichever of the eleven tables
\* were answered: the two files are the heartbeat of the collector.
VisitaRegistraFanPwr ==
  [][ pc = "grava" /\ pc' = "laco" =>
        \A e \in SempreEscritos :
          /\ linhas'[e.arq] # <<>>
          /\ linhas'[e.arq][1].t = amostra.t ]_vars

\* Without kills, the program leaves no empty file behind, except where the
\* division by zero comes between open(">") and print: in mem/.
VaziaSoMem ==
  ~PodeMorrer /\ pc = "fim" => \A a \in dir \ ArqMem : linhas[a] # <<>>

\* The four summaries hold whole lines, at most one per history in all of them
\* together, and none that is newer than the newest of its history, although
\* histories are emptied, rewritten and removed while they are made.
SumarioFiel ==
  /\ \A s \in Saida : \A k, m \in 1 .. Len(sums[s]) :
       sums[s][k].arq = sums[s][m].arq => k = m
  /\ \A r, s \in Saida : \A k \in 1 .. Len(sums[r]), m \in 1 .. Len(sums[s]) :
       sums[r][k].arq = sums[s][m].arq => r = s
  /\ \A s \in Saida : \A k \in 1 .. Len(sums[s]) :
       LET x == sums[s][k]
       IN  /\ x.linha.inteira
           /\ linhas[x.arq] # <<>> => linhas[x.arq][1].t >= x.linha.t

\* CISCO-MEMORY-POOL-MIB: column 5 of the pool table, which the program puts in
\* %h_mem_free, is the memory in use, and column 6, %h_mem_utl, the free one.  The
\* percentage of memory in use is then column 5 over the sum, and a history with
\* both columns would show it.
PctEhUsada ==
  \A a \in ArqMem : \A k \in 1 .. Len(linhas[a]) :
    LET v == linhas[a][k].v
    IN  v # SemResposta /\ v[1] > 0 /\ v[2] > 0 => v[3] = MemPct(v[2], v[1])
-------------------------------------------------------------------------------
\* As for the CPU histories: what a reader may rely on.
Historia(a) ==
  IF pc = "abre" /\ a = arq THEN inf
  ELSE IF pc = "grava" /\ a = arq /\ ligado THEN saida
  ELSE linhas[a]

Abstrato == INSTANCE Registro WITH
  hist <- [a \in Arq |-> Historia(a)],
  Capacidade <- HistMax + 2,
  Tempo <- 0 .. MaxT,
  Removivel <- ArqMem,
  PodePerder <- PodeMorrer

\* The histories of all four directories change only by a newer sample in front;
\* those of the pools also by complete removal, by the consolidation or by the
\* failing division; kills may lose the oldest samples.  Nothing is ever lost of
\* a sensor, the fans or the power supplies without a kill.
ImplementaRegistro == Abstrato!RegistroSpec
-------------------------------------------------------------------------------
(* The inductive invariant behind the properties.                              *)

\* Between the tables' answers and the last close the collector prints one time,
\* and nothing anywhere is newer than it.
Ativo == pc \in {"le", "abre", "grava"}
Teto == IF Ativo THEN amostra.t ELSE now

InvMemoria ==
  /\ amostra.inteira /\ amostra.t <= now /\ now <= MaxT
  /\ \A a \in Arq : Boa(linhas[a]) /\ AteTempo(linhas[a], Teto)
  /\ Boa(inf) /\ AteTempo(inf, Teto)
  /\ Boa(saida) /\ AteTempo(saida, Teto)
  /\ pc = "grava" => saida[1].t = amostra.t

\* The file being rewritten holds exactly what has left the buffer; only one of
\* a pool can be removed under the writer.
InvEscrita ==
  /\ pc = "abre" => linhas[arq] \in {inf, <<>>}
  /\ pc = "abre" /\ arq \notin ArqMem => linhas[arq] = inf
  /\ ligado => pc = "grava"
  /\ pc = "grava" => w < Len(saida)
  /\ pc = "grava" /\ arq \notin ArqMem => ligado
  /\ pc = "grava" /\ ~ligado => linhas[arq] = <<>>
  /\ ligado /\ w = 0 => linhas[arq] = <<>>
  /\ ligado /\ w > 0 =>
       \E corta \in BOOLEAN : linhas[arq] = Pedaco(saida, w, corta)

\* The files outside mem/ that were written stay written, except for the one
\* between open(">") and close.
Escrita(a) == linhas[a] # <<>> \/ (pc = "grava" /\ a = arq)

InvVisita ==
  /\ ~PodeMorrer => \A a \in dir \ ArqMem : Escrita(a)
  /\ Ativo => \A e \in SempreEscritos \ DOMAIN fila :
       /\ Escrita(e.arq)
       /\ linhas[e.arq] # <<>> => linhas[e.arq][1].t = amostra.t

\* A reported line x of file a is whole and not newer than what a holds, or will
\* hold when the collector is done with it.
Atras(x, a) ==
  /\ x.inteira
  /\ x.t <= Teto
  /\ linhas[a] # <<>> => x.t <= linhas[a][1].t

InvSumario ==
  /\ \A s \in Saida : \A k \in 1 .. Len(sums[s]) :
       /\ SaidaDe(sums[s][k].arq) = s
       /\ sums[s][k].arq \notin resta
       /\ mpc = "stat" => sums[s][k].arq # dados
       /\ Atras(sums[s][k].linha, sums[s][k].arq)
  /\ \A s \in Saida : \A k, m \in 1 .. Len(sums[s]) :
       sums[s][k].arq = sums[s][m].arq => k = m
  /\ Len(rttx) <= 1
  /\ rttx # <<>> => Atras(rttx[1], dados)
  /\ mpc = "stat" => dados \notin resta

Indutivo == TypeOK /\ InvMemoria /\ InvEscrita /\ InvVisita /\ InvSumario
===============================================================================
