---------------------------------- MODULE Cpu ----------------------------------
(* The CPU half of the active system: coleta_cpu.pl writes the histories while *)
(* 00_sum_cpu.pl reads and removes them.  Both are started by the clock, share *)
(* the directory snmp/cpu and take no lock.                                    *)
EXTENDS ColetaCpu, SumCpu

vars == <<now, disco, escritor, coletor, consolidador>>

Init == LacoInit /\ SumCpuInit

Next ==
  \/ ColetaCpuNext /\ UNCHANGED consolidador
  \/ SumCpuNext /\ UNCHANGED coletor
  \/ Tick /\ UNCHANGED <<coletor, consolidador>>

Spec == Init /\ [][Next]_vars

TypeOK == LacoTypeOK /\ SumCpuTypeOK
-------------------------------------------------------------------------------
\* A history never holds more than the new line and HistMax + 1 old ones: the
\* copy loop stops after the line that makes $c>288, so 290 lines, not 288.
Limite == \A a \in Arq : Len(linhas[a]) <= HistMax + 2

\* A line without its end is only ever the last, oldest line of a file, and never
\* the first one, which is what the consolidation reports: kills and reads in
\* the middle of a rewrite do not spread the damage.
SoUltimaRasgada == \A a \in Arq : FimRasgado(linhas[a])

\* A history is ordered, newest sample first, at every moment, also while it is
\* being rewritten and after a rewrite was cut short.
Ordem == \A a \in Arq : Decrescente(linhas[a])

\* sum_cpu.txt reports whole lines, and never a sample newer than the newest one
\* in the history: a report does not go back in time when files are rewritten,
\* removed and created again around the consolidation.
SumarioNaoAdiante ==
  \A a \in Arq : sum[a] # <<>> =>
    /\ sum[a][1].inteira
    /\ linhas[a] # <<>> => linhas[a][1].t >= sum[a][1].t
-------------------------------------------------------------------------------
(* The inductive invariant behind the four properties: they are extended to    *)
(* the lines the collector carries in memory, which become the file.           *)
\* The sample being taken is not older than anything known of its host.
InvMemoria ==
  /\ now <= MaxT
  /\ \A a \in Arq : Boa(linhas[a]) /\ AteTempo(linhas[a], now)
  /\ Boa(inf) /\ AteTempo(inf, now)
  /\ Boa(saida) /\ AteTempo(saida, now)
  /\ amostra.inteira /\ amostra.t <= now
  /\ pc = "le" => AteTempo(linhas[hostname], amostra.t)
  /\ pc = "abre" => AteTempo(inf, amostra.t) /\ AteTempo(linhas[arq], amostra.t)

\* The file being rewritten holds exactly what has left the buffer, and one that
\* was removed meanwhile stays away until the next rewrite.
InvEscrita ==
  /\ pc = "abre" => linhas[arq] \in {inf, <<>>}
  /\ ligado => pc = "grava"
  /\ pc = "grava" => w < Len(saida)
  /\ pc = "grava" /\ ~ligado => linhas[arq] = <<>>
  /\ ligado /\ w = 0 => linhas[arq] = <<>>
  /\ ligado /\ w > 0 =>
       \E corta \in BOOLEAN : linhas[arq] = Pedaco(saida, w, corta)

\* A reported line x of file a is whole and not newer than what a holds, or
\* will hold when the collector is done with it.
Atras(x, a) ==
  x # <<>> =>
    /\ x[1].inteira
    /\ x[1].t <= now
    /\ linhas[a] # <<>> => x[1].t <= linhas[a][1].t
    /\ pc = "le" /\ a = hostname => x[1].t <= amostra.t
    /\ pc = "abre" /\ a = arq => x[1].t <= amostra.t
    /\ pc = "grava" /\ a = arq => x[1].t <= saida[1].t

InvSumario ==
  /\ \A a \in Arq : Atras(sum[a], a)
  /\ Atras(rttx, dados)

Indutivo == TypeOK /\ InvMemoria /\ InvEscrita /\ InvSumario
-------------------------------------------------------------------------------
\* The history a reader may rely on: from the moment the collector has read the
\* old lines until it closes the file, the one it is about to leave there.
Historia(a) ==
  IF pc = "abre" /\ a = arq THEN inf
  ELSE IF pc = "grava" /\ a = arq /\ ligado THEN saida
  ELSE linhas[a]

Abstrato == INSTANCE Registro WITH
  hist <- [a \in Arq |-> Historia(a)],
  Capacidade <- HistMax + 2,
  Tempo <- 0 .. MaxT,
  Removivel <- Arq,
  PodePerder <- PodeMorrer

\* The collector, its crashes and the consolidation together implement Registro:
\* a history changes only by a newer sample in front, by complete removal and,
\* when the collector is killed, by the loss of its oldest lines.
ImplementaRegistro == Abstrato!RegistroSpec
-------------------------------------------------------------------------------
\* Cron starts both programs again and again, every SNMP request ends with its
\* timeout, and the clock advances.
Justica ==
  /\ WF_vars(ColetaCpuNext /\ UNCHANGED consolidador)
  /\ WF_vars(SumCpuNext /\ UNCHANGED coletor)
  /\ WF_vars(Tick /\ UNCHANGED <<coletor, consolidador>>)

SpecJusta == Spec /\ Justica

\* The names the collector visits whatever Net::SNMP->session answers: no entry
\* before them, nor they themselves, can make the program exit.
Visitado == {Lista[k] : k \in 1 .. Len(Lista)} \cap Elegivel
SempreVisitado ==
  {Lista[k] : k \in {m \in 1 .. Len(Lista) :
     /\ Lista[m] \in Elegivel
     /\ \A j \in 1 .. m : Lista[j] \in Elegivel => Lista[j] \notin FalhaSessao}}

\* The file of a host that is no longer collected disappears for good, and so
\* does its line in sum_cpu.txt.
OrfaoDesaparece ==
  \A a \in Arq \ Visitado : <>[](a \notin dir /\ sum[a] = <<>>)

\* A host the collector reaches has a history again and again, even when the
\* consolidation removes its file in the middle of a rewrite.
HistoriaVolta == \A a \in SempreVisitado : []<>(linhas[a] # <<>>)
===============================================================================
