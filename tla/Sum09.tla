--------------------------------- MODULE Sum09 ---------------------------------
(* snmp/gera_sum/09sum.pl, the last step of consolida_cpu_mem.sh: join         *)
(* sum_cpu.txt and sum_mem_proc.txt by host into sumario_cpu_mem.txt, with a    *)
(* label for the CPU load, and copy the result to the monitoring server.  The   *)
(* two programs that write its inputs have ended when it starts.               *)
EXTENDS Integers, Sequences, FiniteSetsExt

CONSTANTS
  Host,         \* host names
  LinhaCpu,     \* lines of sum_cpu.txt: [host, t, cpu5]
  LinhaMem,     \* lines of sum_mem_proc.txt: [host, t, pct]
  Nada,         \* an empty field
  MaxMem        \* bound: lines of sum_mem_proc.txt

Rotulo == {"nao coletou", "cpuok", "alarmecpu1", "alarmecpu2",
           "criticocpu1", "criticocpu2"}

ASSUME Sum09Assumption ==
  /\ \A x \in LinhaCpu : x.host \in Host /\ x.cpu5 \in 0 .. 100 \cup {Nada}
  /\ \A x \in LinhaMem : x.host \in Host /\ x.pct # Nada
  /\ MaxMem \in Nat
  /\ Nada \notin 0 .. 100

VARIABLES
  npc,          \* where the program is
  sumcpu,       \* sum_cpu.txt
  summem,       \* sum_mem_proc.txt
  host_cpu,     \* %host_cpu, by host
  host_mem,     \* %host_mem_proc, by host: <<line>>, or <<>> for the word "ok"
  chaves,       \* the keys the current loop has not visited
  st_cpu,       \* $st_cpu, which keeps its value from one host to the next
  sumario       \* the lines of sumario_cpu_mem.txt

vars == <<npc, sumcpu, summem, host_cpu, host_mem, chaves, st_cpu, sumario>>

\* 00_sum_cpu.pl prints at most one line per host, as the files of cpu/ have the
\* names of the hosts; 01_sum_mem.pl prints one per pool, and several pools of a
\* host may go to sum_mem_proc.txt.
SumCpuPossivel ==
  {s \in UNION {[1 .. n -> LinhaCpu] : n \in 0 .. Cardinality(Host)} :
     \A k, m \in DOMAIN s : s[k].host = s[m].host => k = m}
SumMemPossivel == UNION {[1 .. n -> LinhaMem] : n \in 0 .. MaxMem}

Init ==
  /\ npc = "inicio"
  /\ sumcpu \in SumCpuPossivel
  /\ summem \in SumMemPossivel
  /\ host_cpu = <<>>
  /\ host_mem = <<>>
  /\ chaves = {}
  /\ st_cpu = Nada
  /\ sumario = <<>>

\* Variant: the first line of a host wins.
PorHostPrimeira(s) ==
  [h \in {s[k].host : k \in DOMAIN s} |->
     s[Min({k \in DOMAIN s : s[k].host = h})]]

\* $host_cpu{$dd[2]}=$linha for every line in turn: the last line of a host wins.
PorHost(s) ==
  [h \in {s[k].host : k \in DOMAIN s} |->
     s[Max({k \in DOMAIN s : s[k].host = h})]]

\* Both files are read into hashes, and sumario_cpu_mem.txt is opened for writing.
Inicia ==
  /\ npc = "inicio"
  /\ host_cpu' = PorHost(sumcpu)
  /\ host_mem' = [h \in DOMAIN PorHost(summem) |-> <<PorHost(summem)[h]>>]
  /\ chaves' = DOMAIN host_cpu'
  /\ npc' = "cpu"
  /\ UNCHANGED <<sumcpu, summem, st_cpu, sumario>>

\* An empty field is 0 to the comparisons.
Numero(c) == IF c = Nada THEN 0 ELSE c

\* Variants: a load of 30 falls between two tests; a label is misspelt.
TestesComBuraco ==
  << <<"nao coletou", 0, 0>>, <<"cpuok", 0, 29>>, <<"alarmecpu1", 31, 100>>,
     <<"alarmecpu2", 61, 100>>, <<"criticocpu1", 91, 100>>,
     <<"criticocpu2", 96, 100>> >>
TestesOutroRotulo ==
  << <<"nao coletou", 0, 0>>, <<"cpuok", 0, 30>>, <<"alarmecpu", 31, 100>> >>

\* The six ifs in a row: each one that applies overwrites $st_cpu.
Testes ==
  << <<"nao coletou", 0, 0>>, <<"cpuok", 0, 30>>, <<"alarmecpu1", 31, 100>>,
     <<"alarmecpu2", 61, 100>>, <<"criticocpu1", 91, 100>>,
     <<"criticocpu2", 96, 100>> >>
Classifica(cpu5, st) ==
  LET valem == {k \in DOMAIN Testes : Numero(cpu5) \in Testes[k][2] .. Testes[k][3]}
  IN  IF valem = {} THEN st ELSE Testes[Max(valem)][1]

\* $pct_mem=$memproc[6]: of the host's memory line, or empty.
PctMem(h) == IF h \in DOMAIN host_mem THEN host_mem[h][1].pct ELSE Nada

\* The loop over %host_cpu; the host's memory line is marked as done.
LinhaComCpu ==
  /\ npc = "cpu"
  /\ \E it \in chaves :
       /\ chaves' = chaves \ {it}
       /\ st_cpu' = Classifica(host_cpu[it].cpu5, st_cpu)
       /\ sumario' = Append(sumario,
            [t |-> host_cpu[it].t, host |-> it, cpu5 |-> host_cpu[it].cpu5,
             st |-> st_cpu', pct |-> PctMem(it)])
       /\ host_mem' = [h \in DOMAIN host_mem \cup {it} |->
                         IF h = it THEN <<>> ELSE host_mem[h]]
  /\ UNCHANGED <<npc, sumcpu, summem, host_cpu>>

\* The first loop is done: the keys of %host_mem_proc, the marked ones included.
FimCpu ==
  /\ npc = "cpu"
  /\ chaves = {}
  /\ chaves' = DOMAIN host_mem
  /\ npc' = "mem"
  /\ UNCHANGED <<sumcpu, summem, host_cpu, host_mem, st_cpu, sumario>>

\* The loop over %host_mem_proc skips the hosts that have their line ...
PulaOk ==
  /\ npc = "mem"
  /\ \E itx \in chaves :
       /\ host_mem[itx] = <<>>
       /\ chaves' = chaves \ {itx}
  /\ UNCHANGED <<npc, sumcpu, summem, host_cpu, host_mem, st_cpu, sumario>>

\* ... and gives the others one that says that the CPU was not collected.
LinhaSoMem ==
  /\ npc = "mem"
  /\ \E itx \in chaves :
       /\ host_mem[itx] # <<>>
       /\ chaves' = chaves \ {itx}
       /\ st_cpu' = "nao coletou"
       /\ sumario' = Append(sumario,
            [t |-> host_mem[itx][1].t, host |-> itx, cpu5 |-> Nada,
             st |-> st_cpu', pct |-> PctMem(itx)])
  /\ UNCHANGED <<npc, sumcpu, summem, host_cpu, host_mem>>

\* close, the copy by scp, exit.
Publica ==
  /\ npc = "mem"
  /\ chaves = {}
  /\ npc' = "fim"
  /\ UNCHANGED <<sumcpu, summem, host_cpu, host_mem, chaves, st_cpu, sumario>>

Next ==
  \/ Inicia
  \/ LinhaComCpu
  \/ FimCpu
  \/ PulaOk
  \/ LinhaSoMem
  \/ Publica

Spec == Init /\ [][Next]_vars

TypeOK ==
  /\ npc \in {"inicio", "cpu", "mem", "fim"}
  /\ sumcpu \in Seq(LinhaCpu)
  /\ summem \in Seq(LinhaMem)
  /\ chaves \subseteq Host
  /\ DOMAIN host_cpu \subseteq Host
  /\ DOMAIN host_mem \subseteq Host
  /\ st_cpu \in Rotulo \cup {Nada}
  /\ \A k \in DOMAIN sumario : sumario[k].host \in Host
-------------------------------------------------------------------------------
\* What the label of a load means: the thresholds 30, 60, 90 and 95.  A load that
\* was not answered, or is 0, is "cpuok": the test that calls it "nao coletou"
\* comes first and is always overwritten by the next one.
Faixa(c) ==
  IF c = Nada \/ c <= 30 THEN "cpuok"
  ELSE IF c <= 60 THEN "alarmecpu1"
  ELSE IF c <= 90 THEN "alarmecpu2"
  ELSE IF c <= 95 THEN "criticocpu1"
  ELSE "criticocpu2"

\* Every line printed has the label of its own load, never the one left over from
\* the host before it, and a host has the label "nao coletou" exactly when
\* sum_cpu.txt has no line for it.
RotuloProprio ==
  \A k \in DOMAIN sumario :
    sumario[k].st =
      IF \E m \in DOMAIN sumcpu : sumcpu[m].host = sumario[k].host
      THEN Faixa(sumario[k].cpu5)
      ELSE "nao coletou"

\* When the file is copied it is the full outer join of its inputs: exactly one
\* line per host of either, with the load of the CPU line, the time of that line
\* or else of the last memory line, and the percentage of the last memory line.
JuncaoCompleta ==
  npc = "fim" =>
    LET DeHost(s, h) == {k \in DOMAIN s : s[k].host = h}
    IN \A h \in Host :
         /\ Cardinality(DeHost(sumario, h)) =
              IF DeHost(sumcpu, h) \cup DeHost(summem, h) = {} THEN 0 ELSE 1
         /\ \A k \in DeHost(sumario, h) :
              /\ \A c \in DeHost(sumcpu, h) :
                   sumario[k].t = sumcpu[c].t /\ sumario[k].cpu5 = sumcpu[c].cpu5
              /\ \A m \in DeHost(summem, h) :
                   (\A n \in DeHost(summem, h) : n <= m) =>
                      /\ sumario[k].pct = summem[m].pct
                      /\ DeHost(sumcpu, h) = {} => sumario[k].t = summem[m].t
              /\ DeHost(summem, h) = {} => sumario[k].pct = Nada
===============================================================================
