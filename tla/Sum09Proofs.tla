------------------------------ MODULE Sum09Proofs ------------------------------
(* Proofs about 09sum.pl for every set of hosts and every content of the two    *)
(* files it joins: the labels and the completeness of the join.                *)
EXTENDS Sum09, SequenceTheorems, FiniteSetTheorems, WellFoundedInduction, TLAPS

\* A leaf is tried with SMT, with Zenon, and with SMT again, unless it names a prover.
USE SMTT(20), ZenonT(20), SMTT(90)

-------------------------------------------------------------------------------
(* The inductive invariant.                                                    *)

HostsCpu == {sumcpu[k].host : k \in DOMAIN sumcpu}
HostsMem == {summem[k].host : k \in DOMAIN summem}

\* The hosts of sum_cpu.txt whose turn has come.
FeitosCpu ==
  IF npc = "inicio" THEN {} ELSE IF npc = "cpu" THEN HostsCpu \ chaves ELSE HostsCpu

\* The hosts that have their line.
Prontos == FeitosCpu \cup IF npc \in {"mem", "fim"} THEN HostsMem \ chaves ELSE {}

\* %host_mem_proc: "ok" for the hosts that had a CPU line, the last memory line of
\* the others.
MemCerta ==
  host_mem = [h \in HostsMem \cup FeitosCpu |->
                IF h \in FeitosCpu THEN <<>> ELSE <<PorHost(summem)[h]>>]

\* A line of the output has the fields of the input lines of its host.
LinhaCerta(l) ==
  /\ l.pct = IF l.host \in HostsMem THEN PorHost(summem)[l.host].pct ELSE Nada
  /\ l.host \in HostsCpu =>
       /\ l.t = PorHost(sumcpu)[l.host].t
       /\ l.cpu5 = PorHost(sumcpu)[l.host].cpu5
       /\ l.st = Faixa(l.cpu5)
  /\ l.host \notin HostsCpu =>
       /\ l.t = PorHost(summem)[l.host].t
       /\ l.st = "nao coletou"

Tempos == {x.t : x \in LinhaCpu} \cup {x.t : x \in LinhaMem}
LinhaSumario ==
  [t : Tempos, host : Host, cpu5 : 0 .. 100 \cup {Nada}, st : Rotulo,
   pct : {x.pct : x \in LinhaMem} \cup {Nada}]

Tipos ==
  /\ TypeOK
  /\ \A k, m \in DOMAIN sumcpu : sumcpu[k].host = sumcpu[m].host => k = m
  /\ sumario \in Seq(LinhaSumario)

Lacos ==
  /\ npc # "inicio" => host_cpu = PorHost(sumcpu) /\ MemCerta
  /\ npc = "inicio" => sumario = <<>>
  /\ npc = "cpu" => chaves \subseteq HostsCpu
  /\ npc \in {"mem", "fim"} => chaves \subseteq HostsCpu \cup HostsMem
  /\ npc = "fim" => chaves = {}

Linhas ==
  /\ {sumario[k].host : k \in 1 .. Len(sumario)} = Prontos
  /\ \A k, m \in 1 .. Len(sumario) : sumario[k].host = sumario[m].host => k = m
  /\ \A k \in 1 .. Len(sumario) : LinhaCerta(sumario[k])

Indutivo == Tipos /\ Lacos /\ Linhas
-------------------------------------------------------------------------------
(* The largest element of a set, and the last line of a host.                  *)

\* A set of naturals has a least element.
LEMMA MenorNatural ==
  ASSUME NEW S, S \subseteq Nat, S # {}
  PROVE  \E x \in S : \A y \in S : x <= y
<1> DEFINE R == OpToRel(<, Nat)
<1>1. IsWellFoundedOn(R, Nat)
  BY NatLessThanWellFounded, ZenonT(60), ZenonT(90)
<1>2. \A x, y \in Nat : x < y => <<x, y>> \in R
  BY DEF OpToRel
<1> HIDE DEF R
<1>3. PICK x \in S : \A y \in S : ~(<<y, x>> \in R)
  BY <1>1, WFMin, ZenonT(60), ZenonT(90)
<1>4. \A y \in S : ~(y < x)
  BY <1>2, <1>3, ZenonT(60), ZenonT(90)
<1>5. QED
  BY <1>4

\* The element that no other exceeds is the largest one.
LEMMA MaxEh ==
  ASSUME NEW S, S \subseteq Int, NEW m \in S, \A y \in S : y <= m
  PROVE  Max(S) = m
<1>1. m \in S /\ \A y \in S : m >= y
  OBVIOUS
<1>2. Max(S) \in S /\ \A y \in S : Max(S) >= y
  BY <1>1, ZenonT(60), ZenonT(90) DEF Max
<1>3. Max(S) \in Int /\ Max(S) >= m /\ Max(S) <= m /\ m \in Int
  BY <1>2, ZenonT(60), ZenonT(90)
<1>4. QED
  BY <1>3

\* A set of places of a sequence has a largest element.
LEMMA MaxExiste ==
  ASSUME NEW n \in Nat, NEW S, S \subseteq 1 .. n, S # {}
  PROVE  Max(S) \in S /\ \A y \in S : y <= Max(S)
<1> DEFINE T == {n - y : y \in S}
<1>1. T \subseteq Nat
  OBVIOUS
<1>2. T # {}
  <2>1. PICK y \in S : TRUE
    BY ZenonT(60), ZenonT(90)
  <2>2. n - y \in T
    OBVIOUS
  <2>3. QED
    BY <2>2
<1>3. \A y \in S : n - y \in T
  OBVIOUS
<1>4. \A d \in T : \E x \in S : d = n - x
  OBVIOUS
<1> HIDE DEF T
<1>5. PICK d \in T : \A e \in T : d <= e
  BY <1>1, <1>2, MenorNatural, ZenonT(60), ZenonT(90)
<1>6. PICK x \in S : d = n - x
  BY <1>4
<1>7. \A y \in S : n - x <= n - y
  BY <1>3, <1>5, <1>6
<1>8. \A y \in S : y <= x
  BY <1>7
<1>9. S \subseteq Int
  OBVIOUS
<1>10. Max(S) = x
  BY <1>6, <1>8, <1>9, MaxEh, ZenonT(60), ZenonT(90)
<1>11. QED
  BY <1>6, <1>8, <1>10

\* The hash keeps, of every host of the file, the line no later one overwrites.
LEMMA UltimaLinha ==
  ASSUME NEW S, NEW s \in Seq(S), NEW h \in {s[k].host : k \in DOMAIN s}
  PROVE  \E m \in 1 .. Len(s) :
           /\ PorHost(s)[h] = s[m]
           /\ s[m] \in S
           /\ s[m].host = h
           /\ \A k \in 1 .. Len(s) : s[k].host = h => k <= m
<1> DEFINE K == {k \in DOMAIN s : s[k].host = h}
<1>1. Len(s) \in Nat /\ DOMAIN s = 1 .. Len(s)
  BY LenProperties
<1>2. K \subseteq 1 .. Len(s) /\ K # {}
  BY <1>1
<1>3. PorHost(s)[h] = s[Max(K)]
  BY DEF PorHost
<1>4. Max(K) \in K /\ \A y \in K : y <= Max(K)
  <2> HIDE DEF K
  <2>1. QED
    BY <1>1, <1>2, MaxExiste, ZenonT(60), ZenonT(90)
<1>5. Max(K) \in 1 .. Len(s) /\ s[Max(K)].host = h
  BY <1>1, <1>4
<1>6. \A k \in 1 .. Len(s) : s[k].host = h => k <= Max(K)
  BY <1>1, <1>4
<1>7. s[Max(K)] \in S
  BY <1>5, ElementOfSeq
<1> HIDE DEF K
<1>8. QED
  BY <1>3, <1>5, <1>6, <1>7

\* The same of each file.
LEMMA UltimaCpu ==
  ASSUME sumcpu \in Seq(LinhaCpu), NEW h \in HostsCpu
  PROVE  \E m \in 1 .. Len(sumcpu) :
           /\ PorHost(sumcpu)[h] = sumcpu[m]
           /\ sumcpu[m].host = h
           /\ \A k \in 1 .. Len(sumcpu) : sumcpu[k].host = h => k <= m
<1>1. h \in {sumcpu[k].host : k \in DOMAIN sumcpu}
  BY DEF HostsCpu
<1>2. \E m \in 1 .. Len(sumcpu) :
        /\ PorHost(sumcpu)[h] = sumcpu[m]
        /\ sumcpu[m] \in LinhaCpu
        /\ sumcpu[m].host = h
        /\ \A k \in 1 .. Len(sumcpu) : sumcpu[k].host = h => k <= m
  BY <1>1, UltimaLinha
<1>3. QED
  BY <1>2

LEMMA UltimaMem ==
  ASSUME summem \in Seq(LinhaMem), NEW h \in HostsMem
  PROVE  \E m \in 1 .. Len(summem) :
           /\ PorHost(summem)[h] = summem[m]
           /\ summem[m].host = h
           /\ \A k \in 1 .. Len(summem) : summem[k].host = h => k <= m
<1>1. h \in {summem[k].host : k \in DOMAIN summem}
  BY DEF HostsMem
<1>2. \E m \in 1 .. Len(summem) :
        /\ PorHost(summem)[h] = summem[m]
        /\ summem[m] \in LinhaMem
        /\ summem[m].host = h
        /\ \A k \in 1 .. Len(summem) : summem[k].host = h => k <= m
  BY <1>1, UltimaLinha
<1>3. QED
  BY <1>2
-------------------------------------------------------------------------------
(* The label.                                                                  *)

\* Of the six tests in a row, the last that applies gives the label of the load.
LEMMA ClassificaFaixa ==
  ASSUME NEW c \in 0 .. 100 \cup {Nada}, NEW st
  PROVE  Classifica(c, st) = Faixa(c) /\ Faixa(c) \in Rotulo
<1> DEFINE n == Numero(c)
           Vale(k) == n \in Testes[k][2] .. Testes[k][3]
           V == {k \in DOMAIN Testes : Vale(k)}
<1>1. DOMAIN Testes = 1 .. 6
  BY DEF Testes
<1>2. n \in 0 .. 100
  BY DEF Numero
<1>3. \A k \in V : k \in 1 .. 6 /\ Vale(k)
  BY <1>1
<1>4. \A k \in 1 .. 6 : Vale(k) => k \in V
  BY <1>1
<1>5. V # {} => Classifica(c, st) = Testes[Max(V)][1]
  BY DEF Classifica
<1> HIDE DEF V, Vale, n
<1>6. ASSUME NEW m \in V, \A k \in V : k <= m
      PROVE  Classifica(c, st) = Testes[m][1]
  <2>1. Max(V) = m
    BY <1>3, <1>6, MaxEh
  <2>2. QED
    BY <1>5, <2>1
<1>7. /\ Vale(1) <=> n = 0
      /\ Vale(2) <=> n <= 30
      /\ Vale(3) <=> n > 30
      /\ Vale(4) <=> n > 60
      /\ Vale(5) <=> n > 90
      /\ Vale(6) <=> n > 95
  BY <1>2 DEF Testes, Vale
<1>8. /\ Testes[2][1] = "cpuok" /\ Testes[3][1] = "alarmecpu1"
      /\ Testes[4][1] = "alarmecpu2" /\ Testes[5][1] = "criticocpu1"
      /\ Testes[6][1] = "criticocpu2"
  BY DEF Testes
<1>9. \A k \in V : /\ k = 1 => n = 0
                   /\ k = 2 => n <= 30
                   /\ k = 3 => n > 30
                   /\ k = 4 => n > 60
                   /\ k = 5 => n > 90
                   /\ k = 6 => n > 95
                   /\ k \in 1 .. 6
  BY <1>3, <1>7
<1>10. CASE n <= 30
  <2>1. 2 \in V /\ \A k \in V : k <= 2
    BY <1>2, <1>4, <1>7, <1>9, <1>10
  <2>2. Classifica(c, st) = "cpuok"
    BY <1>6, <1>8, <2>1
  <2>3. Faixa(c) = "cpuok"
    <3>1. CASE c = Nada
      BY <3>1, Sum09Assumption DEF Faixa
    <3>2. CASE c # Nada
      <4>1. n = c
        BY <3>2 DEF Numero, n
      <4>2. QED
        BY <1>2, <1>10, <3>2, <4>1 DEF Faixa
    <3>3. QED
      BY <3>1, <3>2
  <2>4. QED
    BY <2>2, <2>3 DEF Rotulo
<1>11. CASE n > 30
  <2>1. c # Nada /\ n = c
    BY <1>11 DEF Numero, n
  <2>2. CASE n <= 60
    <3>1. 3 \in V /\ \A k \in V : k <= 3
      BY <1>2, <1>4, <1>7, <1>9, <1>11, <2>2
    <3>2. Classifica(c, st) = "alarmecpu1"
      BY <1>6, <1>8, <3>1
    <3>3. Faixa(c) = "alarmecpu1"
      BY <1>2, <1>11, <2>1, <2>2 DEF Faixa
    <3>4. QED
      BY <3>2, <3>3 DEF Rotulo
  <2>3. CASE n > 60 /\ n <= 90
    <3>1. 4 \in V /\ \A k \in V : k <= 4
      BY <1>2, <1>4, <1>7, <1>9, <1>11, <2>3
    <3>2. Classifica(c, st) = "alarmecpu2"
      BY <1>6, <1>8, <3>1
    <3>3. Faixa(c) = "alarmecpu2"
      BY <1>2, <1>11, <2>1, <2>3 DEF Faixa
    <3>4. QED
      BY <3>2, <3>3 DEF Rotulo
  <2>4. CASE n > 90 /\ n <= 95
    <3>1. 5 \in V /\ \A k \in V : k <= 5
      BY <1>2, <1>4, <1>7, <1>9, <1>11, <2>4
    <3>2. Classifica(c, st) = "criticocpu1"
      BY <1>6, <1>8, <3>1
    <3>3. Faixa(c) = "criticocpu1"
      BY <1>2, <1>11, <2>1, <2>4 DEF Faixa
    <3>4. QED
      BY <3>2, <3>3 DEF Rotulo
  <2>5. CASE n > 95
    <3>1. 6 \in V /\ \A k \in V : k <= 6
      BY <1>2, <1>4, <1>7, <1>9, <1>11, <2>5
    <3>2. Classifica(c, st) = "criticocpu2"
      BY <1>6, <1>8, <3>1
    <3>3. Faixa(c) = "criticocpu2"
      BY <1>2, <1>11, <2>1, <2>5 DEF Faixa
    <3>4. QED
      BY <3>2, <3>3 DEF Rotulo
  <2>6. QED
    BY <1>2, <2>2, <2>3, <2>4, <2>5
<1>12. QED
  BY <1>2, <1>10, <1>11

-------------------------------------------------------------------------------
(* The steps.                                                                  *)

\* One more line, of a host that had none.
LEMMA MaisUmaLinha ==
  ASSUME Tipos, Linhas, NEW l \in LinhaSumario, LinhaCerta(l),
         l.host \notin Prontos, sumario' = Append(sumario, l),
         UNCHANGED <<sumcpu, summem>>, Prontos' = Prontos \cup {l.host}
  PROVE  sumario' \in Seq(LinhaSumario) /\ Linhas'
<1>1. sumario \in Seq(LinhaSumario) /\ Len(sumario) \in Nat
  BY LenProperties DEF Tipos
<1>2. /\ sumario' \in Seq(LinhaSumario)
      /\ Len(sumario') = Len(sumario) + 1
      /\ \A k \in 1 .. Len(sumario) : sumario'[k] = sumario[k]
      /\ sumario'[Len(sumario) + 1] = l
  BY <1>1, AppendProperties
<1>3. \A k \in 1 .. Len(sumario') :
        \/ k \in 1 .. Len(sumario) /\ sumario'[k] = sumario[k]
        \/ k = Len(sumario) + 1 /\ sumario'[k] = l
  BY <1>1, <1>2
<1>4. \A k \in 1 .. Len(sumario) : sumario[k].host \in Prontos
  BY DEF Linhas
<1>5. {sumario'[k].host : k \in 1 .. Len(sumario')} = Prontos'
  <2>1. \A k \in 1 .. Len(sumario') : sumario'[k].host \in Prontos'
    BY <1>3, <1>4
  <2>2. ASSUME NEW h \in Prontos'
        PROVE  \E k \in 1 .. Len(sumario') : sumario'[k].host = h
    <3>1. CASE h \in Prontos
      <4>1. PICK k \in 1 .. Len(sumario) : sumario[k].host = h
        BY <3>1 DEF Linhas
      <4>2. k \in 1 .. Len(sumario')
        BY <1>1, <1>2
      <4>3. QED
        BY <1>2, <4>1, <4>2
    <3>2. CASE h = l.host
      <4>1. Len(sumario) + 1 \in 1 .. Len(sumario')
        BY <1>1, <1>2
      <4>2. QED
        BY <1>2, <3>2, <4>1
    <3>3. QED
      BY <2>2, <3>1, <3>2
  <2>3. QED
    BY <2>1, <2>2
<1>6. \A k, m \in 1 .. Len(sumario') : sumario'[k].host = sumario'[m].host => k = m
  BY <1>3, <1>4 DEF Linhas
<1>7. (\A k \in 1 .. Len(sumario) : LinhaCerta(sumario[k]))'
  <2>1. \A x : LinhaCerta(x)' <=> LinhaCerta(x)
    BY DEF LinhaCerta, HostsCpu, HostsMem
  <2>2. \A k \in 1 .. Len(sumario') : LinhaCerta(sumario'[k])
    BY <1>3 DEF Linhas
  <2>3. QED
    BY <2>1, <2>2
<1>8. QED
  BY <1>2, <1>5, <1>6, <1>7 DEF Linhas

\* A line is about a host.
LEMMA HostDaLinha ==
  ASSUME NEW s \in Seq(LinhaSumario)
  PROVE  \A k \in DOMAIN s : s[k].host \in Host
<1>1. DOMAIN s = 1 .. Len(s) /\ \A k \in 1 .. Len(s) : s[k] \in LinhaSumario
  BY LenProperties, ElementOfSeq
<1>2. \A l \in LinhaSumario : l.host \in Host
  BY DEF LinhaSumario
<1>3. QED
  BY <1>1, <1>2

\* What the two hashes hold.
LEMMA Hashes ==
  ASSUME Tipos
  PROVE  /\ HostsCpu \subseteq Host /\ HostsMem \subseteq Host
         /\ DOMAIN PorHost(sumcpu) = HostsCpu /\ DOMAIN PorHost(summem) = HostsMem
         /\ \A h \in HostsCpu : PorHost(sumcpu)[h] \in LinhaCpu
         /\ \A h \in HostsMem : PorHost(summem)[h] \in LinhaMem
<1>1. sumcpu \in Seq(LinhaCpu) /\ summem \in Seq(LinhaMem)
  BY DEF Tipos, TypeOK
<1>2. /\ \A k \in DOMAIN sumcpu : sumcpu[k] \in LinhaCpu
      /\ \A k \in DOMAIN summem : summem[k] \in LinhaMem
  BY <1>1
<1>3. HostsCpu \subseteq Host /\ HostsMem \subseteq Host
  BY <1>2, Sum09Assumption DEF HostsCpu, HostsMem
<1>4. DOMAIN PorHost(sumcpu) = HostsCpu /\ DOMAIN PorHost(summem) = HostsMem
  BY DEF PorHost, HostsCpu, HostsMem
<1>5. \A h \in HostsCpu : PorHost(sumcpu)[h] \in LinhaCpu
  BY <1>1, UltimaLinha DEF HostsCpu
<1>6. \A h \in HostsMem : PorHost(summem)[h] \in LinhaMem
  BY <1>1, UltimaLinha DEF HostsMem
<1>7. QED
  BY <1>3, <1>4, <1>5, <1>6

\* Before the program starts nothing is printed.
LEMMA InitIndutivo == Init => Indutivo
<1> SUFFICES ASSUME Init PROVE Indutivo
  OBVIOUS
<1> USE DEF Init
<1>1. sumcpu \in Seq(LinhaCpu) /\ summem \in Seq(LinhaMem)
  BY DEF SumCpuPossivel, SumMemPossivel
<1>2. \A k, m \in DOMAIN sumcpu : sumcpu[k].host = sumcpu[m].host => k = m
  BY DEF SumCpuPossivel
<1>3. sumario \in Seq(LinhaSumario) /\ Len(sumario) = 0
  OBVIOUS
<1>4. TypeOK
  BY <1>1 DEF TypeOK
<1>5. Lacos
  BY DEF Lacos
<1>6. Prontos = {}
  BY DEF Prontos, FeitosCpu
<1>7. Linhas
  BY <1>3, <1>6 DEF Linhas
<1>8. QED
  BY <1>2, <1>3, <1>4, <1>5, <1>7 DEF Indutivo, Tipos

\* A step that prints nothing and leaves the same hosts to do.
LEMMA MesmasLinhas ==
  ASSUME Linhas, UNCHANGED <<sumcpu, summem, sumario>>, Prontos' = Prontos
  PROVE  Linhas'
<1>1. \A x : LinhaCerta(x)' <=> LinhaCerta(x)
  BY DEF LinhaCerta, HostsCpu, HostsMem
<1>2. QED
  BY <1>1 DEF Linhas

\* Reading the files.
LEMMA PassoInicia ==
  ASSUME Indutivo, Inicia
  PROVE  Indutivo'
<1> USE DEF Inicia
<1>1. Tipos /\ Lacos /\ Linhas
  BY DEF Indutivo
<1>2. sumario = <<>> /\ Len(sumario) = 0 /\ Len(sumario') = 0
  BY <1>1 DEF Lacos
<1>3. HostsCpu' = HostsCpu /\ HostsMem' = HostsMem
  BY DEF HostsCpu, HostsMem
<1>4. /\ HostsCpu \subseteq Host /\ HostsMem \subseteq Host
      /\ DOMAIN PorHost(sumcpu) = HostsCpu /\ DOMAIN PorHost(summem) = HostsMem
  BY <1>1, Hashes
<1>5. chaves' = HostsCpu /\ host_cpu' = PorHost(sumcpu)
  BY <1>4
<1>6. FeitosCpu' = {} /\ Prontos' = {}
  BY <1>3, <1>5 DEF FeitosCpu, Prontos
<1>7. host_mem' = [h \in HostsMem |-> <<PorHost(summem)[h]>>]
  BY <1>4
<1>8. MemCerta'
  BY <1>3, <1>6, <1>7 DEF MemCerta
<1>9. Tipos'
  BY <1>1, <1>4, <1>5, <1>7 DEF Tipos, TypeOK
<1>10. Lacos'
  BY <1>3, <1>5, <1>8 DEF Lacos
<1>11. Linhas'
  BY <1>2, <1>6 DEF Linhas
<1>12. QED
  BY <1>9, <1>10, <1>11 DEF Indutivo

\* A turn of the first loop.
LEMMA PassoLinhaComCpu ==
  ASSUME Indutivo, LinhaComCpu
  PROVE  Indutivo'
<1>1. Tipos /\ Lacos /\ Linhas
  BY DEF Indutivo
<1>2. PICK it \in chaves :
        /\ chaves' = chaves \ {it}
        /\ st_cpu' = Classifica(host_cpu[it].cpu5, st_cpu)
        /\ sumario' = Append(sumario,
             [t |-> host_cpu[it].t, host |-> it, cpu5 |-> host_cpu[it].cpu5,
              st |-> st_cpu', pct |-> PctMem(it)])
        /\ host_mem' = [h \in DOMAIN host_mem \cup {it} |->
                          IF h = it THEN <<>> ELSE host_mem[h]]
  BY DEF LinhaComCpu
<1>3. npc = "cpu" /\ npc' = npc /\ UNCHANGED <<sumcpu, summem, host_cpu>>
  BY DEF LinhaComCpu
<1> DEFINE c == PorHost(sumcpu)[it]
           l == [t |-> c.t, host |-> it, cpu5 |-> c.cpu5, st |-> Faixa(c.cpu5),
                 pct |-> PctMem(it)]
<1>4. HostsCpu' = HostsCpu /\ HostsMem' = HostsMem
  BY <1>3 DEF HostsCpu, HostsMem
<1>5. it \in HostsCpu /\ chaves \subseteq HostsCpu /\ host_cpu = PorHost(sumcpu)
  BY <1>1, <1>3 DEF Lacos
<1>6. c \in LinhaCpu /\ c.cpu5 \in 0 .. 100 \cup {Nada} /\ it \in Host
  BY <1>1, <1>5, Hashes, Sum09Assumption
<1>7. st_cpu' = Faixa(c.cpu5) /\ Faixa(c.cpu5) \in Rotulo
  BY <1>2, <1>5, <1>6, ClassificaFaixa, ZenonT(60), ZenonT(90)
<1>8. /\ FeitosCpu = HostsCpu \ chaves /\ FeitosCpu' = FeitosCpu \cup {it}
      /\ it \notin FeitosCpu
  BY <1>2, <1>3, <1>4, <1>5 DEF FeitosCpu
<1>9. Prontos = FeitosCpu /\ Prontos' = FeitosCpu'
  BY <1>3 DEF Prontos
<1>10. host_mem = [h \in HostsMem \cup FeitosCpu |->
                     IF h \in FeitosCpu THEN <<>> ELSE <<PorHost(summem)[h]>>]
  BY <1>1, <1>3 DEF Lacos, MemCerta
<1>11. PctMem(it) = IF it \in HostsMem THEN PorHost(summem)[it].pct ELSE Nada
  <2>1. it \in DOMAIN host_mem <=> it \in HostsMem
    BY <1>8, <1>10
  <2>2. it \in HostsMem => host_mem[it] = <<PorHost(summem)[it]>>
    BY <1>8, <1>10
  <2>3. QED
    BY <2>1, <2>2 DEF PctMem
<1> HIDE DEF c
<1>12. sumario' = Append(sumario, l)
  BY <1>2, <1>5, <1>7 DEF c
<1>13. l \in LinhaSumario
  <2>1. PctMem(it) \in {x.pct : x \in LinhaMem} \cup {Nada}
    BY <1>1, <1>11, Hashes
  <2>2. c.t \in Tempos
    BY <1>6 DEF Tempos
  <2>3. QED
    BY <1>6, <1>7, <2>1, <2>2 DEF LinhaSumario
<1>14. LinhaCerta(l)
  BY <1>5, <1>11 DEF LinhaCerta, c
<1>15. l.host = it
  OBVIOUS
<1> HIDE DEF l
<1>16. sumario' \in Seq(LinhaSumario) /\ Linhas'
  BY <1>1, <1>3, <1>8, <1>9, <1>12, <1>13, <1>14, <1>15, MaisUmaLinha
<1>17. MemCerta'
  <2>1. DOMAIN host_mem = HostsMem \cup FeitosCpu
    BY <1>10
  <2>2. DOMAIN host_mem \cup {it} = HostsMem \cup FeitosCpu'
    BY <1>8, <2>1
  <2>3. ASSUME NEW h \in HostsMem \cup FeitosCpu'
        PROVE  (IF h = it THEN <<>> ELSE host_mem[h]) =
               IF h \in FeitosCpu' THEN <<>> ELSE <<PorHost(summem)[h]>>
    BY <1>8, <1>10
  <2>4. host_mem' = [h \in HostsMem \cup FeitosCpu' |->
                       IF h \in FeitosCpu' THEN <<>> ELSE <<PorHost(summem)[h]>>]
    BY <1>2, <2>2, <2>3, ZenonT(60), ZenonT(90)
  <2>5. QED
    BY <1>3, <1>4, <2>4 DEF MemCerta
<1>18. DOMAIN host_mem' \subseteq Host
  BY <1>1, <1>2, <1>6 DEF Tipos, TypeOK
<1>19. \A k \in DOMAIN sumario' : sumario'[k].host \in Host
  BY <1>16, HostDaLinha
<1>20. Tipos'
  BY <1>1, <1>2, <1>3, <1>7, <1>16, <1>18, <1>19 DEF Tipos, TypeOK
<1>21. Lacos'
  BY <1>2, <1>3, <1>4, <1>5, <1>17 DEF Lacos
<1>22. QED
  BY <1>16, <1>20, <1>21 DEF Indutivo

\* The end of the first loop.
LEMMA PassoFimCpu ==
  ASSUME Indutivo, FimCpu
  PROVE  Indutivo'
<1> USE DEF FimCpu
<1>1. Tipos /\ Lacos /\ Linhas
  BY DEF Indutivo
<1>2. HostsCpu' = HostsCpu /\ HostsMem' = HostsMem
  BY DEF HostsCpu, HostsMem
<1>3. FeitosCpu = HostsCpu /\ FeitosCpu' = HostsCpu /\ Prontos = HostsCpu
  BY <1>2 DEF FeitosCpu, Prontos
<1>4. MemCerta /\ host_cpu = PorHost(sumcpu)
  BY <1>1 DEF Lacos
<1>5. chaves' = HostsMem \cup HostsCpu
  BY <1>3, <1>4 DEF MemCerta
<1>6. Prontos' = Prontos
  BY <1>2, <1>3, <1>5 DEF Prontos
<1>7. MemCerta'
  BY <1>2, <1>3, <1>4 DEF MemCerta
<1>8. chaves' \subseteq Host
  BY <1>1, <1>5, Hashes
<1>9. Tipos'
  BY <1>1, <1>8 DEF Tipos, TypeOK
<1>10. Lacos'
  BY <1>2, <1>4, <1>5, <1>7 DEF Lacos
<1>11. Linhas'
  BY <1>1, <1>6, MesmasLinhas
<1>12. QED
  BY <1>9, <1>10, <1>11 DEF Indutivo

\* A turn of the second loop, for a host that has its line.
LEMMA PassoPulaOk ==
  ASSUME Indutivo, PulaOk
  PROVE  Indutivo'
<1>1. Tipos /\ Lacos /\ Linhas
  BY DEF Indutivo
<1>2. PICK itx \in chaves : host_mem[itx] = <<>> /\ chaves' = chaves \ {itx}
  BY DEF PulaOk
<1>3. /\ npc = "mem" /\ npc' = npc
      /\ UNCHANGED <<sumcpu, summem, host_cpu, host_mem, st_cpu, sumario>>
  BY DEF PulaOk
<1>4. HostsCpu' = HostsCpu /\ HostsMem' = HostsMem
  BY <1>3 DEF HostsCpu, HostsMem
<1>5. FeitosCpu = HostsCpu /\ FeitosCpu' = HostsCpu
  BY <1>3, <1>4 DEF FeitosCpu
<1>6. MemCerta /\ host_cpu = PorHost(sumcpu) /\ chaves \subseteq HostsCpu \cup HostsMem
  BY <1>1, <1>3 DEF Lacos
<1>7. itx \in HostsCpu
  <2>1. itx \notin HostsCpu => host_mem[itx] = <<PorHost(summem)[itx]>>
    BY <1>5, <1>6 DEF MemCerta
  <2>2. QED
    BY <1>2, <2>1
<1>8. Prontos' = Prontos
  BY <1>2, <1>3, <1>4, <1>5, <1>7 DEF Prontos
<1>9. Tipos'
  BY <1>1, <1>2, <1>3 DEF Tipos, TypeOK
<1>10. MemCerta'
  BY <1>3, <1>4, <1>5, <1>6 DEF MemCerta
<1>11. Lacos'
  BY <1>2, <1>3, <1>4, <1>6, <1>10 DEF Lacos
<1>12. Linhas'
  BY <1>1, <1>3, <1>8, MesmasLinhas
<1>13. QED
  BY <1>9, <1>11, <1>12 DEF Indutivo

\* A turn of the second loop, for a host without a CPU line.
LEMMA PassoLinhaSoMem ==
  ASSUME Indutivo, LinhaSoMem
  PROVE  Indutivo'
<1>1. Tipos /\ Lacos /\ Linhas
  BY DEF Indutivo
<1>2. PICK itx \in chaves :
        /\ host_mem[itx] # <<>>
        /\ chaves' = chaves \ {itx}
        /\ st_cpu' = "nao coletou"
        /\ sumario' = Append(sumario,
             [t |-> host_mem[itx][1].t, host |-> itx, cpu5 |-> Nada,
              st |-> st_cpu', pct |-> PctMem(itx)])
  BY DEF LinhaSoMem
<1>3. /\ npc = "mem" /\ npc' = npc
      /\ UNCHANGED <<sumcpu, summem, host_cpu, host_mem>>
  BY DEF LinhaSoMem
<1> DEFINE m == PorHost(summem)[itx]
           l == [t |-> m.t, host |-> itx, cpu5 |-> Nada, st |-> "nao coletou",
                 pct |-> m.pct]
<1>4. HostsCpu' = HostsCpu /\ HostsMem' = HostsMem
  BY <1>3 DEF HostsCpu, HostsMem
<1>5. FeitosCpu = HostsCpu /\ FeitosCpu' = HostsCpu
  BY <1>3, <1>4 DEF FeitosCpu
<1>6. MemCerta /\ host_cpu = PorHost(sumcpu) /\ chaves \subseteq HostsCpu \cup HostsMem
  BY <1>1, <1>3 DEF Lacos
<1>7. itx \notin HostsCpu /\ itx \in HostsMem
  BY <1>2, <1>5, <1>6 DEF MemCerta
<1>8. host_mem[itx] = <<m>> /\ itx \in DOMAIN host_mem
  BY <1>5, <1>6, <1>7 DEF MemCerta
<1>9. m \in LinhaMem /\ itx \in Host
  BY <1>1, <1>7, Hashes
<1> HIDE DEF m
<1>10. host_mem[itx][1] = m /\ PctMem(itx) = m.pct
  BY <1>8 DEF PctMem
<1>11. sumario' = Append(sumario, l)
  BY <1>2, <1>10
<1>12. l \in LinhaSumario
  <2>1. m.t \in Tempos /\ m.pct \in {x.pct : x \in LinhaMem}
    BY <1>9 DEF Tempos
  <2>2. QED
    BY <1>9, <2>1 DEF LinhaSumario, Rotulo
<1>13. LinhaCerta(l)
  BY <1>7 DEF LinhaCerta, m
<1>14. l.host = itx
  OBVIOUS
<1> HIDE DEF l
<1>15. itx \notin Prontos /\ Prontos' = Prontos \cup {itx}
  BY <1>2, <1>3, <1>4, <1>5, <1>7 DEF Prontos
<1>16. sumario' \in Seq(LinhaSumario) /\ Linhas'
  BY <1>1, <1>3, <1>11, <1>12, <1>13, <1>14, <1>15, MaisUmaLinha
<1>17. \A k \in DOMAIN sumario' : sumario'[k].host \in Host
  BY <1>16, HostDaLinha
<1>18. Tipos'
  BY <1>1, <1>2, <1>3, <1>16, <1>17 DEF Tipos, TypeOK, Rotulo
<1>19. MemCerta'
  BY <1>3, <1>4, <1>5, <1>6 DEF MemCerta
<1>20. Lacos'
  BY <1>2, <1>3, <1>4, <1>6, <1>19 DEF Lacos
<1>21. QED
  BY <1>16, <1>18, <1>20 DEF Indutivo

\* Every step keeps the inductive invariant.
LEMMA PassoIndutivo == Indutivo /\ [Next]_vars => Indutivo'
<1> SUFFICES ASSUME Indutivo, [Next]_vars PROVE Indutivo'
  OBVIOUS
<1>1. Tipos /\ Lacos /\ Linhas
  BY DEF Indutivo
<1>2. ASSUME UNCHANGED <<sumcpu, summem, host_cpu, host_mem, chaves, st_cpu, sumario>>,
             npc' = npc \/ (npc = "mem" /\ npc' = "fim" /\ chaves = {})
      PROVE  Indutivo'
  <2>1. HostsCpu' = HostsCpu /\ HostsMem' = HostsMem
    BY <1>2 DEF HostsCpu, HostsMem
  <2>2. FeitosCpu' = FeitosCpu /\ Prontos' = Prontos
    BY <1>2, <2>1 DEF FeitosCpu, Prontos
  <2>3. MemCerta' <=> MemCerta
    BY <1>2, <2>1, <2>2 DEF MemCerta
  <2>4. Tipos'
    BY <1>1, <1>2 DEF Tipos, TypeOK
  <2>5. Lacos'
    BY <1>1, <1>2, <2>1, <2>3 DEF Lacos
  <2>6. Linhas'
    BY <1>1, <1>2, <2>2, MesmasLinhas
  <2>7. QED
    BY <2>4, <2>5, <2>6 DEF Indutivo
<1>3. CASE Publica
  BY <1>2, <1>3 DEF Publica
<1>4. CASE UNCHANGED vars
  BY <1>2, <1>4 DEF vars
<1>5. QED
  BY <1>3, <1>4, PassoInicia, PassoLinhaComCpu, PassoFimCpu, PassoPulaOk,
     PassoLinhaSoMem DEF Next
-------------------------------------------------------------------------------
(* The theorems.                                                               *)

\* The hashes, the loop that is running and the lines printed agree in every state.
THEOREM SempreIndutivo == Spec => []Indutivo
BY InitIndutivo, PassoIndutivo, PTL DEF Spec

\* The type invariant of the join.
THEOREM TipoCorreto == Spec => []TypeOK
<1>1. Indutivo => TypeOK
  BY DEF Indutivo, Tipos
<1>2. QED
  BY <1>1, SempreIndutivo, PTL

\* No host is printed with the label of another, whatever the order in which the
\* hash gives the hosts: one of the ifs applies to every load.
THEOREM RotuloProprioVale == Spec => []RotuloProprio
<1>1. Indutivo => RotuloProprio
  <2> SUFFICES ASSUME Indutivo, NEW k \in DOMAIN sumario
               PROVE  sumario[k].st =
                        IF \E m \in DOMAIN sumcpu : sumcpu[m].host = sumario[k].host
                        THEN Faixa(sumario[k].cpu5)
                        ELSE "nao coletou"
    BY DEF RotuloProprio
  <2>1. k \in 1 .. Len(sumario)
    BY LenProperties DEF Indutivo, Tipos
  <2>2. LinhaCerta(sumario[k])
    BY <2>1 DEF Indutivo, Linhas
  <2>3. (\E m \in DOMAIN sumcpu : sumcpu[m].host = sumario[k].host)
        <=> sumario[k].host \in HostsCpu
    BY DEF HostsCpu
  <2>4. QED
    BY <2>2, <2>3 DEF LinhaCerta
<1>2. QED
  BY <1>1, SempreIndutivo, PTL

\* What is published is the full outer join of the two files, for every number of
\* hosts and of lines and every order of the hashes.
THEOREM JuncaoCompletaVale == Spec => []JuncaoCompleta
<1> DEFINE DeHost(s, h) == {k \in DOMAIN s : s[k].host = h}
<1>1. ASSUME Indutivo, npc = "fim", NEW h \in Host
      PROVE  /\ Cardinality(DeHost(sumario, h)) =
                  IF DeHost(sumcpu, h) \cup DeHost(summem, h) = {} THEN 0 ELSE 1
             /\ \A k \in DeHost(sumario, h) :
                  /\ \A c \in DeHost(sumcpu, h) :
                       sumario[k].t = sumcpu[c].t /\ sumario[k].cpu5 = sumcpu[c].cpu5
                  /\ \A m \in DeHost(summem, h) :
                       (\A n \in DeHost(summem, h) : n <= m) =>
                          /\ sumario[k].pct = summem[m].pct
                          /\ DeHost(sumcpu, h) = {} => sumario[k].t = summem[m].t
                  /\ DeHost(summem, h) = {} => sumario[k].pct = Nada
  <2>1. Tipos /\ Lacos /\ Linhas
    BY <1>1 DEF Indutivo
  <2>2. /\ sumcpu \in Seq(LinhaCpu) /\ summem \in Seq(LinhaMem)
        /\ sumario \in Seq(LinhaSumario)
        /\ \A k, m \in DOMAIN sumcpu : sumcpu[k].host = sumcpu[m].host => k = m
    BY <2>1 DEF Tipos, TypeOK
  <2>3. DOMAIN sumario = 1 .. Len(sumario) /\ DOMAIN sumcpu = 1 .. Len(sumcpu)
        /\ DOMAIN summem = 1 .. Len(summem)
    BY <2>2, LenProperties
  <2>4. DeHost(sumcpu, h) = {} <=> h \notin HostsCpu
    BY DEF HostsCpu
  <2>5. DeHost(summem, h) = {} <=> h \notin HostsMem
    BY DEF HostsMem
  <2>6. {sumario[k].host : k \in 1 .. Len(sumario)} = HostsCpu \cup HostsMem
    BY <1>1, <2>1 DEF Lacos, Linhas, Prontos, FeitosCpu
  <2>7. Cardinality(DeHost(sumario, h)) =
          IF DeHost(sumcpu, h) \cup DeHost(summem, h) = {} THEN 0 ELSE 1
    <3>1. CASE h \in HostsCpu \cup HostsMem
      <4>1. PICK k \in 1 .. Len(sumario) : sumario[k].host = h
        BY <2>6, <3>1
      <4>2. \A m \in 1 .. Len(sumario) : sumario[m].host = h => m = k
        BY <2>1, <4>1 DEF Linhas
      <4>3. DeHost(sumario, h) = {k}
        BY <2>3, <4>1, <4>2
      <4>4. QED
        BY <2>4, <2>5, <3>1, <4>3, FS_Singleton, ZenonT(60), ZenonT(90)
    <3>2. CASE h \notin HostsCpu \cup HostsMem
      <4>1. DeHost(sumario, h) = {}
        BY <2>3, <2>6, <3>2
      <4>2. QED
        BY <2>4, <2>5, <3>2, <4>1, FS_EmptySet, ZenonT(60), ZenonT(90)
    <3>3. QED
      BY <3>1, <3>2
  <2>8. ASSUME NEW k \in DeHost(sumario, h)
        PROVE  /\ \A c \in DeHost(sumcpu, h) :
                    sumario[k].t = sumcpu[c].t /\ sumario[k].cpu5 = sumcpu[c].cpu5
               /\ \A m \in DeHost(summem, h) :
                    (\A n \in DeHost(summem, h) : n <= m) =>
                       /\ sumario[k].pct = summem[m].pct
                       /\ DeHost(sumcpu, h) = {} => sumario[k].t = summem[m].t
               /\ DeHost(summem, h) = {} => sumario[k].pct = Nada
    <3>1. k \in 1 .. Len(sumario) /\ sumario[k].host = h
      BY <2>3
    <3>2. LinhaCerta(sumario[k])
      BY <2>1, <3>1 DEF Linhas
    <3>3. ASSUME NEW c \in DeHost(sumcpu, h)
          PROVE  h \in HostsCpu /\ PorHost(sumcpu)[h] = sumcpu[c]
      <4>1. c \in 1 .. Len(sumcpu) /\ sumcpu[c].host = h /\ h \in HostsCpu
        BY <2>3 DEF HostsCpu
      <4>2. PICK m \in 1 .. Len(sumcpu) :
              PorHost(sumcpu)[h] = sumcpu[m] /\ sumcpu[m].host = h
        BY <2>2, <4>1, UltimaCpu
      <4>3. m = c
        BY <2>2, <2>3, <4>1, <4>2
      <4>4. QED
        BY <4>1, <4>2, <4>3
    <3>4. ASSUME NEW m \in DeHost(summem, h), \A n \in DeHost(summem, h) : n <= m
          PROVE  h \in HostsMem /\ PorHost(summem)[h] = summem[m]
      <4>1. m \in 1 .. Len(summem) /\ summem[m].host = h /\ h \in HostsMem
        BY <2>3 DEF HostsMem
      <4>2. PICK j \in 1 .. Len(summem) :
              /\ PorHost(summem)[h] = summem[j] /\ summem[j].host = h
              /\ \A n \in 1 .. Len(summem) : summem[n].host = h => n <= j
        BY <2>2, <4>1, UltimaMem
      <4>3. m <= j /\ j <= m
        BY <2>3, <3>4, <4>1, <4>2
      <4>4. m = j
        BY <4>1, <4>3
      <4>5. QED
        BY <4>1, <4>2, <4>4
    <3>5. \A c \in DeHost(sumcpu, h) :
            sumario[k].t = sumcpu[c].t /\ sumario[k].cpu5 = sumcpu[c].cpu5
      BY <3>1, <3>2, <3>3 DEF LinhaCerta
    <3>6. ASSUME NEW m \in DeHost(summem, h), \A n \in DeHost(summem, h) : n <= m
          PROVE  /\ sumario[k].pct = summem[m].pct
                 /\ DeHost(sumcpu, h) = {} => sumario[k].t = summem[m].t
      BY <2>4, <3>1, <3>2, <3>4, <3>6 DEF LinhaCerta
    <3>7. DeHost(summem, h) = {} => sumario[k].pct = Nada
      BY <2>5, <3>1, <3>2 DEF LinhaCerta
    <3> HIDE DEF DeHost
    <3>8. QED
      BY <3>5, <3>6, <3>7
  <2> HIDE DEF DeHost
  <2>9. QED
    BY <2>7, <2>8
<1>2. Indutivo => JuncaoCompleta
  BY <1>1, ZenonT(60), ZenonT(90) DEF JuncaoCompleta
<1>3. QED
  BY <1>2, SempreIndutivo, PTL
===============================================================================
