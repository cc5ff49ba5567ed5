------------------------------- MODULE CpuProofs -------------------------------
(* Proofs about Cpu, for every list, directory, buffer size and history limit. *)
EXTENDS Cpu, HistoricoProofs

\* A leaf is tried with SMT, with Zenon, and with SMT again, unless it names a prover.
USE SMTT(20), ZenonT(20), SMTT(90)

-------------------------------------------------------------------------------
(* The inductive invariant.                                                    *)

\* Every initial state satisfies the inductive invariant.
LEMMA InitIndutivo == Init => Indutivo
<1> SUFFICES ASSUME Init PROVE Indutivo
  OBVIOUS
<1> USE DEF Init, LacoInit, SumCpuInit, HistoricoInit
<1>1. Nova(0, SemResposta) \in Linha /\ amostra.inteira /\ amostra.t = 0
  BY NovaTipo, HistoricoAssumption
<1>2. \A a \in Arq : /\ linhas[a] \in Seq(Linha)
                     /\ Boa(linhas[a])
                     /\ AteTempo(linhas[a], now)
  <2> SUFFICES ASSUME NEW a \in Arq
               PROVE  /\ linhas[a] \in Seq(Linha)
                      /\ Boa(linhas[a])
                      /\ AteTempo(linhas[a], now)
    BY ZenonT(60), ZenonT(90)
  <2>1. CASE a \in dir
    BY <2>1, NovaTipo, UmaBoa, HistoricoAssumption
  <2>2. CASE a \notin dir
    BY <2>2, VazioBoa
  <2>3. QED
    BY <2>1, <2>2
<1>3. linhas \in [Arq -> Seq(Linha)]
  BY <1>2
<1>4. HistoricoTypeOK
  BY <1>1, <1>3, VazioBoa, ZenonT(60), ZenonT(90) DEF HistoricoTypeOK
<1>5. TypeOK
  <2>1. 0 \in 0 .. Len(Lista)
    BY LacoSnmpAssumption, LenProperties
  <2>2. LacoTypeOK
    BY <1>4, <2>1, ZenonT(60), ZenonT(90) DEF LacoTypeOK
  <2>3. SumCpuTypeOK
    BY VazioBoa DEF SumCpuTypeOK
  <2>4. QED
    BY <2>2, <2>3 DEF TypeOK
<1>6. InvMemoria
  BY <1>1, <1>2, VazioBoa, HistoricoAssumption DEF InvMemoria
<1>7. InvEscrita
  BY DEF InvEscrita
<1>8. InvSumario
  BY DEF InvSumario, Atras
<1>9. QED
  BY <1>5, <1>6, <1>7, <1>8 DEF Indutivo

\* Steps that leave the disk and the writer's memory alone, and do not move the
\* collector into the phases in which it holds a sample.
LEMMA PassoNeutro ==
  ASSUME Indutivo, UNCHANGED <<now, disco, amostra, inf, saida, w, ligado>>,
         UNCHANGED consolidador,
         LacoTypeOK',
         pc \notin {"le", "abre", "grava"},
         pc' \notin {"le", "abre", "grava"}
  PROVE  Indutivo'
<1> USE DEF disco, consolidador
<1>1. TypeOK'
  BY DEF Indutivo, TypeOK, SumCpuTypeOK
<1>2. InvMemoria'
  BY DEF Indutivo, InvMemoria
<1>3. InvEscrita'
  BY DEF Indutivo, InvEscrita
<1>4. InvSumario'
  BY DEF Indutivo, InvSumario, Atras
<1>5. QED
  BY <1>1, <1>2, <1>3, <1>4 DEF Indutivo

\* The collector's steps before it takes the sample.
LEMMA PassoLista ==
  ASSUME Indutivo, UNCHANGED consolidador,
         Inicia \/ Proximo \/ Termina \/ AbreSessao \/ SessaoIndefinida
  PROVE  Indutivo'
<1> USE DEF disco, escritor, coletor
<1>1. Len(Lista) \in Nat /\ \A k \in 1 .. Len(Lista) : Lista[k] \in Nome
  BY LacoSnmpAssumption, LenProperties, ElementOfSeq
<1>2. CASE Inicia
  <2>1. LacoTypeOK'
    BY <1>1, <1>2 DEF Inicia, Indutivo, TypeOK, LacoTypeOK, HistoricoTypeOK
  <2>2. QED
    BY <1>2, <2>1, PassoNeutro DEF Inicia
<1>3. CASE Proximo
  <2>1. i + 1 \in 1 .. Len(Lista) /\ hostname' \in Nome
    BY <1>1, <1>3 DEF Proximo, Indutivo, TypeOK, LacoTypeOK
  <2>2. LacoTypeOK'
    BY <1>1, <1>3, <2>1
    DEF Proximo, Indutivo, TypeOK, LacoTypeOK, HistoricoTypeOK
  <2>3. QED
    BY <1>3, <2>2, PassoNeutro DEF Proximo
<1>4. CASE Termina
  <2>1. LacoTypeOK'
    <3>1. HistoricoTypeOK'
      BY <1>4 DEF Termina, Indutivo, TypeOK, LacoTypeOK, HistoricoTypeOK
    <3>2. pc' = "fim" /\ i' = 0 /\ hostname' \in Nome
      BY <1>4 DEF Termina, Indutivo, TypeOK, LacoTypeOK
    <3>3. sessao' \in BOOLEAN
      BY <1>4, ZenonT(60), ZenonT(90) DEF Termina
    <3>4. QED
      BY <1>1, <3>1, <3>2, <3>3 DEF LacoTypeOK
  <2>2. QED
    BY <1>4, <2>1, PassoNeutro DEF Termina
<1>5. CASE AbreSessao
  <2>1. LacoTypeOK'
    BY <1>5 DEF AbreSessao, Indutivo, TypeOK, LacoTypeOK, HistoricoTypeOK
  <2>2. QED
    BY <1>5, <2>1, PassoNeutro DEF AbreSessao
<1>6. CASE SessaoIndefinida
  <2>1. LacoTypeOK'
    <3>1. HistoricoTypeOK'
      BY <1>6 DEF SessaoIndefinida, Indutivo, TypeOK, LacoTypeOK, HistoricoTypeOK
    <3>2. pc' = "fim" /\ i' = 0 /\ hostname' \in Nome
      BY <1>6 DEF SessaoIndefinida, Indutivo, TypeOK, LacoTypeOK
    <3>3. sessao' \in BOOLEAN
      BY <1>6, ZenonT(60), ZenonT(90) DEF SessaoIndefinida
    <3>4. QED
      BY <1>1, <3>1, <3>2, <3>3 DEF LacoTypeOK
  <2>2. QED
    BY <1>6, <2>1, PassoNeutro DEF SessaoIndefinida
<1>7. QED
  BY <1>2, <1>3, <1>4, <1>5, <1>6

\* Taking the sample: nothing on disk or reported is newer than now.
LEMMA PassoPede ==
  ASSUME Indutivo, UNCHANGED consolidador, Pede
  PROVE  Indutivo'
<1> USE DEF disco, consolidador, Pede, ResponseCheck
<1>1. /\ amostra' \in Linha /\ amostra'.inteira /\ amostra'.t = now
  <2>1. PICK v \in Valor : amostra' = Nova(now, v)
    OBVIOUS
  <2>2. QED
    BY <2>1, NovaTipo DEF Indutivo, TypeOK, LacoTypeOK, HistoricoTypeOK
<1>2. TypeOK'
  BY <1>1 DEF Indutivo, TypeOK, LacoTypeOK, HistoricoTypeOK, SumCpuTypeOK
<1>3. InvMemoria'
  <2>1. AteTempo(linhas[hostname], now)
    BY ColetaCpuAssumption
    DEF Indutivo, InvMemoria, TypeOK, LacoTypeOK, HistoricoTypeOK
  <2>2. now \in Nat
    BY DEF Indutivo, TypeOK, LacoTypeOK, HistoricoTypeOK
  <2>3. QED
    BY <1>1, <2>1, <2>2 DEF Indutivo, InvMemoria
<1>4. InvEscrita'
  BY DEF Indutivo, InvEscrita
<1>5. InvSumario'
  <2> SUFFICES ASSUME NEW x, NEW a, Atras(x, a)
               PROVE  Atras(x, a)'
    BY DEF Indutivo, InvSumario
  <2>1. QED
    BY <1>1 DEF Atras
<1>6. QED
  BY <1>2, <1>3, <1>4, <1>5 DEF Indutivo

\* Reading the old lines: they are a history of the disk.
LEMMA PassoLe ==
  ASSUME Indutivo, UNCHANGED consolidador, LeHistorico
  PROVE  Indutivo'
<1> USE DEF disco, consolidador, LeHistorico, Ler
<1>1. hostname \in Arq /\ linhas[hostname] \in Seq(Linha)
  BY ColetaCpuAssumption DEF Indutivo, TypeOK, LacoTypeOK, HistoricoTypeOK
<1>2. TypeOK'
  BY <1>1, ZenonT(60), ZenonT(90) DEF Indutivo, TypeOK, LacoTypeOK,
     HistoricoTypeOK, SumCpuTypeOK
<1>3. InvMemoria'
  BY <1>1 DEF Indutivo, InvMemoria
<1>4. InvEscrita'
  BY DEF Indutivo, InvEscrita
<1>5. InvSumario'
  BY DEF Indutivo, InvSumario, Atras
<1>6. QED
  BY <1>2, <1>3, <1>4, <1>5 DEF Indutivo

\* Opening the file for writing: the disk has an empty file, the memory a good
\* history whose first line is the sample.
LEMMA PassoAbre ==
  ASSUME Indutivo, UNCHANGED consolidador, AbreHistorico
  PROVE  Indutivo'
<1> USE DEF disco, consolidador, AbreHistorico, AbreEscrita
<1>1. /\ arq \in Arq /\ amostra \in Linha /\ inf \in Seq(Linha) /\ now \in Nat
      /\ Boa(inf) /\ AteTempo(inf, amostra.t) /\ amostra.inteira /\ amostra.t <= now
      /\ linhas \in [Arq -> Seq(Linha)]
  BY DEF Indutivo, TypeOK, LacoTypeOK, HistoricoTypeOK, InvMemoria
<1>2. /\ saida' \in Seq(Linha) /\ Boa(saida') /\ AteTempo(saida', now)
      /\ saida'[1] = amostra /\ Len(saida') \in Nat \ {0}
  BY <1>1, RenovaBoa, RenovaElementos, ZenonT(60), ZenonT(90)
<1>3. /\ amostra' \in Linha /\ amostra'.inteira /\ amostra'.t = 0
  BY NovaTipo, HistoricoAssumption
<1>4. /\ linhas' \in [Arq -> Seq(Linha)]
      /\ linhas'[arq] = <<>>
      /\ \A a \in Arq : a # arq => linhas'[a] = linhas[a]
  BY <1>1, VazioBoa
<1>5. TypeOK'
  <2>1. inf' \in Seq(Linha) /\ mtime' \in [Arq -> Nat] /\ dir' \subseteq Arq
    BY <1>1, VazioBoa DEF Indutivo, TypeOK, LacoTypeOK, HistoricoTypeOK
  <2>2. HistoricoTypeOK'
    BY <1>1, <1>2, <1>3, <1>4, <2>1
    DEF Indutivo, TypeOK, LacoTypeOK, HistoricoTypeOK
  <2>3. QED
    BY <2>2 DEF Indutivo, TypeOK, LacoTypeOK, SumCpuTypeOK
<1>6. InvMemoria'
  <2>1. \A a \in Arq : Boa(linhas'[a]) /\ AteTempo(linhas'[a], now)
    BY <1>4, VazioBoa DEF Indutivo, InvMemoria
  <2>2. Boa(inf') /\ AteTempo(inf', now)
    BY VazioBoa
  <2>3. QED
    BY <1>1, <1>2, <1>3, <2>1, <2>2 DEF Indutivo, InvMemoria
<1>7. InvEscrita'
  BY <1>2, <1>4 DEF InvEscrita
<1>8. InvSumario'
  <2>1. ASSUME NEW x, NEW a \in Arq, Atras(x, a), x # <<>>
        PROVE  /\ x[1].inteira
               /\ x[1].t <= now
               /\ linhas'[a] # <<>> => x[1].t <= linhas'[a][1].t
               /\ a = arq => x[1].t <= saida'[1].t
    BY <1>2, <1>4, <2>1 DEF Atras
  <2>2. dados \in Arq
    BY DEF Indutivo, TypeOK, SumCpuTypeOK
  <2>3. QED
    BY <2>1, <2>2, ZenonT(60), ZenonT(90) DEF Indutivo, InvSumario, Atras
<1>9. QED
  BY <1>5, <1>6, <1>7, <1>8 DEF Indutivo

\* Writing a good history that begins with the sample to the open file.
LEMMA GravaBoa ==
  ASSUME Indutivo, UNCHANGED <<now, consolidador, arq>>, pc = "grava",
         NEW c, Grava(c),
         c \in Seq(Linha), Boa(c), AteTempo(c, now), c # <<>>, c[1] = saida[1]
  PROVE  /\ linhas' \in [Arq -> Seq(Linha)]
         /\ mtime' \in [Arq -> Nat]
         /\ dir' \subseteq Arq
         /\ \A a \in Arq : Boa(linhas'[a]) /\ AteTempo(linhas'[a], now)
         /\ ligado => linhas'[arq] = c
         /\ ~ligado => linhas' = linhas
         /\ \A x, a : Atras(x, a) /\ a \in Arq /\ x # <<>> =>
              /\ x[1].inteira
              /\ x[1].t <= now
              /\ linhas'[a] # <<>> => x[1].t <= linhas'[a][1].t
<1> USE DEF disco
<1>1. /\ arq \in Arq /\ linhas \in [Arq -> Seq(Linha)] /\ mtime \in [Arq -> Nat]
      /\ now \in Nat /\ dir \subseteq Arq
      /\ \A a \in Arq : Boa(linhas[a]) /\ AteTempo(linhas[a], now)
  BY DEF Indutivo, TypeOK, LacoTypeOK, HistoricoTypeOK, InvMemoria
<1>2. CASE ligado
  <2>1. /\ linhas' = [linhas EXCEPT ![arq] = c]
        /\ mtime' = [mtime EXCEPT ![arq] = now]
        /\ dir' = dir
    BY <1>2 DEF Grava
  <2>2. linhas'[arq] = c /\ \A a \in Arq : a # arq => linhas'[a] = linhas[a]
    BY <1>1, <2>1
  <2>3. \A x, a : Atras(x, a) /\ a \in Arq /\ x # <<>> =>
              /\ x[1].inteira
              /\ x[1].t <= now
              /\ linhas'[a] # <<>> => x[1].t <= linhas'[a][1].t
    BY <2>2 DEF Atras
  <2>4. QED
    BY <1>1, <1>2, <2>1, <2>2, <2>3
<1>3. CASE ~ligado
  BY <1>1, <1>3 DEF Grava, Atras
<1>4. QED
  BY <1>2, <1>3 DEF Indutivo, TypeOK, LacoTypeOK, HistoricoTypeOK

\* A full buffer reaches the disk.
LEMMA PassoDescarrega ==
  ASSUME Indutivo, UNCHANGED consolidador, DescarregaHistorico
  PROVE  Indutivo'
<1> USE DEF consolidador, coletor, DescarregaHistorico, Descarrega
<1>1. PICK corta \in BOOLEAN : Grava(Pedaco(saida, w + Bloco, corta))
  OBVIOUS
<1>2. /\ saida \in Seq(Linha) /\ Boa(saida) /\ AteTempo(saida, now) /\ now \in Nat
      /\ w + Bloco \in Nat \ {0} /\ w + Bloco < Len(saida) /\ w \in Nat
  BY HistoricoAssumption
  DEF Indutivo, TypeOK, LacoTypeOK, HistoricoTypeOK, InvMemoria
<1> DEFINE c == Pedaco(saida, w + Bloco, corta)
<1>3. c \in Seq(Linha) /\ Boa(c) /\ AteTempo(c, now) /\ c # <<>> /\ c[1] = saida[1]
  BY <1>2, PedacoBoa
<1> HIDE DEF c
<1>4. Grava(c)
  BY <1>1 DEF c
<1>5. /\ linhas' \in [Arq -> Seq(Linha)]
      /\ mtime' \in [Arq -> Nat]
      /\ dir' \subseteq Arq
      /\ \A a \in Arq : Boa(linhas'[a]) /\ AteTempo(linhas'[a], now)
      /\ ligado => linhas'[arq] = c
      /\ ~ligado => linhas' = linhas
      /\ \A x, a : Atras(x, a) /\ a \in Arq /\ x # <<>> =>
           /\ x[1].inteira
           /\ x[1].t <= now
           /\ linhas'[a] # <<>> => x[1].t <= linhas'[a][1].t
  BY <1>3, <1>4, GravaBoa
<1>6. TypeOK'
  BY <1>2, <1>5, ZenonT(60), ZenonT(90)
  DEF Indutivo, TypeOK, LacoTypeOK, HistoricoTypeOK, SumCpuTypeOK
<1>7. InvMemoria'
  BY <1>5 DEF Indutivo, InvMemoria
<1>8. InvEscrita'
  <2>1. ligado => \E z \in BOOLEAN : linhas'[arq] = Pedaco(saida, w', z)
    BY <1>5, ZenonT(60), ZenonT(90) DEF c
  <2>2. QED
    BY <1>2, <1>5, <2>1 DEF Indutivo, InvEscrita
<1>9. InvSumario'
  <2>1. dados \in Arq
    BY DEF Indutivo, TypeOK, SumCpuTypeOK
  <2>2. QED
    BY <1>5, <2>1, ZenonT(60), ZenonT(90) DEF Indutivo, InvSumario, Atras
<1>10. QED
  BY <1>6, <1>7, <1>8, <1>9 DEF Indutivo

\* close: the file is the complete new history.
LEMMA PassoFecha ==
  ASSUME Indutivo, UNCHANGED consolidador, FechaHistorico
  PROVE  Indutivo'
<1> USE DEF consolidador, FechaHistorico, Fecha
<1>1. /\ saida \in Seq(Linha) /\ Boa(saida) /\ AteTempo(saida, now) /\ now \in Nat
      /\ w \in Nat /\ w < Len(saida)
  BY DEF Indutivo, TypeOK, LacoTypeOK, HistoricoTypeOK, InvMemoria, InvEscrita
<1>2. saida # <<>>
  BY <1>1
<1>3. /\ linhas' \in [Arq -> Seq(Linha)]
      /\ mtime' \in [Arq -> Nat]
      /\ dir' \subseteq Arq
      /\ \A a \in Arq : Boa(linhas'[a]) /\ AteTempo(linhas'[a], now)
      /\ \A x, a : Atras(x, a) /\ a \in Arq /\ x # <<>> =>
           /\ x[1].inteira
           /\ x[1].t <= now
           /\ linhas'[a] # <<>> => x[1].t <= linhas'[a][1].t
  BY <1>1, <1>2, GravaBoa
<1>4. TypeOK'
  BY <1>3, VazioBoa, ZenonT(60), ZenonT(90)
  DEF Indutivo, TypeOK, LacoTypeOK, HistoricoTypeOK, SumCpuTypeOK
<1>5. InvMemoria'
  <2>1. Boa(saida') /\ AteTempo(saida', now)
    BY VazioBoa
  <2>2. QED
    BY <1>3, <2>1 DEF Indutivo, InvMemoria
<1>6. InvEscrita'
  BY DEF InvEscrita
<1>7. InvSumario'
  <2>1. dados \in Arq
    BY DEF Indutivo, TypeOK, SumCpuTypeOK
  <2>2. QED
    BY <1>3, <2>1, ZenonT(60), ZenonT(90) DEF Indutivo, InvSumario, Atras
<1>8. QED
  BY <1>4, <1>5, <1>6, <1>7 DEF Indutivo

\* The collector is killed: the disk keeps whatever it holds.
LEMMA PassoMorre ==
  ASSUME Indutivo, UNCHANGED consolidador, Morre
  PROVE  Indutivo'
<1> USE DEF disco, consolidador, Morre, Encerra
<1>1. /\ amostra' \in Linha /\ amostra'.inteira /\ amostra'.t = 0
  BY NovaTipo, HistoricoAssumption
<1>2. /\ inf' \in Seq(Linha) /\ Boa(inf') /\ AteTempo(inf', now)
      /\ saida' \in Seq(Linha) /\ Boa(saida') /\ AteTempo(saida', now)
  BY VazioBoa
<1>3. 0 \in 0 .. Len(Lista)
  BY LacoSnmpAssumption, LenProperties
<1>4. TypeOK'
  BY <1>1, <1>2, <1>3, ZenonT(60), ZenonT(90)
  DEF Indutivo, TypeOK, LacoTypeOK, HistoricoTypeOK, SumCpuTypeOK
<1>5. InvMemoria'
  <2>1. 0 <= now
    BY DEF Indutivo, TypeOK, LacoTypeOK, HistoricoTypeOK
  <2>2. QED
    BY <1>1, <1>2, <2>1 DEF Indutivo, InvMemoria
<1>6. InvEscrita'
  BY DEF InvEscrita
<1>7. InvSumario'
  BY DEF Indutivo, InvSumario, Atras
<1>8. QED
  BY <1>4, <1>5, <1>6, <1>7 DEF Indutivo

\* Time passes.
LEMMA PassoTick ==
  ASSUME Indutivo, UNCHANGED <<coletor, consolidador>>, Tick
  PROVE  Indutivo'
<1> USE DEF disco, escritor, coletor, consolidador, Tick
<1>1. now \in Nat /\ MaxT \in Nat /\ linhas \in [Arq -> Seq(Linha)]
  BY HistoricoAssumption DEF Indutivo, TypeOK, LacoTypeOK, HistoricoTypeOK
<1>2. ASSUME NEW x \in Seq(Linha), AteTempo(x, now)
      PROVE  AteTempo(x, now')
  <2>1. \A k \in 1 .. Len(x) : x[k].t \in Nat
    <3>1. \A k \in 1 .. Len(x) : x[k] \in Linha
      BY ElementOfSeq
    <3>2. QED
      BY <3>1 DEF Linha
  <2>2. QED
    BY <1>1, <1>2, <2>1 DEF AteTempo
<1>3. TypeOK'
  BY DEF Indutivo, TypeOK, LacoTypeOK, HistoricoTypeOK, SumCpuTypeOK
<1>4. InvMemoria'
  <2>1. \A a \in Arq : Boa(linhas[a]) /\ AteTempo(linhas[a], now')
    BY <1>1, <1>2 DEF Indutivo, InvMemoria
  <2>2. AteTempo(inf, now') /\ AteTempo(saida, now')
    BY <1>2 DEF Indutivo, InvMemoria, TypeOK, LacoTypeOK, HistoricoTypeOK
  <2>3. amostra.t <= now' /\ now' <= MaxT
    BY <1>1 DEF Indutivo, InvMemoria, TypeOK, LacoTypeOK, HistoricoTypeOK, Linha
  <2>4. QED
    BY <2>1, <2>2, <2>3 DEF Indutivo, InvMemoria
<1>5. InvEscrita'
  BY ZenonT(60), ZenonT(90) DEF Indutivo, InvEscrita, Pedaco
<1>6. InvSumario'
  <2>1. ASSUME NEW x \in Seq(Linha), NEW a, Atras(x, a), x # <<>>
        PROVE  x[1].t <= now'
    <3>1. x[1] \in Linha
      BY <2>1
    <3>2. QED
      BY <1>1, <2>1, <3>1 DEF Atras, Linha
  <2>2. /\ \A a \in Arq : sum[a] \in Seq(Linha)
        /\ rttx \in Seq(Linha)
    BY DEF Indutivo, TypeOK, SumCpuTypeOK
  <2>3. QED
    BY <2>1, <2>2 DEF Indutivo, InvSumario, Atras
<1>7. QED
  BY <1>3, <1>4, <1>5, <1>6 DEF Indutivo

\* The consolidation reads, compares and removes; a line it reports was the first
\* of its file.
LEMMA PassoConsolidador ==
  ASSUME Indutivo, UNCHANGED coletor, SumCpuNext
  PROVE  Indutivo'
<1> USE DEF disco, escritor, coletor
<1>1. /\ linhas \in [Arq -> Seq(Linha)] /\ now \in Nat /\ dados \in Arq
      /\ rttx \in Seq(Linha) /\ sum \in [Arq -> Seq(Linha)]
      /\ resta \subseteq Arq /\ dir \subseteq Arq
  BY DEF Indutivo, TypeOK, LacoTypeOK, HistoricoTypeOK, SumCpuTypeOK
<1>2. CASE SInicia
  <2>1. TypeOK'
    BY <1>1, <1>2, VazioBoa
    DEF SInicia, Indutivo, TypeOK, LacoTypeOK, HistoricoTypeOK, SumCpuTypeOK
  <2>2. InvMemoria' /\ InvEscrita'
    BY <1>2 DEF SInicia, Indutivo, InvMemoria, InvEscrita
  <2>3. InvSumario'
    BY <1>2 DEF SInicia, Indutivo, InvSumario, Atras
  <2>4. QED
    BY <2>1, <2>2, <2>3 DEF Indutivo
<1>3. CASE SLe
  <2>1. PICK a \in resta :
          /\ resta' = resta \ {a}
          /\ dados' = a
          /\ rttx' = SubSeq(linhas[a], 1, Menor(Len(linhas[a]), 1))
    BY <1>3, ZenonT(60), ZenonT(90) DEF SLe
  <2>2. a \in Arq /\ linhas[a] \in Seq(Linha) /\ Len(linhas[a]) \in Nat
    BY <1>1, LenProperties
  <2>3. /\ rttx' \in Seq(Linha)
        /\ rttx' # <<>> => linhas[a] # <<>> /\ rttx'[1] = linhas[a][1]
                           /\ 1 \in 1 .. Len(linhas[a])
    <3>1. CASE linhas[a] = <<>>
      BY <2>1, <2>2, <3>1, SubSeqEmpty, VazioBoa DEF Menor
    <3>2. CASE linhas[a] # <<>>
      <4>1. Len(linhas[a]) >= 1 /\ Menor(Len(linhas[a]), 1) = 1
        <5>1. Len(linhas[a]) \in Nat \ {0}
          BY <2>2, <3>2, EmptySeq
        <5>2. \A n \in Nat \ {0} : n >= 1 /\ Menor(n, 1) = 1
          BY DEF Menor
        <5>3. QED
          BY <5>1, <5>2
      <4>2. \A k \in 1 .. 1 : linhas[a][k] \in Linha
        BY <2>2, <4>1, ElementOfSeq
      <4>3. /\ SubSeq(linhas[a], 1, 1) \in Seq(Linha)
            /\ \A k \in 1 .. 1 - 1 + 1 :
                 SubSeq(linhas[a], 1, 1)[k] = linhas[a][1 + k - 1]
        BY ONLY <4>2, SubSeqProperties
      <4>4. rttx' = SubSeq(linhas[a], 1, 1)
        BY <2>1, <4>1
      <4>5. SubSeq(linhas[a], 1, 1)[1] = linhas[a][1]
        BY <4>3
      <4>6. 1 \in 1 .. Len(linhas[a])
        BY <2>2, <4>1
      <4>7. QED
        BY <3>2, <4>3, <4>4, <4>5, <4>6
    <3>3. QED
      BY <3>1, <3>2
  <2>4. TypeOK'
    BY <1>1, <1>3, <2>1, <2>3, ZenonT(60), ZenonT(90)
    DEF SLe, Indutivo, TypeOK, LacoTypeOK, HistoricoTypeOK, SumCpuTypeOK
  <2>5. InvMemoria' /\ InvEscrita'
    BY <1>3 DEF SLe, Indutivo, InvMemoria, InvEscrita
  <2>6. Atras(rttx, dados)'
    <3> SUFFICES ASSUME rttx' # <<>>
                 PROVE  Atras(rttx, dados)'
      BY DEF Atras
    <3>1. /\ rttx'[1] = linhas[a][1] /\ 1 \in 1 .. Len(linhas[a])
          /\ linhas[a][1] \in Linha
      BY <2>2, <2>3, ElementOfSeq
    <3>2. linhas[a][1].t <= now
      BY <2>2, <3>1 DEF Indutivo, InvMemoria, AteTempo
    <3>3. linhas[a][1].inteira
      BY <2>2, <3>1 DEF Indutivo, InvMemoria, Boa, FimRasgado
    <3>4. /\ pc = "le" /\ a = hostname => linhas[a][1].t <= amostra.t
          /\ pc = "abre" /\ a = arq => linhas[a][1].t <= amostra.t
      BY <2>2, <3>1 DEF Indutivo, InvMemoria, AteTempo
    <3>5. pc = "grava" /\ a = arq => linhas[a][1].t <= saida[1].t
      <4> SUFFICES ASSUME pc = "grava", a = arq
                   PROVE  linhas[a][1].t <= saida[1].t
        OBVIOUS
      <4>1. /\ saida \in Seq(Linha) /\ Boa(saida) /\ AteTempo(saida, now)
            /\ w \in Nat /\ w < Len(saida)
        BY DEF Indutivo, TypeOK, LacoTypeOK, HistoricoTypeOK, InvMemoria, InvEscrita
      <4>2. ligado /\ w # 0
        BY <2>3, <4>1 DEF Indutivo, InvEscrita
      <4>3. PICK corta \in BOOLEAN : linhas[arq] = Pedaco(saida, w, corta)
        BY <4>1, <4>2 DEF Indutivo, InvEscrita
      <4>4. linhas[arq][1] = saida[1]
        BY <1>1, <4>1, <4>2, <4>3, PedacoBoa
      <4>5. QED
        BY <3>1, <4>4 DEF Linha
    <3>6. linhas[a][1].t <= linhas[a][1].t
      BY <3>1 DEF Linha
    <3>7. QED
      BY <1>3, <2>1, <3>1, <3>2, <3>3, <3>4, <3>5, <3>6, ZenonT(60), ZenonT(90)
      DEF SLe, Atras
  <2>7. InvSumario'
    BY <1>3, <2>6, ZenonT(60), ZenonT(90) DEF SLe, Indutivo, InvSumario, Atras
  <2>8. QED
    BY <2>4, <2>5, <2>7 DEF Indutivo
<1>4. CASE SImprime
  <2>1. TypeOK'
    BY <1>1, <1>4, VazioBoa
    DEF SImprime, Indutivo, TypeOK, LacoTypeOK, HistoricoTypeOK, SumCpuTypeOK
  <2>2. InvMemoria' /\ InvEscrita'
    BY <1>4 DEF SImprime, Indutivo, InvMemoria, InvEscrita
  <2>3. InvSumario'
    BY <1>1, <1>4, ZenonT(60), ZenonT(90) DEF SImprime, Indutivo, InvSumario, Atras
  <2>4. QED
    BY <2>1, <2>2, <2>3 DEF Indutivo
<1>5. CASE SVencido
  <2>1. TypeOK'
    BY <1>1, <1>5, VazioBoa
    DEF SVencido, Indutivo, TypeOK, LacoTypeOK, HistoricoTypeOK, SumCpuTypeOK
  <2>2. InvMemoria' /\ InvEscrita'
    BY <1>5 DEF SVencido, Indutivo, InvMemoria, InvEscrita
  <2>3. InvSumario'
    BY <1>5 DEF SVencido, Indutivo, InvSumario, Atras
  <2>4. QED
    BY <2>1, <2>2, <2>3 DEF Indutivo
<1>6. CASE SRemove
  <2>1. /\ linhas' \in [Arq -> Seq(Linha)]
        /\ linhas'[dados] = <<>>
        /\ \A a \in Arq : a # dados => linhas'[a] = linhas[a]
        /\ ligado' = (ligado /\ arq # dados)
    BY <1>1, <1>6, VazioBoa DEF SRemove, Remove
  <2>2. TypeOK'
    BY <1>1, <1>6, <2>1
    DEF SRemove, Remove, Indutivo, TypeOK, LacoTypeOK, HistoricoTypeOK, SumCpuTypeOK
  <2>3. InvMemoria'
    <3>1. \A a \in Arq : Boa(linhas'[a]) /\ AteTempo(linhas'[a], now)
      BY <2>1, VazioBoa DEF Indutivo, InvMemoria
    <3>2. /\ pc = "le" => AteTempo(linhas'[hostname], amostra.t)
          /\ pc = "abre" => AteTempo(linhas'[arq], amostra.t)
      BY <2>1, VazioBoa, ColetaCpuAssumption, ZenonT(60), ZenonT(90)
      DEF Indutivo, InvMemoria, TypeOK, LacoTypeOK, HistoricoTypeOK
    <3>3. QED
      BY <1>6, <3>1, <3>2 DEF SRemove, Remove, Indutivo, InvMemoria
  <2>4. InvEscrita'
    BY <1>6, <2>1, ZenonT(60), ZenonT(90)
    DEF SRemove, Remove, Indutivo, InvEscrita, TypeOK, LacoTypeOK, HistoricoTypeOK
  <2>5. InvSumario'
    BY <1>1, <1>6, <2>1, ZenonT(60), ZenonT(90)
    DEF SRemove, Remove, Indutivo, InvSumario, Atras
  <2>6. QED
    BY <2>2, <2>3, <2>4, <2>5 DEF Indutivo
<1>7. CASE STermina
  <2>1. TypeOK'
    BY <1>7
    DEF STermina, Indutivo, TypeOK, LacoTypeOK, HistoricoTypeOK, SumCpuTypeOK
  <2>2. InvMemoria' /\ InvEscrita'
    BY <1>7 DEF STermina, Indutivo, InvMemoria, InvEscrita
  <2>3. InvSumario'
    BY <1>7 DEF STermina, Indutivo, InvSumario, Atras
  <2>4. QED
    BY <2>1, <2>2, <2>3 DEF Indutivo
<1>8. QED
  BY <1>2, <1>3, <1>4, <1>5, <1>6, <1>7 DEF SumCpuNext

\* The invariant is preserved by every step of the system.
LEMMA PassoIndutivo == Indutivo /\ [Next]_vars => Indutivo'
<1> SUFFICES ASSUME Indutivo, [Next]_vars PROVE Indutivo'
  OBVIOUS
<1>1. CASE ColetaCpuNext /\ UNCHANGED consolidador
  BY <1>1, PassoLista, PassoPede, PassoLe, PassoAbre, PassoDescarrega, PassoFecha,
     PassoMorre DEF ColetaCpuNext, LacoNext
<1>2. CASE SumCpuNext /\ UNCHANGED coletor
  BY <1>2, PassoConsolidador
<1>3. CASE Tick /\ UNCHANGED <<coletor, consolidador>>
  BY <1>3, PassoTick
<1>4. CASE UNCHANGED vars
  <2> USE <1>4 DEF vars, disco, escritor, coletor, consolidador
  <2>1. TypeOK'
    BY DEF Indutivo, TypeOK, LacoTypeOK, HistoricoTypeOK, SumCpuTypeOK
  <2>2. InvMemoria'
    BY DEF Indutivo, InvMemoria
  <2>3. InvEscrita'
    BY DEF Indutivo, InvEscrita
  <2>4. InvSumario'
    BY DEF Indutivo, InvSumario, Atras
  <2>5. QED
    BY <2>1, <2>2, <2>3, <2>4 DEF Indutivo
<1>5. QED
  BY <1>1, <1>2, <1>3, <1>4 DEF Next

\* The inductive invariant holds in every reachable state of the system.
THEOREM SempreIndutivo == Spec => []Indutivo
BY InitIndutivo, PassoIndutivo, PTL DEF Spec

\* Every variable keeps its type, for every list of hosts and every directory.
THEOREM TipoCorreto == Spec => []TypeOK
<1>1. Indutivo => TypeOK
  BY DEF Indutivo
<1>2. QED
  BY <1>1, SempreIndutivo, PTL

\* The copy loop bounds every history, whatever the interleaving and the kills.
THEOREM LimiteVale == Spec => []Limite
<1>1. Indutivo => Limite
  BY ZenonT(60), ZenonT(90) DEF Indutivo, InvMemoria, Boa, Limite
<1>2. QED
  BY <1>1, SempreIndutivo, PTL

\* Only the last line of a file can be without its end, and never the first.
THEOREM SoUltimaRasgadaVale == Spec => []SoUltimaRasgada
<1>1. Indutivo => SoUltimaRasgada
  BY ZenonT(60), ZenonT(90) DEF Indutivo, InvMemoria, Boa, SoUltimaRasgada
<1>2. QED
  BY <1>1, SempreIndutivo, PTL

\* Histories are ordered, newest first, at every moment.
THEOREM OrdemVale == Spec => []Ordem
<1>1. Indutivo => Ordem
  BY ZenonT(60), ZenonT(90) DEF Indutivo, InvMemoria, Boa, Ordem
<1>2. QED
  BY <1>1, SempreIndutivo, PTL

\* sum_cpu.txt holds whole lines that are not newer than the histories.
THEOREM SumarioNaoAdianteVale == Spec => []SumarioNaoAdiante
<1>1. Indutivo => SumarioNaoAdiante
  <2> SUFFICES ASSUME Indutivo, NEW a \in Arq, sum[a] # <<>>
               PROVE  /\ sum[a][1].inteira
                      /\ linhas[a] # <<>> => linhas[a][1].t >= sum[a][1].t
    BY DEF SumarioNaoAdiante
  <2>1. Atras(sum[a], a)
    BY DEF Indutivo, InvSumario
  <2>2. /\ sum[a] \in Seq(Linha)
        /\ linhas[a] \in Seq(Linha)
    BY DEF Indutivo, TypeOK, LacoTypeOK, HistoricoTypeOK, SumCpuTypeOK
  <2>3. sum[a][1] \in Linha /\ (linhas[a] # <<>> => linhas[a][1] \in Linha)
    BY <2>2
  <2>4. QED
    BY <2>1, <2>3 DEF Atras, Linha
<1>2. QED
  BY <1>1, SempreIndutivo, PTL
-------------------------------------------------------------------------------
(* Refinement: the system implements Registro.                                 *)

H == [a \in Arq |-> Historia(a)]

\* The copy loop of the program keeps the newest samples Registro keeps.
LEMMA RenovaRecentes ==
  ASSUME NEW s \in Linha, NEW v \in Seq(Linha)
  PROVE  Renova(s, v) = Abstrato!Recentes(<<s>> \o v, HistMax + 2)
BY RenovaCorte, ZenonT(60), ZenonT(90) DEF Abstrato!Recentes

\* The initial files are initial histories of Registro.
LEMMA InitRegistro == Init => Abstrato!RegistroInit
<1> SUFFICES ASSUME Init PROVE Abstrato!RegistroInit
  OBVIOUS
<1> USE DEF Init, LacoInit, HistoricoInit
<1>1. Nova(0, SemResposta) \in {x \in Abstrato!Amostra : x.inteira}
  BY HistoricoAssumption DEF Nova, Abstrato!Amostra
<1>2. ASSUME NEW a \in Arq
      PROVE  Historia(a) \in {<<>>} \cup
               {<<s>> : s \in {x \in Abstrato!Amostra : x.inteira}}
  BY <1>1, <1>2 DEF Historia
<1>3. QED
  BY <1>2 DEF Abstrato!RegistroInit

\* A step that changes the history of no file is a stuttering step of Registro.
LEMMA MesmaHistoria ==
  ASSUME \A a \in Arq : Historia(a)' = Historia(a)
  PROVE  H' = H
BY DEF H

\* A step that changes the history of one file only.
LEMMA UmaHistoria ==
  ASSUME NEW b \in Arq, NEW h, Historia(b)' = h,
         \A a \in Arq \ {b} : Historia(a)' = Historia(a)
  PROVE  H' = [H EXCEPT ![b] = h]
BY ZenonT(60), ZenonT(90) DEF H

\* Opening a file for writing records the sample.
LEMMA AbreRegistra ==
  ASSUME Indutivo, AbreHistorico
  PROVE  Abstrato!RegistroNext
<1> USE DEF AbreHistorico, AbreEscrita
<1>1. /\ arq \in Arq /\ amostra \in Linha /\ inf \in Seq(Linha)
      /\ linhas \in [Arq -> Seq(Linha)] /\ now \in Nat
      /\ amostra.inteira /\ amostra.t <= now /\ now <= MaxT
      /\ AteTempo(inf, amostra.t)
  BY DEF Indutivo, TypeOK, LacoTypeOK, HistoricoTypeOK, InvMemoria
<1>2. H[arq] = inf
  BY <1>1 DEF H, Historia
<1>3. H' = [H EXCEPT ![arq] = Abstrato!Recentes(<<amostra>> \o H[arq], HistMax + 2)]
  <2>1. Historia(arq)' = Renova(amostra, inf)
    BY DEF Historia
  <2>2. \A a \in Arq \ {arq} : Historia(a)' = Historia(a)
    BY <1>1 DEF Historia
  <2>3. QED
    BY <1>1, <1>2, <2>1, <2>2, RenovaRecentes, UmaHistoria
<1>4. amostra \in Abstrato!Amostra
  BY <1>1, HistoricoAssumption DEF Linha, Abstrato!Amostra
<1>5. H[arq] # <<>> => amostra.t >= H[arq][1].t
  <2> SUFFICES ASSUME inf # <<>> PROVE amostra.t >= inf[1].t
    BY <1>2
  <2>1. 1 \in 1 .. Len(inf) /\ inf[1] \in Linha
    BY <1>1
  <2>2. QED
    BY <1>1, <2>1 DEF AteTempo, Linha
<1>6. Abstrato!Registra(arq)
  BY <1>1, <1>3, <1>4, <1>5, ZenonT(60), ZenonT(90) DEF Abstrato!Registra, H
<1>7. QED
  BY <1>1, <1>6 DEF Abstrato!RegistroNext

\* Killing the collector loses at most the oldest lines.
LEMMA MorrePerde ==
  ASSUME Indutivo, Morre
  PROVE  Abstrato!RegistroNext \/ H' = H
<1> USE DEF Morre, Encerra, disco
<1>1. /\ arq \in Arq /\ saida \in Seq(Linha) /\ w \in Nat
      /\ linhas \in [Arq -> Seq(Linha)]
  BY DEF Indutivo, TypeOK, LacoTypeOK, HistoricoTypeOK
<1>2. /\ Historia(arq)' = linhas[arq]
      /\ \A a \in Arq \ {arq} : Historia(a)' = Historia(a)
  BY <1>1 DEF Historia
<1>3. H' = [H EXCEPT ![arq] = linhas[arq]]
  BY <1>1, <1>2, UmaHistoria
<1>4. CASE linhas[arq] = <<>>
  BY <1>1, <1>3, <1>4, ZenonT(60), ZenonT(90)
  DEF Abstrato!RegistroNext, Abstrato!Remove, H
<1>5. CASE linhas[arq] # <<>> /\ ~(pc = "grava" /\ ligado)
  <2>1. Historia(arq) = linhas[arq]
    BY <1>5 DEF Historia, Indutivo, InvEscrita
  <2>2. QED
    BY <1>2, <2>1, MesmaHistoria
<1>6. CASE linhas[arq] # <<>> /\ pc = "grava" /\ ligado
  <2>1. w # 0 /\ w < Len(saida)
    BY <1>6 DEF Indutivo, InvEscrita
  <2>2. PICK corta \in BOOLEAN : linhas[arq] = Pedaco(saida, w, corta)
    BY <1>1, <1>6, <2>1 DEF Indutivo, InvEscrita
  <2>3. H[arq] = saida
    BY <1>1, <1>6 DEF H, Historia
  <2>4. /\ w \in 0 .. Len(saida)
        /\ linhas[arq] =
             IF corta THEN Append(SubSeq(saida, 1, w),
                                  [saida[w + 1] EXCEPT !.inteira = FALSE])
             ELSE SubSeq(saida, 1, w)
    <3>1. w \in 0 .. Len(saida)
      BY <1>1, <2>1, LenProperties
    <3>2. QED
      BY <1>1, <2>1, <2>2, <3>1, PedacoPerda, ZenonT(60), ZenonT(90)
  <2>5. 0 < w
    BY <1>1, <2>1
  <2>6. Abstrato!Perde(arq)
    BY <1>3, <2>1, <2>3, <2>4, <2>5, ZenonT(60), ZenonT(90) DEF Abstrato!Perde, H
  <2>7. QED
    BY <1>1, <2>6 DEF Abstrato!RegistroNext
<1>7. QED
  BY <1>4, <1>5, <1>6

\* The other steps of the collector change no history.
LEMMA ColetorMantem ==
  ASSUME Indutivo,
         \/ Inicia \/ Proximo \/ Termina \/ AbreSessao \/ SessaoIndefinida
         \/ Pede \/ LeHistorico \/ DescarregaHistorico \/ FechaHistorico
  PROVE  H' = H
<1> USE DEF disco, escritor, coletor
<1>0. arq \in Arq /\ linhas \in [Arq -> Seq(Linha)]
  BY DEF Indutivo, TypeOK, LacoTypeOK, HistoricoTypeOK
<1> SUFFICES \A a \in Arq : Historia(a)' = Historia(a)
  BY MesmaHistoria
<1>1. CASE Inicia
  BY <1>1 DEF Inicia, Historia
<1>2. CASE Proximo
  BY <1>2 DEF Proximo, Historia
<1>3. CASE Termina
  BY <1>3 DEF Termina, Historia
<1>4. CASE AbreSessao
  BY <1>4 DEF AbreSessao, Historia
<1>5. CASE SessaoIndefinida
  BY <1>5 DEF SessaoIndefinida, Historia
<1>6. CASE Pede
  BY <1>6 DEF Pede, Historia
<1>7. CASE LeHistorico
  BY <1>7 DEF LeHistorico, Ler, Historia
<1>8. CASE DescarregaHistorico
  <2>1. \A a \in Arq : ~(a = arq /\ ligado) => linhas'[a] = linhas[a]
    BY <1>0, <1>8 DEF DescarregaHistorico, Descarrega, Grava
  <2>2. QED
    BY <1>8, <2>1, ZenonT(60), ZenonT(90)
    DEF DescarregaHistorico, Descarrega, Historia
<1>9. CASE FechaHistorico
  <2>1. /\ \A a \in Arq : ~(a = arq /\ ligado) => linhas'[a] = linhas[a]
        /\ ligado => linhas'[arq] = saida
    BY <1>0, <1>9 DEF FechaHistorico, Fecha, Grava
  <2>2. QED
    BY <1>9, <2>1 DEF FechaHistorico, Fecha, Historia
<1>10. QED
  BY <1>1, <1>2, <1>3, <1>4, <1>5, <1>6, <1>7, <1>8, <1>9

\* The consolidation changes a history only by removing it.
LEMMA ConsolidadorRemove ==
  ASSUME Indutivo, UNCHANGED coletor, SumCpuNext
  PROVE  Abstrato!RegistroNext \/ H' = H
<1> USE DEF disco, escritor, coletor
<1>1. dados \in Arq /\ linhas \in [Arq -> Seq(Linha)]
  BY DEF Indutivo, TypeOK, LacoTypeOK, HistoricoTypeOK, SumCpuTypeOK
<1>2. CASE SInicia \/ SLe \/ SImprime \/ SVencido \/ STermina
  <2>1. \A a \in Arq : Historia(a)' = Historia(a)
    BY <1>2 DEF SInicia, SLe, SImprime, SVencido, STermina, Historia
  <2>2. QED
    BY <2>1, MesmaHistoria
<1>3. CASE SRemove
  <2>1. /\ linhas'[dados] = <<>>
        /\ \A a \in Arq : a # dados => linhas'[a] = linhas[a]
        /\ ligado' = (ligado /\ arq # dados)
        /\ UNCHANGED <<arq, inf, saida, pc, dados>>
    BY <1>1, <1>3 DEF SRemove, Remove
  <2>2. \A a \in Arq \ {dados} : Historia(a)' = Historia(a)
    BY <2>1, ZenonT(60), ZenonT(90) DEF Historia
  <2>3. CASE pc = "abre" /\ dados = arq
    <3>1. Historia(dados)' = Historia(dados)
      BY <2>1, <2>3 DEF Historia
    <3>2. QED
      BY <2>1, <2>2, <3>1, MesmaHistoria
  <2>4. CASE ~(pc = "abre" /\ dados = arq)
    <3>1. Historia(dados)' = <<>>
      BY <2>1, <2>4, ZenonT(60), ZenonT(90) DEF Historia
    <3>2. H' = [H EXCEPT ![dados] = <<>>]
      BY <1>1, <2>1, <2>2, <3>1, UmaHistoria
    <3>3. QED
      BY <1>1, <3>2, ZenonT(60), ZenonT(90)
      DEF Abstrato!RegistroNext, Abstrato!Remove, H
  <2>5. QED
    BY <2>3, <2>4
<1>4. QED
  BY <1>2, <1>3 DEF SumCpuNext

\* Every step of the system is a step of Registro or changes no history.
LEMMA PassoRegistro ==
  Indutivo /\ [Next]_vars => [Abstrato!RegistroNext]_H
<1> SUFFICES ASSUME Indutivo, [Next]_vars
             PROVE  Abstrato!RegistroNext \/ H' = H
  OBVIOUS
<1>1. CASE ColetaCpuNext /\ UNCHANGED consolidador
  BY <1>1, ColetorMantem, AbreRegistra, MorrePerde DEF ColetaCpuNext, LacoNext
<1>2. CASE SumCpuNext /\ UNCHANGED coletor
  BY <1>2, ConsolidadorRemove
<1>3. CASE (Tick /\ UNCHANGED <<coletor, consolidador>>) \/ UNCHANGED vars
  <2>1. \A a \in Arq : Historia(a)' = Historia(a)
    BY <1>3 DEF Tick, vars, disco, escritor, coletor, Historia
  <2>2. QED
    BY <2>1, MesmaHistoria
<1>4. QED
  BY <1>1, <1>2, <1>3 DEF Next

\* The collector, its crashes and the consolidation implement Registro: readers
\* of the directory see histories that only grow in front, are removed as a
\* whole or, after a kill, lose their oldest lines.
THEOREM ImplementaRegistroVale == Spec => ImplementaRegistro
<1>1. Init => Abstrato!RegistroInit
  BY InitRegistro
<1>2. Indutivo /\ [Next]_vars =>
        [Abstrato!RegistroNext]_[a \in Arq |-> Historia(a)]
  BY PassoRegistro DEF H
<1>3. QED
  BY <1>1, <1>2, SempreIndutivo, PTL
  DEF Spec, ImplementaRegistro, Abstrato!RegistroSpec
===============================================================================
