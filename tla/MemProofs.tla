------------------------------- MODULE MemProofs -------------------------------
(* Proofs about Mem, for every list, set of pools and sensors, buffer size and *)
(* history limit, with and without kills.                                      *)
EXTENDS Mem, HistoricoProofs

\* A leaf is tried with SMT, with Zenon, and with SMT again, unless it names a prover.
USE SMTT(20), ZenonT(20), SMTT(90)

-------------------------------------------------------------------------------
(* The time the collector prints.                                              *)

\* What is not newer than one time is not newer than a later one.
LEMMA Envelhece ==
  ASSUME NEW x \in Seq(Linha), NEW t1 \in Nat, NEW t2 \in Nat, t1 <= t2,
         AteTempo(x, t1)
  PROVE  AteTempo(x, t2)
<1>1. \A k \in 1 .. Len(x) : x[k] \in Linha
  BY ElementOfSeq
<1>2. \A k \in 1 .. Len(x) : x[k].t \in Nat
  BY <1>1 DEF Linha
<1>3. QED
  BY <1>2 DEF AteTempo

\* The types of what the proofs below talk about.
LEMMA Tipos ==
  ASSUME Indutivo
  PROVE  /\ now \in Nat /\ Teto \in Nat /\ Teto <= now
         /\ linhas \in [Arq -> Seq(Linha)] /\ mtime \in [Arq -> Nat]
         /\ dir \subseteq Arq
         /\ arq \in Arq /\ amostra \in Linha /\ amostra.t \in Nat
         /\ inf \in Seq(Linha) /\ saida \in Seq(Linha) /\ w \in Nat
         /\ ligado \in BOOLEAN
         /\ dados \in ArqMem /\ dados \in Arq /\ resta \subseteq ArqMem
         /\ rttx \in Seq(Linha)
         /\ sums \in [Saida -> Seq([arq : ArqMem, linha : Linha])]
<1>1. HistoricoTypeOK /\ SumMemTypeOK
  BY DEF Indutivo, TypeOK, ColetaMemTypeOK, LacoTypeOK
<1>2. now \in Nat /\ amostra \in Linha /\ amostra.t \in Nat
  BY <1>1 DEF HistoricoTypeOK, Linha
<1>3. Teto \in Nat /\ Teto <= now
  BY <1>2 DEF Indutivo, InvMemoria, Teto
<1>4. dados \in ArqMem /\ dados \in Arq
  BY <1>1, SumMemAssumption DEF SumMemTypeOK
<1>5. QED
  BY <1>1, <1>2, <1>3, <1>4, ZenonT(60), ZenonT(90) DEF HistoricoTypeOK, SumMemTypeOK

\* The report stays behind the histories as long as a step changes a history only
\* by emptying it or by putting a line in front that is not older than anything.
LEMMA SumarioMantem ==
  ASSUME Indutivo, UNCHANGED consolidador,
         Teto' \in Nat, Teto <= Teto',
         \A a \in Arq : \/ linhas'[a] = linhas[a]
                        \/ linhas'[a] = <<>>
                        \/ linhas'[a][1].t \in Nat /\ Teto <= linhas'[a][1].t
  PROVE  InvSumario'
<1> USE DEF consolidador
<1>1. ASSUME NEW x \in Linha, NEW a \in Arq, Atras(x, a)
      PROVE  Atras(x, a)'
  <2>1. x.t \in Nat /\ Teto \in Nat /\ x.t <= Teto /\ x.inteira
    BY <1>1, Tipos DEF Linha, Atras
  <2>2. x.t <= Teto'
    BY <2>1
  <2>3. linhas'[a] # <<>> => x.t <= linhas'[a][1].t
    BY <1>1, <2>1 DEF Atras
  <2>4. QED
    BY <2>1, <2>2, <2>3 DEF Atras
<1>2. \A s \in Saida : \A k \in 1 .. Len(sums[s]) :
        sums[s][k].linha \in Linha /\ sums[s][k].arq \in Arq
  <2> SUFFICES ASSUME NEW s \in Saida, NEW k \in 1 .. Len(sums[s])
               PROVE  sums[s][k] \in [arq : ArqMem, linha : Linha]
    BY SumMemAssumption
  <2>1. QED
    BY Tipos, ElementOfSeq, ZenonT(60), ZenonT(90)
<1>3. rttx # <<>> => rttx[1] \in Linha
  BY Tipos
<1>4. /\ \A s \in Saida : \A k \in 1 .. Len(sums[s]) :
           Atras(sums[s][k].linha, sums[s][k].arq)'
      /\ rttx # <<>> => Atras(rttx[1], dados)'
  <2>1. \A s \in Saida : \A k \in 1 .. Len(sums[s]) :
          Atras(sums[s][k].linha, sums[s][k].arq)
    BY DEF Indutivo, InvSumario
  <2>2. rttx # <<>> => Atras(rttx[1], dados)
    BY DEF Indutivo, InvSumario
  <2>3. \A s \in Saida : \A k \in 1 .. Len(sums[s]) :
           Atras(sums[s][k].linha, sums[s][k].arq)'
    BY <1>1, <1>2, <2>1
  <2>4. rttx # <<>> => Atras(rttx[1], dados)'
    BY <1>1, <1>3, <2>2, Tipos
  <2>5. QED
    BY <2>3, <2>4
<1>5. QED
  BY <1>4 DEF Indutivo, InvSumario, SaidaDe
-------------------------------------------------------------------------------
(* The inductive invariant.                                                    *)

\* Every initial state satisfies the inductive invariant.
LEMMA InitIndutivo == Init => Indutivo
<1> SUFFICES ASSUME Init PROVE Indutivo
  OBVIOUS
<1> USE DEF Init, ColetaMemInit, LacoInit, SumMemInit, HistoricoInit
<1>1. Nova(0, SemResposta) \in Linha /\ amostra.inteira /\ amostra.t = 0
  BY NovaTipo, HistoricoAssumption
<1>2. \A a \in Arq : /\ linhas[a] \in Seq(Linha)
                     /\ Boa(linhas[a])
                     /\ AteTempo(linhas[a], now)
                     /\ a \in dir => linhas[a] # <<>>
  <2> SUFFICES ASSUME NEW a \in Arq
               PROVE  /\ linhas[a] \in Seq(Linha)
                      /\ Boa(linhas[a])
                      /\ AteTempo(linhas[a], now)
                      /\ a \in dir => linhas[a] # <<>>
    BY ZenonT(60), ZenonT(90)
  <2>1. CASE a \in dir
    BY <2>1, NovaTipo, UmaBoa, HistoricoAssumption
  <2>2. CASE a \notin dir
    BY <2>2, VazioBoa
  <2>3. QED
    BY <2>1, <2>2
<1>3. linhas \in [Arq -> Seq(Linha)]
  BY <1>2
<1>4. HistoricoTypeOK
  BY <1>1, <1>3, VazioBoa, ZenonT(60), ZenonT(90) DEF HistoricoTypeOK
<1>5. DOMAIN fila = {}
  OBVIOUS
<1>6. sums \in [Saida -> Seq([arq : ArqMem, linha : Linha])]
      /\ \A s \in Saida : sums[s] = <<>>
  BY DEF Vazios
<1>7. TypeOK
  <2>1. 0 \in 0 .. Len(Lista)
    BY LacoSnmpAssumption, LenProperties
  <2>2. LacoTypeOK
    BY <1>4, <2>1, ZenonT(60), ZenonT(90) DEF LacoTypeOK
  <2>3. ColetaMemTypeOK
    BY <1>5, <2>2 DEF ColetaMemTypeOK
  <2>4. SumMemTypeOK
    BY <1>6, VazioBoa DEF SumMemTypeOK
  <2>5. QED
    BY <2>3, <2>4 DEF TypeOK
<1>8. InvMemoria
  BY <1>1, <1>2, VazioBoa, HistoricoAssumption DEF InvMemoria, Teto, Ativo
<1>9. InvEscrita
  BY DEF InvEscrita
<1>10. InvVisita
  BY <1>2, ZenonT(60), ZenonT(90) DEF InvVisita, Escrita, Ativo
<1>11. InvSumario
  BY <1>6 DEF InvSumario
<1>12. QED
  BY <1>7, <1>8, <1>9, <1>10, <1>11 DEF Indutivo

\* Steps that leave the disk and the writer's memory alone, outside the phases in
\* which the collector holds a sample.
LEMMA PassoNeutro ==
  ASSUME Indutivo, UNCHANGED <<now, disco, amostra, inf, saida, w, ligado, fila>>,
         UNCHANGED consolidador,
         LacoTypeOK',
         ~Ativo, ~Ativo'
  PROVE  Indutivo'
<1> USE DEF disco
<1>1. Teto' = Teto
  BY DEF Teto
<1>2. TypeOK'
  BY ZenonT(60), ZenonT(90)
  DEF Indutivo, TypeOK, ColetaMemTypeOK, SumMemTypeOK, consolidador
<1>3. pc # "abre" /\ pc # "grava" /\ pc' # "abre" /\ pc' # "grava"
  BY DEF Ativo
<1>4. InvMemoria'
  BY <1>1, <1>3 DEF Indutivo, InvMemoria
<1>5. InvEscrita'
  BY <1>3 DEF Indutivo, InvEscrita
<1>6. InvVisita'
  BY <1>3 DEF Indutivo, InvVisita, Escrita
<1>7. InvSumario'
  BY <1>1, SumarioMantem, Tipos
<1>8. QED
  BY <1>2, <1>4, <1>5, <1>6, <1>7 DEF Indutivo

\* The collector's steps before it takes the sample.
LEMMA PassoLista ==
  ASSUME Indutivo, UNCHANGED consolidador, LacoNext, UNCHANGED fila
  PROVE  Indutivo'
<1> USE DEF disco, escritor, coletor
<1>1. Len(Lista) \in Nat /\ \A k \in 1 .. Len(Lista) : Lista[k] \in Nome
  BY LacoSnmpAssumption, LenProperties, ElementOfSeq
<1>2. LacoTypeOK
  BY DEF Indutivo, TypeOK, ColetaMemTypeOK
<1>3. CASE Inicia
  <2>1. LacoTypeOK'
    BY <1>1, <1>2, <1>3 DEF Inicia, LacoTypeOK, HistoricoTypeOK
  <2>2. QED
    BY <1>3, <2>1, PassoNeutro DEF Inicia, Ativo
<1>4. CASE Proximo
  <2>1. i + 1 \in 1 .. Len(Lista) /\ hostname' \in Nome
    BY <1>1, <1>2, <1>4 DEF Proximo, LacoTypeOK
  <2>2. LacoTypeOK'
    BY <1>1, <1>2, <1>4, <2>1 DEF Proximo, LacoTypeOK, HistoricoTypeOK
  <2>3. QED
    BY <1>4, <2>2, PassoNeutro DEF Proximo, Ativo
<1>5. CASE Termina \/ SessaoIndefinida
  <2>1. LacoTypeOK'
    <3>1. HistoricoTypeOK'
      BY <1>2, <1>5 DEF Termina, SessaoIndefinida, LacoTypeOK, HistoricoTypeOK
    <3>2. pc' = "fim" /\ i' = 0 /\ hostname' \in Nome
      BY <1>2, <1>5 DEF Termina, SessaoIndefinida, LacoTypeOK
    <3>3. sessao' \in BOOLEAN
      BY <1>5, ZenonT(60), ZenonT(90) DEF Termina, SessaoIndefinida
    <3>4. QED
      BY <1>1, <3>1, <3>2, <3>3 DEF LacoTypeOK
  <2>2. QED
    BY <1>5, <2>1, PassoNeutro DEF Termina, SessaoIndefinida, Ativo
<1>6. CASE AbreSessao
  <2>1. LacoTypeOK'
    BY <1>2, <1>6 DEF AbreSessao, LacoTypeOK, HistoricoTypeOK
  <2>2. QED
    BY <1>6, <2>1, PassoNeutro DEF AbreSessao, Ativo
<1>7. QED
  BY <1>3, <1>4, <1>5, <1>6 DEF LacoNext

\* The tables: their rows are items of the host, with cells of the pool table, and
\* the fans and power supplies are always among them.  Nothing is newer than now.
LEMMA PassoPede ==
  ASSUME Indutivo, UNCHANGED consolidador, PedeTabelas
  PROVE  Indutivo'
<1> USE DEF disco, PedeTabelas, ResponseCheck
<1>1. /\ amostra' \in Linha /\ amostra'.inteira /\ amostra'.t = now
  BY NovaTipo, HistoricoAssumption, Tipos
<1>2. Teto' = now /\ Teto = now
  BY <1>1 DEF Teto, Ativo
<1>3. /\ DOMAIN fila' \subseteq Item
      /\ SempreEscritos \subseteq DOMAIN fila'
      /\ \A e \in DOMAIN fila' :
           IF e.tipo = "mem"
           THEN fila'[e] \in (Coluna \cup {0}) \X (Coluna \cup {0})
           ELSE fila'[e] = SemResposta
  <2>1. PICK mem_tipo \in BOOLEAN, temp_nome \in BOOLEAN,
             mem_free \in RespostaColuna, mem_utl \in RespostaColuna :
          fila' = [e \in Nomeados("mem", mem_tipo) \cup Nomeados("temp", temp_nome)
                           \cup SempreEscritos |->
                     IF e.tipo = "mem" THEN <<mem_free[e], mem_utl[e]>>
                     ELSE SemResposta]
    OBVIOUS
  <2>2. \A c \in RespostaColuna : \A e \in DoHost("mem") : c[e] \in Coluna \cup {0}
    BY DEF RespostaColuna
  <2>3. /\ Nomeados("mem", mem_tipo) \subseteq DoHost("mem")
        /\ Nomeados("temp", temp_nome) \subseteq DoHost("temp")
    BY DEF Nomeados
  <2>4. /\ DoHost("mem") \subseteq Item /\ DoHost("temp") \subseteq Item
        /\ SempreEscritos \subseteq Item
        /\ \A e \in DoHost("temp") \cup SempreEscritos : e.tipo # "mem"
    BY DEF DoHost, SempreEscritos
  <2>5. DOMAIN fila' = Nomeados("mem", mem_tipo) \cup Nomeados("temp", temp_nome)
                         \cup SempreEscritos
    BY <2>1
  <2>6. ASSUME NEW e \in DOMAIN fila', e.tipo = "mem"
        PROVE  fila'[e] \in (Coluna \cup {0}) \X (Coluna \cup {0})
    BY <2>1, <2>2, <2>3, <2>4, <2>5, <2>6
  <2>7. \A e \in DOMAIN fila' : e.tipo # "mem" => fila'[e] = SemResposta
    BY <2>1, <2>5
  <2>8. QED
    BY <2>3, <2>4, <2>5, <2>6, <2>7, ZenonT(60), ZenonT(90)
<1>4. TypeOK'
  <2>1. LacoTypeOK'
    BY <1>1 DEF Indutivo, TypeOK, ColetaMemTypeOK, LacoTypeOK, HistoricoTypeOK
  <2>2. QED
    BY <1>3, <2>1, ZenonT(60), ZenonT(90)
    DEF Indutivo, TypeOK, ColetaMemTypeOK, SumMemTypeOK, consolidador
<1>5. InvMemoria'
  BY <1>1, <1>2, Tipos DEF Indutivo, InvMemoria
<1>6. InvEscrita'
  BY DEF Indutivo, InvEscrita
<1>7. InvVisita'
  BY <1>3 DEF Indutivo, InvVisita, Escrita, SempreEscritos, DoHost
<1>8. InvSumario'
  BY <1>2, SumarioMantem, Tipos
<1>9. QED
  BY <1>4, <1>5, <1>6, <1>7, <1>8 DEF Indutivo

\* Reading the old lines of an item: they are a history of the disk.
LEMMA PassoLe ==
  ASSUME Indutivo, UNCHANGED consolidador, LeItem
  PROVE  Indutivo'
<1> USE DEF disco, LeItem, Ler
<1>1. arq' \in Arq /\ inf' = linhas[arq'] /\ inf' \in Seq(Linha)
  <2>1. PICK e \in Primeiros : arq' = e.arq /\ inf' = linhas[e.arq]
    OBVIOUS
  <2>2. e \in Item
    BY DEF Primeiros, Indutivo, TypeOK, ColetaMemTypeOK
  <2>3. e.arq \in Arq
    BY <2>2, ColetaMemAssumption
  <2>4. QED
    BY <2>1, <2>3, Tipos
<1>2. Teto' = Teto /\ Ativo /\ Ativo'
  BY DEF Teto, Ativo
<1>3. TypeOK'
  <2>1. LacoTypeOK'
    BY <1>1 DEF Indutivo, TypeOK, ColetaMemTypeOK, LacoTypeOK, HistoricoTypeOK
  <2>2. QED
    BY <2>1, ZenonT(60), ZenonT(90)
    DEF Indutivo, TypeOK, ColetaMemTypeOK, SumMemTypeOK, consolidador
<1>4. InvMemoria'
  BY <1>1, <1>2 DEF Indutivo, InvMemoria
<1>5. InvEscrita'
  BY <1>1 DEF Indutivo, InvEscrita
<1>6. InvVisita'
  BY <1>2 DEF Indutivo, InvVisita, Escrita, SempreEscritos, DoHost
<1>7. InvSumario'
  BY <1>2, SumarioMantem, Tipos
<1>8. QED
  BY <1>3, <1>4, <1>5, <1>6, <1>7 DEF Indutivo

\* The line of an item whose division does not fail.
LEMMA LinhaDoItem ==
  ASSUME Indutivo, NEW e \in Primeiros, ~DivisaoPorZero(e, fila[e])
  PROVE  LET l == [amostra EXCEPT !.v = Medida(e, fila[e])]
         IN  l \in Linha /\ l.t = amostra.t /\ l.inteira
<1>1. IF e.tipo = "mem"
      THEN fila[e] \in (Coluna \cup {0}) \X (Coluna \cup {0})
      ELSE fila[e] = SemResposta
  BY DEF Primeiros, Indutivo, TypeOK, ColetaMemTypeOK
<1>2. Medida(e, fila[e]) \in Valor
  <2>1. CASE e.tipo = "mem"
    <3>1. PICK f \in Coluna \cup {0}, u \in Coluna \cup {0} : fila[e] = <<f, u>>
      BY <1>1, <2>1
    <3>2. f \in Nat /\ u \in Nat /\ f + u # 0
      BY <2>1, <3>1, ColetaMemAssumption DEF DivisaoPorZero
    <3>3. f + u > 0
      BY <3>2
    <3>4. <<f, u, MemPct(f, u)>> \in Valor
      BY <3>3, MemPctAssumption
    <3>5. QED
      BY <2>1, <3>1, <3>4 DEF Medida
  <2>2. CASE e.tipo # "mem"
    BY <1>1, <2>2, HistoricoAssumption DEF Medida
  <2>3. QED
    BY <2>1, <2>2
<1>3. amostra \in Linha /\ amostra.inteira
  BY Tipos DEF Indutivo, InvMemoria
<1>4. QED
  BY <1>2, <1>3 DEF Linha

\* Opening the file of an item for writing: the disk has an empty file, the memory
\* a good history whose first line has the time of the visit.
LEMMA PassoAbre ==
  ASSUME Indutivo, UNCHANGED consolidador, AbreItem
  PROVE  Indutivo'
<1> USE DEF disco
<1>1. PICK e \in Primeiros :
        /\ e.arq = arq
        /\ ~DivisaoPorZero(e, fila[e])
        /\ AbreEscrita([amostra EXCEPT !.v = Medida(e, fila[e])])
        /\ fila' = Restrict(fila, DOMAIN fila \ {e})
  BY ZenonT(60), ZenonT(90) DEF AbreItem
<1>2. /\ pc = "abre" /\ pc' = "grava"
      /\ UNCHANGED <<now, amostra, i, hostname, sessao, arq>>
  BY <1>1 DEF AbreItem, AbreEscrita
<1>3. /\ e \in DOMAIN fila /\ e \in Item
      /\ IF e.tipo = "mem"
         THEN fila[e] \in (Coluna \cup {0}) \X (Coluna \cup {0})
         ELSE fila[e] = SemResposta
  BY DEF Primeiros, Indutivo, TypeOK, ColetaMemTypeOK
<1> DEFINE l == [amostra EXCEPT !.v = Medida(e, fila[e])]
<1>4. l \in Linha /\ l.t = amostra.t /\ l.inteira
  BY <1>1, LinhaDoItem
<1> HIDE DEF l
<1>5. AbreEscrita(l)
  BY <1>1 DEF l
<1>6. Teto = amostra.t /\ Teto' = amostra.t /\ Ativo /\ Ativo'
  BY <1>2 DEF Teto, Ativo
<1>7. /\ saida' \in Seq(Linha) /\ Boa(saida') /\ AteTempo(saida', amostra.t)
      /\ saida'[1] = l /\ Len(saida') \in Nat \ {0}
  <2>1. Boa(inf) /\ AteTempo(inf, l.t)
    BY <1>4, <1>6 DEF Indutivo, InvMemoria
  <2>2. l.t <= amostra.t
    BY <1>4, Tipos
  <2>3. saida' = Renova(l, inf)
    BY <1>5 DEF AbreEscrita
  <2>4. QED
    BY <1>4, <2>1, <2>2, <2>3, RenovaBoa, RenovaElementos, Tipos, ZenonT(60),
       ZenonT(90)
<1>8. /\ linhas' \in [Arq -> Seq(Linha)]
      /\ linhas'[arq] = <<>>
      /\ \A a \in Arq : a # arq => linhas'[a] = linhas[a]
      /\ inf' = <<>> /\ w' = 0 /\ ligado' = TRUE
      /\ mtime' \in [Arq -> Nat] /\ dir' = dir \cup {arq} /\ dir' \subseteq Arq
  BY <1>5, VazioBoa, Tipos DEF AbreEscrita
<1>9. DOMAIN fila' = DOMAIN fila \ {e} /\ \A x \in DOMAIN fila' : fila'[x] = fila[x]
  BY <1>1 DEF Restrict
<1>10. TypeOK'
  <2>1. HistoricoTypeOK'
    BY <1>2, <1>7, <1>8, Tipos, VazioBoa, ZenonT(60), ZenonT(90)
    DEF HistoricoTypeOK
  <2>2. LacoTypeOK'
    BY <1>2, <2>1 DEF Indutivo, TypeOK, ColetaMemTypeOK, LacoTypeOK
  <2>3. ColetaMemTypeOK'
    BY <1>9, <2>2 DEF Indutivo, TypeOK, ColetaMemTypeOK
  <2>4. QED
    BY <2>3, ZenonT(60), ZenonT(90) DEF Indutivo, TypeOK, SumMemTypeOK, consolidador
<1>11. InvMemoria'
  <2>1. \A a \in Arq : Boa(linhas'[a]) /\ AteTempo(linhas'[a], Teto')
    BY <1>6, <1>8, VazioBoa, ZenonT(60), ZenonT(90) DEF Indutivo, InvMemoria
  <2>2. Boa(inf') /\ AteTempo(inf', Teto')
    BY <1>8, VazioBoa
  <2>3. QED
    BY <1>2, <1>4, <1>6, <1>7, <2>1, <2>2, ZenonT(60), ZenonT(90)
    DEF Indutivo, InvMemoria
<1>12. InvEscrita'
  BY <1>2, <1>7, <1>8 DEF InvEscrita
<1>13. InvVisita'
  <2>1. \A a \in dir' \ ArqMem : ~PodeMorrer => Escrita(a)'
    BY <1>2, <1>8, ZenonT(60), ZenonT(90) DEF Indutivo, InvVisita, Escrita
  <2>2. ASSUME NEW x \in SempreEscritos, x \notin DOMAIN fila'
        PROVE  /\ Escrita(x.arq)'
               /\ linhas'[x.arq] # <<>> => linhas'[x.arq][1].t = amostra.t
    <3>1. CASE x.arq = arq
      BY <1>2, <1>8, <3>1 DEF Escrita
    <3>2. CASE x.arq # arq
      <4>1. x \notin DOMAIN fila
        BY <1>1, <1>9, <2>2, <3>2
      <4>2. x.arq \in Arq /\ linhas'[x.arq] = linhas[x.arq]
        BY <1>8, <3>2, ColetaMemAssumption DEF SempreEscritos, DoHost
      <4>3. QED
        BY <1>2, <1>6, <4>1, <4>2 DEF Indutivo, InvVisita, Escrita
    <3>3. QED
      BY <3>1, <3>2
  <2>3. SempreEscritos' = SempreEscritos
    BY <1>2 DEF SempreEscritos, DoHost
  <2>4. QED
    BY <1>2, <2>1, <2>2, <2>3 DEF InvVisita
<1>14. InvSumario'
  BY <1>6, <1>8, SumarioMantem, Tipos
<1>15. QED
  BY <1>10, <1>11, <1>12, <1>13, <1>14 DEF Indutivo

\* The process is gone: what was good of the disk is good for the next run.
LEMMA PassoEncerra ==
  ASSUME Indutivo, UNCHANGED <<now, consolidador>>, Encerra, fila' = <<>>,
         linhas' \in [Arq -> Seq(Linha)], mtime' \in [Arq -> Nat], dir' \subseteq Arq,
         \A a \in Arq : linhas'[a] = linhas[a] \/ linhas'[a] = <<>>,
         ~PodeMorrer => \A a \in dir' \ ArqMem : linhas'[a] # <<>>
  PROVE  Indutivo'
<1> USE DEF Encerra
<1>1. /\ amostra' \in Linha /\ amostra'.inteira /\ amostra'.t = 0
  BY NovaTipo, HistoricoAssumption
<1>2. /\ inf' \in Seq(Linha) /\ Boa(inf') /\ AteTempo(inf', now)
      /\ saida' \in Seq(Linha) /\ Boa(saida') /\ AteTempo(saida', now)
  BY VazioBoa
<1>3. 0 \in 0 .. Len(Lista)
  BY LacoSnmpAssumption, LenProperties
<1>4. Teto' = now /\ ~Ativo' /\ Teto <= now /\ now \in Nat /\ Teto \in Nat
  BY Tipos DEF Teto, Ativo
<1>5. DOMAIN fila' = {}
  OBVIOUS
<1>6. TypeOK'
  <2>1. HistoricoTypeOK'
    BY <1>1, <1>2, Tipos, ZenonT(60), ZenonT(90) DEF HistoricoTypeOK
  <2>2. LacoTypeOK'
    BY <1>3, <2>1, ZenonT(60), ZenonT(90)
    DEF Indutivo, TypeOK, ColetaMemTypeOK, LacoTypeOK
  <2>3. QED
    BY <1>5, <2>2, ZenonT(60), ZenonT(90)
    DEF Indutivo, TypeOK, ColetaMemTypeOK, SumMemTypeOK, consolidador
<1>7. InvMemoria'
  <2>1. \A a \in Arq : Boa(linhas'[a]) /\ AteTempo(linhas'[a], now)
    BY <1>4, Envelhece, VazioBoa, Tipos, ZenonT(60), ZenonT(90)
    DEF Indutivo, InvMemoria
  <2>2. 0 <= now
    BY <1>4
  <2>3. QED
    BY <1>1, <1>2, <1>4, <2>1, <2>2 DEF Indutivo, InvMemoria
<1>8. InvEscrita'
  BY DEF InvEscrita
<1>9. InvVisita'
  BY <1>4 DEF InvVisita, Escrita
<1>10. InvSumario'
  BY <1>4, SumarioMantem
<1>11. QED
  BY <1>6, <1>7, <1>8, <1>9, <1>10 DEF Indutivo

\* A pool whose columns add up to nothing empties its file and ends the program.
LEMMA PassoDivide ==
  ASSUME Indutivo, UNCHANGED consolidador, DivideZero
  PROVE  Indutivo'
<1>1. PICK e \in Primeiros : e.arq = arq /\ DivisaoPorZero(e, fila[e])
  BY DEF DivideZero
<1>2. arq \in ArqMem
  <2>1. e \in Item /\ e.tipo = "mem"
    BY <1>1 DEF Primeiros, DivisaoPorZero, Indutivo, TypeOK, ColetaMemTypeOK
  <2>2. QED
    BY <1>1, <2>1, MemAssumption
<1>3. /\ linhas' \in [Arq -> Seq(Linha)] /\ mtime' \in [Arq -> Nat]
      /\ dir' = dir \cup {arq} /\ dir' \subseteq Arq
      /\ linhas'[arq] = <<>>
      /\ \A a \in Arq : a # arq => linhas'[a] = linhas[a]
  BY Tipos, VazioBoa DEF DivideZero
<1>4. ~PodeMorrer => \A a \in dir' \ ArqMem : linhas'[a] # <<>>
  <2> SUFFICES ASSUME ~PodeMorrer, NEW a \in dir' \ ArqMem
               PROVE  linhas'[a] # <<>>
    OBVIOUS
  <2>1. a \in dir \ ArqMem /\ a # arq /\ a \in Arq
    BY <1>2, <1>3
  <2>2. linhas[a] # <<>>
    BY <2>1 DEF Indutivo, InvVisita, Escrita
  <2>3. QED
    BY <1>3, <2>1, <2>2
<1>5. QED
  BY <1>3, <1>4, PassoEncerra DEF DivideZero

\* A kill.
LEMMA PassoMorre ==
  ASSUME Indutivo, UNCHANGED consolidador, Morre, fila' = <<>>
  PROVE  Indutivo'
BY PassoEncerra, Tipos DEF Morre, disco

\* Writing a good history that begins with the sample to the open file.
LEMMA GravaBoa ==
  ASSUME Indutivo, UNCHANGED now, pc = "grava", NEW c, Grava(c),
         c \in Seq(Linha), Boa(c), AteTempo(c, Teto), c # <<>>, c[1] = saida[1]
  PROVE  /\ linhas' \in [Arq -> Seq(Linha)]
         /\ mtime' \in [Arq -> Nat]
         /\ dir' = dir
         /\ \A a \in Arq : Boa(linhas'[a]) /\ AteTempo(linhas'[a], Teto)
         /\ \A a \in Arq : a # arq => linhas'[a] = linhas[a]
         /\ ligado => linhas'[arq] = c /\ linhas'[arq][1].t = amostra.t
         /\ ~ligado => linhas' = linhas
<1> USE DEF disco
<1>1. \A a \in Arq : Boa(linhas[a]) /\ AteTempo(linhas[a], Teto)
  BY DEF Indutivo, InvMemoria
<1>2. c[1].t = amostra.t
  BY DEF Indutivo, InvMemoria
<1>3. CASE ligado
  <2>1. /\ linhas' = [linhas EXCEPT ![arq] = c]
        /\ mtime' = [mtime EXCEPT ![arq] = now]
        /\ dir' = dir
    BY <1>3 DEF Grava
  <2>2. linhas'[arq] = c /\ \A a \in Arq : a # arq => linhas'[a] = linhas[a]
    BY <2>1, Tipos
  <2>3. linhas' \in [Arq -> Seq(Linha)] /\ mtime' \in [Arq -> Nat]
    BY <2>1, Tipos
  <2>4. QED
    BY <1>1, <1>2, <1>3, <2>1, <2>2, <2>3
<1>4. CASE ~ligado
  BY <1>1, <1>4, Tipos DEF Grava
<1>5. QED
  BY <1>3, <1>4, Tipos, ZenonT(60), ZenonT(90)

\* Fans and power supplies have files outside mem/.
LEMMA ForaDeMem ==
  ASSUME NEW x \in SempreEscritos
  PROVE  x.arq \in Arq /\ x.arq \notin ArqMem
BY ColetaMemAssumption, MemAssumption DEF SempreEscritos, DoHost

\* A full buffer reaches the disk.
LEMMA PassoDescarrega ==
  ASSUME Indutivo, UNCHANGED consolidador, DescarregaItem
  PROVE  Indutivo'
<1> USE DEF DescarregaItem, Descarrega, coletor
<1>1. PICK corta \in BOOLEAN : Grava(Pedaco(saida, w + Bloco, corta))
  OBVIOUS
<1>2. /\ Boa(saida) /\ AteTempo(saida, Teto)
      /\ w + Bloco \in Nat \ {0} /\ w + Bloco < Len(saida)
  <2>1. Boa(saida) /\ AteTempo(saida, Teto)
    BY ZenonT(60), ZenonT(90) DEF Indutivo, InvMemoria
  <2>2. w \in Nat
    BY Tipos, ZenonT(60), ZenonT(90)
  <2>3. w + Bloco \in Nat \ {0} /\ w + Bloco < Len(saida)
    BY <2>2, HistoricoAssumption
  <2>4. QED
    BY <2>1, <2>3
<1> DEFINE c == Pedaco(saida, w + Bloco, corta)
<1>3. c \in Seq(Linha) /\ Boa(c) /\ AteTempo(c, Teto) /\ c # <<>> /\ c[1] = saida[1]
  BY <1>2, PedacoBoa, Tipos, ZenonT(60), ZenonT(90)
<1> HIDE DEF c
<1>4. Grava(c)
  BY <1>1 DEF c
<1>5. /\ linhas' \in [Arq -> Seq(Linha)]
      /\ mtime' \in [Arq -> Nat]
      /\ dir' = dir
      /\ \A a \in Arq : Boa(linhas'[a]) /\ AteTempo(linhas'[a], Teto)
      /\ \A a \in Arq : a # arq => linhas'[a] = linhas[a]
      /\ ligado => linhas'[arq] = c /\ linhas'[arq][1].t = amostra.t
      /\ ~ligado => linhas' = linhas
  BY <1>3, <1>4, GravaBoa
<1>6. Teto' = Teto /\ Teto = amostra.t
  BY DEF Teto, Ativo
<1>7. TypeOK'
  <2>1. HistoricoTypeOK'
    BY <1>2, <1>5, Tipos, ZenonT(60), ZenonT(90) DEF HistoricoTypeOK
  <2>2. LacoTypeOK'
    BY <2>1 DEF Indutivo, TypeOK, ColetaMemTypeOK, LacoTypeOK
  <2>3. QED
    BY <2>2, ZenonT(60), ZenonT(90)
    DEF Indutivo, TypeOK, ColetaMemTypeOK, SumMemTypeOK, consolidador
<1>8. InvMemoria'
  BY <1>5, <1>6, ZenonT(60), ZenonT(90) DEF Indutivo, InvMemoria
<1>9. InvEscrita'
  <2>1. ligado => \E z \in BOOLEAN : linhas'[arq] = Pedaco(saida, w', z)
    BY <1>5, ZenonT(60), ZenonT(90) DEF c
  <2>2. QED
    BY <1>2, <1>5, <2>1 DEF Indutivo, InvEscrita
<1>10. InvVisita'
  <2>1. \A a \in dir' \ ArqMem : ~PodeMorrer => Escrita(a)'
    BY <1>5, Tipos DEF Indutivo, InvVisita, Escrita
  <2>2. ASSUME NEW x \in SempreEscritos, x \notin DOMAIN fila
        PROVE  /\ Escrita(x.arq)'
               /\ linhas'[x.arq] # <<>> => linhas'[x.arq][1].t = amostra.t
    <3>1. x.arq \in Arq /\ x.arq \notin ArqMem
      BY ForaDeMem
    <3>2. x.arq = arq => ligado
      BY <3>1, ZenonT(60), ZenonT(90) DEF Indutivo, InvEscrita
    <3>3. /\ Escrita(x.arq)
          /\ linhas[x.arq] # <<>> => linhas[x.arq][1].t = amostra.t
      BY <2>2 DEF Indutivo, InvVisita, Ativo
    <3>4. QED
      BY <1>5, <3>1, <3>2, <3>3 DEF Escrita
  <2>3. SempreEscritos' = SempreEscritos
    BY DEF SempreEscritos, DoHost
  <2>4. QED
    BY <2>1, <2>2, <2>3 DEF InvVisita
<1>11. InvSumario'
  <2> HIDE DEF DescarregaItem, Descarrega, coletor
  <2>1. amostra.t \in Nat /\ Teto \in Nat /\ Teto <= Teto' /\ Teto' \in Nat
    BY <1>6, Tipos
  <2>2. \A a \in Arq : \/ linhas'[a] = linhas[a]
                       \/ linhas'[a] = <<>>
                       \/ linhas'[a][1].t \in Nat /\ Teto <= linhas'[a][1].t
    <3> SUFFICES ASSUME NEW a \in Arq, linhas'[a] # linhas[a]
                 PROVE  linhas'[a][1].t \in Nat /\ Teto <= linhas'[a][1].t
      OBVIOUS
    <3>1. a = arq /\ ligado
      BY <1>5
    <3>2. linhas'[a][1].t = amostra.t
      BY <1>5, <3>1
    <3>3. QED
      BY <1>6, <2>1, <3>2
  <2>3. QED
    BY <2>1, <2>2, SumarioMantem
<1>12. QED
  BY <1>7, <1>8, <1>9, <1>10, <1>11 DEF Indutivo

\* close: the file is the complete new history.  A file outside mem/ cannot have
\* been removed meanwhile, so it has the line of this visit.
LEMMA FechaEscreve ==
  ASSUME Indutivo, FechaItem
  PROVE  /\ linhas' \in [Arq -> Seq(Linha)]
         /\ mtime' \in [Arq -> Nat]
         /\ dir' = dir
         /\ \A a \in Arq : Boa(linhas'[a]) /\ AteTempo(linhas'[a], Teto)
         /\ \A a \in Arq : a # arq => linhas'[a] = linhas[a]
         /\ ligado => linhas'[arq] = saida
         /\ ligado => linhas'[arq] # <<>> /\ linhas'[arq][1].t = amostra.t
         /\ ~ligado => linhas' = linhas
         /\ \A x \in SempreEscritos \ DOMAIN fila :
              linhas'[x.arq] # <<>> /\ linhas'[x.arq][1].t = amostra.t
<1> USE DEF FechaItem, Fecha
<1>1. Boa(saida) /\ AteTempo(saida, Teto) /\ saida # <<>>
  <2>1. InvMemoria /\ InvEscrita /\ pc = "grava"
    BY DEF Indutivo
  <2>2. Boa(saida) /\ AteTempo(saida, Teto)
    BY <2>1 DEF InvMemoria
  <2>3. saida # <<>>
    <3>1. w \in Nat /\ w < Len(saida)
      BY <2>1, Tipos DEF InvEscrita
    <3>2. QED
      BY <3>1
  <2>4. QED
    BY <2>2, <2>3
<1>2. /\ linhas' \in [Arq -> Seq(Linha)]
      /\ mtime' \in [Arq -> Nat]
      /\ dir' = dir
      /\ \A a \in Arq : Boa(linhas'[a]) /\ AteTempo(linhas'[a], Teto)
      /\ \A a \in Arq : a # arq => linhas'[a] = linhas[a]
      /\ ligado => linhas'[arq] = saida /\ linhas'[arq][1].t = amostra.t
      /\ ~ligado => linhas' = linhas
  BY <1>1, GravaBoa, Tipos, ZenonT(60), ZenonT(90)
<1>3. ASSUME NEW x \in SempreEscritos, x \notin DOMAIN fila
      PROVE  linhas'[x.arq] # <<>> /\ linhas'[x.arq][1].t = amostra.t
  <2>1. x.arq \in Arq /\ x.arq \notin ArqMem
    BY ForaDeMem
  <2>2. x.arq = arq => ligado
    BY <2>1 DEF Indutivo, InvEscrita
  <2>3. /\ Escrita(x.arq)
        /\ linhas[x.arq] # <<>> => linhas[x.arq][1].t = amostra.t
    BY <1>3 DEF Indutivo, InvVisita, Ativo
  <2>4. QED
    BY <1>1, <1>2, <2>1, <2>2, <2>3 DEF Escrita
<1>4. QED
  BY <1>1, <1>2, <1>3, ZenonT(60), ZenonT(90)

LEMMA PassoFecha ==
  ASSUME Indutivo, UNCHANGED consolidador, FechaItem
  PROVE  Indutivo'
<1> USE DEF FechaItem, Fecha
<1>1. /\ linhas' \in [Arq -> Seq(Linha)]
      /\ mtime' \in [Arq -> Nat]
      /\ dir' = dir
      /\ \A a \in Arq : Boa(linhas'[a]) /\ AteTempo(linhas'[a], Teto)
      /\ \A a \in Arq : a # arq => linhas'[a] = linhas[a]
      /\ ligado => linhas'[arq] = saida
      /\ ligado => linhas'[arq] # <<>> /\ linhas'[arq][1].t = amostra.t
      /\ ~ligado => linhas' = linhas
      /\ \A x \in SempreEscritos \ DOMAIN fila :
           linhas'[x.arq] # <<>> /\ linhas'[x.arq][1].t = amostra.t
  BY FechaEscreve, ZenonT(60), ZenonT(90)
<1>2. /\ Teto = amostra.t /\ Teto' \in Nat /\ Teto <= Teto'
  BY Tipos DEF Teto, Ativo
<1>3. TypeOK'
  <2>1. HistoricoTypeOK'
    BY <1>1, VazioBoa, Tipos, ZenonT(60), ZenonT(90) DEF HistoricoTypeOK
  <2>2. LacoTypeOK'
    BY <2>1, ZenonT(60), ZenonT(90) DEF Indutivo, TypeOK, ColetaMemTypeOK, LacoTypeOK
  <2>3. QED
    BY <2>2, ZenonT(60), ZenonT(90)
    DEF Indutivo, TypeOK, ColetaMemTypeOK, SumMemTypeOK, consolidador
<1>4. InvMemoria'
  <2>1. \A a \in Arq : Boa(linhas'[a]) /\ AteTempo(linhas'[a], Teto')
    BY <1>1, <1>2, Envelhece, Tipos, ZenonT(60), ZenonT(90)
  <2>2. Boa(inf') /\ AteTempo(inf', Teto')
    BY <1>2, Envelhece, Tipos, ZenonT(60), ZenonT(90) DEF Indutivo, InvMemoria
  <2>3. Boa(saida') /\ AteTempo(saida', Teto')
    BY VazioBoa
  <2>4. pc' # "grava"
    OBVIOUS
  <2>5. QED
    BY <2>1, <2>2, <2>3, <2>4, ZenonT(60), ZenonT(90) DEF Indutivo, InvMemoria
<1>5. InvEscrita'
  BY DEF InvEscrita
<1>6. InvVisita'
  <2>1. ~PodeMorrer => \A a \in dir' \ ArqMem : Escrita(a)'
    <3> SUFFICES ASSUME ~PodeMorrer, NEW a \in dir \ ArqMem
                 PROVE  linhas'[a] # <<>>
      BY <1>1 DEF Escrita
    <3>1. a \in Arq /\ Escrita(a)
      BY Tipos DEF Indutivo, InvVisita
    <3>2. a = arq => ligado
      BY DEF Indutivo, InvEscrita
    <3>3. QED
      BY <1>1, <3>1, <3>2 DEF Escrita
  <2>2. SempreEscritos' = SempreEscritos
    BY DEF SempreEscritos, DoHost
  <2>3. QED
    <3> HIDE DEF FechaItem, Fecha
    <3>1. fila' = fila /\ amostra' = amostra
      BY DEF FechaItem, Fecha
    <3>2. \A x \in SempreEscritos \ DOMAIN fila :
            /\ Escrita(x.arq)'
            /\ linhas'[x.arq][1].t = amostra.t
      BY <1>1 DEF Escrita
    <3>3. QED
      BY <2>1, <2>2, <3>1, <3>2 DEF InvVisita
<1>7. InvSumario'
  <2> HIDE DEF FechaItem, Fecha
  <2>1. amostra.t \in Nat
    BY Tipos
  <2>2. \A a \in Arq : \/ linhas'[a] = linhas[a]
                       \/ linhas'[a] = <<>>
                       \/ linhas'[a][1].t \in Nat /\ Teto <= linhas'[a][1].t
    <3> SUFFICES ASSUME NEW a \in Arq, linhas'[a] # linhas[a]
                 PROVE  linhas'[a][1].t \in Nat /\ Teto <= linhas'[a][1].t
      OBVIOUS
    <3>1. a = arq /\ ligado
      BY <1>1
    <3>2. linhas'[a][1].t = amostra.t
      BY <1>1, <3>1
    <3>3. QED
      BY <1>2, <2>1, <3>2
  <2>3. QED
    BY <1>2, <2>2, SumarioMantem
<1>8. QED
  BY <1>3, <1>4, <1>5, <1>6, <1>7 DEF Indutivo

\* Time passes.
LEMMA PassoTick ==
  ASSUME Indutivo, UNCHANGED <<coletor, fila, consolidador>>, Tick
  PROVE  Indutivo'
<1> USE DEF disco, escritor, coletor, Tick
<1>1. Teto' \in Nat /\ Teto <= Teto' /\ now' \in Nat /\ now <= now' /\ now' <= MaxT
  BY Tipos, HistoricoAssumption DEF Teto, Ativo
<1>2. TypeOK'
  BY <1>1, ZenonT(60), ZenonT(90)
  DEF Indutivo, TypeOK, ColetaMemTypeOK, LacoTypeOK, HistoricoTypeOK, SumMemTypeOK,
      consolidador
<1>3. InvMemoria'
  <2>1. \A a \in Arq : Boa(linhas[a]) /\ AteTempo(linhas[a], Teto')
    BY <1>1, Envelhece, Tipos DEF Indutivo, InvMemoria
  <2>2. AteTempo(inf, Teto') /\ AteTempo(saida, Teto')
    BY <1>1, Envelhece, Tipos DEF Indutivo, InvMemoria
  <2>3. amostra.t <= now'
    <3>1. amostra.t <= now
      BY ZenonT(60), ZenonT(90) DEF Indutivo, InvMemoria
    <3>2. amostra.t \in Nat /\ now \in Nat
      BY Tipos, ZenonT(60), ZenonT(90)
    <3>3. QED
      BY <1>1, <3>1, <3>2
  <2>4. QED
    BY <1>1, <2>1, <2>2, <2>3, ZenonT(60), ZenonT(90) DEF Indutivo, InvMemoria
<1>4. InvEscrita'
  BY ZenonT(60), ZenonT(90) DEF Indutivo, InvEscrita, Pedaco
<1>5. InvVisita'
  <2>1. UNCHANGED <<linhas, dir, pc, arq, amostra, fila, hostname>>
    OBVIOUS
  <2>2. SempreEscritos' = SempreEscritos
    BY <2>1 DEF SempreEscritos, DoHost
  <2>3. InvVisita
    BY DEF Indutivo
  <2> HIDE DEF disco, escritor, coletor, Tick
  <2>4. \A a : Escrita(a)' <=> Escrita(a)
    BY <2>1 DEF Escrita
  <2>5. Ativo' <=> Ativo
    BY <2>1 DEF Ativo
  <2>6. QED
    BY <2>1, <2>2, <2>3, <2>4, <2>5 DEF InvVisita
<1>6. InvSumario'
  BY <1>1, SumarioMantem
<1>7. QED
  BY <1>2, <1>3, <1>4, <1>5, <1>6 DEF Indutivo

\* The consolidation, as long as it only reads.
LEMMA SoLeitura ==
  ASSUME Indutivo, UNCHANGED <<now, disco, escritor, coletor, fila>>,
         SumMemTypeOK', InvSumario'
  PROVE  Indutivo'
<1> USE DEF disco, escritor, coletor
<1>1. TypeOK'
  BY DEF Indutivo, TypeOK, ColetaMemTypeOK, LacoTypeOK, HistoricoTypeOK
<1>2. InvMemoria'
  BY ZenonT(60), ZenonT(90) DEF Indutivo, InvMemoria, Teto, Ativo
<1>3. InvEscrita'
  BY ZenonT(60), ZenonT(90) DEF Indutivo, InvEscrita, Pedaco
<1>4. InvVisita'
  BY DEF Indutivo, InvVisita, Escrita, SempreEscritos, DoHost, Ativo
<1>5. QED
  BY <1>1, <1>2, <1>3, <1>4 DEF Indutivo

\* The first line of a history, as the loop of the consolidation takes it.
LEMMA PrimeiraLinha ==
  ASSUME NEW x \in Seq(Linha)
  PROVE  LET r == SubSeq(x, 1, Menor(Len(x), 1))
         IN  /\ r \in Seq(Linha) /\ Len(r) <= 1
             /\ r # <<>> => x # <<>> /\ 1 \in 1 .. Len(x) /\ r[1] = x[1]
<1> DEFINE r == SubSeq(x, 1, Menor(Len(x), 1))
<1>1. CASE x = <<>>
  BY <1>1, SubSeqEmpty, VazioBoa DEF Menor
<1>2. CASE x # <<>>
  <2>1. Len(x) >= 1 /\ Menor(Len(x), 1) = 1 /\ 1 \in 1 .. Len(x)
    <3>1. Len(x) \in Nat \ {0}
      BY <1>2, EmptySeq
    <3>2. \A n \in Nat \ {0} : n >= 1 /\ Menor(n, 1) = 1 /\ 1 \in 1 .. n
      BY DEF Menor
    <3>3. QED
      BY <3>1, <3>2
  <2>2. \A k \in 1 .. 1 : x[k] \in Linha
    BY <2>1, ElementOfSeq
  <2>3. /\ SubSeq(x, 1, 1) \in Seq(Linha)
        /\ Len(SubSeq(x, 1, 1)) = 1 - 1 + 1
        /\ \A k \in 1 .. 1 - 1 + 1 : SubSeq(x, 1, 1)[k] = x[1 + k - 1]
    BY ONLY <2>2, SubSeqProperties
  <2>4. r = SubSeq(x, 1, 1)
    BY <2>1
  <2>5. SubSeq(x, 1, 1)[1] = x[1] /\ Len(SubSeq(x, 1, 1)) <= 1
    BY <2>3
  <2>6. QED
    BY <1>2, <2>1, <2>3, <2>4, <2>5, ZenonT(60), ZenonT(90)
<1>3. QED
  BY <1>1, <1>2

\* Printing at most one line of a history that is in none of the four files.
LEMMA PassoImprime ==
  ASSUME Indutivo, UNCHANGED <<coletor, fila>>, MImprime
  PROVE  Indutivo'
<1> DEFINE R == [arq : ArqMem, linha : Linha]
           o == SaidaDe(dados)
           q == [k \in DOMAIN rttx |-> [arq |-> dados, linha |-> rttx[k]]]
           n == sums[o] \o q
<1>1. o \in Saida
  BY DEF SaidaDe, Saida
<1>2. q \in Seq(R) /\ Len(q) = Len(rttx) /\ Len(q) <= 1
      /\ \A k \in 1 .. Len(q) : q[k] = [arq |-> dados, linha |-> rttx[k]]
  <2>1. /\ DOMAIN rttx = 1 .. Len(rttx) /\ Len(rttx) \in Nat
        /\ \A k \in 1 .. Len(rttx) : rttx[k] \in Linha
    BY Tipos, LenProperties, ElementOfSeq
  <2>2. q \in [1 .. Len(rttx) -> R]
    BY <2>1, Tipos
  <2>3. q \in Seq(R) /\ Len(q) = Len(rttx)
    BY <2>1, <2>2
  <2>4. QED
    BY <2>1, <2>3 DEF Indutivo, InvSumario
<1>3. sums[o] \in Seq(R) /\ Len(sums[o]) \in Nat
  BY <1>1, Tipos, LenProperties, ZenonT(60), ZenonT(90)
<1> HIDE DEF q, o
<1>4. /\ n \in Seq(R)
      /\ Len(n) = Len(sums[o]) + Len(q)
      /\ \A k \in 1 .. Len(n) :
           n[k] = IF k <= Len(sums[o]) THEN sums[o][k] ELSE q[k - Len(sums[o])]
  <2> HIDE DEF R
  <2>1. q \in Seq(R) /\ sums[o] \in Seq(R)
    BY <1>2, <1>3
  <2>2. n \in Seq(R) /\ Len(n) = Len(sums[o]) + Len(q)
    BY <2>1, ConcatProperties
  <2>3. \A k \in 1 .. Len(sums[o]) + Len(q) :
          n[k] = IF k <= Len(sums[o]) THEN sums[o][k] ELSE q[k - Len(sums[o])]
    BY <2>1, ConcatProperties, ZenonT(60), ZenonT(90)
  <2>4. QED
    BY <2>2, <2>3
<1> HIDE DEF n
<1>5. sums' = [sums EXCEPT ![o] = n]
  BY DEF MImprime, n, o, q
<1>6. /\ sums' \in [Saida -> Seq(R)]
      /\ sums'[o] = n
      /\ \A s \in Saida : s # o => sums'[s] = sums[s]
  BY <1>1, <1>4, <1>5, Tipos, ZenonT(60), ZenonT(90)
<1>7. /\ mpc = "stat" /\ mpc' = "laco" /\ rttx' = <<>>
      /\ UNCHANGED <<now, disco, escritor, resta, dados>>
  BY DEF MImprime
<1>8. \A k \in 1 .. Len(n) :
        \/ k \in 1 .. Len(sums[o]) /\ n[k] = sums[o][k]
        \/ /\ k = Len(sums[o]) + 1 /\ rttx # <<>>
           /\ n[k].arq = dados /\ n[k].linha = rttx[1]
  <2> SUFFICES ASSUME NEW k \in 1 .. Len(n), ~(k <= Len(sums[o]))
               PROVE  /\ k = Len(sums[o]) + 1 /\ rttx # <<>>
                      /\ n[k].arq = dados /\ n[k].linha = rttx[1]
    BY <1>3, <1>4
  <2>1. k - Len(sums[o]) = 1 /\ k = Len(sums[o]) + 1 /\ Len(q) = 1
    BY <1>2, <1>3, <1>4
  <2>2. n[k] = [arq |-> dados, linha |-> rttx[1]]
    BY <1>2, <1>4, <2>1
  <2>3. rttx # <<>>
    <3>1. Len(rttx) # 0
      BY <1>2, <2>1
    <3>2. QED
      BY <3>1, Tipos, EmptySeq
  <2>4. QED
    BY <2>1, <2>2, <2>3
<1>9. SumMemTypeOK'
  BY <1>6, <1>7, VazioBoa, Tipos, ZenonT(60), ZenonT(90) DEF SumMemTypeOK
<1>10. \A x, a : Atras(x, a) => Atras(x, a)'
  BY <1>7 DEF Atras, Teto, Ativo, disco, escritor, coletor
<1>11. ASSUME NEW s \in Saida, NEW k \in 1 .. Len(sums'[s])
       PROVE  /\ SaidaDe(sums'[s][k].arq) = s
              /\ sums'[s][k].arq \notin resta
              /\ Atras(sums'[s][k].linha, sums'[s][k].arq)
  <2>1. CASE s # o
    BY <1>6, <2>1, ZenonT(60), ZenonT(90) DEF Indutivo, InvSumario
  <2>2. CASE s = o
    <3>1. CASE k \in 1 .. Len(sums[o]) /\ n[k] = sums[o][k]
      <4>1. sums'[s][k] = sums[o][k]
        BY <1>6, <2>2, <3>1
      <4>2. InvSumario
        BY DEF Indutivo
      <4>3. /\ SaidaDe(sums[o][k].arq) = o
            /\ sums[o][k].arq \notin resta
            /\ Atras(sums[o][k].linha, sums[o][k].arq)
        BY <1>1, <3>1, <4>2 DEF InvSumario
      <4>4. QED
        BY <2>2, <4>1, <4>3
    <3>2. CASE rttx # <<>> /\ n[k].arq = dados /\ n[k].linha = rttx[1]
      BY <1>6, <1>7, <2>2, <3>2 DEF Indutivo, InvSumario, o
    <3>3. QED
      BY <1>6, <1>8, <2>2, <3>1, <3>2
  <2>3. QED
    BY <2>1, <2>2
<1>12. ASSUME NEW s \in Saida, NEW k \in 1 .. Len(sums'[s]),
              NEW m \in 1 .. Len(sums'[s]), sums'[s][k].arq = sums'[s][m].arq
       PROVE  k = m
  <2>1. CASE s # o
    BY <1>6, <1>12, <2>1, ZenonT(60), ZenonT(90) DEF Indutivo, InvSumario
  <2>2. CASE s = o
    <3>1. \A j \in 1 .. Len(sums[o]) : sums[o][j].arq # dados
      BY <1>1, <1>7, ZenonT(60), ZenonT(90) DEF Indutivo, InvSumario
    <3>2. \A j, l \in 1 .. Len(sums[o]) : sums[o][j].arq = sums[o][l].arq => j = l
      BY <1>1, ZenonT(60), ZenonT(90) DEF Indutivo, InvSumario
    <3>3. QED
      BY <1>6, <1>8, <1>12, <2>2, <3>1, <3>2, ZenonT(60), ZenonT(90)
  <2>3. QED
    BY <2>1, <2>2
<1>13. InvSumario'
  <2>1. Len(rttx') <= 1
    BY <1>7
  <2>2. \A a : SaidaDe(a)' = SaidaDe(a)
    BY DEF SaidaDe
  <2>3. QED
    BY <1>7, <1>10, <1>11, <1>12, <2>1, <2>2, ZenonT(60), ZenonT(90) DEF InvSumario
<1>14. QED
  BY <1>7, <1>9, <1>13, SoLeitura

\* The consolidation reads, compares and removes; a line it reports was the first
\* of its file, and it visits every name once.
LEMMA PassoConsolidador ==
  ASSUME Indutivo, UNCHANGED <<coletor, fila>>, SumMemNext
  PROVE  Indutivo'
<1> USE DEF disco, escritor, coletor
<1>1. CASE MInicia
  <2>1. \A s \in Saida : sums'[s] = <<>>
    BY <1>1 DEF MInicia, Vazios
  <2>2. SumMemTypeOK'
    <3>1. sums' \in [Saida -> Seq([arq : ArqMem, linha : Linha])]
      BY <1>1 DEF MInicia, Vazios
    <3>2. QED
      BY <1>1, <3>1, Tipos, ZenonT(60), ZenonT(90) DEF MInicia, SumMemTypeOK
  <2>3. InvSumario'
    <3>1. Len(rttx') <= 1 /\ (rttx' # <<>> => Atras(rttx[1], dados)')
      <4>1. UNCHANGED <<now, linhas, pc, amostra, rttx, dados>>
        BY <1>1 DEF MInicia
      <4>2. Len(rttx) <= 1 /\ (rttx # <<>> => Atras(rttx[1], dados))
        BY DEF Indutivo, InvSumario
      <4> HIDE DEF disco, escritor, coletor
      <4>3. Atras(rttx[1], dados)' <=> Atras(rttx[1], dados)
        BY <4>1 DEF Atras, Teto, Ativo
      <4>4. QED
        BY <4>1, <4>2, <4>3
    <3>2. QED
      BY <1>1, <2>1, <3>1 DEF MInicia, InvSumario
  <2>4. QED
    BY <1>1, <2>2, <2>3, SoLeitura DEF MInicia
<1>2. CASE MLe
  <2>1. PICK a \in resta :
          /\ resta' = resta \ {a}
          /\ dados' = a
          /\ rttx' = SubSeq(linhas[a], 1, Menor(Len(linhas[a]), 1))
    BY <1>2, ZenonT(60), ZenonT(90) DEF MLe
  <2>2. a \in ArqMem /\ a \in Arq /\ linhas[a] \in Seq(Linha)
    BY Tipos, SumMemAssumption
  <2>3. /\ rttx' \in Seq(Linha) /\ Len(rttx') <= 1
        /\ rttx' # <<>> => /\ linhas[a] # <<>> /\ 1 \in 1 .. Len(linhas[a])
                           /\ rttx'[1] = linhas[a][1]
    BY <2>1, <2>2, PrimeiraLinha, ZenonT(60), ZenonT(90)
  <2>4. SumMemTypeOK'
    BY <1>2, <2>1, <2>2, <2>3, Tipos, ZenonT(60), ZenonT(90) DEF MLe, SumMemTypeOK
  <2>5. rttx' # <<>> => Atras(rttx[1], dados)'
    <3> SUFFICES ASSUME rttx' # <<>>
                 PROVE  Atras(rttx[1], dados)'
      OBVIOUS
    <3>1. /\ rttx'[1] = linhas[a][1] /\ 1 \in 1 .. Len(linhas[a])
          /\ linhas[a][1] \in Linha
      BY <2>2, <2>3, ElementOfSeq
    <3> HIDE DEF disco, escritor, coletor
    <3>0. Boa(linhas[a]) /\ AteTempo(linhas[a], Teto)
      BY <2>2 DEF Indutivo, InvMemoria
    <3>2. linhas[a][1].t <= Teto
      BY <3>0, <3>1 DEF AteTempo
    <3>3. linhas[a][1].inteira
      BY <3>0, <3>1 DEF Boa, FimRasgado
    <3>4. linhas[a][1].t <= linhas[a][1].t
      BY <3>1 DEF Linha
    <3>5. UNCHANGED <<now, linhas, pc, amostra>>
      BY <1>2 DEF MLe, disco, escritor, coletor
    <3>6. Teto' = Teto
      BY <3>5 DEF Teto, Ativo
    <3>7. QED
      BY <2>1, <3>1, <3>2, <3>3, <3>4, <3>5, <3>6, ZenonT(60), ZenonT(90) DEF Atras
  <2>6. \A s \in Saida : \A k \in 1 .. Len(sums[s]) :
          /\ SaidaDe(sums[s][k].arq) = s
          /\ sums[s][k].arq \notin resta'
          /\ sums[s][k].arq # a
          /\ Atras(sums[s][k].linha, sums[s][k].arq)'
    <3>1. UNCHANGED <<now, linhas, pc, amostra, sums>>
      BY <1>2 DEF MLe, coletor, disco, escritor
    <3>2. InvSumario
      BY DEF Indutivo
    <3>3. SUFFICES ASSUME NEW s \in Saida, NEW k \in 1 .. Len(sums[s])
                   PROVE  /\ SaidaDe(sums[s][k].arq) = s
                          /\ sums[s][k].arq \notin resta'
                          /\ sums[s][k].arq # a
                          /\ Atras(sums[s][k].linha, sums[s][k].arq)'
      OBVIOUS
    <3>4. /\ SaidaDe(sums[s][k].arq) = s
          /\ sums[s][k].arq \notin resta
          /\ Atras(sums[s][k].linha, sums[s][k].arq)
      BY <3>2 DEF InvSumario
    <3>5. Atras(sums[s][k].linha, sums[s][k].arq)'
      BY <3>1, <3>4 DEF Atras, Teto, Ativo
    <3>6. QED
      BY <2>1, <3>4, <3>5
  <2>7. InvSumario'
    BY <1>2, <2>1, <2>3, <2>5, <2>6, ZenonT(60), ZenonT(90)
    DEF MLe, Indutivo, InvSumario, SaidaDe
  <2>8. QED
    BY <1>2, <2>4, <2>7, SoLeitura DEF MLe
<1>3. CASE MImprime
  BY <1>3, PassoImprime
<1>4. CASE MVencido
  <2>1. SumMemTypeOK'
    BY <1>4, VazioBoa, Tipos, ZenonT(60), ZenonT(90) DEF MVencido, SumMemTypeOK
  <2>2. InvSumario'
    <3>1. Len(rttx') <= 1 /\ rttx' = <<>>
      BY <1>4 DEF MVencido
    <3>2. QED
      BY <1>4, <3>1, ZenonT(60), ZenonT(90)
      DEF MVencido, Indutivo, InvSumario, Atras, Teto, Ativo, SaidaDe
  <2>3. QED
    BY <1>4, <2>1, <2>2, SoLeitura DEF MVencido
<1>5. CASE MRemove
  <2>1. /\ linhas' \in [Arq -> Seq(Linha)]
        /\ linhas'[dados] = <<>>
        /\ \A a \in Arq : a # dados => linhas'[a] = linhas[a]
        /\ ligado' = (ligado /\ arq # dados)
        /\ dir' = dir \ {dados}
        /\ UNCHANGED <<now, mtime, arq, amostra, inf, saida, w>>
        /\ UNCHANGED <<resta, dados, rttx, sums>>
        /\ mpc' = "laco"
    BY <1>5, VazioBoa, Tipos DEF MRemove, Remove
  <2>2. TypeOK'
    <3>1. HistoricoTypeOK'
      BY <2>1, Tipos DEF HistoricoTypeOK
    <3>2. ColetaMemTypeOK'
      BY <3>1 DEF Indutivo, TypeOK, ColetaMemTypeOK, LacoTypeOK
    <3>3. QED
      BY <2>1, <3>2, Tipos, ZenonT(60), ZenonT(90) DEF TypeOK, SumMemTypeOK
  <2>3. Teto' = Teto
    BY <2>1 DEF Teto, Ativo
  <2>4. InvMemoria'
    <3>1. \A a \in Arq : Boa(linhas'[a]) /\ AteTempo(linhas'[a], Teto)
      BY <2>1, VazioBoa, ZenonT(60), ZenonT(90) DEF Indutivo, InvMemoria
    <3>2. QED
      BY <2>1, <2>3, <3>1, ZenonT(60), ZenonT(90) DEF Indutivo, InvMemoria
  <2>5. InvEscrita'
    BY <2>1, Tipos, ZenonT(60), ZenonT(90) DEF Indutivo, InvEscrita
  <2>6. InvVisita'
    <3>1. \A a \in dir' \ ArqMem : ~PodeMorrer => Escrita(a)'
      BY <2>1, Tipos DEF Indutivo, InvVisita, Escrita
    <3>2. \A x \in SempreEscritos : linhas'[x.arq] = linhas[x.arq]
      BY <2>1, ForaDeMem, Tipos
    <3>3. SempreEscritos' = SempreEscritos
      BY DEF SempreEscritos, DoHost
    <3>4. QED
      BY <2>1, <3>1, <3>2, <3>3, ZenonT(60), ZenonT(90)
      DEF Indutivo, InvVisita, Escrita, Ativo
  <2>7. InvSumario'
    <3>1. \A x, a : a \in Arq /\ Atras(x, a) => Atras(x, a)'
      BY <2>1, <2>3, ZenonT(60), ZenonT(90) DEF Atras
    <3>2. \A s \in Saida : \A k \in 1 .. Len(sums[s]) : sums[s][k].arq \in Arq
      <4> SUFFICES ASSUME NEW s \in Saida, NEW k \in 1 .. Len(sums[s])
                   PROVE  sums[s][k] \in [arq : ArqMem, linha : Linha]
        BY SumMemAssumption
      <4>1. QED
        BY Tipos, ElementOfSeq, ZenonT(60), ZenonT(90)
    <3>3. QED
      BY <2>1, <3>1, <3>2, Tipos, ZenonT(60), ZenonT(90)
      DEF Indutivo, InvSumario, SaidaDe
  <2>8. QED
    BY <2>2, <2>4, <2>5, <2>6, <2>7 DEF Indutivo
<1>6. CASE MTermina
  <2>1. SumMemTypeOK'
    BY <1>6, Tipos, ZenonT(60), ZenonT(90) DEF MTermina, SumMemTypeOK
  <2>2. InvSumario'
    BY <1>6, ZenonT(60), ZenonT(90)
    DEF MTermina, Indutivo, InvSumario, Atras, Teto, Ativo, SaidaDe
  <2>3. QED
    BY <1>6, <2>1, <2>2, SoLeitura DEF MTermina
<1>7. QED
  BY <1>1, <1>2, <1>3, <1>4, <1>5, <1>6 DEF SumMemNext

\* The invariant is preserved by every step of the system.
LEMMA PassoIndutivo == Indutivo /\ [Next]_vars => Indutivo'
<1> SUFFICES ASSUME Indutivo, [Next]_vars PROVE Indutivo'
  OBVIOUS
<1>1. CASE ColetaMemNext /\ UNCHANGED consolidador
  BY <1>1, PassoLista, PassoPede, PassoLe, PassoAbre, PassoDivide, PassoDescarrega,
     PassoFecha, PassoMorre DEF ColetaMemNext
<1>2. CASE SumMemNext /\ UNCHANGED <<coletor, fila>>
  BY <1>2, PassoConsolidador
<1>3. CASE Tick /\ UNCHANGED <<coletor, fila, consolidador>>
  BY <1>3, PassoTick
<1>4. CASE UNCHANGED vars
  <2> USE <1>4 DEF vars
  <2>1. SumMemTypeOK'
    BY ZenonT(60), ZenonT(90) DEF Indutivo, TypeOK, SumMemTypeOK, consolidador
  <2>2. InvSumario'
    BY ZenonT(60), ZenonT(90)
    DEF Indutivo, InvSumario, Atras, Teto, Ativo, SaidaDe, disco, escritor,
           coletor, consolidador
  <2>3. QED
    BY <2>1, <2>2, SoLeitura
<1>5. QED
  BY <1>1, <1>2, <1>3, <1>4 DEF Next

\* The inductive invariant holds in every reachable state of the system.
THEOREM SempreIndutivo == Spec => []Indutivo
BY InitIndutivo, PassoIndutivo, PTL DEF Spec

\* Every variable keeps its type, for every list of hosts and set of items.
THEOREM TipoCorreto == Spec => []TypeOK
<1>1. Indutivo => TypeOK
  BY DEF Indutivo
<1>2. QED
  BY <1>1, SempreIndutivo, PTL

\* The four summaries hold whole lines, one per history, none newer than what the
\* histories hold.
THEOREM SumarioFielVale == Spec => []SumarioFiel
<1>1. Indutivo => SumarioFiel
  <2> SUFFICES ASSUME Indutivo PROVE SumarioFiel
    OBVIOUS
  <2>1. \A s \in Saida : \A k, m \in 1 .. Len(sums[s]) :
          sums[s][k].arq = sums[s][m].arq => k = m
    BY DEF Indutivo, InvSumario
  <2>2. \A r, s \in Saida : \A k \in 1 .. Len(sums[r]), m \in 1 .. Len(sums[s]) :
          sums[r][k].arq = sums[s][m].arq => r = s
    BY DEF Indutivo, InvSumario
  <2>3. ASSUME NEW s \in Saida, NEW k \in 1 .. Len(sums[s])
        PROVE  LET x == sums[s][k]
               IN  /\ x.linha.inteira
                   /\ linhas[x.arq] # <<>> => linhas[x.arq][1].t >= x.linha.t
    <3>1. sums[s][k] \in [arq : ArqMem, linha : Linha]
      BY Tipos, ElementOfSeq, ZenonT(60), ZenonT(90)
    <3>2. /\ sums[s][k].linha.t \in Nat
          /\ linhas[sums[s][k].arq] \in Seq(Linha)
      BY <3>1, Tipos, SumMemAssumption, ZenonT(60), ZenonT(90) DEF Linha
    <3>3. linhas[sums[s][k].arq] # <<>> => linhas[sums[s][k].arq][1].t \in Nat
      <4>1. \A x \in Seq(Linha) : x # <<>> => x[1] \in Linha
        OBVIOUS
      <4>2. QED
        BY <3>2, <4>1, ZenonT(60), ZenonT(90) DEF Linha
    <3>4. Atras(sums[s][k].linha, sums[s][k].arq)
      BY DEF Indutivo, InvSumario
    <3>5. QED
      BY <3>2, <3>3, <3>4, ZenonT(60), ZenonT(90) DEF Atras
  <2>4. QED
    BY <2>1, <2>2, <2>3, ZenonT(60), ZenonT(90) DEF SumarioFiel
<1>2. QED
  BY <1>1, SempreIndutivo, PTL

\* Without kills only a pool's history can be left empty.
THEOREM VaziaSoMemVale == Spec => []VaziaSoMem
<1>1. Indutivo => VaziaSoMem
  BY DEF Indutivo, InvVisita, Escrita, VaziaSoMem
<1>2. QED
  BY <1>1, SempreIndutivo, PTL

\* A visit that ends normally leaves a line of its time in the files of the fans
\* and of the power supplies, whatever the tables answered and whatever is killed
\* or removed around it.
THEOREM VisitaRegistraFanPwrVale == Spec => VisitaRegistraFanPwr
<1> DEFINE Visita == pc = "grava" /\ pc' = "laco" =>
                       \A e \in SempreEscritos :
                         /\ linhas'[e.arq] # <<>>
                         /\ linhas'[e.arq][1].t = amostra.t
<1>1. Indutivo /\ [Next]_vars => [Visita]_vars
  <2> SUFFICES ASSUME Indutivo, Next, pc = "grava", pc' = "laco"
               PROVE  \A e \in SempreEscritos :
                        /\ linhas'[e.arq] # <<>>
                        /\ linhas'[e.arq][1].t = amostra.t
    OBVIOUS
  <2>1. FechaItem
    BY DEF Next, ColetaMemNext, LacoNext, Inicia, Proximo, Termina, AbreSessao,
           SessaoIndefinida, PedeTabelas, LeItem, AbreItem, DivideZero,
           DescarregaItem, Morre, Encerra, coletor
  <2>2. DOMAIN fila = {}
    BY <2>1 DEF FechaItem
  <2>3. QED
    BY <2>1, <2>2, FechaEscreve, ZenonT(60), ZenonT(90)
<1>2. QED
  BY <1>1, SempreIndutivo, PTL DEF Spec, VisitaRegistraFanPwr
-------------------------------------------------------------------------------
(* Refinement: the system implements Registro.                                 *)

H == [a \in Arq |-> Historia(a)]

\* The initial files are initial histories of Registro.
LEMMA InitRegistro == Init => Abstrato!RegistroInit
<1> SUFFICES ASSUME Init PROVE Abstrato!RegistroInit
  OBVIOUS
<1> USE DEF Init, ColetaMemInit, LacoInit, HistoricoInit
<1>1. Nova(0, SemResposta) \in {x \in Abstrato!Amostra : x.inteira}
  BY HistoricoAssumption DEF Nova, Abstrato!Amostra
<1>2. ASSUME NEW a \in Arq
      PROVE  Historia(a) \in {<<>>} \cup
               {<<s>> : s \in {x \in Abstrato!Amostra : x.inteira}}
  BY <1>1, <1>2 DEF Historia
<1>3. QED
  BY <1>2 DEF Abstrato!RegistroInit

\* A step that changes the history of no file is a stuttering step of Registro.
LEMMA MesmaHistoria ==
  ASSUME \A a \in Arq : Historia(a)' = Historia(a)
  PROVE  H' = H
BY DEF H

\* A step that changes the history of one file only.
LEMMA UmaHistoria ==
  ASSUME NEW b \in Arq, NEW h, Historia(b)' = h,
         \A a \in Arq \ {b} : Historia(a)' = Historia(a)
  PROVE  H' = [H EXCEPT ![b] = h]
BY ZenonT(60), ZenonT(90) DEF H

\* Opening the file of an item for writing records its line.
LEMMA AbreRegistra ==
  ASSUME Indutivo, AbreItem
  PROVE  Abstrato!RegistroNext
<1>1. PICK e \in Primeiros :
        /\ ~DivisaoPorZero(e, fila[e])
        /\ AbreEscrita([amostra EXCEPT !.v = Medida(e, fila[e])])
  BY DEF AbreItem
<1> DEFINE l == [amostra EXCEPT !.v = Medida(e, fila[e])]
<1>2. l \in Linha /\ l.t = amostra.t /\ l.inteira
  BY <1>1, LinhaDoItem
<1> HIDE DEF l
<1>3. /\ pc = "abre" /\ pc' = "grava" /\ ligado' = TRUE /\ arq' = arq
      /\ linhas' = [linhas EXCEPT ![arq] = <<>>]
      /\ saida' = Renova(l, inf)
  BY <1>1 DEF AbreItem, AbreEscrita, l
<1>4. H[arq] = inf
  BY <1>3, Tipos DEF H, Historia
<1>5. H' = [H EXCEPT ![arq] = Abstrato!Recentes(<<l>> \o H[arq], HistMax + 2)]
  <2>1. Historia(arq)' = Renova(l, inf)
    BY <1>3 DEF Historia
  <2>2. \A a \in Arq \ {arq} : Historia(a)' = Historia(a)
    BY <1>3, Tipos DEF Historia
  <2>3. Renova(l, inf) = Abstrato!Recentes(<<l>> \o inf, HistMax + 2)
    BY <1>2, RenovaCorte, Tipos, ZenonT(60), ZenonT(90) DEF Abstrato!Recentes
  <2>4. QED
    BY <1>3, <1>4, <2>1, <2>2, <2>3, UmaHistoria, Tipos
<1>6. l \in Abstrato!Amostra
  <2>1. l.t \in 0 .. MaxT
    <3>1. amostra.t <= now /\ now <= MaxT
      BY DEF Indutivo, InvMemoria
    <3>2. amostra.t \in Nat /\ now \in Nat /\ MaxT \in Nat
      BY HistoricoAssumption, Tipos
    <3>3. QED
      BY <1>2, <3>1, <3>2
  <2>2. QED
    BY <1>2, <2>1 DEF Linha, Abstrato!Amostra
<1>7. H[arq] # <<>> => l.t >= H[arq][1].t
  <2> SUFFICES ASSUME inf # <<>> PROVE amostra.t >= inf[1].t
    BY <1>2, <1>4
  <2>1. 1 \in 1 .. Len(inf) /\ inf[1] \in Linha
    BY Tipos
  <2>2. AteTempo(inf, amostra.t)
    BY <1>3, ZenonT(60), ZenonT(90) DEF Indutivo, InvMemoria, Teto, Ativo
  <2>3. QED
    BY <2>1, <2>2, Tipos DEF AteTempo, Linha
<1>8. Abstrato!Registra(arq)
  BY <1>2, <1>5, <1>6, <1>7, ZenonT(60), ZenonT(90) DEF Abstrato!Registra, H
<1>9. QED
  BY <1>8, Tipos DEF Abstrato!RegistroNext

\* The failing division removes the history of its pool.
LEMMA DivideRemove ==
  ASSUME Indutivo, DivideZero
  PROVE  Abstrato!RegistroNext
<1>1. PICK e \in Primeiros : e.arq = arq /\ DivisaoPorZero(e, fila[e])
  BY DEF DivideZero
<1>2. arq \in ArqMem
  <2>1. e \in Item /\ e.tipo = "mem"
    BY <1>1 DEF Primeiros, DivisaoPorZero, Indutivo, TypeOK, ColetaMemTypeOK
  <2>2. QED
    BY <1>1, <2>1, MemAssumption
<1>3. /\ pc = "abre" /\ pc' = "fim" /\ arq' = arq
      /\ linhas' = [linhas EXCEPT ![arq] = <<>>]
  BY DEF DivideZero, Encerra
<1>4. Historia(arq)' = <<>> /\ \A a \in Arq \ {arq} : Historia(a)' = Historia(a)
  BY <1>3, Tipos DEF Historia
<1>5. H' = [H EXCEPT ![arq] = <<>>]
  BY <1>3, <1>4, UmaHistoria, Tipos
<1>6. QED
  BY <1>2, <1>5, Tipos, ZenonT(60), ZenonT(90)
  DEF Abstrato!RegistroNext, Abstrato!Remove, H

\* Killing the collector loses at most the oldest lines.
LEMMA MorrePerde ==
  ASSUME Indutivo, Morre
  PROVE  Abstrato!RegistroNext \/ H' = H
<1> USE DEF Morre, Encerra, disco
<1>1. /\ Historia(arq)' = linhas[arq]
      /\ \A a \in Arq \ {arq} : Historia(a)' = Historia(a)
  BY Tipos DEF Historia
<1>2. H' = [H EXCEPT ![arq] = linhas[arq]]
  BY <1>1, UmaHistoria, Tipos
<1>3. H[arq] \in Seq(Linha) /\ Len(H[arq]) \in Nat
  BY Tipos, LenProperties DEF H, Historia
<1>4. CASE linhas[arq] = <<>>
  <2>1. SubSeq(H[arq], 1, 0) = <<>> /\ 0 \in 0 .. Len(H[arq])
    BY <1>3, SubSeqEmpty
  <2>2. Abstrato!Perde(arq)
    BY <1>2, <1>4, <2>1, ZenonT(60), ZenonT(90) DEF Abstrato!Perde, H
  <2>3. QED
    BY <2>2, Tipos DEF Abstrato!RegistroNext
<1>5. CASE linhas[arq] # <<>> /\ ~(pc = "grava" /\ ligado)
  <2>1. Historia(arq) = linhas[arq]
    BY <1>5 DEF Historia, Indutivo, InvEscrita
  <2>2. QED
    BY <1>1, <2>1, MesmaHistoria
<1>6. CASE linhas[arq] # <<>> /\ pc = "grava" /\ ligado
  <2>1. w # 0 /\ w < Len(saida) /\ 0 < w
    BY <1>6, Tipos DEF Indutivo, InvEscrita
  <2>2. PICK corta \in BOOLEAN : linhas[arq] = Pedaco(saida, w, corta)
    BY <1>6, <2>1, ZenonT(60), ZenonT(90) DEF Indutivo, InvEscrita
  <2>3. H[arq] = saida
    BY <1>6, Tipos DEF H, Historia
  <2>4. /\ w \in 0 .. Len(saida)
        /\ linhas[arq] =
             IF corta THEN Append(SubSeq(saida, 1, w),
                                  [saida[w + 1] EXCEPT !.inteira = FALSE])
             ELSE SubSeq(saida, 1, w)
    <3>1. saida \in Seq(Linha) /\ w \in Nat /\ Len(saida) \in Nat
      BY Tipos, LenProperties
    <3>2. QED
      BY <2>1, <2>2, <3>1, PedacoPerda
  <2>5. Abstrato!Perde(arq)
    BY <1>2, <2>1, <2>3, <2>4, ZenonT(60), ZenonT(90) DEF Abstrato!Perde, H
  <2>6. QED
    BY <2>5, Tipos DEF Abstrato!RegistroNext
<1>7. QED
  BY <1>4, <1>5, <1>6

\* The other steps of the collector change no history.
LEMMA ColetorMantem ==
  ASSUME Indutivo,
         LacoNext \/ PedeTabelas \/ LeItem \/ DescarregaItem \/ FechaItem
  PROVE  H' = H
<1> USE DEF disco, escritor, coletor
<1> SUFFICES \A a \in Arq : Historia(a)' = Historia(a)
  BY MesmaHistoria
<1>1. CASE LacoNext
  BY <1>1, ZenonT(60), ZenonT(90)
  DEF LacoNext, Inicia, Proximo, Termina, AbreSessao, SessaoIndefinida,
              Historia
<1>2. CASE PedeTabelas
  BY <1>2, ZenonT(60), ZenonT(90) DEF PedeTabelas, Historia
<1>3. CASE LeItem
  BY <1>3 DEF LeItem, Ler, Historia
<1>4. CASE DescarregaItem
  <2>1. \A a \in Arq : ~(a = arq /\ ligado) => linhas'[a] = linhas[a]
    BY <1>4, Tipos, ZenonT(60), ZenonT(90) DEF DescarregaItem, Descarrega, Grava
  <2>2. QED
    BY <1>4, <2>1, ZenonT(60), ZenonT(90) DEF DescarregaItem, Descarrega, Historia
<1>5. CASE FechaItem
  <2>1. /\ \A a \in Arq : ~(a = arq /\ ligado) => linhas'[a] = linhas[a]
        /\ ligado => linhas'[arq] = saida
    BY <1>5, Tipos DEF FechaItem, Fecha, Grava
  <2>2. QED
    BY <1>5, <2>1, ZenonT(60), ZenonT(90) DEF FechaItem, Fecha, Historia
<1>6. QED
  BY <1>1, <1>2, <1>3, <1>4, <1>5

\* The consolidation changes a history only by removing it, in mem/.
LEMMA ConsolidadorRemove ==
  ASSUME Indutivo, UNCHANGED coletor, SumMemNext
  PROVE  Abstrato!RegistroNext \/ H' = H
<1> USE DEF disco, escritor, coletor
<1>1. CASE MInicia \/ MLe \/ MImprime \/ MVencido \/ MTermina
  <2>1. \A a \in Arq : Historia(a)' = Historia(a)
    <3>1. UNCHANGED linhas
      <4>1. CASE MInicia  BY <4>1 DEF MInicia
      <4>2. CASE MLe      BY <4>2 DEF MLe
      <4>3. CASE MImprime BY <4>3 DEF MImprime
      <4>4. CASE MVencido BY <4>4 DEF MVencido
      <4>5. CASE MTermina BY <4>5 DEF MTermina
      <4>6. QED           BY <1>1, <4>1, <4>2, <4>3, <4>4, <4>5
    <3>2. UNCHANGED <<pc, arq, inf, ligado, saida>>
      <4>1. CASE MInicia  BY <4>1 DEF MInicia
      <4>2. CASE MLe      BY <4>2 DEF MLe
      <4>3. CASE MImprime BY <4>3 DEF MImprime
      <4>4. CASE MVencido BY <4>4 DEF MVencido
      <4>5. CASE MTermina BY <4>5 DEF MTermina
      <4>6. QED           BY <1>1, <4>1, <4>2, <4>3, <4>4, <4>5
    <3>3. QED
      BY <3>1, <3>2 DEF Historia
  <2>2. QED
    BY <2>1, MesmaHistoria
<1>2. CASE MRemove
  <2>1. /\ linhas'[dados] = <<>>
        /\ \A a \in Arq : a # dados => linhas'[a] = linhas[a]
        /\ ligado' = (ligado /\ arq # dados)
        /\ UNCHANGED <<arq, inf, saida, pc, dados>>
    BY <1>2, Tipos DEF MRemove, Remove
  <2>2. \A a \in Arq \ {dados} : Historia(a)' = Historia(a)
    BY <2>1, ZenonT(60), ZenonT(90) DEF Historia
  <2>3. CASE pc = "abre" /\ dados = arq
    <3>1. Historia(dados)' = Historia(dados)
      BY <2>1, <2>3 DEF Historia
    <3>2. QED
      BY <2>1, <2>2, <3>1, MesmaHistoria
  <2>4. CASE ~(pc = "abre" /\ dados = arq)
    <3>1. Historia(dados)' = <<>>
      BY <2>1, <2>4, ZenonT(60), ZenonT(90) DEF Historia
    <3>2. H' = [H EXCEPT ![dados] = <<>>]
      BY <2>1, <2>2, <3>1, UmaHistoria, Tipos
    <3>3. QED
      BY <3>2, Tipos, ZenonT(60), ZenonT(90)
      DEF Abstrato!RegistroNext, Abstrato!Remove, H
  <2>5. QED
    BY <2>3, <2>4
<1>3. QED
  BY <1>1, <1>2 DEF SumMemNext

\* Every step of the system is a step of Registro or changes no history.
LEMMA PassoRegistro ==
  Indutivo /\ [Next]_vars => [Abstrato!RegistroNext]_H
<1> SUFFICES ASSUME Indutivo, [Next]_vars
             PROVE  Abstrato!RegistroNext \/ H' = H
  OBVIOUS
<1>1. CASE ColetaMemNext
  BY <1>1, ColetorMantem, AbreRegistra, DivideRemove, MorrePerde DEF ColetaMemNext
<1>2. CASE SumMemNext /\ UNCHANGED <<coletor, fila>>
  BY <1>2, ConsolidadorRemove
<1>3. CASE (Tick /\ UNCHANGED <<coletor, fila, consolidador>>) \/ UNCHANGED vars
  <2>1. \A a \in Arq : Historia(a)' = Historia(a)
    BY <1>3 DEF Tick, vars, disco, escritor, coletor, Historia
  <2>2. QED
    BY <2>1, MesmaHistoria
<1>4. QED
  BY <1>1, <1>2, <1>3 DEF Next

\* Whatever is killed, unanswered, divided by zero or removed, the histories of
\* pools, sensors, fans and power supplies change as Registro allows: removal only
\* in mem/, loss of old lines only by a kill.
THEOREM ImplementaRegistroVale == Spec => ImplementaRegistro
<1>1. Init => Abstrato!RegistroInit
  BY InitRegistro
<1>2. Indutivo /\ [Next]_vars =>
        [Abstrato!RegistroNext]_[a \in Arq |-> Historia(a)]
  BY PassoRegistro DEF H
<1>3. QED
  BY <1>1, <1>2, SempreIndutivo, PTL
  DEF Spec, ImplementaRegistro, Abstrato!RegistroSpec
===============================================================================
