----------------------------- MODULE IdSnmpProofs ------------------------------
(* Proofs about the interface walk for every set of hosts, tables, cut names,  *)
(* lists of monitored interfaces and orders of the hosts.                      *)
EXTENDS IdSnmp, SequenceTheorems, WellFoundedInduction, TLAPS

\* A leaf is tried with SMT, with Zenon, and with SMT again, unless it names a prover.
USE SMTT(20), ZenonT(20), SMTT(90)

-------------------------------------------------------------------------------
(* The inductive invariant.                                                    *)

\* A name may stand for itself, or for what is left of it when its line is cut.
Lembra(nome, lida) == lida = nome \/ <<nome, lida>> \in Cortes

\* The logs: a cut line is the next one of the table.
Tipos ==
  /\ TypeOK
  /\ log \in [Host -> [linhas : Nat, corte : Nome \cup {Nada}] \cup {Nada}]
  /\ \A h \in Host : log[h] # Nada /\ log[h].corte # Nada =>
       /\ log[h].linhas < Len(Tabela[h])
       /\ <<Tabela[h][log[h].linhas + 1].n, log[h].corte>> \in Cortes
  /\ geral \in Seq(Entrada)
  /\ pc \in {"walk", "dorme"} => i \in 1 .. Len(ordem)
  /\ pc = "rtt" => i \in Nat \ {0}
  /\ pc = "cfg" => falta \subseteq err

\* The lines read of a log are the first ones of its table, the last one cut or not.
Leitura ==
  /\ \A h \in Host : \A k \in DOMAIN lido[h] :
       /\ k \in DOMAIN Tabela[h]
       /\ lido[h][k].id = Tabela[h][k].id
       /\ Lembra(Tabela[h][k].n, lido[h][k].n)
  /\ pc = "le" => \A h \in falta : lido[h] = <<>> /\ log[h] # Nada

\* id_ger.txt holds the lines of every log as one block, after d other lines.
Bloqueado(h, d) ==
  /\ \A k \in DOMAIN lido[h] :
       /\ d + k <= Len(geral)
       /\ geral[d + k] = [h |-> h, n |-> lido[h][k].n, id |-> lido[h][k].id]
  /\ \A m \in DOMAIN geral : geral[m].h = h => m - d \in DOMAIN lido[h]
Geral == pc \in {"le", "grava", "rtt"} =>
  \A h \in Host : \E d \in 0 .. Len(geral) : Bloqueado(h, d)

\* Line k of id_ger.txt is the last one of c among the first n.
UltimaDe(c, k, n) ==
  /\ <<geral[k].h, geral[k].n>> = c
  /\ \A j \in DOMAIN geral : k < j /\ j <= n => <<geral[j].h, geral[j].n>> # c

\* The database has what the lines of id_ger.txt so far say last.
Banco ==
  pc = "rtt" => \A k \in DOMAIN geral : \A c \in Chave :
    k < i /\ UltimaDe(c, k, i - 1) =>
      /\ c \in LadoB => bdb[c] = geral[k].id
      /\ c \in LadoA \ LadoB => bda[c] = geral[k].id

\* The list has indexes that were read in this round.
Lista ==
  /\ pc \in {"grava", "rtt", "cfg"} =>
       \A e \in lista : e.id # Nada => e.id = hint_id(<<e.h, e.n>>)
  /\ pc \in {"rtt", "cfg"} => \A e \in lista : e.id # Nada

\* A host is reported for what was read in this round.
Erros == pc \in {"le", "grava", "rtt", "cfg"} => \A h \in err :
  \/ lido[h] = <<>> /\ (pc = "le" => h \notin falta)
  \/ pc # "le" /\ \E c \in ComPonto : c[1] = h /\ hint_id(c) = Nada

Indutivo == Tipos /\ Leitura /\ Geral /\ Banco /\ Lista /\ Erros /\ BancoConcorda
-------------------------------------------------------------------------------
(* The first and the last line of a name.                                      *)

\* A set of naturals has a least element.
LEMMA MenorNatural ==
  ASSUME NEW S, S \subseteq Nat, S # {}
  PROVE  \E x \in S : \A y \in S : x <= y
<1> DEFINE R == OpToRel(<, Nat)
<1>1. IsWellFoundedOn(R, Nat)
  BY NatLessThanWellFounded, ZenonT(60), ZenonT(90)
<1>2. \A x, y \in Nat : x < y => <<x, y>> \in R
  BY DEF OpToRel
<1> HIDE DEF R
<1>3. PICK x \in S : \A y \in S : ~(<<y, x>> \in R)
  BY <1>1, WFMin, ZenonT(60), ZenonT(90)
<1>4. \A y \in S : ~(y < x)
  BY <1>2, <1>3, ZenonT(60), ZenonT(90)
<1>5. QED
  BY <1>4

\* A set of places of a sequence has a last one.
LEMMA UltimoLugar ==
  ASSUME NEW n \in Nat, NEW S, S \subseteq 1 .. n, S # {}
  PROVE  \E x \in S : \A y \in S : y <= x
<1> DEFINE T == {n - y : y \in S}
<1>1. T \subseteq Nat
  OBVIOUS
<1>2. T # {}
  <2>1. PICK y \in S : TRUE
    BY ZenonT(60), ZenonT(90)
  <2>2. n - y \in T
    OBVIOUS
  <2>3. QED
    BY <2>2
<1>3. \A y \in S : n - y \in T
  OBVIOUS
<1>4. \A z \in T : \E x \in S : z = n - x
  OBVIOUS
<1> HIDE DEF T
<1>5. PICK z \in T : \A y \in T : z <= y
  BY <1>1, <1>2, MenorNatural, ZenonT(60), ZenonT(90)
<1>6. PICK x \in S : z = n - x
  BY <1>4
<1>7. \A y \in S : n - x <= n - y
  BY <1>3, <1>5, <1>6
<1>8. QED
  BY <1>7

\* An index that is chosen is that of a line of the name: the first one of a serial
\* interface, the last one of any other.
LEMMA EscolhaEh ==
  ASSUME NEW s \in Seq(Linha), NEW nome, Escolha(s, nome) # Nada
  PROVE  \E k \in DOMAIN s :
           /\ s[k].n = nome
           /\ s[k].id = Escolha(s, nome)
           /\ \A j \in DOMAIN s :
                s[j].n = nome => IF nome \in Serial THEN k <= j ELSE j <= k
<1> DEFINE K == {k \in DOMAIN s : s[k].n = nome}
<1>1. Len(s) \in Nat /\ DOMAIN s = 1 .. Len(s)
  BY LenProperties
<1>2. K # {}
  BY DEF Escolha
<1>3. K \subseteq 1 .. Len(s) /\ K \subseteq Nat
  BY <1>1
<1>4. \A k : k \in K <=> k \in DOMAIN s /\ s[k].n = nome
  OBVIOUS
<1>5. CASE nome \in Serial
  <2> DEFINE k == CHOOSE k \in K : \A j \in K : k <= j
  <2>1. Escolha(s, nome) = s[k].id
    BY <1>2, <1>5 DEF Escolha
  <2>2. k \in K /\ \A j \in K : k <= j
    <3> HIDE DEF K
    <3>1. \E x \in K : \A j \in K : x <= j
      BY <1>2, <1>3, MenorNatural, ZenonT(60), ZenonT(90)
    <3>2. QED
      BY <3>1
  <2> HIDE DEF K, k
  <2>3. QED
    BY <1>4, <1>5, <2>1, <2>2
<1>6. CASE nome \notin Serial
  <2> DEFINE k == CHOOSE k \in K : \A j \in K : j <= k
  <2>1. Escolha(s, nome) = s[k].id
    BY <1>2, <1>6 DEF Escolha
  <2>2. k \in K /\ \A j \in K : j <= k
    <3> HIDE DEF K
    <3>1. \E x \in K : \A j \in K : j <= x
      BY <1>1, <1>2, <1>3, UltimoLugar, ZenonT(60), ZenonT(90)
    <3>2. QED
      BY <3>1
  <2> HIDE DEF K, k
  <2>3. QED
    BY <1>4, <1>6, <2>1, <2>2
<1>7. QED
  BY <1>5, <1>6

\* The elements of a sequence.
LEMMA ElementosDe ==
  ASSUME NEW S, NEW s \in Seq(S)
  PROVE  \A k \in DOMAIN s : s[k] \in S
<1>1. s \in [1 .. Len(s) -> S]
  BY LenProperties
<1>2. QED
  BY <1>1, ZenonT(60), ZenonT(90)

\* The table of a router.
LEMMA TabelaTipo ==
  ASSUME NEW h \in Host
  PROVE  /\ Tabela[h] \in Seq(Linha) /\ Tabela[h] # <<>>
         /\ Len(Tabela[h]) \in Nat /\ DOMAIN Tabela[h] = 1 .. Len(Tabela[h])
         /\ \A k \in 1 .. Len(Tabela[h]) : Tabela[h][k] \in Linha
<1>1. Tabela[h] \in Seq(Linha) /\ Tabela[h] # <<>>
  BY IdSnmpAssumption
<1>2. QED
  BY <1>1, LenProperties, ElementOfSeq

\* What is read of a log is the beginning of the table.
LEMMA LinhasDoLog ==
  ASSUME Tipos, NEW h \in Host, log[h] # Nada
  PROVE  /\ Linhas(h) \in Seq(Linha)
         /\ \A k \in 1 .. Len(Linhas(h)) :
              /\ k \in 1 .. Len(Tabela[h])
              /\ Linhas(h)[k].id = Tabela[h][k].id
              /\ Lembra(Tabela[h][k].n, Linhas(h)[k].n)
<1> DEFINE n == log[h].linhas
           a == SubSeq(Tabela[h], 1, n)
           b == IF log[h].corte = Nada THEN <<>>
                ELSE <<[n |-> log[h].corte, id |-> Tabela[h][n + 1].id]>>
<1>1. n \in Nat /\ n <= Len(Tabela[h]) /\ Len(Tabela[h]) \in Nat
  BY TabelaTipo DEF Tipos, TypeOK
<1>2. \A k \in 1 .. n : Tabela[h][k] \in Linha
  BY <1>1, TabelaTipo
<1>3. a \in Seq(Linha) /\ Len(a) = n /\ \A k \in 1 .. n : a[k] = Tabela[h][k]
  <2> HIDE DEF n
  <2>1. /\ SubSeq(Tabela[h], 1, n) \in Seq(Linha)
        /\ Len(SubSeq(Tabela[h], 1, n)) = IF 1 <= n THEN n - 1 + 1 ELSE 0
        /\ \A k \in 1 .. n - 1 + 1 : SubSeq(Tabela[h], 1, n)[k] = Tabela[h][1 + k - 1]
    BY <1>1, <1>2, SubSeqProperties
  <2>2. QED
    BY <1>1, <2>1
<1>4. Linhas(h) = a \o b
  BY DEF Linhas
<1>5. CASE log[h].corte = Nada
  <2>1. b = <<>>
    BY <1>5
  <2> HIDE DEF a, b, n
  <2>2. Linhas(h) = a
    BY <1>3, <1>4, <2>1, ConcatEmptySeq
  <2>3. QED
    BY <1>1, <1>3, <2>2 DEF Lembra
<1>6. CASE log[h].corte # Nada
  <2> DEFINE x == [n |-> log[h].corte, id |-> Tabela[h][n + 1].id]
  <2>1. /\ n < Len(Tabela[h]) /\ log[h].corte \in Nome
        /\ <<Tabela[h][n + 1].n, log[h].corte>> \in Cortes
    BY <1>6 DEF Tipos, TypeOK
  <2>2. Tabela[h][n + 1] \in Linha
    BY <1>1, <2>1, TabelaTipo
  <2>3. x \in Linha
    BY <2>1, <2>2 DEF Linha
  <2>4. b = <<x>>
    BY <1>6
  <2>5. x.id = Tabela[h][n + 1].id /\ Lembra(Tabela[h][n + 1].n, x.n)
    BY <2>1 DEF Lembra
  <2> HIDE DEF a, b, n, x
  <2>6. b \in Seq(Linha) /\ Len(b) = 1 /\ b[1] = x
    BY <2>3, <2>4
  <2>7. /\ a \o b \in Seq(Linha) /\ Len(a \o b) = n + 1
        /\ \A k \in 1 .. n + 1 : (a \o b)[k] = IF k <= n THEN a[k] ELSE b[k - n]
    <3>1. a \in Seq(Linha) /\ b \in Seq(Linha)
      BY <1>3, <2>6
    <3>2. /\ a \o b \in Seq(Linha) /\ Len(a \o b) = Len(a) + Len(b)
          /\ \A k \in 1 .. Len(a) + Len(b) :
               (a \o b)[k] = IF k <= Len(a) THEN a[k] ELSE b[k - Len(a)]
      BY <3>1, ConcatProperties, ZenonT(60), ZenonT(90)
    <3>3. QED
      BY <1>3, <2>6, <3>2
  <2>8. \A k \in 1 .. n + 1 :
          /\ (a \o b)[k].id = Tabela[h][k].id
          /\ Lembra(Tabela[h][k].n, (a \o b)[k].n)
    <3> SUFFICES ASSUME NEW k \in 1 .. n + 1
                 PROVE  /\ (a \o b)[k].id = Tabela[h][k].id
                        /\ Lembra(Tabela[h][k].n, (a \o b)[k].n)
      BY ZenonT(60), ZenonT(90)
    <3>1. CASE k <= n
      BY <1>1, <1>3, <2>7, <3>1 DEF Lembra
    <3>2. CASE ~(k <= n)
      <4>1. k = n + 1 /\ k - n = 1
        BY <1>1, <3>2
      <4>2. QED
        BY <2>5, <2>6, <2>7, <3>2, <4>1
    <3>3. QED
      BY <3>1, <3>2, ZenonT(60), ZenonT(90)
  <2>9. QED
    BY <1>1, <1>4, <2>1, <2>7, <2>8
<1>7. QED
  BY <1>5, <1>6
-------------------------------------------------------------------------------
(* The steps.                                                                  *)

\* The database holds no index yet, or the one of some row.
LEMMA NadaTipo == ASSUME NEW c \in Chave PROVE Nada \in {e.id : e \in Entrada}
<1>1. PICK h \in Host, n \in Nome : c = <<h, n>>
  BY DEF Chave
<1>2. [h |-> h, n |-> n, id |-> Nada] \in Entrada
  BY DEF Entrada
<1>3. QED
  BY <1>2

\* The script is not running and nothing was read.
LEMMA InitIndutivo == Init => Indutivo
<1> SUFFICES ASSUME Init PROVE Indutivo
  OBVIOUS
<1>1. ordem \in Seq(Host)
  BY IdSnmpAssumption DEF Init
<1>2. lido \in [Host -> Seq(Linha)] /\ \A h \in Host : lido[h] = <<>>
  BY EmptySeq DEF Init, SemLinhas
<1>3. [c \in Chave |-> Nada] \in [Chave -> {e.id : e \in Entrada}]
  BY NadaTipo
<1>4. geral \in Seq(Entrada) /\ DOMAIN geral = {}
  BY EmptySeq DEF Init
<1>5. TypeOK
  BY <1>2, <1>3, <1>4 DEF Init, TypeOK
<1>6. Tipos
  BY <1>4, <1>5 DEF Init, Tipos
<1>7. Leitura
  BY <1>2 DEF Init, Leitura
<1>8. QED
  BY <1>6, <1>7 DEF Init, Indutivo, Geral, Banco, Lista, Erros, BancoConcorda

\* A step that leaves alone what was read and what was made of it.
LEMMA SoLogs ==
  ASSUME Indutivo, Tipos',
         UNCHANGED <<pc, i, falta, lido, lista, geral, err, bda, bdb>>,
         \A h \in Host : log[h] # Nada => log'[h] # Nada
  PROVE  Indutivo'
<1>1. falta \subseteq Host
  BY DEF Indutivo, Tipos, TypeOK
<1>2. Leitura'
  BY <1>1 DEF Indutivo, Leitura
<1>3. Geral' /\ Banco'
  BY ZenonT(60), ZenonT(90) DEF Indutivo, Geral, Bloqueado, Banco, UltimaDe
<1>4. Lista' /\ Erros'
  BY DEF Indutivo, Lista, Erros, hint_id
<1>5. BancoConcorda'
  BY DEF Indutivo, BancoConcorda, Aplicada
<1>6. QED
  BY <1>2, <1>3, <1>4, <1>5 DEF Indutivo

\* What is left of a cut line is the beginning of the name of the next row.
LEMMA RestoEh ==
  ASSUME NEW h, NEW n, NEW r \in Restos(h, n)
  PROVE  /\ r \in Nome \cup {Nada}
         /\ r # Nada => n < Len(Tabela[h]) /\ <<Tabela[h][n + 1].n, r>> \in Cortes
<1> SUFFICES ASSUME r # Nada
             PROVE  /\ r \in Nome
                    /\ n < Len(Tabela[h]) /\ <<Tabela[h][n + 1].n, r>> \in Cortes
  OBVIOUS
<1>1. PICK d \in Cortes : r = d[2] /\ n < Len(Tabela[h]) /\ d[1] = Tabela[h][n + 1].n
  BY DEF Restos
<1>2. d \in Nome \X Nome
  BY IdSnmpAssumption
<1>3. r \in Nome /\ d = <<Tabela[h][n + 1].n, r>>
  BY <1>1, <1>2
<1>4. QED
  BY <1>1, <1>3

\* A walk writes to its log.
LEMMA PassoWalk ==
  ASSUME Indutivo, NEW h \in Host, Walk(h)
  PROVE  Indutivo'
<1> DEFINE R == [linhas : Nat, corte : Nome \cup {Nada}]
<1>1. /\ h \in vivo /\ log[h] # Nada /\ log \in [Host -> R \cup {Nada}] /\ Nada \notin R
      /\ log[h].linhas \in 0 .. Len(Tabela[h])
  BY IdSnmpAssumption DEF Indutivo, Tipos, TypeOK, Walk, Bloco, FimWalk, WalkFalha
<1> DEFINE Escreve(n, r) == /\ r \in Restos(h, n)
                            /\ log' = [log EXCEPT ![h] = [linhas |-> n, corte |-> r]]
<1>2. /\ \E n \in 0 .. Len(Tabela[h]), r \in Nome \cup {Nada} : Escreve(n, r)
      /\ vivo' \subseteq vivo
      /\ UNCHANGED <<ordem, conf, pc, i, falta, lido, lista, geral, err, bda, bdb>>
  <2>1. Len(Tabela[h]) \in Nat
    BY TabelaTipo
  <2>2. \A n : Nada \in Restos(h, n)
    BY DEF Restos
  <2>3. CASE Bloco(h)
    <3>1. PICK n \in log[h].linhas .. Len(Tabela[h]) : \E r \in Restos(h, n) :
            log' = [log EXCEPT ![h] = [linhas |-> n, corte |-> r]]
      BY <2>3, ZenonT(60), ZenonT(90) DEF Bloco
    <3>2. PICK r \in Restos(h, n) :
            log' = [log EXCEPT ![h] = [linhas |-> n, corte |-> r]]
      BY <3>1, ZenonT(60), ZenonT(90)
    <3>3. n \in 0 .. Len(Tabela[h])
      BY <1>1, <2>1
    <3>4. r \in Nome \cup {Nada} /\ Escreve(n, r)
      BY <3>2, RestoEh, ZenonT(60), ZenonT(90)
    <3> HIDE DEF Escreve
    <3>5. QED
      BY <2>3, <3>3, <3>4 DEF Bloco
  <2>4. CASE FimWalk(h)
    <3>1. Len(Tabela[h]) \in 0 .. Len(Tabela[h]) /\ Escreve(Len(Tabela[h]), Nada)
      BY <2>1, <2>2, <2>4 DEF FimWalk
    <3> HIDE DEF Escreve
    <3>2. QED
      BY <2>4, <3>1 DEF FimWalk
  <2>5. CASE WalkFalha(h)
    <3>1. PICK n \in log[h].linhas .. (IF h \in conf THEN Len(Tabela[h]) ELSE 0) :
            log' = [log EXCEPT ![h] = [linhas |-> n, corte |-> Nada]]
      BY <2>5, ZenonT(60), ZenonT(90) DEF WalkFalha
    <3>2. n \in 0 .. Len(Tabela[h])
      BY <1>1, <2>1
    <3>3. Escreve(n, Nada)
      BY <2>2, <3>1
    <3> HIDE DEF Escreve
    <3>4. QED
      BY <2>5, <3>2, <3>3 DEF WalkFalha
  <2>6. QED
    BY <2>3, <2>4, <2>5 DEF Walk
<1>3. PICK n \in 0 .. Len(Tabela[h]), r \in Nome \cup {Nada} : Escreve(n, r)
  BY <1>2, ZenonT(60), ZenonT(90)
<1>4. /\ n \in Nat
      /\ r # Nada => n < Len(Tabela[h]) /\ <<Tabela[h][n + 1].n, r>> \in Cortes
  BY <1>3, RestoEh, TabelaTipo
<1>5. [linhas |-> n, corte |-> r] \in R
  BY <1>4
<1>6. log' \in [Host -> R \cup {Nada}]
  BY <1>1, <1>3, <1>5
<1>7. /\ log'[h] # Nada /\ log'[h].linhas = n /\ log'[h].corte = r
      /\ \A g \in Host : g # h => log'[g] = log[g]
  BY <1>1, <1>3, <1>5
<1> HIDE DEF R
<1>8. TypeOK'
  BY <1>1, <1>2, <1>4, <1>7 DEF Indutivo, Tipos, TypeOK
<1>9. Tipos'
  <2>1. \A g \in Host : log'[g] # Nada /\ log'[g].corte # Nada =>
          /\ log'[g].linhas < Len(Tabela[g])
          /\ <<Tabela[g][log'[g].linhas + 1].n, log'[g].corte>> \in Cortes
    BY <1>4, <1>7, ZenonT(60), ZenonT(90) DEF Indutivo, Tipos
  <2>2. QED
    BY <1>2, <1>6, <1>8, <2>1 DEF Indutivo, Tipos, R
<1>10. QED
  BY <1>1, <1>2, <1>7, <1>9, SoLogs

\* Outside the reading of the logs and what follows it, only the types matter.
LEMMA ForaDaLeitura ==
  ASSUME Indutivo, Tipos', pc' \notin {"le", "grava", "rtt", "cfg"},
         lido' \in {lido, SemLinhas}
  PROVE  Indutivo'
<1>1. Leitura'
  BY DEF Indutivo, Leitura, SemLinhas
<1>2. Geral' /\ Banco' /\ Lista' /\ Erros' /\ BancoConcorda'
  BY DEF Geral, Banco, Lista, Erros, BancoConcorda
<1>3. QED
  BY <1>1, <1>2 DEF Indutivo

\* hosts_snmpwalk.txt has hosts, and at least one.
LEMMA OrdemTipo ==
  ASSUME Indutivo
  PROVE  /\ ordem \in Seq(Host) /\ Len(ordem) \in Nat /\ 1 <= Len(ordem)
         /\ \A k \in 1 .. Len(ordem) : ordem[k] \in Host
         /\ Listados \subseteq Host
<1>1. ordem \in Seq(Host) /\ ordem # <<>>
  BY IdSnmpAssumption DEF Indutivo, Tipos, TypeOK
<1>2. Len(ordem) \in Nat /\ 1 <= Len(ordem)
  BY <1>1, EmptySeq
<1>3. DOMAIN ordem = 1 .. Len(ordem) /\ \A k \in 1 .. Len(ordem) : ordem[k] \in Host
  BY <1>1, LenProperties, ElementOfSeq
<1>4. Listados \subseteq Host
  BY <1>3 DEF Listados, Range
<1>5. QED
  BY <1>1, <1>2, <1>3, <1>4

\* The script starts, sleeps, ends or is killed.
LEMMA PassoFora ==
  ASSUME Indutivo, Comeca \/ Dorme \/ Termina \/ Morre
  PROVE  Indutivo'
<1>1. UNCHANGED <<ordem, conf, log, vivo, lista, err, bda, bdb>>
  BY DEF Comeca, Dorme, Termina, Morre
<1>2. lido' \in {lido, SemLinhas}
  BY DEF Comeca, Dorme, Termina, Morre
<1>3. pc' \in {"walk", "ler", "fora", "morto"}
  BY DEF Comeca, Dorme, Termina, Morre
<1>4. SemLinhas \in [Host -> Seq(Linha)] /\ <<>> \in Seq(Entrada)
  BY EmptySeq DEF SemLinhas
<1>5. falta' \subseteq Host
  BY DEF Comeca, Dorme, Termina, Morre, Indutivo, Tipos, TypeOK
<1>6. geral' \in Seq(Entrada) /\ \A k \in DOMAIN geral' : geral'[k] \in Entrada
  <2>1. geral' = geral \/ geral' = <<>>
    BY DEF Comeca, Dorme, Termina, Morre
  <2>2. geral' \in Seq(Entrada)
    BY <1>4, <2>1, ZenonT(60), ZenonT(90) DEF Indutivo, Tipos
  <2>3. QED
    BY <2>2, ElementosDe
<1>7. i' \in Nat /\ (pc' = "walk" => i' \in 1 .. Len(ordem))
  <2>1. CASE Dorme
    <3>1. i \in 1 .. Len(ordem) /\ Len(ordem) \in Nat
      BY <2>1, OrdemTipo DEF Dorme, Indutivo, Tipos
    <3>2. QED
      BY <2>1, <3>1 DEF Dorme
  <2>2. CASE Comeca \/ Termina \/ Morre
    <3>1. i' = 1 /\ 1 \in 1 .. Len(ordem)
      BY <2>2, OrdemTipo DEF Comeca, Termina, Morre
    <3>2. QED
      BY <3>1
  <2>3. QED
    BY <2>1, <2>2
<1>8. TypeOK'
  BY <1>1, <1>2, <1>4, <1>5, <1>6, <1>7 DEF Indutivo, Tipos, TypeOK
<1>9. Tipos'
  BY <1>1, <1>3, <1>6, <1>7, <1>8 DEF Indutivo, Tipos
<1>10. QED
  BY <1>2, <1>3, <1>9, ForaDaLeitura

\* A walk is started.
LEMMA PassoLanca ==
  ASSUME Indutivo, Lanca
  PROVE  Indutivo'
<1> DEFINE R == [linhas : Nat, corte : Nome \cup {Nada}]
           h == ordem[i]
<1>1. /\ pc' = "dorme" /\ i \in 1 .. Len(ordem) /\ h \in Host
      /\ UNCHANGED <<ordem, conf, i, falta, lido, lista, geral, err, bda, bdb>>
  BY OrdemTipo DEF Lanca, Indutivo, Tipos
<1>2. /\ log' = [g \in Host |-> IF g = h THEN Vazio
                                ELSE IF g \in Casa(h) THEN Nada ELSE log[g]]
      /\ vivo' = (vivo \ Casa(h)) \cup {h}
  BY DEF Lanca
<1>3. Vazio \in R /\ Vazio # Nada /\ Vazio.linhas = 0 /\ Vazio.corte = Nada
  BY IdSnmpAssumption DEF Vazio
<1>4. log' \in [Host -> R \cup {Nada}]
  BY <1>2, <1>3 DEF Indutivo, Tipos
<1>5. \A g \in Host :
        \/ log'[g] = Vazio
        \/ log'[g] = Nada /\ g \notin vivo'
        \/ log'[g] = log[g] /\ (g \in vivo' => g \in vivo)
  BY <1>2
<1>6. h \in vivo' => log'[h] # Nada
  BY <1>1, <1>2, <1>3
<1>7. vivo' \subseteq Host
  BY <1>1, <1>2 DEF Indutivo, Tipos, TypeOK
<1> HIDE DEF R, h
<1>8. \A g \in Host : log'[g] # Nada =>
        log'[g].linhas \in 0 .. Len(Tabela[g]) /\ log'[g].corte \in Nome \cup {Nada}
  BY <1>3, <1>5, TabelaTipo DEF Indutivo, Tipos, TypeOK
<1>9. \A g \in vivo' : log'[g] # Nada
  BY <1>3, <1>5, <1>7 DEF Indutivo, Tipos, TypeOK
<1>10. TypeOK'
  BY <1>1, <1>7, <1>8, <1>9 DEF Indutivo, Tipos, TypeOK
<1>11. \A g \in Host : log'[g] # Nada /\ log'[g].corte # Nada =>
          /\ log'[g].linhas < Len(Tabela[g])
          /\ <<Tabela[g][log'[g].linhas + 1].n, log'[g].corte>> \in Cortes
  BY <1>3, <1>5 DEF Indutivo, Tipos
<1>12. Tipos'
  BY <1>1, <1>4, <1>10, <1>11 DEF Indutivo, Tipos, R
<1>13. QED
  BY <1>1, <1>12, ForaDaLeitura

\* The reader lists the logs and empties its outputs.
LEMMA PassoLAbre ==
  ASSUME Indutivo, LAbre
  PROVE  Indutivo'
<1> USE DEF LAbre
<1>1. /\ lido' \in [Host -> Seq(Linha)] /\ \A h \in Host : lido'[h] = <<>>
  BY EmptySeq DEF SemLinhas
<1>2. geral' \in Seq(Entrada) /\ DOMAIN geral' = {} /\ Len(geral') = 0
  BY EmptySeq
<1>3. TypeOK'
  BY <1>1, <1>2 DEF Indutivo, Tipos, TypeOK
<1>4. Tipos'
  BY <1>2, <1>3 DEF Indutivo, Tipos
<1>5. Leitura'
  BY <1>1 DEF Leitura
<1>6. Geral'
  <2>1. \A h \in Host : Bloqueado(h, 0)'
    BY <1>1, <1>2 DEF Bloqueado
  <2>2. 0 \in 0 .. Len(geral')
    BY <1>2
  <2>3. QED
    BY <2>1, <2>2 DEF Geral
<1>7. Banco' /\ Lista' /\ Erros' /\ BancoConcorda'
  BY DEF Banco, Lista, Erros, BancoConcorda
<1>8. QED
  BY <1>4, <1>5, <1>6, <1>7 DEF Indutivo

\* One log is read: its lines are a new block at the end of id_ger.txt.
LEMMA PassoLLe ==
  ASSUME Indutivo, NEW h \in Host, LLe(h)
  PROVE  Indutivo'
<1> DEFINE L == Linhas(h)
           B == [k \in DOMAIN L |-> [h |-> h, n |-> L[k].n, id |-> L[k].id]]
<1>1. /\ pc = "le" /\ pc' = "le" /\ h \in falta /\ falta' = falta \ {h}
      /\ lido' = [lido EXCEPT ![h] = L] /\ geral' = geral \o B
      /\ err' = IF L = <<>> THEN err \cup {h} ELSE err
      /\ UNCHANGED <<ordem, conf, log, vivo, i, lista, bda, bdb>>
  BY DEF LLe
<1>2. log[h] # Nada /\ lido[h] = <<>>
  BY <1>1 DEF Indutivo, Leitura
<1>3. /\ L \in Seq(Linha)
      /\ \A k \in 1 .. Len(L) : /\ k \in 1 .. Len(Tabela[h])
                                /\ L[k].id = Tabela[h][k].id
                                /\ Lembra(Tabela[h][k].n, L[k].n)
  BY <1>2, LinhasDoLog DEF Indutivo
<1> HIDE DEF L
<1>4. Len(L) \in Nat /\ DOMAIN L = 1 .. Len(L) /\ \A k \in 1 .. Len(L) : L[k] \in Linha
  BY <1>3, LenProperties, ElementOfSeq
<1>5. /\ B \in Seq(Entrada) /\ Len(B) = Len(L)
      /\ \A k \in 1 .. Len(L) : B[k] = [h |-> h, n |-> L[k].n, id |-> L[k].id]
  <2>1. \A k \in 1 .. Len(L) : [h |-> h, n |-> L[k].n, id |-> L[k].id] \in Entrada
    BY <1>4 DEF Linha, Entrada
  <2>2. B \in [1 .. Len(L) -> Entrada]
    BY <1>4, <2>1
  <2>3. QED
    BY <1>4, <2>2
<1> HIDE DEF B
<1>6. geral \in Seq(Entrada) /\ Len(geral) \in Nat /\ DOMAIN geral = 1 .. Len(geral)
  BY LenProperties DEF Indutivo, Tipos
<1>7. /\ geral' \in Seq(Entrada) /\ Len(geral') = Len(geral) + Len(L)
      /\ DOMAIN geral' = 1 .. Len(geral) + Len(L)
      /\ \A k \in 1 .. Len(geral) : geral'[k] = geral[k]
      /\ \A k \in 1 .. Len(L) :
           geral'[Len(geral) + k] = [h |-> h, n |-> L[k].n, id |-> L[k].id]
      /\ \A k \in DOMAIN geral' : geral'[k] \in Entrada
  <2>1. /\ geral \o B \in Seq(Entrada) /\ Len(geral \o B) = Len(geral) + Len(B)
        /\ \A k \in 1 .. Len(geral) + Len(B) :
             (geral \o B)[k] = IF k <= Len(geral) THEN geral[k] ELSE B[k - Len(geral)]
    <3>1. geral \in Seq(Entrada) /\ B \in Seq(Entrada)
      BY <1>5, <1>6
    <3>2. QED
      BY <3>1, ConcatProperties, ZenonT(60), ZenonT(90)
  <2>2. DOMAIN geral' = 1 .. Len(geral) + Len(L)
    BY <1>1, <1>5, <2>1, LenProperties
  <2>3. \A k \in DOMAIN geral' : geral'[k] \in Entrada
    BY <1>1, <2>1, ElementosDe
  <2>4. \A k \in 1 .. Len(L) : (geral \o B)[Len(geral) + k] = B[k]
    BY <1>4, <1>5, <1>6, <2>1
  <2>5. QED
    BY <1>1, <1>4, <1>5, <1>6, <2>1, <2>2, <2>3, <2>4
<1>8. /\ lido \in [Host -> Seq(Linha)] /\ lido' \in [Host -> Seq(Linha)] /\ lido'[h] = L
      /\ \A g \in Host : g # h => lido'[g] = lido[g]
  BY <1>1, <1>3 DEF Indutivo, Tipos, TypeOK
<1>9. Tipos'
  <2>1. TypeOK'
    BY <1>1, <1>7, <1>8 DEF Indutivo, Tipos, TypeOK
  <2>2. QED
    BY <1>1, <1>7, <2>1 DEF Indutivo, Tipos
<1>10. Leitura'
  <2>1. \A k \in DOMAIN L : k \in DOMAIN Tabela[h]
    BY <1>3, <1>4, TabelaTipo
  <2>2. QED
    BY <1>1, <1>3, <1>4, <1>8, <2>1 DEF Indutivo, Leitura
<1>11. Geral'
  <2>1. ASSUME NEW g \in Host
        PROVE  \E d \in 0 .. Len(geral') : Bloqueado(g, d)'
    <3>1. PICK d \in 0 .. Len(geral) : Bloqueado(g, d)
      BY <1>1 DEF Indutivo, Geral
    <3>2. CASE g # h
      <4>1. \A k \in DOMAIN lido'[g] : /\ d + k <= Len(geral')
                                       /\ d + k \in 1 .. Len(geral)
                                       /\ geral'[d + k] = geral[d + k]
        <5>1. lido[g] \in Seq(Linha)
          BY <1>8
        <5>2. DOMAIN lido[g] \subseteq Nat \ {0}
          BY <5>1, LenProperties
        <5>3. \A k \in DOMAIN lido[g] : d + k <= Len(geral)
          BY <3>1, ZenonT(60), ZenonT(90) DEF Bloqueado
        <5>4. \A k \in DOMAIN lido[g] :
                d + k \in 1 .. Len(geral) /\ d + k <= Len(geral')
          BY <1>4, <1>6, <1>7, <5>2, <5>3
        <5>5. QED
          BY <1>7, <1>8, <3>2, <5>4
      <4>2. \A m \in DOMAIN geral' :
              geral'[m].h = g => m \in DOMAIN geral /\ geral'[m] = geral[m]
        <5> SUFFICES ASSUME NEW m \in 1 .. Len(geral) + Len(L), geral'[m].h = g
                     PROVE  m \in 1 .. Len(geral)
          BY <1>6, <1>7
        <5>1. CASE m > Len(geral)
          <6>1. PICK j \in 1 .. Len(L) : m = Len(geral) + j
            <7>1. m - Len(geral) \in 1 .. Len(L) /\ m = Len(geral) + (m - Len(geral))
              BY <1>4, <1>6, <5>1
            <7>2. QED
              BY <7>1, ZenonT(60), ZenonT(90)
          <6>2. geral'[m] = [h |-> h, n |-> L[j].n, id |-> L[j].id]
            BY <1>7, <6>1
          <6>3. QED
            BY <3>2, <6>2
        <5>2. QED
          BY <1>4, <1>6, <5>1
      <4>3. Bloqueado(g, d)'
        BY <1>8, <3>1, <3>2, <4>1, <4>2, ZenonT(60), ZenonT(90) DEF Bloqueado
      <4>4. d \in 0 .. Len(geral')
        BY <1>4, <1>6, <1>7
      <4>5. QED
        BY <4>3, <4>4
    <3>3. CASE g = h
      <4>0. PICK d0 \in Nat : d0 = Len(geral)
        BY <1>6
      <4>1. \A m \in DOMAIN geral : geral[m].h # h
        BY <1>2, <3>1, <3>3 DEF Bloqueado
      <4>2. \A m \in DOMAIN geral' : geral'[m].h = h => m - d0 \in DOMAIN L
        BY <1>4, <1>6, <1>7, <4>0, <4>1
      <4>3. \A k \in DOMAIN L :
              /\ d0 + k <= Len(geral')
              /\ geral'[d0 + k] = [h |-> h, n |-> L[k].n, id |-> L[k].id]
        <5>1. Len(geral') = d0 + Len(L)
          BY <1>7, <4>0
        <5>2. \A k \in 1 .. Len(L) : d0 + k <= Len(geral')
          BY <1>4, <5>1
        <5>3. QED
          BY <1>4, <1>7, <4>0, <5>2, ZenonT(60), ZenonT(90)
      <4>4. Bloqueado(h, d0)'
        BY <1>8, <4>2, <4>3 DEF Bloqueado
      <4>5. d0 \in 0 .. Len(geral')
        BY <1>4, <1>6, <1>7, <4>0
      <4>6. QED
        BY <3>3, <4>4, <4>5
    <3>4. QED
      BY <3>2, <3>3
  <2>2. QED
    BY <2>1 DEF Geral
<1>12. Banco' /\ Lista' /\ BancoConcorda'
  BY <1>1 DEF Banco, Lista, BancoConcorda
<1>13. Erros'
  <2>1. \A g \in err : lido[g] = <<>> /\ g \notin falta /\ g \in Host
    BY <1>1 DEF Indutivo, Erros, Tipos, TypeOK
  <2>2. \A g \in err' : lido'[g] = <<>> /\ g \notin falta'
    BY <1>1, <1>8, <2>1
  <2>3. QED
    BY <2>2 DEF Erros
<1>14. QED
  BY <1>9, <1>10, <1>11, <1>12, <1>13 DEF Indutivo

\* An entry of the list has the index read of its interface.
LEMMA EntradaEh ==
  ASSUME Tipos, NEW e \in Entradas
  PROVE  e \in Entrada /\ e.id # Nada /\ e.id = hint_id(<<e.h, e.n>>)
<1>1. PICK c \in GrupoSnmp : /\ hint_id(c) # Nada
                             /\ e = [h |-> c[1], n |-> c[2], id |-> hint_id(c)]
  BY DEF Entradas
<1>2. c[1] \in Host /\ c[2] \in Nome /\ c = <<c[1], c[2]>>
  BY IdSnmpAssumption DEF Chave
<1>3. lido[c[1]] \in Seq(Linha)
  BY <1>2 DEF Tipos, TypeOK
<1>4. PICK k \in DOMAIN lido[c[1]] : lido[c[1]][k].id = hint_id(c)
  BY <1>1, <1>3, EscolhaEh DEF hint_id
<1>5. lido[c[1]][k] \in Linha
  BY <1>3, ElementosDe
<1>6. hint_id(c) \in {l.id : l \in Linha}
  BY <1>4, <1>5
<1>7. e \in Entrada
  BY <1>1, <1>2, <1>6 DEF Entrada
<1>8. QED
  BY <1>1, <1>2, <1>7

\* What the reader prints, as far as it is on disk.
LEMMA PassoLImprime ==
  ASSUME Indutivo, LImprime
  PROVE  Indutivo'
<1>1. /\ pc = "le" /\ pc' = "grava" /\ falta = {}
      /\ err' = err \cup {c[1] : c \in {d \in ComPonto : hint_id(d) = Nada
                                                         /\ d[1] \in Listados}}
      /\ UNCHANGED <<ordem, conf, log, vivo, i, falta, lido, geral, bda, bdb>>
  BY DEF LImprime
<1>2. \A c : hint_id(c)' = hint_id(c)
  BY <1>1 DEF hint_id
<1>3. \A e \in lista' : e \in Entrada /\ (e.id # Nada => e.id = hint_id(<<e.h, e.n>>))
  <2>1. PICK S \in SUBSET Entradas :
          \/ lista' = S
          \/ \E e \in Entradas \ S : lista' = S \cup {[e EXCEPT !.id = Nada]}
    BY DEF LImprime
  <2>2. \A e \in Entradas : /\ e \in Entrada /\ e.id = hint_id(<<e.h, e.n>>)
                            /\ [e EXCEPT !.id = Nada] \in Entrada
                            /\ [e EXCEPT !.id = Nada].id = Nada
    <3>1. \A e \in Entradas : e \in Entrada /\ e.id = hint_id(<<e.h, e.n>>)
      BY EntradaEh DEF Indutivo
    <3>2. \A e \in Entrada : /\ [e EXCEPT !.id = Nada] \in Entrada
                             /\ [e EXCEPT !.id = Nada].id = Nada
      BY DEF Entrada
    <3>3. QED
      BY <3>1, <3>2
  <2>3. QED
    BY <2>1, <2>2
<1>4. err' \subseteq Host
  BY <1>1, OrdemTipo DEF Indutivo, Tipos, TypeOK
<1>5. Tipos'
  <2>1. TypeOK'
    BY <1>1, <1>3, <1>4, ZenonT(60), ZenonT(90) DEF Indutivo, Tipos, TypeOK
  <2>2. QED
    BY <1>1, <2>1 DEF Indutivo, Tipos
<1>6. Leitura'
  BY <1>1 DEF Indutivo, Leitura
<1>7. Geral' /\ Banco' /\ BancoConcorda'
  BY <1>1, ZenonT(60), ZenonT(90) DEF Indutivo, Geral, Bloqueado, Banco,
     BancoConcorda
<1>8. Lista'
  BY <1>1, <1>2, <1>3 DEF Lista
<1>9. Erros'
  <2>1. \A h \in err : lido[h] = <<>>
    BY <1>1 DEF Indutivo, Erros
  <2>2. \A h \in err' : h \in err \/ \E c \in ComPonto : c[1] = h /\ hint_id(c) = Nada
    BY <1>1
  <2>3. QED
    BY <1>1, <1>2, <2>1, <2>2 DEF Erros
<1>10. QED
  BY <1>5, <1>6, <1>7, <1>8, <1>9 DEF Indutivo

\* The list is complete.
LEMMA PassoLFecha ==
  ASSUME Indutivo, LFecha
  PROVE  Indutivo'
<1>1. /\ pc = "grava" /\ pc' = "rtt" /\ i' = 1 /\ lista' = Entradas
      /\ UNCHANGED <<ordem, conf, log, vivo, falta, lido, geral, err, bda, bdb>>
  BY DEF LFecha
<1>2. \A c : hint_id(c)' = hint_id(c)
  BY <1>1 DEF hint_id
<1>3. \A e \in lista' : e \in Entrada /\ e.id # Nada /\ e.id = hint_id(<<e.h, e.n>>)
  BY <1>1, EntradaEh DEF Indutivo
<1>4. Tipos'
  <2>1. TypeOK'
    BY <1>1, <1>3, ZenonT(60), ZenonT(90) DEF Indutivo, Tipos, TypeOK
  <2>2. QED
    BY <1>1, <2>1 DEF Indutivo, Tipos
<1>5. Leitura'
  BY <1>1 DEF Indutivo, Leitura
<1>6. Geral' /\ BancoConcorda'
  BY <1>1 DEF Indutivo, Geral, Bloqueado, BancoConcorda
<1>7. Banco'
  <2>1. DOMAIN geral \subseteq Nat \ {0}
    BY LenProperties DEF Indutivo, Tipos
  <2>2. QED
    BY <1>1, <2>1 DEF Banco
<1>8. Lista'
  BY <1>1, <1>2, <1>3, ZenonT(60), ZenonT(90) DEF Lista
<1>9. Erros'
  BY <1>1, <1>2 DEF Indutivo, Erros
<1>10. QED
  BY <1>4, <1>5, <1>6, <1>7, <1>8, <1>9 DEF Indutivo

\* One line of id_ger.txt goes to the database.
LEMMA PassoAtualiza ==
  ASSUME Indutivo, Atualiza
  PROVE  Indutivo'
<1> DEFINE l == geral[i]
           c == <<l.h, l.n>>
<1>1. /\ pc = "rtt" /\ pc' = "rtt" /\ i <= Len(geral) /\ i' = i + 1
      /\ bdb' = IF c \in LadoB THEN [bdb EXCEPT ![c] = l.id] ELSE bdb
      /\ bda' = IF c \in LadoA \ LadoB THEN [bda EXCEPT ![c] = l.id] ELSE bda
      /\ UNCHANGED <<ordem, conf, log, vivo, falta, lido, lista, geral, err>>
  BY DEF Atualiza
<1>2. /\ Len(geral) \in Nat /\ DOMAIN geral = 1 .. Len(geral) /\ i \in Nat \ {0}
      /\ i \in DOMAIN geral
  BY <1>1, LenProperties DEF Indutivo, Tipos
<1>3. l \in Entrada /\ c \in Chave /\ l.id \in {e.id : e \in Entrada}
  <2>1. l \in Entrada
    BY <1>2 DEF Indutivo, Tipos, TypeOK
  <2>2. QED
    BY <2>1 DEF Entrada, Chave
<1>4. \A x : hint_id(x)' = hint_id(x)
  BY <1>1 DEF hint_id
<1>5. /\ bda \in [Chave -> {e.id : e \in Entrada}]
      /\ bdb \in [Chave -> {e.id : e \in Entrada}]
  BY DEF Indutivo, Tipos, TypeOK
<1> HIDE DEF c, l
<1>6. /\ bda' \in [Chave -> {e.id : e \in Entrada}]
      /\ bdb' \in [Chave -> {e.id : e \in Entrada}]
      /\ c \in LadoB => bdb'[c] = l.id
      /\ c \in LadoA \ LadoB => bda'[c] = l.id
      /\ \A x \in Chave : x # c => bda'[x] = bda[x] /\ bdb'[x] = bdb[x]
  BY <1>1, <1>3, <1>5
<1>7. Tipos'
  <2>1. i' \in Nat \ {0}
    BY <1>1, <1>2
  <2>2. TypeOK'
    BY <1>1, <1>6, <2>1 DEF Indutivo, Tipos, TypeOK
  <2>3. QED
    BY <1>1, <2>1, <2>2 DEF Indutivo, Tipos
<1>8. Leitura'
  BY <1>1 DEF Indutivo, Leitura
<1>9. Geral' /\ BancoConcorda'
  BY <1>1, ZenonT(60), ZenonT(90) DEF Indutivo, Geral, Bloqueado, BancoConcorda
<1>10. Lista' /\ Erros'
  BY <1>1, <1>4 DEF Indutivo, Lista, Erros
<1>11. Banco'
  <2> SUFFICES ASSUME NEW k \in DOMAIN geral, NEW x \in Chave, k < i + 1,
                      <<geral[k].h, geral[k].n>> = x,
                      \A j \in DOMAIN geral : k < j /\ j <= i =>
                        <<geral[j].h, geral[j].n>> # x
               PROVE  /\ x \in LadoB => bdb'[x] = geral[k].id
                      /\ x \in LadoA \ LadoB => bda'[x] = geral[k].id
    BY <1>1, <1>2 DEF Banco, UltimaDe
  <2>1. CASE k = i
    BY <1>6, <2>1 DEF c, l
  <2>2. CASE k # i
    <3>1. k < i /\ x # c
      BY <1>2, <2>2 DEF c, l
    <3>2. UltimaDe(x, k, i - 1)
      BY <1>2 DEF UltimaDe
    <3>3. /\ x \in LadoB => bdb[x] = geral[k].id
          /\ x \in LadoA \ LadoB => bda[x] = geral[k].id
      BY <1>1, <3>1, <3>2 DEF Indutivo, Banco
    <3>4. QED
      BY <1>6, <3>1, <3>3
  <2>3. QED
    BY <2>1, <2>2
<1>12. QED
  BY <1>7, <1>8, <1>9, <1>10, <1>11 DEF Indutivo

\* id_ger.txt is done, or the database fails: if all the lines of an interface have
\* been applied, the last of them is the last of its log.
LEMMA PassoFimRtt ==
  ASSUME Indutivo, FimRtt \/ BancoFalha
  PROVE  Indutivo'
<1>1. /\ pc = "rtt" /\ pc' = "cfg" /\ falta' = err
      /\ UNCHANGED <<ordem, conf, log, vivo, i, lido, lista, geral, err, bda, bdb>>
  BY DEF FimRtt, BancoFalha
<1>2. \A x : hint_id(x)' = hint_id(x)
  BY <1>1 DEF hint_id
<1>3. Tipos'
  <2>1. TypeOK'
    BY <1>1 DEF Indutivo, Tipos, TypeOK
  <2>2. QED
    BY <1>1, <2>1 DEF Indutivo, Tipos
<1>4. Leitura'
  BY <1>1 DEF Indutivo, Leitura
<1>5. Geral' /\ Banco'
  BY <1>1 DEF Geral, Banco
<1>6. Lista' /\ Erros'
  BY <1>1, <1>2 DEF Indutivo, Lista, Erros
<1>7. BancoConcorda'
  <2> SUFFICES ASSUME NEW e \in lista, e.n \notin Serial, Aplicada(e.h, e.n)
               PROVE  /\ <<e.h, e.n>> \in LadoB => bdb[<<e.h, e.n>>] = e.id
                      /\ <<e.h, e.n>> \in LadoA \ LadoB => bda[<<e.h, e.n>>] = e.id
    BY <1>1 DEF BancoConcorda, Aplicada
  <2> DEFINE c == <<e.h, e.n>>
             s == lido[e.h]
  <2>1. e.h \in Host /\ c \in Chave /\ s \in Seq(Linha)
    <3>1. e \in Entrada /\ lido \in [Host -> Seq(Linha)]
      BY DEF Indutivo, Tipos, TypeOK
    <3>2. e.h \in Host /\ e.n \in Nome
      BY <3>1 DEF Entrada
    <3>3. QED
      BY <3>1, <3>2 DEF Chave
  <2>2. e.id # Nada /\ e.id = Escolha(s, e.n)
    BY <1>1 DEF Indutivo, Lista, hint_id
  <2> HIDE DEF s
  <2>3. PICK k \in DOMAIN s : /\ s[k].n = e.n /\ s[k].id = e.id
                              /\ \A j \in DOMAIN s : s[j].n = e.n => j <= k
    BY <2>1, <2>2, EscolhaEh
  <2>4. PICK d \in 0 .. Len(geral) : Bloqueado(e.h, d)
    BY <1>1, <2>1 DEF Indutivo, Geral
  <2>5. DOMAIN s = 1 .. Len(s) /\ DOMAIN geral = 1 .. Len(geral)
        /\ Len(s) \in Nat /\ Len(geral) \in Nat /\ i \in Nat
    BY <2>1, LenProperties DEF Indutivo, Tipos, TypeOK
  <2>6. /\ d + k \in DOMAIN geral /\ geral[d + k] = [h |-> e.h, n |-> e.n, id |-> e.id]
        /\ d + k < i
    <3>1. /\ d + k \in DOMAIN geral
          /\ geral[d + k] = [h |-> e.h, n |-> e.n, id |-> e.id]
      BY <2>3, <2>4, <2>5 DEF Bloqueado, s
    <3>2. QED
      BY <3>1 DEF Aplicada
  <2>7. UltimaDe(c, d + k, i - 1)
    <3> SUFFICES ASSUME NEW j \in DOMAIN geral, d + k < j,
                        <<geral[j].h, geral[j].n>> = c
                 PROVE  FALSE
      BY <2>6 DEF UltimaDe
    <3>1. geral[j].h = e.h /\ geral[j].n = e.n
      OBVIOUS
    <3>2. j - d \in DOMAIN s
      BY <2>4, <3>1 DEF Bloqueado, s
    <3>3. d + (j - d) = j /\ j - d \in Nat /\ k < j - d
      BY <2>5, <3>2
    <3>4. geral[j].n = s[j - d].n
      <4>1. geral[d + (j - d)] = [h |-> e.h, n |-> s[j - d].n, id |-> s[j - d].id]
        BY <2>4, <3>2, ZenonT(60), ZenonT(90) DEF Bloqueado, s
      <4>2. QED
        BY <3>3, <4>1
    <3>5. j - d <= k
      BY <2>3, <3>1, <3>2, <3>4
    <3>6. QED
      BY <2>5, <3>3, <3>5
  <2>8. /\ c \in LadoB => bdb[c] = geral[d + k].id
        /\ c \in LadoA \ LadoB => bda[c] = geral[d + k].id
    BY <1>1, <2>1, <2>6, <2>7 DEF Indutivo, Banco
  <2>9. geral[d + k].id = e.id
    BY <2>6
  <2>10. QED
    BY <2>8, <2>9
<1>8. QED
  BY <1>3, <1>4, <1>5, <1>6, <1>7 DEF Indutivo

\* A login.
LEMMA PassoConfigura ==
  ASSUME Indutivo, NEW h \in Host, Configura(h) \/ ConfiguraFalha(h)
  PROVE  Indutivo'
<1>1. /\ pc = "cfg" /\ pc' = "cfg"
      /\ falta' \subseteq falta /\ conf' \subseteq conf \cup {h}
      /\ UNCHANGED <<ordem, log, vivo, i, lido, lista, geral, err, bda, bdb>>
  BY DEF Configura, ConfiguraFalha
<1>2. \A x : hint_id(x)' = hint_id(x)
  BY <1>1 DEF hint_id
<1>3. Tipos'
  <2>1. TypeOK'
    BY <1>1 DEF Indutivo, Tipos, TypeOK
  <2>2. QED
    BY <1>1, <2>1 DEF Indutivo, Tipos
<1>4. Leitura'
  BY <1>1 DEF Indutivo, Leitura
<1>5. Geral' /\ Banco' /\ BancoConcorda'
  BY <1>1 DEF Indutivo, Geral, Banco, BancoConcorda, Aplicada
<1>6. Lista' /\ Erros'
  BY <1>1, <1>2 DEF Indutivo, Lista, Erros
<1>7. QED
  BY <1>3, <1>4, <1>5, <1>6 DEF Indutivo

\* Every step keeps the inductive invariant.
LEMMA PassoIndutivo == Indutivo /\ [Next]_vars => Indutivo'
<1> SUFFICES ASSUME Indutivo, [Next]_vars PROVE Indutivo'
  OBVIOUS
<1>1. CASE UNCHANGED vars
  <2>1. UNCHANGED <<ordem, conf, log, vivo, pc, i, falta, lido, lista, geral, err,
                    bda, bdb>>
    BY <1>1 DEF vars
  <2>2. Tipos'
    <3>1. TypeOK'
      BY <2>1 DEF Indutivo, Tipos, TypeOK
    <3>2. QED
      BY <2>1, <3>1 DEF Indutivo, Tipos
  <2>3. QED
    BY <2>1, <2>2, SoLogs
<1>2. CASE Comeca \/ Dorme \/ Termina \/ Morre
  BY <1>2, PassoFora
<1>3. CASE Lanca \/ LAbre \/ LImprime \/ LFecha \/ Atualiza \/ FimRtt \/ BancoFalha
  BY <1>3, PassoLanca, PassoLAbre, PassoLImprime, PassoLFecha, PassoAtualiza,
     PassoFimRtt
<1>4. CASE \E h \in Host : LLe(h) \/ Configura(h) \/ ConfiguraFalha(h) \/ Walk(h)
  BY <1>4, PassoLLe, PassoConfigura, PassoWalk
<1>5. QED
  BY <1>1, <1>2, <1>3, <1>4 DEF Next, Script
-------------------------------------------------------------------------------
(* The theorems.                                                               *)

\* The logs, what was read of them and the three files made of it agree in every
\* state, whatever the walks do meanwhile and wherever the script is killed.
THEOREM SempreIndutivo == Spec => []Indutivo
BY InitIndutivo, PassoIndutivo, PTL DEF Spec

\* The type invariant of the interface walk.
THEOREM TipoCorreto == Spec => []TypeOK
<1>1. Indutivo => TypeOK
  BY DEF Indutivo, Tipos
<1>2. QED
  BY <1>1, SempreIndutivo, PTL

\* An index that get_int.pl will poll is that of the row the reader's comment
\* names, when the log was whole; if not, that of a row of the same or a cut name.
THEOREM IdCertoVale == Spec => []IdCerto
<1>1. ASSUME Indutivo, NEW e \in lista, pc \in {"grava", "rtt", "cfg"}, e.id # Nada
      PROVE  \E k \in DOMAIN Tabela[e.h] :
               /\ Tabela[e.h][k].id = e.id
               /\ \/ Tabela[e.h][k].n = e.n /\ Regra(Tabela[e.h], k)
                  \/ /\ lido[e.h] # Tabela[e.h]
                     /\ Tabela[e.h][k].n = e.n \/ <<Tabela[e.h][k].n, e.n>> \in Cortes
  <2>1. e \in Entrada /\ lido \in [Host -> Seq(Linha)]
    BY <1>1 DEF Indutivo, Tipos, TypeOK
  <2>2. e.h \in Host /\ lido[e.h] \in Seq(Linha)
    BY <2>1 DEF Entrada
  <2>3. e.id = Escolha(lido[e.h], e.n)
    BY <1>1 DEF Indutivo, Lista, hint_id
  <2>4. PICK k \in DOMAIN lido[e.h] :
          /\ lido[e.h][k].n = e.n /\ lido[e.h][k].id = e.id
          /\ \A j \in DOMAIN lido[e.h] :
               lido[e.h][j].n = e.n => IF e.n \in Serial THEN k <= j ELSE j <= k
    BY <1>1, <2>2, <2>3, EscolhaEh
  <2>5. /\ k \in DOMAIN Tabela[e.h] /\ Tabela[e.h][k].id = e.id
        /\ Lembra(Tabela[e.h][k].n, e.n)
    BY <1>1, <2>2, <2>4 DEF Indutivo, Leitura
  <2>6. CASE lido[e.h] = Tabela[e.h]
    <3>1. Tabela[e.h][k].n = e.n /\ Regra(Tabela[e.h], k)
      BY <2>4, <2>6 DEF Regra
    <3>2. QED
      BY <2>5, <3>1
  <2>7. CASE lido[e.h] # Tabela[e.h]
    BY <2>5, <2>7 DEF Lembra
  <2>8. QED
    BY <2>6, <2>7
<1>2. Indutivo => IdCerto
  BY <1>1 DEF IdCerto
<1>3. QED
  BY <1>2, SempreIndutivo, PTL

\* The list and the database agree on every interface that is not serial and whose
\* lines were all applied before the database failed, if it did.
THEOREM BancoConcordaVale == Spec => []BancoConcorda
<1>1. Indutivo => BancoConcorda
  BY DEF Indutivo
<1>2. QED
  BY <1>1, SempreIndutivo, PTL

\* A login always has its reason in the round that makes it: a log that was not read
\* in full, or an interface of any group that the table lacks.
THEOREM LoginExplicadoVale == Spec => LoginExplicado
<1>1. ASSUME Indutivo, NEW h \in Host, Configura(h) \/ ConfiguraFalha(h)
      PROVE  \/ lido[h] # Tabela[h]
             \/ \E c \in ComPonto : c[1] = h /\ Escolha(Tabela[h], c[2]) = Nada
  <2>1. pc = "cfg" /\ h \in err
    BY <1>1 DEF Configura, ConfiguraFalha, Indutivo, Tipos
  <2>2. CASE lido[h] = <<>>
    BY <2>2, TabelaTipo
  <2>3. CASE \E c \in ComPonto : c[1] = h /\ hint_id(c) = Nada
    BY <2>3 DEF hint_id
  <2>4. QED
    BY <1>1, <2>1, <2>2, <2>3 DEF Indutivo, Erros
<1>2. Indutivo => [\A h \in Host : Configura(h) \/ ConfiguraFalha(h) =>
                     \/ lido[h] # Tabela[h]
                     \/ \E c \in ComPonto :
                          c[1] = h /\ Escolha(Tabela[h], c[2]) = Nada]_vars
  BY <1>1
<1>3. QED
  BY <1>2, SempreIndutivo, PTL DEF LoginExplicado
===============================================================================
