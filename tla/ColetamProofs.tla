----------------------------- MODULE ColetamProofs -----------------------------
(* Proofs about leitor_coletam.pl for every set of routers, of interfaces and   *)
(* of answers, over any number of runs.                                        *)
EXTENDS Coletam, SequenceTheorems, FiniteSetTheorems, WellFoundedInduction, TLAPS

\* A leaf is tried with SMT, with Zenon, and with SMT again, unless it names a prover.
USE SMTT(20), ZenonT(20), SMTT(90)

-------------------------------------------------------------------------------
(* The inductive invariants: one of any router, one of routers without          *)
(* channelized interfaces.                                                     *)

Evento == [t : Nat, host : Host, nome : Nomes, status : Status, item : Indice \cup {0}]

Tipos ==
  /\ TypeOK
  /\ evlog \in Seq(Evento)
  /\ \A k \in DOMAIN evlog : evlog[k].t <= t
  /\ pc # "corre" => itens = <<>>

\* No whole line of a table is about the interface of another.
SemRepetir(s) ==
  \A k, m \in DOMAIN s :
    s[k].status # SemStatus /\ s[m].status # SemStatus /\ s[k].host = s[m].host /\ s[k].item = s[m].item
      => k = m

\* What is still to be printed has no line yet.
Unicos ==
  /\ SemRepetir(info) /\ SemRepetir(status_old)
  /\ pc = "corre" => /\ \A k \in DOMAIN info :
                          /\ info[k].host \notin resta
                          /\ info[k].host = host => info[k].item \notin DOMAIN itens
                     /\ DOMAIN itens # {} => host \notin resta

Contagem ==
  pc \in Correndo => \A s \in Status :
    conta[s] = Cardinality({k \in DOMAIN info : info[k].status = s})

\* The totals of this run are not there before it publishes them.
Publicado ==
  /\ geral # <<>> => geral[1].t <= t
  /\ pc = "corre" => geral = <<>> \/ geral[1].t < t
  /\ pc = "geral" => geral = <<>>
  /\ TotaisConferem

Indutivo == Tipos /\ Unicos /\ Contagem /\ Publicado

\* The last event of the key of a line says what the line says.
Explicada(l) ==
  \E e \in DOMAIN evlog :
    /\ evlog[e].host = l.host /\ evlog[e].nome = l.nome
    /\ evlog[e].status = l.status /\ evlog[e].t = l.tx
    /\ \A d \in DOMAIN evlog : evlog[d].host = l.host /\ evlog[d].nome = l.nome => d <= e

\* A whole line under a key that no cut log has given to another row.
Deve(l) == l.status # SemStatus /\ <<l.host, l.nome>> \notin trocadas

\* An old line stays explained until its interface is printed again.
Explica ==
  ~perdeu =>
    /\ \A k \in DOMAIN info : Deve(info[k]) => Explicada(info[k])
    /\ pc \in Correndo => \A m \in DOMAIN status_old :
         Deve(status_old[m]) /\ (\A k \in DOMAIN info :
                                   ~(/\ info[k].host = status_old[m].host
                                     /\ info[k].nome = status_old[m].nome))
           => Explicada(status_old[m])

\* A line whose name is not that of its interface is under a key of trocadas.
Trocas ==
  \A k \in DOMAIN info : Deve(info[k]) => DoNome(info[k].host, info[k].item, info[k].nome)

IndutivoNomes == Indutivo /\ EventoSoDeMudanca /\ Explica /\ Trocas
-------------------------------------------------------------------------------
(* The largest element of a set.                                               *)

\* The field of a cut line is no status.
LEMMA SemStatusNaoEh == SemStatus \notin Status
BY ZenonT(60), ZenonT(90) DEF SemStatus, Status

\* A set of naturals has a least element.
LEMMA MenorNatural ==
  ASSUME NEW S, S \subseteq Nat, S # {}
  PROVE  \E x \in S : \A y \in S : x <= y
<1> DEFINE R == OpToRel(<, Nat)
<1>1. IsWellFoundedOn(R, Nat)
  BY NatLessThanWellFounded, ZenonT(60), ZenonT(90)
<1>2. \A x, y \in Nat : x < y => <<x, y>> \in R
  BY DEF OpToRel
<1> HIDE DEF R
<1>3. PICK x \in S : \A y \in S : ~(<<y, x>> \in R)
  BY <1>1, WFMin, ZenonT(60), ZenonT(90)
<1>4. \A y \in S : ~(y < x)
  BY <1>2, <1>3, ZenonT(60), ZenonT(90)
<1>5. QED
  BY <1>4

\* The element that no other exceeds is the largest one.
LEMMA MaxEh ==
  ASSUME NEW S, S \subseteq Int, NEW m \in S, \A y \in S : y <= m
  PROVE  Max(S) = m
<1>1. m \in S /\ \A y \in S : m >= y
  OBVIOUS
<1>2. Max(S) \in S /\ \A y \in S : Max(S) >= y
  BY <1>1, ZenonT(60), ZenonT(90) DEF Max
<1>3. Max(S) \in Int /\ Max(S) >= m /\ Max(S) <= m /\ m \in Int
  BY <1>2, ZenonT(60), ZenonT(90)
<1>4. QED
  BY <1>3

\* A set of places of a sequence has a largest element.
LEMMA MaxExiste ==
  ASSUME NEW n \in Nat, NEW S, S \subseteq 1 .. n, S # {}
  PROVE  Max(S) \in S /\ \A y \in S : y <= Max(S)
<1> DEFINE T == {n - y : y \in S}
<1>1. T \subseteq Nat
  OBVIOUS
<1>2. T # {}
  <2>1. PICK y \in S : TRUE
    BY ZenonT(60), ZenonT(90)
  <2>2. n - y \in T
    OBVIOUS
  <2>3. QED
    BY <2>2
<1>3. \A y \in S : n - y \in T
  OBVIOUS
<1>4. \A d \in T : \E x \in S : d = n - x
  OBVIOUS
<1> HIDE DEF T
<1>5. PICK d \in T : \A e \in T : d <= e
  BY <1>1, <1>2, MenorNatural, ZenonT(60), ZenonT(90)
<1>6. PICK x \in S : d = n - x
  BY <1>4
<1>7. \A y \in S : n - x <= n - y
  BY <1>3, <1>5, <1>6
<1>8. \A y \in S : y <= x
  BY <1>7
<1>9. S \subseteq Int
  OBVIOUS
<1>10. Max(S) = x
  BY <1>6, <1>8, <1>9, MaxEh, ZenonT(60), ZenonT(90)
<1>11. QED
  BY <1>6, <1>8, <1>10

\* The elements of a sequence.
LEMMA ElementosDe ==
  ASSUME NEW S, NEW s \in Seq(S)
  PROVE  Len(s) \in Nat /\ DOMAIN s = 1 .. Len(s) /\ \A k \in DOMAIN s : s[k] \in S
<1>1. Len(s) \in Nat /\ DOMAIN s = 1 .. Len(s) /\ s \in [1 .. Len(s) -> S]
  BY LenProperties
<1>2. QED
  BY <1>1, ZenonT(60), ZenonT(90)
-------------------------------------------------------------------------------
(* A line of the table.                                                        *)

\* The last old line of a name.
LEMMA AntigaTipo ==
  ASSUME Tipos, NEW h, NEW nome
  PROVE  \/ Antiga(h, nome) = <<>>
         \/ \E k \in DOMAIN status_old : /\ Antiga(h, nome) = <<status_old[k]>>
                                         /\ status_old[k].host = h
                                         /\ status_old[k].nome = nome
<1> DEFINE ks == {k \in DOMAIN status_old :
                    status_old[k].host = h /\ status_old[k].nome = nome}
<1>1. Len(status_old) \in Nat /\ DOMAIN status_old = 1 .. Len(status_old)
  BY LenProperties DEF Tipos, TypeOK
<1>2. Antiga(h, nome) = IF ks = {} THEN <<>> ELSE <<status_old[Max(ks)]>>
  BY DEF Antiga
<1>3. \A k \in ks : k \in DOMAIN status_old /\ status_old[k].host = h /\ status_old[k].nome = nome
  OBVIOUS
<1>4. ks \subseteq 1 .. Len(status_old)
  BY <1>1
<1> HIDE DEF ks
<1>5. ks # {} => Max(ks) \in ks
  BY <1>1, <1>4, MaxExiste, ZenonT(60), ZenonT(90)
<1>6. QED
  BY <1>2, <1>3, <1>5

\* The old line of an interface, when no two have the same name and none under its key
\* was cut.
LEMMA AntigaUnica ==
  ASSUME Tipos, SemRepetir(status_old), NomesUnicos, NEW m \in DOMAIN status_old,
         <<status_old[m].host, status_old[m].nome>> \notin Turvas(status_old)
  PROVE  Antiga(status_old[m].host, status_old[m].nome) = <<status_old[m]>>
<1> DEFINE h == status_old[m].host
           nome == status_old[m].nome
           ks == {k \in DOMAIN status_old :
                    status_old[k].host = h /\ status_old[k].nome = nome}
<1>1. /\ Len(status_old) \in Nat /\ DOMAIN status_old = 1 .. Len(status_old)
      /\ \A k \in DOMAIN status_old : status_old[k] \in Linha
  BY ElementosDe DEF Tipos, TypeOK
<1>2. \A k \in DOMAIN status_old : status_old[k].host \in Host
  BY <1>1 DEF Linha
<1>3. \A k \in ks : k = m
  <2> SUFFICES ASSUME NEW k \in ks PROVE k = m
    OBVIOUS
  <2>1. /\ k \in DOMAIN status_old /\ status_old[k].host = status_old[m].host
        /\ status_old[k].nome = status_old[m].nome
    OBVIOUS
  <2>2. \A x \in {k, m} : /\ status_old[x].status # SemStatus /\ status_old[x].item \in Indice
                         /\ status_old[x].nome = Nome(status_old[x].host, status_old[x].item)
    BY <2>1 DEF Turvas, DoNome
  <2>3. status_old[k].item = status_old[m].item
    BY <1>2, <2>1, <2>2 DEF NomesUnicos
  <2>4. QED
    BY <2>1, <2>2, <2>3 DEF SemRepetir
<1>4. m \in ks /\ ks \subseteq Int /\ m \in Int
  BY <1>1
<1>5. Antiga(h, nome) = <<status_old[Max(ks)]>>
  BY <1>4 DEF Antiga
<1> HIDE DEF ks
<1>6. Max(ks) = m
  <2>1. \A y \in ks : y <= m
    BY <1>3, <1>4
  <2>2. QED
    BY <1>4, <2>1, MaxEh
<1>7. QED
  BY <1>5, <1>6

\* What one turn of the loop over keys(%interface) does.
LEMMA ImprimeEh ==
  ASSUME Tipos, Imprime
  PROVE  \E l \in Linha :
           LET velha == Antiga(host, l.nome)
           IN  /\ info' = Append(info, l)
               /\ l.host = host /\ l.item \in DOMAIN itens
               /\ l.nome = itens[l.item].nome /\ l.status \in Status
               /\ l.tx = IF velha # <<>> /\ velha[1].status = l.status
                         THEN velha[1].tx ELSE t
               /\ itens' = [x \in DOMAIN itens \ {l.item} |-> itens[x]]
               /\ conta' = Conta(conta, l.status)
               /\ evlog' = IF Mudou(StatusAntigo(velha), l.status)
                           THEN Append(evlog, [t |-> t, host |-> l.host, nome |-> l.nome,
                                               status |-> l.status, item |-> l.item])
                           ELSE evlog
               /\ trocadas' = IF DoNome(host, l.item, l.nome)
                              THEN trocadas ELSE trocadas \cup {<<host, l.nome>>}
<1>1. PICK item \in DOMAIN itens :
         LET nome == itens[item].nome
             status == StatusDe(itens[item].resposta)
             velha == Antiga(host, nome)
             mudou == Mudou(StatusAntigo(velha), status)
             tx == IF velha # <<>> /\ velha[1].status = status THEN velha[1].tx ELSE t
         IN  /\ itens' = [x \in DOMAIN itens \ {item} |-> itens[x]]
             /\ conta' = Conta(conta, status)
             /\ info' = Append(info, [tx |-> tx, host |-> host, nome |-> nome,
                                      status |-> status, item |-> item])
             /\ evlog' = IF mudou
                         THEN Append(evlog, [t |-> t, host |-> host, nome |-> nome,
                                             status |-> status, item |-> item])
                         ELSE evlog
             /\ trocadas' = IF DoNome(host, item, nome)
                            THEN trocadas ELSE trocadas \cup {<<host, nome>>}
  BY DEF Imprime
<1> DEFINE nome == itens[item].nome
           velha == Antiga(host, nome)
           status == StatusDe(itens[item].resposta)
           tx == IF velha # <<>> /\ velha[1].status = status THEN velha[1].tx ELSE t
           l == [tx |-> tx, host |-> host, nome |-> nome,
                 status |-> status, item |-> item]
<1>2. host \in Host /\ item \in Indice \cup {0} /\ t \in Nat
  BY DEF Tipos, TypeOK
<1>3. status \in Status
  BY DEF StatusDe, Status
<1>4. tx \in Nat
  <2>1. \A k \in DOMAIN status_old : status_old[k].tx \in Nat
    <3>1. \A k \in DOMAIN status_old : status_old[k] \in Linha
      BY ElementosDe DEF Tipos, TypeOK
    <3>2. QED
      BY <3>1 DEF Linha
  <2>2. velha = <<>> \/ \E k \in DOMAIN status_old : velha = <<status_old[k]>>
    BY AntigaTipo
  <2> HIDE DEF velha, status
  <2>3. velha # <<>> => velha[1].tx \in Nat
    BY <2>1, <2>2
  <2>4. QED
    BY <1>2, <2>3
<1>5. nome \in Nomes
  BY DEF Tipos, TypeOK, LinhaLog
<1> HIDE DEF nome, velha, status, tx
<1>6. l \in Linha
  BY <1>2, <1>3, <1>4, <1>5 DEF Linha
<1>7. /\ info' = Append(info, l)
      /\ itens' = [x \in DOMAIN itens \ {item} |-> itens[x]]
      /\ conta' = Conta(conta, status)
      /\ evlog' = IF Mudou(StatusAntigo(velha), status)
                  THEN Append(evlog, [t |-> t, host |-> host, nome |-> nome,
                                      status |-> status, item |-> item])
                  ELSE evlog
      /\ trocadas' = IF DoNome(host, item, nome)
                     THEN trocadas ELSE trocadas \cup {<<host, nome>>}
  BY <1>1, ZenonT(60), ZenonT(90) DEF nome, velha, status, tx
<1>8. /\ l.host = host /\ l.item = item /\ l.nome = nome /\ nome = itens[item].nome
      /\ l.status = status /\ l.tx = tx
  BY DEF nome
<1> HIDE DEF l
<1>9. velha = Antiga(host, l.nome)
  BY <1>8 DEF velha
<1>10. tx = IF velha # <<>> /\ velha[1].status = status THEN velha[1].tx ELSE t
  BY DEF tx
<1>11. QED
  BY <1>3, <1>6, <1>7, <1>8, <1>9, <1>10
-------------------------------------------------------------------------------
(* The steps.                                                                  *)

\* A log without lines.
LEMMA LogVazio == DOMAIN <<>> = {} /\ <<>> \in [DOMAIN <<>> -> LinhaLog]
OBVIOUS

\* The rows of a log, whole or cut.
LEMMA LogTipo ==
  ASSUME NEW h \in Host, NEW l \in Inteiro(h), NEW x, x = l \/ x \in CortaLog(h, l)
  PROVE  DOMAIN x \subseteq Indice \cup {0} /\ x \in [DOMAIN x -> LinhaLog]
<1>1. PICK S \in SUBSET Indice : \E f \in [S -> Resposta \cup {SemResposta}] :
        l = [y \in S |-> [nome |-> Nome(h, y), resposta |-> f[y]]]
  BY ZenonT(60), ZenonT(90) DEF Inteiro
<1>2. \A y \in Indice : Nome(h, y) \in Nomes
  BY ColetamAssumption DEF Nome
<1>3. DOMAIN l \subseteq Indice /\ l \in [DOMAIN l -> LinhaLog]
  BY <1>1, <1>2 DEF LinhaLog
<1>4. Vazio \in Nomes /\ [nome |-> Vazio, resposta |-> SemResposta] \in LinhaLog
  BY ColetamAssumption DEF LinhaLog
<1>5. CASE x = l
  BY <1>3, <1>5
<1>6. CASE \E y \in DOMAIN l : \E n \in NomesCortados(h, y) : x = [l EXCEPT ![y].nome = n]
  <2>1. PICK y \in DOMAIN l : \E n \in NomesCortados(h, y) : x = [l EXCEPT ![y].nome = n]
    BY <1>6
  <2>2. PICK n \in NomesCortados(h, y) : x = [l EXCEPT ![y].nome = n]
    BY <2>1
  <2>3. n \in Nomes
    BY <1>4 DEF NomesCortados
  <2>4. [l[y] EXCEPT !.nome = n] \in LinhaLog
    <3>1. l[y] \in LinhaLog
      BY <1>3
    <3>2. QED
      BY <2>3, <3>1 DEF LinhaLog
  <2>5. QED
    BY <1>3, <2>2, <2>4
<1>7. CASE x = [y \in DOMAIN l \cup {0} |->
                 IF y = 0 THEN [nome |-> Vazio, resposta |-> SemResposta] ELSE l[y]]
  BY <1>3, <1>4, <1>7
<1>8. QED
  BY <1>5, <1>6, <1>7, ZenonT(60), ZenonT(90) DEF CortaLog

\* One more line: the count of its status grows by one.
LEMMA MaisUma ==
  ASSUME NEW s \in Seq(Linha), NEW l \in Linha, NEW x
  PROVE  /\ Cardinality({k \in DOMAIN s : s[k].status = x}) \in Nat
         /\ Cardinality({k \in DOMAIN Append(s, l) : Append(s, l)[k].status = x}) =
              Cardinality({k \in DOMAIN s : s[k].status = x})
                + IF l.status = x THEN 1 ELSE 0
<1> DEFINE n == Len(s)
           a == Append(s, l)
           A == {k \in DOMAIN s : s[k].status = x}
           B == {k \in DOMAIN a : a[k].status = x}
<1>1. n \in Nat /\ DOMAIN s = 1 .. n
  BY LenProperties
<1>2. /\ Len(a) = n + 1 /\ DOMAIN a = 1 .. n + 1
      /\ \A k \in 1 .. n : a[k] = s[k]
      /\ a[n + 1] = l
  <2>1. a \in Seq(Linha) /\ Len(a) = n + 1 /\ a[n + 1] = l /\ \A k \in 1 .. n : a[k] = s[k]
    BY AppendProperties
  <2>2. QED
    BY <2>1, LenProperties
<1> HIDE DEF a, n
<1>3. IsFiniteSet(A)
  <2>1. IsFiniteSet(1 .. n)
    BY <1>1, FS_Interval
  <2>2. A \subseteq 1 .. n
    BY <1>1
  <2> HIDE DEF A
  <2>3. QED
    BY <2>1, <2>2, FS_Subset, ZenonT(60), ZenonT(90)
<1>4. n + 1 \notin A
  BY <1>1
<1>5. B = IF l.status = x THEN A \cup {n + 1} ELSE A
  BY <1>1, <1>2
<1> HIDE DEF A, B
<1>6. Cardinality(A) \in Nat
  BY <1>3, FS_CardinalityType
<1>7. Cardinality(B) = Cardinality(A) + IF l.status = x THEN 1 ELSE 0
  <2>1. Cardinality(A \cup {n + 1}) = Cardinality(A) + 1
    BY <1>3, <1>4, FS_AddElement, ZenonT(60), ZenonT(90)
  <2>2. QED
    BY <1>5, <1>6, <2>1
<1>8. QED
  BY <1>6, <1>7, ZenonT(60), ZenonT(90) DEF A, B, a, n

\* What lies in an interval.
LEMMA Intervalo ==
  \A a, b : \A n \in a .. b : n \in Int /\ n <= b
OBVIOUS

\* The beginning of a sequence.
LEMMA Comeco ==
  ASSUME NEW S, NEW s \in Seq(S), NEW n \in Int, n <= Len(s)
  PROVE  /\ SubSeq(s, 1, n) \in Seq(S)
         /\ DOMAIN SubSeq(s, 1, n) = 1 .. n
         /\ \A k \in DOMAIN SubSeq(s, 1, n) : k \in DOMAIN s /\ SubSeq(s, 1, n)[k] = s[k]
<1>1. Len(s) \in Nat /\ DOMAIN s = 1 .. Len(s)
  BY LenProperties
<1>2. \A k \in 1 .. n : s[k] \in S
  BY <1>1, ElementOfSeq
<1>3. /\ SubSeq(s, 1, n) \in Seq(S)
      /\ Len(SubSeq(s, 1, n)) = IF 1 <= n THEN n - 1 + 1 ELSE 0
      /\ \A k \in 1 .. n - 1 + 1 : SubSeq(s, 1, n)[k] = s[1 + k - 1]
  BY <1>2, SubSeqProperties
<1>4. DOMAIN SubSeq(s, 1, n) = 1 .. n
  BY <1>3, LenProperties
<1>5. QED
  BY <1>1, <1>3, <1>4

\* What a kill leaves of a table: lines of it, and perhaps a cut one at the end.
LEMMA RestosEh ==
  ASSUME NEW s \in Seq(Linha), NEW x \in Restos(s)
  PROVE  /\ x \in Seq(Linha)
         /\ \A k \in DOMAIN x : \/ k \in DOMAIN s /\ x[k] = s[k]
                                \/ k = Len(x) /\ x[k].status = SemStatus
<1>1. Len(s) \in Nat /\ DOMAIN s = 1 .. Len(s) /\ \A k \in DOMAIN s : s[k] \in Linha
  BY ElementosDe
<1>2. CASE \E n \in 0 .. Len(s) : x = SubSeq(s, 1, n)
  <2>1. PICK n \in 0 .. Len(s) : x = SubSeq(s, 1, n)
    BY <1>2
  <2>2. n \in Int /\ n <= Len(s)
    BY <1>1
  <2>3. QED
    BY <2>1, <2>2, Comeco
<1>3. CASE \E n \in 1 .. Len(s) :
             \E c \in {<<s[n].host, s[n].nome>>} \cup Cortadas(<<s[n].host, s[n].nome>>) :
               x = Append(SubSeq(s, 1, n - 1), Rasgada(s[n], c))
  <2>1. PICK n \in 1 .. Len(s) :
               \E c \in {<<s[n].host, s[n].nome>>} \cup Cortadas(<<s[n].host, s[n].nome>>) :
                 x = Append(SubSeq(s, 1, n - 1), Rasgada(s[n], c))
    BY <1>3
  <2>2. PICK c \in {<<s[n].host, s[n].nome>>} \cup Cortadas(<<s[n].host, s[n].nome>>) :
               x = Append(SubSeq(s, 1, n - 1), Rasgada(s[n], c))
    BY <2>1
  <2> DEFINE a == SubSeq(s, 1, n - 1)
             l == Rasgada(s[n], c)
  <2>3. n \in Nat /\ n - 1 \in Int /\ n - 1 <= Len(s) /\ s[n] \in Linha
    BY <1>1
  <2>4. s[n].host \in Host /\ s[n].nome \in Nomes /\ s[n].tx \in Nat
    BY <2>3 DEF Linha
  <2>5. c[1] \in Host /\ c[2] \in Nomes
    BY <2>4 DEF Cortadas, Chave
  <2>6. l \in Linha /\ l.status = SemStatus
    BY <2>4, <2>5 DEF Rasgada, Linha
  <2>7. /\ a \in Seq(Linha) /\ DOMAIN a = 1 .. n - 1
        /\ \A k \in DOMAIN a : k \in DOMAIN s /\ a[k] = s[k]
    BY <2>3, Comeco
  <2>8. x = Append(a, l)
    BY <2>2
  <2> HIDE DEF a, l
  <2>9. /\ Append(a, l) \in Seq(Linha) /\ Len(Append(a, l)) = Len(a) + 1
        /\ \A k \in 1 .. Len(a) : Append(a, l)[k] = a[k]
        /\ Append(a, l)[Len(a) + 1] = l
    <3>1. a \in Seq(Linha) /\ l \in Linha
      BY <2>6, <2>7
    <3>2. QED
      BY <3>1, AppendProperties
  <2>10. Len(a) \in Nat /\ DOMAIN a = 1 .. Len(a) /\ DOMAIN x = 1 .. Len(x)
    BY <2>7, <2>8, <2>9, LenProperties
  <2>11. ASSUME NEW k \in DOMAIN x
         PROVE  (k \in DOMAIN a /\ x[k] = a[k]) \/ (k = Len(x) /\ x[k] = l)
    BY <2>8, <2>9, <2>10
  <2>12. QED
    BY <2>6, <2>7, <2>8, <2>9, <2>11
<1>4. QED
  BY <1>2, <1>3, ZenonT(60), ZenonT(90) DEF Restos

\* What a kill leaves of a table has no more lines of a status than the table.
LEMMA MenosLinhas ==
  ASSUME NEW s \in Seq(Linha), NEW r \in Seq(Linha), NEW z \in Status,
         \A k \in DOMAIN r : (k \in DOMAIN s /\ r[k] = s[k]) \/ r[k].status = SemStatus
  PROVE  Cardinality({k \in DOMAIN r : r[k].status = z})
           <= Cardinality({k \in DOMAIN s : s[k].status = z})
<1> DEFINE A == {k \in DOMAIN r : r[k].status = z}
           B == {k \in DOMAIN s : s[k].status = z}
<1>1. PICK n \in Nat : DOMAIN s = 1 .. n
  BY LenProperties
<1>2. z # SemStatus
  BY SemStatusNaoEh
<1>3. A \subseteq B
  BY <1>2
<1>4. B \subseteq 1 .. n
  BY <1>1
<1>5. IsFiniteSet(1 .. n)
  <2>1. 1 \in Int /\ n \in Int
    OBVIOUS
  <2>2. QED
    BY <2>1, FS_Interval, ZenonT(60), ZenonT(90)
<1> HIDE DEF A, B
<1>6. IsFiniteSet(B)
  BY <1>4, <1>5, FS_Subset, ZenonT(60), ZenonT(90)
<1>7. Cardinality(A) <= Cardinality(B)
  BY <1>3, <1>6, FS_Subset, ZenonT(60), ZenonT(90)
<1>8. QED
  BY <1>7, ZenonT(60), ZenonT(90) DEF A, B

\* Some conjuncts of the invariant.
LEMMA Partes ==
  ASSUME Indutivo
  PROVE  /\ now \in Nat /\ falhas \in Nat /\ t \in Nat /\ resta \subseteq Host /\ host \in Host
         /\ conta \in [Status -> Nat] /\ info \in Seq(Linha) /\ evlog \in Seq(Evento)
         /\ trocadas \subseteq Chave
         /\ geral = <<>> \/ geral[1] \in [t : Nat, conta : [Status -> Nat]]
         /\ pc # "morto" => \A k \in DOMAIN info : info[k].status # SemStatus
BY ZenonT(60), ZenonT(90) DEF Indutivo, Tipos, TypeOK

\* Nothing has run.
LEMMA InitIndutivo == Init => Indutivo
<1> SUFFICES ASSUME Init PROVE Indutivo
  OBVIOUS
<1>1. /\ <<>> \in Seq(Linha) /\ <<>> \in Seq(Evento) /\ DOMAIN <<>> = {}
      /\ <<>> \in [DOMAIN <<>> -> LinhaLog]
  BY EmptySeq, LogVazio
<1>2. TypeOK
  BY <1>1 DEF Init, TypeOK
<1>3. Tipos
  BY <1>1, <1>2 DEF Init, Tipos
<1>4. Unicos /\ Contagem /\ Publicado
  BY <1>1 DEF Init, Unicos, SemRepetir, Contagem, Correndo, Publicado, TotaisConferem
<1>5. QED
  BY <1>3, <1>4 DEF Indutivo

\* The program starts.
LEMMA PassoInicia == ASSUME Indutivo, Inicia PROVE Indutivo'
<1> USE DEF Inicia
<1>1. <<>> \in Seq(Linha) /\ DOMAIN <<>> = {}
  BY EmptySeq, LogVazio
<1>2. t' \in Nat /\ t < t'
  BY DEF Indutivo, Tipos, TypeOK
<1>3. TypeOK'
  BY <1>1, <1>2 DEF Indutivo, Tipos, TypeOK, Correndo
<1>4. \A k \in DOMAIN evlog : evlog[k].t <= t'
  <2>1. \A k \in DOMAIN evlog : evlog[k].t \in Nat
    <3>1. \A k \in DOMAIN evlog : evlog[k] \in Evento
      BY ElementosDe DEF Indutivo, Tipos
    <3>2. QED
      BY <3>1 DEF Evento
  <2>2. t \in Nat
    BY DEF Indutivo, Tipos, TypeOK
  <2>3. \A k \in DOMAIN evlog : evlog[k].t <= t
    BY DEF Indutivo, Tipos
  <2>4. QED
    BY <1>2, <2>1, <2>2, <2>3
<1>5. Tipos'
  BY <1>3, <1>4 DEF Indutivo, Tipos
<1>6. Unicos'
  <2>1. DOMAIN itens' = {}
    BY LogVazio DEF Indutivo, Tipos
  <2>2. QED
    BY <1>1, <2>1 DEF Indutivo, Unicos, SemRepetir
<1>7. Contagem'
  <2>1. \A s : {k \in DOMAIN info' : info'[k].status = s} = {}
    BY <1>1
  <2>2. QED
    BY <2>1, FS_EmptySet DEF Contagem
<1>8. Publicado'
  <2>1. geral = <<>> \/ geral[1].t \in Nat
    <3>1. geral = <<>> \/ geral[1] \in [t : Nat, conta : [Status -> Nat]]
      BY Partes
    <3>2. QED
      BY <3>1
  <2>2. t \in Nat /\ (geral # <<>> => geral[1].t <= t)
    BY Partes, ZenonT(60), ZenonT(90) DEF Indutivo, Publicado
  <2>3. geral' = <<>> \/ (geral'[1].t \in Nat /\ geral'[1].t < t')
    BY <1>2, <2>1, <2>2
  <2>4. geral' # <<>> => geral'[1].t <= t' /\ geral'[1].t # t'
    BY <1>2, <2>3
  <2>5. QED
    BY <2>3, <2>4 DEF Publicado, TotaisConferem
<1>9. QED
  BY <1>5, <1>6, <1>7, <1>8 DEF Indutivo

\* The next log.
LEMMA PassoLeArquivo == ASSUME Indutivo, LeArquivo PROVE Indutivo'
<1> USE DEF LeArquivo, arquivos
<1>1. PICK h \in resta :
        /\ resta' = resta \ {h} /\ host' = h /\ falhas' \in {falhas, falhas + 1}
        /\ \E l \in Inteiro(h) : itens' = l \/ itens' \in CortaLog(h, l)
  OBVIOUS
<1>2. h \in Host /\ falhas' \in Nat
  <2>1. falhas \in Nat /\ resta \subseteq Host
    BY Partes
  <2>2. QED
    BY <1>1, <2>1
<1>3. DOMAIN itens' \subseteq Indice \cup {0} /\ itens' \in [DOMAIN itens' -> LinhaLog]
  BY <1>1, <1>2, LogTipo, ZenonT(60), ZenonT(90)
<1>4. TypeOK'
  BY <1>1, <1>2, <1>3 DEF Indutivo, Tipos, TypeOK
<1>5. Tipos'
  BY <1>4 DEF Indutivo, Tipos
<1>6. Unicos'
  BY <1>1 DEF Indutivo, Unicos, SemRepetir
<1>7. Contagem' /\ Publicado'
  BY DEF Indutivo, Contagem, Publicado, TotaisConferem
<1>8. QED
  BY <1>5, <1>6, <1>7 DEF Indutivo

\* The two steps that write the totals.
LEMMA PassoGeral == ASSUME Indutivo, AbreGeral \/ FechaGeral PROVE Indutivo'
<1>1. /\ UNCHANGED <<now, falhas, t, status_old, resta, host, itens, conta, info, evlog,
                     perdeu, trocadas>>
      /\ pc \in Correndo /\ itens = <<>>
      /\ \/ pc' = "geral" /\ geral' = <<>>
         \/ pc' = "fecha" /\ geral' = <<[t |-> t, conta |-> conta]>>
  BY DEF AbreGeral, FechaGeral, Indutivo, Tipos, Correndo
<1>2. /\ t \in Nat /\ conta \in [Status -> Nat]
      /\ \A s \in Status : conta[s] = Cardinality({k \in DOMAIN info : info[k].status = s})
      /\ \A k \in DOMAIN info : info[k].status # SemStatus
  BY <1>1 DEF Indutivo, Tipos, TypeOK, Contagem, Correndo
<1>3. \/ geral' = <<>>
      \/ /\ geral'[1].t = t /\ geral'[1].conta = conta
         /\ geral'[1] \in [t : Nat, conta : [Status -> Nat]]
  <2> DEFINE g == [t |-> t, conta |-> conta]
  <2>1. g \in [t : Nat, conta : [Status -> Nat]] /\ g.t = t /\ g.conta = conta
    BY <1>2
  <2>2. geral' = <<>> \/ geral' = <<g>>
    BY <1>1
  <2> HIDE DEF g
  <2>3. QED
    BY <2>1, <2>2
<1>4. TypeOK'
  <2>1. pc' \in Correndo \cup {"fim", "morto"}
    BY <1>1 DEF Correndo
  <2>2. QED
    BY <1>1, <1>2, <1>3, <2>1 DEF Indutivo, Tipos, TypeOK
<1>5. Tipos'
  BY <1>1, <1>4 DEF Indutivo, Tipos
<1>6. Unicos'
  BY <1>1 DEF Indutivo, Unicos, SemRepetir
<1>7. Contagem'
  BY <1>1, <1>2 DEF Contagem
<1>8. TotaisConferem'
  <2>1. CASE geral' = <<>>
    BY <2>1 DEF TotaisConferem
  <2>2. CASE geral' # <<>>
    <3>1. pc' # "morto" /\ geral'[1].conta = conta /\ info' = info
      BY <1>1, <1>3, <2>2
    <3>2. \A s \in Status :
            LET n == Cardinality({k \in DOMAIN info : info[k].status = s})
            IN  n <= conta[s] /\ n = conta[s]
      <4>1. \A s \in Status : conta[s] \in Nat /\ conta[s] <= conta[s]
        BY <1>2
      <4>2. QED
        BY <1>2, <4>1, ZenonT(60), ZenonT(90)
    <3>3. \A k, m \in {x \in DOMAIN info : info[x].status # SemStatus} :
            info[k].host = info[m].host /\ info[k].item = info[m].item => k = m
      BY DEF Indutivo, Unicos, SemRepetir
    <3>4. QED
      BY <3>1, <3>2, <3>3, ZenonT(60), ZenonT(90) DEF TotaisConferem
  <2>3. QED
    BY <2>1, <2>2
<1>9. Publicado'
  <2>1. geral' # <<>> => geral'[1].t <= t' /\ pc' = "fecha"
    <3>1. t <= t /\ t' = t
      BY <1>1, <1>2
    <3>2. QED
      BY <1>1, <1>3, <3>1, ZenonT(60), ZenonT(90)
  <2>2. pc' # "corre"
    BY <1>1
  <2>3. QED
    BY <1>8, <2>1, <2>2 DEF Publicado
<1>10. QED
  BY <1>5, <1>6, <1>7, <1>9 DEF Indutivo

\* The end of a run, or a kill.
LEMMA PassoEncerra == ASSUME Indutivo, Termina \/ Morre PROVE Indutivo'
<1>1. /\ pc' \in {"fim", "morto"} /\ status_old' = <<>> /\ resta' = {} /\ itens' = <<>>
      /\ conta' = [s \in Status |-> 0] /\ UNCHANGED <<t, host, now, geral, trocadas>>
      /\ pc \in Correndo /\ falhas' \in {falhas, falhas + 1}
  BY ZenonT(60), ZenonT(90) DEF Termina, Morre, Encerra, arquivos, Correndo
<1>2. /\ <<>> \in Seq(Linha) /\ DOMAIN <<>> = {} /\ <<>> \in [DOMAIN <<>> -> LinhaLog]
      /\ info \in Seq(Linha) /\ evlog \in Seq(Evento)
  BY EmptySeq, LogVazio DEF Indutivo, Tipos, TypeOK
<1>3. \A k \in DOMAIN info : info[k].status # SemStatus
  BY <1>1 DEF Indutivo, Tipos, TypeOK, Correndo
<1>4. /\ info' \in Seq(Linha)
      /\ \A k \in DOMAIN info' : \/ k \in DOMAIN info /\ info'[k] = info[k]
                                 \/ /\ k = Len(info') /\ info'[k].status = SemStatus
                                    /\ pc' = "morto"
  <2>1. CASE Termina
    BY <1>2, <2>1 DEF Termina, arquivos
  <2>2. CASE Morre
    <3>1. info' \in Restos(info) /\ pc' = "morto"
      BY <2>2, ZenonT(60), ZenonT(90) DEF Morre
    <3>2. QED
      BY <1>2, <3>1, RestosEh
  <2>3. QED
    BY <2>1, <2>2
<1>5. /\ evlog' \in Seq(Evento)
      /\ \A k \in DOMAIN evlog' : k \in DOMAIN evlog /\ evlog'[k] = evlog[k]
  <2>1. CASE Termina
    BY <1>2, <2>1 DEF Termina, arquivos
  <2>2. CASE Morre
    <3>1. \A n \in Int : n <= Len(evlog) =>
            /\ SubSeq(evlog, 1, n) \in Seq(Evento)
            /\ \A k \in DOMAIN SubSeq(evlog, 1, n) :
                 k \in DOMAIN evlog /\ SubSeq(evlog, 1, n)[k] = evlog[k]
      BY <1>2, Comeco
    <3>2. PICK n \in Len(SelectSeq(evlog, LAMBDA e : e.t # t)) .. Len(evlog) :
            evlog' = SubSeq(evlog, 1, n)
      BY <2>2, ZenonT(60), ZenonT(90) DEF Morre
    <3>3. n \in Int /\ n <= Len(evlog)
      BY Intervalo, ZenonT(60), ZenonT(90)
    <3>4. QED
      BY <3>1, <3>2, <3>3, ZenonT(60), ZenonT(90)
  <2>3. QED
    BY <2>1, <2>2
<1>6. perdeu' \in BOOLEAN
  BY ZenonT(60), ZenonT(90) DEF Termina, Morre, arquivos, Indutivo, Tipos, TypeOK
<1>7. TypeOK'
  <2>1. \A k \in DOMAIN info' : info'[k].status = SemStatus => pc' = "morto" /\ k = Len(info')
    BY <1>3, <1>4
  <2>2. falhas' \in Nat
    <3>1. falhas \in Nat
      BY Partes
    <3>2. QED
      BY <1>1, <3>1
  <2>3. QED
    BY <1>1, <1>2, <1>4, <1>6, <2>1, <2>2 DEF Indutivo, Tipos, TypeOK
<1>8. Tipos'
  BY <1>1, <1>5, <1>7 DEF Indutivo, Tipos
<1>9. Unicos'
  BY <1>1, <1>2, <1>4 DEF Indutivo, Unicos, SemRepetir
<1>10. Contagem'
  BY <1>1 DEF Contagem, Correndo
<1>11. Publicado'
  <2>1. TotaisConferem'
    <3> SUFFICES ASSUME geral # <<>>, geral[1].t = t
                 PROVE  TotaisConferem'
      BY <1>1 DEF TotaisConferem
    <3>1. geral[1].t \in Nat /\ \A s \in Status : geral[1].conta[s] \in Nat
      BY DEF Indutivo, Tipos, TypeOK
    <3>2. \A s \in Status :
            geral[1].conta[s] = Cardinality({k \in DOMAIN info : info[k].status = s})
      BY <1>1 DEF Indutivo, Publicado, TotaisConferem, Correndo
    <3>3. \A s \in Status :
            Cardinality({k \in DOMAIN info' : info'[k].status = s}) <= geral[1].conta[s]
      <4> SUFFICES ASSUME NEW s \in Status
                   PROVE  Cardinality({k \in DOMAIN info' : info'[k].status = s})
                            <= geral[1].conta[s]
        OBVIOUS
      <4>1. Cardinality({k \in DOMAIN info' : info'[k].status = s})
              <= Cardinality({k \in DOMAIN info : info[k].status = s})
        BY <1>2, <1>4, MenosLinhas
      <4>2. QED
        BY <3>2, <4>1
    <3>4. pc' # "morto" => info' = info
      BY ZenonT(60), ZenonT(90) DEF Termina, Morre, arquivos
    <3>5. \A k, m \in {x \in DOMAIN info' : info'[x].status # SemStatus} :
            info'[k].host = info'[m].host /\ info'[k].item = info'[m].item => k = m
      BY <1>9 DEF Unicos, SemRepetir
    <3>6. QED
      BY <1>1, <3>2, <3>3, <3>4, <3>5 DEF TotaisConferem
  <2>2. QED
    BY <1>1, <2>1 DEF Indutivo, Publicado
<1>12. QED
  BY <1>8, <1>9, <1>10, <1>11 DEF Indutivo

\* A row of the file.
LEMMA PassoImprime == ASSUME Indutivo, Imprime PROVE Indutivo'
<1>1. PICK l \in Linha :
        /\ info' = Append(info, l)
        /\ l.host = host /\ l.item \in DOMAIN itens /\ l.status \in Status
        /\ itens' = [x \in DOMAIN itens \ {l.item} |-> itens[x]]
        /\ conta' = Conta(conta, l.status)
        /\ \/ evlog' = Append(evlog, [t |-> t, host |-> l.host, nome |-> l.nome,
                                      status |-> l.status, item |-> l.item])
           \/ evlog' = evlog
        /\ trocadas' \in {trocadas, trocadas \cup {<<host, l.nome>>}}
  BY ImprimeEh, ZenonT(60), ZenonT(90) DEF Indutivo
<1>2. pc = "corre" /\ UNCHANGED <<now, falhas, pc, t, status_old, resta, host, geral, perdeu>>
  BY DEF Imprime
<1>3. /\ info \in Seq(Linha) /\ evlog \in Seq(Evento) /\ t \in Nat
      /\ conta \in [Status -> Nat]
  BY DEF Indutivo, Tipos, TypeOK
<1>4. /\ info' \in Seq(Linha)
      /\ Len(info) \in Nat /\ DOMAIN info = 1 .. Len(info) /\ DOMAIN info' = 1 .. Len(info) + 1
      /\ \A k \in DOMAIN info : info'[k] = info[k]
      /\ info'[Len(info) + 1] = l
  <2>1. /\ Append(info, l) \in Seq(Linha) /\ Len(Append(info, l)) = Len(info) + 1
        /\ \A k \in 1 .. Len(info) : Append(info, l)[k] = info[k]
        /\ Append(info, l)[Len(info) + 1] = l
    BY <1>3, AppendProperties
  <2>2. Len(info) \in Nat /\ DOMAIN info = 1 .. Len(info)
    BY <1>3, LenProperties
  <2>3. DOMAIN Append(info, l) = 1 .. Len(info) + 1
    BY <2>1, LenProperties
  <2>4. QED
    BY <1>1, <2>1, <2>2, <2>3
<1>5. evlog' \in Seq(Evento) /\ \A k \in DOMAIN evlog' : evlog'[k].t <= t
  <2>1. \A k \in DOMAIN evlog : evlog[k].t <= t
    BY DEF Indutivo, Tipos
  <2>2. CASE evlog' = evlog
    BY <1>3, <2>1, <2>2
  <2>3. CASE evlog' # evlog
    <3> DEFINE e == [t |-> t, host |-> l.host, nome |-> l.nome,
                     status |-> l.status, item |-> l.item]
    <3>1. e \in Evento
      BY <1>1, <1>3 DEF Linha, Evento
    <3>2. evlog' = Append(evlog, e) /\ e.t = t
      BY <1>1, <2>3
    <3> HIDE DEF e
    <3>3. /\ Append(evlog, e) \in Seq(Evento) /\ Len(Append(evlog, e)) = Len(evlog) + 1
          /\ \A k \in 1 .. Len(evlog) : Append(evlog, e)[k] = evlog[k]
          /\ Append(evlog, e)[Len(evlog) + 1] = e
      BY <1>3, <3>1, AppendProperties
    <3>4. DOMAIN evlog = 1 .. Len(evlog) /\ DOMAIN evlog' = 1 .. Len(evlog) + 1
          /\ Len(evlog) \in Nat
      BY <1>3, <3>2, <3>3, LenProperties
    <3>5. QED
      BY <1>3, <2>1, <3>2, <3>3, <3>4
  <2>4. QED
    BY <2>2, <2>3
<1>6. /\ DOMAIN itens' = DOMAIN itens \ {l.item} /\ DOMAIN itens' \subseteq Indice \cup {0}
      /\ itens' \in [DOMAIN itens' -> LinhaLog]
  BY <1>1 DEF Indutivo, Tipos, TypeOK
<1>7. trocadas' \subseteq Chave
  <2>1. host \in Host /\ l.nome \in Nomes /\ trocadas \subseteq Chave
    BY DEF Indutivo, Tipos, TypeOK, Linha
  <2>2. QED
    BY <1>1, <2>1 DEF Chave
<1>8. /\ conta' \in [Status -> Nat]
      /\ \A s \in Status : conta'[s] = conta[s] + IF l.status = s THEN 1 ELSE 0
  BY <1>1, <1>3 DEF Conta
<1>9. Tipos'
  <2>1. \A k \in DOMAIN info' : info'[k].status # SemStatus
    <3>1. \A k \in DOMAIN info : info[k].status # SemStatus
      BY <1>2 DEF Indutivo, Tipos, TypeOK
    <3>2. l.status # SemStatus
      BY <1>1, SemStatusNaoEh
    <3>3. \A k \in DOMAIN info' : k \in DOMAIN info \/ k = Len(info) + 1
      BY <1>4
    <3>4. QED
      BY <1>4, <3>1, <3>2, <3>3
  <2>2. TypeOK'
    BY <1>2, <1>4, <1>6, <1>7, <1>8, <2>1 DEF Indutivo, Tipos, TypeOK
  <2>3. QED
    BY <1>2, <1>5, <2>2 DEF Indutivo, Tipos
<1>10. Unicos'
  <2>1. \A k \in DOMAIN info : ~(info[k].host = l.host /\ info[k].item = l.item)
    BY <1>1, <1>2 DEF Indutivo, Unicos
  <2>2. \A k \in DOMAIN info' : (k \in DOMAIN info /\ info'[k] = info[k]) \/ k = Len(info) + 1
    BY <1>4
  <2>3. SemRepetir(info)'
    <3>1. SemRepetir(info)
      BY DEF Indutivo, Unicos
    <3>2. SUFFICES ASSUME NEW k \in DOMAIN info', NEW m \in DOMAIN info',
                          info'[k].status # SemStatus, info'[m].status # SemStatus,
                          info'[k].host = info'[m].host, info'[k].item = info'[m].item
                   PROVE  k = m
      BY DEF SemRepetir
    <3>3. CASE k \in DOMAIN info /\ m \in DOMAIN info
      BY <1>4, <3>1, <3>2, <3>3 DEF SemRepetir
    <3>4. CASE k \notin DOMAIN info \/ m \notin DOMAIN info
      BY <1>4, <2>1, <2>2, <3>2, <3>4
    <3>5. QED
      BY <3>3, <3>4
  <2>4. SemRepetir(status_old)'
    BY <1>2 DEF Indutivo, Unicos, SemRepetir
  <2>5. host \notin resta
    BY <1>1, <1>2 DEF Indutivo, Unicos
  <2>6. \A k \in DOMAIN info' :
          /\ info'[k].host \notin resta
          /\ info'[k].host = host => info'[k].item \notin DOMAIN itens'
    <3>1. \A k \in DOMAIN info :
            /\ info[k].host \notin resta
            /\ info[k].host = host => info[k].item \notin DOMAIN itens
      BY <1>2 DEF Indutivo, Unicos
    <3>2. QED
      BY <1>1, <1>4, <1>6, <2>2, <2>5, <3>1
  <2>7. QED
    BY <1>2, <2>3, <2>4, <2>5, <2>6 DEF Unicos
<1>11. Contagem'
  <2>1. \A s \in Status : conta[s] = Cardinality({k \in DOMAIN info : info[k].status = s})
    BY <1>2 DEF Indutivo, Contagem, Correndo
  <2>2. \A s \in Status : conta'[s] = Cardinality({k \in DOMAIN info' : info'[k].status = s})
    <3> SUFFICES ASSUME NEW s \in Status
                 PROVE  conta'[s] = Cardinality({k \in DOMAIN info' : info'[k].status = s})
      OBVIOUS
    <3>1. Cardinality({k \in DOMAIN Append(info, l) : Append(info, l)[k].status = s}) =
            Cardinality({k \in DOMAIN info : info[k].status = s})
              + IF l.status = s THEN 1 ELSE 0
      BY <1>3, MaisUma, ZenonT(60), ZenonT(90)
    <3>2. conta'[s] = Cardinality({k \in DOMAIN info : info[k].status = s})
                        + IF l.status = s THEN 1 ELSE 0
      BY <1>8, <2>1, ZenonT(60), ZenonT(90)
    <3>3. QED
      BY <1>1, <3>1, <3>2, ZenonT(60), ZenonT(90)
  <2>3. QED
    BY <2>2 DEF Contagem
<1>12. Publicado'
  <2>1. geral = <<>> \/ (geral[1].t \in Nat /\ geral[1].t < t)
    BY <1>2 DEF Indutivo, Tipos, TypeOK, Publicado
  <2>2. geral # <<>> => geral[1].t <= t /\ geral[1].t # t
    BY <1>3, <2>1
  <2>3. QED
    BY <1>2, <2>1, <2>2 DEF Publicado, TotaisConferem
<1>13. QED
  BY <1>9, <1>10, <1>11, <1>12 DEF Indutivo

\* Time passes, or nothing happens.
LEMMA PassoTick ==
  ASSUME Indutivo, now' \in Nat,
         UNCHANGED <<falhas, pc, t, status_old, resta, host, itens, conta, arquivos>>
  PROVE  Indutivo'
<1> USE DEF arquivos
<1>1. Tipos'
  <2>1. TypeOK'
    BY DEF Indutivo, Tipos, TypeOK
  <2>2. QED
    BY <2>1 DEF Indutivo, Tipos
<1>2. Unicos' /\ Contagem'
  BY DEF Indutivo, Unicos, SemRepetir, Contagem
<1>3. Publicado'
  BY DEF Indutivo, Publicado, TotaisConferem
<1>4. QED
  BY <1>1, <1>2, <1>3 DEF Indutivo

\* Every step keeps the first inductive invariant.
LEMMA PassoIndutivo == Indutivo /\ [Next]_vars => Indutivo'
<1> SUFFICES ASSUME Indutivo, [Next]_vars PROVE Indutivo'
  OBVIOUS
<1>1. now \in Nat
  BY DEF Indutivo, Tipos, TypeOK
<1>2. CASE Tick \/ UNCHANGED vars
  <2>1. /\ now' \in Nat
        /\ UNCHANGED <<falhas, pc, t, status_old, resta, host, itens, conta, arquivos>>
    BY <1>1, <1>2 DEF Tick, vars
  <2>2. QED
    BY <2>1, PassoTick
<1>3. CASE ColetamNext
  BY <1>3, PassoInicia, PassoLeArquivo, PassoImprime, PassoGeral, PassoEncerra
     DEF ColetamNext
<1>4. QED
  BY <1>2, <1>3 DEF Next
-------------------------------------------------------------------------------
(* The theorems that hold of any router.                                       *)

\* The table being printed, the old one, the rows still to come and the totals
\* agree in every state.
THEOREM SempreIndutivo == Spec => []Indutivo
BY InitIndutivo, PassoIndutivo, PTL DEF Spec

\* The type invariant of the reader.
THEOREM TipoCorreto == Spec => []TypeOK
<1>1. Indutivo => TypeOK
  BY DEF Indutivo, Tipos
<1>2. QED
  BY <1>1, SempreIndutivo, PTL

\* The totals published are those of the table, which has no interface twice,
\* whatever the walks left in the logs; a kill between the two files may leave less of
\* the table, never more.
THEOREM TotaisConferemVale == Spec => []TotaisConferem
<1>1. Indutivo => TotaisConferem
  BY DEF Indutivo, Publicado
<1>2. QED
  BY <1>1, SempreIndutivo, PTL
-------------------------------------------------------------------------------
(* The theorems that hold of routers without channelized interfaces.           *)

\* A step that logs nothing and prints nothing.
LEMMA SemEvento ==
  ASSUME IndutivoNomes, Indutivo', UNCHANGED <<t, status_old, info, evlog, perdeu, trocadas>>,
         pc' \in Correndo => pc \in Correndo
  PROVE  IndutivoNomes'
<1>1. EventoSoDeMudanca'
  <2>1. Turvas(status_old)' = Turvas(status_old)
    BY DEF Turvas, DoNome, Nome
  <2>2. QED
    BY <2>1 DEF IndutivoNomes, EventoSoDeMudanca, DoNome, Nome
<1>2. Explica'
  <2>1. \A x : (Deve(x)' <=> Deve(x)) /\ (Explicada(x)' <=> Explicada(x))
    BY DEF Deve, Explicada
  <2>2. Explica
    BY DEF IndutivoNomes
  <2>3. QED
    BY <2>1, <2>2, ZenonT(60), ZenonT(90) DEF Explica
<1>3. Trocas'
  BY DEF IndutivoNomes, Trocas, Deve, DoNome, Nome
<1>4. QED
  BY <1>1, <1>2, <1>3 DEF IndutivoNomes

\* The program starts: no event has the time of the new run.
LEMMA NomesInicia ==
  ASSUME IndutivoNomes, Indutivo', Inicia
  PROVE  IndutivoNomes'
<1>1. /\ t \in Nat /\ t' \in Nat /\ t < t'
      /\ pc' = "corre" /\ status_old' = info /\ info' = <<>> /\ evlog' = evlog
      /\ perdeu' = perdeu /\ trocadas' = trocadas
  BY DEF Inicia, IndutivoNomes, Indutivo, Tipos, TypeOK
<1>2. \A k \in DOMAIN evlog : evlog[k].t \in Nat /\ evlog[k].t <= t
  <2>1. \A k \in DOMAIN evlog : evlog[k] \in Evento
    BY ElementosDe DEF IndutivoNomes, Indutivo, Tipos
  <2>2. \A k \in DOMAIN evlog : evlog[k].t \in Nat
    BY <2>1 DEF Evento
  <2>3. QED
    BY <2>2 DEF IndutivoNomes, Indutivo, Tipos
<1>3. EventoSoDeMudanca'
  BY <1>1, <1>2 DEF EventoSoDeMudanca
<1>4. Explica'
  <2>1. DOMAIN info' = {}
    BY <1>1, LogVazio
  <2>2. ~perdeu => \A k \in DOMAIN info : Deve(info[k]) => Explicada(info[k])
    BY DEF IndutivoNomes, Explica
  <2>3. QED
    BY <1>1, <2>1, <2>2 DEF Explica, Explicada, Deve
<1>5. Trocas'
  BY <1>1, LogVazio DEF Trocas
<1>6. QED
  BY <1>3, <1>4, <1>5 DEF IndutivoNomes

\* The end of a run, or a kill that loses no event.
LEMMA NomesEncerra ==
  ASSUME IndutivoNomes, Indutivo', Termina \/ Morre
  PROVE  IndutivoNomes'
<1>1. pc' \notin Correndo /\ trocadas' = trocadas
  BY ZenonT(60), ZenonT(90) DEF Termina, Morre, arquivos, Correndo
<1>2. ~perdeu' => ~perdeu /\ evlog' = evlog
  BY ZenonT(60), ZenonT(90) DEF Termina, Morre, arquivos
<1>3. \A k \in DOMAIN info' : (k \in DOMAIN info /\ info'[k] = info[k]) \/ info'[k].status = SemStatus
  <2>1. CASE Termina
    BY <2>1 DEF Termina, arquivos
  <2>2. CASE Morre
    <3>1. info' \in Restos(info)
      BY <2>2, ZenonT(60), ZenonT(90) DEF Morre
    <3>2. info \in Seq(Linha)
      BY DEF IndutivoNomes, Indutivo, Tipos, TypeOK
    <3>3. QED
      BY <3>1, <3>2, RestosEh
  <2>3. QED
    BY <2>1, <2>2
<1>4. EventoSoDeMudanca'
  BY <1>1 DEF EventoSoDeMudanca
<1>5. Explica'
  <2>1. ~perdeu => \A k \in DOMAIN info : Deve(info[k]) => Explicada(info[k])
    BY DEF IndutivoNomes, Explica
  <2>2. QED
    BY <1>1, <1>2, <1>3, <2>1 DEF Explica, Explicada, Deve
<1>6. Trocas'
  BY <1>1, <1>3 DEF IndutivoNomes, Trocas, Deve, DoNome, Nome
<1>7. QED
  BY <1>4, <1>5, <1>6 DEF IndutivoNomes

\* An event explains the line printed with it, and takes away the explanation of
\* no line about another interface.
LEMMA EventoNovo ==
  ASSUME evlog \in Seq(Evento), NEW e \in Evento, evlog' = Append(evlog, e)
  PROVE  /\ \A l : l.host = e.host /\ l.nome = e.nome /\ l.status = e.status /\ l.tx = e.t
                     => Explicada(l)'
         /\ \A l : Explicada(l) /\ ~(l.host = e.host /\ l.nome = e.nome) => Explicada(l)'
         /\ \A k \in DOMAIN evlog' : \/ k \in DOMAIN evlog /\ evlog'[k] = evlog[k]
                                     \/ evlog'[k] = e
<1> DEFINE n == Len(evlog)
<1>1. /\ n \in Nat /\ DOMAIN evlog = 1 .. n /\ DOMAIN evlog' = 1 .. n + 1
      /\ \A k \in 1 .. n : evlog'[k] = evlog[k]
      /\ evlog'[n + 1] = e
  <2>1. /\ Append(evlog, e) \in Seq(Evento) /\ Len(Append(evlog, e)) = n + 1
        /\ \A k \in 1 .. n : Append(evlog, e)[k] = evlog[k]
        /\ Append(evlog, e)[n + 1] = e
    BY AppendProperties
  <2>2. n \in Nat /\ DOMAIN evlog = 1 .. n
    BY LenProperties
  <2>3. DOMAIN Append(evlog, e) = 1 .. n + 1
    BY <2>1, LenProperties
  <2>4. QED
    BY <2>1, <2>2, <2>3
<1> HIDE DEF n
<1>2. \A k \in DOMAIN evlog' : (k \in DOMAIN evlog /\ evlog'[k] = evlog[k]) \/ k = n + 1
  BY <1>1
<1>3. ASSUME NEW l, l.host = e.host, l.nome = e.nome, l.status = e.status, l.tx = e.t
      PROVE  Explicada(l)'
  <2>1. n + 1 \in DOMAIN evlog' /\ \A d \in DOMAIN evlog' : d <= n + 1
    BY <1>1
  <2>2. QED
    BY <1>1, <1>3, <2>1 DEF Explicada
<1>4. ASSUME NEW l, Explicada(l), ~(l.host = e.host /\ l.nome = e.nome)
      PROVE  Explicada(l)'
  <2>1. PICK x \in DOMAIN evlog :
          /\ evlog[x].host = l.host /\ evlog[x].nome = l.nome
          /\ evlog[x].status = l.status /\ evlog[x].t = l.tx
          /\ \A d \in DOMAIN evlog :
               evlog[d].host = l.host /\ evlog[d].nome = l.nome => d <= x
    BY <1>4 DEF Explicada
  <2>2. x \in DOMAIN evlog' /\ evlog'[x] = evlog[x]
    BY <1>1
  <2>3. \A d \in DOMAIN evlog' :
          evlog'[d].host = l.host /\ evlog'[d].nome = l.nome => d <= x
    BY <1>1, <1>2, <1>4, <2>1
  <2>4. QED
    BY <2>1, <2>2, <2>3 DEF Explicada
<1>5. QED
  BY <1>1, <1>2, <1>3, <1>4

\* A row of the file: the old line it is compared with is the one of its interface.
LEMMA NomesImprime ==
  ASSUME NomesUnicos, IndutivoNomes, Indutivo', Imprime
  PROVE  IndutivoNomes'
<1>1. PICK l \in Linha :
        LET velha == Antiga(host, l.nome)
        IN  /\ info' = Append(info, l)
            /\ l.host = host /\ l.item \in DOMAIN itens
            /\ l.nome = itens[l.item].nome /\ l.status \in Status
            /\ l.tx = IF velha # <<>> /\ velha[1].status = l.status
                      THEN velha[1].tx ELSE t
            /\ itens' = [x \in DOMAIN itens \ {l.item} |-> itens[x]]
            /\ conta' = Conta(conta, l.status)
            /\ evlog' = IF Mudou(StatusAntigo(velha), l.status)
                        THEN Append(evlog, [t |-> t, host |-> l.host, nome |-> l.nome,
                                            status |-> l.status, item |-> l.item])
                        ELSE evlog
            /\ trocadas' = IF DoNome(host, l.item, l.nome)
                           THEN trocadas ELSE trocadas \cup {<<host, l.nome>>}
  BY ImprimeEh, ZenonT(60), ZenonT(90) DEF IndutivoNomes, Indutivo
<1> DEFINE velha == Antiga(host, l.nome)
           e == [t |-> t, host |-> l.host, nome |-> l.nome,
                 status |-> l.status, item |-> l.item]
<1>2. /\ info' = Append(info, l)
      /\ l.host = host /\ l.item \in DOMAIN itens
      /\ l.tx = IF velha # <<>> /\ velha[1].status = l.status THEN velha[1].tx ELSE t
      /\ evlog' = IF Mudou(StatusAntigo(velha), l.status) THEN Append(evlog, e) ELSE evlog
      /\ trocadas \subseteq trocadas'
      /\ <<l.host, l.nome>> \notin trocadas' => DoNome(l.host, l.item, l.nome)
  BY <1>1
<1>3. /\ pc = "corre" /\ UNCHANGED <<pc, t, status_old, perdeu>>
      /\ Tipos /\ Unicos /\ EventoSoDeMudanca /\ Explica /\ Trocas
  BY DEF Imprime, IndutivoNomes, Indutivo
<1>4. /\ info \in Seq(Linha) /\ evlog \in Seq(Evento) /\ t \in Nat
      /\ SemRepetir(info) /\ SemRepetir(status_old)
  BY <1>3 DEF Tipos, TypeOK, Unicos
<1>5. l.host \in Host /\ l.status \in Status /\ l.status # SemStatus
  BY <1>1, SemStatusNaoEh DEF Linha
<1>6. e \in Evento /\ e.host = l.host /\ e.nome = l.nome /\ e.status = l.status
      /\ e.t = t /\ e.item = l.item
  BY <1>4, <1>5 DEF Linha, Evento
<1>7. \A m \in DOMAIN status_old :
        /\ status_old[m].host = host /\ status_old[m].nome = l.nome
        /\ <<host, l.nome>> \notin Turvas(status_old)
        => velha = <<status_old[m]>>
  BY <1>3, <1>4, AntigaUnica
<1>8. velha # <<>> =>
        \E m \in DOMAIN status_old : /\ velha = <<status_old[m]>>
                                     /\ status_old[m].host = host
                                     /\ status_old[m].nome = l.nome
  BY <1>3, AntigaTipo
<1> HIDE DEF velha, e
<1>9. <<l.host, l.nome>> \notin trocadas' =>
        \A k \in DOMAIN info : ~(info[k].host = l.host /\ info[k].nome = l.nome)
  <2> SUFFICES ASSUME <<l.host, l.nome>> \notin trocadas', NEW k \in DOMAIN info,
                      info[k].host = host, info[k].nome = l.nome
               PROVE  FALSE
    BY <1>2
  <2>1. info[k].status # SemStatus
    BY <1>3 DEF Tipos, TypeOK
  <2>2. Deve(info[k])
    BY <1>2, <2>1 DEF Deve
  <2>3. /\ info[k].item \in Indice /\ info[k].nome = Nome(host, info[k].item)
        /\ l.item \in Indice /\ l.nome = Nome(host, l.item)
    BY <1>2, <1>3, <2>2 DEF Trocas, DoNome
  <2>4. info[k].item = l.item
    BY <1>2, <1>5, <2>3 DEF NomesUnicos
  <2>5. QED
    BY <1>2, <1>3, <2>4 DEF Unicos
<1>10. \A k \in DOMAIN info' : (k \in DOMAIN info /\ info'[k] = info[k]) \/ info'[k] = l
  <2>1. Append(info, l) \in Seq(Linha) /\ Len(Append(info, l)) = Len(info) + 1
        /\ \A k \in 1 .. Len(info) : Append(info, l)[k] = info[k]
        /\ Append(info, l)[Len(info) + 1] = l
    BY <1>4, AppendProperties
  <2>2. Len(info) \in Nat /\ DOMAIN info = 1 .. Len(info)
    BY <1>4, LenProperties
  <2>3. DOMAIN Append(info, l) = 1 .. Len(info) + 1
    BY <2>1, LenProperties
  <2>4. QED
    BY <1>2, <2>1, <2>2, <2>3
<1>11. \E k \in DOMAIN info' : info'[k] = l
  BY <1>2, <1>4
<1>12. \A k \in DOMAIN info : \E m \in DOMAIN info' : info'[m] = info[k]
  BY <1>2, <1>4
<1>13. Trocas'
  <2>1. \A k \in DOMAIN info' :
          info'[k].status # SemStatus /\ <<info'[k].host, info'[k].nome>> \notin trocadas' =>
            DoNome(info'[k].host, info'[k].item, info'[k].nome)
    BY <1>2, <1>3, <1>10 DEF Trocas, Deve
  <2>2. QED
    BY <2>1 DEF Trocas, Deve, DoNome, Nome
<1>14. CASE StatusAntigo(velha) # l.status
  <2>1. evlog' = Append(evlog, e) /\ l.tx = t
    BY <1>2, <1>14 DEF Mudou, StatusAntigo
  <2>2. /\ \A x : x.host = e.host /\ x.nome = e.nome /\ x.status = e.status /\ x.tx = e.t
                    => Explicada(x)'
        /\ \A x : Explicada(x) /\ ~(x.host = e.host /\ x.nome = e.nome) => Explicada(x)'
        /\ \A k \in DOMAIN evlog' : \/ k \in DOMAIN evlog /\ evlog'[k] = evlog[k]
                                    \/ evlog'[k] = e
    BY <1>4, <1>6, <2>1, EventoNovo
  <2>3. EventoSoDeMudanca'
    <3>1. ASSUME NEW m \in DOMAIN status_old, status_old[m].host = e.host,
                 status_old[m].nome = e.nome, <<e.host, e.nome>> \notin Turvas(status_old)
          PROVE  status_old[m].status # e.status
      <4>1. velha = <<status_old[m]>>
        BY <1>2, <1>6, <1>7, <3>1
      <4>2. StatusAntigo(velha) = status_old[m].status
        BY <4>1 DEF StatusAntigo
      <4>3. QED
        BY <1>6, <1>14, <4>2
    <3>2. Turvas(status_old)' = Turvas(status_old)
      BY <1>3 DEF Turvas, DoNome, Nome
    <3>3. QED
      BY <1>3, <2>2, <3>1, <3>2 DEF EventoSoDeMudanca, DoNome, Nome, Correndo
  <2>4. Explica'
    <3> SUFFICES ASSUME ~perdeu
                 PROVE  /\ (\A k \in DOMAIN info : Deve(info[k]) => Explicada(info[k]))'
                        /\ (\A m \in DOMAIN status_old :
                             /\ Deve(status_old[m])
                             /\ \A k \in DOMAIN info :
                                  ~(/\ info[k].host = status_old[m].host
                                    /\ info[k].nome = status_old[m].nome)
                             => Explicada(status_old[m]))'
      BY <1>3 DEF Explica
    <3>1. Explicada(l)'
      BY <1>6, <2>1, <2>2
    <3>2. \A k \in DOMAIN info : Deve(info[k]) => Explicada(info[k])
      BY <1>3 DEF Explica
    <3>3. ASSUME NEW k \in DOMAIN info',
                 info'[k].status # SemStatus, <<info'[k].host, info'[k].nome>> \notin trocadas'
          PROVE  Explicada(info[k])'
      <4>1. CASE info'[k] = l
        BY <3>1, <4>1 DEF Explicada
      <4>2. CASE k \in DOMAIN info /\ info'[k] = info[k]
        <5>1. PICK x : x = info[k]
          OBVIOUS
        <5>2. Explicada(x)
          BY <1>2, <3>2, <3>3, <4>2, <5>1 DEF Deve
        <5>3. ~(x.host = e.host /\ x.nome = e.nome)
          BY <1>6, <1>9, <3>3, <4>2, <5>1
        <5>4. Explicada(x)'
          BY <2>2, <5>2, <5>3
        <5>5. QED
          BY <4>2, <5>1, <5>4 DEF Explicada
      <4>3. QED
        BY <1>10, <4>1, <4>2
    <3>4. ASSUME NEW m \in DOMAIN status_old, status_old[m].status # SemStatus,
                 <<status_old[m].host, status_old[m].nome>> \notin trocadas',
                 \A k \in DOMAIN info' : ~(/\ info'[k].host = status_old[m].host
                                           /\ info'[k].nome = status_old[m].nome)
          PROVE  Explicada(status_old[m])'
      <4>1. ~(status_old[m].host = e.host /\ status_old[m].nome = e.nome)
        BY <1>6, <1>11, <3>4
      <4>2. \A k \in DOMAIN info : ~(/\ info[k].host = status_old[m].host
                                     /\ info[k].nome = status_old[m].nome)
        BY <1>12, <3>4
      <4>3. Explicada(status_old[m])
        BY <1>2, <1>3, <3>4, <4>2 DEF Explica, Deve, Correndo
      <4>4. PICK x : x = status_old[m]
        OBVIOUS
      <4>5. Explicada(x)'
        BY <2>2, <4>1, <4>3, <4>4
      <4>6. QED
        BY <1>3, <4>4, <4>5 DEF Explicada
    <3>5. QED
      BY <1>3, <3>3, <3>4 DEF Deve
  <2>5. QED
    BY <1>13, <2>3, <2>4 DEF IndutivoNomes
<1>15. CASE StatusAntigo(velha) = l.status
  <2>1. evlog' = evlog
    BY <1>2, <1>15 DEF Mudou
  <2>2. velha # <<>>
    BY <1>5, <1>15 DEF StatusAntigo
  <2>3. PICK m \in DOMAIN status_old : /\ velha = <<status_old[m]>>
                                       /\ status_old[m].host = host
                                       /\ status_old[m].nome = l.nome
    BY <1>8, <2>2
  <2>4. l.status = status_old[m].status /\ l.tx = status_old[m].tx
    BY <1>2, <1>15, <2>2, <2>3 DEF StatusAntigo
  <2>5. EventoSoDeMudanca'
    <3>1. Turvas(status_old)' = Turvas(status_old)
      BY <1>3 DEF Turvas, DoNome, Nome
    <3>2. QED
      BY <1>3, <2>1, <3>1 DEF EventoSoDeMudanca, DoNome, Nome
  <2>6. ~perdeu /\ <<l.host, l.nome>> \notin trocadas' => Explicada(l)
    <3> SUFFICES ASSUME ~perdeu, <<l.host, l.nome>> \notin trocadas' PROVE Explicada(l)
      OBVIOUS
    <3>1. Deve(status_old[m])
      BY <1>2, <1>5, <2>3, <2>4 DEF Deve
    <3>2. Explicada(status_old[m])
      BY <1>2, <1>3, <1>9, <2>3, <3>1 DEF Explica, Correndo
    <3>3. QED
      BY <1>2, <2>3, <2>4, <3>2 DEF Explicada
  <2>7. Explica'
    <3>1. ~perdeu => \A k \in DOMAIN info' :
            info'[k].status # SemStatus /\ <<info'[k].host, info'[k].nome>> \notin trocadas'
              => Explicada(info'[k])
      BY <1>2, <1>3, <1>10, <2>6 DEF Explica, Deve
    <3>2. ASSUME ~perdeu, NEW d \in DOMAIN status_old, status_old[d].status # SemStatus,
                 <<status_old[d].host, status_old[d].nome>> \notin trocadas',
                 \A k \in DOMAIN info' : ~(/\ info'[k].host = status_old[d].host
                                           /\ info'[k].nome = status_old[d].nome)
          PROVE  Explicada(status_old[d])
      <4>1. Deve(status_old[d])
        BY <1>2, <3>2 DEF Deve
      <4>2. \A k \in DOMAIN info : ~(/\ info[k].host = status_old[d].host
                                     /\ info[k].nome = status_old[d].nome)
        BY <1>12, <3>2
      <4>3. QED
        BY <1>3, <3>2, <4>1, <4>2 DEF Explica, Correndo
    <3>3. \A x : Explicada(x)' <=> Explicada(x)
      BY <2>1 DEF Explicada
    <3>4. \A x : Deve(x)' <=> x.status # SemStatus /\ <<x.host, x.nome>> \notin trocadas'
      BY DEF Deve
    <3>5. perdeu' = perdeu /\ status_old' = status_old
      BY <1>3
    <3>6. QED
      BY <3>1, <3>2, <3>3, <3>4, <3>5, ZenonT(60), ZenonT(90) DEF Explica
  <2>8. QED
    BY <1>13, <2>5, <2>7 DEF IndutivoNomes
<1>16. QED
  BY <1>14, <1>15

\* The second inductive invariant.
LEMMA PassoNomes ==
  ASSUME NomesUnicos
  PROVE  /\ Init => IndutivoNomes
         /\ IndutivoNomes /\ [Next]_vars => IndutivoNomes'
<1>1. Init => IndutivoNomes
  <2> SUFFICES ASSUME Init PROVE IndutivoNomes
    OBVIOUS
  <2>1. pc = "fim" /\ DOMAIN info = {}
    BY LogVazio DEF Init
  <2>2. QED
    BY <2>1, InitIndutivo DEF IndutivoNomes, EventoSoDeMudanca, Explica, Trocas, Correndo
<1>2. ASSUME IndutivoNomes, [Next]_vars PROVE IndutivoNomes'
  <2>1. Indutivo'
    BY <1>2, PassoIndutivo DEF IndutivoNomes
  <2>2. CASE LeArquivo \/ AbreGeral \/ FechaGeral \/ Tick \/ UNCHANGED vars
    <3>1. /\ UNCHANGED <<t, status_old, info, evlog, perdeu, trocadas>>
          /\ pc' \in Correndo => pc \in Correndo
      BY <2>2 DEF LeArquivo, AbreGeral, FechaGeral, Tick, vars, arquivos, Correndo
    <3>2. QED
      BY <1>2, <2>1, <3>1, SemEvento
  <2>3. CASE Inicia
    BY <1>2, <2>1, <2>3, NomesInicia
  <2>4. CASE Imprime
    BY <1>2, <2>1, <2>4, NomesImprime
  <2>5. CASE Termina \/ Morre
    BY <1>2, <2>1, <2>5, NomesEncerra
  <2>6. QED
    BY <1>2, <2>2, <2>3, <2>4, <2>5 DEF Next, ColetamNext
<1>3. QED
  BY <1>1, <1>2

\* The lines, the events and the old lines agree in every state, when no two
\* interfaces of a router have the same name.
THEOREM SempreIndutivoNomes == NomesUnicos => (Spec => []IndutivoNomes)
<1> SUFFICES ASSUME NomesUnicos PROVE Spec => []IndutivoNomes
  OBVIOUS
<1>1. Init => IndutivoNomes
  BY PassoNomes
<1>2. IndutivoNomes /\ [Next]_vars => IndutivoNomes'
  BY PassoNomes
<1>3. QED
  BY <1>1, <1>2, PTL DEF Spec

\* "compara status atual com anterior se diferente gera log", for every interface
\* of a router whose interfaces have different names, unless its name or a line under
\* its key was cut.
THEOREM EventoSoDeMudancaVale == NomesUnicos => (Spec => []EventoSoDeMudanca)
<1> SUFFICES ASSUME NomesUnicos PROVE Spec => []EventoSoDeMudanca
  OBVIOUS
<1>1. Spec => []IndutivoNomes
  BY SempreIndutivoNomes
<1>2. IndutivoNomes => EventoSoDeMudanca
  BY DEF IndutivoNomes
<1>3. QED
  BY <1>1, <1>2, PTL

\* The log explains the whole lines of the table over any number of runs, as long as
\* no kill has lost an event, under the keys that no cut log has given to another row.
THEOREM TabelaExplicadaVale == NomesUnicos => (Spec => []TabelaExplicada)
<1> SUFFICES ASSUME NomesUnicos PROVE Spec => []TabelaExplicada
  OBVIOUS
<1>1. Spec => []IndutivoNomes
  BY SempreIndutivoNomes
<1>2. ASSUME IndutivoNomes, ~perdeu, NEW k \in DOMAIN info, info[k].status # SemStatus,
             <<info[k].host, info[k].nome>> \notin trocadas
      PROVE  LET evs == {e \in DOMAIN evlog : /\ evlog[e].host = info[k].host
                                              /\ evlog[e].nome = info[k].nome}
             IN  /\ evs # {}
                 /\ evlog[Max(evs)].status = info[k].status
                 /\ evlog[Max(evs)].t = info[k].tx
  <2> DEFINE evs == {e \in DOMAIN evlog : /\ evlog[e].host = info[k].host
                                          /\ evlog[e].nome = info[k].nome}
  <2>1. PICK e \in DOMAIN evlog :
          /\ evlog[e].host = info[k].host /\ evlog[e].nome = info[k].nome
          /\ evlog[e].status = info[k].status /\ evlog[e].t = info[k].tx
          /\ \A d \in DOMAIN evlog :
               evlog[d].host = info[k].host /\ evlog[d].nome = info[k].nome => d <= e
    BY <1>2 DEF IndutivoNomes, Explica, Explicada, Deve
  <2>2. DOMAIN evlog \subseteq Int
    <3>1. evlog \in Seq(Evento)
      BY <1>2, Partes DEF IndutivoNomes
    <3>2. QED
      BY <3>1, LenProperties
  <2>3. e \in evs /\ evs \subseteq Int /\ \A d \in evs : d <= e
    BY <2>1, <2>2
  <2> HIDE DEF evs
  <2>4. Max(evs) = e
    BY <2>3, MaxEh
  <2>5. evs # {} /\ evlog[Max(evs)].status = info[k].status
        /\ evlog[Max(evs)].t = info[k].tx
    BY <2>1, <2>3, <2>4
  <2>6. QED
    BY <2>5 DEF evs
<1>3. IndutivoNomes => TabelaExplicada
  BY <1>2 DEF TabelaExplicada
<1>4. QED
  BY <1>1, <1>3, PTL
===============================================================================
