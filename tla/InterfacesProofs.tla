---------------------------- MODULE InterfacesProofs ----------------------------
(* Proofs about get_int.pl for every list, every set of answers and every       *)
(* failure: the inductive invariant of Interfaces, the properties it contains,  *)
(* and the refinement of Quadro.                                               *)
EXTENDS Interfaces, SequenceTheorems, TLAPS

\* A leaf is tried with SMT, with Zenon, and with SMT again, unless it names a prover.
USE SMTT(20), ZenonT(20), SMTT(90)

Celula == {x \in Seq(Linha) : Len(x) <= 1}

\* A cell of the table is empty or holds one line.
LEMMA CelulaTipo ==
  ASSUME NEW x \in Celula
  PROVE  /\ x # <<>> => x[1] \in Linha
         /\ Oper(x) \in Nomes /\ Admin(x) \in Nomes
         /\ Desde(x) \in Nat \cup {Vazio}
<1>1. CASE x = <<>>
  BY <1>1 DEF Oper, Admin, Desde, Nomes
<1>2. CASE x # <<>>
  <2>1. x[1] \in Linha
    BY <1>2 DEF Celula
  <2>2. QED
    BY <1>2, <2>1 DEF Oper, Admin, Desde, Linha
<1>3. QED
  BY <1>1, <1>2

\* A status object becomes a name of the table, or the empty field.
LEMMA SituacaoTipo == \A c : Situacao(c) \in Nomes
<1> SUFFICES ASSUME NEW c PROVE Situacao(c) \in Nomes
  OBVIOUS
<1>1. CASE c \in 1 .. 7
  <2>1. c = 1 \/ c = 2 \/ c = 3 \/ c = 4 \/ c = 5 \/ c = 6 \/ c = 7
    BY <1>1
  <2>2. /\ h_ifoperstatus[1] \in Nomes /\ h_ifoperstatus[2] \in Nomes
        /\ h_ifoperstatus[3] \in Nomes /\ h_ifoperstatus[4] \in Nomes
        /\ h_ifoperstatus[5] \in Nomes /\ h_ifoperstatus[6] \in Nomes
        /\ h_ifoperstatus[7] \in Nomes
    BY DEF h_ifoperstatus, Nomes
  <2>3. h_ifoperstatus[c] \in Nomes
    BY <2>1, <2>2
  <2>4. QED
    BY <1>1, <2>3 DEF Situacao
<1>2. CASE c \notin 1 .. 7
  BY <1>2 DEF Situacao, Nomes
<1>3. QED
  BY <1>1, <1>2

\* The line get_int.pl prints is one line, and follows the old one.
LEMMA LinhaNovaSegue ==
  ASSUME NEW velha \in Celula, NEW oper \in Nomes, NEW admin \in Nomes,
         NEW tempo \in Nat, now \in Nat, tempo <= now, mtime <= tempo,
         Desde(velha) \in Nat => Desde(velha) <= now
  PROVE  /\ <<LinhaNova(velha, oper, admin, tempo)>> \in Celula
         /\ <<LinhaNova(velha, oper, admin, tempo)>> # <<>>
         /\ Segue(<<LinhaNova(velha, oper, admin, tempo)>>, velha)
<1> DEFINE l == LinhaNova(velha, oper, admin, tempo)
<1>1. Desde(velha) \in Nat \cup {Vazio}
  BY CelulaTipo
<1>2. l \in Linha /\ l.oper = oper /\ l.admin = admin
  BY <1>1 DEF LinhaNova, Linha
<1>3. /\ Oper(velha) = oper /\ Admin(velha) = admin => l.desde = Desde(velha)
      /\ ~(Oper(velha) = oper /\ Admin(velha) = admin) => l.desde = tempo
  BY DEF LinhaNova
<1> HIDE DEF l
<1>4. /\ <<l>> # <<>> /\ <<l>> \in Seq(Linha) /\ Len(<<l>>) = 1 /\ <<l>>[1] = l
  BY <1>2
<1>5. Oper(<<l>>) = oper /\ Admin(<<l>>) = admin /\ Desde(<<l>>) = l.desde
  BY <1>2, <1>4 DEF Oper, Admin, Desde
<1>6. <<l>> \in Celula
  BY <1>4 DEF Celula
<1>7. Segue(<<l>>, velha)
  <2>1. CASE Oper(velha) = oper /\ Admin(velha) = admin
    BY <1>3, <1>4, <1>5, <2>1 DEF Segue
  <2>2. CASE ~(Oper(velha) = oper /\ Admin(velha) = admin)
    BY <1>3, <1>4, <1>5, <2>2 DEF Segue
  <2>3. QED
    BY <2>1, <2>2
<1>8. QED
  BY <1>4, <1>6, <1>7 DEF l
-------------------------------------------------------------------------------
\* The facts about the list that the steps use.
LEMMA ListaTipo ==
  /\ Len(Lista) \in Nat
  /\ \A k \in 1 .. Len(Lista) : Lista[k].tinfo \in Chave
<1> DEFINE Entrada == [tinfo : Chave, valida : BOOLEAN]
<1>1. \A x \in Entrada : x.tinfo \in Chave
  OBVIOUS
<1> HIDE DEF Entrada
<1>2. Lista \in Seq(Entrada)
  BY GetIntAssumption DEF Entrada
<1>3. Len(Lista) \in Nat /\ \A k \in 1 .. Len(Lista) : Lista[k] \in Entrada
  BY <1>2, LenProperties, ElementOfSeq
<1>4. QED
  BY <1>1, <1>3

\* Every initial state satisfies the inductive invariant.
LEMMA InitIndutivo == Init => Indutivo
<1> SUFFICES ASSUME Init PROVE Indutivo
  OBVIOUS
<1> USE DEF Init
<1>1. SemLinhas \in Tabela
  BY DEF SemLinhas, Tabela
<1>2. TypeOK
  BY <1>1, ListaTipo DEF TypeOK
<1>3. PublicacaoCompleta /\ VazioSoSemNome
  BY DEF PublicacaoCompleta, VazioSoSemNome, SemLinhas
<1>6. InvTempo
  BY GetIntAssumption DEF InvTempo, SemLinhas, Desde
<1>4. InvCorrida
  BY DEF InvCorrida
<1>5. QED
  BY <1>2, <1>3, <1>4, <1>6 DEF Indutivo

\* Steps that end the program, other than by publishing: the table stays.
LEMMA PassoEncerra ==
  ASSUME Indutivo, Encerra, UNCHANGED <<now, real, tmp, res, mtime>>
  PROVE  Indutivo'
<1>1. SemLinhas \in Tabela
  BY DEF SemLinhas, Tabela
<1>2. TypeOK'
  BY <1>1, ListaTipo DEF Indutivo, TypeOK, Encerra
<1>3. PublicacaoCompleta' /\ VazioSoSemNome'
  BY DEF Indutivo, PublicacaoCompleta, VazioSoSemNome
<1>4. InvTempo'
  BY DEF Indutivo, InvTempo, Encerra
<1>5. InvCorrida'
  BY DEF InvCorrida, Encerra
<1>6. QED
  BY <1>2, <1>3, <1>4, <1>5 DEF Indutivo

\* The start of a run.
LEMMA PassoInicia ==
  ASSUME Indutivo, Inicia
  PROVE  Indutivo'
<1> USE DEF Inicia, tabela
<1>1. SemLinhas \in Tabela
  BY DEF SemLinhas, Tabela
<1>2. TypeOK'
  BY <1>1, ListaTipo DEF Indutivo, TypeOK
<1>3. PublicacaoCompleta' /\ VazioSoSemNome'
  BY DEF Indutivo, PublicacaoCompleta, VazioSoSemNome
<1>4. InvTempo'
  BY DEF Indutivo, InvTempo
<1>5. Feitas' = {}
  BY DEF Feitas
<1>6. \A k \in Chave : tmp'[k] = <<>>
  BY DEF SemLinhas
<1>7. InvCorrida'
  BY <1>5, <1>6 DEF InvCorrida
<1>8. QED
  BY <1>2, <1>3, <1>4, <1>7 DEF Indutivo

\* An entry that cannot be used adds no interface.
LEMMA PassoPula ==
  ASSUME Indutivo, Pula
  PROVE  Indutivo'
<1> USE DEF Pula, tabela
<1>1. i \in Nat /\ i + 1 \in 1 .. Len(Lista)
  BY ListaTipo DEF Indutivo, TypeOK
<1>2. TypeOK'
  BY <1>1 DEF Indutivo, TypeOK
<1>3. PublicacaoCompleta' /\ VazioSoSemNome'
  BY DEF Indutivo, PublicacaoCompleta, VazioSoSemNome
<1>4. InvTempo'
  BY DEF Indutivo, InvTempo
<1>5. Feitas' = Feitas
  <2>1. \A m : m \in 1 .. i + 1 /\ Lista[m].valida <=> m \in 1 .. i /\ Lista[m].valida
    BY <1>1
  <2>2. QED
    BY <2>1 DEF Feitas
<1>6. InvCorrida'
  BY <1>5 DEF Indutivo, InvCorrida, Segue
<1>7. QED
  BY <1>2, <1>3, <1>4, <1>6 DEF Indutivo

\* A session: nothing in the table is after the time of the request.
LEMMA PassoAbreSessao ==
  ASSUME Indutivo, AbreSessao
  PROVE  Indutivo'
<1> USE DEF AbreSessao, tabela
<1>1. i \in Nat /\ i + 1 \in 1 .. Len(Lista) /\ now \in Nat
  BY ListaTipo DEF Indutivo, TypeOK
<1>2. TypeOK'
  BY <1>1 DEF Indutivo, TypeOK
<1>3. PublicacaoCompleta' /\ VazioSoSemNome'
  BY DEF Indutivo, PublicacaoCompleta, VazioSoSemNome
<1>4. InvTempo'
  BY <1>1 DEF Indutivo, InvTempo
<1>5. i' - 1 = i
  BY <1>1
<1>6. InvCorrida'
  <2>1. \A k \in Chave : tmp'[k] # <<>> <=>
          k \in {Lista[m].tinfo : m \in {m \in 1 .. i' - 1 : Lista[m].valida}}
    BY <1>5 DEF Indutivo, InvCorrida, Feitas
  <2>2. \A k \in Chave : tmp'[k] # <<>> => Segue(tmp[k], res[k])'
    BY DEF Indutivo, InvCorrida, Segue
  <2>3. QED
    BY <1>1, <2>1, <2>2 DEF Indutivo, InvCorrida
<1>7. QED
  BY <1>2, <1>3, <1>4, <1>6 DEF Indutivo

\* An answer: its line follows the published one.
LEMMA PassoResponde ==
  ASSUME Indutivo, Responde
  PROVE  Indutivo'
<1> DEFINE k == Lista[i].tinfo
           nova == LinhaNova(h_st_old[k], Situacao(real[k][1]),
                             Situacao(real[k][2]), t)
<1>1. /\ i \in 1 .. Len(Lista) /\ Lista[i].valida /\ k \in Chave
      /\ h_st_old = res
      /\ t \in Nat /\ now \in Nat /\ i \in Nat
      /\ res \in Tabela /\ tmp \in Tabela
  BY ListaTipo DEF Indutivo, InvCorrida, TypeOK, Responde
<1>2. res[k] \in Celula
  BY <1>1 DEF Tabela, Celula
<1>3. /\ mtime <= t /\ t <= now
      /\ Desde(res[k]) \in Nat => Desde(res[k]) <= now
  BY <1>1 DEF Indutivo, InvTempo, TypeOK, Responde
<1>4. <<nova>> \in Celula /\ <<nova>> # <<>> /\ Segue(<<nova>>, res[k])
  BY <1>1, <1>2, <1>3, SituacaoTipo, LinhaNovaSegue
<1>5. tmp' = [tmp EXCEPT ![k] = <<nova>>]
  BY DEF Responde
<1> HIDE DEF nova
<1>6. tmp' \in Tabela
  BY <1>1, <1>4, <1>5 DEF Tabela, Celula
<1>7. tmp'[k] = <<nova>> /\ \A x \in Chave : x # k => tmp'[x] = tmp[x]
  BY <1>1, <1>5 DEF Tabela
<1>8. /\ UNCHANGED <<now, real, i, t, h_st_old, res, mtime>>
      /\ pc = "pede" /\ pc' = "laco"
  BY DEF Responde, tabela
<1>9. TypeOK'
  BY <1>6, <1>8 DEF Indutivo, TypeOK
<1>10. PublicacaoCompleta' /\ VazioSoSemNome'
  BY <1>8 DEF Indutivo, PublicacaoCompleta, VazioSoSemNome
<1>11. InvTempo'
  BY <1>8 DEF Indutivo, InvTempo
<1>12. Feitas' =
         {Lista[m].tinfo : m \in {m \in 1 .. i - 1 : Lista[m].valida}} \cup {k}
  <2>1. \A m : m \in 1 .. i /\ Lista[m].valida <=>
                 (m \in 1 .. i - 1 /\ Lista[m].valida) \/ m = i
    BY <1>1
  <2>2. QED
    BY <1>8, <2>1 DEF Feitas
<1>13. InvCorrida'
  <2>1. \A x \in Chave : tmp'[x] # <<>> <=> x \in Feitas'
    BY <1>4, <1>7, <1>8, <1>12, ZenonT(60), ZenonT(90) DEF Indutivo, InvCorrida
  <2>2. \A x \in Chave : tmp'[x] # <<>> => Segue(tmp'[x], res[x])
    BY <1>4, <1>7, <1>8 DEF Indutivo, InvCorrida
  <2>3. \A x \in Chave : tmp'[x] # <<>> => Segue(tmp[x], res[x])'
    BY <1>8, <2>2 DEF Segue
  <2>4. QED
    BY <1>1, <1>8, <2>1, <2>3 DEF InvCorrida
<1>14. QED
  BY <1>9, <1>10, <1>11, <1>13 DEF Indutivo

\* The temporary file becomes the table.
LEMMA PassoPublica ==
  ASSUME Indutivo, Publica
  PROVE  Indutivo'
<1>1. /\ pc = "laco" /\ i = Len(Lista) /\ res' = tmp /\ tmp' = SemLinhas
      /\ pc' = "fim" /\ i' = 0 /\ t' = 0 /\ h_st_old' = SemLinhas
      /\ mtime' = now /\ UNCHANGED <<now, real>>
  BY DEF Publica, Encerra
<1>2. /\ res \in Tabela /\ tmp \in Tabela /\ now \in Nat
      /\ SemLinhas \in Tabela
  BY DEF Indutivo, TypeOK, SemLinhas, Tabela
<1>3. TypeOK'
  BY <1>1, <1>2, ListaTipo DEF Indutivo, TypeOK
<1>4. PublicacaoCompleta'
  <2>1. Feitas = Visivel
    BY <1>1 DEF Feitas, Visivel
  <2>2. \A k \in Chave : res'[k] # <<>> <=> k \in Visivel
    BY <1>1, <2>1 DEF Indutivo, InvCorrida
  <2>3. QED
    BY <2>2 DEF PublicacaoCompleta, Visivel
<1>5. ASSUME NEW k \in Chave, tmp[k] # <<>>
      PROVE  /\ Segue(tmp[k], res[k])
             /\ Desde(tmp[k]) \in Nat \cup {Vazio}
             /\ res[k] \in Celula
  BY <1>1, <1>2, <1>5, CelulaTipo DEF Indutivo, InvCorrida, Tabela, Celula
<1>6. VazioSoSemNome'
  <2> SUFFICES ASSUME NEW k \in Chave, tmp[k] # <<>>, Desde(tmp[k]) = Vazio
               PROVE  Oper(tmp[k]) = "" /\ Admin(tmp[k]) = ""
    BY <1>1 DEF VazioSoSemNome, Oper, Admin, Desde
  <2>1. /\ Oper(tmp[k]) = Oper(res[k]) /\ Admin(tmp[k]) = Admin(res[k])
        /\ Desde(res[k]) = Vazio
    BY <1>5, GetIntAssumption DEF Segue
  <2>2. Oper(res[k]) = "" /\ Admin(res[k]) = ""
    BY <2>1 DEF Indutivo, VazioSoSemNome, Oper, Admin
  <2>3. QED
    BY <2>1, <2>2
<1>7. InvTempo'
  <2>1. ASSUME NEW k \in Chave, Desde(tmp[k]) \in Nat
        PROVE  Desde(tmp[k]) <= now
    <3>1. tmp[k] # <<>>
      BY <2>1, GetIntAssumption DEF Desde
    <3>2. QED
      BY <1>5, <2>1, <3>1 DEF Segue
  <2>2. QED
    BY <1>1, <1>2, <2>1 DEF InvTempo, Desde
<1>8. InvCorrida'
  BY <1>1 DEF InvCorrida
<1>9. QED
  BY <1>3, <1>4, <1>6, <1>7, <1>8 DEF Indutivo

\* A change in the routers touches nothing of the program.
LEMMA PassoMuda ==
  ASSUME Indutivo, Muda
  PROVE  Indutivo'
<1>1. UNCHANGED <<now, pc, i, t, h_st_old, tmp, res, mtime>>
  BY DEF Muda, processo, tabela
<1>2. real' \in [Chave -> Estado]
  BY DEF Muda, Indutivo, TypeOK
<1>3. TypeOK'
  BY <1>1, <1>2 DEF Indutivo, TypeOK
<1>4. PublicacaoCompleta' /\ VazioSoSemNome' /\ InvTempo'
  BY <1>1 DEF Indutivo, PublicacaoCompleta, VazioSoSemNome, InvTempo
<1>5. InvCorrida'
  BY <1>1 DEF Indutivo, InvCorrida, Feitas, Segue
<1>6. QED
  BY <1>3, <1>4, <1>5 DEF Indutivo

\* Time passes.
LEMMA PassoTick ==
  ASSUME Indutivo, Tick
  PROVE  Indutivo'
<1>1. UNCHANGED <<real, pc, i, t, h_st_old, tmp, res, mtime>> /\ now' = now + 1
  BY DEF Tick, processo, tabela
<1>2. /\ now \in Nat /\ mtime \in Nat /\ t \in Nat /\ res \in Tabela /\ tmp \in Tabela
  BY DEF Indutivo, TypeOK
<1>3. TypeOK'
  BY <1>1, <1>2 DEF Indutivo, TypeOK
<1>4. PublicacaoCompleta' /\ VazioSoSemNome'
  BY <1>1 DEF Indutivo, PublicacaoCompleta, VazioSoSemNome
<1>5. \A k \in Chave : /\ Desde(res[k]) \in Nat \cup {Vazio}
                       /\ Desde(tmp[k]) \in Nat \cup {Vazio}
  BY <1>2, CelulaTipo DEF Tabela, Celula
<1>6. InvTempo'
  BY <1>1, <1>2, <1>5 DEF Indutivo, InvTempo
<1>7. \A k \in Chave : Segue(tmp[k], res[k]) => Segue(tmp[k], res[k])'
  BY <1>1, <1>2, <1>5 DEF Segue
<1>8. InvCorrida'
  BY <1>1, <1>2, <1>7 DEF Indutivo, InvCorrida, Feitas
<1>9. QED
  BY <1>3, <1>4, <1>6, <1>8 DEF Indutivo

\* The invariant is preserved by every step.
LEMMA PassoIndutivo == Indutivo /\ [Next]_vars => Indutivo'
<1> SUFFICES ASSUME Indutivo, [Next]_vars PROVE Indutivo'
  OBVIOUS
<1>1. CASE Desiste \/ Morre
  BY <1>1, PassoEncerra DEF Desiste, Morre, tabela
<1>2. CASE UNCHANGED vars
  <2>1. UNCHANGED <<now, real, pc, i, t, h_st_old, tmp, res, mtime>>
    BY <1>2 DEF vars, processo, tabela
  <2>2. TypeOK'
    BY <2>1 DEF Indutivo, TypeOK
  <2>3. PublicacaoCompleta' /\ VazioSoSemNome' /\ InvTempo'
    BY <2>1 DEF Indutivo, PublicacaoCompleta, VazioSoSemNome, InvTempo
  <2>4. InvCorrida'
    BY <2>1 DEF Indutivo, InvCorrida, Feitas, Segue
  <2>5. QED
    BY <2>2, <2>3, <2>4 DEF Indutivo
<1>3. QED
  BY <1>1, <1>2, PassoInicia, PassoPula, PassoAbreSessao, PassoResponde,
     PassoPublica, PassoMuda, PassoTick DEF Next, GetIntNext

\* The inductive invariant holds in every behaviour of get_int.pl.
THEOREM SempreIndutivo == Spec => []Indutivo
BY InitIndutivo, PassoIndutivo, PTL DEF Spec

\* The variables of get_int.pl keep their types.
THEOREM TipoCorreto == Spec => []TypeOK
<1>1. Indutivo => TypeOK
  BY DEF Indutivo
<1>2. QED
  BY <1>1, SempreIndutivo, PTL

\* get_int.pl publishes whole tables only.
THEOREM PublicacaoCompletaVale == Spec => []PublicacaoCompleta
<1>1. Indutivo => PublicacaoCompleta
  BY DEF Indutivo
<1>2. QED
  BY <1>1, SempreIndutivo, PTL

\* A line of get_int.pl has an empty time only while its status has no name.
THEOREM VazioSoSemNomeVale == Spec => []VazioSoSemNome
<1>1. Indutivo => VazioSoSemNome
  BY DEF Indutivo
<1>2. QED
  BY <1>1, SempreIndutivo, PTL
-------------------------------------------------------------------------------
\* Publishing replaces the board; no other step changes it.
LEMMA PassoQuadro ==
  ASSUME Indutivo, [Next]_vars
  PROVE  Abstrato!Troca \/ UNCHANGED <<res, mtime>>
<1>1. CASE Publica
  <2>1. /\ res' = tmp /\ pc = "laco" /\ i = Len(Lista) /\ mtime' = now
    BY <1>1 DEF Publica
  <2>2. /\ res \in Tabela /\ tmp \in Tabela
        /\ mtime \in Nat /\ now \in Nat /\ mtime <= now
    BY DEF Indutivo, TypeOK, InvTempo
  <2>3. Abstrato!Linha = Linha
    BY DEF Abstrato!Linha, Linha
  <2>4. res' \in [Chave -> {x \in Seq(Abstrato!Linha) : Len(x) <= 1}]
    BY <2>1, <2>2, <2>3 DEF Tabela
  <2>5. \A k \in Chave : res'[k] # <<>> <=> k \in Visivel
    <3>1. Feitas = Visivel
      BY <2>1 DEF Feitas, Visivel
    <3>2. QED
      BY <2>1, <3>1 DEF Indutivo, InvCorrida
  <2>6. Visivel \subseteq Chave
    BY ListaTipo DEF Visivel
  <2>7. \A k \in Visivel :
          IF Abstrato!Mostra(res'[k]) = Abstrato!Mostra(res[k])
          THEN Abstrato!Quando(res'[k]) = Abstrato!Quando(res[k])
          ELSE /\ Abstrato!Quando(res'[k]) # Vazio
               /\ mtime <= Abstrato!Quando(res'[k])
               /\ Abstrato!Quando(res'[k]) <= now
    <3> SUFFICES ASSUME NEW k \in Visivel
                 PROVE
          IF Abstrato!Mostra(tmp[k]) = Abstrato!Mostra(res[k])
          THEN Abstrato!Quando(tmp[k]) = Abstrato!Quando(res[k])
          ELSE /\ Abstrato!Quando(tmp[k]) # Vazio
               /\ mtime <= Abstrato!Quando(tmp[k])
               /\ Abstrato!Quando(tmp[k]) <= now
      BY <2>1
    <3>1. k \in Chave /\ tmp[k] # <<>> /\ Segue(tmp[k], res[k])
      BY <2>1, <2>5, <2>6 DEF Indutivo, InvCorrida
    <3>2. \A x : /\ Abstrato!Mostra(x) = <<Oper(x), Admin(x)>>
                 /\ Abstrato!Quando(x) = Desde(x)
      BY DEF Abstrato!Mostra, Abstrato!Quando, Oper, Admin, Desde
    <3>3. /\ Desde(res[k]) \in Nat \cup {Vazio}
          /\ Desde(tmp[k]) \in Nat \cup {Vazio}
      BY <2>2, <3>1, CelulaTipo DEF Tabela, Celula
    <3>4. CASE Oper(tmp[k]) = Oper(res[k]) /\ Admin(tmp[k]) = Admin(res[k])
      BY <3>1, <3>2, <3>4 DEF Segue
    <3>5. CASE ~(Oper(tmp[k]) = Oper(res[k]) /\ Admin(tmp[k]) = Admin(res[k]))
      BY <3>1, <3>2, <3>3, <3>5, GetIntAssumption DEF Segue
    <3>6. QED
      BY <3>4, <3>5
  <2>8. QED
    BY <2>1, <2>2, <2>4, <2>5, <2>7 DEF Abstrato!Troca
<1>2. CASE ~Publica
  BY <1>2
  DEF Next, GetIntNext, Inicia, Pula, AbreSessao, Responde, Desiste, Morre, Muda,
      Tick, vars, tabela
<1>3. QED
  BY <1>1, <1>2

\* res_get.txt is a Quadro, for every list of interfaces and every failure.
THEOREM ImplementaQuadroVale == Spec => ImplementaQuadro
<1>1. Init => Abstrato!QuadroInit
  BY DEF Init, Abstrato!QuadroInit, SemLinhas
<1>2. Indutivo /\ [Next]_vars => [Abstrato!Troca]_<<res, mtime>>
  BY PassoQuadro
<1>3. QED
  BY <1>1, <1>2, SempreIndutivo, PTL
  DEF Spec, ImplementaQuadro, Abstrato!QuadroSpec
===============================================================================
