------------------------------- MODULE SnmpProofs -------------------------------
(* Proofs about SnmpWalk, for every number of retries, time-out, set of names, *)
(* agent and loss: the types and the bound on the time a call takes; one       *)
(* request per call; where rows out of order come from; and that the walk      *)
(* implements Varredura.                                                       *)
EXTENDS SnmpWalk, TLAPS

\* A leaf is tried with SMT, with Zenon, and with SMT again, unless it names a prover.
USE SMTT(20), ZenonT(20), SMTT(90)

Requisicao == [id : ReqId, cmd : Comando, nome : Nome,
               retries : 0 .. Retries, resta : -1 .. Timeout]
-------------------------------------------------------------------------------
(* Arithmetic of the retransmissions.                                          *)

\* One retransmission more accounts for one time-out more.
LEMMA MaisUma ==
  ASSUME NEW r \in Nat, NEW t \in Nat
  PROVE  /\ (r + 1) * (t + 1) = r * (t + 1) + (t + 1)
         /\ r * (t + 1) \in Nat
OBVIOUS

\* Fewer retransmissions account for less time.
LEMMA Monotona ==
  ASSUME NEW r \in Nat, NEW q \in Nat, NEW t \in Nat, r <= q
  PROVE  r * (t + 1) <= q * (t + 1)
OBVIOUS

\* A pending request that accounts for the time bounds it.
LEMMA ContaLimita ==
  ASSUME NEW r \in Requisicao, espera \in Nat, Conta(r), r.resta >= 0
  PROVE  espera + 1 <= (Retries + 1) * (Timeout + 1)
<1>1. /\ r.retries \in Nat /\ Retries \in Nat /\ Timeout \in Nat
      /\ r.retries <= Retries /\ r.resta \in Int
  BY SessAssumption DEF Requisicao
<1>2. /\ (r.retries + 1) * (Timeout + 1) = r.retries * (Timeout + 1) + (Timeout + 1)
      /\ r.retries * (Timeout + 1) \in Nat
  BY <1>1, MaisUma
<1>3. (r.retries + 1) * (Timeout + 1) <= (Retries + 1) * (Timeout + 1)
  BY <1>1, Monotona
<1> DEFINE x == r.retries * (Timeout + 1)
           y == (Retries + 1) * (Timeout + 1)
           z == (r.retries + 1) * (Timeout + 1)
<1>4. x \in Nat /\ y \in Nat /\ z = x + (Timeout + 1) /\ z <= y
  BY <1>1, <1>2, <1>3, MaisUma
<1>5. espera <= x + (Timeout - r.resta)
  BY DEF Conta
<1> HIDE DEF x, y, z
<1>6. espera + 1 <= y
  BY <1>1, <1>4, <1>5
<1>7. QED
  BY <1>6 DEF y
-------------------------------------------------------------------------------
(* The session.                                                                *)

\* The session's part of the invariant.
Sessao ==
  /\ SessTypeOK
  /\ \A r \in requests : Codifica(r.nome) # Invalido
  /\ ida \subseteq [cmd : Comando, reqid : ReqId, nome : Octs]
  /\ volta \subseteq [reqid : ReqId, errstat : Errstat, tipo : Tipo, nome : Octs]
  /\ InvPrazo

\* The counter of request-ids skips zero and stays within its mask.
LEMMA ReqidTipo ==
  ASSUME NEW r \in ReqId
  PROVE  snmp_get_next_reqid(r) \in ReqId
<1>1. Mascara \in Nat /\ Mascara >= 2 /\ r \in 1 .. Mascara
  BY SessAssumption DEF ReqId
<1>2. (r + 1) % (Mascara + 1) \in 0 .. Mascara
  BY <1>1
<1>3. QED
  BY <1>1, <1>2 DEF snmp_get_next_reqid, ReqId

\* The message of a request is built from its name.
LEMMA DatagramaTipo ==
  ASSUME NEW r, r.cmd \in Comando, r.id \in ReqId, r.nome \in Nome,
         Codifica(r.nome) # Invalido
  PROVE  Datagrama(r) \in [cmd : Comando, reqid : ReqId, nome : Octs]
BY DEF Datagrama, Octs

\* A new call: its request is pending, with all of its time ahead.
LEMMA PassoSend ==
  ASSUME Sessao, NEW cmd \in Comando, NEW nome \in Nome, snmp_send(cmd, nome)
  PROVE  Sessao'
<1> DEFINE r == [id |-> snmp_get_next_reqid(Reqid), cmd |-> cmd, nome |-> nome,
                 retries |-> 0, resta |-> Timeout]
<1>1. Retries \in Nat /\ Timeout \in Nat
  BY SessAssumption
<1>2. r \in Requisicao /\ r.retries = 0 /\ r.resta = Timeout /\ r.id \in ReqId
      /\ r.cmd = cmd /\ r.nome = nome
  <2>1. snmp_get_next_reqid(Reqid) \in ReqId
    BY ReqidTipo DEF Sessao, SessTypeOK
  <2>2. QED
    BY <1>1, <2>1 DEF Requisicao
<1> HIDE DEF r
<1>3. /\ Reqid' = r.id /\ espera' = 0 /\ volta' = volta
      /\ \/ /\ Codifica(nome) # Invalido
            /\ ida' = ida \cup {Datagrama(r)}
            /\ requests' = requests \cup {r}
            /\ state' = [reqid |-> r.id, waiting |-> TRUE,
                         status |-> "success", pdu |-> Nulo]
         \/ /\ \/ ida' = ida
               \/ Codifica(nome) # Invalido /\ ida' = ida \cup {Datagrama(r)}
            /\ state' = [reqid |-> 0, waiting |-> FALSE,
                         status |-> "error", pdu |-> Nulo]
            /\ requests' = requests
  BY DEF snmp_send, r
<1>4. Codifica(nome) # Invalido =>
        Datagrama(r) \in [cmd : Comando, reqid : ReqId, nome : Octs]
  BY <1>2, DatagramaTipo
<1>5. ida' \subseteq [cmd : Comando, reqid : ReqId, nome : Octs]
  BY <1>3, <1>4 DEF Sessao
<1>6. SessTypeOK'
  <2>1. requests' \subseteq Requisicao /\ Reqid' \in ReqId /\ espera' \in Nat
    BY <1>2, <1>3 DEF Sessao, SessTypeOK, Requisicao
  <2>2. state' \in [reqid : ReqId \cup {0}, waiting : BOOLEAN,
                   status : {"success", "timeout", "error"}, pdu : Pdu \cup {Nulo}]
    <3> DEFINE S == [reqid : ReqId \cup {0}, waiting : BOOLEAN,
                     status : {"success", "timeout", "error"}, pdu : Pdu \cup {Nulo}]
    <3>1. [reqid |-> r.id, waiting |-> TRUE, status |-> "success", pdu |-> Nulo] \in S
      BY <1>2
    <3>2. [reqid |-> 0, waiting |-> FALSE, status |-> "error", pdu |-> Nulo] \in S
      OBVIOUS
    <3> HIDE DEF S
    <3>3. state' \in S
      BY <1>3, <3>1, <3>2, ZenonT(60), ZenonT(90)
    <3>4. QED
      BY <3>3 DEF S
  <2>3. QED
    BY <2>1, <2>2 DEF SessTypeOK, Requisicao
<1>7. InvPrazo'
  <2>1. EsperaLimitada'
    BY <1>1, <1>3, MaisUma DEF EsperaLimitada
  <2>2. Conta(r)'
    <3>1. r.retries * (Timeout + 1) + (Timeout - r.resta) = 0
      BY <1>1, <1>2
    <3>2. QED
      BY <1>3, <3>1 DEF Conta, r
  <2>3. state'.waiting => r \in requests' /\ r.id = state'.reqid
    BY <1>3
  <2>4. QED
    BY <2>1, <2>2, <2>3 DEF InvPrazo, Conta, r
<1>8. \A x \in requests' : Codifica(x.nome) # Invalido
  BY <1>2, <1>3 DEF Sessao
<1>9. QED
  BY <1>3, <1>5, <1>6, <1>7, <1>8 DEF Sessao

\* A datagram is read.
LEMMA PassoRead ==
  ASSUME Sessao, NEW m \in volta, snmp_read(m)
  PROVE  Sessao'
<1>1. m \in [reqid : ReqId, errstat : Errstat, tipo : Tipo, nome : Octs]
  BY DEF Sessao
<1>2. Decodifica(m.nome) \in Nome
  BY <1>1, SessAssumption
<1>3. /\ volta' = volta \ {m} /\ Reqid' = Reqid /\ ida' = ida /\ espera' = espera
      /\ \/ /\ requests' = {r \in requests : r.id # m.reqid}
            /\ state' = Recebida(m)
         \/ requests' = requests /\ state' = state
  BY DEF snmp_read
<1>4. Recebida(m) \in [reqid : ReqId \cup {0}, waiting : BOOLEAN,
                       status : {"success", "timeout", "error"},
                       pdu : Pdu \cup {Nulo}]
      /\ ~Recebida(m).waiting
  BY <1>1, <1>2, ZenonT(60), ZenonT(90) DEF Recebida, Sessao, SessTypeOK, Pdu
<1>5. SessTypeOK'
  BY <1>3, <1>4 DEF Sessao, SessTypeOK
<1>6. InvPrazo'
  BY <1>3, <1>4 DEF Sessao, InvPrazo, EsperaLimitada, Conta
<1>7. QED
  BY <1>3, <1>5, <1>6 DEF Sessao

\* Requests whose time is over are sent again, counted, or given up: as long as
\* the call waits, one of them still accounts for its time.
LEMMA PassoTrata ==
  ASSUME Sessao, state.waiting, UNCHANGED <<Reqid, volta, espera>>,
         NEW feitos \in SUBSET Vencidos,
         NEW falhos \in SUBSET {r \in Vencidos : r.retries < Retries},
         Trata(feitos, falhos)
  PROVE  Sessao'
<1> DEFINE reenviados == {r \in feitos : r.retries < Retries}
           Conte(r) == [r EXCEPT !.retries = @ + 1]
<1>1. Retries \in Nat /\ Timeout \in Nat /\ requests \subseteq Requisicao
  BY SessAssumption DEF Sessao, SessTypeOK, Requisicao
<1>2. /\ requests' = (requests \ (feitos \cup falhos))
                     \cup {Reenvia(r) : r \in reenviados}
                     \cup {Conte(r) : r \in falhos}
      /\ ida' = ida \cup {Datagrama(r) : r \in reenviados}
      /\ state' = IF \E r \in feitos \ reenviados : r.id = state.reqid
                  THEN Esgotada ELSE state
  BY DEF Trata
<1>3. \A r \in feitos \cup falhos : r \in requests /\ r \in Requisicao /\ r.resta = -1
  <2>1. \A r \in feitos \cup falhos : r \in requests /\ r.resta < 0
    BY DEF Vencidos
  <2>2. QED
    BY <1>1, <2>1 DEF Requisicao
<1>4. \A r \in reenviados :
        /\ Reenvia(r) \in Requisicao /\ Reenvia(r).id = r.id
        /\ Reenvia(r).nome = r.nome
        /\ Reenvia(r).retries = r.retries + 1 /\ Reenvia(r).resta = Timeout
  <2> SUFFICES ASSUME NEW r \in reenviados
               PROVE  /\ Reenvia(r) \in Requisicao /\ Reenvia(r).id = r.id
                      /\ Reenvia(r).nome = r.nome
                      /\ Reenvia(r).retries = r.retries + 1
                      /\ Reenvia(r).resta = Timeout
    OBVIOUS
  <2>1. r \in Requisicao /\ r.retries + 1 \in 0 .. Retries /\ Timeout \in -1 .. Timeout
    BY <1>1, <1>3 DEF Requisicao
  <2>2. QED
    BY <2>1, ZenonT(60), ZenonT(90) DEF Reenvia, Requisicao
<1>5. \A r \in falhos :
        /\ Conte(r) \in Requisicao /\ Conte(r).id = r.id /\ Conte(r).nome = r.nome
        /\ Conte(r).retries = r.retries + 1 /\ Conte(r).resta = r.resta
  BY <1>1, <1>3 DEF Requisicao
<1> HIDE DEF Conte
<1>6. requests' \subseteq Requisicao
  BY <1>1, <1>2, <1>4, <1>5
<1>7. \A x \in requests' : Codifica(x.nome) # Invalido
  BY <1>2, <1>3, <1>4, <1>5 DEF Sessao
<1>8. ida' \subseteq [cmd : Comando, reqid : ReqId, nome : Octs]
  <2>1. \A r \in reenviados : Codifica(r.nome) # Invalido
                              /\ r.cmd \in Comando /\ r.id \in ReqId /\ r.nome \in Nome
    BY <1>3 DEF Sessao, Requisicao
  <2>2. \A r \in reenviados :
          Datagrama(r) \in [cmd : Comando, reqid : ReqId, nome : Octs]
    BY <2>1, DatagramaTipo
  <2>3. QED
    BY <1>2, <2>2 DEF Sessao
<1>9. SessTypeOK'
  <2>1. Esgotada \in [reqid : ReqId \cup {0}, waiting : BOOLEAN,
                      status : {"success", "timeout", "error"}, pdu : Pdu \cup {Nulo}]
    BY ZenonT(60), ZenonT(90) DEF Esgotada, Sessao, SessTypeOK
  <2>2. QED
    BY <1>2, <1>6, <2>1 DEF Sessao, SessTypeOK, Requisicao
<1>10. InvPrazo'
  <2>1. EsperaLimitada'
    BY DEF Sessao, InvPrazo, EsperaLimitada
  <2>2. ASSUME state'.waiting
        PROVE  \E x \in requests' : x.id = state'.reqid /\ Conta(x)
    <3>1. ~Esgotada.waiting
      BY DEF Esgotada, Sessao, SessTypeOK
    <3>2. state' = state /\ \A r \in feitos : r.id = state.reqid => r \in reenviados
      BY <1>2, <2>2, <3>1
    <3>3. PICK r \in requests : r.id = state.reqid /\ Conta(r)
      BY DEF Sessao, InvPrazo
    <3>4. r \in Requisicao /\ r.retries \in Nat /\ espera \in Nat
      BY <1>1 DEF Requisicao, Sessao, SessTypeOK
    <3>5. /\ (r.retries + 1) * (Timeout + 1) =
               r.retries * (Timeout + 1) + (Timeout + 1)
          /\ r.retries * (Timeout + 1) \in Nat
      BY <1>1, <3>4, MaisUma
    <3>6. CASE r \in feitos
      <4>1. espera <= r.retries * (Timeout + 1) + (Timeout + 1)
        BY <1>1, <1>3, <3>3, <3>4, <3>5, <3>6 DEF Conta
      <4>2. r \in reenviados
        BY <3>2, <3>3, <3>6
      <4>3. Conta(Reenvia(r))
        BY <1>1, <1>4, <3>4, <3>5, <4>1, <4>2 DEF Conta
      <4>4. QED
        BY <1>2, <1>4, <3>2, <3>3, <4>2, <4>3
    <3>7. CASE r \in falhos
      <4>1. espera <= r.retries * (Timeout + 1) + (Timeout + 1) /\ r.resta = -1
        BY <1>1, <1>3, <3>3, <3>4, <3>5, <3>7 DEF Conta
      <4>2. Conte(r).retries = r.retries + 1 /\ Conte(r).resta = -1
        BY <1>5, <3>7, <4>1
      <4>3. Conta(Conte(r))
        BY <1>1, <3>4, <3>5, <4>1, <4>2 DEF Conta
      <4>4. QED
        BY <1>2, <1>5, <3>2, <3>3, <3>7, <4>3
    <3>8. CASE r \notin feitos \cup falhos
      BY <1>2, <3>2, <3>3, <3>8
    <3>9. QED
      BY <3>6, <3>7, <3>8
  <2>3. QED
    BY <2>1, <2>2 DEF InvPrazo, Conta
<1>11. QED
  BY <1>7, <1>8, <1>9, <1>10 DEF Sessao

\* A turn of the waiting loop.
LEMMA PassoSelect ==
  ASSUME Sessao, Select
  PROVE  Sessao'
<1>1. CASE \E m \in volta : snmp_read(m)
  BY <1>1, PassoRead
<1>2. CASE snmp_sess_timeout
  <2>1. \E feitos \in SUBSET Vencidos,
           falhos \in SUBSET {r \in Vencidos : r.retries < Retries} :
          Trata(feitos, falhos)
    BY <1>2, ZenonT(60), ZenonT(90) DEF snmp_sess_timeout
  <2>2. state.waiting /\ UNCHANGED <<Reqid, volta, espera>>
    BY <1>2 DEF Select, snmp_sess_timeout
  <2>3. QED
    BY <2>1, <2>2, PassoTrata
<1>3. CASE ErroSelect
  <2>1. /\ state' = [state EXCEPT !.waiting = FALSE, !.status = "error"]
        /\ UNCHANGED <<Reqid, requests, ida, volta, espera>>
    BY <1>3 DEF ErroSelect
  <2>2. state' \in [reqid : ReqId \cup {0}, waiting : BOOLEAN,
                    status : {"success", "timeout", "error"}, pdu : Pdu \cup {Nulo}]
        /\ ~state'.waiting
    BY <2>1, ZenonT(60), ZenonT(90) DEF Sessao, SessTypeOK
  <2>3. QED
    BY <2>1, <2>2 DEF Sessao, SessTypeOK, InvPrazo, EsperaLimitada
<1>4. QED
  BY <1>1, <1>2, <1>3 DEF Select

\* The clock: every pending request loses what the call gains.
LEMMA PassoTick ==
  ASSUME Sessao, Tick
  PROVE  Sessao'
<1> DEFINE Desconta(r) == [r EXCEPT !.resta = @ - 1]
<1>1. /\ state.waiting /\ UNCHANGED <<Reqid, state, ida, volta>>
      /\ requests' = {Desconta(r) : r \in requests}
      /\ espera' = espera + 1 /\ Vencidos = {}
  BY DEF Tick
<1>2. Retries \in Nat /\ Timeout \in Nat /\ requests \subseteq Requisicao
      /\ espera \in Nat
  BY SessAssumption DEF Sessao, SessTypeOK, Requisicao
<1>3. \A r \in requests : /\ r \in Requisicao /\ r.resta \in 0 .. Timeout
  BY <1>1, <1>2 DEF Vencidos, Requisicao
<1>4. \A r \in requests : /\ Desconta(r) \in Requisicao /\ Desconta(r).id = r.id
                          /\ Desconta(r).nome = r.nome
                          /\ Desconta(r).retries = r.retries
                          /\ Desconta(r).resta = r.resta - 1
  BY <1>2, <1>3 DEF Requisicao
<1> HIDE DEF Desconta
<1>5. PICK r \in requests : r.id = state.reqid /\ Conta(r)
  BY <1>1 DEF Sessao, InvPrazo
<1>6. EsperaLimitada'
  BY <1>1, <1>2, <1>3, <1>5, ContaLimita DEF EsperaLimitada
<1>7. espera + 1 <= Desconta(r).retries * (Timeout + 1)
                      + (Timeout - Desconta(r).resta)
  <2>1. r.retries * (Timeout + 1) \in Nat
    BY <1>2, <1>3, MaisUma DEF Requisicao
  <2>2. QED
    BY <1>2, <1>3, <1>4, <1>5, <2>1 DEF Conta
<1>8. InvPrazo'
  BY <1>1, <1>4, <1>5, <1>6, <1>7 DEF InvPrazo, Conta
<1>9. SessTypeOK'
  BY <1>1, <1>2, <1>4 DEF Sessao, SessTypeOK, Requisicao
<1>10. \A x \in requests' : Codifica(x.nome) # Invalido
  BY <1>1, <1>4 DEF Sessao
<1>11. QED
  BY <1>1, <1>8, <1>9, <1>10 DEF Sessao
-------------------------------------------------------------------------------
(* The walk.                                                                   *)

\* The walk's part of the invariant.
Andar ==
  /\ root \in Raizes /\ name \in Nome /\ saida \in Seq(Nome)
  /\ imprimiu \in BOOLEAN /\ exitval \in 0 .. 2
  /\ pc \in {"abre", "inclui", "esperaInclui", "laco", "espera", "depois",
             "esperaGet", "fecha", "fim"}
  /\ EmChamada

\* The invariant is that of the session, of the agent and of the walk.
LEMMA Partes ==
  /\ Indutivo <=> Sessao /\ mib \subseteq Nome /\ Andar
  /\ Indutivo' <=> Sessao' /\ mib' \subseteq Nome /\ Andar'
<1> USE DEF Indutivo, Sessao, Andar, TypeOK, InvRede
<1>1. Indutivo <=> Sessao /\ mib \subseteq Nome /\ Andar
  OBVIOUS
<1>2. Indutivo' <=> Sessao' /\ mib' \subseteq Nome /\ Andar'
  OBVIOUS
<1>3. QED
  BY <1>1, <1>2

\* Every initial state satisfies the inductive invariant.
LEMMA InitIndutivo == Init => Indutivo
<1> SUFFICES ASSUME Init PROVE Sessao /\ mib \subseteq Nome /\ Andar
  BY Partes
<1> USE DEF Init, SessInit, AgenteInit, WalkInit
<1>1. SessTypeOK
  BY SessAssumption DEF SessTypeOK, ReqId
<1>2. InvPrazo
  BY SessAssumption, MaisUma DEF InvPrazo, EsperaLimitada
<1>3. mib \subseteq Nome
  BY AgenteAssumption
<1>4. Andar
  <2>1. <<>> \in Seq(Nome)
    OBVIOUS
  <2>2. ~state.waiting
    OBVIOUS
  <2>3. exitval \in 0 .. 2
    OBVIOUS
  <2>4. QED
    BY <2>1, <2>2, <2>3, WalkAssumption, ZenonT(60), ZenonT(90) DEF Andar, EmChamada
<1>5. QED
  BY <1>1, <1>2, <1>3, <1>4 DEF Sessao

\* What is printed and asked next is an identifier of the answer.
LEMMA NomeDaResposta ==
  ASSUME Sessao, state.pdu.errstat = "noError"
  PROVE  state.pdu.nome \in Nome
BY DEF Sessao, SessTypeOK, Pdu, Nulo

\* The steps of main.
LEMMA PassoProcesso ==
  ASSUME Indutivo, Processo
  PROVE  Indutivo'
<1>1. Sessao /\ mib \subseteq Nome /\ Andar
  BY Partes
<1>2. UNCHANGED sessVars => Sessao'
  <2> SUFFICES ASSUME UNCHANGED sessVars PROVE Sessao'
    OBVIOUS
  <2> USE DEF sessVars
  <2>1. SessTypeOK'
    BY <1>1 DEF Sessao, SessTypeOK
  <2>2. InvPrazo'
    BY <1>1 DEF Sessao, InvPrazo, EsperaLimitada, Conta
  <2>3. QED
    BY <1>1, <2>1, <2>2 DEF Sessao
<1>3. root \in Nome /\ name \in Nome /\ saida \in Seq(Nome)
  BY <1>1, WalkAssumption DEF Andar
<1>4. CASE PedeGet
  <2>1. Sessao'
    BY <1>1, <1>3, <1>4, PassoSend DEF PedeGet, Comando
  <2>2. QED
    BY <1>1, <1>4, <2>1, Partes DEF PedeGet, Andar, EmChamada
<1>5. CASE PedeNext
  <2>1. Sessao'
    BY <1>1, <1>3, <1>5, PassoSend DEF PedeNext, Comando
  <2>2. QED
    BY <1>1, <1>5, <2>1, Partes DEF PedeNext, Andar, EmChamada
<1>6. CASE Abre
  BY <1>1, <1>2, <1>6, Partes DEF Abre, Andar, EmChamada, sessVars
<1>7. CASE TrataGet
  <2>1. saida' \in Seq(Nome) /\ imprimiu' \in BOOLEAN
    <3>1. CASE state.status = "success" /\ state.pdu.errstat = "noError"
      <4>1. state.pdu.nome \in Nome
        BY <1>1, <3>1, NomeDaResposta
      <4>2. Append(saida, state.pdu.nome) \in Seq(Nome)
        BY <1>3, <4>1
      <4>3. QED
        BY <1>3, <1>7, <3>1, <4>2 DEF TrataGet
    <3>2. CASE ~(state.status = "success" /\ state.pdu.errstat = "noError")
      BY <1>1, <1>7, <3>2 DEF TrataGet, Andar
    <3>3. QED
      BY <3>1, <3>2
  <2>2. QED
    BY <1>1, <1>2, <1>7, <2>1, Partes DEF TrataGet, Andar, EmChamada, sessVars
<1>8. CASE SemResposta \/ RespostaErro \/ ForaDaqui \/ Excecao \/ SemGet
  <2> USE DEF SemResposta, RespostaErro, ForaDaqui, Excecao, SemGet, Chegou,
              Variavel
  <2>1. UNCHANGED <<sessVars, mib, root, name, saida>> /\ pc' \in {"depois", "fecha"}
    BY <1>8, ZenonT(60), ZenonT(90)
  <2>2. exitval' \in 0 .. 2
    BY <1>1, <1>8 DEF Andar
  <2>3. imprimiu' \in BOOLEAN
    BY <1>1, <1>8, ZenonT(60), ZenonT(90) DEF Andar
  <2>4. ~state'.waiting
    BY <1>1, <1>8, ZenonT(60), ZenonT(90) DEF Andar, EmChamada, sessVars
  <2>5. QED
    BY <1>1, <1>2, <2>1, <2>2, <2>3, <2>4, Partes DEF Andar, EmChamada
<1>9. CASE Linha
  <2>1. state.pdu.nome \in Nome
    BY <1>1, <1>9, NomeDaResposta DEF Linha, Variavel
  <2>2. Append(saida, state.pdu.nome) \in Seq(Nome)
    BY <1>3, <2>1
  <2>3. QED
    BY <1>1, <1>2, <1>9, <2>1, <2>2, Partes
    DEF Linha, Andar, Variavel, Chegou, EmChamada, sessVars
<1>10. CASE Fecha
  <2>1. /\ requests' = {} /\ UNCHANGED <<Reqid, state, ida, volta, espera, mib>>
        /\ pc = "fecha"
    BY <1>10 DEF Fecha, snmp_close
  <2>2. ~state.waiting => Sessao'
    <3> SUFFICES ASSUME ~state.waiting PROVE Sessao'
      OBVIOUS
    <3>1. SessTypeOK'
      BY <1>1, <2>1 DEF Sessao, SessTypeOK
    <3>2. InvPrazo'
      BY <1>1, <2>1 DEF Sessao, InvPrazo, EsperaLimitada
    <3>3. QED
      BY <1>1, <2>1, <3>1, <3>2 DEF Sessao
  <2>3. QED
    BY <1>1, <1>10, <2>1, <2>2, Partes DEF Fecha, Andar, EmChamada
<1>11. QED
  BY <1>4, <1>5, <1>6, <1>7, <1>8, <1>9, <1>10 DEF Processo

\* What the agent answers is made of identifiers.
LEMMA RespostaTipo ==
  ASSUME mib \subseteq Nome, NEW d, Decodifica(d.nome) \in Nome,
         NEW a \in Respostas(d)
  PROVE  a.errstat \in Errstat /\ a.tipo \in Tipo /\ a.nome \in Nome
<1> DEFINE n == Decodifica(d.nome)
<1> USE DEF Errstat, Tipo
<1>1. CASE a \in RespostaGet(n)
  BY <1>1 DEF RespostaGet
<1>2. CASE a \in RespostaGetNext(n)
  <2>1. \A i \in MenoresDe(Depois(n)) : i \in Nome
    BY DEF MenoresDe, Depois
  <2>2. \A p \in Desordem : p[2] \in Nome
    BY AgenteAssumption
  <2> HIDE DEF n
  <2>3. n \in Nome
    BY DEF n
  <2>4. QED
    BY <1>2, <2>1, <2>2, <2>3 DEF RespostaGetNext
<1>3. CASE a \in {[errstat |-> "genErr", tipo |-> "noSuchInstance", nome |-> e] :
                     e \in ComErro \cap {n}}
  BY <1>3
<1>4. QED
  BY <1>1, <1>2, <1>3 DEF Respostas

\* The agent's steps.
LEMMA PassoMundo ==
  ASSUME Indutivo, Mundo
  PROVE  Indutivo'
<1>1. Sessao /\ mib \subseteq Nome /\ Andar
  BY Partes
<1>2. Andar' /\ UNCHANGED <<Reqid, requests, state, ida, espera>>
  BY <1>1 DEF Mundo, walkVars, Andar, EmChamada, Responde, MudaMib, sessVars
<1>3. SessTypeOK' /\ InvPrazo'
  BY <1>1, <1>2 DEF Sessao, SessTypeOK, InvPrazo, EsperaLimitada, Conta
<1>4. volta' \subseteq [reqid : ReqId, errstat : Errstat, tipo : Tipo, nome : Octs]
  <2>1. CASE MudaMib
    BY <1>1, <2>1 DEF MudaMib, sessVars, Sessao
  <2>2. CASE Responde
    <3>1. PICK d \in ida : \E a \in Respostas(d) :
            /\ Codifica(a.nome) # Invalido
            /\ volta' = volta \cup {[reqid |-> d.reqid, errstat |-> a.errstat,
                                     tipo |-> a.tipo, nome |-> Codifica(a.nome)]}
      BY <2>2 DEF Responde
    <3>2. PICK a \in Respostas(d) :
            /\ Codifica(a.nome) # Invalido
            /\ volta' = volta \cup {[reqid |-> d.reqid, errstat |-> a.errstat,
                                     tipo |-> a.tipo, nome |-> Codifica(a.nome)]}
      BY <3>1
    <3>3. d.reqid \in ReqId /\ d.nome \in Octs
      BY <1>1 DEF Sessao
    <3>4. a.errstat \in Errstat /\ a.tipo \in Tipo /\ a.nome \in Nome
      BY <1>1, <3>3, SessAssumption, RespostaTipo
    <3>5. Codifica(a.nome) \in Octs
      BY <3>2, <3>4 DEF Octs
    <3>6. QED
      BY <1>1, <3>2, <3>3, <3>4, <3>5 DEF Sessao
  <2>3. QED
    BY <2>1, <2>2 DEF Mundo
<1>5. mib' \subseteq Nome
  BY <1>1, AgenteAssumption DEF Mundo, MudaMib, Responde
<1>6. QED
  BY <1>1, <1>2, <1>3, <1>4, <1>5, Partes DEF Sessao

\* Every step preserves the inductive invariant.
LEMMA PassoIndutivo == Indutivo /\ [Next]_vars => Indutivo'
<1> SUFFICES ASSUME Indutivo, [Next]_vars PROVE Indutivo'
  OBVIOUS
<1>1. Sessao /\ mib \subseteq Nome /\ Andar
  BY Partes
<1>2. CASE Processo
  BY <1>2, PassoProcesso
<1>3. CASE SelectW
  <2>1. Sessao' /\ UNCHANGED <<mib, walkVars>> /\ state.waiting
    BY <1>1, <1>3, PassoSelect DEF SelectW, Select
  <2>2. Andar'
    BY <1>1, <2>1 DEF Andar, EmChamada, walkVars
  <2>3. QED
    BY <1>1, <2>1, <2>2, Partes
<1>4. CASE TickW
  <2>1. Sessao' /\ UNCHANGED <<mib, walkVars>> /\ state.waiting
    BY <1>1, <1>4, PassoTick DEF TickW, Tick
  <2>2. Andar'
    BY <1>1, <2>1 DEF Andar, EmChamada, walkVars
  <2>3. QED
    BY <1>1, <2>1, <2>2, Partes
<1>5. CASE Mundo
  BY <1>5, PassoMundo
<1>6. CASE UNCHANGED vars
  <2> USE <1>6 DEF vars, sessVars, walkVars
  <2>1. SessTypeOK' /\ InvPrazo'
    BY <1>1 DEF Sessao, SessTypeOK, InvPrazo, EsperaLimitada, Conta
  <2>2. Andar'
    BY <1>1 DEF Andar, EmChamada
  <2>3. QED
    BY <1>1, <2>1, <2>2, Partes DEF Sessao
<1>7. QED
  BY <1>2, <1>3, <1>4, <1>5, <1>6 DEF Next
-------------------------------------------------------------------------------
(* The theorems.                                                               *)

\* The inductive invariant holds in every reachable state.
THEOREM SempreIndutivo == Spec => []Indutivo
BY InitIndutivo, PassoIndutivo, PTL DEF Spec

\* The type invariant of the walk and its session, whatever the sizes.
THEOREM TipoCorreto == Spec => []TypeOK
<1>1. Indutivo => TypeOK
  BY DEF Indutivo
<1>2. QED
  BY <1>1, SempreIndutivo, PTL

\* No call of snmp_synch_response takes longer than the first time-out and those
\* of the retransmissions, whatever is lost, late, answered twice or reordered,
\* for every number of retries and every time-out.
THEOREM EsperaLimitadaVale == Spec => []EsperaLimitada
<1>1. Indutivo => EsperaLimitada
  BY DEF Indutivo, InvPrazo
<1>2. QED
  BY <1>1, SempreIndutivo, PTL
-------------------------------------------------------------------------------
(* The order of the identifiers.                                               *)
INSTANCE WellFoundedInduction

\* A non-empty set of naturals has a least element.
LEMMA MenorNatural ==
  ASSUME NEW S \in SUBSET Nat, S # {}
  PROVE  \E m \in S : \A k \in S : m <= k
<1>1. IsWellFoundedOn(OpToRel(<, Nat), Nat)
  BY NatLessThanWellFounded
<1>2. PICK m \in S : \A k \in S : ~(<<k, m>> \in OpToRel(<, Nat))
  BY <1>1, WFMin, ZenonT(60), ZenonT(90)
<1>3. \A k \in S : ~(k < m)
  BY <1>2, ZenonT(60), ZenonT(90) DEF OpToRel
<1>4. QED
  BY <1>3

\* The order of identifiers, from the index that decides.
LEMMA AntesEh ==
  ASSUME NEW a \in Seq(Nat), NEW b \in Seq(Nat)
  PROVE  Antes(a, b) <=>
           \/ \E i \in Nat \ {0} :
                /\ i <= Len(a) /\ i <= Len(b) /\ a[i] < b[i]
                /\ \A j \in Nat \ {0} : j < i => a[j] = b[j]
           \/ Len(a) < Len(b) /\ \A j \in Nat \ {0} : j <= Len(a) => a[j] = b[j]
<1>1. Len(a) \in Nat /\ Len(b) \in Nat
  OBVIOUS
<1>2. \A i : i \in 1 .. Menor2(Len(a), Len(b)) <=>
               i \in Nat \ {0} /\ i <= Len(a) /\ i <= Len(b)
  BY <1>1 DEF Menor2
<1>3. \A i \in Nat \ {0} : \A j : j \in 1 .. i - 1 <=> j \in Nat \ {0} /\ j < i
  OBVIOUS
<1>4. \A j : j \in 1 .. Len(a) <=> j \in Nat \ {0} /\ j <= Len(a)
  BY <1>1
<1>5. ASSUME NEW i \in Nat \ {0}
      PROVE  (\A j \in 1 .. i - 1 : a[j] = b[j]) <=>
               (\A j \in Nat \ {0} : j < i => a[j] = b[j])
  BY <1>3, ZenonT(60), ZenonT(90)
<1>6. (\A j \in 1 .. Len(a) : a[j] = b[j]) <=>
        (\A j \in Nat \ {0} : j <= Len(a) => a[j] = b[j])
  BY <1>4, ZenonT(60), ZenonT(90)
<1>7. (\E i \in 1 .. Menor2(Len(a), Len(b)) :
         a[i] < b[i] /\ \A j \in 1 .. i - 1 : a[j] = b[j]) <=>
        (\E i \in Nat \ {0} :
           /\ i <= Len(a) /\ i <= Len(b) /\ a[i] < b[i]
           /\ \A j \in Nat \ {0} : j < i => a[j] = b[j])
  <2>1. ASSUME NEW i \in 1 .. Menor2(Len(a), Len(b)), a[i] < b[i],
               \A j \in 1 .. i - 1 : a[j] = b[j]
        PROVE  \E k \in Nat \ {0} :
                 /\ k <= Len(a) /\ k <= Len(b) /\ a[k] < b[k]
                 /\ \A j \in Nat \ {0} : j < k => a[j] = b[j]
    <3>1. i \in Nat \ {0} /\ i <= Len(a) /\ i <= Len(b)
      BY <1>2
    <3>2. \A j \in Nat \ {0} : j < i => a[j] = b[j]
      BY <1>5, <2>1, <3>1, ZenonT(60), ZenonT(90)
    <3>3. QED
      BY <2>1, <3>1, <3>2, ZenonT(60), ZenonT(90)
  <2>2. ASSUME NEW i \in Nat \ {0}, i <= Len(a), i <= Len(b), a[i] < b[i],
               \A j \in Nat \ {0} : j < i => a[j] = b[j]
        PROVE  \E k \in 1 .. Menor2(Len(a), Len(b)) :
                 a[k] < b[k] /\ \A j \in 1 .. k - 1 : a[j] = b[j]
    <3>1. i \in 1 .. Menor2(Len(a), Len(b))
      BY <1>2, <2>2
    <3>2. \A j \in 1 .. i - 1 : a[j] = b[j]
      BY <1>5, <2>2, ZenonT(60), ZenonT(90)
    <3>3. QED
      BY <2>2, <3>1, <3>2, ZenonT(60), ZenonT(90)
  <2>3. QED
    BY <2>1, <2>2, ZenonT(60), ZenonT(90)
<1>8. QED
  BY <1>6, <1>7, ZenonT(60), ZenonT(90) DEF Antes

\* The facts about numbers that the order needs.
LEMMA Ordem ==
  /\ \A x, y, z \in Nat : x < y /\ y <= z => x < z
  /\ \A x, y \in Nat : x < y => ~(y < x)
  /\ \A x, y \in Nat : x < y => ~(y <= x)
OBVIOUS

\* The length and the elements of an identifier are numbers.
LEMMA Valores ==
  ASSUME NEW a \in Seq(Nat)
  PROVE  Len(a) \in Nat /\ \A i \in Nat \ {0} : i <= Len(a) => a[i] \in Nat
OBVIOUS

\* No identifier comes before itself.
LEMMA AntesIrreflexiva ==
  ASSUME NEW a \in Seq(Nat)
  PROVE  ~Antes(a, a)
BY AntesEh, Valores

\* The order is transitive.
LEMMA AntesTransitiva ==
  ASSUME NEW a \in Seq(Nat), NEW b \in Seq(Nat), NEW c \in Seq(Nat),
         Antes(a, b), Antes(b, c)
  PROVE  Antes(a, c)
<1>1. /\ Len(a) \in Nat /\ Len(b) \in Nat /\ Len(c) \in Nat
      /\ \A i \in Nat \ {0} : /\ i <= Len(a) => a[i] \in Nat
                              /\ i <= Len(b) => b[i] \in Nat
                              /\ i <= Len(c) => c[i] \in Nat
  BY Valores
<1>2. CASE \E i \in Nat \ {0} :
             /\ i <= Len(a) /\ i <= Len(b) /\ a[i] < b[i]
             /\ \A j \in Nat \ {0} : j < i => a[j] = b[j]
  <2>1. PICK i \in Nat \ {0} :
             /\ i <= Len(a) /\ i <= Len(b) /\ a[i] < b[i]
             /\ \A j \in Nat \ {0} : j < i => a[j] = b[j]
    BY <1>2
  <2>2. CASE \E k \in Nat \ {0} :
               /\ k <= Len(b) /\ k <= Len(c) /\ b[k] < c[k]
               /\ \A j \in Nat \ {0} : j < k => b[j] = c[j]
    <3>1. PICK k \in Nat \ {0} :
               /\ k <= Len(b) /\ k <= Len(c) /\ b[k] < c[k]
               /\ \A j \in Nat \ {0} : j < k => b[j] = c[j]
      BY <2>2
    <3>2. CASE i <= k
      <4>1. i <= Len(c) /\ \A j \in Nat \ {0} : j < i => a[j] = c[j]
        <5>1. i <= Len(c) /\ \A j \in Nat \ {0} : j < i => j < k
          BY <1>1, <3>1, <3>2
        <5>2. QED
          BY <2>1, <3>1, <5>1, ZenonT(60), ZenonT(90)
      <4>2. a[i] < c[i]
        <5>1. a[i] \in Nat /\ b[i] \in Nat /\ c[i] \in Nat
          BY <1>1, <2>1, <4>1
        <5>2. i = k \/ b[i] = c[i]
          BY <3>1, <3>2
        <5>3. b[i] <= c[i]
          BY <3>1, <5>1, <5>2
        <5>4. QED
          BY <2>1, <5>1, <5>3, Ordem, ZenonT(60), ZenonT(90)
      <4>3. QED
        BY <2>1, <4>1, <4>2, AntesEh
    <3>3. CASE k < i
      <4>1. k <= Len(a) /\ a[k] < c[k] /\ \A j \in Nat \ {0} : j < k => a[j] = c[j]
        <5>1. k <= Len(a) /\ \A j \in Nat \ {0} : j < k => j < i
          <6>1. i \in Nat /\ k \in Nat /\ Len(a) \in Nat /\ i <= Len(a) /\ k < i
            BY <1>1, <2>1, <3>1, <3>3, ZenonT(60), ZenonT(90)
          <6>2. \A x, y, z \in Nat : x < y /\ y <= z => x <= z
            OBVIOUS
          <6>3. \A x, y, z \in Nat : x < y /\ y < z => x < z
            OBVIOUS
          <6>4. QED
            BY <6>1, <6>2, <6>3, ZenonT(60), ZenonT(90)
        <5>2. \A j \in Nat \ {0} : j < k => a[j] = c[j]
          BY <2>1, <3>1, <5>1, ZenonT(60), ZenonT(90)
        <5>3. a[k] = b[k]
          BY <2>1, <3>1, <3>3, ZenonT(60), ZenonT(90)
        <5>4. QED
          BY <3>1, <5>1, <5>2, <5>3, ZenonT(60), ZenonT(90)
      <4>2. QED
        BY <3>1, <4>1, AntesEh
    <3>4. QED
      BY <3>2, <3>3
  <2>3. CASE Len(b) < Len(c) /\ \A j \in Nat \ {0} : j <= Len(b) => b[j] = c[j]
    <3>1. i <= Len(c) /\ a[i] < c[i] /\ \A j \in Nat \ {0} : j < i => a[j] = c[j]
      <4>1. i <= Len(c) /\ \A j \in Nat \ {0} : j < i => j <= Len(b)
        BY <1>1, <2>1, <2>3
      <4>2. \A j \in Nat \ {0} : j < i => a[j] = c[j]
        BY <2>1, <2>3, <4>1, ZenonT(60), ZenonT(90)
      <4>3. b[i] = c[i]
        BY <2>1, <2>3, ZenonT(60), ZenonT(90)
      <4>4. QED
        BY <2>1, <4>1, <4>2, <4>3, ZenonT(60), ZenonT(90)
    <3>2. QED
      BY <2>1, <3>1, AntesEh
  <2>4. QED
    BY <2>2, <2>3, AntesEh
<1>3. CASE Len(a) < Len(b) /\ \A j \in Nat \ {0} : j <= Len(a) => a[j] = b[j]
  <2>1. CASE \E k \in Nat \ {0} :
               /\ k <= Len(b) /\ k <= Len(c) /\ b[k] < c[k]
               /\ \A j \in Nat \ {0} : j < k => b[j] = c[j]
    <3>1. PICK k \in Nat \ {0} :
               /\ k <= Len(b) /\ k <= Len(c) /\ b[k] < c[k]
               /\ \A j \in Nat \ {0} : j < k => b[j] = c[j]
      BY <2>1
    <3>2. CASE k <= Len(a)
      <4>1. a[k] < c[k] /\ \A j \in Nat \ {0} : j < k => a[j] = c[j]
        BY <1>1, <1>3, <3>1, <3>2
      <4>2. QED
        BY <3>1, <3>2, <4>1, AntesEh
    <3>3. CASE Len(a) < k
      <4>1. Len(a) < Len(c) /\ \A j \in Nat \ {0} : j <= Len(a) => a[j] = c[j]
        BY <1>1, <1>3, <3>1, <3>3
      <4>2. QED
        BY <4>1, AntesEh
    <3>4. QED
      BY <1>1, <3>2, <3>3
  <2>2. CASE Len(b) < Len(c) /\ \A j \in Nat \ {0} : j <= Len(b) => b[j] = c[j]
    <3>1. Len(a) < Len(c) /\ \A j \in Nat \ {0} : j <= Len(a) => a[j] = c[j]
      BY <1>1, <1>3, <2>2
    <3>2. QED
      BY <3>1, AntesEh
  <2>3. QED
    BY <2>1, <2>2, AntesEh
<1>4. QED
  BY <1>2, <1>3, AntesEh

\* The subtree below an identifier comes after it ...
LEMMA AbaixoAntes ==
  ASSUME NEW a, NEW b, Abaixo(a, b)
  PROVE  Antes(a, b)
BY DEF Abaixo, Antes

\* ... and in one piece.
LEMMA Convexa ==
  ASSUME NEW a \in Seq(Nat), NEW b \in Seq(Nat), NEW c \in Seq(Nat),
         Antes(a, b), Antes(b, c), Abaixo(a, c)
  PROVE  Abaixo(a, b)
<1>1. /\ Len(a) \in Nat /\ Len(b) \in Nat /\ Len(c) \in Nat
      /\ \A i \in Nat \ {0} : /\ i <= Len(a) => a[i] \in Nat
                              /\ i <= Len(b) => b[i] \in Nat
                              /\ i <= Len(c) => c[i] \in Nat
  BY Valores
<1>2. Len(a) < Len(c) /\ \A j \in Nat \ {0} : j <= Len(a) => a[j] = c[j]
  BY <1>1 DEF Abaixo
<1>3. ~\E i \in Nat \ {0} : /\ i <= Len(a) /\ i <= Len(b) /\ a[i] < b[i]
                            /\ \A j \in Nat \ {0} : j < i => a[j] = b[j]
  <2> SUFFICES ASSUME NEW i \in Nat \ {0},
                      i <= Len(a), i <= Len(b), a[i] < b[i],
                      \A j \in Nat \ {0} : j < i => a[j] = b[j]
               PROVE  FALSE
    OBVIOUS
  <2>1. CASE \E k \in Nat \ {0} :
               /\ k <= Len(b) /\ k <= Len(c) /\ b[k] < c[k]
               /\ \A j \in Nat \ {0} : j < k => b[j] = c[j]
    <3>1. PICK k \in Nat \ {0} :
               /\ k <= Len(b) /\ k <= Len(c) /\ b[k] < c[k]
               /\ \A j \in Nat \ {0} : j < k => b[j] = c[j]
      BY <2>1
    <3>2. CASE k < i
      <4>1. a[k] = b[k] /\ a[k] = c[k] /\ b[k] \in Nat
        BY <1>1, <1>2, <3>1, <3>2
      <4>2. QED
        BY <3>1, <4>1
    <3>3. CASE i <= k
      <4>1. a[i] = c[i] /\ a[i] \in Nat /\ b[i] \in Nat
        BY <1>1, <1>2, ZenonT(60), ZenonT(90)
      <4>2. CASE i = k
        BY <3>1, <4>1, <4>2, Ordem, ZenonT(60), ZenonT(90)
      <4>3. CASE i < k
        <5>1. b[i] = c[i]
          BY <3>1, <4>3, ZenonT(60), ZenonT(90)
        <5>2. QED
          BY <4>1, <5>1, Ordem, ZenonT(60), ZenonT(90)
      <4>4. QED
        BY <3>1, <3>3, <4>2, <4>3
    <3>4. QED
      BY <3>2, <3>3
  <2>2. CASE Len(b) < Len(c) /\ \A j \in Nat \ {0} : j <= Len(b) => b[j] = c[j]
    BY <1>1, <1>2, <2>2
  <2>3. QED
    BY <2>1, <2>2, AntesEh
<1>4. Len(a) < Len(b) /\ \A j \in Nat \ {0} : j <= Len(a) => a[j] = b[j]
  BY <1>3, AntesEh
<1>5. QED
  BY <1>1, <1>4 DEF Abaixo

\* snmp_oid_compare is that order.
LEMMA CompareAntes ==
  ASSUME NEW a \in Seq(Nat), NEW b \in Seq(Nat)
  PROVE  snmp_oid_compare(a, b) < 0 <=> Antes(a, b)
<1> DEFINE d == Difere(a, b, Menor2(Len(a), Len(b)))
<1>1. /\ Len(a) \in Nat /\ Len(b) \in Nat
      /\ \A i \in Nat \ {0} : /\ i <= Len(a) => a[i] \in Nat
                              /\ i <= Len(b) => b[i] \in Nat
  BY Valores
<1>2. \A i : i \in d <=> i \in Nat \ {0} /\ i <= Len(a) /\ i <= Len(b) /\ a[i] # b[i]
  BY <1>1 DEF Difere, Menor2
<1>3. snmp_oid_compare(a, b) =
        IF d # {} THEN IF a[Primeiro(d)] < b[Primeiro(d)] THEN -1 ELSE 1
        ELSE IF Len(a) < Len(b) THEN -1
        ELSE IF Len(b) < Len(a) THEN 1
        ELSE 0
  BY DEF snmp_oid_compare
<1> HIDE DEF d
<1>4. CASE d # {}
  <2> DEFINE p == Primeiro(d)
  <2>1. p \in d /\ \A j \in d : p <= j
    <3>1. d \in SUBSET Nat
      BY <1>2
    <3>2. \E m \in d : \A k \in d : m <= k
      BY <1>4, <3>1, MenorNatural, ZenonT(60), ZenonT(90)
    <3>3. QED
      BY <3>2, ZenonT(60), ZenonT(90) DEF Primeiro
  <2>2. snmp_oid_compare(a, b) = IF a[p] < b[p] THEN -1 ELSE 1
    BY <1>3, <1>4
  <2> HIDE DEF p
  <2>3. /\ p \in Nat \ {0} /\ p <= Len(a) /\ p <= Len(b) /\ a[p] # b[p]
        /\ a[p] \in Nat /\ b[p] \in Nat
    BY <1>1, <1>2, <2>1
  <2>4. \A j \in Nat \ {0} : j < p => a[j] = b[j]
    <3> SUFFICES ASSUME NEW j \in Nat \ {0}, j < p PROVE a[j] = b[j]
      OBVIOUS
    <3>1. j \notin d
      BY <2>1, <2>3, Ordem, ZenonT(60), ZenonT(90)
    <3>2. j <= Len(a) /\ j <= Len(b)
      BY <1>1, <2>3
    <3>3. QED
      BY <1>2, <3>1, <3>2, ZenonT(60), ZenonT(90)
  <2>5. a[p] < b[p] => Antes(a, b)
    BY <2>3, <2>4, AntesEh
  <2>6. Antes(a, b) => a[p] < b[p]
    <3>1. ASSUME NEW i \in Nat \ {0}, i <= Len(a), i <= Len(b), a[i] < b[i],
                 \A j \in Nat \ {0} : j < i => a[j] = b[j]
          PROVE  a[p] < b[p]
      <4>1. ~(p < i)
        BY <2>3, <3>1
      <4>2. ~(i < p)
        BY <1>1, <2>4, <3>1
      <4>3. i = p
        BY <2>3, <4>1, <4>2
      <4>4. QED
        BY <3>1, <4>3
    <3>2. ~(\A j \in Nat \ {0} : j <= Len(a) => a[j] = b[j])
      BY <2>3
    <3>3. QED
      BY <3>1, <3>2, AntesEh
  <2>7. QED
    BY <2>2, <2>5, <2>6
<1>5. CASE d = {}
  <2>1. \A i \in Nat \ {0} : i <= Len(a) /\ i <= Len(b) => a[i] = b[i]
    BY <1>2, <1>5
  <2>2. Antes(a, b) <=> Len(a) < Len(b)
    BY <1>1, <2>1, AntesEh
  <2>3. QED
    BY <1>1, <1>3, <1>5, <2>2
<1>6. QED
  BY <1>4, <1>5
-------------------------------------------------------------------------------
(* memcmp on the octets of the identifiers.                                    *)

\* The first octet in memory of a number is its remainder.
LEMMA OctetoBaixo == ASSUME NEW v \in Nat PROVE Octeto(v, 0) = v % 256
<1>1. 256 ^ 0 = 1
  OBVIOUS
<1>2. v \div 1 = v
  OBVIOUS
<1>3. QED
  BY <1>1, <1>2 DEF Octeto

\* The least of a set of numbers is found once it is known.
LEMMA PrimeiroEh ==
  ASSUME NEW S \in SUBSET Nat, NEW p \in S, \A j \in S : p <= j
  PROVE  Primeiro(S) = p
<1>1. \A x, y \in Nat : x <= y /\ y <= x => x = y
  OBVIOUS
<1>2. QED
  BY <1>1, ZenonT(60), ZenonT(90) DEF Primeiro

\* memcmp is decided by the first octet of the first number that differs, when
\* the numbers differ in that octet.
LEMMA MemcmpEh ==
  ASSUME NEW a \in Seq(Nat), NEW b \in Seq(Nat), NEW n \in Nat,
         n <= Len(a), n <= Len(b), NEW i \in 1 .. n,
         \A j \in 1 .. i - 1 : a[j] = b[j], Octeto(a[i], 0) # Octeto(b[i], 0)
  PROVE  memcmp(a, b, n) <= 0 <=> Octeto(a[i], 0) < Octeto(b[i], 0)
<1> DEFINE d == Difere(a, b, n)
           K == {m \in 0 .. 3 : Octeto(a[i], m) # Octeto(b[i], m)}
<1>1. a[i] # b[i]
  OBVIOUS
<1>2. d \in SUBSET Nat /\ i \in d
  BY <1>1 DEF Difere
<1>3. \A j \in d : i <= j
  BY DEF Difere
<1>4. Primeiro(d) = i
  BY <1>2, <1>3, PrimeiroEh, ZenonT(60), ZenonT(90)
<1>5. K \in SUBSET Nat /\ 0 \in K /\ \A m \in K : 0 <= m
  OBVIOUS
<1>6. Primeiro(K) = 0
  BY <1>5, PrimeiroEh, ZenonT(60), ZenonT(90)
<1>7. d # {}
  BY <1>2
<1>8. memcmp(a, b, n) = IF Octeto(a[i], 0) < Octeto(b[i], 0) THEN -1 ELSE 1
  BY <1>4, <1>6, <1>7, ZenonT(60), ZenonT(90) DEF memcmp
<1>9. QED
  BY <1>8

\* The first octet of a number and that of the next one.
LEMMA OctetoSeguinte ==
  ASSUME NEW v \in Nat
  PROVE  /\ Octeto(v + 1, 0) # Octeto(v, 0)
         /\ Octeto(v + 1, 0) < Octeto(v, 0) <=> v % 256 = 255
<1>1. /\ (v + 1) % 256 # v % 256
      /\ (v + 1) % 256 < v % 256 <=> v % 256 = 255
  OBVIOUS
<1>2. v + 1 \in Nat
  OBVIOUS
<1>3. Octeto(v + 1, 0) = (v + 1) % 256 /\ Octeto(v, 0) = v % 256
  BY <1>2, OctetoBaixo
<1>4. QED
  BY <1>1, <1>3

\* A number of one octet is that octet.
LEMMA OctetoUnico == ASSUME NEW v \in Nat, v < 256 PROVE Octeto(v, 0) = v
<1>1. v % 256 = v
  OBVIOUS
<1>2. QED
  BY <1>1, OctetoBaixo

\* The end of a subtree differs from its start in the last number only.
LEMMA FimEh ==
  ASSUME NEW r \in Seq(Nat) \ {<<>>}
  PROVE  /\ end_oid(r) \in Seq(Nat) /\ Len(end_oid(r)) = Len(r)
         /\ Len(r) \in Nat \ {0} /\ r[Len(r)] \in Nat
         /\ end_oid(r)[Len(r)] = r[Len(r)] + 1
         /\ \A j \in 1 .. Len(r) - 1 : end_oid(r)[j] = r[j]
BY DEF end_oid

\* snmpwalk takes a name below r for one outside exactly when the number of r
\* ends in an octet of 255: the next sibling then begins, in memory, with zero.
LEMMA ForaSse255 ==
  ASSUME NEW r \in Seq(Nat) \ {<<>>}, NEW n \in Seq(Nat), n = r \/ Abaixo(r, n)
  PROVE  ForaDaSubarvore(r, n) <=> r[Len(r)] % 256 = 255
<1> DEFINE l == Len(r)  e == end_oid(r)
<1>1. /\ e \in Seq(Nat) /\ Len(e) = l /\ l \in Nat \ {0} /\ r[l] \in Nat
      /\ e[l] = r[l] + 1 /\ \A j \in 1 .. l - 1 : e[j] = r[j]
  BY FimEh
<1>2. Len(n) \in Nat /\ l <= Len(n) /\ \A j \in 1 .. l : n[j] = r[j]
  BY DEF Abaixo
<1>3. n[l] = r[l] /\ \A j \in 1 .. l - 1 : e[j] = n[j]
  BY <1>1, <1>2
<1> HIDE DEF e, l
<1>4. /\ Octeto(e[l], 0) # Octeto(n[l], 0)
      /\ Octeto(e[l], 0) < Octeto(n[l], 0) <=> r[l] % 256 = 255
  BY <1>1, <1>3, OctetoSeguinte
<1>5. memcmp(e, n, l) <= 0 <=> Octeto(e[l], 0) < Octeto(n[l], 0)
  <2>1. l \in Nat /\ l <= Len(e) /\ l <= Len(n) /\ l \in 1 .. l
    BY <1>1, <1>2
  <2>2. QED
    BY <1>1, <1>3, <1>4, <2>1, MemcmpEh, ZenonT(60), ZenonT(90)
<1>6. memcmp(e, n, l) <= 0 <=> r[l] % 256 = 255
  BY <1>4, <1>5
<1>7. QED
  BY <1>2, <1>6 DEF ForaDaSubarvore, e, l

\* A name that leaves the path to r at a number of one octet, after r, is outside.
LEMMA ForaDepois ==
  ASSUME NEW r \in Seq(Nat) \ {<<>>}, NEW n \in Seq(Nat), r[Len(r)] % 256 # 255,
         NEW i \in 1 .. Menor2(Len(r), Len(n)), \A j \in 1 .. i - 1 : r[j] = n[j],
         r[i] < n[i], n[i] < 256
  PROVE  ForaDaSubarvore(r, n)
<1> DEFINE l == Len(r)  e == end_oid(r)
<1>1. /\ e \in Seq(Nat) /\ Len(e) = l /\ l \in Nat \ {0} /\ r[l] \in Nat
      /\ e[l] = r[l] + 1 /\ \A j \in 1 .. l - 1 : e[j] = r[j]
  BY FimEh
<1>2. Len(n) \in Nat /\ i \in Nat \ {0} /\ i <= l /\ i <= Len(n)
  BY <1>1 DEF Menor2
<1>3. CASE Len(n) < l
  BY <1>3 DEF ForaDaSubarvore
<1>4. CASE l <= Len(n)
  <2>1. r[i] \in Nat /\ n[i] \in Nat /\ e[i] \in Nat
    BY <1>1, <1>2
  <2>2. \A j \in 1 .. i - 1 : e[j] = n[j]
    BY <1>1, <1>2
  <2> HIDE DEF e, l
  <2>3. (e[i] = r[i] /\ i # l) \/ (e[i] = r[i] + 1 /\ i = l)
    BY <1>1, <1>2
  <2>4. CASE e[i] # n[i]
    <3>1. e[i] < n[i] /\ e[i] < 256
      BY <2>1, <2>4, <2>3
    <3>2. Octeto(e[i], 0) = e[i] /\ Octeto(n[i], 0) = n[i]
      BY <2>1, <3>1, OctetoUnico
    <3>3. memcmp(e, n, l) <= 0 <=> Octeto(e[i], 0) < Octeto(n[i], 0)
      <4>1. l \in Nat /\ l <= Len(e) /\ l <= Len(n) /\ i \in 1 .. l
        BY <1>1, <1>2, <1>4
      <4>2. Octeto(e[i], 0) # Octeto(n[i], 0)
        BY <2>4, <3>2, ZenonT(60), ZenonT(90)
      <4>3. QED
        BY <1>1, <2>2, <4>1, <4>2, MemcmpEh, ZenonT(60), ZenonT(90)
    <3>4. memcmp(e, n, l) <= 0
      BY <3>1, <3>2, <3>3
    <3>5. QED
      BY <3>4 DEF ForaDaSubarvore, e, l
  <2>5. CASE e[i] = n[i]
    <3>1. i = l
      BY <2>1, <2>5, <2>3
    <3>2. \A j \in 1 .. l : e[j] = n[j]
      BY <1>1, <2>2, <2>5, <3>1
    <3>3. Difere(e, n, l) = {}
      BY <3>2 DEF Difere
    <3>4. memcmp(e, n, l) = 0
      BY <3>3, ZenonT(60), ZenonT(90) DEF memcmp
    <3>5. QED
      BY <3>4 DEF ForaDaSubarvore, e, l
  <2>6. QED
    BY <2>4, <2>5
<1>5. QED
  BY <1>1, <1>2, <1>3, <1>4

\* So memcmp recognises every subtree whose numbers are single octets where
\* names leave it.
LEMMA OctetoReconhece ==
  ASSUME Distingue, NEW r \in Nome, UmOcteto(r)
  PROVE  Reconhece(r)
<1>1. Nome \subseteq Seq(Nat) \ {<<>>}
  BY DEF Distingue
<1>2. r \in Seq(Nat) \ {<<>>} /\ r[Len(r)] % 256 # 255
  BY <1>1 DEF UmOcteto
<1>3. ASSUME NEW n \in Nome, Antes(r, n), Abaixo(r, n)
      PROVE  ~ForaDaSubarvore(r, n)
  BY <1>1, <1>2, <1>3, ForaSse255
<1>4. ASSUME NEW n \in Nome, Antes(r, n), ~Abaixo(r, n)
      PROVE  ForaDaSubarvore(r, n)
  <2>1. PICK i \in 1 .. Menor2(Len(r), Len(n)) :
          r[i] < n[i] /\ \A j \in 1 .. i - 1 : r[j] = n[j]
    BY <1>4, ZenonT(60), ZenonT(90) DEF Antes, Abaixo
  <2>2. n \in Seq(Nat) /\ r[i] \in Nat /\ n[i] \in Nat
    BY <1>1, <1>2 DEF Menor2
  <2>3. n[i] < 256
    <3>1. r[i] # n[i]
      BY <2>1, <2>2
    <3>2. QED
      BY <2>1, <3>1, ZenonT(60), ZenonT(90) DEF UmOcteto
  <2>4. QED
    BY <1>2, <2>1, <2>2, <2>3, ForaDepois
<1>5. ASSUME NEW p \in Desordem, p[1] = r \/ Abaixo(r, p[1])
      PROVE  ~ForaDaSubarvore(r, p[2])
  <2>1. p[2] \in Seq(Nat)
    BY <1>1, AgenteAssumption
  <2>2. p[2] = r \/ Abaixo(r, p[2])
    BY <1>5 DEF UmOcteto
  <2>3. QED
    BY <1>2, <2>1, <2>2, ForaSse255
<1>6. QED
  BY <1>3, <1>4, <1>5 DEF Reconhece
-------------------------------------------------------------------------------
(* The invariant of the requests and of the path.                              *)

\* How many requests ago the id x was given out, if the counter is at r now.
Idade(x, r) == IF x <= r THEN r - x ELSE r - x + Mascara - 1

\* The names after n, and at most how many requests have been made when the
\* next one is due; there is none after the loop once a row was shown.
Alem(n) == {m \in Nome : Antes(n, m)}

\* There are fewer of them after a later name, and fewer than there are ids. The
\* lemmas up to the theorems take this for granted; Distingue implies it.
Graduado ==
  \A n \in Nome :
    /\ Cardinality(Alem(n)) \in Nat /\ Cardinality(Alem(n)) + 3 <= Mascara
    /\ \A m \in Nome : Antes(n, m) => Cardinality(Alem(m)) + 1 <= Cardinality(Alem(n))

Feitos ==
  CASE pc \in {"abre", "inclui"} -> 0
    [] pc = "esperaInclui" -> 1
    [] pc = "laco" -> 1 + Cardinality(Alem(root)) - Cardinality(Alem(name))
    [] pc = "espera" -> 2 + Cardinality(Alem(root)) - Cardinality(Alem(name))
    [] pc = "depois" /\ ~imprimiu -> 2
    [] OTHER -> Mascara

\* Every id in use was given out since the walk began, and names one request.
Ids == {d.reqid : d \in ida} \cup {m.reqid : m \in volta} \cup {r.id : r \in requests}

Recentes(n) ==
  \A x \in Ids : x \in 2 .. Mascara /\ 2 <= Reqid /\ Idade(x, Reqid) < n

Unicos == \A r, q \in requests : r.id = q.id => r = q

\* The walk follows names that increase.
Rumo ==
  /\ pc \in {"abre", "inclui", "esperaInclui"} => ~imprimiu
  /\ pc \in {"abre", "inclui", "esperaInclui", "laco", "espera"} =>
       name = root \/ (imprimiu /\ Antes(root, name))

InvIds == Recentes(Feitos) /\ Unicos /\ Rumo

\* The request of the call in progress.
Comanda == IF pc = "espera" THEN "getnext" ELSE "get"
Pergunta == IF pc = "espera" THEN name ELSE root

\* The answer a belongs to the request cmd of n, at whatever moment it was given.
Responda(cmd, n, a) ==
  \/ a.errstat = "genErr"
  \/ cmd = "get" /\ a.nome = n
  \/ cmd = "getnext" /\ a.tipo = "endOfMibView" /\ \A f \in Fixas : ~Antes(n, f)
  \/ /\ cmd = "getnext" /\ a.errstat = "noError" /\ a.tipo = "valor"
     /\ \/ /\ Antes(n, a.nome)
           /\ \A f \in Fixas : Antes(n, f) => f = a.nome \/ Antes(a.nome, f)
        \/ <<n, a.nome>> \in Desordem

\* What is on the network under the id of the call in progress belongs to it,
\* and so does the answer it got.
Lida(m) == [errstat |-> m.errstat, tipo |-> m.tipo, nome |-> Decodifica(m.nome)]

Corresponde(cmd, n) ==
  /\ \A d \in ida : d.reqid = state.reqid => d.cmd = cmd /\ d.nome = Codifica(n)
  /\ \A r \in requests : r.id = state.reqid => r.cmd = cmd /\ r.nome = n
  /\ \A m \in volta : m.reqid = state.reqid => Responda(cmd, n, Lida(m))
  /\ ~state.waiting /\ state.status = "success" => Responda(cmd, n, state.pdu)

InvResposta ==
  /\ Fixas \subseteq mib
  /\ pc \in {"esperaInclui", "espera", "esperaGet"} => Corresponde(Comanda, Pergunta)

IndutivoIds == Indutivo /\ InvIds /\ InvResposta

\* What is still to come, and that there is nothing left of it.
Passou(n) == saida = <<>> \/ Antes(saida[Len(saida)], n)
NadaFalta == \A f \in Fixas : Abaixo(root, f) => ~Passou(f)

\* The loop follows the rows it shows, and is left at the end of the subtree.
InvCaminho ==
  /\ pc \in {"abre", "inclui", "esperaInclui", "laco", "espera"} =>
       /\ exitval = 0
       /\ name = root \/ Abaixo(root, name)
       /\ \/ saida = <<>> /\ name = root
          \/ saida # <<>> /\ saida[Len(saida)] = name
  /\ pc \in {"abre", "inclui", "esperaInclui", "esperaGet"} => saida = <<>>
  /\ ~imprimiu => saida = <<>>
  /\ pc \in {"depois", "esperaGet", "fecha", "fim"} /\ exitval = 0 => NadaFalta
  /\ exitval = 0 => \A f \in Fixas : Abaixo(root, f) =>
                       Passou(f) \/ \E k \in DOMAIN saida : saida[k] = f

IndutivoCaminho == IndutivoIds /\ Reconhece(root) /\ InvCaminho
-------------------------------------------------------------------------------
(* Request-ids.                                                                *)

\* The counter skips zero and one when it comes round.
LEMMA ReqidSeguinte ==
  ASSUME NEW r \in ReqId
  PROVE  snmp_get_next_reqid(r) = IF r = Mascara THEN 2 ELSE r + 1
<1>1. Mascara \in Nat /\ Mascara >= 2 /\ r \in Nat /\ 1 <= r /\ r <= Mascara
  BY SessAssumption DEF ReqId
<1>2. CASE r = Mascara
  <2>1. (r + 1) % (Mascara + 1) = 0
    BY <1>1, <1>2
  <2>2. QED
    BY <1>2, <2>1 DEF snmp_get_next_reqid
<1>3. CASE r # Mascara
  <2>1. (r + 1) % (Mascara + 1) = r + 1
    BY <1>1, <1>3
  <2>2. QED
    BY <1>1, <1>3, <2>1 DEF snmp_get_next_reqid
<1>4. QED
  BY <1>2, <1>3

\* An id that is not about to be given out again grows older by one.
LEMMA Envelhece ==
  ASSUME NEW x \in 2 .. Mascara, NEW r \in 2 .. Mascara, Idade(x, r) < Mascara - 2
  PROVE  LET s == snmp_get_next_reqid(r)
         IN  s # x /\ Idade(x, s) = Idade(x, r) + 1
<1>1. Mascara \in Nat /\ x \in Int /\ r \in Int /\ 2 <= x /\ 2 <= r
      /\ x <= Mascara /\ r <= Mascara
  BY SessAssumption
<1>2. r \in ReqId
  BY <1>1 DEF ReqId
<1>3. snmp_get_next_reqid(r) = IF r = Mascara THEN 2 ELSE r + 1
  BY <1>2, ReqidSeguinte
<1>4. QED
  BY <1>1, <1>3 DEF Idade

\* What is in use.
LEMMA IdsEh ==
  ASSUME NEW x
  PROVE  /\ x \in Ids <=> \/ \E d \in ida : d.reqid = x
                          \/ \E m \in volta : m.reqid = x
                          \/ \E r \in requests : r.id = x
         /\ x \in Ids' <=> \/ \E d \in ida' : d.reqid = x
                           \/ \E m \in volta' : m.reqid = x
                           \/ \E r \in requests' : r.id = x
BY ZenonT(60), ZenonT(90) DEF Ids

\* A request gets an id that nothing else has.
LEMMA EnvioNovo ==
  ASSUME Sessao, NEW n \in Nat, n <= Mascara - 2, Recentes(n), Unicos,
         NEW cmd \in Comando, NEW nome \in Nome, snmp_send(cmd, nome)
  PROVE  Recentes(n + 1)' /\ Unicos' /\ Corresponde(cmd, nome)'
<1> DEFINE s == snmp_get_next_reqid(Reqid)
           r == [id |-> s, cmd |-> cmd, nome |-> nome,
                 retries |-> 0, resta |-> Timeout]
<1>1. Mascara \in Nat /\ Mascara >= 2 /\ Reqid \in ReqId
  BY SessAssumption DEF Sessao, SessTypeOK
<1>2. s \in 2 .. Mascara
  <2>1. s = IF Reqid = Mascara THEN 2 ELSE Reqid + 1
    BY <1>1, ReqidSeguinte
  <2>2. QED
    BY <1>1, <2>1 DEF ReqId
<1>3. \A x \in Ids : s # x /\ Idade(x, s) < n + 1
  <2> SUFFICES ASSUME NEW x \in Ids PROVE s # x /\ Idade(x, s) < n + 1
    OBVIOUS
  <2>1. /\ x \in 2 .. Mascara /\ Reqid \in 2 .. Mascara /\ Idade(x, Reqid) < n
        /\ Idade(x, Reqid) \in Int
    BY <1>1 DEF Recentes, ReqId, Idade
  <2>2. s # x /\ Idade(x, s) = Idade(x, Reqid) + 1
    BY <1>1, <2>1, Envelhece
  <2>3. QED
    BY <2>1, <2>2
<1>4. Idade(s, s) = 0
  BY <1>2 DEF Idade
<1>5. r.id = s /\ r.cmd = cmd /\ r.nome = nome
  OBVIOUS
<1>6. /\ Reqid' = s /\ volta' = volta
      /\ requests' \in {requests, requests \cup {r}}
      /\ ida' \in {ida, ida \cup {Datagrama(r)}}
      /\ \/ /\ state'.reqid = s /\ state'.waiting
         \/ /\ state'.reqid = 0 /\ state'.status = "error"
  <2> HIDE DEF r
  <2>1. /\ Reqid' = r.id /\ volta' = volta
        /\ \/ /\ ida' = ida \cup {Datagrama(r)}
              /\ requests' = requests \cup {r}
              /\ state' = [reqid |-> r.id, waiting |-> TRUE,
                           status |-> "success", pdu |-> Nulo]
           \/ /\ ida' = ida \/ ida' = ida \cup {Datagrama(r)}
              /\ state' = [reqid |-> 0, waiting |-> FALSE,
                           status |-> "error", pdu |-> Nulo]
              /\ requests' = requests
    BY ZenonT(60), ZenonT(90) DEF snmp_send, r, s
  <2>2. state' = [reqid |-> r.id, waiting |-> TRUE,
                  status |-> "success", pdu |-> Nulo]
          => state'.reqid = r.id /\ state'.waiting
    OBVIOUS
  <2>3. state' = [reqid |-> 0, waiting |-> FALSE,
                  status |-> "error", pdu |-> Nulo]
          => state'.reqid = 0 /\ state'.status = "error"
    OBVIOUS
  <2>4. r.id = s
    BY <1>5
  <2>5. QED
    BY <2>1, <2>2, <2>3, <2>4
<1>7. Datagrama(r).reqid = s /\ Datagrama(r).cmd = cmd
      /\ Datagrama(r).nome = Codifica(nome)
  BY <1>5 DEF Datagrama
<1> HIDE DEF s, r
<1>8. \A x \in Ids' : x \in Ids \/ x = s
  BY <1>5, <1>6, <1>7, IdsEh
<1>9. Recentes(n + 1)'
  <2>1. \A x \in Ids : x \in 2 .. Mascara
    BY DEF Recentes
  <2>2. 2 <= s
    BY <1>2
  <2>3. \A x \in Ids' : x \in 2 .. Mascara /\ 2 <= Reqid' /\ Idade(x, Reqid') < n + 1
    BY <1>2, <1>3, <1>4, <1>6, <1>8, <2>1, <2>2
  <2>4. QED
    BY <2>3 DEF Recentes
<1>10. Unicos'
  <2>1. \A q \in requests : q.id # s
    BY <1>3, IdsEh
  <2>2. QED
    BY <1>5, <1>6, <2>1 DEF Unicos
<1>11. Corresponde(cmd, nome)'
  <2>1. \A d \in ida : d.reqid # s
    BY <1>3, IdsEh
  <2>2. \A q \in requests : q.id # s
    BY <1>3, IdsEh
  <2>3. \A m \in volta : m.reqid # s
    BY <1>3, IdsEh
  <2>4. /\ \A d \in ida : d.reqid # 0
        /\ \A q \in requests : q.id # 0
        /\ \A m \in volta : m.reqid # 0
    BY <1>1 DEF Sessao, SessTypeOK, ReqId
  <2>5. s # 0
    BY <1>2
  <2>6. \A d \in ida' : d.reqid = state'.reqid =>
          d.cmd = cmd /\ d.nome = Codifica(nome)
    BY <1>6, <1>7, <2>1, <2>4, <2>5
  <2>7. \A q \in requests' : q.id = state'.reqid => q.cmd = cmd /\ q.nome = nome
    BY <1>5, <1>6, <2>2, <2>4, <2>5
  <2>8. \A m \in volta' : m.reqid # state'.reqid
    BY <1>6, <2>3, <2>4
  <2>9. ~(~state'.waiting /\ state'.status = "success")
    BY <1>6
  <2>10. QED
    BY <2>6, <2>7, <2>8, <2>9, ZenonT(60), ZenonT(90) DEF Corresponde
<1>12. QED
  BY <1>9, <1>10, <1>11
-------------------------------------------------------------------------------
(* The session keeps a call and what belongs to it together.                   *)

\* What a step of the session or of the network leaves as it is.
Mantem ==
  /\ Ids' \subseteq Ids /\ Reqid' = Reqid /\ Unicos'
  /\ \A cmd, n : Corresponde(cmd, n) => Corresponde(cmd, n)'

\* A datagram is read.
LEMMA ReadMantem ==
  ASSUME Sessao, Unicos, NEW m \in volta, snmp_read(m)
  PROVE  Mantem
<1>1. /\ volta' = volta \ {m} /\ Reqid' = Reqid /\ ida' = ida
      /\ \/ /\ m.reqid = state.reqid
            /\ requests' = {r \in requests : r.id # m.reqid}
            /\ state' = Recebida(m)
         \/ requests' = requests /\ state' = state
  BY DEF snmp_read
<1>2. requests' \subseteq requests /\ volta' \subseteq volta
  BY <1>1
<1>3. Recebida(m).reqid = state.reqid /\ Recebida(m).pdu = Lida(m)
  BY DEF Recebida, Lida, Sessao, SessTypeOK
<1>4. Ids' \subseteq Ids
  BY <1>1, <1>2, IdsEh
<1>5. Unicos'
  BY <1>2 DEF Unicos
<1>6. ASSUME NEW cmd, NEW n, Corresponde(cmd, n)
      PROVE  Corresponde(cmd, n)'
  <2>1. state'.reqid = state.reqid
    BY <1>1, <1>3
  <2>2. ~state'.waiting /\ state'.status = "success" => Responda(cmd, n, state'.pdu)
    <3>1. CASE m.reqid = state.reqid /\ state' = Recebida(m)
      BY <1>3, <1>6, <3>1 DEF Corresponde
    <3>2. CASE state' = state
      BY <1>6, <3>2 DEF Corresponde
    <3>3. QED
      BY <1>1, <3>1, <3>2
  <2>3. QED
    BY <1>1, <1>2, <1>6, <2>1, <2>2, ZenonT(60), ZenonT(90)
    DEF Corresponde, Responda, Lida
<1>7. QED
  BY <1>1, <1>4, <1>5, <1>6 DEF Mantem

\* Requests are sent again, counted or given up.
LEMMA TrataMantem ==
  ASSUME Sessao, Unicos, state.waiting, UNCHANGED <<Reqid, volta>>,
         NEW feitos \in SUBSET requests, NEW falhos \in SUBSET requests,
         feitos \cap falhos = {}, Trata(feitos, falhos)
  PROVE  Mantem
<1> DEFINE reenviados == {r \in feitos : r.retries < Retries}
           Conte(r) == [r EXCEPT !.retries = @ + 1]
<1>1. /\ requests' = (requests \ (feitos \cup falhos))
                     \cup {Reenvia(r) : r \in reenviados}
                     \cup {Conte(r) : r \in falhos}
      /\ ida' = ida \cup {Datagrama(r) : r \in reenviados}
      /\ state' \in {Esgotada, state}
  BY DEF Trata
<1>2. requests \subseteq Requisicao
  BY DEF Sessao, SessTypeOK, Requisicao
<1>3. \A r \in requests : /\ Reenvia(r).id = r.id /\ Reenvia(r).cmd = r.cmd
                          /\ Reenvia(r).nome = r.nome
                          /\ Conte(r).id = r.id /\ Conte(r).cmd = r.cmd
                          /\ Conte(r).nome = r.nome
  BY <1>2 DEF Reenvia, Requisicao
<1>4. \A r \in requests : /\ Datagrama(r).reqid = r.id /\ Datagrama(r).cmd = r.cmd
                          /\ Datagrama(r).nome = Codifica(r.nome)
  BY DEF Datagrama
<1>5. Esgotada.reqid = state.reqid /\ Esgotada.status = "timeout"
  BY DEF Esgotada, Sessao, SessTypeOK
<1>6. reenviados \subseteq requests /\ reenviados \subseteq feitos
  OBVIOUS
<1> HIDE DEF Conte, reenviados
<1>7. \A q \in requests' : \E r \in requests :
        /\ r.id = q.id /\ r.cmd = q.cmd /\ r.nome = q.nome
        /\ \/ r \notin feitos \cup falhos /\ q = r
           \/ r \in feitos /\ q = Reenvia(r)
           \/ r \in falhos /\ q = Conte(r)
  <2> SUFFICES ASSUME NEW q \in requests'
               PROVE  \E r \in requests :
                        /\ r.id = q.id /\ r.cmd = q.cmd /\ r.nome = q.nome
                        /\ \/ r \notin feitos \cup falhos /\ q = r
                           \/ r \in feitos /\ q = Reenvia(r)
                           \/ r \in falhos /\ q = Conte(r)
    OBVIOUS
  <2>1. CASE q \in requests \ (feitos \cup falhos)
    BY <2>1
  <2>2. CASE \E r \in reenviados : q = Reenvia(r)
    BY <1>3, <1>6, <2>2
  <2>3. CASE \E r \in falhos : q = Conte(r)
    BY <1>3, <2>3
  <2>4. QED
    BY <1>1, <2>1, <2>2, <2>3
<1>8. \A d \in ida' : d \in ida \/ \E r \in requests : d = Datagrama(r)
  BY <1>1, <1>6
<1>9. Ids' \subseteq Ids
  BY <1>4, <1>7, <1>8, IdsEh
<1>10. Unicos'
  <2> SUFFICES ASSUME NEW p \in requests', NEW q \in requests', p.id = q.id
               PROVE  p = q
    BY DEF Unicos
  <2>1. PICK r \in requests :
          /\ r.id = p.id
          /\ \/ r \notin feitos \cup falhos /\ p = r
             \/ r \in feitos /\ p = Reenvia(r)
             \/ r \in falhos /\ p = Conte(r)
    BY <1>7
  <2>2. PICK t \in requests :
          /\ t.id = q.id
          /\ \/ t \notin feitos \cup falhos /\ q = t
             \/ t \in feitos /\ q = Reenvia(t)
             \/ t \in falhos /\ q = Conte(t)
    BY <1>7
  <2>3. r = t
    BY <2>1, <2>2 DEF Unicos
  <2>4. QED
    BY <2>1, <2>2, <2>3
<1>11. ASSUME NEW cmd, NEW n, Corresponde(cmd, n)
       PROVE  Corresponde(cmd, n)'
  <2>1. state'.reqid = state.reqid
    BY <1>1, <1>5
  <2>2. ~(~state'.waiting /\ state'.status = "success")
    BY <1>1, <1>5
  <2>3. \A r \in requests : r.id = state.reqid => r.cmd = cmd /\ r.nome = n
    BY <1>11 DEF Corresponde
  <2>4. \A q \in requests' : q.id = state'.reqid => q.cmd = cmd /\ q.nome = n
    BY <1>7, <2>1, <2>3
  <2>5. \A d \in ida : d.reqid = state.reqid => d.cmd = cmd /\ d.nome = Codifica(n)
    BY <1>11 DEF Corresponde
  <2>6. \A d \in ida' : d.reqid = state'.reqid => d.cmd = cmd /\ d.nome = Codifica(n)
    BY <1>4, <1>8, <2>1, <2>3, <2>5
  <2>7. QED
    BY <1>11, <2>1, <2>2, <2>4, <2>6, ZenonT(60), ZenonT(90)
    DEF Corresponde, Responda, Lida
<1>12. QED
  BY <1>9, <1>10, <1>11 DEF Mantem

\* A turn of the waiting loop.
LEMMA SelectMantem ==
  ASSUME Sessao, Unicos, Select
  PROVE  Mantem
<1>1. CASE \E m \in volta : snmp_read(m)
  BY <1>1, ReadMantem
<1>2. CASE snmp_sess_timeout
  <2>1. \E feitos \in SUBSET Vencidos, falhos \in SUBSET Vencidos :
          feitos \cap falhos = {} /\ Trata(feitos, falhos)
    <3>1. CASE Trata(Vencidos, {})
      BY <3>1, ZenonT(60), ZenonT(90)
    <3>2. ASSUME NEW f \in {r \in Vencidos : r.retries < Retries},
                 NEW feitos \in SUBSET (Vencidos \ {f}), Trata(feitos, {f})
          PROVE  \E g \in SUBSET Vencidos, h \in SUBSET Vencidos :
                   g \cap h = {} /\ Trata(g, h)
      <4>1. feitos \in SUBSET Vencidos /\ {f} \in SUBSET Vencidos /\ feitos \cap {f} = {}
        OBVIOUS
      <4>2. QED
        BY <3>2, <4>1, ZenonT(60), ZenonT(90)
    <3>3. QED
      BY <1>2, <3>1, <3>2, ZenonT(60), ZenonT(90) DEF snmp_sess_timeout
  <2>2. PICK feitos \in SUBSET Vencidos, falhos \in SUBSET Vencidos :
          feitos \cap falhos = {} /\ Trata(feitos, falhos)
    BY <2>1, ZenonT(60), ZenonT(90)
  <2>3. state.waiting /\ UNCHANGED <<Reqid, volta>>
    BY <1>2 DEF Select, snmp_sess_timeout
  <2>4. feitos \in SUBSET requests /\ falhos \in SUBSET requests
    BY DEF Vencidos
  <2>5. QED
    BY <2>2, <2>3, <2>4, TrataMantem, ZenonT(60), ZenonT(90)
<1>3. CASE ErroSelect
  <2>1. /\ state'.reqid = state.reqid /\ state'.status = "error"
        /\ UNCHANGED <<Reqid, requests, ida, volta>>
    BY <1>3 DEF ErroSelect, Sessao, SessTypeOK
  <2>2. Ids' \subseteq Ids /\ Unicos'
    BY <2>1 DEF Ids, Unicos
  <2>3. \A cmd, n : Corresponde(cmd, n) => Corresponde(cmd, n)'
    BY <2>1, ZenonT(60), ZenonT(90) DEF Corresponde, Responda, Lida
  <2>4. QED
    BY <2>1, <2>2, <2>3 DEF Mantem
<1>4. QED
  BY <1>1, <1>2, <1>3 DEF Select

\* The clock.
LEMMA TickMantem ==
  ASSUME Sessao, Unicos, Tick
  PROVE  Mantem
<1> DEFINE Desconta(r) == [r EXCEPT !.resta = @ - 1]
<1>1. /\ state.waiting /\ UNCHANGED <<Reqid, state, ida, volta>>
      /\ requests' = {Desconta(r) : r \in requests}
  BY DEF Tick
<1>2. requests \subseteq Requisicao
  BY DEF Sessao, SessTypeOK, Requisicao
<1>3. \A r \in requests : /\ Desconta(r).id = r.id /\ Desconta(r).cmd = r.cmd
                          /\ Desconta(r).nome = r.nome
  BY <1>2 DEF Requisicao
<1> HIDE DEF Desconta
<1>4. Ids' \subseteq Ids
  BY <1>1, <1>3, IdsEh
<1>5. Unicos'
  BY <1>1, <1>3 DEF Unicos
<1>6. ASSUME NEW cmd, NEW n, Corresponde(cmd, n)
      PROVE  Corresponde(cmd, n)'
  <2>1. \A q \in requests' : q.id = state'.reqid => q.cmd = cmd /\ q.nome = n
    BY <1>1, <1>3, <1>6 DEF Corresponde
  <2>2. QED
    BY <1>1, <1>6, <2>1, ZenonT(60), ZenonT(90) DEF Corresponde, Responda, Lida
<1>7. QED
  BY <1>1, <1>4, <1>5, <1>6 DEF Mantem

\* What the agent answers belongs to the request, whenever the answer arrives.
LEMMA AgenteResponde ==
  ASSUME Fixas \subseteq mib, NEW d, d.cmd \in Comando, NEW a \in Respostas(d)
  PROVE  Responda(d.cmd, Decodifica(d.nome), a)
<1> DEFINE n == Decodifica(d.nome)
<1>1. CASE a \in {[errstat |-> "genErr", tipo |-> "noSuchInstance", nome |-> e] :
                     e \in ComErro \cap {n}}
  BY <1>1 DEF Responda
<1>2. CASE d.cmd = "get" /\ a \in RespostaGet(n)
  BY <1>2 DEF Responda, RespostaGet
<1> HIDE DEF n
<1>3. CASE d.cmd = "getnext" /\ a \in RespostaGetNext(n)
  <2>1. CASE Depois(n) = {} /\ a.tipo = "endOfMibView"
    <3>1. \A f \in Fixas : ~Antes(n, f)
      BY <2>1 DEF Depois
    <3>2. QED
      BY <1>3, <2>1, <3>1 DEF Responda, n
  <2>2. CASE \E i \in MenoresDe(Depois(n)) :
               a = [errstat |-> "noError", tipo |-> "valor", nome |-> i]
    <3>1. PICK i \in MenoresDe(Depois(n)) :
               a = [errstat |-> "noError", tipo |-> "valor", nome |-> i]
      BY <2>2
    <3>2. a.errstat = "noError" /\ a.tipo = "valor" /\ a.nome = i
      BY <3>1
    <3>3. Antes(n, i) /\ \A f \in Fixas : Antes(n, f) => f = i \/ Antes(i, f)
      BY ZenonT(60), ZenonT(90) DEF MenoresDe, Depois
    <3>4. QED
      BY <1>3, <3>2, <3>3 DEF Responda, n
  <2>3. CASE \E p \in Desordem :
               p[1] = n /\ a = [errstat |-> "noError", tipo |-> "valor", nome |-> p[2]]
    <3>1. PICK p \in Desordem :
               p[1] = n /\ a = [errstat |-> "noError", tipo |-> "valor", nome |-> p[2]]
      BY <2>3
    <3>2. a.errstat = "noError" /\ a.tipo = "valor" /\ a.nome = p[2]
      BY <3>1
    <3>3. p = <<n, p[2]>>
      BY <3>1, AgenteAssumption
    <3>4. QED
      BY <1>3, <3>2, <3>3 DEF Responda, n
  <2>4. QED
    BY <1>3, <2>1, <2>2, <2>3 DEF RespostaGetNext
<1>4. QED
  BY <1>1, <1>2, <1>3 DEF Respostas, Comando, n

\* The agent's steps.
LEMMA MundoMantem ==
  ASSUME Indutivo, Distingue, Fixas \subseteq mib, Unicos, Mundo
  PROVE  /\ Fixas \subseteq mib' /\ Ids' \subseteq Ids /\ Reqid' = Reqid /\ Unicos'
         /\ \A cmd, n : n \in Nome /\ Corresponde(cmd, n) => Corresponde(cmd, n)'
<1>1. Sessao /\ mib \subseteq Nome
  BY Partes
<1>2. CASE MudaMib
  <2>1. UNCHANGED sessVars /\ \E i \in Moveis : mib \ {i} \subseteq mib'
    BY <1>2 DEF MudaMib
  <2>2. Fixas \subseteq mib'
    BY <2>1, AgenteAssumption
  <2>3. UNCHANGED <<Reqid, requests, state, ida, volta>>
    BY <2>1 DEF sessVars
  <2>4. Ids' \subseteq Ids /\ Unicos'
    BY <2>3 DEF Ids, Unicos
  <2>5. \A cmd, n : Corresponde(cmd, n) => Corresponde(cmd, n)'
    BY <2>3, ZenonT(60), ZenonT(90) DEF Corresponde, Responda, Lida
  <2>6. QED
    BY <2>2, <2>3, <2>4, <2>5
<1>3. CASE Responde
  <2>1. PICK d \in ida : \E a \in Respostas(d) :
          /\ Codifica(a.nome) # Invalido
          /\ volta' = volta \cup {[reqid |-> d.reqid, errstat |-> a.errstat,
                                   tipo |-> a.tipo, nome |-> Codifica(a.nome)]}
    BY <1>3 DEF Responde
  <2>2. PICK a \in Respostas(d) :
          /\ Codifica(a.nome) # Invalido
          /\ volta' = volta \cup {[reqid |-> d.reqid, errstat |-> a.errstat,
                                   tipo |-> a.tipo, nome |-> Codifica(a.nome)]}
    BY <2>1
  <2>3. UNCHANGED <<Reqid, requests, state, ida, mib>>
    BY <1>3 DEF Responde
  <2>4. d.cmd \in Comando /\ d.nome \in Octs /\ Decodifica(d.nome) \in Nome
    BY <1>1, SessAssumption DEF Sessao
  <2>5. a.nome \in Nome
    BY <1>1, <2>4, RespostaTipo
  <2>6. Decodifica(Codifica(a.nome)) = a.nome
    BY <2>2, <2>5 DEF Distingue
  <2>7. Responda(d.cmd, Decodifica(d.nome), a)
    BY <2>4, AgenteResponde
  <2> DEFINE m == [reqid |-> d.reqid, errstat |-> a.errstat,
                   tipo |-> a.tipo, nome |-> Codifica(a.nome)]
  <2>8. /\ m.reqid = d.reqid /\ Lida(m).errstat = a.errstat
        /\ Lida(m).tipo = a.tipo /\ Lida(m).nome = a.nome
    BY <2>6 DEF Lida
  <2>9. volta' = volta \cup {m}
    BY <2>2
  <2> HIDE DEF m
  <2>10. Ids' \subseteq Ids
    BY <2>3, <2>8, <2>9, IdsEh
  <2>11. Unicos'
    BY <2>3 DEF Unicos
  <2>12. ASSUME NEW cmd, NEW n \in Nome, Corresponde(cmd, n)
         PROVE  Corresponde(cmd, n)'
    <3>1. d.reqid = state.reqid => Responda(cmd, n, Lida(m))
      <4> SUFFICES ASSUME d.reqid = state.reqid PROVE Responda(cmd, n, Lida(m))
        OBVIOUS
      <4>1. d.cmd = cmd /\ d.nome = Codifica(n)
        BY <2>12 DEF Corresponde
      <4>2. Decodifica(d.nome) = n
        BY <2>4, <4>1 DEF Distingue, Octs
      <4>3. Responda(cmd, n, a)
        BY <2>7, <4>1, <4>2
      <4>4. QED
        BY <2>8, <4>3 DEF Responda
    <3>2. \A x \in volta' : x.reqid = state'.reqid => Responda(cmd, n, Lida(x))
      BY <2>3, <2>8, <2>9, <2>12, <3>1 DEF Corresponde
    <3>3. QED
      BY <2>3, <2>12, <3>2, ZenonT(60), ZenonT(90) DEF Corresponde, Responda, Lida
  <2>13. QED
    BY <2>3, <2>10, <2>11, <2>12
<1>4. QED
  BY <1>2, <1>3 DEF Mundo
-------------------------------------------------------------------------------
(* The number of requests.                                                     *)

\* Being among the last n, an id is among the last k if k is greater.
LEMMA RecentesMais ==
  ASSUME NEW n \in Int, NEW k \in Int, n <= k, Recentes(n), Mascara \in Nat,
         Ids' \subseteq Ids, Reqid' = Reqid, Reqid \in Int
  PROVE  Recentes(k)'
<1> SUFFICES ASSUME NEW x \in Ids'
             PROVE  x \in 2 .. Mascara /\ 2 <= Reqid' /\ Idade(x, Reqid') < k
  BY DEF Recentes
<1>1. x \in 2 .. Mascara /\ 2 <= Reqid /\ Idade(x, Reqid) < n
  BY DEF Recentes
<1>2. Idade(x, Reqid) \in Int
  BY <1>1 DEF Idade
<1>3. QED
  BY <1>1, <1>2

\* The bound on the requests made, where main is.
LEMMA FeitosEh ==
  ASSUME Distingue, Graduado, Indutivo, InvIds
  PROVE  LET C(n) == Cardinality(Alem(n))
         IN  /\ C(root) \in Nat /\ C(name) \in Nat /\ C(root) + 3 <= Mascara
             /\ Mascara \in Nat /\ 4 <= Mascara
             /\ pc \in {"abre", "inclui", "esperaInclui", "laco", "espera"} =>
                  C(name) <= C(root)
             /\ Feitos \in Nat /\ Feitos <= Mascara
             /\ pc \in {"abre", "inclui"} => Feitos = 0
             /\ pc = "esperaInclui" => Feitos = 1
             /\ pc = "laco" => Feitos = 1 + C(root) - C(name)
             /\ pc = "espera" => Feitos = 2 + C(root) - C(name)
             /\ pc = "depois" /\ ~imprimiu => Feitos = 2
             /\ pc = "depois" /\ imprimiu => Feitos = Mascara
             /\ pc \in {"esperaGet", "fecha", "fim"} => Feitos = Mascara
<1> DEFINE C(n) == Cardinality(Alem(n))
<1>1. root \in Nome /\ name \in Nome
  BY WalkAssumption DEF Indutivo, TypeOK
<1>2. C(root) \in Nat /\ C(name) \in Nat /\ C(root) + 3 <= Mascara
  BY <1>1 DEF Graduado
<1>3. Mascara \in Nat /\ 4 <= Mascara
  BY SessAssumption DEF Distingue
<1>4. pc \in {"abre", "inclui", "esperaInclui", "laco", "espera"} => C(name) <= C(root)
  <2>1. CASE name = root
    BY <1>2, <2>1
  <2>2. CASE Antes(root, name)
    <3>1. C(name) + 1 <= C(root)
      BY <1>1, <2>2 DEF Graduado
    <3>2. QED
      BY <1>2, <3>1
  <2>3. QED
    BY <2>1, <2>2 DEF InvIds, Rumo
<1>5. pc \in {"abre", "inclui", "esperaInclui", "laco", "espera", "depois",
              "esperaGet", "fecha", "fim"}
  BY DEF Indutivo, TypeOK
<1> HIDE DEF C
<1>6. Feitos = CASE pc \in {"abre", "inclui"} -> 0
                 [] pc = "esperaInclui" -> 1
                 [] pc = "laco" -> 1 + C(root) - C(name)
                 [] pc = "espera" -> 2 + C(root) - C(name)
                 [] pc = "depois" /\ ~imprimiu -> 2
                 [] OTHER -> Mascara
  BY DEF Feitos, C
<1>7. /\ pc \in {"abre", "inclui"} => Feitos = 0
      /\ pc = "esperaInclui" => Feitos = 1
      /\ pc = "laco" => Feitos = 1 + C(root) - C(name)
      /\ pc = "espera" => Feitos = 2 + C(root) - C(name)
      /\ pc = "depois" /\ ~imprimiu => Feitos = 2
      /\ pc = "depois" /\ imprimiu => Feitos = Mascara
      /\ pc \in {"esperaGet", "fecha", "fim"} => Feitos = Mascara
  BY <1>6
<1>8. Feitos \in Nat /\ Feitos <= Mascara
  BY <1>2, <1>3, <1>4, <1>5, <1>7
<1>9. QED
  BY <1>2, <1>3, <1>4, <1>7, <1>8 DEF C

\* The same of the next state.
LEMMA FeitosNovo ==
  LET C(n) == Cardinality(Alem(n))
  IN  /\ pc' = "inclui" => Feitos' = 0
      /\ pc' = "esperaInclui" => Feitos' = 1
      /\ pc' = "laco" => Feitos' = 1 + C(root') - C(name')
      /\ pc' = "espera" => Feitos' = 2 + C(root') - C(name')
      /\ pc' = "depois" /\ ~imprimiu' => Feitos' = 2
      /\ pc' = "depois" /\ imprimiu' => Feitos' = Mascara
      /\ pc' \in {"esperaGet", "fecha", "fim"} => Feitos' = Mascara
<1> DEFINE C(n) == Cardinality(Alem(n))
<1>1. Feitos' = CASE pc' \in {"abre", "inclui"} -> 0
                  [] pc' = "esperaInclui" -> 1
                  [] pc' = "laco" -> 1 + C(root') - C(name')
                  [] pc' = "espera" -> 2 + C(root') - C(name')
                  [] pc' = "depois" /\ ~imprimiu' -> 2
                  [] OTHER -> Mascara
  BY DEF Feitos, Alem
<1> HIDE DEF C
<1>2. /\ pc' = "inclui" => Feitos' = 0
      /\ pc' = "esperaInclui" => Feitos' = 1
      /\ pc' = "laco" => Feitos' = 1 + C(root') - C(name')
      /\ pc' = "espera" => Feitos' = 2 + C(root') - C(name')
      /\ pc' = "depois" /\ ~imprimiu' => Feitos' = 2
      /\ pc' = "depois" /\ imprimiu' => Feitos' = Mascara
      /\ pc' \in {"esperaGet", "fecha", "fim"} => Feitos' = Mascara
  BY <1>1
<1>3. QED
  BY <1>2 DEF C

\* A step that sends nothing keeps the ids recent, if the bound does not fall.
LEMMA IdsFicam ==
  ASSUME Distingue, Graduado, Indutivo, InvIds, Ids' \subseteq Ids, Reqid' = Reqid,
         Feitos' \in Int, Feitos <= Feitos'
  PROVE  Recentes(Feitos)'
<1>1. Mascara \in Nat /\ Reqid \in Int
  BY SessAssumption DEF Indutivo, TypeOK, SessTypeOK, ReqId
<1>2. Feitos \in Int
  BY FeitosEh
<1>3. PICK n \in Int : n = Feitos
  BY <1>2
<1>4. PICK k \in Int : k = Feitos'
  OBVIOUS
<1>5. Recentes(n)
  BY <1>3 DEF InvIds
<1>6. n <= k
  BY <1>3, <1>4
<1>7. Recentes(k)'
  BY <1>1, <1>5, <1>6, RecentesMais
<1>8. QED
  BY <1>4, <1>7 DEF Recentes

\* A request is sent: n requests were made before it.
LEMMA IdsCrescem ==
  ASSUME Distingue, Graduado, Indutivo, InvIds, Feitos <= Mascara - 2,
         NEW cmd \in Comando, NEW nome \in Nome, snmp_send(cmd, nome),
         Feitos' \in Int, Feitos + 1 <= Feitos'
  PROVE  Recentes(Feitos)' /\ Unicos' /\ Corresponde(cmd, nome)'
<1>1. Sessao
  BY Partes
<1>2. Feitos \in Nat
  BY FeitosEh
<1>3. PICK n \in Nat : n = Feitos
  BY <1>2
<1>4. Recentes(n) /\ Unicos /\ n <= Mascara - 2
  BY <1>3 DEF InvIds
<1>5. Recentes(n + 1)' /\ Unicos' /\ Corresponde(cmd, nome)'
  BY <1>1, <1>4, EnvioNovo
<1>6. Reqid' \in Int /\ Mascara \in Nat
  <2>1. Reqid' \in ReqId
    BY <1>1, ReqidTipo DEF snmp_send, Sessao, SessTypeOK
  <2>2. QED
    BY <2>1, SessAssumption DEF ReqId
<1>7. \A x \in Ids' : x \in 2 .. Mascara /\ 2 <= Reqid' /\ Idade(x, Reqid') < Feitos'
  <2> SUFFICES ASSUME NEW x \in Ids'
               PROVE  x \in 2 .. Mascara /\ 2 <= Reqid' /\ Idade(x, Reqid') < Feitos'
    OBVIOUS
  <2>1. x \in 2 .. Mascara /\ 2 <= Reqid' /\ Idade(x, Reqid') < n + 1
    BY <1>5 DEF Recentes
  <2>2. Idade(x, Reqid') \in Int
    <3>1. x \in Int
      BY <1>6, <2>1
    <3>2. \A q \in Int : q - x \in Int /\ q - x + Mascara - 1 \in Int
      BY <1>6, <3>1
    <3>3. QED
      BY <1>6, <3>2, ZenonT(60), ZenonT(90) DEF Idade
  <2>3. QED
    BY <1>3, <2>1, <2>2
<1>8. QED
  BY <1>5, <1>7 DEF Recentes

\* The steps of main.
LEMMA ProcessoIds ==
  ASSUME Distingue, Graduado, IndutivoIds, Processo
  PROVE  InvIds' /\ InvResposta'
<1> DEFINE C(n) == Cardinality(Alem(n))
<1>1. Indutivo /\ InvIds /\ InvResposta
  BY DEF IndutivoIds
<1>2. /\ C(root) \in Nat /\ C(name) \in Nat /\ C(root) + 3 <= Mascara
      /\ Mascara \in Nat /\ 4 <= Mascara
      /\ pc \in {"abre", "inclui", "esperaInclui", "laco", "espera"} => C(name) <= C(root)
      /\ Feitos \in Nat /\ Feitos <= Mascara
  BY <1>1, FeitosEh
<1>3. /\ pc \in {"abre", "inclui"} => Feitos = 0
      /\ pc = "esperaInclui" => Feitos = 1
      /\ pc = "laco" => Feitos = 1 + C(root) - C(name)
      /\ pc = "espera" => Feitos = 2 + C(root) - C(name)
      /\ pc = "depois" /\ ~imprimiu => Feitos = 2
      /\ pc = "depois" /\ imprimiu => Feitos = Mascara
      /\ pc \in {"esperaGet", "fecha", "fim"} => Feitos = Mascara
  BY <1>1, FeitosEh
<1>4. /\ pc' = "inclui" => Feitos' = 0
      /\ pc' = "esperaInclui" => Feitos' = 1
      /\ pc' = "laco" => Feitos' = 1 + C(root') - C(name')
      /\ pc' = "espera" => Feitos' = 2 + C(root') - C(name')
      /\ pc' = "depois" /\ ~imprimiu' => Feitos' = 2
      /\ pc' = "depois" /\ imprimiu' => Feitos' = Mascara
      /\ pc' \in {"esperaGet", "fecha", "fim"} => Feitos' = Mascara
  BY FeitosNovo
<1> HIDE DEF C
<1>5. Rumo /\ Unicos /\ Fixas \subseteq mib
  BY <1>1 DEF Rumo, InvIds, InvResposta
<1>6. root \in Nome /\ name \in Nome /\ imprimiu \in BOOLEAN
  BY <1>1, WalkAssumption DEF Indutivo, TypeOK
<1>7. ASSUME Ids' \subseteq Ids, Reqid' = Reqid, Unicos', Rumo', Fixas \subseteq mib',
             Feitos' \in Int, Feitos <= Feitos',
             pc' \notin {"esperaInclui", "espera", "esperaGet"}
      PROVE  InvIds' /\ InvResposta'
  <2>1. Recentes(Feitos)'
    BY <1>1, <1>7, IdsFicam
  <2>2. QED
    BY <1>7, <2>1 DEF InvIds, InvResposta, Rumo
<1>8. UNCHANGED <<Reqid, requests, ida, volta, mib>> =>
        Ids' \subseteq Ids /\ Reqid' = Reqid /\ Unicos' /\ Fixas \subseteq mib'
  BY <1>5 DEF Ids, Unicos
<1>9. CASE Abre
  <2>1. /\ UNCHANGED <<Reqid, requests, ida, volta, mib, root, name, imprimiu>>
        /\ pc = "abre" /\ pc' \in {"inclui", "laco", "fim"}
    BY <1>9 DEF Abre, sessVars
  <2>2. ~imprimiu /\ name = root
    BY <1>5, <2>1 DEF Rumo
  <2>3. name' = root' /\ imprimiu' = imprimiu
    BY <2>1, <2>2
  <2>4. Rumo'
    BY <2>2, <2>3, ZenonT(60), ZenonT(90) DEF Rumo
  <2>5. Feitos' \in Int /\ Feitos <= Feitos'
    BY <1>2, <1>3, <1>4, <2>1, <2>2
  <2>6. QED
    BY <1>7, <1>8, <2>1, <2>4, <2>5
<1>10. CASE PedeGet
  <2>1. /\ UNCHANGED <<mib, root, name, imprimiu>> /\ snmp_send("get", root)
        /\ \/ pc = "inclui" /\ pc' = "esperaInclui"
           \/ pc = "depois" /\ ~imprimiu /\ pc' = "esperaGet"
    BY <1>10 DEF PedeGet
  <2>2. Feitos <= Mascara - 2 /\ Feitos' \in Int /\ Feitos + 1 <= Feitos'
    BY <1>2, <1>3, <1>4, <2>1
  <2>3. PICK n \in Nome : n = root
    BY <1>6
  <2>4. snmp_send("get", n) /\ "get" \in Comando
    BY <2>1, <2>3 DEF Comando
  <2>5. Recentes(Feitos)' /\ Unicos' /\ Corresponde("get", n)'
    BY <1>1, <2>2, <2>4, IdsCrescem
  <2>6. Comanda' = "get" /\ Pergunta' = n
    BY <2>1, <2>3 DEF Comanda, Pergunta
  <2>7. Corresponde(Comanda, Pergunta)'
    BY <2>5, <2>6 DEF Corresponde
  <2>8. Rumo'
    BY <1>5, <2>1 DEF Rumo
  <2>9. QED
    BY <1>5, <2>1, <2>5, <2>7, <2>8 DEF InvIds, InvResposta, Rumo
<1>11. CASE PedeNext
  <2>1. /\ UNCHANGED <<mib, root, name, imprimiu>> /\ snmp_send("getnext", name)
        /\ pc = "laco" /\ pc' = "espera"
    BY <1>11 DEF PedeNext
  <2>2. Feitos <= Mascara - 2 /\ Feitos' \in Int /\ Feitos + 1 <= Feitos'
    BY <1>2, <1>3, <1>4, <2>1
  <2>3. PICK n \in Nome : n = name
    BY <1>6
  <2>4. snmp_send("getnext", n) /\ "getnext" \in Comando
    BY <2>1, <2>3 DEF Comando
  <2>5. Recentes(Feitos)' /\ Unicos' /\ Corresponde("getnext", n)'
    BY <1>1, <2>2, <2>4, IdsCrescem
  <2>6. Comanda' = "getnext" /\ Pergunta' = n
    BY <2>1, <2>3 DEF Comanda, Pergunta
  <2>7. Corresponde(Comanda, Pergunta)'
    BY <2>5, <2>6 DEF Corresponde
  <2>8. Rumo'
    BY <1>5, <2>1 DEF Rumo
  <2>9. QED
    BY <1>5, <2>1, <2>5, <2>7, <2>8 DEF InvIds, InvResposta, Rumo
<1>12. CASE TrataGet
  <2>1. /\ UNCHANGED <<Reqid, requests, ida, volta, mib, root, name>>
        /\ \/ pc = "esperaInclui" /\ pc' = "laco"
           \/ pc = "esperaGet" /\ pc' = "fecha"
    BY <1>12 DEF TrataGet, sessVars
  <2>2. pc = "esperaInclui" => name = root
    BY <1>5 DEF Rumo
  <2>3. Rumo'
    <3>1. (pc' = "laco" /\ name' = root') \/ pc' = "fecha"
      BY <2>1, <2>2
    <3>2. pc' \notin {"abre", "inclui", "esperaInclui"}
      BY <2>1
    <3>3. pc' \in {"laco", "espera"} => name' = root'
      BY <3>1
    <3>4. QED
      BY <3>2, <3>3, ZenonT(60), ZenonT(90) DEF Rumo
  <2>4. Feitos' \in Int /\ Feitos <= Feitos'
    BY <1>2, <1>3, <1>4, <2>1, <2>2
  <2>5. QED
    BY <1>7, <1>8, <2>1, <2>3, <2>4
<1>13. CASE SemResposta \/ RespostaErro \/ ForaDaqui \/ Excecao
  <2>1. /\ UNCHANGED <<Reqid, requests, ida, volta, mib, root, name>>
        /\ pc = "espera" /\ pc' = "depois" /\ imprimiu' \in {imprimiu, TRUE}
    BY <1>13
    DEF SemResposta, RespostaErro, ForaDaqui, Excecao, Chegou, Variavel, sessVars
  <2>2. ~imprimiu => name = root
    BY <1>5, <2>1, ZenonT(60), ZenonT(90) DEF Rumo
  <2>3. Rumo'
    BY <2>1, ZenonT(60), ZenonT(90) DEF Rumo
  <2>4. Feitos' \in Int /\ Feitos <= Feitos'
    <3>1. CASE imprimiu'
      BY <1>2, <1>4, <2>1, <3>1
    <3>2. CASE ~imprimiu'
      <4>1. name = root
        <5>1. imprimiu' = imprimiu \/ imprimiu' = TRUE
          BY <2>1, ZenonT(60), ZenonT(90)
        <5>2. CASE imprimiu
          BY <3>2, <5>1, <5>2, ZenonT(60), ZenonT(90)
        <5>3. QED
          BY <2>2, <5>2
      <4>2. Feitos' = 2
        BY <1>4, <2>1, <3>2, ZenonT(60), ZenonT(90)
      <4>3. QED
        <5>1. C(root) \in Nat /\ C(name) = C(root) /\ Feitos = 2 + C(root) - C(name)
          BY <1>2, <1>3, <2>1, <4>1, ZenonT(60), ZenonT(90)
        <5>2. QED
          BY <4>2, <5>1
    <3>3. QED
      BY <3>1, <3>2
  <2>5. QED
    BY <1>7, <1>8, <2>1, <2>3, <2>4, ZenonT(60), ZenonT(90)
<1>14. CASE Linha
  <2>1. /\ UNCHANGED <<Reqid, requests, ida, volta, mib, root>>
        /\ pc = "espera" /\ imprimiu' = TRUE /\ name' = state.pdu.nome
        /\ \/ pc' = "depois"
           \/ pc' = "laco" /\ ~(snmp_oid_compare(name, state.pdu.nome) >= 0)
    BY <1>14 DEF Linha, Chegou, Variavel, sessVars
  <2>2. name' \in Nome
    <3>1. Sessao
      BY <1>1, Partes
    <3>2. QED
      BY <1>14, <2>1, <3>1, NomeDaResposta DEF Linha, Variavel
  <2>3. pc' = "laco" => Antes(name, name')
    <3>1. name \in Seq(Nat) /\ name' \in Seq(Nat)
      BY <1>6, <2>2 DEF Distingue
    <3>2. snmp_oid_compare(name, name') \in Int
      BY DEF snmp_oid_compare
    <3>3. snmp_oid_compare(name, name') < 0 <=> Antes(name, name')
      BY <3>1, CompareAntes
    <3>4. QED
      BY <2>1, <3>2, <3>3
  <2>4. Rumo'
    <3>1. CASE pc' = "laco"
      <4>1. name = root \/ Antes(root, name)
        BY <1>5, <2>1 DEF Rumo
      <4>2. root \in Seq(Nat) /\ name \in Seq(Nat) /\ name' \in Seq(Nat)
        BY <1>6, <2>2 DEF Distingue
      <4>3. Antes(root, name')
        BY <2>3, <3>1, <4>1, <4>2, AntesTransitiva
      <4>4. QED
        BY <2>1, <3>1, <4>3 DEF Rumo
    <3>2. CASE pc' = "depois"
      BY <3>2 DEF Rumo
    <3>3. QED
      BY <2>1, <3>1, <3>2
  <2>5. Feitos' \in Int /\ Feitos <= Feitos'
    <3>1. CASE pc' = "laco"
      <4>1. C(name') + 1 <= C(name)
        BY <1>6, <2>2, <2>3, <3>1 DEF C, Graduado
      <4>2. C(name') \in Nat
        BY <2>2 DEF C, Graduado
      <4>3. QED
        BY <1>2, <1>3, <1>4, <2>1, <3>1, <4>1, <4>2
    <3>2. CASE pc' = "depois"
      BY <1>2, <1>4, <2>1, <3>2
    <3>3. QED
      BY <2>1, <3>1, <3>2
  <2>6. QED
    BY <1>7, <1>8, <2>1, <2>4, <2>5
<1>15. CASE SemGet \/ Fecha
  <2>1. /\ UNCHANGED <<Reqid, ida, volta, mib>> /\ requests' \in {requests, {}}
        /\ pc' \in {"fecha", "fim"}
    BY <1>15 DEF SemGet, Fecha, snmp_close, sessVars
  <2>2. Ids' \subseteq Ids
    BY <2>1, IdsEh
  <2>3. Unicos'
    BY <1>5, <2>1 DEF Unicos
  <2>4. Rumo'
    BY <2>1 DEF Rumo
  <2>5. Feitos' \in Int /\ Feitos <= Feitos'
    BY <1>2, <1>4, <2>1
  <2>6. QED
    BY <1>5, <1>7, <2>1, <2>2, <2>3, <2>4, <2>5
<1>16. QED
  BY <1>9, <1>10, <1>11, <1>12, <1>13, <1>14, <1>15 DEF Processo

\* Every initial state satisfies the invariant.
LEMMA InitIds == Distingue /\ Init => IndutivoIds
<1> SUFFICES ASSUME Distingue, Init PROVE IndutivoIds
  OBVIOUS
<1>1. Indutivo
  BY InitIndutivo
<1>2. /\ requests = {} /\ ida = {} /\ volta = {} /\ pc = "abre" /\ name = root
      /\ ~imprimiu /\ Fixas \subseteq mib
  BY DEF Init, SessInit, WalkInit, AgenteInit
<1>3. Ids = {}
  BY <1>2 DEF Ids
<1>4. InvIds
  BY <1>2, <1>3 DEF InvIds, Recentes, Unicos, Rumo
<1>5. InvResposta
  BY <1>2 DEF InvResposta
<1>6. QED
  BY <1>1, <1>4, <1>5 DEF IndutivoIds

\* A step that leaves the walk alone and keeps calls and answers together
\* preserves it.
LEMMA MantemIds ==
  ASSUME Distingue, Graduado, IndutivoIds, UNCHANGED walkVars,
         Fixas \subseteq mib', Ids' \subseteq Ids, Reqid' = Reqid, Unicos',
         \A cmd, n : n \in Nome /\ Corresponde(cmd, n) => Corresponde(cmd, n)'
  PROVE  InvIds' /\ InvResposta'
<1>1. Indutivo /\ InvIds /\ InvResposta
  BY DEF IndutivoIds
<1>2. UNCHANGED <<root, pc, name, imprimiu>>
  BY DEF walkVars
<1>3. Feitos' = Feitos /\ Feitos \in Nat
  <2>1. Feitos' = Feitos
    BY <1>2 DEF Feitos, Alem
  <2>2. QED
    BY <1>1, <2>1, FeitosEh
<1>4. Recentes(Feitos)'
  <2>1. Feitos' \in Int /\ Feitos <= Feitos'
    BY <1>3
  <2>2. QED
    BY <1>1, <2>1, IdsFicam
<1>5. Rumo'
  BY <1>1, <1>2 DEF InvIds, Rumo
<1>6. pc' \in {"esperaInclui", "espera", "esperaGet"} => Corresponde(Comanda, Pergunta)'
  <2> SUFFICES ASSUME pc' \in {"esperaInclui", "espera", "esperaGet"}
               PROVE  Corresponde(Comanda, Pergunta)'
    OBVIOUS
  <2>1. PICK c : c = Comanda
    OBVIOUS
  <2>2. Pergunta \in Nome
    BY <1>1, WalkAssumption DEF Pergunta, Indutivo, TypeOK
  <2>3. PICK n \in Nome : n = Pergunta
    BY <2>2
  <2>4. Comanda' = c /\ Pergunta' = n
    BY <1>2, <2>1, <2>3 DEF Comanda, Pergunta
  <2>5. Corresponde(c, n)
    BY <1>1, <1>2, <2>1, <2>3 DEF InvResposta
  <2>6. Corresponde(c, n)'
    BY <2>5
  <2>7. QED
    BY <2>4, <2>6 DEF Corresponde
<1>7. QED
  BY <1>4, <1>5, <1>6 DEF InvIds, InvResposta

\* Every step preserves it.
LEMMA PassoIds ==
  Distingue /\ Graduado /\ IndutivoIds /\ [Next]_vars => IndutivoIds'
<1> SUFFICES ASSUME Distingue, Graduado, IndutivoIds, [Next]_vars PROVE IndutivoIds'
  OBVIOUS
<1>1. Indutivo /\ InvIds /\ InvResposta /\ Sessao
  BY Partes DEF IndutivoIds
<1>2. Indutivo'
  BY <1>1, PassoIndutivo
<1>3. Unicos /\ Fixas \subseteq mib
  BY <1>1 DEF InvIds, InvResposta
<1>4. CASE Processo
  BY <1>2, <1>4, ProcessoIds DEF IndutivoIds
<1>5. CASE SelectW
  <2>1. Mantem /\ mib' = mib /\ UNCHANGED walkVars
    BY <1>1, <1>3, <1>5, SelectMantem DEF SelectW
  <2>2. InvIds' /\ InvResposta'
    BY <1>3, <2>1, MantemIds DEF Mantem
  <2>3. QED
    BY <1>2, <2>2 DEF IndutivoIds
<1>6. CASE TickW
  <2>1. Mantem /\ mib' = mib /\ UNCHANGED walkVars
    BY <1>1, <1>3, <1>6, TickMantem DEF TickW
  <2>2. InvIds' /\ InvResposta'
    BY <1>3, <2>1, MantemIds DEF Mantem
  <2>3. QED
    BY <1>2, <2>2 DEF IndutivoIds
<1>7. CASE Mundo
  <2>1. UNCHANGED walkVars
    BY <1>7 DEF Mundo
  <2>2. /\ Fixas \subseteq mib' /\ Ids' \subseteq Ids /\ Reqid' = Reqid /\ Unicos'
        /\ \A cmd, n : n \in Nome /\ Corresponde(cmd, n) => Corresponde(cmd, n)'
    BY <1>1, <1>3, <1>7, MundoMantem
  <2>3. InvIds' /\ InvResposta'
    BY <2>1, <2>2, MantemIds
  <2>4. QED
    BY <1>2, <2>3 DEF IndutivoIds
<1>8. CASE UNCHANGED vars
  <2>1. UNCHANGED <<Reqid, requests, state, ida, volta, mib>> /\ UNCHANGED walkVars
    BY <1>8 DEF vars, sessVars
  <2>2. Ids' \subseteq Ids /\ Unicos' /\ Fixas \subseteq mib'
    BY <1>3, <2>1 DEF Ids, Unicos
  <2>3. \A cmd, n : Corresponde(cmd, n) => Corresponde(cmd, n)'
    BY <2>1, ZenonT(60), ZenonT(90) DEF Corresponde, Responda, Lida
  <2>4. InvIds' /\ InvResposta'
    BY <2>1, <2>2, <2>3, MantemIds
  <2>5. QED
    BY <1>2, <2>4 DEF IndutivoIds
<1>9. QED
  BY <1>4, <1>5, <1>6, <1>7, <1>8 DEF Next

-------------------------------------------------------------------------------
(* The path of the walk.                                                       *)

\* The last row after one more.
LEMMA MaisUmaLinha ==
  ASSUME NEW s \in Seq(Nome), NEW n \in Nome
  PROVE  /\ Append(s, n) \in Seq(Nome) /\ Append(s, n) # <<>>
         /\ Append(s, n)[Len(Append(s, n))] = n
         /\ \E k \in DOMAIN Append(s, n) : Append(s, n)[k] = n
         /\ \A k \in DOMAIN s : k \in DOMAIN Append(s, n) /\ Append(s, n)[k] = s[k]
<1> DEFINE a == Append(s, n)
<1>1. /\ a \in Seq(Nome) /\ Len(a) = Len(s) + 1 /\ a[Len(s) + 1] = n
      /\ \A k \in 1 .. Len(s) : a[k] = s[k]
  OBVIOUS
<1>2. Len(s) \in Nat /\ DOMAIN s = 1 .. Len(s) /\ DOMAIN a = 1 .. Len(s) + 1
  BY <1>1
<1> HIDE DEF a
<1>3. Len(s) + 1 \in DOMAIN a /\ \A k \in DOMAIN s : k \in DOMAIN a /\ a[k] = s[k]
  BY <1>1, <1>2
<1>4. a # <<>>
  BY <1>1, <1>2
<1>5. QED
  BY <1>1, <1>3, <1>4 DEF a

\* Where the loop is, a row of the subtree is still to come if it follows "name".
LEMMA PassouEh ==
  ASSUME InvCaminho, pc \in {"laco", "espera"}, NEW f, Abaixo(root, f)
  PROVE  Passou(f) <=> Antes(name, f)
<1>1. Antes(root, f)
  BY AbaixoAntes
<1>2. QED
  BY <1>1 DEF InvCaminho, Passou

\* What an answer to GETNEXT says.
LEMMA RespostaDoNext ==
  ASSUME Distingue, IndutivoIds, Chegou, state.status = "success"
  PROVE  /\ pc = "espera" /\ name \in Nome /\ root \in Nome
         /\ Nome \subseteq Seq(Nat) /\ Fixas \subseteq Nome
         /\ Responda("getnext", name, state.pdu)
         /\ state.pdu.errstat = "noError" => state.pdu.nome \in Nome
<1>1. pc = "espera" /\ ~state.waiting
  BY DEF Chegou
<1>2. Indutivo /\ Sessao /\ InvResposta
  BY Partes DEF IndutivoIds
<1>3. name \in Nome /\ root \in Nome
  BY <1>2, WalkAssumption DEF Indutivo, TypeOK
<1>4. Nome \subseteq Seq(Nat) /\ Fixas \subseteq Nome
  BY AgenteAssumption DEF Distingue
<1>5. Responda("getnext", name, state.pdu)
  BY <1>1, <1>2 DEF InvResposta, Corresponde, Comanda, Pergunta
<1>6. state.pdu.errstat = "noError" => state.pdu.nome \in Nome
  BY <1>2, NomeDaResposta
<1>7. QED
  BY <1>1, <1>3, <1>4, <1>5, <1>6

\* The end of the MIB is the end of the subtree.
LEMMA FimDaMib ==
  ASSUME InvCaminho, pc = "espera", \A f \in Fixas : ~Antes(name, f)
  PROVE  NadaFalta
BY PassouEh DEF NadaFalta

\* A name outside of the subtree is past it.
LEMMA ForaEhFim ==
  ASSUME Distingue, IndutivoCaminho, ForaDaqui
  PROVE  NadaFalta
<1> DEFINE n == state.pdu.nome
<1>1. /\ Chegou /\ state.status = "success" /\ state.pdu.errstat = "noError"
      /\ ForaDaSubarvore(root, n)
  BY DEF ForaDaqui, Variavel
<1>2. IndutivoIds /\ Reconhece(root) /\ InvCaminho
  BY DEF IndutivoCaminho
<1>3. /\ pc = "espera" /\ name \in Nome /\ root \in Nome
      /\ Nome \subseteq Seq(Nat) /\ Fixas \subseteq Nome
      /\ Responda("getnext", name, state.pdu) /\ n \in Nome
  BY <1>1, <1>2, RespostaDoNext
<1>4. name = root \/ Abaixo(root, name)
  BY <1>2, <1>3 DEF InvCaminho
<1> HIDE DEF n
<1>5. CASE \A f \in Fixas : ~Antes(name, f)
  BY <1>2, <1>3, <1>5, FimDaMib
<1>6. CASE Antes(name, n) /\ \A f \in Fixas : Antes(name, f) => f = n \/ Antes(n, f)
  <2>1. Antes(root, n)
    <3>1. CASE name = root
      BY <1>6, <3>1
    <3>2. CASE Abaixo(root, name)
      BY <1>3, <1>6, <3>2, AbaixoAntes, AntesTransitiva
    <3>3. QED
      BY <1>4, <3>1, <3>2
  <2>2. ~Abaixo(root, n)
    BY <1>1, <1>2, <1>3, <2>1 DEF Reconhece
  <2>3. ASSUME NEW f \in Fixas, Abaixo(root, f), Passou(f)
        PROVE  FALSE
    <3>1. Antes(name, f)
      BY <1>2, <1>3, <2>3, PassouEh
    <3>2. f # n
      BY <2>2, <2>3
    <3>3. Antes(n, f)
      BY <1>6, <3>1, <3>2
    <3>4. f \in Nome
      BY <1>3
    <3>5. Abaixo(root, n)
      BY <1>3, <2>1, <2>3, <3>3, <3>4, Convexa
    <3>6. QED
      BY <2>2, <3>5
  <2>4. QED
    BY <2>3 DEF NadaFalta
<1>7. CASE <<name, n>> \in Desordem
  <2>1. <<name, n>>[1] = name /\ <<name, n>>[2] = n
    OBVIOUS
  <2>2. ~ForaDaSubarvore(root, n)
    BY <1>2, <1>4, <1>7, <2>1 DEF Reconhece
  <2>3. QED
    BY <1>1, <2>2
<1>8. QED
  BY <1>1, <1>3, <1>5, <1>6, <1>7 DEF Responda, n

\* A row that follows the name asked for is the next one of the subtree.
LEMMA LinhaEh ==
  ASSUME Distingue, IndutivoCaminho, Linha
  PROVE  LET n == state.pdu.nome
         IN  /\ n \in Nome /\ pc = "espera" /\ exitval = 0 /\ imprimiu' = TRUE
             /\ saida' = Append(saida, n) /\ name' = n /\ root' = root
             /\ \/ pc' = "depois" /\ exitval' = 1
                \/ /\ pc' = "laco" /\ exitval' = exitval
                   /\ Antes(name, n) /\ Abaixo(root, n)
                   /\ \A f \in Fixas : Antes(name, f) => f = n \/ Antes(n, f)
<1> DEFINE n == state.pdu.nome
<1>1. /\ Chegou /\ state.status = "success" /\ state.pdu.errstat = "noError"
      /\ ~ForaDaSubarvore(root, n) /\ state.pdu.tipo = "valor"
  BY DEF Linha, Variavel
<1>2. IndutivoIds /\ Reconhece(root) /\ InvCaminho
  BY DEF IndutivoCaminho
<1>3. /\ pc = "espera" /\ name \in Nome /\ root \in Nome
      /\ Nome \subseteq Seq(Nat) /\ Fixas \subseteq Nome
      /\ Responda("getnext", name, state.pdu) /\ n \in Nome
  BY <1>1, <1>2, RespostaDoNext
<1>4. exitval = 0 /\ (name = root \/ Abaixo(root, name))
  BY <1>2, <1>3 DEF InvCaminho
<1>5. /\ imprimiu' = TRUE /\ saida' = Append(saida, n) /\ name' = n /\ root' = root
      /\ \/ pc' = "depois" /\ exitval' = 1
         \/ /\ pc' = "laco" /\ exitval' = exitval
            /\ ~(snmp_oid_compare(name, n) >= 0)
  BY DEF Linha
<1> HIDE DEF n
<1>6. ASSUME ~(snmp_oid_compare(name, n) >= 0)
      PROVE  /\ Antes(name, n) /\ Abaixo(root, n)
             /\ \A f \in Fixas : Antes(name, f) => f = n \/ Antes(n, f)
  <2>1. name \in Seq(Nat) /\ n \in Seq(Nat) /\ root \in Seq(Nat)
    BY <1>3
  <2>2. snmp_oid_compare(name, n) \in Int
    BY DEF snmp_oid_compare
  <2>3. Antes(name, n)
    BY <1>6, <2>1, <2>2, CompareAntes
  <2>4. <<name, n>> \notin Desordem
    <3>1. <<name, n>>[1] = name /\ <<name, n>>[2] = n
      OBVIOUS
    <3>2. QED
      BY <2>3, <3>1, AgenteAssumption
  <2>5. \A f \in Fixas : Antes(name, f) => f = n \/ Antes(n, f)
    BY <1>1, <1>3, <2>4 DEF Responda, n
  <2>6. Antes(root, n)
    <3>1. CASE name = root
      BY <2>3, <3>1
    <3>2. CASE Abaixo(root, name)
      BY <2>1, <2>3, <3>2, AbaixoAntes, AntesTransitiva
    <3>3. QED
      BY <1>4, <3>1, <3>2
  <2>7. Abaixo(root, n)
    BY <1>1, <1>2, <1>3, <2>6 DEF Reconhece
  <2>8. QED
    BY <2>3, <2>5, <2>7
<1>7. QED
  BY <1>3, <1>4, <1>5, <1>6 DEF n

\* The answer to a GET shows the instance asked for, or nothing.
LEMMA TrataGetEh ==
  ASSUME Distingue, IndutivoCaminho, TrataGet
  PROVE  /\ \/ pc = "esperaInclui" /\ pc' = "laco"
            \/ pc = "esperaGet" /\ pc' = "fecha"
         /\ saida = <<>> /\ root \in Nome /\ UNCHANGED <<root, name, exitval>>
         /\ \/ saida' = <<root>> /\ imprimiu' = TRUE
            \/ saida' = <<>>
<1>1. IndutivoIds /\ InvCaminho /\ Indutivo /\ InvResposta
  BY DEF IndutivoCaminho, IndutivoIds
<1>2. /\ ~state.waiting /\ UNCHANGED <<root, name, exitval>>
      /\ \/ pc = "esperaInclui" /\ pc' = "laco"
         \/ pc = "esperaGet" /\ pc' = "fecha"
  BY DEF TrataGet
<1>3. saida = <<>> /\ root \in Nome
  BY <1>1, <1>2, WalkAssumption DEF InvCaminho, Indutivo, TypeOK
<1>4. CASE state.status = "success" /\ state.pdu.errstat = "noError"
  <2>1. Responda("get", root, state.pdu)
    BY <1>1, <1>2, <1>4 DEF InvResposta, Corresponde, Comanda, Pergunta
  <2>2. state.pdu.nome = root
    BY <1>4, <2>1 DEF Responda
  <2>3. imprimiu' = TRUE /\ saida' \in {<<>>, Append(<<>>, root)}
    BY <1>3, <1>4, <2>2 DEF TrataGet
  <2>4. Append(<<>>, root) = <<root>>
    OBVIOUS
  <2>5. QED
    BY <1>2, <1>3, <2>3, <2>4
<1>5. CASE ~(state.status = "success" /\ state.pdu.errstat = "noError")
  <2>1. saida' = saida
    BY <1>5 DEF TrataGet
  <2>2. QED
    BY <1>2, <1>3, <2>1
<1>6. QED
  BY <1>4, <1>5, ZenonT(60), ZenonT(90)

\* The steps of main.
LEMMA ProcessoCaminho ==
  ASSUME Distingue, IndutivoCaminho, Processo
  PROVE  InvCaminho' /\ root' = root
<1>1. IndutivoIds /\ Reconhece(root) /\ InvCaminho /\ Indutivo /\ Rumo
  BY DEF IndutivoCaminho, IndutivoIds, InvIds
<1>2. root \in Nome /\ name \in Nome /\ saida \in Seq(Nome) /\ imprimiu \in BOOLEAN
  BY <1>1, WalkAssumption DEF Indutivo, TypeOK
<1>3. CASE Abre
  <2>1. /\ UNCHANGED <<root, name, imprimiu, saida>> /\ pc = "abre"
        /\ \/ pc' \in {"inclui", "laco"} /\ exitval' = exitval
           \/ pc' = "fim" /\ exitval' = 1
    BY <1>3 DEF Abre
  <2>2. QED
    BY <1>1, <2>1 DEF InvCaminho, Passou, NadaFalta
<1>4. CASE PedeGet
  <2>1. /\ UNCHANGED <<root, name, imprimiu, saida, exitval>>
        /\ \/ pc = "inclui" /\ pc' = "esperaInclui"
           \/ pc = "depois" /\ ~imprimiu /\ pc' = "esperaGet"
    BY <1>4 DEF PedeGet
  <2>2. saida = <<>>
    BY <1>1, <2>1 DEF InvCaminho
  <2>3. QED
    BY <1>1, <2>1, <2>2 DEF InvCaminho, Passou, NadaFalta
<1>5. CASE PedeNext
  <2>1. /\ UNCHANGED <<root, name, imprimiu, saida, exitval>>
        /\ pc = "laco" /\ pc' = "espera"
    BY <1>5 DEF PedeNext
  <2>2. QED
    BY <1>1, <2>1 DEF InvCaminho, Passou, NadaFalta
<1>6. CASE TrataGet
  <2>1. /\ \/ pc = "esperaInclui" /\ pc' = "laco"
           \/ pc = "esperaGet" /\ pc' = "fecha"
        /\ saida = <<>> /\ UNCHANGED <<root, name, exitval>>
        /\ \/ saida' = <<root>> /\ imprimiu' = TRUE
           \/ saida' = <<>>
    BY <1>1, <1>6, TrataGetEh, ZenonT(60), ZenonT(90)
  <2>2. <<root>> # <<>> /\ <<root>>[Len(<<root>>)] = root
    OBVIOUS
  <2>3. pc = "esperaInclui" => name = root /\ exitval = 0
    BY <1>1 DEF InvCaminho
  <2>4. \A f \in Fixas : Abaixo(root, f) => Passou(f)'
    <3>1. \A f \in Fixas : Abaixo(root, f) => Antes(root, f)
      BY AbaixoAntes
    <3>2. saida' = <<>> \/ saida'[Len(saida')] = root
      BY <2>1, <2>2
    <3>3. QED
      BY <3>1, <3>2 DEF Passou
  <2>5. pc = "esperaGet" /\ exitval = 0 => \A f \in Fixas : ~Abaixo(root, f)
    BY <1>1, <2>1 DEF InvCaminho, NadaFalta, Passou
  <2>6. NadaFalta' \/ pc' = "laco" \/ exitval' # 0
    BY <2>1, <2>5 DEF NadaFalta
  <2>7. exitval' = 0 => \A f \in Fixas : Abaixo(root', f) => Passou(f)'
    BY <2>1, <2>4
  <2>8. pc' = "laco" => /\ exitval' = 0 /\ name' = root'
                        /\ saida' = <<>> \/ saida'[Len(saida')] = name'
    BY <2>1, <2>2, <2>3
  <2>9. ~imprimiu' => saida' = <<>>
    BY <2>1
  <2>10. pc' \in {"laco", "fecha"}
    BY <2>1
  <2>11. QED
    BY <2>1, <2>6, <2>7, <2>8, <2>9, <2>10 DEF InvCaminho
<1>7. CASE SemResposta \/ RespostaErro \/ ForaDaqui \/ Excecao
  <2>1. /\ UNCHANGED <<root, name, saida>> /\ pc = "espera" /\ pc' = "depois"
        /\ imprimiu' \in {imprimiu, TRUE} /\ exitval' \in {exitval, 1, 2}
    BY <1>7, ZenonT(60), ZenonT(90) DEF SemResposta, RespostaErro, ForaDaqui,
       Excecao, Chegou, Variavel
  <2>2. exitval' = 0 => NadaFalta
    <3>1. CASE SemResposta
      BY <3>1 DEF SemResposta
    <3>2. CASE RespostaErro
      <4>1. Chegou /\ state.status = "success"
        BY <3>2 DEF RespostaErro
      <4>2. Responda("getnext", name, state.pdu)
        BY <1>1, <4>1, RespostaDoNext
      <4>3. exitval' = 0 => state.pdu.errstat = "noSuchName"
        BY <3>2 DEF RespostaErro
      <4>4. exitval' = 0 => \A f \in Fixas : ~Antes(name, f)
        BY <4>2, <4>3 DEF Responda
      <4>5. QED
        BY <1>1, <2>1, <4>4, FimDaMib, ZenonT(60), ZenonT(90)
    <3>3. CASE ForaDaqui
      BY <3>3, ForaEhFim
    <3>4. CASE Excecao
      <4>1. /\ Chegou /\ state.status = "success" /\ state.pdu.errstat = "noError"
            /\ state.pdu.tipo # "valor"
        BY <3>4 DEF Excecao, Variavel
      <4>2. Responda("getnext", name, state.pdu)
        BY <1>1, <4>1, RespostaDoNext
      <4>3. \A f \in Fixas : ~Antes(name, f)
        BY <4>1, <4>2 DEF Responda
      <4>4. QED
        BY <1>1, <2>1, <4>3, FimDaMib, ZenonT(60), ZenonT(90)
    <3>5. QED
      BY <1>7, <3>1, <3>2, <3>3, <3>4
  <2>3. exitval' = 0 => NadaFalta'
    BY <2>1, <2>2, ZenonT(60), ZenonT(90) DEF NadaFalta, Passou
  <2>4. ~imprimiu' => saida' = <<>>
    <3>1. imprimiu' = imprimiu \/ imprimiu' = TRUE
      BY <2>1, ZenonT(60), ZenonT(90)
    <3>2. CASE imprimiu
      BY <3>1, <3>2, ZenonT(60), ZenonT(90)
    <3>3. CASE ~imprimiu
      BY <1>1, <2>1, <3>3, ZenonT(60), ZenonT(90) DEF InvCaminho
    <3>4. QED
      BY <3>2, <3>3
  <2>5. exitval = 0
    BY <1>1, <2>1, ZenonT(60), ZenonT(90) DEF InvCaminho
  <2>6. \A f \in Fixas : Abaixo(root', f) =>
          Passou(f)' \/ \E k \in DOMAIN saida' : saida'[k] = f
    BY <1>1, <2>1, <2>5, ZenonT(60), ZenonT(90) DEF InvCaminho, Passou
  <2>7. QED
    BY <2>1, <2>3, <2>4, <2>6, ZenonT(60), ZenonT(90) DEF InvCaminho
<1>8. CASE Linha
  <2> DEFINE n == state.pdu.nome
  <2>1. /\ n \in Nome /\ pc = "espera" /\ exitval = 0 /\ imprimiu' = TRUE
        /\ saida' = Append(saida, n) /\ name' = n /\ root' = root
        /\ \/ pc' = "depois" /\ exitval' = 1
           \/ /\ pc' = "laco" /\ exitval' = exitval
              /\ Antes(name, n) /\ Abaixo(root, n)
              /\ \A f \in Fixas : Antes(name, f) => f = n \/ Antes(n, f)
    BY <1>8, LinhaEh, ZenonT(60), ZenonT(90)
  <2> HIDE DEF n
  <2>2. /\ saida' # <<>> /\ saida'[Len(saida')] = n
        /\ \E k \in DOMAIN saida' : saida'[k] = n
        /\ \A k \in DOMAIN saida : k \in DOMAIN saida' /\ saida'[k] = saida[k]
    BY <1>2, <2>1, MaisUmaLinha
  <2>3. CASE pc' = "depois" /\ exitval' = 1
    BY <2>1, <2>3 DEF InvCaminho
  <2>4. CASE pc' = "laco" /\ exitval' = exitval
    <3>1. \A f \in Fixas : Abaixo(root, f) =>
            Passou(f)' \/ \E k \in DOMAIN saida' : saida'[k] = f
      <4> SUFFICES ASSUME NEW f \in Fixas, Abaixo(root, f),
                          ~(\E k \in DOMAIN saida' : saida'[k] = f)
                   PROVE  Passou(f)'
        OBVIOUS
      <4>1. f # n /\ ~(\E k \in DOMAIN saida : saida[k] = f)
        BY <2>2
      <4>2. Passou(f)
        BY <1>1, <2>1, <4>1 DEF InvCaminho
      <4>3. Antes(name, f)
        BY <1>1, <2>1, <4>2, PassouEh
      <4>4. Antes(n, f)
        BY <2>1, <2>4, <4>1, <4>3
      <4>5. QED
        BY <2>2, <4>4 DEF Passou
    <3>2. QED
      BY <2>1, <2>2, <2>4, <3>1 DEF InvCaminho
  <2>5. QED
    BY <2>1, <2>3, <2>4
<1>9. CASE SemGet \/ Fecha
  <2>1. /\ UNCHANGED <<root, name, imprimiu, saida, exitval>>
        /\ pc \in {"depois", "fecha"} /\ pc' \in {"fecha", "fim"}
    BY <1>9 DEF SemGet, Fecha
  <2>2. QED
    BY <1>1, <2>1 DEF InvCaminho, Passou, NadaFalta
<1>10. QED
  BY <1>3, <1>4, <1>5, <1>6, <1>7, <1>8, <1>9 DEF Processo

\* A step that leaves the walk alone.
LEMMA CaminhoIgual ==
  ASSUME InvCaminho, UNCHANGED walkVars
  PROVE  InvCaminho' /\ root' = root
BY DEF InvCaminho, walkVars, Passou, NadaFalta

\* Every initial state satisfies the invariant.
LEMMA InitCaminho == Distingue /\ Reconhece(root) /\ Init => IndutivoCaminho
<1> SUFFICES ASSUME Distingue, Reconhece(root), Init PROVE IndutivoCaminho
  OBVIOUS
<1>1. IndutivoIds
  BY InitIds
<1>2. pc = "abre" /\ exitval = 0 /\ name = root /\ saida = <<>>
  BY DEF Init, WalkInit
<1>3. InvCaminho
  BY <1>2 DEF InvCaminho, Passou
<1>4. QED
  BY <1>1, <1>3 DEF IndutivoCaminho

\* Every step preserves it.
LEMMA PassoCaminho ==
  Distingue /\ Graduado /\ IndutivoCaminho /\ [Next]_vars => IndutivoCaminho'
<1> SUFFICES ASSUME Distingue, Graduado, IndutivoCaminho, [Next]_vars
             PROVE  IndutivoCaminho'
  OBVIOUS
<1>1. IndutivoIds /\ Reconhece(root) /\ InvCaminho
  BY DEF IndutivoCaminho
<1>2. IndutivoIds'
  BY <1>1, PassoIds
<1>3. InvCaminho' /\ root' = root
  <2>1. CASE Processo
    BY <2>1, ProcessoCaminho
  <2>2. CASE SelectW \/ TickW \/ Mundo \/ UNCHANGED vars
    <3>1. UNCHANGED walkVars
      BY <2>2, ZenonT(60), ZenonT(90) DEF SelectW, TickW, Mundo, vars
    <3>2. QED
      BY <1>1, <3>1, CaminhoIgual
  <2>3. QED
    BY <2>1, <2>2 DEF Next
<1>4. Reconhece(root)'
  BY <1>1, <1>3 DEF Reconhece
<1>5. QED
  BY <1>2, <1>3, <1>4 DEF IndutivoCaminho

-------------------------------------------------------------------------------
(* The refinement.                                                             *)

\* The abstract walk, in the terms of this module.
LEMMA VarreduraEh ==
  /\ \A a, b : V!Antes(a, b) <=> Antes(a, b)
  /\ \A a, b : V!Abaixo(a, b) <=> Abaixo(a, b)
  /\ \A n : V!Passou(n) <=> Passou(n)
  /\ \A f : f \in V!Faltam <=> f \in Fixas /\ Abaixo(root, f) /\ Passou(f)
<1>1. \A a, b : V!Antes(a, b) <=> Antes(a, b)
  BY DEF V!Antes, Antes, V!Menor2, Menor2
<1>2. \A a, b : V!Abaixo(a, b) <=> Abaixo(a, b)
  BY DEF V!Abaixo, Abaixo
<1>3. \A n : V!Passou(n) <=> Passou(n)
  BY <1>1 DEF V!Passou, Passou
<1>4. QED
  BY <1>1, <1>2, <1>3 DEF V!Faltam

\* A step of main is a step of the abstract walk, or leaves it alone.
LEMMA ProcessoVarre ==
  ASSUME Distingue, IndutivoCaminho, Processo
  PROVE  [V!VarrNext]_(V!varrVars)
<1>1. IndutivoIds /\ InvCaminho /\ Indutivo
  BY DEF IndutivoCaminho, IndutivoIds
<1>2. root \in Nome /\ name \in Nome /\ saida \in Seq(Nome)
  BY <1>1, WalkAssumption DEF Indutivo, TypeOK
<1>3. ASSUME UNCHANGED <<root, saida, exitval>>, pc # "fim", pc' # "fim"
      PROVE  UNCHANGED V!varrVars
  BY <1>3 DEF V!varrVars, Resultado
<1>4. ASSUME UNCHANGED root, exitval = 0, pc # "fim", exitval' # 0,
             \/ saida' = saida
             \/ \E n \in Nome : saida' = Append(saida, n)
      PROVE  V!Falha
  BY <1>4, ZenonT(60), ZenonT(90) DEF V!Falha, Resultado
<1>5. CASE Abre
  <2>1. /\ UNCHANGED <<root, saida>> /\ pc = "abre"
        /\ \/ pc' \in {"inclui", "laco"} /\ exitval' = exitval
           \/ pc' = "fim" /\ exitval' = 1
    BY <1>5 DEF Abre
  <2>2. exitval = 0
    BY <1>1, <2>1 DEF InvCaminho
  <2>3. UNCHANGED V!varrVars \/ V!Falha
    BY <1>3, <1>4, <2>1, <2>2
  <2>4. QED
    BY <2>3 DEF V!VarrNext
<1>6. CASE PedeGet \/ PedeNext \/ SemGet
  <2>1. UNCHANGED <<root, saida, exitval>> /\ pc # "fim" /\ pc' # "fim"
    BY <1>6 DEF PedeGet, PedeNext, SemGet
  <2>2. QED
    BY <1>3, <2>1
<1>7. CASE TrataGet
  <2>1. /\ pc # "fim" /\ pc' # "fim" /\ saida = <<>> /\ UNCHANGED <<root, exitval>>
        /\ saida' = <<root>> \/ saida' = <<>>
    BY <1>7, TrataGetEh, ZenonT(60), ZenonT(90)
  <2>2. CASE saida' = <<>>
    BY <1>3, <2>1, <2>2
  <2>3. CASE saida' = <<root>>
    <3>1. V!MostraRaiz
      BY <2>1, <2>3 DEF V!MostraRaiz, Resultado
    <3>2. QED
      BY <3>1 DEF V!VarrNext
  <2>4. QED
    BY <2>1, <2>2, <2>3
<1>8. CASE SemResposta \/ RespostaErro \/ ForaDaqui \/ Excecao
  <2>1. /\ UNCHANGED <<root, saida>> /\ pc = "espera" /\ pc' = "depois"
        /\ exitval' \in {exitval, 1, 2}
    BY <1>8 DEF SemResposta, RespostaErro, ForaDaqui, Excecao, Chegou, Variavel
  <2>2. exitval = 0
    BY <1>1, <2>1 DEF InvCaminho
  <2>3. UNCHANGED V!varrVars \/ V!Falha
    BY <1>3, <1>4, <2>1, <2>2
  <2>4. QED
    BY <2>3 DEF V!VarrNext
<1>9. CASE Linha
  <2> DEFINE n == state.pdu.nome
  <2>1. /\ n \in Nome /\ pc = "espera" /\ exitval = 0
        /\ saida' = Append(saida, n) /\ root' = root
        /\ \/ pc' = "depois" /\ exitval' = 1
           \/ /\ pc' = "laco" /\ exitval' = exitval
              /\ Antes(name, n) /\ Abaixo(root, n)
              /\ \A f \in Fixas : Antes(name, f) => f = n \/ Antes(n, f)
    BY <1>9, LinhaEh, ZenonT(60), ZenonT(90)
  <2> HIDE DEF n
  <2>2. CASE pc' = "depois" /\ exitval' = 1
    <3>1. V!Falha
      BY <1>4, <2>1, <2>2
    <3>2. QED
      BY <3>1 DEF V!VarrNext
  <2>3. CASE /\ pc' = "laco" /\ exitval' = exitval
             /\ Antes(name, n) /\ Abaixo(root, n)
             /\ \A f \in Fixas : Antes(name, f) => f = n \/ Antes(n, f)
    <3>1. Passou(n)
      BY <1>1, <2>1, <2>3, PassouEh
    <3>2. ASSUME NEW f \in Fixas, Abaixo(root, f), Passou(f)
          PROVE  ~Antes(f, n)
      <4>1. Antes(name, f)
        BY <1>1, <2>1, <3>2, PassouEh
      <4>2. f = n \/ Antes(n, f)
        BY <2>3, <4>1
      <4>3. n \in Seq(Nat) /\ f \in Seq(Nat)
        BY <2>1, AgenteAssumption DEF Distingue
      <4>4. QED
        BY <4>2, <4>3, AntesIrreflexiva, AntesTransitiva
    <3>3. \A f \in V!Faltam : ~V!Antes(f, n)
      BY <3>2, VarreduraEh
    <3>4. V!Abaixo(root, n) /\ V!Passou(n)
      BY <2>3, <3>1, VarreduraEh
    <3>5. Resultado = "anda" /\ Resultado' = Resultado
      BY <2>1, <2>3 DEF Resultado
    <3>6. V!Mostra(n)
      BY <2>1, <3>3, <3>4, <3>5 DEF V!Mostra
    <3>7. QED
      BY <2>1, <3>6 DEF V!VarrNext
  <2>4. QED
    BY <2>1, <2>2, <2>3
<1>10. CASE Fecha
  <2>1. UNCHANGED <<root, saida, exitval>> /\ pc = "fecha" /\ pc' = "fim"
    BY <1>10 DEF Fecha
  <2>2. CASE exitval # 0
    BY <2>1, <2>2 DEF V!varrVars, Resultado
  <2>3. CASE exitval = 0
    <3>1. NadaFalta
      BY <1>1, <2>1, <2>3 DEF InvCaminho
    <3>2. V!Faltam = {}
      BY <3>1, VarreduraEh DEF NadaFalta
    <3>3. V!Acaba
      BY <2>1, <2>3, <3>2 DEF V!Acaba, Resultado
    <3>4. QED
      BY <3>3 DEF V!VarrNext
  <2>4. QED
    BY <2>2, <2>3
<1>11. QED
  BY <1>5, <1>6, <1>7, <1>8, <1>9, <1>10 DEF Processo

\* Every step is.
LEMMA PassoVarre ==
  Distingue /\ IndutivoCaminho /\ [Next]_vars => [V!VarrNext]_(V!varrVars)
<1> SUFFICES ASSUME Distingue, IndutivoCaminho, [Next]_vars
             PROVE  [V!VarrNext]_(V!varrVars)
  OBVIOUS
<1>1. CASE Processo
  BY <1>1, ProcessoVarre
<1>2. CASE SelectW \/ TickW \/ Mundo \/ UNCHANGED vars
  <2>1. UNCHANGED walkVars
    BY <1>2, ZenonT(60), ZenonT(90) DEF SelectW, TickW, Mundo, vars
  <2>2. QED
    BY <2>1 DEF walkVars, V!varrVars, Resultado
<1>3. QED
  BY <1>1, <1>2 DEF Next
-------------------------------------------------------------------------------
(* The theorems on requests and on the walk.                                   *)
INSTANCE FiniteSetTheorems

\* The names after one are finitely many.
LEMMA AlemFinito ==
  ASSUME Distingue, NEW n \in Nome
  PROVE  /\ IsFiniteSet(Alem(n)) /\ Cardinality(Alem(n)) \in Nat
         /\ Cardinality(Nome) \in Nat /\ Cardinality(Alem(n)) + 1 <= Cardinality(Nome)
<1>1. IsFiniteSet(Nome) /\ n \in Seq(Nat)
  BY DEF Distingue
<1>2. n \notin Alem(n)
  BY <1>1, AntesIrreflexiva DEF Alem
<1>3. Alem(n) \subseteq Nome \ {n}
  BY <1>2 DEF Alem
<1>4. /\ IsFiniteSet(Nome \ {n})
      /\ Cardinality(Nome \ {n}) = Cardinality(Nome) - 1
  BY <1>1, FS_RemoveElement, ZenonT(60), ZenonT(90)
<1>5. IsFiniteSet(Alem(n)) /\ Cardinality(Alem(n)) <= Cardinality(Nome \ {n})
  BY <1>3, <1>4, FS_Subset, ZenonT(60), ZenonT(90)
<1>6. Cardinality(Alem(n)) \in Nat /\ Cardinality(Nome) \in Nat
  BY <1>1, <1>5, FS_CardinalityType, ZenonT(60), ZenonT(90)
<1>7. QED
  BY <1>4, <1>5, <1>6

\* There are fewer of them after a later one.
LEMMA AlemDecresce ==
  ASSUME Distingue, NEW n \in Nome, NEW m \in Nome, Antes(n, m)
  PROVE  Cardinality(Alem(m)) + 1 <= Cardinality(Alem(n))
<1>1. n \in Seq(Nat) /\ m \in Seq(Nat) /\ Nome \subseteq Seq(Nat)
  BY DEF Distingue
<1>2. /\ IsFiniteSet(Alem(n)) /\ Cardinality(Alem(n)) \in Nat
      /\ Cardinality(Alem(m)) \in Nat
  BY AlemFinito
<1>3. Alem(m) \subseteq Alem(n) \ {m}
  <2>1. m \notin Alem(m)
    BY <1>1, AntesIrreflexiva DEF Alem
  <2>2. \A x \in Alem(m) : x \in Alem(n)
    BY <1>1, AntesTransitiva DEF Alem
  <2>3. QED
    BY <2>1, <2>2
<1>4. m \in Alem(n)
  BY DEF Alem
<1>5. /\ IsFiniteSet(Alem(n) \ {m})
      /\ Cardinality(Alem(n) \ {m}) = Cardinality(Alem(n)) - 1
  BY <1>2, <1>4, FS_RemoveElement, ZenonT(60), ZenonT(90)
<1>6. Cardinality(Alem(m)) <= Cardinality(Alem(n) \ {m})
  BY <1>3, <1>5, FS_Subset, ZenonT(60), ZenonT(90)
<1>7. QED
  BY <1>2, <1>5, <1>6

\* So the names are graduated.
LEMMA DistingueGradua == Distingue => Graduado
<1> SUFFICES ASSUME Distingue, NEW n \in Nome
             PROVE  /\ Cardinality(Alem(n)) \in Nat
                    /\ Cardinality(Alem(n)) + 3 <= Mascara
                    /\ \A m \in Nome : Antes(n, m) =>
                         Cardinality(Alem(m)) + 1 <= Cardinality(Alem(n))
  BY DEF Graduado
<1>1. /\ Cardinality(Alem(n)) \in Nat /\ Cardinality(Nome) \in Nat
      /\ Cardinality(Alem(n)) + 1 <= Cardinality(Nome)
  BY AlemFinito
<1>2. Cardinality(Nome) + 2 <= Mascara /\ Mascara \in Nat
  BY SessAssumption DEF Distingue
<1>3. \A m \in Nome : Antes(n, m) => Cardinality(Alem(m)) + 1 <= Cardinality(Alem(n))
  BY AlemDecresce
<1>4. Cardinality(Alem(n)) + 3 <= Mascara
  BY <1>1, <1>2
<1>5. QED
  BY <1>1, <1>3, <1>4

\* In every reachable state of a walk that does not run out of request-ids, what
\* is on the network under the id of the call in progress belongs to that call.
THEOREM SempreIds == Distingue => (Spec => []IndutivoIds)
<1> SUFFICES ASSUME Distingue PROVE Spec => []IndutivoIds
  OBVIOUS
<1>1. Init => IndutivoIds
  BY InitIds
<1>2. IndutivoIds /\ [Next]_vars => IndutivoIds'
  BY PassoIds, DistingueGradua
<1>3. QED
  BY <1>1, <1>2, PTL DEF Spec

\* A call of snmp_synch_response that waits has its request in the list exactly
\* once, whatever was left there by calls that failed.
THEOREM UmPendenteVale == Distingue => (Spec => []UmPendente)
<1> SUFFICES ASSUME Distingue PROVE Spec => []UmPendente
  OBVIOUS
<1>1. IndutivoIds => UmPendente
  <2> SUFFICES ASSUME IndutivoIds, state.waiting
               PROVE  Cardinality({r \in requests : r.id = state.reqid}) = 1
    BY DEF UmPendente
  <2>1. PICK r \in requests : r.id = state.reqid
    BY DEF IndutivoIds, Indutivo, InvPrazo
  <2>2. {q \in requests : q.id = state.reqid} = {r}
    BY <2>1 DEF IndutivoIds, InvIds, Unicos
  <2>3. QED
    BY <2>2, FS_Singleton, ZenonT(60), ZenonT(90)
<1>2. Spec => []IndutivoIds
  BY SempreIds
<1>3. QED
  BY <1>1, <1>2, PTL

\* snmpwalk only says "OID not increasing" of an agent that did answer the
\* current request out of order.
THEOREM DesordemSoDoAgenteVale == Distingue => (Spec => DesordemSoDoAgente)
<1> SUFFICES ASSUME Distingue PROVE Spec => DesordemSoDoAgente
  OBVIOUS
<1>1. IndutivoIds /\ [Next]_vars =>
        [Linha /\ exitval' # exitval => <<name, state.pdu.nome>> \in Desordem]_vars
  <2> SUFFICES ASSUME IndutivoIds, Linha, exitval' # exitval
               PROVE  <<name, state.pdu.nome>> \in Desordem
    OBVIOUS
  <2>1. /\ pc = "espera" /\ ~state.waiting /\ state.status = "success"
        /\ state.pdu.errstat = "noError" /\ state.pdu.tipo = "valor"
        /\ snmp_oid_compare(name, state.pdu.nome) >= 0
    BY DEF Linha, Variavel, Chegou
  <2>2. Indutivo /\ Sessao
    BY Partes DEF IndutivoIds
  <2>3. name \in Nome /\ state.pdu.nome \in Nome
    BY <2>1, <2>2, NomeDaResposta DEF Indutivo, TypeOK
  <2>4. name \in Seq(Nat) /\ state.pdu.nome \in Seq(Nat)
    BY <2>3 DEF Distingue
  <2>5. ~Antes(name, state.pdu.nome)
    <3>1. snmp_oid_compare(name, state.pdu.nome) \in Int
      BY DEF snmp_oid_compare
    <3>2. QED
      BY <2>1, <2>4, <3>1, CompareAntes
  <2>6. Responda("getnext", name, state.pdu)
    BY <2>1 DEF IndutivoIds, InvResposta, Corresponde, Comanda, Pergunta
  <2>7. QED
    BY <2>1, <2>5, <2>6 DEF Responda
<1>2. Spec => []IndutivoIds
  BY SempreIds
<1>3. QED
  BY <1>1, <1>2, PTL DEF Spec, DesordemSoDoAgente

\* In every reachable state of a walk whose subtree memcmp recognises, the loop
\* follows the rows it has shown and ends at the end of the subtree.
THEOREM SempreCaminho ==
  Distingue => (Spec /\ Reconhece(root) => []IndutivoCaminho)
<1> SUFFICES ASSUME Distingue PROVE Spec /\ Reconhece(root) => []IndutivoCaminho
  OBVIOUS
<1>1. Init /\ Reconhece(root) => IndutivoCaminho
  BY InitCaminho
<1>2. IndutivoCaminho /\ [Next]_vars => IndutivoCaminho'
  BY PassoCaminho, DistingueGradua
<1>3. QED
  BY <1>1, <1>2, PTL DEF Spec

\* What the manual page says of snmpwalk is true of every subtree whose end the
\* comparison with memcmp recognises: on success, all rows that were there all
\* the time have been shown.
THEOREM SubarvoreMostradaVale ==
  Distingue => (Spec /\ Reconhece(root) => []SubarvoreMostrada)
<1> SUFFICES ASSUME Distingue PROVE Spec /\ Reconhece(root) => []SubarvoreMostrada
  OBVIOUS
<1>1. IndutivoCaminho => SubarvoreMostrada
  BY DEF IndutivoCaminho, InvCaminho, SubarvoreMostrada, NadaFalta
<1>2. Spec /\ Reconhece(root) => []IndutivoCaminho
  BY SempreCaminho
<1>3. QED
  BY <1>1, <1>2, PTL

\* snmpwalk implements the walk its caller expects: whatever is lost, late,
\* repeated or reordered on the network, whatever rows come and go, the rows
\* printed and the exit status are those of Varredura, for every subtree whose
\* end the comparison with memcmp recognises.
THEOREM ImplementaVarreduraVale ==
  Distingue => (Spec /\ Reconhece(root) => ImplementaVarredura)
<1> SUFFICES ASSUME Distingue PROVE Spec /\ Reconhece(root) => ImplementaVarredura
  OBVIOUS
<1>1. Init => V!VarrInit
  BY WalkAssumption DEF Init, WalkInit, V!VarrInit, Resultado
<1>2. IndutivoCaminho /\ [Next]_vars => [V!VarrNext]_(V!varrVars)
  BY PassoVarre
<1>3. Spec /\ Reconhece(root) => []IndutivoCaminho
  BY SempreCaminho
<1>4. QED
  BY <1>1, <1>2, <1>3, PTL DEF Spec, ImplementaVarredura, V!VarrSpec
\* The octets at which names leave a subtree decide: of a subtree whose numbers
\* are single octets there, snmpwalk shows on success all that the manual page
\* promises, and it implements the walk its caller expects.
THEOREM OctetosBastam ==
  Distingue => (Spec /\ UmOcteto(root) => []SubarvoreMostrada /\ ImplementaVarredura)
<1> SUFFICES ASSUME Distingue
             PROVE  Spec /\ UmOcteto(root) => []SubarvoreMostrada /\ ImplementaVarredura
  OBVIOUS
<1>1. Init /\ UmOcteto(root) => Reconhece(root)
  <2>1. Init => root \in Nome
    BY WalkAssumption DEF Init, WalkInit
  <2>2. QED
    BY <2>1, OctetoReconhece
<1>2. Spec /\ Reconhece(root) => []SubarvoreMostrada
  BY SubarvoreMostradaVale
<1>3. Spec /\ Reconhece(root) => ImplementaVarredura
  BY ImplementaVarreduraVale
<1>4. QED
  BY <1>1, <1>2, <1>3, PTL DEF Spec

\* None of the rows of the subtree has been shown.
Mudo == \A k \in DOMAIN saida : ~Abaixo(root, saida[k])

\* The converse, at the table's own number: whenever it ends in an octet of 255,
\* whatever the agent has and whatever the network does, snmpwalk shows no row
\* below it, for it takes each for one past the end.
THEOREM Mudo255 ==
  Distingue => (Spec /\ root[Len(root)] % 256 = 255 => []Mudo)
<1> SUFFICES ASSUME Distingue PROVE Spec /\ root[Len(root)] % 256 = 255 => []Mudo
  OBVIOUS
<1> DEFINE Inv == root[Len(root)] % 256 = 255 /\ Mudo
<1>1. Init /\ root[Len(root)] % 256 = 255 => Inv
  BY DEF Init, WalkInit, Mudo
<1>2. IndutivoIds /\ Inv /\ [Next]_vars => Inv'
  <2> SUFFICES ASSUME IndutivoIds, Inv, [Next]_vars PROVE Inv'
    OBVIOUS
  <2>1. root' = root
    BY DEF Next, Processo, Abre, PedeGet, TrataGet, PedeNext, SemResposta,
           RespostaErro, ForaDaqui, Excecao, Linha, SemGet, Fecha, SelectW, TickW,
           Mundo, walkVars, vars
  <2>2. Indutivo /\ Sessao /\ saida \in Seq(Nome) /\ root \in Nome
    BY Partes, WalkAssumption DEF IndutivoIds, Indutivo, TypeOK
  <2>3. Nome \subseteq Seq(Nat) \ {<<>>}
    BY DEF Distingue
  <2>4. ASSUME NEW n, ~Abaixo(root, n), saida' = Append(saida, n) PROVE Mudo'
    BY <2>1, <2>2, <2>4 DEF Mudo
  <2>5. CASE Linha
    <3>1. /\ state.pdu.errstat = "noError"
          /\ ~ForaDaSubarvore(root, state.pdu.nome)
          /\ saida' = Append(saida, state.pdu.nome)
      BY <2>5 DEF Linha, Variavel, Chegou
    <3>2. state.pdu.nome \in Nome
      BY <2>2, <3>1, NomeDaResposta
    <3>3. ~Abaixo(root, state.pdu.nome)
      BY <2>2, <2>3, <3>1, <3>2, ForaSse255
    <3>4. QED
      BY <2>1, <2>4, <3>1, <3>3
  <2>6. CASE TrataGet
    <3>1. CASE saida' = saida
      BY <2>1, <3>1 DEF Mudo
    <3>2. CASE saida' # saida
      <4>1. /\ pc \in {"esperaInclui", "esperaGet"} /\ ~state.waiting
            /\ state.status = "success" /\ state.pdu.errstat = "noError"
            /\ saida' = Append(saida, state.pdu.nome)
        BY <2>6, <3>2 DEF TrataGet
      <4>2. Responda("get", root, state.pdu)
        BY <4>1 DEF IndutivoIds, InvResposta, Corresponde, Comanda, Pergunta
      <4>3. state.pdu.nome = root
        BY <4>1, <4>2 DEF Responda
      <4>4. ~Abaixo(root, root)
        BY <2>2, <2>3 DEF Abaixo
      <4>5. QED
        BY <2>1, <2>4, <4>1, <4>3, <4>4
    <3>3. QED
      BY <3>1, <3>2
  <2>7. CASE ~Linha /\ ~TrataGet
    <3>1. saida' = saida
      BY <2>7 DEF Next, Processo, Abre, PedeGet, PedeNext, SemResposta, RespostaErro,
             ForaDaqui, Excecao, SemGet, Fecha, SelectW, TickW, Mundo, walkVars, vars
    <3>2. QED
      BY <2>1, <3>1 DEF Mudo
  <2>8. QED
    BY <2>5, <2>6, <2>7
<1>3. Inv => Mudo
  OBVIOUS
<1>4. Spec => []IndutivoIds
  BY SempreIds
<1> HIDE DEF Inv
<1>5. QED
  BY <1>1, <1>2, <1>3, <1>4, PTL DEF Spec

\* What makes the walk end, whichever variable the agent answers with: each time
\* round the loop there are fewer names left that could be asked for.
THEOREM AvancaSempre ==
  Distingue =>
    (Spec => [][pc = "espera" /\ pc' = "laco" =>
                  Cardinality(Alem(name')) + 1 <= Cardinality(Alem(name))]_vars)
<1> SUFFICES ASSUME Distingue
             PROVE  Spec => [][pc = "espera" /\ pc' = "laco" =>
                       Cardinality(Alem(name')) + 1 <= Cardinality(Alem(name))]_vars
  OBVIOUS
<1>1. IndutivoIds /\ [Next]_vars =>
        [pc = "espera" /\ pc' = "laco" =>
           Cardinality(Alem(name')) + 1 <= Cardinality(Alem(name))]_vars
  <2> SUFFICES ASSUME IndutivoIds, Next, pc = "espera", pc' = "laco"
               PROVE  Cardinality(Alem(name')) + 1 <= Cardinality(Alem(name))
    OBVIOUS
  <2>1. Linha
    BY DEF Next, Processo, Abre, PedeGet, TrataGet, PedeNext, SemResposta,
           RespostaErro, ForaDaqui, Excecao, SemGet, Fecha, SelectW, TickW,
           Mundo, walkVars
  <2>2. /\ state.pdu.errstat = "noError" /\ name' = state.pdu.nome
        /\ ~(snmp_oid_compare(name, state.pdu.nome) >= 0)
    BY <2>1 DEF Linha, Variavel, Chegou
  <2>3. Indutivo /\ Sessao
    BY Partes DEF IndutivoIds
  <2>4. name \in Nome /\ state.pdu.nome \in Nome
    BY <2>2, <2>3, NomeDaResposta DEF Indutivo, TypeOK
  <2>5. name \in Seq(Nat) /\ state.pdu.nome \in Seq(Nat)
    BY <2>4 DEF Distingue
  <2>6. Antes(name, state.pdu.nome)
    <3>1. snmp_oid_compare(name, state.pdu.nome) \in Int
      BY DEF snmp_oid_compare
    <3>2. QED
      BY <2>2, <2>5, <3>1, CompareAntes
  <2>7. QED
    BY <2>2, <2>4, <2>6, AlemDecresce
<1>2. Spec => []IndutivoIds
  BY SempreIds
<1>3. QED
  BY <1>1, <1>2, PTL DEF Spec
===============================================================================
