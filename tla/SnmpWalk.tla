-------------------------------- MODULE SnmpWalk ---------------------------------
(* snmpwalk, the tool the walk scripts run for every host and table: one       *)
(* GETNEXT after another from the given identifier until an answer lies past   *)
(* its subtree, over a session and a network that lose, delay and reorder.     *)
EXTENDS Agente

CONSTANTS
  Raizes,           \* identifiers given on the command line
  Opcoes            \* [include, dontGet] : the flags -Ci and -CI

VARIABLES
  root, opcao,      \* the arguments
  pc,               \* where main is
  name,             \* the identifier of the next GETNEXT
  imprimiu,         \* numprinted > 0: a variable was printed, exceptions included
  saida,            \* the rows printed that have a value
  exitval

walkVars == <<root, opcao, pc, name, imprimiu, saida, exitval>>
vars == <<sessVars, mib, walkVars>>

ASSUME WalkAssumption == Raizes \subseteq Nome

WalkInit ==
  /\ root \in Raizes
  /\ opcao \in Opcoes
  /\ pc = "abre"
  /\ name = root
  /\ imprimiu = FALSE
  /\ saida = <<>>
  /\ exitval = 0

Init == SessInit /\ AgenteInit /\ WalkInit

\* The default end of the walk: the next sibling of the start.
end_oid(r) == [r EXCEPT ![Len(r)] = @ + 1]

ForaDaSubarvore(r, n) ==
  Len(n) < Len(r) \/ memcmp(end_oid(r), n, Len(r)) <= 0

\* snmp_open
Abre ==
  /\ pc = "abre"
  /\ \/ pc' = (IF opcao.include THEN "inclui" ELSE "laco") /\ UNCHANGED exitval
     \/ PodeFalhar /\ pc' = "fim" /\ exitval' = 1
  /\ UNCHANGED <<sessVars, mib, root, opcao, name, imprimiu, saida>>

\* snmp_get_and_print(ss, root): from "inclui" (-Ci) or after an empty walk.
PedeGet ==
  /\ \/ pc = "inclui" /\ pc' = "esperaInclui"
     \/ pc = "depois" /\ pc' = "esperaGet"
        /\ ~imprimiu /\ state.status = "success" /\ ~opcao.dontGet
  /\ snmp_send("get", root)
  /\ UNCHANGED <<mib, root, opcao, name, imprimiu, saida, exitval>>

\* An answer to the GET is printed, exceptions too; a failure is ignored.
TrataGet ==
  /\ ~state.waiting
  /\ \/ pc = "esperaInclui" /\ pc' = "laco"
     \/ pc = "esperaGet" /\ pc' = "fecha"
  /\ IF state.status = "success" /\ state.pdu.errstat = "noError"
     THEN /\ imprimiu' = TRUE
          /\ saida' = IF state.pdu.tipo = "valor"
                      THEN Append(saida, state.pdu.nome) ELSE saida
     ELSE UNCHANGED <<imprimiu, saida>>
  /\ UNCHANGED <<sessVars, mib, root, opcao, name, exitval>>

PedeNext ==
  /\ pc = "laco" /\ pc' = "espera"
  /\ snmp_send("getnext", name)
  /\ UNCHANGED <<mib, root, opcao, name, imprimiu, saida, exitval>>

Chegou == pc = "espera" /\ ~state.waiting

\* No answer, or the request could not be made.
SemResposta ==
  /\ Chegou /\ state.status # "success"
  /\ exitval' = 1 /\ pc' = "depois"
  /\ UNCHANGED <<sessVars, mib, root, opcao, name, imprimiu, saida>>

\* Variant: any error is taken for the end of the MIB.
ErroComoFim ==
  /\ Chegou /\ state.status = "success" /\ state.pdu.errstat # "noError"
  /\ pc' = "depois"
  /\ UNCHANGED <<sessVars, mib, root, opcao, name, imprimiu, saida, exitval>>

\* An error in the response; noSuchName is the end of the MIB.
RespostaErro ==
  /\ Chegou /\ state.status = "success" /\ state.pdu.errstat # "noError"
  /\ exitval' = IF state.pdu.errstat = "noSuchName" THEN exitval ELSE 2
  /\ pc' = "depois"
  /\ UNCHANGED <<sessVars, mib, root, opcao, name, imprimiu, saida>>

Variavel == Chegou /\ state.status = "success" /\ state.pdu.errstat = "noError"

ForaDaqui ==
  /\ Variavel /\ ForaDaSubarvore(root, state.pdu.nome)
  /\ pc' = "depois"
  /\ UNCHANGED <<sessVars, mib, root, opcao, name, imprimiu, saida, exitval>>

\* An exception is printed and ends the walk.
Excecao ==
  /\ Variavel /\ ~ForaDaSubarvore(root, state.pdu.nome)
  /\ state.pdu.tipo # "valor"
  /\ imprimiu' = TRUE
  /\ pc' = "depois"
  /\ UNCHANGED <<sessVars, mib, root, opcao, name, saida, exitval>>

\* Variant: the order is not looked at.
LinhaSemOrdem ==
  /\ Variavel /\ ~ForaDaSubarvore(root, state.pdu.nome)
  /\ state.pdu.tipo = "valor"
  /\ imprimiu' = TRUE
  /\ saida' = Append(saida, state.pdu.nome)
  /\ pc' = "laco"
  /\ name' = state.pdu.nome
  /\ UNCHANGED <<sessVars, mib, root, opcao, exitval>>

\* A row is printed; one that does not follow the previous name ends the walk.
Linha ==
  /\ Variavel /\ ~ForaDaSubarvore(root, state.pdu.nome)
  /\ state.pdu.tipo = "valor"
  /\ imprimiu' = TRUE
  /\ saida' = Append(saida, state.pdu.nome)
  /\ IF snmp_oid_compare(name, state.pdu.nome) >= 0
     THEN pc' = "depois" /\ exitval' = 1
     ELSE pc' = "laco" /\ UNCHANGED exitval
  /\ name' = state.pdu.nome
  /\ UNCHANGED <<sessVars, mib, root, opcao>>

\* After the loop, when there is no GET to try.
SemGet ==
  /\ pc = "depois"
  /\ ~(~imprimiu /\ state.status = "success" /\ ~opcao.dontGet)
  /\ pc' = "fecha"
  /\ UNCHANGED <<sessVars, mib, root, opcao, name, imprimiu, saida, exitval>>

Fecha ==
  /\ pc = "fecha" /\ pc' = "fim"
  /\ snmp_close
  /\ UNCHANGED <<mib, root, opcao, name, imprimiu, saida, exitval>>

Processo ==
  \/ Abre \/ PedeGet \/ TrataGet \/ PedeNext \/ SemResposta \/ RespostaErro
  \/ ForaDaqui \/ Excecao \/ Linha \/ SemGet \/ Fecha

SelectW == Select /\ UNCHANGED <<mib, walkVars>>
TickW == Tick /\ UNCHANGED <<mib, walkVars>>
Mundo == pc # "fim" /\ (Responde \/ MudaMib) /\ UNCHANGED walkVars

Next == Processo \/ SelectW \/ TickW \/ Mundo

\* The process runs and the clock moves.  The network delivers finitely many
\* datagrams between two ticks, so select does report a time that is over.
Prazo == state.waiting /\ snmp_sess_timeout /\ UNCHANGED <<mib, walkVars>>
Spec == Init /\ [][Next]_vars
SpecJusta == Spec /\ WF_vars(Processo) /\ WF_vars(TickW) /\ WF_vars(Prazo)

-------------------------------------------------------------------------------

\* The type invariant of the walk and its session.
TypeOK ==
  /\ SessTypeOK
  /\ root \in Raizes /\ name \in Nome /\ saida \in Seq(Nome)
  /\ imprimiu \in BOOLEAN /\ exitval \in 0 .. 2
  /\ pc \in {"abre", "inclui", "esperaInclui", "laco", "espera", "depois",
             "esperaGet", "fecha", "fim"}

\* What the walk shows its caller, as the abstract walk sees it.
Resultado == IF exitval # 0 THEN "erro" ELSE IF pc = "fim" THEN "ok" ELSE "anda"

V == INSTANCE Varredura WITH resultado <- Resultado

\* However datagrams are lost, delayed, answered twice or reordered, and however
\* rows come and go, the rows snmpwalk prints and the exit status it returns are
\* those of a walk: increasing, within the subtree, without passing over a row
\* that is there all the time, and success only at the end of the subtree.
ImplementaVarredura == V!VarrSpec

\* A call of snmp_synch_response that waits has its request in the list exactly
\* once: it can always end, by the answer or by the last time-out.
UmPendente ==
  state.waiting => Cardinality({r \in requests : r.id = state.reqid}) = 1

\* No call of snmp_synch_response takes longer than the time-outs of the first
\* message and of every retransmission, each with the strict comparison of
\* snmp_sess_timeout; the scripts' sleep counts on a bound like it.
EsperaLimitada == espera <= (Retries + 1) * (Timeout + 1)

\* "OID not increasing" is only said of an agent that answers out of order: a
\* late or repeated answer to an earlier request is never taken for the answer
\* to the current one.
DesordemSoDoAgente ==
  [][Linha /\ exitval' # exitval => <<name, state.pdu.nome>> \in Desordem]_vars

\* The manual page of snmpwalk: all variables in the subtree below the given
\* identifier are queried and their values presented to the user.  When the
\* command reports success, the rows that were there all the time have been shown.
SubarvoreMostrada ==
  pc = "fim" /\ exitval = 0 =>
    \A f \in Fixas : Abaixo(root, f) => \E k \in DOMAIN saida : saida[k] = f

\* The walk ends, whatever is lost and whichever variable or error the agent answers
\* with: there are as many retransmissions as configured, and an answer that does not
\* advance ends it.  The agent of the model answers with one variable, as GETNEXT
\* asks; with none, the loop over the variables would ask the same again.
Termina == <>(pc = "fim")
-------------------------------------------------------------------------------
(* The inductive invariant behind TypeOK and EsperaLimitada.                   *)

\* What is on the network, or may be sent again, was built from identifiers.
InvRede ==
  /\ \A r \in requests : Codifica(r.nome) # Invalido
  /\ ida \subseteq [cmd : Comando, reqid : ReqId, nome : Octs]
  /\ volta \subseteq [reqid : ReqId, errstat : Errstat, tipo : Tipo, nome : Octs]
  /\ mib \subseteq Nome

\* The call in progress has a pending request, whose retransmissions account for
\* the time the call has taken.
Conta(r) == espera <= r.retries * (Timeout + 1) + (Timeout - r.resta)

InvPrazo ==
  /\ EsperaLimitada
  /\ state.waiting => \E r \in requests : r.id = state.reqid /\ Conta(r)

\* main is in a call of snmp_synch_response as long as that call waits.
EmChamada == state.waiting => pc \in {"esperaInclui", "espera", "esperaGet"}

Indutivo == TypeOK /\ InvRede /\ InvPrazo /\ EmChamada
-------------------------------------------------------------------------------
(* The conditions under which a walk keeps its promise, whatever the sizes.    *)

\* Identifiers are sequences of numbers that come back from a message as they
\* went in, and the counter of request-ids does not come round within one walk.
Distingue ==
  /\ Nome \subseteq Seq(Nat) \ {<<>>}
  /\ \A n \in Nome : Codifica(n) # Invalido => Decodifica(Codifica(n)) = n
  /\ IsFiniteSet(Nome) /\ Cardinality(Nome) + 2 <= Mascara /\ 4 <= Mascara

\* The test with memcmp finds the end of the subtree below r, and an agent that
\* answers out of order does so within it.
Reconhece(r) ==
  /\ \A n \in Nome : Antes(r, n) => (ForaDaSubarvore(r, n) <=> ~Abaixo(r, n))
  /\ \A p \in Desordem :
       p[1] = r \/ Abaixo(r, p[1]) => ~ForaDaSubarvore(r, p[2])

\* What that asks of the numbers: that of the table does not end in an octet of
\* 255, and a name that leaves the path to the table does so at a number that,
\* like that of the path, is a single octet; out of order, an agent that is asked
\* for a name of the table answers with one of the table.
UmOcteto(r) ==
  /\ r[Len(r)] % 256 # 255
  /\ \A n \in Nome : \A i \in 1 .. Menor2(Len(r), Len(n)) :
       (\A j \in 1 .. i - 1 : r[j] = n[j]) /\ r[i] # n[i] => r[i] < 256 /\ n[i] < 256
  /\ \A p \in Desordem :
       p[1] = r \/ Abaixo(r, p[1]) => p[2] = r \/ Abaixo(r, p[2])
===============================================================================
