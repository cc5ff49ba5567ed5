------------------------------- MODULE ColetaCpu -------------------------------
(* snmp/coleta_cpu.pl, started again and again by coleta_cpu.sh: for every     *)
(* router of the list, ask its 5 minute CPU load by SNMP and put the answer    *)
(* in front of the router's history file, which has the router's name.         *)
EXTENDS LacoSnmp

ASSUME ColetaCpuAssumption == Nome \subseteq Arq

\* get_request, which returns an answer or, after its timeouts, undef; then
\* ResponseCheck and $t=time().
Pede ==
  /\ pc = "pede"
  /\ \E v \in Valor : amostra' = Nova(now, v)
  /\ ResponseCheck
  /\ pc' = "le"
  /\ UNCHANGED <<now, disco, arq, inf, saida, w, ligado, i, hostname>>

LeHistorico ==
  /\ pc = "le"
  /\ Ler(hostname)
  /\ pc' = "abre"
  /\ UNCHANGED <<now, i, hostname, sessao>>

AbreHistorico ==
  /\ pc = "abre"
  /\ AbreEscrita(amostra)
  /\ amostra' = Nova(0, SemResposta)  \* not used again before it is assigned
  /\ pc' = "grava"
  /\ UNCHANGED <<now, i, hostname, sessao>>

DescarregaHistorico ==
  /\ pc = "grava"
  /\ Descarrega
  /\ UNCHANGED <<now, coletor>>

\* close(tcpu), then $session->close and the next host.
FechaHistorico ==
  /\ pc = "grava"
  /\ Fecha
  /\ pc' = "laco"
  /\ sessao' = FALSE
  /\ UNCHANGED <<now, i, hostname>>

ColetaCpuNext ==
  \/ LacoNext
  \/ Pede
  \/ LeHistorico
  \/ AbreHistorico
  \/ DescarregaHistorico
  \/ FechaHistorico
  \/ Morre
===============================================================================
