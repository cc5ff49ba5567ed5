------------------------------- MODULE LacoSnmp -------------------------------
(* The frame that coleta_cpu.pl and coleta_mem_temp_pwr.pl share line by line: *)
(* read the list of hosts, skip the names outside two domains, open an SNMP    *)
(* session per host and leave the program when that fails.                     *)
EXTENDS Historico

CONSTANTS
  Nome,         \* host names
  Lista,        \* hosts_snmpwalk.txt: the names, in the order of the file
  Elegivel,     \* the names that match /\.psys|\.cti/
  FalhaSessao,  \* hosts for which Net::SNMP->session may return undef
  PodeMorrer    \* whether the process may be killed, or the machine stop

ASSUME LacoSnmpAssumption ==
  /\ Lista \in Seq(Nome)
  /\ Elegivel \subseteq Nome
  /\ FalhaSessao \subseteq Nome
  /\ PodeMorrer \in BOOLEAN

VARIABLES
  pc,           \* where the program is
  i,            \* the lines of the list it has taken
  hostname,     \* $hostname
  sessao        \* whether $session is open

coletor == <<pc, i, hostname, sessao>>

LacoInit ==
  /\ HistoricoInit
  /\ pc = "fim"
  /\ i = 0
  /\ hostname \in Nome
  /\ sessao = FALSE

\* The program starts and reads the list.
Inicia ==
  /\ pc = "fim"
  /\ pc' = "laco"
  /\ i' = 0
  /\ UNCHANGED <<now, disco, escritor, hostname, sessao>>

\* The next line of the list; a name outside the two domains is skipped.
Proximo ==
  /\ pc = "laco"
  /\ i < Len(Lista)
  /\ i' = i + 1
  /\ hostname' = Lista[i + 1]
  /\ pc' = IF hostname' \in Elegivel THEN "sessao" ELSE "laco"
  /\ UNCHANGED <<now, disco, escritor, sessao>>

\* The list is done: exit.
Termina ==
  /\ pc = "laco"
  /\ i = Len(Lista)
  /\ pc' = "fim"
  /\ i' = 0
  /\ sessao' = FALSE
  /\ UNCHANGED <<now, disco, escritor, hostname>>

\* Net::SNMP->session: an object ...
AbreSessao ==
  /\ pc = "sessao"
  /\ pc' = "pede"
  /\ sessao' = TRUE
  /\ UNCHANGED <<now, disco, escritor, i, hostname>>

\* ... or undef, and then exit 1: the rest of the list is not collected.
SessaoIndefinida ==
  /\ pc = "sessao"
  /\ hostname \in FalhaSessao
  /\ pc' = "fim"
  /\ i' = 0
  /\ sessao' = FALSE
  /\ UNCHANGED <<now, disco, escritor, hostname>>

\* ResponseCheck: an undefined response is reported on the terminal; the close
\* and the exit are commented out.
ResponseCheck == UNCHANGED sessao

\* The process ends where it stands: its memory is gone, the disk stays.
Encerra ==
  /\ pc' = "fim"
  /\ i' = 0
  /\ sessao' = FALSE
  /\ UNCHANGED hostname
  /\ amostra' = Nova(0, SemResposta)
  /\ inf' = <<>>
  /\ saida' = <<>>
  /\ w' = 0
  /\ ligado' = FALSE
  /\ UNCHANGED arq

\* Somebody kills it.
Morre ==
  /\ PodeMorrer
  /\ pc # "fim"
  /\ Encerra
  /\ UNCHANGED <<now, disco>>

LacoNext ==
  \/ Inicia
  \/ Proximo
  \/ Termina
  \/ AbreSessao
  \/ SessaoIndefinida

LacoTypeOK ==
  /\ HistoricoTypeOK
  /\ pc \in {"fim", "laco", "sessao", "pede", "le", "abre", "grava"}
  /\ i \in 0 .. Len(Lista)
  /\ hostname \in Nome
  /\ sessao \in BOOLEAN
===============================================================================
