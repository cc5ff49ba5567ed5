--------------------------------- MODULE IdSnmp ----------------------------------
(* The interface walk: 00_coleta_walk_ifdescr.sh starts one snmpwalk per host   *)
(* in the background, sixty seconds apart, and then runs 00_ler_snmp_walk_host *)
(* (the index of every interface that is monitored, in the list get_int.pl    *)
(* polls), atualiza_id_snmp_rtt2 (the indexes in the database) and             *)
(* 00_start_cfg (a login to every host that gave no index).  The sleep is all  *)
(* that orders a walk and the reading of its log: a log may be read while it   *)
(* is written, up to the middle of a line.                                     *)
EXTENDS Integers, Sequences, Functions

CONSTANTS
  Host, Nome,       \* hosts; interface names
  Ordens,           \* the orders hosts_snmpwalk.txt may have
  Casa(_),          \* the hosts whose log matches *$host*
  Tabela,           \* ifDescr of a host: a sequence of [n : name, id : index]
  Cortes,           \* <<name, the name left of it when its line is cut>>
  Serial,           \* the names that contain "Serial"
  Interesse,        \* <<host, name>> of host_interface.txt
  GrupoSnmp,        \* those of the groups snmpa and snmpb; the rest are rtt
  ComPonto,         \* those with a "." in the host or in the name
  LadoA, LadoB,     \* <<host, name>> of the two ends of the rows of "devices"
  Nada              \* no log, no index, no cut

VARIABLES
  ordem,            \* hosts_snmpwalk.txt
  conf,             \* hosts whose SNMP access is configured
  log,              \* log/$host: whole lines, and what is left of a cut name
  vivo,             \* hosts whose snmpwalk still writes to log/$host
  pc, i,            \* the script, its place in the list of hosts or in id_ger
  falta,            \* logs still to be read, hosts still to be configured
  lido,             \* the lines read of each log, until the round ends
  lista,            \* id_getsnmp.txt, as far as it is on disk
  geral,            \* id_ger.txt, until the round ends
  err,              \* id_err_host.txt
  bda, bdb          \* id_int and id_int_b in the database

vars == <<ordem, conf, log, vivo, pc, i, falta, lido, lista, geral, err, bda, bdb>>

Chave == Host \X Nome
Linha == [n : Nome, id : UNION {{Tabela[h][k].id : k \in DOMAIN Tabela[h]} : h \in Host}]
Entrada == [h : Host, n : Nome, id : {l.id : l \in Linha} \cup {Nada}]
Listados == Range(ordem)

\* A router has interfaces, and hosts_snmpwalk.txt has a host.
ASSUME IdSnmpAssumption ==
  /\ Ordens \subseteq Seq(Host) \ {<<>>}
  /\ \A h \in Host : Tabela[h] \in Seq(Linha) \ {<<>>}
  /\ Cortes \subseteq Nome \X Nome
  /\ Interesse \subseteq Chave
  /\ GrupoSnmp \subseteq Interesse /\ ComPonto \subseteq Interesse
  /\ Nada \notin [linhas : Nat, corte : Nome \cup {Nada}]

SemLinhas == [h \in Host |-> <<>>]
Vazio == [linhas |-> 0, corte |-> Nada]

Init ==
  /\ ordem \in Ordens
  /\ conf \in SUBSET Host
  /\ log = [h \in Host |-> Nada]
  /\ vivo = {}
  /\ pc = "fora" /\ i = 1
  /\ falta = {} /\ lido = SemLinhas
  /\ lista = {} /\ geral = <<>> /\ err = {}
  /\ bda = [c \in Chave |-> Nada] /\ bdb = [c \in Chave |-> Nada]

\* cron, or an operator, starts 00_coleta_walk_ifdescr.sh.
Comeca ==
  /\ pc \in {"fora", "morto"} /\ pc' = "walk" /\ i' = 1
  /\ UNCHANGED <<ordem, conf, log, vivo, falta, lido, lista, geral, err, bda, bdb>>

\* Variant: the rm comes after the start of the walk.
LancaRmDepois ==
  LET h == ordem[i]
  IN  /\ pc = "walk" /\ pc' = "dorme"
      /\ log' = [g \in Host |-> IF g \in Casa(h) THEN Nada ELSE log[g]]
      /\ vivo' = vivo \ Casa(h)
      /\ UNCHANGED <<ordem, conf, i, falta, lido, lista, geral, err, bda, bdb>>

\* rm log/*$host*, and snmpwalk in the background.  A walk of before that still
\* runs goes on writing to a file without a name.
Lanca ==
  LET h == ordem[i]
  IN  /\ pc = "walk" /\ pc' = "dorme"
      /\ log' = [g \in Host |-> IF g = h THEN Vazio
                                ELSE IF g \in Casa(h) THEN Nada ELSE log[g]]
      /\ vivo' = (vivo \ Casa(h)) \cup {h}
      /\ UNCHANGED <<ordem, conf, i, falta, lido, lista, geral, err, bda, bdb>>

\* sleep 60, and the next host.
Dorme ==
  /\ pc = "dorme" /\ i' = i + 1
  /\ pc' = IF i = Len(ordem) THEN "ler" ELSE "walk"
  /\ UNCHANGED <<ordem, conf, log, vivo, falta, lido, lista, geral, err, bda, bdb>>

\* What is left of the next line when a block ends inside it; Nada when the line
\* has not come to its "=", and then does not count as one.
Restos(h, n) ==
  {Nada} \cup {c[2] : c \in {d \in Cortes : n < Len(Tabela[h])
                                            /\ d[1] = Tabela[h][n + 1].n}}

\* snmpwalk writes a block of its output.
Bloco(h) ==
  /\ h \in vivo \cap conf
  /\ \E n \in log[h].linhas .. Len(Tabela[h]) : \E r \in Restos(h, n) :
       log' = [log EXCEPT ![h] = [linhas |-> n, corte |-> r]]
  /\ log' # log
  /\ UNCHANGED <<ordem, conf, vivo, pc, i, falta, lido, lista, geral, err, bda, bdb>>

\* snmpwalk reaches the end of the table and writes what it still holds.
FimWalk(h) ==
  /\ h \in vivo \cap conf
  /\ log' = [log EXCEPT ![h] = [linhas |-> Len(Tabela[h]), corte |-> Nada]]
  /\ vivo' = vivo \ {h}
  /\ UNCHANGED <<ordem, conf, pc, i, falta, lido, lista, geral, err, bda, bdb>>

\* snmpwalk gives up after the rows it has; a host without access gives none.
WalkFalha(h) ==
  /\ h \in vivo
  /\ \E n \in log[h].linhas .. (IF h \in conf THEN Len(Tabela[h]) ELSE 0) :
       log' = [log EXCEPT ![h] = [linhas |-> n, corte |-> Nada]]
  /\ vivo' = vivo \ {h}
  /\ UNCHANGED <<ordem, conf, pc, i, falta, lido, lista, geral, err, bda, bdb>>

\* Variant: id_err_host.txt is opened to append.
LAbreAnexa ==
  /\ pc = "ler" /\ pc' = "le"
  /\ falta' = {h \in Host : log[h] # Nada}
  /\ lido' = SemLinhas
  /\ lista' = {} /\ geral' = <<>>
  /\ UNCHANGED <<ordem, conf, log, vivo, i, err, bda, bdb>>

\* 00_ler_snmp_walk_host.pl: the directory is listed, the outputs are emptied.
LAbre ==
  /\ pc = "ler" /\ pc' = "le"
  /\ falta' = {h \in Host : log[h] # Nada}
  /\ lido' = SemLinhas
  /\ lista' = {} /\ geral' = <<>> /\ err' = {}
  /\ UNCHANGED <<ordem, conf, log, vivo, i, bda, bdb>>

\* The lines of a log that have an index and a name.
Linhas(h) ==
  LET n == log[h].linhas
  IN  SubSeq(Tabela[h], 1, n)
      \o (IF log[h].corte = Nada THEN <<>>
          ELSE <<[n |-> log[h].corte, id |-> Tabela[h][n + 1].id]>>)

\* One log is read: its lines go to id_ger.txt, and a log without lines is
\* reported in id_err_host.txt.
LLe(h) ==
  /\ pc = "le" /\ h \in falta
  /\ falta' = falta \ {h}
  /\ lido' = [lido EXCEPT ![h] = Linhas(h)]
  /\ geral' = geral \o [k \in DOMAIN Linhas(h) |->
                          [h |-> h, n |-> Linhas(h)[k].n, id |-> Linhas(h)[k].id]]
  /\ err' = IF Linhas(h) = <<>> THEN err \cup {h} ELSE err
  /\ UNCHANGED <<ordem, conf, log, vivo, pc, i, lista, bda, bdb>>

\* Variant: every name has its last index.
EscolhaUltima(linhas, nome) ==
  LET K == {k \in DOMAIN linhas : linhas[k].n = nome}
  IN  IF K = {} THEN Nada ELSE linhas[CHOOSE k \in K : \A j \in K : j <= k].id

\* $hint_id: a serial interface has its first index, the others their last.
Escolha(linhas, nome) ==
  LET K == {k \in DOMAIN linhas : linhas[k].n = nome}
  IN  IF K = {} THEN Nada
      ELSE IF nome \in Serial
      THEN linhas[CHOOSE k \in K : \A j \in K : k <= j].id
      ELSE linhas[CHOOSE k \in K : \A j \in K : j <= k].id

hint_id(c) == Escolha(lido[c[1]], c[2])
Entradas == {[h |-> c[1], n |-> c[2], id |-> hint_id(c)] :
               c \in {d \in GrupoSnmp : hint_id(d) # Nada}}

\* Every interface of the group snmp is printed with its index; one of any group
\* without an index puts its host, if it is in the list of hosts, among the ones to
\* be configured (without a "." it is looked up in a hash that is never filled).
\* Any part of the output may reach the disk before the end, and its last line may be
\* cut before the index.
LImprime ==
  /\ pc = "le" /\ falta = {} /\ pc' = "grava"
  /\ err' = err \cup {c[1] : c \in {d \in ComPonto : hint_id(d) = Nada
                                                     /\ d[1] \in Listados}}
  /\ \E S \in SUBSET Entradas :
       \/ lista' = S
       \/ \E e \in Entradas \ S : lista' = S \cup {[e EXCEPT !.id = Nada]}
  /\ UNCHANGED <<ordem, conf, log, vivo, i, falta, lido, geral, bda, bdb>>

LFecha ==
  /\ pc = "grava" /\ pc' = "rtt" /\ i' = 1
  /\ lista' = Entradas
  /\ UNCHANGED <<ordem, conf, log, vivo, falta, lido, geral, err, bda, bdb>>

\* Variant: the field before the index is taken.
AtualizaCampo ==
  LET l == geral[i]
      c == <<l.h, l.n>>
  IN  /\ pc = "rtt" /\ i <= Len(geral) /\ i' = i + 1
      /\ bdb' = IF c \in LadoB THEN [bdb EXCEPT ![c] = l.n] ELSE bdb
      /\ bda' = IF c \in LadoA \ LadoB THEN [bda EXCEPT ![c] = l.n] ELSE bda
      /\ UNCHANGED <<ordem, conf, log, vivo, pc, falta, lido, lista, geral, err>>

\* Variant: only an index that is missing in the database is filled in.
AtualizaSoVazio ==
  LET l == geral[i]
      c == <<l.h, l.n>>
  IN  /\ pc = "rtt" /\ i <= Len(geral) /\ i' = i + 1
      /\ bdb' = IF c \in LadoB /\ bdb[c] = Nada THEN [bdb EXCEPT ![c] = l.id] ELSE bdb
      /\ bda' = IF c \in LadoA \ LadoB /\ bda[c] = Nada
                THEN [bda EXCEPT ![c] = l.id] ELSE bda
      /\ UNCHANGED <<ordem, conf, log, vivo, pc, falta, lido, lista, geral, err>>

\* atualiza_id_snmp_rtt2.pl, one line of id_ger.txt: one update, of the b end when
\* the interface is one, else of the a end.
Atualiza ==
  LET l == geral[i]
      c == <<l.h, l.n>>
  IN  /\ pc = "rtt" /\ i <= Len(geral) /\ i' = i + 1
      /\ bdb' = IF c \in LadoB THEN [bdb EXCEPT ![c] = l.id] ELSE bdb
      /\ bda' = IF c \in LadoA \ LadoB THEN [bda EXCEPT ![c] = l.id] ELSE bda
      /\ UNCHANGED <<ordem, conf, log, vivo, pc, falta, lido, lista, geral, err>>

FimRtt ==
  /\ pc = "rtt" /\ i > Len(geral) /\ pc' = "cfg"
  /\ falta' = err
  /\ UNCHANGED <<ordem, conf, log, vivo, i, lido, lista, geral, err, bda, bdb>>

\* RaiseError: the connection, a select or an update fails and ends the program; the
\* script goes on, and the lines from i on are not applied.
BancoFalha ==
  /\ pc = "rtt" /\ i <= Len(geral) /\ pc' = "cfg"
  /\ falta' = err
  /\ UNCHANGED <<ordem, conf, log, vivo, i, lido, lista, geral, err, bda, bdb>>

\* 00_start_cfg.sh: a login to a host of id_err_host.txt, which configures its
\* access, or does not get that far before the time-outs.
Configura(h) ==
  /\ pc = "cfg" /\ h \in falta
  /\ falta' = falta \ {h}
  /\ conf' = conf \cup {h}
  /\ UNCHANGED <<ordem, log, vivo, pc, i, lido, lista, geral, err, bda, bdb>>

ConfiguraFalha(h) ==
  /\ pc = "cfg" /\ h \in falta
  /\ falta' = falta \ {h}
  /\ UNCHANGED <<ordem, conf, log, vivo, pc, i, lido, lista, geral, err, bda, bdb>>

Termina ==
  /\ pc = "cfg" /\ falta = {} /\ pc' = "fora"
  /\ i' = 1 /\ lido' = SemLinhas /\ geral' = <<>>
  /\ UNCHANGED <<ordem, conf, log, vivo, falta, lista, err, bda, bdb>>

\* The script and the program it runs are killed; the walks go on.
Morre ==
  /\ pc \notin {"fora", "morto"} /\ pc' = "morto"
  /\ i' = 1 /\ falta' = {} /\ lido' = SemLinhas /\ geral' = <<>>
  /\ UNCHANGED <<ordem, conf, log, vivo, lista, err, bda, bdb>>

Script ==
  \/ Lanca \/ Dorme \/ LAbre \/ (\E h \in Host : LLe(h)) \/ LImprime \/ LFecha
  \/ Atualiza \/ FimRtt \/ BancoFalha
  \/ (\E h \in Host : Configura(h) \/ ConfiguraFalha(h)) \/ Termina

Walk(h) == Bloco(h) \/ FimWalk(h) \/ WalkFalha(h)

Next == Comeca \/ Script \/ (\E h \in Host : Walk(h)) \/ Morre

Spec == Init /\ [][Next]_vars

\* The script is started again and again and its steps are not stopped; a walk
\* ends, since snmpwalk does.
SpecJusta ==
  Spec /\ WF_vars(Comeca) /\ WF_vars(Script)
       /\ \A h \in Host : WF_vars(FimWalk(h) \/ WalkFalha(h))

-------------------------------------------------------------------------------

\* The type invariant.
TypeOK ==
  /\ ordem \in Ordens /\ conf \subseteq Host /\ vivo \subseteq Host
  /\ \A h \in Host : log[h] # Nada =>
       log[h].linhas \in 0 .. Len(Tabela[h]) /\ log[h].corte \in Nome \cup {Nada}
  /\ \A h \in vivo : log[h] # Nada
  /\ i \in Nat /\ falta \subseteq Host /\ err \subseteq Host
  /\ lido \in [Host -> Seq(Linha)] /\ lista \subseteq Entrada
  /\ \A k \in DOMAIN geral : geral[k] \in Entrada
  /\ bda \in [Chave -> {e.id : e \in Entrada}] /\ bdb \in [Chave -> {e.id : e \in Entrada}]

\* Row k of a table is the one the comment in the reader names for its interface:
\* the first of a serial interface, the last of any other.
Regra(t, k) ==
  \A j \in DOMAIN t : t[j].n = t[k].n => IF t[k].n \in Serial THEN k <= j ELSE j <= k

\* An index written to the list get_int.pl polls is that of the row the reader's
\* comment names in the router's table, if the log was read after the walk had
\* ended well.  If it was read too early or the walk failed, it still is the index
\* of a row with that name, or of a row whose name was cut to it.
IdCerto ==
  \A e \in lista : pc \in {"grava", "rtt", "cfg"} /\ e.id # Nada =>
    \E k \in DOMAIN Tabela[e.h] :
      /\ Tabela[e.h][k].id = e.id
      /\ \/ Tabela[e.h][k].n = e.n /\ Regra(Tabela[e.h], k)
         \/ /\ lido[e.h] # Tabela[e.h]
            /\ Tabela[e.h][k].n = e.n \/ <<Tabela[e.h][k].n, e.n>> \in Cortes

\* Whether every line of an interface in id_ger.txt has been applied.
Aplicada(h, n) == \A k \in DOMAIN geral : geral[k].h = h /\ geral[k].n = n => k < i

\* While the configuration step runs, no interface is polled under one index and
\* recorded in the database under another: for an interface that is not serial,
\* the reader's list and the updates made line by line from id_ger.txt agree, unless
\* the database failed before the last of its lines.
BancoConcorda ==
  pc = "cfg" =>
    \A e \in lista : e.n \notin Serial /\ Aplicada(e.h, e.n) =>
      /\ <<e.h, e.n>> \in LadoB => bdb[<<e.h, e.n>>] = e.id
      /\ <<e.h, e.n>> \in LadoA \ LadoB => bda[<<e.h, e.n>>] = e.id

\* 00_start_cfg.sh logs in only to a host whose log was not read in full in this
\* round, or that lacks an interface of host_interface.txt, whatever its group: never
\* because of what an earlier round found.
LoginExplicado ==
  [][\A h \in Host : Configura(h) \/ ConfiguraFalha(h) =>
       \/ lido[h] # Tabela[h]
       \/ \E c \in ComPonto : c[1] = h /\ Escolha(Tabela[h], c[2]) = Nada]_vars

\* The log of h is not removed for the sake of a host that comes later.
LogFica(h) ==
  \A k, j \in DOMAIN ordem : k < j /\ ordem[k] = h => h \notin Casa(ordem[j])

\* A round without accidents: the script is not killed, a walk of a configured
\* host ends with the whole table, the logs are read when the walks have ended,
\* and a login leaves its host configured.
SemAcidente ==
  /\ pc' # "morto"
  /\ pc' = pc => \A h \in (vivo \ vivo') \cap conf :
                   log'[h].linhas = Len(Tabela[h])
  /\ pc = "le" => vivo = {}
  /\ pc = "cfg" => falta \ falta' \subseteq conf'

\* A host without SNMP access gets it, and its interfaces of the group snmp are in
\* the list again and again, provided that from some time on there are no accidents:
\* a host that gives no index is reported, configured, and walked in a later round.
HostEntra ==
  <>[][SemAcidente]_vars =>
    \A c \in GrupoSnmp :
      (c[1] \in Listados /\ LogFica(c[1]) /\ Escolha(Tabela[c[1]], c[2]) # Nada) =>
        []<>(\E e \in lista : e.h = c[1] /\ e.n = c[2] /\ e.id # Nada)
===============================================================================
