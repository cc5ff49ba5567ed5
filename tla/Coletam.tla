-------------------------------- MODULE Coletam --------------------------------
(* leitor/rep/leitor_coletam.pl: read the logs of the interface walks, one per  *)
(* router, give every interface a status, compare it with the table of the run  *)
(* before (info_man.txt), log the changes and write the new table over the old  *)
(* one.  The walks that write the logs are not in this repository.             *)
EXTENDS Integers, Sequences, FiniteSetsExt

CONSTANTS
  Host,         \* the routers, each with one log file
  Indice,       \* ifIndex
  ifDescr,      \* for every router and index, the interface: [porta, canal]
  Nomes,        \* what may stand for the name of an interface in a file
  Vazio,        \* the name of which nothing is left
  Cortes,       \* pairs of a key and what a cut may leave of it
  Resposta,     \* what a whole log has of ifAdminStatus and ifOperStatus: [adm, oper]
  MaxFalhas,    \* bound: the number of kills and of cut logs
  MaxT          \* bound: the clock stops here

\* The key of a line: its router and its name.
Chave == Host \X Nomes

ASSUME ColetamAssumption ==
  /\ DOMAIN ifDescr = Host \X Indice
  /\ 0 \notin Indice
  /\ Vazio \in Nomes
  /\ \A p \in DOMAIN ifDescr : ifDescr[p].porta \in Nomes
  /\ Cortes \subseteq Chave \X Chave
  /\ MaxFalhas \in Nat
  /\ MaxT \in Nat

VARIABLES
  now,          \* time()
  falhas,       \* the kills and the cut logs there have been
  pc,           \* "corre", "geral", "fecha", then "fim", or "morto" after a kill
  t,            \* $t, the time the run began
  status_old,   \* @status_old, the lines of the old table
  resta,        \* the files of readdir that have not been read
  host,         \* $host, the router of the file being read
  itens,        \* its rows that have not been printed
  conta,        \* $vd, $vm, $adm and $err
  info,         \* info_man.txt, or what was printed for it so far
  evlog,        \* the events logged, those of all runs one after the other
  geral,        \* geral_web_man.txt
  perdeu,       \* auxiliary: whether a kill has ever lost an event
  trocadas      \* auxiliary: the keys a cut log has ever given to a row not theirs

arquivos == <<info, evlog, geral, perdeu, trocadas>>
vars == <<now, falhas, pc, t, status_old, resta, host, itens, conta, arquivos>>

Status == {"1-up", "2-down", "3-administrativamente down", "erro"}
SemStatus == ""

\* $sent: the field after the third ":" of "IF-MIB::ifDescr.1 = STRING: Serial4/4:0",
\* which loses the channel of a channelized interface.
Nome(h, item) == ifDescr[<<h, item>>].porta

\* Whether a row or a line has the name of its interface.
DoNome(h, item, nome) == item \in Indice /\ nome = Nome(h, item)

\* What a cut may leave of the key of a line, and of the name of a row of a log.
Cortadas(c) == {d \in Chave : <<c, d>> \in Cortes}
NomesCortados(h, item) ==
  {Vazio} \cup {n \in Nomes : <<h, n>> \in Cortadas(<<h, Nome(h, item)>>)}

\* The rows of a log: the index, the name and the two status values.  A log names
\* some of the indexes, or none; a walk that was cut, or is still under way, may
\* lack the rest and the status of those it names.  A walk cut within ifDescr ends
\* in a line that has only a part of its name, or, cut within the index, takes the
\* name from the row of another index, or adds a row for no interface, item 0.
SemResposta == [adm |-> "", oper |-> ""]
LinhaLog == [nome : Nomes, resposta : Resposta \cup {SemResposta}]
Inteiro(h) ==
  UNION {{[x \in S |-> [nome |-> Nome(h, x), resposta |-> f[x]]] :
            f \in [S -> Resposta \cup {SemResposta}]} : S \in SUBSET Indice}
CortaLog(h, l) ==
  (UNION {{[l EXCEPT ![x].nome = n] : n \in NomesCortados(h, x)} : x \in DOMAIN l})
    \cup {[x \in DOMAIN l \cup {0} |->
            IF x = 0 THEN [nome |-> Vazio, resposta |-> SemResposta] ELSE l[x]]}

\* A line of the table.  item, the index, is not printed: it only serves to say
\* which interface the line is about.  The last line of a table that a kill has
\* cut is about none, and the field of its status is empty or no status.
Linha == [tx : Nat, host : Host, nome : Nomes, status : Status \cup {SemStatus},
          item : Indice \cup {0}]
Rasgada(l, c) == [tx |-> l.tx, host |-> c[1], nome |-> c[2], status |-> SemStatus, item |-> 0]

\* Variant: an interface without an answer keeps an empty status.
StatusVazio(x) ==
  IF x.adm = "down(2)" THEN "3-administrativamente down"
  ELSE IF x.adm = "up(1)" /\ x.oper = "up(1)" THEN "1-up"
  ELSE IF x.adm = "up(1)" /\ x.oper = "down(2)" THEN "2-down"
  ELSE SemStatus

StatusDe(x) ==
  IF x.adm = "down(2)" THEN "3-administrativamente down"
  ELSE IF x.adm = "up(1)" /\ x.oper = "up(1)" THEN "1-up"
  ELSE IF x.adm = "up(1)" /\ x.oper = "down(2)" THEN "2-down"
  ELSE "erro"

\* %status_o: the lines of the old table with the same host and name, of which
\* the last counts, be it one that a kill has cut.
Antiga(h, nome) ==
  LET ks == {k \in DOMAIN status_old :
               status_old[k].host = h /\ status_old[k].nome = nome}
  IN  IF ks = {} THEN <<>> ELSE <<status_old[Max(ks)]>>
StatusAntigo(velha) == IF velha = <<>> THEN SemStatus ELSE velha[1].status

\* Variants: the comparison is left out; a new interface is not a change.
MudouSempre(velho, status) == TRUE
MudouSoConhecida(velho, status) == velho # SemStatus /\ velho # status

Mudou(velho, status) == velho # status

\* Variant: an interface in error is not counted.
ContaSemErro(c, status) == IF status = "erro" THEN c ELSE [c EXCEPT ![status] = @ + 1]

Conta(c, status) == [c EXCEPT ![status] = @ + 1]
-------------------------------------------------------------------------------
Init ==
  /\ now = 1
  /\ falhas = 0
  /\ pc = "fim"
  /\ t = 0
  /\ status_old = <<>>
  /\ resta = {}
  /\ host \in Host
  /\ itens = <<>>
  /\ conta = [s \in Status |-> 0]
  /\ info = <<>>
  /\ evlog = <<>>
  /\ geral = <<>>
  /\ perdeu = FALSE
  /\ trocadas = {}

\* The program starts, a minute or more after it started last: readdir, time(),
\* the old table is read, and open(">") empties it.
Inicia ==
  /\ pc \in {"fim", "morto"}
  /\ now > t
  /\ pc' = "corre"
  /\ t' = now
  /\ status_old' = info
  /\ resta' = Host
  /\ info' = <<>>
  /\ conta' = [s \in Status |-> 0]
  /\ UNCHANGED <<now, falhas, host, itens, evlog, geral, perdeu, trocadas>>

\* The next file: its lines, which are whatever a walk has left there by now, are
\* sorted into the three hashes.
LeArquivo ==
  /\ pc = "corre"
  /\ itens = <<>>
  /\ \E h \in resta :
       /\ resta' = resta \ {h}
       /\ host' = h
       /\ \/ itens' \in Inteiro(h) /\ UNCHANGED falhas
          \/ /\ falhas < MaxFalhas
             /\ falhas' = falhas + 1
             /\ \E l \in Inteiro(h) : itens' \in CortaLog(h, l)
  /\ UNCHANGED <<now, pc, t, status_old, conta, arquivos>>

\* A row of the file, in the order of keys(%interface): its status, compared with
\* the old one; a change is logged and has the time of this run.
Imprime ==
  /\ pc = "corre"
  /\ \E item \in DOMAIN itens :
       LET nome == itens[item].nome
           status == StatusDe(itens[item].resposta)
           velha == Antiga(host, nome)
           mudou == Mudou(StatusAntigo(velha), status)
           tx == IF velha # <<>> /\ velha[1].status = status THEN velha[1].tx ELSE t
       IN  /\ itens' = [x \in DOMAIN itens \ {item} |-> itens[x]]
           /\ conta' = Conta(conta, status)
           /\ info' = Append(info, [tx |-> tx, host |-> host, nome |-> nome,
                                    status |-> status, item |-> item])
           /\ evlog' = IF mudou
                       THEN Append(evlog, [t |-> t, host |-> host, nome |-> nome,
                                           status |-> status, item |-> item])
                       ELSE evlog
           /\ trocadas' = IF DoNome(host, item, nome)
                          THEN trocadas ELSE trocadas \cup {<<host, nome>>}
  /\ UNCHANGED <<now, falhas, pc, t, status_old, resta, host, geral, perdeu>>

\* After the last row, open(">") empties geral_web_man.txt.
AbreGeral ==
  /\ pc = "corre"
  /\ resta = {}
  /\ itens = <<>>
  /\ pc' = "geral"
  /\ geral' = <<>>
  /\ UNCHANGED <<now, falhas, t, status_old, resta, host, itens, conta, info, evlog,
                 perdeu, trocadas>>

\* The totals are printed and close() writes them.
FechaGeral ==
  /\ pc = "geral"
  /\ pc' = "fecha"
  /\ geral' = <<[t |-> t, conta |-> conta]>>
  /\ UNCHANGED <<now, falhas, t, status_old, resta, host, itens, conta, info, evlog,
                 perdeu, trocadas>>

Encerra ==
  /\ status_old' = <<>>
  /\ resta' = {}
  /\ itens' = <<>>
  /\ conta' = [s \in Status |-> 0]
  /\ UNCHANGED <<t, host>>

\* close() writes the rest of the table, and the end of the program the rest of
\* the events.
Termina ==
  /\ pc = "fecha"
  /\ pc' = "fim"
  /\ Encerra
  /\ UNCHANGED <<now, falhas, arquivos>>

Correndo == {"corre", "geral", "fecha"}

\* What a kill may leave of the table printed so far: some of its lines, the last of
\* them perhaps cut before the end of its status.
Restos(s) ==
  {SubSeq(s, 1, n) : n \in 0 .. Len(s)} \cup
  UNION {{Append(SubSeq(s, 1, n - 1), Rasgada(s[n], c)) :
            c \in {<<s[n].host, s[n].nome>>} \cup Cortadas(<<s[n].host, s[n].nome>>)}
         : n \in 1 .. Len(s)}

\* The program is killed, anywhere: what was still in the buffers of the table and of
\* the events is lost, and an event cut in two as well.
Morre ==
  /\ falhas < MaxFalhas
  /\ falhas' = falhas + 1
  /\ pc \in Correndo
  /\ pc' = "morto"
  /\ info' \in Restos(info)
  /\ \E n \in Len(SelectSeq(evlog, LAMBDA e : e.t # t)) .. Len(evlog) :
       evlog' = SubSeq(evlog, 1, n)
  /\ perdeu' = (perdeu \/ evlog' # evlog)
  /\ Encerra
  /\ UNCHANGED <<now, geral, trocadas>>

ColetamNext == Inicia \/ LeArquivo \/ Imprime \/ AbreGeral \/ FechaGeral \/ Termina \/ Morre

Tick ==
  /\ now < MaxT
  /\ now' = now + 1
  /\ UNCHANGED <<falhas, pc, t, status_old, resta, host, itens, conta, arquivos>>

Next == ColetamNext \/ Tick

Spec == Init /\ [][Next]_vars

TypeOK ==
  /\ now \in Nat /\ falhas \in Nat /\ t \in Nat
  /\ pc \in Correndo \cup {"fim", "morto"}
  /\ resta \subseteq Host
  /\ host \in Host
  /\ DOMAIN itens \subseteq Indice \cup {0}
  /\ itens \in [DOMAIN itens -> LinhaLog]
  /\ conta \in [Status -> Nat]
  /\ status_old \in Seq(Linha)
  /\ info \in Seq(Linha)
  /\ \A k \in DOMAIN info : info[k].status = SemStatus => pc = "morto" /\ k = Len(info)
  /\ perdeu \in BOOLEAN
  /\ trocadas \subseteq Chave
  /\ geral = <<>> \/ geral[1] \in [t : Nat, conta : [Status -> Nat]]
-------------------------------------------------------------------------------
\* The keys of an old table under which there is a line that a kill has cut, or one
\* that a cut log has given a name not its own.
Turvas(s) ==
  {<<s[k].host, s[k].nome>> :
     k \in {m \in DOMAIN s : s[m].status = SemStatus \/ ~DoNome(s[m].host, s[m].item, s[m].nome)}}

\* "compara status atual com anterior se diferente gera log": an event of the
\* current run is about an interface whose status in the table before was
\* another, or that the table did not have, unless the log of the walk has cut its
\* name, or the key in the table before was (also) that of a cut line.
EventoSoDeMudanca ==
  pc \in Correndo =>
    \A k \in DOMAIN evlog :
      LET e == evlog[k]
      IN  e.t = t /\ DoNome(e.host, e.item, e.nome) /\ <<e.host, e.nome>> \notin Turvas(status_old)
            => \A m \in DOMAIN status_old :
                 status_old[m].host = e.host /\ status_old[m].item = e.item
                 /\ status_old[m].nome = e.nome
                   => status_old[m].status # e.status

\* The log explains the table: the last event of the key of a whole line has the
\* status and the time of the line, over any number of runs, interfaces that
\* are missing from some of them, walks that were cut, and kills, as long as no kill
\* has lost an event and no cut log has given the key to another interface.
TabelaExplicada ==
  ~perdeu => \A k \in DOMAIN info :
    LET evs == {e \in DOMAIN evlog :
                  evlog[e].host = info[k].host /\ evlog[e].nome = info[k].nome}
    IN  info[k].status # SemStatus /\ <<info[k].host, info[k].nome>> \notin trocadas
          => /\ evs # {}
             /\ evlog[Max(evs)].status = info[k].status
             /\ evlog[Max(evs)].t = info[k].tx

\* The totals that a run has published are, status by status, those of its table,
\* which has no interface twice; of a run that was killed between the two files, the
\* table may lack lines that the totals count, never the other way round.
TotaisConferem ==
  geral # <<>> /\ geral[1].t = t =>
    /\ \A s \in Status :
         LET n == Cardinality({k \in DOMAIN info : info[k].status = s})
         IN  /\ n <= geral[1].conta[s]
             /\ pc # "morto" => n = geral[1].conta[s]
    /\ \A k, m \in {x \in DOMAIN info : info[x].status # SemStatus} :
         info[k].host = info[m].host /\ info[k].item = info[m].item => k = m
-------------------------------------------------------------------------------
\* EventoSoDeMudanca and TabelaExplicada are proved of routers none of which has
\* two interfaces of the same name in the table.
NomesUnicos == \A h \in Host : \A x, y \in Indice : Nome(h, x) = Nome(h, y) => x = y
===============================================================================
