------------------------------- MODULE ColetaMem -------------------------------
(* snmp/coleta_mem_temp_pwr.pl: for every host of the list, ask eleven SNMP    *)
(* tables (memory pools, temperature sensors, fans, power supplies) and put a  *)
(* line in front of one history per pool, one per sensor, one for the fans and *)
(* one for the power supplies.  Of the tables, four decide what the program    *)
(* does: the two with names say which files are written, and the two columns   *)
(* of the memory pools are divided.  The values of the other seven are printed *)
(* as they come, or as nothing.                                                *)
EXTENDS LacoSnmp, Functions

CONSTANTS
  Item,         \* rows of the tables: [host, tipo, it, arq]
  Coluna        \* the values of a cell of the memory pool table

Tipo == {"mem", "temp", "fan", "pwr"}

\* Every host has one file for its fans and one for its power supplies.  Two
\* pools, or two sensors, may well have the same file: the names that
\* s/\//_/, s/ /_/ and the others make of their names can be equal.
ASSUME ColetaMemAssumption ==
  /\ Item \subseteq [host : Nome, tipo : Tipo, it : Nat, arq : Arq]
  /\ Coluna \subseteq Nat
  /\ \A h \in Nome, tp \in {"fan", "pwr"} : \E e \in Item :
       {x \in Item : x.host = h /\ x.tipo = tp} = {e}

VARIABLE
  fila          \* the items still to be written, with what was answered for them

ColetaMemInit == LacoInit /\ fila = <<>>

DoHost(tp) == {e \in Item : e.host = hostname /\ e.tipo = tp}

\* A column of the memory pools: a cell per pool or, when get_table returned
\* undef, no cell, which counts as 0 in the division.
RespostaColuna == [DoHost("mem") -> Coluna] \cup {[e \in DoHost("mem") |-> 0]}

\* The rows of a table of names: an unanswered one is an empty hash, and then no
\* file of that kind is written.
Nomeados(tp, respondeu) == IF respondeu THEN DoHost(tp) ELSE {}

\* The tables of fans and power supplies: their two files are written whatever
\* was answered.
SempreEscritos == DoHost("fan") \cup DoHost("pwr")

\* $t=time(), then the eleven get_table calls, each with its ResponseCheck.
PedeTabelas ==
  /\ pc = "pede"
  /\ amostra' = Nova(now, SemResposta)
  /\ \E mem_tipo, temp_nome \in BOOLEAN,
        mem_free, mem_utl \in RespostaColuna :
       LET nomes == Nomeados("mem", mem_tipo) \cup Nomeados("temp", temp_nome)
                      \cup SempreEscritos
       IN  fila' = [e \in nomes |-> IF e.tipo = "mem"
                                    THEN <<mem_free[e], mem_utl[e]>>
                                    ELSE SemResposta]
  /\ ResponseCheck
  /\ pc' = "le"
  /\ UNCHANGED <<now, disco, arq, inf, saida, w, ligado, i, hostname>>

\* The loops over %h_mem_nome and %h_temp_nome, in the order of keys(), then the
\* fans, then the power supplies.
Fase(tp) == CASE tp = "mem"  -> 1
              [] tp = "temp" -> 2
              [] tp = "fan"  -> 3
              [] tp = "pwr"  -> 4

Primeiros ==
  {e \in DOMAIN fila : \A x \in DOMAIN fila : Fase(e.tipo) <= Fase(x.tipo)}

\* Variant: @inf is not read again for every item.
LeItemSemLer ==
  /\ pc = "le"
  /\ \E e \in Primeiros : arq' = e.arq
  /\ pc' = "abre"
  /\ UNCHANGED <<now, disco, amostra, inf, saida, w, ligado, i, hostname, sessao, fila>>

LeItem ==
  /\ pc = "le"
  /\ \E e \in Primeiros : Ler(e.arq)
  /\ pc' = "abre"
  /\ UNCHANGED <<now, i, hostname, sessao, fila>>

\* $mem_pct=($h_mem_utl/($h_mem_utl+$h_mem_free))*100 and sprintf("%4.2f"):
\* the nearest hundredth, as a number of hundredths.
MemPct(livre, utl) ==
  (2 * 10000 * utl + utl + livre) \div (2 * (utl + livre))

\* The histories hold what the division gives.
ASSUME MemPctAssumption ==
  \A livre, utl \in Coluna \cup {0} :
    livre + utl > 0 => <<livre, utl, MemPct(livre, utl)>> \in Valor

\* The line of the item: for a pool, free, used and the percentage.
Medida(e, x) ==
  IF e.tipo = "mem" THEN <<x[1], x[2], MemPct(x[1], x[2])>> ELSE x

\* Variant: a value is divided for every kind of item.
DivisaoDeTodos(e, x) == e.tipo # "mem" \/ x[1] + x[2] = 0

DivisaoPorZero(e, x) == e.tipo = "mem" /\ x[1] + x[2] = 0

\* open(">") and the prints, for the item whose file was read.
AbreItem ==
  /\ pc = "abre"
  /\ \E e \in Primeiros :
       /\ e.arq = arq
       /\ ~DivisaoPorZero(e, fila[e])
       /\ AbreEscrita([amostra EXCEPT !.v = Medida(e, fila[e])])
       /\ fila' = Restrict(fila, DOMAIN fila \ {e})
  /\ pc' = "grava"
  /\ UNCHANGED <<now, amostra, i, hostname, sessao>>

\* open(">"), and the division that comes after it fails: perl dies, the file is
\* empty, and the rest of the host and of the list is not collected.
DivideZero ==
  /\ pc = "abre"
  /\ \E e \in Primeiros : e.arq = arq /\ DivisaoPorZero(e, fila[e])
  /\ dir' = dir \cup {arq}
  /\ linhas' = [linhas EXCEPT ![arq] = <<>>]
  /\ mtime' = [mtime EXCEPT ![arq] = now]
  /\ Encerra
  /\ fila' = <<>>
  /\ UNCHANGED now

DescarregaItem ==
  /\ pc = "grava"
  /\ Descarrega
  /\ UNCHANGED <<now, coletor, fila>>

\* Variant: the loops are left after the first item.
FechaESai ==
  /\ pc = "grava"
  /\ Fecha
  /\ pc' = "laco"
  /\ UNCHANGED <<now, i, hostname, sessao, fila>>

\* close(tcpu) and the next item; after the last one, the next host.  The session
\* stays open.
FechaItem ==
  /\ pc = "grava"
  /\ Fecha
  /\ pc' = IF DOMAIN fila = {} THEN "laco" ELSE "le"
  /\ UNCHANGED <<now, i, hostname, sessao, fila>>

ColetaMemNext ==
  \/ LacoNext /\ UNCHANGED fila
  \/ PedeTabelas
  \/ LeItem
  \/ AbreItem
  \/ DivideZero
  \/ DescarregaItem
  \/ FechaItem
  \/ Morre /\ fila' = <<>>

ColetaMemTypeOK ==
  /\ LacoTypeOK
  /\ DOMAIN fila \subseteq Item
  /\ \A e \in DOMAIN fila :
       IF e.tipo = "mem"
       THEN fila[e] \in (Coluna \cup {0}) \X (Coluna \cup {0})
       ELSE fila[e] = SemResposta
===============================================================================
