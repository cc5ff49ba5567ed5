--------------------------------- MODULE GetInt ---------------------------------
(* snmp/get_int.pl, started by coleta_snmp_interfaces.sh: ask the status of     *)
(* every interface of id_getsnmp.txt and publish res_get.txt, in which a line   *)
(* keeps its time as long as the status of the interface stays the same.  The   *)
(* table is written to a temporary file, which takes the place of the old one   *)
(* only when every request was answered.                                       *)
EXTENDS Integers, Sequences

CONSTANTS
  Chave,        \* $tinfo, the key of an interface
  Lista,        \* id_getsnmp.txt: [tinfo, valida], in the order of the file
  Estado,       \* what the two status objects of an interface can be answered with
  PodeFalhar,   \* interfaces whose session or request may fail
  PodeMorrer,   \* whether the process may be killed
  Vazio,        \* the empty time
  MaxT          \* bound: the clock stops here

ASSUME GetIntAssumption ==
  /\ Lista \in Seq([tinfo : Chave, valida : BOOLEAN])
  /\ Estado \subseteq Nat \X Nat
  /\ PodeFalhar \subseteq Chave
  /\ PodeMorrer \in BOOLEAN
  /\ Vazio \notin Nat
  /\ MaxT \in Nat

VARIABLES
  now,          \* time()
  real,         \* the two status objects of every interface, in the routers
  pc,           \* where the program is
  i,            \* the entries of the list it has taken
  t,            \* $t
  h_st_old,     \* %h_st_old, by key: <<line>>, or <<>>
  tmp,          \* tmp_res_get.txt: the last line of every key, if any
  res,          \* res_get.txt, likewise
  mtime         \* when res_get.txt was last replaced

processo == <<pc, i, t, h_st_old, tmp>>
tabela == <<res, mtime>>
vars == <<now, real, processo, tabela>>

\* Variant: an answer without a name is printed as it is.
SituacaoCrua(c) == IF c = 1 THEN "up" ELSE "noSuchInstance"

\* %h_ifoperstatus; a value that is no key of it, such as the text Net::SNMP
\* gives for an instance that does not exist, becomes an empty field.
h_ifoperstatus ==
  <<"up", "down", "testing", "unknown", "dormant", "notPresent", "lowerLayerDown">>
Situacao(c) == IF c \in 1 .. 7 THEN h_ifoperstatus[c] ELSE ""
Nomes == {"", "up", "down", "testing", "unknown", "dormant", "notPresent",
          "lowerLayerDown"}

\* A line of the table: the time, ifOperStatus and ifAdminStatus.
Linha == [desde : Nat \cup {Vazio}, oper : Nomes, admin : Nomes]
Tabela == [Chave -> {x \in Seq(Linha) : Len(x) <= 1}]
SemLinhas == [k \in Chave |-> <<>>]

Init ==
  /\ now = 0
  /\ real \in [Chave -> Estado]
  /\ pc = "fim"
  /\ i = 0
  /\ t = 0
  /\ h_st_old = SemLinhas
  /\ tmp = SemLinhas
  /\ res = SemLinhas
  /\ mtime = 0

\* The program starts: it reads the list and the old table, where of several
\* lines with the same key the last counts, and empties the temporary file.
Inicia ==
  /\ pc = "fim"
  /\ pc' = "laco"
  /\ i' = 0
  /\ h_st_old' = res
  /\ tmp' = SemLinhas
  /\ UNCHANGED <<now, real, t, tabela>>

\* An entry that has neither of the two layouts, with an address and an index.
Pula ==
  /\ pc = "laco"
  /\ i < Len(Lista)
  /\ ~Lista[i + 1].valida
  /\ i' = i + 1
  /\ UNCHANGED <<now, real, pc, t, h_st_old, tmp, tabela>>

\* $t=time(), and a session.
AbreSessao ==
  /\ pc = "laco"
  /\ i < Len(Lista)
  /\ Lista[i + 1].valida
  /\ i' = i + 1
  /\ t' = now
  /\ pc' = "pede"
  /\ UNCHANGED <<now, real, h_st_old, tmp, tabela>>

\* What the old table says of a key; a key without a line has empty fields.
Oper(x) == IF x = <<>> THEN "" ELSE x[1].oper
Admin(x) == IF x = <<>> THEN "" ELSE x[1].admin
Desde(x) == IF x = <<>> THEN Vazio ELSE x[1].desde

\* Variant: "or" for "and" in the comparison.
LinhaNovaOu(velha, oper, admin, tempo) ==
  [desde |-> IF Oper(velha) = oper \/ Admin(velha) = admin
             THEN Desde(velha) ELSE tempo,
   oper  |-> oper,
   admin |-> admin]

\* The line printed: an unchanged status keeps the old time.
LinhaNova(velha, oper, admin, tempo) ==
  [desde |-> IF Oper(velha) = oper /\ Admin(velha) = admin
             THEN Desde(velha) ELSE tempo,
   oper  |-> oper,
   admin |-> admin]

\* get_request is answered: print the line, close the session.
Responde ==
  /\ pc = "pede"
  /\ LET k == Lista[i].tinfo
     IN  tmp' = [tmp EXCEPT ![k] =
                   <<LinhaNova(h_st_old[k], Situacao(real[k][1]),
                               Situacao(real[k][2]), t)>>]
  /\ pc' = "laco"
  /\ UNCHANGED <<now, real, i, t, h_st_old, tabela>>

\* The process ends, and its memory is gone.
Encerra ==
  /\ pc' = "fim"
  /\ i' = 0
  /\ t' = 0
  /\ h_st_old' = SemLinhas

\* Variant: the lines so far are published.
DesistePublica ==
  /\ pc = "pede"
  /\ Lista[i].tinfo \in PodeFalhar
  /\ res' = tmp
  /\ mtime' = now
  /\ Encerra
  /\ UNCHANGED <<now, real, tmp>>

\* The session is undef, or the request is: exit 1, and the table stays.
Desiste ==
  /\ pc = "pede"
  /\ Lista[i].tinfo \in PodeFalhar
  /\ Encerra
  /\ UNCHANGED <<now, real, tmp, tabela>>

\* Variant: mv does not replace a file that exists.
PublicaUmaVez ==
  /\ pc = "laco"
  /\ i = Len(Lista)
  /\ res' = IF res = SemLinhas THEN tmp ELSE res
  /\ mtime' = now
  /\ tmp' = SemLinhas
  /\ Encerra
  /\ UNCHANGED <<now, real>>

\* close, mv tmp_res_get.txt res_get.txt, and the copy by scp.
Publica ==
  /\ pc = "laco"
  /\ i = Len(Lista)
  /\ res' = tmp
  /\ mtime' = now
  /\ tmp' = SemLinhas
  /\ Encerra
  /\ UNCHANGED <<now, real>>

\* The process is killed.
Morre ==
  /\ PodeMorrer
  /\ pc # "fim"
  /\ Encerra
  /\ UNCHANGED <<now, real, tmp, tabela>>

GetIntNext ==
  \/ Inicia
  \/ Pula
  \/ AbreSessao
  \/ Responde
  \/ Desiste
  \/ Publica
  \/ Morre

\* The routers and the clock.
Muda ==
  /\ \E k \in Chave, c \in Estado : real' = [real EXCEPT ![k] = c]
  /\ UNCHANGED <<now, processo, tabela>>

Tick ==
  /\ now < MaxT
  /\ now' = now + 1
  /\ UNCHANGED <<real, processo, tabela>>

Next == GetIntNext \/ Muda \/ Tick

Spec == Init /\ [][Next]_vars

TypeOK ==
  /\ now \in Nat
  /\ real \in [Chave -> Estado]
  /\ pc \in {"fim", "laco", "pede"}
  /\ i \in 0 .. Len(Lista)
  /\ t \in Nat
  /\ h_st_old \in Tabela
  /\ tmp \in Tabela
  /\ res \in Tabela
  /\ mtime \in Nat
===============================================================================
