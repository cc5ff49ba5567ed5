---------------------------------- MODULE Agente ---------------------------------
(* The SNMP agent of a router, as its answers are understood by snmpwalk.  Not *)
(* part of this repository: RFC 1905 agents, plus the two kinds of agent the   *)
(* code of snmpwalk provides for, one that ends with noSuchName and one whose  *)
(* answers are not in increasing order.                                        *)
EXTENDS SnmpApi, Oid

CONSTANTS
  Fixas,            \* instances the agent always has
  Moveis,           \* instances that come and go
  Desordem,         \* <<asked, answered>>: answers out of order
  ComErro,          \* names the agent may answer with an error
  MaxVolta          \* bound: answers on their way at the same time

ASSUME AgenteAssumption ==
  /\ MaxVolta \in Nat
  /\ Fixas \cup Moveis \subseteq Nome /\ Fixas \cap Moveis = {}
  /\ \A p \in Desordem : p \in Nome \X Nome /\ ~Antes(p[1], p[2])

VARIABLE mib        \* the instances the agent has now

AgenteInit == mib \in {Fixas \cup S : S \in SUBSET Moveis}

\* A row of the table appears or disappears.
MudaMib ==
  /\ \E i \in Moveis : mib' = IF i \in mib THEN mib \ {i} ELSE mib \cup {i}
  /\ UNCHANGED sessVars

Depois(n) == {i \in mib : Antes(n, i)}
MenoresDe(S) == {i \in S : \A j \in S \ {i} : Antes(i, j)}

RespostaGetNext(n) ==
  (IF Depois(n) = {}
   THEN {[errstat |-> "noError", tipo |-> "endOfMibView", nome |-> n],
         [errstat |-> "noSuchName", tipo |-> "endOfMibView", nome |-> n]}
   ELSE {[errstat |-> "noError", tipo |-> "valor", nome |-> i] :
           i \in MenoresDe(Depois(n))})
  \cup {[errstat |-> "noError", tipo |-> "valor", nome |-> p[2]] :
          p \in {q \in Desordem : q[1] = n}}

RespostaGet(n) ==
  {[errstat |-> "noError", nome |-> n,
    tipo |-> IF n \in mib THEN "valor" ELSE "noSuchInstance"]}

Respostas(d) ==
  LET n == Decodifica(d.nome)
  IN  (IF d.cmd = "get" THEN RespostaGet(n) ELSE RespostaGetNext(n))
      \cup {[errstat |-> "genErr", tipo |-> "noSuchInstance", nome |-> e] :
               e \in ComErro \cap {n}}

\* The agent answers a datagram that has reached it, with what it has now.
Responde ==
  /\ Cardinality(volta) < MaxVolta
  /\ \E d \in ida : \E a \in Respostas(d) :
       /\ Codifica(a.nome) # Invalido
       /\ volta' = volta \cup {[reqid |-> d.reqid, errstat |-> a.errstat,
                                tipo |-> a.tipo, nome |-> Codifica(a.nome)]}
  /\ UNCHANGED <<Reqid, requests, state, ida, espera, mib>>
===============================================================================
