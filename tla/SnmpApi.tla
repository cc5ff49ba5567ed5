--------------------------------- MODULE SnmpApi ---------------------------------
(* A session of net-snmp's library as a command-line tool uses it: the requests *)
(* that snmp_synch_response sends one at a time and waits for (snmp_client.c), *)
(* the list of pending requests with its timers and retransmissions            *)
(* (snmp_api.c), and the datagrams between the two machines.  Version 2c: a    *)
(* response is matched by its request-id alone.                                *)
(*                                                                             *)
(* The network: "ida" and "volta" are the datagrams sent and not yet taken     *)
(* from the socket.  One that is lost stays there for ever, one that is late   *)
(* stays as long as it takes, and any order of arrival is possible.            *)
EXTENDS Integers, FiniteSets

CONSTANTS
  Nome,             \* object identifiers
  Retries,          \* session.retries
  Timeout,          \* session.timeout, in units of the clock
  Mascara,          \* the mask of request-ids (0x7fffffff, or 0x7fff)
  Sorteados,        \* the values init_snmp may draw for the counter
  PodeFalhar,       \* sendto, select and calloc may fail
  Codifica(_),      \* the octets of an identifier in a message
  Decodifica(_),    \* the identifier the receiver makes of them
  Invalido          \* what either gives when it fails

VARIABLES
  Reqid,            \* the last request-id given out
  requests,         \* isp->requests: the pending requests
  state,            \* struct synch_state of the call in progress
  ida, volta,       \* datagrams to the agent, and from it
  espera            \* history: clock units since the call in progress began

sessVars == <<Reqid, requests, state, ida, volta, espera>>

\* The octets of the identifiers that can be built; they parse.
Octs == {Codifica(n) : n \in Nome} \ {Invalido}

ASSUME SessAssumption ==
  /\ Retries \in Nat
  /\ Timeout \in Nat
  /\ Mascara \in Nat \ {0, 1}
  /\ Sorteados \subseteq 1 .. Mascara
  /\ PodeFalhar \in BOOLEAN
  /\ \A o \in Octs : Decodifica(o) \in Nome

Comando == {"get", "getnext"}
ReqId == 1 .. Mascara

Errstat == {"noError", "noSuchName", "genErr"}
Tipo == {"valor", "noSuchInstance", "endOfMibView"}
Pdu == [errstat : Errstat, tipo : Tipo, nome : Nome]

\* state->pdu = NULL
Nulo == [errstat |-> "nulo"]

SessInit ==
  /\ Reqid \in Sorteados
  /\ requests = {}
  /\ state = [reqid |-> 0, waiting |-> FALSE, status |-> "success", pdu |-> Nulo]
  /\ ida = {} /\ volta = {}
  /\ espera = 0

\* Variant: the wrap of the counter gives out the id zero.
NextReqidSemSalto(r) == (r + 1) % (Mascara + 1)

snmp_get_next_reqid(r) ==
  LET v == (r + 1) % (Mascara + 1)
  IN  IF v = 0 THEN 2 ELSE v

Datagrama(r) == [cmd |-> r.cmd, reqid |-> r.id, nome |-> Codifica(r.nome)]

\* snmp_pdu_create, snmp_add_null_var and the beginning of snmp_synch_response:
\* the message is built and sent and the request joins the list.  When the build
\* or the send fails, or there is no memory for the entry of the list (after the
\* send), the call ends at once with STAT_ERROR.
snmp_send(cmd, nome) ==
  LET r == [id |-> snmp_get_next_reqid(Reqid), cmd |-> cmd, nome |-> nome,
            retries |-> 0, resta |-> Timeout]
  IN  /\ Reqid' = r.id
      /\ espera' = 0
      /\ \/ /\ Codifica(nome) # Invalido
            /\ ida' = ida \cup {Datagrama(r)}
            /\ requests' = requests \cup {r}
            /\ state' = [reqid |-> r.id, waiting |-> TRUE,
                         status |-> "success", pdu |-> Nulo]
         \/ /\ PodeFalhar \/ Codifica(nome) = Invalido
            /\ \/ ida' = ida
               \/ Codifica(nome) # Invalido /\ ida' = ida \cup {Datagrama(r)}
            /\ state' = [reqid |-> 0, waiting |-> FALSE,
                         status |-> "error", pdu |-> Nulo]
            /\ UNCHANGED requests
      /\ UNCHANGED volta

\* What snmp_synch_input makes of a response or of a time-out that belongs to
\* the call in progress.
Recebida(m) == [state EXCEPT !.waiting = FALSE, !.status = "success",
                             !.pdu = [errstat |-> m.errstat, tipo |-> m.tipo,
                                      nome |-> Decodifica(m.nome)]]
Esgotada == [state EXCEPT !.waiting = FALSE, !.status = "timeout", !.pdu = Nulo]

\* Variant: any response answers the call in progress.
ReadSemId(m) ==
  /\ volta' = volta \ {m}
  /\ requests' = {r \in requests : r.id # state.reqid}
  /\ state' = Recebida(m)
  /\ UNCHANGED <<Reqid, ida, espera>>

\* snmp_read on a datagram the socket has: one that cannot be parsed, or that no
\* pending request waits for, is dropped.  A pending request other than the one
\* of the call in progress stays in the list (snmp_synch_input returns 0).
snmp_read(m) ==
  /\ volta' = volta \ {m}
  /\ IF /\ Decodifica(m.nome) # Invalido
        /\ m.reqid = state.reqid
        /\ \E r \in requests : r.id = m.reqid
     THEN /\ requests' = {r \in requests : r.id # m.reqid}
          /\ state' = Recebida(m)
     ELSE UNCHANGED <<requests, state>>
  /\ UNCHANGED <<Reqid, ida, espera>>

Vencidos == {r \in requests : r.resta < 0}

\* Variant: a retransmission is not counted.
ReenviaSemContar(r) == [r EXCEPT !.resta = Timeout]

\* snmp_resend_request when the send succeeds.
Reenvia(r) == [r EXCEPT !.retries = @ + 1, !.resta = Timeout]

\* Variant: giving up does not tell the caller.
TrataSemAviso(feitos, falhos) ==
  LET reenviados == {r \in feitos : r.retries < Retries}
  IN  /\ requests' = (requests \ (feitos \cup falhos))
                     \cup {Reenvia(r) : r \in reenviados}
                     \cup {[r EXCEPT !.retries = @ + 1] : r \in falhos}
      /\ ida' = ida \cup {Datagrama(r) : r \in reenviados}
      /\ UNCHANGED state

\* Variant: after the last retransmission an entry is left alone, not given up.
TrataSemDesistir(feitos, falhos) ==
  LET reenviados == {r \in feitos : r.retries < Retries}
  IN  /\ requests' = (requests \ (reenviados \cup falhos))
                     \cup {Reenvia(r) : r \in reenviados}
                     \cup {[r EXCEPT !.retries = @ + 1] : r \in falhos}
      /\ ida' = ida \cup {Datagrama(r) : r \in reenviados}
      /\ UNCHANGED state

\* The entries of "feitos" are retransmitted, or given up after the last
\* retransmission; those of "falhos" are counted but could not be sent.
Trata(feitos, falhos) ==
  LET reenviados == {r \in feitos : r.retries < Retries}
  IN  /\ requests' = (requests \ (feitos \cup falhos))
                     \cup {Reenvia(r) : r \in reenviados}
                     \cup {[r EXCEPT !.retries = @ + 1] : r \in falhos}
      /\ ida' = ida \cup {Datagrama(r) : r \in reenviados}
      /\ state' = IF \E r \in feitos \ reenviados : r.id = state.reqid
                  THEN Esgotada ELSE state

\* snmp_timeout: the entries of the list whose time is over, in the order of the
\* list, up to the first one that cannot be sent again.  The order of the list is
\* left open: any of the others may have come before that one.  An entry for
\* which there is no memory is left as it is for the next turn, a stutter here.
snmp_sess_timeout ==
  /\ Vencidos # {}
  /\ \/ Trata(Vencidos, {})
     \/ /\ PodeFalhar
        /\ \E f \in {r \in Vencidos : r.retries < Retries} :
             \E feitos \in SUBSET (Vencidos \ {f}) : Trata(feitos, {f})
  /\ UNCHANGED <<Reqid, volta, espera>>

\* select fails in snmp_synch_response: the call ends, its request stays.
ErroSelect ==
  /\ PodeFalhar
  /\ state' = [state EXCEPT !.waiting = FALSE, !.status = "error"]
  /\ UNCHANGED <<Reqid, requests, ida, volta, espera>>

\* One turn of the loop of snmp_synch_response.
Select ==
  /\ state.waiting
  /\ \/ \E m \in volta : snmp_read(m)
     \/ snmp_sess_timeout
     \/ ErroSelect

\* The clock, as long as there is a timer for it.  The process runs again before
\* the clock moves past a time that is over.
Tick ==
  /\ state.waiting
  /\ requests # {} /\ Vencidos = {}
  /\ requests' = {[r EXCEPT !.resta = @ - 1] : r \in requests}
  /\ espera' = espera + 1
  /\ UNCHANGED <<Reqid, state, ida, volta>>

\* snmp_close: the list goes with the session.
snmp_close ==
  /\ requests' = {}
  /\ UNCHANGED <<Reqid, state, ida, volta, espera>>

\* The types, for the modules that use a session.
SessTypeOK ==
  /\ Reqid \in ReqId
  /\ requests \subseteq [id : ReqId, cmd : Comando, nome : Nome,
                         retries : 0 .. Retries, resta : -1 .. Timeout]
  /\ state \in [reqid : ReqId \cup {0}, waiting : BOOLEAN,
                status : {"success", "timeout", "error"}, pdu : Pdu \cup {Nulo}]
  /\ espera \in Nat
===============================================================================
