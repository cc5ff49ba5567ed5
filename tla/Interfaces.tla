------------------------------- MODULE Interfaces -------------------------------
(* The properties of the published table of interfaces, and the refinement of   *)
(* Quadro by get_int.pl.                                                       *)
EXTENDS GetInt

\* The interfaces the list asks for.
Visivel == {Lista[k].tinfo : k \in {m \in 1 .. Len(Lista) : Lista[m].valida}}

\* The table is published as a whole: once there is one, it has a line for every
\* interface of the list and no other, whatever requests fail, wherever the
\* program exits or is killed, and at every moment of a later run.
PublicacaoCompleta ==
  \/ res = SemLinhas
  \/ \A k \in Chave : res[k] # <<>> <=> k \in Visivel

\* An interface whose first answers have no name (an instance that does not
\* exist) equals the empty fields of the line it does not have yet, and gets an
\* empty time; this is the only way to one, and the first status with a name
\* ends it.
VazioSoSemNome ==
  \A k \in Chave : res[k] # <<>> /\ Desde(res[k]) = Vazio =>
    Oper(res[k]) = "" /\ Admin(res[k]) = ""

Abstrato == INSTANCE Quadro WITH
  quadro <- res,
  troca <- mtime,
  Tempo <- Nat

\* res_get.txt is a Quadro: failed and killed runs change nothing, a complete run
\* replaces the whole table; a time stays with the status, and a new one lies
\* between the replacements before and after the change.
ImplementaQuadro == Abstrato!QuadroSpec
-------------------------------------------------------------------------------
(* The inductive invariant: the table a run compares with is still the one that *)
(* is published, and each line it has printed follows from that one.           *)
Feitas == {Lista[k].tinfo : k \in {m \in 1 .. i : Lista[m].valida}}

\* x follows y: it is a line of LinhaNova for some answer.
Segue(x, y) ==
  /\ x # <<>>
  /\ Desde(x) \in Nat => Desde(x) <= now
  /\ IF Oper(x) = Oper(y) /\ Admin(x) = Admin(y)
     THEN Desde(x) = Desde(y)
     ELSE Desde(x) \in Nat /\ mtime <= Desde(x)

InvTempo ==
  /\ mtime <= now
  /\ pc = "pede" => mtime <= t /\ t <= now
  /\ \A k \in Chave : Desde(res[k]) \in Nat => Desde(res[k]) <= mtime

InvCorrida ==
  /\ pc # "fim" => h_st_old = res
  /\ pc = "laco" => \A k \in Chave : tmp[k] # <<>> <=> k \in Feitas
  /\ pc = "pede" =>
       /\ i \in 1 .. Len(Lista)
       /\ Lista[i].valida
       /\ \A k \in Chave : tmp[k] # <<>> <=>
            k \in {Lista[m].tinfo : m \in {m \in 1 .. i - 1 : Lista[m].valida}}
  /\ pc # "fim" => \A k \in Chave : tmp[k] # <<>> => Segue(tmp[k], res[k])

Indutivo ==
  /\ TypeOK
  /\ PublicacaoCompleta
  /\ VazioSoSemNome
  /\ InvTempo
  /\ InvCorrida
-------------------------------------------------------------------------------
\* Cron starts the program again and again and its requests end: the process,
\* unless it is killed, always takes its next step.
SpecJusta == Spec /\ WF_vars(GetIntNext)

\* Once the program is no longer killed and no request fails, an interface whose
\* status stays the same is shown with that status, for good, whatever kills and
\* failures left behind: a run that began before the change, or that publishes an
\* older answer, is followed by one that corrects it.
QuadroAlcanca ==
  <>[][~Morre /\ ~Desiste]_vars =>
    \A k \in Visivel, e \in Estado :
      <>[](real[k] = e) =>
        <>[](Oper(res[k]) = Situacao(e[1]) /\ Admin(res[k]) = Situacao(e[2]))
===============================================================================
