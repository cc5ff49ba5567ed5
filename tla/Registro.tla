------------------------------- MODULE Registro -------------------------------
(* What a directory of history files promises to the programs that read it,    *)
(* without files, buffers or processes: per name, a run of samples, newest     *)
(* first, that changes only by a new sample in front, by ageing out at the     *)
(* limit, or by being forgotten.                                               *)
EXTENDS Integers, Sequences

CONSTANTS
  Arq,          \* the names of the histories
  Tempo,        \* the times a sample can have
  Valor,        \* the measurements
  Capacidade,   \* how many samples are kept
  Removivel,    \* the histories that may be removed as a whole
  PodePerder    \* whether crashes may lose old samples

VARIABLE hist

Amostra == [t : Tempo, v : Valor, inteira : BOOLEAN]

\* The first n samples of a history.
Recentes(h, n) == SubSeq(h, 1, IF n < Len(h) THEN n ELSE Len(h))

RegistroInit ==
  hist \in [Arq -> {<<>>} \cup {<<s>> : s \in {x \in Amostra : x.inteira}}]

\* A new sample, complete and not older than the one before it.
Registra(a) ==
  \E s \in Amostra :
    /\ s.inteira
    /\ hist[a] # <<>> => s.t >= hist[a][1].t
    /\ hist' = [hist EXCEPT ![a] = Recentes(<<s>> \o hist[a], Capacidade)]

\* The whole history is removed.
Remove(a) ==
  /\ a \in Removivel
  /\ hist' = [hist EXCEPT ![a] = <<>>]

\* A crash loses the oldest samples, and may damage the oldest one left, which
\* is not the newest.
Perde(a) ==
  /\ PodePerder
  /\ \E k \in 0 .. Len(hist[a]) :
       \/ hist' = [hist EXCEPT ![a] = SubSeq(hist[a], 1, k)]
       \/ /\ 0 < k
          /\ k < Len(hist[a])
          /\ hist' = [hist EXCEPT ![a] =
                        Append(SubSeq(hist[a], 1, k),
                               [hist[a][k + 1] EXCEPT !.inteira = FALSE])]

RegistroNext == \E a \in Arq : Registra(a) \/ Remove(a) \/ Perde(a)

RegistroSpec == RegistroInit /\ [][RegistroNext]_hist
===============================================================================
