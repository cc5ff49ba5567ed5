-------------------------------- MODULE Varredura --------------------------------
(* What a walk of the subtree below "root" promises its caller: the rows come  *)
(* in increasing order and belong to the subtree, no row that is there all the *)
(* time is passed over, and a walk that reports success has reached the end of *)
(* the subtree.  A walk that fails says so; the row that made it fail may be   *)
(* the last one shown.                                                         *)
EXTENDS Oid

CONSTANTS Nome, Fixas

VARIABLES root, saida, resultado

varrVars == <<root, saida, resultado>>

Passou(n) == saida = <<>> \/ Antes(saida[Len(saida)], n)

\* The rows of the subtree that are always there and are still to be shown.
Faltam == {f \in Fixas : Abaixo(root, f) /\ Passou(f)}

VarrInit == root \in Nome /\ saida = <<>> /\ resultado = "anda"

Mostra(n) ==
  /\ resultado = "anda"
  /\ Abaixo(root, n) /\ Passou(n)
  /\ \A f \in Faltam : ~Antes(f, n)
  /\ saida' = Append(saida, n)
  /\ UNCHANGED <<root, resultado>>

\* The instance the walk starts from; a walk that failed before its first row
\* may still show it.
MostraRaiz ==
  /\ resultado \in {"anda", "erro"} /\ saida = <<>>
  /\ saida' = <<root>>
  /\ UNCHANGED <<root, resultado>>

Acaba ==
  /\ resultado = "anda" /\ Faltam = {}
  /\ resultado' = "ok"
  /\ UNCHANGED <<root, saida>>

Falha ==
  /\ resultado = "anda"
  /\ resultado' = "erro"
  /\ saida' \in {saida} \cup {Append(saida, n) : n \in Nome}
  /\ UNCHANGED root

VarrNext == (\E n \in Nome : Mostra(n)) \/ MostraRaiz \/ Acaba \/ Falha

VarrSpec == VarrInit /\ [][VarrNext]_varrVars
===============================================================================
