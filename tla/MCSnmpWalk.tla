------------------------------- MODULE MCSnmpWalk --------------------------------
(* snmpwalk on a table with a fixed row, a row that comes and goes and a second *)
(* fixed row, and on a single instance.  The last subidentifiers are chosen on *)
(* both sides of 128, where the encoding of a subidentifier grows by an octet. *)
EXTENDS SnmpWalk, Asn1

Tabela == <<1, 3, 2>>
Linha1 == <<1, 3, 2, 127>>
Linha2 == <<1, 3, 2, 128, 0>>
Linha3 == <<1, 3, 2, 200>>
Unica == <<1, 3, 3, 1>>

MCNome == {Tabela, Linha1, Linha2, Linha3, Unica}
MCFixas == {Linha1, Linha3, Unica}
MCMoveis == {Linha2}
MCDesordem == {<<Linha3, Linha1>>}
MCComErro == {Linha1, Unica}
MCRaizes == {Tabela, Unica}

\* A table whose number is 255: its next sibling is 256, whose first octet in
\* memory is zero.
Tabela255 == <<1, 3, 255>>
Linha255 == <<1, 3, 255, 1>>
Nome255 == {Tabela255, Linha255}
Raiz255 == {Tabela255}
Fixas255 == {Linha255}

MCOpcoes == {[include |-> FALSE, dontGet |-> FALSE],
             [include |-> TRUE, dontGet |-> TRUE]}
MCInvalido == Erro

\* Every identifier used comes back from a message as it went in, and so do
\* identifiers around each length of a subidentifier.
Subids == {0, 1, 127, 128, 255, 16383, 16384, 2097151, 2097152}
Exemplos == Nome \cup {<<a, b, c>> : a \in 0 .. 2, b \in {0, 39}, c \in Subids}
ASSUME IdaEVolta == \A n \in Exemplos : Decodifica(Codifica(n)) = n

\* The comparison of identifiers is their order.
ASSUME OrdemConfere ==
  \A m, n \in Exemplos : /\ snmp_oid_compare(m, n) < 0 <=> Antes(m, n)
                         /\ snmp_oid_compare(m, n) = 0 <=> m = n

\* The conditions of the proofs hold of the identifiers used, but for the table
\* numbered 255.
ASSUME CondicoesConferem ==
  /\ Distingue
  /\ \A r \in Raizes : /\ Reconhece(r) <=> r # Tabela255
                       /\ UmOcteto(r) <=> r # Tabela255
===============================================================================
