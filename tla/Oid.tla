---------------------------------- MODULE Oid -----------------------------------
(* The comparisons of object identifiers that snmpwalk makes, and the order    *)
(* they stand for.                                                             *)
EXTENDS Integers, Sequences

\* The indexes up to n at which a and b differ, and the least of a set.
Difere(a, b, n) == {i \in 1 .. n : a[i] # b[i]}
Primeiro(S) == CHOOSE i \in S : \A j \in S : i <= j

Menor2(m, n) == IF m < n THEN m ELSE n

\* The order of identifiers: that of the first subidentifier that differs, and a
\* prefix comes first.
Antes(a, b) ==
  \/ \E i \in 1 .. Menor2(Len(a), Len(b)) :
       a[i] < b[i] /\ \A j \in 1 .. i - 1 : a[j] = b[j]
  \/ Len(a) < Len(b) /\ \A j \in 1 .. Len(a) : a[j] = b[j]

\* b lies in the subtree below a.
Abaixo(a, b) == Len(a) < Len(b) /\ \A j \in 1 .. Len(a) : a[j] = b[j]

snmp_oid_compare(a, b) ==
  LET d == Difere(a, b, Menor2(Len(a), Len(b)))
  IN  IF d # {} THEN IF a[Primeiro(d)] < b[Primeiro(d)] THEN -1 ELSE 1
      ELSE IF Len(a) < Len(b) THEN -1
      ELSE IF Len(b) < Len(a) THEN 1
      ELSE 0

\* memcmp over n subidentifiers of a and b, each an u_long of four octets of a
\* little-endian machine: the octet that decides is the least significant one
\* that differs.
Octeto(v, k) == (v \div 256 ^ k) % 256

memcmp(a, b, n) ==
  LET d == Difere(a, b, n)
      i == Primeiro(d)
      k == Primeiro({m \in 0 .. 3 : Octeto(a[i], m) # Octeto(b[i], m)})
  IN  IF d = {} THEN 0
      ELSE IF Octeto(a[i], k) < Octeto(b[i], k) THEN -1 ELSE 1
===============================================================================
