---------------------------------- MODULE Asn1 ----------------------------------
(* Object identifiers in SNMP messages: the contents octets that snmplib/asn1.c *)
(* of net-snmp builds and parses.  The build is the one of the packaged tree:   *)
(* 32-bit, messages built from the end (NETSNMP_USE_REVERSE_ASNENCODING).      *)
EXTENDS Integers, Sequences, SequencesExt, FiniteSetsExt

\* An identifier that cannot be built, or octets that cannot be parsed.
Erro == <<-1>>

\* The most subidentifiers an identifier may have (MAX_OID_LEN).
MaxOidLen == 128

\* Base 128, most significant first, the high bit on every octet but the last.
Octetos(v) ==
  LET n == 1 + Cardinality({k \in 1 .. 4 : v >= 128 ^ k})
  IN  [i \in 1 .. n |-> ((v \div 128 ^ (n - i)) % 128) + (IF i < n THEN 128 ELSE 0)]

asn_realloc_rbuild_objid(objid) ==
  CASE objid = <<>> -> <<0, 0>>
    [] objid # <<>> /\ objid[1] > 2 -> Erro
    [] Len(objid) = 1 /\ objid[1] <= 2 -> <<objid[1]>>
    [] Len(objid) > 1 /\ objid[1] <= 2 ->
         IF objid[2] > 40 /\ objid[1] < 2 THEN Erro
         ELSE Octetos(objid[1] * 40 + objid[2])
              \o FlattenSeq([i \in 1 .. Len(objid) - 2 |-> Octetos(objid[i + 2])])

\* The two subidentifiers that share the first one of the message.
Expande(s) ==
  CASE s < 40 -> <<0, s>>
    [] s >= 40 /\ s < 80 -> <<1, s - 40>>
    [] s >= 80 -> <<2, s - 80>>

asn_parse_objid(octetos) ==
  LET ultimos == SetToSortSeq({i \in 1 .. Len(octetos) : octetos[i] < 128},
                              LAMBDA a, b : a < b)
      Inicio(k) == IF k = 1 THEN 1 ELSE ultimos[k - 1] + 1
      Subid(k) == MapThenSumSet(
                    LAMBDA i : (octetos[i] % 128) * 128 ^ (ultimos[k] - i),
                    Inicio(k) .. ultimos[k])
      n == Len(ultimos)
  IN  CASE octetos = <<>> -> <<0>>
        [] octetos # <<>> /\ Last(octetos) >= 128 -> Erro
        [] octetos # <<>> /\ Last(octetos) < 128 ->
             IF n >= MaxOidLen THEN Erro
             ELSE Expande(Subid(1)) \o [k \in 1 .. n - 1 |-> Subid(k + 1)]
===============================================================================
