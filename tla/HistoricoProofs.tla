---------------------------- MODULE HistoricoProofs ----------------------------
(* Facts about the lines of a history file, for every buffer size and history   *)
(* limit: what the proofs about the two collectors share.                       *)
EXTENDS Historico, SequenceTheorems, TLAPS

\* A leaf is tried with SMT, with Zenon, and with SMT again, unless it names a prover.
USE SMTT(20), ZenonT(20), SMTT(90)

\* What the copy loop prints: the new line, then the old ones up to the limit.
LEMMA RenovaElementos ==
  ASSUME NEW s \in Linha, NEW velhas \in Seq(Linha)
  PROVE  LET n == Menor(Len(velhas), HistMax + 1)
         IN  /\ n \in Nat /\ n <= Len(velhas) /\ n <= HistMax + 1
             /\ Renova(s, velhas) \in Seq(Linha)
             /\ Len(Renova(s, velhas)) = n + 1
             /\ Renova(s, velhas)[1] = s
             /\ \A k \in 1 .. n : Renova(s, velhas)[k + 1] = velhas[k]
<1> DEFINE n == Menor(Len(velhas), HistMax + 1)
           cauda == SubSeq(velhas, 1, n)
<1>1. n \in Nat /\ n <= Len(velhas) /\ n <= HistMax + 1
  BY HistoricoAssumption, LenProperties DEF Menor
<1> HIDE DEF n
<1>2. \A k \in 1 .. n : velhas[k] \in Linha
  BY <1>1, ElementOfSeq
<1>3. /\ cauda \in Seq(Linha)
      /\ Len(cauda) = n
      /\ \A k \in 1 .. n : cauda[k] = velhas[k]
  BY <1>1, <1>2, SubSeqProperties
<1>4. <<s>> \in Seq(Linha) /\ Len(<<s>>) = 1 /\ <<s>>[1] = s
  OBVIOUS
<1> HIDE DEF cauda
<1>5. /\ <<s>> \o cauda \in Seq(Linha)
      /\ Len(<<s>> \o cauda) = n + 1
      /\ \A k \in 1 .. n + 1 :
           (<<s>> \o cauda)[k] = IF k <= 1 THEN <<s>>[k] ELSE cauda[k - 1]
  BY <1>1, <1>3, <1>4, ConcatProperties
<1>6. Renova(s, velhas) = <<s>> \o cauda
  BY DEF Renova, n, cauda
<1>7. QED
  BY <1>1, <1>3, <1>4, <1>5, <1>6 DEF n

\* The rewritten file is as good as the old one, and the new line is its first.
LEMMA RenovaBoa ==
  ASSUME NEW s \in Linha, NEW velhas \in Seq(Linha), NEW tempo \in Nat,
         Boa(velhas), AteTempo(velhas, s.t), s.inteira, s.t <= tempo
  PROVE  /\ Boa(Renova(s, velhas))
         /\ AteTempo(Renova(s, velhas), tempo)
         /\ Renova(s, velhas)[1] = s
         /\ Len(Renova(s, velhas)) \in Nat \ {0}
<1> DEFINE n == Menor(Len(velhas), HistMax + 1)
           r == Renova(s, velhas)
<1>1. /\ n \in Nat /\ n <= Len(velhas) /\ n <= HistMax + 1
      /\ r \in Seq(Linha)
      /\ Len(r) = n + 1
      /\ r[1] = s
      /\ \A k \in 1 .. n : r[k + 1] = velhas[k]
  BY RenovaElementos
<1>2. /\ Len(velhas) \in Nat
      /\ \A k \in 1 .. Len(velhas) : velhas[k] \in Linha
  BY LenProperties, ElementOfSeq
<1> HIDE DEF n, r
<1>3. \A k \in 1 .. Len(r) : k = 1 \/ (k - 1 \in 1 .. n /\ r[k] = velhas[k - 1])
  <2> SUFFICES ASSUME NEW k \in 1 .. Len(r), k # 1
               PROVE  k - 1 \in 1 .. n /\ r[k] = velhas[k - 1]
    OBVIOUS
  <2>1. k - 1 \in 1 .. n /\ (k - 1) + 1 = k
    BY <1>1
  <2>2. QED
    BY <1>1, <2>1
<1>4. Len(r) <= HistMax + 2
  BY <1>1, HistoricoAssumption
<1>5. AteTempo(r, tempo)
  <2> SUFFICES ASSUME NEW k \in 1 .. Len(r)
               PROVE  r[k].t <= tempo
    BY DEF AteTempo
  <2>1. CASE k = 1
    BY <1>1, <2>1
  <2>2. CASE k # 1
    <3>1. k - 1 \in 1 .. Len(velhas) /\ r[k] = velhas[k - 1]
      BY <1>1, <1>2, <1>3, <2>2
    <3>2. velhas[k - 1].t <= s.t /\ velhas[k - 1].t \in Nat /\ s.t \in Nat
      BY <1>2, <3>1 DEF AteTempo, Linha
    <3>3. QED
      BY <3>1, <3>2
  <2>3. QED
    BY <2>1, <2>2
<1>6. Decrescente(r)
  <2> SUFFICES ASSUME NEW k \in 1 .. Len(r) - 1
               PROVE  r[k].t >= r[k + 1].t
    BY ZenonT(60), ZenonT(90) DEF Decrescente
  <2>1. k \in 1 .. n /\ r[k + 1] = velhas[k]
    BY <1>1
  <2>2. CASE k = 1
    BY <1>1, <1>2, <2>1, <2>2 DEF AteTempo
  <2>3. CASE k # 1
    <3>1. k - 1 \in 1 .. Len(velhas) - 1 /\ r[k] = velhas[k - 1] /\ (k - 1) + 1 = k
      BY <1>1, <1>2, <1>3, <2>1, <2>3
    <3>2. velhas[k - 1].t >= velhas[(k - 1) + 1].t
      BY <3>1 DEF Boa, Decrescente
    <3>3. QED
      BY <2>1, <3>1, <3>2
  <2>4. QED
    BY <2>2, <2>3
<1>7. FimRasgado(r)
  <2> SUFFICES ASSUME NEW k \in 1 .. Len(r), ~r[k].inteira
               PROVE  k > 1 /\ k = Len(r)
    BY DEF FimRasgado
  <2>1. k # 1 /\ k - 1 \in 1 .. n /\ r[k] = velhas[k - 1]
    BY <1>1, <1>3
  <2>2. k - 1 = Len(velhas)
    BY <1>1, <1>2, <2>1 DEF Boa, FimRasgado
  <2>3. QED
    BY <1>1, <1>2, <2>1, <2>2
<1>8. QED
  BY <1>1, <1>4, <1>5, <1>6, <1>7 DEF Boa, r

\* What a flush leaves on disk.
LEMMA PedacoElementos ==
  ASSUME NEW s \in Seq(Linha), NEW k \in Nat, k < Len(s), NEW corta \in BOOLEAN
  PROVE  LET p == Pedaco(s, k, corta)
         IN  /\ p \in Seq(Linha)
             /\ Len(p) = IF corta THEN k + 1 ELSE k
             /\ \A j \in 1 .. k : p[j] = s[j]
             /\ corta => p[k + 1] = Rasga(s[k + 1])
<1> DEFINE p == Pedaco(s, k, corta)
           frente == SubSeq(s, 1, k)
           resto == IF corta THEN <<Rasga(s[k + 1])>> ELSE <<>>
<1>1. /\ Len(s) \in Nat
      /\ \A j \in 1 .. Len(s) : s[j] \in Linha
  BY LenProperties, ElementOfSeq
<1>2. Rasga(s[k + 1]) \in Linha
  <2>1. k + 1 \in 1 .. Len(s)
    BY <1>1
  <2>2. s[k + 1] \in Linha
    BY <1>1, <2>1
  <2>3. QED
    BY <2>2, ZenonT(60), ZenonT(90) DEF Rasga, Linha
<1>3. /\ resto \in Seq(Linha)
      /\ Len(resto) = IF corta THEN 1 ELSE 0
      /\ corta => resto[1] = Rasga(s[k + 1])
  BY <1>2
<1>4. /\ frente \in Seq(Linha)
      /\ Len(frente) = k
      /\ \A j \in 1 .. k : frente[j] = s[j]
  <2>1. \A j \in 1 .. k : s[j] \in Linha
    BY <1>1
  <2>2. QED
    BY <2>1, SubSeqProperties
<1>5. p = frente \o resto
  BY DEF Pedaco
<1> HIDE DEF p, frente, resto
<1>6. /\ p \in Seq(Linha)
      /\ Len(p) = Len(frente) + Len(resto)
      /\ \A j \in 1 .. Len(frente) + Len(resto) :
           p[j] = IF j <= Len(frente) THEN frente[j] ELSE resto[j - Len(frente)]
  BY <1>3, <1>4, <1>5, ConcatProperties, ZenonT(60), ZenonT(90)
<1>7. \A j \in 1 .. k : p[j] = s[j]
  BY <1>3, <1>4, <1>6
<1>8. corta => p[k + 1] = Rasga(s[k + 1])
  BY <1>3, <1>4, <1>6
<1>9. QED
  BY <1>3, <1>4, <1>6, <1>7, <1>8 DEF p

\* A file cut short in the middle of a rewrite is still ordered, and damaged at
\* most in its last line.
LEMMA PedacoBoa ==
  ASSUME NEW s \in Seq(Linha), NEW k \in Nat \ {0}, k < Len(s),
         NEW corta \in BOOLEAN, NEW tempo \in Nat,
         Boa(s), AteTempo(s, tempo)
  PROVE  /\ Pedaco(s, k, corta) \in Seq(Linha)
         /\ Boa(Pedaco(s, k, corta))
         /\ AteTempo(Pedaco(s, k, corta), tempo)
         /\ Pedaco(s, k, corta) # <<>>
         /\ Pedaco(s, k, corta)[1] = s[1]
<1> DEFINE p == Pedaco(s, k, corta)
<1>1. /\ p \in Seq(Linha)
      /\ Len(p) = IF corta THEN k + 1 ELSE k
      /\ \A j \in 1 .. k : p[j] = s[j]
      /\ corta => p[k + 1] = Rasga(s[k + 1])
  BY PedacoElementos
<1>2. /\ Len(s) \in Nat
      /\ \A j \in 1 .. Len(s) : s[j] \in Linha
  BY LenProperties, ElementOfSeq
<1> HIDE DEF p
<1>3. \A j \in 1 .. Len(p) : j \in 1 .. Len(s) /\ p[j].t = s[j].t
  <2> SUFFICES ASSUME NEW j \in 1 .. Len(p)
               PROVE  j \in 1 .. Len(s) /\ p[j].t = s[j].t
    OBVIOUS
  <2>1. CASE j <= k
    BY <1>1, <1>2, <2>1
  <2>2. CASE j > k
    <3>1. corta /\ j = k + 1 /\ j \in 1 .. Len(s)
      BY <1>1, <1>2, <2>2
    <3>2. Rasga(s[j]).t = s[j].t
      BY <1>2, <3>1 DEF Rasga, Linha
    <3>3. QED
      BY <1>1, <3>1, <3>2
  <2>3. QED
    BY <1>1, <2>1, <2>2
<1>4. Len(p) <= HistMax + 2
  BY <1>1, <1>2, HistoricoAssumption DEF Boa
<1>5. AteTempo(p, tempo)
  BY <1>3 DEF AteTempo
<1>6. Decrescente(p)
  <2> SUFFICES ASSUME NEW j \in 1 .. Len(p) - 1
               PROVE  p[j].t >= p[j + 1].t
    BY ZenonT(60), ZenonT(90) DEF Decrescente
  <2>1. j \in 1 .. Len(p) /\ j + 1 \in 1 .. Len(p) /\ Len(p) <= Len(s)
    BY <1>1, <1>2
  <2>2. p[j].t = s[j].t /\ p[j + 1].t = s[j + 1].t
    BY <1>3, <2>1
  <2>3. s[j].t >= s[j + 1].t
    <3>1. j \in 1 .. Len(s) - 1
      BY <1>1, <1>2, <2>1
    <3>2. QED
      BY <3>1 DEF Boa, Decrescente
  <2>4. QED
    BY <2>2, <2>3
<1>7. FimRasgado(p)
  <2> SUFFICES ASSUME NEW j \in 1 .. Len(p), ~p[j].inteira
               PROVE  j > 1 /\ j = Len(p)
    BY DEF FimRasgado
  <2>1. CASE j <= k
    <3>1. j \in 1 .. Len(s) /\ j # Len(s) /\ p[j] = s[j]
      BY <1>1, <1>2, <2>1
    <3>2. QED
      BY <3>1 DEF Boa, FimRasgado
  <2>2. CASE j > k
    BY <1>1, <2>2
  <2>3. QED
    BY <1>1, <2>1, <2>2
<1>8. p # <<>> /\ p[1] = s[1]
  BY <1>1
<1>9. QED
  BY <1>1, <1>4, <1>5, <1>6, <1>7, <1>8 DEF Boa, p

\* A new sample has the type of a line.
LEMMA NovaTipo ==
  ASSUME NEW tempo \in Nat, NEW v \in Valor
  PROVE  /\ Nova(tempo, v) \in Linha
         /\ Nova(tempo, v).inteira
         /\ Nova(tempo, v).t = tempo
BY DEF Nova, Linha

\* The empty sequence is a good history.
LEMMA VazioBoa ==
  ASSUME NEW tempo
  PROVE  <<>> \in Seq(Linha) /\ Boa(<<>>) /\ AteTempo(<<>>, tempo)
BY HistoricoAssumption DEF Boa, Decrescente, FimRasgado, AteTempo

\* A file with one whole line is a good history.
LEMMA UmaBoa ==
  ASSUME NEW l \in Linha, l.inteira, NEW tempo \in Nat, l.t <= tempo
  PROVE  <<l>> \in Seq(Linha) /\ Boa(<<l>>) /\ AteTempo(<<l>>, tempo)
BY HistoricoAssumption DEF Boa, Decrescente, FimRasgado, AteTempo

\* The copy loop keeps the newest lines, up to the limit.
LEMMA RenovaCorte ==
  ASSUME NEW s \in Linha, NEW v \in Seq(Linha)
  PROVE  LET c == <<s>> \o v
         IN  Renova(s, v) =
               SubSeq(c, 1, IF HistMax + 2 < Len(c) THEN HistMax + 2 ELSE Len(c))
<1> DEFINE n == Menor(Len(v), HistMax + 1)
           c == <<s>> \o v
           m == IF HistMax + 2 < Len(c) THEN HistMax + 2 ELSE Len(c)
           q == SubSeq(c, 1, m)
<1>1. /\ n \in Nat /\ n <= Len(v) /\ n <= HistMax + 1
      /\ Renova(s, v) \in Seq(Linha)
      /\ Len(Renova(s, v)) = n + 1
      /\ Renova(s, v)[1] = s
      /\ \A k \in 1 .. n : Renova(s, v)[k + 1] = v[k]
  BY RenovaElementos
<1>2. <<s>> \in Seq(Linha) /\ Len(<<s>>) = 1 /\ <<s>>[1] = s /\ Len(v) \in Nat
  BY LenProperties
<1>3. /\ c \in Seq(Linha)
      /\ Len(c) = 1 + Len(v)
      /\ \A k \in 1 .. 1 + Len(v) : c[k] = IF k <= 1 THEN <<s>>[k] ELSE v[k - 1]
  BY <1>2, ConcatProperties
<1>4. m = n + 1
  BY <1>2, <1>3, HistoricoAssumption DEF Menor
<1> HIDE DEF c, m, n
<1>5. \A k \in 1 .. m : c[k] \in Linha
  <2>1. \A k \in 1 .. Len(c) : c[k] \in Linha
    BY <1>3, ElementOfSeq
  <2>2. QED
    BY <1>1, <1>2, <1>3, <1>4, <2>1
<1>6. /\ q \in Seq(Linha)
      /\ Len(q) = n + 1
      /\ \A k \in 1 .. n + 1 : q[k] = c[k]
  BY <1>1, <1>4, <1>5, SubSeqProperties
<1> HIDE DEF q
<1>7. \A k \in 1 .. n + 1 : Renova(s, v)[k] = q[k]
  <2> SUFFICES ASSUME NEW k \in 1 .. n + 1
               PROVE  Renova(s, v)[k] = q[k]
    OBVIOUS
  <2>1. CASE k = 1
    BY <1>1, <1>2, <1>3, <1>6, <2>1
  <2>2. CASE k # 1
    <3>1. k - 1 \in 1 .. n /\ (k - 1) + 1 = k /\ k \in 1 .. 1 + Len(v) /\ ~(k <= 1)
      BY <1>1, <1>2, <2>2
    <3>2. Renova(s, v)[k] = v[k - 1] /\ c[k] = v[k - 1]
      BY <1>1, <1>3, <3>1
    <3>3. QED
      BY <1>6, <3>2
  <2>3. QED
    BY <2>1, <2>2
<1>8. Renova(s, v) = q
  BY <1>1, <1>6, <1>7, SeqEqual
<1>9. QED
  BY <1>8 DEF q, c, m

\* A rewrite cut short leaves the first lines, and perhaps a piece of the next.
LEMMA PedacoPerda ==
  ASSUME NEW s \in Seq(Linha), NEW k \in Nat, k < Len(s), NEW corta \in BOOLEAN
  PROVE  Pedaco(s, k, corta) =
           IF corta THEN Append(SubSeq(s, 1, k), [s[k + 1] EXCEPT !.inteira = FALSE])
           ELSE SubSeq(s, 1, k)
<1>1. /\ Len(s) \in Nat
      /\ \A j \in 1 .. Len(s) : s[j] \in Linha
  BY LenProperties, ElementOfSeq
<1>2. SubSeq(s, 1, k) \in Seq(Linha)
  <2>1. \A j \in 1 .. k : s[j] \in Linha
    BY <1>1
  <2>2. QED
    BY <2>1, SubSeqProperties
<1>3. CASE ~corta
  BY <1>2, <1>3, ConcatEmptySeq DEF Pedaco
<1>4. CASE corta
  <2>1. Rasga(s[k + 1]) \in Linha
    <3>1. k + 1 \in 1 .. Len(s)
      BY <1>1
    <3>2. s[k + 1] \in Linha
      BY <1>1, <3>1
    <3>3. QED
      BY <3>2 DEF Rasga, Linha
  <2>2. QED
    BY <1>2, <1>4, <2>1, AppendIsConcat, ZenonT(60), ZenonT(90) DEF Pedaco, Rasga
<1>5. QED
  BY <1>3, <1>4
===============================================================================
