-------------------------- MODULE SecuenciasPruebas --------------------------
(***************************************************************************)
(* Lemmas on sequences that the other proofs share.  Counting the          *)
(* positions whose element is of some kind: what a channel or a list of    *)
(* subscribers keeps of them when it grows by an element, loses its head,  *)
(* or loses one from its middle.  Growing, cutting and turning a sequence  *)
(* around: what the parser's buffer, pop and push do.                      *)
(***************************************************************************)
EXTENDS Integers, Sequences, SequencesExt, FiniteSets,
        SequenceTheorems, FiniteSetTheorems, TLAPS

(* The positions of s whose element is in K, and how many they are.        *)
Posiciones(s, K) == {i \in DOMAIN s : s[i] \in K}
Cuantas(s, K) == Cardinality(Posiciones(s, K))

(* Sequences written out.                                                  *)
LEMMA Escritas ==
  ASSUME NEW T, NEW a \in T, NEW b \in T
  PROVE  <<a>> \o <<b>> = <<a, b>> /\ <<>> \o <<b>> = <<b>>
<1>1. <<a>> \in Seq(T) /\ <<b>> \in Seq(T) /\ <<a, b>> \in Seq(T)
  OBVIOUS
<1>2. <<a>> \o <<b>> \in Seq(T) /\ Len(<<a>> \o <<b>>) = 2
      /\ (<<a>> \o <<b>>)[1] = a /\ (<<a>> \o <<b>>)[2] = b
  BY <1>1, ConcatProperties
<1>3. Len(<<a, b>>) = 2 /\ <<a, b>>[1] = a /\ <<a, b>>[2] = b
  OBVIOUS
<1>4. \A i \in 1 .. 2 : (<<a>> \o <<b>>)[i] = <<a, b>>[i]
  BY <1>2, <1>3
<1>5. <<a>> \o <<b>> = <<a, b>>
  BY <1>1, <1>2, <1>3, <1>4, SeqEqual
<1> QED BY <1>1, <1>5, ConcatEmptySeq

(* A sequence extended with one or two elements.                           *)
LEMMA Extendida ==
  ASSUME NEW T, NEW s \in Seq(T), NEW a \in T, NEW b \in T
  PROVE  /\ s \o <<a>> = Append(s, a)
         /\ s \o <<a, b>> = Append(Append(s, a), b)
<1>1. s \o <<a>> = Append(s, a) /\ Append(s, a) \in Seq(T)
      /\ Append(Append(s, a), b) = Append(s, a) \o <<b>>
  BY AppendIsConcat
<1>2. (s \o <<a>>) \o <<b>> = s \o (<<a>> \o <<b>>)
  BY ConcatAssociative
<1> QED BY <1>1, <1>2, Escritas

(* A sequence has finitely many positions.                                 *)
LEMMA CuantasEsNat ==
  ASSUME NEW T, NEW s \in Seq(T), NEW K
  PROVE  /\ IsFiniteSet(Posiciones(s, K))
         /\ Cuantas(s, K) \in Nat
         /\ Posiciones(s, K) \subseteq 1 .. Len(s)
<1>1. Posiciones(s, K) \subseteq 1 .. Len(s)
  BY DEF Posiciones
<1>2. IsFiniteSet(1 .. Len(s))
  BY FS_Interval
<1>3. IsFiniteSet(Posiciones(s, K))
  BY <1>1, <1>2, FS_Subset
<1> QED BY <1>1, <1>3, FS_CardinalityType DEF Cuantas

(* The empty sequence has none.                                            *)
LEMMA CuantasDeVacia ==
  ASSUME NEW K
  PROVE  Cuantas(<<>>, K) = 0
<1>1. Posiciones(<<>>, K) = {}
  BY DEF Posiciones
<1> QED BY <1>1, FS_EmptySet DEF Cuantas

(* An element put at the end counts once, if it is of the kind.            *)
LEMMA CuantasDeAppend ==
  ASSUME NEW T, NEW s \in Seq(T), NEW x \in T, NEW K
  PROVE  Cuantas(Append(s, x), K) = IF x \in K THEN Cuantas(s, K) + 1 ELSE Cuantas(s, K)
<1>1. IsFiniteSet(Posiciones(s, K)) /\ Posiciones(s, K) \subseteq 1 .. Len(s)
  BY CuantasEsNat
<1>2. Posiciones(Append(s, x), K) =
        IF x \in K THEN Posiciones(s, K) \cup {Len(s) + 1} ELSE Posiciones(s, K)
  BY DEF Posiciones
<1>3. Len(s) + 1 \notin Posiciones(s, K)
  BY <1>1
<1> QED BY <1>1, <1>2, <1>3, FS_AddElement DEF Cuantas

(* What is left after the head has no more of the kind than the whole, and *)
(* one less if the head was of the kind.                                   *)
LEMMA CuantasDeTail ==
  ASSUME NEW T, NEW s \in Seq(T), s # <<>>, NEW K
  PROVE  Cuantas(Tail(s), K) <= IF Head(s) \in K THEN Cuantas(s, K) - 1 ELSE Cuantas(s, K)
<1> DEFINE P == Posiciones(Tail(s), K)
           Q == Posiciones(s, K) \ {1}
           g == [i \in P |-> i + 1]
<1>1. Tail(s) \in Seq(T) /\ Len(Tail(s)) = Len(s) - 1
      /\ (\A i \in 1 .. Len(Tail(s)) : Tail(s)[i] = s[i + 1])
  BY HeadTailProperties
<1>2. P \subseteq 1 .. Len(Tail(s)) /\ IsFiniteSet(Posiciones(s, K)) /\ Cuantas(s, K) \in Nat
  BY <1>1, CuantasEsNat
<1>3. g \in [P -> Q]
  BY <1>1, <1>2 DEF Posiciones
<1>4. g \in Injection(P, Q)
  BY <1>2, <1>3 DEF Injection, IsInjective
<1>5. IsFiniteSet(Q)
      /\ Cardinality(Q) = IF 1 \in Posiciones(s, K) THEN Cuantas(s, K) - 1 ELSE Cuantas(s, K)
  BY <1>2, FS_RemoveElement DEF Cuantas
<1>6. 1 \in Posiciones(s, K) <=> Head(s) \in K
  BY DEF Posiciones
<1> HIDE DEF g, P, Q
<1>7. Cardinality(P) <= Cardinality(Q)
  BY <1>4, <1>5, FS_Injection
<1> QED BY <1>5, <1>6, <1>7 DEF Cuantas, P

(* Taking out the element at n leaves the others, and costs one of the     *)
(* kind exactly when that element was of the kind.                         *)
LEMMA CuantasDeRemoveAt ==
  ASSUME NEW T, NEW s \in Seq(T), NEW n \in 1 .. Len(s), NEW K
  PROVE  /\ RemoveAt(s, n) \in Seq(T)
         /\ Cuantas(RemoveAt(s, n), K) = IF s[n] \in K THEN Cuantas(s, K) - 1 ELSE Cuantas(s, K)
<1> DEFINE r == RemoveAt(s, n)
           P == Posiciones(r, K)
           Q == Posiciones(s, K) \ {n}
           g == [i \in P |-> IF i < n THEN i ELSE i + 1]
<1>1. /\ r \in Seq(T) /\ Len(r) = Len(s) - 1
      /\ \A i \in 1 .. Len(r) : r[i] = s[IF i < n THEN i ELSE i + 1]
  <2> DEFINE a == SubSeq(s, 1, n - 1)
             b == SubSeq(s, n + 1, Len(s))
  <2>1. a \in Seq(T) /\ Len(a) = n - 1 /\ \A i \in 1 .. n - 1 : a[i] = s[i]
    OBVIOUS
  <2>2. b \in Seq(T) /\ Len(b) = Len(s) - n /\ \A i \in 1 .. Len(s) - n : b[i] = s[n + i]
    OBVIOUS
  <2>3. r = a \o b
    BY DEF RemoveAt
  <2> HIDE DEF a, b, r
  <2>4. r \in Seq(T) /\ Len(r) = Len(s) - 1
    BY <2>1, <2>2, <2>3
  <2>5. ASSUME NEW i \in 1 .. Len(r), i < n
        PROVE  r[i] = s[i]
    BY <2>1, <2>2, <2>3, <2>4, <2>5
  <2>6. ASSUME NEW i \in 1 .. Len(r), ~(i < n)
        PROVE  r[i] = s[i + 1]
    <3>1. i - (n - 1) \in 1 .. Len(s) - n /\ i \in 1 .. Len(a) + Len(b) /\ ~(i <= Len(a))
      BY <2>1, <2>2, <2>4, <2>6
    <3>2. r[i] = b[i - (n - 1)]
      BY <2>1, <2>2, <2>3, <3>1
    <3>3. n + (i - (n - 1)) = i + 1
      BY <2>6
    <3> QED BY <2>2, <3>1, <3>2, <3>3
  <2> QED BY <2>4, <2>5, <2>6
<1> HIDE DEF r
<1>2. P \subseteq 1 .. Len(r) /\ IsFiniteSet(P) /\ IsFiniteSet(Posiciones(s, K))
      /\ Cuantas(s, K) \in Nat /\ Posiciones(s, K) \subseteq 1 .. Len(s)
  BY <1>1, CuantasEsNat
<1>3. g \in [P -> Q]
  BY <1>1, <1>2 DEF Posiciones
<1>4. g \in Injection(P, Q)
  BY <1>2, <1>3 DEF Injection, IsInjective
<1>5. ASSUME NEW q \in Q
      PROVE  \E i \in P : g[i] = q
  <2> DEFINE i == IF q < n THEN q ELSE q - 1
  <2>1. i \in 1 .. Len(r) /\ (IF i < n THEN i ELSE i + 1) = q
    BY <1>1, <1>2
  <2>2. q \in DOMAIN s /\ s[q] \in K
    BY DEF Posiciones
  <2> HIDE DEF i
  <2>3. i \in DOMAIN r /\ r[i] = s[q]
    BY <1>1, <2>1
  <2>4. i \in P
    BY <2>2, <2>3 DEF Posiciones
  <2> QED BY <2>1, <2>4
<1>6. g \in Bijection(P, Q)
  BY <1>3, <1>4, <1>5, Zenon DEF Bijection, Surjection
<1>7. IsFiniteSet(Q)
      /\ Cardinality(Q) = IF n \in Posiciones(s, K) THEN Cuantas(s, K) - 1 ELSE Cuantas(s, K)
  BY <1>2, FS_RemoveElement DEF Cuantas
<1>8. n \in Posiciones(s, K) <=> s[n] \in K
  BY DEF Posiciones
<1> HIDE DEF g, P, Q
<1>9. Cardinality(Q) = Cardinality(P)
  BY <1>2, <1>6, <1>7, FS_Bijection DEF ExistsBijection, P
<1>10. Cuantas(r, K) = IF s[n] \in K THEN Cuantas(s, K) - 1 ELSE Cuantas(s, K)
  BY <1>7, <1>8, <1>9 DEF Cuantas, P
<1> QED BY <1>1, <1>10 DEF r

(* One more element at the end of two sequences put together, and the      *)
(* first element of a sequence with one more.                              *)
LEMMA PegadaExtendida ==
  ASSUME NEW T, NEW s \in Seq(T), NEW t \in Seq(T), NEW x \in T
  PROVE  s \o Append(t, x) = Append(s \o t, x)
<1> DEFINE a == s \o Append(t, x)  b == Append(s \o t, x)
<1>1. a \in Seq(T) /\ b \in Seq(T) /\ Len(a) = Len(b) /\ Len(a) = Len(s) + Len(t) + 1
  OBVIOUS
<1>2. ASSUME NEW i \in 1 .. Len(a)
      PROVE  a[i] = b[i]
  <2>1. CASE i <= Len(s)
    BY <1>1, <2>1
  <2>2. CASE i > Len(s) /\ i <= Len(s) + Len(t)
    BY <1>1, <2>2
  <2>3. CASE i = Len(s) + Len(t) + 1
    BY <1>1, <2>3
  <2> QED BY <1>1, <2>1, <2>2, <2>3
<1> QED BY <1>1, <1>2

(* The first of a sequence stays the first when one is appended.           *)
LEMMA PrimeraDeExtendida ==
  ASSUME NEW T, NEW s \in Seq(T), NEW x \in T
  PROVE  /\ Append(s, x) # <<>>
         /\ Append(s, x)[1] = IF s = <<>> THEN x ELSE s[1]
<1>1. CASE s = <<>>
  BY <1>1
<1>2. CASE s # <<>>
  BY <1>2
<1> QED BY <1>1, <1>2

-----------------------------------------------------------------------------
(* A sequence reversed.                                                    *)
LEMMA DadaVuelta ==
  ASSUME NEW T, NEW s \in Seq(T)
  PROVE  /\ Reverse(s) \in Seq(T) /\ Len(Reverse(s)) = Len(s)
         /\ \A k \in 1 .. Len(s) : Reverse(s)[k] = s[Len(s) - k + 1]
<1>1. Reverse(s) \in Seq(T) /\ Len(Reverse(s)) = Len(s)
  BY DEF Reverse
<1>2. ASSUME NEW k \in 1 .. Len(s)
      PROVE  Reverse(s)[k] = s[Len(s) - k + 1]
  <2>1. (Len(s) - k) + 1 = Len(s) - k + 1
    OBVIOUS
  <2> QED BY <2>1 DEF Reverse
<1> QED BY <1>1, <1>2

(* Taking from the front of the reversed sequence takes from the back.     *)
LEMMA PuntasDadasVuelta ==
  ASSUME NEW T, NEW s \in Seq(T), NEW n \in 0 .. Len(s)
  PROVE  /\ Reverse(SubSeq(Reverse(s), 1, n)) = SubSeq(s, Len(s) - n + 1, Len(s))
         /\ Reverse(SubSeq(Reverse(s), n + 1, Len(s))) = SubSeq(s, 1, Len(s) - n)
<1> DEFINE r == Reverse(s)
           a == SubSeq(r, 1, n)
           b == SubSeq(r, n + 1, Len(s))
<1>1. r \in Seq(T) /\ Len(r) = Len(s) /\ \A k \in 1 .. Len(s) : r[k] = s[Len(s) - k + 1]
  BY DadaVuelta
<1> HIDE DEF r
<1>2. a \in Seq(T) /\ Len(a) = n /\ \A k \in 1 .. n : a[k] = r[k]
  BY <1>1
<1>3. b \in Seq(T) /\ Len(b) = Len(s) - n /\ \A k \in 1 .. Len(s) - n : b[k] = r[n + k]
  BY <1>1
<1> HIDE DEF a, b
<1>4. /\ Reverse(a) \in Seq(T) /\ Len(Reverse(a)) = n
      /\ \A k \in 1 .. n : Reverse(a)[k] = a[n - k + 1]
  BY <1>2, DadaVuelta
<1>5. /\ Reverse(b) \in Seq(T) /\ Len(Reverse(b)) = Len(s) - n
      /\ \A k \in 1 .. Len(s) - n : Reverse(b)[k] = b[Len(s) - n - k + 1]
  <2>1. /\ Reverse(b) \in Seq(T) /\ Len(Reverse(b)) = Len(b)
        /\ \A k \in 1 .. Len(b) : Reverse(b)[k] = b[Len(b) - k + 1]
    BY <1>3, DadaVuelta
  <2> QED BY <1>3, <2>1
<1>6. Reverse(a) = SubSeq(s, Len(s) - n + 1, Len(s))
  <2> DEFINE t == SubSeq(s, Len(s) - n + 1, Len(s))
  <2>1. t \in Seq(T) /\ Len(t) = n /\ \A k \in 1 .. n : t[k] = s[Len(s) - n + k]
    OBVIOUS
  <2>2. \A k \in 1 .. n : Reverse(a)[k] = s[Len(s) - n + k]
    <3> TAKE k \in 1 .. n
    <3>1. n - k + 1 \in 1 .. n /\ n - k + 1 \in 1 .. Len(s)
      OBVIOUS
    <3>2. Reverse(a)[k] = s[Len(s) - (n - k + 1) + 1]
      BY <1>1, <1>2, <1>4, <3>1
    <3>3. Len(s) - (n - k + 1) + 1 = Len(s) - n + k
      OBVIOUS
    <3> QED BY <3>2, <3>3
  <2> HIDE DEF t
  <2>3. Reverse(a) = t
    BY <1>4, <2>1, <2>2, SeqEqual
  <2> QED BY <2>3 DEF t
<1>7. Reverse(b) = SubSeq(s, 1, Len(s) - n)
  <2> DEFINE t == SubSeq(s, 1, Len(s) - n)
  <2>1. t \in Seq(T) /\ Len(t) = Len(s) - n /\ \A k \in 1 .. Len(s) - n : t[k] = s[k]
    OBVIOUS
  <2>2. \A k \in 1 .. Len(s) - n : Reverse(b)[k] = s[k]
    <3> TAKE k \in 1 .. Len(s) - n
    <3>1. /\ Len(s) - n - k + 1 \in 1 .. Len(s) - n
          /\ n + (Len(s) - n - k + 1) \in 1 .. Len(s)
      OBVIOUS
    <3>2. Reverse(b)[k] = s[Len(s) - (n + (Len(s) - n - k + 1)) + 1]
      BY <1>1, <1>3, <1>5, <3>1
    <3>3. Len(s) - (n + (Len(s) - n - k + 1)) + 1 = k
      OBVIOUS
    <3> QED BY <3>2, <3>3
  <2> HIDE DEF t
  <2>3. Reverse(b) = t
    BY <1>5, <2>1, <2>2, SeqEqual
  <2> QED BY <2>3 DEF t
<1> QED BY <1>6, <1>7 DEF a, b, r

(* A sequence cut in two, and two put together and cut again.              *)
LEMMA CortadaEnDos ==
  ASSUME NEW T, NEW s \in Seq(T), NEW n \in 0 .. Len(s)
  PROVE  SubSeq(s, 1, n) \o SubSeq(s, n + 1, Len(s)) = s
<1> DEFINE a == SubSeq(s, 1, n)  b == SubSeq(s, n + 1, Len(s))
<1>1. a \in Seq(T) /\ Len(a) = n /\ \A k \in 1 .. n : a[k] = s[k]
  OBVIOUS
<1>2. b \in Seq(T) /\ Len(b) = Len(s) - n /\ \A k \in 1 .. Len(s) - n : b[k] = s[n + k]
  OBVIOUS
<1> HIDE DEF a, b
<1>3. a \o b \in Seq(T) /\ Len(a \o b) = Len(s)
  BY <1>1, <1>2
<1>4. \A k \in 1 .. Len(s) : (a \o b)[k] = s[k]
  <2> TAKE k \in 1 .. Len(s)
  <2>1. CASE k <= n
    BY <1>1, <1>2, <2>1
  <2>2. CASE k > n
    <3>1. k - n \in 1 .. Len(s) - n /\ n + (k - n) = k
      BY <2>2
    <3>2. (a \o b)[k] = b[k - n]
      BY <1>1, <1>2, <2>2
    <3>3. b[k - n] = s[n + (k - n)]
      BY <1>2, <3>1
    <3> QED BY <3>1, <3>2, <3>3
  <2>3. k <= n \/ k > n
    OBVIOUS
  <2> QED BY <2>1, <2>2, <2>3
<1>5. a \o b = s
  BY <1>3, <1>4, SeqEqual
<1> QED BY <1>5 DEF a, b

(* Two sequences joined and cut where they met are themselves again.       *)
LEMMA PegadaYCortada ==
  ASSUME NEW T, NEW s \in Seq(T), NEW t \in Seq(T)
  PROVE  /\ SubSeq(s \o t, 1, Len(s)) = s
         /\ SubSeq(s \o t, Len(s) + 1, Len(s) + Len(t)) = t
<1> DEFINE u == s \o t
<1>1. /\ u \in Seq(T) /\ Len(u) = Len(s) + Len(t)
      /\ \A k \in 1 .. Len(s) : u[k] = s[k]
      /\ \A k \in 1 .. Len(t) : u[Len(s) + k] = t[k]
  BY ConcatProperties
<1> HIDE DEF u
<1>2. SubSeq(u, 1, Len(s)) = s
  <2>1. /\ SubSeq(u, 1, Len(s)) \in Seq(T) /\ Len(SubSeq(u, 1, Len(s))) = Len(s)
        /\ \A k \in 1 .. Len(s) : SubSeq(u, 1, Len(s))[k] = s[k]
    BY <1>1
  <2> QED BY <2>1, SeqEqual
<1>3. SubSeq(u, Len(s) + 1, Len(s) + Len(t)) = t
  <2> DEFINE v == SubSeq(u, Len(s) + 1, Len(s) + Len(t))
  <2>1. v \in Seq(T) /\ Len(v) = Len(t)
    BY <1>1
  <2>2. \A k \in 1 .. Len(t) : v[k] = u[Len(s) + k]
    BY <1>1
  <2> HIDE DEF v
  <2>3. v = t
    BY <1>1, <2>1, <2>2, SeqEqual
  <2> QED BY <2>3 DEF v
<1> QED BY <1>2, <1>3 DEF u

=============================================================================
