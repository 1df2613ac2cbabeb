--------------------------- MODULE SequenceLemmas ---------------------------
(***************************************************************************)
(* Lemmas about the operators on sequences that the specifications use,    *)
(* for YamlManifest_proofs and KymaConfig_proofs.                          *)
(***************************************************************************)
EXTENDS SequencesExt, WellFoundedInduction, FiniteSetTheorems, TLAPS

-----------------------------------------------------------------------------
(* Induction. The provers do not instantiate the library's schemes, whose  *)
(* parameter is an operator; that < is well-founded is a fact about sets.  *)

\* A set of numbers that has 0, and with a number the next one, has them all.
LEMMA SetInduction ==
    ASSUME NEW P \in SUBSET Nat, 0 \in P, \A n \in P : n + 1 \in P
    PROVE  P = Nat
<1> DEFINE R == {ss \in Nat \X Nat : ss[1] < ss[2]}
           T == Nat \ P
<1>1. IsWellFoundedOn(R, Nat)
  BY NatLessThanWellFounded, Zenon DEF OpToRel
<1>2. \A x, y \in Nat : y < x => <<y, x>> \in R
  OBVIOUS
<1>3. SUFFICES ASSUME T # {} PROVE FALSE
  OBVIOUS
<1>4. T \subseteq Nat
  OBVIOUS
<1>5. PICK x \in T : \A y \in T : ~ (<<y, x>> \in R)
  <2> HIDE DEF R, T
  <2> QED
    BY <1>1, <1>3, <1>4, WFMin
<1>6. x \in Nat /\ x # 0 /\ x - 1 \in Nat /\ x - 1 < x /\ (x - 1) + 1 = x
  OBVIOUS
<1>7. x - 1 \notin T
  <2> HIDE DEF R, T
  <2> QED
    BY <1>2, <1>5, <1>6
<1> QED
  BY <1>6, <1>7

-----------------------------------------------------------------------------
(* What FlattenSeq computes.                                               *)

\* The recursive function in FlattenSeq, up to n.
Flatten(ss, n) == CHOOSE f : f = [i \in 1..n |-> IF i = 1 THEN ss[i] ELSE f[i-1] \o ss[i]]

\* It exists.
LEMMA FlattenExists ==
    ASSUME NEW ss, NEW n \in Nat
    PROVE  \E f : f = [i \in 1..n |-> IF i = 1 THEN ss[i] ELSE f[i-1] \o ss[i]]
<1> DEFINE P == {k \in Nat : \E f : f = [i \in 1..k |-> IF i = 1 THEN ss[i] ELSE f[i-1] \o ss[i]]}
<1>1. 0 \in P
  <2> DEFINE f == [i \in 1..0 |-> ss[i]]
  <2>1. f = [i \in 1..0 |-> IF i = 1 THEN ss[i] ELSE f[i-1] \o ss[i]]
    OBVIOUS
  <2> QED
    BY <2>1
<1>2. ASSUME NEW k \in P PROVE k + 1 \in P
  <2>1. PICK f : f = [i \in 1..k |-> IF i = 1 THEN ss[i] ELSE f[i-1] \o ss[i]]
    OBVIOUS
  <2>2. k \in Nat
    OBVIOUS
  <2> DEFINE last == IF k = 0 THEN ss[1] ELSE f[k] \o ss[k + 1]
             g == [i \in 1..(k + 1) |-> IF i = k + 1 THEN last ELSE f[i]]
  <2> HIDE DEF P
  <2>3. ASSUME NEW i \in 1..(k + 1)
        PROVE  g[i] = IF i = 1 THEN ss[i] ELSE g[i-1] \o ss[i]
    <3>1. CASE i = k + 1 /\ k = 0
      BY <3>1
    <3>2. CASE i = k + 1 /\ k # 0
      <4>1. g[i] = f[k] \o ss[k + 1]
        BY <2>2, <3>2
      <4>2. g[k] = f[k]
        BY <2>2, <3>2
      <4>3. i # 1 /\ i - 1 = k
        BY <2>2, <3>2
      <4> HIDE DEF g
      <4> QED
        BY <3>2, <4>1, <4>2, <4>3
    <3>3. CASE i # k + 1
      <4>1. i \in 1..k /\ g[i] = f[i]
        BY <2>2, <3>3
      <4>2. CASE i = 1
        <5>1. f[i] = ss[i]
          BY <2>1, <4>1, <4>2
        <5> QED
          BY <4>1, <4>2, <5>1
      <4>3. CASE i # 1
        <5>1. f[i] = f[i-1] \o ss[i]
          BY <2>1, <4>1, <4>3
        <5>2. g[i-1] = f[i-1]
          BY <2>2, <4>1, <4>3
        <5> HIDE DEF g
        <5> QED
          BY <4>1, <4>3, <5>1, <5>2
      <4> QED
        BY <4>2, <4>3
    <3> QED
      BY <3>1, <3>2, <3>3
  <2>4. g = [i \in 1..(k + 1) |-> g[i]]
    OBVIOUS
  <2>5. g = [i \in 1..(k + 1) |-> IF i = 1 THEN ss[i] ELSE g[i-1] \o ss[i]]
    <3> HIDE DEF g
    <3> QED
      BY <2>3, <2>4
  <2>6. \E h : h = [i \in 1..(k + 1) |-> IF i = 1 THEN ss[i] ELSE h[i-1] \o ss[i]]
    <3> HIDE DEF g
    <3> QED
      BY <2>5
  <2>7. k + 1 \in Nat
    BY <2>2
  <2> QED
    BY <2>6, <2>7, Zenon DEF P
<1>3. P = Nat
  <2>1. P \in SUBSET Nat
    OBVIOUS
  <2> HIDE DEF P
  <2> QED
    BY <1>1, <1>2, <2>1, SetInduction
<1> QED
  BY <1>3

\* Its equation.
LEMMA FlattenEquation ==
    ASSUME NEW ss, NEW n \in Nat, NEW i \in 1..n
    PROVE  Flatten(ss, n)[i] = IF i = 1 THEN ss[i] ELSE Flatten(ss, n)[i-1] \o ss[i]
<1>1. Flatten(ss, n) = [j \in 1..n |-> IF j = 1 THEN ss[j] ELSE Flatten(ss, n)[j-1] \o ss[j]]
  BY FlattenExists DEF Flatten
<1> QED
  BY <1>1

\* The elements of a concatenation.
LEMMA ConcatLemma ==
    ASSUME NEW S, NEW s \in Seq(S), NEW t \in Seq(S)
    PROVE  s \o t \in Seq(S) /\ ToSet(s \o t) = ToSet(s) \cup ToSet(t)
<1>1. s \o t \in Seq(S) /\ Len(s \o t) = Len(s) + Len(t)
  OBVIOUS
<1>2. \A i \in 1..Len(s) + Len(t) : (s \o t)[i] = IF i <= Len(s) THEN s[i] ELSE t[i - Len(s)]
  OBVIOUS
<1>3. ToSet(s \o t) = {(s \o t)[i] : i \in 1..Len(s) + Len(t)}
  BY <1>1 DEF ToSet
<1>4. ToSet(s) = {s[i] : i \in 1..Len(s)} /\ ToSet(t) = {t[i] : i \in 1..Len(t)}
  BY DEF ToSet
<1>5. ASSUME NEW x \in ToSet(s) PROVE x \in ToSet(s \o t)
  <2>1. PICK i \in 1..Len(s) : x = s[i]
    BY <1>4
  <2>2. i \in 1..Len(s) + Len(t) /\ (s \o t)[i] = x
    BY <1>2, <2>1
  <2> QED
    BY <1>3, <2>2
<1>6. ASSUME NEW x \in ToSet(t) PROVE x \in ToSet(s \o t)
  <2>1. PICK i \in 1..Len(t) : x = t[i]
    BY <1>4
  <2>2. Len(s) + i \in 1..Len(s) + Len(t) /\ (s \o t)[Len(s) + i] = x
    BY <1>2, <2>1
  <2> QED
    BY <1>3, <2>2
<1>7. ASSUME NEW x \in ToSet(s \o t) PROVE x \in ToSet(s) \cup ToSet(t)
  <2>1. PICK i \in 1..Len(s) + Len(t) : x = (s \o t)[i]
    BY <1>3
  <2>2. CASE i <= Len(s)
    BY <1>2, <1>4, <2>1, <2>2
  <2>3. CASE ~(i <= Len(s))
    <3>1. i - Len(s) \in 1..Len(t) /\ x = t[i - Len(s)]
      BY <1>2, <2>1, <2>3
    <3> QED
      BY <1>4, <3>1
  <2> QED
    BY <2>2, <2>3
<1> QED
  BY <1>1, <1>5, <1>6, <1>7

\* FlattenSeq has the elements of all the sequences, and no others.
LEMMA FlattenLemma ==
    ASSUME NEW S, NEW ss \in Seq(Seq(S))
    PROVE  /\ FlattenSeq(ss) \in Seq(S)
           /\ ToSet(FlattenSeq(ss)) = UNION {ToSet(ss[i]) : i \in DOMAIN ss}
<1>1. CASE Len(ss) = 0
  <2>1. FlattenSeq(ss) = ss /\ ss = <<>>
    BY <1>1 DEF FlattenSeq
  <2> QED
    BY <2>1 DEF ToSet
<1>2. CASE Len(ss) # 0
  <2> DEFINE n == Len(ss)
             F == Flatten(ss, n)
             Good(m) == m \in 1..n =>
                           /\ F[m] \in Seq(S)
                           /\ \A x : x \in ToSet(F[m]) <=> \E i \in 1..m : x \in ToSet(ss[i])
             P == {k \in Nat : Good(k + 1)}
  <2>1. n \in Nat /\ n >= 1 /\ DOMAIN ss = 1..n /\ \A i \in 1..n : ss[i] \in Seq(S)
    BY <1>2
  <2>2. FlattenSeq(ss) = F[n]
    BY <1>2 DEF FlattenSeq, Flatten
  <2>3. \A i \in 1..n : F[i] = IF i = 1 THEN ss[i] ELSE F[i-1] \o ss[i]
    BY <2>1, FlattenEquation
  <2> HIDE DEF n, F
  <2>4. 0 \in P
    <3>1. F[1] = ss[1] /\ 1 \in 1..n
      BY <2>1, <2>3
    <3>2. F[1] \in Seq(S)
      BY <2>1, <3>1
    <3>3. \A x : x \in ToSet(ss[1]) <=> \E i \in 1..1 : x \in ToSet(ss[i])
      OBVIOUS
    <3>4. Good(1) /\ 0 + 1 = 1
      BY <3>1, <3>2, <3>3
    <3> HIDE DEF Good
    <3> QED
      BY <3>4
  <2>5. ASSUME NEW k \in P PROVE k + 1 \in P
    <3> HIDE DEF Good
    <3>1. k \in Nat /\ Good(k + 1)
      OBVIOUS
    <3> HIDE DEF P
    <3>2. Good(k + 2)
      <4> SUFFICES ASSUME k + 2 \in 1..n
                   PROVE  /\ F[k + 2] \in Seq(S)
                          /\ \A x : x \in ToSet(F[k + 2]) <=> \E i \in 1..(k + 2) : x \in ToSet(ss[i])
        BY DEF Good
      <4>1. k + 1 \in 1..n /\ (k + 2) - 1 = k + 1 /\ k + 2 # 1
        BY <2>1, <3>1
      <4>2. F[k + 1] \in Seq(S) /\ \A x : x \in ToSet(F[k + 1]) <=> \E i \in 1..(k + 1) : x \in ToSet(ss[i])
        BY <3>1, <4>1 DEF Good
      <4>3. F[k + 2] = F[k + 1] \o ss[k + 2] /\ ss[k + 2] \in Seq(S)
        BY <2>1, <2>3, <4>1
      <4>4. F[k + 2] \in Seq(S) /\ ToSet(F[k + 2]) = ToSet(F[k + 1]) \cup ToSet(ss[k + 2])
        BY <4>2, <4>3, ConcatLemma
      <4>5. \A i : i \in 1..(k + 2) <=> i \in 1..(k + 1) \/ i = k + 2
        BY <3>1
      <4>6. \A x : (\E i \in 1..(k + 2) : x \in ToSet(ss[i]))
                    <=> (\E i \in 1..(k + 1) : x \in ToSet(ss[i])) \/ x \in ToSet(ss[k + 2])
        BY <4>5
      <4> QED
        BY <4>2, <4>4, <4>6
    <3>3. k + 1 \in Nat /\ (k + 1) + 1 = k + 2
      BY <3>1
    <3> QED
      BY <3>2, <3>3 DEF P
  <2>6. P = Nat
    <3>1. P \in SUBSET Nat
      OBVIOUS
    <3> HIDE DEF P
    <3> QED
      BY <2>4, <2>5, <3>1, SetInduction
  <2>7. Good(n) /\ n \in 1..n
    <3>1. n - 1 \in Nat /\ (n - 1) + 1 = n /\ n \in 1..n
      BY <2>1
    <3>2. n - 1 \in P
      <4> HIDE DEF P
      <4> QED
        BY <2>6, <3>1
    <3> HIDE DEF Good
    <3>3. Good((n - 1) + 1)
      BY <3>2
    <3> QED
      BY <3>1, <3>3
  <2>8. F[n] \in Seq(S) /\ \A x : x \in ToSet(F[n]) <=> \E i \in 1..n : x \in ToSet(ss[i])
    BY <2>7
  <2> QED
    BY <2>1, <2>2, <2>8
<1> QED
  BY <1>1, <1>2

\* Flattening sequences of which all but one are empty gives that one.
LEMMA FlattenOne ==
    ASSUME NEW S, NEW ss \in Seq(Seq(S)), NEW j \in DOMAIN ss, \A i \in DOMAIN ss : i # j => ss[i] = <<>>
    PROVE  FlattenSeq(ss) = ss[j]
<1> DEFINE n == Len(ss)
           F == Flatten(ss, n)
           Good(m) == m \in 1..n => F[m] = IF m < j THEN <<>> ELSE ss[j]
           P == {k \in Nat : Good(k + 1)}
<1>1. n \in Nat /\ n >= 1 /\ DOMAIN ss = 1..n /\ j \in 1..n /\ \A i \in 1..n : ss[i] \in Seq(S)
  OBVIOUS
<1>2. FlattenSeq(ss) = F[n]
  BY <1>1 DEF FlattenSeq, Flatten
<1>3. \A i \in 1..n : F[i] = IF i = 1 THEN ss[i] ELSE F[i-1] \o ss[i]
  BY <1>1, FlattenEquation
<1>4. \A i \in 1..n : i # j => ss[i] = <<>>
  BY <1>1
<1>5. ss[j] \in Seq(S)
  BY <1>1
<1> HIDE DEF n, F
<1>6. \A s \in Seq(S) : s \o <<>> = s /\ <<>> \o s = s
  OBVIOUS
<1>7. <<>> \in Seq(S)
  OBVIOUS
<1>8. 0 \in P
  <2>1. F[1] = ss[1] /\ 1 \in 1..n
    BY <1>1, <1>3
  <2>2. F[1] = IF 1 < j THEN <<>> ELSE ss[j]
    BY <1>1, <1>4, <2>1
  <2>3. Good(1) /\ 0 + 1 = 1
    BY <2>2
  <2> HIDE DEF Good
  <2> QED
    BY <2>3
<1>9. ASSUME NEW k \in P PROVE k + 1 \in P
  <2> HIDE DEF Good
  <2>1. k \in Nat /\ Good(k + 1)
    OBVIOUS
  <2> HIDE DEF P
  <2>2. Good(k + 2)
    <3> SUFFICES ASSUME k + 2 \in 1..n PROVE F[k + 2] = IF k + 2 < j THEN <<>> ELSE ss[j]
      BY DEF Good
    <3>1. k + 1 \in 1..n /\ (k + 2) - 1 = k + 1 /\ k + 2 # 1
      BY <1>1, <2>1
    <3>2. F[k + 1] = IF k + 1 < j THEN <<>> ELSE ss[j]
      BY <2>1, <3>1 DEF Good
    <3>3. F[k + 2] = F[k + 1] \o ss[k + 2]
      BY <1>3, <3>1
    <3>4. CASE k + 2 < j
      <4>1. k + 1 < j /\ k + 2 # j
        BY <1>1, <2>1, <3>4
      <4> QED
        BY <1>4, <1>6, <1>7, <3>2, <3>3, <3>4, <4>1
    <3>5. CASE k + 2 = j
      <4>1. k + 1 < j /\ ~(k + 2 < j)
        BY <1>1, <2>1, <3>5
      <4> QED
        BY <1>5, <1>6, <3>2, <3>3, <3>5, <4>1
    <3>6. CASE k + 2 > j
      <4>1. ~(k + 1 < j) /\ ~(k + 2 < j) /\ k + 2 # j
        BY <1>1, <2>1, <3>6
      <4> QED
        BY <1>4, <1>5, <1>6, <3>2, <3>3, <4>1
    <3> QED
      BY <1>1, <2>1, <3>4, <3>5, <3>6
  <2>3. k + 1 \in Nat /\ (k + 1) + 1 = k + 2
    BY <2>1
  <2> QED
    BY <2>2, <2>3 DEF P
<1>10. P = Nat
  <2>1. P \in SUBSET Nat
    OBVIOUS
  <2> HIDE DEF P
  <2> QED
    BY <1>8, <1>9, <2>1, SetInduction
<1>11. Good(n) /\ n \in 1..n
  <2>1. n - 1 \in Nat /\ (n - 1) + 1 = n /\ n \in 1..n
    BY <1>1
  <2>2. n - 1 \in P
    <3> HIDE DEF P
    <3> QED
      BY <1>10, <2>1
  <2> HIDE DEF Good
  <2>3. Good((n - 1) + 1)
    BY <2>2
  <2> QED
    BY <2>1, <2>3
<1>12. ~(n < j)
  BY <1>1
<1> QED
  BY <1>2, <1>11, <1>12

\* Flattening empty sequences gives an empty one.
LEMMA FlattenNone ==
    ASSUME NEW S, NEW ss \in Seq(Seq(S)), \A i \in DOMAIN ss : ss[i] = <<>>
    PROVE  FlattenSeq(ss) = <<>>
<1>1. CASE Len(ss) = 0
  BY <1>1 DEF FlattenSeq
<1>2. CASE Len(ss) # 0
  <2>1. 1 \in DOMAIN ss
    BY <1>2
  <2> QED
    BY <2>1, FlattenOne
<1> QED
  BY <1>1, <1>2

\* A function on an initial segment of the numbers is a sequence.
LEMMA FunctionIsSeq ==
    ASSUME NEW S, NEW n \in Nat, NEW s \in [1..n -> S]
    PROVE  s \in Seq(S)
  OBVIOUS

\* A sequence without its first two elements.
LEMMA SubSeqLemma ==
    ASSUME NEW S, NEW s \in Seq(S), ~(Len(s) < 2)
    PROVE  /\ SubSeq(s, 3, Len(s)) \in Seq(S)
           /\ <<s[1], s[2]>> \o SubSeq(s, 3, Len(s)) = s
<1> DEFINE t == SubSeq(s, 3, Len(s))
<1>1. Len(s) \in Nat /\ Len(s) >= 2 /\ DOMAIN s = 1..Len(s)
  OBVIOUS
<1>2. t = [i \in 1..(1 + Len(s) - 3) |-> s[3 + i - 1]]
  BY <1>1
<1>3. t \in Seq(S)
  OBVIOUS
<1> QED
  OBVIOUS

\* Flattening a sequence of which only the members of T are kept gives those.
LEMMA FilterLemma ==
    ASSUME NEW S, NEW T, NEW s \in Seq(S)
    PROVE  LET ss == [d \in DOMAIN s |-> IF s[d] \in T THEN <<s[d]>> ELSE <<>>]
           IN  FlattenSeq(ss) \in Seq(S \cap T) /\ ToSet(FlattenSeq(ss)) = ToSet(s) \cap T
<1> DEFINE ss == [d \in DOMAIN s |-> IF s[d] \in T THEN <<s[d]>> ELSE <<>>]
<1>1. ss \in Seq(Seq(S \cap T)) /\ DOMAIN ss = DOMAIN s
  <2>1. DOMAIN s = 1..Len(s) /\ Len(s) \in Nat
    OBVIOUS
  <2>2. ASSUME NEW d \in DOMAIN s PROVE ss[d] \in Seq(S \cap T)
    <3>1. s[d] \in T => <<s[d]>> \in Seq(S \cap T)
      OBVIOUS
    <3>2. <<>> \in Seq(S \cap T)
      OBVIOUS
    <3> QED
      BY <3>1, <3>2
  <2>3. ss \in [1..Len(s) -> Seq(S \cap T)]
    BY <2>1, <2>2
  <2> QED
    BY <2>1, <2>3, FunctionIsSeq
<1>2. \A d \in DOMAIN s : ToSet(ss[d]) = {s[d]} \cap T
  BY DEF ToSet
<1> HIDE DEF ss
<1>3. FlattenSeq(ss) \in Seq(S \cap T) /\ ToSet(FlattenSeq(ss)) = UNION {ToSet(ss[d]) : d \in DOMAIN ss}
  BY <1>1, FlattenLemma
<1>4. UNION {ToSet(ss[d]) : d \in DOMAIN ss} = ToSet(s) \cap T
  BY <1>1, <1>2 DEF ToSet
<1>5. FlattenSeq(ss) \in Seq(S \cap T) /\ ToSet(FlattenSeq(ss)) = ToSet(s) \cap T
  BY <1>3, <1>4
<1> QED
  BY <1>5 DEF ss

\* The orders of a finite set are sequences of all its elements.
LEMMA OrderLemma ==
    ASSUME NEW S, IsFiniteSet(S), NEW order \in SetToSeqs(S)
    PROVE  /\ order \in Seq(S) /\ ToSet(order) = S
           /\ \A i, j \in DOMAIN order : order[i] = order[j] => i = j
<1> DEFINE n == Cardinality(S)
<1>1. n \in Nat
  BY FS_CardinalityType
<1>2. order \in [1..n -> S] /\ \A i, j \in 1..n : i # j => order[i] # order[j]
  BY DEF SetToSeqs
<1> HIDE DEF n
<1>3. order \in Injection(1..n, S)
  BY <1>2 DEF Injection, IsInjective
<1>4. Cardinality(1..n) = n
  BY <1>1, FS_Interval
<1>5. order \in Surjection(1..n, S)
  BY <1>3, <1>4, FS_Injection DEF n
<1>6. \A x \in S : \E i \in 1..n : order[i] = x
  BY <1>5 DEF Surjection
<1> QED
  BY <1>1, <1>2, <1>6, FunctionIsSeq DEF ToSet
=============================================================================
