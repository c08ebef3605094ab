---------------------------- MODULE SequenceLemmas ----------------------------
(***************************************************************************)
(* Lemmas that several proofs rest on: least and greatest elements of sets *)
(* of numbers, induction along 0..N and the functions over it that are     *)
(* given by their first value and the step from each to the next, and the  *)
(* newest element of a kind in a sequence: how it changes when the         *)
(* sequence grows at its end, as a connection does when something is sent, *)
(* and shrinks at its front, when something is heard.                      *)
(***************************************************************************)
EXTENDS Naturals, Sequences, FiniteSets, SequencesExt, FiniteSetTheorems,
        WellFoundedInduction, TLAPS

-----------------------------------------------------------------------------
(* Least counterexamples *)

\* A set of natural numbers that is not empty has a least element.
LEMMA Least ==
  ASSUME NEW I, I \subseteq Nat, I # {}
  PROVE  \E x \in I : \A y \in I : x <= y
<1>1. PICK m \in I : TRUE
  OBVIOUS
<1> DEFINE T == {0..k : k \in {i \in I : i <= m}}
<1>2. m \in Nat
  OBVIOUS
<1>3. IsFiniteSet(0..m)
  BY <1>2, FS_Interval
<1>4. T \subseteq FiniteSubsetsOf(0..m) /\ T # {}
  <2>1. m \in {i \in I : i <= m}
    BY <1>2
  <2>2. ASSUME NEW k \in {i \in I : i <= m}
        PROVE  0..k \in FiniteSubsetsOf(0..m)
    <3>1. 0..k \in SUBSET (0..m)
      BY <1>2
    <3>2. IsFiniteSet(0..k)
      BY <1>3, <3>1, FS_Subset
    <3>3. QED
      BY <3>1, <3>2 DEF FiniteSubsetsOf
  <2>3. QED
    BY <2>1, <2>2
<1>5. PICK J \in T : \A K \in T : ~ (<<K, J>> \in StrictSubsetOrdering(0..m))
  BY <1>3, <1>4, FS_StrictSubsetOrderingWellFounded, WFMin
<1>6. PICK x \in I : x <= m /\ J = 0..x
  OBVIOUS
<1>7. ASSUME NEW y \in I, ~ (x <= y)
      PROVE  FALSE
  <2>1. x \in Nat /\ y \in Nat /\ y < x /\ y <= m
    BY <1>2, <1>6, <1>7
  <2>2. 0..y \in T
    BY <2>1
  <2>3. 0..y \subseteq 0..x /\ x \in 0..x /\ x \notin 0..y /\ 0..x \subseteq 0..m
    BY <1>2, <1>6, <2>1
  <2>4. <<0..y, J>> \in StrictSubsetOrdering(0..m)
    BY <1>6, <2>3 DEF StrictSubsetOrdering
  <2>5. QED
    BY <1>5, <2>2, <2>4
<1>8. QED
  BY <1>7

-----------------------------------------------------------------------------
(* Recursive functions over 0..N *)

\* Induction along 0..N.
LEMMA Induct ==
  ASSUME NEW N \in Nat, NEW P, 0 \in P, \A n \in 1..N : n - 1 \in P => n \in P
  PROVE  \A n \in 0..N : n \in P
<1> SUFFICES ASSUME NEW c \in 0..N, c \notin P
             PROVE  FALSE
  OBVIOUS
<1> DEFINE I == {n \in 0..N : n \notin P}
<1>1. I \subseteq Nat /\ I # {}
  OBVIOUS
<1> HIDE DEF I
<1>2. PICK m \in I : \A n \in I : m <= n
  BY <1>1, Least
<1>3. m \in 0..N /\ m \notin P /\ m # 0
  BY DEF I
<1>4. m \in 1..N /\ m - 1 \in 0..N /\ ~(m <= m - 1)
  BY <1>3
<1>5. m - 1 \in P
  BY <1>2, <1>4 DEF I
<1>6. QED
  BY <1>3, <1>4, <1>5

\* f starts with a and goes on by the steps of g.
Recurs(f, N, S, a, g) == f \in [0..N -> S] /\ f[0] = a /\ \A n \in 1..N : f[n] = g[n][f[n - 1]]

\* A function over 0..N is given by its first value and the step from each to the next.
LEMMA Recursion ==
  ASSUME NEW N \in Nat, NEW S, NEW a \in S, NEW g \in [1..N -> [S -> S]]
  PROVE  \E f : Recurs(f, N, S, a, g)
<1> DEFINE Upto(M) == \E f \in [0..M -> S] : f[0] = a /\ \A n \in 1..M : f[n] = g[n][f[n - 1]]
           P == {M \in 0..N : Upto(M)}
<1>1. Upto(0)
  <2> DEFINE h == [n \in 0..0 |-> a]
  <2>1. h \in [0..0 -> S] /\ h[0] = a /\ \A n \in 1..0 : h[n] = g[n][h[n - 1]]
    OBVIOUS
  <2> HIDE DEF h
  <2>2. QED
    BY <2>1
<1>2. ASSUME NEW M \in 1..N, Upto(M - 1) PROVE Upto(M)
  <2>1. PICK f \in [0..(M - 1) -> S] : f[0] = a /\ \A n \in 1..(M - 1) : f[n] = g[n][f[n - 1]]
    BY <1>2
  <2> DEFINE h == [n \in 0..M |-> IF n = M THEN g[M][f[M - 1]] ELSE f[n]]
  <2>2. f[M - 1] \in S /\ g[M] \in [S -> S] /\ g[M][f[M - 1]] \in S
    BY <2>1
  <2>3. \A n \in 0..M : n = M \/ n \in 0..(M - 1)
    OBVIOUS
  <2>4. h \in [0..M -> S]
    BY <2>1, <2>2, <2>3
  <2>5. h[0] = a
    BY <2>1
  <2>6. ASSUME NEW n \in 1..M PROVE h[n] = g[n][h[n - 1]]
    <3>1. n - 1 \in 0..M /\ n \in 0..M /\ n - 1 # M /\ h[n - 1] = f[n - 1]
      OBVIOUS
    <3>2. CASE n = M
      BY <3>1, <3>2
    <3>3. CASE n # M
      <4>1. n \in 1..(M - 1) /\ h[n] = f[n]
        BY <3>1, <3>3
      <4>2. QED
        BY <2>1, <3>1, <4>1
    <3>4. QED
      BY <3>2, <3>3
  <2> HIDE DEF h
  <2>7. QED
    BY <2>4, <2>5, <2>6
<1>3. 0 \in P /\ \A M \in 1..N : M - 1 \in P => M \in P
  <2>1. 0 \in 0..N /\ \A M \in 1..N : M - 1 \in 0..N /\ M \in 0..N
    OBVIOUS
  <2>2. QED
    <3> HIDE DEF Upto
    <3>1. QED
      BY <1>1, <1>2, <2>1
<1>4. \A M \in 0..N : M \in P
  <2> HIDE DEF P
  <2>1. QED
    BY <1>3, Induct
<1>5. QED
  BY <1>4 DEF Recurs

-----------------------------------------------------------------------------
(* The newest of a kind in a sequence *)

\* No element of s is in M.
Absent(M, s) == \A i \in DOMAIN s : s[i] \notin M

\* The last element of s that is in M, if there is one, is in V.
Newest(M, s, V) ==
  \A i \in DOMAIN s :
    s[i] \in M /\ (\A j \in DOMAIN s : j > i => s[j] \notin M) => s[i] \in V

\* The front of s leaves.
LEMMA NewestTail ==
  ASSUME NEW S, NEW s \in Seq(S), s # <<>>, NEW M, NEW V, Newest(M, s, V)
  PROVE  /\ Newest(M, Tail(s), V)
         /\ Absent(M, Tail(s)) /\ Head(s) \in M => Head(s) \in V
         /\ Absent(M, Tail(s)) /\ Head(s) \notin M => Absent(M, s)
<1> DEFINE t == Tail(s)
<1>1. /\ t \in Seq(S) /\ Len(s) \in Nat /\ Len(s) > 0 /\ Len(t) = Len(s) - 1
      /\ DOMAIN t = 1..Len(t) /\ DOMAIN s = 1..Len(s)
      /\ \A i \in 1..Len(t) : t[i] = s[i + 1]
      /\ Head(s) = s[1]
  OBVIOUS
<1> HIDE DEF t
<1>2. Newest(M, t, V)
  <2> SUFFICES ASSUME NEW i \in DOMAIN t, t[i] \in M, \A j \in DOMAIN t : j > i => t[j] \notin M
               PROVE  t[i] \in V
    BY DEF Newest
  <2>1. i + 1 \in DOMAIN s /\ s[i + 1] = t[i]
    BY <1>1
  <2>2. ASSUME NEW j \in DOMAIN s, j > i + 1
        PROVE  s[j] \notin M
    <3>1. j - 1 \in DOMAIN t /\ j - 1 > i /\ (j - 1) + 1 = j
      BY <1>1, <2>2
    <3>2. t[j - 1] = s[j]
      BY <1>1, <3>1
    <3>3. QED
      BY <3>1, <3>2
  <2>3. QED
    BY <2>1, <2>2 DEF Newest
<1>3. ASSUME Absent(M, t)
      PROVE  \A j \in DOMAIN s : j > 1 => s[j] \notin M
  <2> TAKE j \in DOMAIN s
  <2> HAVE j > 1
  <2>1. j - 1 \in DOMAIN t /\ (j - 1) + 1 = j
    BY <1>1
  <2>2. t[j - 1] = s[j]
    BY <1>1, <2>1
  <2>3. QED
    BY <1>3, <2>1, <2>2 DEF Absent
<1>4. 1 \in DOMAIN s
  BY <1>1
<1>5. Absent(M, t) /\ Head(s) \in M => Head(s) \in V
  BY <1>1, <1>3, <1>4 DEF Newest
<1>6. Absent(M, t) /\ Head(s) \notin M => Absent(M, s)
  <2> SUFFICES ASSUME Absent(M, t), Head(s) \notin M, NEW j \in DOMAIN s
               PROVE  s[j] \notin M
    BY DEF Absent
  <2>1. j = 1 \/ j > 1
    BY <1>1
  <2>2. QED
    BY <1>1, <1>3, <2>1
<1>7. QED
  BY <1>2, <1>5, <1>6 DEF t

\* The sequence t joins s.
LEMMA NewestJoin ==
  ASSUME NEW S, NEW s \in Seq(S), NEW t \in Seq(S), NEW M, NEW V,
         Newest(M, t, V),
         Absent(M, t) => Newest(M, s, V)
  PROVE  /\ Newest(M, s \o t, V)
         /\ Absent(M, s \o t) <=> Absent(M, s) /\ Absent(M, t)
<1> DEFINE n == Len(s)
           st == s \o t
<1>1. /\ n \in Nat /\ Len(t) \in Nat /\ Len(st) = n + Len(t)
      /\ DOMAIN st = 1..(n + Len(t)) /\ DOMAIN s = 1..n /\ DOMAIN t = 1..Len(t)
      /\ \A i \in 1..n : st[i] = s[i]
      /\ \A i \in 1..(n + Len(t)) : i > n => st[i] = t[i - n]
  OBVIOUS
<1> HIDE DEF n, st
<1>2. \A i \in DOMAIN t : i + n \in DOMAIN st /\ st[i + n] = t[i]
  <2> TAKE i \in DOMAIN t
  <2>1. i + n \in 1..(n + Len(t)) /\ i + n > n /\ (i + n) - n = i
    BY <1>1
  <2>2. st[i + n] = t[(i + n) - n]
    BY <1>1, <2>1
  <2>3. QED
    BY <1>1, <2>1, <2>2
<1>3. \A i \in DOMAIN st :
         \/ i \in DOMAIN s /\ st[i] = s[i]
         \/ i - n \in DOMAIN t /\ st[i] = t[i - n]
  <2> TAKE i \in DOMAIN st
  <2>1. CASE i \in 1..n
    BY <1>1, <2>1
  <2>2. CASE i > n
    <3>1. i \in 1..(n + Len(t)) /\ i - n \in 1..Len(t)
      BY <1>1, <2>2
    <3>2. QED
      BY <1>1, <2>2, <3>1
  <2>3. i \in 1..n \/ i > n
    BY <1>1
  <2>4. QED
    BY <2>1, <2>2, <2>3
<1>4. \A i \in DOMAIN s : i \in DOMAIN st /\ st[i] = s[i]
  BY <1>1
<1>5. Absent(M, st) <=> Absent(M, s) /\ Absent(M, t)
  BY <1>2, <1>3, <1>4 DEF Absent
<1>6. Newest(M, st, V)
  <2> SUFFICES ASSUME NEW i \in DOMAIN st, st[i] \in M, \A j \in DOMAIN st : j > i => st[j] \notin M
               PROVE  st[i] \in V
    BY DEF Newest
  <2>1. CASE i - n \in DOMAIN t /\ st[i] = t[i - n]
    <3>1. ASSUME NEW j \in DOMAIN t, j > i - n
          PROVE  t[j] \notin M
      <4>1. j + n > i
        BY <1>1, <2>1, <3>1
      <4>2. QED
        BY <1>2, <4>1
    <3>2. QED
      BY <2>1, <3>1 DEF Newest
  <2>2. CASE i \in DOMAIN s /\ st[i] = s[i]
    <3>1. Absent(M, t)
      <4> SUFFICES ASSUME NEW j \in DOMAIN t
                   PROVE  t[j] \notin M
        BY DEF Absent
      <4>1. j + n > i
        BY <1>1, <2>2
      <4>2. QED
        BY <1>2, <4>1
    <3>2. \A j \in DOMAIN s : j > i => s[j] \notin M
      BY <1>4
    <3>3. QED
      BY <2>2, <3>1, <3>2 DEF Newest
  <2>3. QED
    BY <1>3, <2>1, <2>2
<1>7. QED
  BY <1>5, <1>6 DEF st

\* Each element of the sequence t that joins s is in V if it is in M.
LEMMA NewestConcat ==
  ASSUME NEW S, NEW s \in Seq(S), NEW t \in Seq(S), NEW M, NEW V,
         \A i \in DOMAIN t : t[i] \in M => t[i] \in V,
         Absent(M, t) => Newest(M, s, V)
  PROVE  /\ Newest(M, s \o t, V)
         /\ Absent(M, s \o t) <=> Absent(M, s) /\ Absent(M, t)
<1>1. Newest(M, t, V)
  BY DEF Newest
<1>2. QED
  BY <1>1, NewestJoin

\* The element e joins s.
LEMMA NewestAppend ==
  ASSUME NEW S, NEW s \in Seq(S), NEW e \in S, NEW M, NEW V,
         e \in M => e \in V,
         e \notin M => Newest(M, s, V)
  PROVE  /\ Newest(M, Append(s, e), V)
         /\ Absent(M, Append(s, e)) <=> Absent(M, s) /\ e \notin M
<1> DEFINE t == <<e>>
<1>1. /\ t \in Seq(S) /\ DOMAIN t = {1} /\ t[1] = e
      /\ Append(s, e) = s \o t
  OBVIOUS
<1> HIDE DEF t
<1>2. Absent(M, t) <=> e \notin M
  BY <1>1 DEF Absent
<1>3. \A i \in DOMAIN t : t[i] \in M => t[i] \in V
  BY <1>1
<1>4. Absent(M, t) => Newest(M, s, V)
  BY <1>2
<1>5. /\ Newest(M, s \o t, V)
      /\ Absent(M, s \o t) <=> Absent(M, s) /\ Absent(M, t)
  BY <1>1, <1>3, <1>4, NewestConcat
<1>6. QED
  BY <1>1, <1>2, <1>5

\* Sequences of one and of two elements.
LEMMA NewestOne ==
  \A M, V, e : /\ Absent(M, <<e>>) <=> e \notin M
               /\ Newest(M, <<e>>, V) <=> (e \in M => e \in V)
<1> TAKE M, V, e
<1>1. DOMAIN <<e>> = {1} /\ <<e>>[1] = e
  OBVIOUS
<1>2. QED
  BY <1>1 DEF Absent, Newest

\* The newest of two.
LEMMA NewestTwo ==
  \A M, V, d, e : /\ Absent(M, <<d, e>>) <=> d \notin M /\ e \notin M
                  /\ Newest(M, <<d, e>>, V) <=> IF e \in M THEN e \in V ELSE d \in M => d \in V
<1> TAKE M, V, d, e
<1>1. DOMAIN <<d, e>> = {1, 2} /\ <<d, e>>[1] = d /\ <<d, e>>[2] = e
  OBVIOUS
<1>2. QED
  BY <1>1 DEF Absent, Newest

\* The empty sequence.
LEMMA NewestEmpty == \A M, V : Newest(M, <<>>, V) /\ Absent(M, <<>>)
BY DEF Newest, Absent

\* An ordering of a finite set holds each of its elements.
LEMMA OrderHoldsAll ==
  ASSUME NEW S, IsFiniteSet(S), NEW order \in SetToSeqs(S)
  PROVE  /\ order \in Seq(S)
         /\ \A x \in S : \E i \in DOMAIN order : order[i] = x
<1> DEFINE n == Cardinality(S)
<1>1. n \in Nat
  BY FS_CardinalityType
<1> HIDE DEF n
<1>2. order \in [1..n -> S] /\ \A i, j \in 1..n : i # j => order[i] # order[j]
  BY DEF SetToSeqs, n
<1>3. order \in Injection(1..n, S)
  BY <1>2 DEF Injection, IsInjective
<1>4. Cardinality(1..n) = Cardinality(S)
  <2>1. Cardinality(1..n) = IF 1 > n THEN 0 ELSE n - 1 + 1
    BY <1>1, FS_Interval
  <2>2. QED
    BY <1>1, <2>1 DEF n
<1>5. order \in Surjection(1..n, S)
  BY <1>3, <1>4, FS_Injection
<1>6. order \in Seq(S)
  BY <1>1, <1>2
<1>7. QED
  BY <1>2, <1>5, <1>6 DEF Surjection

\* A nonempty set of numbers up to n has a greatest one.
LEMMA Greatest ==
  ASSUME NEW n \in Nat, NEW I, I \subseteq 1..n, I # {}
  PROVE  \E x \in I : \A y \in I : y <= x
<1> DEFINE Above(k) == {i \in I : i > k}
           T == {Above(k) : k \in I}
<1>1. I \subseteq Nat
  OBVIOUS
<1>2. IsFiniteSet(I)
  <2>1. IsFiniteSet(1..n)
    BY FS_Interval
  <2>2. QED
    BY <2>1, FS_Subset
<1>3. T \subseteq FiniteSubsetsOf(I) /\ T # {}
  <2>1. \A k \in I : Above(k) \in SUBSET I
    OBVIOUS
  <2>2. \A k \in I : IsFiniteSet(Above(k))
    BY <1>2, <2>1, FS_Subset
  <2>3. QED
    BY <2>1, <2>2 DEF FiniteSubsetsOf
<1>4. PICK J \in T : \A K \in T : ~ (<<K, J>> \in StrictSubsetOrdering(I))
  BY <1>2, <1>3, FS_StrictSubsetOrderingWellFounded, WFMin
<1>5. PICK x \in I : J = Above(x)
  OBVIOUS
<1>6. ASSUME NEW y \in I, ~ (y <= x)
      PROVE  FALSE
  <2>1. x \in Nat /\ y \in Nat /\ y > x /\ \A k \in I : k \in Nat
    BY <1>1, <1>6
  <2>2. (\A k \in I : k > y => k > x) /\ ~ (y > y)
    BY <2>1
  <2>3. Above(y) \subseteq Above(x) /\ y \in Above(x) /\ y \notin Above(y)
    BY <2>1, <2>2
  <2>4. <<Above(y), Above(x)>> \in StrictSubsetOrdering(I)
    BY <2>3 DEF StrictSubsetOrdering
  <2>5. QED
    BY <1>4, <1>5, <2>4
<1>7. QED
  BY <1>6

\* Where there is one of M, the newest one is there.
LEMMA NewestThere ==
  ASSUME NEW S, NEW s \in Seq(S), NEW M, NEW V, Newest(M, s, V), ~Absent(M, s)
  PROVE  \E i \in DOMAIN s : s[i] \in V
<1>1. /\ Len(s) \in Nat /\ DOMAIN s = 1..Len(s)
  OBVIOUS
<1> DEFINE I == {i \in DOMAIN s : s[i] \in M}
<1>2. I # {} /\ I \subseteq 1..Len(s)
  BY <1>1 DEF Absent
<1>3. PICK i \in I : \A j \in I : j <= i
  BY <1>1, <1>2, Greatest
<1>4. \A j \in DOMAIN s : j > i => s[j] \notin M
  BY <1>1, <1>3
<1>5. QED
  BY <1>3, <1>4 DEF Newest

\* A sequence of one and another make a sequence of two.
LEMMA Joined ==
  ASSUME NEW S, NEW q \in S, NEW r \in S
  PROVE  <<q>> \o <<r>> = <<q, r>>
<1>1. /\ <<q>> \in Seq(S) /\ Len(<<q>>) = 1 /\ <<q>>[1] = q
      /\ <<r>> \in Seq(S) /\ Len(<<r>>) = 1 /\ <<r>>[1] = r
  OBVIOUS
<1>2. PICK a \in Seq(S), b \in Seq(S) :
        /\ a = <<q>> /\ Len(a) = 1 /\ a[1] = q
        /\ b = <<r>> /\ Len(b) = 1 /\ b[1] = r
  BY <1>1
<1>3. a \o b \in Seq(S) /\ Len(a \o b) = 2 /\ (a \o b)[1] = q /\ (a \o b)[2] = r
  BY <1>2
<1>4. PICK c \in Seq(S) : c = a \o b
  BY <1>3
<1>5. Len(c) = 2 /\ c[1] = q /\ c[2] = r
  BY <1>3, <1>4
<1>6. c = <<q, r>>
  BY <1>5
<1>7. QED
  BY <1>2, <1>4, <1>6

\* A chosen ordering of a finite set holds each of its elements, and no other.
LEMMA SetToSeqHoldsAll ==
  ASSUME NEW S, IsFiniteSet(S)
  PROVE  /\ Cardinality(S) \in Nat
         /\ SetToSeq(S) \in [1..Cardinality(S) -> S]
         /\ \A x \in S : \E i \in 1..Cardinality(S) : SetToSeq(S)[i] = x
<1> DEFINE n == Cardinality(S)
<1>1. n \in Nat /\ ExistsBijection(1..n, S)
  BY FS_CardinalityType
<1>2. PICK f : f \in Bijection(1..n, S)
  BY <1>1 DEF ExistsBijection
<1>3. f \in [1..n -> S] /\ \A i, j \in DOMAIN f : f[i] = f[j] => i = j
  BY <1>2 DEF Bijection, Injection, IsInjective
<1>4. \E g \in [1..n -> S] : \A i, j \in DOMAIN g : g[i] = g[j] => i = j
  BY <1>3
<1>5. /\ SetToSeq(S) \in [1..n -> S]
      /\ \A i, j \in DOMAIN SetToSeq(S) : SetToSeq(S)[i] = SetToSeq(S)[j] => i = j
  BY <1>4 DEF SetToSeq, IsInjective
<1> HIDE DEF n
<1>6. PICK order \in [1..n -> S] :
        order = SetToSeq(S) /\ \A i, j \in 1..n : order[i] = order[j] => i = j
  BY <1>5
<1>7. order \in Injection(1..n, S)
  BY <1>6 DEF Injection, IsInjective
<1>8. Cardinality(1..n) = Cardinality(S)
  <2>1. Cardinality(1..n) = IF 1 > n THEN 0 ELSE n - 1 + 1
    BY <1>1, FS_Interval
  <2>2. QED
    BY <1>1, <2>1 DEF n
<1>9. order \in Surjection(1..n, S)
  BY <1>7, <1>8, FS_Injection
<1>10. \A x \in S : \E i \in 1..n : order[i] = x
  BY <1>9 DEF Surjection
<1>11. QED
  BY <1>1, <1>6, <1>10 DEF n
=============================================================================
