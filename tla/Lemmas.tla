------------------------------- MODULE Lemmas -------------------------------
(***************************************************************************)
(* What the proofs of several components need: facts about % for an        *)
(* arbitrary modulus (the index arithmetic of the circular buffers and the *)
(* wrapping sequence numbers of TCP); induction over the naturals, for a   *)
(* set, as loops over indices need it; and sequences that are cut and      *)
(* concatenated.                                                           *)
(***************************************************************************)
EXTENDS Integers, SequencesExt, NaturalsInduction, WellFoundedInduction, SequenceTheorems,
        FiniteSetTheorems, TLAPS

\* A remainder is below its modulus.
LEMMA ModRange ==
  ASSUME NEW n \in Nat \ {0}, NEW a \in Int
  PROVE  a % n \in 0 .. (n - 1)
  BY Z3

\* An index that has not reached the modulus is left alone ...
LEMMA ModSmall ==
  ASSUME NEW n \in Nat \ {0}, NEW a \in Nat, a < n
  PROVE  a % n = a
  BY Z3

\* ... and one that went past it once is brought back by one subtraction.
LEMMA ModOnce ==
  ASSUME NEW n \in Nat \ {0}, NEW a \in Nat, a >= n, a < n + n
  PROVE  a % n = a - n
  BY Z3

\* Euclidean division.
LEMMA Division ==
  ASSUME NEW n \in Nat \ {0}, NEW a \in Int
  PROVE  \E q \in Int : a = n * q + (a % n)
<1>1. a = n * (a \div n) + (a % n)
  BY Z3
<1>2. a \div n \in Int
  BY Z3
<1> QED
  BY <1>1, <1>2

\* Two remainders that differ by a multiple of the modulus are equal.
LEMMA RemainderUnique ==
  ASSUME NEW n \in Nat \ {0}, NEW k \in Int, NEW r \in Int, NEW s \in Int,
         0 <= r, r < n, 0 <= s, s < n, s = n * k + r
  PROVE  s = r
<1>1. CASE k >= 1
  <2>1. n * k >= n
    BY <1>1, Z3
  <2> QED
    BY <2>1, Z3
<1>2. CASE k <= -1
  <2>1. n * k <= -n
    BY <1>2, Z3
  <2> QED
    BY <2>1, Z3
<1>3. CASE k = 0
  BY <1>3, Z3
<1> QED
  BY <1>1, <1>2, <1>3, Z3

\* Adding multiples of the modulus does not change a remainder.
LEMMA ModOfMultiple ==
  ASSUME NEW n \in Nat \ {0}, NEW k \in Int, NEW r \in Int, 0 <= r, r < n
  PROVE  (n * k + r) % n = r
<1> DEFINE y == n * k + r
<1>1. y \in Int
  BY Z3
<1>2. PICK q \in Int : y = n * q + (y % n)
  BY <1>1, Division
<1>3. y % n \in Int /\ 0 <= y % n /\ y % n < n
  BY <1>1, ModRange, Z3
<1>4. y % n = n * (k - q) + r
  BY <1>2, <1>3, Z3
<1>5. k - q \in Int
  BY Z3
<1> HIDE DEF y
<1>6. y % n = r
  BY <1>3, <1>4, <1>5, RemainderUnique
<1> QED
  BY <1>6 DEF y

\* A wrapping addition may be reduced before or after adding.
LEMMA ModPlus ==
  ASSUME NEW n \in Nat \ {0}, NEW a \in Int, NEW b \in Int
  PROVE  ((a % n) + b) % n = (a + b) % n
<1> DEFINE r == (a + b) % n
<1>1. PICK q \in Int : a = n * q + (a % n)
  BY Division
<1>2. a + b \in Int
  BY Z3
<1>3. PICK p \in Int : a + b = n * p + r
  BY <1>2, Division
<1>4. r \in Int /\ 0 <= r /\ r < n
  BY <1>2, ModRange, Z3
<1>5. a % n \in Int
  BY Z3
<1> HIDE DEF r
<1>6. (a % n) + b = n * (p - q) + r
  BY <1>1, <1>3, <1>4, <1>5, Z3
<1>7. p - q \in Int
  BY Z3
<1>8. (n * (p - q) + r) % n = r
  BY <1>4, <1>7, ModOfMultiple
<1> QED
  BY <1>6, <1>8 DEF r

\* Two numbers less than a turn apart have the same remainder only if they are equal.
LEMMA ModUnique ==
  ASSUME NEW n \in Nat \ {0}, NEW a \in Int, NEW b \in Int,
         a % n = b % n, a - b < n, b - a < n
  PROVE  a = b
<1>1. PICK q \in Int : a = n * q + (a % n)
  BY Division
<1>2. PICK p \in Int : b = n * p + (b % n)
  BY Division
<1> DEFINE k == q - p
<1>3. k \in Int /\ a % n \in Int /\ b % n \in Int
  BY Z3
<1>4. a - b = n * k
  BY <1>1, <1>2, <1>3, Z3
<1> HIDE DEF k
<1>5. CASE k >= 1
  <2>1. n * k >= n
    BY <1>3, <1>5, Z3
  <2> QED BY <1>4, <2>1, Z3
<1>6. CASE k <= -1
  <2>1. n * k <= -n
    BY <1>3, <1>6, Z3
  <2> QED BY <1>4, <2>1, Z3
<1>7. CASE k = 0
  BY <1>4, <1>7, Z3
<1> QED BY <1>3, <1>5, <1>6, <1>7, Z3

-----------------------------------------------------------------------------
\* A set of naturals that is not empty has a least element.
LEMMA Least ==
  ASSUME NEW T \in SUBSET Nat, T # {}
  PROVE  \E n \in T : \A m \in T : n <= m
<1> DEFINE R == {p \in Nat \X Nat : p[1] < p[2]}
<1>1. IsWellFoundedOn(R, Nat)
  <2>1. IsWellFoundedOn(OpToRel(<, Nat), Nat)
    BY NatLessThanWellFounded
  <2>2. OpToRel(<, Nat) = R
    BY DEF OpToRel
  <2> QED BY <2>1, <2>2
<1>2. PICK x \in T : \A y \in T : ~(<<y, x>> \in R)
  BY <1>1, WFMin
<1>3. ASSUME NEW y \in T PROVE x <= y
  <2>1. y \in Nat /\ x \in Nat /\ ~(<<y, x>> \in R)
    BY <1>2
  <2>2. y < x => <<y, x>> \in R
    BY <2>1
  <2> QED BY <2>1, <2>2
<1> QED BY <1>3

\* A set that holds 0 and the successor of each of its naturals holds them all.
LEMMA SetInduction ==
  ASSUME NEW T, 0 \in T, \A n \in Nat : n \in T => n + 1 \in T
  PROVE  \A n \in Nat : n \in T
<1> DEFINE U == {n \in Nat : n \notin T}
<1>1. SUFFICES ASSUME U # {} PROVE FALSE
  OBVIOUS
<1>2. PICK n \in U : \A m \in U : n <= m
  BY <1>1, Least
<1>3. n \in Nat /\ n # 0 /\ n \notin T
  BY <1>2
<1>4. n - 1 \in Nat /\ ~(n <= n - 1) /\ (n - 1) + 1 = n
  BY <1>3
<1>5. n - 1 \in T
  BY <1>2, <1>4
<1> QED BY <1>3, <1>4, <1>5

-----------------------------------------------------------------------------
(***************************************************************************)
(* Concatenating a sequence of sequences.                                  *)
(***************************************************************************)
\* f concatenates the first n elements of s, one more at each index.
Joins(f, s, n) == f = [i \in 1 .. n |-> IF i = 1 THEN s[i] ELSE f[i - 1] \o s[i]]

\* There is such a function.
LEMMA JoinExists ==
  ASSUME NEW s, NEW n \in Nat
  PROVE  \E f : Joins(f, s, n)
<1> DEFINE T == {m \in Nat : \E f : Joins(f, s, m)}
<1>1. 0 \in T
  <2> DEFINE f == [i \in 1 .. 0 |-> s]
  <2>1. Joins(f, s, 0)
    BY DEF Joins
  <2> QED BY <2>1
<1>2. ASSUME NEW m \in Nat, m \in T PROVE m + 1 \in T
  <2>1. PICK f : Joins(f, s, m)
    BY <1>2
  <2> DEFINE u == [i \in 1 .. m + 1 |->
                     IF i \in 1 .. m THEN f[i]
                     ELSE IF i = 1 THEN s[i] ELSE f[i - 1] \o s[i]]
  <2>2. ASSUME NEW i \in 1 .. m + 1
        PROVE  u[i] = IF i = 1 THEN s[i] ELSE u[i - 1] \o s[i]
    <3>1. CASE i = 1
      <4>1. i \in 1 .. m => f[i] = s[i]
        BY <2>1, <3>1 DEF Joins
      <4> QED BY <3>1, <4>1
    <3>2. CASE i # 1
      <4>1. i - 1 \in 1 .. m /\ i - 1 \in 1 .. m + 1
        BY <3>2
      <4>2. u[i - 1] = f[i - 1]
        BY <4>1
      <4>3. i \in 1 .. m => f[i] = f[i - 1] \o s[i]
        BY <2>1, <3>2 DEF Joins
      <4>4. u[i] = f[i - 1] \o s[i]
        BY <3>2, <4>3
      <4> QED BY <3>2, <4>2, <4>4
    <3> QED BY <3>1, <3>2
  <2>3. Joins(u, s, m + 1)
    <3>1. u = [i \in 1 .. m + 1 |-> u[i]]
      OBVIOUS
    <3> HIDE DEF u
    <3>2. [i \in 1 .. m + 1 |-> u[i]]
            = [i \in 1 .. m + 1 |-> IF i = 1 THEN s[i] ELSE u[i - 1] \o s[i]]
      BY <2>2, Zenon
    <3> QED BY <3>1, <3>2, Zenon DEF Joins
  <2> HIDE DEF u
  <2> QED BY <2>3
<1> HIDE DEF T
<1>3. n \in T
  BY <1>1, <1>2, SetInduction
<1> QED BY <1>3 DEF T

\* It only depends on the elements it concatenates.
LEMMA JoinUnique ==
  ASSUME NEW s, NEW t, NEW f, NEW g, NEW n \in Nat, NEW m \in Nat, n <= m,
         Joins(f, s, n), Joins(g, t, m), \A i \in 1 .. n : s[i] = t[i]
  PROVE  \A i \in 1 .. n : f[i] = g[i]
<1> DEFINE T == {k \in Nat : k + 1 <= n => f[k + 1] = g[k + 1]}
<1>1. 0 \in T
  <2> SUFFICES ASSUME 1 <= n PROVE f[1] = g[1]
    OBVIOUS
  <2>1. 1 \in 1 .. n /\ 1 \in 1 .. m
    OBVIOUS
  <2>2. f[1] = s[1] /\ g[1] = t[1]
    BY <2>1 DEF Joins
  <2> QED BY <2>1, <2>2
<1>2. ASSUME NEW k \in Nat, k \in T PROVE k + 1 \in T
  <2> SUFFICES ASSUME k + 2 <= n PROVE f[k + 2] = g[k + 2]
    OBVIOUS
  <2> DEFINE j == k + 2
  <2>1. j \in 1 .. n /\ j \in 1 .. m /\ j # 1 /\ j - 1 = k + 1 /\ k + 1 <= n
    OBVIOUS
  <2>2. f[j - 1] = g[j - 1]
    BY <1>2, <2>1
  <2> HIDE DEF j, T
  <2>3. f[j] = f[j - 1] \o s[j]
    BY <2>1 DEF Joins
  <2>4. g[j] = g[j - 1] \o t[j]
    BY <2>1 DEF Joins
  <2>5. f[j] = g[j]
    BY <2>1, <2>2, <2>3, <2>4
  <2> QED BY <2>5 DEF j
<1> HIDE DEF T
<1>3. \A k \in Nat : k \in T
  BY <1>1, <1>2, SetInduction
<1>4. ASSUME NEW i \in 1 .. n PROVE f[i] = g[i]
  <2>1. i - 1 \in Nat /\ (i - 1) + 1 = i /\ i <= n
    OBVIOUS
  <2>2. i - 1 \in T
    BY <1>3, <2>1
  <2> QED BY <2>1, <2>2 DEF T
<1> QED BY <1>4

\* FlattenSeq() is the last value of that function.
LEMMA FlattenJoins ==
  ASSUME NEW S, NEW s \in Seq(Seq(S)), s # << >>
  PROVE  \E f : Joins(f, s, Len(s)) /\ FlattenSeq(s) = f[Len(s)]
<1> DEFINE flatten == CHOOSE f : Joins(f, s, Len(s))
<1>1. Len(s) \in Nat /\ Len(s) # 0
  BY EmptySeq
<1>2. Joins(flatten, s, Len(s))
  BY <1>1, JoinExists
<1>3. FlattenSeq(s) = flatten[Len(s)]
  BY <1>1 DEF FlattenSeq, Joins
<1> QED BY <1>2, <1>3

\* Flattening one more element appends it.
LEMMA FlattenAppend ==
  ASSUME NEW S, NEW s \in Seq(Seq(S)), NEW e \in Seq(S)
  PROVE  FlattenSeq(Append(s, e)) = FlattenSeq(s) \o e
<1> DEFINE a == Append(s, e)
           n == Len(s)
<1>1. /\ a \in Seq(Seq(S)) /\ a # << >> /\ n \in Nat /\ Len(a) = n + 1
      /\ \A i \in 1 .. n : a[i] = s[i]
      /\ a[n + 1] = e
  BY AppendProperties, LenProperties
<1> HIDE DEF a
<1>2. PICK g : Joins(g, a, n + 1) /\ FlattenSeq(a) = g[n + 1]
  BY <1>1, FlattenJoins
<1>3. n + 1 \in 1 .. n + 1
  BY <1>1
<1>4. CASE s = << >>
  <2>1. n = 0 /\ FlattenSeq(s) = << >>
    BY <1>4 DEF FlattenSeq
  <2>2. FlattenSeq(a) = e
    BY <1>1, <1>2, <1>3, <2>1 DEF Joins
  <2>3. << >> \o e = e
    BY ConcatEmptySeq
  <2> QED BY <1>4, <2>1, <2>2, <2>3 DEF a
<1>5. CASE s # << >>
  <2>1. PICK f : Joins(f, s, n) /\ FlattenSeq(s) = f[n]
    BY <1>5, FlattenJoins
  <2>2. n # 0
    BY <1>1, <1>5, EmptySeq
  <2>3. n \in 1 .. n /\ n + 1 # 1 /\ (n + 1) - 1 = n
    BY <1>1, <2>2
  <2>4. f[n] = g[n]
    <3>1. n + 1 \in Nat /\ n <= n + 1 /\ \A i \in 1 .. n : s[i] = a[i]
      BY <1>1
    <3>2. \A i \in 1 .. n : f[i] = g[i]
      <4>1. n \in Nat /\ Joins(g, a, n + 1) /\ Joins(f, s, n)
        BY <1>1, <1>2, <2>1
      <4> HIDE DEF n
      <4> QED BY <3>1, <4>1, JoinUnique
    <3> QED BY <2>3, <3>2
  <2>5. g[n + 1] = g[(n + 1) - 1] \o a[n + 1]
    BY <1>2, <1>3, <2>3 DEF Joins
  <2>6. g[n + 1] = g[n] \o e
    BY <1>1, <2>3, <2>5
  <2> QED BY <1>2, <2>1, <2>4, <2>6 DEF a
<1> QED BY <1>4, <1>5

\* A prefix is flattened one element at a time.
LEMMA FlattenPrefix ==
  ASSUME NEW S, NEW s \in Seq(Seq(S)), NEW k \in 0 .. Len(s), k < Len(s)
  PROVE  /\ s[k + 1] \in Seq(S)
         /\ SubSeq(s, 1, k) \in Seq(Seq(S))
         /\ SubSeq(s, 1, k + 1) = Append(SubSeq(s, 1, k), s[k + 1])
         /\ FlattenSeq(SubSeq(s, 1, k + 1)) = FlattenSeq(SubSeq(s, 1, k)) \o s[k + 1]
<1> DEFINE p == SubSeq(s, 1, k)
           q == SubSeq(s, 1, k + 1)
           e == s[k + 1]
<1>1. Len(s) \in Nat /\ k \in Nat /\ k + 1 \in 1 .. Len(s) /\ \A i \in 1 .. Len(s) : s[i] \in Seq(S)
  BY LenProperties, ElementOfSeq
<1>2. /\ p \in Seq(Seq(S)) /\ Len(p) = k
      /\ \A i \in 1 .. k : p[i] = s[i]
  BY <1>1, SubSeqProperties
<1>3. /\ q \in Seq(Seq(S)) /\ Len(q) = k + 1
      /\ \A i \in 1 .. k + 1 : q[i] = s[i]
  BY <1>1, SubSeqProperties
<1>4. e \in Seq(S)
  BY <1>1
<1> HIDE DEF p, q, e
<1>5. /\ Append(p, e) \in Seq(Seq(S)) /\ Len(Append(p, e)) = k + 1
      /\ \A i \in 1 .. k : Append(p, e)[i] = p[i]
      /\ Append(p, e)[k + 1] = e
  <2> DEFINE X == Seq(S)
  <2>1. p \in Seq(X) /\ e \in X /\ Len(p) = k
    BY <1>2, <1>4
  <2> HIDE DEF X
  <2>2. /\ Append(p, e) \in Seq(X) /\ Len(Append(p, e)) = Len(p) + 1
        /\ \A i \in 1 .. Len(p) : Append(p, e)[i] = p[i]
        /\ Append(p, e)[Len(p) + 1] = e
    BY <2>1, AppendProperties
  <2> QED BY <2>1, <2>2 DEF X
<1>6. ASSUME NEW i \in 1 .. k + 1 PROVE q[i] = Append(p, e)[i]
  <2>1. i \in 1 .. k \/ i = k + 1
    BY <1>1
  <2> QED BY <1>2, <1>3, <1>5, <2>1 DEF e
<1>7. q = Append(p, e)
  <2>1. Len(q) = Len(Append(p, e)) /\ \A i \in 1 .. Len(q) : q[i] = Append(p, e)[i]
    BY <1>3, <1>5, <1>6
  <2> DEFINE a == Append(p, e)
             X == Seq(S)
  <2>2. a \in Seq(X) /\ q \in Seq(X)
    BY <1>3, <1>5
  <2>3. Len(q) = Len(a) /\ \A i \in 1 .. Len(q) : q[i] = a[i]
    BY <2>1
  <2> HIDE DEF a, X
  <2>4. q = a
    BY <2>2, <2>3, SeqEqual
  <2> QED BY <2>4 DEF a
<1>8. FlattenSeq(q) = FlattenSeq(p) \o e
  BY <1>2, <1>4, <1>7, FlattenAppend
<1> QED BY <1>2, <1>4, <1>7, <1>8 DEF p, q, e

\* What the elements of a sequence are made of, their concatenation is made of.
LEMMA FlattenType ==
  ASSUME NEW S, NEW s \in Seq(Seq(S))
  PROVE  \A k \in 0 .. Len(s) : FlattenSeq(SubSeq(s, 1, k)) \in Seq(S)
<1> DEFINE F(k) == FlattenSeq(SubSeq(s, 1, k))
           T == {k \in Nat : k <= Len(s) => F(k) \in Seq(S)}
<1>0. Len(s) \in Nat
  BY LenProperties
<1>1. 0 \in T
  <2>1. SubSeq(s, 1, 0) = << >>
    BY SubSeqEmpty
  <2>2. F(0) = << >>
    BY <2>1 DEF FlattenSeq
  <2> QED BY <2>2, EmptySeq
<1>2. ASSUME NEW k \in Nat, k \in T PROVE k + 1 \in T
  <2> SUFFICES ASSUME k + 1 <= Len(s) PROVE F(k + 1) \in Seq(S)
    OBVIOUS
  <2>1. k \in 0 .. Len(s) /\ k < Len(s) /\ F(k) \in Seq(S)
    BY <1>0, <1>2
  <2>2. F(k + 1) = F(k) \o s[k + 1] /\ s[k + 1] \in Seq(S)
    BY <2>1, FlattenPrefix
  <2> HIDE DEF F
  <2> QED BY <2>1, <2>2, ConcatProperties
<1> HIDE DEF T, F
<1>3. \A k \in Nat : k \in T
  BY <1>1, <1>2, SetInduction
<1>4. ASSUME NEW k \in 0 .. Len(s) PROVE F(k) \in Seq(S)
  BY <1>0, <1>3 DEF T
<1> QED BY <1>4 DEF F

\* ... and the whole of it in particular.
LEMMA FlattenWhole ==
  ASSUME NEW S, NEW s \in Seq(Seq(S))
  PROVE  FlattenSeq(s) \in Seq(S)
<1>1. Len(s) \in Nat /\ SubSeq(s, 1, Len(s)) = s
  BY LenProperties, SubSeqFull
<1>2. Len(s) \in 0 .. Len(s)
  BY <1>1
<1>3. FlattenSeq(SubSeq(s, 1, Len(s))) \in Seq(S)
  BY <1>2, FlattenType
<1> QED BY <1>1, <1>3

\* A prefix of the elements is a prefix of their concatenation.
LEMMA FlattenRest ==
  ASSUME NEW S, NEW s \in Seq(Seq(S)), NEW k \in 0 .. Len(s)
  PROVE  \E t \in Seq(S) : FlattenSeq(s) = FlattenSeq(SubSeq(s, 1, k)) \o t
<1> DEFINE F(j) == FlattenSeq(SubSeq(s, 1, j))
           R(m) == \E t \in Seq(S) : F(m) = F(k) \o t
           T == {j \in Nat : k + j <= Len(s) => R(k + j)}
<1>0. Len(s) \in Nat /\ k \in Nat /\ k <= Len(s) /\ \A j \in 0 .. Len(s) : F(j) \in Seq(S)
  BY LenProperties, FlattenType
<1>s. ASSUME NEW j \in 0 .. Len(s), j < Len(s)
      PROVE  F(j + 1) = F(j) \o s[j + 1] /\ s[j + 1] \in Seq(S)
  BY <1>s, FlattenPrefix
<1>f. F(Len(s)) = FlattenSeq(s)
  BY SubSeqFull
<1> HIDE DEF F
<1>1. R(k)
  <2>1. F(k) \o << >> = F(k) /\ << >> \in Seq(S)
    BY <1>0, ConcatEmptySeq, EmptySeq
  <2> QED BY <2>1
<1>2. ASSUME NEW m \in 0 .. Len(s), m < Len(s), R(m) PROVE R(m + 1)
  <2> DEFINE e == s[m + 1]
  <2>1. PICK t \in Seq(S) : F(m) = F(k) \o t
    BY <1>2
  <2>2. F(m + 1) = F(m) \o e
    BY <1>s, <1>2
  <2>3. e \in Seq(S) /\ F(k) \in Seq(S)
    BY <1>0, <1>s, <1>2
  <2> HIDE DEF e, R, T
  <2>4. t \o e \in Seq(S)
    BY <2>3, ConcatProperties
  <2>5. (F(k) \o t) \o e = F(k) \o (t \o e)
    BY <2>3, ConcatAssociative
  <2>6. F(m + 1) = F(k) \o (t \o e)
    BY <2>1, <2>2, <2>5
  <2> QED BY <2>4, <2>6 DEF R
<1> HIDE DEF R
<1>3. 0 \in T
  BY <1>0, <1>1
<1>4. ASSUME NEW j \in Nat, j \in T PROVE j + 1 \in T
  <2> SUFFICES ASSUME k + (j + 1) <= Len(s) PROVE R(k + (j + 1))
    OBVIOUS
  <2>1. k + j \in 0 .. Len(s) /\ k + j < Len(s) /\ (k + j) + 1 = k + (j + 1)
    BY <1>0
  <2>2. R((k + j) + 1)
    BY <1>2, <1>4, <2>1
  <2> QED BY <2>1, <2>2
<1> HIDE DEF T
<1>5. Len(s) - k \in Nat /\ k + (Len(s) - k) = Len(s)
  BY <1>0
<1>6. Len(s) - k \in T
  BY <1>3, <1>4, <1>5, SetInduction
<1>7. R(Len(s))
  BY <1>5, <1>6 DEF T
<1> QED BY <1>7, <1>f DEF F, R

\* Sequences that are concatenated may be grouped in either way.  (The provers match a
\* name, not the concatenations.)
Groups(s, t, u) == (s \o t) \o u = s \o (t \o u)

LEMMA Grouped ==
  ASSUME NEW S, NEW s \in Seq(S), NEW t \in Seq(S), NEW u \in Seq(S)
  PROVE  Groups(s, t, u)
  BY ConcatAssociative DEF Groups

\* Flattening takes the first element and then the others.
LEMMA FlattenCons ==
  ASSUME NEW S, NEW s \in Seq(Seq(S)), s # << >>
  PROVE  /\ Head(s) \in Seq(S) /\ Tail(s) \in Seq(Seq(S))
         /\ FlattenSeq(s) = Head(s) \o FlattenSeq(Tail(s))
<1> DEFINE u == Tail(s)
           F(k) == FlattenSeq(SubSeq(s, 1, k))
           G(k) == FlattenSeq(SubSeq(u, 1, k))
           R(k) == F(k + 1) = s[1] \o G(k)
           T == {k \in Nat : k <= Len(u) => R(k)}
<1>1. /\ Len(s) \in Nat /\ Len(s) # 0 /\ Head(s) = s[1] /\ Head(s) \in Seq(S)
      /\ u \in Seq(Seq(S)) /\ Len(u) = Len(s) - 1
      /\ \A i \in 1 .. Len(u) : u[i] = s[i + 1]
  BY EmptySeq, HeadTailProperties
<1>s. ASSUME NEW k \in 0 .. Len(s), k < Len(s)
      PROVE  F(k + 1) = F(k) \o s[k + 1] /\ s[k + 1] \in Seq(S)
  BY <1>s, FlattenPrefix
<1>u. ASSUME NEW k \in 0 .. Len(u), k < Len(u)
      PROVE  G(k + 1) = G(k) \o u[k + 1] /\ u[k + 1] \in Seq(S)
  <2> HIDE DEF u
  <2> QED BY <1>1, <1>u, FlattenPrefix
<1>t. \A k \in 0 .. Len(u) : G(k) \in Seq(S)
  <2> HIDE DEF u
  <2> QED BY <1>1, FlattenType
<1>0. F(0) = << >> /\ G(0) = << >>
  BY SubSeqEmpty DEF FlattenSeq
<1>f. F(Len(s)) = FlattenSeq(s) /\ G(Len(u)) = FlattenSeq(u)
  <2> HIDE DEF u
  <2> QED BY <1>1, SubSeqFull
<1> HIDE DEF F, G, u
<1>2. R(0)
  <2> DEFINE h == s[1]
  <2>1. F(0 + 1) = F(0) \o h /\ h \in Seq(S) /\ 0 + 1 = 1
    BY <1>1, <1>s
  <2> HIDE DEF h
  <2>2. << >> \o h = h /\ h \o << >> = h
    BY <2>1, ConcatEmptySeq
  <2>3. F(0 + 1) = h \o G(0)
    BY <1>0, <2>1, <2>2
  <2> QED BY <2>3 DEF h
<1>3. ASSUME NEW k \in Nat, k < Len(u), R(k) PROVE R(k + 1)
  <2> DEFINE e == u[k + 1]
             h == s[1]
             g == G(k)
  <2>1. k \in 0 .. Len(u) /\ k + 1 \in 0 .. Len(s) /\ k + 1 \in 1 .. Len(u) /\ k + 1 < Len(s)
    BY <1>1, <1>3
  <2>2. e = s[(k + 1) + 1] /\ e \in Seq(S) /\ G(k + 1) = g \o e
    BY <1>1, <1>3, <1>u, <2>1
  <2>3. F((k + 1) + 1) = F(k + 1) \o e
    BY <1>s, <2>1, <2>2
  <2>4. F(k + 1) = h \o g
    BY <1>3
  <2>5. h \in Seq(S) /\ g \in Seq(S) /\ e \in Seq(S)
    BY <1>1, <1>t, <2>1, <2>2
  <2> HIDE DEF e, h, g
  <2>6. (h \o g) \o e = h \o (g \o e)
    <3>1. Groups(h, g, e)
      BY <2>5, Grouped
    <3> QED BY <3>1 DEF Groups
  <2>7. F((k + 1) + 1) = h \o G(k + 1)
    BY <2>2, <2>3, <2>4, <2>6
  <2> QED BY <2>7 DEF h
<1> HIDE DEF R
<1>4. 0 \in T
  BY <1>2
<1>5. ASSUME NEW k \in Nat, k \in T PROVE k + 1 \in T
  <2> SUFFICES ASSUME k + 1 <= Len(u) PROVE R(k + 1)
    OBVIOUS
  <2> QED BY <1>1, <1>3, <1>5
<1> HIDE DEF T
<1>6. Len(u) \in Nat /\ Len(u) + 1 = Len(s)
  BY <1>1
<1>7. Len(u) \in T
  BY <1>4, <1>5, <1>6, SetInduction
<1>8. R(Len(u))
  BY <1>6, <1>7 DEF T
<1>9. F(Len(u) + 1) = s[1] \o G(Len(u))
  BY <1>8 DEF R
<1> QED BY <1>1, <1>6, <1>9, <1>f DEF u

\* A sequence is its first k elements and the rest.
LEMMA CutAt ==
  ASSUME NEW S, NEW s \in Seq(S), NEW k \in 0 .. Len(s)
  PROVE  /\ SubSeq(s, 1, k) \in Seq(S) /\ Len(SubSeq(s, 1, k)) = k
         /\ SubSeq(s, k + 1, Len(s)) \in Seq(S) /\ Len(SubSeq(s, k + 1, Len(s))) = Len(s) - k
         /\ SubSeq(s, 1, k) \o SubSeq(s, k + 1, Len(s)) = s
<1>1. Len(s) \in Nat /\ k \in Nat /\ k <= Len(s) /\ \A i \in 1 .. Len(s) : s[i] \in S
  BY LenProperties, ElementOfSeq
<1>2. SubSeq(s, 1, k) \in Seq(S) /\ Len(SubSeq(s, 1, k)) = k
  BY <1>1, SubSeqProperties
<1>3. SubSeq(s, k + 1, Len(s)) \in Seq(S) /\ Len(SubSeq(s, k + 1, Len(s))) = Len(s) - k
  BY <1>1, SubSeqProperties
<1>4. SubSeq(s, 1, k) \o SubSeq(s, k + 1, Len(s)) = SubSeq(s, 1, Len(s))
  <2>1. 1 \in 1 .. Len(s) + 1 /\ k \in 1 - 1 .. Len(s) /\ Len(s) \in k .. Len(s)
    BY <1>1
  <2> QED BY <2>1, ConcatAdjacentSubSeq
<1>5. SubSeq(s, 1, Len(s)) = s
  BY SubSeqFull
<1> QED BY <1>2, <1>3, <1>4, <1>5

\* What is left of b after as many elements as q has.  (The provers match a name, not
\* the SubSeq().)
After(b, q) == SubSeq(b, Len(q) + 1, Len(b))

\* When b and c together are q and t, and b is as long as q, then b starts with q.
LEMMA SplitAt ==
  ASSUME NEW S, NEW b \in Seq(S), NEW c \in Seq(S), NEW q \in Seq(S), NEW t \in Seq(S),
         b \o c = q \o t, Len(q) <= Len(b)
  PROVE  SubSeq(b, 1, Len(q)) = q /\ After(b, q) \in Seq(S) /\ After(b, q) \o c = t
<1> DEFINE l == Len(q)
           p == SubSeq(b, 1, l)
           r == After(b, q)
<1>1. /\ l \in Nat /\ Len(b) \in Nat /\ Len(c) \in Nat /\ Len(t) \in Nat /\ l <= Len(b)
      /\ \A i \in 1 .. Len(b) : b[i] \in S
  BY LenProperties, ElementOfSeq
<1>2. p \in Seq(S) /\ Len(p) = l /\ \A i \in 1 .. l : p[i] = b[i]
  BY <1>1, SubSeqProperties
<1>3. r = SubSeq(b, l + 1, Len(b)) /\ r \in Seq(S)
  BY <1>1, SubSeqProperties DEF After
<1>4. p \o r = b
  <2>1. l \in 0 .. Len(b)
    BY <1>1
  <2>2. SubSeq(b, 1, l) \o SubSeq(b, l + 1, Len(b)) = b
    BY <2>1, CutAt
  <2> QED BY <1>3, <2>2
<1> HIDE DEF l, p, r
<1>5. ASSUME NEW i \in 1 .. l PROVE p[i] = q[i]
  <2>1. i \in 1 .. Len(b) + Len(c) /\ i <= Len(b) /\ i \in 1 .. Len(q) + Len(t) /\ i <= Len(q)
    BY <1>1 DEF l
  <2>2. (b \o c)[i] = b[i]
    BY <2>1, ConcatProperties
  <2>3. (q \o t)[i] = q[i]
    BY <2>1, ConcatProperties
  <2> QED BY <1>2, <2>2, <2>3
<1>6. p = q
  BY <1>2, <1>5, SeqEqual DEF l
<1>7. q \o (r \o c) = q \o t /\ r \o c \in Seq(S)
  <2>1. q \in Seq(S) /\ r \in Seq(S) /\ c \in Seq(S)
    BY <1>3
  <2>2. (q \o r) \o c = q \o (r \o c)
    <3>1. Groups(q, r, c)
      BY <2>1, Grouped
    <3> QED BY <3>1 DEF Groups
  <2> QED BY <1>4, <1>6, <2>1, <2>2, ConcatProperties
<1>8. r \o c = t
  BY <1>7, ConcatSimplifications
<1> QED BY <1>3, <1>6, <1>8 DEF l, p, r

\* A prefix, element by element.
LEMMA PrefixIs ==
  ASSUME NEW S, NEW s \in Seq(S), NEW t \in Seq(S)
  PROVE  IsPrefix(s, t) <=> Len(s) <= Len(t) /\ \A i \in 1 .. Len(s) : s[i] = t[i]
<1>1. Len(s) \in Nat /\ Len(t) \in Nat /\ \A i \in 1 .. Len(t) : t[i] \in S
  BY LenProperties, ElementOfSeq
<1> DEFINE p == SubSeq(t, 1, Len(s))
<1>2. SubSeq(s, 1, Len(s)) = s
  BY SubSeqFull
<1>3. Len(s) <= Len(t) => /\ p \in Seq(S) /\ Len(p) = Len(s)
                          /\ \A i \in 1 .. Len(s) : p[i] = t[i]
  <2> SUFFICES ASSUME Len(s) <= Len(t)
               PROVE  /\ p \in Seq(S) /\ Len(p) = Len(s)
                      /\ \A i \in 1 .. Len(s) : p[i] = t[i]
    OBVIOUS
  <2>1. \A i \in 1 .. Len(s) : t[i] \in S
    BY <1>1
  <2> QED BY <1>1, <2>1, SubSeqProperties
<1> HIDE DEF p
<1>4. IsPrefix(s, t) <=> Len(s) <= Len(t) /\ s = p
  BY <1>2 DEF IsPrefix, p
<1>5. ASSUME Len(s) <= Len(t), \A i \in 1 .. Len(s) : s[i] = t[i] PROVE s = p
  <2>1. p \in Seq(S) /\ Len(s) = Len(p) /\ \A i \in 1 .. Len(s) : s[i] = p[i]
    BY <1>3, <1>5
  <2> QED BY <2>1, SeqEqual
<1> QED BY <1>3, <1>4, <1>5


\* Flattening a concatenation.
LEMMA FlattenConcat ==
  ASSUME NEW S, NEW s \in Seq(Seq(S)), NEW u \in Seq(Seq(S))
  PROVE  FlattenSeq(s \o u) = FlattenSeq(s) \o FlattenSeq(u)
<1> DEFINE X == Seq(S)
           P(k) == SubSeq(u, 1, k)
           R(k) == FlattenSeq(s \o P(k)) = FlattenSeq(s) \o FlattenSeq(P(k))
           T == {k \in Nat : k <= Len(u) => R(k)}
<1>0. Len(u) \in Nat /\ FlattenSeq(s) \in Seq(S)
  BY LenProperties, FlattenWhole
<1>1. R(0)
  <2>1. P(0) = << >>
    BY SubSeqEmpty
  <2>2. FlattenSeq(P(0)) = << >>
    BY <2>1 DEF FlattenSeq
  <2>3. s \o P(0) = s
    BY <2>1, ConcatEmptySeq
  <2>4. FlattenSeq(s) \o << >> = FlattenSeq(s)
    BY <1>0, ConcatEmptySeq
  <2> QED BY <2>2, <2>3, <2>4
<1>2. ASSUME NEW k \in Nat, k < Len(u), R(k) PROVE R(k + 1)
  <2> DEFINE e == u[k + 1]
             p == P(k)
             q == P(k + 1)
             one == <<e>>
  <2>1. k \in 0 .. Len(u)
    BY <1>0, <1>2
  <2>2. e \in X /\ p \in Seq(X) /\ q = Append(p, e) /\ FlattenSeq(q) = FlattenSeq(p) \o e
    BY <1>2, <2>1, FlattenPrefix
  <2>3. FlattenSeq(s \o p) = FlattenSeq(s) \o FlattenSeq(p)
    BY <1>2
  <2>4. s \in Seq(X)
    OBVIOUS
  <2> HIDE DEF e, p, q, X
  <2>5. s \o p \in Seq(X) /\ one \in Seq(X)
    BY <2>2, <2>4, ConcatProperties
  <2>6. s \o q = Append(s \o p, e)
    <3>1. q = p \o one
      BY <2>2, AppendIsConcat
    <3>2. Append(s \o p, e) = (s \o p) \o one
      BY <2>2, <2>5, AppendIsConcat
    <3> HIDE DEF one
    <3>3. (s \o p) \o one = s \o (p \o one)
      <4>1. Groups(s, p, one)
        BY <2>2, <2>4, <2>5, Grouped
      <4> QED BY <4>1 DEF Groups
    <3> QED BY <3>1, <3>2, <3>3
  <2> DEFINE a == s \o p
  <2>7. a \in Seq(Seq(S)) /\ e \in Seq(S) /\ p \in Seq(Seq(S)) /\ FlattenSeq(a) = FlattenSeq(s) \o FlattenSeq(p)
    BY <2>2, <2>3, <2>5 DEF X
  <2>8. FlattenSeq(s \o q) = FlattenSeq(a) \o e
    <3>1. s \o q = Append(a, e)
      BY <2>6
    <3> HIDE DEF a
    <3> QED BY <2>7, <3>1, FlattenAppend
  <2> HIDE DEF a
  <2> DEFINE fs == FlattenSeq(s)
             fp == FlattenSeq(p)
  <2>9. fs \in Seq(S) /\ fp \in Seq(S)
    BY <1>0, <2>7, FlattenWhole
  <2> HIDE DEF fs, fp
  <2>10. (fs \o fp) \o e = fs \o (fp \o e)
    <3>1. Groups(fs, fp, e)
      BY <2>7, <2>9, Grouped
    <3> QED BY <3>1 DEF Groups
  <2>11. FlattenSeq(s \o q) = fs \o FlattenSeq(q)
    BY <2>2, <2>7, <2>8, <2>10 DEF fs, fp
  <2> QED BY <2>11 DEF q, fs
<1>3. 0 \in T
  BY <1>1
<1> HIDE DEF R
<1>4. ASSUME NEW k \in Nat, k \in T PROVE k + 1 \in T
  <2> SUFFICES ASSUME k + 1 <= Len(u) PROVE R(k + 1)
    OBVIOUS
  <2> QED BY <1>0, <1>2, <1>4
<1> HIDE DEF T
<1>5. Len(u) \in T
  BY <1>0, <1>3, <1>4, SetInduction
<1>6. R(Len(u)) /\ P(Len(u)) = u
  BY <1>0, <1>5, SubSeqFull DEF T
<1> QED BY <1>6 DEF R


(***************************************************************************)
(* Sums of the values of a function.                                       *)
(***************************************************************************)
pick(s) == CHOOSE x \in s : TRUE

\* f gives the sum of fun over each subset of S of at most n elements.
Sums(f, fun, S, n) ==
  \A s \in SUBSET S : Cardinality(s) <= n =>
    f[s] = IF s = {} THEN 0 ELSE fun[pick(s)] + f[s \ {pick(s)}]

\* Removing an element that was picked.
LEMMA PickLess ==
  ASSUME NEW S, IsFiniteSet(S), NEW s \in SUBSET S
  PROVE  /\ IsFiniteSet(s) /\ Cardinality(s) \in Nat /\ (s = {} <=> Cardinality(s) = 0)
         /\ \A x \in s : /\ s \ {x} \in SUBSET S /\ IsFiniteSet(s \ {x})
                         /\ Cardinality(s \ {x}) = Cardinality(s) - 1
         /\ s # {} => pick(s) \in s
<1>1. IsFiniteSet(s)
  BY FS_Subset
<1>2. Cardinality(s) \in Nat /\ (s = {} <=> Cardinality(s) = 0)
  BY <1>1, FS_CardinalityType, FS_EmptySet
<1>3. ASSUME NEW x \in s
      PROVE  /\ s \ {x} \in SUBSET S /\ IsFiniteSet(s \ {x})
             /\ Cardinality(s \ {x}) = Cardinality(s) - 1
  BY <1>1, FS_RemoveElement
<1>4. s # {} => pick(s) \in s
  BY DEF pick
<1> QED BY <1>1, <1>2, <1>3, <1>4

LEMMA SumsExist ==
  ASSUME NEW fun, NEW S, IsFiniteSet(S), NEW n \in Nat
  PROVE  \E f : f = [s \in SUBSET S |-> f[s]] /\ Sums(f, fun, S, n)
<1> DEFINE R(m) == \E f : f = [s \in SUBSET S |-> f[s]] /\ Sums(f, fun, S, m)
           T == {m \in Nat : R(m)}
<1>1. R(0)
  <2> DEFINE f == [s \in SUBSET S |-> 0]
  <2>1. ASSUME NEW s \in SUBSET S, Cardinality(s) <= 0 PROVE s = {}
    BY <2>1, PickLess
  <2>2. \A s \in SUBSET S : f[s] = 0
    OBVIOUS
  <2>3. f = [s \in SUBSET S |-> f[s]]
    OBVIOUS
  <2> HIDE DEF f
  <2>4. Sums(f, fun, S, 0)
    BY <2>1, <2>2 DEF Sums
  <2> QED BY <2>3, <2>4
<1>2. ASSUME NEW m \in Nat, R(m) PROVE R(m + 1)
  <2>1. PICK f : f = [s \in SUBSET S |-> f[s]] /\ Sums(f, fun, S, m)
    BY <1>2
  <2> DEFINE g == [s \in SUBSET S |-> IF Cardinality(s) <= m THEN f[s]
                                      ELSE fun[pick(s)] + f[s \ {pick(s)}]]
  <2>2. g = [s \in SUBSET S |-> g[s]]
    OBVIOUS
  <2>3. ASSUME NEW s \in SUBSET S, Cardinality(s) <= m + 1
        PROVE  g[s] = IF s = {} THEN 0 ELSE fun[pick(s)] + g[s \ {pick(s)}]
    <3>1. CASE s = {}
      <4>1. Cardinality(s) <= m
        BY <3>1, PickLess
      <4>2. g[s] = f[s] /\ f[s] = 0
        BY <2>1, <3>1, <4>1 DEF Sums
      <4> QED BY <3>1, <4>2
    <3>2. CASE s # {}
      <4> DEFINE r == s \ {pick(s)}
      <4>1. r \in SUBSET S /\ Cardinality(r) <= m
        BY <2>3, <3>2, PickLess
      <4>2. g[r] = f[r]
        BY <4>1
      <4>3. g[s] = fun[pick(s)] + f[r]
        <5>1. CASE Cardinality(s) <= m
          <6>1. f[s] = fun[pick(s)] + f[r]
            BY <2>1, <3>2, <5>1 DEF Sums
          <6> QED BY <5>1, <6>1
        <5>2. CASE ~(Cardinality(s) <= m)
          BY <5>2
        <5> QED BY <5>1, <5>2
      <4> QED BY <3>2, <4>2, <4>3
    <3> QED BY <3>1, <3>2
  <2> HIDE DEF g
  <2>4. Sums(g, fun, S, m + 1)
    BY <2>3 DEF Sums
  <2> QED BY <2>2, <2>4
<1> HIDE DEF R
<1>3. 0 \in T
  BY <1>1
<1>4. \A m \in Nat : m \in T => m + 1 \in T
  BY <1>2
<1> HIDE DEF T
<1>5. n \in T
  BY <1>3, <1>4, SetInduction
<1>6. R(n)
  BY <1>5 DEF T
<1> QED BY <1>6 DEF R

\* SumFunctionOnSet() is such a function, at the whole set.
LEMMA SumIs ==
  ASSUME NEW fun, NEW S, IsFiniteSet(S)
  PROVE  \E f : /\ Sums(f, fun, S, Cardinality(S))
                /\ SumFunctionOnSet(fun, S) = f[S]
<1> DEFINE n == Cardinality(S)
           W(f) == f = [s \in SUBSET S |->
                          IF s = {} THEN 0
                          ELSE LET x == CHOOSE x \in s : TRUE IN fun[x] + f[s \ {x}]]
           g == CHOOSE f : W(f)
<1>1. n \in Nat
  BY FS_CardinalityType
<1>2. PICK f : f = [s \in SUBSET S |-> f[s]] /\ Sums(f, fun, S, n)
  BY <1>1, SumsExist
<1>3. \A s \in SUBSET S : f[s] = IF s = {} THEN 0 ELSE fun[pick(s)] + f[s \ {pick(s)}]
  <2>1. \A s \in SUBSET S : Cardinality(s) <= n
    BY FS_Subset
  <2> QED BY <1>2, <2>1 DEF Sums
<1>4. W(f)
  <2>1. [s \in SUBSET S |-> f[s]]
          = [s \in SUBSET S |-> IF s = {} THEN 0 ELSE fun[pick(s)] + f[s \ {pick(s)}]]
    BY <1>3, Zenon
  <2> QED BY <1>2, <2>1, Zenon DEF pick
<1>5. W(g)
  <2> HIDE DEF W
  <2> QED BY <1>4
<1>6. SumFunctionOnSet(fun, S) = g[S]
  BY DEF SumFunctionOnSet, FoldFunctionOnSet, MapThenFoldSet
<1> HIDE DEF g
<1>7. Sums(g, fun, S, n)
  <2>1. \A s \in SUBSET S : g[s] = IF s = {} THEN 0 ELSE fun[pick(s)] + g[s \ {pick(s)}]
    BY <1>5 DEF pick
  <2> QED BY <2>1 DEF Sums
<1> QED BY <1>6, <1>7

\* A sum only depends on the values that are added.
AllSums(f, fun, S) == IsFiniteSet(S) /\ Sums(f, fun, S, Cardinality(S))

LEMMA SumsSame ==
  ASSUME NEW fun, NEW gun, NEW S, NEW T, NEW f, NEW g,
         AllSums(f, fun, S), AllSums(g, gun, T),
         NEW U, U \subseteq S, U \subseteq T, \A x \in U : fun[x] = gun[x]
  PROVE  f[U] = g[U]
<1> USE DEF AllSums
<1> DEFINE R(m) == \A s \in SUBSET U : Cardinality(s) <= m => f[s] = g[s]
           N == {m \in Nat : R(m)}
<1>1. ASSUME NEW s \in SUBSET U
      PROVE  /\ s \in SUBSET S /\ s \in SUBSET T
             /\ Cardinality(s) \in Nat /\ Cardinality(s) <= Cardinality(S) /\ Cardinality(s) <= Cardinality(T)
             /\ s = {} <=> Cardinality(s) = 0
             /\ \A x \in s : Cardinality(s \ {x}) = Cardinality(s) - 1
             /\ s # {} => pick(s) \in s
  <2>1. s \in SUBSET S /\ s \in SUBSET T
    OBVIOUS
  <2>2. Cardinality(s) <= Cardinality(S) /\ Cardinality(s) <= Cardinality(T)
    BY <2>1, FS_Subset
  <2> QED BY <2>1, <2>2, PickLess
<1>2. \A s \in SUBSET U : /\ f[s] = IF s = {} THEN 0 ELSE fun[pick(s)] + f[s \ {pick(s)}]
                          /\ g[s] = IF s = {} THEN 0 ELSE gun[pick(s)] + g[s \ {pick(s)}]
  BY <1>1 DEF Sums
<1>3. R(0)
  <2> SUFFICES ASSUME NEW s \in SUBSET U, Cardinality(s) <= 0 PROVE f[s] = g[s]
    OBVIOUS
  <2>1. s = {}
    BY <1>1
  <2> QED BY <1>2, <2>1
<1>4. ASSUME NEW m \in Nat, R(m) PROVE R(m + 1)
  <2> SUFFICES ASSUME NEW s \in SUBSET U, Cardinality(s) <= m + 1 PROVE f[s] = g[s]
    OBVIOUS
  <2>1. CASE s = {}
    BY <1>2, <2>1
  <2>2. CASE s # {}
    <3> DEFINE x == pick(s)
    <3>1. x \in s /\ Cardinality(s) \in Nat /\ Cardinality(s \ {x}) = Cardinality(s) - 1
      BY <1>1, <2>2
    <3>2. s \ {x} \in SUBSET U /\ Cardinality(s \ {x}) <= m
      BY <3>1
    <3>3. f[s \ {x}] = g[s \ {x}]
      BY <1>4, <3>2
    <3>4. fun[x] = gun[x]
      BY <3>1
    <3> QED BY <1>2, <2>2, <3>3, <3>4
  <2> QED BY <2>1, <2>2
<1> HIDE DEF R
<1>5. 0 \in N
  BY <1>3
<1>6. \A m \in Nat : m \in N => m + 1 \in N
  BY <1>4
<1> HIDE DEF N
<1>7. Cardinality(U) \in Nat
  BY <1>1
<1>8. Cardinality(U) \in N
  BY <1>5, <1>6, <1>7, SetInduction
<1>9. R(Cardinality(U))
  BY <1>8 DEF N
<1> QED BY <1>7, <1>9 DEF R

LEMMA SumSame ==
  ASSUME NEW fun, NEW gun, NEW S, IsFiniteSet(S), \A x \in S : fun[x] = gun[x]
  PROVE  SumFunctionOnSet(fun, S) = SumFunctionOnSet(gun, S)
<1>1. PICK f : Sums(f, fun, S, Cardinality(S)) /\ SumFunctionOnSet(fun, S) = f[S]
  BY SumIs
<1>2. PICK g : Sums(g, gun, S, Cardinality(S)) /\ SumFunctionOnSet(gun, S) = g[S]
  BY SumIs
<1> DEFINE T == S
           U == S
<1>3. /\ AllSums(f, fun, S) /\ AllSums(g, gun, T)
      /\ U \subseteq S /\ U \subseteq T /\ \A x \in U : fun[x] = gun[x]
  BY <1>1, <1>2 DEF AllSums
<1> HIDE DEF T, U
<1>4. f[U] = g[U]
  BY <1>3, SumsSame
<1> QED BY <1>1, <1>2, <1>4 DEF U

\* The sum of no value.
LEMMA SumNone ==
  ASSUME NEW fun
  PROVE  SumFunctionOnSet(fun, {}) = 0
<1>1. IsFiniteSet({}) /\ Cardinality({}) = 0
  BY FS_EmptySet
<1>2. PICK f : Sums(f, fun, {}, Cardinality({})) /\ SumFunctionOnSet(fun, {}) = f[{}]
  BY <1>1, SumIs
<1>3. {} \in SUBSET {} /\ Cardinality({}) <= Cardinality({})
  BY <1>1
<1>4. f[{}] = 0
  BY <1>2, <1>3 DEF Sums
<1> QED BY <1>2, <1>4

\* The sum of some values: one of them, and the sum of the others.
LEMMA SumPick ==
  ASSUME NEW fun, NEW S, IsFiniteSet(S), S # {}
  PROVE  SumFunctionOnSet(fun, S) = fun[pick(S)] + SumFunctionOnSet(fun, S \ {pick(S)})
<1> DEFINE x == pick(S)
           U == S \ {x}
<1>1. S \in SUBSET S /\ U \in SUBSET S /\ U \in SUBSET U /\ IsFiniteSet(U) /\ Cardinality(S) \in Nat
  BY FS_RemoveElement, FS_CardinalityType
<1>2. PICK f : Sums(f, fun, S, Cardinality(S)) /\ SumFunctionOnSet(fun, S) = f[S]
  BY SumIs
<1> HIDE DEF U
<1>3. PICK g : Sums(g, fun, U, Cardinality(U)) /\ SumFunctionOnSet(fun, U) = g[U]
  BY <1>1, SumIs
<1>4. f[U] = g[U]
  <2>1. AllSums(f, fun, S) /\ AllSums(g, fun, U) /\ U \subseteq S /\ U \subseteq U
    BY <1>1, <1>2, <1>3 DEF AllSums
  <2> QED BY <2>1, SumsSame
<1>5. f[S] = fun[x] + f[U]
  BY <1>1, <1>2 DEF Sums, U
<1> QED BY <1>2, <1>3, <1>4, <1>5 DEF U

\* The values are numbers, and so is their sum; any of them may be taken first.
LEMMA SumOfNats ==
  ASSUME NEW fun, NEW S, IsFiniteSet(S), \A x \in S : fun[x] \in Nat
  PROVE  /\ SumFunctionOnSet(fun, S) \in Nat
         /\ \A y \in S : SumFunctionOnSet(fun, S) = fun[y] + SumFunctionOnSet(fun, S \ {y})
<1> DEFINE F(s) == SumFunctionOnSet(fun, s)
           R(m) == \A s \in SUBSET S : Cardinality(s) <= m =>
                     F(s) \in Nat /\ \A y \in s : F(s) = fun[y] + F(s \ {y})
           N == {m \in Nat : R(m)}
<1>1. ASSUME NEW s \in SUBSET S
      PROVE  /\ Cardinality(s) \in Nat /\ (s = {} <=> Cardinality(s) = 0)
             /\ \A x \in s : s \ {x} \in SUBSET S /\ Cardinality(s \ {x}) = Cardinality(s) - 1
             /\ s # {} => pick(s) \in s /\ F(s) = fun[pick(s)] + F(s \ {pick(s)})
  <2>1. IsFiniteSet(s)
    BY FS_Subset
  <2>2. s # {} => F(s) = fun[pick(s)] + F(s \ {pick(s)})
    BY <2>1, SumPick
  <2> QED BY <2>2, PickLess
<1>2. F({}) = 0
  BY SumNone
<1>c. ASSUME NEW s \in SUBSET S PROVE Cardinality(s) \in Nat /\ (s = {} <=> Cardinality(s) = 0)
  BY <1>1
<1> HIDE DEF F
<1>3. R(0)
  <2> SUFFICES ASSUME NEW s \in SUBSET S, Cardinality(s) <= 0
               PROVE  F(s) \in Nat /\ \A y \in s : F(s) = fun[y] + F(s \ {y})
    OBVIOUS
  <2>1. s = {}
    BY <1>c
  <2> QED BY <1>2, <2>1
<1>4. ASSUME NEW m \in Nat, R(m) PROVE R(m + 1)
  <2> SUFFICES ASSUME NEW s \in SUBSET S, Cardinality(s) <= m + 1
               PROVE  F(s) \in Nat /\ \A y \in s : F(s) = fun[y] + F(s \ {y})
    OBVIOUS
  <2>1. CASE s = {}
    BY <1>2, <2>1
  <2>2. CASE s # {}
    <3> DEFINE x == pick(s)
    <3>1. x \in s /\ fun[x] \in Nat /\ F(s) = fun[x] + F(s \ {x})
      BY <1>1, <2>2
    <3> HIDE DEF x
    <3>2. ASSUME NEW y \in s PROVE s \ {y} \in SUBSET S /\ Cardinality(s \ {y}) <= m
      <4>1. Cardinality(s) \in Nat
        BY <1>c
      <4>2. s \ {y} \in SUBSET S /\ Cardinality(s \ {y}) = Cardinality(s) - 1
        BY <1>1
      <4> QED BY <2>2, <4>1, <4>2
    <3>3. F(s \ {x}) \in Nat
      BY <1>4, <3>1, <3>2
    <3>4. ASSUME NEW y \in s PROVE F(s) = fun[y] + F(s \ {y})
      <4>1. CASE y = x
        BY <3>1, <4>1
      <4>2. CASE y # x
        <5> DEFINE r == (s \ {x}) \ {y}
        <5>1. y \in s \ {x} /\ x \in s \ {y} /\ r = (s \ {y}) \ {x}
          BY <3>1, <4>2
        <5>2. F(s \ {x}) = fun[y] + F(r)
          BY <1>4, <3>1, <3>2, <5>1
        <5>3. F(s \ {y}) = fun[x] + F((s \ {y}) \ {x})
          BY <1>4, <3>2, <5>1
        <5>4. F(s \ {y}) = fun[x] + F(r)
          BY <5>1, <5>3
        <5>5. F(r) \in Nat /\ fun[y] \in Nat
          <6>1. r \in SUBSET S /\ Cardinality(r) <= m
            <7>1. s \ {x} \in SUBSET S /\ Cardinality(s \ {x}) <= m /\ Cardinality(s \ {x}) \in Nat
              BY <1>1, <3>1, <3>2
            <7>2. r \in SUBSET S /\ Cardinality(r) = Cardinality(s \ {x}) - 1
              BY <1>1, <5>1, <7>1
            <7> QED BY <7>1, <7>2
          <6> QED BY <1>4, <6>1
        <5> HIDE DEF r
        <5> QED BY <3>1, <5>2, <5>4, <5>5
      <4> QED BY <4>1, <4>2
    <3> QED BY <3>1, <3>3, <3>4
  <2> QED BY <2>1, <2>2
<1> HIDE DEF R
<1>5. 0 \in N
  BY <1>3
<1>6. \A m \in Nat : m \in N => m + 1 \in N
  BY <1>4
<1> HIDE DEF N
<1>7. Cardinality(S) \in Nat /\ S \in SUBSET S
  BY FS_CardinalityType
<1>8. Cardinality(S) \in N
  BY <1>5, <1>6, <1>7, SetInduction
<1>9. R(Cardinality(S))
  BY <1>8 DEF N
<1> QED BY <1>7, <1>9 DEF R, F

\* One more value.
LEMMA SumMore ==
  ASSUME NEW fun, NEW S, IsFiniteSet(S), NEW y, y \notin S, \A x \in S \cup {y} : fun[x] \in Nat
  PROVE  SumFunctionOnSet(fun, S \cup {y}) = SumFunctionOnSet(fun, S) + fun[y]
<1> DEFINE T == S \cup {y}
<1>1. IsFiniteSet(T) /\ y \in T /\ T \ {y} = S /\ \A x \in T : fun[x] \in Nat
  BY FS_AddElement
<1> HIDE DEF T
<1>2. SumFunctionOnSet(fun, T) = fun[y] + SumFunctionOnSet(fun, T \ {y})
  BY <1>1, SumOfNats
<1>3. SumFunctionOnSet(fun, S) \in Nat
  BY <1>1, SumOfNats
<1>4. SumFunctionOnSet(fun, T) = fun[y] + SumFunctionOnSet(fun, S) /\ fun[y] \in Nat
  BY <1>1, <1>2, Zenon
<1>5. SumFunctionOnSet(fun, T) = SumFunctionOnSet(fun, S) + fun[y]
  BY <1>3, <1>4
<1> QED BY <1>5 DEF T
=============================================================================
