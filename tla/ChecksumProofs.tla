---------------------------- MODULE ChecksumProofs ----------------------------
(***************************************************************************)
(* A translated datagram still verifies, for any size of a word, any       *)
(* addresses, any data and any number of translations.                     *)
(*                                                                         *)
(* Ones'-complement arithmetic is arithmetic modulo M - 1 with two zeros.  *)
(* fold keeps a sum modulo M - 1 and is zero only of zero (FoldFolds), so  *)
(* a sum verifies exactly if it is a multiple of M - 1 and not zero        *)
(* (VerifiesIff).  A checksum that is computed anew makes it one           *)
(* (Completes), and taking words out and putting others in keeps it one    *)
(* (Adjusts).                                                              *)
(*                                                                         *)
(* Facts about the recursive functions fold and WordSum are proved by the  *)
(* least counterexample: a set of naturals that is not empty has a least   *)
(* element.                                                                *)
(***************************************************************************)
EXTENDS Checksum, WellFoundedInduction, TLAPS

\* a is a multiple of M - 1.
Multiple(a) == \E k \in Int : a = k * (M - 1)

\* r is a word congruent to s modulo M - 1, and 0 only for 0.
Folded(s, r) == r \in Words /\ Multiple(s - r) /\ (r = 0 <=> s = 0)

\* One round of the loop in sum and adjustChecksum.
Shorter(s) == (s % M) + (s \div M)

-----------------------------------------------------------------------------
\* Arithmetic.

\* The naturals are well ordered.
LEMMA LeastElement ==
  ASSUME NEW T \in SUBSET Nat, T # {}
  PROVE  \E x \in T : \A y \in T : x <= y
<1> DEFINE R == OpToRel(<, Nat)
<1>1. IsWellFoundedOn(R, Nat)
  BY NatLessThanWellFounded
<1>2. \A x, y \in Nat : x < y => <<x, y>> \in R
  BY DEF OpToRel
<1> HIDE DEF R
<1>3. PICK x \in T : \A y \in T : ~(<<y, x>> \in R)
  BY <1>1, WFMin
<1>4. ASSUME NEW y \in T PROVE x <= y
  <2>1. ~(y < x)
    BY <1>2, <1>3, Zenon
  <2> QED BY <2>1
<1> QED BY <1>4

\* A word has more than two values.
LEMMA MType == M \in Nat /\ M > 2
BY BaseAssumption DEF M

\* What s & 0xffff and s >> 16 are.
LEMMA Divide ==
  ASSUME NEW s \in Nat, s >= M
  PROVE  /\ s % M \in Nat /\ s % M < M /\ s \div M \in Nat
         /\ s = M * (s \div M) + (s % M)
         /\ s \div M >= 1
BY MType

\* Multiples of M - 1 are closed under addition and subtraction.
LEMMA MultipleSum ==
  ASSUME NEW a \in Int, NEW b \in Int, Multiple(a), Multiple(b)
  PROVE  Multiple(a + b) /\ Multiple(a - b)
<1> DEFINE m == M - 1
<1>1. m \in Int
  BY MType
<1>2. PICK k \in Int : a = k * m
  BY DEF Multiple
<1>3. PICK l \in Int : b = l * m
  BY DEF Multiple
<1>4. k + l \in Int /\ k - l \in Int
  BY <1>2, <1>3
<1> HIDE DEF m
<1>5. a + b = (k + l) * m /\ a - b = (k - l) * m
  BY <1>1, <1>2, <1>3
<1> QED BY <1>4, <1>5 DEF Multiple, m

\* No other multiple of M - 1 is near 0.
LEMMA MultipleSmall ==
  ASSUME NEW a \in Int, Multiple(a), -(M - 1) < a, a < M - 1
  PROVE  a = 0
<1> DEFINE m == M - 1
<1>1. m \in Int /\ m > 1
  BY MType
<1>2. PICK k \in Int : a = k * m
  BY DEF Multiple
<1> HIDE DEF m
<1>3. k >= 1 => k * m >= m
  BY <1>1
<1>4. k <= -1 => k * m <= -m
  BY <1>1
<1> QED BY <1>1, <1>2, <1>3, <1>4 DEF m

-----------------------------------------------------------------------------
\* What fold computes.

\* A sum folds to one word only.
LEMMA FoldedUnique ==
  ASSUME NEW s \in Nat, NEW r, NEW t, Folded(s, r), Folded(s, t)
  PROVE  r = t
<1>1. r \in Int /\ t \in Int /\ s - r \in Int /\ s - t \in Int /\ M \in Int
  BY MType DEF Folded, Words
<1>2. Multiple((s - r) - (s - t))
  BY <1>1, MultipleSum DEF Folded
<1>3. (s - r) - (s - t) = t - r
  BY <1>1
<1>4. -(M - 1) <= t - r /\ t - r <= M - 1
  BY MType DEF Folded, Words
<1>5. CASE -(M - 1) < t - r /\ t - r < M - 1
  <2>1. Multiple(t - r) /\ t - r \in Int
    BY <1>1, <1>2, <1>3
  <2>2. t - r = 0
    BY <1>5, <2>1, MultipleSmall
  <2> QED BY <1>1, <2>2
<1>6. CASE t - r = M - 1 \/ t - r = -(M - 1)
  BY <1>1, <1>6, MType DEF Folded, Words
<1> QED BY <1>1, <1>4, <1>5, <1>6

\* A round of the loop makes s smaller by a multiple of M - 1, and never zero.
LEMMA ShorterFolds ==
  ASSUME NEW s \in Nat, s >= M
  PROVE  /\ Shorter(s) \in Nat /\ Shorter(s) < s /\ Shorter(s) > 0
         /\ Multiple(s - Shorter(s))
<1> DEFINE q == s \div M
           r == s % M
<1>1. r \in Nat /\ r < M /\ q \in Nat /\ s = M * q + r /\ q >= 1
  BY Divide
<1>2. Shorter(s) = r + q
  BY DEF Shorter
<1> HIDE DEF q, r
<1>3. M * q - q = q * (M - 1) /\ M * q > q
  BY <1>1, MType
<1>4. s - Shorter(s) = q * (M - 1)
  BY <1>1, <1>2, <1>3, MType
<1> QED BY <1>1, <1>2, <1>3, <1>4, MType DEF Multiple

\* So it does not change what s folds to.
LEMMA FoldedShorter ==
  ASSUME NEW s \in Nat, s >= M, NEW r
  PROVE  Folded(s, r) <=> Folded(Shorter(s), r)
<1> DEFINE t == Shorter(s)
<1>1. t \in Nat /\ t < s /\ t > 0 /\ Multiple(s - t) /\ s # 0 /\ t # 0
  BY ShorterFolds, MType
<1> HIDE DEF t
<1>2. ASSUME r \in Words PROVE Multiple(s - r) <=> Multiple(t - r)
  <2>1. r \in Int
    BY <1>2, MType DEF Words
  <2>2. s - r = (t - r) + (s - t) /\ t - r = (s - r) - (s - t)
    BY <1>1, <2>1
  <2>3. s - r \in Int /\ t - r \in Int /\ s - t \in Int
    BY <1>1, <2>1
  <2> QED BY <1>1, <2>2, <2>3, MultipleSum
<1> QED BY <1>1, <1>2 DEF Folded, t

\* Every sum folds to some word.
LEMMA FoldedExists ==
  ASSUME NEW s \in Nat
  PROVE  \E r \in Words : Folded(s, r)
<1> DEFINE m == M - 1
           q == s \div m
           r == s % m
<1>1. m \in Nat /\ m > 1
  BY MType
<1>2. r \in Nat /\ r < m /\ q \in Nat /\ s = q * m + r
  <2> HIDE DEF m
  <2> QED BY <1>1
<1> HIDE DEF q, r
<1>3. CASE s = 0
  <2>1. 0 - 0 = 0 * (M - 1) /\ 0 \in Words
    BY MType DEF Words
  <2> QED BY <1>3, <2>1 DEF Folded, Multiple
<1>4. CASE s # 0 /\ r # 0
  <2>1. s - r = q * (M - 1) /\ r \in Words
    BY <1>1, <1>2, MType DEF Words
  <2> QED BY <1>2, <1>4, <2>1 DEF Folded, Multiple
<1>5. CASE s # 0 /\ r = 0
  <2> DEFINE p == q - 1
  <2>1. s - m = p * m
    BY <1>1, <1>2, <1>5
  <2>2. m \in Words /\ m # 0 /\ p \in Int
    BY <1>1, <1>2, MType DEF Words
  <2> HIDE DEF p
  <2> QED BY <1>5, <2>1, <2>2 DEF Folded, Multiple
<1> QED BY <1>3, <1>4, <1>5

\* fold is the function its recursive equation describes: there is one.
LEMMA FoldEquation ==
  fold = [s \in Nat |-> IF s < M THEN s ELSE fold[Shorter(s)]]
<1> DEFINE Def(f) == [s \in Nat |-> IF s < M THEN s ELSE f[(s % M) + (s \div M)]]
           g == [s \in Nat |-> CHOOSE r \in Words : Folded(s, r)]
<1>1. \A s \in Nat : g[s] \in Words /\ Folded(s, g[s])
  BY FoldedExists
<1>2. ASSUME NEW s \in Nat, s < M PROVE g[s] = s
  <2>1. s - s = 0 * (M - 1) /\ s \in Words
    BY <1>2, MType DEF Words
  <2>2. Folded(s, s)
    BY <2>1 DEF Folded, Multiple
  <2> HIDE DEF g
  <2> QED BY <1>1, <2>2, FoldedUnique
<1>3. ASSUME NEW s \in Nat, s >= M PROVE g[s] = g[Shorter(s)]
  <2>1. Shorter(s) \in Nat
    BY <1>3, ShorterFolds
  <2> HIDE DEF g
  <2>2. Folded(s, g[Shorter(s)])
    BY <1>1, <1>3, <2>1, FoldedShorter
  <2> QED BY <1>1, <2>2, FoldedUnique
<1>4. g = Def(g)
  <2>1. ASSUME NEW s \in Nat PROVE g[s] = IF s < M THEN s ELSE g[Shorter(s)]
    <3>1. CASE s < M
      BY <1>2, <3>1
    <3>2. CASE ~(s < M)
      <4>1. s >= M
        BY <3>2, MType
      <4>2. g[s] = g[Shorter(s)]
        BY <1>3, <4>1
      <4> HIDE DEF g
      <4> QED BY <3>2, <4>2
    <3> QED BY <3>1, <3>2
  <2>2. g = [s \in Nat |-> g[s]]
    OBVIOUS
  <2> HIDE DEF g
  <2> QED BY <2>1, <2>2 DEF Shorter
<1>5. fold = CHOOSE f : f = Def(f)
  BY DEF fold
<1> HIDE DEF Def, g
<1>6. fold = Def(fold)
  BY <1>4, <1>5
<1> QED BY <1>6 DEF Def, Shorter

\* For every sum the loop ends with a word congruent to it, zero only for zero.
LEMMA FoldFolds == \A s \in Nat : Folded(s, fold[s])
<1> DEFINE T == {s \in Nat : ~Folded(s, fold[s])}
<1> SUFFICES ASSUME T # {} PROVE FALSE
  OBVIOUS
<1>1. PICK s \in T : \A t \in T : s <= t
  BY LeastElement
<1>2. s \in Nat /\ ~Folded(s, fold[s])
  OBVIOUS
<1>3. fold[s] = IF s < M THEN s ELSE fold[Shorter(s)]
  BY <1>2, FoldEquation
<1>4. CASE s < M
  <2>1. s - s = 0 * (M - 1) /\ s \in Words /\ fold[s] = s
    BY <1>2, <1>3, <1>4, MType DEF Words
  <2> QED BY <1>2, <2>1 DEF Folded, Multiple
<1>5. CASE s >= M
  <2>1. Shorter(s) \in Nat /\ Shorter(s) < s
    BY <1>2, <1>5, ShorterFolds
  <2>2. Shorter(s) \notin T
    BY <1>1, <1>2, <2>1
  <2>3. Folded(Shorter(s), fold[Shorter(s)])
    BY <2>1, <2>2
  <2>4. fold[s] = fold[Shorter(s)]
    BY <1>2, <1>3, <1>5, MType
  <2> QED BY <1>2, <1>5, <2>3, <2>4, FoldedShorter
<1> QED BY <1>2, <1>4, <1>5, MType

-----------------------------------------------------------------------------
\* What WordSum computes is a natural number.

\* What the i-th byte of p adds.
Weighed(p, i) == IF i % 2 = 1 THEN p[i] * Base ELSE p[i]

\* f sums the first n bytes of p.
Sums(p, f, n) ==
  f = [i \in 0 .. n |-> IF i = 0 THEN 0 ELSE f[i - 1] + Weighed(p, i)]

\* A byte adds a natural number.
LEMMA WeighedType ==
  ASSUME NEW p \in Seq(Bytes), NEW i \in 1 .. Len(p)
  PROVE  Weighed(p, i) \in Nat
<1>1. p[i] \in Nat /\ Base \in Nat
  BY BaseAssumption DEF Bytes
<1>2. p[i] * Base \in Nat
  BY <1>1
<1> QED BY <1>1, <1>2 DEF Weighed

\* Partial sums of any length exist.
LEMMA SumsExist ==
  ASSUME NEW p \in Seq(Bytes), NEW n \in 0 .. Len(p)
  PROVE  \E f : Sums(p, f, n)
<1> DEFINE T == {k \in 0 .. Len(p) : ~\E f : Sums(p, f, k)}
<1> SUFFICES ASSUME T # {} PROVE FALSE
  OBVIOUS
<1>1. T \in SUBSET Nat /\ Len(p) \in Nat
  OBVIOUS
<1>2. PICK k \in T : \A j \in T : k <= j
  BY <1>1, LeastElement
<1>3. k \in Nat /\ k <= Len(p) /\ ~\E f : Sums(p, f, k)
  BY <1>1
<1>4. CASE k = 0
  <2> DEFINE f == [i \in 0 .. 0 |-> 0]
  <2>1. Sums(p, f, 0)
    BY DEF Sums
  <2> QED BY <1>3, <1>4, <2>1
<1>5. CASE k > 0
  <2>1. k - 1 \in 0 .. Len(p) /\ ~(k <= k - 1)
    BY <1>1, <1>3, <1>5
  <2>2. k - 1 \notin T
    BY <1>2, <2>1
  <2>3. PICK f : Sums(p, f, k - 1)
    BY <2>1, <2>2
  <2> DEFINE w == Weighed(p, k)
             g == [i \in 0 .. k |-> IF i = k THEN f[k - 1] + w ELSE f[i]]
  <2> HIDE DEF w
  <2>4. \A i \in 0 .. k - 1 : f[i] = IF i = 0 THEN 0 ELSE f[i - 1] + Weighed(p, i)
    BY <2>3 DEF Sums
  <2>5. ASSUME NEW i \in 0 .. k
        PROVE  g[i] = IF i = 0 THEN 0 ELSE g[i - 1] + Weighed(p, i)
    <3>1. CASE i = k
      BY <1>3, <1>5, <3>1 DEF w
    <3>2. CASE i # k
      <4>1. i \in 0 .. k - 1 /\ g[i] = f[i]
        BY <1>3, <3>2
      <4>2. i # 0 => g[i - 1] = f[i - 1]
        BY <1>3, <4>1
      <4> HIDE DEF g
      <4> QED BY <2>4, <4>1, <4>2
    <3> QED BY <3>1, <3>2
  <2>6. g = [i \in 0 .. k |-> g[i]]
    OBVIOUS
  <2> HIDE DEF g
  <2>7. Sums(p, g, k)
    BY <2>5, <2>6 DEF Sums
  <2> QED BY <1>3, <2>7
<1> QED BY <1>3, <1>4, <1>5

\* The loop of sum adds up to a natural number, and nothing to 0.
LEMMA WordSumType ==
  ASSUME NEW p \in Seq(Bytes)
  PROVE  WordSum(p) \in Nat /\ (p = <<>> => WordSum(p) = 0)
<1> DEFINE n == Len(p)
           f == CHOOSE f : f = [i \in 0 .. n |->
                  IF i = 0 THEN 0
                  ELSE f[i - 1] + (IF i % 2 = 1 THEN p[i] * Base ELSE p[i])]
<1>1. n \in Nat /\ n \in 0 .. Len(p)
  OBVIOUS
<1>2. WordSum(p) = f[n]
  BY DEF WordSum
<1>3. f = CHOOSE g : Sums(p, g, n)
  BY DEF Sums, Weighed
<1> HIDE DEF f
<1>4. Sums(p, f, n)
  BY <1>1, <1>3, SumsExist
<1>5. \A i \in 0 .. n : f[i] = IF i = 0 THEN 0 ELSE f[i - 1] + Weighed(p, i)
  BY <1>4 DEF Sums
<1> DEFINE T == {i \in 0 .. n : f[i] \notin Nat}
<1>6. ASSUME T # {} PROVE FALSE
  <2>1. T \in SUBSET Nat
    BY <1>1
  <2>2. PICK i \in T : \A j \in T : i <= j
    BY <1>6, <2>1, LeastElement
  <2>3. i \in Nat /\ i <= n /\ f[i] \notin Nat /\ f[i] = IF i = 0 THEN 0 ELSE f[i - 1] + Weighed(p, i)
    BY <1>1, <1>5
  <2>4. i > 0
    BY <2>3
  <2>5. i - 1 \in 0 .. n /\ ~(i <= i - 1) /\ i \in 1 .. Len(p)
    BY <1>1, <2>3, <2>4
  <2>6. f[i - 1] \in Nat
    BY <2>2, <2>5
  <2>7. Weighed(p, i) \in Nat
    BY <2>5, WeighedType
  <2> QED BY <2>3, <2>4, <2>6, <2>7
<1>7. p = <<>> => f[n] = 0
  BY <1>1, <1>5
<1> QED BY <1>1, <1>2, <1>6, <1>7

-----------------------------------------------------------------------------
\* Checksums.

\* A receiver accepts a sum exactly if it is a multiple of M - 1 other than 0.
LEMMA VerifiesIff ==
  ASSUME NEW t \in Nat
  PROVE  fold[t] = M - 1 <=> Multiple(t) /\ t # 0
<1> DEFINE m == M - 1
<1>1. m \in Nat /\ m \in Words /\ m # 0 /\ m = 1 * (M - 1)
  BY MType DEF Words
<1>2. Multiple(m) /\ m \in Int /\ t - m \in Int
  BY <1>1 DEF Multiple
<1>3. t = (t - m) + m
  BY <1>1
<1> HIDE DEF m
<1>4. Multiple(t) <=> Multiple(t - m)
  <2>1. Multiple(t) => Multiple(t - m)
    BY <1>2, MultipleSum
  <2>2. Multiple(t - m) => Multiple((t - m) + m)
    BY <1>2, MultipleSum
  <2> QED BY <1>3, <2>1, <2>2
<1>5. Folded(t, m) <=> Multiple(t) /\ t # 0
  BY <1>1, <1>4 DEF Folded
<1>6. Folded(t, fold[t])
  BY FoldFolds
<1>7. fold[t] = m <=> Folded(t, m)
  BY <1>6, FoldedUnique
<1> QED BY <1>5, <1>7 DEF m

\* fold and Complement give words.
LEMMA WordTypes ==
  /\ \A s \in Nat : fold[s] \in Words
  /\ \A w \in Words : Complement(w) \in Words
  /\ Words \subseteq Nat
BY FoldFolds, MType DEF Folded, Words, Complement

\* The checksum of a sum completes it.
LEMMA Completes ==
  ASSUME NEW s \in Nat
  PROVE  LET c == Complement(fold[s]) IN Multiple(s + c) /\ s + c # 0
<1> DEFINE f == fold[s]
           m == M - 1
<1>1. f \in Words /\ Multiple(s - f) /\ (f = 0 <=> s = 0)
  BY FoldFolds DEF Folded
<1>2. f \in Nat /\ f <= m /\ m \in Nat /\ m > 1 /\ Complement(fold[s]) = m - f
  BY <1>1, MType DEF Words, Complement
<1>3. Multiple(m)
  <2>1. m = 1 * (M - 1)
    BY MType
  <2> QED BY <2>1 DEF Multiple
<1> HIDE DEF f, m
<1>4. s + (m - f) = (s - f) + m /\ s - f \in Int
  BY <1>2
<1>5. Multiple(s + (m - f))
  BY <1>1, <1>2, <1>3, <1>4, MultipleSum
<1>6. s + (m - f) # 0
  BY <1>1, <1>2
<1> QED BY <1>2, <1>5, <1>6 DEF f

\* Adjusting a checksum for new addresses keeps the sum a multiple, for any rest.
LEMMA Adjusts ==
  ASSUME NEW ck \in Words, NEW a \in Words, NEW b \in Words,
         NEW x \in Words, NEW y \in Words, NEW rest \in Nat,
         Multiple(a + b + rest + ck)
  PROVE  LET c == adjustChecksum(ck, <<a, b>>, <<x, y>>)
         IN  c \in Words /\ Multiple(x + y + rest + c)
<1> DEFINE m == M - 1
           s1 == (m - ck) + (m - a) + x
           f1 == fold[s1]
           s2 == f1 + (m - b) + y
           f2 == fold[s2]
<1>1. /\ m \in Nat /\ {ck, a, b, x, y} \subseteq Nat
      /\ ck <= m /\ a <= m /\ b <= m
  BY MType DEF Words
<1>2. s1 \in Nat
  <2> HIDE DEF m
  <2> QED BY <1>1
<1>3. f1 \in Words /\ f1 \in Nat /\ Multiple(s1 - f1)
  <2> HIDE DEF s1, m
  <2> QED BY <1>2, FoldFolds, WordTypes DEF Folded
<1>4. s2 \in Nat
  <2> HIDE DEF m, f1
  <2> QED BY <1>1, <1>3
<1>5. f2 \in Words /\ f2 \in Nat /\ Multiple(s2 - f2) /\ m - f2 \in Words
  <2> HIDE DEF s2
  <2> QED BY <1>4, FoldFolds, MType DEF Folded, Words
<1>6. adjustChecksum(ck, <<a, b>>, <<x, y>>) = m - f2
  BY DEF adjustChecksum, Complement
<1>7. Multiple(m)
  <2>1. m = 1 * (M - 1)
    BY MType
  <2> QED BY <2>1 DEF Multiple
<1> DEFINE u == a + b + rest + ck
           v == s1 - f1
           w == s2 - f2
           z == x + y + rest + (m - f2)
<1>8. z = (((u + v) + w) - m) - m
  <2> HIDE DEF m, f1, f2
  <2> QED BY <1>1, <1>3, <1>5
<1>9. u \in Int /\ v \in Int /\ w \in Int /\ m \in Int
  <2> HIDE DEF m, f1, f2
  <2> QED BY <1>1, <1>2, <1>3, <1>4, <1>5
<1>10. Multiple(u) /\ Multiple(v) /\ Multiple(w)
  BY <1>3, <1>5
<1>11. Multiple(z)
  <2> HIDE DEF m, u, v, w, z
  <2>1. Multiple(u + v) /\ u + v \in Int
    BY <1>9, <1>10, MultipleSum
  <2>2. Multiple((u + v) + w) /\ (u + v) + w \in Int
    BY <1>9, <1>10, <2>1, MultipleSum
  <2>3. Multiple(((u + v) + w) - m) /\ ((u + v) + w) - m \in Int
    BY <1>7, <1>9, <2>2, MultipleSum
  <2> QED BY <1>7, <1>8, <1>9, <2>3, MultipleSum
<1> QED BY <1>5, <1>6, <1>11

\* An adjusted checksum is a word, whatever was adjusted.
LEMMA AdjustedType ==
  ASSUME NEW ck \in Words, NEW a \in Words, NEW b \in Words,
         NEW x \in Words, NEW y \in Words
  PROVE  adjustChecksum(ck, <<a, b>>, <<x, y>>) \in Words
<1> DEFINE m == M - 1
           f1 == fold[(m - ck) + (m - a) + x]
           f2 == fold[f1 + (m - b) + y]
<1>1. /\ m \in Nat /\ {ck, a, b, x, y} \subseteq Nat
      /\ ck <= m /\ a <= m /\ b <= m
  BY MType DEF Words
<1>2. (m - ck) + (m - a) + x \in Nat
  <2> HIDE DEF m
  <2> QED BY <1>1
<1>3. f1 \in Nat
  <2> HIDE DEF m
  <2> QED BY <1>2, FoldFolds, WordTypes DEF Folded
<1>4. f1 + (m - b) + y \in Nat
  <2> HIDE DEF m, f1
  <2> QED BY <1>1, <1>3
<1>5. f2 \in Words
  <2> HIDE DEF m, f1
  <2> QED BY <1>4, FoldFolds DEF Folded
<1>6. m - f2 \in Words
  <2> HIDE DEF f2
  <2> QED BY <1>5, MType DEF Words
<1> QED BY <1>6 DEF adjustChecksum, Complement

-----------------------------------------------------------------------------
\* The datagram.

\* What the checksum of a TCP or UDP datagram covers besides itself.
Covered(x) == Pseudo(x, x.src, x.dst) + WordSum(x.data)

\* TCP and UDP verify or have no checksum, unless their missing one was adjusted;
\* only UDP can be without.
TransportInv ==
  /\ d.bare => d.proto = "udp"
  /\ d.proto \in {"tcp", "udp"} =>
       \/ d.bare /\ (d.mf \/ d.ck = 0)
       \/ Multiple(Covered(d) + d.ck)
  /\ d.proto = "icmp" => Multiple(WordSum(d.data) + d.ck) /\ WordSum(d.data) + d.ck # 0
  /\ d.proto = "udp" /\ ~d.mf /\ ~d.bare => d.ck # 0

ChecksumInv == TypeOK /\ HeaderVerifies(d) /\ TransportInv

\* What is covered is a positive number, whichever addresses it is for.
LEMMA CoveredType ==
  ASSUME NEW x, x.proto \in DOMAIN Number, x.data \in Seq(Bytes),
         NEW src \in Words, NEW dst \in Words
  PROVE  /\ Pseudo(x, src, dst) \in Nat /\ Pseudo(x, src, dst) > 0
         /\ Number[x.proto] + Len(x.data) \in Nat
         /\ Pseudo(x, src, dst) = src + dst + (Number[x.proto] + Len(x.data))
<1>1. Number[x.proto] \in Nat /\ Number[x.proto] > 0
  BY DEF Number
<1>2. Len(x.data) \in Nat /\ src \in Nat /\ dst \in Nat
  BY WordTypes
<1> QED BY <1>1, <1>2 DEF Pseudo

\* A header checksum computed anew verifies.
LEMMA HeaderComputed ==
  ASSUME NEW src \in Words, NEW dst \in Words, NEW flags \in {0, 1}
  PROVE  LET c == sum(src + dst + flags, <<>>)
         IN  c \in Words /\ fold[src + dst + flags + c] = M - 1
<1> DEFINE s == src + dst + flags
           c == Complement(fold[s])
<1>1. s \in Nat
  BY WordTypes
<1>2. <<>> \in Seq(Bytes)
  OBVIOUS
<1>3. WordSum(<<>>) = 0
  BY <1>2, WordSumType
<1>4. sum(s, <<>>) = c
  <2>1. s + 0 = s
    BY <1>1
  <2> QED BY <1>3, <2>1 DEF sum
<1> HIDE DEF s
<1>5. c \in Words /\ c \in Nat
  BY <1>1, WordTypes
<1>6. Multiple(s + c) /\ s + c # 0 /\ s + c \in Nat
  BY <1>1, <1>5, Completes
<1>7. fold[s + c] = M - 1
  BY <1>6, VerifiesIff
<1> QED BY <1>4, <1>5, <1>7 DEF s

\* A transport checksum computed anew completes what it covers.
LEMMA TransportComputed ==
  ASSUME NEW x, x.proto \in DOMAIN Number, x.data \in Seq(Bytes),
         NEW src \in Words, NEW dst \in Words
  PROVE  /\ Computed(x, src, dst) \in Words
         /\ Multiple(Pseudo(x, src, dst) + WordSum(x.data) + Computed(x, src, dst))
         /\ x.proto = "udp" => Computed(x, src, dst) # 0
<1> DEFINE s == Pseudo(x, src, dst) + WordSum(x.data)
           c == Complement(fold[s])
           m == M - 1
<1>1. s \in Nat
  BY CoveredType, WordSumType
<1>2. sum(Pseudo(x, src, dst), x.data) = c
  BY DEF sum
<1>3. m \in Words /\ m # 0 /\ m = 1 * (M - 1)
  BY MType DEF Words
<1>4. Computed(x, src, dst) = IF x.proto = "udp" /\ c = 0 THEN m ELSE c
  BY <1>2 DEF Computed
<1> HIDE DEF s
<1>5. c \in Words /\ Multiple(s + c)
  BY <1>1, WordTypes, Completes
<1> HIDE DEF c
<1>6. c = 0 => Multiple(s + m)
  <2>1. m \in Int
    BY MType
  <2>2. Multiple(m)
    BY <1>3 DEF Multiple
  <2>3. ASSUME c = 0 PROVE Multiple(s)
    <3>1. s + c = s
      BY <1>1, <2>3
    <3> QED BY <1>5, <3>1
  <2> HIDE DEF m
  <2> QED BY <1>1, <2>1, <2>2, <2>3, MultipleSum
<1> HIDE DEF m
<1> QED BY <1>3, <1>4, <1>5, <1>6 DEF s

\* An ICMP checksum computed anew completes the message.
LEMMA MessageComputed ==
  ASSUME NEW p \in Seq(Bytes)
  PROVE  LET c == sum(0, p)
         IN  c \in Words /\ Multiple(WordSum(p) + c) /\ WordSum(p) + c # 0
<1> DEFINE s == WordSum(p)
<1>1. s \in Nat /\ 0 + s = s
  BY WordSumType
<1>2. sum(0, p) = Complement(fold[s])
  BY <1>1 DEF sum
<1> HIDE DEF s
<1>3. Complement(fold[s]) \in Words
  BY <1>1, WordTypes
<1> QED BY <1>1, <1>2, <1>3, Completes DEF s

\* A sender's datagram satisfies the invariant.
LEMMA InitialChecksum == Init => ChecksumInv
<1> SUFFICES ASSUME Init PROVE ChecksumInv
  OBVIOUS
<1>1. PICK proto \in DOMAIN Number, mf \in BOOLEAN, len \in {"short", "part", "full"},
           src \in Addrs, dst \in Addrs, k \in 0 .. MaxData, bare \in BOOLEAN :
        \E data \in [1 .. k -> Bytes], ck \in Words :
          /\ d = [proto |-> proto, mf |-> mf, len |-> len, src |-> src, dst |-> dst,
                  flags |-> IF mf THEN 1 ELSE 0, data |-> data, ck |-> ck, bare |-> bare,
                  ipck |-> sum(src + dst + (IF mf THEN 1 ELSE 0), <<>>)]
          /\ bare => proto = "udp" /\ ck = 0
          /\ ~bare => ck = IF proto \in {"tcp", "udp"} THEN Computed(d, src, dst)
                           ELSE sum(0, data)
  BY DEF Init
<1>2. PICK data \in [1 .. k -> Bytes], ck \in Words :
          /\ d = [proto |-> proto, mf |-> mf, len |-> len, src |-> src, dst |-> dst,
                  flags |-> IF mf THEN 1 ELSE 0, data |-> data, ck |-> ck, bare |-> bare,
                  ipck |-> sum(src + dst + (IF mf THEN 1 ELSE 0), <<>>)]
          /\ bare => proto = "udp" /\ ck = 0
          /\ ~bare => ck = IF proto \in {"tcp", "udp"} THEN Computed(d, src, dst)
                           ELSE sum(0, data)
  BY <1>1
<1>3. data \in Seq(Bytes) /\ src \in Words /\ dst \in Words
  <2>1. k \in Nat
    BY MaxDataAssumption
  <2> QED BY <2>1, BaseAssumption
<1> DEFINE flags == IF mf THEN 1 ELSE 0
<1>4. flags \in {0, 1} /\ d.flags = flags /\ d.ipck = sum(src + dst + flags, <<>>)
  BY <1>2
<1> HIDE DEF flags
<1>5. /\ d.proto = proto /\ d.mf = mf /\ d.len = len /\ d.src = src /\ d.dst = dst
      /\ d.data = data /\ d.ck = ck /\ d.bare = bare
      /\ d = [proto |-> d.proto, mf |-> d.mf, len |-> d.len, src |-> d.src, dst |-> d.dst,
              flags |-> d.flags, data |-> d.data, ck |-> d.ck, bare |-> d.bare,
              ipck |-> d.ipck]
  BY <1>2
<1>6. d.ipck \in Words /\ HeaderVerifies(d)
  BY <1>3, <1>4, <1>5, HeaderComputed DEF HeaderVerifies
<1>7. TypeOK
  BY <1>3, <1>4, <1>5, <1>6 DEF Init, TypeOK
<1>8. TransportInv
  <2>1. bare => proto = "udp" /\ d.ck = 0
    BY <1>2, <1>5
  <2>2. CASE ~bare /\ proto \in {"tcp", "udp"}
    <3>1. d.ck = Computed(d, src, dst)
      BY <1>2, <1>5, <2>2
    <3> QED BY <1>3, <1>5, <2>2, <3>1, TransportComputed DEF TransportInv, Covered
  <2>3. CASE ~bare /\ proto \notin {"tcp", "udp"}
    <3>1. d.ck = sum(0, data)
      BY <1>2, <1>5, <2>3
    <3> QED BY <1>3, <1>5, <2>3, <3>1, MessageComputed DEF TransportInv
  <2>4. CASE bare
    BY <1>5, <2>1, <2>4 DEF TransportInv
  <2> QED BY <2>2, <2>3, <2>4
<1> QED BY <1>6, <1>7, <1>8 DEF ChecksumInv

\* A translation keeps the invariant.
LEMMA TranslateStep ==
  ASSUME ChecksumInv, Translate
  PROVE  ChecksumInv'
<1>1. PICK src \in Addrs, dst \in Addrs : d' = rewrite(d, src, dst)
  BY DEF Translate
<1>2. src \in Words /\ dst \in Words /\ outcome' = outcome
  BY BaseAssumption DEF Translate
<1>3. /\ d.proto \in DOMAIN Number /\ d.mf \in BOOLEAN /\ d.bare \in BOOLEAN
      /\ d.src \in Words /\ d.dst \in Words /\ d.ck \in Words
      /\ d.flags \in {0, 1} /\ d.data \in Seq(Bytes)
  BY DEF ChecksumInv, TypeOK
<1> DEFINE ck == Transport(d, src, dst)
           ipck == sum(src + dst + d.flags, <<>>)
<1>4. /\ d'.proto = d.proto /\ d'.mf = d.mf /\ d'.bare = d.bare
      /\ d'.src = src /\ d'.dst = dst /\ d'.flags = d.flags /\ d'.data = d.data
      /\ d'.ck = ck /\ d'.ipck = ipck
  <2> HIDE DEF ck, ipck
  <2>1. d' = [d EXCEPT !.src = src, !.dst = dst, !.ipck = ipck, !.ck = ck]
    BY <1>1 DEF rewrite, ck, ipck
  <2> QED BY <2>1 DEF ChecksumInv, TypeOK
<1>5. ipck \in Words /\ HeaderVerifies(d)'
  <2>1. ipck \in Words /\ fold[src + dst + d.flags + ipck] = M - 1
    BY <1>2, <1>3, HeaderComputed
  <2> HIDE DEF ck, ipck
  <2> QED BY <1>4, <2>1 DEF HeaderVerifies
<1> DEFINE W == WordSum(d.data)
           N == Number[d.proto] + Len(d.data)
<1>6. W \in Nat /\ N \in Nat /\ N + W \in Nat
  <2>1. W \in Nat
    BY <1>3, WordSumType
  <2>2. N \in Nat
    BY <1>2, <1>3, CoveredType
  <2> HIDE DEF W, N
  <2> QED BY <2>1, <2>2
<1>7. /\ Covered(d) = d.src + d.dst + (N + W)
      /\ Covered(d)' = src + dst + (N + W)
      /\ Covered(d)' = Pseudo(d, src, dst) + W
      /\ WordSum(d.data)' = W
  <2>1. /\ Pseudo(d, src, dst) = src + dst + N
        /\ Pseudo(d, d.src, d.dst) = d.src + d.dst + N
    BY <1>2, <1>3, CoveredType
  <2>2. Pseudo(d, d.src, d.dst)' = Pseudo(d, src, dst) /\ WordSum(d.data)' = W
    BY <1>4 DEF Pseudo
  <2>3. d.src \in Nat /\ d.dst \in Nat /\ src \in Nat /\ dst \in Nat
    BY <1>2, <1>3, WordTypes
  <2> HIDE DEF W, N
  <2> QED BY <1>6, <2>1, <2>2, <2>3 DEF Covered, W
<1> HIDE DEF W, N, ipck
<1>8. ck \in Words /\ TransportInv'
  <2>1. CASE d.proto \in {"tcp", "udp"} /\ d.mf
    <3>1. ck = adjustChecksum(d.ck, <<d.src, d.dst>>, <<src, dst>>)
      BY <2>1 DEF Transport
    <3>2. d.proto # "icmp"
      BY <2>1
    <3> HIDE DEF ck
    <3>3. CASE d.bare
      <4>1. ck \in Words
        BY <1>2, <1>3, <3>1, AdjustedType
      <4> QED BY <1>4, <2>1, <3>2, <3>3, <4>1 DEF TransportInv, ChecksumInv
    <3>4. CASE ~d.bare
      <4>1. Multiple(d.src + d.dst + (N + W) + d.ck)
        BY <1>7, <2>1, <3>4 DEF ChecksumInv, TransportInv
      <4>2. ck \in Words /\ Multiple(src + dst + (N + W) + ck)
        BY <1>2, <1>3, <1>6, <3>1, <4>1, Adjusts
      <4>3. Multiple(Covered(d)' + ck)
        BY <1>7, <4>2
      <4> QED BY <1>4, <2>1, <3>2, <3>4, <4>2, <4>3 DEF TransportInv
    <3> QED BY <3>3, <3>4
  <2>2. CASE d.proto \in {"tcp", "udp"} /\ ~d.mf
    <3>1. ck = Computed(d, src, dst)
      BY <2>2 DEF Transport
    <3> HIDE DEF ck
    <3>2. /\ ck \in Words
          /\ Multiple(Pseudo(d, src, dst) + W + ck)
          /\ d.proto = "udp" => ck # 0
      BY <1>2, <1>3, <3>1, TransportComputed DEF W
    <3>3. Multiple(Covered(d)' + ck)
      BY <1>7, <3>2
    <3> QED BY <1>4, <2>2, <3>2, <3>3 DEF TransportInv, ChecksumInv
  <2>3. CASE d.proto = "icmp"
    <3>1. ck = IF d.mf THEN d.ck ELSE sum(0, d.data)
      BY <1>3, <2>3 DEF Transport
    <3> HIDE DEF ck
    <3>2. ck \in Words /\ Multiple(W + ck) /\ W + ck # 0
      BY <1>3, <2>3, <3>1, MessageComputed DEF W, ChecksumInv, TransportInv
    <3> QED BY <1>4, <1>7, <2>3, <3>2 DEF TransportInv, ChecksumInv
  <2>4. CASE d.proto \notin {"tcp", "udp", "icmp"}
    <3>1. ck = d.ck
      BY <2>4 DEF Transport
    <3> HIDE DEF ck
    <3> QED BY <1>3, <1>4, <2>4, <3>1 DEF TransportInv, ChecksumInv
  <2> QED BY <2>1, <2>2, <2>3, <2>4
<1>9. TypeOK'
  <2> HIDE DEF ck
  <2>1. d' = [d EXCEPT !.src = src, !.dst = dst, !.ipck = ipck, !.ck = ck]
    BY <1>1 DEF rewrite, ck, ipck
  <2> QED BY <1>2, <1>5, <1>8, <2>1 DEF TypeOK, ChecksumInv
<1> QED BY <1>5, <1>8, <1>9 DEF ChecksumInv

\* The invariant is an invariant.
THEOREM ChecksumSafe == Spec => []ChecksumInv
<1>1. ChecksumInv /\ [Next]_vars => ChecksumInv'
  <2> SUFFICES ASSUME ChecksumInv, [Next]_vars PROVE ChecksumInv'
    OBVIOUS
  <2>1. CASE Translate
    BY <2>1, TranslateStep
  <2>2. CASE TranslateFails \/ TranslatePanics \/ UNCHANGED vars
    <3>1. d' = d /\ outcome' \in {outcome, "dropped", "panic"}
      BY <2>2 DEF TranslateFails, TranslatePanics, vars
    <3>2. TypeOK' /\ HeaderVerifies(d)'
      BY <3>1 DEF ChecksumInv, TypeOK, HeaderVerifies
    <3>3. TransportInv'
      BY <3>1 DEF ChecksumInv, TransportInv, Covered, Pseudo
    <3> QED BY <3>2, <3>3 DEF ChecksumInv
  <2> QED BY <2>1, <2>2 DEF Next
<1> QED BY <1>1, InitialChecksum, PTL DEF Spec

\* Every field of the datagram has its type; in particular a checksum is a word.
THEOREM ChecksumTypes == Spec => []TypeOK
<1>1. ChecksumInv => TypeOK
  BY DEF ChecksumInv
<1> QED BY <1>1, ChecksumSafe, PTL

\* StaysVerified: for any word size, addresses, data and number of translations, the
\* receiver accepts the header and the datagram that rewrite leaves.
THEOREM AlwaysVerified == Spec => []StaysVerified
<1>1. ASSUME ChecksumInv PROVE StaysVerified
  <2>1. /\ d.proto \in DOMAIN Number /\ d.data \in Seq(Bytes) /\ d.ck \in Words
        /\ d.src \in Words /\ d.dst \in Words
    BY <1>1 DEF ChecksumInv, TypeOK
  <2> DEFINE W == WordSum(d.data)
             P == Pseudo(d, d.src, d.dst)
  <2>2. W \in Nat /\ P \in Nat /\ P > 0 /\ d.ck \in Nat
    BY <2>1, WordSumType, CoveredType, WordTypes
  <2>3. Complement(M - 1) = 0
    BY MType DEF Complement
  <2> HIDE DEF W, P
  <2>4. ASSUME Multiple(Covered(d) + d.ck) PROVE sum(P + d.ck, d.data) = 0
    <3>1. Covered(d) + d.ck = (P + d.ck) + W /\ (P + d.ck) + W \in Nat /\ (P + d.ck) + W # 0
      BY <2>2 DEF Covered, P, W
    <3>2. fold[(P + d.ck) + W] = M - 1
      BY <2>4, <3>1, VerifiesIff
    <3> QED BY <2>3, <3>2 DEF sum, W
  <2>5. ASSUME Multiple(W + d.ck), W + d.ck # 0 PROVE sum(d.ck, d.data) = 0
    <3>1. W + d.ck = d.ck + W /\ W + d.ck \in Nat
      BY <2>2
    <3>2. fold[d.ck + W] = M - 1
      BY <2>5, <3>1, VerifiesIff
    <3> QED BY <2>3, <3>2 DEF sum, W
  <2>6. ASSUME ~(d.bare /\ d.mf) PROVE Verifies(d)
    <3>1. CASE d.proto \in {"tcp", "udp"}
      <4>1. (d.proto = "udp" /\ d.ck = 0) \/ Multiple(Covered(d) + d.ck)
        BY <1>1, <2>6, <3>1 DEF ChecksumInv, TransportInv
      <4> QED BY <2>4, <3>1, <4>1 DEF Verifies, P
    <3>2. CASE d.proto = "icmp"
      BY <1>1, <2>5, <3>2 DEF ChecksumInv, TransportInv, Verifies, W
    <3>3. CASE d.proto \notin {"tcp", "udp", "icmp"}
      BY <3>3 DEF Verifies
    <3> QED BY <3>1, <3>2, <3>3
  <2> QED BY <1>1, <2>6 DEF StaysVerified, ChecksumInv, TransportInv
<1> QED BY <1>1, ChecksumSafe, PTL
===============================================================================
