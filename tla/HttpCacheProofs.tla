---------------------------- MODULE HttpCacheProofs ----------------------------
(***************************************************************************)
(* Proofs about MemoryCache and HttpCache for every set of requests and    *)
(* responses, every budget and every length of the list.  The sections     *)
(* before the last three are about the operators: running sums, places     *)
(* and keys of a list, and what put, a hit and the evictions do.           *)
(***************************************************************************)
EXTENDS HttpCache, SequenceTheorems, FiniteSetTheorems, WellFoundedInduction, TLAPS

-----------------------------------------------------------------------------
(* Induction and recursion over the numbers.                               *)

LEMMA SetInduction ==
  ASSUME NEW S \in SUBSET Nat, 0 \in S, \A n \in S : n + 1 \in S
  PROVE  S = Nat
<1> DEFINE T == Nat \ S
<1> DEFINE R == {p \in Nat \X Nat : p[1] < p[2]}
<1> SUFFICES ASSUME T # {} PROVE FALSE
  BY Zenon
<1>1. IsWellFoundedOn(R, Nat)
  BY NatLessThanWellFounded DEF OpToRel
<1>2. PICK x \in T : \A y \in T : ~(<<y, x>> \in R)
  <2> HIDE DEF T, R
  <2>1. T \subseteq Nat
    BY DEF T
  <2> QED
    BY <1>1, <2>1, WFMin, Zenon
<1>3. x - 1 \in T
  OBVIOUS
<1>4. <<x - 1, x>> \in R
  OBVIOUS
<1> QED
  BY <1>2, <1>3, <1>4

\* A start and a step function for each number.
Steps(N, V, x, F) == N \in Nat /\ x \in V /\ F \in [1..N -> [V -> V]]

\* g takes the first n of those steps.
Solves(n, V, x, F, g) ==
  g \in [0..n -> V] /\ g[0] = x /\ \A i \in 1..n : g[i] = F[i][g[i - 1]]

\* The recursion with those steps has a solution.
LEMMA Recursion ==
  ASSUME NEW N, NEW V, NEW x, NEW F, Steps(N, V, x, F)
  PROVE  \E g : Solves(N, V, x, F, g)
<1> USE DEF Steps
<1> DEFINE S == {m \in Nat : m <= N => \E g : Solves(m, V, x, F, g)}
<1>1. 0 \in S
  <2>1. Solves(0, V, x, F, [n \in 0..0 |-> x])
    BY DEF Solves
  <2> QED
    BY <2>1
<1>2. ASSUME NEW m \in S PROVE m + 1 \in S
  <2> SUFFICES ASSUME m + 1 <= N PROVE \E g : Solves(m + 1, V, x, F, g)
    OBVIOUS
  <2>1. m \in Nat /\ m + 1 \in 1..N
    OBVIOUS
  <2>2. PICK g : Solves(m, V, x, F, g)
    BY <2>1
  <2> DEFINE h == [n \in 0..(m + 1) |-> IF n = m + 1 THEN F[m + 1][g[m]] ELSE g[n]]
  <2>3. Solves(m + 1, V, x, F, h)
    BY <2>1, <2>2 DEF Solves
  <2> QED
    BY <2>3, Zenon
<1>3. N \in S
  <2> HIDE DEF S
  <2>1. S \in SUBSET Nat
    BY DEF S
  <2> QED
    BY <1>1, <1>2, <2>1, SetInduction, Zenon
<1> QED
  BY <1>3

-----------------------------------------------------------------------------
(* Running sums.                                                           *)

\* s sums up the first N values of w.
Runs(N, w, s) ==
  /\ N \in Nat /\ w \in [1..N -> Int] /\ s \in [0..N -> Int]
  /\ s[0] = 0
  /\ \A n \in 1..N : s[n] = s[n - 1] + w[n]

LEMMA RunsStep ==
  ASSUME NEW N, NEW w, NEW s, Runs(N, w, s), NEW n \in 1..N
  PROVE  s[n] = s[n - 1] + w[n] /\ s[n] \in Int /\ s[n - 1] \in Int /\ w[n] \in Int
BY DEF Runs

LEMMA RunsExist ==
  ASSUME NEW N \in Nat, NEW w \in [1..N -> Int]
  PROVE  \E s : Runs(N, w, s)
<1> DEFINE F == [n \in 1..N |-> [v \in Int |-> v + w[n]]]
<1>1. F \in [1..N -> [Int -> Int]]
  OBVIOUS
<1>2. \A n \in 1..N, v \in Int : F[n][v] = v + w[n]
  OBVIOUS
<1>3. Steps(N, Int, 0, F)
  BY <1>1 DEF Steps
<1> HIDE DEF F
<1>4. PICK s : Solves(N, Int, 0, F, s)
  BY <1>3, Recursion, Zenon
<1>5. \A n \in 1..N : s[n - 1] \in Int
  BY <1>4 DEF Solves
<1>6. \A n \in 1..N : s[n] = s[n - 1] + w[n]
  BY <1>2, <1>4, <1>5, Zenon DEF Solves
<1>7. Runs(N, w, s)
  BY <1>4, <1>6, Zenon DEF Runs, Solves
<1> QED
  BY <1>7, Zenon

\* v is w with one value more in front.
Preceded(N, w, v) ==
  v \in [1..(N + 1) -> Int] /\ \A n \in 2..(N + 1) : v[n] = w[n - 1]

LEMMA RunsFronted ==
  ASSUME NEW N, NEW w, NEW v, NEW s, Runs(N, w, s), Preceded(N, w, v)
  PROVE  \E t : Runs(N + 1, v, t) /\ t[N + 1] = s[N] + v[1]
<1> DEFINE t == [n \in 0..(N + 1) |-> IF n = 0 THEN 0 ELSE s[n - 1] + v[1]]
<1>0. N \in Nat /\ v[1] \in Int /\ s[0] = 0 /\ s \in [0..N -> Int]
  BY DEF Runs, Preceded
<1>1. /\ t \in [0..(N + 1) -> Int] /\ t[0] = 0
      /\ \A n \in 1..(N + 1) : t[n] = s[n - 1] + v[1]
  BY <1>0
<1> HIDE DEF t
<1>2. ASSUME NEW n \in 1..(N + 1) PROVE t[n] = t[n - 1] + v[n]
  <2>1. CASE n = 1
    BY <1>0, <1>1, <2>1
  <2>2. CASE n # 1
    <3>1. n - 1 \in 1..N /\ n - 1 \in 1..(N + 1) /\ n \in 2..(N + 1) /\ n - 1 - 1 \in 0..N
      BY <1>0, <2>2
    <3>2. s[n - 1] = s[n - 1 - 1] + w[n - 1] /\ s[n - 1 - 1] \in Int /\ w[n - 1] \in Int
      BY <3>1, RunsStep
    <3>3. v[n] = w[n - 1] /\ t[n] = s[n - 1] + v[1] /\ t[n - 1] = s[n - 1 - 1] + v[1]
      BY <1>1, <3>1 DEF Preceded
    <3>4. v[1] \in Int
      BY <1>0
    <3> QED
      BY <3>2, <3>3, <3>4
  <2> QED
    BY <2>1, <2>2
<1>3. t[N + 1] = s[N] + v[1]
  BY <1>0, <1>1
<1>4. Runs(N + 1, v, t)
  BY <1>0, <1>1, <1>2 DEF Runs, Preceded
<1> QED
  BY <1>3, <1>4, Zenon

\* v is w with the value at i moved to the front and replaced.
Moved(N, w, i, v) ==
  /\ i \in 1..N /\ v \in [1..N -> Int]
  /\ \A n \in 2..i : v[n] = w[n - 1]
  /\ \A n \in (i + 1)..N : v[n] = w[n]

SumMoved(N, w, i, v, s) == \E t : Runs(N, v, t) /\ t[N] = s[N] - w[i] + v[1]

LEMMA RunsSpliced ==
  ASSUME NEW N, NEW w, NEW i, NEW v, NEW s, Runs(N, w, s), Moved(N, w, i, v)
  PROVE  SumMoved(N, w, i, v, s)
<1> DEFINE x == v[1] - w[i]
<1> DEFINE t == [n \in 0..N |-> IF n = 0 THEN 0
                               ELSE IF n <= i THEN s[n - 1] + v[1]
                               ELSE s[n] + x]
<1>a. N \in Nat /\ i \in 1..N /\ N \in 1..N
  BY DEF Runs, Moved
<1>b. v[1] \in Int /\ w[i] \in Int
  BY DEF Runs, Moved
<1>c. x \in Int /\ v[1] = x + w[i]
  BY <1>b
<1>d. s[0] = 0 /\ \A n \in 0..N : s[n] \in Int
  BY DEF Runs
<1> HIDE DEF x
<1>1. t[0] = 0
  BY <1>a
<1>2. ASSUME NEW n \in 1..i PROVE t[n] = s[n - 1] + v[1] /\ t[n] \in Int
  <2>1. n \in 0..N /\ n # 0 /\ n <= i /\ n - 1 \in 0..N
    BY <1>a
  <2>2. t[n] = s[n - 1] + v[1]
    BY <2>1, Zenon
  <2> QED
    BY <1>b, <1>d, <2>1, <2>2
<1>3. ASSUME NEW n \in (i + 1)..N PROVE t[n] = s[n] + x /\ t[n] \in Int
  <2>1. n \in 0..N /\ n # 0 /\ ~(n <= i)
    BY <1>a
  <2>2. t[n] = s[n] + x
    BY <2>1, Zenon
  <2> QED
    BY <1>c, <1>d, <2>1, <2>2
<1>4. t \in [0..N -> Int]
  <2>1. \A n \in 0..N : n = 0 \/ n \in 1..i \/ n \in (i + 1)..N
    BY <1>a
  <2>2. t = [n \in 0..N |-> t[n]]
    OBVIOUS
  <2> HIDE DEF t
  <2>3. \A n \in 0..N : t[n] \in Int
    BY <1>1, <1>2, <1>3, <2>1
  <2> QED
    BY <2>2, <2>3, Zenon
<1> HIDE DEF t
<1>5. s[i] = s[i - 1] + w[i] /\ s[i] \in Int /\ s[i - 1] \in Int
  BY <1>a, RunsStep
<1>6. t[i] = s[i] + x
  <2>1. t[i] = s[i - 1] + v[1]
    BY <1>a, <1>2
  <2> QED
    BY <1>b, <1>c, <1>5, <2>1
<1>7. ASSUME NEW n \in 1..N PROVE t[n] = t[n - 1] + v[n]
  <2>0. s[n] = s[n - 1] + w[n] /\ s[n - 1] \in Int /\ w[n] \in Int
    BY RunsStep
  <2>1. CASE n = 1
    <3>1. t[1] = s[0] + v[1]
      BY <1>a, <1>2
    <3> QED
      BY <1>1, <1>b, <1>d, <2>1, <3>1
  <2>2. CASE n # 1 /\ n <= i
    <3>1. n - 1 \in 1..N /\ n - 1 \in 1..i /\ n \in 1..i /\ n \in 2..i
      BY <1>a, <2>2
    <3>2. s[n - 1] = s[n - 1 - 1] + w[n - 1] /\ s[n - 1 - 1] \in Int /\ w[n - 1] \in Int
      BY <3>1, RunsStep
    <3>3. t[n] = s[n - 1] + v[1] /\ t[n - 1] = s[n - 1 - 1] + v[1]
      BY <1>2, <3>1, Zenon
    <3>4. v[n] = w[n - 1]
      BY <3>1 DEF Moved
    <3> QED
      BY <1>b, <3>2, <3>3, <3>4
  <2>3. CASE n > i
    <3>1. n \in (i + 1)..N
      BY <1>a, <2>3
    <3>2. v[n] = w[n]
      BY <3>1 DEF Moved
    <3>3. t[n] = s[n] + x
      BY <1>3, <3>1
    <3>4. t[n - 1] = s[n - 1] + x
      <4>1. n - 1 = i \/ n - 1 \in (i + 1)..N
        BY <1>a, <2>3
      <4> QED
        BY <1>3, <1>6, <4>1
    <3> QED
      BY <1>c, <2>0, <3>2, <3>3, <3>4
  <2> QED
    BY <1>a, <2>1, <2>2, <2>3
<1>8. t[N] = s[N] - w[i] + v[1]
  <2>1. N = i \/ N \in (i + 1)..N
    BY <1>a
  <2>2. t[N] = s[N] + x /\ s[N] \in Int
    BY <1>a, <1>d, <1>3, <1>6, <2>1
  <2> QED
    BY <1>b, <1>c, <2>2
<1>9. Runs(N, v, t)
  BY <1>a, <1>1, <1>4, <1>7, Zenon DEF Runs, Moved
<1> QED
  BY <1>8, <1>9, Zenon DEF SumMoved

\* v is w without its last value.
Shortened(N, w, v) ==
  N > 0 /\ v \in [1..(N - 1) -> Int] /\ \A n \in 1..(N - 1) : v[n] = w[n]

LEMMA RunsFront ==
  ASSUME NEW N, NEW w, NEW v, NEW s, Runs(N, w, s), Shortened(N, w, v)
  PROVE  \E t : Runs(N - 1, v, t) /\ t[N - 1] = s[N] - w[N]
<1> DEFINE t == [n \in 0..(N - 1) |-> s[n]]
<1>1. Runs(N - 1, v, t)
  BY DEF Runs, Shortened
<1>2. N \in 1..N /\ t[N - 1] = s[N - 1]
  BY DEF Runs, Shortened
<1>3. t[N - 1] = s[N] - w[N]
  <2> HIDE DEF t
  <2> QED
    BY <1>2, RunsStep
<1> QED
  BY <1>1, <1>3, Zenon

-----------------------------------------------------------------------------
(* Places in a list.                                                       *)

\* m is q with what is at i moved to the front, as e.
Spliced(q, i, e, m) ==
  /\ Len(m) = Len(q)
  /\ m[1] = e
  /\ \A j \in 2..i : m[j] = q[j - 1]
  /\ \A j \in (i + 1)..Len(q) : m[j] = q[j]

\* m is q with e in front of it.
Fronted(q, e, m) ==
  /\ Len(m) = Len(q) + 1
  /\ m[1] = e
  /\ \A j \in 2..(Len(q) + 1) : m[j] = q[j - 1]

LEMMA HeadFacts ==
  ASSUME NEW S, NEW q \in Seq(S), NEW n \in 0..Len(q)
  PROVE  /\ SubSeq(q, 1, n) \in Seq(S) /\ Len(SubSeq(q, 1, n)) = n
         /\ \A j \in 1..n : SubSeq(q, 1, n)[j] = q[j]
<1>1. n \in Nat /\ n <= Len(q) /\ Len(q) \in Nat /\ \A j \in 1..Len(q) : q[j] \in S
  OBVIOUS
<1> QED
  BY <1>1, SubSeqProperties

LEMMA SpliceFacts ==
  ASSUME NEW S, NEW q \in Seq(S), NEW i \in 1..Len(q), NEW e \in S
  PROVE  Splice(q, i, e) \in Seq(S) /\ Spliced(q, i, e, Splice(q, i, e))
<1> DEFINE a == SubSeq(q, 1, i - 1)
<1> DEFINE b == SubSeq(q, i + 1, Len(q))
<1> DEFINE r == a \o b
<1>0. Len(q) \in Nat /\ i \in Nat /\ i <= Len(q) /\ i >= 1 /\ \A j \in 1..Len(q) : q[j] \in S
  OBVIOUS
<1>1. a \in Seq(S) /\ Len(a) = i - 1 /\ \A j \in 1..(i - 1) : a[j] = q[j]
  BY <1>0, SubSeqProperties
<1>2. b \in Seq(S) /\ Len(b) = Len(q) - i /\ \A j \in 1..(Len(q) - i) : b[j] = q[i + j]
  BY <1>0, SubSeqProperties
<1> HIDE DEF a, b
<1>3. /\ r \in Seq(S) /\ Len(r) = Len(q) - 1
      /\ \A j \in 1..(i - 1) : r[j] = q[j]
      /\ \A j \in i..(Len(q) - 1) : r[j] = q[j + 1]
  <2>1. /\ r \in Seq(S) /\ Len(r) = Len(a) + Len(b)
        /\ \A j \in 1..(Len(a) + Len(b)) :
             r[j] = IF j <= Len(a) THEN a[j] ELSE b[j - Len(a)]
    BY <1>1, <1>2, ConcatProperties, Zenon
  <2> HIDE DEF r
  <2>2. ASSUME NEW j \in 1..(i - 1) PROVE r[j] = q[j]
    <3>1. j \in 1..(Len(a) + Len(b)) /\ j <= Len(a)
      BY <1>0, <1>1, <1>2
    <3> QED
      BY <1>1, <2>1, <3>1, Zenon
  <2>3. ASSUME NEW j \in i..(Len(q) - 1) PROVE r[j] = q[j + 1]
    <3>1. /\ j \in 1..(Len(a) + Len(b)) /\ ~(j <= Len(a)) /\ j - Len(a) \in 1..(Len(q) - i)
          /\ i + (j - Len(a)) = j + 1
      BY <1>0, <1>1, <1>2
    <3>2. r[j] = b[j - Len(a)]
      BY <2>1, <3>1, Zenon
    <3> QED
      BY <1>2, <3>1, <3>2, Zenon
  <2>4. Len(r) = Len(q) - 1
    BY <1>0, <1>1, <1>2, <2>1
  <2> QED
    BY <2>1, <2>2, <2>3, <2>4, Zenon
<1>4. Splice(q, i, e) = <<e>> \o r
  BY DEF Splice, a, b
<1> HIDE DEF r
<1>5. <<e>> \in Seq(S) /\ Len(<<e>>) = 1 /\ <<e>>[1] = e
  OBVIOUS
<1>6. /\ <<e>> \o r \in Seq(S) /\ Len(<<e>> \o r) = Len(q)
      /\ (<<e>> \o r)[1] = e /\ \A j \in 2..Len(q) : (<<e>> \o r)[j] = r[j - 1]
  BY <1>0, <1>3, <1>5, ConcatProperties
<1> QED
  BY <1>0, <1>3, <1>4, <1>6 DEF Spliced

LEMMA FrontedFacts ==
  ASSUME NEW S, NEW q \in Seq(S), NEW e \in S
  PROVE  <<e>> \o q \in Seq(S) /\ Fronted(q, e, <<e>> \o q)
<1>1. <<e>> \in Seq(S) /\ Len(<<e>>) = 1 /\ <<e>>[1] = e /\ Len(q) \in Nat
  OBVIOUS
<1> QED
  BY <1>1, ConcatProperties DEF Fronted

Front(q) == SubSeq(q, 1, Len(q) - 1)
Last(q)  == q[Len(q)]

LEMMA FrontFacts ==
  ASSUME NEW S, NEW q \in Seq(S), q # <<>>
  PROVE  /\ Front(q) \in Seq(S) /\ Len(Front(q)) = Len(q) - 1
         /\ \A j \in 1..(Len(q) - 1) : Front(q)[j] = q[j]
         /\ Last(q) = q[Len(q)] /\ Len(q) \in 1..Len(q)
<1>1. Len(q) \in Nat /\ Len(q) \in 1..Len(q) /\ \A j \in 1..Len(q) : q[j] \in S
  OBVIOUS
<1>2. /\ SubSeq(q, 1, Len(q) - 1) \in Seq(S) /\ Len(SubSeq(q, 1, Len(q) - 1)) = Len(q) - 1
      /\ \A j \in 1..(Len(q) - 1) : SubSeq(q, 1, Len(q) - 1)[j] = q[j]
  <2> DEFINE n == Len(q) - 1
  <2>1. n \in 0..Len(q)
    BY <1>1
  <2> HIDE DEF n
  <2>2. /\ SubSeq(q, 1, n) \in Seq(S) /\ Len(SubSeq(q, 1, n)) = n
        /\ \A j \in 1..n : SubSeq(q, 1, n)[j] = q[j]
    BY <2>1, HeadFacts
  <2> QED
    BY <2>2 DEF n
<1> QED
  BY <1>1, <1>2, Zenon DEF Front, Last

-----------------------------------------------------------------------------
(* What the operations on the list do to its weight.                       *)

LEMMA NodeParts ==
  \A x \in Node : /\ x.key \in Key /\ x.value \in Text
                  /\ x.weight \in Nat /\ x.weight \in Int
BY DEF Node

LEMMA ListParts ==
  ASSUME NEW L \in Seq(Node)
  PROVE  /\ Len(L) \in Nat /\ DOMAIN L = 1..Len(L)
         /\ \A n \in 1..Len(L) : L[n] \in Node
OBVIOUS

Weights(L) == [n \in 1..Len(L) |-> L[n].weight]

LEMMA WeightsType ==
  ASSUME NEW L \in Seq(Node)
  PROVE  Weights(L) \in [1..Len(L) -> Int]
BY ListParts, NodeParts DEF Weights

\* total_weight_ is right when it is what a running sum of the list ends with.
LEMMA WeightIs ==
  ASSUME NEW L \in Seq(Node), NEW s, Runs(Len(L), Weights(L), s)
  PROVE  WeightOf(L) = s[Len(L)]
<1> DEFINE N == Len(L)
<1> DEFINE D(g) == [n \in 0..N |-> IF n = 0 THEN 0 ELSE g[n - 1] + L[n].weight]
<1> DEFINE sum == CHOOSE g : g = D(g)
<1>0. N \in Nat
  BY ListParts
<1>1. s = D(s)
  BY <1>0 DEF Runs, Weights
<1>2. sum = D(sum)
  <2> HIDE DEF D
  <2> QED
    BY <1>1, Zenon
<1>3. WeightOf(L) = sum[N]
  BY Zenon DEF WeightOf
<1> HIDE DEF sum
<1>4. sum[0] = 0 /\ \A n \in 0..(N - 1) : sum[n + 1] = sum[n] + L[n + 1].weight
  BY <1>0, <1>2
<1>5. s[0] = 0 /\ \A n \in 0..(N - 1) : s[n + 1] = s[n] + L[n + 1].weight
  BY <1>0 DEF Runs, Weights
<1> DEFINE S == {n \in Nat : n <= N => sum[n] = s[n]}
<1> HIDE DEF N
<1>6. 0 \in S
  BY <1>4, <1>5
<1>7. ASSUME NEW n \in S PROVE n + 1 \in S
  <2> SUFFICES ASSUME n + 1 <= N PROVE sum[n + 1] = s[n + 1]
    OBVIOUS
  <2>1. n \in 0..(N - 1) /\ sum[n] = s[n]
    BY <1>0
  <2> QED
    BY <1>4, <1>5, <2>1, Zenon
<1>8. N \in S
  <2> HIDE DEF S
  <2>1. S \in SUBSET Nat
    BY DEF S
  <2>2. S = Nat
    BY <1>6, <1>7, <2>1, SetInduction, Zenon
  <2> QED
    BY <1>0, <2>2, Zenon
<1> QED
  BY <1>3, <1>8 DEF N

\* Every list has a running sum.
LEMMA WeightRuns ==
  ASSUME NEW L \in Seq(Node)
  PROVE  \E s : Runs(Len(L), Weights(L), s) /\ WeightOf(L) = s[Len(L)]
<1>1. Len(L) \in Nat /\ Weights(L) \in [1..Len(L) -> Int]
  BY ListParts, WeightsType
<1>2. PICK s : Runs(Len(L), Weights(L), s)
  BY <1>1, RunsExist, Zenon
<1> QED
  BY <1>2, WeightIs, Zenon

LEMMA WeightType ==
  ASSUME NEW L \in Seq(Node)
  PROVE  WeightOf(L) \in Int
<1>1. PICK s : Runs(Len(L), Weights(L), s) /\ WeightOf(L) = s[Len(L)]
  BY WeightRuns
<1> QED
  BY <1>1 DEF Runs

LEMMA WeightEmpty == WeightOf(<<>>) = 0
<1>1. <<>> \in Seq(Node) /\ Len(<<>>) = 0
  OBVIOUS
<1>2. PICK s : Runs(0, Weights(<<>>), s) /\ WeightOf(<<>>) = s[0]
  BY <1>1, WeightRuns, Zenon
<1> QED
  BY <1>2 DEF Runs

LEMMA WeightFront ==
  ASSUME NEW L \in Seq(Node), L # <<>>
  PROVE  WeightOf(Front(L)) = WeightOf(L) - Last(L).weight
<1>1. PICK s : Runs(Len(L), Weights(L), s) /\ WeightOf(L) = s[Len(L)]
  BY WeightRuns
<1>2. Front(L) \in Seq(Node) /\ Len(Front(L)) = Len(L) - 1
  BY FrontFacts
<1>3. Shortened(Len(L), Weights(L), Weights(Front(L)))
  <2>1. Len(L) \in Nat /\ Len(L) > 0
    BY ListParts
  <2>2. Weights(Front(L)) \in [1..(Len(L) - 1) -> Int]
    BY <1>2, WeightsType
  <2>3. ASSUME NEW n \in 1..(Len(L) - 1) PROVE Weights(Front(L))[n] = Weights(L)[n]
    BY <1>2, <2>1, FrontFacts DEF Weights
  <2> QED
    BY <2>1, <2>2, <2>3 DEF Shortened
<1>4. PICK t : /\ Runs(Len(L) - 1, Weights(Front(L)), t)
               /\ t[Len(L) - 1] = s[Len(L)] - Weights(L)[Len(L)]
  BY <1>1, <1>3, RunsFront, Zenon
<1>5. WeightOf(Front(L)) = t[Len(L) - 1]
  BY <1>2, <1>4, WeightIs, Zenon
<1>6. Weights(L)[Len(L)] = Last(L).weight
  BY FrontFacts, Zenon DEF Weights
<1> QED
  BY <1>1, <1>4, <1>5, <1>6, Zenon

LEMMA WeightFronted ==
  ASSUME NEW L \in Seq(Node), NEW e \in Node
  PROVE  WeightOf(<<e>> \o L) = WeightOf(L) + e.weight
<1> DEFINE m == <<e>> \o L
<1>1. PICK s : Runs(Len(L), Weights(L), s) /\ WeightOf(L) = s[Len(L)]
  BY WeightRuns
<1>2. m \in Seq(Node) /\ Fronted(L, e, m)
  BY FrontedFacts
<1> HIDE DEF m
<1>3. Len(m) = Len(L) + 1 /\ Len(L) \in Nat
  BY <1>2, ListParts DEF Fronted
<1>4. Preceded(Len(L), Weights(L), Weights(m))
  <2>1. Weights(m) \in [1..(Len(L) + 1) -> Int]
    BY <1>2, <1>3, WeightsType
  <2>2. ASSUME NEW n \in 2..(Len(L) + 1) PROVE Weights(m)[n] = Weights(L)[n - 1]
    BY <1>2, <1>3 DEF Fronted, Weights
  <2> QED
    BY <2>1, <2>2 DEF Preceded
<1>5. PICK t : /\ Runs(Len(L) + 1, Weights(m), t)
               /\ t[Len(L) + 1] = s[Len(L)] + Weights(m)[1]
  BY <1>1, <1>4, RunsFronted, Zenon
<1>6. WeightOf(m) = t[Len(L) + 1]
  BY <1>2, <1>3, <1>5, WeightIs, Zenon
<1>7. Weights(m)[1] = e.weight
  BY <1>2, <1>3 DEF Fronted, Weights
<1> QED
  BY <1>1, <1>5, <1>6, <1>7, Zenon DEF m

LEMMA WeightSplice ==
  ASSUME NEW L \in Seq(Node), NEW i \in 1..Len(L), NEW e \in Node
  PROVE  WeightOf(Splice(L, i, e)) = WeightOf(L) - L[i].weight + e.weight
<1> DEFINE m == Splice(L, i, e)
<1>1. PICK s : Runs(Len(L), Weights(L), s) /\ WeightOf(L) = s[Len(L)]
  BY WeightRuns
<1>2. m \in Seq(Node) /\ Spliced(L, i, e, m)
  BY SpliceFacts
<1> HIDE DEF m
<1>3. Len(m) = Len(L) /\ Len(L) \in Nat /\ i \in 1..Len(L)
  BY <1>2, ListParts DEF Spliced
<1>4. Moved(Len(L), Weights(L), i, Weights(m))
  <2>1. Weights(m) \in [1..Len(L) -> Int]
    BY <1>2, <1>3, WeightsType
  <2>2. ASSUME NEW n \in 2..i PROVE Weights(m)[n] = Weights(L)[n - 1]
    BY <1>2, <1>3 DEF Spliced, Weights
  <2>3. ASSUME NEW n \in (i + 1)..Len(L) PROVE Weights(m)[n] = Weights(L)[n]
    BY <1>2, <1>3 DEF Spliced, Weights
  <2> QED
    BY <1>3, <2>1, <2>2, <2>3 DEF Moved
<1>5. PICK t : /\ Runs(Len(L), Weights(m), t)
               /\ t[Len(L)] = s[Len(L)] - Weights(L)[i] + Weights(m)[1]
  <2> DEFINE w == Weights(L)
  <2> DEFINE v == Weights(m)
  <2> HIDE DEF w, v
  <2>1. Runs(Len(L), w, s) /\ Moved(Len(L), w, i, v)
    BY <1>1, <1>4 DEF w, v
  <2>2. SumMoved(Len(L), w, i, v, s)
    BY <2>1, RunsSpliced, Zenon
  <2> QED
    BY <2>2, Zenon DEF w, v, SumMoved
<1>6. WeightOf(m) = t[Len(L)]
  BY <1>2, <1>3, <1>5, WeightIs, Zenon
<1>7. Weights(m)[1] = e.weight /\ Weights(L)[i] = L[i].weight
  BY <1>2, <1>3 DEF Spliced, Weights
<1> QED
  BY <1>1, <1>5, <1>6, <1>7, Zenon DEF m

-----------------------------------------------------------------------------
(* Keys.                                                                   *)

Injective(q) == \A i, j \in 1..Len(q) : q[i] = q[j] => i = j
Distinct(L)  == \A i, j \in 1..Len(L) : L[i].key = L[j].key => i = j

\* The keys of L are the first of q.
Leads(L, q) == Len(L) <= Len(q) /\ \A i \in 1..Len(L) : L[i].key = q[i]

\* m is L without some of its last nodes.
Trimmed(m, L) == Len(m) <= Len(L) /\ \A i \in 1..Len(m) : m[i] = L[i]

LEMMA KeysAre ==
  ASSUME NEW L \in Seq(Node), NEW k
  PROVE  k \in KeysOf(L) <=> \E i \in 1..Len(L) : L[i].key = k
<1>1. DOMAIN L = 1..Len(L)
  BY ListParts
<1> QED
  BY <1>1, Zenon DEF KeysOf

LEMMA KeysType ==
  ASSUME NEW L \in Seq(Node)
  PROVE  KeysOf(L) \in SUBSET Key
BY KeysAre, ListParts, NodeParts, Zenon

LEMMA PlaceFacts ==
  ASSUME NEW L \in Seq(Node), NEW k, k \in KeysOf(L)
  PROVE  PlaceOf(L, k) \in 1..Len(L) /\ L[PlaceOf(L, k)].key = k
<1>1. DOMAIN L = 1..Len(L)
  BY ListParts
<1>2. \E i \in 1..Len(L) : L[i].key = k
  BY KeysAre
<1> QED
  BY <1>1, <1>2, Zenon DEF PlaceOf

LEMMA LeadsDistinct ==
  ASSUME NEW L \in Seq(Node), NEW q \in Seq(Key), Leads(L, q), Injective(q)
  PROVE  Distinct(L)
<1>1. \A i \in 1..Len(L) : i \in 1..Len(q) /\ L[i].key = q[i]
  BY DEF Leads
<1> QED
  BY <1>1, Zenon DEF Distinct, Injective

LEMMA LeadsTrimmed ==
  ASSUME NEW L \in Seq(Node), NEW m \in Seq(Node), NEW q \in Seq(Key),
         Leads(L, q), Trimmed(m, L)
  PROVE  Leads(m, q)
<1>1. Len(L) \in Nat /\ Len(m) \in Nat /\ Len(q) \in Nat
  BY ListParts
<1> QED
  BY <1>1 DEF Leads, Trimmed

LEMMA KeysSpliced ==
  ASSUME NEW L \in Seq(Node), NEW m \in Seq(Node), NEW i \in 1..Len(L), NEW e \in Node,
         Spliced(L, i, e, m), e.key = L[i].key
  PROVE  KeysOf(m) = KeysOf(L)
<1>1. Len(L) \in Nat /\ i \in Nat /\ 1 <= i /\ i <= Len(L) /\ Len(m) = Len(L)
  BY ListParts DEF Spliced
<1>2. ASSUME NEW k, NEW n \in 1..Len(L), L[n].key = k
      PROVE  \E j \in 1..Len(m) : m[j].key = k
  <2>1. CASE n = i
    BY <1>1, <1>2, <2>1 DEF Spliced
  <2>2. CASE n < i
    <3>1. n + 1 \in 2..i /\ n + 1 - 1 = n /\ n + 1 \in 1..Len(m)
      BY <1>1, <2>2
    <3>2. m[n + 1] = L[n]
      BY <3>1 DEF Spliced
    <3> QED
      BY <1>2, <3>1, <3>2, Zenon
  <2>3. CASE n > i
    <3>1. n \in (i + 1)..Len(L) /\ n \in 1..Len(m)
      BY <1>1, <2>3
    <3> QED
      BY <1>2, <3>1, Zenon DEF Spliced
  <2> QED
    BY <1>1, <2>1, <2>2, <2>3
<1>3. ASSUME NEW k, NEW n \in 1..Len(m), m[n].key = k
      PROVE  \E j \in 1..Len(L) : L[j].key = k
  <2>1. CASE n = 1
    BY <1>3, <2>1, Zenon DEF Spliced
  <2>2. CASE n \in 2..i
    <3>1. n - 1 \in 1..Len(L)
      BY <1>1, <2>2
    <3> QED
      BY <1>3, <2>2, <3>1, Zenon DEF Spliced
  <2>3. CASE n \in (i + 1)..Len(L)
    BY <1>1, <1>3, <2>3, Zenon DEF Spliced
  <2> QED
    BY <1>1, <2>1, <2>2, <2>3
<1>4. \A k : k \in KeysOf(m) <=> k \in KeysOf(L)
  BY <1>2, <1>3, KeysAre, Zenon
<1> QED
  BY <1>4, Zenon

LEMMA KeysFronted ==
  ASSUME NEW L \in Seq(Node), NEW m \in Seq(Node), NEW e \in Node, Fronted(L, e, m)
  PROVE  KeysOf(m) = KeysOf(L) \cup {e.key}
<1>1. Len(L) \in Nat /\ Len(m) = Len(L) + 1 /\ 1 \in 1..Len(m)
  BY ListParts DEF Fronted
<1>2. ASSUME NEW k, NEW n \in 1..Len(L), L[n].key = k
      PROVE  \E j \in 1..Len(m) : m[j].key = k
  <2>1. n + 1 \in 2..(Len(L) + 1) /\ n + 1 - 1 = n /\ n + 1 \in 1..Len(m)
    BY <1>1
  <2>2. m[n + 1] = L[n]
    BY <2>1 DEF Fronted
  <2> QED
    BY <1>2, <2>1, <2>2, Zenon
<1>3. ASSUME NEW k, NEW n \in 1..Len(m), m[n].key = k
      PROVE  k = e.key \/ \E j \in 1..Len(L) : L[j].key = k
  <2>1. CASE n = 1
    BY <1>3, <2>1, Zenon DEF Fronted
  <2>2. CASE n \in 2..(Len(L) + 1)
    <3>1. n - 1 \in 1..Len(L)
      BY <1>1, <2>2
    <3> QED
      BY <1>3, <2>2, <3>1, Zenon DEF Fronted
  <2> QED
    BY <1>1, <2>1, <2>2
<1>4. \A k : k \in KeysOf(m) <=> k \in KeysOf(L) \/ k = e.key
  <2>1. m[1].key = e.key
    BY Zenon DEF Fronted
  <2> QED
    BY <1>1, <1>2, <1>3, <2>1, KeysAre, Zenon
<1> QED
  BY <1>4, Zenon

LEMMA KeysFront ==
  ASSUME NEW L \in Seq(Node), L # <<>>, Distinct(L)
  PROVE  KeysOf(Front(L)) = KeysOf(L) \ {Last(L).key}
<1> DEFINE m == Front(L)
<1>1. /\ m \in Seq(Node) /\ Len(m) = Len(L) - 1 /\ Len(L) \in 1..Len(L) /\ Len(L) \in Nat
      /\ Last(L) = L[Len(L)] /\ \A j \in 1..Len(m) : m[j] = L[j]
  BY FrontFacts, ListParts
<1> HIDE DEF m
<1>2. ASSUME NEW k, NEW n \in 1..Len(m), m[n].key = k
      PROVE  k # L[Len(L)].key /\ \E j \in 1..Len(L) : L[j].key = k
  <2>1. n \in 1..Len(L) /\ n # Len(L) /\ L[n].key = k
    BY <1>1, <1>2
  <2> QED
    BY <1>1, <2>1, Zenon DEF Distinct
<1>3. ASSUME NEW k, NEW n \in 1..Len(L), L[n].key = k, k # L[Len(L)].key
      PROVE  \E j \in 1..Len(m) : m[j].key = k
  <2>1. n \in 1..Len(m)
    BY <1>1, <1>3
  <2> QED
    BY <1>1, <1>3, <2>1, Zenon
<1>4. \A k : k \in KeysOf(m) <=> k \in KeysOf(L) /\ k # Last(L).key
  <2>1. ASSUME NEW k \in KeysOf(m) PROVE k \in KeysOf(L) /\ k # L[Len(L)].key
    <3>1. PICK n \in 1..Len(m) : m[n].key = k
      BY <1>1, KeysAre, Zenon
    <3> QED
      BY <1>2, <3>1, KeysAre, Zenon
  <2>2. ASSUME NEW k \in KeysOf(L), k # L[Len(L)].key PROVE k \in KeysOf(m)
    <3>1. PICK n \in 1..Len(L) : L[n].key = k
      BY KeysAre, Zenon
    <3>2. \E j \in 1..Len(m) : m[j].key = k
      BY <1>3, <2>2, <3>1, Zenon
    <3> QED
      BY <1>1, <3>2, KeysAre, Zenon
  <2> QED
    BY <1>1, <2>1, <2>2, Zenon
<1> QED
  BY <1>4, Zenon DEF m

-----------------------------------------------------------------------------
(* The uses of keys.                                                       *)

\* What a use of k makes of the keys used so far.
UsedNext(q, k) ==
  IF \E i \in DOMAIN q : q[i] = k
  THEN Splice(q, CHOOSE i \in DOMAIN q : q[i] = k, k)
  ELSE <<k>> \o q

LEMMA UsedIs == ASSUME NEW k PROVE Used(k) = UsedNext(recent, k)
BY Zenon DEF Used, UsedNext

\* k was at place j of q, and now comes first.
Again(q, j, k, m) == j \in 1..Len(q) /\ q[j] = k /\ Spliced(q, j, k, m)

\* k is new.
Anew(q, k, m) == (\A i \in 1..Len(q) : q[i] # k) /\ Fronted(q, k, m)

LEMMA UsedFacts ==
  ASSUME NEW q \in Seq(Key), NEW k \in Key
  PROVE  /\ UsedNext(q, k) \in Seq(Key)
         /\ \/ \E j : Again(q, j, k, UsedNext(q, k))
            \/ Anew(q, k, UsedNext(q, k))
<1>1. DOMAIN q = 1..Len(q)
  OBVIOUS
<1>2. CASE \E i \in 1..Len(q) : q[i] = k
  <2> DEFINE j == CHOOSE i \in 1..Len(q) : q[i] = k
  <2>1. j \in 1..Len(q) /\ q[j] = k
    BY <1>2, Zenon
  <2>2. UsedNext(q, k) = Splice(q, j, k)
    BY <1>1, <1>2, Zenon DEF UsedNext
  <2> HIDE DEF j
  <2>3. Splice(q, j, k) \in Seq(Key) /\ Spliced(q, j, k, Splice(q, j, k))
    BY <2>1, SpliceFacts, Zenon
  <2> QED
    BY <2>1, <2>2, <2>3, Zenon DEF Again
<1>3. CASE ~\E i \in 1..Len(q) : q[i] = k
  <2>1. UsedNext(q, k) = <<k>> \o q
    BY <1>1, <1>3, Zenon DEF UsedNext
  <2>2. <<k>> \o q \in Seq(Key) /\ Fronted(q, k, <<k>> \o q)
    BY FrontedFacts, Zenon
  <2> QED
    BY <1>3, <2>1, <2>2, Zenon DEF Anew
<1> QED
  BY <1>2, <1>3

LEMMA AgainInjective ==
  ASSUME NEW q \in Seq(Key), NEW m \in Seq(Key), NEW j, NEW k, Injective(q), Again(q, j, k, m)
  PROVE  Injective(m)
<1>1. Len(q) \in Nat /\ j \in 1..Len(q) /\ Len(m) = Len(q)
  BY DEF Again, Spliced
\* Where what is now at i was.
<1> DEFINE was == [i \in 1..Len(q) |-> IF i = 1 THEN j ELSE IF i <= j THEN i - 1 ELSE i]
<1>2. \A i \in 1..Len(q) : was[i] \in 1..Len(q)
  BY <1>1
<1>3. \A a, b \in 1..Len(q) : was[a] = was[b] => a = b
  BY <1>1
<1>4. ASSUME NEW i \in 1..Len(q) PROVE m[i] = q[was[i]]
  <2>1. CASE i = 1
    BY <1>1, <2>1 DEF Again, Spliced
  <2>2. CASE i \in 2..j
    BY <1>1, <2>2 DEF Again, Spliced
  <2>3. CASE i \in (j + 1)..Len(q)
    BY <1>1, <2>3 DEF Again, Spliced
  <2> QED
    BY <1>1, <2>1, <2>2, <2>3
<1> HIDE DEF was
<1>5. ASSUME NEW a \in 1..Len(q), NEW b \in 1..Len(q), m[a] = m[b] PROVE a = b
  <2>1. was[a] = was[b]
    <3>1. was[a] \in 1..Len(q) /\ was[b] \in 1..Len(q)
      BY <1>2, Zenon
    <3>2. q[was[a]] = q[was[b]]
      BY <1>4, <1>5, Zenon
    <3> QED
      BY <3>1, <3>2, Zenon DEF Injective
  <2> QED
    BY <1>3, <2>1, Zenon
<1> QED
  BY <1>1, <1>5, Zenon DEF Injective

LEMMA AnewInjective ==
  ASSUME NEW q \in Seq(Key), NEW m \in Seq(Key), NEW k, Injective(q), Anew(q, k, m)
  PROVE  Injective(m)
<1>1. Len(q) \in Nat /\ Len(m) = Len(q) + 1 /\ m[1] = k
  BY DEF Anew, Fronted
<1>2. \A i \in 2..Len(m) : i - 1 \in 1..Len(q) /\ m[i] = q[i - 1] /\ m[i] # k
  BY <1>1 DEF Anew, Fronted
<1>3. ASSUME NEW a \in 1..Len(m), NEW b \in 1..Len(m), m[a] = m[b] PROVE a = b
  <2>1. CASE a = 1 \/ b = 1
    BY <1>1, <1>2, <1>3, <2>1
  <2>2. CASE a \in 2..Len(m) /\ b \in 2..Len(m)
    <3>1. a - 1 \in 1..Len(q) /\ b - 1 \in 1..Len(q) /\ q[a - 1] = q[b - 1]
      BY <1>2, <1>3, <2>2, Zenon
    <3>2. a - 1 = b - 1
      BY <3>1, Zenon DEF Injective
    <3> QED
      BY <3>2
  <2> QED
    BY <1>1, <2>1, <2>2
<1> QED
  BY <1>3, Zenon DEF Injective

\* A node goes to the front as its key does.
LEMMA SplicedLeads ==
  ASSUME NEW L \in Seq(Node), NEW M \in Seq(Node), NEW q \in Seq(Key), NEW m \in Seq(Key),
         NEW i \in 1..Len(L), NEW e \in Node, NEW j,
         Leads(L, q), Injective(q), Spliced(L, i, e, M), e.key = L[i].key,
         Again(q, j, e.key, m)
  PROVE  Leads(M, m)
<1>1. /\ Len(L) \in Nat /\ Len(q) \in Nat /\ j \in 1..Len(q) /\ Len(L) <= Len(q)
      /\ Len(M) = Len(L) /\ Len(m) = Len(q)
  BY ListParts DEF Leads, Spliced, Again
<1>2. \A n \in 1..Len(L) : L[n].key = q[n]
  BY DEF Leads
<1>3. j = i
  <2>1. i \in 1..Len(q) /\ q[i] = q[j]
    BY <1>1, <1>2 DEF Again
  <2> QED
    BY <1>1, <2>1, Zenon DEF Injective
<1>4. M[1].key = m[1]
  BY Zenon DEF Spliced, Again
<1>5. ASSUME NEW n \in 2..i PROVE M[n].key = m[n]
  <2>1. n - 1 \in 1..Len(L)
    BY <1>1
  <2> QED
    BY <1>2, <1>3, <2>1, Zenon DEF Spliced, Again
<1>6. ASSUME NEW n \in (i + 1)..Len(L) PROVE M[n].key = m[n]
  <2>1. n \in 1..Len(L) /\ n \in (i + 1)..Len(q)
    BY <1>1
  <2> QED
    BY <1>2, <1>3, <2>1, Zenon DEF Spliced, Again
<1>7. \A n \in 1..Len(L) : n = 1 \/ n \in 2..i \/ n \in (i + 1)..Len(L)
  BY <1>1
<1>8. \A n \in 1..Len(L) : M[n].key = m[n]
  BY <1>4, <1>5, <1>6, <1>7, Zenon
<1> QED
  BY <1>1, <1>8, Zenon DEF Leads

\* A node of a key that is not in the list enters it in front, whether or not
\* the key was used before.
LEMMA FrontedLeads ==
  ASSUME NEW L \in Seq(Node), NEW M \in Seq(Node), NEW q \in Seq(Key), NEW m \in Seq(Key),
         NEW e \in Node, Leads(L, q), Fronted(L, e, M), e.key \notin KeysOf(L),
         (\E j : Again(q, j, e.key, m)) \/ Anew(q, e.key, m)
  PROVE  Leads(M, m)
<1>1. /\ Len(L) \in Nat /\ Len(q) \in Nat /\ Len(L) <= Len(q) /\ Len(M) = Len(L) + 1
      /\ M[1].key = e.key /\ \A n \in 2..Len(M) : n - 1 \in 1..Len(L) /\ M[n] = L[n - 1]
  BY ListParts DEF Leads, Fronted
<1>2. \A n \in 1..Len(L) : L[n].key = q[n]
  BY DEF Leads
<1>3. Len(M) <= Len(m) /\ m[1] = e.key /\ \A n \in 2..Len(M) : m[n] = q[n - 1]
  <2>1. ASSUME NEW j, Again(q, j, e.key, m)
        PROVE  Len(M) <= Len(m) /\ m[1] = e.key /\ \A n \in 2..Len(M) : m[n] = q[n - 1]
    <3>1. j \in 1..Len(q) /\ q[j] = e.key /\ Len(m) = Len(q) /\ m[1] = e.key
      BY <2>1 DEF Again, Spliced
    <3>2. j \notin 1..Len(L)
      BY <1>2, <3>1, KeysAre, Zenon
    <3>3. Len(M) <= Len(m) /\ \A n \in 2..Len(M) : n \in 2..j
      BY <1>1, <3>1, <3>2
    <3> QED
      BY <2>1, <3>1, <3>3, Zenon DEF Again, Spliced
  <2>2. CASE Anew(q, e.key, m)
    <3>1. Len(m) = Len(q) + 1 /\ m[1] = e.key /\ \A n \in 2..(Len(q) + 1) : m[n] = q[n - 1]
      BY <2>2 DEF Anew, Fronted
    <3> QED
      BY <1>1, <3>1
  <2> QED
    BY <2>1, <2>2
<1>4. ASSUME NEW n \in 1..Len(M) PROVE M[n].key = m[n]
  <2>1. n = 1 \/ n \in 2..Len(M)
    BY <1>1
  <2> QED
    BY <1>1, <1>2, <1>3, <2>1, Zenon
<1> QED
  BY <1>3, <1>4, Zenon DEF Leads

-----------------------------------------------------------------------------
(* The operations of memory_cache.                                         *)

Cache == [list : Seq(Node), map : SUBSET Key, total : Int]
Budget == [entries : Nat, bytes : Nat]

LEMMA SoundIs ==
  ASSUME NEW c \in Cache
  PROVE  /\ c.list \in Seq(Node) /\ c.map \in SUBSET Key /\ c.total \in Int
         /\ Sound(c) <=> /\ Distinct(c.list)
                         /\ c.map = KeysOf(c.list)
                         /\ c.total = WeightOf(c.list)
<1>1. c.list \in Seq(Node) /\ c.map \in SUBSET Key /\ c.total \in Int
  BY DEF Cache
<1>2. DOMAIN c.list = 1..Len(c.list)
  BY <1>1, ListParts
<1> QED
  BY <1>1, <1>2, Zenon DEF Sound, Distinct

\* How such a cache is put together.
LEMMA SoundMade ==
  ASSUME NEW L \in Seq(Node), NEW K, NEW w, Distinct(L), K = KeysOf(L), w = WeightOf(L)
  PROVE  /\ [list |-> L, map |-> K, total |-> w] \in Cache
         /\ Sound([list |-> L, map |-> K, total |-> w])
<1>1. K \in SUBSET Key /\ w \in Int
  BY KeysType, WeightType, Zenon
<1>2. [list |-> L, map |-> K, total |-> w] \in Cache
  BY <1>1 DEF Cache
<1>3. DOMAIN L = 1..Len(L)
  BY ListParts
<1> QED
  BY <1>2, <1>3 DEF Sound, Distinct

\* What is in m came from L, or is e, and nothing else has the key of e.
Holds(m, L, e) ==
  \A n \in 1..Len(m) : \/ m[n] = e
                       \/ m[n].key # e.key /\ \E i \in 1..Len(L) : m[n] = L[i]

\* What put and a hit do to the cache c and the keys q, before evictions.
Updated(c, q, e, d) ==
  /\ d \in Cache /\ Sound(d)
  /\ UsedNext(q, e.key) \in Seq(Key) /\ Injective(UsedNext(q, e.key))
  /\ Leads(d.list, UsedNext(q, e.key))
  /\ Holds(d.list, c.list, e)

LEMMA UsedInjective ==
  ASSUME NEW q \in Seq(Key), NEW k \in Key, Injective(q)
  PROVE  Injective(UsedNext(q, k))
<1> DEFINE m == UsedNext(q, k)
<1>1. m \in Seq(Key) /\ ((\E j : Again(q, j, k, m)) \/ Anew(q, k, m))
  BY UsedFacts
<1> HIDE DEF m
<1> QED
  BY <1>1, AgainInjective, AnewInjective, Zenon DEF m

LEMMA SplicedHolds ==
  ASSUME NEW L \in Seq(Node), NEW m \in Seq(Node), NEW i \in 1..Len(L), NEW e,
         Distinct(m), Spliced(L, i, e, m)
  PROVE  Holds(m, L, e)
<1>1. Len(L) \in Nat /\ Len(m) = Len(L) /\ m[1] = e /\ 1 \in 1..Len(m)
  BY ListParts DEF Spliced
<1> SUFFICES ASSUME NEW n \in 1..Len(m), n # 1
             PROVE  m[n].key # e.key /\ \E a \in 1..Len(L) : m[n] = L[a]
  BY <1>1, Zenon DEF Holds
<1>2. m[n].key # e.key
  BY <1>1, Zenon DEF Distinct
<1>3. CASE n \in 2..i
  <2>1. n - 1 \in 1..Len(L)
    BY <1>1, <1>3
  <2> QED
    BY <1>2, <1>3, <2>1, Zenon DEF Spliced
<1>4. CASE n \in (i + 1)..Len(L)
  BY <1>1, <1>2, <1>4, Zenon DEF Spliced
<1> QED
  BY <1>1, <1>3, <1>4

LEMMA FrontedHolds ==
  ASSUME NEW L \in Seq(Node), NEW m \in Seq(Node), NEW e, Distinct(m), Fronted(L, e, m)
  PROVE  Holds(m, L, e)
<1>1. Len(L) \in Nat /\ Len(m) = Len(L) + 1 /\ m[1] = e /\ 1 \in 1..Len(m)
  BY ListParts DEF Fronted
<1> SUFFICES ASSUME NEW n \in 1..Len(m), n # 1
             PROVE  m[n].key # e.key /\ \E a \in 1..Len(L) : m[n] = L[a]
  BY <1>1, Zenon DEF Holds
<1>2. m[n].key # e.key
  BY <1>1, Zenon DEF Distinct
<1>3. n \in 2..(Len(L) + 1) /\ n - 1 \in 1..Len(L)
  BY <1>1
<1> QED
  BY <1>2, <1>3, Zenon DEF Fronted

\* do_put of a key that is in map_, or is not.
LEMMA InsertFacts ==
  ASSUME NEW c \in Cache, Sound(c), NEW q \in Seq(Key), Injective(q), Leads(c.list, q),
         NEW e \in Node
  PROVE  Updated(c, q, e, Insert(c, e))
<1> DEFINE L == c.list
<1> DEFINE m == UsedNext(q, e.key)
<1>1. /\ L \in Seq(Node) /\ Distinct(L) /\ c.map = KeysOf(L) /\ c.total = WeightOf(L)
      /\ e.key \in Key
  BY SoundIs, NodeParts
<1>2. m \in Seq(Key) /\ ((\E j : Again(q, j, e.key, m)) \/ Anew(q, e.key, m)) /\ Injective(m)
  BY <1>1, UsedFacts, UsedInjective
<1>3. CASE e.key \in c.map
  <2> DEFINE i == PlaceOf(L, e.key)
  <2> DEFINE M == Splice(L, i, e)
  <2>1. i \in 1..Len(L) /\ L[i].key = e.key
    BY <1>1, <1>3, PlaceFacts, Zenon
  <2>2. Insert(c, e) = [list |-> M, map |-> c.map, total |-> c.total - L[i].weight + e.weight]
    BY <1>3, Zenon DEF Insert
  <2> HIDE DEF i
  <2>3. M \in Seq(Node) /\ Spliced(L, i, e, M) /\ WeightOf(M) = WeightOf(L) - L[i].weight + e.weight
    BY <1>1, <2>1, SpliceFacts, WeightSplice, Zenon
  <2> HIDE DEF M, L, m
  <2>4. KeysOf(M) = KeysOf(L)
    BY <1>1, <2>1, <2>3, KeysSpliced, Zenon
  <2>5. \E j : Again(q, j, e.key, m)
    <3>1. i \in 1..Len(q) /\ q[i] = e.key
      <4>1. Len(L) \in Nat /\ Len(q) \in Nat /\ Len(L) <= Len(q) /\ L[i].key = q[i]
        BY <1>1, <2>1, ListParts DEF Leads, L
      <4> QED
        BY <2>1, <4>1
    <3> QED
      BY <1>2, <3>1, Zenon DEF Anew
  <2>6. Leads(M, m)
    BY <1>1, <1>2, <2>1, <2>3, <2>5, SplicedLeads, Zenon DEF L
  <2>7. Distinct(M)
    BY <1>2, <2>3, <2>6, LeadsDistinct, Zenon
  <2>8. Holds(M, L, e)
    BY <1>1, <2>1, <2>3, <2>7, SplicedHolds, Zenon
  <2>9. Insert(c, e) \in Cache /\ Sound(Insert(c, e)) /\ Insert(c, e).list = M
    <3>1. c.map = KeysOf(M) /\ c.total - L[i].weight + e.weight = WeightOf(M)
      BY <1>1, <2>3, <2>4, Zenon
    <3>2. Insert(c, e).list = M
      BY <2>2
    <3> QED
      BY <2>2, <2>3, <2>7, <3>1, <3>2, SoundMade, Zenon
  <2> QED
    BY <1>2, <2>6, <2>8, <2>9, Zenon DEF Updated, L, m
<1>4. CASE e.key \notin c.map
  <2> DEFINE M == <<e>> \o L
  <2>2. Insert(c, e) = [list |-> M, map |-> c.map \cup {e.key}, total |-> c.total + e.weight]
    BY <1>4, Zenon DEF Insert
  <2>3. M \in Seq(Node) /\ Fronted(L, e, M) /\ WeightOf(M) = WeightOf(L) + e.weight
    BY <1>1, FrontedFacts, WeightFronted, Zenon
  <2> HIDE DEF M, L, m
  <2>4. KeysOf(M) = KeysOf(L) \cup {e.key}
    BY <1>1, <2>3, KeysFronted, Zenon
  <2>5. Leads(M, m)
    BY <1>1, <1>2, <1>4, <2>3, FrontedLeads, Zenon DEF L
  <2>6. Distinct(M)
    BY <1>2, <2>3, <2>5, LeadsDistinct, Zenon
  <2>7. Holds(M, L, e)
    BY <1>1, <2>3, <2>6, FrontedHolds, Zenon
  <2>8. Insert(c, e) \in Cache /\ Sound(Insert(c, e)) /\ Insert(c, e).list = M
    <3>1. c.map \cup {e.key} = KeysOf(M) /\ c.total + e.weight = WeightOf(M)
      BY <1>1, <2>3, <2>4, Zenon
    <3>2. Insert(c, e).list = M
      BY <2>2
    <3> QED
      BY <2>2, <2>3, <2>6, <3>1, <3>2, SoundMade, Zenon
  <2> QED
    BY <1>2, <2>5, <2>7, <2>8, Zenon DEF Updated, L, m
<1> QED
  BY <1>3, <1>4

\* A hit is a put of the node that is there.
LEMMA TouchIsInsert ==
  ASSUME NEW c \in Cache, Sound(c), NEW k, k \in c.map
  PROVE  /\ PlaceOf(c.list, k) \in 1..Len(c.list)
         /\ c.list[PlaceOf(c.list, k)] \in Node /\ c.list[PlaceOf(c.list, k)].key = k
         /\ Touch(c, k) = Insert(c, c.list[PlaceOf(c.list, k)])
<1> DEFINE i == PlaceOf(c.list, k)
<1>1. c.list \in Seq(Node) /\ c.map = KeysOf(c.list) /\ c.total \in Int
  BY SoundIs
<1>2. i \in 1..Len(c.list) /\ c.list[i].key = k
  BY <1>1, PlaceFacts, Zenon
<1>3. c.list[i] \in Node
  BY <1>1, <1>2, ListParts, Zenon
<1>4. c.total - c.list[i].weight + c.list[i].weight = c.total
  <2> HIDE DEF i
  <2>1. c.list[i].weight \in Int
    BY <1>3, NodeParts, Zenon
  <2> QED
    BY <1>1, <2>1
<1>5. Touch(c, k) = Insert(c, c.list[i])
  BY <1>2, <1>4, Zenon DEF Touch, Insert
<1> QED
  BY <1>2, <1>3, <1>5, Zenon

LEMMA TrimmedFacts ==
  ASSUME NEW L \in Seq(Node), NEW m \in Seq(Node), Trimmed(m, L)
  PROVE  /\ Distinct(L) => Distinct(m)
         /\ \A M, e : Holds(L, M, e) => Holds(m, M, e)
         /\ \A M : Trimmed(L, M) => Trimmed(m, M)
<1>1. Len(L) \in Nat /\ Len(m) \in Nat /\ Len(m) <= Len(L)
  BY ListParts DEF Trimmed
<1>2. \A n \in 1..Len(m) : n \in 1..Len(L) /\ m[n] = L[n]
  BY <1>1 DEF Trimmed
<1>3. Distinct(L) => Distinct(m)
  BY <1>2, Zenon DEF Distinct
<1>4. \A M, e : Holds(L, M, e) => Holds(m, M, e)
  BY <1>2, Zenon DEF Holds
<1>5. ASSUME NEW M, Trimmed(L, M) PROVE Trimmed(m, M)
  <2>1. Len(m) <= Len(M)
    BY <1>1, <1>5, ListParts DEF Trimmed
  <2> QED
    BY <1>2, <1>5, <2>1, Zenon DEF Trimmed
<1> QED
  BY <1>3, <1>4, <1>5

\* The size of map_ is that of the list.
LEMMA MapSize ==
  ASSUME NEW L \in Seq(Node), Distinct(L)
  PROVE  Cardinality(KeysOf(L)) = Len(L)
<1> DEFINE f == [i \in 1..Len(L) |-> L[i].key]
<1>1. Len(L) \in Nat
  BY ListParts
<1>2. DOMAIN f = 1..Len(L) /\ \A i \in 1..Len(L) : f[i] = L[i].key
  BY Zenon
<1>3. f \in [1..Len(L) -> KeysOf(L)]
  BY KeysAre, Zenon
<1> HIDE DEF f
<1>4. \A i, j \in 1..Len(L) : f[i] = f[j] => i = j
  BY <1>2, Zenon DEF Distinct
<1>5. ASSUME NEW k \in KeysOf(L) PROVE \E i \in 1..Len(L) : f[i] = k
  <2>1. PICK i \in 1..Len(L) : L[i].key = k
    BY KeysAre, Zenon
  <2> QED
    BY <1>2, <2>1, Zenon
<1>6. f \in Bijection(1..Len(L), KeysOf(L))
  BY <1>2, <1>3, <1>4, <1>5, Zenon DEF Bijection, Injection, Surjection, IsInjective
<1>7. ExistsBijection(1..Len(L), KeysOf(L))
  BY <1>6, Zenon DEF ExistsBijection
<1> QED
  BY <1>1, <1>7, FS_CountingElements, Zenon

\* One turn of the loop of evict_if_needed.
LEMMA DropLastFacts ==
  ASSUME NEW c \in Cache, c.list # <<>>
  PROVE  /\ DropLast(c) \in Cache
         /\ Trimmed(DropLast(c).list, c.list) /\ Len(DropLast(c).list) = Len(c.list) - 1
         /\ Sound(c) => Sound(DropLast(c))
<1> DEFINE L == c.list
<1>1. L \in Seq(Node) /\ c.map \in SUBSET Key /\ c.total \in Int
  BY SoundIs
<1>2. DropLast(c) = [list  |-> Front(L), map |-> c.map \ {Last(L).key},
                     total |-> c.total - Last(L).weight]
  BY Zenon DEF DropLast, Front, Last
<1>3. /\ Front(L) \in Seq(Node) /\ Len(Front(L)) = Len(L) - 1 /\ Len(L) \in Nat
      /\ \A j \in 1..(Len(L) - 1) : Front(L)[j] = L[j]
      /\ Last(L) \in Node
  BY <1>1, FrontFacts, ListParts
<1>4. Last(L).weight \in Int
  BY <1>3, NodeParts, Zenon
<1> HIDE DEF L
<1>5. DropLast(c) \in Cache /\ DropLast(c).list = Front(L)
  <2>1. c.map \ {Last(L).key} \in SUBSET Key /\ c.total - Last(L).weight \in Int
    BY <1>1, <1>4
  <2> QED
    BY <1>2, <1>3, <2>1 DEF Cache
<1>6. Trimmed(Front(L), L)
  BY <1>3 DEF Trimmed
<1>7. ASSUME Sound(c) PROVE Sound(DropLast(c))
  <2>1. Distinct(L) /\ c.map = KeysOf(L) /\ c.total = WeightOf(L)
    BY <1>7, SoundIs DEF L
  <2>2. Distinct(Front(L))
    BY <1>1, <1>3, <1>6, <2>1, TrimmedFacts, Zenon
  <2>3. c.map \ {Last(L).key} = KeysOf(Front(L))
    BY <1>1, <2>1, KeysFront, Zenon DEF L
  <2>4. c.total - Last(L).weight = WeightOf(Front(L))
    BY <1>1, <2>1, WeightFront, Zenon DEF L
  <2> QED
    BY <1>2, <1>3, <2>2, <2>3, <2>4, SoundMade, Zenon
<1> QED
  BY <1>3, <1>5, <1>6, <1>7, Zenon DEF L

LEMMA TurnType ==
  ASSUME NEW c \in Cache, NEW lim
  PROVE  Turn(c, lim) \in Cache
BY DropLastFacts, Zenon DEF Turn, Exceeds

\* The state of the loop after n turns: a cache that still exceeds its budgets
\* has lost n nodes.
After(c, lim, n, d) ==
  /\ d \in Cache /\ Sound(d) /\ Trimmed(d.list, c.list)
  /\ Exceeds(d, lim) => Len(d.list) = Len(c.list) - n

LEMMA TurnFacts ==
  ASSUME NEW c \in Cache, NEW lim, NEW n \in Nat, NEW d, After(c, lim, n, d)
  PROVE  After(c, lim, n + 1, Turn(d, lim))
<1>1. d \in Cache /\ Sound(d) /\ Trimmed(d.list, c.list)
  BY DEF After
<1>2. CASE Exceeds(d, lim)
  <2>1. d.list # <<>> /\ Turn(d, lim) = DropLast(d) /\ Len(d.list) = Len(c.list) - n
    BY <1>2, Zenon DEF Exceeds, Turn, After
  <2>2. /\ DropLast(d) \in Cache /\ Sound(DropLast(d)) /\ Trimmed(DropLast(d).list, d.list)
        /\ Len(DropLast(d).list) = Len(d.list) - 1
    BY <1>1, <2>1, DropLastFacts, Zenon
  <2>3. Trimmed(DropLast(d).list, c.list)
    BY <1>1, <2>2, SoundIs, TrimmedFacts, Zenon
  <2>4. Len(DropLast(d).list) = Len(c.list) - (n + 1)
    <3>1. Len(c.list) \in Nat
      BY SoundIs, ListParts, Zenon
    <3> QED
      BY <2>1, <2>2, <3>1
  <2> QED
    BY <2>1, <2>2, <2>3, <2>4, Zenon DEF After
<1>3. CASE ~Exceeds(d, lim)
  BY <1>1, <1>3, Zenon DEF Turn, After
<1> QED
  BY <1>2, <1>3

\* The turns of the loop of evict_if_needed, as Evict computes them.
Turns(c, lim, turn) ==
  turn[0] = c /\ \A n \in 0..(Len(c.list) - 1) : turn[n + 1] = Turn(turn[n], lim)

LEMMA EvictIs ==
  ASSUME NEW c \in Cache, NEW lim
  PROVE  \E turn : Turns(c, lim, turn) /\ Evict(c, lim) = turn[Len(c.list)]
<1> DEFINE N == Len(c.list)
<1> DEFINE D(g) == [n \in 0..N |-> IF n = 0 THEN c ELSE Turn(g[n - 1], lim)]
<1> DEFINE turn == CHOOSE g : g = D(g)
<1>1. N \in Nat
  BY SoundIs, ListParts, Zenon
<1>2. Evict(c, lim) = turn[N]
  BY Zenon DEF Evict
<1>3. \E g : g = D(g)
  <2> DEFINE F == [n \in 1..N |-> [d \in Cache |-> Turn(d, lim)]]
  <2>1. Steps(N, Cache, c, F)
    <3>1. [d \in Cache |-> Turn(d, lim)] \in [Cache -> Cache]
      BY TurnType, Zenon
    <3> QED
      BY <1>1, <3>1, Zenon DEF Steps
  <2>2. \A n \in 1..N, d \in Cache : F[n][d] = Turn(d, lim)
    BY Zenon
  <2> HIDE DEF F, N
  <2>3. PICK g : Solves(N, Cache, c, F, g)
    BY <2>1, Recursion, Zenon
  <2>4. \A n \in 1..N : g[n - 1] \in Cache
    BY <1>1, <2>3 DEF Solves
  <2>5. \A n \in 1..N : g[n] = Turn(g[n - 1], lim)
    BY <2>2, <2>3, <2>4, Zenon DEF Solves
  <2>6. DOMAIN g = 0..N /\ g[0] = c /\ g = [n \in 0..N |-> g[n]]
    BY <2>3, Zenon DEF Solves
  <2>7. \A n \in 0..N : n # 0 => n \in 1..N
    BY <1>1
  <2>8. \A n \in 0..N : g[n] = IF n = 0 THEN c ELSE Turn(g[n - 1], lim)
    BY <2>5, <2>6, <2>7, Zenon
  <2>9. [n \in 0..N |-> g[n]] = D(g)
    BY <2>8, Zenon
  <2> QED
    BY <2>6, <2>9, Zenon
<1>4. turn = D(turn)
  <2> HIDE DEF D
  <2> QED
    BY <1>3, Zenon
<1> HIDE DEF turn
<1>5. turn[0] = c /\ \A n \in 0..(N - 1) : turn[n + 1] = Turn(turn[n], lim)
  BY <1>1, <1>4
<1> QED
  BY <1>2, <1>5, Zenon DEF Turns

\* What evict_if_needed leaves is sound, a first part of the list, and within
\* both budgets.
LEMMA EvictFacts ==
  ASSUME NEW c \in Cache, Sound(c), NEW lim \in Budget
  PROVE  /\ Evict(c, lim) \in Cache /\ Sound(Evict(c, lim))
         /\ Trimmed(Evict(c, lim).list, c.list)
         /\ Len(Evict(c, lim).list) <= lim.entries /\ Evict(c, lim).total <= lim.bytes
<1> DEFINE N == Len(c.list)
<1> DEFINE d == Evict(c, lim)
<1>0. N \in Nat /\ c.list \in Seq(Node) /\ lim.entries \in Nat /\ lim.bytes \in Nat
  BY SoundIs, ListParts DEF Budget
<1>1. PICK turn : Turns(c, lim, turn) /\ d = turn[N]
  BY EvictIs
<1> DEFINE S == {n \in Nat : n <= N => After(c, lim, n, turn[n])}
<1> HIDE DEF N, d
<1>2. 0 \in S
  <2>1. After(c, lim, 0, c)
    BY <1>0 DEF After, Trimmed, N
  <2> QED
    BY <1>1, <2>1 DEF Turns
<1>3. ASSUME NEW n \in S PROVE n + 1 \in S
  <2> SUFFICES ASSUME n + 1 <= N PROVE After(c, lim, n + 1, turn[n + 1])
    OBVIOUS
  <2>1. n \in Nat /\ n \in 0..(N - 1) /\ After(c, lim, n, turn[n])
    BY <1>0
  <2>2. turn[n + 1] = Turn(turn[n], lim)
    BY <1>1, <2>1, Zenon DEF Turns, N
  <2> QED
    BY <2>1, <2>2, TurnFacts, Zenon
<1>4. After(c, lim, N, d)
  <2>1. S \in SUBSET Nat
    BY DEF S
  <2>2. N <= N
    BY <1>0
  <2>3. N \in S
    <3> HIDE DEF S
    <3> QED
      BY <1>0, <1>2, <1>3, <2>1, SetInduction, Zenon
  <2> QED
    BY <1>1, <2>2, <2>3, Zenon
<1>5. d \in Cache /\ Sound(d) /\ Trimmed(d.list, c.list)
  BY <1>4, Zenon DEF After
<1>6. /\ d.list \in Seq(Node) /\ Distinct(d.list)
      /\ d.map = KeysOf(d.list) /\ d.total = WeightOf(d.list)
  BY <1>5, SoundIs, Zenon
<1>7. ~Exceeds(d, lim)
  <2> SUFFICES ASSUME Exceeds(d, lim) PROVE FALSE
    BY Zenon
  <2>1. Len(d.list) = N - N /\ d.list # <<>>
    BY <1>4, Zenon DEF After, Exceeds, N
  <2> QED
    BY <1>0, <1>6, <2>1
<1>8. Len(d.list) <= lim.entries /\ d.total <= lim.bytes
  <2>1. CASE d.list = <<>>
    <3>1. Len(d.list) = 0
      BY <2>1
    <3>2. d.total = 0
      BY <1>6, <2>1, WeightEmpty, Zenon
    <3> QED
      BY <1>0, <3>1, <3>2
  <2>2. CASE d.list # <<>>
    <3>1. ~(Cardinality(d.map) > lim.entries) /\ ~(d.total > lim.bytes)
      BY <1>7, <2>2, Zenon DEF Exceeds
    <3>2. Cardinality(d.map) = Len(d.list) /\ Len(d.list) \in Nat /\ d.total \in Int
      BY <1>5, <1>6, MapSize, ListParts, SoundIs, Zenon
    <3> QED
      BY <1>0, <3>1, <3>2
  <2> QED
    BY <2>1, <2>2
<1> QED
  BY <1>5, <1>8, Zenon DEF d

\* put, of a cache that is not disabled.
LEMMA PutFacts ==
  ASSUME NEW c \in Cache, Sound(c), NEW q \in Seq(Key), Injective(q), Leads(c.list, q),
         NEW e \in Node, NEW lim \in Budget, ~Disabled(lim)
  PROVE  /\ Updated(c, q, e, Put(c, lim, e))
         /\ Len(Put(c, lim, e).list) <= lim.entries /\ Put(c, lim, e).total <= lim.bytes
<1> DEFINE a == Insert(c, e)
<1> DEFINE d == Evict(a, lim)
<1>1. Put(c, lim, e) = d
  BY Zenon DEF Put
<1>2. Updated(c, q, e, a)
  BY InsertFacts, Zenon
<1> HIDE DEF a
<1>3. a \in Cache /\ Sound(a)
  BY <1>2, Zenon DEF Updated
<1>4. /\ d \in Cache /\ Sound(d) /\ Trimmed(d.list, a.list)
      /\ Len(d.list) <= lim.entries /\ d.total <= lim.bytes
  BY <1>3, EvictFacts, Zenon
<1> HIDE DEF d
<1>5. a.list \in Seq(Node) /\ d.list \in Seq(Node)
  BY <1>3, <1>4, SoundIs, Zenon
<1>6. Leads(d.list, UsedNext(q, e.key))
  BY <1>2, <1>4, <1>5, LeadsTrimmed, Zenon DEF Updated
<1>7. Holds(d.list, c.list, e)
  BY <1>2, <1>4, <1>5, TrimmedFacts, Zenon DEF Updated
<1>8. Updated(c, q, e, d)
  BY <1>2, <1>4, <1>6, <1>7, Zenon DEF Updated
<1> QED
  BY <1>1, <1>4, <1>8, Zenon

-----------------------------------------------------------------------------
(* The inductive invariant.                                                *)

\* memory_cache with its budgets and the keys used so far; nothing enters a
\* disabled cache.
Memory(c, lim, q) ==
  /\ c \in Cache /\ Sound(c)
  /\ q \in Seq(Key) /\ Injective(q) /\ Leads(c.list, q)
  /\ Len(c.list) <= lim.entries /\ c.total <= lim.bytes
  /\ Disabled(lim) => c.list = <<>>

Others ==
  /\ limits \in Limits \cup {NoLimits}
  /\ ready \in BOOLEAN
  /\ db \in [Key -> Record \cup {None}]
  /\ now \in 0..MaxTime
  /\ reply \in Reply \cup {None}
  /\ latest \in [Key -> Response \cup {None}]
  /\ since \in [Key -> SUBSET Response]

\* The database holds the response last stored under a key.
DbIsLatest ==
  \A k \in Key :
    /\ latest[k] = None => db[k] = None
    /\ latest[k] # None => db[k] # None /\ db[k].resp = latest[k] /\ latest[k] \in since[k]

\* The first level holds nothing older than the last response that fits it.
L1IsLatest ==
  \A i \in 1..Len(l1.list) : l1.list[i].value.resp \in since[l1.list[i].key]

Stored  == Memory(l1, limits, recent) /\ DbIsLatest /\ L1IsLatest
Answers == HitIsLatest /\ HeldIsCurrent

IInv == Others /\ Stored /\ Answers

LEMMA BudgetType ==
  ASSUME Others PROVE limits \in Budget
BY CacheAssumption DEF Others, NoLimits, Budget

LEMMA KeyType ==
  ASSUME NEW t \in Target PROVE BuildKey(t) \in Key
BY Zenon DEF Key

LEMMA EmptyMemory ==
  ASSUME NEW lim \in Budget PROVE Memory(EmptyCache, lim, <<>>)
<1>1. <<>> \in Seq(Node) /\ <<>> \in Seq(Key) /\ Len(<<>>) = 0
  OBVIOUS
<1>2. Distinct(<<>>) /\ Injective(<<>>) /\ Leads(<<>>, <<>>)
  BY <1>1 DEF Distinct, Injective, Leads
<1>3. KeysOf(<<>>) = {}
  BY DEF KeysOf
<1>4. EmptyCache \in Cache /\ Sound(EmptyCache)
  BY <1>1, <1>2, <1>3, WeightEmpty, SoundMade, Zenon DEF EmptyCache
<1>5. EmptyCache.list = <<>> /\ EmptyCache.total = 0
  BY DEF EmptyCache
<1>6. 0 <= lim.entries /\ 0 <= lim.bytes
  BY DEF Budget
<1> QED
  BY <1>1, <1>2, <1>4, <1>5, <1>6, Zenon DEF Memory

\* A put into a cache that is not disabled.
LEMMA PutMemory ==
  ASSUME NEW c, NEW q, NEW lim \in Budget, Memory(c, lim, q), ~Disabled(lim), NEW e \in Node
  PROVE  /\ Memory(Put(c, lim, e), lim, UsedNext(q, e.key))
         /\ Holds(Put(c, lim, e).list, c.list, e)
<1>1. c \in Cache /\ Sound(c) /\ q \in Seq(Key) /\ Injective(q) /\ Leads(c.list, q)
  BY Zenon DEF Memory
<1>2. /\ Updated(c, q, e, Put(c, lim, e))
      /\ Len(Put(c, lim, e).list) <= lim.entries /\ Put(c, lim, e).total <= lim.bytes
  BY <1>1, PutFacts, Zenon
<1> QED
  BY <1>2, Zenon DEF Updated, Memory

\* A hit: no budget is touched.
LEMMA TouchMemory ==
  ASSUME NEW c, NEW q, NEW lim \in Budget, Memory(c, lim, q), NEW k, k \in c.map
  PROVE  /\ Memory(Touch(c, k), lim, UsedNext(q, k))
         /\ PlaceOf(c.list, k) \in 1..Len(c.list)
         /\ c.list[PlaceOf(c.list, k)] \in Node /\ c.list[PlaceOf(c.list, k)].key = k
         /\ Holds(Touch(c, k).list, c.list, c.list[PlaceOf(c.list, k)])
<1> DEFINE i == PlaceOf(c.list, k)
<1> DEFINE e == c.list[i]
<1> DEFINE d == Touch(c, k)
<1>1. /\ c \in Cache /\ Sound(c) /\ q \in Seq(Key) /\ Injective(q) /\ Leads(c.list, q)
      /\ Len(c.list) <= lim.entries /\ c.total <= lim.bytes
  BY Zenon DEF Memory
<1>2. i \in 1..Len(c.list) /\ e \in Node /\ e.key = k /\ d = Insert(c, e)
  BY <1>1, TouchIsInsert, Zenon
<1>3. d.total = c.total /\ d.list = Splice(c.list, i, e)
  BY DEF Touch
<1>4. c.list \in Seq(Node)
  BY <1>1, SoundIs, Zenon
<1> HIDE DEF i, e, d
<1>5. Updated(c, q, e, d)
  BY <1>1, <1>2, InsertFacts, Zenon
<1>6. Len(d.list) = Len(c.list)
  <2>1. Spliced(c.list, i, e, Splice(c.list, i, e))
    BY <1>2, <1>4, SpliceFacts, Zenon
  <2> QED
    BY <1>3, <2>1, Zenon DEF Spliced
<1>7. c.list # <<>>
  BY <1>2, <1>4
<1>8. ~Disabled(lim)
  BY <1>7, Zenon DEF Memory
<1>9. Memory(d, lim, UsedNext(q, k))
  <2>1. Len(d.list) <= lim.entries /\ d.total <= lim.bytes
    BY <1>1, <1>3, <1>6, Zenon
  <2> QED
    BY <1>2, <1>5, <1>8, <2>1, Zenon DEF Updated, Memory
<1> QED
  BY <1>2, <1>5, <1>9, Zenon DEF Updated, i, e, d

\* What the first level holds has keys.
LEMMA MemoryKeys ==
  ASSUME NEW c, NEW lim, NEW q, Memory(c, lim, q)
  PROVE  \A i \in 1..Len(c.list) : c.list[i].key \in Key
<1>1. c.list \in Seq(Node)
  BY SoundIs, Zenon DEF Memory
<1> QED
  BY <1>1, ListParts, NodeParts, Zenon

\* Nothing that the first level may hold changes for another key.
LEMMA HoldsLatest ==
  ASSUME NEW e, Memory(l1, limits, recent), L1IsLatest,
         Holds(l1'.list, l1.list, e), e.value.resp \in since'[e.key],
         \A x \in Key : x # e.key => since'[x] = since[x]
  PROVE  L1IsLatest'
<1> SUFFICES ASSUME NEW i \in 1..Len(l1'.list)
             PROVE  l1'.list[i].value.resp \in since'[l1'.list[i].key]
  BY Zenon DEF L1IsLatest
<1>1. CASE l1'.list[i] = e
  BY <1>1, Zenon
<1>2. CASE l1'.list[i].key # e.key /\ \E j \in 1..Len(l1.list) : l1'.list[i] = l1.list[j]
  <2>1. PICK j \in 1..Len(l1.list) : l1'.list[i] = l1.list[j]
    BY <1>2, Zenon
  <2>2. l1.list[j].key \in Key /\ l1.list[j].value.resp \in since[l1.list[j].key]
    BY MemoryKeys, Zenon DEF L1IsLatest
  <2> QED
    BY <1>2, <2>1, <2>2, Zenon
<1> QED
  BY <1>1, <1>2, Zenon DEF Holds

\* put is called with a response that counts.
LEMMA PutStored ==
  ASSUME Others, Memory(l1, limits, recent), L1IsLatest,
         NEW k \in Key, NEW text \in Text, PutL1(k, text), limits' = limits,
         text.resp \in since'[k], \A x \in Key : x # k => since'[x] = since[x]
  PROVE  Memory(l1, limits, recent)' /\ L1IsLatest'
<1> DEFINE e == [key |-> k, value |-> text, weight |-> Weight(text)]
<1>1. limits \in Budget
  BY BudgetType, Zenon
<1>2. e.key = k /\ e.value = text /\ e \in Node
  <2>1. Weight(text) \in Nat
    BY CacheAssumption DEF Weight, Text
  <2> QED
    BY <2>1 DEF Node
<1>3. CASE Disabled(limits)
  <2>1. l1' = l1 /\ recent' = recent /\ l1.list = <<>>
    BY <1>3, Zenon DEF PutL1, Put, Memory
  <2>2. L1IsLatest'
    BY <2>1 DEF L1IsLatest
  <2> QED
    BY <2>1, <2>2, Zenon
<1>4. CASE ~Disabled(limits)
  <2>1. l1' = Put(l1, limits, e) /\ recent' = UsedNext(recent, e.key)
    BY <1>2, <1>4, UsedIs, Zenon DEF PutL1
  <2> HIDE DEF e
  <2>2. Memory(l1', limits, recent') /\ Holds(l1'.list, l1.list, e)
    BY <1>1, <1>2, <1>4, <2>1, PutMemory, Zenon
  <2>3. L1IsLatest'
    BY <1>2, <2>2, HoldsLatest, Zenon
  <2> QED
    BY <2>2, <2>3, Zenon
<1> QED
  BY <1>3, <1>4

\* The steps that leave both levels alone.
LEMMA QuietStored ==
  ASSUME Stored, UNCHANGED <<l1, limits, db, latest, since, recent>>
  PROVE  Stored'
BY Zenon DEF Stored, DbIsLatest, L1IsLatest

LEMMA ConfigureStored ==
  ASSUME Others, Stored, l1' = EmptyCache, recent' = <<>>, limits' \in Limits \cup {NoLimits},
         db' = db, OnlyLatestCounts
  PROVE  Stored' /\ latest' = latest /\ since' \in [Key -> SUBSET Response]
<1>1. limits' \in Budget
  BY CacheAssumption DEF NoLimits, Budget
<1>2. Memory(l1', limits', recent')
  BY <1>1, EmptyMemory, Zenon
<1>3. latest' = latest /\ since' = [k \in Key |-> {latest[k]} \ {None}]
  BY Zenon DEF OnlyLatestCounts
<1>4. since' \in [Key -> SUBSET Response]
  BY <1>3 DEF Others
<1>5. DbIsLatest'
  BY <1>3, Zenon DEF Stored, DbIsLatest
<1>6. L1IsLatest'
  BY DEF L1IsLatest, EmptyCache
<1> QED
  BY <1>2, <1>3, <1>4, <1>5, <1>6, Zenon DEF Stored

LEMMA LookupL1Stored ==
  ASSUME Others, Stored, NEW t \in Target, LookupL1(t)
  PROVE  Stored' /\ HitIsLatest'
<1> DEFINE k == BuildKey(t)
<1> DEFINE e == l1.list[PlaceOf(l1.list, k)]
<1>1. Memory(l1, limits, recent) /\ DbIsLatest /\ L1IsLatest /\ limits \in Budget
  BY BudgetType, Zenon DEF Stored
<1>2. /\ k \in l1.map /\ l1' = Touch(l1, k) /\ recent' = UsedNext(recent, k)
      /\ limits' = limits /\ db' = db /\ latest' = latest /\ since' = since
      /\ reply' = [status |-> "hit", key |-> k, level |-> 1, text |-> e.value]
  BY UsedIs, Zenon DEF LookupL1, stored
<1>3. /\ Memory(l1', limits, recent') /\ PlaceOf(l1.list, k) \in 1..Len(l1.list)
      /\ e \in Node /\ e.key = k /\ Holds(l1'.list, l1.list, e)
  BY <1>1, <1>2, TouchMemory, Zenon
<1>4. e.value.resp \in since[k]
  BY <1>1, <1>3, Zenon DEF L1IsLatest
<1> HIDE DEF e, k
<1>5. L1IsLatest'
  BY <1>1, <1>2, <1>3, <1>4, HoldsLatest, Zenon
<1>6. DbIsLatest'
  BY <1>1, <1>2, Zenon DEF DbIsLatest
<1>7. HitIsLatest'
  <2>1. reply'.key = k /\ reply'.level # 2 /\ reply'.text.resp = e.value.resp
    BY <1>2
  <2> QED
    BY <1>2, <1>4, <2>1, Zenon DEF HitIsLatest
<1> QED
  BY <1>2, <1>3, <1>5, <1>6, <1>7, Zenon DEF Stored

LEMMA LookupL2Stored ==
  ASSUME Others, Stored, NEW t \in Target, LookupL2(t)
  PROVE  Stored' /\ HitIsLatest'
<1> DEFINE k == BuildKey(t)
<1> DEFINE text == [resp |-> db[k].resp, form |-> "rebuilt"]
<1>1. Memory(l1, limits, recent) /\ DbIsLatest /\ L1IsLatest /\ k \in Key
  BY KeyType, Zenon DEF Stored
<1>2. /\ db[k] # None /\ limits' = limits /\ db' = db /\ latest' = latest /\ since' = since
      /\ reply' = [status |-> "hit", key |-> k, level |-> 2, text |-> text]
      /\ PutL1(k, text) \/ (l1' = l1 /\ recent' = recent)
  BY Zenon DEF LookupL2, stored
<1> HIDE DEF k
<1>3. db[k].resp = latest[k] /\ latest[k] # None /\ latest[k] \in since[k]
  BY <1>1, <1>2, Zenon DEF DbIsLatest
<1>4. text.resp = latest[k] /\ text \in Text
  <2>1. latest[k] \in Response
    BY <1>1, <1>3 DEF Others
  <2> QED
    BY <1>3, <2>1 DEF Text
<1>5. reply'.key = k /\ reply'.level = 2 /\ reply'.text.resp = latest[k]
  BY <1>2, <1>4
<1> HIDE DEF text
<1>6. Memory(l1, limits, recent)' /\ L1IsLatest'
  <2>1. CASE PutL1(k, text)
    BY <1>1, <1>2, <1>3, <1>4, <2>1, PutStored, Zenon
  <2>2. CASE l1' = l1 /\ recent' = recent
    BY <1>1, <1>2, <2>2, Zenon DEF L1IsLatest
  <2> QED
    BY <1>2, <2>1, <2>2
<1>7. DbIsLatest'
  BY <1>1, <1>2, Zenon DEF DbIsLatest
<1>8. HitIsLatest'
  BY <1>2, <1>5, Zenon DEF HitIsLatest
<1> QED
  BY <1>6, <1>7, <1>8, Zenon DEF Stored

\* A response that is too large for the first level leaves an older one there.
LEMMA StoreStored ==
  ASSUME Others, Stored, NEW t \in Target, NEW r \in Response, Store(t, r)
  PROVE  /\ Stored'
         /\ db' \in [Key -> Record \cup {None}]
         /\ latest' \in [Key -> Response \cup {None}]
         /\ since' \in [Key -> SUBSET Response]
<1> DEFINE k == BuildKey(t)
<1> DEFINE e == [resp |-> r, at |-> now, ttl |-> ComputeTtl(r)]
<1> DEFINE text == [resp |-> r, form |-> "received"]
<1>1. Memory(l1, limits, recent) /\ DbIsLatest /\ L1IsLatest /\ k \in Key
  BY KeyType, Zenon DEF Stored
<1>2. /\ db' = [db EXCEPT ![k] = e] /\ Remember(k, r) /\ limits' = limits
      /\ \/ PutL1(k, text)
         \/ l1' = l1 /\ recent' = recent /\ ~(Weight(text) <= L1MaxBody)
  BY Zenon DEF Store
<1> HIDE DEF k
<1>3. text.resp = r /\ text \in Text /\ Weight(text) = r.size /\ r.size \in Nat
  BY CacheAssumption DEF Text, Weight
<1>4. e \in Record /\ e # None /\ e.resp = r /\ r # None
  <2>1. now \in Nat
    BY CacheAssumption DEF Others
  <2>2. ComputeTtl(r) \in Nat
    BY CacheAssumption DEF ComputeTtl
  <2> QED
    BY <2>1, <2>2, CacheAssumption DEF Record
<1> HIDE DEF e, text
<1>5. /\ db' \in [Key -> Record \cup {None}] /\ latest' \in [Key -> Response \cup {None}]
      /\ db'[k] = e /\ latest'[k] = r
      /\ \A x \in Key : x # k => db'[x] = db[x] /\ latest'[x] = latest[x]
  BY <1>1, <1>2, <1>4 DEF Others, Remember
<1>6. /\ since' \in [Key -> SUBSET Response]
      /\ r \in since'[k] /\ \A x \in Key : x # k => since'[x] = since[x]
      /\ r.size > L1MaxBody => since[k] \subseteq since'[k]
  BY <1>1, <1>2 DEF Others, Remember
<1>7. Memory(l1, limits, recent)' /\ L1IsLatest'
  <2>1. CASE PutL1(k, text)
    BY <1>1, <1>2, <1>3, <1>6, <2>1, PutStored, Zenon
  <2>2. CASE l1' = l1 /\ recent' = recent /\ ~(Weight(text) <= L1MaxBody)
    <3>1. r.size > L1MaxBody
      BY <1>3, <2>2, CacheAssumption
    <3>2. ASSUME NEW i \in 1..Len(l1.list)
          PROVE  l1.list[i].value.resp \in since'[l1.list[i].key]
      <4>1. l1.list[i].key \in Key /\ l1.list[i].value.resp \in since[l1.list[i].key]
        BY <1>1, MemoryKeys, Zenon DEF L1IsLatest
      <4> QED
        BY <1>6, <3>1, <4>1, Zenon
    <3> QED
      BY <1>1, <1>2, <2>2, <3>2, Zenon DEF L1IsLatest
  <2> QED
    BY <1>2, <2>1, <2>2
<1>8. DbIsLatest'
  BY <1>1, <1>4, <1>5, <1>6, Zenon DEF DbIsLatest
<1> QED
  BY <1>5, <1>6, <1>7, <1>8, Zenon DEF Stored

-----------------------------------------------------------------------------
(* The answers of lookup.                                                  *)

LEMMA NotModifiedMeans ==
  ASSUME NEW held \in Held, NEW r, NotModified(held, r)
  PROVE  held \in Response /\ (SameTag(held, r) \/ SameDate(held, r))
<1>1. held \in Response
  BY Zenon DEF Held, NotModified
<1> QED
  BY <1>1, Zenon DEF NotModified, SameTag, SameDate

LEMMA NoAnswer ==
  ASSUME reply' = None \/ reply'.status \in {"bypass", "error", "miss"}
  PROVE  Answers'
BY DEF Answers, HitIsLatest, HeldIsCurrent

LEMMA AnswerNotModified ==
  ASSUME Others, Stored, NEW t \in Target, NEW held \in Held, LookupNotModified(t, held)
  PROVE  Answers' /\ reply' \in Reply
<1> DEFINE k == BuildKey(t)
<1>1. /\ db[k] # None /\ NotModified(held, db[k].resp) /\ latest' = latest
      /\ reply' = [status |-> "notModified", key |-> k, held |-> held]
      /\ k \in Key
  BY KeyType, Zenon DEF LookupNotModified, stored
<1> HIDE DEF k
<1>2. db[k].resp = latest[k] /\ latest[k] # None
  BY <1>1, Zenon DEF Stored, DbIsLatest
<1>3. held \in Response /\ (SameTag(held, latest[k]) \/ SameDate(held, latest[k]))
  BY <1>1, <1>2, NotModifiedMeans, Zenon
<1>4. reply'.status = "notModified" /\ reply'.key = k /\ reply'.held = held
  BY <1>1
<1>5. HeldIsCurrent'
  BY <1>1, <1>2, <1>3, <1>4, Zenon DEF HeldIsCurrent, SameTag, SameDate
<1>6. HitIsLatest'
  BY <1>4 DEF HitIsLatest
<1>7. reply' \in Reply
  BY <1>1, <1>3 DEF Reply
<1> QED
  BY <1>5, <1>6, <1>7, Zenon DEF Answers

LEMMA AnswerL1 ==
  ASSUME Others, Stored, NEW t \in Target, LookupL1(t)
  PROVE  Answers' /\ reply' \in Reply
<1> DEFINE k == BuildKey(t)
<1> DEFINE e == l1.list[PlaceOf(l1.list, k)]
<1>1. reply' = [status |-> "hit", key |-> k, level |-> 1, text |-> e.value] /\ k \in Key
  BY KeyType, Zenon DEF LookupL1
<1>2. e.value \in Text
  <2>1. e \in Node
    BY BudgetType, TouchMemory, Zenon DEF Stored, LookupL1
  <2> QED
    BY <2>1, NodeParts, Zenon
<1> HIDE DEF e, k
<1>3. HeldIsCurrent'
  BY <1>1 DEF HeldIsCurrent
<1>4. reply' \in Reply
  BY <1>1, <1>2 DEF Reply
<1> QED
  BY <1>3, <1>4, LookupL1Stored, Zenon DEF Answers

LEMMA AnswerL2 ==
  ASSUME Others, Stored, NEW t \in Target, LookupL2(t)
  PROVE  Answers' /\ reply' \in Reply
<1> DEFINE k == BuildKey(t)
<1> DEFINE text == [resp |-> db[k].resp, form |-> "rebuilt"]
<1>1. /\ db[k] # None /\ k \in Key
      /\ reply' = [status |-> "hit", key |-> k, level |-> 2, text |-> text]
  BY KeyType, Zenon DEF LookupL2
<1> HIDE DEF k
<1>2. text \in Text
  <2>1. db[k].resp = latest[k] /\ latest[k] # None
    BY <1>1, Zenon DEF Stored, DbIsLatest
  <2>2. latest[k] \in Response
    BY <1>1, <2>1 DEF Others
  <2> QED
    BY <2>1, <2>2 DEF Text
<1> HIDE DEF text
<1>3. HeldIsCurrent'
  BY <1>1 DEF HeldIsCurrent
<1>4. reply' \in Reply
  BY <1>1, <1>2 DEF Reply
<1> QED
  BY <1>3, <1>4, LookupL2Stored, Zenon DEF Answers

-----------------------------------------------------------------------------
(* The invariant holds at first, and every step keeps it.                  *)

LEMMA InitInv == Init => IInv
<1> SUFFICES ASSUME Init PROVE IInv
  OBVIOUS
<1>1. Others
  <2>1. limits \in Limits \cup {NoLimits} /\ ready \in BOOLEAN /\ reply \in Reply \cup {None}
    BY Zenon DEF Init
  <2>2. now \in 0..MaxTime
    BY CacheAssumption DEF Init
  <2>3. /\ db \in [Key -> Record \cup {None}] /\ latest \in [Key -> Response \cup {None}]
        /\ since \in [Key -> SUBSET Response]
    BY Zenon DEF Init
  <2> QED
    BY <2>1, <2>2, <2>3, Zenon DEF Others
<1>2. Memory(l1, limits, recent)
  BY <1>1, BudgetType, EmptyMemory, Zenon DEF Init
<1>3. DbIsLatest
  BY Zenon DEF DbIsLatest, Init
<1>4. L1IsLatest
  BY DEF L1IsLatest, Init, EmptyCache
<1>5. Answers
  BY Zenon DEF Answers, HitIsLatest, HeldIsCurrent, Init
<1> QED
  BY <1>1, <1>2, <1>3, <1>4, <1>5, Zenon DEF IInv, Stored

LEMMA StepInv == IInv /\ [Next]_vars => IInv'
<1> SUFFICES ASSUME IInv, [Next]_vars PROVE IInv'
  OBVIOUS
<1>0. Others /\ Stored /\ Answers
  BY Zenon DEF IInv
<1>1. CASE Open
  <2>1. reply' = None /\ ready' = TRUE /\ UNCHANGED <<l1, limits, db, now, latest, since, recent>>
    BY <1>1, Zenon DEF Open, stored
  <2>2. Others'
    BY <1>0, <2>1, Zenon DEF Others
  <2> QED
    BY <1>0, <2>1, <2>2, QuietStored, NoAnswer, Zenon DEF IInv
<1>2. ASSUME NEW lim \in Limits, ConfigureL1(lim) PROVE IInv'
  <2>1. /\ reply' = None /\ limits' \in Limits \cup {NoLimits} /\ l1' = EmptyCache /\ recent' = <<>>
        /\ UNCHANGED <<ready, db, now>> /\ OnlyLatestCounts
    BY <1>2, Zenon DEF ConfigureL1
  <2>2. Stored' /\ latest' = latest /\ since' \in [Key -> SUBSET Response]
    BY <1>0, <2>1, ConfigureStored, Zenon
  <2>3. Others'
    BY <1>0, <2>1, <2>2, Zenon DEF Others
  <2> QED
    BY <2>1, <2>2, <2>3, NoAnswer, Zenon DEF IInv
<1>3. CASE LookupRefused \/ \E t \in Target : LookupMiss(t)
  <2>1. UNCHANGED <<l1, limits, ready, db, now, latest, since, recent>>
    BY <1>3, Zenon DEF LookupRefused, LookupMiss, stored
  <2>2. \E s \in {"bypass", "error", "miss"} : reply' = [status |-> s]
    BY <1>3 DEF LookupRefused, LookupMiss
  <2>3. reply' \in Reply /\ reply'.status \in {"bypass", "error", "miss"}
    BY <2>2 DEF Reply
  <2>4. Others'
    BY <1>0, <2>1, <2>3, Zenon DEF Others
  <2> QED
    BY <1>0, <2>1, <2>3, <2>4, QuietStored, NoAnswer, Zenon DEF IInv
<1>4. ASSUME NEW t \in Target, LookupL1(t) PROVE IInv'
  <2>1. UNCHANGED <<limits, ready, db, now, latest, since>>
    BY <1>4, Zenon DEF LookupL1, stored
  <2>2. Stored' /\ Answers' /\ reply' \in Reply
    BY <1>0, <1>4, LookupL1Stored, AnswerL1, Zenon
  <2>3. Others'
    BY <1>0, <2>1, <2>2, Zenon DEF Others
  <2> QED
    BY <2>2, <2>3, Zenon DEF IInv
<1>5. ASSUME NEW t \in Target, NEW held \in Held, LookupNotModified(t, held) PROVE IInv'
  <2>1. UNCHANGED <<l1, limits, ready, db, now, latest, since, recent>>
    BY <1>5, Zenon DEF LookupNotModified, stored
  <2>2. Stored' /\ Answers' /\ reply' \in Reply
    BY <1>0, <1>5, <2>1, QuietStored, AnswerNotModified, Zenon
  <2>3. Others'
    BY <1>0, <2>1, <2>2, Zenon DEF Others
  <2> QED
    BY <2>2, <2>3, Zenon DEF IInv
<1>6. ASSUME NEW t \in Target, LookupL2(t) PROVE IInv'
  <2>1. UNCHANGED <<limits, ready, db, now, latest, since>>
    BY <1>6, Zenon DEF LookupL2, stored
  <2>2. Stored' /\ Answers' /\ reply' \in Reply
    BY <1>0, <1>6, LookupL2Stored, AnswerL2, Zenon
  <2>3. Others'
    BY <1>0, <2>1, <2>2, Zenon DEF Others
  <2> QED
    BY <2>2, <2>3, Zenon DEF IInv
<1>7. CASE StoreRefused
  <2>1. reply' = None /\ UNCHANGED <<l1, limits, ready, db, now, latest, since, recent>>
    BY <1>7, Zenon DEF StoreRefused, stored
  <2>2. Others'
    BY <1>0, <2>1, Zenon DEF Others
  <2> QED
    BY <1>0, <2>1, <2>2, QuietStored, NoAnswer, Zenon DEF IInv
<1>8. ASSUME NEW t \in Target, NEW r \in Response, Store(t, r) PROVE IInv'
  <2>1. reply' = None /\ UNCHANGED <<limits, ready, now>>
    BY <1>8, Zenon DEF Store
  <2>2. /\ Stored' /\ db' \in [Key -> Record \cup {None}]
        /\ latest' \in [Key -> Response \cup {None}] /\ since' \in [Key -> SUBSET Response]
    BY <1>0, <1>8, StoreStored, Zenon
  <2>3. Others'
    BY <1>0, <2>1, <2>2, Zenon DEF Others
  <2> QED
    BY <2>1, <2>2, <2>3, NoAnswer, Zenon DEF IInv
<1>9. CASE Tick
  <2>1. reply' = None /\ UNCHANGED <<l1, limits, ready, db, latest, since, recent>>
    BY <1>9, Zenon DEF Tick, stored
  <2>2. now' \in 0..MaxTime
    BY <1>0, <1>9, CacheAssumption DEF Tick, Others
  <2>3. Others'
    BY <1>0, <2>1, <2>2, Zenon DEF Others
  <2> QED
    BY <1>0, <2>1, <2>3, QuietStored, NoAnswer, Zenon DEF IInv
<1>10. CASE Restart
  <2>1. /\ reply' = None /\ limits' \in Limits \cup {NoLimits} /\ ready' = FALSE
        /\ l1' = EmptyCache /\ recent' = <<>> /\ UNCHANGED <<db, now>> /\ OnlyLatestCounts
    BY <1>10, Zenon DEF Restart
  <2>2. Stored' /\ latest' = latest /\ since' \in [Key -> SUBSET Response]
    BY <1>0, <2>1, ConfigureStored, Zenon
  <2>3. Others'
    BY <1>0, <2>1, <2>2, Zenon DEF Others
  <2> QED
    BY <2>1, <2>2, <2>3, NoAnswer, Zenon DEF IInv
<1>11. CASE UNCHANGED vars
  <2>1. UNCHANGED <<l1, limits, db, latest, since, recent>> /\ UNCHANGED <<ready, now, reply>>
    BY <1>11, Zenon DEF vars, stored
  <2>2. Others'
    BY <1>0, <2>1, Zenon DEF Others
  <2>3. Answers'
    BY <1>0, <2>1, Zenon DEF Answers, HitIsLatest, HeldIsCurrent
  <2> QED
    BY <1>0, <2>1, <2>2, <2>3, QuietStored, Zenon DEF IInv
<1> QED
  BY <1>1, <1>2, <1>3, <1>4, <1>5, <1>6, <1>7, <1>8, <1>9, <1>10, <1>11, Zenon DEF Next, Lookup

LEMMA AlwaysInv == Spec => []IInv
BY InitInv, StepInv, PTL DEF Spec

\* What the invariant says of the first level.
LEMMA InvMeans == IInv => TypeOK /\ L1Sound /\ IsLru
<1> SUFFICES ASSUME IInv PROVE TypeOK /\ L1Sound /\ IsLru
  OBVIOUS
<1>1. Others /\ Memory(l1, limits, recent)
  BY Zenon DEF IInv, Stored
<1>2. TypeOK
  BY <1>1, Zenon DEF TypeOK, Others, Memory, Cache
<1>3. L1Sound
  BY <1>1, Zenon DEF L1Sound, Memory
<1>4. DOMAIN l1.list = 1..Len(l1.list)
  BY <1>1, SoundIs, ListParts, Zenon DEF Memory
<1>5. IsLru
  BY <1>1, <1>4, Zenon DEF IsLru, Memory, Leads
<1> QED
  BY <1>2, <1>3, <1>5

-----------------------------------------------------------------------------
(* The results.                                                            *)

\* Every value in the two caches has the type its declaration gives it, whatever
\* is put, evicted and read (memory_cache, persistent_cache).
THEOREM CacheTypeCorrect == Spec => []TypeOK
BY AlwaysInv, InvMeans, PTL

\* L1Sound: map_, lru_list_ and total_weight_ of memory_cache agree, and both
\* budgets are kept between two calls, for all budgets and sizes.
THEOREM MemoryCacheSound == Spec => []L1Sound
BY AlwaysInv, InvMeans, PTL

\* IsLru: evict_if_needed drops what was used longest ago.
THEOREM EvictsLeastRecent == Spec => []IsLru
BY AlwaysInv, InvMeans, PTL

\* HitIsLatest: a hit of http_cache::lookup is the response last stored under the
\* key of the request, but for later ones that were too large for the first level;
\* nothing is assumed of the keys.
THEOREM HitsAreLatest == Spec => []HitIsLatest
<1>1. IInv => HitIsLatest
  BY Zenon DEF IInv, Answers
<1> QED
  BY <1>1, AlwaysInv, PTL

\* HeldIsCurrent: check_not_modified lets a 304 go only to a client that holds
\* the response last stored, or one that its validators do not tell from it;
\* nothing is assumed of the validators.
THEOREM NotModifiedIsCurrent == Spec => []HeldIsCurrent
<1>1. IInv => HeldIsCurrent
  BY Zenon DEF IInv, Answers
<1> QED
  BY <1>1, AlwaysInv, PTL
================================================================================
