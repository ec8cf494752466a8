---------------------------- MODULE Lists_proofs ----------------------------
(* What sorting, filtering and flattening give, for lists of every length,
   what is reached in rounds that add to a finite set, and the induction over
   the numbers these need. *)
EXTENDS Lists, FiniteSetTheorems, SequenceTheorems, TLAPS

-----------------------------------------------------------------------------
(* Induction, over a set of numbers: a number that is missing would leave the
   finite set below it with a successor map that reaches all but 0. *)
LEMMA NatSetInduction ==
  ASSUME NEW A \in SUBSET Nat, 0 \in A, \A n \in A : n + 1 \in A
  PROVE  A = Nat
<1> SUFFICES ASSUME NEW n \in Nat, n \notin A PROVE FALSE
  OBVIOUS
<1> DEFINE B == {i \in A : i <= n}
           f == [i \in B |-> i + 1]
<1>1. IsFiniteSet(B)
  <2>1. B \in SUBSET Nat /\ \A s \in B : s <= n
    OBVIOUS
  <2> QED
    BY <2>1, FS_BoundedSetOfNaturals
<1>2. f \in [B -> B]
  <2> SUFFICES ASSUME NEW i \in B PROVE i + 1 \in B
    OBVIOUS
  <2>1. i + 1 \in A /\ i # n /\ i \in Nat
    OBVIOUS
  <2> QED
    BY <2>1
<1>3. f \in Injection(B, B)
  BY <1>2 DEF Injection, IsInjective
<1>4. f \in Surjection(B, B)
  BY <1>1, <1>3, FS_Injection
<1>5. PICK i \in B : f[i] = 0
  <2>1. 0 \in B
    OBVIOUS
  <2> HIDE DEF f, B
  <2> QED
    BY <1>4, <2>1 DEF Surjection
<1>6. f[i] = i + 1 /\ i \in Nat
  OBVIOUS
<1> QED
  BY <1>5, <1>6

-----------------------------------------------------------------------------
StrictOrder(S, R) ==
  /\ \A x \in S : <<x, x>> \notin R
  /\ \A x, y, z \in S : <<x, y>> \in R /\ <<y, z>> \in R => <<x, z>> \in R
  /\ \A x, y \in S : x = y \/ <<x, y>> \in R \/ <<y, x>> \in R

Rank(S, R, x) == Cardinality({y \in S : <<y, x>> \in R})

(* What stands later has more before it. *)
LEMMA RankGrows ==
  ASSUME NEW S, IsFiniteSet(S), NEW R, StrictOrder(S, R), NEW x \in S
  PROVE  /\ Rank(S, R, x) \in 0..(Cardinality(S) - 1)
         /\ \A y \in S : <<x, y>> \in R => Rank(S, R, x) < Rank(S, R, y)
<1> DEFINE before(z) == {y \in S : <<y, z>> \in R}
<1>1. \A z \in S : IsFiniteSet(before(z)) /\ Cardinality(before(z)) \in Nat
  BY FS_Subset, FS_CardinalityType
<1>2. Cardinality(S) \in Nat
  BY FS_CardinalityType
<1>3. Cardinality(before(x)) < Cardinality(S)
  <2>1. before(x) \in SUBSET S /\ before(x) # S
    BY DEF StrictOrder
  <2>2. Cardinality(before(x)) <= Cardinality(S) /\ Cardinality(before(x)) # Cardinality(S)
    BY <2>1, FS_Subset
  <2> QED
    BY <2>2, <1>1, <1>2
<1>4. ASSUME NEW y \in S, <<x, y>> \in R
      PROVE  Cardinality(before(x)) < Cardinality(before(y))
  <2>1. before(x) \in SUBSET before(y) /\ before(x) # before(y)
    BY <1>4 DEF StrictOrder
  <2>2. /\ Cardinality(before(x)) <= Cardinality(before(y))
        /\ Cardinality(before(x)) # Cardinality(before(y))
    BY <2>1, <1>1, FS_Subset
  <2> QED
    BY <2>2, <1>1
<1> QED
  BY <1>1, <1>2, <1>3, <1>4 DEF Rank

(* InOrder lists every element of the set, once and in order. *)
LEMMA InOrderSorts ==
  ASSUME NEW S, IsFiniteSet(S), NEW R, StrictOrder(S, R)
  PROVE  /\ InOrder(S, R) \in Seq(S)
         /\ Len(InOrder(S, R)) = Cardinality(S)
         /\ \A i, j \in DOMAIN InOrder(S, R) :
              i < j => <<InOrder(S, R)[i], InOrder(S, R)[j]>> \in R
         /\ \A x \in S : \E i \in DOMAIN InOrder(S, R) : InOrder(S, R)[i] = x
<1> DEFINE N == Cardinality(S)
           f == [x \in S |-> Rank(S, R, x)]
           o == InOrder(S, R)
<1>1. N \in Nat
  BY FS_CardinalityType
<1>2. f \in [S -> 0..(N - 1)]
  BY RankGrows
<1>3. \A x, y \in S : f[x] = f[y] => x = y
  <2> SUFFICES ASSUME NEW x \in S, NEW y \in S, f[x] = f[y], x # y PROVE FALSE
    OBVIOUS
  <2>1. f[x] \in Int /\ f[y] \in Int
    BY <1>2
  <2>2. f[x] < f[y] \/ f[y] < f[x]
    BY RankGrows DEF StrictOrder
  <2> QED
    BY <2>1, <2>2
<1>4. f \in Injection(S, 0..(N - 1))
  BY <1>2, <1>3 DEF Injection, IsInjective
<1>5. IsFiniteSet(0..(N - 1)) /\ Cardinality(0..(N - 1)) = N
  BY <1>1, FS_Interval
<1>6. f \in Surjection(S, 0..(N - 1))
  BY <1>4, <1>5, FS_Injection
<1>7. ASSUME NEW n \in 1..N
      PROVE  o[n] \in S /\ Rank(S, R, o[n]) = n - 1
  <2>1. n - 1 \in 0..(N - 1)
    BY <1>1
  <2>2. \E x \in S : Rank(S, R, x) = n - 1
    BY <1>6, <2>1 DEF Surjection
  <2>3. o[n] = CHOOSE x \in S : Rank(S, R, x) = n - 1
    BY DEF InOrder, Rank
  <2> QED
    BY <2>2, <2>3
<1>8. o \in [1..N -> S]
  <2> DEFINE h(n) == CHOOSE x \in S : Cardinality({y \in S : <<y, x>> \in R}) = n - 1
  <2>1. o = [n \in 1..N |-> h(n)]
    BY DEF InOrder
  <2>2. \A n \in 1..N : o[n] \in S
    BY <1>7
  <2> HIDE DEF h, o
  <2> QED
    BY <2>1, <2>2
<1>9. o \in Seq(S) /\ Len(o) = N /\ DOMAIN o = 1..N
  <2> HIDE DEF o
  <2> QED
    BY <1>1, <1>8
<1>10. ASSUME NEW i \in 1..N, NEW j \in 1..N, i < j
       PROVE  <<o[i], o[j]>> \in R
  <2>1. o[i] \in S /\ o[j] \in S /\ Rank(S, R, o[i]) < Rank(S, R, o[j])
    BY <1>7, <1>10, <1>1
  <2>2. CASE o[i] = o[j]
    BY <2>1, <2>2, <1>7, <1>1
  <2>3. CASE <<o[j], o[i]>> \in R
    <3>1. Rank(S, R, o[j]) < Rank(S, R, o[i])
      BY <2>1, <2>3, RankGrows
    <3> QED
      BY <3>1, <2>1, <1>7, <1>1
  <2> QED
    BY <2>1, <2>2, <2>3 DEF StrictOrder
<1>11. ASSUME NEW x \in S PROVE \E i \in 1..N : o[i] = x
  <2>1. Rank(S, R, x) + 1 \in 1..N
    BY RankGrows, <1>1
  <2>2. o[Rank(S, R, x) + 1] \in S /\ Rank(S, R, o[Rank(S, R, x) + 1]) = Rank(S, R, x)
    BY <2>1, <1>7, <1>2
  <2>3. o[Rank(S, R, x) + 1] = x
    BY <2>2, <1>3
  <2> QED
    BY <2>1, <2>3
<1> HIDE DEF o
<1>12. /\ o \in Seq(S) /\ Len(o) = Cardinality(S)
       /\ \A i, j \in DOMAIN o : i < j => <<o[i], o[j]>> \in R
       /\ \A x \in S : \E i \in DOMAIN o : o[i] = x
  BY <1>9, <1>10, <1>11
<1> QED
  BY <1>12 DEF o

LEMMA PairOf ==
  ASSUME NEW A, NEW B, NEW x \in A, NEW y \in B
  PROVE  <<x, y>> \in A \X B
OBVIOUS

(* The places of a list in their order. *)
LEMMA AscendingMeans ==
  ASSUME NEW S, NEW x \in S, NEW y \in S
  PROVE  <<x, y>> \in Ascending(S) <=> x < y
BY PairOf DEF Ascending

LEMMA PlacesInOrder ==
  ASSUME NEW n \in Nat, NEW K \in SUBSET (1..n), NEW kept,
         kept = InOrder(K, Ascending(1..n))
  PROVE  /\ kept \in Seq(K)
         /\ \A i, j \in DOMAIN kept : i < j => kept[i] < kept[j]
         /\ \A k \in K : \E i \in DOMAIN kept : kept[i] = k
<1> DEFINE R == Ascending(1..n)
<1> HIDE DEF R
<1>1. IsFiniteSet(K)
  <2>1. IsFiniteSet(1..n)
    BY FS_Interval
  <2> QED
    BY <2>1, FS_Subset
<1>2. \A x, y \in K : <<x, y>> \in R <=> x < y
  BY AscendingMeans DEF R
<1>3. K \in SUBSET Int
  OBVIOUS
<1>4. StrictOrder(K, R)
  BY <1>2, <1>3 DEF StrictOrder
<1>5. /\ kept \in Seq(K)
      /\ \A i, j \in DOMAIN kept : i < j => <<kept[i], kept[j]>> \in R
      /\ \A x \in K : \E i \in DOMAIN kept : kept[i] = x
  BY <1>1, <1>4, InOrderSorts DEF R
<1>6. \A i \in DOMAIN kept : kept[i] \in K
  BY <1>5
<1> QED
  BY <1>2, <1>5, <1>6

(* A filter leaves a list of the items that are in T and no others, at
   increasing places of the list it was given. *)
LEMMA ThoseKept ==
  ASSUME NEW X, NEW s \in Seq(X), NEW T
  PROVE  /\ Those(s, T) \in Seq(X)
         /\ ToSet(Those(s, T)) = ToSet(s) \cap T
         /\ \E g \in [DOMAIN Those(s, T) -> DOMAIN s] :
              /\ \A n \in DOMAIN Those(s, T) : Those(s, T)[n] = s[g[n]]
              /\ \A m, n \in DOMAIN Those(s, T) : m < n => g[m] < g[n]
<1> DEFINE K == PlacesOf(s, T)
           kept == InOrder(K, Ascending(DOMAIN s))
<1>1. /\ kept \in Seq(K)
      /\ \A i, j \in DOMAIN kept : i < j => kept[i] < kept[j]
      /\ \A k \in K : \E i \in DOMAIN kept : kept[i] = k
  <2>1. Len(s) \in Nat /\ K \in SUBSET (1..Len(s)) /\ DOMAIN s = 1..Len(s)
    BY DEF PlacesOf
  <2> HIDE DEF K
  <2> QED
    BY <2>1, PlacesInOrder
<1>2. Those(s, T) = [n \in DOMAIN kept |-> s[kept[n]]]
  BY DEF Those
<1> HIDE DEF kept
<1>3. /\ DOMAIN kept = 1..Len(kept) /\ Len(kept) \in Nat
      /\ \A n \in DOMAIN kept : kept[n] \in DOMAIN s /\ s[kept[n]] \in T
  BY <1>1 DEF PlacesOf
<1>4. Those(s, T) \in Seq(X)
  <2>1. Those(s, T) \in [1..Len(kept) -> X]
    BY <1>2, <1>3
  <2> QED
    BY <2>1, <1>3
<1>5. ToSet(Those(s, T)) = ToSet(s) \cap T
  BY <1>1, <1>2, <1>3 DEF ToSet, PlacesOf
<1>6. kept \in [DOMAIN Those(s, T) -> DOMAIN s]
  BY <1>1, <1>2, <1>3
<1>7. /\ \A n \in DOMAIN Those(s, T) : Those(s, T)[n] = s[kept[n]]
      /\ \A m, n \in DOMAIN Those(s, T) : m < n => kept[m] < kept[n]
  BY <1>1, <1>2
<1> QED
  BY <1>4, <1>5, <1>6, <1>7

(* Where there are numbers there is a least one. *)
LEMMA LeastOf ==
  ASSUME NEW K \in SUBSET Nat, K # {}
  PROVE  \E i \in K : \A j \in K : i <= j
<1> SUFFICES ASSUME \A i \in K : \E j \in K : ~(i <= j) PROVE FALSE
  OBVIOUS
<1> DEFINE A == {n \in Nat : \A k \in K : n <= k}
<1>1. A \in SUBSET Nat /\ 0 \in A
  OBVIOUS
<1>2. ASSUME NEW n \in A PROVE n + 1 \in A
  <2>1. n \in Nat /\ \A k \in K : n <= k
    OBVIOUS
  <2>2. \A k \in K : k # n
    BY <2>1
  <2>3. \A k \in K : n + 1 <= k
    BY <2>1, <2>2
  <2> QED
    BY <2>1, <2>3
<1>3. A = Nat
  <2> HIDE DEF A
  <2> QED
    BY <1>1, <1>2, NatSetInduction
<1>4. PICK k \in K : TRUE
  OBVIOUS
<1>5. k \in Nat /\ k + 1 <= k
  <2>1. k + 1 \in A
    <3> HIDE DEF A
    <3> QED
      BY <1>3
  <2> QED
    BY <2>1
<1> QED
  BY <1>5

(* The first of what a filter leaves is the first the list has. *)
LEMMA ThoseFirst ==
  ASSUME NEW X, NEW s \in Seq(X), NEW T,
         NEW i \in PlacesOf(s, T), \A j \in PlacesOf(s, T) : i <= j
  PROVE  Those(s, T) # <<>> /\ Those(s, T)[1] = s[i]
<1> DEFINE K == PlacesOf(s, T)
           kept == InOrder(K, Ascending(DOMAIN s))
<1>1. /\ kept \in Seq(K)
      /\ \A m, n \in DOMAIN kept : m < n => kept[m] < kept[n]
      /\ \A k \in K : \E m \in DOMAIN kept : kept[m] = k
  <2>1. Len(s) \in Nat /\ K \in SUBSET (1..Len(s)) /\ DOMAIN s = 1..Len(s)
    BY DEF PlacesOf
  <2> HIDE DEF K
  <2> QED
    BY <2>1, PlacesInOrder
<1>2. Those(s, T) = [n \in DOMAIN kept |-> s[kept[n]]]
  BY DEF Those
<1>3. K \in SUBSET Nat /\ i \in K /\ \A j \in K : i <= j
  BY DEF PlacesOf
<1> HIDE DEF kept, K
<1>4. PICK m \in DOMAIN kept : kept[m] = i
  BY <1>1, <1>3
<1>5. /\ m \in 1..Len(kept) /\ Len(kept) \in Nat /\ DOMAIN kept = 1..Len(kept)
      /\ \A n \in DOMAIN kept : kept[n] \in K
  BY <1>1
<1>6. 1 \in DOMAIN kept /\ kept[1] \in K
  BY <1>5
<1>7. m = 1
  <2> SUFFICES ASSUME m # 1 PROVE FALSE
    OBVIOUS
  <2>1. 1 < m
    BY <1>5
  <2>2. kept[1] < i
    BY <1>1, <1>4, <1>6, <2>1
  <2>3. \A j \in K : j \in Nat /\ i <= j
    BY <1>3
  <2>4. kept[1] \in Nat /\ i \in Nat /\ i <= kept[1]
    BY ONLY <2>3, <1>3, <1>6
  <2> DEFINE first == kept[1]
  <2> HIDE DEF first
  <2>5. first < i /\ first \in Nat /\ i \in Nat /\ i <= first
    BY ONLY <2>2, <2>4 DEF first
  <2> QED
    BY ONLY <2>5
<1>8. Those(s, T)[1] = s[i] /\ 1 \in DOMAIN Those(s, T)
  BY <1>2, <1>4, <1>6, <1>7
<1> QED
  BY <1>8

-----------------------------------------------------------------------------
(* The run of concatenations behind FlattenSeq, as far as n. *)
RunTo(g, seqs, n) ==
  /\ DOMAIN g = 1..n
  /\ \A i \in 1..n : g[i] = IF i = 1 THEN seqs[i] ELSE g[i - 1] \o seqs[i]

HasRun(X, seqs, n) == n <= Len(seqs) => \E g \in [1..n -> Seq(X)] : RunTo(g, seqs, n)

LEMMA RunGrows ==
  ASSUME NEW X, NEW seqs \in Seq(Seq(X)), NEW n \in Nat, HasRun(X, seqs, n)
  PROVE  HasRun(X, seqs, n + 1)
<1> SUFFICES ASSUME n + 1 <= Len(seqs)
             PROVE  \E g \in [1..(n + 1) -> Seq(X)] : RunTo(g, seqs, n + 1)
  BY DEF HasRun
<1>1. Len(seqs) \in Nat
  OBVIOUS
<1>2. PICK h \in [1..n -> Seq(X)] : RunTo(h, seqs, n)
  BY <1>1 DEF HasRun
<1> DEFINE last == IF n = 0 THEN seqs[1] ELSE h[n] \o seqs[n + 1]
           g == [i \in 1..(n + 1) |-> IF i <= n THEN h[i] ELSE last]
<1>3. last \in Seq(X)
  <2>1. seqs[n + 1] \in Seq(X) /\ (n # 0 => h[n] \in Seq(X))
    BY <1>1, <1>2
  <2> QED
    BY <2>1
<1>4. last = IF n + 1 = 1 THEN seqs[n + 1] ELSE h[n] \o seqs[n + 1]
  OBVIOUS
<1> HIDE DEF last
<1>5. g \in [1..(n + 1) -> Seq(X)]
  BY <1>2, <1>3
<1>6. /\ \A i \in 1..n : g[i] = h[i]
      /\ g[n + 1] = last /\ DOMAIN g = 1..(n + 1)
  OBVIOUS
<1> HIDE DEF g
<1>7. RunTo(g, seqs, n + 1)
  <2> SUFFICES ASSUME NEW i \in 1..(n + 1)
               PROVE  g[i] = IF i = 1 THEN seqs[i] ELSE g[i - 1] \o seqs[i]
    BY <1>6 DEF RunTo
  <2>1. CASE i = n + 1
    <3>1. n # 0 => g[n] = h[n]
      BY <1>6
    <3> QED
      BY <2>1, <3>1, <1>4, <1>6
  <2>2. CASE i \in 1..n
    <3>1. i # 1 => i - 1 \in 1..n
      BY <2>2
    <3> QED
      BY <2>2, <3>1, <1>2, <1>6 DEF RunTo
  <2> QED
    BY <2>1, <2>2
<1> QED
  BY <1>5, <1>7

LEMMA RunExists ==
  ASSUME NEW X, NEW seqs \in Seq(Seq(X))
  PROVE  \E g : RunTo(g, seqs, Len(seqs))
<1> DEFINE A == {n \in Nat : HasRun(X, seqs, n)}
<1>1. HasRun(X, seqs, 0)
  <2>1. RunTo(<<>>, seqs, 0) /\ <<>> \in [1..0 -> Seq(X)]
    BY DEF RunTo
  <2> QED
    BY <2>1 DEF HasRun
<1>2. \A n \in Nat : HasRun(X, seqs, n) => HasRun(X, seqs, n + 1)
  BY RunGrows
<1>3. A = Nat
  <2>1. A \in SUBSET Nat /\ 0 \in A /\ \A n \in A : n + 1 \in A
    BY <1>1, <1>2
  <2> QED
    BY <2>1, NatSetInduction
<1>4. HasRun(X, seqs, Len(seqs))
  BY <1>3
<1> QED
  BY <1>4 DEF HasRun

(* Where the pieces have come to stand after i of them. *)
StartIn(g, n) == IF n = 1 THEN 0 ELSE Len(g[n - 1])
PiecesStand(X, g, seqs, i) ==
  /\ g[i] \in Seq(X)
  /\ \A n \in 1..i :
       /\ g[n] \in Seq(X)
       /\ Len(g[n]) = StartIn(g, n) + Len(seqs[n])
       /\ Len(g[n]) <= Len(g[i])
       /\ \A k \in 1..Len(seqs[n]) : g[i][StartIn(g, n) + k] = seqs[n][k]

LEMMA Joined2 ==
  ASSUME NEW X, NEW s \in Seq(X), NEW t \in Seq(X), NEW u, u = s \o t
  PROVE  /\ u \in Seq(X) /\ Len(u) = Len(s) + Len(t)
         /\ Len(u) \in Nat /\ Len(s) \in Nat /\ Len(t) \in Nat
         /\ \A k \in 1..Len(s) : u[k] = s[k]
         /\ \A k \in 1..Len(t) : u[Len(s) + k] = t[k]
OBVIOUS

LEMMA PiecesGoOn ==
  ASSUME NEW X, NEW seqs, NEW N \in Nat, \A n \in 1..N : seqs[n] \in Seq(X),
         NEW g, RunTo(g, seqs, N),
         NEW i \in 1..N, i + 1 <= N, PiecesStand(X, g, seqs, i)
  PROVE  PiecesStand(X, g, seqs, i + 1)
<1>1. g[i + 1] = g[i] \o seqs[i + 1] /\ i + 1 \in 1..N /\ i + 1 # 1
  <2>1. i + 1 \in 1..N /\ i + 1 # 1 /\ (i + 1) - 1 = i
    OBVIOUS
  <2> QED
    BY <2>1 DEF RunTo
<1>2. seqs[i + 1] \in Seq(X) /\ g[i] \in Seq(X)
  BY <1>1 DEF PiecesStand
<1>3. /\ g[i + 1] \in Seq(X) /\ Len(g[i + 1]) = Len(g[i]) + Len(seqs[i + 1])
      /\ \A k \in 1..Len(g[i]) : g[i + 1][k] = g[i][k]
      /\ \A k \in 1..Len(seqs[i + 1]) : g[i + 1][Len(g[i]) + k] = seqs[i + 1][k]
      /\ Len(g[i + 1]) \in Nat /\ Len(g[i]) \in Nat /\ Len(seqs[i + 1]) \in Nat
  <2> DEFINE s == g[i]
             t == seqs[i + 1]
             u == g[i + 1]
  <2>1. s \in Seq(X) /\ t \in Seq(X) /\ u = s \o t
    BY <1>1, <1>2
  <2> HIDE DEF s, t, u
  <2>2. /\ u \in Seq(X) /\ Len(u) = Len(s) + Len(t)
        /\ Len(u) \in Nat /\ Len(s) \in Nat /\ Len(t) \in Nat
        /\ \A k \in 1..Len(s) : u[k] = s[k]
        /\ \A k \in 1..Len(t) : u[Len(s) + k] = t[k]
    BY ONLY <2>1, Joined2
  <2> QED
    BY ONLY <2>2 DEF s, t, u
<1>4. StartIn(g, i + 1) = Len(g[i])
  <2>1. (i + 1) - 1 = i
    OBVIOUS
  <2> QED
    BY <1>1, <2>1 DEF StartIn
<1>5. ASSUME NEW n \in 1..i
      PROVE  /\ g[n] \in Seq(X)
             /\ Len(g[n]) = StartIn(g, n) + Len(seqs[n])
             /\ Len(g[n]) <= Len(g[i + 1])
             /\ \A k \in 1..Len(seqs[n]) : g[i + 1][StartIn(g, n) + k] = seqs[n][k]
  <2>1. /\ g[n] \in Seq(X) /\ Len(g[n]) = StartIn(g, n) + Len(seqs[n])
        /\ Len(g[n]) <= Len(g[i])
        /\ \A k \in 1..Len(seqs[n]) : g[i][StartIn(g, n) + k] = seqs[n][k]
    BY DEF PiecesStand
  <2>2. StartIn(g, n) \in Nat
    <3>1. n # 1 => n - 1 \in 1..i
      OBVIOUS
    <3>2. n # 1 => g[n - 1] \in Seq(X)
      BY <3>1 DEF PiecesStand
    <3> QED
      BY <3>2 DEF StartIn
  <2>3. Len(seqs[n]) \in Nat /\ Len(g[n]) \in Nat
    <3>1. seqs[n] \in Seq(X)
      OBVIOUS
    <3> QED
      BY <3>1, <2>1
  <2>4. ASSUME NEW k \in 1..Len(seqs[n])
        PROVE  g[i + 1][StartIn(g, n) + k] = seqs[n][k]
    <3>1. StartIn(g, n) + k \in 1..Len(g[i])
      BY <2>1, <2>2, <2>3, <1>3
    <3> QED
      BY <2>1, <3>1, <1>3
  <2>5. Len(g[n]) <= Len(g[i + 1])
    <3> DEFINE a == Len(g[n])  b == Len(g[i])  c == Len(seqs[i + 1])  d == Len(g[i + 1])
    <3>1. a <= b /\ d = b + c
      BY ONLY <2>1, <1>3
    <3>2. a \in Nat /\ b \in Nat /\ c \in Nat /\ d \in Nat
      BY ONLY <2>3, <1>3
    <3> HIDE DEF a, b, c, d
    <3>3. a <= d
      BY ONLY <3>1, <3>2
    <3> QED
      BY ONLY <3>3 DEF a, d
  <2> QED
    BY <2>1, <2>4, <2>5
<1>6. \A n \in 1..(i + 1) : n \in 1..i \/ n = i + 1
  OBVIOUS
<1>7. /\ g[i + 1] \in Seq(X) /\ Len(g[i + 1]) = StartIn(g, i + 1) + Len(seqs[i + 1])
      /\ Len(g[i + 1]) <= Len(g[i + 1])
      /\ \A k \in 1..Len(seqs[i + 1]) : g[i + 1][StartIn(g, i + 1) + k] = seqs[i + 1][k]
  <2>1. Len(g[i + 1]) <= Len(g[i + 1])
    <3> DEFINE d == Len(g[i + 1])
    <3>1. d \in Nat
      BY ONLY <1>3
    <3> HIDE DEF d
    <3>2. d <= d
      BY ONLY <3>1
    <3> QED
      BY ONLY <3>2 DEF d
  <2> QED
    BY ONLY <1>3, <1>4, <2>1
<1> QED
  BY <1>5, <1>6, <1>7 DEF PiecesStand

LEMMA PiecesEnd ==
  ASSUME NEW X, NEW seqs, NEW N \in Nat, \A n \in 1..N : seqs[n] \in Seq(X), N # 0,
         NEW g, RunTo(g, seqs, N)
  PROVE  PiecesStand(X, g, seqs, N)
<1> DEFINE P(m) == m + 1 <= N => PiecesStand(X, g, seqs, m + 1)
           A == {m \in Nat : P(m)}
<1>1. P(0)
  <2>1. g[1] = seqs[1] /\ seqs[1] \in Seq(X)
    <3>1. 1 \in 1..N
      OBVIOUS
    <3> QED
      BY <3>1 DEF RunTo
  <2> QED
    BY <2>1 DEF PiecesStand, StartIn
<1>2. \A m \in Nat : P(m) => P(m + 1)
  <2> SUFFICES ASSUME NEW m \in Nat, P(m), m + 2 <= N
               PROVE  PiecesStand(X, g, seqs, m + 2)
    OBVIOUS
  <2>1. /\ m + 1 \in 1..N /\ (m + 1) + 1 <= N /\ (m + 1) + 1 = m + 2
        /\ PiecesStand(X, g, seqs, m + 1)
    OBVIOUS
  <2> QED
    BY <2>1, PiecesGoOn
<1> HIDE DEF P
<1>3. A = Nat
  <2>1. A \in SUBSET Nat /\ 0 \in A /\ \A n \in A : n + 1 \in A
    BY <1>1, <1>2
  <2> QED
    BY <2>1, NatSetInduction
<1>4. P(N - 1)
  BY <1>3
<1> QED
  BY <1>4 DEF P

(* A flattened list has the pieces one after the other. *)
LEMMA FlattenPlaces ==
  ASSUME NEW X, NEW seqs \in Seq(Seq(X))
  PROVE  /\ FlattenSeq(seqs) \in Seq(X)
         /\ \E at \in [0..Len(seqs) -> Nat] :
              /\ at[0] = 0
              /\ at[Len(seqs)] = Len(FlattenSeq(seqs))
              /\ \A n \in 1..Len(seqs) :
                   /\ at[n] = at[n - 1] + Len(seqs[n])
                   /\ \A k \in 1..Len(seqs[n]) :
                        FlattenSeq(seqs)[at[n - 1] + k] = seqs[n][k]
<1> DEFINE N == Len(seqs)
<1>1. N \in Nat
  OBVIOUS
<1>2. CASE N = 0
  <2>1. seqs = <<>> /\ FlattenSeq(seqs) = <<>>
    BY <1>2 DEF FlattenSeq
  <2> DEFINE at == [i \in 0..N |-> 0]
  <2>2. at \in [0..N -> Nat] /\ at[0] = 0 /\ at[N] = Len(<<>>)
    BY <1>2
  <2>3. \A n \in 1..N : FALSE
    BY <1>2
  <2> HIDE DEF at
  <2> QED
    BY <2>1, <2>2, <2>3
<1>3. CASE N # 0
  <2> DEFINE g == CHOOSE g : g = [i \in 1..Len(seqs) |-> IF i = 1 THEN seqs[i] ELSE g[i - 1] \o seqs[i]]
             F == FlattenSeq(seqs)
  <2>1. F = g[N]
    BY <1>3 DEF FlattenSeq
  <2>2. RunTo(g, seqs, N)
    <3>1. PICK h : RunTo(h, seqs, N)
      BY RunExists
    <3> DEFINE e(i) == IF i = 1 THEN seqs[i] ELSE h[i - 1] \o seqs[i]
               h2 == [i \in 1..N |-> e(i)]
    <3>2. \A i \in 1..N : h2[i] = h[i]
      BY <3>1 DEF RunTo
    <3>3. \A i \in 1..N : e(i) = IF i = 1 THEN seqs[i] ELSE h2[i - 1] \o seqs[i]
      <4>1. \A i \in 1..N : i # 1 => i - 1 \in 1..N
        BY <1>1
      <4> QED
        BY <3>2, <4>1
    <3>5. h2 = [i \in 1..N |-> IF i = 1 THEN seqs[i] ELSE h2[i - 1] \o seqs[i]]
      BY ONLY <3>3
    <3>4. g = [i \in 1..N |-> IF i = 1 THEN seqs[i] ELSE g[i - 1] \o seqs[i]]
      <4> HIDE DEF h2
      <4> QED
        BY <3>5
    <3> HIDE DEF g
    <3> QED
      BY <3>4 DEF RunTo
  <2> HIDE DEF g
  <2>3. PiecesStand(X, g, seqs, N)
    <3>1. \A n \in 1..N : seqs[n] \in Seq(X)
      OBVIOUS
    <3> QED
      BY <1>1, <1>3, <2>2, <3>1, PiecesEnd
  <2> DEFINE at == [n \in 0..N |-> IF n = 0 THEN 0 ELSE Len(g[n])]
  <2>4. \A n \in 1..N : g[n] \in Seq(X) /\ Len(g[n]) \in Nat
    BY <2>3 DEF PiecesStand
  <2>5. at \in [0..N -> Nat] /\ at[0] = 0 /\ at[N] = Len(g[N])
    BY <1>1, <1>3, <2>4
  <2>6. \A n \in 1..N : at[n - 1] = StartIn(g, n) /\ at[n] = Len(g[n])
    BY <1>1 DEF StartIn
  <2> HIDE DEF at, F
  <2>7. /\ F \in Seq(X) /\ at[N] = Len(F)
        /\ \A n \in 1..N :
                   /\ at[n] = at[n - 1] + Len(seqs[n])
                   /\ \A k \in 1..Len(seqs[n]) : F[at[n - 1] + k] = seqs[n][k]
    BY <2>1, <2>3, <2>5, <2>6 DEF PiecesStand
  <2> QED
    BY <2>5, <2>7 DEF F
<1> QED
  BY <1>2, <1>3

-----------------------------------------------------------------------------
(* Rounds: what is reached in so many rounds from a start, each round going
   one step on from the one before. *)
Rounds(f, start, step, N) ==
  /\ f[0] = start
  /\ \A n \in 1..N : f[n] = step[f[n - 1]]
Monotone(step, U) == \A B, C \in SUBSET U : B \subseteq C => step[B] \subseteq step[C]

LEMMA RoundsExist ==
  ASSUME NEW U, NEW start \in SUBSET U, NEW step \in [SUBSET U -> SUBSET U], NEW N \in Nat
  PROVE  \E f \in [0..N -> SUBSET U] : Rounds(f, start, step, N)
<1> DEFINE P(m) == \E f \in [0..m -> SUBSET U] : Rounds(f, start, step, m)
           A == {m \in Nat : P(m)}
<1>1. P(0)
  <2> DEFINE f == [n \in 0..0 |-> start]
  <2>1. f \in [0..0 -> SUBSET U] /\ f[0] = start
    OBVIOUS
  <2> HIDE DEF f
  <2>2. Rounds(f, start, step, 0)
    BY <2>1 DEF Rounds
  <2> QED
    BY <2>1, <2>2
<1>2. ASSUME NEW m \in Nat, P(m) PROVE P(m + 1)
  <2>1. PICK f \in [0..m -> SUBSET U] : Rounds(f, start, step, m)
    BY <1>2
  <2> DEFINE e == step[f[m]]
             g == [n \in 0..(m + 1) |-> IF n = m + 1 THEN e ELSE f[n]]
  <2>2. f[m] \in SUBSET U /\ e \in SUBSET U
    OBVIOUS
  <2> HIDE DEF e
  <2>3. g \in [0..(m + 1) -> SUBSET U]
    BY <2>2
  <2>4. g[m + 1] = e /\ \A n \in 0..m : g[n] = f[n]
    OBVIOUS
  <2> HIDE DEF g
  <2>5. g[0] = start
    BY <2>1, <2>4 DEF Rounds
  <2>6. ASSUME NEW n \in 1..(m + 1) PROVE g[n] = step[g[n - 1]]
    <3>1. CASE n = m + 1
      BY <2>4, <3>1 DEF e
    <3>2. CASE n # m + 1
      <4>1. n \in 1..m /\ n \in 0..m /\ n - 1 \in 0..m
        BY <3>2
      <4> QED
        BY <2>1, <2>4, <4>1 DEF Rounds
    <3> QED
      BY <3>1, <3>2
  <2>7. Rounds(g, start, step, m + 1)
    BY <2>5, <2>6 DEF Rounds
  <2> QED
    BY <2>3, <2>7
<1> HIDE DEF P
<1>3. A = Nat
  <2>1. A \in SUBSET Nat /\ 0 \in A /\ \A n \in A : n + 1 \in A
    BY <1>1, <1>2
  <2> QED
    BY <2>1, NatSetInduction
<1>4. P(N)
  BY <1>3
<1> QED
  BY <1>4 DEF P

(* Rounds that only add to a finite set are through after as many as it has
   elements: one that adds nothing is followed by none that does. *)
LEMMA RoundsSettle ==
  ASSUME NEW U, IsFiniteSet(U), NEW step \in [SUBSET U -> SUBSET U],
         NEW N \in Nat, Cardinality(U) <= N,
         NEW f \in [0..N -> SUBSET U], NEW start, Rounds(f, start, step, N),
         start \subseteq step[start], Monotone(step, U)
  PROVE  step[f[N]] = f[N]
<1> DEFINE P(m) == m <= N =>
             /\ f[m] \subseteq step[f[m]]
             /\ step[f[m]] = f[m] \/ Cardinality(f[m]) >= m
           A == {m \in Nat : P(m)}
<1>0. \A n \in 0..N : f[n] \in SUBSET U /\ step[f[n]] \in SUBSET U
  OBVIOUS
<1>0a. \A B \in SUBSET U : IsFiniteSet(B) /\ Cardinality(B) \in Nat /\ Cardinality(B) <= Cardinality(U)
  BY FS_Subset, FS_CardinalityType
<1>1. P(0)
  <2>1. Cardinality(f[0]) >= 0 /\ f[0] = start
    BY <1>0, <1>0a DEF Rounds
  <2> QED
    BY <2>1
<1>2. ASSUME NEW m \in Nat, P(m) PROVE P(m + 1)
  <2> SUFFICES ASSUME m + 1 <= N
               PROVE  /\ f[m + 1] \subseteq step[f[m + 1]]
                      /\ step[f[m + 1]] = f[m + 1] \/ Cardinality(f[m + 1]) >= m + 1
    OBVIOUS
  <2>1. m \in 0..N /\ m + 1 \in 0..N /\ m + 1 \in 1..N /\ (m + 1) - 1 = m /\ m <= N
    OBVIOUS
  <2>2. f[m + 1] = step[f[m]]
    BY <2>1 DEF Rounds
  <2>3. f[m] \subseteq f[m + 1]
    BY <1>2, <2>1, <2>2
  <2>4. f[m + 1] \subseteq step[f[m + 1]]
    BY <1>0, <2>1, <2>2, <2>3 DEF Monotone
  <2>5. CASE f[m + 1] = f[m]
    BY <2>2, <2>4, <2>5
  <2>6. CASE f[m + 1] # f[m]
    <3>1. Cardinality(f[m]) >= m
      BY <1>2, <2>1, <2>2, <2>6
    <3>2. IsFiniteSet(f[m + 1]) /\ f[m] \in SUBSET f[m + 1] /\ Cardinality(f[m]) \in Nat /\ Cardinality(f[m + 1]) \in Nat
      BY <1>0, <1>0a, <2>1, <2>3
    <3>3. Cardinality(f[m]) <= Cardinality(f[m + 1]) /\ Cardinality(f[m]) # Cardinality(f[m + 1])
      BY <2>6, <3>2, FS_Subset
    <3>4. Cardinality(f[m + 1]) >= m + 1
      BY <3>1, <3>2, <3>3
    <3> QED
      BY <2>4, <3>4
  <2> QED
    BY <2>5, <2>6
<1> HIDE DEF P
<1>3. A = Nat
  <2>1. A \in SUBSET Nat /\ 0 \in A /\ \A n \in A : n + 1 \in A
    BY <1>1, <1>2
  <2> QED
    BY <2>1, NatSetInduction
<1>4. P(N)
  BY <1>3
<1>5. f[N] \subseteq step[f[N]] /\ (step[f[N]] = f[N] \/ Cardinality(f[N]) >= N)
  BY <1>4 DEF P
<1>6. CASE Cardinality(f[N]) >= N
  <2>1. N \in 0..N /\ f[N] \in SUBSET U /\ step[f[N]] \in SUBSET U
    BY <1>0
  <2>2. Cardinality(f[N]) = Cardinality(U)
    BY <1>0a, <1>6, <2>1, FS_CardinalityType
  <2>3. f[N] = U
    BY <2>1, <2>2, FS_Subset
  <2> QED
    BY <1>5, <2>1, <2>3
<1> QED
  BY <1>5, <1>6

LEMMA ListIsFinite ==
  ASSUME NEW X, NEW s \in Seq(X)
  PROVE  IsFiniteSet(ToSet(s)) /\ Cardinality(ToSet(s)) \in Nat /\ Cardinality(ToSet(s)) <= Len(s)
<1>1. DOMAIN s = 1..Len(s) /\ Len(s) \in Nat
  OBVIOUS
<1>2. s \in Surjection(1..Len(s), ToSet(s))
  BY <1>1 DEF Surjection, ToSet
<1>3. IsFiniteSet(1..Len(s)) /\ Cardinality(1..Len(s)) = Len(s)
  BY <1>1, FS_Interval
<1>4. IsFiniteSet(ToSet(s)) /\ Cardinality(ToSet(s)) <= Len(s)
  BY <1>2, <1>3, FS_Surjection
<1> QED
  BY <1>4, FS_CardinalityType

(* What such rounds arrive at is the least set that has the start and that a
   step does not leave. *)
Settling(f, U, start, step, N) ==
  /\ IsFiniteSet(U) /\ N \in Nat /\ Cardinality(U) <= N
  /\ step \in [SUBSET U -> SUBSET U] /\ Monotone(step, U)
  /\ f \in [0..N -> SUBSET U] /\ Rounds(f, start, step, N)
  /\ start \in SUBSET U /\ start \subseteq step[start]

LEMMA RoundsReachLeast ==
  ASSUME NEW U, NEW step, NEW N, NEW f, NEW start, Settling(f, U, start, step, N)
  PROVE  /\ f[N] \in SUBSET U /\ start \subseteq f[N] /\ step[f[N]] = f[N]
         /\ \A C \in SUBSET U : start \subseteq C /\ step[C] \subseteq C => f[N] \subseteq C
<1>0. /\ IsFiniteSet(U) /\ N \in Nat /\ Cardinality(U) <= N
      /\ step \in [SUBSET U -> SUBSET U] /\ Monotone(step, U)
      /\ f \in [0..N -> SUBSET U] /\ Rounds(f, start, step, N)
      /\ start \in SUBSET U /\ start \subseteq step[start]
  BY DEF Settling
<1>1. f[0] = start /\ N \in 0..N
  BY <1>0 DEF Rounds
<1>2. step[f[N]] = f[N]
  BY <1>0, <1>1, RoundsSettle
<1>3. ASSUME NEW C \in SUBSET U, start \subseteq C, step[C] \subseteq C
      PROVE  f[N] \subseteq C
  <2> DEFINE P(m) == m <= N => f[m] \subseteq C
             A == {m \in Nat : P(m)}
  <2>1. P(0)
    BY <1>0, <1>1, <1>3
  <2>2. ASSUME NEW m \in Nat, P(m) PROVE P(m + 1)
    <3> SUFFICES ASSUME m + 1 <= N PROVE f[m + 1] \subseteq C
      OBVIOUS
    <3>1. m \in 0..N /\ m + 1 \in 1..N /\ (m + 1) - 1 = m /\ m <= N
      BY <1>0
    <3>2. f[m + 1] = step[f[m]] /\ f[m] \in SUBSET U /\ f[m] \subseteq C
      BY <1>0, <2>2, <3>1 DEF Rounds
    <3> QED
      BY <1>0, <1>3, <3>2 DEF Monotone
  <2> HIDE DEF P
  <2>3. A = Nat
    <3>1. A \in SUBSET Nat /\ 0 \in A /\ \A n \in A : n + 1 \in A
      BY <2>1, <2>2
    <3> QED
      BY <3>1, NatSetInduction
  <2>4. P(N)
    BY <1>0, <2>3
  <2> QED
    BY <1>0, <2>4 DEF P
<1>4. start \subseteq f[N]
  <2> DEFINE P(m) == m <= N => start \subseteq f[m]
             A == {m \in Nat : P(m)}
  <2>1. P(0)
    BY <1>1
  <2>2. ASSUME NEW m \in Nat, P(m) PROVE P(m + 1)
    <3> SUFFICES ASSUME m + 1 <= N PROVE start \subseteq f[m + 1]
      OBVIOUS
    <3>1. m \in 0..N /\ m + 1 \in 1..N /\ (m + 1) - 1 = m /\ m <= N
      BY <1>0
    <3>2. f[m + 1] = step[f[m]] /\ f[m] \in SUBSET U /\ start \subseteq f[m]
      BY <1>0, <2>2, <3>1 DEF Rounds
    <3>3. step[start] \subseteq step[f[m]]
      BY <1>0, <3>2 DEF Monotone
    <3> QED
      BY <1>0, <3>2, <3>3
  <2> HIDE DEF P
  <2>3. A = Nat
    <3>1. A \in SUBSET Nat /\ 0 \in A /\ \A n \in A : n + 1 \in A
      BY <2>1, <2>2
    <3> QED
      BY <3>1, NatSetInduction
  <2>4. P(N)
    BY <1>0, <2>3
  <2> QED
    BY <1>0, <2>4 DEF P
<1> QED
  BY <1>0, <1>1, <1>2, <1>3, <1>4

(* What a finite set is mapped to is finite. *)
LEMMA ImageIsFinite ==
  ASSUME NEW S, IsFiniteSet(S), NEW f, DOMAIN f = S
  PROVE  IsFiniteSet({f[x] : x \in S})
<1> DEFINE T == {f[x] : x \in S}
           h == [x \in S |-> f[x]]
<1>1. h \in Surjection(S, T)
  BY DEF Surjection
<1> HIDE DEF T, h
<1>2. IsFiniteSet(T)
  BY <1>1, FS_Surjection
<1> QED
  BY <1>2 DEF T

-----------------------------------------------------------------------------
(* Steps one after the other, and lists that are flattened.                *)
(* A list without its last item, and that item. *)
LEMMA LastApart ==
  ASSUME NEW X, NEW n \in Nat, NEW s \in Seq(X), Len(s) = n + 1
  PROVE  \E t \in Seq(X), x \in X : s = Append(t, x) /\ Len(t) = n
<1> DEFINE t == [i \in 1..n |-> s[i]]
<1>1. /\ \A i \in 1..n : s[i] \in X
      /\ s[n + 1] \in X /\ DOMAIN s = 1..(n + 1)
  OBVIOUS
<1>2. t \in Seq(X) /\ Len(t) = n
  <2>1. t \in [1..n -> X]
    BY <1>1
  <2> QED
    BY <2>1, SeqDef
<1>3. s = Append(t, s[n + 1])
  OBVIOUS
<1> QED
  BY <1>1, <1>2, <1>3

(* What goes on from 0 to N, one step of its own at a time. *)
Steps(f, start, step, N) ==
  /\ f[0] = start
  /\ \A n \in 1..N : f[n] = step[n][f[n - 1]]

LEMMA StepsExist ==
  ASSUME NEW U, NEW start \in U, NEW N \in Nat, NEW step \in [1..N -> [U -> U]]
  PROVE  \E f \in [0..N -> U] : Steps(f, start, step, N)
<1> DEFINE P(m) == m <= N => \E f \in [0..m -> U] : Steps(f, start, step, m)
           A == {m \in Nat : P(m)}
<1>1. P(0)
  <2> DEFINE f == [n \in 0..0 |-> start]
  <2>1. f \in [0..0 -> U] /\ f[0] = start
    OBVIOUS
  <2> HIDE DEF f
  <2>2. Steps(f, start, step, 0)
    BY <2>1 DEF Steps
  <2> QED
    BY <2>1, <2>2
<1>2. ASSUME NEW m \in Nat, P(m) PROVE P(m + 1)
  <2> SUFFICES ASSUME m + 1 <= N
               PROVE  \E f \in [0..(m + 1) -> U] : Steps(f, start, step, m + 1)
    OBVIOUS
  <2>0. m <= N /\ m + 1 \in 1..N
    OBVIOUS
  <2>1. PICK f \in [0..m -> U] : Steps(f, start, step, m)
    BY <1>2, <2>0
  <2>2. f[m] \in U /\ step[m + 1] \in [U -> U] /\ step[m + 1][f[m]] \in U
    BY <2>0
  <2> DEFINE g == [n \in 0..(m + 1) |-> IF n = m + 1 THEN step[m + 1][f[m]] ELSE f[n]]
  <2>3. \A n \in 0..m : g[n] = f[n] /\ f[n] \in U
    OBVIOUS
  <2>4. g[m + 1] = step[m + 1][f[m]] /\ DOMAIN g = 0..(m + 1)
    OBVIOUS
  <2>5. g \in [0..(m + 1) -> U]
    BY <2>2
  <2> HIDE DEF g
  <2>6. g[0] = start
    BY <2>1, <2>3 DEF Steps
  <2>7. ASSUME NEW n \in 1..(m + 1) PROVE g[n] = step[n][g[n - 1]]
    <3>1. CASE n = m + 1
      <4>1. n - 1 = m /\ m \in 0..m
        BY <3>1
      <4> QED
        BY <3>1, <4>1, <2>3, <2>4
    <3>2. CASE n # m + 1
      <4>1. n \in 1..m /\ n \in 0..m /\ n - 1 \in 0..m
        BY <3>2
      <4> QED
        BY <4>1, <2>1, <2>3 DEF Steps
    <3> QED
      BY <3>1, <3>2
  <2> QED
    BY <2>5, <2>6, <2>7 DEF Steps
<1>3. A = Nat
  <2> HIDE DEF P
  <2>1. A \in SUBSET Nat /\ 0 \in A /\ \A m \in A : m + 1 \in A
    BY <1>1, <1>2
  <2> QED
    BY <2>1, NatSetInduction
<1>4. P(N)
  BY <1>3
<1> QED
  BY <1>4

-----------------------------------------------------------------------------
(* A list made of lists, one list longer. *)
LEMMA FlattenIsRun ==
  ASSUME NEW X, NEW seqs \in Seq(Seq(X)), Len(seqs) # 0
  PROVE  \E g : RunTo(g, seqs, Len(seqs)) /\ FlattenSeq(seqs) = g[Len(seqs)]
<1> DEFINE N == Len(seqs)
           g == CHOOSE g : g = [i \in 1..Len(seqs) |-> IF i = 1 THEN seqs[i] ELSE g[i - 1] \o seqs[i]]
<1>0. N \in Nat
  OBVIOUS
<1>1. FlattenSeq(seqs) = g[N]
  BY DEF FlattenSeq
<1>2. PICK h : RunTo(h, seqs, N)
  BY RunExists
<1> DEFINE e(i) == IF i = 1 THEN seqs[i] ELSE h[i - 1] \o seqs[i]
           h2 == [i \in 1..N |-> e(i)]
<1>3. \A i \in 1..N : h2[i] = h[i]
  BY <1>2 DEF RunTo
<1>4. \A i \in 1..N : e(i) = IF i = 1 THEN seqs[i] ELSE h2[i - 1] \o seqs[i]
  <2>1. \A i \in 1..N : i # 1 => i - 1 \in 1..N
    BY <1>0
  <2> QED
    BY <1>3, <2>1
<1>5. h2 = [i \in 1..N |-> IF i = 1 THEN seqs[i] ELSE h2[i - 1] \o seqs[i]]
  BY ONLY <1>4
<1>6. g = [i \in 1..N |-> IF i = 1 THEN seqs[i] ELSE g[i - 1] \o seqs[i]]
  <2> HIDE DEF h2
  <2> QED
    BY <1>5
<1> HIDE DEF g
<1>7. RunTo(g, seqs, N)
  BY <1>6 DEF RunTo
<1> QED
  BY <1>1, <1>7

SameTo(s, t, n) == \A i \in 1..n : s[i] = t[i]

LEMMA RunsAgree ==
  ASSUME NEW n \in Nat, NEW m \in Nat, n <= m, NEW s, NEW t, SameTo(s, t, n),
         NEW g, NEW h, RunTo(g, s, n), RunTo(h, t, m), n # 0
  PROVE  g[n] = h[n]
<1> DEFINE P(k) == k + 1 <= n => g[k + 1] = h[k + 1]
           A == {k \in Nat : P(k)}
<1>1. P(0)
  <2>1. 1 \in 1..n /\ 1 \in 1..m /\ 0 + 1 = 1
    OBVIOUS
  <2>2. g[1] = s[1] /\ h[1] = t[1] /\ s[1] = t[1]
    BY <2>1 DEF RunTo, SameTo
  <2> QED
    BY <2>1, <2>2
<1>2. ASSUME NEW k \in Nat, P(k) PROVE P(k + 1)
  <2> SUFFICES ASSUME (k + 1) + 1 <= n PROVE g[(k + 1) + 1] = h[(k + 1) + 1]
    OBVIOUS
  <2>1. /\ (k + 1) + 1 \in 1..n /\ (k + 1) + 1 \in 1..m /\ k + 1 <= n
        /\ ((k + 1) + 1) - 1 = k + 1 /\ (k + 1) + 1 # 1
    OBVIOUS
  <2>2. g[k + 1] = h[k + 1] /\ s[(k + 1) + 1] = t[(k + 1) + 1]
    BY <1>2, <2>1 DEF SameTo
  <2> DEFINE j == (k + 1) + 1
  <2>3. g[j] = g[k + 1] \o s[j] /\ h[j] = h[k + 1] \o t[j]
    BY <2>1 DEF RunTo
  <2> QED
    BY <2>2, <2>3
<1>3. A = Nat
  <2> HIDE DEF P
  <2>1. A \in SUBSET Nat /\ 0 \in A /\ \A k \in A : k + 1 \in A
    BY <1>1, <1>2
  <2> QED
    BY <2>1, NatSetInduction
<1>4. n - 1 \in Nat /\ (n - 1) + 1 = n
  OBVIOUS
<1>5. P(n - 1)
  BY <1>3, <1>4
<1> QED
  BY <1>4, <1>5

LEMMA FlattenNone == FlattenSeq(<<>>) = <<>>
BY DEF FlattenSeq

LEMMA FlattenGrows ==
  ASSUME NEW X, NEW q \in Seq(Seq(X)), NEW x \in Seq(X)
  PROVE  FlattenSeq(Append(q, x)) = FlattenSeq(q) \o x
<1> DEFINE N == Len(q)
           r == Append(q, x)
<1>1. /\ r \in Seq(Seq(X)) /\ Len(r) = N + 1 /\ N \in Nat /\ r[N + 1] = x
      /\ \A i \in 1..N : q[i] = r[i]
  OBVIOUS
<1> HIDE DEF r
<1>2. PICK h : RunTo(h, r, N + 1) /\ FlattenSeq(r) = h[N + 1]
  <2>1. Len(r) # 0
    BY <1>1
  <2> QED
    BY <1>1, <2>1, FlattenIsRun
<1>3. CASE N = 0
  <2>1. q = <<>> /\ FlattenSeq(q) = <<>>
    BY <1>3, FlattenNone
  <2>2. N + 1 = 1 /\ 1 \in 1..(N + 1)
    BY <1>3
  <2>3. h[1] = r[1]
    BY <1>2, <2>2 DEF RunTo
  <2>4. <<>> \o x = x
    OBVIOUS
  <2> QED
    BY <1>1, <1>2, <2>1, <2>2, <2>3, <2>4 DEF r
<1>4. CASE N # 0
  <2>1. PICK g : RunTo(g, q, N) /\ FlattenSeq(q) = g[N]
    BY <1>4, FlattenIsRun
  <2>2. g[N] = h[N]
    <3>1. N \in Nat /\ N <= N + 1 /\ N + 1 \in Nat
      BY <1>1
    <3>2. RunTo(g, q, N) /\ RunTo(h, r, N + 1) /\ N # 0
      BY <1>2, <1>4, <2>1
    <3>3. SameTo(q, r, N)
      BY <1>1 DEF SameTo
    <3> HIDE DEF N
    <3>4. PICK M \in Nat : M = N + 1
      BY <3>1
    <3>5. N <= M /\ RunTo(h, r, M)
      BY <3>1, <3>2, <3>4
    <3> QED
      BY ONLY <3>1, <3>2, <3>3, <3>5, RunsAgree
  <2>3. N + 1 \in 1..(N + 1) /\ N + 1 # 1 /\ (N + 1) - 1 = N
    BY <1>1, <1>4
  <2>4. h[N + 1] = h[N] \o r[N + 1]
    BY <1>2, <2>3 DEF RunTo
  <2> QED
    BY <1>1, <1>2, <2>1, <2>2, <2>4 DEF r
<1> QED
  BY <1>3, <1>4

LEMMA FlattenTyped ==
  ASSUME NEW X, NEW q \in Seq(Seq(X))
  PROVE  FlattenSeq(q) \in Seq(X)
BY FlattenPlaces

LEMMA JoinLater ==
  ASSUME NEW X, NEW a \in Seq(X), NEW b \in Seq(X), NEW c \in Seq(X)
  PROVE  (a \o b) \o c = a \o (b \o c) /\ a \o b \in Seq(X)
OBVIOUS

LEMMA AppendLater ==
  ASSUME NEW X, NEW a \in Seq(X), NEW b \in Seq(X), NEW x \in X
  PROVE  a \o Append(b, x) = Append(a \o b, x) /\ a \o b \in Seq(X)
OBVIOUS

LEMMA FlattenJoins ==
  ASSUME NEW X, NEW q \in Seq(Seq(X)), NEW r \in Seq(Seq(X))
  PROVE  FlattenSeq(q \o r) = FlattenSeq(q) \o FlattenSeq(r)
<1> DEFINE Y == Seq(X)
           P(n) == \A t \in Seq(Y) : Len(t) = n => FlattenSeq(q \o t) = FlattenSeq(q) \o FlattenSeq(t)
           A == {n \in Nat : P(n)}
<1>1. P(0)
  <2> SUFFICES ASSUME NEW t \in Seq(Y), Len(t) = 0 PROVE FlattenSeq(q \o t) = FlattenSeq(q) \o FlattenSeq(t)
    OBVIOUS
  <2>1. t = <<>> /\ q \o t = q
    OBVIOUS
  <2>2. FlattenSeq(q) \o <<>> = FlattenSeq(q)
    BY FlattenTyped
  <2> QED
    BY <2>1, <2>2, FlattenNone
<1>2. ASSUME NEW n \in Nat, P(n) PROVE P(n + 1)
  <2> SUFFICES ASSUME NEW t \in Seq(Y), Len(t) = n + 1
               PROVE  FlattenSeq(q \o t) = FlattenSeq(q) \o FlattenSeq(t)
    OBVIOUS
  <2> HIDE DEF Y
  <2>1. PICK u \in Seq(Y), x \in Y : t = Append(u, x) /\ Len(u) = n
    BY LastApart
  <2>2. FlattenSeq(q \o u) = FlattenSeq(q) \o FlattenSeq(u)
    BY <1>2, <2>1
  <2>3. q \in Seq(Y) /\ x \in Seq(X) /\ u \in Seq(Seq(X))
    BY DEF Y
  <2>4. q \o t = Append(q \o u, x) /\ q \o u \in Seq(Y)
    BY <2>1, <2>3, AppendLater
  <2>5. FlattenSeq(q \o t) = FlattenSeq(q \o u) \o x
    <3>1. q \o u \in Seq(Seq(X))
      BY <2>4 DEF Y
    <3> HIDE <2>1
    <3> QED
      BY <2>3, <2>4, <3>1, FlattenGrows
  <2>6. FlattenSeq(t) = FlattenSeq(u) \o x
    BY <2>1, <2>3, FlattenGrows
  <2>7. FlattenSeq(q) \in Seq(X) /\ FlattenSeq(u) \in Seq(X)
    BY <2>3, FlattenTyped
  <2>8. (FlattenSeq(q) \o FlattenSeq(u)) \o x = FlattenSeq(q) \o (FlattenSeq(u) \o x)
    <3> DEFINE a == FlattenSeq(q)
               b == FlattenSeq(u)
    <3>1. a \in Seq(X) /\ b \in Seq(X) /\ x \in Seq(X)
      BY <2>3, <2>7
    <3> HIDE DEF a, b
    <3>2. (a \o b) \o x = a \o (b \o x)
      BY ONLY <3>1, JoinLater
    <3> QED
      BY <3>2 DEF a, b
  <2> QED
    BY <2>2, <2>5, <2>6, <2>8
<1>3. A = Nat
  <2> HIDE DEF P
  <2>1. A \in SUBSET Nat /\ 0 \in A /\ \A k \in A : k + 1 \in A
    BY <1>1, <1>2
  <2> QED
    BY <2>1, NatSetInduction
<1>4. P(Len(r))
  <2>1. Len(r) \in Nat
    OBVIOUS
  <2> HIDE DEF P
  <2> QED
    BY <1>3, <2>1
<1> QED
  BY <1>4

(* Each item of a list replaced by a list. *)
Pieces(s, f) == [i \in DOMAIN s |-> f[s[i]]]
Spread(s, f) == FlattenSeq(Pieces(s, f))

LEMMA SpreadPieces ==
  ASSUME NEW S, NEW X, NEW f \in [S -> Seq(X)], NEW s \in Seq(S)
  PROVE  Pieces(s, f) \in Seq(Seq(X))
<1> DEFINE q == [i \in DOMAIN s |-> f[s[i]]]
           Y == Seq(X)
<1>1. q \in [1..Len(s) -> Seq(X)] /\ Len(s) \in Nat
  OBVIOUS
<1>2. q \in [1..Len(s) -> Y]
  BY <1>1
<1> HIDE DEF q, Y
<1>3. q \in Seq(Y)
  <2> DEFINE k == Len(s)
  <2>1. k \in Nat /\ q \in [1..k -> Y]
    BY <1>1, <1>2
  <2> HIDE DEF k
  <2> QED
    BY ONLY <2>1, SeqDef
<1> QED
  BY <1>3 DEF q, Y, Pieces

LEMMA SpreadTyped ==
  ASSUME NEW S, NEW X, NEW f \in [S -> Seq(X)], NEW s \in Seq(S)
  PROVE  Spread(s, f) \in Seq(X)
<1>1. Pieces(s, f) \in Seq(Seq(X))
  BY SpreadPieces
<1> DEFINE q == Pieces(s, f)
<1> HIDE DEF q
<1>2. q \in Seq(Seq(X))
  BY <1>1 DEF q
<1>3. FlattenSeq(q) \in Seq(X)
  BY ONLY <1>2, FlattenTyped
<1> QED
  BY <1>3 DEF Spread, q

LEMMA PiecesJoin ==
  ASSUME NEW S, NEW X, NEW f \in [S -> Seq(X)], NEW s \in Seq(S), NEW t \in Seq(S)
  PROVE  Pieces(s \o t, f) = Pieces(s, f) \o Pieces(t, f)
<1> DEFINE u == s \o t
           q == Pieces(s, f)
           r == Pieces(t, f)
           w == Pieces(u, f)
<1>1. /\ u \in Seq(S) /\ Len(u) = Len(s) + Len(t) /\ Len(s) \in Nat /\ Len(t) \in Nat
      /\ \A i \in 1..Len(u) : u[i] = IF i <= Len(s) THEN s[i] ELSE t[i - Len(s)]
  BY ConcatProperties
<1>2. /\ DOMAIN q = 1..Len(s) /\ DOMAIN r = 1..Len(t) /\ DOMAIN w = 1..Len(u)
      /\ \A i \in 1..Len(s) : q[i] = f[s[i]]
      /\ \A i \in 1..Len(t) : r[i] = f[t[i]]
      /\ \A i \in 1..Len(u) : w[i] = f[u[i]]
  BY <1>1 DEF Pieces
<1>3. q \in Seq(Seq(X)) /\ r \in Seq(Seq(X)) /\ w \in Seq(Seq(X))
  BY <1>1, SpreadPieces
<1> DEFINE v == q \o r
<1> HIDE DEF q, r, w, u
<1>4. Len(q) = Len(s) /\ Len(r) = Len(t) /\ Len(w) = Len(u)
  BY <1>1, <1>2, <1>3
<1>5. /\ v \in Seq(Seq(X)) /\ Len(v) = Len(q) + Len(r)
      /\ \A i \in 1..Len(v) : v[i] = IF i <= Len(q) THEN q[i] ELSE r[i - Len(q)]
  BY <1>3, ConcatProperties
<1> HIDE DEF v
<1>6. ASSUME NEW i \in 1..Len(w) PROVE w[i] = v[i]
  <2>1. i \in 1..Len(u) /\ i \in 1..Len(v)
    BY <1>1, <1>4, <1>5
  <2>2. CASE i <= Len(s)
    <3>1. i \in 1..Len(s)
      BY <1>1, <2>1, <2>2
    <3>2. w[i] = f[u[i]] /\ u[i] = s[i] /\ q[i] = f[s[i]]
      BY <1>1, <1>2, <2>1, <2>2, <3>1
    <3>3. v[i] = q[i]
      BY <1>4, <1>5, <2>1, <2>2
    <3> QED
      BY <3>2, <3>3
  <2>3. CASE ~(i <= Len(s))
    <3>1. i - Len(s) \in 1..Len(t)
      BY <1>1, <2>1, <2>3
    <3>2. w[i] = f[u[i]] /\ u[i] = t[i - Len(s)] /\ r[i - Len(s)] = f[t[i - Len(s)]]
      BY <1>1, <1>2, <2>1, <2>3, <3>1
    <3>3. v[i] = r[i - Len(s)]
      BY <1>4, <1>5, <2>1, <2>3
    <3> QED
      BY <3>2, <3>3
  <2> QED
    BY <2>2, <2>3
<1>7. Len(w) = Len(v)
  BY <1>1, <1>4, <1>5
<1>8. w = v
  BY <1>3, <1>5, <1>6, <1>7, SeqEqual
<1> QED
  BY <1>8 DEF w, v, u, q, r

LEMMA SpreadJoins ==
  ASSUME NEW S, NEW X, NEW f \in [S -> Seq(X)], NEW s \in Seq(S), NEW t \in Seq(S)
  PROVE  Spread(s \o t, f) = Spread(s, f) \o Spread(t, f)
<1> DEFINE q == Pieces(s, f)
           r == Pieces(t, f)
<1>1. q \in Seq(Seq(X)) /\ r \in Seq(Seq(X))
  BY SpreadPieces
<1>2. Pieces(s \o t, f) = q \o r
  BY PiecesJoin
<1> HIDE DEF q, r
<1>3. FlattenSeq(q \o r) = FlattenSeq(q) \o FlattenSeq(r)
  BY ONLY <1>1, FlattenJoins
<1> QED
  BY <1>2, <1>3 DEF Spread, q, r

LEMMA FlattenOne ==
  ASSUME NEW X, NEW x \in Seq(X)
  PROVE  FlattenSeq(<<x>>) = x
<1> DEFINE Y == Seq(X)
<1> HIDE DEF Y
<1>1. x \in Y
  BY DEF Y
<1>2. <<x>> = Append(<<>>, x) /\ <<>> \in Seq(Y)
  BY ONLY <1>1
<1>3. FlattenSeq(<<x>>) = FlattenSeq(<<>>) \o x
  BY <1>2, FlattenGrows DEF Y
<1>4. <<>> \o x = x
  OBVIOUS
<1> QED
  BY <1>3, <1>4, FlattenNone

LEMMA SpreadOne ==
  ASSUME NEW S, NEW X, NEW f \in [S -> Seq(X)], NEW x \in S
  PROVE  Spread(<<x>>, f) = f[x]
<1>1. Pieces(<<x>>, f) = <<f[x]>>
  BY DEF Pieces
<1>2. f[x] \in Seq(X)
  OBVIOUS
<1>3. FlattenSeq(<<f[x]>>) = f[x]
  BY ONLY <1>2, FlattenOne
<1> QED
  BY <1>1, <1>3 DEF Spread

LEMMA SpreadNone ==
  ASSUME NEW f
  PROVE  Spread(<<>>, f) = <<>>
<1>1. Pieces(<<>>, f) = <<>>
  BY DEF Pieces
<1> QED
  BY <1>1, FlattenNone DEF Spread

LEMMA SpreadGrows ==
  ASSUME NEW S, NEW X, NEW f \in [S -> Seq(X)], NEW s \in Seq(S), NEW x \in S
  PROVE  Spread(Append(s, x), f) = Spread(s, f) \o f[x]
<1>1. Append(s, x) = s \o <<x>> /\ <<x>> \in Seq(S)
  OBVIOUS
<1> DEFINE t == <<x>>
<1> HIDE DEF t
<1>2. t \in Seq(S) /\ Append(s, x) = s \o t
  BY <1>1 DEF t
<1>3. Spread(s \o t, f) = Spread(s, f) \o Spread(t, f)
  BY ONLY <1>2, SpreadJoins, f \in [S -> Seq(X)], s \in Seq(S)
<1>4. Spread(t, f) = f[x]
  BY SpreadOne DEF t
<1> QED
  BY <1>2, <1>3, <1>4

LEMMA LastInSet ==
  ASSUME NEW S, NEW u \in Seq(S), NEW x \in S
  PROVE  ToSet(u) \subseteq ToSet(Append(u, x)) /\ x \in ToSet(Append(u, x))
<1> DEFINE t == Append(u, x)
<1>1. /\ Len(t) = Len(u) + 1 /\ Len(u) \in Nat /\ DOMAIN t = 1..Len(t) /\ DOMAIN u = 1..Len(u)
      /\ t[Len(u) + 1] = x /\ \A i \in 1..Len(u) : t[i] = u[i]
  OBVIOUS
<1> HIDE DEF t
<1>2. x \in ToSet(t)
  <2>1. Len(u) + 1 \in DOMAIN t
    BY <1>1
  <2> QED
    BY <1>1, <2>1 DEF ToSet
<1>3. ASSUME NEW i \in DOMAIN u PROVE u[i] \in ToSet(t)
  <2>1. i \in DOMAIN t /\ t[i] = u[i]
    BY <1>1
  <2> QED
    BY <2>1 DEF ToSet
<1> QED
  BY <1>2, <1>3 DEF ToSet, t

(* What is replaced by itself alone. *)
LEMMA SpreadSame ==
  ASSUME NEW S, NEW f \in [S -> Seq(S)], NEW s \in Seq(S), \A x \in ToSet(s) : f[x] = <<x>>
  PROVE  Spread(s, f) = s
<1> DEFINE P(n) == \A t \in Seq(S) : Len(t) = n /\ (\A x \in ToSet(t) : f[x] = <<x>>) => Spread(t, f) = t
           A == {n \in Nat : P(n)}
<1>1. P(0)
  <2> SUFFICES ASSUME NEW t \in Seq(S), Len(t) = 0 PROVE Spread(t, f) = t
    OBVIOUS
  <2>1. t = <<>>
    OBVIOUS
  <2> QED
    BY <2>1, SpreadNone
<1>2. ASSUME NEW n \in Nat, P(n) PROVE P(n + 1)
  <2> SUFFICES ASSUME NEW t \in Seq(S), Len(t) = n + 1, \A x \in ToSet(t) : f[x] = <<x>>
               PROVE  Spread(t, f) = t
    OBVIOUS
  <2>1. PICK u \in Seq(S), x \in S : t = Append(u, x) /\ Len(u) = n
    BY LastApart
  <2>2. ToSet(u) \subseteq ToSet(t) /\ x \in ToSet(t)
    BY <2>1, LastInSet
  <2>3. Spread(u, f) = u /\ f[x] = <<x>>
    BY <1>2, <2>1, <2>2
  <2>4. Append(u, x) = u \o <<x>>
    OBVIOUS
  <2>5. Spread(Append(u, x), f) = Spread(u, f) \o f[x]
    BY SpreadGrows
  <2> QED
    BY <2>1, <2>3, <2>4, <2>5
<1>3. A = Nat
  <2> HIDE DEF P
  <2>1. A \in SUBSET Nat /\ 0 \in A /\ \A k \in A : k + 1 \in A
    BY <1>1, <1>2
  <2> QED
    BY <2>1, NatSetInduction
<1>4. P(Len(s))
  <2>1. Len(s) \in Nat
    OBVIOUS
  <2> HIDE DEF P
  <2> QED
    BY <1>3, <2>1
<1> QED
  BY <1>4

(* One after the other is the same as both at once. *)
Composed(s, f, g, h) == \A x \in ToSet(s) : h[x] = Spread(f[x], g)

Spreaders(S) == [S -> Seq(S)]

LEMMA SpreadTwice ==
  ASSUME NEW S, NEW f, NEW g, NEW h, NEW s, f \in Spreaders(S), g \in Spreaders(S), h \in Spreaders(S),
         s \in Seq(S), Composed(s, f, g, h)
  PROVE  Spread(Spread(s, f), g) = Spread(s, h)
<1>0. f \in [S -> Seq(S)] /\ g \in [S -> Seq(S)] /\ h \in [S -> Seq(S)]
  BY DEF Spreaders
<1> DEFINE P(n) == \A t \in Seq(S) : Len(t) = n /\ Composed(t, f, g, h) => Spread(Spread(t, f), g) = Spread(t, h)
           A == {n \in Nat : P(n)}
<1>1. P(0)
  <2> SUFFICES ASSUME NEW t \in Seq(S), Len(t) = 0 PROVE Spread(Spread(t, f), g) = Spread(t, h)
    OBVIOUS
  <2>1. t = <<>>
    OBVIOUS
  <2> QED
    BY <2>1, SpreadNone
<1>2. ASSUME NEW n \in Nat, P(n) PROVE P(n + 1)
  <2> SUFFICES ASSUME NEW t \in Seq(S), Len(t) = n + 1, Composed(t, f, g, h)
               PROVE  Spread(Spread(t, f), g) = Spread(t, h)
    OBVIOUS
  <2>1. PICK u \in Seq(S), x \in S : t = Append(u, x) /\ Len(u) = n
    BY LastApart
  <2>2. ToSet(u) \subseteq ToSet(t) /\ x \in ToSet(t)
    BY <2>1, LastInSet
  <2>3. Spread(Spread(u, f), g) = Spread(u, h) /\ h[x] = Spread(f[x], g)
    BY <1>2, <2>1, <2>2 DEF Composed
  <2>4. Spread(t, f) = Spread(u, f) \o f[x] /\ Spread(t, h) = Spread(u, h) \o h[x]
    BY <1>0, <2>1, SpreadGrows
  <2>5. Spread(u, f) \in Seq(S) /\ f[x] \in Seq(S)
    BY <1>0, SpreadTyped
  <2>6. Spread(Spread(u, f) \o f[x], g) = Spread(Spread(u, f), g) \o Spread(f[x], g)
    <3> DEFINE a == Spread(u, f)
               b == f[x]
    <3>1. a \in Seq(S) /\ b \in Seq(S) /\ g \in [S -> Seq(S)]
      BY <1>0, <2>5
    <3> HIDE DEF a, b
    <3>2. Spread(a \o b, g) = Spread(a, g) \o Spread(b, g)
      BY ONLY <3>1, SpreadJoins
    <3> QED
      BY <3>2 DEF a, b
  <2> QED
    BY <2>3, <2>4, <2>6
<1>3. A = Nat
  <2> HIDE DEF P
  <2>1. A \in SUBSET Nat /\ 0 \in A /\ \A k \in A : k + 1 \in A
    BY <1>1, <1>2
  <2> QED
    BY <2>1, NatSetInduction
<1>4. P(Len(s))
  <2>1. Len(s) \in Nat
    OBVIOUS
  <2> HIDE DEF P
  <2> QED
    BY <1>3, <2>1
<1> QED
  BY <1>4

-----------------------------------------------------------------------------
(* A filter over lists that were joined. *)
(* Increasing numbers that leave none of a run out are that run. *)
GrowsTo(g, l, K) ==
  /\ \A i, j \in 1..l : i < j => g[i] < g[j]
  /\ \A k \in K : \E i \in 1..l : g[i] = k

LEMMA RunNumbered ==
  ASSUME NEW m \in Nat, NEW n \in Nat, NEW l \in Nat, NEW g \in [1..l -> (m + 1)..(m + n)],
         GrowsTo(g, l, (m + 1)..(m + n))
  PROVE  l = n /\ \A i \in 1..n : g[i] = m + i
<1>0. /\ \A i, j \in 1..l : i < j => g[i] < g[j]
      /\ \A k \in (m + 1)..(m + n) : \E i \in 1..l : g[i] = k
  BY DEF GrowsTo
<1> DEFINE A == {k \in Nat : k <= n => k <= l /\ \A i \in 1..k : g[i] = m + i}
<1>1. A \in SUBSET Nat /\ 0 \in A
  OBVIOUS
<1>2. ASSUME NEW k \in A PROVE k + 1 \in A
  <2>1. k \in Nat /\ k + 1 \in Nat
    OBVIOUS
  <2> SUFFICES ASSUME k + 1 <= n PROVE k + 1 <= l /\ \A i \in 1..(k + 1) : g[i] = m + i
    BY <2>1
  <2>2. k <= l /\ \A i \in 1..k : g[i] = m + i
    BY <2>1
  <2>3. m + (k + 1) \in (m + 1)..(m + n)
    BY <2>1
  <2>4. PICK j \in 1..l : g[j] = m + (k + 1)
    BY <1>0, <2>3
  <2>5. j >= k + 1
    <3> SUFFICES ASSUME j < k + 1 PROVE FALSE
      BY <2>1
    <3>1. j \in 1..k
      BY <2>1
    <3> QED
      BY <2>1, <2>2, <2>4, <3>1
  <2>6. k + 1 \in 1..l
    BY <2>1, <2>5
  <2>7. g[k + 1] \in (m + 1)..(m + n)
    BY <2>6
  <2>8. g[k + 1] <= m + (k + 1)
    <3>1. CASE j = k + 1
      BY <2>4, <3>1, <2>1
    <3>2. CASE j > k + 1
      <4>1. g[k + 1] < g[j]
        BY <1>0, <2>6, <3>2
      <4> QED
        BY <2>1, <2>4, <2>7, <4>1
    <3> QED
      BY <2>1, <2>5, <3>1, <3>2
  <2>9. g[k + 1] > m + k
    <3>1. CASE k = 0
      BY <2>7, <3>1
    <3>2. CASE k # 0
      <4>1. k \in 1..k /\ k \in 1..l /\ k < k + 1
        BY <2>1, <2>2, <3>2
      <4>2. g[k] = m + k
        BY <2>2, <4>1
      <4>3. g[k] < g[k + 1]
        BY <1>0, <2>6, <4>1
      <4> QED
        BY <2>1, <2>7, <4>2, <4>3
    <3> QED
      BY <3>1, <3>2
  <2>10. g[k + 1] = m + (k + 1)
    <3> DEFINE v == g[k + 1]
    <3>1. v \in Int /\ v <= m + (k + 1) /\ v > m + k
      BY <2>7, <2>8, <2>9
    <3> HIDE DEF v
    <3>2. v = m + (k + 1)
      BY <2>1, <3>1
    <3> QED
      BY <3>2 DEF v
  <2>11. \A i \in 1..(k + 1) : i \in 1..k \/ i = k + 1
    BY <2>1
  <2> QED
    <3>1. k + 1 <= l
      BY <2>6
    <3>2. ASSUME NEW i \in 1..(k + 1) PROVE g[i] = m + i
      <4>1. CASE i \in 1..k
        BY <2>2, <4>1
      <4>2. CASE i = k + 1
        BY <2>10, <4>2
      <4> QED
        BY <2>11, <4>1, <4>2
    <3> QED
      BY <3>1, <3>2
<1>3. n \in A
  <2> HIDE DEF A
  <2> QED
    BY <1>1, <1>2, NatSetInduction
<1>4. n <= l /\ \A i \in 1..n : g[i] = m + i
  BY <1>3
<1>5. l = n
  <2> SUFFICES ASSUME n < l PROVE FALSE
    BY <1>4
  <2>1. n + 1 \in 1..l
    OBVIOUS
  <2>2. g[n + 1] \in (m + 1)..(m + n)
    BY <2>1
  <2>3. CASE n = 0
    BY <2>2, <2>3
  <2>4. CASE n # 0
    <3>1. n \in 1..n /\ n \in 1..l /\ n < n + 1
      BY <2>4
    <3>2. g[n] = m + n /\ g[n] < g[n + 1]
      BY <1>0, <1>4, <2>1, <3>1
    <3> QED
      BY <2>2, <3>2
  <2> QED
    BY <2>3, <2>4
<1> QED
  BY <1>4, <1>5

(* A filter that takes a run of a list, and nothing before or after it,
   leaves that run. *)
TakesRun(s, T, m, n) == \A i \in 1..Len(s) : s[i] \in T <=> i \in (m + 1)..(m + n)

LEMMA ThoseRun ==
  ASSUME NEW X, NEW s \in Seq(X), NEW T, NEW m \in Nat, NEW n \in Nat, m + n <= Len(s),
         TakesRun(s, T, m, n)
  PROVE  Those(s, T) = [i \in 1..n |-> s[m + i]]
<1> DEFINE K == PlacesOf(s, T)
           kept == InOrder(K, Ascending(DOMAIN s))
<1>1. Len(s) \in Nat /\ DOMAIN s = 1..Len(s)
  OBVIOUS
<1>2. K = (m + 1)..(m + n)
  BY <1>1 DEF PlacesOf, TakesRun
<1>3. /\ kept \in Seq(K)
      /\ \A i, j \in DOMAIN kept : i < j => kept[i] < kept[j]
      /\ \A k \in K : \E i \in DOMAIN kept : kept[i] = k
  <2>1. K \in SUBSET (1..Len(s))
    BY <1>1 DEF PlacesOf
  <2>2. kept = InOrder(K, Ascending(1..Len(s)))
    BY <1>1
  <2> HIDE DEF K, kept
  <2> QED
    BY ONLY <1>1, <2>1, <2>2, PlacesInOrder
<1>4. Those(s, T) = [i \in DOMAIN kept |-> s[kept[i]]]
  BY DEF Those
<1> HIDE DEF kept, K
<1> DEFINE l == Len(kept)
<1>5. l \in Nat /\ DOMAIN kept = 1..l /\ kept \in [1..l -> K]
  BY <1>3
<1> HIDE DEF l
<1>6. l = n /\ \A i \in 1..n : kept[i] = m + i
  <2>1. GrowsTo(kept, l, K)
    BY <1>3, <1>5 DEF GrowsTo
  <2> QED
    BY <1>2, <1>5, <2>1, RunNumbered
<1>7. DOMAIN kept = 1..n /\ \A i \in 1..n : s[kept[i]] = s[m + i]
  BY ONLY <1>5, <1>6
<1> QED
  BY ONLY <1>4, <1>7

(* None of the items of a list is one a filter takes, or all of them are. *)
NoneIn(s, T) == \A i \in DOMAIN s : s[i] \notin T
AllIn(s, T) == \A i \in DOMAIN s : s[i] \in T
Joined3(a, b, c) == (a \o b) \o c

LEMMA ThoseMiddle ==
  ASSUME NEW X, NEW a \in Seq(X), NEW b \in Seq(X), NEW c \in Seq(X), NEW T,
         NoneIn(a, T), AllIn(b, T), NoneIn(c, T)
  PROVE  Those(Joined3(a, b, c), T) = b
<1> DEFINE s == (a \o b) \o c
           m == Len(a)
           n == Len(b)
           k == Len(c)
<1>1. m \in Nat /\ n \in Nat /\ k \in Nat /\ DOMAIN a = 1..m /\ DOMAIN b = 1..n /\ DOMAIN c = 1..k
  OBVIOUS
<1>2. /\ s \in Seq(X) /\ Len(s) = m + n + k
      /\ \A i \in 1..m : s[i] = a[i]
      /\ \A i \in 1..n : s[m + i] = b[i]
      /\ \A i \in 1..k : s[m + n + i] = c[i]
  OBVIOUS
<1>3. b = [i \in 1..n |-> b[i]]
  BY <1>1
<1> HIDE DEF s, m, n, k
<1>4. TakesRun(s, T, m, n)
  <2> SUFFICES ASSUME NEW i \in 1..(m + n + k) PROVE s[i] \in T <=> i \in (m + 1)..(m + n)
    BY <1>2 DEF TakesRun
  <2>1. CASE i <= m
    <3>1. i \in 1..m /\ i \notin (m + 1)..(m + n)
      BY <1>1, <2>1
    <3> QED
      BY <1>1, <1>2, <3>1 DEF NoneIn
  <2>2. CASE m < i /\ i <= m + n
    <3>1. i - m \in 1..n /\ m + (i - m) = i /\ i \in (m + 1)..(m + n)
      BY <1>1, <2>2
    <3>2. s[i] = b[i - m]
      BY <1>2, <3>1
    <3> QED
      BY <1>1, <3>1, <3>2 DEF AllIn
  <2>3. CASE m + n < i
    <3>1. i - (m + n) \in 1..k /\ m + n + (i - (m + n)) = i /\ i \notin (m + 1)..(m + n)
      BY <1>1, <2>3
    <3>2. s[i] = c[i - (m + n)]
      BY <1>2, <3>1
    <3> QED
      BY <1>1, <3>1, <3>2 DEF NoneIn
  <2> QED
    BY <1>1, <2>1, <2>2, <2>3
<1>5. m + n <= Len(s)
  BY <1>1, <1>2
<1>6. Those(s, T) = [i \in 1..n |-> s[m + i]]
  BY <1>1, <1>2, <1>4, <1>5, ThoseRun
<1>7. Those(s, T) = b
  BY ONLY <1>2, <1>3, <1>6
<1> QED
  BY <1>7 DEF s, Joined3

LEMMA NothingIn ==
  ASSUME NEW X, NEW T
  PROVE  <<>> \in Seq(X) /\ NoneIn(<<>>, T) /\ \A s \in Seq(X) : s \o <<>> = s /\ <<>> \o s = s
BY DEF NoneIn

LEMMA ThoseFormer ==
  ASSUME NEW X, NEW a \in Seq(X), NEW b \in Seq(X), NEW T, AllIn(a, T), NoneIn(b, T)
  PROVE  Those(a \o b, T) = a
<1> DEFINE e == <<>>
<1>1. e \in Seq(X) /\ NoneIn(e, T) /\ e \o a = a
  BY NothingIn
<1> HIDE DEF e
<1>0. a \in Seq(X) /\ b \in Seq(X) /\ AllIn(a, T) /\ NoneIn(b, T)
  OBVIOUS
<1>2. Those(Joined3(e, a, b), T) = a
  BY ONLY <1>0, <1>1, ThoseMiddle
<1> QED
  BY <1>1, <1>2 DEF Joined3

LEMMA ThoseLatter ==
  ASSUME NEW X, NEW a \in Seq(X), NEW b \in Seq(X), NEW T, NoneIn(a, T), AllIn(b, T)
  PROVE  Those(a \o b, T) = b
<1> DEFINE e == <<>>
<1>1. e \in Seq(X) /\ NoneIn(e, T) /\ \A s \in Seq(X) : s \o e = s
  BY NothingIn
<1>2. a \o b \in Seq(X)
  OBVIOUS
<1> HIDE DEF e
<1>3. Those(Joined3(a, b, e), T) = b
  BY <1>1, ThoseMiddle
<1> QED
  BY <1>1, <1>2, <1>3 DEF Joined3
=============================================================================
