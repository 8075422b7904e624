----------------------------- MODULE ListLemmas -----------------------------
(***************************************************************************)
(* Lemmas about numbers, folds and the parts of lists of Lists, which the  *)
(* proofs about the Rust core cite.  What an induction shows is put in     *)
(* terms of sets, since a predicate cannot be handed to the provers: a set *)
(* that holds 0 and with a number the next holds every number.             *)
(***************************************************************************)
EXTENDS Lists, SequencesExt, FunctionTheorems,
        WellFoundedInduction, FiniteSetTheorems, SequenceTheorems, TLAPS

(* A set of numbers from 0 on has a least.                                 *)
LEMMA LeastNat ==
  ASSUME NEW T \in SUBSET Nat, T # {}
  PROVE  \E n \in T : \A m \in T : n <= m
<1>1. \A m, n \in Nat : m < n => <<m, n>> \in OpToRel(<, Nat)
  BY Zenon DEF OpToRel
<1>2. PICK R : /\ \A m, n \in Nat : m < n => <<m, n>> \in R
               /\ IsWellFoundedOn(R, Nat)
  BY <1>1, NatLessThanWellFounded, Zenon
<1>3. T \subseteq Nat /\ T # {} /\ IsWellFoundedOn(R, Nat)
  BY <1>2
<1>4. PICK n \in T : \A m \in T : ~ (<<m, n>> \in R)
  BY ONLY <1>3, WFMin, ZenonT(30)
<1>5. \A m \in T : ~ (m < n)
  BY <1>2, <1>3, <1>4, Zenon
<1>6. QED
  BY <1>3, <1>5

(* What holds of 0, and of the next of each that it holds of, holds up to  *)
(* any number: induction for a set, so that it can be cited.               *)
LEMMA Induct ==
  ASSUME NEW N \in Nat, NEW T, 0 \in T,
         \A n \in 0..(N - 1) : n \in T => n + 1 \in T
  PROVE  \A n \in 0..N : n \in T
<1> SUFFICES ASSUME NEW k \in 0..N, k \notin T PROVE FALSE
  OBVIOUS
<1> DEFINE Bad == {n \in 0..N : n \notin T}
<1>1. Bad \in SUBSET Nat /\ Bad # {}
  OBVIOUS
<1>2. PICK n \in Bad : \A m \in Bad : n <= m
  BY <1>1, LeastNat
<1>3. n \in 0..N /\ n # 0 /\ n \notin T
  BY <1>2
<1>4. n - 1 \in 0..(N - 1) /\ n - 1 \in 0..N
  BY <1>3
<1>5. n - 1 \in T
  BY <1>2, <1>3, <1>4
<1>6. (n - 1) + 1 \in T
  BY <1>4, <1>5
<1>7. QED
  BY <1>3, <1>6

(* Of numbers up to some there is a greatest.                              *)
LEMMA MaxIs ==
  ASSUME NEW N \in Nat, NEW T \in SUBSET (1..N), T # {}
  PROVE  Max(T) \in T /\ \A n \in T : n <= Max(T)
<1> DEFINE D == {N - n : n \in T}
<1>1. \A n \in T : n \in 1..N
  OBVIOUS
<1>2. D \in SUBSET Nat /\ D # {}
  <2>1. \A n \in T : N - n \in Nat
    BY <1>1
  <2>2. QED
    BY <2>1
<1>3. PICK d \in D : \A e \in D : d <= e
  BY <1>2, LeastNat
<1>4. PICK m \in T : d = N - m
  BY <1>3
<1>5. \A n \in T : m >= n
  <2> SUFFICES ASSUME NEW n \in T PROVE m >= n
    OBVIOUS
  <2>1. N - m <= N - n
    BY <1>3, <1>4
  <2>2. QED
    BY <1>1, <2>1
<1>6. \E x \in T : \A y \in T : x >= y
  BY <1>5
<1>7. Max(T) \in T /\ \A y \in T : Max(T) >= y
  BY <1>6, Zenon DEF Max
<1>8. QED
  BY <1>1, <1>7

(* And so there is a least.                                                *)
LEMMA MinIs ==
  ASSUME NEW T \in SUBSET Nat, T # {}
  PROVE  Min(T) \in T /\ \A n \in T : Min(T) <= n
<1>1. \E x \in T : \A y \in T : x =< y
  BY LeastNat
<1>2. QED
  BY <1>1, Zenon DEF Min

(* The step of a fold as a function, and the recursion over the greatest   *)
(* of a set of numbers that the folds of a list are.                       *)
StepOn(N, Acc) == [Acc \X (1..N) -> Acc]
FoldsBy(h, N, base, step) ==
  \A U \in SUBSET (1..N) :
    h[U] = IF U = {} THEN base ELSE step[<<h[U \ {Max(U)}], Max(U)>>]

(* Such a recursion is well-defined.                                       *)
LEMMA FoldExists ==
  ASSUME NEW N \in Nat, NEW Acc, NEW base \in Acc,
         NEW step \in StepOn(N, Acc)
  PROVE  \E h \in [SUBSET (1..N) -> Acc] : FoldsBy(h, N, base, step)
<1> SUFFICES \E h \in [SUBSET (1..N) -> Acc] :
               \A U \in SUBSET (1..N) :
                 h[U] = IF U = {} THEN base
                        ELSE step[<<h[U \ {Max(U)}], Max(U)>>]
  BY DEF FoldsBy
<1> USE DEF StepOn
<1> DEFINE S == SUBSET (1..N)
           H == [S -> Acc]
           Is(h, U) == h[U] = IF U = {} THEN base
                              ELSE step[<<h[U \ {Max(U)}], Max(U)>>]
           T == {k \in 0..N : \E h \in H : \A U \in SUBSET (1..k) : Is(h, U)}
<1>1. 0 \in T
  <2>1. [U \in S |-> base] \in H
    OBVIOUS
  <2>2. \A U \in SUBSET (1..0) : U = {} /\ U \in S
    OBVIOUS
  <2>3. \A U \in SUBSET (1..0) : Is([V \in S |-> base], U)
    BY <2>2
  <2>4. \E h \in H : \A U \in SUBSET (1..0) : Is(h, U)
    <3> HIDE DEF H, Is
    <3>1. QED
      BY <2>1, <2>3
  <2>5. 0 \in 0..N
    OBVIOUS
  <2>6. QED
    BY <2>4, <2>5, Zenon
<1>2. ASSUME NEW k \in 0..(N - 1), k \in T PROVE k + 1 \in T
  <2>1. PICK h \in H : \A U \in SUBSET (1..k) : Is(h, U)
    BY <1>2
  <2> DEFINE g == [U \in S |-> IF U = {} THEN base
                               ELSE step[<<h[U \ {Max(U)}], Max(U)>>]]
  <2>2. \A U \in S : U # {} => U \ {Max(U)} \in S /\ Max(U) \in 1..N
    BY MaxIs
  <2>3. g \in H
    <3>1. ASSUME NEW U \in S, U # {}
          PROVE  step[<<h[U \ {Max(U)}], Max(U)>>] \in Acc
      <4>1. h[U \ {Max(U)}] \in Acc /\ Max(U) \in 1..N
        BY <2>1, <2>2, <3>1
      <4>2. QED
        BY <4>1
    <3>2. QED
      BY <3>1
  <2>4. ASSUME NEW U \in SUBSET (1..(k + 1)), U # {}
        PROVE  /\ U \in S /\ U \ {Max(U)} \in SUBSET (1..k)
               /\ U \ {Max(U)} \in S
    <3>1. U \in S
      OBVIOUS
    <3>2. Max(U) \in U /\ \A n \in U : n <= Max(U)
      BY <2>4, <3>1, MaxIs
    <3>3. \A n \in U : n \in 1..(k + 1)
      OBVIOUS
    <3>4. \A n \in U \ {Max(U)} : n \in 1..k
      <4> SUFFICES ASSUME NEW n \in U, n # Max(U) PROVE n \in 1..k
        OBVIOUS
      <4>1. PICK m : m = Max(U)
        OBVIOUS
      <4>2. m \in 1..(k + 1) /\ n \in 1..(k + 1) /\ n <= m /\ n # m
        BY <3>2, <3>3, <4>1
      <4>3. QED
        BY <4>2
    <3>5. QED
      BY <2>2, <2>4, <3>1, <3>4
  <2>5. ASSUME NEW U \in SUBSET (1..k) PROVE U \in S /\ g[U] = h[U]
    <3>1. U \in S
      OBVIOUS
    <3>2. QED
      BY <2>1, <3>1
  <2>6. ASSUME NEW U \in SUBSET (1..(k + 1)) PROVE Is(g, U)
    <3>1. CASE U = {}
      BY <3>1
    <3>2. CASE U # {}
      <4>1. /\ U \in S /\ U \ {Max(U)} \in SUBSET (1..k)
        BY <2>4, <3>2
      <4>2. g[U] = step[<<h[U \ {Max(U)}], Max(U)>>]
        BY <3>2, <4>1
      <4>3. g[U \ {Max(U)}] = h[U \ {Max(U)}]
        BY <2>5, <4>1
      <4>4. QED
        BY <3>2, <4>2, <4>3, Zenon
    <3>3. QED
      BY <3>1, <3>2
  <2>7. \E f \in H : \A U \in SUBSET (1..(k + 1)) : Is(f, U)
    <3> HIDE DEF g, Is, H
    <3>1. QED
      BY <2>3, <2>6
  <2>8. k + 1 \in 0..N
    OBVIOUS
  <2>9. QED
    BY <2>7, <2>8
<1>3. N \in T
  <2> HIDE DEF T
  <2>1. QED
    BY <1>1, <1>2, Induct
<1>4. QED
  BY <1>3

(* The steps of a recursion over the greatest of a set of numbers.         *)
LEMMA UpTo ==
  ASSUME NEW n \in Nat
  PROVE  /\ 1..(n + 1) # {} /\ Max(1..(n + 1)) = n + 1
         /\ (1..(n + 1)) \ {n + 1} = 1..n
<1>1. /\ n + 1 \in Nat /\ (1..(n + 1)) \in SUBSET (1..(n + 1))
      /\ 1..(n + 1) # {}
  OBVIOUS
<1>2. PICK k : k = n + 1
  OBVIOUS
<1>3. /\ Max(1..k) \in 1..k
      /\ \A m \in 1..k : m <= Max(1..k)
  BY <1>1, <1>2, MaxIs
<1>4. QED
  BY <1>2, <1>3

(* What a fold has got to after each of the members.                       *)
FoldsWithin(it, N, Acc, base, step) ==
  /\ it[{}] = base
  /\ \A U \in SUBSET (1..N) : U # {} /\ it[U \ {Max(U)}] \in Acc =>
       it[U] = step[<<it[U \ {Max(U)}], Max(U)>>]
GoesBy(acc, N, base, step) ==
  /\ acc[0] = base
  /\ \A n \in 0..(N - 1) : acc[n + 1] = step[<<acc[n], n + 1>>]

(* The fold of a list is the last of the values that the step makes one    *)
(* after the other, from the first entry on.                               *)
LEMMA FoldSteps ==
  ASSUME NEW N \in Nat, NEW Acc, NEW base \in Acc,
         NEW step \in StepOn(N, Acc),
         NEW it, FoldsWithin(it, N, Acc, base, step)
  PROVE  \E acc \in [0..N -> Acc] :
           acc[N] = it[1..N] /\ GoesBy(acc, N, base, step)
<1> USE DEF StepOn, FoldsWithin, GoesBy
<1>1. it[1..0] = base
  <2>1. 1..0 = {}
    OBVIOUS
  <2>2. QED
    BY <2>1
<1>2. \A n \in 0..(N - 1) : it[1..n] \in Acc =>
        it[1..(n + 1)] = step[<<it[1..n], n + 1>>]
  <2> TAKE n \in 0..(N - 1)
  <2>1. n \in Nat
    OBVIOUS
  <2>2. /\ 1..(n + 1) # {} /\ Max(1..(n + 1)) = n + 1
        /\ (1..(n + 1)) \ {n + 1} = 1..n
    BY <2>1, UpTo
  <2>3. 1..(n + 1) \in SUBSET (1..N)
    OBVIOUS
  <2>4. PICK U \in SUBSET (1..N) : U = 1..(n + 1)
    BY <2>3
  <2>5. U \ {Max(U)} = 1..n /\ Max(U) = n + 1 /\ U # {}
    BY <2>2, <2>4
  <2>6. QED
    BY <2>4, <2>5
<1>3. PICK T : T = {n \in 0..N : it[1..n] \in Acc}
  OBVIOUS
<1>4. 0 \in T
  BY <1>1, <1>3
<1>5. \A n \in 0..(N - 1) : n \in T => n + 1 \in T
  <2> SUFFICES ASSUME NEW n \in 0..(N - 1), it[1..n] \in Acc
               PROVE  it[1..(n + 1)] \in Acc
    BY <1>3
  <2>1. it[1..(n + 1)] = step[<<it[1..n], n + 1>>]
    BY <1>2
  <2>2. n + 1 \in 1..N
    OBVIOUS
  <2>3. QED
    BY <2>1, <2>2
<1>6. \A n \in 0..N : n \in T
  BY <1>4, <1>5, Induct
<1> DEFINE acc == [n \in 0..N |-> it[1..n]]
<1>7. acc \in [0..N -> Acc]
  BY <1>3, <1>6
<1>8. acc[0] = base /\ acc[N] = it[1..N]
  BY <1>1
<1>9. \A n \in 0..(N - 1) : acc[n + 1] = step[<<acc[n], n + 1>>]
  BY <1>2, <1>3, <1>6
<1>10. QED
  BY <1>7, <1>8, <1>9

-----------------------------------------------------------------------------
(* The pairs of b put the members of S in a row.                           *)
InARow(S, b) ==
  /\ \A i \in S : <<i, i>> \notin b
  /\ \A i, j, k \in S : <<i, j>> \in b /\ <<j, k>> \in b => <<i, k>> \in b
  /\ \A i, j \in S : i # j => <<i, j>> \in b \/ <<j, i>> \in b

(* How many of S come before i in it.                                      *)
Rank(S, b, i) == Cardinality({j \in S : <<j, i>> \in b})

(* Under a strict order, how many of a finite set come before each tells   *)
(* them apart and counts from 0 without a gap.                             *)
LEMMA RanksCount ==
  ASSUME NEW S, IsFiniteSet(S), NEW b,
         InARow(S, b)
  PROVE  /\ Cardinality(S) \in Nat
         /\ \A i \in S : Rank(S, b, i) \in 0..(Cardinality(S) - 1)
         /\ \A i, k \in S : <<i, k>> \in b => Rank(S, b, i) < Rank(S, b, k)
         /\ \A n \in 1..Cardinality(S) : \E i \in S : Rank(S, b, i) = n - 1
<1> DEFINE Down(i) == {j \in S : <<j, i>> \in b}
           N == Cardinality(S)
<1>1. N \in Nat
  BY FS_CardinalityType
<1>2. \A i \in S : /\ Down(i) \in SUBSET S /\ i \notin Down(i)
                   /\ Down(i) # S
  BY DEF InARow
<1>3. \A i \in S : IsFiniteSet(Down(i)) /\ Cardinality(Down(i)) \in Nat
  BY <1>2, FS_Subset, FS_CardinalityType
<1>4. \A i \in S : Cardinality(Down(i)) \in 0..(N - 1)
  <2> SUFFICES ASSUME NEW i \in S PROVE Cardinality(Down(i)) \in 0..(N - 1)
    OBVIOUS
  <2>1. Cardinality(Down(i)) <= N /\ Cardinality(Down(i)) # N
    <3> HIDE DEF Down
    <3>1. QED
      BY <1>2, FS_Subset
  <2>2. QED
    BY <1>1, <1>3, <2>1
<1>5. \A i, k \in S : <<i, k>> \in b =>
        Cardinality(Down(i)) < Cardinality(Down(k))
  <2> SUFFICES ASSUME NEW i \in S, NEW k \in S, <<i, k>> \in b
               PROVE  Cardinality(Down(i)) < Cardinality(Down(k))
    OBVIOUS
  <2>1. Down(i) \in SUBSET Down(k) /\ Down(i) # Down(k)
    BY DEF InARow
  <2>2. /\ Cardinality(Down(i)) <= Cardinality(Down(k))
        /\ Cardinality(Down(i)) # Cardinality(Down(k))
    <3> HIDE DEF Down
    <3>1. QED
      BY <1>3, <2>1, FS_Subset
  <2>3. QED
    BY <1>3, <2>2
<1>6. \A n \in 1..N : \E i \in S : Cardinality(Down(i)) = n - 1
  <2> DEFINE rank == [i \in S |-> Cardinality(Down(i)) + 1]
  <2>1. \A i \in S : rank[i] = Cardinality(Down(i)) + 1
    OBVIOUS
  <2>2. IsFiniteSet(1..N) /\ Cardinality(1..N) = N
    BY <1>1, FS_Interval
  <2>3. rank \in [S -> 1..N]
    <3>1. \A i \in S : Cardinality(Down(i)) + 1 \in 1..N
      BY <1>1, <1>4
    <3>2. QED
      BY <3>1
  <2>4. \A i, k \in S : rank[i] = rank[k] => i = k
    <3> SUFFICES ASSUME NEW i \in S, NEW k \in S, rank[i] = rank[k], i # k
                 PROVE  FALSE
      OBVIOUS
    <3>1. /\ Cardinality(Down(i)) = Cardinality(Down(k))
          /\ Cardinality(Down(i)) \in Nat
      <4> HIDE DEF rank, Down
      <4>1. QED
        BY <1>3, <2>1
    <3>2. <<i, k>> \in b \/ <<k, i>> \in b
      BY DEF InARow
    <3>3. Cardinality(Down(i)) < Cardinality(Down(k))
          \/ Cardinality(Down(k)) < Cardinality(Down(i))
      BY <1>5, <3>2, Zenon
    <3>4. QED
      BY <3>1, <3>3
  <2>5. rank \in Injection(S, 1..N)
    BY <2>3, <2>4, Fun_IsInj
  <2>6. rank \in Surjection(S, 1..N)
    BY <2>2, <2>5, FS_Injection
  <2>7. \A n \in 1..N : \E i \in S : rank[i] = n
    BY <2>6 DEF Surjection
  <2>8. QED
    <3> SUFFICES ASSUME NEW n \in 1..N
                 PROVE  \E i \in S : Cardinality(Down(i)) = n - 1
      OBVIOUS
    <3>1. PICK i \in S : rank[i] = n
      BY <2>7
    <3>2. Cardinality(Down(i)) = n - 1
      <4> HIDE DEF rank, Down
      <4>1. QED
        BY <1>3, <2>1, <3>1
    <3>3. QED
      BY <3>2
<1>7. \A i : Rank(S, b, i) = Cardinality(Down(i))
  BY DEF Rank
<1> HIDE DEF Down
<1>8. QED
  BY <1>1, <1>4, <1>5, <1>6, <1>7, Zenon

(* The members of a set under an order that is a set of pairs.             *)
ByRank(S, b) ==
  [n \in 1..Cardinality(S) |-> CHOOSE i \in S : Rank(S, b, i) = n - 1]

(* Such a set is arranged with each member once, in order.                 *)
LEMMA InOrder ==
  ASSUME NEW S, IsFiniteSet(S), NEW b,
         InARow(S, b),
         NEW f, f = ByRank(S, b)
  PROVE  /\ Cardinality(S) \in Nat /\ f \in [1..Cardinality(S) -> S]
         /\ \A m, n \in 1..Cardinality(S) : m < n => <<f[m], f[n]>> \in b
         /\ \A i \in S : \E n \in 1..Cardinality(S) : f[n] = i
<1> DEFINE N == Cardinality(S)
           rank(i) == Rank(S, b, i)
<1>1. /\ N \in Nat
      /\ \A i \in S : rank(i) \in 0..(N - 1)
      /\ \A i, k \in S : <<i, k>> \in b => rank(i) < rank(k)
      /\ \A n \in 1..N : \E i \in S : rank(i) = n - 1
  BY RanksCount
<1>2. \A n \in 1..N : f[n] \in S /\ rank(f[n]) = n - 1
  <2> SUFFICES ASSUME NEW n \in 1..N PROVE f[n] \in S /\ rank(f[n]) = n - 1
    OBVIOUS
  <2>1. f[n] = CHOOSE i \in S : rank(i) = n - 1
    BY DEF ByRank
  <2>2. \E i \in S : rank(i) = n - 1
    BY <1>1
  <2>3. QED
    BY <2>1, <2>2, Zenon
<1>3. f \in [1..N -> S]
  BY <1>2 DEF ByRank
<1>4. ASSUME NEW m \in 1..N, NEW n \in 1..N, m < n
      PROVE  <<f[m], f[n]>> \in b
  <2>1. rank(f[m]) < rank(f[n])
    <3> HIDE DEF rank
    <3>1. rank(f[m]) = m - 1 /\ rank(f[n]) = n - 1
      BY <1>2
    <3>2. QED
      BY <1>4, <3>1
  <2>2. f[m] \in S /\ f[n] \in S
    BY <1>2
  <2>3. f[m] # f[n]
    <3> HIDE DEF rank
    <3>1. rank(f[m]) = m - 1 /\ rank(f[n]) = n - 1
      BY <1>2
    <3>2. f[m] = f[n] => m - 1 = n - 1
      BY <3>1, Zenon
    <3>3. m - 1 # n - 1
      BY <1>4
    <3>4. QED
      BY <3>2, <3>3, Zenon
  <2>4. ~ (<<f[n], f[m]>> \in b)
    <3> HIDE DEF rank
    <3>1. rank(f[m]) = m - 1 /\ rank(f[n]) = n - 1
      BY <1>2
    <3>2. <<f[n], f[m]>> \in b => rank(f[n]) < rank(f[m])
      BY <1>1, <2>2
    <3>3. QED
      BY <1>4, <3>1, <3>2
  <2>5. QED
    BY <2>2, <2>3, <2>4 DEF InARow
<1>5. ASSUME NEW i \in S PROVE \E n \in 1..N : f[n] = i
  <2> HIDE DEF rank
  <2>1. PICK n : n = rank(i) + 1
    OBVIOUS
  <2>2. n \in 1..N
    BY <1>1, <2>1
  <2>3. f[n] \in S /\ rank(f[n]) = n - 1
    BY <1>2, <2>2
  <2>4. rank(f[n]) = rank(i)
    BY <1>1, <2>1, <2>3
  <2>5. f[n] # i => <<f[n], i>> \in b \/ <<i, f[n]>> \in b
    BY <2>3 DEF InARow
  <2>6. f[n] # i => rank(f[n]) < rank(i) \/ rank(i) < rank(f[n])
    BY <1>1, <2>3, <2>5
  <2>7. rank(i) \in Int
    BY <1>1
  <2>8. f[n] = i
    <3>1. ~ (rank(i) < rank(i))
      BY <2>7
    <3>2. QED
      BY <2>4, <2>6, <3>1, Zenon
  <2>9. QED
    BY <2>2, <2>8
<1>6. QED
  BY <1>1, <1>3, <1>4, <1>5

(* f goes through the numbers of a set upwards.                            *)
GoesThrough(f, N, at) ==
  /\ f \in [1..N -> at]
  /\ \A m, n \in 1..N : m < n => f[m] < f[n]
  /\ \A i \in at : \E n \in 1..N : f[n] = i

(* Numbers are arranged ascending.                                         *)
LEMMA Ascending ==
  ASSUME NEW at \in SUBSET Int, IsFiniteSet(at), NEW f, f = Upwards(at)
  PROVE  Cardinality(at) \in Nat /\ GoesThrough(f, Cardinality(at), at)
<1> DEFINE b == {p \in at \X at : p[1] < p[2]}
<1>1. \A i, j \in at : <<i, j>> \in b <=> i < j
  OBVIOUS
<1>2. \A i \in at : i \in Int
  OBVIOUS
<1> HIDE DEF b
<1>3. InARow(at, b)
  <2>1. /\ \A i \in at : ~ (i < i)
        /\ \A i, j, k \in at : i < j /\ j < k => i < k
        /\ \A i, j \in at : i # j => i < j \/ j < i
    BY <1>2
  <2>2. QED
    BY <1>1, <2>1, Zenon DEF InARow
<1>4. \A i \in at : {j \in at : j < i} = {j \in at : <<j, i>> \in b}
  BY <1>1
<1> DEFINE A(n) == CHOOSE i \in at : Cardinality({j \in at : j < i}) = n - 1
           B(n) ==
             CHOOSE i \in at : Cardinality({j \in at : <<j, i>> \in b}) = n - 1
<1>5. f = ByRank(at, b)
  <2>1. \A n : A(n) = B(n)
    BY <1>4
  <2>2. f = [n \in 1..Cardinality(at) |-> A(n)]
    BY Zenon DEF Upwards, Arranged
  <2>3. ByRank(at, b) = [n \in 1..Cardinality(at) |-> B(n)]
    BY DEF ByRank, Rank
  <2> HIDE DEF A, B
  <2>4. QED
    BY <2>1, <2>2, <2>3
<1>6. /\ Cardinality(at) \in Nat /\ f \in [1..Cardinality(at) -> at]
      /\ \A m, n \in 1..Cardinality(at) : m < n => <<f[m], f[n]>> \in b
      /\ \A i \in at : \E n \in 1..Cardinality(at) : f[n] = i
  <2>1. IsFiniteSet(at)
    OBVIOUS
  <2>2. QED
    BY ONLY <1>3, <1>5, <2>1, InOrder
<1>7. QED
  BY <1>1, <1>6 DEF GoesThrough

-----------------------------------------------------------------------------
(* There is one way to do so.                                              *)
LEMMA OneWay ==
  ASSUME NEW at \in SUBSET Int, NEW M \in Nat, NEW N \in Nat, NEW f, NEW g,
         GoesThrough(f, M, at), GoesThrough(g, N, at)
  PROVE  M = N /\ f = g
<1>1. ASSUME NEW K \in Nat, NEW L \in Nat, NEW h, NEW k,
             GoesThrough(h, K, at), GoesThrough(k, L, at),
             NEW n \in 1..K,
             \A m \in 1..(n - 1) : m \in 1..L /\ h[m] = k[m]
      PROVE  n \in 1..L /\ k[n] <= h[n]
  <2>1. /\ h \in [1..K -> at] /\ k \in [1..L -> at]
        /\ \A a, c \in 1..K : a < c => h[a] < h[c]
        /\ \A a, c \in 1..L : a < c => k[a] < k[c]
        /\ \A i \in at : \E c \in 1..L : k[c] = i
    BY <1>1, Zenon DEF GoesThrough
  <2>2. h[n] \in at
    BY <2>1
  <2>3. PICK c \in 1..L : k[c] = h[n]
    BY <2>1, <2>2
  <2>4. c \notin 1..(n - 1)
    <3> SUFFICES ASSUME c \in 1..(n - 1) PROVE FALSE
      OBVIOUS
    <3>1. h[c] = h[n]
      BY <1>1, <2>3
    <3>2. c < n /\ c \in 1..K
      BY <1>1
    <3>3. h[c] < h[n] /\ h[c] \in Int /\ h[n] \in Int
      <4>1. h[c] < h[n]
        BY <1>1, <2>1, <3>2
      <4>2. h[c] \in at /\ h[n] \in at
        BY <2>1, <3>2
      <4>3. QED
        BY <4>1, <4>2
    <3>4. QED
      BY <3>1, <3>3
  <2>5. n \in 1..L /\ n <= c
    BY <1>1, <2>3, <2>4
  <2>6. k[n] \in Int /\ k[c] \in Int
    <3>1. k[n] \in at /\ k[c] \in at
      BY <2>1, <2>3, <2>5
    <3>2. QED
      BY <3>1
  <2>7. CASE n = c
    BY <2>3, <2>5, <2>6, <2>7
  <2>8. CASE n < c
    <3>1. k[n] < k[c]
      BY <2>1, <2>3, <2>5, <2>8
    <3>2. QED
      BY <2>3, <2>5, <2>6, <3>1
  <2>9. QED
    BY <2>5, <2>7, <2>8, <2>3
<1>2. ASSUME NEW K \in Nat, NEW L \in Nat, NEW h, NEW k,
             GoesThrough(h, K, at), GoesThrough(k, L, at)
      PROVE  \A n \in 1..K : n \in 1..L /\ h[n] = k[n]
  <2> DEFINE T == {n \in 0..K : \A m \in 1..n : m \in 1..L /\ h[m] = k[m]}
  <2>1. 0 \in T
    OBVIOUS
  <2>2. ASSUME NEW n \in 0..(K - 1), n \in T PROVE n + 1 \in T
    <3>1. \A m \in 1..n : m \in 1..L /\ h[m] = k[m]
      BY <2>2
    <3>2. n + 1 \in 1..K /\ (n + 1) - 1 = n /\ n + 1 \in 0..K
      OBVIOUS
    <3>3. n + 1 \in 1..L /\ k[n + 1] <= h[n + 1]
      BY <1>1, <1>2, <3>1, <3>2
    <3>4. \A m \in 1..n : m \in 1..K /\ k[m] = h[m]
      BY <3>1
    <3>5. h[n + 1] <= k[n + 1]
      BY <1>1, <1>2, <3>2, <3>3, <3>4
    <3>6. h[n + 1] \in Int /\ k[n + 1] \in Int
      <4>1. h[n + 1] \in at /\ k[n + 1] \in at
        BY <1>2, <3>2, <3>3 DEF GoesThrough
      <4>2. QED
        BY <4>1
    <3>7. h[n + 1] = k[n + 1]
      BY <3>3, <3>5, <3>6
    <3>8. \A m \in 1..(n + 1) : m \in 1..n \/ m = n + 1
      OBVIOUS
    <3>9. QED
      BY <3>1, <3>2, <3>3, <3>7, <3>8
  <2>3. K \in T
    <3> HIDE DEF T
    <3>1. \A n \in 0..K : n \in T
      BY <2>1, <2>2, Induct
    <3>2. QED
      BY <3>1
  <2>4. QED
    BY <2>3
<1>3. \A n \in 1..M : n \in 1..N /\ f[n] = g[n]
  BY <1>2
<1>4. \A n \in 1..N : n \in 1..M
  BY <1>2
<1>5. M = N
  <2>1. M > 0 => M \in 1..M
    OBVIOUS
  <2>2. N > 0 => N \in 1..N
    OBVIOUS
  <2>3. QED
    BY <1>3, <1>4, <2>1, <2>2
<1>6. f = g
  BY <1>3, <1>5 DEF GoesThrough
<1>7. QED
  BY <1>5, <1>6

(* A part of a list is what stands at its indices, in order.               *)
LEMMA SublistIs ==
  ASSUME NEW R, NEW s \in Seq(R), NEW at \in SUBSET (DOMAIN s)
  PROVE  /\ IsFiniteSet(at) /\ Cardinality(at) \in Nat
         /\ \E f : /\ GoesThrough(f, Cardinality(at), at)
                  /\ Sublist(s, at) = [n \in 1..Cardinality(at) |-> s[f[n]]]
<1>1. DOMAIN s = 1..Len(s) /\ Len(s) \in Nat
  OBVIOUS
<1>2. IsFiniteSet(at) /\ at \in SUBSET Int
  <2>1. IsFiniteSet(1..Len(s)) /\ at \in SUBSET (1..Len(s))
    BY <1>1, FS_Interval
  <2>2. QED
    BY <2>1, FS_Subset
<1>3. PICK f : f = Upwards(at)
  OBVIOUS
<1>4. Cardinality(at) \in Nat /\ GoesThrough(f, Cardinality(at), at)
  BY <1>2, <1>3, Ascending
<1>5. Sublist(s, at) = [n \in 1..Cardinality(at) |-> s[f[n]]]
  BY <1>3, Zenon DEF Sublist
<1>6. QED
  BY <1>2, <1>4, <1>5

(* Whatever goes through the indices upwards tells what the part is.       *)
LEMMA SublistBy ==
  ASSUME NEW R, NEW s \in Seq(R), NEW at \in SUBSET (DOMAIN s),
         NEW N \in Nat, NEW f, GoesThrough(f, N, at)
  PROVE  Cardinality(at) = N /\ Sublist(s, at) = [n \in 1..N |-> s[f[n]]]
<1>1. PICK g : /\ GoesThrough(g, Cardinality(at), at)
               /\ Sublist(s, at) = [n \in 1..Cardinality(at) |-> s[g[n]]]
  BY SublistIs
<1>2. at \in SUBSET Int /\ Cardinality(at) \in Nat
  <2>1. DOMAIN s = 1..Len(s) /\ Len(s) \in Nat
    OBVIOUS
  <2>2. QED
    BY <2>1, SublistIs
<1>3. Cardinality(at) = N /\ g = f
  BY <1>1, <1>2, OneWay
<1>4. QED
  BY <1>1, <1>3

(* It is a list of as many rows as indices, and holds what stands there.   *)
LEMMA SublistHolds ==
  ASSUME NEW R, NEW s \in Seq(R), NEW at \in SUBSET (DOMAIN s)
  PROVE  /\ Sublist(s, at) \in Seq(R)
         /\ Len(Sublist(s, at)) = Cardinality(at) /\ Cardinality(at) \in Nat
         /\ ToSet(Sublist(s, at)) = {s[i] : i \in at}
         /\ Sublist(s, at) = <<>> <=> at = {}
<1>1. PICK f : /\ GoesThrough(f, Cardinality(at), at)
               /\ Sublist(s, at) = [n \in 1..Cardinality(at) |-> s[f[n]]]
  BY SublistIs
<1>2. Cardinality(at) \in Nat /\ IsFiniteSet(at)
  BY SublistIs
<1>3. PICK N : N = Cardinality(at)
  OBVIOUS
<1>4. /\ f \in [1..N -> at] /\ N \in Nat
      /\ \A i \in at : \E n \in 1..N : f[n] = i
  BY <1>1, <1>2, <1>3 DEF GoesThrough
<1>5. \A i \in at : s[i] \in R
  OBVIOUS
<1>6. PICK p : p = Sublist(s, at)
  OBVIOUS
<1>7. p = [n \in 1..N |-> s[f[n]]]
  BY <1>1, <1>3, <1>6
<1>8. p \in Seq(R) /\ Len(p) = N /\ DOMAIN p = 1..N
  <2>1. \A n \in 1..N : s[f[n]] \in R
    BY <1>4, <1>5
  <2>2. QED
    BY <1>4, <1>7, <2>1
<1>9. ToSet(p) = {s[i] : i \in at}
  <2>1. \A n \in 1..N : f[n] \in at /\ p[n] = s[f[n]]
    BY <1>4, <1>7
  <2>2. ToSet(p) = {p[n] : n \in 1..N}
    BY <1>8 DEF ToSet
  <2>3. \A n \in 1..N : p[n] \in {s[i] : i \in at}
    BY <2>1
  <2>4. \A i \in at : s[i] \in {p[n] : n \in 1..N}
    <3> SUFFICES ASSUME NEW i \in at PROVE s[i] \in {p[n] : n \in 1..N}
      OBVIOUS
    <3>1. PICK n \in 1..N : f[n] = i
      BY <1>4
    <3>2. s[i] = p[n]
      BY <2>1, <3>1
    <3>3. QED
      BY <3>2
  <2>5. QED
    BY <2>2, <2>3, <2>4
<1>10. p = <<>> <=> at = {}
  <2>1. N = 0 <=> at = {}
    BY <1>2, <1>3, FS_EmptySet
  <2>2. p = <<>> <=> N = 0
    BY <1>4, <1>8
  <2>3. QED
    BY <2>1, <2>2
<1>11. QED
  BY <1>3, <1>4, <1>6, <1>8, <1>9, <1>10

(* Its first row is the one of the least index.                            *)
LEMMA SublistHead ==
  ASSUME NEW R, NEW s \in Seq(R), NEW at \in SUBSET (DOMAIN s),
         NEW i \in at, \A j \in at : i <= j
  PROVE  Head(Sublist(s, at)) = s[i]
<1>1. PICK f : /\ GoesThrough(f, Cardinality(at), at)
               /\ Sublist(s, at) = [n \in 1..Cardinality(at) |-> s[f[n]]]
  BY SublistIs
<1>2. PICK N : N = Cardinality(at)
  OBVIOUS
<1>3. /\ f \in [1..N -> at] /\ N \in Nat
      /\ \A m, n \in 1..N : m < n => f[m] < f[n]
      /\ \A j \in at : \E n \in 1..N : f[n] = j
  BY <1>1, <1>2, SublistIs DEF GoesThrough
<1>4. PICK n \in 1..N : f[n] = i
  BY <1>3
<1>5. \A j \in at : j \in Int
  <2>1. DOMAIN s = 1..Len(s) /\ Len(s) \in Nat
    OBVIOUS
  <2>2. QED
    BY <2>1
<1>6. 1 \in 1..N
  BY <1>3, <1>4
<1>7. f[1] \in at /\ i <= f[1] /\ f[1] \in Int /\ i \in Int
  BY <1>3, <1>5, <1>6
<1>8. f[1] = i
  <2>1. CASE n = 1
    BY <1>4, <2>1
  <2>2. CASE n > 1
    <3>1. f[1] < f[n]
      BY <1>3, <1>6, <2>2
    <3>2. QED
      BY <1>4, <1>7, <3>1
  <2>3. QED
    BY <1>3, <2>1, <2>2
<1>9. Sublist(s, at)[1] = s[i]
  BY <1>1, <1>2, <1>6, <1>8
<1>10. Head(Sublist(s, at)) = Sublist(s, at)[1]
  <2>1. Sublist(s, at) \in Seq(R) /\ Len(Sublist(s, at)) = N
    BY <1>2, SublistHolds
  <2>2. QED
    BY <1>3, <1>6, <2>1
<1>11. QED
  BY <1>9, <1>10

(* Indices of a list that follows n rows of another.                       *)
Beyond(n, at) == {n + i : i \in at}

(* The part of two lists put together is the part of the one, then of the  *)
(* other.                                                                  *)
LEMMA SublistOfTwo ==
  ASSUME NEW R, NEW s \in Seq(R), NEW t \in Seq(R),
         NEW a \in SUBSET (DOMAIN s), NEW c \in SUBSET (DOMAIN t),
         NEW at, at = a \cup Beyond(Len(s), c)
  PROVE  Sublist(s \o t, at) = Sublist(s, a) \o Sublist(t, c)
<1>1. PICK f : /\ GoesThrough(f, Cardinality(a), a)
               /\ Sublist(s, a) = [n \in 1..Cardinality(a) |-> s[f[n]]]
  BY SublistIs
<1>2. PICK g : /\ GoesThrough(g, Cardinality(c), c)
               /\ Sublist(t, c) = [n \in 1..Cardinality(c) |-> t[g[n]]]
  BY SublistIs
<1>3. PICK M : M = Cardinality(a)
  OBVIOUS
<1>4. PICK N : N = Cardinality(c)
  OBVIOUS
<1>5. M \in Nat /\ N \in Nat
  BY <1>3, <1>4, SublistIs
<1>6. PICK L : L = Len(s)
  OBVIOUS
<1>7. at = a \cup {L + i : i \in c}
  BY <1>6 DEF Beyond
<1>8. L \in Nat /\ DOMAIN s = 1..L /\ DOMAIN t = 1..Len(t) /\ Len(t) \in Nat
  BY <1>6
<1>9. /\ f \in [1..M -> a]
      /\ \A m, n \in 1..M : m < n => f[m] < f[n]
      /\ \A i \in a : \E n \in 1..M : f[n] = i
  BY <1>1, <1>3 DEF GoesThrough
<1>10. /\ g \in [1..N -> c]
       /\ \A m, n \in 1..N : m < n => g[m] < g[n]
       /\ \A i \in c : \E n \in 1..N : g[n] = i
  BY <1>2, <1>4 DEF GoesThrough
<1> DEFINE h == [n \in 1..(M + N) |-> IF n <= M THEN f[n] ELSE L + g[n - M]]
<1>11. \A n \in 1..M : n \in 1..(M + N) /\ h[n] = f[n] /\ f[n] \in 1..L
                       /\ f[n] \in a
  BY <1>5, <1>8, <1>9
<1>12. \A n \in 1..N : /\ M + n \in 1..(M + N) /\ h[M + n] = L + g[n]
                       /\ g[n] \in 1..Len(t) /\ g[n] \in c
  <2> SUFFICES ASSUME NEW n \in 1..N
               PROVE  /\ M + n \in 1..(M + N) /\ h[M + n] = L + g[n]
                      /\ g[n] \in 1..Len(t) /\ g[n] \in c
    OBVIOUS
  <2>1. g[n] \in c /\ g[n] \in 1..Len(t)
    BY <1>8, <1>10
  <2>2. /\ M + n \in 1..(M + N) /\ ~ (M + n <= M) /\ (M + n) - M = n
    BY <1>5
  <2>3. QED
    BY <2>1, <2>2
<1> DEFINE Met(i) == \E n \in 1..N : g[n] = i
<1>met. \A i \in c : Met(i)
  <2> HIDE DEF Met
  <2> SUFFICES \A i \in c : \E n \in 1..N : g[n] = i
    BY DEF Met
  <2>1. QED
    BY <1>2, <1>4, Zenon DEF GoesThrough
<1> HIDE DEF Met
<1>13. \A n \in 1..(M + N) : \/ n \in 1..M
                             \/ \E k \in 1..N : n = M + k
  <2> SUFFICES ASSUME NEW n \in 1..(M + N), n \notin 1..M
               PROVE  \E k \in 1..N : n = M + k
    OBVIOUS
  <2>1. n - M \in 1..N /\ n = M + (n - M)
    BY <1>5
  <2>2. QED
    BY <2>1
<1> HIDE DEF h
<1>14. GoesThrough(h, M + N, at)
  <2>1. \A n \in 1..(M + N) : h[n] \in at
    BY <1>7, <1>11, <1>12, <1>13
  <2>2. h \in [1..(M + N) -> at]
    BY <2>1 DEF h
  <2>3. ASSUME NEW m \in 1..(M + N), NEW n \in 1..(M + N), m < n
        PROVE  h[m] < h[n]
    <3>1. CASE m \in 1..M /\ n \in 1..M
      BY <1>9, <1>11, <2>3, <3>1
    <3>2. CASE m \in 1..M /\ \E k \in 1..N : n = M + k
      <4>1. PICK k \in 1..N : n = M + k
        BY <3>2
      <4>2. h[m] = f[m] /\ f[m] \in 1..L /\ h[n] = L + g[k]
            /\ g[k] \in 1..Len(t)
        BY <1>11, <1>12, <3>2, <4>1
      <4>3. QED
        BY <1>8, <4>2
    <3>3. CASE /\ \E k \in 1..N : m = M + k
               /\ \E k \in 1..N : n = M + k
      <4>1. PICK k \in 1..N, l \in 1..N : m = M + k /\ n = M + l
        BY <3>3
      <4>2. k < l
        BY <1>5, <2>3, <4>1
      <4>3. g[k] < g[l]
        BY <1>10, <4>2
      <4>4. /\ h[m] = L + g[k] /\ h[n] = L + g[l]
            /\ g[k] \in 1..Len(t) /\ g[l] \in 1..Len(t)
        BY <1>12, <4>1
      <4>5. QED
        BY <1>8, <4>3, <4>4
    <3>4. ~ (n \in 1..M /\ m \notin 1..M)
      BY <1>5, <2>3
    <3>5. QED
      BY <1>13, <3>1, <3>2, <3>3, <3>4
  <2>4. ASSUME NEW e \in at PROVE \E n \in 1..(M + N) : h[n] = e
    <3>1. CASE e \in a
      BY <1>9, <1>11, <3>1
    <3>2. CASE e \in {L + i : i \in c}
      <4>1. PICK d \in c : e = L + d
        BY <3>2
      <4>2. Met(d)
        BY <1>met, <4>1
      <4>4. PICK n \in 1..N : g[n] = d
        BY <4>2 DEF Met
      <4>3. QED
        BY <1>12, <4>1, <4>4
    <3>3. QED
      BY <1>7, <3>1, <3>2
  <2>5. QED
    BY <2>2, <2>3, <2>4 DEF GoesThrough
<1>15. /\ s \o t \in Seq(R) /\ Len(s \o t) = L + Len(t)
       /\ \A i \in 1..L : (s \o t)[i] = s[i]
       /\ \A i \in 1..Len(t) : (s \o t)[L + i] = t[i]
  <2>1. s \o t \in Seq(R) /\ Len(s \o t) = L + Len(t)
    BY <1>6
  <2>2. \A i \in 1..(L + Len(t)) :
          (s \o t)[i] = IF i <= L THEN s[i] ELSE t[i - L]
    BY <1>6, <1>8
  <2>3. ASSUME NEW i \in 1..Len(t) PROVE (s \o t)[L + i] = t[i]
    <3>1. /\ L + i \in 1..(L + Len(t)) /\ ~ (L + i <= L) /\ (L + i) - L = i
      BY <1>8
    <3>2. QED
      BY <2>2, <3>1
  <2>4. \A i \in 1..L : i \in 1..(L + Len(t)) /\ i <= L
    BY <1>8
  <2>5. QED
    BY <2>1, <2>2, <2>3, <2>4
<1>16. at \in SUBSET (DOMAIN (s \o t))
  <2>1. \A i \in at : i \in 1..(L + Len(t))
    BY <1>8, <1>7
  <2>2. QED
    BY <1>15, <2>1
<1>17. Sublist(s \o t, at) = [n \in 1..(M + N) |-> (s \o t)[h[n]]]
  <2>1. PICK K : K = M + N
    OBVIOUS
  <2>2. K \in Nat /\ GoesThrough(h, K, at)
    BY <1>5, <1>14, <2>1
  <2>3. PICK r : r = s \o t
    OBVIOUS
  <2>4. r \in Seq(R) /\ at \in SUBSET (DOMAIN r)
    BY <1>15, <1>16, <2>3
  <2>5. PICK k : k = h
    OBVIOUS
  <2>6. GoesThrough(k, K, at) /\ K \in Nat
    BY <2>2, <2>5
  <2>7. Sublist(r, at) = [n \in 1..K |-> r[k[n]]]
    BY ONLY <2>4, <2>6, SublistBy
  <2>8. QED
    BY <2>1, <2>3, <2>5, <2>7
<1>18. PICK p : p = Sublist(s, a)
  OBVIOUS
<1>19. PICK q : q = Sublist(t, c)
  OBVIOUS
<1>20. /\ p = [n \in 1..M |-> s[f[n]]] /\ p \in Seq(R) /\ Len(p) = M
       /\ q = [n \in 1..N |-> t[g[n]]] /\ q \in Seq(R) /\ Len(q) = N
  BY <1>1, <1>2, <1>3, <1>4, <1>18, <1>19, SublistHolds
<1>21. /\ p \o q \in Seq(R) /\ Len(p \o q) = M + N
       /\ \A n \in 1..(M + N) :
            (p \o q)[n] = IF n <= M THEN p[n] ELSE q[n - M]
  <2>1. p \in Seq(R) /\ q \in Seq(R) /\ Len(p) = M /\ Len(q) = N
    BY <1>20
  <2>2. QED
    BY ONLY <2>1, ConcatProperties
<1>22. \A n \in 1..(M + N) : (p \o q)[n] = (s \o t)[h[n]]
  <2>1. ASSUME NEW n \in 1..M PROVE (p \o q)[n] = (s \o t)[h[n]]
    <3>1. (p \o q)[n] = p[n]
      BY <1>11, <1>21
    <3>2. p[n] = s[f[n]]
      BY <1>20
    <3>3. (s \o t)[h[n]] = s[f[n]]
      BY <1>11, <1>15
    <3>4. QED
      BY <3>1, <3>2, <3>3
  <2>2. ASSUME NEW k \in 1..N PROVE (p \o q)[M + k] = (s \o t)[h[M + k]]
    <3>1. M + k \in 1..(M + N) /\ ~ (M + k <= M) /\ (M + k) - M = k
      BY <1>5
    <3>2. (p \o q)[M + k] = q[k]
      BY <1>21, <3>1
    <3>3. q[k] = t[g[k]]
      BY <1>20
    <3>4. (s \o t)[h[M + k]] = t[g[k]]
      BY <1>12, <1>15
    <3>5. QED
      BY <3>2, <3>3, <3>4
  <2>3. QED
    BY <1>13, <2>1, <2>2
<1>23. p \o q = [n \in 1..(M + N) |-> (s \o t)[h[n]]]
  <2>1. PICK r : r = p \o q
    OBVIOUS
  <2>2. PICK K : K = M + N
    OBVIOUS
  <2>3. r \in Seq(R) /\ Len(r) = K
    BY <1>21, <2>1, <2>2
  <2>4. r = [n \in 1..K |-> r[n]]
    BY <2>3
  <2>5. \A n \in 1..K : r[n] = (s \o t)[h[n]]
    BY <1>22, <2>1, <2>2
  <2>6. r = [n \in 1..K |-> (s \o t)[h[n]]]
    BY <2>4, <2>5
  <2>7. QED
    BY <2>1, <2>2, <2>6
<1>24. QED
  BY <1>17, <1>18, <1>19, <1>23

(* What of a list is among the rows wanted.                                *)
Among(s, wanted) == Sublist(s, {i \in DOMAIN s : s[i] \in wanted})

(* It may be taken of a list part by part.                                 *)
LEMMA AmongTwo ==
  ASSUME NEW R, NEW s \in Seq(R), NEW t \in Seq(R), NEW wanted
  PROVE  Among(s \o t, wanted) = Among(s, wanted) \o Among(t, wanted)
<1> DEFINE a == {i \in DOMAIN s : s[i] \in wanted}
           c == {i \in DOMAIN t : t[i] \in wanted}
           at == {i \in DOMAIN (s \o t) : (s \o t)[i] \in wanted}
<1>1. PICK L : L = Len(s)
  OBVIOUS
<1>2. L \in Nat /\ DOMAIN s = 1..L /\ DOMAIN t = 1..Len(t) /\ Len(t) \in Nat
  BY <1>1
<1>3. /\ s \o t \in Seq(R) /\ Len(s \o t) = L + Len(t)
      /\ \A i \in 1..(L + Len(t)) :
           (s \o t)[i] = IF i <= L THEN s[i] ELSE t[i - L]
  BY <1>1, ConcatProperties
<1>4. DOMAIN (s \o t) = 1..(L + Len(t))
  BY <1>3
<1>5. \A i \in 1..L : i \in 1..(L + Len(t)) /\ (s \o t)[i] = s[i]
  BY <1>2, <1>3
<1>6. ASSUME NEW i \in 1..Len(t)
      PROVE  L + i \in 1..(L + Len(t)) /\ (s \o t)[L + i] = t[i]
  <2>1. L + i \in 1..(L + Len(t)) /\ ~ (L + i <= L) /\ (L + i) - L = i
    BY <1>2
  <2>2. QED
    BY <1>3, <2>1
<1>7. ASSUME NEW i \in 1..(L + Len(t)), i \notin 1..L
      PROVE  i - L \in 1..Len(t) /\ L + (i - L) = i
  BY <1>2, <1>7
<1>8. at = a \cup {L + i : i \in c}
  <2>1. ASSUME NEW i \in at PROVE i \in a \cup {L + j : j \in c}
    <3>1. i \in 1..(L + Len(t)) /\ (s \o t)[i] \in wanted
      BY <1>4
    <3>2. CASE i \in 1..L
      BY <1>2, <1>5, <3>1, <3>2
    <3>3. CASE i \notin 1..L
      <4>1. i - L \in 1..Len(t) /\ L + (i - L) = i
        BY <1>7, <3>1, <3>3
      <4>2. t[i - L] \in wanted
        BY <1>6, <3>1, <4>1
      <4>3. i - L \in c
        BY <1>2, <4>1, <4>2
      <4>4. QED
        BY <4>1, <4>3
    <3>4. QED
      BY <3>2, <3>3
  <2>2. ASSUME NEW i \in a PROVE i \in at
    BY <1>2, <1>4, <1>5
  <2>3. ASSUME NEW i \in c PROVE L + i \in at
    BY <1>2, <1>4, <1>6
  <2>4. QED
    BY <2>1, <2>2, <2>3
<1> HIDE DEF a, c, at
<1>9. Sublist(s \o t, at) = Sublist(s, a) \o Sublist(t, c)
  <2>1. a \in SUBSET (DOMAIN s) /\ c \in SUBSET (DOMAIN t)
    BY DEF a, c
  <2>2. PICK k : k = at
    OBVIOUS
  <2>3. PICK b, d : b = a /\ d = c
    OBVIOUS
  <2>4. /\ s \in Seq(R) /\ t \in Seq(R)
        /\ b \in SUBSET (DOMAIN s) /\ d \in SUBSET (DOMAIN t)
        /\ k = b \cup Beyond(Len(s), d)
    BY <1>1, <1>8, <2>1, <2>2, <2>3 DEF Beyond
  <2>5. Sublist(s \o t, k) = Sublist(s, b) \o Sublist(t, d)
    BY ONLY <2>4, SublistOfTwo
  <2>6. QED
    BY <2>2, <2>3, <2>5
<1>10. QED
  BY <1>9, Zenon DEF Among, a, c, at

(* It is a list of such rows, all of them.                                 *)
LEMMA AmongHolds ==
  ASSUME NEW R, NEW s \in Seq(R), NEW wanted
  PROVE  /\ Among(s, wanted) \in Seq(R)
         /\ ToSet(Among(s, wanted)) = {s[i] : i \in
                                         {j \in DOMAIN s : s[j] \in wanted}}
         /\ (s = <<>>) => Among(s, wanted) = <<>>
<1> DEFINE at == {i \in DOMAIN s : s[i] \in wanted}
<1>1. at \in SUBSET (DOMAIN s)
  OBVIOUS
<1>2. /\ Sublist(s, at) \in Seq(R)
      /\ ToSet(Sublist(s, at)) = {s[i] : i \in at}
      /\ Sublist(s, at) = <<>> <=> at = {}
  <2> HIDE DEF at
  <2>1. PICK k : k = at
    OBVIOUS
  <2>2. k \in SUBSET (DOMAIN s)
    BY <1>1, <2>1
  <2>3. /\ Sublist(s, k) \in Seq(R)
        /\ ToSet(Sublist(s, k)) = {s[i] : i \in k}
        /\ Sublist(s, k) = <<>> <=> k = {}
    BY <2>2, SublistHolds
  <2>4. QED
    BY <2>1, <2>3, Zenon
<1>3. (s = <<>>) => at = {}
  OBVIOUS
<1>4. QED
  BY <1>2, <1>3, Zenon DEF Among

(* A finite set can be listed.                                             *)
LEMMA ListedIs ==
  ASSUME NEW S, IsFiniteSet(S)
  PROVE  SetToSeq(S) \in [1..Cardinality(S) -> S] /\ Cardinality(S) \in Nat
<1>1. Cardinality(S) \in Nat /\ ExistsBijection(1..Cardinality(S), S)
  BY FS_CardinalityType
<1>2. PICK f : f \in Bijection(1..Cardinality(S), S)
  BY <1>1 DEF ExistsBijection
<1>3. f \in [1..Cardinality(S) -> S] /\ IsInjective(f)
  BY <1>2 DEF Bijection, Injection
<1>4. QED
  BY <1>1, <1>3, Zenon DEF SetToSeq

(* A step makes one value after the other.                                 *)
LEMMA StepsMade ==
  ASSUME NEW N \in Nat, NEW Acc, NEW base \in Acc,
         NEW step \in StepOn(N, Acc)
  PROVE  \E acc \in [0..N -> Acc] : GoesBy(acc, N, base, step)
<1>1. PICK h \in [SUBSET (1..N) -> Acc] : FoldsBy(h, N, base, step)
  BY FoldExists
<1>2. FoldsWithin(h, N, Acc, base, step)
  BY <1>1 DEF FoldsBy, FoldsWithin
<1>3. PICK acc \in [0..N -> Acc] :
        acc[N] = h[1..N] /\ GoesBy(acc, N, base, step)
  BY <1>2, FoldSteps
<1>4. QED
  BY <1>3

(* Two lists one after the other.                                          *)
LEMMA ConcatHas ==
  ASSUME NEW R, NEW s \in Seq(R), NEW t \in Seq(R)
  PROVE  s \o t \in Seq(R) /\ ToSet(s \o t) = ToSet(s) \cup ToSet(t)
<1>1. PICK all \in Seq(R) : all = s \o t
  <2>1. s \o t \in Seq(R)
    OBVIOUS
  <2>2. QED
    BY <2>1
<1>2. /\ DOMAIN all = 1..(Len(s) + Len(t))
      /\ DOMAIN s = 1..Len(s) /\ DOMAIN t = 1..Len(t)
      /\ \A i \in 1..Len(s) : all[i] = s[i]
      /\ \A i \in 1..Len(t) : all[Len(s) + i] = t[i]
  BY <1>1
<1>3. \A i \in DOMAIN s : i \in DOMAIN all /\ all[i] = s[i]
  BY <1>2
<1>4. \A i \in DOMAIN t :
        Len(s) + i \in DOMAIN all /\ all[Len(s) + i] = t[i]
  BY <1>2
<1>5. \A i \in DOMAIN all :
        i \in DOMAIN s \/ (i - Len(s) \in DOMAIN t /\ all[i] = t[i - Len(s)])
  BY <1>2
<1>6. ToSet(all) = ToSet(s) \cup ToSet(t)
  BY <1>3, <1>4, <1>5 DEF ToSet
<1>7. QED
  BY <1>1, <1>6

(* A list with what the first n of some lists have.                        *)
HasThose(s, seqs, R, n) ==
  s \in Seq(R) /\ ToSet(s) = UNION {ToSet(seqs[i]) : i \in 1..n}

(* A list with the first n of some lists put one after the other.          *)
Joins(h, seqs, N) ==
  /\ h[1] = seqs[1]
  /\ \A i \in 2..N : h[i] = h[i - 1] \o seqs[i]

(* So is a list of lists flattened.                                        *)
LEMMA FlattenSteps ==
  ASSUME NEW R, NEW seqs \in Seq(Seq(R)), seqs # <<>>
  PROVE  \E h : Joins(h, seqs, Len(seqs)) /\ FlattenSeq(seqs) = h[Len(seqs)]
<1>0. PICK N \in Nat : N = Len(seqs) /\ DOMAIN seqs = 1..N /\ N # 0
  OBVIOUS
<1> DEFINE Grown(g) == [i \in 1..N |-> IF i = 1 THEN seqs[i]
                                      ELSE g[i - 1] \o seqs[i]]
<1>1. \A n \in 1..N : seqs[n] \in Seq(R)
  BY <1>0
<1>2. PICK base \in Seq(R) : base = <<>>
  <2>1. <<>> \in Seq(R)
    OBVIOUS
  <2>2. QED
    BY <2>1
<1>3. PICK step \in StepOn(N, Seq(R)) :
        \A d \in Seq(R), i \in 1..N : step[<<d, i>>] = d \o seqs[i]
  <2> DEFINE f == [p \in Seq(R) \X (1..N) |-> p[1] \o seqs[p[2]]]
  <2>1. f \in StepOn(N, Seq(R))
    BY <1>1 DEF StepOn
  <2>2. \A d \in Seq(R), i \in 1..N : f[<<d, i>>] = d \o seqs[i]
    OBVIOUS
  <2>3. QED
    BY <2>1, <2>2
<1>4. PICK acc \in [0..N -> Seq(R)] : GoesBy(acc, N, base, step)
  BY StepsMade
<1>5. \A i \in 1..N : acc[i] = acc[i - 1] \o seqs[i]
  <2> TAKE i \in 1..N
  <2>1. i - 1 \in 0..(N - 1) /\ (i - 1) + 1 = i /\ acc[i - 1] \in Seq(R)
    OBVIOUS
  <2>2. acc[i] = step[<<acc[i - 1], i>>]
    BY <1>4, <2>1 DEF GoesBy
  <2>3. QED
    BY <1>3, <2>1, <2>2
<1>6. acc[1] = seqs[1]
  <2>1. acc[0] = <<>> /\ 1 \in 1..N /\ seqs[1] \in Seq(R)
    BY <1>0, <1>1, <1>2, <1>4 DEF GoesBy
  <2>2. \A i \in 1..N : i = 1 => acc[i] = acc[0] \o seqs[1]
    <3> TAKE i \in 1..N
    <3> HAVE i = 1
    <3>1. i - 1 = 0
      OBVIOUS
    <3>2. acc[i] = acc[i - 1] \o seqs[i]
      BY <1>5
    <3>3. QED
      BY <3>1, <3>2
  <2>3. <<>> \o seqs[1] = seqs[1]
    BY <2>1
  <2>4. QED
    BY <2>1, <2>2, <2>3
<1>7. PICK g : g = [i \in 1..N |-> acc[i]]
  OBVIOUS
<1>8. g = Grown(g)
  <2>1. \A i \in 1..N : i # 1 => i - 1 \in 1..N
    OBVIOUS
  <2>2. \A i \in 1..N : g[i] = IF i = 1 THEN seqs[i]
                               ELSE g[i - 1] \o seqs[i]
    BY <1>5, <1>6, <1>7, <2>1
  <2>3. QED
    BY <1>7, <2>2
<1>9. PICK h : h = (CHOOSE f : f = Grown(f))
  OBVIOUS
<1>10. h = Grown(h)
  BY <1>8, <1>9, Zenon
<1>11. FlattenSeq(seqs) = h[N]
  BY <1>0, <1>9, Zenon DEF FlattenSeq
<1>12. Joins(h, seqs, N)
  <2>1. h[1] = seqs[1]
    BY <1>0, <1>10
  <2>2. \A i \in 2..N : i \in 1..N /\ i # 1
    BY <1>0
  <2>3. \A i \in 2..N : h[i] = h[i - 1] \o seqs[i]
    BY <1>0, <1>10, <2>2
  <2>4. QED
    BY <2>1, <2>3 DEF Joins
<1>13. QED
  BY <1>0, <1>11, <1>12

(* Lists put one after the other have what each has.                       *)
LEMMA FlattenIs ==
  ASSUME NEW R, NEW seqs \in Seq(Seq(R))
  PROVE  /\ FlattenSeq(seqs) \in Seq(R)
         /\ ToSet(FlattenSeq(seqs)) = UNION {ToSet(seqs[i]) :
                                             i \in DOMAIN seqs}
<1>1. PICK N \in Nat : N = Len(seqs) /\ DOMAIN seqs = 1..N
  OBVIOUS
<1>2. CASE N = 0
  <2>1. seqs = <<>> /\ FlattenSeq(seqs) = seqs
    BY <1>1, <1>2 DEF FlattenSeq
  <2>2. DOMAIN seqs = {}
    BY <1>1, <1>2
  <2>3. seqs \in Seq(R)
    BY <2>1
  <2>4. ToSet(seqs) = {} /\ UNION {ToSet(seqs[i]) : i \in DOMAIN seqs} = {}
    BY <2>2 DEF ToSet
  <2>5. QED
    BY <2>1, <2>3, <2>4
<1>3. CASE N # 0
  <2>1. \A n \in 1..N : seqs[n] \in Seq(R)
    BY <1>1
  <2>2. seqs # <<>>
    BY <1>1, <1>3
  <2>3. PICK h : Joins(h, seqs, N) /\ FlattenSeq(seqs) = h[N]
    BY <1>1, <2>2, FlattenSteps
  <2>4. h[1] = seqs[1] /\ \A i \in 2..N : h[i] = h[i - 1] \o seqs[i]
    BY <2>3 DEF Joins
  <2>5. PICK T : T = {n \in 0..N : n = 0 \/ HasThose(h[n], seqs, R, n)}
    OBVIOUS
  <2>6. \A n \in 0..(N - 1) : n \in T => n + 1 \in T
    <3> SUFFICES ASSUME NEW n \in 0..(N - 1), n \in T PROVE n + 1 \in T
      OBVIOUS
    <3> PICK m \in 1..N : m = n + 1
      OBVIOUS
    <3>1. CASE n = 0
      <4>1. h[1] = seqs[1] /\ seqs[1] \in Seq(R)
        BY <1>3, <2>1, <2>4
      <4>2. UNION {ToSet(seqs[i]) : i \in 1..1} = ToSet(seqs[1])
        OBVIOUS
      <4>3. HasThose(h[1], seqs, R, 1)
        BY <4>1, <4>2 DEF HasThose
      <4>4. QED
        BY <2>5, <3>1, <4>3
    <3>2. CASE n # 0
      <4>1. HasThose(h[n], seqs, R, n)
        BY <2>5, <3>2
      <4>2. m \in 2..N /\ m - 1 = n
        BY <3>2
      <4>3. h[m] = h[n] \o seqs[m]
        BY <2>4, <4>2
      <4>4. PICK s \in Seq(R), t \in Seq(R) : s = h[n] /\ t = seqs[m]
        BY <2>1, <4>1 DEF HasThose
      <4>5. s \o t \in Seq(R) /\ ToSet(s \o t) = ToSet(s) \cup ToSet(t)
        BY ConcatHas
      <4>6. UNION {ToSet(seqs[i]) : i \in 1..m}
              = (UNION {ToSet(seqs[i]) : i \in 1..n}) \cup ToSet(seqs[m])
        <5> DEFINE A(i) == ToSet(seqs[i])
        <5>1. PICK I, J : I = 1..n /\ J = 1..m
          OBVIOUS
        <5>2. \A i : i \in J <=> i \in I \/ i = m
          BY <5>1
        <5> HIDE DEF A
        <5>3. UNION {A(i) : i \in J} = (UNION {A(i) : i \in I}) \cup A(m)
          <6>1. ASSUME NEW x, x \in UNION {A(i) : i \in J}
                PROVE  x \in (UNION {A(i) : i \in I}) \cup A(m)
            <7>1. PICK i \in J : x \in A(i)
              BY <6>1
            <7>2. QED
              BY <5>2, <7>1
          <6>2. ASSUME NEW x, x \in (UNION {A(i) : i \in I}) \cup A(m)
                PROVE  x \in UNION {A(i) : i \in J}
            <7>1. CASE x \in A(m)
              <8>1. m \in J
                BY <5>2
              <8>2. QED
                BY <7>1, <8>1
            <7>2. CASE x \in UNION {A(i) : i \in I}
              BY <5>2, <7>2
            <7>3. x \in UNION {A(i) : i \in I} \/ x \in A(m)
              BY ONLY <6>2
            <7>4. QED
              BY ONLY <7>1, <7>2, <7>3
          <6>3. QED
            BY <6>1, <6>2
        <5>4. QED
          BY <5>1, <5>3 DEF A
      <4>7. ToSet(s \o t) = UNION {ToSet(seqs[i]) : i \in 1..m}
        <5>1. ToSet(s) = UNION {ToSet(seqs[i]) : i \in 1..n}
          BY <4>1, <4>4, Zenon DEF HasThose
        <5>2. ToSet(t) = ToSet(seqs[m])
          BY <4>4
        <5>3. QED
          <6>1. PICK u, v, w : /\ u = UNION {ToSet(seqs[i]) : i \in 1..n}
                               /\ v = UNION {ToSet(seqs[i]) : i \in 1..m}
                               /\ w = ToSet(seqs[m])
            OBVIOUS
          <6>2. v = u \cup w
            BY ONLY <4>6, <6>1, Zenon
          <6>3. ToSet(s) = u
            BY ONLY <5>1, <6>1, Zenon
          <6>4. ToSet(s \o t) = v
            BY ONLY <4>5, <5>2, <6>1, <6>2, <6>3
          <6>5. QED
            BY ONLY <6>1, <6>4, Zenon
      <4>8. HasThose(h[m], seqs, R, m)
        BY <4>3, <4>4, <4>5, <4>7, Zenon DEF HasThose
      <4>9. QED
        BY <2>5, <4>8
    <3>3. QED
      BY <3>1, <3>2
  <2>7. N \in T
    <3>1. 0 \in T
      BY <2>5
    <3>2. \A n \in 0..N : n \in T
      BY <2>6, <3>1, Induct
    <3>3. QED
      BY <3>2
  <2>8. QED
    <3>1. HasThose(h[N], seqs, R, N)
      BY <1>3, <2>5, <2>7
    <3>2. QED
      BY <1>1, <2>3, <3>1, Zenon DEF HasThose
<1>4. QED
  BY <1>2, <1>3

(* The numbers of a finite set from the least on.                          *)
LEMMA UpwardsIs ==
  ASSUME NEW N \in Nat, NEW at \in SUBSET (1..N)
  PROVE  /\ Cardinality(at) \in Nat
         /\ GoesThrough(Upwards(at), Cardinality(at), at)
<1>1. at \in SUBSET Int /\ IsFiniteSet(at)
  <2>1. IsFiniteSet(1..N)
    BY FS_Interval
  <2>2. at \in SUBSET (1..N)
    OBVIOUS
  <2>3. IsFiniteSet(at)
    BY <2>1, <2>2, FS_Subset
  <2>4. QED
    BY <2>2, <2>3
<1>2. PICK f : f = Upwards(at)
  OBVIOUS
<1>3. QED
  BY <1>1, <1>2, Ascending

(* All of a list is the list.                                              *)
LEMMA SublistAll ==
  ASSUME NEW R, NEW s \in Seq(R) PROVE Sublist(s, DOMAIN s) = s
<1>1. PICK N \in Nat : N = Len(s) /\ DOMAIN s = 1..N
  OBVIOUS
<1>2. PICK f : f = [n \in 1..N |-> n]
  OBVIOUS
<1>3. GoesThrough(f, N, 1..N)
  BY <1>2 DEF GoesThrough
<1>4. Sublist(s, 1..N) = [n \in 1..N |-> s[f[n]]]
  BY <1>1, <1>3, SublistBy
<1>5. [n \in 1..N |-> s[f[n]]] = s
  BY <1>1, <1>2
<1>6. QED
  BY <1>1, <1>4, <1>5

(* A list and a member more.                                               *)
Extends(t, s, x) == /\ Len(t) = Len(s) + 1 /\ t[Len(s) + 1] = x
                    /\ \A k \in 1..Len(s) : t[k] = s[k]
LEMMA AppendIs ==
  ASSUME NEW R, NEW s \in Seq(R), NEW x \in R
  PROVE  Append(s, x) \in Seq(R) /\ Extends(Append(s, x), s, x)
BY DEF Extends

(* A list that begins with another.                                        *)
BeginsWith(s, head, R) == \E rest \in Seq(R) : s = head \o rest

(* A joined list begins with the first of its parts.                       *)
LEMMA FlattenBegins ==
  ASSUME NEW R, NEW seqs \in Seq(Seq(R)), seqs # <<>>
  PROVE  BeginsWith(FlattenSeq(seqs), seqs[1], R)
<1>1. PICK N \in Nat : /\ N = Len(seqs) /\ DOMAIN seqs = 1..N /\ N >= 1
                       /\ \A i \in 1..N : seqs[i] \in Seq(R)
  OBVIOUS
<1>2. PICK h : Joins(h, seqs, N) /\ FlattenSeq(seqs) = h[N]
  BY <1>1, FlattenSteps
<1>3. PICK T : T = {n \in 0..N : n = 0 \/ BeginsWith(h[n], seqs[1], R)}
  OBVIOUS
<1>4. \A n \in 0..(N - 1) : n \in T => n + 1 \in T
  <2> SUFFICES ASSUME NEW n \in 0..(N - 1), n \in T PROVE n + 1 \in T
    OBVIOUS
  <2>1. CASE n = 0
    <3>1. PICK a \in Seq(R), none \in Seq(R) : a = seqs[1] /\ none = <<>>
      <4>1. 1 \in 1..N /\ <<>> \in Seq(R)
        BY <1>1
      <4>2. QED
        BY <1>1, <4>1
    <3>2. h[1] = seqs[1] \o none /\ n + 1 = 1 /\ 1 \in 0..N
      <4>1. a \o none = a
        BY <3>1
      <4>2. QED
        BY <1>1, <1>2, <2>1, <3>1, <4>1 DEF Joins
    <3>3. BeginsWith(h[1], seqs[1], R)
      BY <3>2 DEF BeginsWith
    <3>4. QED
      BY <1>3, <3>2, <3>3
  <2>2. CASE n # 0
    <3>1. PICK rest \in Seq(R) : h[n] = seqs[1] \o rest
      BY <1>3, <2>2 DEF BeginsWith
    <3>2. PICK m \in 2..N : m = n + 1 /\ m - 1 = n
      BY <1>1, <2>2
    <3>3. h[m] = h[n] \o seqs[m]
      BY <1>2, <3>2 DEF Joins
    <3>4. PICK a \in Seq(R), b \in Seq(R) : a = seqs[1] /\ b = seqs[m]
      BY <1>1, <3>2
    <3>5. rest \o b \in Seq(R) /\ (a \o rest) \o b = a \o (rest \o b)
      OBVIOUS
    <3>6. BeginsWith(h[m], seqs[1], R)
      BY <3>1, <3>3, <3>4, <3>5 DEF BeginsWith
    <3>7. m \in 0..N
      OBVIOUS
    <3>8. QED
      BY <1>3, <3>2, <3>6, <3>7
  <2>3. QED
    BY <2>1, <2>2
<1>5. 0 \in T /\ T \subseteq 0..N
  BY <1>3
<1>6. \A n \in 0..N : n \in T
  BY <1>4, <1>5, Induct
<1>7. QED
  BY <1>1, <1>2, <1>3, <1>6

(* Where a list is kept from its first entry to its last, what is kept of  *)
(* it and another begins with it.                                          *)
LEMMA SublistBegins ==
  ASSUME NEW R, NEW s \in Seq(R), NEW t \in Seq(R),
         NEW c \in SUBSET (DOMAIN t), NEW at,
         at = (DOMAIN s) \cup Beyond(Len(s), c)
  PROVE  BeginsWith(Sublist(s \o t, at), s, R)
<1>1. ASSUME NEW a \in SUBSET (DOMAIN s), at = a \cup Beyond(Len(s), c)
      PROVE  Sublist(s \o t, at) = Sublist(s, a) \o Sublist(t, c)
  BY ONLY <1>1, SublistOfTwo
<1>2. PICK a \in SUBSET (DOMAIN s) : a = DOMAIN s
  OBVIOUS
<1>3. Sublist(s \o t, at) = Sublist(s, a) \o Sublist(t, c)
  BY <1>1, <1>2
<1>4. Sublist(s, a) = s
  BY <1>2, SublistAll
<1>5. Sublist(t, c) \in Seq(R)
  BY SublistHolds
<1>6. QED
  BY <1>3, <1>4, <1>5 DEF BeginsWith
=============================================================================
