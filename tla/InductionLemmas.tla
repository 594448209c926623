-------------------------- MODULE InductionLemmas --------------------------
(***************************************************************************)
(* Induction for the other proofs: minima and maxima of sets of naturals,  *)
(* what a fold over a sequence computes place by place, and what is sifted *)
(* from a sequence.                                                        *)
(***************************************************************************)
EXTENDS Integers, Sequences, FiniteSets, SequencesExt, Filters, WellFoundedInduction,
        FiniteSetTheorems, TLAPS

Less == {ss \in Nat \X Nat : ss[1] < ss[2]}

(* The least-number principle, as minima and maxima of sets of naturals. *)
LEMMA LessWellFounded == IsWellFoundedOn(Less, Nat)
BY NatLessThanWellFounded DEF OpToRel, Less

(* A set of naturals that is not empty has its minimum. *)
LEMMA MinInSet ==
    ASSUME NEW S \in SUBSET Nat, S # {}
    PROVE  Min(S) \in S /\ \A x \in S : Min(S) <= x
<1>1. PICK m \in S : \A y \in S : ~ (<<y, m>> \in Less)
  <2> HIDE DEF Less
  <2> QED BY LessWellFounded, WFMin
<1>2. ASSUME NEW y \in S PROVE m <= y
  <2>1. <<y, m>> \in Nat \X Nat
    OBVIOUS
  <2>2. <<y, m>>[1] = y /\ <<y, m>>[2] = m
    OBVIOUS
  <2>3. ~ (y < m)
    BY <1>1, <2>1, <2>2, Zenon DEF Less
  <2> QED
    BY <2>3
<1> QED
  BY <1>2 DEF Min

(* The first place of some, or none. *)
LEMMA FirstPlace ==
    ASSUME NEW n \in Nat, NEW S \in SUBSET (1..n), NEW v, v = IF S # {} THEN Min(S) ELSE 0
    PROVE  v \in 0..n /\ (v = 0 => S = {}) /\ (v # 0 => v \in S /\ v \in 1..n)
<1>1. S \in SUBSET Nat
  OBVIOUS
<1>2. S # {} => Min(S) \in S
  BY <1>1, MinInSet
<1>3. S # {} => v \in S /\ v \in 1..n
  BY <1>2
<1>4. S = {} => v = 0
  OBVIOUS
<1> QED
  BY <1>3, <1>4

(* A bounded set of naturals that is not empty has its maximum. *)
LEMMA MaxInSet ==
    ASSUME NEW S \in SUBSET Nat, S # {}, NEW n \in Nat, \A x \in S : x <= n
    PROVE  Max(S) \in S /\ \A x \in S : x <= Max(S)
<1> DEFINE below == {n - x : x \in S}
<1>1. below \in SUBSET Nat
  OBVIOUS
<1>2. below # {}
  OBVIOUS
<1> DEFINE b == Min(below)
<1>3. b \in below /\ \A y \in below : b <= y
  <2> HIDE DEF below
  <2> QED BY <1>1, <1>2, MinInSet
<1>4. PICK m \in S : b = n - m
  BY <1>3
<1>5. \A x \in S : x <= m
  <2> SUFFICES ASSUME NEW x \in S PROVE x <= m
    OBVIOUS
  <2>1. n - x \in below
    OBVIOUS
  <2>2. b <= n - x
    <3> HIDE DEF b, below
    <3> QED BY <2>1, <1>3
  <2> HIDE DEF b
  <2> QED BY <2>2, <1>4
<1> QED
  BY <1>5 DEF Max

(* Induction up to n over a set of numbers: what holds of 0, and of k if it  *)
(* holds of k - 1, holds of all.                                            *)
LEMMA UpTo ==
    ASSUME NEW n \in Nat, NEW P, 0 \in P,
           \A k \in 1..n : k - 1 \in P => k \in P
    PROVE  \A k \in 0..n : k \in P
<1> DEFINE T == {k \in 0..n : k \notin P}
<1> SUFFICES ASSUME T # {} PROVE FALSE
  OBVIOUS
<1>1. T \in SUBSET Nat
  OBVIOUS
<1> DEFINE m == Min(T)
<1>2. m \in T /\ \A k \in T : m <= k
  <2> HIDE DEF T
  <2> QED BY <1>1, MinInSet
<1> HIDE DEF m
<1>3. m \in 1..n /\ m - 1 \in 0..n
  BY <1>2
<1>4. m - 1 \notin T
  BY <1>2, <1>3
<1> QED
  BY <1>2, <1>3, <1>4

-----------------------------------------------------------------------------
(* Folds *)

(* The function that FoldLeft applies to the places of a sequence, with the *)
(* step as a function from a place and a result to the next result.         *)
Iterates(it, n, base, step) ==
    it = [S \in SUBSET (1..n) |->
            IF S = {} THEN base ELSE step[<<Max(S), it[S \ {Max(S)}]>>]]

(* The largest of a set of places. *)
LEMMA MaxPlace ==
    ASSUME NEW n \in Nat, NEW S \in SUBSET (1..n), S # {}
    PROVE  Max(S) \in S /\ \A x \in S : x <= Max(S)
<1>1. S \in SUBSET Nat /\ \A x \in S : x <= n
  OBVIOUS
<1> QED
  BY <1>1, MaxInSet

LEMMA MaxIs ==
    ASSUME NEW n \in Nat, NEW S \in SUBSET (1..n), NEW m \in S, \A x \in S : x <= m
    PROVE  Max(S) = m
<1>1. Max(S) \in S /\ \A x \in S : x <= Max(S)
  BY MaxPlace
<1>2. S \subseteq Nat
  OBVIOUS
<1>3. Max(S) \in Nat /\ m \in Nat /\ Max(S) <= m /\ m <= Max(S)
  BY <1>1, <1>2
<1> QED
  BY <1>3

(* There is one for each length. *)
LEMMA IterateExists ==
    ASSUME NEW n \in Nat, NEW V, NEW base \in V, NEW step \in [(1..n) \X V -> V]
    PROVE  \E it \in [SUBSET (1..n) -> V] : Iterates(it, n, base, step)
<1> DEFINE good(it, k) ==
              \A S \in SUBSET (1..k) :
                 it[S] = IF S = {} THEN base ELSE step[<<Max(S), it[S \ {Max(S)}]>>]
           P == {k \in 0..n : \E it \in [SUBSET (1..k) -> V] : good(it, k)}
<1>1. 0 \in P
  <2> DEFINE it == [S \in SUBSET (1..0) |-> base]
  <2>1. SUBSET (1..0) = {{}}
    OBVIOUS
  <2>2. it \in [SUBSET (1..0) -> V] /\ good(it, 0)
    BY <2>1
  <2> HIDE DEF good, it
  <2>3. \E f \in [SUBSET (1..0) -> V] : good(f, 0)
    BY <2>2
  <2>4. 0 \in 0..n
    OBVIOUS
  <2> QED
    BY <2>3, <2>4, Zenon
<1>2. ASSUME NEW k \in 1..n, k - 1 \in P PROVE k \in P
  <2>1. PICK old \in [SUBSET (1..(k - 1)) -> V] : good(old, k - 1)
    BY <1>2
  <2> DEFINE it == [S \in SUBSET (1..k) |->
                      IF k \in S THEN step[<<k, old[S \ {k}]>>] ELSE old[S]]
  <2>2. ASSUME NEW S \in SUBSET (1..k) PROVE S \ {k} \in SUBSET (1..(k - 1))
    OBVIOUS
  <2>3. it \in [SUBSET (1..k) -> V]
    <3> SUFFICES ASSUME NEW S \in SUBSET (1..k)
                 PROVE  (IF k \in S THEN step[<<k, old[S \ {k}]>>] ELSE old[S]) \in V
      OBVIOUS
    <3>1. old[S \ {k}] \in V
      BY <2>2
    <3>2. k \notin S => S \ {k} = S
      OBVIOUS
    <3> QED
      BY <3>1, <3>2
  <2>4. \A S \in SUBSET (1..(k - 1)) : S \in SUBSET (1..k) /\ k \notin S /\ it[S] = old[S]
    OBVIOUS
  <2>5. good(it, k)
    <3> SUFFICES ASSUME NEW S \in SUBSET (1..k)
                 PROVE  it[S] = IF S = {} THEN base ELSE step[<<Max(S), it[S \ {Max(S)}]>>]
      OBVIOUS
    <3>1. CASE k \in S
      <4>1. Max(S) = k
        <5>1. k \in Nat /\ \A x \in S : x <= k
          OBVIOUS
        <5> QED BY <3>1, <5>1, MaxIs
      <4>2. it[S \ {k}] = old[S \ {k}]
        BY <2>2, <2>4
      <4>3. it[S] = step[<<k, old[S \ {k}]>>]
        BY <3>1
      <4> HIDE DEF it
      <4> QED
        BY <3>1, <4>1, <4>2, <4>3
    <3>2. CASE k \notin S
      <4>1. S \in SUBSET (1..(k - 1)) /\ it[S] = old[S]
        BY <2>2, <3>2
      <4>2. S # {} => S \ {Max(S)} \in SUBSET (1..(k - 1))
        BY <4>1
      <4>3. S # {} => it[S \ {Max(S)}] = old[S \ {Max(S)}]
        BY <2>4, <4>2
      <4>4. old[S] = IF S = {} THEN base ELSE step[<<Max(S), old[S \ {Max(S)}]>>]
        BY <2>1, <4>1
      <4> HIDE DEF it
      <4> QED
        BY <4>1, <4>3, <4>4
    <3> QED
      BY <3>1, <3>2
  <2> HIDE DEF good, it
  <2>6. \E f \in [SUBSET (1..k) -> V] : good(f, k)
    BY <2>3, <2>5
  <2> QED
    BY <2>6
<1>3. n \in P
  <2> HIDE DEF P
  <2> QED BY <1>1, <1>2, UpTo
<1>4. PICK it \in [SUBSET (1..n) -> V] : good(it, n)
  BY <1>3
<1>5. Iterates(it, n, base, step)
  BY <1>4 DEF Iterates
<1> QED
  BY <1>4, <1>5

(* The same, said of each set of places. *)
IteratesOn(it, n, V, base, step) ==
    \A S \in SUBSET (1..n) :
        /\ S = {} => it[S] = base
        /\ S # {} => /\ Max(S) \in 1..n /\ it[S \ {Max(S)}] \in V
                     /\ it[S] = step[<<Max(S), it[S \ {Max(S)}]>>]

LEMMA IterateEach ==
    ASSUME NEW n \in Nat, NEW V, NEW base \in V, NEW step \in [(1..n) \X V -> V]
    PROVE  \E it \in [SUBSET (1..n) -> V] : IteratesOn(it, n, V, base, step)
<1>1. PICK it \in [SUBSET (1..n) -> V] : Iterates(it, n, base, step)
  BY IterateExists
<1>2. ASSUME NEW S \in SUBSET (1..n)
      PROVE  /\ S = {} => it[S] = base
             /\ S # {} => /\ Max(S) \in 1..n /\ it[S \ {Max(S)}] \in V
                          /\ it[S] = step[<<Max(S), it[S \ {Max(S)}]>>]
  <2>1. it[S] = IF S = {} THEN base ELSE step[<<Max(S), it[S \ {Max(S)}]>>]
    BY <1>1 DEF Iterates
  <2>2. S # {} => Max(S) \in S
    BY MaxPlace
  <2> QED BY <2>1, <2>2
<1>3. IteratesOn(it, n, V, base, step)
  BY <1>2 DEF IteratesOn
<1> QED
  BY <1>3

(* There is one whatever the step is, and it has what each step keeps, of the
   places taken so far and the result.                                      *)
LEMMA IterateAny ==
    ASSUME NEW n \in Nat, NEW base, NEW step
    PROVE  \E it : Iterates(it, n, base, step)
<1> DEFINE good(it, k) ==
              \A S \in SUBSET (1..k) :
                 it[S] = IF S = {} THEN base ELSE step[<<Max(S), it[S \ {Max(S)}]>>]
           P == {k \in 0..n : \E it : it = [S \in SUBSET (1..k) |-> it[S]] /\ good(it, k)}
<1>1. 0 \in P
  <2> DEFINE it == [S \in SUBSET (1..0) |-> base]
  <2>1. SUBSET (1..0) = {{}}
    OBVIOUS
  <2>2. it = [S \in SUBSET (1..0) |-> it[S]] /\ good(it, 0)
    BY <2>1
  <2> HIDE DEF good, it
  <2>3. \E f : f = [S \in SUBSET (1..0) |-> f[S]] /\ good(f, 0)
    BY <2>2
  <2>4. 0 \in 0..n
    OBVIOUS
  <2> QED
    BY <2>3, <2>4, Zenon
<1>2. ASSUME NEW k \in 1..n, k - 1 \in P PROVE k \in P
  <2>1. PICK old : old = [S \in SUBSET (1..(k - 1)) |-> old[S]] /\ good(old, k - 1)
    BY <1>2
  <2> DEFINE it == [S \in SUBSET (1..k) |->
                      IF k \in S THEN step[<<k, old[S \ {k}]>>] ELSE old[S]]
  <2>2. ASSUME NEW S \in SUBSET (1..k) PROVE S \ {k} \in SUBSET (1..(k - 1))
    OBVIOUS
  <2>3. it = [S \in SUBSET (1..k) |-> it[S]]
    OBVIOUS
  <2>4. \A S \in SUBSET (1..(k - 1)) : S \in SUBSET (1..k) /\ k \notin S /\ it[S] = old[S]
    OBVIOUS
  <2>5. good(it, k)
    <3> SUFFICES ASSUME NEW S \in SUBSET (1..k)
                 PROVE  it[S] = IF S = {} THEN base ELSE step[<<Max(S), it[S \ {Max(S)}]>>]
      OBVIOUS
    <3>1. CASE k \in S
      <4>1. Max(S) = k
        <5>1. k \in Nat /\ \A x \in S : x <= k
          OBVIOUS
        <5> QED BY <3>1, <5>1, MaxIs
      <4>2. it[S \ {k}] = old[S \ {k}]
        BY <2>2, <2>4
      <4>3. it[S] = step[<<k, old[S \ {k}]>>]
        BY <3>1
      <4> HIDE DEF it
      <4> QED
        BY <3>1, <4>1, <4>2, <4>3
    <3>2. CASE k \notin S
      <4>1. S \in SUBSET (1..(k - 1)) /\ it[S] = old[S]
        BY <2>2, <3>2
      <4>2. S # {} => S \ {Max(S)} \in SUBSET (1..(k - 1))
        BY <4>1
      <4>3. S # {} => it[S \ {Max(S)}] = old[S \ {Max(S)}]
        BY <2>4, <4>2
      <4>4. old[S] = IF S = {} THEN base ELSE step[<<Max(S), old[S \ {Max(S)}]>>]
        BY <2>1, <4>1
      <4> HIDE DEF it
      <4> QED
        BY <4>1, <4>3, <4>4
    <3> QED
      BY <3>1, <3>2
  <2> HIDE DEF good, it
  <2>6. \E f : f = [S \in SUBSET (1..k) |-> f[S]] /\ good(f, k)
    BY <2>3, <2>5
  <2> QED
    BY <2>6
<1>3. n \in P
  <2> HIDE DEF P
  <2> QED BY <1>1, <1>2, UpTo
<1>4. PICK it : it = [S \in SUBSET (1..n) |-> it[S]] /\ good(it, n)
  BY <1>3
<1>5. Iterates(it, n, base, step)
  BY <1>4 DEF Iterates
<1> QED
  BY <1>5

LEMMA IteratesKeep ==
    ASSUME NEW n \in Nat, NEW base, NEW step, NEW Good, <<{}, base>> \in Good,
           \A j \in 1..n : \A S \in SUBSET (1..(j - 1)) : \A v :
              <<S, v>> \in Good => <<S \cup {j}, step[<<j, v>>]>> \in Good,
           NEW it, Iterates(it, n, base, step)
    PROVE  \A S \in SUBSET (1..n) : <<S, it[S]>> \in Good
<1> DEFINE P == {k \in 0..n : \A S \in SUBSET (1..k) : <<S, it[S]>> \in Good}
<1>0. \A S \in SUBSET (1..n) :
         it[S] = IF S = {} THEN base ELSE step[<<Max(S), it[S \ {Max(S)}]>>]
  BY DEF Iterates
<1>1. 0 \in P
  <2>1. SUBSET (1..0) = {{}} /\ {} \in SUBSET (1..n) /\ 0 \in 0..n
    OBVIOUS
  <2>2. it[{}] = base
    BY <1>0, <2>1
  <2> QED BY <2>1, <2>2
<1>2. ASSUME NEW k \in 1..n, k - 1 \in P PROVE k \in P
  <2>1. ASSUME NEW S \in SUBSET (1..k) PROVE <<S, it[S]>> \in Good
    <3>1. CASE k \notin S
      <4>1. S \in SUBSET (1..(k - 1))
        BY <3>1
      <4> QED BY <1>2, <4>1
    <3>2. CASE k \in S
      <4> DEFINE T == S \ {k}
      <4>1. T \in SUBSET (1..(k - 1)) /\ T \cup {k} = S /\ S # {} /\ S \in SUBSET (1..n)
        BY <3>2
      <4>2. Max(S) = k
        <5>1. k \in Nat /\ \A x \in S : x <= k
          OBVIOUS
        <5> QED BY <3>2, <5>1, MaxIs
      <4>3. it[S] = step[<<k, it[T]>>]
        BY <1>0, <4>1, <4>2
      <4>4. <<T, it[T]>> \in Good
        BY <1>2, <4>1
      <4> HIDE DEF T, P
      <4>5. <<T \cup {k}, step[<<k, it[T]>>]>> \in Good
        BY <4>1, <4>4
      <4> QED BY <4>1, <4>3, <4>5
    <3> QED BY <3>1, <3>2
  <2> QED BY <2>1
<1>3. n \in P
  <2> HIDE DEF P
  <2> QED BY <1>1, <1>2, UpTo
<1> QED
  BY <1>3

(* The initial segments of places. *)
LEMMA Segment ==
    ASSUME NEW n \in Nat, NEW k \in 1..n
    PROVE  /\ 1..k \in SUBSET (1..n) /\ 1..k # {}
           /\ Max(1..k) = k /\ (1..k) \ {Max(1..k)} = 1..(k - 1)
<1>1. 1..k \in SUBSET (1..n) /\ 1..k # {} /\ k \in 1..k
  OBVIOUS
<1>2. Max(1..k) = k
  <2>1. k \in Nat /\ 1..k \in SUBSET (1..k) /\ \A x \in 1..k : x <= k
    OBVIOUS
  <2> QED BY <1>1, <2>1, MaxIs
<1>3. (1..k) \ {k} = 1..(k - 1)
  OBVIOUS
<1> QED
  BY <1>1, <1>2, <1>3

-----------------------------------------------------------------------------
(* Reversed and sifted sequences *)

(* Reverse keeps a list's elements (its definition is Len and places only). *)
LEMMA ReverseType ==
    ASSUME NEW T, NEW list \in Seq(T)
    PROVE  Reverse(list) \in Seq(T)
BY DEF Reverse

(* Reversing a list leaves the set of its elements. *)
LEMMA ReverseRange ==
    ASSUME NEW T, NEW list \in Seq(T)
    PROVE  Range(Reverse(list)) = Range(list)
<1>1. Reverse(list) = [i \in 1..Len(list) |-> list[Len(list) - i + 1]] /\ Len(list) \in Nat
  BY DEF Reverse
<1>2. ASSUME NEW x \in Range(list) PROVE x \in Range(Reverse(list))
  <2>1. PICK i \in 1..Len(list) : x = list[i]
    BY DEF Range
  <2>2. Len(list) - i + 1 \in 1..Len(list) /\ Reverse(list)[Len(list) - i + 1] = x
    BY <1>1, <2>1
  <2> QED
    BY <1>1, <2>2 DEF Range
<1>3. ASSUME NEW x \in Range(Reverse(list)) PROVE x \in Range(list)
  BY <1>1 DEF Range
<1> QED
  BY <1>2, <1>3

(* The places that are kept are finitely many. *)
LEMMA PlacesFinite ==
    ASSUME NEW S, \A x \in S : x \in Nat, IsFiniteSet(S), NEW T \in SUBSET S
    PROVE  IsFiniteSet(T) /\ \A x \in T : x \in Nat
BY FS_Subset

(* Every rank up to the number of places kept is the rank of one of them: the
   least rank that is not would be one more than that of some place, and the
   next place kept has it.                                                  *)
LEMMA RankReached ==
    ASSUME NEW S, \A x \in S : x \in Nat, IsFiniteSet(S), NEW j \in 1..Cardinality(S)
    PROVE  \E i \in S : Rank(S, i) = j
<1> DEFINE K       == S
           upTo(i) == {k \in K : k <= i}
           J       == {x \in 1..Cardinality(K) : \A i \in K : Rank(S, i) # x}
<1>1. IsFiniteSet(K) /\ \A x \in K : x \in Nat
  BY PlacesFinite
<1>2. Cardinality(K) \in Nat
  BY <1>1, FS_CardinalityType
<1>3. \A i : Rank(S, i) = Cardinality(upTo(i)) /\ IsFiniteSet(upTo(i))
  BY <1>1, FS_Subset DEF Rank
<1> SUFFICES ASSUME J # {} PROVE FALSE
  OBVIOUS
<1> DEFINE m == Min(J)
<1>4. m \in J /\ \A x \in J : m <= x
  <2>1. J \in SUBSET Nat
    BY <1>2
  <2> HIDE DEF J
  <2> QED
    BY <2>1, MinInSet
<1>5. K # {}
  <2>1. m \in 1..Cardinality(K)
    BY <1>4
  <2>2. Cardinality(K) # 0
    <3> HIDE DEF K, m
    <3> QED BY <2>1
  <2> QED
    BY <2>2, FS_EmptySet
<1> HIDE DEF m
<1>6. CASE m = 1
  <2> DEFINE i == Min(K)
  <2>1. i \in K /\ \A k \in K : i <= k
    <3> HIDE DEF K
    <3> QED BY <1>1, <1>5, MinInSet
  <2> HIDE DEF i
  <2>2. upTo(i) = {i}
    BY <1>1, <2>1
  <2>3. Rank(S, i) = 1
    BY <1>3, <2>2, FS_Singleton
  <2> QED
    BY <1>4, <1>6, <2>1, <2>3
<1>7. CASE m # 1
  <2>1. m - 1 \in 1..Cardinality(K) /\ m - 1 \notin J
    BY <1>2, <1>4, <1>7
  <2>2. PICK i \in K : Rank(S, i) = m - 1
    BY <2>1
  <2> DEFINE above == {k \in K : k > i}
  <2>3. above # {}
    <3> SUFFICES ASSUME above = {} PROVE FALSE
      OBVIOUS
    <3>1. upTo(i) = K
      BY <1>1
    <3> QED
      BY <1>2, <1>3, <1>4, <2>2, <3>1
  <2> DEFINE next == Min(above)
  <2>4. next \in above /\ \A k \in above : next <= k
    <3>1. above \in SUBSET Nat
      BY <1>1
    <3> HIDE DEF above
    <3> QED BY <2>3, <3>1, MinInSet
  <2> HIDE DEF next
  <2>5. upTo(next) = upTo(i) \cup {next} /\ next \notin upTo(i)
    BY <1>1, <2>4
  <2>6. Cardinality(upTo(next)) = Cardinality(upTo(i)) + 1
    <3> HIDE DEF upTo
    <3> QED BY <1>3, <2>5, FS_AddElement
  <2>7. Rank(S, next) = m
    BY <1>2, <1>3, <1>4, <2>2, <2>6
  <2> QED
    BY <1>4, <2>4, <2>7
<1> QED
  BY <1>6, <1>7

(* Two places that are kept have different ranks. *)
LEMMA RankInjective ==
    ASSUME NEW S, \A x \in S : x \in Nat, IsFiniteSet(S),
           NEW i \in S, NEW k \in S, i < k
    PROVE  Rank(S, i) # Rank(S, k)
<1> DEFINE upTo(x) == {y \in S : y <= x}
<1>1. i \in Nat /\ k \in Nat /\ (\A x \in S : x \in Nat) /\ IsFiniteSet(upTo(k))
  BY PlacesFinite
<1>2. upTo(i) \in SUBSET upTo(k) /\ upTo(i) # upTo(k)
  <2>1. k \in upTo(k) /\ k \notin upTo(i)
    BY <1>1
  <2>2. \A y \in S : y <= i => y <= k
    BY <1>1
  <2> QED BY <2>1, <2>2
<1>3. Cardinality(upTo(i)) # Cardinality(upTo(k))
  <2> HIDE DEF upTo
  <2> QED BY <1>1, <1>2, FS_Subset
<1> QED
  BY <1>3 DEF Rank

(* The rank of a place is one of the places of the result. *)
LEMMA RankType ==
    ASSUME NEW S, \A x \in S : x \in Nat, IsFiniteSet(S), NEW i \in S
    PROVE  Rank(S, i) \in 1..Cardinality(S)
<1> DEFINE K    == S
           upTo == {y \in K : y <= i}
<1>1. IsFiniteSet(K) /\ upTo \in SUBSET K /\ i \in upTo
  BY PlacesFinite
<1>2. IsFiniteSet(upTo) /\ Cardinality(upTo) <= Cardinality(K)
  <2> HIDE DEF K, upTo
  <2> QED BY <1>1, FS_Subset
<1>3. Cardinality(upTo) \in Nat /\ Cardinality(K) \in Nat /\ Cardinality(upTo) # 0
  <2> HIDE DEF K, upTo
  <2> QED BY <1>1, <1>2, FS_CardinalityType, FS_EmptySet
<1>4. Rank(S, i) = Cardinality(upTo)
  BY DEF Rank
<1> HIDE DEF upTo, K
<1>5. Cardinality(upTo) \in 1..Cardinality(K)
  BY <1>2, <1>3
<1> QED
  BY <1>4, <1>5 DEF K

(* A smaller place has a smaller rank. *)
LEMMA RankOrder ==
    ASSUME NEW S, \A x \in S : x \in Nat, IsFiniteSet(S),
           NEW i \in S, NEW k \in S, i < k
    PROVE  Rank(S, i) < Rank(S, k)
<1> DEFINE upTo(x) == {y \in S : y <= x}
<1>1. i \in Nat /\ k \in Nat /\ (\A x \in S : x \in Nat) /\ IsFiniteSet(upTo(k))
  BY PlacesFinite
<1>2. upTo(i) \in SUBSET upTo(k)
  <2>1. \A y \in S : y <= i => y <= k
    BY <1>1
  <2> QED BY <2>1
<1>3. /\ Cardinality(upTo(i)) <= Cardinality(upTo(k))
      /\ IsFiniteSet(upTo(i))
  <2> HIDE DEF upTo
  <2> QED BY <1>1, <1>2, FS_Subset
<1>4. Cardinality(upTo(i)) \in Nat /\ Cardinality(upTo(k)) \in Nat
  <2> HIDE DEF upTo
  <2> QED BY <1>1, <1>3, FS_CardinalityType
<1>5. Rank(S, i) = Cardinality(upTo(i)) /\ Rank(S, k) = Cardinality(upTo(k))
  BY DEF Rank
<1>6. Rank(S, i) # Rank(S, k)
  BY RankInjective
<1> HIDE DEF upTo
<1> QED
  BY <1>3, <1>4, <1>5, <1>6

(* What lists m different things has m elements. *)
LEMMA CountListed ==
    ASSUME NEW m \in Nat, NEW p, \A i, j \in 1..m : p[i] = p[j] => i = j
    PROVE  Cardinality({p[j] : j \in 1..m}) = m
<1> DEFINE T == {p[j] : j \in 1..m}
           f == [j \in 1..m |-> p[j]]
<1>1. f \in [1..m -> T] /\ (\A a, b \in 1..m : f[a] = f[b] => a = b)
      /\ \A t \in T : \E s \in 1..m : f[s] = t
  OBVIOUS
<1>2. f \in Bijection(1..m, T)
  <2> HIDE DEF f, T
  <2> QED BY <1>1 DEF Bijection, Injection, Surjection, IsInjective
<1>3. ExistsBijection(1..m, T)
  <2> HIDE DEF f, T
  <2> QED BY <1>2 DEF ExistsBijection
<1> QED
  BY <1>3, FS_CountingElements

(* p lists the places of S, m of them, in order. *)
Listed(p, m, S) ==
    /\ p \in [1..m -> Nat]
    /\ \A i, j \in 1..m : i < j => p[i] < p[j]
    /\ {p[j] : j \in 1..m} = S

(* The places that are kept can be listed. *)
LEMMA PlacesExist ==
    ASSUME NEW S, \A x \in S : x \in Nat, IsFiniteSet(S)
    PROVE  \E m \in Nat : \E p : Listed(p, m, S)
<1> DEFINE K == S
           m == Cardinality(K)
           p == [j \in 1..m |-> CHOOSE i \in K : Rank(S, i) = j]
<1>1. m \in Nat /\ \A x \in K : x \in Nat
  BY PlacesFinite, FS_CardinalityType
<1>2. ASSUME NEW j \in 1..m PROVE p[j] \in K /\ Rank(S, p[j]) = j
  BY RankReached
<1>3. ASSUME NEW i \in K PROVE Rank(S, i) \in 1..m
  BY RankType
<1>4. DOMAIN p = 1..m /\ p = [j \in 1..m |-> p[j]]
  OBVIOUS
<1> HIDE DEF p, m
<1>5. ASSUME NEW i \in 1..m, NEW j \in 1..m, i < j PROVE p[i] < p[j]
  <2>1. p[i] \in K /\ p[j] \in K /\ p[i] \in Nat /\ p[j] \in Nat
    BY <1>1, <1>2
  <2>2. p[i] # p[j]
    BY <1>2, <1>5
  <2>3. ~(p[j] < p[i])
    <3> SUFFICES ASSUME p[j] < p[i] PROVE FALSE
      OBVIOUS
    <3>1. Rank(S, p[j]) < Rank(S, p[i])
      BY <2>1, RankOrder
    <3> QED BY <1>2, <1>5, <3>1
  <2> QED BY <2>1, <2>2, <2>3
<1>6. K = {p[j] : j \in 1..m}
  <2>1. ASSUME NEW i \in K PROVE i \in {p[j] : j \in 1..m}
    <3>1. Rank(S, i) \in 1..m
      BY <1>3
    <3> DEFINE x == p[Rank(S, i)]
    <3>2. x \in K /\ Rank(S, x) = Rank(S, i)
      BY <1>2, <3>1
    <3>3. x = i
      <4> HIDE DEF x
      <4>1. ~(x < i) /\ ~(i < x) /\ x \in Nat /\ i \in Nat
        BY <1>1, <3>2, RankInjective
      <4> QED BY <4>1
    <3> QED BY <3>1, <3>3
  <2> QED BY <1>2, <2>1
<1>7. p \in [1..m -> Nat]
  BY <1>1, <1>2, <1>4
<1>8. Listed(p, m, S)
  BY <1>5, <1>6, <1>7 DEF Listed
<1> QED
  BY <1>1, <1>8 DEF m

(* Kept takes the places in order, however they are listed. *)
LEMMA SiftedPlaces ==
    ASSUME NEW seq, NEW S, \A x \in S : x \in Nat, IsFiniteSet(S),
           NEW m \in Nat, NEW p, Listed(p, m, S)
    PROVE  Sifted(seq, S) = [j \in 1..m |-> seq[p[j]]]
<1> DEFINE K == S
           at(j) == CHOOSE i \in K : Rank(S, i) = j
<1>1. /\ \A i, j \in 1..m : i < j => p[i] < p[j]
      /\ \A j \in 1..m : p[j] \in Nat /\ p[j] \in K
      /\ K = {p[j] : j \in 1..m}
  BY DEF Listed
<1>2. \A i, j \in 1..m : p[i] <= p[j] <=> i <= j
  <2> SUFFICES ASSUME NEW i \in 1..m, NEW j \in 1..m PROVE p[i] <= p[j] <=> i <= j
    OBVIOUS
  <2>1. i < j => p[i] < p[j]
    BY <1>1
  <2>2. j < i => p[j] < p[i]
    BY <1>1
  <2>3. p[i] \in Nat /\ p[j] \in Nat /\ i \in Nat /\ j \in Nat
    BY <1>1
  <2>4. i = j => p[i] = p[j]
    OBVIOUS
  <2> QED BY <2>1, <2>2, <2>3, <2>4
<1>3. \A i, j \in 1..m : p[i] = p[j] => i = j
  <2> SUFFICES ASSUME NEW i \in 1..m, NEW j \in 1..m, p[i] = p[j] PROVE i = j
    OBVIOUS
  <2>1. p[i] <= p[j] /\ p[j] <= p[i]
    BY <1>1
  <2>2. i <= j /\ j <= i
    BY <1>2, <2>1
  <2> QED BY <2>2
<1>4. Cardinality(K) = m
  <2>1. Cardinality({p[j] : j \in 1..m}) = m
    BY <1>3, CountListed
  <2> HIDE DEF K
  <2> QED BY <1>1, <2>1
<1>5. ASSUME NEW j \in 1..m PROVE Rank(S, p[j]) = j
  <2>1. {k \in K : k <= p[j]} = {p[i] : i \in 1..j}
    <3>1. 1..j \subseteq 1..m /\ \A i \in 1..m : i <= j <=> i \in 1..j
      OBVIOUS
    <3> HIDE DEF K
    <3>2. ASSUME NEW k \in K, k <= p[j] PROVE k \in {p[i] : i \in 1..j}
      <4>1. PICK i \in 1..m : k = p[i]
        BY <1>1
      <4> QED BY <1>2, <3>1, <3>2, <4>1
    <3>3. ASSUME NEW i \in 1..j PROVE p[i] \in K /\ p[i] <= p[j]
      BY <1>1, <1>2, <3>1
    <3> QED BY <3>2, <3>3
  <2>2. \A a, b \in 1..j : p[a] = p[b] => a = b
    BY <1>3
  <2>3. j \in Nat
    OBVIOUS
  <2>4. Cardinality({p[i] : i \in 1..j}) = j
    BY <2>2, <2>3, CountListed
  <2> QED BY <2>1, <2>4 DEF Rank
<1>6. ASSUME NEW j \in 1..m PROVE at(j) = p[j]
  <2>1. at(j) \in K /\ Rank(S, at(j)) = j
    BY <1>1, <1>5
  <2> HIDE DEF at
  <2>2. PICK i \in 1..m : at(j) = p[i]
    BY <1>1, <2>1
  <2> QED BY <1>5, <2>1, <2>2
<1>7. Sifted(seq, S) = [j \in 1..Cardinality(K) |-> seq[at(j)]]
  BY DEF Sifted
<1> HIDE DEF at, K
<1> QED
  BY <1>4, <1>6, <1>7

LEMMA SiftedAt ==
    ASSUME NEW seq, NEW S, \A x \in S : x \in Nat, IsFiniteSet(S),
           NEW m \in Nat, NEW p, Listed(p, m, S)
    PROVE  /\ DOMAIN Sifted(seq, S) = 1..m
           /\ \A j \in 1..m : Sifted(seq, S)[j] = seq[p[j]]
           /\ Sifted(seq, S) = [j \in 1..m |-> Sifted(seq, S)[j]]
BY SiftedPlaces

(* What is sifted from a sequence: increasing places of it, all that are in S. *)
SiftedFrom(u, seq, S) ==
    \E m \in 0..Len(seq) : \E p \in [1..m -> 1..Len(seq)] :
        Listed(p, m, S) /\ u = [j \in 1..m |-> seq[p[j]]]

LEMMA SiftedOK ==
    ASSUME NEW T, NEW seq \in Seq(T), NEW S \in SUBSET (1..Len(seq))
    PROVE  Sifted(seq, S) \in Seq(T) /\ SiftedFrom(Sifted(seq, S), seq, S)
<1>1. Len(seq) \in Nat /\ \A i \in 1..Len(seq) : seq[i] \in T
  OBVIOUS
<1> DEFINE all == 1..Len(seq)
<1>2. IsFiniteSet(all) /\ Cardinality(all) = Len(seq) /\ all \subseteq Nat
  <2> HIDE DEF all
  <2>1. IsFiniteSet(1..Len(seq)) /\ Cardinality(1..Len(seq)) = Len(seq)
    <3> DEFINE n == Len(seq)
    <3>1. n \in Nat
      OBVIOUS
    <3> HIDE DEF n
    <3>2. IsFiniteSet(1..n) /\ Cardinality(1..n) = n
      BY <3>1, FS_Interval
    <3> QED BY <3>2 DEF n
  <2> QED BY <1>1, <2>1 DEF all
<1>3. (\A x \in S : x \in Nat) /\ S \in SUBSET all
  BY <1>2
<1>4. IsFiniteSet(S) /\ Cardinality(S) <= Len(seq)
  <2> HIDE DEF all
  <2> QED BY <1>2, <1>3, FS_Subset
<1> HIDE DEF all
<1>5. PICK m \in Nat : \E p : Listed(p, m, S)
  BY <1>3, <1>4, PlacesExist
<1>6. PICK p : Listed(p, m, S)
  BY <1>5
<1>7. Sifted(seq, S) = [j \in 1..m |-> seq[p[j]]]
  <2>1. m \in Nat /\ (\A x \in S : x \in Nat) /\ IsFiniteSet(S) /\ Listed(p, m, S)
    BY <1>3, <1>4, <1>5, <1>6
  <2>2. /\ \A j \in 1..m : Sifted(seq, S)[j] = seq[p[j]]
        /\ Sifted(seq, S) = [j \in 1..m |-> Sifted(seq, S)[j]]
    BY ONLY <2>1, SiftedAt
  <2> QED BY <2>2, Zenon
<1>8. p \in [1..m -> 1..Len(seq)]
  BY <1>6 DEF Listed
<1>9. m <= Len(seq)
  <2>1. \A i, j \in 1..m : p[i] = p[j] => i = j
    <3> SUFFICES ASSUME NEW i \in 1..m, NEW j \in 1..m, p[i] = p[j] PROVE i = j
      OBVIOUS
    <3>1. p[i] \in Nat /\ ~(p[i] < p[j]) /\ ~(p[j] < p[i])
      BY <1>8
    <3>2. ~(i < j) /\ ~(j < i)
      BY <1>6, <3>1 DEF Listed
    <3> QED BY <3>2
  <2>2. Cardinality(S) = m
    BY <1>6, <2>1, CountListed DEF Listed
  <2> QED BY <1>4, <2>2
<1>10. Sifted(seq, S) \in Seq(T)
  BY <1>1, <1>7, <1>8
<1>11. m \in 0..Len(seq)
  BY <1>1, <1>9
<1> QED
  BY <1>6, <1>7, <1>8, <1>10, <1>11 DEF SiftedFrom

(* A sifted list has just the elements in the places it is sifted to. *)
PicksFrom(u, seq, S) == \A x : (\E j \in 1..Len(u) : u[j] = x) <=> (\E k \in S : seq[k] = x)

LEMMA SiftedPicks ==
    ASSUME NEW T, NEW u \in Seq(T), NEW seq \in Seq(T), NEW S, SiftedFrom(u, seq, S)
    PROVE  PicksFrom(u, seq, S)
<1>1. PICK m \in 0..Len(seq) : \E p \in [1..m -> 1..Len(seq)] :
         Listed(p, m, S) /\ u = [j \in 1..m |-> seq[p[j]]]
  BY DEF SiftedFrom
<1>2. PICK p \in [1..m -> 1..Len(seq)] : Listed(p, m, S) /\ u = [j \in 1..m |-> seq[p[j]]]
  BY <1>1
<1>3. Len(u) = m
  BY <1>2
<1>4. \A j \in 1..m : p[j] \in S /\ u[j] = seq[p[j]]
  BY <1>2 DEF Listed
<1>5. \A k \in S : \E j \in 1..m : k = p[j]
  BY <1>2 DEF Listed
<1>6. ASSUME NEW j \in 1..Len(u) PROVE \E k \in S : u[j] = seq[k]
  BY <1>3, <1>4
<1>7. ASSUME NEW k \in S PROVE \E j \in 1..Len(u) : u[j] = seq[k]
  <2>1. PICK j \in 1..m : k = p[j]
    BY <1>5
  <2> QED BY <1>3, <1>4, <2>1
<1> SUFFICES ASSUME NEW x
             PROVE (\E j \in 1..Len(u) : u[j] = x) <=> (\E k \in S : seq[k] = x)
  BY DEF PicksFrom
<1>8. ASSUME NEW j \in 1..Len(u), u[j] = x PROVE \E k \in S : seq[k] = x
  BY <1>6, <1>8
<1>9. ASSUME NEW k \in S, seq[k] = x PROVE \E j \in 1..Len(u) : u[j] = x
  BY <1>7, <1>9
<1> QED
  BY <1>8, <1>9

=============================================================================
