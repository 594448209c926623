----------------------------- MODULE CacheProofs -----------------------------
(***************************************************************************)
(* The DNS cache for any number of records, names, addresses, buckets and  *)
(* bignames, any replies, hosts files and leases.                          *)
(***************************************************************************)
EXTENDS Cache, InductionLemmas

-----------------------------------------------------------------------------
(* Sequences without repetition *)

Single(s)      == \A i, j \in 1..Len(s) : s[i] = s[j] => i = j
Ahead(s, x, y) == \E i, j \in 1..Len(s) : i < j /\ s[i] = x /\ s[j] = y

LEMMA AheadAt ==
    ASSUME NEW s, NEW i \in 1..Len(s), NEW j \in 1..Len(s), i < j
    PROVE  Ahead(s, s[i], s[j])
BY Zenon DEF Ahead

(* What is drawn from a sequence: no repetition comes in, and no two
   elements change places.                                                  *)
LEMMA DrawnOK ==
    ASSUME NEW T, NEW s \in Seq(T), Single(s), NEW S \in SUBSET (1..Len(s)),
           NEW u, SiftedFrom(u, s, S)
    PROVE  /\ u \in Seq(T) /\ Single(u) /\ Range(u) = {s[i] : i \in S}
           /\ \A x, y : Ahead(u, x, y) => Ahead(s, x, y)
<1>0. PICK m \in 0..Len(s) : \E p \in [1..m -> 1..Len(s)] :
         Listed(p, m, S) /\ u = [j \in 1..m |-> s[p[j]]]
  BY DEF SiftedFrom
<1>1. PICK p \in [1..m -> 1..Len(s)] : Listed(p, m, S) /\ u = [j \in 1..m |-> s[p[j]]]
  BY <1>0
<1>2. m \in Nat /\ Len(s) \in Nat /\ (\A i \in 1..Len(s) : s[i] \in T)
  OBVIOUS
<1>3. u \in Seq(T) /\ Len(u) = m /\ DOMAIN u = 1..m /\ \A j \in 1..m : u[j] = s[p[j]]
  BY <1>1, <1>2
<1>4. \A i, j \in 1..m : i < j => p[i] < p[j]
  BY <1>1 DEF Listed
<1>5. {p[j] : j \in 1..m} = S
  BY <1>1 DEF Listed
<1>6. Single(u)
  <2> SUFFICES ASSUME NEW i \in 1..m, NEW j \in 1..m, u[i] = u[j] PROVE i = j
    BY <1>3 DEF Single
  <2>1. p[i] = p[j]
    BY <1>1, <1>3 DEF Single
  <2>2. ~(i < j) /\ ~(j < i)
    BY <1>1, <1>4, <2>1
  <2> QED BY <2>2
<1>7. Range(u) = {s[i] : i \in S}
  <2>1. Range(u) = {u[j] : j \in 1..m}
    BY <1>3 DEF Range
  <2> QED BY <1>3, <1>5, <2>1
<1>8. ASSUME NEW x, NEW y, Ahead(u, x, y) PROVE Ahead(s, x, y)
  <2>1. PICK i \in 1..m, j \in 1..m : i < j /\ u[i] = x /\ u[j] = y
    BY <1>3, <1>8 DEF Ahead
  <2>2. p[i] \in 1..Len(s) /\ p[j] \in 1..Len(s) /\ p[i] < p[j] /\ s[p[i]] = x /\ s[p[j]] = y
    BY <1>1, <1>3, <1>4, <2>1
  <2> QED BY <2>2 DEF Ahead
<1> QED
  BY <1>3, <1>6, <1>7, <1>8

(* What is left of a sequence without what is at place p. *)
Skipping(s, p) == [j \in 1..(Len(s) - 1) |-> s[IF j < p THEN j ELSE j + 1]]

LEMMA PlaceOut ==
    ASSUME NEW T, NEW s, s \in Seq(T), NEW p \in 1..Len(s)
    PROVE  RemoveAt(s, p) = Skipping(s, p)
<1> DEFINE n == Len(s)
           a == SubSeq(s, 1, p - 1)  b == SubSeq(s, p + 1, n)  w == a \o b
<1>1. n \in Nat /\ p \in Nat /\ p >= 1 /\ p <= n
  OBVIOUS
<1>2. a \in Seq(T) /\ Len(a) = p - 1 /\ \A j \in 1..(p - 1) : a[j] = s[j]
  BY <1>1
<1>3. b \in Seq(T) /\ Len(b) = n - p /\ \A j \in 1..(n - p) : b[j] = s[p + j]
  BY <1>1
<1> HIDE DEF a, b
<1>4. /\ w \in Seq(T) /\ Len(w) = Len(a) + Len(b)
      /\ \A j \in 1..Len(a) : w[j] = a[j]
      /\ \A j \in (Len(a) + 1)..(Len(a) + Len(b)) : w[j] = b[j - Len(a)]
  <2>1. a \in Seq(T) /\ b \in Seq(T)
    BY <1>2, <1>3
  <2>2. w \in Seq(T) /\ Len(w) = Len(a) + Len(b)
    BY ONLY <2>1
  <2>3. \A j \in 1..Len(a) : w[j] = a[j]
    BY ONLY <2>1
  <2>4. \A j \in (Len(a) + 1)..(Len(a) + Len(b)) : w[j] = b[j - Len(a)]
    BY ONLY <2>1
  <2> QED BY <2>2, <2>3, <2>4
<1> HIDE DEF w
<1>5. Len(w) = n - 1 /\ Len(a) + Len(b) = n - 1
  <2>1. Len(a) = p - 1 /\ Len(b) = n - p /\ Len(w) = Len(a) + Len(b)
    BY <1>2, <1>3, <1>4
  <2> QED BY ONLY <1>1, <2>1
<1>6. ASSUME NEW j \in 1..(n - 1) PROVE w[j] = s[IF j < p THEN j ELSE j + 1]
  <2>1. CASE j < p
    <3>1. j \in 1..(p - 1)
      BY <1>1, <2>1
    <3> QED BY <1>2, <1>4, <2>1, <3>1
  <2>2. CASE ~(j < p)
    <3>1. j \in p..(n - 1) /\ j - (p - 1) \in 1..(n - p) /\ p + (j - (p - 1)) = j + 1
          /\ (p - 1) + 1 = p
      BY <1>1, <2>2
    <3>2. w[j] = b[j - (p - 1)]
      BY <1>2, <1>4, <1>5, <3>1
    <3>3. b[j - (p - 1)] = s[j + 1]
      BY <1>3, <3>1
    <3> QED BY <2>2, <3>2, <3>3
  <2> QED BY <2>1, <2>2
<1>7. w = [j \in 1..(n - 1) |-> w[j]]
  BY <1>4, <1>5
<1>8. w = Skipping(s, p)
  BY <1>6, <1>7 DEF Skipping
<1> QED
  BY <1>8 DEF RemoveAt, w, a, b

(* cache_unlink, and taking a record off its chain. *)
LEMMA RemovedFrom ==
    ASSUME NEW T, NEW s \in Seq(T), Single(s), NEW e
    PROVE  SiftedFrom(RemoveFirst(s, e), s, {i \in 1..Len(s) : s[i] # e})
<1> DEFINE n == Len(s)
           S == {i \in 1..n : s[i] # e}
           I == {i \in 1..n : s[i] = e}
           p == Min(I)
<1>1. n \in Nat /\ s = [i \in 1..n |-> s[i]]
  OBVIOUS
<1>2. CASE I = {}
  <2>1. RemoveFirst(s, e) = s
    BY <1>2 DEF RemoveFirst
  <2> DEFINE q == [j \in 1..n |-> j]
  <2>2. S = 1..n
    BY <1>2
  <2>3. Listed(q, n, S)
    BY <1>1, <2>2 DEF Listed
  <2>4. s = [j \in 1..n |-> s[q[j]]] /\ n \in 0..n /\ q \in [1..n -> 1..n]
    BY <1>1
  <2> HIDE DEF q, S
  <2>5. SiftedFrom(s, s, S)
    BY <2>3, <2>4 DEF SiftedFrom
  <2> QED BY <2>1, <2>5 DEF S
<1>3. CASE I # {}
  <2>1. p \in I
    <3>1. I \in SUBSET Nat
      BY <1>1
    <3> HIDE DEF I
    <3> QED BY <1>3, <3>1, MinInSet
  <2>2. I = {p}
    BY <2>1 DEF Single
  <2>3. RemoveFirst(s, e) = RemoveAt(s, p)
    <3>1. SelectInSeq(s, LAMBDA v : v = e) = p
      BY <1>3 DEF SelectInSeq
    <3> HIDE DEF p
    <3>2. \E i \in 1..Len(s) : s[i] = e
      BY <1>3
    <3> QED BY <3>1, <3>2 DEF RemoveFirst
  <2> DEFINE q == [j \in 1..(n - 1) |-> IF j < p THEN j ELSE j + 1]
             u == [j \in 1..(n - 1) |-> s[q[j]]]
  <2>4. p \in 1..n /\ s[p] = e
    BY <2>1
  <2> HIDE DEF p
  <2>5. RemoveAt(s, p) = u
    <3>1. RemoveAt(s, p) = Skipping(s, p)
      BY <2>4, PlaceOut
    <3> QED BY <3>1 DEF Skipping
  <2>6. Listed(q, n - 1, S)
    <3>1. q \in [1..(n - 1) -> Nat] /\ \A i, j \in 1..(n - 1) : i < j => q[i] < q[j]
      BY <1>1, <2>4
    <3>2. \A j \in 1..(n - 1) : q[j] \in 1..n /\ q[j] # p
      BY <1>1, <2>4
    <3>3. \A i \in 1..n : i # p => s[i] # e
      BY <2>2
    <3>4. ASSUME NEW i \in S PROVE \E j \in 1..(n - 1) : q[j] = i
      <4>1. i \in 1..n /\ i # p
        BY <2>4
      <4>2. CASE i < p
        <5>1. i \in 1..(n - 1) /\ q[i] = i
          BY <1>1, <2>4, <4>1, <4>2
        <5> QED BY <5>1
      <4>3. CASE ~(i < p)
        <5>1. i - 1 \in 1..(n - 1) /\ q[i - 1] = i
          BY <1>1, <2>4, <4>1, <4>3
        <5> QED BY <5>1
      <4> QED BY <4>2, <4>3
    <3> HIDE DEF q
    <3>5. {q[j] : j \in 1..(n - 1)} = S
      BY <3>2, <3>3, <3>4
    <3> QED BY <3>1, <3>5 DEF Listed
  <2>7. n - 1 \in 0..n /\ q \in [1..(n - 1) -> 1..n]
    BY <1>1, <2>4
  <2>8. u = [j \in 1..(n - 1) |-> s[q[j]]]
    OBVIOUS
  <2> HIDE DEF q, S, u
  <2>9. SiftedFrom(u, s, S)
    BY <2>6, <2>7, <2>8 DEF SiftedFrom
  <2> QED BY <2>3, <2>5, <2>9 DEF S
<1> QED
  BY <1>2, <1>3

LEMMA RemovedOK ==
    ASSUME NEW T, NEW s \in Seq(T), Single(s), NEW e
    PROVE  /\ RemoveFirst(s, e) \in Seq(T) /\ Single(RemoveFirst(s, e))
           /\ Range(RemoveFirst(s, e)) = Range(s) \ {e}
           /\ \A x, y : Ahead(RemoveFirst(s, e), x, y) => Ahead(s, x, y)
<1> DEFINE u == RemoveFirst(s, e)
           S == {i \in 1..Len(s) : s[i] # e}
<1>1. SiftedFrom(u, s, S) /\ S \in SUBSET (1..Len(s))
  BY RemovedFrom
<1> HIDE DEF u
<1>2. /\ u \in Seq(T) /\ Single(u) /\ Range(u) = {s[i] : i \in S}
      /\ \A x, y : Ahead(u, x, y) => Ahead(s, x, y)
  <2> HIDE DEF S
  <2> QED BY <1>1, DrawnOK
<1>3. {s[i] : i \in S} = Range(s) \ {e}
  BY DEF Range
<1> QED
  BY <1>2, <1>3 DEF u

(* The records of a set gone taken off a chain. *)
LEMMA SiftedOut ==
    ASSUME NEW T, NEW s \in Seq(T), Single(s), NEW gone
    PROVE  LET u == Sifted(s, {i \in DOMAIN s : s[i] \notin gone}) IN
           /\ u \in Seq(T) /\ Single(u) /\ Range(u) = Range(s) \ gone
           /\ \A x, y : Ahead(u, x, y) => Ahead(s, x, y)
<1> DEFINE S == {i \in 1..Len(s) : s[i] \notin gone}
           u == Sifted(s, S)
<1>1. SiftedFrom(u, s, S) /\ S \in SUBSET (1..Len(s))
  BY SiftedOK
<1> HIDE DEF u
<1>2. /\ u \in Seq(T) /\ Single(u) /\ Range(u) = {s[i] : i \in S}
      /\ \A x, y : Ahead(u, x, y) => Ahead(s, x, y)
  <2> HIDE DEF S
  <2> QED BY <1>1, DrawnOK
<1>3. {s[i] : i \in S} = Range(s) \ gone
  BY DEF Range
<1>4. DOMAIN s = 1..Len(s)
  OBVIOUS
<1> QED
  BY <1>2, <1>3, <1>4 DEF u

(* A record put at place p of a chain. *)
LEMMA InsertedOK ==
    ASSUME NEW T, NEW s \in Seq(T), Single(s), NEW e \in T, e \notin Range(s),
           NEW k \in 0..Len(s)
    PROVE  LET u == InsertAt(s, 1 + k, e) IN
           /\ u \in Seq(T) /\ Single(u) /\ Range(u) = Range(s) \cup {e}
           /\ \A x, y : Ahead(u, x, y) =>
                 \/ Ahead(s, x, y)
                 \/ y = e /\ \E i \in 1..k : s[i] = x
                 \/ x = e /\ \E i \in (k + 1)..Len(s) : s[i] = y
<1> DEFINE n == Len(s)
           u == InsertAt(s, 1 + k, e)
           at(j) == IF j <= k THEN s[j] ELSE IF j = k + 1 THEN e ELSE s[j - 1]
<1>1. n \in Nat /\ k \in Nat /\ k <= n /\ \A i \in 1..n : s[i] \in T /\ s[i] # e
  BY DEF Range
<1>2. u \in Seq(T) /\ Len(u) = n + 1 /\ DOMAIN u = 1..(n + 1) /\ \A j \in 1..(n + 1) : u[j] = at(j)
  <2> DEFINE a == SubSeq(s, 1, k)  b == SubSeq(s, k + 1, n)  c == a \o <<e>>
  <2>1. a \in Seq(T) /\ b \in Seq(T) /\ Len(a) = k /\ Len(b) = n - k
        /\ (\A j \in 1..k : a[j] = s[j]) /\ (\A j \in 1..(n - k) : b[j] = s[k + j])
    BY <1>1
  <2>2. u = c \o b
    <3>1. (1 + k) - 1 = k /\ 1 + k = k + 1
      BY <1>1
    <3> QED BY <3>1 DEF InsertAt
  <2> HIDE DEF a, b, u
  <2>3. c \in Seq(T) /\ Len(c) = k + 1 /\ (\A j \in 1..k : c[j] = s[j]) /\ c[k + 1] = e
    BY <1>1, <2>1
  <2> HIDE DEF c
  <2>4. u \in Seq(T) /\ Len(u) = n + 1 /\ DOMAIN u = 1..(n + 1)
    <3>0. c \in Seq(T) /\ b \in Seq(T)
      BY <2>1, <2>3
    <3>1. c \o b \in Seq(T) /\ Len(c \o b) = Len(c) + Len(b)
      BY ONLY <3>0
    <3>2. Len(c) + Len(b) = n + 1
      BY <1>1, <2>1, <2>3
    <3> QED BY <2>2, <3>1, <3>2
  <2>5. ASSUME NEW j \in 1..(n + 1) PROVE u[j] = at(j)
    <3>1. CASE j <= k + 1
      <4>1. u[j] = c[j]
        BY <1>1, <2>1, <2>2, <2>3, <3>1
      <4> QED BY <1>1, <2>3, <3>1, <4>1
    <3>2. CASE ~(j <= k + 1)
      <4>1. u[j] = b[j - (k + 1)] /\ j - (k + 1) \in 1..(n - k)
        BY <1>1, <2>1, <2>2, <2>3, <3>2
      <4>2. b[j - (k + 1)] = s[k + (j - (k + 1))] /\ k + (j - (k + 1)) = j - 1
        BY <1>1, <2>1, <4>1
      <4> QED BY <1>1, <3>2, <4>1, <4>2
    <3> QED BY <3>1, <3>2
  <2> QED BY <2>4, <2>5
<1> HIDE DEF u
<1>3. Single(u)
  <2> SUFFICES ASSUME NEW i \in 1..(n + 1), NEW j \in 1..(n + 1), u[i] = u[j], i < j PROVE FALSE
    BY <1>1, <1>2 DEF Single
  <2>1. at(i) = at(j)
    BY <1>2
  <2> QED BY <1>1, <2>1 DEF Single
<1>4. Range(u) = Range(s) \cup {e}
  <2>1. ASSUME NEW x \in Range(s) PROVE x \in Range(u)
    <3>1. PICK i \in 1..n : s[i] = x
      BY DEF Range
    <3>2. i \in 1..(n + 1) /\ i + 1 \in 1..(n + 1) /\ (at(i) = x \/ at(i + 1) = x)
      BY <1>1, <3>1
    <3> QED BY <1>2, <3>2 DEF Range
  <2>2. e \in Range(u)
    <3>1. k + 1 \in 1..(n + 1) /\ at(k + 1) = e
      BY <1>1
    <3> QED BY <1>2, <3>1 DEF Range
  <2>3. ASSUME NEW x \in Range(u) PROVE x \in Range(s) \cup {e}
    <3>1. PICK j \in 1..(n + 1) : x = at(j)
      BY <1>2 DEF Range
    <3> QED BY <1>1, <3>1 DEF Range
  <2> QED BY <2>1, <2>2, <2>3
<1>5. ASSUME NEW x, NEW y, Ahead(u, x, y)
      PROVE  \/ Ahead(s, x, y)
             \/ y = e /\ \E i \in 1..k : s[i] = x
             \/ x = e /\ \E i \in (k + 1)..Len(s) : s[i] = y
  <2>1. PICK i \in 1..(n + 1), j \in 1..(n + 1) : i < j /\ at(i) = x /\ at(j) = y
    BY <1>2, <1>5 DEF Ahead
  <2>2. CASE j = k + 1
    <3>1. i \in 1..k /\ at(i) = s[i] /\ at(j) = e
      BY <1>1, <2>1, <2>2
    <3> QED BY <2>1, <3>1
  <2>3. CASE i = k + 1
    <3>1. j - 1 \in (k + 1)..n /\ at(j) = s[j - 1] /\ at(i) = e
      BY <1>1, <2>1, <2>3
    <3> QED BY <2>1, <3>1
  <2>4. CASE i # k + 1 /\ j # k + 1
    <3> DEFINE a == IF i <= k THEN i ELSE i - 1
               b == IF j <= k THEN j ELSE j - 1
    <3>1. a \in 1..n /\ b \in 1..n /\ a < b
      BY <1>1, <2>1, <2>4
    <3>2. s[a] = x /\ s[b] = y
      BY <1>1, <2>1, <2>4
    <3> HIDE DEF a, b
    <3> QED BY <3>1, <3>2 DEF Ahead
  <2> QED BY <2>2, <2>3, <2>4
<1> QED
  BY <1>2, <1>3, <1>4, <1>5 DEF u

(* A prefix: what a walk meets before it stops. *)
LEMMA BeforeOK ==
    ASSUME NEW T, NEW s \in Seq(T), Single(s), NEW i \in 0..Len(s)
    PROVE  LET u == Before(s, i) IN
           /\ u \in Seq(T) /\ Single(u) /\ Len(u) \in 0..Len(s)
           /\ Len(u) = (IF i = 0 THEN Len(s) ELSE i - 1)
           /\ \A j \in 1..Len(u) : u[j] = s[j]
<1>1. CASE i = 0
  BY <1>1 DEF Before
<1>2. CASE i # 0
  <2>1. Before(s, i) = SubSeq(s, 1, i - 1)
    BY <1>2 DEF Before
  <2>2. SubSeq(s, 1, i - 1) \in Seq(T) /\ Len(SubSeq(s, 1, i - 1)) = i - 1
        /\ \A j \in 1..(i - 1) : SubSeq(s, 1, i - 1)[j] = s[j]
    BY <1>2
  <2> DEFINE u == Before(s, i)
  <2>3. u \in Seq(T) /\ Len(u) = i - 1 /\ \A j \in 1..(i - 1) : u[j] = s[j]
    BY <2>1, <2>2
  <2>4. i \in 1..Len(s) /\ Len(s) \in Nat
    BY <1>2
  <2> HIDE DEF u
  <2>5. Single(u)
    BY <2>3, <2>4 DEF Single
  <2>6. Len(u) \in 0..Len(s) /\ Len(u) = (IF i = 0 THEN Len(s) ELSE i - 1)
        /\ \A j \in 1..Len(u) : u[j] = s[j]
    BY <1>2, <2>3, <2>4
  <2> QED BY <2>3, <2>5, <2>6 DEF u
<1> QED
  BY <1>1, <1>2

(* At the head of a list, and at its tail. *)
LEMMA HeadOK ==
    ASSUME NEW T, NEW s \in Seq(T), Single(s), NEW e \in T, e \notin Range(s)
    PROVE  LET u == <<e>> \o s IN
           /\ u \in Seq(T) /\ Single(u) /\ Range(u) = Range(s) \cup {e}
           /\ \A x, y : Ahead(u, x, y) => Ahead(s, x, y) \/ (x = e /\ y \in Range(s))
<1> DEFINE u == <<e>> \o s  n == Len(s)
<1>1. n \in Nat /\ \A i \in 1..n : s[i] \in T /\ s[i] # e
  BY DEF Range
<1>2. u \in Seq(T) /\ Len(u) = n + 1 /\ DOMAIN u = 1..(n + 1) /\ u[1] = e
      /\ \A j \in 2..(n + 1) : u[j] = s[j - 1]
  BY <1>1
<1> HIDE DEF u
<1>3. \A j \in 2..(n + 1) : j - 1 \in 1..n
  BY <1>1
<1>4. Single(u)
  <2> SUFFICES ASSUME NEW i \in 1..(n + 1), NEW j \in 1..(n + 1), u[i] = u[j], i < j PROVE FALSE
    BY <1>1, <1>2 DEF Single
  <2>1. j \in 2..(n + 1) /\ u[j] = s[j - 1] /\ j - 1 \in 1..n
    BY <1>1, <1>2, <1>3
  <2>2. i = 1 \/ i \in 2..(n + 1)
    BY <1>1
  <2>3. CASE i = 1
    BY <1>1, <1>2, <2>1, <2>3
  <2>4. CASE i \in 2..(n + 1)
    <3>1. u[i] = s[i - 1] /\ i - 1 \in 1..n
      BY <1>2, <1>3, <2>4
    <3>2. i - 1 = j - 1
      BY <2>1, <3>1 DEF Single
    <3> QED BY <1>1, <3>2
  <2> QED BY <2>2, <2>3, <2>4
<1>5. Range(u) = Range(s) \cup {e}
  <2>1. ASSUME NEW x \in Range(s) PROVE x \in Range(u)
    <3>1. PICK i \in 1..n : s[i] = x
      BY DEF Range
    <3>2. i + 1 \in 2..(n + 1) /\ i + 1 \in 1..(n + 1) /\ (i + 1) - 1 = i
      BY <1>1
    <3> QED BY <1>2, <3>1, <3>2 DEF Range
  <2>2. e \in Range(u)
    BY <1>1, <1>2 DEF Range
  <2>3. ASSUME NEW x \in Range(u) PROVE x \in Range(s) \cup {e}
    <3>1. PICK j \in 1..(n + 1) : x = u[j]
      BY <1>2 DEF Range
    <3>2. j = 1 \/ j \in 2..(n + 1)
      BY <1>1
    <3> QED BY <1>2, <1>3, <3>1, <3>2 DEF Range
  <2> QED BY <2>1, <2>2, <2>3
<1>6. ASSUME NEW x, NEW y, Ahead(u, x, y) PROVE Ahead(s, x, y) \/ (x = e /\ y \in Range(s))
  <2>1. PICK i \in 1..(n + 1), j \in 1..(n + 1) : i < j /\ u[i] = x /\ u[j] = y
    BY <1>2, <1>6 DEF Ahead
  <2>2. j \in 2..(n + 1) /\ (i = 1 \/ i \in 2..(n + 1))
    BY <1>1, <2>1
  <2>3. CASE i = 1
    BY <1>2, <1>3, <2>1, <2>2, <2>3 DEF Range
  <2>4. CASE i \in 2..(n + 1)
    <3> DEFINE k == i - 1  l == j - 1
    <3>1. k \in 1..n /\ l \in 1..n /\ k < l /\ s[k] = x /\ s[l] = y
      BY <1>1, <1>2, <1>3, <2>1, <2>2, <2>4
    <3> HIDE DEF k, l
    <3>2. Ahead(s, s[k], s[l])
      BY <3>1, AheadAt
    <3> QED BY <3>1, <3>2
  <2> QED BY <2>2, <2>3, <2>4
<1> QED
  BY <1>2, <1>4, <1>5, <1>6 DEF u

LEMMA TailOK ==
    ASSUME NEW T, NEW s \in Seq(T), Single(s), NEW e \in T, e \notin Range(s)
    PROVE  LET u == Append(s, e) IN
           /\ u \in Seq(T) /\ Single(u) /\ Range(u) = Range(s) \cup {e}
           /\ \A x, y : Ahead(u, x, y) => Ahead(s, x, y) \/ (y = e /\ x \in Range(s))
<1> DEFINE u == Append(s, e)  n == Len(s)
<1>1. n \in Nat /\ \A i \in 1..n : s[i] \in T /\ s[i] # e
  BY DEF Range
<1>2. u \in Seq(T) /\ Len(u) = n + 1 /\ DOMAIN u = 1..(n + 1) /\ u[n + 1] = e
      /\ \A j \in 1..n : u[j] = s[j]
  BY <1>1
<1> HIDE DEF u
<1>3. \A j \in 1..(n + 1) : j = n + 1 \/ j \in 1..n
  BY <1>1
<1>4. Single(u)
  BY <1>1, <1>2, <1>3 DEF Single
<1>5. Range(u) = Range(s) \cup {e}
  <2>1. ASSUME NEW x \in Range(s) PROVE x \in Range(u)
    <3>1. PICK i \in 1..n : s[i] = x
      BY DEF Range
    <3>2. i \in 1..(n + 1)
      BY <1>1
    <3> QED BY <1>2, <3>1, <3>2 DEF Range
  <2>2. e \in Range(u)
    BY <1>1, <1>2 DEF Range
  <2>3. ASSUME NEW x \in Range(u) PROVE x \in Range(s) \cup {e}
    <3>1. PICK j \in 1..(n + 1) : x = u[j]
      BY <1>2 DEF Range
    <3> QED BY <1>2, <1>3, <3>1 DEF Range
  <2> QED BY <2>1, <2>2, <2>3
<1>6. ASSUME NEW x, NEW y, Ahead(u, x, y) PROVE Ahead(s, x, y) \/ (y = e /\ x \in Range(s))
  <2>1. PICK i \in 1..(n + 1), j \in 1..(n + 1) : i < j /\ u[i] = x /\ u[j] = y
    BY <1>2, <1>6 DEF Ahead
  <2>2. i \in 1..n
    BY <1>1, <2>1
  <2>3. CASE j = n + 1
    BY <1>2, <2>1, <2>2, <2>3 DEF Range
  <2>4. CASE j \in 1..n
    <3>1. i < j /\ s[i] = x /\ s[j] = y
      BY <1>2, <2>1, <2>2, <2>4
    <3>2. Ahead(s, s[i], s[j])
      BY <2>2, <2>4, <3>1, AheadAt
    <3> QED BY <3>1, <3>2
  <2> QED BY <1>3, <2>3, <2>4
<1> QED
  BY <1>2, <1>4, <1>5, <1>6 DEF u

-----------------------------------------------------------------------------
(* A sound cache.  The records of N are off the LRU list, and those of U off
   the chains: what cache_insert has made and cache_end_insert has not yet
   hashed.                                                                  *)

Caches == [crec : [Rec -> Crec], lru : Seq(CacheRec),
           chain : {chain \in Seq(Seq(Rec)) : Len(chain) \in DOMAIN Hash},
           fresh : Seq(CacheRec), big : Int]

InUse(c) == {r \in Rec : Live(c, r)}
Bigs(c)  == {r \in CacheRec : "big" \in FlagsOf(c, r)}

(* Local records are those outside the array, and have no bigname. *)
Kinds(c) ==
    \A r \in Rec : /\ Live(c, r) \/ FlagsOf(c, r) = {}
                   /\ Live(c, r) => (Local(c, r) <=> r \notin CacheRec)
                   /\ "big" \in FlagsOf(c, r) => r \in CacheRec

InBucket(c, b) ==
    /\ Single(c.chain[b])
    /\ \A r \in Range(c.chain[b]) : BucketOf(c, c.crec[r].name) = b
    /\ \A x, y : Ahead(c.chain[b], x, y) => Zone(c, x) <= Zone(c, y)

Chained(c, U) ==
    /\ \A b \in 1..Len(c.chain) : InBucket(c, b)
    /\ Hashed(c) = InUse(c) \ U

OnList(c, N) ==
    /\ Single(c.lru) /\ Range(c.lru) = CacheRec \ N
    /\ \A x, y : Ahead(c.lru, x, y) /\ Live(c, y) => Live(c, x)

Counted(c) == c.big \in Nat /\ c.big + Cardinality(Bigs(c)) = Bignames

Sound(c, N, U) ==
    c \in Caches /\ Kinds(c) /\ Chained(c, U) /\ OnList(c, N) /\ Counted(c)

LEMMA Constants ==
    /\ CacheSize \in Nat /\ MaxHosts \in Nat /\ MaxDhcp \in Nat /\ Bignames \in Nat
    /\ NoRec \notin Rec /\ CacheRec \subseteq Rec /\ HostsRec \subseteq Rec /\ DhcpRec \subseteq Rec
    /\ HostsRec \cap CacheRec = {} /\ DhcpRec \cap CacheRec = {} /\ Rec \subseteq Nat
    /\ IsFiniteSet(CacheRec) /\ Cardinality(CacheRec) = CacheSize
<1>1. /\ CacheSize \in Nat /\ MaxHosts \in Nat /\ MaxDhcp \in Nat /\ Bignames \in Nat
      /\ NoRec \notin Rec
  BY CacheAssumption
<1>2. CacheRec \subseteq Rec /\ HostsRec \subseteq Rec /\ DhcpRec \subseteq Rec
  BY DEF Rec
<1>3. HostsRec \cap CacheRec = {} /\ DhcpRec \cap CacheRec = {}
  BY <1>1 DEF HostsRec, DhcpRec, CacheRec
<1>4. CacheRec \subseteq Nat /\ HostsRec \subseteq Nat /\ DhcpRec \subseteq Nat
  BY <1>1 DEF HostsRec, DhcpRec, CacheRec
<1>5. IsFiniteSet(CacheRec) /\ Cardinality(CacheRec) = CacheSize
  BY <1>1, FS_Interval DEF CacheRec
<1> QED
  BY <1>1, <1>2, <1>3, <1>4, <1>5 DEF Rec

LEMMA FreeIs ==
    FreeCrec \in Crec /\ FreeCrec.flags = {} /\ FreeCrec.target = NoRec
BY CacheAssumption DEF FreeCrec, Crec, AnyName

(* The chains hold records, each of which is in a bucket. *)
LEMMA ChainParts ==
    ASSUME NEW c \in Caches
    PROVE  /\ c.chain \in Seq(Seq(Rec)) /\ Len(c.chain) \in DOMAIN Hash /\ Len(c.chain) \in Nat
           /\ DOMAIN c.chain = 1..Len(c.chain)
           /\ \A b \in 1..Len(c.chain) :
                c.chain[b] \in Seq(Rec) /\ Range(c.chain[b]) \subseteq Hashed(c)
           /\ \A r \in Hashed(c) : \E b \in 1..Len(c.chain) : r \in Range(c.chain[b])
           /\ Hashed(c) \subseteq Rec
<1>1. c.chain \in Seq(Seq(Rec)) /\ Len(c.chain) \in DOMAIN Hash
  BY DEF Caches
<1>2. DOMAIN c.chain = 1..Len(c.chain) /\ Len(c.chain) \in Nat
      /\ \A b \in 1..Len(c.chain) : c.chain[b] \in Seq(Rec)
  <2> DEFINE ch == c.chain  S == Seq(Rec)
  <2>1. ch \in Seq(S)
    BY <1>1
  <2> HIDE DEF ch, S
  <2>2. DOMAIN ch = 1..Len(ch) /\ Len(ch) \in Nat /\ \A b \in 1..Len(ch) : ch[b] \in S
    BY <2>1
  <2> QED BY <2>2 DEF ch, S
<1>3. \A b \in 1..Len(c.chain) : Range(c.chain[b]) \subseteq Rec
  <2> SUFFICES ASSUME NEW b \in 1..Len(c.chain) PROVE Range(c.chain[b]) \subseteq Rec
    OBVIOUS
  <2> DEFINE s == c.chain[b]
  <2>1. s \in Seq(Rec)
    BY <1>2
  <2> HIDE DEF s
  <2>2. Range(s) \subseteq Rec
    BY <2>1 DEF Range
  <2> QED BY <2>2 DEF s
<1>4. Hashed(c) = UNION {Range(c.chain[b]) : b \in 1..Len(c.chain)}
  BY <1>2 DEF Hashed
<1>5. \A b \in 1..Len(c.chain) : Range(c.chain[b]) \subseteq Hashed(c)
  BY <1>4
<1>6. \A r \in Hashed(c) : \E b \in 1..Len(c.chain) : r \in Range(c.chain[b])
  BY <1>4
<1> QED
  BY <1>1, <1>2, <1>3, <1>5, <1>6

LEMMA SoundParts ==
    ASSUME NEW c, NEW N, NEW U, Sound(c, N, U)
    PROVE  /\ c \in Caches /\ Kinds(c) /\ Chained(c, U) /\ OnList(c, N) /\ Counted(c)
           /\ c.crec \in [Rec -> Crec] /\ c.lru \in Seq(CacheRec) /\ c.fresh \in Seq(CacheRec)
           /\ c.big \in Nat
BY DEF Sound, Caches, Counted

(* What two caches have in common that differ in what nothing depends on. *)
Same(c, d, R) == \A r \in R : FlagsOf(d, r) = FlagsOf(c, r) /\ d.crec[r].name = c.crec[r].name

LEMMA SameIs ==
    ASSUME NEW c, NEW d, NEW r, FlagsOf(d, r) = FlagsOf(c, r)
    PROVE  /\ Live(d, r) <=> Live(c, r)
           /\ Local(d, r) <=> Local(c, r)
           /\ Zone(d, r) = Zone(c, r)
BY DEF Live, Local, Zone

LEMMA ChainedSame ==
    ASSUME NEW c \in Caches, NEW d \in Caches, NEW U, NEW W, Chained(c, U), d.chain = c.chain,
           Same(c, d, Hashed(c)), Hashed(c) = InUse(d) \ W
    PROVE  Chained(d, W)
<1>1. Hashed(d) = Hashed(c)
  BY DEF Hashed
<1>2. ASSUME NEW b \in 1..Len(c.chain) PROVE InBucket(d, b)
  <2>1. InBucket(c, b)
    BY DEF Chained
  <2>2. \A r \in Range(c.chain[b]) : Zone(d, r) = Zone(c, r) /\ d.crec[r].name = c.crec[r].name
    <3>1. Range(c.chain[b]) \subseteq Hashed(c)
      BY ChainParts
    <3> QED BY <3>1, SameIs DEF Same
  <2>3. \A r \in Range(d.chain[b]) : BucketOf(d, d.crec[r].name) = b
    BY <2>1, <2>2 DEF InBucket, BucketOf
  <2>4. ASSUME NEW x, NEW y, Ahead(c.chain[b], x, y) PROVE Zone(d, x) <= Zone(d, y)
    <3>1. x \in Range(c.chain[b]) /\ y \in Range(c.chain[b])
      <4> DEFINE s == c.chain[b]
      <4>1. s \in Seq(Rec)
        BY ChainParts
      <4> HIDE DEF s
      <4>2. Ahead(s, x, y) => x \in Range(s) /\ y \in Range(s)
        BY <4>1 DEF Ahead, Range
      <4> QED BY <2>4, <4>2 DEF s
    <3>2. Zone(c, x) <= Zone(c, y)
      BY <2>1, <2>4 DEF InBucket
    <3> QED BY <2>2, <3>1, <3>2
  <2> QED BY <2>1, <2>3, <2>4 DEF InBucket
<1> QED
  BY <1>1, <1>2 DEF Chained

LEMMA OnListSame ==
    ASSUME NEW c, NEW d, NEW N, OnList(c, N), d.lru = c.lru,
           \A r \in CacheRec \ N : Live(d, r) <=> Live(c, r)
    PROVE  OnList(d, N)
<1>1. \A x, y : Ahead(c.lru, x, y) => x \in CacheRec \ N /\ y \in CacheRec \ N
  <2>1. Range(c.lru) = CacheRec \ N
    BY DEF OnList
  <2> QED BY <2>1 DEF Ahead, Range
<1> QED
  BY <1>1 DEF OnList

-----------------------------------------------------------------------------
(* The operations on lists *)

LEMMA CountedSame ==
    ASSUME NEW c, NEW d, Counted(c), d.big = c.big, Bigs(d) = Bigs(c)
    PROVE  Counted(d)
BY DEF Counted

(* A bigname comes back with the record that has it. *)
LEMMA CountedLess ==
    ASSUME NEW c, NEW d, Counted(c), NEW r \in CacheRec, Bigs(d) = Bigs(c) \ {r},
           d.big = IF r \in Bigs(c) THEN c.big + 1 ELSE c.big
    PROVE  Counted(d)
<1> DEFINE B == Bigs(c)
<1>1. IsFiniteSet(B)
  BY Constants, FS_Subset DEF Bigs
<1>2. c.big \in Nat /\ c.big + Cardinality(B) = Bignames
  BY DEF Counted
<1>3. CASE r \in B
  <2>1. Cardinality(B \ {r}) = Cardinality(B) - 1 /\ Cardinality(B) \in Nat
    <3> HIDE DEF B
    <3> QED BY <1>1, <1>3, FS_RemoveElement, FS_CardinalityType
  <2> QED BY <1>2, <1>3, <2>1 DEF Counted
<1>4. CASE r \notin B
  <2>1. B \ {r} = B
    BY <1>4
  <2> QED BY <1>2, <1>4, <2>1 DEF Counted
<1> QED
  BY <1>3, <1>4

LEMMA FreedParts ==
    ASSUME NEW c \in Caches, NEW r \in CacheRec
    PROVE  LET d == Freed(c, r) IN
           /\ d \in Caches /\ d.chain = c.chain /\ d.fresh = c.fresh /\ d.lru = Append(c.lru, r)
           /\ d.big = (IF "big" \in FlagsOf(c, r) THEN c.big + 1 ELSE c.big)
           /\ FlagsOf(d, r) = {} /\ Same(c, d, Rec \ {r})
<1> DEFINE crec == [x \in Rec |-> IF x = r THEN FreeCrec
                                 ELSE [c.crec[x] EXCEPT !.target = IF @ = r THEN NoRec ELSE @]]
           lru == Append(c.lru, r)
           big == IF "big" \in FlagsOf(c, r) THEN c.big + 1 ELSE c.big
           d == [c EXCEPT !.crec = crec, !.lru = lru, !.big = big]
<1>1. Freed(c, r) = d
  BY DEF Freed
<1>2. /\ c.crec \in [Rec -> Crec] /\ c.lru \in Seq(CacheRec) /\ c.fresh \in Seq(CacheRec)
      /\ c.big \in Int /\ c = [crec |-> c.crec, lru |-> c.lru, chain |-> c.chain,
                               fresh |-> c.fresh, big |-> c.big]
  BY DEF Caches
<1>3. crec \in [Rec -> Crec]
  <2> SUFFICES ASSUME NEW x \in Rec, x # r
               PROVE  [c.crec[x] EXCEPT !.target = IF @ = r THEN NoRec ELSE @] \in Crec
    BY FreeIs
  <2> DEFINE e == c.crec[x]
  <2>1. e \in Crec
    BY <1>2
  <2> HIDE DEF e
  <2>2. [e EXCEPT !.target = IF @ = r THEN NoRec ELSE @] \in Crec
    BY <2>1 DEF Crec
  <2> QED BY <2>2 DEF e
<1>4. lru \in Seq(CacheRec) /\ big \in Int
  BY <1>2
<1>5. crec[r].flags = {}
  BY Constants, FreeIs
<1>6. \A x \in Rec \ {r} : crec[x].flags = c.crec[x].flags /\ crec[x].name = c.crec[x].name
  <2> SUFFICES ASSUME NEW x \in Rec \ {r}
               PROVE  crec[x].flags = c.crec[x].flags /\ crec[x].name = c.crec[x].name
    OBVIOUS
  <2>1. crec[x] = [c.crec[x] EXCEPT !.target = IF @ = r THEN NoRec ELSE @]
    OBVIOUS
  <2>2. c.crec[x] \in Crec
    BY <1>2
  <2> QED BY <2>1, <2>2 DEF Crec
<1> HIDE DEF crec, lru, big
<1>7. d.crec = crec /\ d.lru = lru /\ d.chain = c.chain /\ d.fresh = c.fresh /\ d.big = big
  BY <1>2
<1>8. d \in Caches
  BY <1>2, <1>3, <1>4, <1>7 DEF Caches
<1> HIDE DEF d
<1>9. FlagsOf(d, r) = {} /\ Same(c, d, Rec \ {r})
  BY <1>5, <1>6, <1>7 DEF FlagsOf, Same
<1>10. d.lru = Append(c.lru, r) /\ d.big = (IF "big" \in FlagsOf(c, r) THEN c.big + 1 ELSE c.big)
  BY <1>7 DEF lru, big
<1> QED
  BY <1>1, <1>7, <1>8, <1>9, <1>10

(* A record is freed when it is off its list and off its chain. *)
LEMMA FreedSound ==
    ASSUME NEW c, NEW N, NEW U, Sound(c, N, U), NEW r \in CacheRec, r \in N, r \in U
    PROVE  /\ Sound(Freed(c, r), N \ {r}, U \ {r})
           /\ Freed(c, r).fresh = c.fresh /\ Hashed(Freed(c, r)) = Hashed(c)
           /\ Same(c, Freed(c, r), Rec \ {r})
<1> DEFINE d == Freed(c, r)
<1>1. /\ c \in Caches /\ Kinds(c) /\ Chained(c, U) /\ OnList(c, N) /\ Counted(c)
      /\ c.lru \in Seq(CacheRec)
  BY SoundParts
<1>2. /\ d \in Caches /\ d.chain = c.chain /\ d.fresh = c.fresh /\ d.lru = Append(c.lru, r)
      /\ d.big = (IF "big" \in FlagsOf(c, r) THEN c.big + 1 ELSE c.big)
      /\ FlagsOf(d, r) = {} /\ Same(c, d, Rec \ {r})
  BY <1>1, FreedParts
<1> HIDE DEF d
<1>3. ~Live(d, r) /\ \A x \in Rec \ {r} : Live(d, x) <=> Live(c, x)
  <2>1. ~Live(d, r)
    BY <1>2 DEF Live
  <2> QED BY <1>2, <2>1, SameIs DEF Same
<1>4. r \in Rec
  BY Constants
<1>5. Hashed(c) = InUse(c) \ U
  BY <1>1 DEF Chained
<1>6. Chained(d, U \ {r})
  <2>1. Same(c, d, Hashed(c))
    BY <1>2, <1>5 DEF Same, InUse
  <2>2. Hashed(c) = InUse(d) \ (U \ {r})
    BY <1>3, <1>5 DEF InUse
  <2> QED BY <1>1, <1>2, <2>1, <2>2, ChainedSame
<1>7. Kinds(d)
  <2> SUFFICES ASSUME NEW x \in Rec
               PROVE  /\ Live(d, x) \/ FlagsOf(d, x) = {}
                      /\ Live(d, x) => (Local(d, x) <=> x \notin CacheRec)
                      /\ "big" \in FlagsOf(d, x) => x \in CacheRec
    BY DEF Kinds
  <2>1. CASE x = r
    BY <1>2, <1>3, <2>1
  <2>2. CASE x # r
    <3>1. FlagsOf(d, x) = FlagsOf(c, x)
      BY <1>2, <2>2 DEF Same
    <3> QED BY <1>1, <3>1, SameIs DEF Kinds
  <2> QED BY <2>1, <2>2
<1>8. OnList(d, N \ {r})
  <2> DEFINE s == c.lru
  <2>1. s \in Seq(CacheRec) /\ Single(s) /\ Range(s) = CacheRec \ N /\ r \notin Range(s)
    BY <1>1 DEF OnList
  <2>2. \A x, y : Ahead(s, x, y) /\ Live(c, y) => Live(c, x)
    BY <1>1 DEF OnList
  <2> HIDE DEF s
  <2>3. /\ Single(Append(s, r)) /\ Range(Append(s, r)) = Range(s) \cup {r}
        /\ \A x, y : Ahead(Append(s, r), x, y) =>
              Ahead(s, x, y) \/ (y = r /\ x \in Range(s))
    BY <2>1, TailOK
  <2>4. \A x, y : Ahead(s, x, y) => x \in Range(s) /\ y \in Range(s)
    BY <2>1 DEF Ahead, Range
  <2>5. ASSUME NEW x, NEW y, Ahead(Append(s, r), x, y), Live(d, y) PROVE Live(d, x)
    <3>1. y # r
      BY <1>3, <2>5
    <3>2. Ahead(s, x, y) /\ x \in CacheRec /\ y \in CacheRec /\ x # r
      BY <2>1, <2>3, <2>4, <2>5, <3>1
    <3>3. x \in Rec \ {r} /\ y \in Rec \ {r}
      BY <3>1, <3>2, Constants
    <3> QED BY <1>3, <2>2, <2>5, <3>2, <3>3
  <2>6. Range(Append(s, r)) = CacheRec \ (N \ {r})
    BY <2>1, <2>3
  <2>7. d.lru = Append(s, r)
    BY <1>2 DEF s
  <2> QED BY <2>3, <2>5, <2>6, <2>7 DEF OnList
<1>9. Counted(d)
  <2>1. Bigs(d) = Bigs(c) \ {r}
    <3>1. \A x \in CacheRec : x # r => FlagsOf(d, x) = FlagsOf(c, x)
      BY <1>2, Constants DEF Same
    <3> QED BY <1>2, <3>1 DEF Bigs
  <2>2. r \in Bigs(c) <=> "big" \in FlagsOf(c, r)
    BY DEF Bigs
  <2> QED BY <1>1, <1>2, <2>1, <2>2, CountedLess
<1>10. Hashed(d) = Hashed(c)
  BY <1>2 DEF Hashed
<1> QED BY <1>2, <1>6, <1>7, <1>8, <1>9, <1>10 DEF Sound, d

(* Only lists change. *)
LEMMA ListsOnly ==
    ASSUME NEW c, NEW d, d.crec = c.crec, d.big = c.big
    PROVE  /\ Kinds(c) => Kinds(d)
           /\ Counted(c) => Counted(d)
           /\ InUse(d) = InUse(c)
           /\ \A r : /\ FlagsOf(d, r) = FlagsOf(c, r) /\ Zone(d, r) = Zone(c, r)
                     /\ Live(d, r) <=> Live(c, r)
                     /\ Local(d, r) <=> Local(c, r)
<1>1. \A r : FlagsOf(d, r) = FlagsOf(c, r)
  BY DEF FlagsOf
<1>2. \A r : /\ Zone(d, r) = Zone(c, r)
             /\ Live(d, r) <=> Live(c, r)
             /\ Local(d, r) <=> Local(c, r)
  BY <1>1, SameIs
<1>3. InUse(d) = InUse(c) /\ Bigs(d) = Bigs(c)
  BY <1>1, <1>2 DEF InUse, Bigs
<1> QED
  BY <1>1, <1>2, <1>3 DEF Kinds, Counted

LEMMA WithLru ==
    ASSUME NEW c \in Caches, NEW lru \in Seq(CacheRec)
    PROVE  LET d == [c EXCEPT !.lru = lru] IN
           /\ d \in Caches /\ d.crec = c.crec /\ d.lru = lru /\ d.chain = c.chain
           /\ d.fresh = c.fresh /\ d.big = c.big
BY DEF Caches

LEMMA WithChain ==
    ASSUME NEW c \in Caches, NEW chain \in Seq(Seq(Rec)), Len(chain) = Len(c.chain)
    PROVE  LET d == [c EXCEPT !.chain = chain] IN
           /\ d \in Caches /\ d.crec = c.crec /\ d.lru = c.lru /\ d.chain = chain
           /\ d.fresh = c.fresh /\ d.big = c.big
<1>1. Len(chain) \in DOMAIN Hash
  BY DEF Caches
<1> QED
  BY <1>1 DEF Caches

(* The LRU list changed, of which those of M are off now. *)
LEMMA LruSound ==
    ASSUME NEW c, NEW N, NEW U, Sound(c, N, U), NEW lru \in Seq(CacheRec), NEW M,
           Single(lru), Range(lru) = CacheRec \ M,
           \A x, y : Ahead(lru, x, y) /\ Live(c, y) => Live(c, x)
    PROVE  LET d == [c EXCEPT !.lru = lru] IN
           /\ Sound(d, M, U) /\ d.crec = c.crec /\ d.lru = lru /\ d.chain = c.chain
           /\ d.fresh = c.fresh /\ Hashed(d) = Hashed(c) /\ Same(c, d, Rec)
<1> DEFINE d == [c EXCEPT !.lru = lru]
<1>1. /\ c \in Caches /\ Kinds(c) /\ Chained(c, U) /\ Counted(c)
  BY SoundParts
<1>2. /\ d \in Caches /\ d.crec = c.crec /\ d.lru = lru /\ d.chain = c.chain
      /\ d.fresh = c.fresh /\ d.big = c.big
  BY <1>1, WithLru
<1> HIDE DEF d
<1>3. Kinds(d) /\ Counted(d) /\ InUse(d) = InUse(c)
      /\ \A r : FlagsOf(d, r) = FlagsOf(c, r) /\ (Live(d, r) <=> Live(c, r))
  BY <1>1, <1>2, ListsOnly
<1>4. Same(c, d, Rec) /\ Same(c, d, Hashed(c))
  BY <1>2, <1>3 DEF Same
<1>5. Chained(d, U)
  <2>1. Hashed(c) = InUse(d) \ U
    BY <1>1, <1>3 DEF Chained
  <2> QED BY <1>1, <1>2, <1>4, <2>1, ChainedSame
<1>6. OnList(d, M)
  BY <1>2, <1>3 DEF OnList
<1>7. Hashed(d) = Hashed(c)
  BY <1>2 DEF Hashed
<1> QED
  BY <1>2, <1>3, <1>4, <1>5, <1>6, <1>7 DEF Sound, d

LEMMA LinkedSound ==
    ASSUME NEW c, NEW N, NEW U, Sound(c, N, U), NEW r \in CacheRec, r \in N, Live(c, r)
    PROVE  LET d == Linked(c, r) IN
           /\ Sound(d, N \ {r}, U) /\ d.crec = c.crec /\ d.chain = c.chain
           /\ d.fresh = c.fresh /\ Hashed(d) = Hashed(c) /\ Same(c, d, Rec)
<1> DEFINE s == c.lru
<1>1. s \in Seq(CacheRec) /\ Single(s) /\ Range(s) = CacheRec \ N /\ r \notin Range(s)
      /\ \A x, y : Ahead(s, x, y) /\ Live(c, y) => Live(c, x)
  BY SoundParts DEF OnList
<1> DEFINE lru == <<r>> \o s
<1>2. Linked(c, r) = [c EXCEPT !.lru = lru]
  BY DEF Linked
<1> HIDE DEF s
<1>3. /\ lru \in Seq(CacheRec) /\ Single(lru) /\ Range(lru) = Range(s) \cup {r}
      /\ \A x, y : Ahead(lru, x, y) => Ahead(s, x, y) \/ (x = r /\ y \in Range(s))
  BY <1>1, HeadOK
<1> HIDE DEF lru
<1>4. Range(lru) = CacheRec \ (N \ {r})
  BY <1>1, <1>3
<1>5. \A x, y : Ahead(lru, x, y) /\ Live(c, y) => Live(c, x)
  BY <1>1, <1>3
<1>6. LET d == [c EXCEPT !.lru = lru] IN
      /\ Sound(d, N \ {r}, U) /\ d.crec = c.crec /\ d.lru = lru /\ d.chain = c.chain
      /\ d.fresh = c.fresh /\ Hashed(d) = Hashed(c) /\ Same(c, d, Rec)
  BY <1>3, <1>4, <1>5, LruSound
<1> QED
  BY <1>2, <1>6

LEMMA UnlinkedSound ==
    ASSUME NEW c, NEW N, NEW U, Sound(c, N, U), NEW r
    PROVE  LET d == Unlinked(c, r) IN
           /\ Sound(d, N \cup {r}, U) /\ d.crec = c.crec /\ d.chain = c.chain
           /\ d.fresh = c.fresh /\ Hashed(d) = Hashed(c) /\ Same(c, d, Rec)
<1> DEFINE s == c.lru
<1>1. s \in Seq(CacheRec) /\ Single(s) /\ Range(s) = CacheRec \ N
      /\ \A x, y : Ahead(s, x, y) /\ Live(c, y) => Live(c, x)
  BY SoundParts DEF OnList
<1> DEFINE lru == RemoveFirst(s, r)
<1>2. Unlinked(c, r) = [c EXCEPT !.lru = lru]
  BY DEF Unlinked
<1> HIDE DEF s
<1>3. /\ lru \in Seq(CacheRec) /\ Single(lru) /\ Range(lru) = Range(s) \ {r}
      /\ \A x, y : Ahead(lru, x, y) => Ahead(s, x, y)
  BY <1>1, RemovedOK
<1> HIDE DEF lru
<1>4. Range(lru) = CacheRec \ (N \cup {r})
  BY <1>1, <1>3
<1>5. \A x, y : Ahead(lru, x, y) /\ Live(c, y) => Live(c, x)
  BY <1>1, <1>3
<1>6. LET d == [c EXCEPT !.lru = lru] IN
      /\ Sound(d, N \cup {r}, U) /\ d.crec = c.crec /\ d.lru = lru /\ d.chain = c.chain
      /\ d.fresh = c.fresh /\ Hashed(d) = Hashed(c) /\ Same(c, d, Rec)
  BY <1>3, <1>4, <1>5, LruSound
<1> QED
  BY <1>2, <1>6

(* A search puts what it finds at the head of the list. *)
LEMMA PromotedSound ==
    ASSUME NEW c, NEW N, NEW U, Sound(c, N, U), NEW r \in CacheRec, r \notin N, Live(c, r)
    PROVE  LET d == Promoted(c, r) IN
           /\ Sound(d, N, U) /\ d.crec = c.crec /\ d.chain = c.chain
           /\ d.fresh = c.fresh /\ Hashed(d) = Hashed(c) /\ Same(c, d, Rec)
<1> DEFINE u == Unlinked(c, r)  d == Linked(u, r)
<1>1. /\ Sound(u, N \cup {r}, U) /\ u.crec = c.crec /\ u.chain = c.chain
      /\ u.fresh = c.fresh /\ Hashed(u) = Hashed(c) /\ Same(c, u, Rec)
  BY UnlinkedSound
<1>2. r \in N \cup {r} /\ Live(u, r) /\ (N \cup {r}) \ {r} = N
  BY <1>1 DEF Live, FlagsOf
<1> HIDE DEF u
<1> DEFINE M == N \cup {r}
<1>3. Sound(u, M, U) /\ r \in M /\ M \ {r} = N
  BY <1>1, <1>2
<1> HIDE DEF M
<1>4. /\ Sound(d, M \ {r}, U) /\ d.crec = u.crec /\ d.chain = u.chain
      /\ d.fresh = u.fresh /\ Hashed(d) = Hashed(u) /\ Same(u, d, Rec)
  BY <1>2, <1>3, LinkedSound
<1>5. Promoted(c, r) = d
  BY DEF Promoted, u
<1> HIDE DEF d
<1> QED
  BY <1>1, <1>3, <1>4, <1>5 DEF Same

-----------------------------------------------------------------------------
(* The operations on chains *)

LEMMA UnhashedSound ==
    ASSUME NEW c, NEW N, NEW U, Sound(c, N, U), NEW r
    PROVE  LET d == Unhashed(c, r) IN
           /\ Sound(d, N, U \cup {r}) /\ d.crec = c.crec /\ d.lru = c.lru
           /\ d.fresh = c.fresh /\ Hashed(d) = Hashed(c) \ {r} /\ Same(c, d, Rec)
           /\ Len(d.chain) = Len(c.chain)
           /\ \A b \in 1..Len(c.chain) : d.chain[b] = RemoveFirst(c.chain[b], r)
<1> DEFINE n == Len(c.chain)
           chain == [b \in 1..n |-> RemoveFirst(c.chain[b], r)]
           d == [c EXCEPT !.chain = chain]
<1>1. /\ c \in Caches /\ Kinds(c) /\ Chained(c, U) /\ OnList(c, N) /\ Counted(c)
  BY SoundParts
<1>2. /\ n \in Nat /\ DOMAIN c.chain = 1..n
      /\ \A b \in 1..n : c.chain[b] \in Seq(Rec) /\ Range(c.chain[b]) \subseteq Hashed(c)
      /\ \A x \in Hashed(c) : \E b \in 1..n : x \in Range(c.chain[b])
      /\ Hashed(c) \subseteq Rec
  BY <1>1, ChainParts
<1>3. Unhashed(c, r) = d
  BY <1>2 DEF Unhashed
<1>4. ASSUME NEW b \in 1..n
      PROVE  /\ chain[b] \in Seq(Rec) /\ Single(chain[b])
             /\ Range(chain[b]) = Range(c.chain[b]) \ {r}
             /\ \A x, y : Ahead(chain[b], x, y) => Ahead(c.chain[b], x, y)
  <2> DEFINE s == c.chain[b]
  <2>1. s \in Seq(Rec) /\ Single(s)
    BY <1>1, <1>2 DEF Chained, InBucket
  <2>2. chain[b] = RemoveFirst(s, r)
    OBVIOUS
  <2> HIDE DEF s, chain
  <2>3. /\ chain[b] \in Seq(Rec) /\ Single(chain[b]) /\ Range(chain[b]) = Range(s) \ {r}
        /\ \A x, y : Ahead(chain[b], x, y) => Ahead(s, x, y)
    BY <2>1, <2>2, RemovedOK
  <2> QED BY <2>3 DEF s
<1>5. DOMAIN chain = 1..n /\ \A b \in 1..n : chain[b] = RemoveFirst(c.chain[b], r)
  OBVIOUS
<1>6. chain \in Seq(Seq(Rec)) /\ Len(chain) = n
  <2>1. chain \in [1..n -> Seq(Rec)]
    BY <1>4
  <2> DEFINE S == Seq(Rec)
  <2> HIDE DEF chain, n, S
  <2>2. chain \in Seq(S) /\ Len(chain) = n
    BY <1>2, <2>1 DEF S
  <2> QED BY <2>2 DEF S
<1> HIDE DEF chain
<1>7. /\ d \in Caches /\ d.crec = c.crec /\ d.lru = c.lru /\ d.chain = chain
      /\ d.fresh = c.fresh /\ d.big = c.big
  BY <1>1, <1>6, WithChain
<1> HIDE DEF d
<1>8. Kinds(d) /\ Counted(d) /\ InUse(d) = InUse(c)
      /\ \A x : FlagsOf(d, x) = FlagsOf(c, x) /\ (Live(d, x) <=> Live(c, x))
                /\ Zone(d, x) = Zone(c, x)
  BY <1>1, <1>7, ListsOnly
<1>9. Same(c, d, Rec)
  BY <1>7, <1>8 DEF Same
<1>10. Hashed(d) = Hashed(c) \ {r}
  <2>1. Hashed(d) = UNION {Range(chain[b]) : b \in 1..n}
    BY <1>5, <1>7 DEF Hashed
  <2>2. Hashed(c) = UNION {Range(c.chain[b]) : b \in 1..n}
    BY <1>2 DEF Hashed
  <2> HIDE DEF n
  <2>3. \A b \in 1..n : Range(chain[b]) = Range(c.chain[b]) \ {r}
    BY <1>4
  <2>4. \A x : x \in Hashed(d) <=> \E b \in 1..n : x \in Range(chain[b])
    BY <2>1
  <2>5. \A x : x \in Hashed(c) <=> \E b \in 1..n : x \in Range(c.chain[b])
    BY <2>2
  <2>6. \A x : x \in Hashed(d) <=> x \in Hashed(c) /\ x # r
    BY <2>3, <2>4, <2>5
  <2> QED BY <2>6
<1>11. Chained(d, U \cup {r})
  <2>1. ASSUME NEW b \in 1..n PROVE InBucket(d, b)
    <3>1. InBucket(c, b)
      BY <1>1 DEF Chained
    <3>2. \A x \in Range(d.chain[b]) : BucketOf(d, d.crec[x].name) = b
      BY <1>4, <1>6, <1>7, <3>1 DEF InBucket, BucketOf
    <3>3. \A x, y : Ahead(d.chain[b], x, y) => Zone(d, x) <= Zone(d, y)
      <4> SUFFICES ASSUME NEW x, NEW y, Ahead(chain[b], x, y) PROVE Zone(d, x) <= Zone(d, y)
        BY <1>7
      <4>1. Ahead(c.chain[b], x, y)
        BY <1>4
      <4> QED BY <1>8, <3>1, <4>1 DEF InBucket
    <3> QED BY <1>4, <1>7, <3>2, <3>3 DEF InBucket
  <2>2. Hashed(d) = InUse(d) \ (U \cup {r})
    BY <1>1, <1>8, <1>10 DEF Chained
  <2> QED BY <1>6, <1>7, <2>1, <2>2 DEF Chained
<1>12. OnList(d, N)
  BY <1>1, <1>7, <1>8 DEF OnList
<1> QED
  BY <1>3, <1>5, <1>6, <1>7, <1>8, <1>9, <1>10, <1>11, <1>12 DEF Sound

(* A record of /etc/hosts or of a lease is made, or is gone. *)
LocalFlags(flags) ==
    \/ flags = {}
    \/ /\ flags \in SUBSET (Flag \ {"big"})
       /\ flags \cap {"forward", "reverse"} # {} /\ flags \cap {"hosts", "dhcp"} # {}

Made(c, d, r, e) ==
    /\ d \in Caches /\ d.crec[r] = e /\ \A x \in Rec : x # r => d.crec[x] = c.crec[x]
    /\ d.lru = c.lru /\ d.chain = c.chain /\ d.fresh = c.fresh /\ d.big = c.big

LEMMA MadeIs ==
    ASSUME NEW c \in Caches, NEW r \in Rec, NEW e \in Crec
    PROVE  Made(c, [c EXCEPT !.crec[r] = e], r, e)
<1> DEFINE d == [c EXCEPT !.crec[r] = e]
<1>1. c.crec \in [Rec -> Crec]
  BY DEF Caches
<1>2. /\ d \in Caches /\ d.crec = [c.crec EXCEPT ![r] = e] /\ d.lru = c.lru /\ d.chain = c.chain
      /\ d.fresh = c.fresh /\ d.big = c.big
  BY <1>1 DEF Caches
<1> HIDE DEF d
<1>3. Made(c, d, r, e)
  BY <1>1, <1>2 DEF Made
<1> QED BY <1>3 DEF d

OffChain(U, r, e) == IF e.flags = {} THEN U \ {r} ELSE U \cup {r}

LEMMA LocalSound ==
    ASSUME NEW c, NEW N, NEW U, Sound(c, N, U), NEW r \in Rec, r \notin CacheRec,
           r \notin Hashed(c), NEW e \in Crec, LocalFlags(e.flags),
           NEW d, Made(c, d, r, e)
    PROVE  /\ Sound(d, N, OffChain(U, r, e))
           /\ d.lru = c.lru /\ d.chain = c.chain
           /\ d.fresh = c.fresh /\ Hashed(d) = Hashed(c) /\ \A x \in Rec : x # r => Same(c, d, {x})
           /\ d.crec[r] = e
<1> DEFINE W == OffChain(U, r, e)
<1>1. /\ c \in Caches /\ Kinds(c) /\ Chained(c, U) /\ OnList(c, N) /\ Counted(c)
      /\ c.crec \in [Rec -> Crec]
  BY SoundParts
<1>2. d \in Caches /\ d.lru = c.lru /\ d.chain = c.chain /\ d.fresh = c.fresh /\ d.big = c.big
  BY DEF Made
<1>3. d.crec[r] = e /\ \A x \in Rec : x # r => d.crec[x] = c.crec[x]
  BY DEF Made
<1>4. Same(c, d, Rec \ {r})
  BY <1>3 DEF Same, FlagsOf
<1>5. \A x \in Rec : x # r => /\ FlagsOf(d, x) = FlagsOf(c, x)
                              /\ Live(d, x) <=> Live(c, x)
                              /\ Local(d, x) <=> Local(c, x)
  BY <1>4, SameIs DEF Same
<1>6. /\ FlagsOf(d, r) = e.flags
      /\ Live(d, r) <=> e.flags # {}
      /\ Live(d, r) => Local(d, r)
      /\ "big" \notin FlagsOf(d, r)
  BY <1>3 DEF FlagsOf, Live, Local, LocalFlags
<1>7. Hashed(c) = InUse(c) \ U /\ Hashed(d) = Hashed(c)
  BY <1>1, <1>2 DEF Chained, Hashed
<1>8. Kinds(d)
  <2> SUFFICES ASSUME NEW x \in Rec
               PROVE  /\ Live(d, x) \/ FlagsOf(d, x) = {}
                      /\ Live(d, x) => (Local(d, x) <=> x \notin CacheRec)
                      /\ "big" \in FlagsOf(d, x) => x \in CacheRec
    BY DEF Kinds
  <2>1. CASE x = r
    BY <1>6, <2>1
  <2>2. CASE x # r
    BY <1>1, <1>5, <2>2 DEF Kinds
  <2> QED BY <2>1, <2>2
<1>9. Chained(d, W)
  <2>1. Same(c, d, Hashed(c))
    BY <1>4, <1>7 DEF Same, InUse
  <2>2. Hashed(c) = InUse(d) \ W
    <3>1. \A x \in Rec : x \in Hashed(c) <=> Live(c, x) /\ x \notin U
      BY <1>7 DEF InUse
    <3>2. \A x \in Rec : x \in Hashed(c) <=> Live(d, x) /\ x \notin W
      BY <1>5, <1>6, <3>1 DEF OffChain
    <3>3. Hashed(c) \subseteq Rec
      BY <1>7 DEF InUse
    <3> HIDE DEF W
    <3> QED BY <3>2, <3>3 DEF InUse
  <2> HIDE DEF W
  <2> QED BY <1>1, <1>2, <2>1, <2>2, ChainedSame
<1>10. OnList(d, N)
  <2>1. \A x \in CacheRec \ N : Live(d, x) <=> Live(c, x)
    BY <1>5, Constants
  <2> QED BY <1>1, <1>2, <2>1, OnListSame
<1>11. Counted(d)
  <2>1. Bigs(d) = Bigs(c)
    BY <1>5, Constants DEF Bigs
  <2> QED BY <1>1, <1>2, <2>1, CountedSame
<1>12. \A x \in Rec : x # r => Same(c, d, {x})
  BY <1>4 DEF Same
<1> QED
  BY <1>2, <1>3, <1>7, <1>8, <1>9, <1>10, <1>11, <1>12 DEF Sound

(* What is found expired, outdated or replaced is off its chain, and free. *)
LEMMA DiscardedSound ==
    ASSUME NEW c, NEW N, NEW U, Sound(c, N, U), N \subseteq U, NEW r \in Hashed(c)
    PROVE  LET d == Discarded(c, r) IN
           /\ Sound(d, N, U) /\ d.fresh = c.fresh
           /\ Hashed(d) = Hashed(c) \ {r} /\ Same(c, d, Rec \ {r})
<1> DEFINE u == Unhashed(c, r)  d == Discarded(c, r)
<1>1. Hashed(c) = InUse(c) \ U /\ Kinds(c) /\ OnList(c, N)
  BY SoundParts DEF Chained
<1>2. r \in Rec /\ Live(c, r) /\ r \notin U /\ (Local(c, r) <=> r \notin CacheRec)
  BY <1>1 DEF InUse, Kinds
<1>3. /\ Sound(u, N, U \cup {r}) /\ u.fresh = c.fresh /\ Hashed(u) = Hashed(c) \ {r}
      /\ Same(c, u, Rec)
  BY UnhashedSound
<1> DEFINE V == U \cup {r}
<1>4. r \in V /\ V \ {r} = U
  BY <1>2
<1>5. CASE Local(c, r)
  <2>1. d = [u EXCEPT !.crec[r] = FreeCrec]
    BY <1>5 DEF Discarded
  <2> HIDE DEF u, V, d
  <2>2. r \notin Hashed(u) /\ r \notin CacheRec /\ FreeCrec \in Crec /\ LocalFlags(FreeCrec.flags)
    BY <1>2, <1>3, <1>5, FreeIs DEF LocalFlags
  <2> DEFINE e == FreeCrec
  <2>3. e \in Crec /\ e.flags = {} /\ LocalFlags(e.flags)
    BY FreeIs DEF LocalFlags
  <2> HIDE DEF e
  <2>4. Sound(u, N, V)
    BY <1>3 DEF V
  <2>5. /\ Sound(d, N, OffChain(V, r, e))
        /\ d.fresh = u.fresh /\ Hashed(d) = Hashed(u) /\ \A x \in Rec : x # r => Same(u, d, {x})
    <3>1. r \in Rec /\ r \notin CacheRec /\ r \notin Hashed(u)
      BY <1>2, <2>2
    <3>2. Made(u, d, r, e)
      <4>1. u \in Caches
        BY <1>3, SoundParts
      <4>2. Made(u, [u EXCEPT !.crec[r] = e], r, e)
        BY ONLY <2>3, <3>1, <4>1, MadeIs
      <4>3. d = [u EXCEPT !.crec[r] = e]
        BY <2>1 DEF e
      <4> QED BY <4>2, <4>3
    <3> QED BY ONLY <2>3, <2>4, <3>1, <3>2, LocalSound
  <2>6. Sound(d, N, V \ {r}) /\ d.fresh = u.fresh /\ Hashed(d) = Hashed(u)
        /\ Same(u, d, Rec \ {r})
    <3>1. OffChain(V, r, e) = V \ {r}
      BY <2>3 DEF OffChain
    <3>2. Same(u, d, Rec \ {r})
      BY <2>5 DEF Same
    <3> QED BY <2>5, <3>1, <3>2
  <2> QED BY <1>3, <1>4, <2>6 DEF Same, d
<1>6. CASE ~Local(c, r)
  <2> DEFINE w == Unlinked(u, r)  M == N \cup {r}
  <2>1. d = Freed(w, r)
    BY <1>6 DEF Discarded
  <2>2. r \in CacheRec /\ r \in M
    BY <1>2, <1>6
  <2>3. M \ {r} = N
    BY <1>2
  <2> HIDE DEF u, d, V
  <2>4. Sound(u, N, V)
    BY <1>3 DEF V
  <2>5. Sound(w, M, V) /\ w.fresh = u.fresh /\ Hashed(w) = Hashed(u) /\ Same(u, w, Rec)
    BY <2>4, UnlinkedSound
  <2> HIDE DEF w, M
  <2>6. /\ Sound(Freed(w, r), M \ {r}, V \ {r})
        /\ Freed(w, r).fresh = w.fresh /\ Hashed(Freed(w, r)) = Hashed(w)
        /\ Same(w, Freed(w, r), Rec \ {r})
    BY <1>4, <2>2, <2>5, FreedSound
  <2> QED BY <1>3, <1>4, <2>1, <2>3, <2>5, <2>6 DEF Same, d
<1> QED
  BY <1>5, <1>6

(* What a walk meets before it stops are the first records of the chain. *)
LEMMA UntilOK ==
    ASSUME NEW T, NEW s \in Seq(T), Single(s), NEW S \in SUBSET (1..Len(s)),
           NEW i, i = IF S # {} THEN Min(S) ELSE 0
    PROVE  LET u == Before(s, i) IN
           /\ u \in Seq(T) /\ Single(u) /\ Len(u) \in 0..Len(s)
           /\ \A j \in 1..Len(u) : u[j] = s[j] /\ j \notin S
           /\ Len(u) < Len(s) => Len(u) + 1 \in S
<1> DEFINE u == Before(s, i)
<1>1. S \in SUBSET Nat /\ Len(s) \in Nat
  OBVIOUS
<1>2. S # {} => i \in S /\ i \in 1..Len(s) /\ \A j \in S : i <= j
  BY <1>1, MinInSet
<1>3. i \in 0..Len(s)
  BY <1>1, <1>2
<1>4. /\ u \in Seq(T) /\ Single(u) /\ Len(u) \in 0..Len(s)
      /\ Len(u) = (IF i = 0 THEN Len(s) ELSE i - 1)
      /\ \A j \in 1..Len(u) : u[j] = s[j]
  BY <1>3, BeforeOK
<1> HIDE DEF u
<1>5. \A j \in 1..Len(u) : j \notin S
  <2> SUFFICES ASSUME NEW j \in 1..Len(u), j \in S PROVE FALSE
    OBVIOUS
  <2>1. i \in S /\ i <= j /\ i # 0
    BY <1>1, <1>2
  <2> QED BY <1>1, <1>4, <2>1
<1>6. Len(u) < Len(s) => Len(u) + 1 \in S
  BY <1>1, <1>2, <1>4
<1> QED
  BY <1>4, <1>5, <1>6 DEF u

(* A record is put into a bucket, at a place where the order is kept. *)
Fits(c, r, b, before) ==
    /\ Len(before) \in 0..Len(c.chain[b])
    /\ \A i \in 1..Len(before) : Zone(c, c.chain[b][i]) <= Zone(c, r)
    /\ \A i \in (Len(before) + 1)..Len(c.chain[b]) : Zone(c, r) <= Zone(c, c.chain[b][i])

Hashes(c, d, N, U, r) ==
    /\ Sound(d, N, U \ {r}) /\ d.crec = c.crec /\ d.lru = c.lru /\ d.fresh = c.fresh
    /\ Hashed(d) = Hashed(c) \cup {r} /\ Same(c, d, Rec) /\ Len(d.chain) = Len(c.chain)

LEMMA IntoSound ==
    ASSUME NEW c, NEW N, NEW U, Sound(c, N, U), NEW r \in Rec, r \notin Hashed(c), Live(c, r),
           NEW b \in 1..Len(c.chain), BucketOf(c, c.crec[r].name) = b,
           NEW before, Fits(c, r, b, before)
    PROVE  Hashes(c, Into(c, r, b, before), N, U, r)
<1> DEFINE n == Len(c.chain)
           k == Len(before)
           s == c.chain[b]
           put == InsertAt(s, 1 + k, r)
           chain == [c.chain EXCEPT ![b] = put]
           d == [c EXCEPT !.chain = chain]
<1>1. /\ c \in Caches /\ Kinds(c) /\ Chained(c, U) /\ OnList(c, N) /\ Counted(c)
  BY SoundParts
<1>2. /\ n \in Nat /\ DOMAIN c.chain = 1..n /\ c.chain \in Seq(Seq(Rec))
      /\ \A a \in 1..n : c.chain[a] \in Seq(Rec) /\ Range(c.chain[a]) \subseteq Hashed(c)
      /\ \A x \in Hashed(c) : \E a \in 1..n : x \in Range(c.chain[a])
      /\ Hashed(c) \subseteq Rec
  BY <1>1, ChainParts
<1>3. Into(c, r, b, before) = d
  BY <1>2 DEF Into
<1>4. /\ put \in Seq(Rec) /\ Single(put) /\ Range(put) = Range(s) \cup {r}
      /\ \A x, y : Ahead(put, x, y) =>
            \/ Ahead(s, x, y)
            \/ y = r /\ \E i \in 1..k : s[i] = x
            \/ x = r /\ \E i \in (k + 1)..Len(s) : s[i] = y
  <2>1. s \in Seq(Rec) /\ Single(s) /\ r \notin Range(s) /\ k \in 0..Len(s)
    BY <1>1, <1>2 DEF Chained, InBucket, Fits
  <2> HIDE DEF s, k
  <2> QED BY <2>1, InsertedOK
<1>5. \A x, y : Ahead(s, x, y) => Zone(c, x) <= Zone(c, y)
  BY <1>1 DEF Chained, InBucket
<1>6. \A x, y : Ahead(put, x, y) => Zone(c, x) <= Zone(c, y)
  <2>1. /\ \A i \in 1..k : Zone(c, s[i]) <= Zone(c, r)
        /\ \A i \in (k + 1)..Len(s) : Zone(c, r) <= Zone(c, s[i])
    BY DEF Fits
  <2> HIDE DEF put, s, k
  <2> QED BY <1>4, <1>5, <2>1
<1> HIDE DEF put
<1>7. DOMAIN chain = 1..n /\ chain[b] = put /\ \A a \in 1..n : a # b => chain[a] = c.chain[a]
  BY <1>2
<1>8. chain \in Seq(Seq(Rec)) /\ Len(chain) = n
  <2>1. \A a \in 1..n : chain[a] \in Seq(Rec)
    BY <1>2, <1>4, <1>7
  <2> DEFINE S == Seq(Rec)  ch == chain
  <2>2. ch \in [1..n -> S]
    <3>1. ch = [a \in 1..n |-> ch[a]]
      BY <1>2
    <3> HIDE DEF ch
    <3> QED BY <2>1, <3>1 DEF ch
  <2> HIDE DEF ch, n, S
  <2>3. ch \in Seq(S) /\ Len(ch) = n
    BY <1>2, <2>2
  <2> QED BY <2>3 DEF S, ch
<1> HIDE DEF chain
<1>9. /\ d \in Caches /\ d.crec = c.crec /\ d.lru = c.lru /\ d.chain = chain
      /\ d.fresh = c.fresh /\ d.big = c.big
  BY <1>1, <1>8, WithChain
<1> HIDE DEF d
<1>10. Kinds(d) /\ Counted(d) /\ InUse(d) = InUse(c)
       /\ \A x : FlagsOf(d, x) = FlagsOf(c, x) /\ (Live(d, x) <=> Live(c, x))
                 /\ Zone(d, x) = Zone(c, x)
  BY <1>1, <1>9, ListsOnly
<1>11. Same(c, d, Rec)
  BY <1>9, <1>10 DEF Same
<1>12. Hashed(d) = Hashed(c) \cup {r}
  <2>1. Hashed(d) = UNION {Range(chain[a]) : a \in 1..n}
    BY <1>7, <1>9 DEF Hashed
  <2>2. Hashed(c) = UNION {Range(c.chain[a]) : a \in 1..n}
    BY <1>2 DEF Hashed
  <2>3. Range(chain[b]) = Range(c.chain[b]) \cup {r}
    BY <1>4, <1>7
  <2> HIDE DEF n
  <2>4. \A a \in 1..n : a # b => Range(chain[a]) = Range(c.chain[a])
    BY <1>7
  <2>5. \A x : x \in Hashed(d) <=> \E a \in 1..n : x \in Range(chain[a])
    BY <2>1
  <2>6. \A x : x \in Hashed(c) <=> \E a \in 1..n : x \in Range(c.chain[a])
    BY <2>2
  <2>7. b \in 1..n
    BY DEF n
  <2>8. \A x : x \in Hashed(d) <=> x \in Hashed(c) \/ x = r
    BY <2>3, <2>4, <2>5, <2>6, <2>7
  <2> QED BY <2>8
<1>13. Chained(d, U \ {r})
  <2>1. InBucket(d, b)
    <3>1. \A x \in Range(put) : BucketOf(d, d.crec[x].name) = b
      <4>1. \A x \in Range(s) : BucketOf(c, c.crec[x].name) = b
        BY <1>1 DEF Chained, InBucket
      <4> QED BY <1>4, <1>8, <1>9, <4>1 DEF BucketOf
    <3> QED BY <1>4, <1>6, <1>7, <1>9, <1>10, <3>1 DEF InBucket
  <2>2. ASSUME NEW a \in 1..n, a # b PROVE InBucket(d, a)
    <3>1. InBucket(c, a) /\ d.chain[a] = c.chain[a]
      BY <1>1, <1>7, <1>9, <2>2 DEF Chained
    <3>2. \A x \in Range(c.chain[a]) : BucketOf(d, d.crec[x].name) = a
      BY <1>8, <1>9, <3>1 DEF InBucket, BucketOf
    <3> QED BY <1>10, <3>1, <3>2 DEF InBucket
  <2>3. Hashed(d) = InUse(d) \ (U \ {r})
    <3>1. Hashed(c) = InUse(c) \ U /\ r \in InUse(c)
      BY <1>1 DEF Chained, InUse
    <3> QED BY <1>10, <1>12, <3>1
  <2> QED BY <1>8, <1>9, <2>1, <2>2, <2>3 DEF Chained
<1>14. OnList(d, N)
  BY <1>1, <1>9, <1>10 DEF OnList
<1> QED
  BY <1>3, <1>8, <1>9, <1>10, <1>11, <1>12, <1>13, <1>14 DEF Sound, Hashes

LEMMA ZoneIs ==
    ASSUME NEW c, NEW x
    PROVE  /\ Zone(c, x) \in 1..3
           /\ Zone(c, x) = 1 <=> "reverse" \in FlagsOf(c, x)
           /\ Zone(c, x) = 3 <=> "reverse" \notin FlagsOf(c, x) /\ "immortal" \in FlagsOf(c, x)
BY DEF Zone

LEMMA BucketOK ==
    ASSUME NEW c \in Caches, NEW name \in AnyName
    PROVE  BucketOf(c, name) \in 1..Len(c.chain)
<1>1. Len(c.chain) \in DOMAIN Hash
  BY ChainParts
<1> QED
  BY <1>1, CacheAssumption DEF BucketOf

(* The walks over one chain. *)
Walked(c, s) ==
    /\ \A u \in {Reverses(c, s), Mortals(c, s)} :
         /\ u \in Seq(Rec) /\ Single(u) /\ Len(u) \in 0..Len(s)
         /\ \A j \in 1..Len(u) : u[j] = s[j]
    /\ \A j \in 1..Len(Reverses(c, s)) : Zone(c, s[j]) = 1
    /\ \A j \in (Len(Reverses(c, s)) + 1)..Len(s) : Zone(c, s[j]) >= 2
    /\ \A j \in 1..Len(Mortals(c, s)) : Zone(c, s[j]) <= 2
    /\ \A j \in (Len(Mortals(c, s)) + 1)..Len(s) : Zone(c, s[j]) = 3

LEMMA WalkOK ==
    ASSUME NEW c, NEW N, NEW U, Sound(c, N, U), NEW b \in 1..Len(c.chain)
    PROVE  Walked(c, c.chain[b])
<1> DEFINE s == c.chain[b]
           A == {j \in 1..Len(s) : "reverse" \notin FlagsOf(c, s[j])}
           B == {j \in 1..Len(s) : /\ "reverse" \notin FlagsOf(c, s[j])
                                   /\ "immortal" \in FlagsOf(c, s[j])}
           i == IF A # {} THEN Min(A) ELSE 0
           k == IF B # {} THEN Min(B) ELSE 0
           u == Before(s, i)
           v == Before(s, k)
<1>1. s \in Seq(Rec) /\ Single(s) /\ \A x, y : Ahead(s, x, y) => Zone(c, x) <= Zone(c, y)
  <2>1. c \in Caches /\ Chained(c, U)
    BY SoundParts
  <2> QED BY <2>1, ChainParts DEF Chained, InBucket
<1>2. Reverses(c, s) = u
  BY DEF Reverses, Until, SelectInSeq
<1>3. Mortals(c, s) = v
  BY DEF Mortals, Until, SelectInSeq
<1> HIDE DEF s
<1>4. /\ u \in Seq(Rec) /\ Single(u) /\ Len(u) \in 0..Len(s)
      /\ \A j \in 1..Len(u) : u[j] = s[j] /\ j \notin A
      /\ Len(u) < Len(s) => Len(u) + 1 \in A
  <2>1. A \in SUBSET (1..Len(s)) /\ i = IF A # {} THEN Min(A) ELSE 0
    OBVIOUS
  <2> HIDE DEF A, i
  <2> QED BY <1>1, <2>1, UntilOK
<1>5. /\ v \in Seq(Rec) /\ Single(v) /\ Len(v) \in 0..Len(s)
      /\ \A j \in 1..Len(v) : v[j] = s[j] /\ j \notin B
      /\ Len(v) < Len(s) => Len(v) + 1 \in B
  <2>1. B \in SUBSET (1..Len(s)) /\ k = IF B # {} THEN Min(B) ELSE 0
    OBVIOUS
  <2> HIDE DEF B, k
  <2> QED BY <1>1, <2>1, UntilOK
<1> HIDE DEF u, v
<1>6. Len(s) \in Nat /\ Len(u) \in Nat /\ Len(v) \in Nat
  BY <1>1, <1>4, <1>5
<1>7. ASSUME NEW j \in 1..Len(u) PROVE Zone(c, s[j]) = 1
  <2>1. j \notin A /\ j \in 1..Len(s)
    BY <1>4, <1>6
  <2>2. "reverse" \in FlagsOf(c, s[j])
    BY <2>1
  <2> QED BY <2>2, ZoneIs
<1>8. ASSUME NEW j \in (Len(u) + 1)..Len(s) PROVE Zone(c, s[j]) >= 2
  <2> DEFINE l == Len(u) + 1
  <2>1. l \in A /\ l \in 1..Len(s) /\ j \in 1..Len(s) /\ (l = j \/ l < j)
    BY <1>4, <1>6
  <2>2. Zone(c, s[l]) # 1
    BY <2>1, ZoneIs
  <2> HIDE DEF l
  <2>3. l < j => Ahead(s, s[l], s[j])
    BY <2>1, AheadAt
  <2>4. Zone(c, s[l]) <= Zone(c, s[j]) \/ l = j
    BY <1>1, <2>1, <2>3
  <2>5. Zone(c, s[l]) \in 1..3 /\ Zone(c, s[j]) \in 1..3
    BY ZoneIs
  <2> QED BY <2>2, <2>4, <2>5
<1>9. ASSUME NEW j \in 1..Len(v) PROVE Zone(c, s[j]) <= 2
  <2>1. j \notin B /\ j \in 1..Len(s)
    BY <1>5, <1>6
  <2>2. Zone(c, s[j]) # 3 /\ Zone(c, s[j]) \in 1..3
    BY <2>1, ZoneIs
  <2> QED BY <2>2
<1>10. ASSUME NEW j \in (Len(v) + 1)..Len(s) PROVE Zone(c, s[j]) = 3
  <2> DEFINE l == Len(v) + 1
  <2>1. l \in B /\ l \in 1..Len(s) /\ j \in 1..Len(s) /\ (l = j \/ l < j)
    BY <1>5, <1>6
  <2>2. Zone(c, s[l]) = 3
    BY <2>1, ZoneIs
  <2> HIDE DEF l
  <2>3. l < j => Ahead(s, s[l], s[j])
    BY <2>1, AheadAt
  <2>4. Zone(c, s[l]) <= Zone(c, s[j]) \/ l = j
    BY <1>1, <2>1, <2>3
  <2>5. Zone(c, s[l]) \in 1..3 /\ Zone(c, s[j]) \in 1..3
    BY ZoneIs
  <2> QED BY <2>2, <2>4, <2>5
<1> HIDE DEF A, B, i, k
<1> QED
  <2>1. Walked(c, s)
    BY <1>2, <1>3, <1>4, <1>5, <1>7, <1>8, <1>9, <1>10 DEF Walked
  <2> QED BY <2>1 DEF s

(* cache_hash keeps the order of the chains. *)
LEMMA CacheHashSound ==
    ASSUME NEW c, NEW N, NEW U, Sound(c, N, U), NEW r \in Rec, r \notin Hashed(c), Live(c, r)
    PROVE  Hashes(c, CacheHash(c, r), N, U, r)
<1> DEFINE b == BucketOf(c, c.crec[r].name)
           s == c.chain[b]
           before == IF "reverse" \in FlagsOf(c, r) THEN <<>>
                     ELSE IF "immortal" \in FlagsOf(c, r) THEN Mortals(c, s) ELSE Reverses(c, s)
<1>1. CacheHash(c, r) = Into(c, r, b, before)
  BY DEF CacheHash
<1>2. b \in 1..Len(c.chain)
  <2>1. c \in Caches /\ c.crec[r].name \in AnyName
    BY SoundParts DEF Crec
  <2> QED BY <2>1, BucketOK
<1>3. BucketOf(c, c.crec[r].name) = b
  OBVIOUS
<1> HIDE DEF b
<1>4. /\ \A u \in {Reverses(c, s), Mortals(c, s)} : Len(u) \in 0..Len(s)
      /\ \A j \in 1..Len(Reverses(c, s)) : Zone(c, s[j]) = 1
      /\ \A j \in (Len(Reverses(c, s)) + 1)..Len(s) : Zone(c, s[j]) >= 2
      /\ \A j \in 1..Len(Mortals(c, s)) : Zone(c, s[j]) <= 2
      /\ \A j \in (Len(Mortals(c, s)) + 1)..Len(s) : Zone(c, s[j]) = 3
  <2>1. Walked(c, s)
    BY <1>2, WalkOK
  <2> HIDE DEF s
  <2> QED BY <2>1 DEF Walked
<1>5. Len(s) \in Nat /\ \A j \in 1..Len(s) : Zone(c, s[j]) \in 1..3
  <2>1. c \in Caches
    BY SoundParts
  <2>2. s \in Seq(Rec)
    BY <1>2, <2>1, ChainParts
  <2> HIDE DEF s
  <2> QED BY <2>2, ZoneIs
<1> HIDE DEF s
<1>6. /\ Len(before) \in 0..Len(s)
      /\ \A i \in 1..Len(before) : Zone(c, s[i]) <= Zone(c, r)
      /\ \A i \in (Len(before) + 1)..Len(s) : Zone(c, r) <= Zone(c, s[i])
  <2>1. CASE "reverse" \in FlagsOf(c, r)
    <3>1. before = <<>> /\ Zone(c, r) = 1
      BY <2>1, ZoneIs
    <3> HIDE DEF before
    <3> QED BY <1>5, <3>1
  <2>2. CASE "reverse" \notin FlagsOf(c, r) /\ "immortal" \in FlagsOf(c, r)
    <3>1. before = Mortals(c, s) /\ Zone(c, r) = 3
      BY <2>2, ZoneIs
    <3> HIDE DEF before
    <3> QED BY <1>4, <1>5, <3>1
  <2>3. CASE "reverse" \notin FlagsOf(c, r) /\ "immortal" \notin FlagsOf(c, r)
    <3>1. before = Reverses(c, s) /\ Zone(c, r) = 2
      BY <2>3 DEF Zone
    <3> HIDE DEF before
    <3> QED BY <1>4, <1>5, <3>1
  <2> QED BY <2>1, <2>2, <2>3
<1> HIDE DEF before
<1>7. Hashes(c, Into(c, r, b, before), N, U, r)
  <2>1. Fits(c, r, b, before)
    BY <1>6 DEF Fits, s
  <2>2. Sound(c, N, U) /\ r \in Rec /\ r \notin Hashed(c) /\ Live(c, r)
    OBVIOUS
  <2> QED BY ONLY <1>2, <1>3, <2>1, <2>2, IntoSound
<1> QED
  BY <1>1, <1>7

-----------------------------------------------------------------------------
(* What the scans and searches keep *)

(* A change of what nothing here depends on: new_chain, addresses, times,
   targets.                                                                 *)
LEMMA SameSound ==
    ASSUME NEW c, NEW N, NEW U, Sound(c, N, U), NEW d \in Caches,
           d.lru = c.lru, d.chain = c.chain, d.big = c.big, Same(c, d, Rec)
    PROVE  Sound(d, N, U) /\ Hashed(d) = Hashed(c)
<1>1. c \in Caches /\ Kinds(c) /\ Chained(c, U) /\ OnList(c, N) /\ Counted(c)
  BY SoundParts
<1>2. \A x \in Rec : /\ FlagsOf(d, x) = FlagsOf(c, x)
                     /\ Live(d, x) <=> Live(c, x)
                     /\ Local(d, x) <=> Local(c, x)
  BY SameIs DEF Same
<1>3. Hashed(d) = Hashed(c)
  BY DEF Hashed
<1>4. Kinds(d)
  BY <1>1, <1>2 DEF Kinds
<1>5. Chained(d, U)
  <2>1. Hashed(c) = InUse(c) \ U /\ InUse(d) = InUse(c)
    BY <1>1, <1>2 DEF Chained, InUse
  <2>2. Same(c, d, Hashed(c))
    BY <2>1 DEF Same, InUse
  <2> QED BY <1>1, <2>1, <2>2, ChainedSame
<1>6. OnList(d, N)
  <2>1. \A x \in CacheRec \ N : Live(d, x) <=> Live(c, x)
    BY <1>2, Constants
  <2> QED BY <1>1, <2>1, OnListSame
<1>7. Counted(d)
  <2>1. Bigs(d) = Bigs(c)
    BY <1>2, Constants DEF Bigs
  <2> QED BY <1>1, <2>1, CountedSame
<1> QED
  BY <1>3, <1>4, <1>5, <1>6, <1>7 DEF Sound

LEMMA FreshSound ==
    ASSUME NEW c, NEW N, NEW U, Sound(c, N, U), NEW fresh \in Seq(CacheRec)
    PROVE  LET d == [c EXCEPT !.fresh = fresh] IN
           /\ Sound(d, N, U) /\ Hashed(d) = Hashed(c) /\ Same(c, d, Rec)
           /\ d.crec = c.crec /\ d.lru = c.lru /\ d.chain = c.chain /\ d.fresh = fresh
           /\ d.big = c.big
<1> DEFINE d == [c EXCEPT !.fresh = fresh]
<1>1. c \in Caches
  BY SoundParts
<1>2. /\ d \in Caches /\ d.crec = c.crec /\ d.lru = c.lru /\ d.chain = c.chain
      /\ d.fresh = fresh /\ d.big = c.big
  BY <1>1 DEF Caches
<1> HIDE DEF d
<1>3. Same(c, d, Rec)
  BY <1>2 DEF Same, FlagsOf
<1>4. Sound(d, N, U) /\ Hashed(d) = Hashed(c)
  BY <1>2, <1>3, SameSound
<1> QED
  BY <1>2, <1>3, <1>4 DEF d

(* What a CNAME points to: a record in use of the name it was received for,
   which becomes visible together with it.                                  *)
AimedAt(c, r, t) ==
    /\ r \in CacheRec /\ Live(c, r) /\ t \in CacheRec /\ "forward" \in FlagsOf(c, t)
    /\ c.crec[t].name = c.crec[r].goal
    /\ r \in Range(c.fresh) <=> t \in Range(c.fresh)
Aimed(c) == \A r \in Rec : c.crec[r].target # NoRec => AimedAt(c, r, c.crec[r].target)

Stays(c, d, r) ==
    /\ FlagsOf(d, r) = FlagsOf(c, r) /\ d.crec[r].name = c.crec[r].name
    /\ d.crec[r].goal = c.crec[r].goal

LEMMA AimedStays ==
    ASSUME NEW c, Aimed(c), NEW d, d.fresh = c.fresh \/ d.fresh = <<>>,
           \A r \in Rec : d.crec[r].target # NoRec =>
              /\ d.crec[r].target = c.crec[r].target
              /\ Stays(c, d, r) /\ Stays(c, d, d.crec[r].target)
    PROVE  Aimed(d)
<1> SUFFICES ASSUME NEW r \in Rec, d.crec[r].target # NoRec
             PROVE  AimedAt(d, r, d.crec[r].target)
  BY DEF Aimed
<1> DEFINE t == d.crec[r].target
<1>1. t = c.crec[r].target /\ t # NoRec /\ Stays(c, d, r) /\ Stays(c, d, t)
  OBVIOUS
<1> HIDE DEF t
<1>2. AimedAt(c, r, t)
  BY <1>1 DEF Aimed
<1>3. r \in Range(d.fresh) <=> t \in Range(d.fresh)
  <2>1. Range(<<>>) = {}
    BY DEF Range
  <2> QED BY <1>2, <2>1 DEF AimedAt
<1>4. AimedAt(d, r, t)
  BY <1>1, <1>2, <1>3 DEF AimedAt, Stays, Live
<1> QED
  BY <1>4 DEF t

(* The CNAMEs of U still ask for the same name. *)
Aims(c, d, U) ==
    (Aimed(c) => Aimed(d)) /\ \A r \in U : d.crec[r].goal = c.crec[r].goal

LEMMA SameAims ==
    ASSUME NEW c, NEW d, d.crec = c.crec, d.fresh = c.fresh \/ d.fresh = <<>>, NEW U
    PROVE  Aims(c, d, U)
<1>1. \A r : Stays(c, d, r)
  BY DEF Stays, FlagsOf
<1>2. Aimed(c) => Aimed(d)
  BY <1>1, AimedStays
<1> QED
  BY <1>2 DEF Aims

(* A record that is freed gets a new uid. *)
LEMMA FreedAims ==
    ASSUME NEW c \in Caches, NEW r \in CacheRec, NEW U \in SUBSET (Rec \ {r})
    PROVE  Aims(c, Freed(c, r), U)
<1> DEFINE d == Freed(c, r)
           crec == [x \in Rec |-> IF x = r THEN FreeCrec
                                 ELSE [c.crec[x] EXCEPT !.target = IF @ = r THEN NoRec ELSE @]]
<1>1. d.fresh = c.fresh /\ d.crec = crec /\ c.crec \in [Rec -> Crec]
  <2>1. d.fresh = c.fresh /\ c.crec \in [Rec -> Crec]
    BY FreedParts DEF Caches
  <2>2. d = [c EXCEPT !.crec = crec, !.lru = Append(c.lru, r),
                      !.big = IF "big" \in FlagsOf(c, r) THEN c.big + 1 ELSE c.big]
    BY DEF Freed
  <2> HIDE DEF crec, d
  <2>3. d.crec = crec
    BY <2>2 DEF Caches
  <2> QED BY <2>1, <2>3
<1> HIDE DEF d
<1>2. d.crec[r].target = NoRec
  BY <1>1, Constants DEF FreeCrec
<1>3. ASSUME NEW x \in Rec, x # r
      PROVE  /\ Stays(c, d, x)
             /\ d.crec[x].target = IF c.crec[x].target = r THEN NoRec ELSE c.crec[x].target
  <2> DEFINE e == c.crec[x]
             f == [e EXCEPT !.target = IF @ = r THEN NoRec ELSE @]
  <2>1. d.crec[x] = f /\ e \in Crec
    BY <1>1, <1>3
  <2> HIDE DEF e
  <2>2. /\ f.flags = e.flags /\ f.name = e.name /\ f.goal = e.goal
        /\ f.target = IF e.target = r THEN NoRec ELSE e.target
    BY <2>1 DEF Crec
  <2> HIDE DEF f
  <2> QED BY <2>1, <2>2 DEF e, Stays, FlagsOf
<1> HIDE DEF crec
<1>4. ASSUME Aimed(c) PROVE Aimed(d)
  <2>1. ASSUME NEW x \in Rec, d.crec[x].target # NoRec
        PROVE  /\ d.crec[x].target = c.crec[x].target
               /\ Stays(c, d, x) /\ Stays(c, d, d.crec[x].target)
    <3>1. x # r
      BY <1>2, <2>1
    <3>2. /\ Stays(c, d, x) /\ d.crec[x].target = c.crec[x].target
          /\ c.crec[x].target # r /\ c.crec[x].target # NoRec
      BY <1>3, <2>1, <3>1
    <3>3. c.crec[x].target \in Rec
      BY <1>4, <3>2, Constants DEF Aimed, AimedAt
    <3>4. Stays(c, d, c.crec[x].target)
      BY <1>3, <3>2, <3>3
    <3> QED BY <3>2, <3>4
  <2> QED BY <1>1, <1>4, <2>1, AimedStays
<1>5. \A x \in U : d.crec[x].goal = c.crec[x].goal
  BY <1>3 DEF Stays
<1> QED
  BY <1>4, <1>5 DEF Aims, d

(* A change of a record that is no CNAME of the array, nor a target. *)
LEMMA ApartAims ==
    ASSUME NEW c, NEW d, d.fresh = c.fresh, NEW r \in Rec, r \notin CacheRec,
           d.crec[r].target = NoRec, \A x \in Rec : x # r => d.crec[x] = c.crec[x],
           NEW U \in SUBSET (Rec \ {r})
    PROVE  Aims(c, d, U)
<1>1. ASSUME Aimed(c) PROVE Aimed(d)
  <2>1. ASSUME NEW x \in Rec, d.crec[x].target # NoRec
        PROVE  /\ d.crec[x].target = c.crec[x].target
               /\ Stays(c, d, x) /\ Stays(c, d, d.crec[x].target)
    <3>1. x # r /\ d.crec[x] = c.crec[x]
      BY <2>1
    <3>2. c.crec[x].target \in CacheRec
      BY <1>1, <2>1, <3>1 DEF Aimed, AimedAt
    <3>3. d.crec[c.crec[x].target] = c.crec[c.crec[x].target]
      BY <3>2, Constants
    <3> QED BY <3>1, <3>3 DEF Stays, FlagsOf
  <2> QED BY <1>1, <2>1, AimedStays
<1> QED
  BY <1>1 DEF Aims

LEMMA DiscardedAims ==
    ASSUME NEW c, NEW N, NEW U, Sound(c, N, U), U \subseteq Rec, NEW r \in Hashed(c)
    PROVE  Aims(c, Discarded(c, r), U)
<1> DEFINE u == Unhashed(c, r)  k == Unlinked(u, r)
           m == [u EXCEPT !.crec[r] = FreeCrec]
<1>1. /\ c \in Caches /\ Kinds(c) /\ Hashed(c) = InUse(c) \ U
      /\ u \in Caches /\ u.crec = c.crec /\ u.fresh = c.fresh /\ Single(u.lru)
  BY UnhashedSound, SoundParts DEF Chained, OnList
<1>2. r \in Rec /\ Live(c, r) /\ U \in SUBSET (Rec \ {r})
  BY <1>1 DEF InUse
<1>3. Discarded(c, r) = (IF Local(c, r) THEN m ELSE Freed(k, r))
  BY DEF Discarded
<1> HIDE DEF u
<1>4. CASE Local(c, r)
  <2>1. r \notin CacheRec
    BY <1>1, <1>2, <1>4 DEF Kinds
  <2>2. m.fresh = c.fresh /\ m.crec[r].target = NoRec
        /\ \A x \in Rec : x # r => m.crec[x] = c.crec[x]
    BY <1>1, <1>2 DEF Caches, FreeCrec
  <2> HIDE DEF m
  <2> QED BY <1>2, <1>3, <1>4, <2>1, <2>2, ApartAims
<1>5. CASE ~Local(c, r)
  <2>1. r \in CacheRec
    BY <1>1, <1>2, <1>5 DEF Kinds
  <2>2. k \in Caches /\ k.crec = u.crec /\ k.fresh = u.fresh
    <3>1. u.lru \in Seq(CacheRec)
      BY <1>1 DEF Caches
    <3> DEFINE lru == RemoveFirst(u.lru, r)
    <3>2. Single(u.lru)
      BY <1>1
    <3>3. lru \in Seq(CacheRec)
      BY <3>1, <3>2, RemovedOK
    <3>4. k = [u EXCEPT !.lru = lru]
      BY DEF Unlinked
    <3> HIDE DEF lru, k
    <3> QED BY <1>1, <3>3, <3>4 DEF Caches
  <2> HIDE DEF k
  <2>3. Aims(c, k, U)
    BY <1>1, <2>2, SameAims
  <2>4. Aims(k, Freed(k, r), U)
    BY <1>2, <2>1, <2>2, FreedAims
  <2>5. Aims(c, Freed(k, r), U)
    BY <2>3, <2>4 DEF Aims
  <2> QED BY <1>3, <1>5, <2>5
<1> QED
  BY <1>4, <1>5

(* new_chain, and the records that are on it, stay as they are. *)
Keeps(c, d, N, U) ==
    /\ Sound(d, N, U) /\ d.fresh = c.fresh /\ Same(c, d, U) /\ Len(d.chain) = Len(c.chain)
    /\ Aims(c, d, U)

LEMMA KeepsTwice ==
    ASSUME NEW c, NEW d, NEW e, NEW N, NEW U, Keeps(c, d, N, U), Keeps(d, e, N, U)
    PROVE  Keeps(c, e, N, U)
BY DEF Keeps, Same, Aims

LEMMA KeepsSelf ==
    ASSUME NEW c, NEW N, NEW U, Sound(c, N, U)
    PROVE  Keeps(c, c, N, U)
BY DEF Keeps, Same, Aims

LEMMA DiscardedKeeps ==
    ASSUME NEW c, NEW N, NEW U, Sound(c, N, U), N \subseteq U, U \subseteq Rec, NEW r \in Hashed(c)
    PROVE  LET d == Discarded(c, r) IN
           /\ Keeps(c, d, N, U) /\ Hashed(d) = Hashed(c) \ {r} /\ Same(c, d, Rec \ {r})
<1> DEFINE d == Discarded(c, r)
<1>1. /\ Sound(d, N, U) /\ d.fresh = c.fresh
      /\ Hashed(d) = Hashed(c) \ {r} /\ Same(c, d, Rec \ {r})
  BY DiscardedSound
<1>2. r \notin U
  BY SoundParts DEF Chained
<1>3. Len(d.chain) = Len(c.chain)
  <2> DEFINE u == Unhashed(c, r)
  <2>1. Len(u.chain) = Len(c.chain) /\ u.crec = c.crec /\ u \in Caches
    BY UnhashedSound, SoundParts
  <2> HIDE DEF u
  <2>2. d = (IF Local(c, r) THEN [u EXCEPT !.crec[r] = FreeCrec] ELSE Freed(Unlinked(u, r), r))
    BY DEF Discarded, u
  <2>3. [u EXCEPT !.crec[r] = FreeCrec].chain = u.chain
    BY <2>1 DEF Caches
  <2>4. Freed(Unlinked(u, r), r).chain = u.chain
    <3>1. Unlinked(u, r).chain = u.chain
      BY <2>1 DEF Unlinked, Caches
    <3> QED BY <2>1, <3>1 DEF Freed, Unlinked, Caches
  <2> QED BY <2>1, <2>2, <2>3, <2>4
<1>5. Aims(c, d, U)
  BY DiscardedAims
<1> HIDE DEF d
<1>4. Same(c, d, U)
  BY <1>1, <1>2 DEF Same
<1> QED
  BY <1>1, <1>3, <1>4, <1>5 DEF Keeps, d

(* A search puts a record of an upstream server at the head of the list. *)
LEMMA PromotedKeeps ==
    ASSUME NEW c, NEW N, NEW U, Sound(c, N, U), N \subseteq U, U \subseteq Rec,
           NEW r \in Hashed(c), ~Local(c, r)
    PROVE  LET d == Promoted(c, r) IN
           Keeps(c, d, N, U) /\ d.crec = c.crec /\ Hashed(d) = Hashed(c) /\ d.chain = c.chain
<1> DEFINE d == Promoted(c, r)
<1>1. Hashed(c) = InUse(c) \ U /\ Kinds(c)
  BY SoundParts DEF Chained
<1>2. r \in CacheRec /\ r \notin N /\ Live(c, r)
  BY <1>1 DEF InUse, Kinds
<1>3. /\ Sound(d, N, U) /\ d.crec = c.crec /\ d.chain = c.chain
      /\ d.fresh = c.fresh /\ Hashed(d) = Hashed(c) /\ Same(c, d, Rec)
  BY <1>2, PromotedSound
<1> HIDE DEF d
<1>4. Same(c, d, U) /\ Aims(c, d, U)
  BY <1>3, SameAims DEF Same
<1> QED
  BY <1>3, <1>4 DEF Keeps, d

(* The place before a record of the chain. *)
Preceding(s, e) == Until(s, LAMBDA x : x = e)

LEMMA PlaceBefore ==
    ASSUME NEW s, s \in Seq(Rec), Single(s), NEW e, e \in Range(s)
    PROVE  LET u == Preceding(s, e) IN
           /\ Len(u) + 1 \in 1..Len(s) /\ s[Len(u) + 1] = e /\ Len(u) \in 0..Len(s)
<1> DEFINE S == {j \in 1..Len(s) : s[j] = e}
           i == IF S # {} THEN Min(S) ELSE 0
           u == Before(s, i)
<1>1. Preceding(s, e) = u
  BY DEF Preceding, Until, SelectInSeq
<1>3. /\ Len(u) \in 0..Len(s)
      /\ \A j \in 1..Len(u) : u[j] = s[j] /\ j \notin S
      /\ Len(u) < Len(s) => Len(u) + 1 \in S
  <2>1. s \in Seq(Rec) /\ Single(s) /\ S \in SUBSET (1..Len(s)) /\ i = IF S # {} THEN Min(S) ELSE 0
    OBVIOUS
  <2> HIDE DEF S, i
  <2>2. Len(u) \in 0..Len(s)
    BY ONLY <2>1, UntilOK
  <2>3. \A j \in 1..Len(u) : u[j] = s[j] /\ j \notin S
    BY ONLY <2>1, UntilOK
  <2>4. Len(u) < Len(s) => Len(u) + 1 \in S
    BY ONLY <2>1, UntilOK
  <2> QED BY <2>2, <2>3, <2>4
<1>2. PICK k \in 1..Len(s) : s[k] = e
  BY DEF Range
<1>4. k \in S
  BY <1>2
<1> HIDE DEF u
<1>5. Len(u) < Len(s)
  <2>1. Len(s) \in Nat /\ Len(u) \in Nat
    BY <1>3
  <2>2. k \notin 1..Len(u)
    BY <1>3, <1>4
  <2> QED BY <1>2, <2>1, <2>2
<1> QED
  BY <1>1, <1>3, <1>5

(* Round-robin keeps the chain and its order. *)
LEMMA MovedBeforeKeeps ==
    ASSUME NEW c, NEW N, NEW U, Sound(c, N, U), U \subseteq Rec, NEW r \in Hashed(c),
           NEW first \in Hashed(c), first # r, Section(c, r) = Section(c, first),
           NEW b, BucketOf(c, c.crec[r].name) = b, BucketOf(c, c.crec[first].name) = b
    PROVE  LET d == MovedBefore(Unhashed(c, r), r, b, first) IN
           Keeps(c, d, N, U) /\ d.crec = c.crec /\ Hashed(d) = Hashed(c)
<1> DEFINE u == Unhashed(c, r)
<1>1. /\ c \in Caches /\ Chained(c, U) /\ Hashed(c) = InUse(c) \ U
      /\ c.crec \in [Rec -> Crec]
  BY SoundParts DEF Chained
<1>2. r \in Rec /\ Live(c, r) /\ r \notin U /\ first \in Rec
  BY <1>1 DEF InUse
<1>3. /\ Sound(u, N, U \cup {r}) /\ u.crec = c.crec /\ u.lru = c.lru
      /\ u.fresh = c.fresh /\ Hashed(u) = Hashed(c) \ {r} /\ Same(c, u, Rec)
      /\ Len(u.chain) = Len(c.chain)
  BY UnhashedSound
<1> HIDE DEF u
<1> DEFINE V == U \cup {r}
<1>4. Sound(u, N, V) /\ V \ {r} = U
  BY <1>2, <1>3
<1> HIDE DEF V
<1>5. u \in Caches /\ Chained(u, V)
  BY <1>4, SoundParts
<1>6. /\ r \notin Hashed(u) /\ Live(u, r) /\ first \in Hashed(u)
      /\ BucketOf(u, u.crec[r].name) = b /\ BucketOf(u, u.crec[first].name) = b
      /\ Section(u, r) = Section(u, first)
  BY <1>2, <1>3 DEF Live, FlagsOf, BucketOf, Section
<1>7. b \in 1..Len(u.chain)
  <2>1. c.crec[r].name \in AnyName
    BY <1>1, <1>2 DEF Crec
  <2> QED BY <1>1, <1>3, <2>1, BucketOK
<1> DEFINE s == u.chain[b]
           before == Preceding(s, first)
<1>8. first \in Range(s)
  <2>1. PICK a \in 1..Len(u.chain) : first \in Range(u.chain[a])
    BY <1>5, <1>6, ChainParts
  <2>2. BucketOf(u, u.crec[first].name) = a
    BY <1>5, <2>1 DEF Chained, InBucket
  <2> QED BY <1>6, <2>1, <2>2
<1>9. s \in Seq(Rec) /\ Single(s) /\ \A x, y : Ahead(s, x, y) => Zone(u, x) <= Zone(u, y)
  BY <1>5, <1>7, ChainParts DEF Chained, InBucket
<1>10. Zone(u, r) = Zone(u, first) /\ \A x : Zone(u, x) \in 1..3
  BY <1>6, ZoneIs DEF Section, Zone
<1>11. Fits(u, r, b, before)
  <2> HIDE DEF s
  <2>1. /\ Len(before) + 1 \in 1..Len(s) /\ s[Len(before) + 1] = first
        /\ Len(before) \in 0..Len(s)
    BY <1>8, <1>9, PlaceBefore
  <2> HIDE DEF before
  <2> DEFINE k == Len(before)
  <2>2. k \in Nat /\ Len(s) \in Nat /\ k + 1 \in 1..Len(s) /\ s[k + 1] = first /\ k \in 0..Len(s)
    BY <1>9, <2>1
  <2> HIDE DEF k
  <2>3. ASSUME NEW i \in 1..k PROVE Zone(u, s[i]) <= Zone(u, r)
    <3>1. i \in 1..Len(s) /\ i < k + 1
      BY <2>2
    <3>2. Ahead(s, s[i], s[k + 1])
      BY <2>2, <3>1, AheadAt
    <3> QED BY <1>9, <1>10, <2>2, <3>2
  <2>4. ASSUME NEW i \in (k + 1)..Len(s) PROVE Zone(u, r) <= Zone(u, s[i])
    <3>1. CASE i = k + 1
      BY <1>10, <2>2, <3>1
    <3>2. CASE i # k + 1
      <4>1. i \in 1..Len(s) /\ k + 1 < i
        BY <2>2, <3>2
      <4>2. Ahead(s, s[k + 1], s[i])
        BY <2>2, <4>1, AheadAt
      <4> QED BY <1>9, <1>10, <2>2, <4>2
    <3> QED BY <3>1, <3>2
  <2> QED BY <2>2, <2>3, <2>4 DEF Fits, k, s
<1> DEFINE d == Into(u, r, b, before)
<1>12. MovedBefore(u, r, b, first) = d
  BY DEF MovedBefore, Preceding
<1> HIDE DEF before
<1>13. Hashes(u, d, N, V, r)
  BY <1>2, <1>4, <1>6, <1>7, <1>11, IntoSound
<1> HIDE DEF d
<1>14. Sound(d, N, U) /\ d.crec = c.crec /\ d.fresh = c.fresh /\ Len(d.chain) = Len(c.chain)
  BY <1>3, <1>4, <1>13 DEF Hashes
<1>15. Hashed(d) = Hashed(c)
  BY <1>3, <1>13 DEF Hashes
<1>16. Same(c, d, U) /\ Aims(c, d, U)
  BY <1>14, SameAims DEF Same, FlagsOf
<1> QED
  BY <1>12, <1>14, <1>15, <1>16 DEF Keeps, u

-----------------------------------------------------------------------------
(* Folds: the functions that go through a chain or a list *)

(* The records still to come when those at the places of T are done. *)
Left(walk, T) == {walk[i] : i \in (1..Len(walk)) \ T}

LEMMA LeftIs ==
    ASSUME NEW X, NEW walk, walk \in Seq(X)
    PROVE  Left(walk, {}) = Range(walk) /\ Left(walk, 1..Len(walk)) = {}
BY DEF Left, Range

LEMMA LeftLess ==
    ASSUME NEW X, NEW walk, walk \in Seq(X), Single(walk), NEW j \in 1..Len(walk),
           NEW T \in SUBSET (1..(j - 1))
    PROVE  walk[j] \in Left(walk, T) /\ Left(walk, T \cup {j}) = Left(walk, T) \ {walk[j]}
<1>1. j \notin T
  OBVIOUS
<1>2. walk[j] \in Left(walk, T)
  BY <1>1 DEF Left
<1>3. \A i \in 1..Len(walk) : walk[i] = walk[j] => i = j
  BY DEF Single
<1>4. Left(walk, T \cup {j}) = Left(walk, T) \ {walk[j]}
  BY <1>3 DEF Left
<1> QED
  BY <1>2, <1>4

(* What holds between two steps of the program: the records of new_chain
   hold something, and are off the LRU list and off the chains; and CNAMEs
   point to what they were received for.                                    *)
Held(c) ==
    /\ Sound(c, Range(c.fresh), Range(c.fresh)) /\ Single(c.fresh)
    /\ \A r \in Range(c.fresh) : Live(c, r)
Whole(c) == Held(c) /\ Aimed(c)

(* cache_start_insert frees what an aborted reply left on new_chain. *)
Freeing(fresh, T, d) ==
    /\ d \in Caches /\ d.fresh = <<>> /\ Sound(d, Left(fresh, T), Left(fresh, T))
    /\ Aimed(d)

LEMMA FreedSteps ==
    ASSUME NEW fresh, fresh \in Seq(CacheRec), Single(fresh), NEW j \in 1..Len(fresh),
           NEW T \in SUBSET (1..(j - 1)), NEW d, Freeing(fresh, T, d)
    PROVE  Freeing(fresh, T \cup {j}, Freed(d, fresh[j]))
<1> DEFINE r == fresh[j]  N == Left(fresh, T)  e == Freed(d, r)
<1>1. r \in CacheRec /\ r \in N /\ Left(fresh, T \cup {j}) = N \ {r}
  <2>1. fresh \in Seq(CacheRec) /\ Single(fresh) /\ j \in 1..Len(fresh) /\ T \in SUBSET (1..(j - 1))
    OBVIOUS
  <2>2. fresh[j] \in Left(fresh, T) /\ Left(fresh, T \cup {j}) = Left(fresh, T) \ {fresh[j]}
    BY ONLY <2>1, LeftLess, Zenon
  <2>3. fresh[j] \in CacheRec
    BY <2>1
  <2> QED BY ONLY <2>2, <2>3, Zenon
<1>2. Sound(d, N, N) /\ d.fresh = <<>> /\ d \in Caches /\ Aimed(d)
  BY DEF Freeing
<1> HIDE DEF r, N
<1>3. Sound(e, N \ {r}, N \ {r}) /\ e.fresh = <<>>
  BY <1>1, <1>2, FreedSound
<1>4. e \in Caches
  BY <1>3, SoundParts
<1>5. Aimed(e)
  <2>1. Aims(d, e, {})
    BY <1>1, <1>2, FreedAims
  <2> QED BY <1>2, <2>1 DEF Aims
<1> QED
  BY <1>1, <1>3, <1>4, <1>5 DEF Freeing, r

LEMMA StartInsertFold ==
    ASSUME NEW c, Whole(c)
    PROVE  LET result == StartInsert(c) IN
           /\ result \in Caches
           /\ Freeing(c.fresh, 1..Len(c.fresh), result)
<1> DEFINE seq == c.fresh
           n == Len(seq)
           op(v, e) == Freed(v, e)
           holds(T, v) == Freeing(c.fresh, T, v)
           base == [c EXCEPT !.fresh = <<>>]
           it == CHOOSE iter : iter = [S \in SUBSET DOMAIN seq |->
                    IF S = {} THEN base ELSE op(iter[S \ {Max(S)}], seq[Max(S)])]
           Good == {g \in (SUBSET (1..n)) \X Caches : holds(g[1], g[2])}
           W == Caches \cup {it[S] : S \in SUBSET (1..n)}
           step == [x \in (1..n) \X W |-> op(x[2], seq[x[1]])]
           total == StartInsert(c)
<1>1. n \in Nat /\ DOMAIN seq = 1..n /\ seq \in Seq(CacheRec)
  <2>1. c.fresh \in Seq(CacheRec)
    BY SoundParts DEF Whole, Held
  <2> QED BY <2>1
<1>2. total = it[1..n]
  <2>1. total = it[DOMAIN seq]
    BY DEF StartInsert, FoldLeft, MapThenFoldSet
  <2> HIDE DEF total, it
  <2> QED BY <1>1, <2>1
<1> HIDE DEF total
<1>3. <<{}, base>> \in Good
  <2>1. seq = c.fresh /\ Sound(c, Range(seq), Range(seq)) /\ <<>> \in Seq(CacheRec)
    BY DEF Whole, Held
  <2>2. Sound(base, Range(seq), Range(seq)) /\ base.fresh = <<>> /\ base.crec = c.crec
    BY <2>1, FreshSound
  <2>3. Left(seq, {}) = Range(seq)
    BY <1>1, LeftIs
  <2> HIDE DEF base
  <2>4. Aimed(base)
    <3>1. Aims(c, base, {})
      BY <2>2, SameAims
    <3> QED BY <3>1 DEF Aims, Whole
  <2>5. base \in Caches /\ Freeing(c.fresh, {}, base)
    BY <2>1, <2>2, <2>3, <2>4, SoundParts DEF Freeing
  <2> QED BY <2>5
<1>4. ASSUME NEW j \in 1..n, NEW S \in SUBSET (1..(j - 1)), NEW v, <<S, v>> \in Good
      PROVE  <<S \cup {j}, step[<<j, v>>]>> \in Good
  <2>1. v \in Caches /\ holds(S, v) /\ S \cup {j} \in SUBSET (1..n)
    BY <1>1, <1>4
  <2>2. step[<<j, v>>] = op(v, seq[j])
    <3>1. <<j, v>> \in (1..n) \X W
      BY <2>1
    <3> HIDE DEF W, n, seq
    <3> QED BY <3>1
  <2>3. op(v, seq[j]) \in Caches /\ holds(S \cup {j}, op(v, seq[j]))
    <3>1. seq \in Seq(CacheRec) /\ Single(seq) /\ j \in 1..Len(seq) /\ Freeing(seq, S, v)
      BY <1>1, <2>1 DEF Whole, Held
    <3> HIDE DEF seq, n
    <3>2. Freeing(seq, S \cup {j}, Freed(v, seq[j]))
      BY ONLY <3>1, FreedSteps
    <3> QED BY <3>2 DEF Freeing, seq
  <2> HIDE DEF step, n, seq
  <2> QED BY <2>1, <2>2, <2>3
<1>5. \A j \in 1..n : \A S \in SUBSET (1..(j - 1)) : \A v :
         <<S, v>> \in Good => <<S \cup {j}, step[<<j, v>>]>> \in Good
  <2> HIDE DEF Good, step, n
  <2> QED BY <1>4
<1>6. \A S, v : <<S, v>> \in Good => v \in W
  OBVIOUS
<1>7. \A j \in 1..n, v \in W : step[<<j, v>>] = op(v, seq[j])
  <2> HIDE DEF W, n, seq
  <2> QED OBVIOUS
<1>8. \A S \in SUBSET (1..n) : it[S] \in W
  <2> HIDE DEF it, n
  <2> QED OBVIOUS
<1>9. PICK some : Iterates(some, n, base, step)
  <2> HIDE DEF n, base, step
  <2> QED BY <1>1, IterateAny
<1>10. \A S \in SUBSET (1..n) : <<S, some[S]>> \in Good
  <2> HIDE DEF n, base, step, Good
  <2> QED BY <1>1, <1>3, <1>5, <1>9, IteratesKeep
<1> HIDE DEF Good, W, step
<1>11. ASSUME NEW S \in SUBSET (1..n), S # {}
       PROVE  Max(S) \in 1..n /\ S \ {Max(S)} \in SUBSET (1..n)
  BY <1>1, <1>11, MaxPlace
<1>12. some = [S \in SUBSET DOMAIN seq |->
                 IF S = {} THEN base ELSE op(some[S \ {Max(S)}], seq[Max(S)])]
  <2>1. ASSUME NEW S \in SUBSET (1..n), S # {}
        PROVE  step[<<Max(S), some[S \ {Max(S)}]>>] = op(some[S \ {Max(S)}], seq[Max(S)])
    <3> DEFINE j == Max(S)  v == some[S \ {Max(S)}]
    <3>1. j \in 1..n /\ v \in W
      BY <1>6, <1>10, <1>11, <2>1
    <3> HIDE DEF j, v
    <3>2. step[<<j, v>>] = op(v, seq[j])
      BY <1>7, <3>1
    <3> QED BY <3>2 DEF j, v
  <2>2. some = [S \in SUBSET (1..n) |->
                  IF S = {} THEN base ELSE step[<<Max(S), some[S \ {Max(S)}]>>]]
    BY <1>9 DEF Iterates
  <2> HIDE DEF n, base, seq
  <2> QED BY <1>1, <2>1, <2>2
<1>13. it = [S \in SUBSET DOMAIN seq |->
               IF S = {} THEN base ELSE op(it[S \ {Max(S)}], seq[Max(S)])]
  <2> HIDE DEF n, base, seq
  <2> QED BY <1>12
<1> HIDE DEF it
<1>14. Iterates(it, n, base, step)
  <2>1. ASSUME NEW S \in SUBSET (1..n), S # {}
        PROVE  step[<<Max(S), it[S \ {Max(S)}]>>] = op(it[S \ {Max(S)}], seq[Max(S)])
    <3> DEFINE j == Max(S)  v == it[S \ {Max(S)}]
    <3>1. j \in 1..n /\ v \in W
      BY <1>8, <1>11, <2>1
    <3> HIDE DEF j, v
    <3>2. step[<<j, v>>] = op(v, seq[j])
      BY <1>7, <3>1
    <3> QED BY <3>2 DEF j, v
  <2> HIDE DEF n, base, seq
  <2> QED BY <1>1, <1>13, <2>1 DEF Iterates
<1>15. <<1..n, it[1..n]>> \in Good
  <2> HIDE DEF n, base, seq
  <2> QED BY <1>1, <1>3, <1>5, <1>14, IteratesKeep
<1> QED
  BY <1>2, <1>15 DEF Good, total

(* One chain after another. *)
LEMMA JoinedOK ==
    ASSUME NEW X, NEW s, s \in Seq(X), Single(s), NEW t, t \in Seq(X), Single(t),
           \A x \in Range(s) : x \notin Range(t)
    PROVE  /\ s \o t \in Seq(X) /\ Single(s \o t)
           /\ \A x : x \in Range(s \o t) <=> x \in Range(s) \/ x \in Range(t)
<1> DEFINE u == s \o t  m == Len(s)  n == Len(t)
<1>1. m \in Nat /\ n \in Nat
  OBVIOUS
<1>2. u \in Seq(X) /\ Len(u) = m + n /\ DOMAIN u = 1..(m + n)
  <2>1. s \in Seq(X) /\ t \in Seq(X)
    OBVIOUS
  <2>2. u \in Seq(X) /\ Len(u) = Len(s) + Len(t)
    BY ONLY <2>1
  <2> HIDE DEF u
  <2> QED BY <2>2
<1>3. \A i \in 1..m : u[i] = s[i] /\ i \in 1..(m + n)
  BY <1>1
<1>4. \A i \in (m + 1)..(m + n) : u[i] = t[i - m] /\ i - m \in 1..n
  BY <1>1
<1>5. \A i \in 1..(m + n) : i \in 1..m \/ i \in (m + 1)..(m + n)
  BY <1>1
<1>6. (\A i \in 1..m : s[i] \in Range(s)) /\ (\A i \in 1..n : t[i] \in Range(t))
  BY DEF Range
<1> HIDE DEF u
<1>7. Single(u)
  <2> SUFFICES ASSUME NEW i \in 1..(m + n), NEW j \in 1..(m + n), u[i] = u[j], i < j PROVE FALSE
    BY <1>1, <1>2 DEF Single
  <2>1. CASE i \in 1..m /\ j \in 1..m
    BY <1>3, <2>1 DEF Single
  <2>2. CASE i \in (m + 1)..(m + n) /\ j \in (m + 1)..(m + n)
    <3>1. i - m \in 1..n /\ j - m \in 1..n /\ t[i - m] = t[j - m]
      BY <1>4, <2>2
    <3>2. i - m = j - m
      BY <3>1 DEF Single
    <3> QED BY <1>1, <3>2
  <2>3. CASE i \in 1..m /\ j \in (m + 1)..(m + n)
    BY <1>3, <1>4, <1>6, <2>3
  <2>4. CASE i \in (m + 1)..(m + n) /\ j \in 1..m
    BY <1>3, <1>4, <1>6, <2>4
  <2> QED BY <1>5, <2>1, <2>2, <2>3, <2>4
<1>8. ASSUME NEW x \in Range(u) PROVE x \in Range(s) \/ x \in Range(t)
  <2>1. PICK i \in 1..(m + n) : x = u[i]
    BY <1>2 DEF Range
  <2> QED BY <1>3, <1>4, <1>5, <1>6, <2>1
<1>9. ASSUME NEW x \in Range(s) PROVE x \in Range(u)
  <2>1. PICK i \in 1..m : x = s[i]
    BY DEF Range
  <2> QED BY <1>2, <1>3, <2>1 DEF Range
<1>10. ASSUME NEW x \in Range(t) PROVE x \in Range(u)
  <2>1. PICK i \in 1..n : x = t[i]
    BY DEF Range
  <2>2. i + m \in (m + 1)..(m + n) /\ (i + m) - m = i /\ i + m \in 1..(m + n)
    BY <1>1
  <2> QED BY <1>2, <1>4, <2>1, <2>2 DEF Range
<1> QED
  BY <1>2, <1>7, <1>8, <1>9, <1>10 DEF u

(* The walks over all chains. *)
Apart(ss) == \A a, b \in 1..Len(ss) : a # b => \A x \in Range(ss[a]) : x \notin Range(ss[b])

LEMMA FlattenedOK ==
    ASSUME NEW X, NEW ss, ss \in Seq(Seq(X)), \A b \in 1..Len(ss) : Single(ss[b]), Apart(ss)
    PROVE  /\ FlattenSeq(ss) \in Seq(X) /\ Single(FlattenSeq(ss))
           /\ \A x : x \in Range(FlattenSeq(ss)) <=> \E b \in 1..Len(ss) : x \in Range(ss[b])
<1> DEFINE n == Len(ss)
           f == CHOOSE flatten : flatten = [i \in 1..n |->
                   IF i = 1 THEN ss[i] ELSE flatten[i - 1] \o ss[i]]
<1>1. n \in Nat /\ \A b \in 1..n : ss[b] \in Seq(X)
  <2> DEFINE S == Seq(X)
  <2> HIDE DEF S
  <2>1. ss \in Seq(S) => n \in Nat /\ \A b \in 1..n : ss[b] \in S
    OBVIOUS
  <2> QED BY <2>1 DEF S
<1>2. CASE n = 0
  <2>1. FlattenSeq(ss) = ss
    BY <1>2 DEF FlattenSeq
  <2>2. ss \in Seq(X) /\ Single(ss) /\ Range(ss) = {}
    BY <1>2 DEF Single, Range
  <2> QED BY <1>2, <2>1, <2>2
<1>3. CASE n # 0
  <2>0. FlattenSeq(ss) = f[n]
    BY <1>3 DEF FlattenSeq
  <2> HIDE DEF f
  <2>1. \E g : g = [i \in 1..n |-> IF i = 1 THEN ss[i] ELSE g[i - 1] \o ss[i]]
    <3> DEFINE P == {k \in 0..n : \E g :
                        g = [i \in 1..k |-> IF i = 1 THEN ss[i] ELSE g[i - 1] \o ss[i]]}
    <3>1. 0 \in P
      <4> DEFINE g == [i \in 1..0 |-> ss]
      <4>1. g = [i \in 1..0 |-> IF i = 1 THEN ss[i] ELSE g[i - 1] \o ss[i]]
        OBVIOUS
      <4> HIDE DEF g
      <4>2. 0 \in 0..n
        BY <1>1
      <4> QED BY <4>1, <4>2
    <3>2. ASSUME NEW k \in 1..n, k - 1 \in P PROVE k \in P
      <4>1. PICK old : old = [i \in 1..(k - 1) |-> IF i = 1 THEN ss[i] ELSE old[i - 1] \o ss[i]]
        BY <3>2
      <4> DEFINE g == [i \in 1..k |-> IF i = 1 THEN ss[i] ELSE old[i - 1] \o ss[i]]
      <4>2. k \in Nat /\ \A i \in 2..k : i - 1 \in 1..(k - 1) /\ i - 1 \in 1..k
        OBVIOUS
      <4>3. \A i \in 1..(k - 1) : g[i] = old[i]
        <5> SUFFICES ASSUME NEW i \in 1..(k - 1) PROVE g[i] = old[i]
          OBVIOUS
        <5>1. old[i] = IF i = 1 THEN ss[i] ELSE old[i - 1] \o ss[i]
          BY <4>1
        <5>2. i \in 1..k
          OBVIOUS
        <5> QED BY ONLY <5>1, <5>2
      <4>4. \A i \in 1..k : i # 1 => i - 1 \in 1..(k - 1)
        BY <4>2
      <4>5. g = [i \in 1..k |-> g[i]]
        OBVIOUS
      <4>6. \A i \in 1..k : g[i] = IF i = 1 THEN ss[i] ELSE old[i - 1] \o ss[i]
        OBVIOUS
      <4> HIDE DEF g
      <4>7. \A i \in 1..k : g[i] = IF i = 1 THEN ss[i] ELSE g[i - 1] \o ss[i]
        BY <4>3, <4>4, <4>6
      <4>8. g = [i \in 1..k |-> IF i = 1 THEN ss[i] ELSE g[i - 1] \o ss[i]]
        BY <4>5, <4>7
      <4>9. k \in 0..n
        BY <1>1
      <4> QED BY <4>8, <4>9
    <3> HIDE DEF P, n
    <3>3. \A k \in 0..n : k \in P
      BY <1>1, <3>1, <3>2, UpTo
    <3>4. n \in Nat
      BY <1>1, Zenon
    <3>5. n \in 0..n
      BY ONLY <3>4
    <3>6. n \in P
      BY ONLY <3>3, <3>5
    <3> QED BY <3>6, Zenon DEF P
  <2>2. f = [i \in 1..n |-> IF i = 1 THEN ss[i] ELSE f[i - 1] \o ss[i]]
    BY <2>1, Zenon DEF f
  <2> DEFINE good(i) == /\ f[i] \in Seq(X) /\ Single(f[i])
                        /\ \A x : x \in Range(f[i]) <=> \E b \in 1..i : x \in Range(ss[b])
             Q == {k \in 0..n : k # 0 => good(k)}
  <2>3. 0 \in Q
    BY <1>1
  <2>4. ASSUME NEW k \in 1..n, k - 1 \in Q PROVE k \in Q
    <3>1. CASE k = 1
      <4>1. f[k] = ss[k]
        BY <2>2, <3>1
      <4>2. good(k)
        BY <1>1, <3>1, <4>1
      <4> QED BY <1>1, <4>2
    <3>2. CASE k # 1
      <4> DEFINE u == f[k - 1]  t == ss[k]
      <4>1. good(k - 1)
        BY <2>4, <3>2
      <4>2. f[k] = u \o t
        BY <2>2, <3>2
      <4>3. u \in Seq(X) /\ Single(u) /\ t \in Seq(X) /\ Single(t)
        BY <1>1, <4>1
      <4>4. \A x : x \in Range(u) <=> \E b \in 1..(k - 1) : x \in Range(ss[b])
        BY <4>1
      <4>5. \A b \in 1..(k - 1) : b \in 1..n /\ b # k
        BY <1>1
      <4>6. \A x \in Range(u) : x \notin Range(t)
        <5> HIDE DEF u, n
        <5> QED BY <4>4, <4>5 DEF Apart, n
      <4>7. \A b : b \in 1..k <=> b \in 1..(k - 1) \/ b = k
        BY <1>1
      <4> HIDE DEF u, t
      <4>8. /\ u \o t \in Seq(X) /\ Single(u \o t)
            /\ \A x : x \in Range(u \o t) <=> x \in Range(u) \/ x \in Range(t)
        BY ONLY <4>3, <4>6, JoinedOK
      <4>9. \A x : x \in Range(u \o t) <=> \E b \in 1..k : x \in Range(ss[b])
        BY <4>4, <4>7, <4>8 DEF t
      <4>10. good(k)
        BY <4>2, <4>8, <4>9
      <4>11. k \in 0..n
        BY <1>1
      <4> HIDE DEF good
      <4> QED BY <4>10, <4>11
    <3> QED BY <3>1, <3>2
  <2>5. n \in Q
    <3> HIDE DEF Q, n
    <3>1. \A k \in 0..n : k \in Q
      BY <1>1, <2>3, <2>4, UpTo
    <3>2. n \in 0..n
      BY <1>1
    <3> QED BY <3>1, <3>2
  <2>6. good(n)
    BY <1>3, <2>5
  <2> QED BY <2>0, <2>6
<1> QED
  BY <1>2, <1>3

(* The chains have no record in common. *)
LEMMA ChainsApart ==
    ASSUME NEW c, NEW N, NEW U, Sound(c, N, U), NEW ss, ss \in Seq(Seq(Rec)),
           Len(ss) = Len(c.chain),
           \A b \in 1..Len(c.chain) : Single(ss[b]) /\ Range(ss[b]) \subseteq Range(c.chain[b])
    PROVE  /\ FlattenSeq(ss) \in Seq(Rec) /\ Single(FlattenSeq(ss))
           /\ \A x : x \in Range(FlattenSeq(ss)) <=>
                       \E b \in 1..Len(c.chain) : x \in Range(ss[b])
           /\ Range(FlattenSeq(ss)) \subseteq Hashed(c)
<1>1. c \in Caches /\ Chained(c, U)
  BY SoundParts
<1>2. \A b \in 1..Len(c.chain) :
        /\ Range(c.chain[b]) \subseteq Hashed(c)
        /\ \A r \in Range(c.chain[b]) : BucketOf(c, c.crec[r].name) = b
  BY <1>1, ChainParts DEF Chained, InBucket
<1>3. Apart(ss)
  BY <1>2 DEF Apart
<1>4. \A b \in 1..Len(ss) : Single(ss[b])
  OBVIOUS
<1>5. /\ FlattenSeq(ss) \in Seq(Rec) /\ Single(FlattenSeq(ss))
      /\ \A x : x \in Range(FlattenSeq(ss)) <=> \E b \in 1..Len(ss) : x \in Range(ss[b])
  <2>1. ss \in Seq(Seq(Rec))
    OBVIOUS
  <2> QED BY ONLY <1>3, <1>4, <2>1, FlattenedOK
<1> QED
  BY <1>2, <1>5

WalkOf(c, walk) == walk \in Seq(Rec) /\ Single(walk) /\ Range(walk) \subseteq Hashed(c)

(* rehash goes over every record of the chains, and over each once. *)
LEMMA AllChains ==
    ASSUME NEW c, NEW N, NEW U, Sound(c, N, U)
    PROVE  WalkOf(c, FlattenSeq(c.chain)) /\ Range(FlattenSeq(c.chain)) = Hashed(c)
<1> DEFINE ss == c.chain
<1>1. c \in Caches /\ Chained(c, U)
  BY SoundParts
<1>2. /\ ss \in Seq(Seq(Rec)) /\ Len(ss) = Len(c.chain)
      /\ \A b \in 1..Len(c.chain) : Single(ss[b]) /\ Range(ss[b]) \subseteq Range(c.chain[b])
  BY <1>1, ChainParts DEF Chained, InBucket
<1>3. /\ \A r \in Hashed(c) : \E b \in 1..Len(c.chain) : r \in Range(ss[b])
  BY <1>1, ChainParts
<1> HIDE DEF ss
<1>4. /\ FlattenSeq(ss) \in Seq(Rec) /\ Single(FlattenSeq(ss))
      /\ \A x : x \in Range(FlattenSeq(ss)) <=> \E b \in 1..Len(c.chain) : x \in Range(ss[b])
      /\ Range(FlattenSeq(ss)) \subseteq Hashed(c)
  BY <1>2, ChainsApart
<1> QED
  BY <1>3, <1>4 DEF WalkOf, ss

(* The walks of cache_scan_free and of cache_find_by_addr. *)
LEMMA WalksOK ==
    ASSUME NEW c, NEW N, NEW U, Sound(c, N, U)
    PROVE  WalkOf(c, MortalWalk(c)) /\ WalkOf(c, ReverseWalk(c))
<1> DEFINE n == Len(c.chain)
           mm == [b \in 1..n |-> Mortals(c, c.chain[b])]
           rr == [b \in 1..n |-> Reverses(c, c.chain[b])]
<1>1. c \in Caches /\ n \in Nat /\ DOMAIN c.chain = 1..n
  BY SoundParts, ChainParts
<1>2. MortalWalk(c) = FlattenSeq(mm) /\ ReverseWalk(c) = FlattenSeq(rr)
  BY <1>1 DEF MortalWalk, ReverseWalk
<1>3. ASSUME NEW b \in 1..n, NEW u \in {Reverses(c, c.chain[b]), Mortals(c, c.chain[b])}
      PROVE  u \in Seq(Rec) /\ Single(u) /\ Range(u) \subseteq Range(c.chain[b])
  <2> DEFINE s == c.chain[b]
  <2>1. s \in Seq(Rec)
    BY <1>1, ChainParts
  <2>2. /\ u \in Seq(Rec) /\ Single(u) /\ Len(u) \in 0..Len(s)
        /\ \A j \in 1..Len(u) : u[j] = s[j]
    <3>1. Walked(c, s) /\ u \in {Reverses(c, s), Mortals(c, s)}
      BY <1>1, WalkOK
    <3> HIDE DEF s
    <3> QED BY <3>1 DEF Walked
  <2> HIDE DEF s
  <2>3. Range(u) \subseteq Range(s)
    <3>1. Len(u) \in Nat /\ Len(s) \in Nat /\ Len(u) <= Len(s)
      BY <2>1, <2>2
    <3>2. \A j \in 1..Len(u) : j \in 1..Len(s)
      BY <3>1
    <3> QED BY <2>1, <2>2, <3>2 DEF Range
  <2> QED BY <2>2, <2>3 DEF s
<1>4. ASSUME NEW ss, ss = [b \in 1..n |-> ss[b]],
             \A b \in 1..n : /\ ss[b] \in Seq(Rec) /\ Single(ss[b])
                             /\ Range(ss[b]) \subseteq Range(c.chain[b])
      PROVE  WalkOf(c, FlattenSeq(ss))
  <2>1. ss \in Seq(Seq(Rec)) /\ Len(ss) = n
    <3> DEFINE S == Seq(Rec)
    <3>1. \A b \in 1..n : ss[b] \in S
      BY <1>4
    <3> HIDE DEF S, n
    <3>2. ss \in [1..n -> S]
      BY <1>4, <3>1
    <3>3. ss \in Seq(S) /\ Len(ss) = n
      BY <1>1, <3>2
    <3> QED BY <3>3 DEF S
  <2>2. \A b \in 1..Len(c.chain) : Single(ss[b]) /\ Range(ss[b]) \subseteq Range(c.chain[b])
    BY <1>4
  <2>3. /\ FlattenSeq(ss) \in Seq(Rec) /\ Single(FlattenSeq(ss))
        /\ Range(FlattenSeq(ss)) \subseteq Hashed(c)
    BY <2>1, <2>2, ChainsApart
  <2> QED BY <2>3 DEF WalkOf
<1>5. WalkOf(c, FlattenSeq(mm))
  <2>1. mm = [b \in 1..n |-> mm[b]] /\ \A b \in 1..n : mm[b] = Mortals(c, c.chain[b])
    OBVIOUS
  <2> HIDE DEF mm
  <2> QED BY <1>3, <1>4, <2>1
<1>6. WalkOf(c, FlattenSeq(rr))
  <2>1. rr = [b \in 1..n |-> rr[b]] /\ \A b \in 1..n : rr[b] = Reverses(c, c.chain[b])
    OBVIOUS
  <2> HIDE DEF rr
  <2> QED BY <1>3, <1>4, <2>1
<1> QED
  BY <1>2, <1>5, <1>6

LEMMA ChainWalk ==
    ASSUME NEW c, NEW N, NEW U, Sound(c, N, U), NEW b \in 1..Len(c.chain)
    PROVE  WalkOf(c, c.chain[b])
<1>1. c \in Caches /\ Chained(c, U)
  BY SoundParts
<1> QED
  BY <1>1, ChainParts DEF Chained, InBucket, WalkOf

(* During a walk: the records to come are still where they were. *)
Walking(c, N, U, walk, T, d) ==
    /\ Keeps(c, d, N, U) /\ Left(walk, T) \subseteq Hashed(d)
    /\ N \subseteq U /\ U \subseteq Rec

LEMMA WalkStarts ==
    ASSUME NEW c, NEW N, NEW U, Sound(c, N, U), N \subseteq U, U \subseteq Rec,
           NEW walk, WalkOf(c, walk)
    PROVE  Walking(c, N, U, walk, {}, c)
<1>1. Left(walk, {}) = Range(walk)
  BY LeftIs DEF WalkOf
<1>2. Keeps(c, c, N, U)
  BY KeepsSelf
<1> QED
  BY <1>1, <1>2 DEF Walking, WalkOf

(* A step of a walk that keeps the chains, but perhaps for the record that it
   is at.                                                                   *)
LEMMA WalkGoesOn ==
    ASSUME NEW c, NEW N, NEW U, NEW walk, walk \in Seq(Rec), Single(walk),
           NEW j \in 1..Len(walk), NEW T \in SUBSET (1..(j - 1)), NEW d,
           Walking(c, N, U, walk, T, d), NEW e,
           Keeps(d, e, N, U), Hashed(d) \ {walk[j]} \subseteq Hashed(e)
    PROVE  Walking(c, N, U, walk, T \cup {j}, e)
<1>1. Left(walk, T \cup {j}) = Left(walk, T) \ {walk[j]}
  <2>1. walk \in Seq(Rec) /\ Single(walk) /\ j \in 1..Len(walk) /\ T \in SUBSET (1..(j - 1))
    OBVIOUS
  <2> QED BY ONLY <2>1, LeftLess, Zenon
<1>2. Keeps(c, e, N, U)
  BY KeepsTwice DEF Walking
<1> QED
  BY <1>1, <1>2 DEF Walking

LEMMA WalkAt ==
    ASSUME NEW c, NEW N, NEW U, NEW walk, walk \in Seq(Rec), Single(walk),
           NEW j \in 1..Len(walk), NEW T \in SUBSET (1..(j - 1)), NEW d,
           Walking(c, N, U, walk, T, d)
    PROVE  /\ walk[j] \in Hashed(d) /\ Sound(d, N, U) /\ N \subseteq U /\ U \subseteq Rec
           /\ Len(d.chain) = Len(c.chain) /\ d \in Caches
<1>1. walk[j] \in Left(walk, T)
  <2>1. walk \in Seq(Rec) /\ Single(walk) /\ j \in 1..Len(walk) /\ T \in SUBSET (1..(j - 1))
    OBVIOUS
  <2> QED BY ONLY <2>1, LeftLess, Zenon
<1> QED
  BY <1>1, SoundParts DEF Walking, Keeps

LEMMA WalkPasses ==
    ASSUME NEW c, NEW N, NEW U, NEW walk, walk \in Seq(Rec), Single(walk),
           NEW j \in 1..Len(walk), NEW T \in SUBSET (1..(j - 1)), NEW d,
           Walking(c, N, U, walk, T, d)
    PROVE  Walking(c, N, U, walk, T \cup {j}, d)
<1>1. Sound(d, N, U)
  BY WalkAt
<1>2. Keeps(d, d, N, U)
  BY <1>1, KeepsSelf
<1> QED
  BY <1>2, WalkGoesOn

LEMMA WalkDiscards ==
    ASSUME NEW c, NEW N, NEW U, NEW walk, walk \in Seq(Rec), Single(walk),
           NEW j \in 1..Len(walk), NEW T \in SUBSET (1..(j - 1)), NEW d,
           Walking(c, N, U, walk, T, d)
    PROVE  /\ Walking(c, N, U, walk, T \cup {j}, Discarded(d, walk[j]))
           /\ Discarded(d, walk[j]) \in Caches
<1> DEFINE r == walk[j]  e == Discarded(d, r)
<1>1. r \in Hashed(d) /\ Sound(d, N, U) /\ N \subseteq U /\ U \subseteq Rec
  BY WalkAt
<1> HIDE DEF r
<1>2. Keeps(d, e, N, U) /\ Hashed(e) = Hashed(d) \ {r}
  BY <1>1, DiscardedKeeps
<1> HIDE DEF e
<1>3. Walking(c, N, U, walk, T \cup {j}, e)
  <2>1. Hashed(d) \ {walk[j]} \subseteq Hashed(e)
    BY <1>2 DEF r
  <2> QED BY <1>2, <2>1, WalkGoesOn
<1>4. e \in Caches
  BY <1>2, SoundParts DEF Keeps
<1> QED
  BY <1>3, <1>4 DEF e, r

Scans == [cache : Caches, ok : BOOLEAN]

LEMMA ForwardSteps ==
    ASSUME NEW c, NEW N, NEW U, NEW walk, walk \in Seq(Rec), Single(walk),
           NEW j \in 1..Len(walk), NEW T \in SUBSET (1..(j - 1)), NEW s \in Scans,
           Walking(c, N, U, walk, T, s.cache), NEW name, NEW flags, NEW now
    PROVE  LET u == ForwardScanned(s, walk[j], name, flags, now) IN
           u \in Scans /\ Walking(c, N, U, walk, T \cup {j}, u.cache)
<1> DEFINE r == walk[j]  u == ForwardScanned(s, r, name, flags, now)
           e == Discarded(s.cache, r)
<1>1. Walking(c, N, U, walk, T \cup {j}, s.cache)
  BY WalkPasses
<1>2. Walking(c, N, U, walk, T \cup {j}, e) /\ e \in Caches
  BY WalkDiscards
<1>3. \/ u = [s EXCEPT !.ok = FALSE]
      \/ u = [s EXCEPT !.cache = e]
      \/ u = s
  BY DEF ForwardScanned
<1> HIDE DEF u, e, r
<1>4. u \in Scans /\ u.cache \in {s.cache, e}
  BY <1>2, <1>3 DEF Scans
<1>5. Walking(c, N, U, walk, T \cup {j}, u.cache)
  BY <1>1, <1>2, <1>4
<1> QED
  BY <1>4, <1>5 DEF u, r

LEMMA ReverseSteps ==
    ASSUME NEW c, NEW N, NEW U, NEW walk, walk \in Seq(Rec), Single(walk),
           NEW j \in 1..Len(walk), NEW T \in SUBSET (1..(j - 1)), NEW d \in Caches,
           Walking(c, N, U, walk, T, d), NEW addr, NEW flags, NEW now
    PROVE  LET e == ReverseScanned(d, walk[j], addr, flags, now) IN
           e \in Caches /\ Walking(c, N, U, walk, T \cup {j}, e)
<1> DEFINE r == walk[j]  e == Discarded(d, r)
<1>1. Walking(c, N, U, walk, T \cup {j}, d)
  BY WalkPasses
<1>2. Walking(c, N, U, walk, T \cup {j}, e) /\ e \in Caches
  BY WalkDiscards
<1>3. \/ ReverseScanned(d, r, addr, flags, now) = e
      \/ ReverseScanned(d, r, addr, flags, now) = d
  BY DEF ReverseScanned
<1> HIDE DEF e, r
<1> QED
  BY <1>1, <1>2, <1>3 DEF r

LEMMA ForwardFold ==
    ASSUME NEW c, NEW N, NEW U, Sound(c, N, U), N \subseteq U, U \subseteq Rec,
           NEW name, NEW flags, NEW now, WalkOf(c, c.chain[BucketOf(c, name)])
    PROVE  LET result == ScanForward(c, name, flags, now) IN
           /\ result \in Scans
           /\ Walking(c, N, U, c.chain[BucketOf(c, name)],
                      1..Len(c.chain[BucketOf(c, name)]), result.cache)
<1> DEFINE seq == c.chain[BucketOf(c, name)]
           n == Len(seq)
           op(v, e) == ForwardScanned(v, e, name, flags, now)
           holds(T, v) == Walking(c, N, U, c.chain[BucketOf(c, name)], T, v.cache)
           base == [cache |-> c, ok |-> TRUE]
           it == CHOOSE iter : iter = [S \in SUBSET DOMAIN seq |->
                    IF S = {} THEN base ELSE op(iter[S \ {Max(S)}], seq[Max(S)])]
           Good == {g \in (SUBSET (1..n)) \X Scans : holds(g[1], g[2])}
           W == Scans \cup {it[S] : S \in SUBSET (1..n)}
           step == [x \in (1..n) \X W |-> op(x[2], seq[x[1]])]
           total == ScanForward(c, name, flags, now)
<1>1. n \in Nat /\ DOMAIN seq = 1..n /\ seq \in Seq(Rec)
  <2> QED BY DEF WalkOf
<1>2. total = it[1..n]
  <2>1. total = it[DOMAIN seq]
    BY DEF ScanForward, FoldLeft, MapThenFoldSet
  <2> HIDE DEF total, it
  <2> QED BY <1>1, <2>1
<1> HIDE DEF total
<1>3. <<{}, base>> \in Good
  <2>1. Walking(c, N, U, seq, {}, c)
    BY WalkStarts
  <2>2. base \in Scans /\ base.cache = c
    <3>1. c \in Caches
      BY SoundParts
    <3> QED BY <3>1 DEF Scans
  <2> QED BY <2>1, <2>2
<1>4. ASSUME NEW j \in 1..n, NEW S \in SUBSET (1..(j - 1)), NEW v, <<S, v>> \in Good
      PROVE  <<S \cup {j}, step[<<j, v>>]>> \in Good
  <2>1. v \in Scans /\ holds(S, v) /\ S \cup {j} \in SUBSET (1..n)
    BY <1>1, <1>4
  <2>2. step[<<j, v>>] = op(v, seq[j])
    <3>1. <<j, v>> \in (1..n) \X W
      BY <2>1
    <3> HIDE DEF W, n, seq
    <3> QED BY <3>1
  <2>3. op(v, seq[j]) \in Scans /\ holds(S \cup {j}, op(v, seq[j]))
    <3>1. seq \in Seq(Rec) /\ Single(seq) /\ j \in 1..Len(seq) /\ S \in SUBSET (1..(j - 1))
      BY <1>1 DEF WalkOf
    <3>2. v \in Scans /\ Walking(c, N, U, seq, S, v.cache)
      BY <2>1
    <3> HIDE DEF seq, n
    <3>3. LET u == ForwardScanned(v, seq[j], name, flags, now) IN
          u \in Scans /\ Walking(c, N, U, seq, S \cup {j}, u.cache)
      BY ONLY <3>1, <3>2, ForwardSteps
    <3> QED BY <3>3 DEF seq
  <2> HIDE DEF step, n, seq
  <2> QED BY <2>1, <2>2, <2>3
<1>5. \A j \in 1..n : \A S \in SUBSET (1..(j - 1)) : \A v :
         <<S, v>> \in Good => <<S \cup {j}, step[<<j, v>>]>> \in Good
  <2> HIDE DEF Good, step, n
  <2> QED BY <1>4
<1>6. \A S, v : <<S, v>> \in Good => v \in W
  OBVIOUS
<1>7. \A j \in 1..n, v \in W : step[<<j, v>>] = op(v, seq[j])
  <2> HIDE DEF W, n, seq
  <2> QED OBVIOUS
<1>8. \A S \in SUBSET (1..n) : it[S] \in W
  <2> HIDE DEF it, n
  <2> QED OBVIOUS
<1>9. PICK some : Iterates(some, n, base, step)
  <2> HIDE DEF n, base, step
  <2> QED BY <1>1, IterateAny
<1>10. \A S \in SUBSET (1..n) : <<S, some[S]>> \in Good
  <2> HIDE DEF n, base, step, Good
  <2> QED BY <1>1, <1>3, <1>5, <1>9, IteratesKeep
<1> HIDE DEF Good, W, step
<1>11. ASSUME NEW S \in SUBSET (1..n), S # {}
       PROVE  Max(S) \in 1..n /\ S \ {Max(S)} \in SUBSET (1..n)
  BY <1>1, <1>11, MaxPlace
<1>12. some = [S \in SUBSET DOMAIN seq |->
                 IF S = {} THEN base ELSE op(some[S \ {Max(S)}], seq[Max(S)])]
  <2>1. ASSUME NEW S \in SUBSET (1..n), S # {}
        PROVE  step[<<Max(S), some[S \ {Max(S)}]>>] = op(some[S \ {Max(S)}], seq[Max(S)])
    <3> DEFINE j == Max(S)  v == some[S \ {Max(S)}]
    <3>1. j \in 1..n /\ v \in W
      BY <1>6, <1>10, <1>11, <2>1
    <3> HIDE DEF j, v
    <3>2. step[<<j, v>>] = op(v, seq[j])
      BY <1>7, <3>1
    <3> QED BY <3>2 DEF j, v
  <2>2. some = [S \in SUBSET (1..n) |->
                  IF S = {} THEN base ELSE step[<<Max(S), some[S \ {Max(S)}]>>]]
    BY <1>9 DEF Iterates
  <2> HIDE DEF n, base, seq
  <2> QED BY <1>1, <2>1, <2>2
<1>13. it = [S \in SUBSET DOMAIN seq |->
               IF S = {} THEN base ELSE op(it[S \ {Max(S)}], seq[Max(S)])]
  <2> HIDE DEF n, base, seq
  <2> QED BY <1>12
<1> HIDE DEF it
<1>14. Iterates(it, n, base, step)
  <2>1. ASSUME NEW S \in SUBSET (1..n), S # {}
        PROVE  step[<<Max(S), it[S \ {Max(S)}]>>] = op(it[S \ {Max(S)}], seq[Max(S)])
    <3> DEFINE j == Max(S)  v == it[S \ {Max(S)}]
    <3>1. j \in 1..n /\ v \in W
      BY <1>8, <1>11, <2>1
    <3> HIDE DEF j, v
    <3>2. step[<<j, v>>] = op(v, seq[j])
      BY <1>7, <3>1
    <3> QED BY <3>2 DEF j, v
  <2> HIDE DEF n, base, seq
  <2> QED BY <1>1, <1>13, <2>1 DEF Iterates
<1>15. <<1..n, it[1..n]>> \in Good
  <2> HIDE DEF n, base, seq
  <2> QED BY <1>1, <1>3, <1>5, <1>14, IteratesKeep
<1> QED
  BY <1>2, <1>15 DEF Good, total

LEMMA ReverseFold ==
    ASSUME NEW c, NEW N, NEW U, Sound(c, N, U), N \subseteq U, U \subseteq Rec,
           NEW addr, NEW flags, NEW now
    PROVE  LET result == ScanReverse(c, addr, flags, now) IN
           /\ result \in Caches
           /\ Walking(c, N, U, MortalWalk(c), 1..Len(MortalWalk(c)), result)
<1> DEFINE seq == MortalWalk(c)
           n == Len(seq)
           op(v, e) == ReverseScanned(v, e, addr, flags, now)
           holds(T, v) == Walking(c, N, U, MortalWalk(c), T, v)
           base == c
           it == CHOOSE iter : iter = [S \in SUBSET DOMAIN seq |->
                    IF S = {} THEN base ELSE op(iter[S \ {Max(S)}], seq[Max(S)])]
           Good == {g \in (SUBSET (1..n)) \X Caches : holds(g[1], g[2])}
           W == Caches \cup {it[S] : S \in SUBSET (1..n)}
           step == [x \in (1..n) \X W |-> op(x[2], seq[x[1]])]
           total == ScanReverse(c, addr, flags, now)
<1>1. n \in Nat /\ DOMAIN seq = 1..n /\ seq \in Seq(Rec)
  <2> QED BY WalksOK DEF WalkOf
<1>2. total = it[1..n]
  <2>1. total = it[DOMAIN seq]
    BY DEF ScanReverse, FoldLeft, MapThenFoldSet
  <2> HIDE DEF total, it
  <2> QED BY <1>1, <2>1
<1> HIDE DEF total
<1>3. <<{}, base>> \in Good
  <2>1. Walking(c, N, U, seq, {}, c)
    BY WalksOK, WalkStarts
  <2>2. base \in Caches
    BY SoundParts
  <2> QED BY <2>1, <2>2
<1>4. ASSUME NEW j \in 1..n, NEW S \in SUBSET (1..(j - 1)), NEW v, <<S, v>> \in Good
      PROVE  <<S \cup {j}, step[<<j, v>>]>> \in Good
  <2>1. v \in Caches /\ holds(S, v) /\ S \cup {j} \in SUBSET (1..n)
    BY <1>1, <1>4
  <2>2. step[<<j, v>>] = op(v, seq[j])
    <3>1. <<j, v>> \in (1..n) \X W
      BY <2>1
    <3> HIDE DEF W, n, seq
    <3> QED BY <3>1
  <2>3. op(v, seq[j]) \in Caches /\ holds(S \cup {j}, op(v, seq[j]))
    <3>1. seq \in Seq(Rec) /\ Single(seq) /\ j \in 1..Len(seq) /\ S \in SUBSET (1..(j - 1))
      BY <1>1, WalksOK DEF WalkOf
    <3>2. v \in Caches /\ Walking(c, N, U, seq, S, v)
      BY <2>1
    <3> HIDE DEF seq, n
    <3>3. LET u == ReverseScanned(v, seq[j], addr, flags, now) IN
          u \in Caches /\ Walking(c, N, U, seq, S \cup {j}, u)
      BY ONLY <3>1, <3>2, ReverseSteps
    <3> QED BY <3>3 DEF seq
  <2> HIDE DEF step, n, seq
  <2> QED BY <2>1, <2>2, <2>3
<1>5. \A j \in 1..n : \A S \in SUBSET (1..(j - 1)) : \A v :
         <<S, v>> \in Good => <<S \cup {j}, step[<<j, v>>]>> \in Good
  <2> HIDE DEF Good, step, n
  <2> QED BY <1>4
<1>6. \A S, v : <<S, v>> \in Good => v \in W
  OBVIOUS
<1>7. \A j \in 1..n, v \in W : step[<<j, v>>] = op(v, seq[j])
  <2> HIDE DEF W, n, seq
  <2> QED OBVIOUS
<1>8. \A S \in SUBSET (1..n) : it[S] \in W
  <2> HIDE DEF it, n
  <2> QED OBVIOUS
<1>9. PICK some : Iterates(some, n, base, step)
  <2> HIDE DEF n, base, step
  <2> QED BY <1>1, IterateAny
<1>10. \A S \in SUBSET (1..n) : <<S, some[S]>> \in Good
  <2> HIDE DEF n, base, step, Good
  <2> QED BY <1>1, <1>3, <1>5, <1>9, IteratesKeep
<1> HIDE DEF Good, W, step
<1>11. ASSUME NEW S \in SUBSET (1..n), S # {}
       PROVE  Max(S) \in 1..n /\ S \ {Max(S)} \in SUBSET (1..n)
  BY <1>1, <1>11, MaxPlace
<1>12. some = [S \in SUBSET DOMAIN seq |->
                 IF S = {} THEN base ELSE op(some[S \ {Max(S)}], seq[Max(S)])]
  <2>1. ASSUME NEW S \in SUBSET (1..n), S # {}
        PROVE  step[<<Max(S), some[S \ {Max(S)}]>>] = op(some[S \ {Max(S)}], seq[Max(S)])
    <3> DEFINE j == Max(S)  v == some[S \ {Max(S)}]
    <3>1. j \in 1..n /\ v \in W
      BY <1>6, <1>10, <1>11, <2>1
    <3> HIDE DEF j, v
    <3>2. step[<<j, v>>] = op(v, seq[j])
      BY <1>7, <3>1
    <3> QED BY <3>2 DEF j, v
  <2>2. some = [S \in SUBSET (1..n) |->
                  IF S = {} THEN base ELSE step[<<Max(S), some[S \ {Max(S)}]>>]]
    BY <1>9 DEF Iterates
  <2> HIDE DEF n, base, seq
  <2> QED BY <1>1, <2>1, <2>2
<1>13. it = [S \in SUBSET DOMAIN seq |->
               IF S = {} THEN base ELSE op(it[S \ {Max(S)}], seq[Max(S)])]
  <2> HIDE DEF n, base, seq
  <2> QED BY <1>12
<1> HIDE DEF it
<1>14. Iterates(it, n, base, step)
  <2>1. ASSUME NEW S \in SUBSET (1..n), S # {}
        PROVE  step[<<Max(S), it[S \ {Max(S)}]>>] = op(it[S \ {Max(S)}], seq[Max(S)])
    <3> DEFINE j == Max(S)  v == it[S \ {Max(S)}]
    <3>1. j \in 1..n /\ v \in W
      BY <1>8, <1>11, <2>1
    <3> HIDE DEF j, v
    <3>2. step[<<j, v>>] = op(v, seq[j])
      BY <1>7, <3>1
    <3> QED BY <3>2 DEF j, v
  <2> HIDE DEF n, base, seq
  <2> QED BY <1>1, <1>13, <2>1 DEF Iterates
<1>15. <<1..n, it[1..n]>> \in Good
  <2> HIDE DEF n, base, seq
  <2> QED BY <1>1, <1>3, <1>5, <1>14, IteratesKeep
<1> QED
  BY <1>2, <1>15 DEF Good, total

(* cache_scan_free keeps the cache sound, and what is on new_chain. *)
LEMMA ScanForwardKeeps ==
    ASSUME NEW c, NEW N, NEW U, Sound(c, N, U), N \subseteq U, U \subseteq Rec,
           NEW name \in AnyName, NEW flags, NEW now
    PROVE  LET s == ScanForward(c, name, flags, now) IN
           s \in Scans /\ Keeps(c, s.cache, N, U)
<1> DEFINE b == BucketOf(c, name)  s == ScanForward(c, name, flags, now)
<1>1. c \in Caches /\ b \in 1..Len(c.chain)
  BY SoundParts, BucketOK
<1>2. WalkOf(c, c.chain[b])
  BY <1>1, ChainWalk
<1>3. s \in Scans /\ Walking(c, N, U, c.chain[b], 1..Len(c.chain[b]), s.cache)
  BY <1>2, ForwardFold
<1> QED
  BY <1>3 DEF Walking

LEMMA ScanReverseKeeps ==
    ASSUME NEW c, NEW N, NEW U, Sound(c, N, U), N \subseteq U, U \subseteq Rec,
           NEW addr, NEW flags, NEW now
    PROVE  Keeps(c, ScanReverse(c, addr, flags, now), N, U)
<1> DEFINE d == ScanReverse(c, addr, flags, now)
<1>1. Walking(c, N, U, MortalWalk(c), 1..Len(MortalWalk(c)), d)
  BY ReverseFold
<1> QED
  BY <1>1 DEF Walking

LEMMA ScanKeeps ==
    ASSUME NEW c, NEW N, NEW U, Sound(c, N, U), N \subseteq U, U \subseteq Rec,
           NEW name \in AnyName, NEW addr, NEW flags, NEW now
    PROVE  LET s == Scan(c, name, addr, flags, now) IN
           Keeps(c, s.cache, N, U) /\ s.ok \in BOOLEAN
<1>1. CASE "forward" \in flags
  BY <1>1, ScanForwardKeeps DEF Scan, Scans
<1>2. CASE "forward" \notin flags
  BY <1>2, ScanReverseKeeps DEF Scan
<1> QED
  BY <1>1, <1>2

-----------------------------------------------------------------------------
(* Searches *)

AddrHunts == [cache : Caches, locals : Seq(Rec)]
NameHunts == [cache : Caches, locals : Seq(Rec), first : Rec \cup {NoRec}]

(* A record is noted, and moves on no chain. *)
LEMMA NotedKeeps ==
    ASSUME NEW s, s \in AddrHunts \/ s \in NameHunts, NEW N, NEW U, Sound(s.cache, N, U),
           N \subseteq U, U \subseteq Rec, NEW r \in Hashed(s.cache)
    PROVE  LET t == Noted(s, r) IN
           /\ Keeps(s.cache, t.cache, N, U) /\ t.cache.crec = s.cache.crec
           /\ Hashed(t.cache) = Hashed(s.cache)
           /\ s \in AddrHunts => t \in AddrHunts
           /\ s \in NameHunts => t \in NameHunts /\ t.first = s.first
<1> DEFINE d == s.cache  p == Promoted(d, r)  t == Noted(s, r)
<1>1. r \in Rec /\ d \in Caches
  BY SoundParts, ChainParts
<1>2. CASE Local(d, r)
  <2>1. t = [s EXCEPT !.locals = Append(@, r)]
    BY <1>2 DEF Noted
  <2>2. Append(s.locals, r) \in Seq(Rec)
    BY <1>1 DEF AddrHunts, NameHunts
  <2>3. Keeps(d, d, N, U)
    BY KeepsSelf
  <2> HIDE DEF t
  <2>4. /\ s \in AddrHunts => t \in AddrHunts /\ t.cache = d
        /\ s \in NameHunts => t \in NameHunts /\ t.first = s.first /\ t.cache = d
    BY <2>1, <2>2 DEF AddrHunts, NameHunts
  <2> QED BY <2>3, <2>4 DEF t
<1>3. CASE ~Local(d, r)
  <2>1. t = [s EXCEPT !.cache = p]
    BY <1>3 DEF Noted
  <2>2. Keeps(d, p, N, U) /\ p.crec = d.crec /\ Hashed(p) = Hashed(d)
    BY <1>3, PromotedKeeps
  <2> HIDE DEF t, p
  <2>3. p \in Caches
    BY <2>2, SoundParts DEF Keeps
  <2>4. /\ s \in AddrHunts => t \in AddrHunts /\ t.cache = p
        /\ s \in NameHunts => t \in NameHunts /\ t.first = s.first /\ t.cache = p
    BY <2>1, <2>3 DEF AddrHunts, NameHunts
  <2> QED BY <2>2, <2>4 DEF t
<1> QED
  BY <1>2, <1>3

(* The first record found stays on its chain, behind what is still to come. *)
FirstFound(walk, T, name, d, first) ==
    first # NoRec => /\ first \in Hashed(d) /\ d.crec[first].name = name
                     /\ first \notin Left(walk, T)

Hunting(c, N, U, walk, T, name, s) ==
    /\ s \in NameHunts /\ Walking(c, N, U, walk, T, s.cache)
    /\ FirstFound(walk, T, name, s.cache, s.first)

LEMMA FirstStays ==
    ASSUME NEW walk, walk \in Seq(Rec), Single(walk), NEW j \in 1..Len(walk),
           NEW T \in SUBSET (1..(j - 1)), NEW name, NEW d, NEW first,
           FirstFound(walk, T, name, d, first), NEW e,
           Hashed(d) \ {walk[j]} \subseteq Hashed(e), Hashed(d) \subseteq Rec,
           Same(d, e, Rec \ {walk[j]})
    PROVE  /\ FirstFound(walk, T \cup {j}, name, e, first)
           /\ first # NoRec => first # walk[j]
<1>1. walk[j] \in Left(walk, T) /\ Left(walk, T \cup {j}) = Left(walk, T) \ {walk[j]}
  <2>1. walk \in Seq(Rec) /\ Single(walk) /\ j \in 1..Len(walk) /\ T \in SUBSET (1..(j - 1))
    OBVIOUS
  <2> QED BY ONLY <2>1, LeftLess, Zenon
<1> QED
  BY <1>1 DEF FirstFound, Same

(* The record that is found moves to before the first. *)
MovesTo(s, t, N, U, r) ==
    /\ t \in NameHunts /\ Keeps(s.cache, t.cache, N, U) /\ t.cache.crec = s.cache.crec
    /\ Hashed(t.cache) = Hashed(s.cache)
    /\ t.first = IF s.first = NoRec THEN r ELSE s.first

LEMMA MovedKeeps ==
    ASSUME NEW s \in NameHunts, NEW N, NEW U, Sound(s.cache, N, U), N \subseteq U, U \subseteq Rec,
           NEW r \in Hashed(s.cache), NEW b, BucketOf(s.cache, s.cache.crec[r].name) = b,
           s.first # r,
           s.first # NoRec => /\ s.first \in Hashed(s.cache)
                              /\ s.cache.crec[s.first].name = s.cache.crec[r].name
    PROVE  MovesTo(s, Moved(s, r, b), N, U, r)
<1> DEFINE d == s.cache  t == Moved(s, r, b)  m == MovedBefore(Unhashed(d, r), r, b, s.first)
<1>1. r \in Rec /\ d \in Caches /\ Keeps(d, d, N, U) /\ NoRec \notin Rec
  BY SoundParts, ChainParts, KeepsSelf, Constants
<1>2. CASE s.first = NoRec
  <2>1. t = [s EXCEPT !.first = r]
    BY <1>2 DEF Moved
  <2> HIDE DEF t
  <2>2. t \in NameHunts /\ t.cache = d /\ t.first = r
    BY <1>1, <2>1 DEF NameHunts
  <2> QED BY <1>1, <1>2, <2>2 DEF t, MovesTo
<1>3. CASE s.first # NoRec /\ Section(d, r) = Section(d, s.first)
  <2>1. t = [s EXCEPT !.cache = m]
    BY <1>3 DEF Moved
  <2>2. Keeps(d, m, N, U) /\ m.crec = d.crec /\ Hashed(m) = Hashed(d)
    BY <1>3, MovedBeforeKeeps
  <2> HIDE DEF t, m
  <2>3. m \in Caches
    BY <2>2, SoundParts DEF Keeps
  <2>4. t \in NameHunts /\ t.cache = m /\ t.first = s.first
    BY <2>1, <2>3 DEF NameHunts
  <2> QED BY <1>3, <2>2, <2>4 DEF t, MovesTo
<1>4. CASE s.first # NoRec /\ Section(d, r) # Section(d, s.first)
  <2>1. t = s
    BY <1>4 DEF Moved
  <2> QED BY <1>1, <1>4, <2>1 DEF MovesTo
<1> QED
  BY <1>2, <1>3, <1>4

LEMMA NameSteps ==
    ASSUME NEW c, NEW N, NEW U, NEW walk, walk \in Seq(Rec), Single(walk),
           NEW j \in 1..Len(walk), NEW T \in SUBSET (1..(j - 1)), NEW name, NEW s,
           Hunting(c, N, U, walk, T, name, s), NEW prot, NEW now
    PROVE  Hunting(c, N, U, walk, T \cup {j}, name, NameSeen(s, walk[j], name, prot, now))
<1> DEFINE r == walk[j]  u == NameSeen(s, r, name, prot, now)  d == s.cache
           e == Discarded(d, r)  b == BucketOf(d, name)
           t == Noted(s, r)  m == Moved(t, r, b)
<1>1. s \in NameHunts /\ Walking(c, N, U, walk, T, d) /\ FirstFound(walk, T, name, d, s.first)
  BY DEF Hunting
<1>2. /\ r \in Hashed(d) /\ Sound(d, N, U) /\ N \subseteq U /\ U \subseteq Rec
      /\ Len(d.chain) = Len(c.chain) /\ d \in Caches
  <2>1. Walking(c, N, U, walk, T, d)
    BY <1>1
  <2> HIDE DEF d
  <2> QED BY <2>1, WalkAt
<1>3. Hashed(d) \subseteq Rec /\ NoRec \notin Rec
  BY <1>2, ChainParts, Constants
<1>4. \/ u = [s EXCEPT !.cache = e]
      \/ u = m /\ NamedFor(d, r, name, prot)
      \/ u = s
  BY DEF NameSeen, Dead
<1>5. CASE u = [s EXCEPT !.cache = e]
  <2>1. Keeps(d, e, N, U) /\ Hashed(e) = Hashed(d) \ {r} /\ Same(d, e, Rec \ {r})
    BY <1>2, DiscardedKeeps
  <2>2. Walking(c, N, U, walk, T \cup {j}, e) /\ e \in Caches
    BY <1>1, WalkDiscards
  <2>3. FirstFound(walk, T \cup {j}, name, e, s.first)
    <3> DEFINE first == s.first
    <3>1. Hashed(d) \ {walk[j]} \subseteq Hashed(e) /\ Same(d, e, Rec \ {walk[j]})
      BY <2>1
    <3> HIDE DEF d, e, r
    <3> QED BY <1>1, <1>3, <3>1, FirstStays
  <2> HIDE DEF e, u
  <2>4. u \in NameHunts /\ u.cache = e /\ u.first = s.first
    BY <1>1, <1>5, <2>2 DEF NameHunts
  <2>5. Hunting(c, N, U, walk, T \cup {j}, name, u)
    BY <2>2, <2>3, <2>4 DEF Hunting
  <2> QED BY <2>5 DEF u
<1>6. CASE u = s
  <2>1. Walking(c, N, U, walk, T \cup {j}, d)
    BY <1>1, WalkPasses
  <2>2. FirstFound(walk, T \cup {j}, name, d, s.first)
    <3>1. Same(d, d, Rec \ {walk[j]}) /\ Hashed(d) \ {walk[j]} \subseteq Hashed(d)
      BY DEF Same
    <3> HIDE DEF d, r
    <3> QED BY <1>1, <1>3, <3>1, FirstStays
  <2> HIDE DEF u
  <2>3. Hunting(c, N, U, walk, T \cup {j}, name, u)
    BY <1>1, <1>6, <2>1, <2>2 DEF Hunting
  <2> QED BY <2>3 DEF u
<1>7. CASE u = m /\ NamedFor(d, r, name, prot)
  <2>1. d.crec[r].name = name
    BY <1>7 DEF NamedFor
  <2>2. /\ Keeps(d, t.cache, N, U) /\ t.cache.crec = d.crec /\ Hashed(t.cache) = Hashed(d)
        /\ t \in NameHunts /\ t.first = s.first
    BY <1>1, <1>2, NotedKeeps
  <2>3. s.first # NoRec => /\ s.first \in Hashed(d) /\ d.crec[s.first].name = name
                           /\ s.first # r
    <3>1. Same(d, d, Rec \ {walk[j]}) /\ Hashed(d) \ {walk[j]} \subseteq Hashed(d)
      BY DEF Same
    <3>2. s.first # NoRec => s.first # walk[j]
      <4> HIDE DEF d, r
      <4> QED BY <1>1, <1>3, <3>1, FirstStays
    <3> QED BY <1>1, <3>2 DEF FirstFound
  <2> HIDE DEF t, m, u
  <2>4. Sound(t.cache, N, U) /\ BucketOf(t.cache, t.cache.crec[r].name) = b
    BY <2>1, <2>2 DEF Keeps, BucketOf
  <2>5. r # NoRec
    BY <1>2, <1>3
  <2> HIDE DEF r, b
  <2>6. /\ m \in NameHunts /\ Keeps(t.cache, m.cache, N, U) /\ m.cache.crec = t.cache.crec
        /\ Hashed(m.cache) = Hashed(t.cache)
        /\ m.first = IF t.first = NoRec THEN r ELSE t.first
    <3>1. /\ r \in Hashed(t.cache) /\ t.first # r
          /\ t.first # NoRec => /\ t.first \in Hashed(t.cache)
                                /\ t.cache.crec[t.first].name = t.cache.crec[r].name
      BY <1>2, <2>1, <2>2, <2>3, <2>5
    <3>2. /\ t \in NameHunts /\ Sound(t.cache, N, U) /\ N \subseteq U /\ U \subseteq Rec
          /\ BucketOf(t.cache, t.cache.crec[r].name) = b
      BY <1>2, <2>2, <2>4
    <3>3. MovesTo(t, Moved(t, r, b), N, U, r)
      BY ONLY <3>1, <3>2, MovedKeeps
    <3> QED BY <3>3 DEF m, MovesTo
  <2>7. Keeps(d, m.cache, N, U)
    BY <2>2, <2>6, KeepsTwice
  <2>8. Walking(c, N, U, walk, T \cup {j}, m.cache)
    <3>1. Hashed(d) \ {walk[j]} \subseteq Hashed(m.cache)
      BY <2>2, <2>6
    <3> HIDE DEF d
    <3> QED BY <1>1, <2>7, <3>1, WalkGoesOn
  <2>9. FirstFound(walk, T \cup {j}, name, m.cache, m.first)
    <3>1. m.cache.crec = d.crec /\ Hashed(m.cache) = Hashed(d)
      BY <2>2, <2>6
    <3>2. CASE s.first = NoRec
      <4>1. m.first = r /\ r \notin Left(walk, T \cup {j})
        <5>1. Left(walk, T \cup {j}) = Left(walk, T) \ {walk[j]}
          <6>1. walk \in Seq(Rec) /\ Single(walk) /\ j \in 1..Len(walk) /\ T \in SUBSET (1..(j - 1))
            OBVIOUS
          <6> QED BY ONLY <6>1, LeftLess, Zenon
        <5> QED BY <2>2, <2>6, <3>2, <5>1 DEF r
      <4> QED BY <1>2, <2>1, <3>1, <4>1 DEF FirstFound
    <3>3. CASE s.first # NoRec
      <4>1. m.first = s.first
        BY <2>2, <2>6, <3>3
      <4>2. Same(d, m.cache, Rec \ {walk[j]}) /\ Hashed(d) \ {walk[j]} \subseteq Hashed(m.cache)
        BY <3>1 DEF Same, FlagsOf
      <4> HIDE DEF d
      <4> QED BY <1>1, <1>3, <4>1, <4>2, FirstStays
    <3> QED BY <3>2, <3>3
  <2>10. Hunting(c, N, U, walk, T \cup {j}, name, m)
    BY <2>6, <2>8, <2>9 DEF Hunting
  <2> QED BY <1>7, <2>10 DEF u, r
<1> QED
  BY <1>4, <1>5, <1>6, <1>7

LEMMA AddrSteps ==
    ASSUME NEW c, NEW N, NEW U, NEW walk, walk \in Seq(Rec), Single(walk),
           NEW j \in 1..Len(walk), NEW T \in SUBSET (1..(j - 1)), NEW s \in AddrHunts,
           Walking(c, N, U, walk, T, s.cache), NEW addr, NEW prot, NEW now
    PROVE  LET u == AddrSeen(s, walk[j], addr, prot, now) IN
           u \in AddrHunts /\ Walking(c, N, U, walk, T \cup {j}, u.cache)
<1> DEFINE r == walk[j]  u == AddrSeen(s, r, addr, prot, now)  d == s.cache
           e == Discarded(d, r)  t == Noted(s, r)
<1>2. r \in Hashed(d) /\ Sound(d, N, U) /\ N \subseteq U /\ U \subseteq Rec
  BY WalkAt
<1>3. Walking(c, N, U, walk, T \cup {j}, d)
  BY WalkPasses
<1>4. Walking(c, N, U, walk, T \cup {j}, e) /\ e \in Caches
  BY WalkDiscards
<1>5. Walking(c, N, U, walk, T \cup {j}, t.cache) /\ t \in AddrHunts
  <2>1. /\ Keeps(d, t.cache, N, U) /\ Hashed(t.cache) = Hashed(d) /\ t \in AddrHunts
    BY <1>2, NotedKeeps
  <2> HIDE DEF t
  <2>2. Hashed(d) \ {walk[j]} \subseteq Hashed(t.cache) /\ Walking(c, N, U, walk, T, d)
    BY <2>1
  <2> HIDE DEF d
  <2> QED BY <2>1, <2>2, WalkGoesOn
<1>6. u = [s EXCEPT !.cache = e] \/ u = t \/ u = s
  BY DEF AddrSeen
<1> HIDE DEF u, e, t, r
<1>7. u \in AddrHunts /\ u.cache \in {e, t.cache, d}
  BY <1>4, <1>5, <1>6 DEF AddrHunts
<1>8. Walking(c, N, U, walk, T \cup {j}, u.cache)
  BY <1>3, <1>4, <1>5, <1>7
<1> QED
  BY <1>7, <1>8 DEF u, r

(* The two searches up to the iteration that follows them. *)
NameHunt(c, name, prot, now) ==
    FoldLeft(LAMBDA s, r : NameSeen(s, r, name, prot, now),
             [cache |-> c, locals |-> <<>>, first |-> NoRec], c.chain[BucketOf(c, name)])
AddrHunt(c, addr, prot, now) ==
    FoldLeft(LAMBDA s, r : AddrSeen(s, r, addr, prot, now),
             [cache |-> c, locals |-> <<>>], ReverseWalk(c))

LEMMA NameFold ==
    ASSUME NEW c, NEW N, NEW U, Sound(c, N, U), N \subseteq U, U \subseteq Rec,
           NEW name, NEW prot, NEW now, WalkOf(c, c.chain[BucketOf(c, name)])
    PROVE  LET result == NameHunt(c, name, prot, now) IN
           /\ result \in NameHunts
           /\ Hunting(c, N, U, c.chain[BucketOf(c, name)],
                      1..Len(c.chain[BucketOf(c, name)]), name, result)
<1> DEFINE seq == c.chain[BucketOf(c, name)]
           n == Len(seq)
           op(v, e) == NameSeen(v, e, name, prot, now)
           holds(T, v) == Hunting(c, N, U, c.chain[BucketOf(c, name)], T, name, v)
           base == [cache |-> c, locals |-> <<>>, first |-> NoRec]
           it == CHOOSE iter : iter = [S \in SUBSET DOMAIN seq |->
                    IF S = {} THEN base ELSE op(iter[S \ {Max(S)}], seq[Max(S)])]
           Good == {g \in (SUBSET (1..n)) \X NameHunts : holds(g[1], g[2])}
           W == NameHunts \cup {it[S] : S \in SUBSET (1..n)}
           step == [x \in (1..n) \X W |-> op(x[2], seq[x[1]])]
           total == NameHunt(c, name, prot, now)
<1>1. n \in Nat /\ DOMAIN seq = 1..n /\ seq \in Seq(Rec)
  <2> QED BY DEF WalkOf
<1>2. total = it[1..n]
  <2>1. total = it[DOMAIN seq]
    BY DEF NameHunt, FoldLeft, MapThenFoldSet
  <2> HIDE DEF total, it
  <2> QED BY <1>1, <2>1
<1> HIDE DEF total
<1>3. <<{}, base>> \in Good
  <2>1. Walking(c, N, U, seq, {}, c)
    BY WalkStarts
  <2>2. base \in NameHunts /\ base.cache = c /\ base.first = NoRec
    <3>1. c \in Caches
      BY SoundParts
    <3> QED BY <3>1 DEF NameHunts
  <2> HIDE DEF base, seq
  <2>3. Hunting(c, N, U, seq, {}, name, base)
    BY <2>1, <2>2 DEF Hunting, FirstFound
  <2> QED BY <2>2, <2>3 DEF seq
<1>4. ASSUME NEW j \in 1..n, NEW S \in SUBSET (1..(j - 1)), NEW v, <<S, v>> \in Good
      PROVE  <<S \cup {j}, step[<<j, v>>]>> \in Good
  <2>1. v \in NameHunts /\ holds(S, v) /\ S \cup {j} \in SUBSET (1..n)
    BY <1>1, <1>4
  <2>2. step[<<j, v>>] = op(v, seq[j])
    <3>1. <<j, v>> \in (1..n) \X W
      BY <2>1
    <3> HIDE DEF W, n, seq
    <3> QED BY <3>1
  <2>3. op(v, seq[j]) \in NameHunts /\ holds(S \cup {j}, op(v, seq[j]))
    <3>1. seq \in Seq(Rec) /\ Single(seq) /\ j \in 1..Len(seq) /\ S \in SUBSET (1..(j - 1))
      BY <1>1 DEF WalkOf
    <3>2. Hunting(c, N, U, seq, S, name, v)
      BY <2>1
    <3> HIDE DEF seq, n
    <3>3. Hunting(c, N, U, seq, S \cup {j}, name, NameSeen(v, seq[j], name, prot, now))
      BY ONLY <3>1, <3>2, NameSteps
    <3>4. NameSeen(v, seq[j], name, prot, now) \in NameHunts
      BY <3>3 DEF Hunting
    <3> QED BY <3>3, <3>4 DEF seq
  <2> HIDE DEF step, n, seq
  <2> QED BY <2>1, <2>2, <2>3
<1>5. \A j \in 1..n : \A S \in SUBSET (1..(j - 1)) : \A v :
         <<S, v>> \in Good => <<S \cup {j}, step[<<j, v>>]>> \in Good
  <2> HIDE DEF Good, step, n
  <2> QED BY <1>4
<1>6. \A S, v : <<S, v>> \in Good => v \in W
  OBVIOUS
<1>7. \A j \in 1..n, v \in W : step[<<j, v>>] = op(v, seq[j])
  <2> HIDE DEF W, n, seq
  <2> QED OBVIOUS
<1>8. \A S \in SUBSET (1..n) : it[S] \in W
  <2> HIDE DEF it, n
  <2> QED OBVIOUS
<1>9. PICK some : Iterates(some, n, base, step)
  <2> HIDE DEF n, base, step
  <2> QED BY <1>1, IterateAny
<1>10. \A S \in SUBSET (1..n) : <<S, some[S]>> \in Good
  <2> HIDE DEF n, base, step, Good
  <2> QED BY <1>1, <1>3, <1>5, <1>9, IteratesKeep
<1> HIDE DEF Good, W, step
<1>11. ASSUME NEW S \in SUBSET (1..n), S # {}
       PROVE  Max(S) \in 1..n /\ S \ {Max(S)} \in SUBSET (1..n)
  BY <1>1, <1>11, MaxPlace
<1>12. some = [S \in SUBSET DOMAIN seq |->
                 IF S = {} THEN base ELSE op(some[S \ {Max(S)}], seq[Max(S)])]
  <2>1. ASSUME NEW S \in SUBSET (1..n), S # {}
        PROVE  step[<<Max(S), some[S \ {Max(S)}]>>] = op(some[S \ {Max(S)}], seq[Max(S)])
    <3> DEFINE j == Max(S)  v == some[S \ {Max(S)}]
    <3>1. j \in 1..n /\ v \in W
      BY <1>6, <1>10, <1>11, <2>1
    <3> HIDE DEF j, v
    <3>2. step[<<j, v>>] = op(v, seq[j])
      BY <1>7, <3>1
    <3> QED BY <3>2 DEF j, v
  <2>2. some = [S \in SUBSET (1..n) |->
                  IF S = {} THEN base ELSE step[<<Max(S), some[S \ {Max(S)}]>>]]
    BY <1>9 DEF Iterates
  <2> HIDE DEF n, base, seq
  <2> QED BY <1>1, <2>1, <2>2
<1>13. it = [S \in SUBSET DOMAIN seq |->
               IF S = {} THEN base ELSE op(it[S \ {Max(S)}], seq[Max(S)])]
  <2> HIDE DEF n, base, seq
  <2> QED BY <1>12
<1> HIDE DEF it
<1>14. Iterates(it, n, base, step)
  <2>1. ASSUME NEW S \in SUBSET (1..n), S # {}
        PROVE  step[<<Max(S), it[S \ {Max(S)}]>>] = op(it[S \ {Max(S)}], seq[Max(S)])
    <3> DEFINE j == Max(S)  v == it[S \ {Max(S)}]
    <3>1. j \in 1..n /\ v \in W
      BY <1>8, <1>11, <2>1
    <3> HIDE DEF j, v
    <3>2. step[<<j, v>>] = op(v, seq[j])
      BY <1>7, <3>1
    <3> QED BY <3>2 DEF j, v
  <2> HIDE DEF n, base, seq
  <2> QED BY <1>1, <1>13, <2>1 DEF Iterates
<1>15. <<1..n, it[1..n]>> \in Good
  <2> HIDE DEF n, base, seq
  <2> QED BY <1>1, <1>3, <1>5, <1>14, IteratesKeep
<1> QED
  BY <1>2, <1>15 DEF Good, total

LEMMA AddrFold ==
    ASSUME NEW c, NEW N, NEW U, Sound(c, N, U), N \subseteq U, U \subseteq Rec,
           NEW addr, NEW prot, NEW now
    PROVE  LET result == AddrHunt(c, addr, prot, now) IN
           /\ result \in AddrHunts
           /\ Walking(c, N, U, ReverseWalk(c), 1..Len(ReverseWalk(c)), result.cache)
<1> DEFINE seq == ReverseWalk(c)
           n == Len(seq)
           op(v, e) == AddrSeen(v, e, addr, prot, now)
           holds(T, v) == Walking(c, N, U, ReverseWalk(c), T, v.cache)
           base == [cache |-> c, locals |-> <<>>]
           it == CHOOSE iter : iter = [S \in SUBSET DOMAIN seq |->
                    IF S = {} THEN base ELSE op(iter[S \ {Max(S)}], seq[Max(S)])]
           Good == {g \in (SUBSET (1..n)) \X AddrHunts : holds(g[1], g[2])}
           W == AddrHunts \cup {it[S] : S \in SUBSET (1..n)}
           step == [x \in (1..n) \X W |-> op(x[2], seq[x[1]])]
           total == AddrHunt(c, addr, prot, now)
<1>1. n \in Nat /\ DOMAIN seq = 1..n /\ seq \in Seq(Rec)
  <2> QED BY WalksOK DEF WalkOf
<1>2. total = it[1..n]
  <2>1. total = it[DOMAIN seq]
    BY DEF AddrHunt, FoldLeft, MapThenFoldSet
  <2> HIDE DEF total, it
  <2> QED BY <1>1, <2>1
<1> HIDE DEF total
<1>3. <<{}, base>> \in Good
  <2>1. Walking(c, N, U, seq, {}, c)
    BY WalksOK, WalkStarts
  <2>2. base \in AddrHunts /\ base.cache = c
    <3>1. c \in Caches
      BY SoundParts
    <3> QED BY <3>1 DEF AddrHunts
  <2> QED BY <2>1, <2>2
<1>4. ASSUME NEW j \in 1..n, NEW S \in SUBSET (1..(j - 1)), NEW v, <<S, v>> \in Good
      PROVE  <<S \cup {j}, step[<<j, v>>]>> \in Good
  <2>1. v \in AddrHunts /\ holds(S, v) /\ S \cup {j} \in SUBSET (1..n)
    BY <1>1, <1>4
  <2>2. step[<<j, v>>] = op(v, seq[j])
    <3>1. <<j, v>> \in (1..n) \X W
      BY <2>1
    <3> HIDE DEF W, n, seq
    <3> QED BY <3>1
  <2>3. op(v, seq[j]) \in AddrHunts /\ holds(S \cup {j}, op(v, seq[j]))
    <3>1. seq \in Seq(Rec) /\ Single(seq) /\ j \in 1..Len(seq) /\ S \in SUBSET (1..(j - 1))
      BY <1>1, WalksOK DEF WalkOf
    <3>2. v \in AddrHunts /\ Walking(c, N, U, seq, S, v.cache)
      BY <2>1
    <3> HIDE DEF seq, n
    <3>3. LET u == AddrSeen(v, seq[j], addr, prot, now) IN
          u \in AddrHunts /\ Walking(c, N, U, seq, S \cup {j}, u.cache)
      BY ONLY <3>1, <3>2, AddrSteps
    <3> QED BY <3>3 DEF seq
  <2> HIDE DEF step, n, seq
  <2> QED BY <2>1, <2>2, <2>3
<1>5. \A j \in 1..n : \A S \in SUBSET (1..(j - 1)) : \A v :
         <<S, v>> \in Good => <<S \cup {j}, step[<<j, v>>]>> \in Good
  <2> HIDE DEF Good, step, n
  <2> QED BY <1>4
<1>6. \A S, v : <<S, v>> \in Good => v \in W
  OBVIOUS
<1>7. \A j \in 1..n, v \in W : step[<<j, v>>] = op(v, seq[j])
  <2> HIDE DEF W, n, seq
  <2> QED OBVIOUS
<1>8. \A S \in SUBSET (1..n) : it[S] \in W
  <2> HIDE DEF it, n
  <2> QED OBVIOUS
<1>9. PICK some : Iterates(some, n, base, step)
  <2> HIDE DEF n, base, step
  <2> QED BY <1>1, IterateAny
<1>10. \A S \in SUBSET (1..n) : <<S, some[S]>> \in Good
  <2> HIDE DEF n, base, step, Good
  <2> QED BY <1>1, <1>3, <1>5, <1>9, IteratesKeep
<1> HIDE DEF Good, W, step
<1>11. ASSUME NEW S \in SUBSET (1..n), S # {}
       PROVE  Max(S) \in 1..n /\ S \ {Max(S)} \in SUBSET (1..n)
  BY <1>1, <1>11, MaxPlace
<1>12. some = [S \in SUBSET DOMAIN seq |->
                 IF S = {} THEN base ELSE op(some[S \ {Max(S)}], seq[Max(S)])]
  <2>1. ASSUME NEW S \in SUBSET (1..n), S # {}
        PROVE  step[<<Max(S), some[S \ {Max(S)}]>>] = op(some[S \ {Max(S)}], seq[Max(S)])
    <3> DEFINE j == Max(S)  v == some[S \ {Max(S)}]
    <3>1. j \in 1..n /\ v \in W
      BY <1>6, <1>10, <1>11, <2>1
    <3> HIDE DEF j, v
    <3>2. step[<<j, v>>] = op(v, seq[j])
      BY <1>7, <3>1
    <3> QED BY <3>2 DEF j, v
  <2>2. some = [S \in SUBSET (1..n) |->
                  IF S = {} THEN base ELSE step[<<Max(S), some[S \ {Max(S)}]>>]]
    BY <1>9 DEF Iterates
  <2> HIDE DEF n, base, seq
  <2> QED BY <1>1, <2>1, <2>2
<1>13. it = [S \in SUBSET DOMAIN seq |->
               IF S = {} THEN base ELSE op(it[S \ {Max(S)}], seq[Max(S)])]
  <2> HIDE DEF n, base, seq
  <2> QED BY <1>12
<1> HIDE DEF it
<1>14. Iterates(it, n, base, step)
  <2>1. ASSUME NEW S \in SUBSET (1..n), S # {}
        PROVE  step[<<Max(S), it[S \ {Max(S)}]>>] = op(it[S \ {Max(S)}], seq[Max(S)])
    <3> DEFINE j == Max(S)  v == it[S \ {Max(S)}]
    <3>1. j \in 1..n /\ v \in W
      BY <1>8, <1>11, <2>1
    <3> HIDE DEF j, v
    <3>2. step[<<j, v>>] = op(v, seq[j])
      BY <1>7, <3>1
    <3> QED BY <3>2 DEF j, v
  <2> HIDE DEF n, base, seq
  <2> QED BY <1>1, <1>13, <2>1 DEF Iterates
<1>15. <<1..n, it[1..n]>> \in Good
  <2> HIDE DEF n, base, seq
  <2> QED BY <1>1, <1>3, <1>5, <1>14, IteratesKeep
<1> QED
  BY <1>2, <1>15 DEF Good, total

LEMMA BeforeIn ==
    ASSUME NEW X, NEW s, s \in Seq(X), NEW i \in 0..Len(s)
    PROVE  Before(s, i) \in Seq(X)
<1>1. CASE i = 0
  BY <1>1 DEF Before
<1>2. CASE i # 0
  <2>1. SubSeq(s, 1, i - 1) \in Seq(X)
    BY <1>2
  <2> QED BY <1>2, <2>1 DEF Before
<1> QED
  BY <1>1, <1>2

LEMMA FoundOK ==
    ASSUME NEW s, s \in AddrHunts \/ s \in NameHunts, NEW matching
    PROVE  Found(s, matching).cache = s.cache /\ Found(s, matching).found \in Seq(Rec)
<1> DEFINE list == s.locals \o s.cache.lru
           S == {i \in 1..Len(list) : list[i] \notin matching}
           k == IF S # {} THEN Min(S) ELSE 0
<1>1. Found(s, matching) = [cache |-> s.cache, found |-> Before(list, k)]
  BY DEF Found, Until, SelectInSeq
<1>2. list \in Seq(Rec)
  <2>1. s.locals \in Seq(Rec) /\ s.cache.lru \in Seq(CacheRec)
    BY DEF AddrHunts, NameHunts, Caches
  <2>2. s.cache.lru \in Seq(Rec)
    <3> DEFINE l == s.cache.lru
    <3>1. l \in Seq(CacheRec) /\ CacheRec \subseteq Rec
      BY <2>1, Constants
    <3> HIDE DEF l
    <3>2. l \in Seq(Rec)
      BY <3>1
    <3> QED BY <3>2 DEF l
  <2> QED BY <2>1, <2>2
<1> HIDE DEF list
<1>3. k \in 0..Len(list)
  <2>1. Len(list) \in Nat
    BY <1>2
  <2>2. S \in SUBSET (1..Len(list)) /\ S \in SUBSET Nat
    BY <2>1
  <2> HIDE DEF S
  <2>3. S # {} => Min(S) \in S
    BY <2>2, MinInSet
  <2>4. 1..Len(list) \subseteq 0..Len(list)
    BY <2>1
  <2>5. S # {} => Min(S) \in 0..Len(list)
    BY ONLY <2>2, <2>3, <2>4, Zenon
  <2>6. 0 \in 0..Len(list)
    BY <2>1
  <2> QED BY <2>5, <2>6
<1> HIDE DEF k
<1>4. Before(list, k) \in Seq(Rec)
  BY <1>2, <1>3, BeforeIn
<1> QED
  BY <1>1, <1>4

Finds == [cache : Caches, found : Seq(Rec)]

LEMMA FindByNameKeeps ==
    ASSUME NEW c, NEW N, NEW U, Sound(c, N, U), N \subseteq U, U \subseteq Rec,
           NEW name \in AnyName, NEW prot, NEW now
    PROVE  LET f == FindByName(c, name, prot, now) IN
           Keeps(c, f.cache, N, U) /\ f.found \in Seq(Rec)
<1> DEFINE s == NameHunt(c, name, prot, now)
           matching == {r \in Rec : NamedFor(s.cache, r, name, prot)}
<1>1. FindByName(c, name, prot, now) = Found(s, matching)
  BY DEF FindByName, NameHunt, NameFound
<1>2. WalkOf(c, c.chain[BucketOf(c, name)])
  <2>1. BucketOf(c, name) \in 1..Len(c.chain)
    BY SoundParts, BucketOK
  <2> QED BY <2>1, ChainWalk
<1>3. /\ s \in NameHunts
      /\ Hunting(c, N, U, c.chain[BucketOf(c, name)], 1..Len(c.chain[BucketOf(c, name)]), name, s)
  BY <1>2, NameFold
<1>4. Keeps(c, s.cache, N, U)
  BY <1>3 DEF Hunting, Walking
<1> HIDE DEF s, matching
<1> QED
  BY <1>1, <1>3, <1>4, FoundOK

LEMMA FindByAddrKeeps ==
    ASSUME NEW c, NEW N, NEW U, Sound(c, N, U), N \subseteq U, U \subseteq Rec,
           NEW addr, NEW prot, NEW now
    PROVE  LET f == FindByAddr(c, addr, prot, now) IN
           Keeps(c, f.cache, N, U) /\ f.found \in Seq(Rec)
<1> DEFINE s == AddrHunt(c, addr, prot, now)
           matching == {r \in Rec : AddressedFor(s.cache, r, addr, prot)}
<1>1. FindByAddr(c, addr, prot, now) = Found(s, matching)
  BY DEF FindByAddr, AddrHunt, AddrFound
<1>2. /\ s \in AddrHunts
      /\ Walking(c, N, U, ReverseWalk(c), 1..Len(ReverseWalk(c)), s.cache)
  BY AddrFold
<1>3. Keeps(c, s.cache, N, U)
  BY <1>2 DEF Walking
<1> HIDE DEF s, matching
<1> QED
  BY <1>1, <1>2, <1>3, FoundOK

-----------------------------------------------------------------------------
(* Insertion *)

LEMMA HeldParts ==
    ASSUME NEW c, Held(c), NEW F, F = Range(c.fresh)
    PROVE  /\ Sound(c, F, F) /\ Single(c.fresh) /\ F \subseteq CacheRec /\ F \subseteq Rec
           /\ c \in Caches /\ c.fresh \in Seq(CacheRec) /\ \A r \in F : Live(c, r)
<1>1. Sound(c, F, F) /\ Single(c.fresh) /\ \A r \in F : Live(c, r)
  BY DEF Held
<1>2. c \in Caches /\ c.fresh \in Seq(CacheRec)
  BY <1>1, SoundParts
<1>3. F \subseteq CacheRec
  BY <1>2 DEF Range
<1> QED
  BY <1>1, <1>2, <1>3, Constants

LEMMA WholeParts ==
    ASSUME NEW c, Whole(c), NEW F, F = Range(c.fresh)
    PROVE  /\ Sound(c, F, F) /\ Single(c.fresh) /\ F \subseteq CacheRec /\ F \subseteq Rec
           /\ c \in Caches /\ c.fresh \in Seq(CacheRec) /\ \A r \in F : Live(c, r)
BY HeldParts DEF Whole

LEMMA HeldKept ==
    ASSUME NEW c, Held(c), NEW d, NEW F, F = Range(c.fresh),
           Sound(d, F, F), d.fresh = c.fresh, Same(c, d, F)
    PROVE  Held(d)
<1>1. Single(c.fresh) /\ \A r \in F : Live(c, r)
  BY HeldParts
<1>2. \A r \in F : Live(d, r)
  BY <1>1, SameIs DEF Same
<1> QED
  BY <1>1, <1>2 DEF Held

LEMMA WholeKept ==
    ASSUME NEW c, Whole(c), NEW d, NEW F, F = Range(c.fresh), Keeps(c, d, F, F)
    PROVE  Whole(d)
<1>1. Held(d)
  BY HeldKept DEF Keeps, Whole
<1> QED
  BY <1>1 DEF Keeps, Aims, Whole

(* With nothing on new_chain. *)
LEMMA WholeEmpty ==
    ASSUME NEW c, Sound(c, {}, {}), c.fresh = <<>>, Aimed(c)
    PROVE  Whole(c)
<1>1. Range(c.fresh) = {} /\ Single(c.fresh)
  BY DEF Range, Single
<1> QED
  BY <1>1 DEF Whole, Held

LEMMA StartInsertWhole ==
    ASSUME NEW c, Whole(c)
    PROVE  Whole(StartInsert(c))
<1> DEFINE d == StartInsert(c)  s == c.fresh
<1>1. Freeing(s, 1..Len(s), d)
  BY StartInsertFold
<1>2. s \in Seq(CacheRec)
  BY WholeParts
<1> HIDE DEF s, d
<1>3. Left(s, 1..Len(s)) = {}
  BY <1>2, LeftIs
<1>4. Sound(d, {}, {}) /\ d.fresh = <<>> /\ Aimed(d)
  BY <1>1, <1>3 DEF Freeing
<1> QED
  BY <1>4, WholeEmpty DEF d

(* cache_end_insert: a record of new_chain is freed, or becomes visible. *)
Ending(fresh, T, d) ==
    /\ d \in Caches /\ d.fresh = <<>> /\ Sound(d, Left(fresh, T), Left(fresh, T))
    /\ (\A r \in Left(fresh, T) : Live(d, r)) /\ Aimed(d)

Ended(d, r) == IF Outdated(d, r) THEN Freed(d, r) ELSE Linked(CacheHash(d, r), r)

LEMMA EndedSteps ==
    ASSUME NEW fresh, fresh \in Seq(CacheRec), Single(fresh), NEW j \in 1..Len(fresh),
           NEW T \in SUBSET (1..(j - 1)), NEW d, Ending(fresh, T, d)
    PROVE  Ending(fresh, T \cup {j}, Ended(d, fresh[j]))
<1> DEFINE r == fresh[j]  N == Left(fresh, T)  M == N \ {r}  e == Freed(d, r)
           h == CacheHash(d, r)  l == Linked(h, r)
<1>1. r \in CacheRec /\ r \in N /\ Left(fresh, T \cup {j}) = M
  <2>1. fresh \in Seq(CacheRec) /\ Single(fresh) /\ j \in 1..Len(fresh)
        /\ T \in SUBSET (1..(j - 1))
    OBVIOUS
  <2>2. fresh[j] \in Left(fresh, T) /\ Left(fresh, T \cup {j}) = Left(fresh, T) \ {fresh[j]}
    BY ONLY <2>1, LeftLess, Zenon
  <2>3. fresh[j] \in CacheRec
    OBVIOUS
  <2> QED BY <2>2, <2>3
<1>2. Sound(d, N, N) /\ d.fresh = <<>> /\ d \in Caches /\ Aimed(d) /\ \A x \in N : Live(d, x)
  BY DEF Ending
<1>3. r \in Rec /\ N \subseteq Rec
  <2>1. N \subseteq CacheRec
    BY DEF Left
  <2> QED BY <1>1, <2>1, Constants
<1> HIDE DEF r, N
<1>4. CASE Outdated(d, r)
  <2>1. Sound(e, M, M) /\ e.fresh = <<>> /\ Same(d, e, Rec \ {r})
    BY <1>1, <1>2, FreedSound
  <2>2. e \in Caches
    BY <2>1, SoundParts
  <2>3. \A x \in M : Live(e, x)
    BY <1>2, <1>3, <2>1, SameIs DEF Same
  <2>4. Ended(d, r) = e
    BY <1>4 DEF Ended
  <2>5. Aimed(e)
    <3>1. Aims(d, e, {})
      BY <1>1, <1>2, FreedAims
    <3> QED BY <1>2, <3>1 DEF Aims
  <2> HIDE DEF e
  <2> QED BY <1>1, <2>1, <2>2, <2>3, <2>4, <2>5 DEF Ending, r
<1>5. CASE ~Outdated(d, r)
  <2>1. r \notin Hashed(d) /\ Live(d, r)
    BY <1>1, <1>2, SoundParts DEF Chained
  <2>2. Hashes(d, h, N, N, r)
    BY <1>2, <1>3, <2>1, CacheHashSound
  <2>3. Sound(h, N, M) /\ h.fresh = <<>> /\ Same(d, h, Rec) /\ h.crec = d.crec
    BY <1>2, <2>2 DEF Hashes
  <2>4. Live(h, r) /\ \A x \in M : Live(h, x)
    BY <1>2, <1>3, <2>1, <2>3, SameIs DEF Same
  <2> HIDE DEF h, M
  <2>5. Sound(l, N \ {r}, M) /\ l.fresh = h.fresh /\ Same(h, l, Rec) /\ l.crec = h.crec
    BY <1>1, <2>3, <2>4, LinkedSound
  <2>6. Sound(l, M, M)
    BY <2>5 DEF M
  <2>7. l \in Caches
    BY <2>6, SoundParts
  <2>8. \A x \in M : Live(l, x)
    BY <1>3, <2>4, <2>5, SameIs DEF Same, M
  <2>9. Ended(d, r) = l
    BY <1>5 DEF Ended, h
  <2> HIDE DEF l
  <2>10. Aimed(l)
    <3>1. Aims(d, l, {})
      BY <1>2, <2>3, <2>5, SameAims
    <3> QED BY <1>2, <3>1 DEF Aims
  <2> QED BY <1>1, <2>3, <2>5, <2>6, <2>7, <2>8, <2>9, <2>10 DEF Ending, r
<1> QED
  BY <1>4, <1>5

LEMMA EndInsertFold ==
    ASSUME NEW c, Whole(c)
    PROVE  LET result == EndInsert(c) IN
           /\ result \in Caches
           /\ Ending(c.fresh, 1..Len(c.fresh), result)
<1> DEFINE seq == c.fresh
           n == Len(seq)
           op(v, e) == Ended(v, e)
           holds(T, v) == Ending(c.fresh, T, v)
           base == [c EXCEPT !.fresh = <<>>]
           it == CHOOSE iter : iter = [S \in SUBSET DOMAIN seq |->
                    IF S = {} THEN base ELSE op(iter[S \ {Max(S)}], seq[Max(S)])]
           Good == {g \in (SUBSET (1..n)) \X Caches : holds(g[1], g[2])}
           W == Caches \cup {it[S] : S \in SUBSET (1..n)}
           step == [x \in (1..n) \X W |-> op(x[2], seq[x[1]])]
           total == EndInsert(c)
<1>1. n \in Nat /\ DOMAIN seq = 1..n /\ seq \in Seq(CacheRec)
  <2>1. c.fresh \in Seq(CacheRec)
    BY WholeParts
  <2> QED BY <2>1
<1>2. total = it[1..n]
  <2>1. total = it[DOMAIN seq]
    BY DEF EndInsert, Ended, FoldLeft, MapThenFoldSet
  <2> HIDE DEF total, it
  <2> QED BY <1>1, <2>1
<1> HIDE DEF total
<1>3. <<{}, base>> \in Good
  <2>1. seq = c.fresh /\ Sound(c, Range(seq), Range(seq)) /\ <<>> \in Seq(CacheRec)
        /\ \A r \in Range(seq) : Live(c, r)
    BY DEF Whole, Held
  <2>2. /\ Sound(base, Range(seq), Range(seq)) /\ base.fresh = <<>> /\ base.crec = c.crec
    BY <2>1, FreshSound
  <2>3. Left(seq, {}) = Range(seq)
    BY <1>1, LeftIs
  <2> HIDE DEF base
  <2>4. \A r \in Range(seq) : Live(base, r)
    BY <2>1, <2>2 DEF Live, FlagsOf
  <2>5. Aimed(base)
    <3>1. Aims(c, base, {})
      BY <2>2, SameAims
    <3> QED BY <3>1 DEF Aims, Whole
  <2>6. base \in Caches /\ Ending(c.fresh, {}, base)
    BY <2>1, <2>2, <2>3, <2>4, <2>5, SoundParts DEF Ending
  <2> QED BY <2>6
<1>4. ASSUME NEW j \in 1..n, NEW S \in SUBSET (1..(j - 1)), NEW v, <<S, v>> \in Good
      PROVE  <<S \cup {j}, step[<<j, v>>]>> \in Good
  <2>1. v \in Caches /\ holds(S, v) /\ S \cup {j} \in SUBSET (1..n)
    BY <1>1, <1>4
  <2>2. step[<<j, v>>] = op(v, seq[j])
    <3>1. <<j, v>> \in (1..n) \X W
      BY <2>1
    <3> HIDE DEF W, n, seq
    <3> QED BY <3>1
  <2>3. op(v, seq[j]) \in Caches /\ holds(S \cup {j}, op(v, seq[j]))
    <3>1. seq \in Seq(CacheRec) /\ Single(seq) /\ j \in 1..Len(seq) /\ Ending(seq, S, v)
      BY <1>1, <2>1 DEF Whole, Held
    <3> HIDE DEF seq, n
    <3>2. Ending(seq, S \cup {j}, Ended(v, seq[j]))
      BY ONLY <3>1, EndedSteps
    <3> QED BY <3>2 DEF Ending, seq
  <2> HIDE DEF step, n, seq
  <2> QED BY <2>1, <2>2, <2>3
<1>5. \A j \in 1..n : \A S \in SUBSET (1..(j - 1)) : \A v :
         <<S, v>> \in Good => <<S \cup {j}, step[<<j, v>>]>> \in Good
  <2> HIDE DEF Good, step, n
  <2> QED BY <1>4
<1>6. \A S, v : <<S, v>> \in Good => v \in W
  OBVIOUS
<1>7. \A j \in 1..n, v \in W : step[<<j, v>>] = op(v, seq[j])
  <2> HIDE DEF W, n, seq
  <2> QED OBVIOUS
<1>8. \A S \in SUBSET (1..n) : it[S] \in W
  <2> HIDE DEF it, n
  <2> QED OBVIOUS
<1>9. PICK some : Iterates(some, n, base, step)
  <2> HIDE DEF n, base, step
  <2> QED BY <1>1, IterateAny
<1>10. \A S \in SUBSET (1..n) : <<S, some[S]>> \in Good
  <2> HIDE DEF n, base, step, Good
  <2> QED BY <1>1, <1>3, <1>5, <1>9, IteratesKeep
<1> HIDE DEF Good, W, step
<1>11. ASSUME NEW S \in SUBSET (1..n), S # {}
       PROVE  Max(S) \in 1..n /\ S \ {Max(S)} \in SUBSET (1..n)
  BY <1>1, <1>11, MaxPlace
<1>12. some = [S \in SUBSET DOMAIN seq |->
                 IF S = {} THEN base ELSE op(some[S \ {Max(S)}], seq[Max(S)])]
  <2>1. ASSUME NEW S \in SUBSET (1..n), S # {}
        PROVE  step[<<Max(S), some[S \ {Max(S)}]>>] = op(some[S \ {Max(S)}], seq[Max(S)])
    <3> DEFINE j == Max(S)  v == some[S \ {Max(S)}]
    <3>1. j \in 1..n /\ v \in W
      BY <1>6, <1>10, <1>11, <2>1
    <3> HIDE DEF j, v
    <3>2. step[<<j, v>>] = op(v, seq[j])
      BY <1>7, <3>1
    <3> QED BY <3>2 DEF j, v
  <2>2. some = [S \in SUBSET (1..n) |->
                  IF S = {} THEN base ELSE step[<<Max(S), some[S \ {Max(S)}]>>]]
    BY <1>9 DEF Iterates
  <2> HIDE DEF n, base, seq
  <2> QED BY <1>1, <2>1, <2>2
<1>13. it = [S \in SUBSET DOMAIN seq |->
               IF S = {} THEN base ELSE op(it[S \ {Max(S)}], seq[Max(S)])]
  <2> HIDE DEF n, base, seq
  <2> QED BY <1>12
<1> HIDE DEF it
<1>14. Iterates(it, n, base, step)
  <2>1. ASSUME NEW S \in SUBSET (1..n), S # {}
        PROVE  step[<<Max(S), it[S \ {Max(S)}]>>] = op(it[S \ {Max(S)}], seq[Max(S)])
    <3> DEFINE j == Max(S)  v == it[S \ {Max(S)}]
    <3>1. j \in 1..n /\ v \in W
      BY <1>8, <1>11, <2>1
    <3> HIDE DEF j, v
    <3>2. step[<<j, v>>] = op(v, seq[j])
      BY <1>7, <3>1
    <3> QED BY <3>2 DEF j, v
  <2> HIDE DEF n, base, seq
  <2> QED BY <1>1, <1>13, <2>1 DEF Iterates
<1>15. <<1..n, it[1..n]>> \in Good
  <2> HIDE DEF n, base, seq
  <2> QED BY <1>1, <1>3, <1>5, <1>14, IteratesKeep
<1> QED
  BY <1>2, <1>15 DEF Good, total

LEMMA EndInsertWhole ==
    ASSUME NEW c, Whole(c)
    PROVE  Whole(EndInsert(c))
<1> DEFINE d == EndInsert(c)  s == c.fresh
<1>1. Ending(s, 1..Len(s), d)
  BY EndInsertFold
<1>2. s \in Seq(CacheRec)
  BY WholeParts
<1> HIDE DEF s, d
<1>3. Left(s, 1..Len(s)) = {}
  BY <1>2, LeftIs
<1>4. Sound(d, {}, {}) /\ d.fresh = <<>> /\ Aimed(d)
  BY <1>1, <1>3 DEF Ending
<1> QED
  BY <1>4, WholeEmpty DEF d

(* A change of times, addresses or targets only. *)
LEMMA HeldSame ==
    ASSUME NEW c, Held(c), NEW d \in Caches, d.lru = c.lru, d.chain = c.chain,
           d.fresh = c.fresh, d.big = c.big, Same(c, d, Rec)
    PROVE  Held(d)
<1> DEFINE F == Range(c.fresh)
<1>1. Sound(c, F, F) /\ F \subseteq Rec
  BY HeldParts
<1> HIDE DEF F
<1>2. Sound(d, F, F)
  BY <1>1, SameSound
<1>3. Same(c, d, F)
  BY <1>1 DEF Same
<1> QED
  BY <1>2, <1>3, HeldKept DEF F

(* Only the CNAME cpp points to another record than before. *)
Aiming(c, d, cpp, new) ==
    \A x \in Rec : /\ Stays(c, d, x)
                   /\ d.crec[x].target = IF x = cpp THEN new ELSE c.crec[x].target

LEMMA PointedHeld ==
    ASSUME NEW c, Held(c), NEW cpp \in CacheRec \cup {NoRec}, NEW new \in CacheRec
    PROVE  /\ Held(Pointed(c, cpp, new)) /\ Pointed(c, cpp, new).fresh = c.fresh
           /\ Aiming(c, Pointed(c, cpp, new), cpp, new)
<1>1. CASE cpp = NoRec
  <2>1. Aiming(c, c, cpp, new)
    BY <1>1, Constants DEF Aiming, Stays
  <2> QED BY <1>1, <2>1 DEF Pointed
<1>2. CASE cpp # NoRec
  <2> DEFINE d == [c EXCEPT !.crec[cpp].target = new]
  <2>1. Pointed(c, cpp, new) = d
    BY <1>2 DEF Pointed
  <2>2. c \in Caches /\ c.crec \in [Rec -> Crec] /\ cpp \in CacheRec /\ cpp \in Rec
    BY <1>2, HeldParts, Constants DEF Caches
  <2> DEFINE e == [c.crec[cpp] EXCEPT !.target = new]
  <2>3. e \in Crec /\ e.flags = c.crec[cpp].flags /\ e.name = c.crec[cpp].name
        /\ e.goal = c.crec[cpp].goal /\ e.target = new
    <3> DEFINE old == c.crec[cpp]
    <3>1. old \in Crec
      BY <2>2
    <3> HIDE DEF old
    <3>2. [old EXCEPT !.target = new] \in Crec /\ [old EXCEPT !.target = new].flags = old.flags
          /\ [old EXCEPT !.target = new].name = old.name
          /\ [old EXCEPT !.target = new].goal = old.goal
          /\ [old EXCEPT !.target = new].target = new
      BY <3>1 DEF Crec
    <3> QED BY <3>2 DEF old
  <2>4. d = [c EXCEPT !.crec[cpp] = e]
    OBVIOUS
  <2> HIDE DEF d, e
  <2>5. Made(c, d, cpp, e)
    BY <2>2, <2>3, <2>4, MadeIs
  <2>6. Same(c, d, Rec)
    BY <2>3, <2>5 DEF Made, Same, FlagsOf
  <2>7. Aiming(c, d, cpp, new)
    BY <2>3, <2>5 DEF Made, Aiming, Stays, FlagsOf
  <2> QED BY <2>1, <2>5, <2>6, <2>7, HeldSame DEF Made
<1> QED
  BY <1>1, <1>2

(* The free record at the tail is taken for an item. *)
LEMMA TakenParts ==
    ASSUME NEW c \in Caches, Single(c.lru), NEW item \in Item, NEW new \in CacheRec
    PROVE  LET d == Taken(c, item, new) IN
           /\ d \in Caches /\ d.lru = RemoveFirst(c.lru, new) /\ d.chain = c.chain
           /\ d.fresh = <<new>> \o c.fresh /\ d.big = c.big - Big(item)
           /\ FlagsOf(d, new) = item.flags \cup (IF Big(item) = 1 THEN {"big"} ELSE {})
           /\ d.crec[new].name = item.name /\ d.crec[new].goal = item.goal
           /\ d.crec[new].target = NoRec
           /\ \A x \in Rec : x # new => d.crec[x] = c.crec[x]
<1> DEFINE flags == item.flags \cup (IF Big(item) = 1 THEN {"big"} ELSE {})
           e == [flags |-> flags, name |-> item.name, addr |-> item.addr, ttl |-> item.ttl,
                 target |-> NoRec, goal |-> item.goal]
           lru == RemoveFirst(c.lru, new)
           fresh == <<new>> \o c.fresh
           big == c.big - Big(item)
           d == [c EXCEPT !.lru = lru, !.fresh = fresh, !.big = big, !.crec[new] = e]
<1>1. Taken(c, item, new) = d
  BY DEF Taken
<1>2. /\ c.crec \in [Rec -> Crec] /\ c.lru \in Seq(CacheRec) /\ c.fresh \in Seq(CacheRec)
      /\ c.big \in Int /\ c = [crec |-> c.crec, lru |-> c.lru, chain |-> c.chain,
                               fresh |-> c.fresh, big |-> c.big]
  BY DEF Caches
<1>3. e \in Crec
  <2>1. item.flags \in ItemFlag /\ item.name \in AnyName /\ item.addr \in Addr \cup {NoAddr}
        /\ item.ttl \in 0..MaxTtl /\ item.goal \in AnyName
    BY DEF Item
  <2>2. flags \in SUBSET Flag
    BY <2>1 DEF ItemFlag, Flag
  <2> HIDE DEF flags
  <2> QED BY <2>1, <2>2 DEF Crec
<1>4. lru \in Seq(CacheRec) /\ fresh \in Seq(CacheRec) /\ big \in Int
  <2>1. lru \in Seq(CacheRec)
    BY <1>2, RemovedOK
  <2> HIDE DEF lru
  <2>2. fresh \in Seq(CacheRec)
    BY <1>2
  <2>3. big \in Int
    BY <1>2 DEF Big
  <2> QED BY <2>1, <2>2, <2>3
<1>5. /\ e.flags = flags /\ new \in Rec
      /\ e.name = item.name /\ e.goal = item.goal /\ e.target = NoRec
  BY Constants
<1> HIDE DEF e, lru, fresh, big, flags
<1>6. d.crec = [c.crec EXCEPT ![new] = e] /\ d.lru = lru /\ d.chain = c.chain
      /\ d.fresh = fresh /\ d.big = big
  BY <1>2
<1>7. d \in Caches
  <2> DEFINE k == [c EXCEPT !.lru = lru, !.fresh = fresh, !.big = big]
  <2>2. k \in Caches /\ k.crec = c.crec
    BY <1>2, <1>4 DEF Caches
  <2>3. d = [k EXCEPT !.crec[new] = e]
    BY <1>2
  <2> HIDE DEF k, d
  <2>4. Made(k, d, new, e)
    BY <1>3, <1>5, <2>2, <2>3, MadeIs
  <2> QED BY <2>4 DEF Made
<1> HIDE DEF d
<1>8. d.crec[new] = e /\ \A x \in Rec : x # new => d.crec[x] = c.crec[x]
  BY <1>2, <1>5, <1>6
<1> QED
  BY <1>1, <1>5, <1>6, <1>7, <1>8 DEF FlagsOf, lru, fresh, big, flags

LEMMA TakenCounted ==
    ASSUME NEW c, NEW d, Counted(c), NEW new \in CacheRec, new \notin Bigs(c),
           NEW n \in {0, 1}, n <= c.big, d.big = c.big - n,
           Bigs(d) = IF n = 1 THEN Bigs(c) \cup {new} ELSE Bigs(c)
    PROVE  Counted(d)
<1> DEFINE B == Bigs(c)
<1>1. IsFiniteSet(B)
  BY Constants, FS_Subset DEF Bigs
<1>2. c.big \in Nat /\ c.big + Cardinality(B) = Bignames /\ Bignames \in Nat
  BY Constants DEF Counted
<1>3. Cardinality(B) \in Nat /\ Cardinality(B \cup {new}) = Cardinality(B) + 1
  <2>1. new \notin B
    OBVIOUS
  <2> HIDE DEF B
  <2> QED BY <1>1, <2>1, FS_AddElement, FS_CardinalityType
<1> QED
  BY <1>2, <1>3 DEF Counted

LEMMA TailFree ==
    ASSUME NEW c, Held(c), c.lru # <<>>, ~LiveTail(c)
    PROVE  LET new == Last(c.lru) IN
           new \in CacheRec /\ new \notin Range(c.fresh) /\ FlagsOf(c, new) = {}
<1> DEFINE F == Range(c.fresh)  new == Last(c.lru)
<1>1. Sound(c, F, F)
  BY HeldParts
<1>2. Kinds(c) /\ c.lru \in Seq(CacheRec) /\ Range(c.lru) = CacheRec \ F
  BY <1>1, SoundParts DEF OnList
<1>3. new \in Range(c.lru)
  <2> DEFINE s == c.lru
  <2>1. s \in Seq(CacheRec) /\ s # <<>>
    BY <1>2
  <2> HIDE DEF s
  <2>2. Len(s) \in 1..Len(s)
    BY <2>1
  <2>3. s[Len(s)] \in Range(s)
    BY <2>1, <2>2 DEF Range
  <2> QED BY <2>3 DEF s, Last
<1>4. new \in CacheRec /\ new \notin F /\ new \in Rec
  BY <1>2, <1>3, Constants
<1>5. FlagsOf(c, new) = {}
  <2>1. ~Live(c, new)
    BY DEF LiveTail
  <2> QED BY <1>2, <1>4, <2>1 DEF Kinds
<1> QED
  BY <1>4, <1>5

LEMMA TakenHeld ==
    ASSUME NEW c, Held(c), NEW item \in Item, c.lru # <<>>, ~LiveTail(c), Big(item) <= c.big
    PROVE  Held(Taken(c, item, Last(c.lru)))
<1> DEFINE F == Range(c.fresh)  new == Last(c.lru)  M == F \cup {new}
           d == Taken(c, item, new)  u == Unlinked(c, new)
<1>1. /\ Sound(c, F, F) /\ Single(c.fresh) /\ F \subseteq CacheRec /\ F \subseteq Rec
      /\ c \in Caches /\ c.fresh \in Seq(CacheRec) /\ \A r \in F : Live(c, r)
  BY HeldParts
<1>2. /\ Kinds(c) /\ Chained(c, F) /\ OnList(c, F) /\ Counted(c) /\ c.lru \in Seq(CacheRec)
      /\ Hashed(c) = InUse(c) \ F /\ Single(c.lru) /\ Range(c.lru) = CacheRec \ F
  BY <1>1, SoundParts DEF OnList, Chained
<1>3. new \in CacheRec /\ new \notin F /\ FlagsOf(c, new) = {}
  BY TailFree
<1>4. new \in CacheRec /\ new \notin F /\ new \in Rec
  BY <1>3, Constants
<1>5. ~Live(c, new) /\ FlagsOf(c, new) = {} /\ new \notin Hashed(c) /\ new \notin Bigs(c)
  BY <1>2, <1>3 DEF Live, InUse, Bigs
<1> HIDE DEF new
<1>6. /\ d \in Caches /\ d.lru = RemoveFirst(c.lru, new) /\ d.chain = c.chain
      /\ d.fresh = <<new>> \o c.fresh /\ d.big = c.big - Big(item)
      /\ FlagsOf(d, new) = item.flags \cup (IF Big(item) = 1 THEN {"big"} ELSE {})
      /\ \A x \in Rec : x # new => d.crec[x] = c.crec[x]
  BY <1>1, <1>2, <1>4, TakenParts
<1> HIDE DEF d, F
<1>7. Sound(u, M, F) /\ u.crec = c.crec /\ u.lru = d.lru
  <2>1. Sound(u, M, F) /\ u.crec = c.crec
    BY <1>1, UnlinkedSound
  <2>2. u.lru = RemoveFirst(c.lru, new)
    BY <1>1 DEF Unlinked, Caches
  <2> QED BY <1>6, <2>1, <2>2
<1> HIDE DEF u
<1>8. \A x \in Rec : x # new => /\ FlagsOf(d, x) = FlagsOf(c, x)
                                /\ Live(d, x) <=> Live(c, x)
                                /\ Local(d, x) <=> Local(c, x)
  BY <1>6 DEF FlagsOf, Live, Local
<1>9. Live(d, new) /\ ~Local(d, new)
  <2>1. item.flags \in ItemFlag
    BY DEF Item
  <2> QED BY <1>6, <2>1 DEF ItemFlag, Live, Local
<1>10. Kinds(d)
  <2>1. ASSUME NEW r \in Rec
        PROVE  /\ Live(d, r) \/ FlagsOf(d, r) = {}
               /\ Live(d, r) => (Local(d, r) <=> r \notin CacheRec)
               /\ "big" \in FlagsOf(d, r) => r \in CacheRec
    <3>1. CASE r = new
      BY <1>4, <1>9, <3>1
    <3>2. CASE r # new
      BY <1>2, <1>8, <3>2 DEF Kinds
    <3> QED BY <3>1, <3>2
  <2> QED BY <2>1 DEF Kinds
<1>11. Chained(d, M)
  <2>1. Hashed(c) = InUse(d) \ M
    BY <1>2, <1>4, <1>5, <1>8, <1>9 DEF InUse
  <2>2. Same(c, d, Hashed(c))
    BY <1>2, <1>5, <1>6 DEF Same, FlagsOf, InUse
  <2> HIDE DEF M
  <2> QED BY <1>1, <1>2, <1>6, <2>1, <2>2, ChainedSame
<1>12. OnList(d, M)
  <2>1. OnList(u, M)
    BY <1>7, SoundParts
  <2>2. \A r \in CacheRec \ M : Live(d, r) <=> Live(u, r)
    <3>1. \A r : Live(u, r) <=> Live(c, r)
      BY <1>7 DEF Live, FlagsOf
    <3> QED BY <1>8, <3>1, Constants
  <2> HIDE DEF M
  <2> QED BY <1>7, <2>1, <2>2, OnListSame
<1>13. Counted(d)
  <2> DEFINE n == Big(item)
  <2>1. n \in {0, 1}
    BY DEF Big
  <2>2. "big" \in FlagsOf(d, new) <=> n = 1
    <3>1. "big" \notin item.flags
      BY DEF Item, ItemFlag
    <3> HIDE DEF n
    <3> QED BY <1>6, <3>1 DEF n
  <2> HIDE DEF n
  <2>3. \A x \in CacheRec : x # new => FlagsOf(d, x) = FlagsOf(c, x)
    BY <1>8, Constants
  <2>4. Bigs(d) = IF n = 1 THEN Bigs(c) \cup {new} ELSE Bigs(c)
    BY <1>4, <1>5, <2>2, <2>3 DEF Bigs
  <2>5. n <= c.big /\ d.big = c.big - n
    BY <1>6 DEF n
  <2> QED BY <1>2, <1>4, <1>5, <2>1, <2>4, <2>5, TakenCounted
<1>14. Single(d.fresh) /\ Range(d.fresh) = M
  <2>1. new \notin Range(c.fresh)
    BY <1>4 DEF F
  <2>2. Single(<<new>> \o c.fresh) /\ Range(<<new>> \o c.fresh) = Range(c.fresh) \cup {new}
    BY <1>1, <1>4, <2>1, HeadOK
  <2> QED BY <1>6, <2>2 DEF F
<1>15. \A r \in M : Live(d, r)
  BY <1>1, <1>8, <1>9
<1> HIDE DEF M
<1>16. Sound(d, M, M)
  BY <1>6, <1>10, <1>11, <1>12, <1>13 DEF Sound
<1>17. Held(d)
  BY <1>14, <1>15, <1>16 DEF Held
<1> QED
  BY <1>17 DEF d, new

(* cache_insert. *)
LEMMA TailIs ==
    ASSUME NEW c, Held(c), c.lru # <<>>
    PROVE  Last(c.lru) \in Rec /\ c.crec[Last(c.lru)].name \in AnyName
<1> DEFINE s == c.lru
<1>1. c \in Caches /\ s \in Seq(CacheRec) /\ c.crec \in [Rec -> Crec]
  BY HeldParts DEF Caches
<1>2. s # <<>>
  OBVIOUS
<1> HIDE DEF s
<1>3. s[Len(s)] \in CacheRec
  BY <1>1, <1>2
<1>4. Last(s) \in Rec
  BY <1>3, Constants DEF Last
<1>5. c.crec[Last(s)].name \in AnyName
  BY <1>1, <1>4 DEF Crec
<1> QED
  BY <1>4, <1>5 DEF s

(* What makes room for a record leaves those of new_chain as they are. *)
Awaits(c, d) == Held(d) /\ d.fresh = c.fresh /\ Aims(c, d, Range(c.fresh))

LEMMA AwaitsTwice ==
    ASSUME NEW c, NEW d, NEW e, Awaits(c, d), Awaits(d, e)
    PROVE  Awaits(c, e)
BY DEF Awaits, Aims

LEMMA AwaitsSelf ==
    ASSUME NEW c, Held(c)
    PROVE  Awaits(c, c)
BY DEF Awaits, Aims

LEMMA ScanHeld ==
    ASSUME NEW c, Held(c), NEW name \in AnyName, NEW addr, NEW flags, NEW now
    PROVE  LET s == Scan(c, name, addr, flags, now) IN Awaits(c, s.cache) /\ s.ok \in BOOLEAN
<1> DEFINE F == Range(c.fresh)  s == Scan(c, name, addr, flags, now)
<1>1. Sound(c, F, F) /\ F \subseteq F /\ F \subseteq Rec
  BY HeldParts
<1> HIDE DEF F
<1>2. Keeps(c, s.cache, F, F) /\ s.ok \in BOOLEAN
  BY <1>1, ScanKeeps
<1> HIDE DEF s
<1>3. Held(s.cache)
  BY <1>2, HeldKept DEF F, Keeps
<1> QED
  BY <1>2, <1>3 DEF s, F, Awaits, Keeps

LEMMA ScanReverseHeld ==
    ASSUME NEW c, Held(c), NEW addr, NEW flags, NEW now
    PROVE  Awaits(c, ScanReverse(c, addr, flags, now))
<1> DEFINE F == Range(c.fresh)  d == ScanReverse(c, addr, flags, now)
<1>1. Sound(c, F, F) /\ F \subseteq F /\ F \subseteq Rec
  BY HeldParts
<1> HIDE DEF F
<1>2. Keeps(c, d, F, F)
  BY <1>1, ScanReverseKeeps
<1> HIDE DEF d
<1>3. Held(d)
  BY <1>2, HeldKept DEF F, Keeps
<1> QED
  BY <1>2, <1>3 DEF d, F, Awaits, Keeps

LEMMA MadeRoomHeld ==
    ASSUME NEW c, Held(c), NEW item
    PROVE  Awaits(c, MadeRoom(Swept(c, item)))
<1> DEFINE d == Swept(c, item)  tail == d.crec[Last(d.lru)]
<1>1. Awaits(c, d)
  BY ScanReverseHeld, AwaitsSelf DEF Swept
<1> HIDE DEF d
<1>2. Held(d)
  BY <1>1 DEF Awaits
<1>3. CASE LiveTail(d)
  <2>1. tail.name \in AnyName
    BY <1>2, <1>3, TailIs DEF LiveTail
  <2> HIDE DEF tail
  <2> DEFINE e == Scan(d, tail.name, tail.addr, tail.flags, TRUE).cache
  <2>2. Awaits(d, e)
    BY <1>2, <2>1, ScanHeld
  <2>3. MadeRoom(d) = e
    BY <1>3 DEF MadeRoom, Spilled, SpilledFor, tail
  <2> HIDE DEF e
  <2> QED BY <1>1, <2>2, <2>3, AwaitsTwice DEF d
<1>4. CASE ~LiveTail(d)
  BY <1>1, <1>4 DEF MadeRoom, d
<1> QED
  BY <1>3, <1>4

LEMMA ScanReverseWhole ==
    ASSUME NEW c, Whole(c), NEW addr, NEW flags, NEW now
    PROVE  Whole(ScanReverse(c, addr, flags, now))
BY ScanReverseHeld DEF Awaits, Aims, Whole

(* The CNAME that cpp is asks for the item, and the CNAME that the item is. *)
Wanting(c, cpp, item) ==
    cpp \in Range(c.fresh) /\ c.crec[cpp].goal = item.name /\ "forward" \in item.flags
Wants(c, cpp, item) ==
    cpp \in Range(c.fresh) /\ c.crec[cpp].goal = item.goal /\ "cname" \in item.flags

LEMMA WantingStays ==
    ASSUME NEW c, NEW d, Awaits(c, d), NEW cpp, NEW item, Wanting(c, cpp, item)
    PROVE  Wanting(d, cpp, item)
BY DEF Awaits, Aims, Wanting

LEMMA PointedAims ==
    ASSUME NEW c, Held(c), Aimed(c), NEW item \in Item, c.lru # <<>>, ~LiveTail(c),
           Big(item) <= c.big, NEW cpp \in CacheRec \cup {NoRec},
           cpp # NoRec => Wanting(c, cpp, item)
    PROVE  LET new == Last(c.lru)  d == Pointed(Taken(c, item, new), cpp, new) IN
           /\ Aimed(d) /\ new \in Range(d.fresh) /\ d.crec[new].goal = item.goal
<1> DEFINE new == Last(c.lru)  k == Taken(c, item, new)  d == Pointed(k, cpp, new)
           F == Range(c.fresh)
<1>1. new \in CacheRec /\ new \notin F /\ FlagsOf(c, new) = {}
  BY TailFree
<1>2. new \in Rec /\ NoRec \notin Rec /\ CacheRec \subseteq Rec
  BY <1>1, Constants
<1>3. /\ Single(c.lru) /\ F \subseteq CacheRec /\ c \in Caches /\ c.fresh \in Seq(CacheRec)
      /\ Single(c.fresh) /\ \A r \in F : Live(c, r)
  BY HeldParts, SoundParts DEF OnList
<1>4. Held(k)
  BY TakenHeld
<1> HIDE DEF new
<1>5. /\ k.fresh = <<new>> \o c.fresh
      /\ FlagsOf(k, new) = item.flags \cup (IF Big(item) = 1 THEN {"big"} ELSE {})
      /\ k.crec[new].name = item.name /\ k.crec[new].goal = item.goal
      /\ k.crec[new].target = NoRec /\ \A x \in Rec : x # new => k.crec[x] = c.crec[x]
  BY <1>1, <1>3, TakenParts
<1>6. Range(k.fresh) = F \cup {new}
  BY <1>1, <1>3, <1>5, HeadOK
<1> HIDE DEF F, k
<1>7. d.fresh = k.fresh /\ Aiming(k, d, cpp, new)
  BY <1>1, <1>4, PointedHeld
<1> HIDE DEF d
<1>8. /\ \A x \in Rec : x # new => /\ Stays(c, d, x)
                                   /\ d.crec[x].target = IF x = cpp THEN new ELSE c.crec[x].target
      /\ "forward" \in item.flags => "forward" \in FlagsOf(d, new)
      /\ d.crec[new].name = item.name /\ d.crec[new].goal = item.goal
  BY <1>2, <1>5, <1>7 DEF Aiming, Stays, FlagsOf
<1>9. cpp # new /\ d.crec[new].target = NoRec
  <2>1. cpp # new
    BY <1>1, <1>2 DEF Wanting, F
  <2> QED BY <1>2, <1>5, <1>7, <2>1 DEF Aiming
<1>10. ASSUME NEW r \in Rec, d.crec[r].target # NoRec
       PROVE  AimedAt(d, r, d.crec[r].target)
  <2>1. r # new /\ Stays(c, d, r)
    BY <1>8, <1>9, <1>10
  <2>2. CASE r = cpp
    <3>1. d.crec[r].target = new /\ r \in F /\ r \in CacheRec /\ Live(c, r)
          /\ c.crec[r].goal = item.name /\ "forward" \in item.flags
      BY <1>2, <1>3, <1>8, <2>1, <2>2 DEF Wanting, F
    <3>2. Live(d, r) /\ d.crec[new].name = d.crec[r].goal /\ "forward" \in FlagsOf(d, new)
      BY <1>8, <2>1, <3>1 DEF Stays, Live
    <3> QED BY <1>1, <1>6, <1>7, <3>1, <3>2 DEF AimedAt
  <2>3. CASE r # cpp
    <3> DEFINE t == d.crec[r].target
    <3>1. t = c.crec[r].target
      BY <1>8, <2>1, <2>3
    <3> HIDE DEF t
    <3>2. AimedAt(c, r, t)
      BY <1>10, <3>1 DEF Aimed, t
    <3>3. t # new /\ t \in Rec
      BY <1>1, <1>2, <3>2 DEF AimedAt
    <3>4. Stays(c, d, t)
      BY <1>8, <3>3
    <3>5. r \in Range(d.fresh) <=> t \in Range(d.fresh)
      BY <1>6, <1>7, <2>1, <3>2, <3>3 DEF AimedAt, F
    <3>6. AimedAt(d, r, t)
      BY <2>1, <3>2, <3>4, <3>5 DEF AimedAt, Stays, Live
    <3> QED BY <3>6 DEF t
  <2> QED BY <2>2, <2>3
<1>11. Aimed(d)
  BY <1>10 DEF Aimed
<1>12. new \in Range(d.fresh)
  BY <1>6, <1>7
<1> QED
  BY <1>8, <1>11, <1>12 DEF d, k, new

(* A record is inserted; cpp then is the CNAME that it is. *)
Inserts == [cache : Caches, ok : BOOLEAN, cpp : CacheRec \cup {NoRec}]
Asks(u)          == u.ok /\ u.cpp # NoRec
Asking(s, item)  == Asks(s) => Wanting(s.cache, s.cpp, item)
Asked(u, item)   == Aimed(u.cache) /\ (Asks(u) => Wants(u.cache, u.cpp, item))

LEMMA InsertedInWhole ==
    ASSUME NEW c, Held(c), NEW s \in Inserts, NEW item \in Item
    PROVE  LET u == InsertedIn(c, s, item) IN
           /\ u \in Inserts /\ Held(u.cache)
           /\ Aimed(c) /\ (s.cpp # NoRec => Wanting(c, s.cpp, item)) => Asked(u, item)
<1> DEFINE u == InsertedIn(c, s, item)  new == Last(c.lru)  t == Taken(c, item, new)
           p == Pointed(t, s.cpp, new)
<1>1. c \in Caches /\ Held(c)
  BY HeldParts
<1>2. CASE c.lru = <<>> \/ LiveTail(c) \/ Big(item) > c.big
  <2>1. u = [s EXCEPT !.cache = c, !.ok = FALSE]
    BY <1>2 DEF InsertedIn
  <2> HIDE DEF u
  <2>2. u \in Inserts /\ u.cache = c /\ u.ok = FALSE
    BY <1>1, <2>1 DEF Inserts
  <2> QED BY <2>2 DEF u, Asked, Asks
<1>3. CASE ~(c.lru = <<>> \/ LiveTail(c) \/ Big(item) > c.big)
  <2>0. Big(item) <= c.big
    <3>1. c.big \in Int /\ Big(item) \in Int
      BY <1>1 DEF Caches, Big
    <3> QED BY <1>3, <3>1
  <2>1. Held(t) /\ new \in CacheRec
    BY <1>1, <1>3, <2>0, TakenHeld, TailFree
  <2>2. s.cpp \in CacheRec \cup {NoRec}
    BY DEF Inserts
  <2>3. u = [s EXCEPT !.cache = p, !.cpp = IF "cname" \in item.flags THEN new ELSE NoRec]
    BY <1>3 DEF InsertedIn
  <2>4. Aimed(c) /\ (s.cpp # NoRec => Wanting(c, s.cpp, item)) =>
           Aimed(p) /\ new \in Range(p.fresh) /\ p.crec[new].goal = item.goal
    BY <1>1, <1>3, <2>0, <2>2, PointedAims
  <2> HIDE DEF u, t, new
  <2>5. Held(p)
    BY <2>1, <2>2, PointedHeld
  <2>6. p \in Caches
    BY <2>5, HeldParts
  <2> HIDE DEF p
  <2>7. /\ u \in Inserts /\ u.cache = p
        /\ u.cpp = IF "cname" \in item.flags THEN new ELSE NoRec
    BY <2>1, <2>3, <2>6 DEF Inserts
  <2>8. Aimed(c) /\ (s.cpp # NoRec => Wanting(c, s.cpp, item)) => Asked(u, item)
    BY <2>4, <2>7 DEF Asks, Wants, Asked
  <2> QED BY <2>5, <2>7, <2>8 DEF u
<1> QED
  BY <1>2, <1>3

LEMMA InsertedWhole ==
    ASSUME NEW s \in Inserts, Held(s.cache), NEW item \in Item
    PROVE  LET u == Inserted(s, item) IN
           /\ u \in Inserts /\ Held(u.cache)
           /\ Aimed(s.cache) /\ Asking(s, item) => Asked(u, item)
<1> DEFINE u == Inserted(s, item)
           scan == Scan(s.cache, item.name, item.addr, item.flags, TRUE)
           room == MadeRoom(Swept(scan.cache, item))
           v == InsertedIn(room, s, item)
           w == [s EXCEPT !.cache = scan.cache, !.ok = FALSE]
<1>1. item.name \in AnyName
  BY DEF Item
<1>2. Awaits(s.cache, scan.cache)
  BY <1>1, ScanHeld
<1>3. u = IF s.ok THEN IF scan.ok THEN v ELSE w ELSE s
  BY DEF Inserted, InsertedAfter
<1> HIDE DEF u, scan
<1>4. Held(scan.cache) /\ (Aimed(s.cache) => Aimed(scan.cache))
  BY <1>2 DEF Awaits, Aims
<1>5. Awaits(scan.cache, room)
  BY <1>4, MadeRoomHeld
<1> HIDE DEF room
<1>6. Awaits(s.cache, room) /\ Held(room) /\ (Aimed(s.cache) => Aimed(room))
  BY <1>2, <1>5, AwaitsTwice DEF Awaits, Aims
<1>7. /\ v \in Inserts /\ Held(v.cache)
      /\ s.ok /\ Aimed(s.cache) /\ Asking(s, item) => Asked(v, item)
  <2>1. s.ok /\ Asking(s, item) => (s.cpp # NoRec => Wanting(room, s.cpp, item))
    BY <1>6, WantingStays DEF Asking, Asks
  <2>2. /\ v \in Inserts /\ Held(v.cache)
        /\ Aimed(room) /\ (s.cpp # NoRec => Wanting(room, s.cpp, item)) => Asked(v, item)
    BY <1>6, InsertedInWhole
  <2> HIDE DEF v
  <2> QED BY <1>6, <2>1, <2>2
<1>8. scan.cache \in Caches
  BY <1>4, HeldParts
<1>9. w \in Inserts /\ w.cache = scan.cache /\ w.ok = FALSE
  BY <1>8 DEF Inserts
<1> HIDE DEF v, w
<1>10. Aimed(s.cache) => Asked(w, item)
  BY <1>4, <1>9 DEF Asked, Asks
<1>11. ~s.ok /\ Aimed(s.cache) => Asked(s, item)
  BY DEF Asked, Asks
<1>12. u \in Inserts /\ Held(u.cache) /\ (Aimed(s.cache) /\ Asking(s, item) => Asked(u, item))
  BY <1>3, <1>4, <1>7, <1>9, <1>10, <1>11
<1> QED
  BY <1>12 DEF u

(* What extract_addresses inserts of a reply. *)
Insertion(c, items) ==
    FoldLeft(Inserted, [cache |-> StartInsert(c), ok |-> TRUE, cpp |-> NoRec], items)

(* Unless an item was left out, the CNAME that asks is the last item. *)
Answering(items, T, v) ==
    \A k \in Nat : T = 1..k =>
       Aimed(v.cache) /\ (Asks(v) => k \in 1..Len(items) /\ Wants(v.cache, v.cpp, items[k]))

LEMMA AnsweringStep ==
    ASSUME NEW items, items \in Seq(Item), Follows(items), NEW j \in 1..Len(items),
           NEW T \in SUBSET (1..(j - 1)), NEW v, Answering(items, T, v), NEW u,
           Aimed(v.cache) /\ Asking(v, items[j]) => Asked(u, items[j])
    PROVE  Answering(items, T \cup {j}, u)
<1> DEFINE n == Len(items)
<1>1. n \in Nat /\ j \in 1..n /\ j - 1 \in Nat
  OBVIOUS
<1>2. \A i \in 1..(n - 1) : "cname" \in items[i].flags => /\ items[i + 1].name = items[i].goal
                                                         /\ "forward" \in items[i + 1].flags
  BY DEF Follows
<1> HIDE DEF n
<1> SUFFICES ASSUME NEW k \in Nat, T \cup {j} = 1..k
             PROVE  /\ Aimed(u.cache)
                    /\ Asks(u) => k \in 1..n /\ Wants(u.cache, u.cpp, items[k])
  BY DEF Answering, n
<1>3. k = j
  <2>1. j \in 1..k
    OBVIOUS
  <2>2. k \in T \cup {j}
    BY <1>1, <2>1
  <2>3. k <= j
    BY <1>1, <2>2
  <2> QED BY <1>1, <2>1, <2>3
<1>4. T = 1..(j - 1)
  <2>1. \A i \in 1..(j - 1) : i \in 1..k /\ i # j
    BY <1>1, <1>3
  <2> QED BY <2>1
<1>5. /\ Aimed(v.cache)
      /\ Asks(v) => j - 1 \in 1..n /\ Wants(v.cache, v.cpp, items[j - 1])
  BY <1>1, <1>4 DEF Answering, n
<1>6. Asking(v, items[j])
  <2> SUFFICES ASSUME Asks(v) PROVE Wanting(v.cache, v.cpp, items[j])
    BY DEF Asking
  <2>1. j - 1 \in 1..n /\ Wants(v.cache, v.cpp, items[j - 1])
    BY <1>5
  <2>2. j - 1 \in 1..(n - 1) /\ (j - 1) + 1 = j
    BY <1>1, <2>1
  <2>3. items[j].name = items[j - 1].goal /\ "forward" \in items[j].flags
    BY <1>2, <2>1, <2>2 DEF Wants
  <2> QED BY <2>1, <2>3 DEF Wants, Wanting
<1> QED
  BY <1>1, <1>3, <1>5, <1>6 DEF Asked

LEMMA InsertionFold ==
    ASSUME NEW c, Whole(c), NEW items, items \in Seq(Item), Follows(items)
    PROVE  LET result == Insertion(c, items) IN
           /\ result \in Inserts
           /\ Held(result.cache) /\ Aimed(result.cache)
<1> DEFINE seq == items
           n == Len(seq)
           op(v, e) == Inserted(v, e)
           holds(T, v) == Held(v.cache) /\ Answering(items, T, v)
           base == [cache |-> StartInsert(c), ok |-> TRUE, cpp |-> NoRec]
           it == CHOOSE iter : iter = [S \in SUBSET DOMAIN seq |->
                    IF S = {} THEN base ELSE op(iter[S \ {Max(S)}], seq[Max(S)])]
           Good == {g \in (SUBSET (1..n)) \X Inserts : holds(g[1], g[2])}
           W == Inserts \cup {it[S] : S \in SUBSET (1..n)}
           step == [x \in (1..n) \X W |-> op(x[2], seq[x[1]])]
           total == Insertion(c, items)
<1>1. n \in Nat /\ DOMAIN seq = 1..n /\ seq \in Seq(Item)
  <2> QED OBVIOUS
<1>2. total = it[1..n]
  <2>1. total = it[DOMAIN seq]
    BY DEF Insertion, FoldLeft, MapThenFoldSet
  <2> HIDE DEF total, it
  <2> QED BY <1>1, <2>1
<1> HIDE DEF total
<1>3. <<{}, base>> \in Good
  <2> DEFINE d == StartInsert(c)
  <2>1. Whole(d)
    BY StartInsertWhole
  <2> HIDE DEF d
  <2>2. d \in Caches
    BY <2>1, WholeParts
  <2>3. base = [cache |-> d, ok |-> TRUE, cpp |-> NoRec]
    BY DEF d
  <2> HIDE DEF base
  <2>4. base \in Inserts /\ base.cache = d
    BY <2>2, <2>3 DEF Inserts
  <2>5. Answering(items, {}, base)
    BY <2>1, <2>3 DEF Answering, Asks, Whole
  <2> QED BY <2>1, <2>4, <2>5 DEF Whole
<1>4. ASSUME NEW j \in 1..n, NEW S \in SUBSET (1..(j - 1)), NEW v, <<S, v>> \in Good
      PROVE  <<S \cup {j}, step[<<j, v>>]>> \in Good
  <2>1. v \in Inserts /\ holds(S, v) /\ S \cup {j} \in SUBSET (1..n)
    BY <1>1, <1>4
  <2>2. step[<<j, v>>] = op(v, seq[j])
    <3>1. <<j, v>> \in (1..n) \X W
      BY <2>1
    <3> HIDE DEF W, n, seq
    <3> QED BY <3>1
  <2>3. op(v, seq[j]) \in Inserts /\ holds(S \cup {j}, op(v, seq[j]))
    <3>1. v \in Inserts /\ Held(v.cache) /\ Answering(seq, S, v) /\ seq[j] \in Item
      BY <1>1, <2>1
    <3>2. seq \in Seq(Item) /\ Follows(seq) /\ j \in 1..Len(seq) /\ S \in SUBSET (1..(j - 1))
      OBVIOUS
    <3> DEFINE item == seq[j]  u == Inserted(v, item)
    <3> HIDE DEF seq, n, item
    <3>3. u \in Inserts /\ Held(u.cache) /\ (Aimed(v.cache) /\ Asking(v, item) => Asked(u, item))
      BY <3>1, InsertedWhole DEF item
    <3> HIDE DEF u
    <3>4. Answering(seq, S \cup {j}, u)
      BY <3>1, <3>2, <3>3, AnsweringStep DEF item
    <3> QED BY <3>3, <3>4 DEF item, u, seq
  <2> HIDE DEF step, n, seq
  <2> QED BY <2>1, <2>2, <2>3
<1>5. \A j \in 1..n : \A S \in SUBSET (1..(j - 1)) : \A v :
         <<S, v>> \in Good => <<S \cup {j}, step[<<j, v>>]>> \in Good
  <2> HIDE DEF Good, step, n
  <2> QED BY <1>4
<1>6. \A S, v : <<S, v>> \in Good => v \in W
  OBVIOUS
<1>7. \A j \in 1..n, v \in W : step[<<j, v>>] = op(v, seq[j])
  <2> HIDE DEF W, n, seq
  <2> QED OBVIOUS
<1>8. \A S \in SUBSET (1..n) : it[S] \in W
  <2> HIDE DEF it, n
  <2> QED OBVIOUS
<1>9. PICK some : Iterates(some, n, base, step)
  <2> HIDE DEF n, base, step
  <2> QED BY <1>1, IterateAny
<1>10. \A S \in SUBSET (1..n) : <<S, some[S]>> \in Good
  <2> HIDE DEF n, base, step, Good
  <2> QED BY <1>1, <1>3, <1>5, <1>9, IteratesKeep
<1> HIDE DEF Good, W, step
<1>11. ASSUME NEW S \in SUBSET (1..n), S # {}
       PROVE  Max(S) \in 1..n /\ S \ {Max(S)} \in SUBSET (1..n)
  BY <1>1, <1>11, MaxPlace
<1>12. some = [S \in SUBSET DOMAIN seq |->
                 IF S = {} THEN base ELSE op(some[S \ {Max(S)}], seq[Max(S)])]
  <2>1. ASSUME NEW S \in SUBSET (1..n), S # {}
        PROVE  step[<<Max(S), some[S \ {Max(S)}]>>] = op(some[S \ {Max(S)}], seq[Max(S)])
    <3> DEFINE j == Max(S)  v == some[S \ {Max(S)}]
    <3>1. j \in 1..n /\ v \in W
      BY <1>6, <1>10, <1>11, <2>1
    <3> HIDE DEF j, v
    <3>2. step[<<j, v>>] = op(v, seq[j])
      BY <1>7, <3>1
    <3> QED BY <3>2 DEF j, v
  <2>2. some = [S \in SUBSET (1..n) |->
                  IF S = {} THEN base ELSE step[<<Max(S), some[S \ {Max(S)}]>>]]
    BY <1>9 DEF Iterates
  <2> HIDE DEF n, base, seq
  <2> QED BY <1>1, <2>1, <2>2
<1>13. it = [S \in SUBSET DOMAIN seq |->
               IF S = {} THEN base ELSE op(it[S \ {Max(S)}], seq[Max(S)])]
  <2> HIDE DEF n, base, seq
  <2> QED BY <1>12
<1> HIDE DEF it
<1>14. Iterates(it, n, base, step)
  <2>1. ASSUME NEW S \in SUBSET (1..n), S # {}
        PROVE  step[<<Max(S), it[S \ {Max(S)}]>>] = op(it[S \ {Max(S)}], seq[Max(S)])
    <3> DEFINE j == Max(S)  v == it[S \ {Max(S)}]
    <3>1. j \in 1..n /\ v \in W
      BY <1>8, <1>11, <2>1
    <3> HIDE DEF j, v
    <3>2. step[<<j, v>>] = op(v, seq[j])
      BY <1>7, <3>1
    <3> QED BY <3>2 DEF j, v
  <2> HIDE DEF n, base, seq
  <2> QED BY <1>1, <1>13, <2>1 DEF Iterates
<1>15. <<1..n, it[1..n]>> \in Good
  <2> HIDE DEF n, base, seq
  <2> QED BY <1>1, <1>3, <1>5, <1>14, IteratesKeep
<1>16. total \in Inserts /\ holds(1..n, total)
  BY <1>2, <1>15 DEF Good
<1> HIDE DEF n
<1> QED
  BY <1>1, <1>16 DEF Answering, total

LEMMA RepliedWhole ==
    ASSUME NEW c, Whole(c), NEW reply, reply \in Seq(Item), Follows(reply),
           NEW n \in 0..Len(reply), NEW complete
    PROVE  Whole(Replied(c, reply, n, complete))
<1> DEFINE items == SubSeq(reply, 1, n)  s == Insertion(c, items)
<1>1. items \in Seq(Item)
  <2>1. n \in Nat /\ Len(reply) \in Nat
    OBVIOUS
  <2> QED BY <2>1
<1>4. Follows(items)
  <2>1. n \in Nat /\ Len(reply) \in Nat /\ n <= Len(reply)
    OBVIOUS
  <2>2. Len(items) = n /\ \A i \in 1..n : items[i] = reply[i]
    BY <2>1
  <2> HIDE DEF items
  <2>3. \A i \in 1..(n - 1) : i \in 1..(Len(reply) - 1) /\ i \in 1..n /\ i + 1 \in 1..n
    BY <2>1
  <2> QED BY <2>2, <2>3 DEF Follows
<1>2. Replied(c, reply, n, complete) = Committed(s, complete)
  BY DEF Replied, Insertion
<1> HIDE DEF items
<1>3. Whole(s.cache)
  BY <1>1, <1>4, InsertionFold DEF Whole
<1> HIDE DEF s
<1> QED
  BY <1>2, <1>3, EndInsertWhole DEF Committed

-----------------------------------------------------------------------------
(* rehash *)

(* The records that are still to be put on a chain are off the chains. *)
Rehashing(c, F, walk, T, d) ==
    /\ Sound(d, F, F \cup Left(walk, T)) /\ Same(c, d, Rec) /\ d.fresh = c.fresh
    /\ d.crec = c.crec

LEMMA RehashSteps ==
    ASSUME NEW c, NEW F, NEW walk, walk \in Seq(Rec), Single(walk), Range(walk) = InUse(c) \ F,
           NEW j \in 1..Len(walk), NEW T \in SUBSET (1..(j - 1)), NEW d,
           Rehashing(c, F, walk, T, d)
    PROVE  Rehashing(c, F, walk, T \cup {j}, CacheHash(d, walk[j]))
<1> DEFINE r == walk[j]  U == F \cup Left(walk, T)  V == F \cup Left(walk, T \cup {j})
           h == CacheHash(d, r)
<1>1. Sound(d, F, U) /\ Same(c, d, Rec) /\ d.fresh = c.fresh /\ d.crec = c.crec
  BY DEF Rehashing
<1>2. r \in Rec /\ r \in InUse(c) /\ r \notin F
  BY DEF Range
<1>3. r \in U /\ V = U \ {r}
  <2>1. walk \in Seq(Rec) /\ Single(walk) /\ j \in 1..Len(walk) /\ T \in SUBSET (1..(j - 1))
    OBVIOUS
  <2>2. walk[j] \in Left(walk, T) /\ Left(walk, T \cup {j}) = Left(walk, T) \ {walk[j]}
    BY ONLY <2>1, LeftLess, Zenon
  <2> QED BY <1>2, <2>2
<1>4. Live(d, r)
  BY <1>1, <1>2, SameIs DEF Same, InUse
<1>5. r \notin Hashed(d)
  BY <1>1, <1>3, SoundParts DEF Chained
<1> HIDE DEF r, U, h
<1>6. Hashes(d, h, F, U, r)
  BY <1>1, <1>2, <1>4, <1>5, CacheHashSound DEF h
<1>7. Sound(h, F, V)
  BY <1>3, <1>6 DEF Hashes
<1>8. Same(c, h, Rec) /\ h.fresh = c.fresh /\ h.crec = c.crec
  BY <1>1, <1>6 DEF Hashes, Same
<1>9. Rehashing(c, F, walk, T \cup {j}, h)
  BY <1>7, <1>8 DEF Rehashing
<1> QED
  BY <1>9 DEF h, r

Emptied(c, size) == [c EXCEPT !.chain = [b \in 1..size |-> <<>>]]

LEMMA EmptiedSound ==
    ASSUME NEW c, NEW F, Sound(c, F, F), NEW size \in {1, 2}
    PROVE  LET d == Emptied(c, size) IN
           /\ Sound(d, F, F \cup Hashed(c)) /\ Same(c, d, Rec) /\ d.fresh = c.fresh
           /\ d.crec = c.crec
<1> DEFINE d == Emptied(c, size)  chain == [b \in 1..size |-> <<>>]
<1>1. /\ c \in Caches /\ Kinds(c) /\ Chained(c, F) /\ OnList(c, F) /\ Counted(c)
  BY SoundParts
<1>2. chain \in Seq(Seq(Rec)) /\ Len(chain) = size /\ size \in DOMAIN Hash /\ DOMAIN chain = 1..size
  <2> DEFINE S == Seq(Rec)
  <2>1. <<>> \in S /\ size \in Nat /\ size \in DOMAIN Hash
    BY CacheAssumption
  <2> HIDE DEF S
  <2>2. chain \in Seq(S) /\ Len(chain) = size /\ DOMAIN chain = 1..size
    BY <2>1
  <2> QED BY <2>1, <2>2 DEF S
<1>3. \A b \in 1..size : chain[b] = <<>>
  OBVIOUS
<1>4. d = [c EXCEPT !.chain = chain]
  BY DEF Emptied
<1> HIDE DEF chain, d
<1>5. /\ d \in Caches /\ d.crec = c.crec /\ d.lru = c.lru /\ d.chain = chain
      /\ d.fresh = c.fresh /\ d.big = c.big
  BY <1>1, <1>2, <1>4 DEF Caches
<1>6. Kinds(d) /\ Counted(d) /\ InUse(d) = InUse(c)
      /\ \A r : FlagsOf(d, r) = FlagsOf(c, r) /\ (Live(d, r) <=> Live(c, r))
  BY <1>1, <1>5, ListsOnly
<1>7. Same(c, d, Rec)
  BY <1>5, <1>6 DEF Same
<1>8. OnList(d, F)
  BY <1>1, <1>5, <1>6, OnListSame
<1>9. Hashed(d) = {}
  <2>1. \A b \in 1..size : Range(chain[b]) = {}
    BY <1>3 DEF Range
  <2> QED BY <1>2, <1>5, <2>1 DEF Hashed
<1>10. Chained(d, F \cup Hashed(c))
  <2>1. Hashed(c) = InUse(c) \ F
    BY <1>1 DEF Chained
  <2>2. Hashed(d) = InUse(d) \ (F \cup Hashed(c))
    BY <1>6, <1>9, <2>1
  <2>3. ASSUME NEW b \in 1..Len(d.chain) PROVE InBucket(d, b)
    <3>1. d.chain[b] = <<>>
      BY <1>2, <1>3, <1>5
    <3>2. Range(<<>>) = {} /\ Single(<<>>) /\ \A x, y : ~Ahead(<<>>, x, y)
      BY DEF Range, Single, Ahead
    <3> QED BY <3>1, <3>2 DEF InBucket
  <2> QED BY <2>2, <2>3 DEF Chained
<1> QED
  BY <1>5, <1>6, <1>7, <1>8, <1>10 DEF Sound, d

Rehashed(c, size) == FoldLeft(CacheHash, Emptied(c, size), FlattenSeq(c.chain))

LEMMA RehashFold ==
    ASSUME NEW c, NEW F, Sound(c, F, F), F \subseteq Rec, NEW size \in {1, 2}
    PROVE  LET result == Rehashed(c, size) IN
           /\ result \in Caches
           /\ Rehashing(c, F, FlattenSeq(c.chain),
                         1..Len(FlattenSeq(c.chain)), result)
<1> DEFINE seq == FlattenSeq(c.chain)
           n == Len(seq)
           op(v, e) == CacheHash(v, e)
           holds(T, v) == Rehashing(c, F, FlattenSeq(c.chain), T, v)
           base == Emptied(c, size)
           it == CHOOSE iter : iter = [S \in SUBSET DOMAIN seq |->
                    IF S = {} THEN base ELSE op(iter[S \ {Max(S)}], seq[Max(S)])]
           Good == {g \in (SUBSET (1..n)) \X Caches : holds(g[1], g[2])}
           W == Caches \cup {it[S] : S \in SUBSET (1..n)}
           step == [x \in (1..n) \X W |-> op(x[2], seq[x[1]])]
           total == Rehashed(c, size)
<1>1. n \in Nat /\ DOMAIN seq = 1..n /\ seq \in Seq(Rec)
  <2> QED BY AllChains DEF WalkOf
<1>2. total = it[1..n]
  <2>1. total = it[DOMAIN seq]
    BY DEF Rehashed, FoldLeft, MapThenFoldSet
  <2> HIDE DEF total, it
  <2> QED BY <1>1, <2>1
<1> HIDE DEF total
<1>3. <<{}, base>> \in Good
  <2>1. Left(seq, {}) = Hashed(c)
    BY <1>1, AllChains, LeftIs
  <2> HIDE DEF base, seq
  <2>2. Sound(base, F, F \cup Left(seq, {})) /\ Same(c, base, Rec) /\ base.fresh = c.fresh
        /\ base.crec = c.crec
    BY <2>1, EmptiedSound DEF base
  <2>3. base \in Caches
    BY <2>2, SoundParts
  <2>4. Rehashing(c, F, seq, {}, base)
    BY <2>2 DEF Rehashing
  <2> QED BY <2>3, <2>4 DEF seq
<1>4. ASSUME NEW j \in 1..n, NEW S \in SUBSET (1..(j - 1)), NEW v, <<S, v>> \in Good
      PROVE  <<S \cup {j}, step[<<j, v>>]>> \in Good
  <2>1. v \in Caches /\ holds(S, v) /\ S \cup {j} \in SUBSET (1..n)
    BY <1>1, <1>4
  <2>2. step[<<j, v>>] = op(v, seq[j])
    <3>1. <<j, v>> \in (1..n) \X W
      BY <2>1
    <3> HIDE DEF W, n, seq
    <3> QED BY <3>1
  <2>3. op(v, seq[j]) \in Caches /\ holds(S \cup {j}, op(v, seq[j]))
    <3>1. seq \in Seq(Rec) /\ Single(seq) /\ Range(seq) = Hashed(c)
      BY AllChains DEF WalkOf
    <3>2. Range(seq) = InUse(c) \ F
      BY <3>1, SoundParts DEF Chained
    <3>3. j \in 1..Len(seq) /\ Rehashing(c, F, seq, S, v)
      BY <2>1
    <3> HIDE DEF seq, n
    <3>4. Rehashing(c, F, seq, S \cup {j}, CacheHash(v, seq[j]))
      BY <3>1, <3>2, <3>3, RehashSteps
    <3>5. CacheHash(v, seq[j]) \in Caches
      BY <3>4, SoundParts DEF Rehashing
    <3> QED BY <3>4, <3>5 DEF seq
  <2> HIDE DEF step, n, seq
  <2> QED BY <2>1, <2>2, <2>3
<1>5. \A j \in 1..n : \A S \in SUBSET (1..(j - 1)) : \A v :
         <<S, v>> \in Good => <<S \cup {j}, step[<<j, v>>]>> \in Good
  <2> HIDE DEF Good, step, n
  <2> QED BY <1>4
<1>6. \A S, v : <<S, v>> \in Good => v \in W
  OBVIOUS
<1>7. \A j \in 1..n, v \in W : step[<<j, v>>] = op(v, seq[j])
  <2> HIDE DEF W, n, seq
  <2> QED OBVIOUS
<1>8. \A S \in SUBSET (1..n) : it[S] \in W
  <2> HIDE DEF it, n
  <2> QED OBVIOUS
<1>9. PICK some : Iterates(some, n, base, step)
  <2> HIDE DEF n, base, step
  <2> QED BY <1>1, IterateAny
<1>10. \A S \in SUBSET (1..n) : <<S, some[S]>> \in Good
  <2> HIDE DEF n, base, step, Good
  <2> QED BY <1>1, <1>3, <1>5, <1>9, IteratesKeep
<1> HIDE DEF Good, W, step
<1>11. ASSUME NEW S \in SUBSET (1..n), S # {}
       PROVE  Max(S) \in 1..n /\ S \ {Max(S)} \in SUBSET (1..n)
  BY <1>1, <1>11, MaxPlace
<1>12. some = [S \in SUBSET DOMAIN seq |->
                 IF S = {} THEN base ELSE op(some[S \ {Max(S)}], seq[Max(S)])]
  <2>1. ASSUME NEW S \in SUBSET (1..n), S # {}
        PROVE  step[<<Max(S), some[S \ {Max(S)}]>>] = op(some[S \ {Max(S)}], seq[Max(S)])
    <3> DEFINE j == Max(S)  v == some[S \ {Max(S)}]
    <3>1. j \in 1..n /\ v \in W
      BY <1>6, <1>10, <1>11, <2>1
    <3> HIDE DEF j, v
    <3>2. step[<<j, v>>] = op(v, seq[j])
      BY <1>7, <3>1
    <3> QED BY <3>2 DEF j, v
  <2>2. some = [S \in SUBSET (1..n) |->
                  IF S = {} THEN base ELSE step[<<Max(S), some[S \ {Max(S)}]>>]]
    BY <1>9 DEF Iterates
  <2> HIDE DEF n, base, seq
  <2> QED BY <1>1, <2>1, <2>2
<1>13. it = [S \in SUBSET DOMAIN seq |->
               IF S = {} THEN base ELSE op(it[S \ {Max(S)}], seq[Max(S)])]
  <2> HIDE DEF n, base, seq
  <2> QED BY <1>12
<1> HIDE DEF it
<1>14. Iterates(it, n, base, step)
  <2>1. ASSUME NEW S \in SUBSET (1..n), S # {}
        PROVE  step[<<Max(S), it[S \ {Max(S)}]>>] = op(it[S \ {Max(S)}], seq[Max(S)])
    <3> DEFINE j == Max(S)  v == it[S \ {Max(S)}]
    <3>1. j \in 1..n /\ v \in W
      BY <1>8, <1>11, <2>1
    <3> HIDE DEF j, v
    <3>2. step[<<j, v>>] = op(v, seq[j])
      BY <1>7, <3>1
    <3> QED BY <3>2 DEF j, v
  <2> HIDE DEF n, base, seq
  <2> QED BY <1>1, <1>13, <2>1 DEF Iterates
<1>15. <<1..n, it[1..n]>> \in Good
  <2> HIDE DEF n, base, seq
  <2> QED BY <1>1, <1>3, <1>5, <1>14, IteratesKeep
<1> QED
  BY <1>2, <1>15 DEF Good, total

LEMMA RehashWhole ==
    ASSUME NEW c, Whole(c), NEW size \in {1, 2}
    PROVE  Whole(Rehash(c, size))
<1>1. CASE size <= Len(c.chain)
  BY <1>1 DEF Rehash
<1>2. CASE ~(size <= Len(c.chain))
  <2> DEFINE F == Range(c.fresh)  walk == FlattenSeq(c.chain)  d == Rehashed(c, size)
  <2>1. Sound(c, F, F) /\ F \subseteq Rec /\ Single(c.fresh) /\ \A r \in F : Live(c, r)
    BY WholeParts
  <2> HIDE DEF F
  <2>2. Rehashing(c, F, walk, 1..Len(walk), d)
    BY <2>1, RehashFold
  <2>3. walk \in Seq(Rec)
    BY <2>1, AllChains DEF WalkOf
  <2> HIDE DEF walk
  <2>4. Left(walk, 1..Len(walk)) = {}
    BY <2>3, LeftIs
  <2>5. Rehash(c, size) = d
    BY <1>2 DEF Rehash, Rehashed, Emptied
  <2> HIDE DEF d
  <2>6. Sound(d, F, F) /\ Same(c, d, Rec) /\ d.fresh = c.fresh /\ d.crec = c.crec
    <3>1. F \cup Left(walk, 1..Len(walk)) = F
      BY <2>4
    <3> QED BY <2>2, <3>1 DEF Rehashing
  <2>7. \A r \in F : Live(d, r)
    BY <2>1, <2>6, SameIs DEF Same
  <2>8. Aimed(d)
    <3>1. Aims(c, d, {})
      BY <2>6, SameAims
    <3> QED BY <3>1 DEF Aims, Whole
  <2> QED BY <2>1, <2>5, <2>6, <2>7, <2>8 DEF Whole, Held, F
<1> QED
  BY <1>1, <1>2

-----------------------------------------------------------------------------
(* /etc/hosts and the leases *)

(* The records of gone are taken off the chains. *)
Lacks(c, d, F, gone) ==
    /\ d \in Caches /\ d.lru = c.lru /\ d.fresh = c.fresh /\ d.big = c.big
    /\ \A r \in gone : FlagsOf(d, r) = {} /\ d.crec[r].target = NoRec
    /\ \A r \in Rec \ gone : d.crec[r] = c.crec[r]
    /\ Kinds(d) /\ Chained(d, F)

LEMMA WithoutChains ==
    ASSUME NEW c, NEW F, Sound(c, F, F), NEW gone \in SUBSET Hashed(c)
    PROVE  LET d == Without(c, gone) IN
           /\ d \in Caches /\ d.lru = c.lru /\ d.fresh = c.fresh /\ d.big = c.big
           /\ \A r \in gone : FlagsOf(d, r) = {} /\ d.crec[r].target = NoRec
           /\ \A r \in Rec \ gone : d.crec[r] = c.crec[r]
           /\ Len(d.chain) = Len(c.chain)
           /\ \A b \in 1..Len(c.chain) :
                /\ Single(d.chain[b]) /\ Range(d.chain[b]) = Range(c.chain[b]) \ gone
                /\ \A x, y : Ahead(d.chain[b], x, y) => Ahead(c.chain[b], x, y)
<1> DEFINE crec  == [r \in Rec |-> IF r \in gone THEN FreeCrec ELSE c.crec[r]]
           sift(b) == Sifted(c.chain[b], {i \in DOMAIN c.chain[b] : c.chain[b][i] \notin gone})
           chain == [b \in DOMAIN c.chain |-> sift(b)]
           d == Without(c, gone)
<1>1. /\ c \in Caches /\ Kinds(c) /\ Chained(c, F) /\ c.crec \in [Rec -> Crec]
  BY SoundParts
<1>2. /\ DOMAIN c.chain = 1..Len(c.chain) /\ Len(c.chain) \in Nat /\ Len(c.chain) \in DOMAIN Hash
      /\ \A b \in 1..Len(c.chain) : c.chain[b] \in Seq(Rec)
  BY <1>1, ChainParts
<1>3. d = [c EXCEPT !.crec = crec, !.chain = chain]
  BY DEF Without
<1>4. ASSUME NEW b \in 1..Len(c.chain)
      PROVE  /\ sift(b) \in Seq(Rec) /\ Single(sift(b)) /\ Range(sift(b)) = Range(c.chain[b]) \ gone
             /\ \A x, y : Ahead(sift(b), x, y) => Ahead(c.chain[b], x, y)
  <2> DEFINE s == c.chain[b]
  <2>1. s \in Seq(Rec) /\ Single(s)
    BY <1>1, <1>2 DEF Chained, InBucket
  <2> HIDE DEF s
  <2>2. LET u == Sifted(s, {i \in DOMAIN s : s[i] \notin gone}) IN
        /\ u \in Seq(Rec) /\ Single(u) /\ Range(u) = Range(s) \ gone
        /\ \A x, y : Ahead(u, x, y) => Ahead(s, x, y)
    BY <2>1, SiftedOut
  <2> QED BY <2>2 DEF s
<1>5. crec \in [Rec -> Crec]
  BY <1>1, FreeIs
<1>6. chain \in Seq(Seq(Rec)) /\ Len(chain) = Len(c.chain)
      /\ \A b \in 1..Len(c.chain) : chain[b] = sift(b)
  <2> DEFINE S == Seq(Rec)  n == Len(c.chain)
  <2>1. n \in Nat /\ \A b \in 1..n : sift(b) \in S
    BY <1>2, <1>4
  <2>2. chain = [b \in 1..n |-> sift(b)]
    BY <1>2
  <2> HIDE DEF S, n, sift, chain
  <2>3. chain \in Seq(S) /\ Len(chain) = n /\ \A b \in 1..n : chain[b] = sift(b)
    BY <2>1, <2>2
  <2> QED BY <2>3 DEF S, n
<1>7. /\ \A r \in gone : crec[r].flags = {} /\ crec[r].target = NoRec
      /\ \A r \in Rec \ gone : crec[r] = c.crec[r]
  BY <1>1, FreeIs, ChainParts
<1> HIDE DEF crec, chain, sift, d
<1>8. /\ d \in Caches /\ d.crec = crec /\ d.lru = c.lru /\ d.chain = chain
      /\ d.fresh = c.fresh /\ d.big = c.big
  BY <1>1, <1>2, <1>3, <1>5, <1>6 DEF Caches
<1> QED
  BY <1>4, <1>6, <1>7, <1>8 DEF FlagsOf, d

LEMMA WithoutLacks ==
    ASSUME NEW c, NEW F, Sound(c, F, F), NEW gone \in SUBSET Hashed(c)
    PROVE  Lacks(c, Without(c, gone), F, gone)
<1> DEFINE d == Without(c, gone)
<1>1. /\ c \in Caches /\ Kinds(c) /\ Chained(c, F) /\ Hashed(c) = InUse(c) \ F
  BY SoundParts DEF Chained
<1>2. /\ d \in Caches /\ d.lru = c.lru /\ d.fresh = c.fresh /\ d.big = c.big
      /\ \A r \in gone : FlagsOf(d, r) = {} /\ d.crec[r].target = NoRec
      /\ \A r \in Rec \ gone : d.crec[r] = c.crec[r]
      /\ Len(d.chain) = Len(c.chain)
      /\ \A b \in 1..Len(c.chain) :
           /\ Single(d.chain[b]) /\ Range(d.chain[b]) = Range(c.chain[b]) \ gone
           /\ \A x, y : Ahead(d.chain[b], x, y) => Ahead(c.chain[b], x, y)
  BY WithoutChains
<1> HIDE DEF d
<1>3. \A r \in Rec \ gone : FlagsOf(d, r) = FlagsOf(c, r) /\ d.crec[r].name = c.crec[r].name
  BY <1>2 DEF FlagsOf
<1>4. /\ \A r \in Rec \ gone : (Live(d, r) <=> Live(c, r)) /\ (Local(d, r) <=> Local(c, r))
                               /\ Zone(d, r) = Zone(c, r)
      /\ \A r \in gone : ~Live(d, r)
  <2>1. \A r \in gone : ~Live(d, r)
    BY <1>2 DEF Live
  <2> QED BY <1>3, <2>1, SameIs
<1>5. Kinds(d)
  BY <1>1, <1>2, <1>3, <1>4 DEF Kinds
<1>6. Hashed(d) = Hashed(c) \ gone
  <2>1. /\ Hashed(d) = UNION {Range(d.chain[b]) : b \in 1..Len(c.chain)}
        /\ Hashed(c) = UNION {Range(c.chain[b]) : b \in 1..Len(c.chain)}
    BY <1>1, <1>2, ChainParts DEF Hashed
  <2> QED BY <1>2, <2>1
<1>7. Hashed(d) = InUse(d) \ F
  <2>1. gone \subseteq Rec
    BY <1>1, ChainParts
  <2> QED BY <1>1, <1>4, <1>6, <2>1 DEF InUse
<1>8. ASSUME NEW b \in 1..Len(d.chain) PROVE InBucket(d, b)
  <2>1. b \in 1..Len(c.chain) /\ InBucket(c, b)
    BY <1>1, <1>2, <1>8 DEF Chained
  <2>2. \A r \in Range(d.chain[b]) : r \in Range(c.chain[b]) /\ r \in Rec \ gone
    BY <1>1, <1>2, <2>1, ChainParts
  <2>3. \A r \in Range(d.chain[b]) : BucketOf(d, d.crec[r].name) = b
    BY <1>2, <1>3, <2>1, <2>2 DEF InBucket, BucketOf
  <2>4. ASSUME NEW x, NEW y, Ahead(d.chain[b], x, y) PROVE Zone(d, x) <= Zone(d, y)
    <3>1. x \in Range(d.chain[b]) /\ y \in Range(d.chain[b])
      <4> DEFINE s == d.chain[b]
      <4>1. s \in Seq(Rec)
        BY <1>2, ChainParts, <1>8
      <4> HIDE DEF s
      <4>2. Ahead(s, x, y) => x \in Range(s) /\ y \in Range(s)
        BY <4>1 DEF Ahead, Range
      <4> QED BY <2>4, <4>2 DEF s
    <3>2. Zone(c, x) <= Zone(c, y)
      BY <1>2, <2>1, <2>4 DEF InBucket
    <3> QED BY <1>4, <2>2, <3>1, <3>2
  <2> QED BY <1>2, <2>1, <2>3, <2>4 DEF InBucket
<1>9. Chained(d, F)
  BY <1>7, <1>8 DEF Chained
<1> QED
  BY <1>2, <1>5, <1>9 DEF Lacks, d

(* What is left points to none of those that are gone. *)
LEMMA LacksAims ==
    ASSUME NEW c, Aimed(c), NEW d, NEW F, NEW gone, Lacks(c, d, F, gone),
           \A r \in Rec \ gone : c.crec[r].target \notin gone
    PROVE  Aimed(d)
<1>1. /\ d.fresh = c.fresh
      /\ \A r \in gone : d.crec[r].target = NoRec
      /\ \A r \in Rec \ gone : d.crec[r] = c.crec[r]
  BY DEF Lacks
<1>2. ASSUME NEW r \in Rec, d.crec[r].target # NoRec
      PROVE  /\ d.crec[r].target = c.crec[r].target
             /\ Stays(c, d, r) /\ Stays(c, d, d.crec[r].target)
  <2>1. r \notin gone /\ d.crec[r] = c.crec[r]
    BY <1>1, <1>2
  <2>2. c.crec[r].target \in Rec /\ c.crec[r].target \notin gone
    BY <1>2, <2>1, Constants DEF Aimed, AimedAt
  <2>3. d.crec[c.crec[r].target] = c.crec[c.crec[r].target]
    BY <1>1, <2>2
  <2> QED BY <2>1, <2>3 DEF Stays, FlagsOf
<1> QED
  BY <1>1, <1>2, AimedStays

(* cache_unhash_dhcp. *)
LEMMA UnhashDhcpWhole ==
    ASSUME NEW c, Whole(c)
    PROVE  Whole(UnhashDhcp(c))
<1> DEFINE F == Range(c.fresh)  gone == {r \in Hashed(c) : "dhcp" \in FlagsOf(c, r)}
           d == UnhashDhcp(c)
<1>1. /\ Sound(c, F, F) /\ Single(c.fresh) /\ F \subseteq CacheRec /\ F \subseteq Rec
      /\ c \in Caches /\ \A r \in F : Live(c, r)
  BY WholeParts
<1>2. Kinds(c) /\ OnList(c, F) /\ Counted(c) /\ Hashed(c) = InUse(c) \ F
  BY <1>1, SoundParts DEF Chained
<1>3. \A r \in CacheRec : r \notin gone /\ r \in Rec
  BY <1>2, Constants DEF Kinds, Local, InUse
<1>4. d = Without(c, gone)
  BY DEF UnhashDhcp
<1> HIDE DEF F, d
<1>5. Lacks(c, d, F, gone)
  BY <1>1, <1>4, WithoutLacks
<1>11. Aimed(d)
  <2>1. gone \subseteq Rec /\ Aimed(c)
    BY <1>1, ChainParts DEF Whole
  <2>2. \A r \in Rec : c.crec[r].target \notin gone
    BY <1>3, <2>1, Constants DEF Aimed, AimedAt
  <2> HIDE DEF gone
  <2> QED BY <1>5, <2>1, <2>2, LacksAims
<1> HIDE DEF gone
<1>6. \A r \in CacheRec : FlagsOf(d, r) = FlagsOf(c, r) /\ (Live(d, r) <=> Live(c, r))
  BY <1>3, <1>5 DEF Lacks, FlagsOf, Live
<1>7. OnList(d, F)
  BY <1>2, <1>5, <1>6, OnListSame DEF Lacks
<1>8. Counted(d)
  <2>1. Bigs(d) = Bigs(c)
    BY <1>6 DEF Bigs
  <2> QED BY <1>2, <1>5, <2>1, CountedSame DEF Lacks
<1>9. Sound(d, F, F)
  BY <1>5, <1>7, <1>8 DEF Sound, Lacks
<1>10. \A r \in F : Live(d, r)
  BY <1>1, <1>6
<1> QED
  BY <1>1, <1>5, <1>9, <1>10, <1>11 DEF Whole, Held, Lacks, F, d

(* The clearing of cache_reload. *)
LEMMA ClearedWhole ==
    ASSUME NEW c, Whole(c)
    PROVE  Whole(Cleared(c))
<1> DEFINE F == Range(c.fresh)  gone == {r \in Hashed(c) : "dhcp" \notin FlagsOf(c, r)}
           G == {r \in Hashed(c) : "big" \in FlagsOf(c, r)}
           w == Without(c, gone)  d == [w EXCEPT !.big = @ + Cardinality(G)]
<1>1. /\ Sound(c, F, F) /\ Single(c.fresh) /\ F \subseteq CacheRec /\ F \subseteq Rec
      /\ c \in Caches /\ \A r \in F : Live(c, r)
  BY WholeParts
<1>2. Kinds(c) /\ OnList(c, F) /\ Counted(c) /\ Hashed(c) = InUse(c) \ F
  BY <1>1, SoundParts DEF Chained
<1>3. Cleared(c) = d
  BY DEF Cleared
<1>4. \A r \in CacheRec : r \in Hashed(c) => r \in gone
  BY <1>2, Constants DEF Kinds, Local, InUse
<1>5. \A r \in F : r \notin gone
  BY <1>2
<1>6. gone \in SUBSET Hashed(c) /\ gone \subseteq Rec
  BY <1>1, ChainParts
<1>7. G = Bigs(c) \ (Bigs(c) \ gone) /\ Bigs(c) \cap gone = G
  BY <1>2, <1>4, ChainParts, Constants DEF Kinds, Bigs, InUse
<1> HIDE DEF F, gone, G, w
<1>8. Lacks(c, w, F, gone)
  BY <1>1, <1>6, WithoutLacks DEF w
<1>9. /\ d \in Caches /\ d.crec = w.crec /\ d.lru = w.lru /\ d.chain = w.chain
      /\ d.fresh = w.fresh /\ d.big = w.big + Cardinality(G)
  <2>1. w \in Caches /\ IsFiniteSet(G)
    <3>1. IsFiniteSet(Bigs(c))
      BY Constants, FS_Subset DEF Bigs
    <3> QED BY <1>7, <1>8, <3>1, FS_Difference DEF Lacks
  <2> DEFINE big == w.big + Cardinality(G)
  <2>2. big \in Int /\ d = [w EXCEPT !.big = big]
    <3>1. Cardinality(G) \in Nat /\ w.big \in Int
      BY <2>1, FS_CardinalityType DEF Caches
    <3> QED BY <3>1
  <2> HIDE DEF big, d
  <2>3. /\ d \in Caches /\ d.crec = w.crec /\ d.lru = w.lru /\ d.chain = w.chain
        /\ d.fresh = w.fresh /\ d.big = big
    BY <2>1, <2>2 DEF Caches
  <2> QED BY <2>3 DEF big
<1> HIDE DEF d
<1>10. /\ \A r \in Rec \ gone : FlagsOf(d, r) = FlagsOf(c, r) /\ (Live(d, r) <=> Live(c, r))
       /\ \A r \in gone : FlagsOf(d, r) = {} /\ ~Live(d, r)
  BY <1>8, <1>9 DEF Lacks, FlagsOf, Live
<1>11. Kinds(d)
  BY <1>8, <1>9 DEF Lacks, Kinds, Live, Local, FlagsOf
<1>12. Chained(d, F)
  <2>1. Hashed(d) = Hashed(w) /\ InUse(d) = InUse(w) /\ w \in Caches /\ Chained(w, F)
    BY <1>8, <1>9 DEF Lacks, Hashed, InUse, Live, FlagsOf
  <2>2. Same(w, d, Hashed(w))
    BY <1>9 DEF Same, FlagsOf
  <2>3. Hashed(w) = InUse(d) \ F
    BY <2>1 DEF Chained
  <2> QED BY <1>9, <2>1, <2>2, <2>3, ChainedSame
<1>13. OnList(d, F)
  <2>1. \A r \in CacheRec \ F : ~Live(d, r)
    BY <1>2, <1>4, <1>10, Constants DEF InUse
  <2>2. \A x, y : Ahead(c.lru, x, y) => y \in CacheRec \ F
    <3>1. Range(c.lru) = CacheRec \ F
      BY <1>2 DEF OnList
    <3> QED BY <3>1 DEF Ahead, Range
  <2> QED BY <1>2, <1>8, <1>9, <2>1, <2>2 DEF OnList, Lacks
<1>14. Counted(d)
  <2> DEFINE B == Bigs(c)
  <2>1. Bigs(d) = B \ gone
    BY <1>10, Constants DEF Bigs
  <2>2. IsFiniteSet(B)
    BY Constants, FS_Subset DEF Bigs
  <2>3. B \cap gone = G
    BY <1>7
  <2>4. c.big \in Nat /\ c.big + Cardinality(B) = Bignames
    BY <1>2 DEF Counted
  <2> HIDE DEF B
  <2>5. /\ Cardinality(B \ gone) = Cardinality(B) - Cardinality(G)
        /\ Cardinality(B) \in Nat /\ Cardinality(G) \in Nat
    <3>1. IsFiniteSet(B \cap gone)
      BY <2>2, FS_Intersection
    <3> QED BY <2>2, <2>3, <3>1, FS_Difference, FS_CardinalityType
  <2>6. d.big = c.big + Cardinality(G)
    BY <1>8, <1>9 DEF Lacks
  <2> QED BY <2>1, <2>4, <2>5, <2>6 DEF Counted
<1>15. Sound(d, F, F)
  BY <1>9, <1>11, <1>12, <1>13, <1>14 DEF Sound
<1>17. \A r \in Rec \ gone : c.crec[r].target \notin gone
  <2> SUFFICES ASSUME NEW r \in Rec \ gone, c.crec[r].target \in gone PROVE FALSE
    OBVIOUS
  <2> DEFINE x == c.crec[r].target
  <2>1. x # NoRec
    BY <1>6, Constants
  <2>2. AimedAt(c, r, x)
    BY <2>1 DEF Aimed, Whole
  <2> HIDE DEF x
  <2>3. r \in CacheRec /\ Live(c, r) /\ (r \in F <=> x \in F)
    BY <2>2 DEF AimedAt, F
  <2>4. r \notin Hashed(c)
    BY <1>4, <2>3
  <2>5. r \in F
    BY <1>2, <2>3, <2>4, Constants DEF InUse
  <2> QED BY <1>5, <2>3, <2>5 DEF x
<1>18. Aimed(d)
  <2>1. Aimed(w)
    BY <1>8, <1>17, LacksAims DEF Whole
  <2>2. Aims(w, d, {})
    BY <1>9, SameAims
  <2> QED BY <2>1, <2>2 DEF Aims
<1>16. d.fresh = c.fresh /\ \A r \in F : Live(d, r)
  BY <1>1, <1>5, <1>8, <1>9, <1>10 DEF Lacks
<1> QED
  BY <1>1, <1>3, <1>15, <1>16, <1>18 DEF Whole, Held, F

(* A record of /etc/hosts or of a lease. *)
LEMMA NewLocalWhole ==
    ASSUME NEW c, Whole(c), NEW recs \in {HostsRec, DhcpRec}, NEW flags \in SUBSET (Flag \ {"big"}),
           flags \cap {"forward", "reverse"} # {}, flags \cap {"hosts", "dhcp"} # {},
           NEW name \in AnyName, NEW addr \in Addr, NEW ttl \in 0..MaxTtl
    PROVE  Whole(NewLocal(c, recs, flags, name, addr, ttl))
<1>1. CASE recs \subseteq Hashed(c)
  BY <1>1 DEF NewLocal
<1>2. CASE ~(recs \subseteq Hashed(c))
  <2> DEFINE F == Range(c.fresh)  R == recs \ Hashed(c)  r == Min(R)
             e == LocalCrec(flags, name, addr, ttl)  m == [c EXCEPT !.crec[r] = e]
             h == CacheHash(m, r)  W == F \cup {r}
  <2>1. /\ Sound(c, F, F) /\ Single(c.fresh) /\ F \subseteq CacheRec /\ F \subseteq Rec
        /\ c \in Caches /\ \A x \in F : Live(c, x)
    BY WholeParts
  <2>2. NewLocal(c, recs, flags, name, addr, ttl) = h
    BY <1>2 DEF NewLocal, NewLocalIn
  <2>3. r \in Rec /\ r \notin CacheRec /\ r \notin Hashed(c) /\ r \notin F
    <3>1. R # {} /\ R \in SUBSET Nat /\ recs \subseteq Rec /\ recs \cap CacheRec = {}
      BY <1>2, Constants
    <3>2. r \in R
      <4> HIDE DEF R
      <4> QED BY <3>1, MinInSet
    <3> QED BY <2>1, <3>1, <3>2
  <2>4. e \in Crec /\ e.flags = flags /\ e.name = name /\ LocalFlags(e.flags) /\ e.flags # {}
    <3>1. flags \in SUBSET Flag
      OBVIOUS
    <3>2. NoRec \in CacheRec \cup {NoRec} /\ NoName \in AnyName
      BY DEF AnyName
    <3>3. e \in Crec /\ e.flags = flags /\ e.name = name
      BY <3>1, <3>2 DEF LocalCrec, Crec
    <3> QED BY <3>3 DEF LocalFlags
  <2>15. e.target = NoRec
    BY DEF LocalCrec
  <2> HIDE DEF F, r, e, h, m
  <2>5. Made(c, m, r, e)
    BY <2>1, <2>3, <2>4, MadeIs DEF m
  <2>6. /\ Sound(m, F, OffChain(F, r, e)) /\ m.fresh = c.fresh /\ Hashed(m) = Hashed(c)
        /\ m.crec[r] = e /\ \A x \in Rec : x # r => Same(c, m, {x})
    BY <2>1, <2>3, <2>4, <2>5, LocalSound
  <2>7. OffChain(F, r, e) = W
    BY <2>4 DEF OffChain
  <2>8. Live(m, r)
    BY <2>4, <2>6 DEF Live, FlagsOf
  <2> HIDE DEF W
  <2>9. Hashes(m, h, F, W, r)
    BY <2>3, <2>6, <2>7, <2>8, CacheHashSound DEF h
  <2>10. Sound(h, F, F) /\ h.fresh = c.fresh
    <3>1. W \ {r} = F
      BY <2>3 DEF W
    <3> QED BY <2>6, <2>9, <3>1 DEF Hashes
  <2>11. \A x \in F : Live(h, x)
    <3>1. \A x \in F : FlagsOf(h, x) = FlagsOf(c, x)
      BY <2>1, <2>3, <2>6, <2>9 DEF Hashes, Same
    <3> QED BY <2>1, <3>1 DEF Live
  <2>12. Aimed(h)
    <3>1. Aims(c, m, {})
      BY <2>3, <2>5, <2>15, ApartAims DEF Made
    <3>2. h.crec = m.crec /\ h.fresh = m.fresh
      BY <2>9 DEF Hashes
    <3>3. Aims(m, h, {})
      BY <3>2, SameAims
    <3> QED BY <3>1, <3>3 DEF Aims, Whole
  <2> QED BY <2>1, <2>2, <2>10, <2>11, <2>12 DEF Whole, Held, F
<1> QED
  BY <1>1, <1>2

LEMMA FindByNameWhole ==
    ASSUME NEW c, Whole(c), NEW name \in AnyName, NEW prot, NEW now
    PROVE  LET f == FindByName(c, name, prot, now) IN Whole(f.cache) /\ f.found \in Seq(Rec)
<1> DEFINE F == Range(c.fresh)  f == FindByName(c, name, prot, now)
<1>1. Sound(c, F, F) /\ F \subseteq F /\ F \subseteq Rec
  BY WholeParts
<1> HIDE DEF F
<1>2. Keeps(c, f.cache, F, F) /\ f.found \in Seq(Rec)
  BY <1>1, FindByNameKeeps
<1> HIDE DEF f
<1>3. Whole(f.cache)
  BY <1>2, WholeKept DEF F
<1> QED
  BY <1>2, <1>3 DEF f

LEMMA FindByAddrWhole ==
    ASSUME NEW c, Whole(c), NEW addr, NEW prot, NEW now
    PROVE  LET f == FindByAddr(c, addr, prot, now) IN Whole(f.cache) /\ f.found \in Seq(Rec)
<1> DEFINE F == Range(c.fresh)  f == FindByAddr(c, addr, prot, now)
<1>1. Sound(c, F, F) /\ F \subseteq F /\ F \subseteq Rec
  BY WholeParts
<1> HIDE DEF F
<1>2. Keeps(c, f.cache, F, F) /\ f.found \in Seq(Rec)
  BY <1>1, FindByAddrKeeps
<1> HIDE DEF f
<1>3. Whole(f.cache)
  BY <1>2, WholeKept DEF F
<1> QED
  BY <1>2, <1>3 DEF f

LEMMA ScanForwardWhole ==
    ASSUME NEW c, Whole(c), NEW name \in AnyName, NEW flags, NEW now
    PROVE  Whole(ScanForward(c, name, flags, now).cache)
<1> DEFINE F == Range(c.fresh)  s == ScanForward(c, name, flags, now)
<1>1. Sound(c, F, F) /\ F \subseteq F /\ F \subseteq Rec
  BY WholeParts
<1> HIDE DEF F
<1>2. Keeps(c, s.cache, F, F)
  BY <1>1, ScanForwardKeeps
<1> HIDE DEF s
<1>3. Whole(s.cache)
  BY <1>2, WholeKept DEF F
<1> QED
  BY <1>3 DEF s

(* add_hosts_entry. *)
LEMMA AddHostsWhole ==
    ASSUME NEW c, Whole(c), NEW name \in Name, NEW addr \in Addr, NEW family \in Family, NEW dup
    PROVE  Whole(AddHosts(c, name, addr, family, dup))
<1> DEFINE f == FindByName(c, name, {family}, FALSE)
           taken == \/ dup
                    \/ \E r \in Hashed(f.cache) : HasAddress(f.cache, r, addr, {"hosts", family})
           flags == {"hosts", "immortal", "forward", family} \cup
                    (IF taken THEN {} ELSE {"reverse"})
<1>1. name \in AnyName /\ 0 \in 0..MaxTtl
  BY CacheAssumption DEF AnyName
<1>2. Whole(f.cache)
  BY <1>1, FindByNameWhole
<1>3. \/ AddHosts(c, name, addr, family, dup) = c
      \/ AddHosts(c, name, addr, family, dup) = f.cache
      \/ AddHosts(c, name, addr, family, dup) = NewLocal(f.cache, HostsRec, flags, name, addr, 0)
  BY DEF AddHosts, AddHostsTo
<1> HIDE DEF f, taken
<1>4. /\ flags \in SUBSET (Flag \ {"big"})
      /\ flags \cap {"forward", "reverse"} # {} /\ flags \cap {"hosts", "dhcp"} # {}
  <2>1. family \in {"v4", "v6"}
    BY DEF Family
  <2>2. flags \in SUBSET (Flag \ {"big"})
    BY <2>1 DEF Flag
  <2>3. "forward" \in flags /\ "hosts" \in flags
    OBVIOUS
  <2> HIDE DEF flags
  <2> QED BY <2>2, <2>3
<1> HIDE DEF flags
<1>5. Whole(NewLocal(f.cache, HostsRec, flags, name, addr, 0))
  BY <1>1, <1>2, <1>4, NewLocalWhole
<1> QED
  BY <1>2, <1>3, <1>5

Lined(c, line, dup) ==
    FoldLeft(LAMBDA d, name : AddHosts(d, name, line.addr, line.family, dup), c, line.names)

LEMMA LineFold ==
    ASSUME NEW c, Whole(c), NEW line \in HostsLine, NEW dup
    PROVE  LET result == Lined(c, line, dup) IN
           /\ result \in Caches
           /\ Whole(result)
<1> DEFINE seq == line.names
           n == Len(seq)
           op(v, e) == AddHosts(v, e, line.addr, line.family, dup)
           holds(T, v) == Whole(v)
           base == c
           it == CHOOSE iter : iter = [S \in SUBSET DOMAIN seq |->
                    IF S = {} THEN base ELSE op(iter[S \ {Max(S)}], seq[Max(S)])]
           Good == {g \in (SUBSET (1..n)) \X Caches : holds(g[1], g[2])}
           W == Caches \cup {it[S] : S \in SUBSET (1..n)}
           step == [x \in (1..n) \X W |-> op(x[2], seq[x[1]])]
           total == Lined(c, line, dup)
<1>1. n \in Nat /\ DOMAIN seq = 1..n /\ seq \in Seq(Name)
  <2>1. line.names \in Seq(Name)
    BY DEF HostsLine
  <2> QED BY <2>1
<1>2. total = it[1..n]
  <2>1. total = it[DOMAIN seq]
    BY DEF Lined, FoldLeft, MapThenFoldSet
  <2> HIDE DEF total, it
  <2> QED BY <1>1, <2>1
<1> HIDE DEF total
<1>3. <<{}, base>> \in Good
  <2> QED BY WholeParts
<1>4. ASSUME NEW j \in 1..n, NEW S \in SUBSET (1..(j - 1)), NEW v, <<S, v>> \in Good
      PROVE  <<S \cup {j}, step[<<j, v>>]>> \in Good
  <2>1. v \in Caches /\ holds(S, v) /\ S \cup {j} \in SUBSET (1..n)
    BY <1>1, <1>4
  <2>2. step[<<j, v>>] = op(v, seq[j])
    <3>1. <<j, v>> \in (1..n) \X W
      BY <2>1
    <3> HIDE DEF W, n, seq
    <3> QED BY <3>1
  <2>3. op(v, seq[j]) \in Caches /\ holds(S \cup {j}, op(v, seq[j]))
    <3>1. seq[j] \in Name /\ line.addr \in Addr /\ line.family \in Family /\ Whole(v)
      BY <1>1, <2>1 DEF HostsLine, Family
    <3> DEFINE name == seq[j]
    <3> HIDE DEF seq, n, name
    <3>2. Whole(AddHosts(v, name, line.addr, line.family, dup))
      BY <3>1, AddHostsWhole DEF name
    <3>3. AddHosts(v, name, line.addr, line.family, dup) \in Caches
      BY <3>2, WholeParts
    <3> QED BY <3>2, <3>3 DEF name
  <2> HIDE DEF step, n, seq
  <2> QED BY <2>1, <2>2, <2>3
<1>5. \A j \in 1..n : \A S \in SUBSET (1..(j - 1)) : \A v :
         <<S, v>> \in Good => <<S \cup {j}, step[<<j, v>>]>> \in Good
  <2> HIDE DEF Good, step, n
  <2> QED BY <1>4
<1>6. \A S, v : <<S, v>> \in Good => v \in W
  OBVIOUS
<1>7. \A j \in 1..n, v \in W : step[<<j, v>>] = op(v, seq[j])
  <2> HIDE DEF W, n, seq
  <2> QED OBVIOUS
<1>8. \A S \in SUBSET (1..n) : it[S] \in W
  <2> HIDE DEF it, n
  <2> QED OBVIOUS
<1>9. PICK some : Iterates(some, n, base, step)
  <2> HIDE DEF n, base, step
  <2> QED BY <1>1, IterateAny
<1>10. \A S \in SUBSET (1..n) : <<S, some[S]>> \in Good
  <2> HIDE DEF n, base, step, Good
  <2> QED BY <1>1, <1>3, <1>5, <1>9, IteratesKeep
<1> HIDE DEF Good, W, step
<1>11. ASSUME NEW S \in SUBSET (1..n), S # {}
       PROVE  Max(S) \in 1..n /\ S \ {Max(S)} \in SUBSET (1..n)
  BY <1>1, <1>11, MaxPlace
<1>12. some = [S \in SUBSET DOMAIN seq |->
                 IF S = {} THEN base ELSE op(some[S \ {Max(S)}], seq[Max(S)])]
  <2>1. ASSUME NEW S \in SUBSET (1..n), S # {}
        PROVE  step[<<Max(S), some[S \ {Max(S)}]>>] = op(some[S \ {Max(S)}], seq[Max(S)])
    <3> DEFINE j == Max(S)  v == some[S \ {Max(S)}]
    <3>1. j \in 1..n /\ v \in W
      BY <1>6, <1>10, <1>11, <2>1
    <3> HIDE DEF j, v
    <3>2. step[<<j, v>>] = op(v, seq[j])
      BY <1>7, <3>1
    <3> QED BY <3>2 DEF j, v
  <2>2. some = [S \in SUBSET (1..n) |->
                  IF S = {} THEN base ELSE step[<<Max(S), some[S \ {Max(S)}]>>]]
    BY <1>9 DEF Iterates
  <2> HIDE DEF n, base, seq
  <2> QED BY <1>1, <2>1, <2>2
<1>13. it = [S \in SUBSET DOMAIN seq |->
               IF S = {} THEN base ELSE op(it[S \ {Max(S)}], seq[Max(S)])]
  <2> HIDE DEF n, base, seq
  <2> QED BY <1>12
<1> HIDE DEF it
<1>14. Iterates(it, n, base, step)
  <2>1. ASSUME NEW S \in SUBSET (1..n), S # {}
        PROVE  step[<<Max(S), it[S \ {Max(S)}]>>] = op(it[S \ {Max(S)}], seq[Max(S)])
    <3> DEFINE j == Max(S)  v == it[S \ {Max(S)}]
    <3>1. j \in 1..n /\ v \in W
      BY <1>8, <1>11, <2>1
    <3> HIDE DEF j, v
    <3>2. step[<<j, v>>] = op(v, seq[j])
      BY <1>7, <3>1
    <3> QED BY <3>2 DEF j, v
  <2> HIDE DEF n, base, seq
  <2> QED BY <1>1, <1>13, <2>1 DEF Iterates
<1>15. <<1..n, it[1..n]>> \in Good
  <2> HIDE DEF n, base, seq
  <2> QED BY <1>1, <1>3, <1>5, <1>14, IteratesKeep
<1> QED
  BY <1>2, <1>15 DEF Good, total

LEMMA AddLineWhole ==
    ASSUME NEW c, Whole(c), NEW file, file \in Seq(HostsLine), NEW i \in 1..Len(file)
    PROVE  Whole(AddLine(c, file, i)) /\ AddLine(c, file, i) \in Caches
<1> DEFINE dup == i > 1 /\ file[i].addr = file[i - 1].addr /\ file[i].family = file[i - 1].family
           line == file[i]
<1>1. AddLine(c, file, i) = Lined(c, line, dup)
  BY DEF AddLine, Lined
<1>2. line \in HostsLine
  OBVIOUS
<1> HIDE DEF dup, line
<1> QED
  BY <1>1, <1>2, LineFold

(* read_hostsfile. *)
HostsRead(c, file) ==
    FoldLeft(LAMBDA d, i : AddLine(d, file, i), Cleared(c), [i \in 1..Len(file) |-> i])

LEMMA HostsFold ==
    ASSUME NEW c, Whole(c), NEW file, file \in Seq(HostsLine)
    PROVE  LET result == HostsRead(c, file) IN
           /\ result \in Caches
           /\ Whole(result)
<1> DEFINE seq == [i \in 1..Len(file) |-> i]
           n == Len(seq)
           op(v, e) == AddLine(v, file, e)
           holds(T, v) == Whole(v)
           base == Cleared(c)
           it == CHOOSE iter : iter = [S \in SUBSET DOMAIN seq |->
                    IF S = {} THEN base ELSE op(iter[S \ {Max(S)}], seq[Max(S)])]
           Good == {g \in (SUBSET (1..n)) \X Caches : holds(g[1], g[2])}
           W == Caches \cup {it[S] : S \in SUBSET (1..n)}
           step == [x \in (1..n) \X W |-> op(x[2], seq[x[1]])]
           total == HostsRead(c, file)
<1>1. n \in Nat /\ DOMAIN seq = 1..n /\ seq \in Seq(1..Len(file))
  <2> DEFINE m == Len(file)
  <2>1. m \in Nat
    OBVIOUS
  <2> HIDE DEF m
  <2>2. [i \in 1..m |-> i] \in Seq(1..m) /\ DOMAIN [i \in 1..m |-> i] = 1..m
        /\ Len([i \in 1..m |-> i]) = m
    BY <2>1
  <2> QED BY <2>1, <2>2 DEF m
<1>2. total = it[1..n]
  <2>1. total = it[DOMAIN seq]
    BY DEF HostsRead, FoldLeft, MapThenFoldSet
  <2> HIDE DEF total, it
  <2> QED BY <1>1, <2>1
<1> HIDE DEF total
<1>3. <<{}, base>> \in Good
  <2> QED BY ClearedWhole, WholeParts
<1>4. ASSUME NEW j \in 1..n, NEW S \in SUBSET (1..(j - 1)), NEW v, <<S, v>> \in Good
      PROVE  <<S \cup {j}, step[<<j, v>>]>> \in Good
  <2>1. v \in Caches /\ holds(S, v) /\ S \cup {j} \in SUBSET (1..n)
    BY <1>1, <1>4
  <2>2. step[<<j, v>>] = op(v, seq[j])
    <3>1. <<j, v>> \in (1..n) \X W
      BY <2>1
    <3> HIDE DEF W, n, seq
    <3> QED BY <3>1
  <2>3. op(v, seq[j]) \in Caches /\ holds(S \cup {j}, op(v, seq[j]))
    <3>1. seq[j] \in 1..Len(file) /\ Whole(v)
      BY <1>1, <2>1
    <3> DEFINE i == seq[j]
    <3> HIDE DEF seq, n, i
    <3>2. Whole(AddLine(v, file, i)) /\ AddLine(v, file, i) \in Caches
      BY <3>1, AddLineWhole DEF i
    <3> QED BY <3>2 DEF i
  <2> HIDE DEF step, n, seq
  <2> QED BY <2>1, <2>2, <2>3
<1>5. \A j \in 1..n : \A S \in SUBSET (1..(j - 1)) : \A v :
         <<S, v>> \in Good => <<S \cup {j}, step[<<j, v>>]>> \in Good
  <2> HIDE DEF Good, step, n
  <2> QED BY <1>4
<1>6. \A S, v : <<S, v>> \in Good => v \in W
  OBVIOUS
<1>7. \A j \in 1..n, v \in W : step[<<j, v>>] = op(v, seq[j])
  <2> HIDE DEF W, n, seq
  <2> QED OBVIOUS
<1>8. \A S \in SUBSET (1..n) : it[S] \in W
  <2> HIDE DEF it, n
  <2> QED OBVIOUS
<1>9. PICK some : Iterates(some, n, base, step)
  <2> HIDE DEF n, base, step
  <2> QED BY <1>1, IterateAny
<1>10. \A S \in SUBSET (1..n) : <<S, some[S]>> \in Good
  <2> HIDE DEF n, base, step, Good
  <2> QED BY <1>1, <1>3, <1>5, <1>9, IteratesKeep
<1> HIDE DEF Good, W, step
<1>11. ASSUME NEW S \in SUBSET (1..n), S # {}
       PROVE  Max(S) \in 1..n /\ S \ {Max(S)} \in SUBSET (1..n)
  BY <1>1, <1>11, MaxPlace
<1>12. some = [S \in SUBSET DOMAIN seq |->
                 IF S = {} THEN base ELSE op(some[S \ {Max(S)}], seq[Max(S)])]
  <2>1. ASSUME NEW S \in SUBSET (1..n), S # {}
        PROVE  step[<<Max(S), some[S \ {Max(S)}]>>] = op(some[S \ {Max(S)}], seq[Max(S)])
    <3> DEFINE j == Max(S)  v == some[S \ {Max(S)}]
    <3>1. j \in 1..n /\ v \in W
      BY <1>6, <1>10, <1>11, <2>1
    <3> HIDE DEF j, v
    <3>2. step[<<j, v>>] = op(v, seq[j])
      BY <1>7, <3>1
    <3> QED BY <3>2 DEF j, v
  <2>2. some = [S \in SUBSET (1..n) |->
                  IF S = {} THEN base ELSE step[<<Max(S), some[S \ {Max(S)}]>>]]
    BY <1>9 DEF Iterates
  <2> HIDE DEF n, base, seq
  <2> QED BY <1>1, <2>1, <2>2
<1>13. it = [S \in SUBSET DOMAIN seq |->
               IF S = {} THEN base ELSE op(it[S \ {Max(S)}], seq[Max(S)])]
  <2> HIDE DEF n, base, seq
  <2> QED BY <1>12
<1> HIDE DEF it
<1>14. Iterates(it, n, base, step)
  <2>1. ASSUME NEW S \in SUBSET (1..n), S # {}
        PROVE  step[<<Max(S), it[S \ {Max(S)}]>>] = op(it[S \ {Max(S)}], seq[Max(S)])
    <3> DEFINE j == Max(S)  v == it[S \ {Max(S)}]
    <3>1. j \in 1..n /\ v \in W
      BY <1>8, <1>11, <2>1
    <3> HIDE DEF j, v
    <3>2. step[<<j, v>>] = op(v, seq[j])
      BY <1>7, <3>1
    <3> QED BY <3>2 DEF j, v
  <2> HIDE DEF n, base, seq
  <2> QED BY <1>1, <1>13, <2>1 DEF Iterates
<1>15. <<1..n, it[1..n]>> \in Good
  <2> HIDE DEF n, base, seq
  <2> QED BY <1>1, <1>3, <1>5, <1>14, IteratesKeep
<1> QED
  BY <1>2, <1>15 DEF Good, total

LEMMA ReloadedWhole ==
    ASSUME NEW c, Whole(c), NEW file, file \in Seq(HostsLine)
    PROVE  Whole(Reloaded(c, file))
<1> DEFINE d == HostsRead(c, file)  size == IF NamesIn(file) > RehashAt THEN 2 ELSE 1
<1>1. Reloaded(c, file) = Rehash(d, size)
  BY DEF Reloaded, HostsRead
<1>2. Whole(d)
  BY HostsFold
<1>3. size \in {1, 2}
  OBVIOUS
<1> HIDE DEF d, size
<1> QED
  BY <1>1, <1>2, <1>3, RehashWhole

(* cache_add_dhcp_entry. *)
LEMMA DhcpHashedWhole ==
    ASSUME NEW c, Whole(c), NEW lease \in LeaseName, NEW reverse \in BOOLEAN
    PROVE  Whole(DhcpHashed(c, lease, reverse))
<1> DEFINE flags == {"dhcp", "forward", "v4"} \cup (IF reverse THEN {"reverse"} ELSE {})
                                             \cup (IF lease.ttl = 0 THEN {"immortal"} ELSE {})
<1>1. lease.name \in AnyName /\ lease.addr \in Addr /\ lease.ttl \in 0..MaxTtl
  BY DEF LeaseName, AnyName
<1>2. flags \in SUBSET (Flag \ {"big"}) /\ "forward" \in flags /\ "dhcp" \in flags
  BY DEF Flag
<1>3. DhcpHashed(c, lease, reverse) = NewLocal(c, DhcpRec, flags, lease.name, lease.addr, lease.ttl)
  BY DEF DhcpHashed
<1> HIDE DEF flags
<1>4. flags \cap {"forward", "reverse"} # {} /\ flags \cap {"hosts", "dhcp"} # {}
  BY <1>2
<1> QED
  BY <1>1, <1>2, <1>3, <1>4, NewLocalWhole

LEMMA DhcpNamedWhole ==
    ASSUME NEW c, Whole(c), NEW lease \in LeaseName
    PROVE  Whole(DhcpNamed(c, lease))
<1> DEFINE a == FindByAddr(c, lease.addr, {"v4"}, FALSE)
           s == ScanReverse(a.cache, lease.addr, {"v4", "reverse"}, FALSE)
<1>1. Whole(a.cache)
  BY FindByAddrWhole
<1>2. Whole(s)
  BY <1>1, ScanReverseWhole
<1>3. DhcpNamed(c, lease) \in {DhcpHashed(a.cache, lease, TRUE), DhcpHashed(s, lease, TRUE),
                               DhcpHashed(a.cache, lease, FALSE)}
  BY DEF DhcpNamed, DhcpReversed
<1> HIDE DEF a, s
<1>4. /\ Whole(DhcpHashed(a.cache, lease, TRUE)) /\ Whole(DhcpHashed(s, lease, TRUE))
      /\ Whole(DhcpHashed(a.cache, lease, FALSE))
  BY <1>1, <1>2, DhcpHashedWhole
<1> QED
  BY <1>3, <1>4

LEMMA AddDhcpWhole ==
    ASSUME NEW c, Whole(c), NEW lease \in LeaseName
    PROVE  Whole(AddDhcp(c, lease)) /\ AddDhcp(c, lease) \in Caches
<1> DEFINE f == FindByName(c, lease.name, {"v4", "cname"}, FALSE)
           hosts == {r \in Range(f.found) : "hosts" \in FlagsOf(f.cache, r)}
           upstream == SelectInSeq(f.found, LAMBDA r : ~Local(f.cache, r))
           flags == FlagsOf(f.cache, f.found[upstream]) \cap {"v4", "cname", "forward"}
           o == DhcpOwned(f, lease, upstream, hosts)
<1>1. lease.name \in AnyName
  BY DEF LeaseName, AnyName
<1>2. Whole(f.cache)
  BY <1>1, FindByNameWhole
<1>3. o \in {f.cache, ScanForward(f.cache, lease.name, flags, FALSE).cache}
  BY DEF DhcpOwned
<1>4. AddDhcp(c, lease) \in {o, DhcpNamed(o, lease)}
  BY DEF AddDhcp, AddDhcpTo, AddDhcpFound
<1> HIDE DEF f, hosts, upstream, flags, o
<1>5. Whole(ScanForward(f.cache, lease.name, flags, FALSE).cache)
  BY <1>1, <1>2, ScanForwardWhole
<1>6. Whole(o)
  BY <1>2, <1>3, <1>5
<1>7. Whole(DhcpNamed(o, lease))
  BY <1>6, DhcpNamedWhole
<1>8. Whole(AddDhcp(c, lease))
  BY <1>4, <1>6, <1>7
<1> QED
  BY <1>8, WholeParts

LEMMA DnsUpdatedFold ==
    ASSUME NEW c, Whole(c), NEW leases, leases \in Seq(LeaseName)
    PROVE  LET result == DnsUpdated(c, leases) IN
           /\ result \in Caches
           /\ Whole(result)
<1> DEFINE seq == leases
           n == Len(seq)
           op(v, e) == AddDhcp(v, e)
           holds(T, v) == Whole(v)
           base == UnhashDhcp(c)
           it == CHOOSE iter : iter = [S \in SUBSET DOMAIN seq |->
                    IF S = {} THEN base ELSE op(iter[S \ {Max(S)}], seq[Max(S)])]
           Good == {g \in (SUBSET (1..n)) \X Caches : holds(g[1], g[2])}
           W == Caches \cup {it[S] : S \in SUBSET (1..n)}
           step == [x \in (1..n) \X W |-> op(x[2], seq[x[1]])]
           total == DnsUpdated(c, leases)
<1>1. n \in Nat /\ DOMAIN seq = 1..n /\ seq \in Seq(LeaseName)
  <2> QED OBVIOUS
<1>2. total = it[1..n]
  <2>1. total = it[DOMAIN seq]
    BY DEF DnsUpdated, FoldLeft, MapThenFoldSet
  <2> HIDE DEF total, it
  <2> QED BY <1>1, <2>1
<1> HIDE DEF total
<1>3. <<{}, base>> \in Good
  <2> QED BY UnhashDhcpWhole, WholeParts
<1>4. ASSUME NEW j \in 1..n, NEW S \in SUBSET (1..(j - 1)), NEW v, <<S, v>> \in Good
      PROVE  <<S \cup {j}, step[<<j, v>>]>> \in Good
  <2>1. v \in Caches /\ holds(S, v) /\ S \cup {j} \in SUBSET (1..n)
    BY <1>1, <1>4
  <2>2. step[<<j, v>>] = op(v, seq[j])
    <3>1. <<j, v>> \in (1..n) \X W
      BY <2>1
    <3> HIDE DEF W, n, seq
    <3> QED BY <3>1
  <2>3. op(v, seq[j]) \in Caches /\ holds(S \cup {j}, op(v, seq[j]))
    <3>1. seq[j] \in LeaseName /\ Whole(v)
      BY <1>1, <2>1
    <3> DEFINE lease == seq[j]
    <3> HIDE DEF seq, n, lease
    <3>2. Whole(AddDhcp(v, lease)) /\ AddDhcp(v, lease) \in Caches
      BY <3>1, AddDhcpWhole DEF lease
    <3> QED BY <3>2 DEF lease
  <2> HIDE DEF step, n, seq
  <2> QED BY <2>1, <2>2, <2>3
<1>5. \A j \in 1..n : \A S \in SUBSET (1..(j - 1)) : \A v :
         <<S, v>> \in Good => <<S \cup {j}, step[<<j, v>>]>> \in Good
  <2> HIDE DEF Good, step, n
  <2> QED BY <1>4
<1>6. \A S, v : <<S, v>> \in Good => v \in W
  OBVIOUS
<1>7. \A j \in 1..n, v \in W : step[<<j, v>>] = op(v, seq[j])
  <2> HIDE DEF W, n, seq
  <2> QED OBVIOUS
<1>8. \A S \in SUBSET (1..n) : it[S] \in W
  <2> HIDE DEF it, n
  <2> QED OBVIOUS
<1>9. PICK some : Iterates(some, n, base, step)
  <2> HIDE DEF n, base, step
  <2> QED BY <1>1, IterateAny
<1>10. \A S \in SUBSET (1..n) : <<S, some[S]>> \in Good
  <2> HIDE DEF n, base, step, Good
  <2> QED BY <1>1, <1>3, <1>5, <1>9, IteratesKeep
<1> HIDE DEF Good, W, step
<1>11. ASSUME NEW S \in SUBSET (1..n), S # {}
       PROVE  Max(S) \in 1..n /\ S \ {Max(S)} \in SUBSET (1..n)
  BY <1>1, <1>11, MaxPlace
<1>12. some = [S \in SUBSET DOMAIN seq |->
                 IF S = {} THEN base ELSE op(some[S \ {Max(S)}], seq[Max(S)])]
  <2>1. ASSUME NEW S \in SUBSET (1..n), S # {}
        PROVE  step[<<Max(S), some[S \ {Max(S)}]>>] = op(some[S \ {Max(S)}], seq[Max(S)])
    <3> DEFINE j == Max(S)  v == some[S \ {Max(S)}]
    <3>1. j \in 1..n /\ v \in W
      BY <1>6, <1>10, <1>11, <2>1
    <3> HIDE DEF j, v
    <3>2. step[<<j, v>>] = op(v, seq[j])
      BY <1>7, <3>1
    <3> QED BY <3>2 DEF j, v
  <2>2. some = [S \in SUBSET (1..n) |->
                  IF S = {} THEN base ELSE step[<<Max(S), some[S \ {Max(S)}]>>]]
    BY <1>9 DEF Iterates
  <2> HIDE DEF n, base, seq
  <2> QED BY <1>1, <2>1, <2>2
<1>13. it = [S \in SUBSET DOMAIN seq |->
               IF S = {} THEN base ELSE op(it[S \ {Max(S)}], seq[Max(S)])]
  <2> HIDE DEF n, base, seq
  <2> QED BY <1>12
<1> HIDE DEF it
<1>14. Iterates(it, n, base, step)
  <2>1. ASSUME NEW S \in SUBSET (1..n), S # {}
        PROVE  step[<<Max(S), it[S \ {Max(S)}]>>] = op(it[S \ {Max(S)}], seq[Max(S)])
    <3> DEFINE j == Max(S)  v == it[S \ {Max(S)}]
    <3>1. j \in 1..n /\ v \in W
      BY <1>8, <1>11, <2>1
    <3> HIDE DEF j, v
    <3>2. step[<<j, v>>] = op(v, seq[j])
      BY <1>7, <3>1
    <3> QED BY <3>2 DEF j, v
  <2> HIDE DEF n, base, seq
  <2> QED BY <1>1, <1>13, <2>1 DEF Iterates
<1>15. <<1..n, it[1..n]>> \in Good
  <2> HIDE DEF n, base, seq
  <2> QED BY <1>1, <1>3, <1>5, <1>14, IteratesKeep
<1> QED
  BY <1>2, <1>15 DEF Good, total

-----------------------------------------------------------------------------
(* Answers *)

Answers == [cache : Caches, name : AnyName]

LEMMA NextNameOK ==
    ASSUME NEW c \in Caches, NEW r \in Rec, "cname" \in FlagsOf(c, r)
    PROVE  NextName(c, r) \in AnyName
<1>1. c.crec \in [Rec -> Crec]
  BY DEF Caches
<1>2. c.crec[r].goal \in AnyName /\ c.crec[r].target \in CacheRec \cup {NoRec}
  BY <1>1 DEF Crec
<1>3. CASE Outdated(c, r)
  BY <1>2, <1>3 DEF NextName, LeftOver, AnyName
<1>4. CASE ~Outdated(c, r)
  <2>1. c.crec[r].target \in Rec
    BY <1>2, <1>4, Constants DEF Outdated
  <2>2. c.crec[c.crec[r].target].name \in AnyName
    BY <1>1, <2>1 DEF Crec
  <2> QED BY <1>4, <2>2 DEF NextName
<1> QED
  BY <1>3, <1>4

LEMMA RestartedWhole ==
    ASSUME NEW s \in Answers, Whole(s.cache), NEW family
    PROVE  LET u == Restarted(s, family) IN u \in Answers /\ Whole(u.cache)
<1> DEFINE u == Restarted(s, family)
           f == FindByName(s.cache, s.name, {family, "cname"}, TRUE)
           S == {i \in 1..Len(f.found) : "cname" \in FlagsOf(f.cache, f.found[i])}
           k == IF S # {} THEN Min(S) ELSE 0
           name == IF k = 0 THEN NoName ELSE NextName(f.cache, f.found[k])
<1>1. s.name \in AnyName
  BY DEF Answers
<1>2. Whole(f.cache) /\ f.found \in Seq(Rec)
  BY <1>1, FindByNameWhole
<1>3. u = IF s.name = NoName THEN s ELSE [cache |-> f.cache, name |-> name]
  BY DEF Restarted, AfterSearch, Onward, SelectInSeq
<1> HIDE DEF u, f
<1>4. f.cache \in Caches
  BY <1>2, WholeParts
<1>5. name \in AnyName
  <2>1. CASE k = 0
    BY <2>1 DEF AnyName
  <2>2. CASE k # 0
    <3>1. S # {} /\ S \in SUBSET Nat /\ k = Min(S)
      BY <2>2
    <3> HIDE DEF S, k
    <3>2. k \in S
      BY <3>1, MinInSet
    <3>3. f.found[k] \in Rec /\ "cname" \in FlagsOf(f.cache, f.found[k])
      BY <1>2, <3>2 DEF S
    <3>4. NextName(f.cache, f.found[k]) \in AnyName
      BY <1>4, <3>3, NextNameOK
    <3> QED BY <2>2, <3>4
  <2> QED BY <2>1, <2>2
<1> HIDE DEF name
<1>6. u \in Answers /\ Whole(u.cache)
  BY <1>2, <1>3, <1>4, <1>5 DEF Answers
<1> QED
  BY <1>6 DEF u

LEMMA AnsweredFold ==
    ASSUME NEW c, Whole(c), NEW name \in Name, NEW family
    PROVE  LET result == Answered(c, name, family) IN
           /\ result \in Answers
           /\ Whole(result.cache)
<1> DEFINE seq == [i \in 1..Cardinality(Name) |-> i]
           n == Len(seq)
           op(v, e) == Restarted(v, family)
           holds(T, v) == Whole(v.cache)
           base == [cache |-> c, name |-> name]
           it == CHOOSE iter : iter = [S \in SUBSET DOMAIN seq |->
                    IF S = {} THEN base ELSE op(iter[S \ {Max(S)}], seq[Max(S)])]
           Good == {g \in (SUBSET (1..n)) \X Answers : holds(g[1], g[2])}
           W == Answers \cup {it[S] : S \in SUBSET (1..n)}
           step == [x \in (1..n) \X W |-> op(x[2], seq[x[1]])]
           total == Answered(c, name, family)
<1>1. n \in Nat /\ DOMAIN seq = 1..n /\ seq \in Seq(1..Cardinality(Name))
  <2> DEFINE m == Cardinality(Name)
  <2>1. m \in Nat
    BY CacheAssumption, FS_CardinalityType
  <2> HIDE DEF m
  <2>2. [i \in 1..m |-> i] \in Seq(1..m) /\ DOMAIN [i \in 1..m |-> i] = 1..m
        /\ Len([i \in 1..m |-> i]) = m
    BY <2>1
  <2> QED BY <2>1, <2>2 DEF m
<1>2. total = it[1..n]
  <2>1. total = it[DOMAIN seq]
    BY DEF Answered, FoldLeft, MapThenFoldSet
  <2> HIDE DEF total, it
  <2> QED BY <1>1, <2>1
<1> HIDE DEF total
<1>3. <<{}, base>> \in Good
  <2>1. c \in Caches /\ name \in AnyName
    BY WholeParts DEF AnyName
  <2>2. base \in Answers /\ base.cache = c
    BY <2>1 DEF Answers
  <2> QED BY <2>2
<1>4. ASSUME NEW j \in 1..n, NEW S \in SUBSET (1..(j - 1)), NEW v, <<S, v>> \in Good
      PROVE  <<S \cup {j}, step[<<j, v>>]>> \in Good
  <2>1. v \in Answers /\ holds(S, v) /\ S \cup {j} \in SUBSET (1..n)
    BY <1>1, <1>4
  <2>2. step[<<j, v>>] = op(v, seq[j])
    <3>1. <<j, v>> \in (1..n) \X W
      BY <2>1
    <3> HIDE DEF W, n, seq
    <3> QED BY <3>1
  <2>3. op(v, seq[j]) \in Answers /\ holds(S \cup {j}, op(v, seq[j]))
    <3>1. LET u == Restarted(v, family) IN u \in Answers /\ Whole(u.cache)
      BY <2>1, RestartedWhole
    <3> QED BY <3>1
  <2> HIDE DEF step, n, seq
  <2> QED BY <2>1, <2>2, <2>3
<1>5. \A j \in 1..n : \A S \in SUBSET (1..(j - 1)) : \A v :
         <<S, v>> \in Good => <<S \cup {j}, step[<<j, v>>]>> \in Good
  <2> HIDE DEF Good, step, n
  <2> QED BY <1>4
<1>6. \A S, v : <<S, v>> \in Good => v \in W
  OBVIOUS
<1>7. \A j \in 1..n, v \in W : step[<<j, v>>] = op(v, seq[j])
  <2> HIDE DEF W, n, seq
  <2> QED OBVIOUS
<1>8. \A S \in SUBSET (1..n) : it[S] \in W
  <2> HIDE DEF it, n
  <2> QED OBVIOUS
<1>9. PICK some : Iterates(some, n, base, step)
  <2> HIDE DEF n, base, step
  <2> QED BY <1>1, IterateAny
<1>10. \A S \in SUBSET (1..n) : <<S, some[S]>> \in Good
  <2> HIDE DEF n, base, step, Good
  <2> QED BY <1>1, <1>3, <1>5, <1>9, IteratesKeep
<1> HIDE DEF Good, W, step
<1>11. ASSUME NEW S \in SUBSET (1..n), S # {}
       PROVE  Max(S) \in 1..n /\ S \ {Max(S)} \in SUBSET (1..n)
  BY <1>1, <1>11, MaxPlace
<1>12. some = [S \in SUBSET DOMAIN seq |->
                 IF S = {} THEN base ELSE op(some[S \ {Max(S)}], seq[Max(S)])]
  <2>1. ASSUME NEW S \in SUBSET (1..n), S # {}
        PROVE  step[<<Max(S), some[S \ {Max(S)}]>>] = op(some[S \ {Max(S)}], seq[Max(S)])
    <3> DEFINE j == Max(S)  v == some[S \ {Max(S)}]
    <3>1. j \in 1..n /\ v \in W
      BY <1>6, <1>10, <1>11, <2>1
    <3> HIDE DEF j, v
    <3>2. step[<<j, v>>] = op(v, seq[j])
      BY <1>7, <3>1
    <3> QED BY <3>2 DEF j, v
  <2>2. some = [S \in SUBSET (1..n) |->
                  IF S = {} THEN base ELSE step[<<Max(S), some[S \ {Max(S)}]>>]]
    BY <1>9 DEF Iterates
  <2> HIDE DEF n, base, seq
  <2> QED BY <1>1, <2>1, <2>2
<1>13. it = [S \in SUBSET DOMAIN seq |->
               IF S = {} THEN base ELSE op(it[S \ {Max(S)}], seq[Max(S)])]
  <2> HIDE DEF n, base, seq
  <2> QED BY <1>12
<1> HIDE DEF it
<1>14. Iterates(it, n, base, step)
  <2>1. ASSUME NEW S \in SUBSET (1..n), S # {}
        PROVE  step[<<Max(S), it[S \ {Max(S)}]>>] = op(it[S \ {Max(S)}], seq[Max(S)])
    <3> DEFINE j == Max(S)  v == it[S \ {Max(S)}]
    <3>1. j \in 1..n /\ v \in W
      BY <1>8, <1>11, <2>1
    <3> HIDE DEF j, v
    <3>2. step[<<j, v>>] = op(v, seq[j])
      BY <1>7, <3>1
    <3> QED BY <3>2 DEF j, v
  <2> HIDE DEF n, base, seq
  <2> QED BY <1>1, <1>13, <2>1 DEF Iterates
<1>15. <<1..n, it[1..n]>> \in Good
  <2> HIDE DEF n, base, seq
  <2> QED BY <1>1, <1>3, <1>5, <1>14, IteratesKeep
<1> QED
  BY <1>2, <1>15 DEF Good, total

-----------------------------------------------------------------------------
(* The cache and its handlers *)

(* A second passes. *)
LEMMA TickWhole ==
    ASSUME NEW c, Whole(c), NEW d,
           d = [c EXCEPT !.crec = [r \in Rec |-> Aged(c.crec[r])]]
    PROVE  Whole(d)
<1> DEFINE crec == [r \in Rec |-> Aged(c.crec[r])]
<1>1. c \in Caches /\ c.crec \in [Rec -> Crec]
  BY WholeParts DEF Caches
<1>2. ASSUME NEW r \in Rec
      PROVE  /\ Aged(c.crec[r]) \in Crec /\ Aged(c.crec[r]).flags = c.crec[r].flags
             /\ Aged(c.crec[r]).name = c.crec[r].name
             /\ Aged(c.crec[r]).goal = c.crec[r].goal
             /\ Aged(c.crec[r]).target = c.crec[r].target
  <2> DEFINE e == c.crec[r]
  <2>1. e \in Crec /\ MaxTtl \in Nat
    BY <1>1, CacheAssumption
  <2> HIDE DEF e
  <2> DEFINE a == Aged(e)
  <2>2. /\ a \in Crec /\ a.flags = e.flags /\ a.name = e.name
        /\ a.goal = e.goal /\ a.target = e.target
    <3>1. e.ttl \in 0..MaxTtl
      BY <2>1 DEF Crec
    <3>2. (IF e.ttl = 0 THEN 0 ELSE e.ttl - 1) \in 0..MaxTtl
      BY <2>1, <3>1
    <3> QED BY <2>1, <3>2 DEF Crec, Aged
  <2> QED BY <2>2 DEF e
<1>3. d = [c EXCEPT !.crec = crec]
  OBVIOUS
<1>4. crec \in [Rec -> Crec] /\ \A r \in Rec : crec[r] = Aged(c.crec[r])
  BY <1>2
<1> HIDE DEF crec
<1>5. /\ d \in Caches /\ d.crec = crec /\ d.lru = c.lru /\ d.chain = c.chain
      /\ d.fresh = c.fresh /\ d.big = c.big
  BY <1>1, <1>3, <1>4 DEF Caches
<1>6. Same(c, d, Rec)
  BY <1>2, <1>4, <1>5 DEF Same, FlagsOf
<1>7. Held(d)
  BY <1>5, <1>6, HeldSame DEF Whole
<1>8. Aimed(d)
  <2>1. \A r \in Rec : Stays(c, d, r) /\ d.crec[r].target = c.crec[r].target
    BY <1>2, <1>4, <1>5 DEF Stays, FlagsOf
  <2>2. \A r \in Rec : c.crec[r].target # NoRec => c.crec[r].target \in Rec
    BY Constants DEF Aimed, AimedAt, Whole
  <2> QED BY <1>5, <2>1, <2>2, AimedStays DEF Whole
<1> QED
  BY <1>5, <1>7, <1>8 DEF Whole

CacheOK == Whole(cache)

LEMMA InitWhole == CacheInit => CacheOK
<1> SUFFICES ASSUME CacheInit PROVE Whole(cache)
  BY DEF CacheOK
<1> DEFINE s == [i \in 1..CacheSize |-> CacheSize + 1 - i]
           ch == <<<<>>>>
           crec == [r \in Rec |-> FreeCrec]
<1>1. cache = [crec |-> crec, lru |-> s, chain |-> ch, fresh |-> <<>>, big |-> Bignames]
  BY DEF CacheInit
<1>2. s \in Seq(CacheRec) /\ Single(s) /\ Range(s) = CacheRec /\ Len(s) = CacheSize
  <2>1. CacheSize \in Nat
    BY Constants
  <2>2. s \in Seq(CacheRec) /\ Len(s) = CacheSize /\ DOMAIN s = 1..CacheSize
    BY <2>1 DEF CacheRec
  <2>3. Single(s)
    BY <2>1, <2>2 DEF Single
  <2>4. ASSUME NEW r \in CacheRec PROVE r \in Range(s)
    <3>1. CacheSize + 1 - r \in 1..CacheSize /\ s[CacheSize + 1 - r] = r
      BY <2>1 DEF CacheRec
    <3> QED BY <2>2, <3>1 DEF Range
  <2>5. \A i \in 1..CacheSize : s[i] \in CacheRec
    BY <2>1 DEF CacheRec
  <2> HIDE DEF s
  <2>6. Range(s) \subseteq CacheRec
    BY <2>2, <2>5 DEF Range
  <2> QED BY <2>2, <2>3, <2>4, <2>6
<1>3. ch \in Seq(Seq(Rec)) /\ Len(ch) = 1 /\ Len(ch) \in DOMAIN Hash /\ DOMAIN ch = 1..1
      /\ ch[1] = <<>>
  <2> DEFINE S == Seq(Rec)  e == <<>>
  <2>1. e \in S /\ 1 \in DOMAIN Hash
    BY CacheAssumption
  <2> HIDE DEF S, e
  <2>2. <<e>> \in Seq(S) /\ Len(<<e>>) = 1 /\ DOMAIN <<e>> = 1..1 /\ <<e>>[1] = e
    BY <2>1
  <2> QED BY <2>1, <2>2 DEF S, e
<1>4. crec \in [Rec -> Crec] /\ \A r \in Rec : crec[r].flags = {} /\ crec[r].target = NoRec
  BY FreeIs
<1>5. Bignames \in Nat
  BY Constants
<1> HIDE DEF s, ch, crec
<1>6. cache.crec = crec /\ cache.lru = s /\ cache.chain = ch /\ cache.fresh = <<>>
      /\ cache.big = Bignames
  BY <1>1
<1>7. cache \in Caches
  <2> DEFINE Chains == {chain \in Seq(Seq(Rec)) : Len(chain) \in DOMAIN Hash}
             Lists == Seq(CacheRec)  Crecs == [Rec -> Crec]  none == <<>>
  <2>1. ch \in Chains /\ s \in Lists /\ none \in Lists /\ crec \in Crecs /\ Bignames \in Int
    <3>1. ch \in Chains
      <4> DEFINE S == Seq(Seq(Rec))  D == DOMAIN Hash
      <4>1. ch \in S /\ Len(ch) \in D
        BY <1>3
      <4> HIDE DEF S, D
      <4>2. ch \in {chain \in S : Len(chain) \in D}
        BY <4>1
      <4> QED BY <4>2 DEF S, D
    <3>2. s \in Lists
      BY <1>2
    <3>3. none \in Lists
      OBVIOUS
    <3> QED BY <1>4, <1>5, <3>1, <3>2, <3>3
  <2>2. cache = [crec |-> crec, lru |-> s, chain |-> ch, fresh |-> none, big |-> Bignames]
    BY <1>1
  <2> HIDE DEF Chains, Lists, Crecs, none
  <2>3. cache \in [crec : Crecs, lru : Lists, chain : Chains, fresh : Lists, big : Int]
    BY <2>1, <2>2
  <2> QED BY <2>3 DEF Caches, Chains, Lists, Crecs
<1>8. \A r \in Rec : FlagsOf(cache, r) = {} /\ ~Live(cache, r)
  BY <1>4, <1>6 DEF FlagsOf, Live
<1>9. Kinds(cache)
  BY <1>8 DEF Kinds
<1>10. Hashed(cache) = {}
  <2>1. Range(ch[1]) = {}
    BY <1>3 DEF Range
  <2> QED BY <1>3, <1>6, <2>1 DEF Hashed
<1>11. Chained(cache, {})
  <2>1. InUse(cache) = {}
    BY <1>8 DEF InUse
  <2>2. ASSUME NEW b \in 1..Len(cache.chain) PROVE InBucket(cache, b)
    <3>0. b = 1
      <4>1. Len(cache.chain) = 1
        BY <1>3, <1>6
      <4>2. 1..Len(cache.chain) = {1}
        BY ONLY <4>1
      <4> QED BY <4>2
    <3>1. cache.chain[b] = <<>>
      BY <1>3, <1>6, <3>0
    <3>2. Range(<<>>) = {} /\ Single(<<>>) /\ \A x, y : ~Ahead(<<>>, x, y)
      BY DEF Range, Single, Ahead
    <3> QED BY <3>1, <3>2 DEF InBucket
  <2> QED BY <1>10, <2>1, <2>2 DEF Chained
<1>12. OnList(cache, {})
  <2>1. \A x, y : Ahead(s, x, y) => y \in Rec
    <3>1. \A i \in 1..Len(s) : s[i] \in CacheRec
      BY <1>2
    <3>2. \A i \in 1..Len(s) : s[i] \in Rec
      BY <3>1, Constants
    <3> QED BY <3>2 DEF Ahead
  <2> QED BY <1>2, <1>6, <1>8, <2>1 DEF OnList
<1>13. Counted(cache)
  <2>1. Bigs(cache) = {}
    BY <1>8, Constants DEF Bigs
  <2>2. Cardinality({}) = 0
    BY FS_EmptySet
  <2> QED BY <1>5, <1>6, <2>1, <2>2 DEF Counted
<1>14. Sound(cache, {}, {})
  BY <1>7, <1>9, <1>11, <1>12, <1>13 DEF Sound
<1>15. Aimed(cache)
  BY <1>4, <1>6 DEF Aimed
<1> QED
  BY <1>6, <1>14, <1>15, WholeEmpty

LEMMA NextWhole == CacheOK /\ CacheNext => CacheOK'
<1> SUFFICES ASSUME Whole(cache), CacheNext PROVE Whole(cache')
  BY DEF CacheOK
<1>1. ASSUME NEW reply \in Replies, NEW n \in 0..MaxItems, NEW complete \in BOOLEAN,
             ExtractAddresses(reply, n, complete)
      PROVE  Whole(cache')
  <2>1. reply \in Seq(Item) /\ Follows(reply)
    BY CacheAssumption
  <2>2. n \in 0..Len(reply) /\ cache' = Replied(cache, reply, n, complete)
    BY <1>1 DEF ExtractAddresses
  <2>3. Whole(Replied(cache, reply, n, complete))
    BY <2>1, <2>2, RepliedWhole
  <2> QED BY <2>2, <2>3
<1>2. ASSUME NEW name \in Name, NEW family \in Family, AnswerAddress(name, family)
      PROVE  Whole(cache')
  BY <1>2, AnsweredFold DEF AnswerAddress
<1>3. ASSUME NEW addr \in Addr, NEW family \in Family, AnswerReverse(addr, family)
      PROVE  Whole(cache')
  BY <1>3, FindByAddrWhole DEF AnswerReverse
<1>4. ASSUME NEW name \in Name, NEW search \in Searches, SearchName(name, search[1], search[2])
      PROVE  Whole(cache')
  <2>1. name \in AnyName
    BY DEF AnyName
  <2> QED BY <1>4, <2>1, FindByNameWhole DEF SearchName
<1>5. ASSUME NEW addr \in Addr, HostFromDns(addr) PROVE Whole(cache')
  BY <1>5, FindByAddrWhole DEF HostFromDns
<1>6. ASSUME NEW file \in HostsFiles, NEW dirty \in BOOLEAN, NEW leases \in LeaseLists,
             ClearCacheAndReload(file, dirty, leases)
      PROVE  Whole(cache')
  <2> DEFINE d == Reloaded(cache, file)
  <2>1. file \in Seq(HostsLine) /\ leases \in Seq(LeaseName)
    BY CacheAssumption
  <2>2. Whole(d)
    BY <2>1, ReloadedWhole
  <2>3. cache' = IF dirty THEN DnsUpdated(d, leases) ELSE d
    BY <1>6 DEF ClearCacheAndReload
  <2> HIDE DEF d
  <2>4. Whole(DnsUpdated(d, leases))
    BY <2>1, <2>2, DnsUpdatedFold
  <2> QED BY <2>2, <2>3, <2>4
<1>7. ASSUME NEW leases \in LeaseLists, LeaseUpdateDns(leases) PROVE Whole(cache')
  <2>1. leases \in Seq(LeaseName)
    BY CacheAssumption
  <2>2. Whole(DnsUpdated(cache, leases))
    BY <2>1, DnsUpdatedFold
  <2> QED BY <1>7, <2>2 DEF LeaseUpdateDns
<1>8. CASE Tick
  BY <1>8, TickWhole DEF Tick
<1> QED
  BY <1>1, <1>2, <1>3, <1>4, <1>5, <1>6, <1>7, <1>8 DEF CacheNext

(* Between any two steps of the program the cache is sound, but for the
   records on new_chain, which hold something and are out of reach: replies
   that were cut short, searches that move and free records, reloads and
   changes of the leases all keep it so.                                    *)
THEOREM CacheInv == CacheSpec => []CacheOK
<1>1. CacheInit => CacheOK
  BY InitWhole
<1>2. CacheOK /\ [CacheNext]_cache => CacheOK'
  BY NextWhole DEF CacheOK
<1> QED
  BY <1>1, <1>2, PTL DEF CacheSpec

LEMMA WholeTypes == CacheOK => CacheTypeOK
<1> SUFFICES ASSUME Whole(cache) PROVE CacheTypeOK
  BY DEF CacheOK
<1> DEFINE F == Range(cache.fresh)
<1>1. Sound(cache, F, F) /\ F \subseteq CacheRec /\ cache \in Caches
  BY WholeParts
<1> HIDE DEF F
<1>2. OnList(cache, F) /\ Counted(cache) /\ cache.crec \in [Rec -> Crec]
  BY <1>1, SoundParts
<1>3. Range(cache.lru) \subseteq CacheRec
  BY <1>2 DEF OnList
<1>4. UNION {Range(cache.chain[b]) : b \in DOMAIN cache.chain} \subseteq Rec
  BY <1>1, ChainParts DEF Hashed
<1>5. cache.big \in 0..Bignames
  <2>1. cache.big \in Nat /\ cache.big + Cardinality(Bigs(cache)) = Bignames /\ Bignames \in Nat
    BY <1>2, Constants DEF Counted
  <2>2. Cardinality(Bigs(cache)) \in Nat
    <3>1. IsFiniteSet(CacheRec) /\ Bigs(cache) \subseteq CacheRec
      BY Constants, Zenon DEF Bigs
    <3>2. IsFiniteSet(Bigs(cache))
      BY ONLY <3>1, FS_Subset, Zenon
    <3> QED BY ONLY <3>2, FS_CardinalityType, Zenon
  <2> QED BY <2>1, <2>2
<1>6. Len(cache.chain) \in DOMAIN Hash
  BY <1>1, ChainParts
<1> QED
  BY <1>1, <1>2, <1>3, <1>4, <1>5, <1>6 DEF CacheTypeOK, F

(* A sequence without repetition holds as many members as it is long. *)
LEMMA SizeOf ==
    ASSUME NEW T, NEW s \in Seq(T), Single(s)
    PROVE  Cardinality(Range(s)) = Len(s)
<1>1. Len(s) \in Nat /\ DOMAIN s = 1..Len(s) /\ \A i, j \in 1..Len(s) : s[i] = s[j] => i = j
  BY DEF Single
<1>2. Range(s) = {s[i] : i \in 1..Len(s)}
  BY <1>1 DEF Range
<1>3. Cardinality({s[i] : i \in 1..Len(s)}) = Len(s)
  BY <1>1, CountListed
<1> QED
  BY <1>2, <1>3, Zenon

(* The LRU list and new_chain share the records of the array. *)
LEMMA Divided ==
    ASSUME NEW lru \in Seq(CacheRec), NEW fresh \in Seq(CacheRec), Single(lru), Single(fresh),
           Range(lru) = CacheRec \ Range(fresh)
    PROVE  Len(lru) + Len(fresh) = CacheSize /\ Range(lru \o fresh) = CacheRec
<1> DEFINE A == Range(lru)  B == Range(fresh)
<1>1. A = CacheRec \ B
  OBVIOUS
<1>2. B \subseteq CacheRec
  BY DEF Range
<1>3. Cardinality(A) = Len(lru) /\ Cardinality(B) = Len(fresh)
  BY SizeOf
<1>4. Range(lru \o fresh) = A \cup B
  <2>1. /\ Len(lru \o fresh) = Len(lru) + Len(fresh) /\ lru \o fresh \in Seq(CacheRec)
        /\ \A i \in 1..Len(lru) : (lru \o fresh)[i] = lru[i]
        /\ \A i \in 1..Len(fresh) : (lru \o fresh)[Len(lru) + i] = fresh[i]
    OBVIOUS
  <2> DEFINE u == lru \o fresh  m == Len(lru)  n == Len(fresh)
  <2>2. DOMAIN u = 1..(m + n) /\ DOMAIN lru = 1..m /\ DOMAIN fresh = 1..n /\ m \in Nat /\ n \in Nat
    BY <2>1
  <2>3. /\ \A i \in 1..m : u[i] = lru[i]
        /\ \A i \in 1..n : u[m + i] = fresh[i]
    BY <2>1
  <2> HIDE DEF u, m, n
  <2>4. ASSUME NEW i \in 1..(m + n) PROVE i \in 1..m \/ \E j \in 1..n : i = m + j
    <3>1. CASE i > m
      <4>1. i - m \in 1..n /\ i = m + (i - m)
        BY <2>2, <3>1
      <4> QED BY <4>1
    <3>2. CASE ~(i > m)
      BY <2>2, <3>2
    <3> QED BY <3>1, <3>2
  <2>5. \A i \in 1..m : i \in 1..(m + n)
    BY <2>2
  <2>6. \A j \in 1..n : m + j \in 1..(m + n)
    BY <2>2
  <2>7. Range(u) = {u[i] : i \in 1..(m + n)} /\ A = {lru[i] : i \in 1..m}
        /\ B = {fresh[j] : j \in 1..n}
    BY <2>2 DEF Range
  <2> HIDE DEF A, B
  <2>8. Range(u) = A \cup B
    BY <2>3, <2>4, <2>5, <2>6, <2>7
  <2> QED BY <2>8 DEF u
<1> HIDE DEF A, B
<1>5. A \cup B = CacheRec /\ A \cap B = {}
  BY <1>1, <1>2
<1>6. IsFiniteSet(A) /\ IsFiniteSet(B)
  BY <1>1, <1>2, Constants, FS_Subset
<1>7. Cardinality(A \cup B) = Cardinality(A) + Cardinality(B)
  <2>1. Cardinality(A \cup B) = Cardinality(A) + Cardinality(B) - Cardinality(A \cap B)
    BY <1>6, FS_Union
  <2>2. Cardinality(A \cap B) = 0
    BY <1>5, FS_EmptySet
  <2>3. Cardinality(A) \in Nat /\ Cardinality(B) \in Nat
    BY <1>6, FS_CardinalityType
  <2> QED BY <2>1, <2>2, <2>3
<1> QED
  BY <1>3, <1>4, <1>5, <1>7, Constants

LEMMA WholeStructure == CacheOK => Structure
<1> SUFFICES ASSUME Whole(cache) PROVE Structure
  BY DEF CacheOK
<1> DEFINE F == Range(cache.fresh)
<1>1. Sound(cache, F, F) /\ cache \in Caches /\ Single(cache.fresh)
  BY WholeParts
<1>2. /\ Chained(cache, F) /\ OnList(cache, F) /\ Counted(cache)
      /\ cache.lru \in Seq(CacheRec) /\ cache.fresh \in Seq(CacheRec)
  BY <1>1, SoundParts
<1>3. Single(cache.lru) /\ Range(cache.lru) = CacheRec \ Range(cache.fresh)
      /\ \A x, y : Ahead(cache.lru, x, y) /\ Live(cache, y) => Live(cache, x)
  BY <1>2 DEF OnList
<1>4. Len(cache.lru) + Len(cache.fresh) = CacheSize /\ Range(cache.lru \o cache.fresh) = CacheRec
  BY <1>1, <1>2, <1>3, Divided
<1>5. Hashed(cache) = {r \in Rec : Live(cache, r)} \ Range(cache.fresh)
  BY <1>2 DEF Chained, InUse
<1>6. ASSUME NEW b \in DOMAIN cache.chain
      PROVE  /\ Cardinality(Range(cache.chain[b])) = Len(cache.chain[b])
             /\ \A r \in Range(cache.chain[b]) : BucketOf(cache, cache.crec[r].name) = b
  <2>1. b \in 1..Len(cache.chain) /\ cache.chain[b] \in Seq(Rec)
    BY <1>1, ChainParts
  <2>2. InBucket(cache, b)
    BY <1>2, <2>1 DEF Chained
  <2>3. Cardinality(Range(cache.chain[b])) = Len(cache.chain[b])
    BY <2>1, <2>2, SizeOf DEF InBucket
  <2> QED BY <2>2, <2>3 DEF InBucket
<1>7. ASSUME NEW i \in 1..(Len(cache.lru) - 1), Live(cache, cache.lru[i + 1])
      PROVE  Live(cache, cache.lru[i])
  <2>1. Len(cache.lru) \in Nat
    BY <1>2
  <2>2. i \in 1..Len(cache.lru) /\ i + 1 \in 1..Len(cache.lru) /\ i < i + 1
    BY <2>1
  <2>3. Ahead(cache.lru, cache.lru[i], cache.lru[i + 1])
    BY ONLY <2>2, AheadAt
  <2> QED BY <1>3, <1>7, <2>3
<1>8. cache.big + Cardinality({r \in CacheRec : "big" \in FlagsOf(cache, r)}) = Bignames
  BY <1>2 DEF Counted, Bigs
<1> HIDE DEF F
<1> QED
  BY <1>4, <1>5, <1>6, <1>7, <1>8 DEF Structure

LEMMA WholeOrder == CacheOK => ChainOrder
<1> SUFFICES ASSUME Whole(cache), NEW b \in DOMAIN cache.chain,
                    NEW i \in 1..(Len(cache.chain[b]) - 1)
             PROVE  Zone(cache, cache.chain[b][i]) <= Zone(cache, cache.chain[b][i + 1])
  BY DEF CacheOK, ChainOrder
<1> DEFINE F == Range(cache.fresh)  s == cache.chain[b]
<1>1. Sound(cache, F, F) /\ cache \in Caches
  BY WholeParts
<1>2. b \in 1..Len(cache.chain) /\ s \in Seq(Rec)
  BY <1>1, ChainParts
<1>3. InBucket(cache, b)
  BY <1>1, <1>2, SoundParts DEF Chained
<1>4. \A x, y : Ahead(s, x, y) => Zone(cache, x) <= Zone(cache, y)
  BY <1>3 DEF InBucket
<1>5. i \in 1..(Len(s) - 1)
  OBVIOUS
<1> HIDE DEF s, F
<1>6. i \in 1..Len(s) /\ i + 1 \in 1..Len(s) /\ i < i + 1
  <2>1. Len(s) \in Nat
    BY <1>2
  <2> QED BY <1>5, <2>1
<1>7. Ahead(s, s[i], s[i + 1])
  BY ONLY <1>6, AheadAt
<1>8. Zone(cache, s[i]) <= Zone(cache, s[i + 1])
  BY <1>4, <1>7
<1> QED
  BY <1>8 DEF s

LEMMA WholeCname == CacheOK => CnameTarget
<1> SUFFICES ASSUME Whole(cache), NEW r \in Hashed(cache), "cname" \in FlagsOf(cache, r),
                    ~Outdated(cache, r), NEW t, t = cache.crec[r].target
             PROVE  /\ t \in Hashed(cache) /\ "forward" \in FlagsOf(cache, t)
                    /\ cache.crec[t].name = cache.crec[r].goal
  BY DEF CacheOK, CnameTarget
<1> DEFINE F == Range(cache.fresh)
<1>1. Hashed(cache) = InUse(cache) \ F
  BY WholeParts, SoundParts DEF Chained
<1>2. r \in Rec /\ r \notin F /\ t # NoRec
  BY <1>1 DEF InUse, Outdated
<1>3. AimedAt(cache, r, t)
  BY <1>2 DEF Whole, Aimed
<1>4. t \in Rec /\ t \notin F /\ Live(cache, t)
  BY <1>2, <1>3, Constants DEF AimedAt, Live
<1> QED
  BY <1>1, <1>3, <1>4 DEF AimedAt, InUse

(* Every field of the cache has its type: the lists hold records of the
   array, the chains records, and there are never more bignames in use than
   were made.                                                               *)
THEOREM CacheTypes == CacheSpec => []CacheTypeOK
<1>1. CacheSpec => []CacheOK
  BY CacheInv
<1> QED
  BY <1>1, WholeTypes, PTL

(* Every record of the array is once on the LRU list or on new_chain and
   never on both; a record is on a hash chain, the one of its name and once,
   exactly when it holds something and is not new; on the LRU list no free
   record is before one in use; and no bigname is lost or used twice.       *)
THEOREM CacheStructure == CacheSpec => []Structure
<1>1. CacheSpec => []CacheOK
  BY CacheInv
<1> QED
  BY <1>1, WholeStructure, PTL

(* On every chain the records with an address to look for come first and the
   immortal ones last, which is where the walks of cache_scan_free and
   cache_find_by_addr stop.                                                 *)
THEOREM CacheChainOrder == CacheSpec => []ChainOrder
<1>1. CacheSpec => []CacheOK
  BY CacheInv
<1> QED
  BY <1>1, WholeOrder, PTL

(* A CNAME that a search may return points to a record in use and visible,
   of the name the CNAME was received for: the target of a CNAME that was
   freed, and perhaps made into another record since, is never followed.    *)
THEOREM CacheCnameTarget == CacheSpec => []CnameTarget
<1>1. CacheSpec => []CacheOK
  BY CacheInv
<1> QED
  BY <1>1, WholeCname, PTL

=============================================================================
