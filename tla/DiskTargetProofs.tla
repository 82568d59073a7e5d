-------------------------- MODULE DiskTargetProofs --------------------------
(***************************************************************************)
(* The editors of partitions and slices with the library that writes what  *)
(* they edited, for every disk, table, call and failing command; that      *)
(* library on its own, for every machine and target; and the sizes of swap *)
(* and dump for every machine, request, image and disk.                    *)
(***************************************************************************)
EXTENDS DiskTarget, VolumeSizes, FiniteSetTheorems, WellFoundedInduction, TLAPS

-----------------------------------------------------------------------------
(* Induction, and folds over sequences.                                    *)

LEMMA LeastElement ==
  ASSUME NEW T, T \subseteq Nat, T # {}
  PROVE  \E x \in T : \A y \in T : x <= y
<1> DEFINE R == {ss \in Nat \X Nat : ss[1] < ss[2]}
<1>1. IsWellFoundedOn(R, Nat)
  BY NatLessThanWellFounded DEF OpToRel
<1>2. \E x \in T : \A y \in T : <<y, x>> \notin R
  <2> HIDE DEF R
  <2> QED BY <1>1, WFMin
<1>3. PICK x \in T : \A y \in T : <<y, x>> \notin R
  BY <1>2
<1>4. ASSUME NEW y \in T PROVE x <= y
  <2>1. <<y, x>> \in Nat \X Nat /\ <<y, x>>[1] = y /\ <<y, x>>[2] = x
    OBVIOUS
  <2>2. ~ (y < x)
    BY <2>1, <1>3
  <2> QED BY <2>2
<1> QED BY <1>4

LEMMA Induction ==
  ASSUME NEW S, 0 \in S, \A n \in Nat : n \in S => n + 1 \in S
  PROVE  Nat \subseteq S
<1> DEFINE T == {n \in Nat : n \notin S}
<1> SUFFICES ASSUME T # {} PROVE FALSE
  OBVIOUS
<1>1. PICK m \in T : \A y \in T : m <= y
  <2> T \subseteq Nat
    OBVIOUS
  <2> HIDE DEF T
  <2> QED BY LeastElement
<1>2. m # 0
  OBVIOUS
<1>3. m - 1 \in Nat /\ m - 1 \notin T
  BY <1>1, <1>2
<1> QED BY <1>3

LEMMA MinOf ==
  ASSUME NEW T, T \subseteq Nat, T # {}
  PROVE  Min(T) \in T /\ \A y \in T : Min(T) <= y
BY LeastElement DEF Min

LEMMA MaxOf ==
  ASSUME NEW n \in Nat, NEW T, T \subseteq 1..n, T # {}
  PROVE  Max(T) \in T /\ \A y \in T : y <= Max(T)
<1> DEFINE D == {n - x : x \in T}
<1>0. \A x \in T : x \in Int /\ 1 <= x /\ x <= n
  OBVIOUS
<1>1. D \subseteq Nat /\ D # {}
  <2>1. \A x \in T : n - x \in Nat
    BY <1>0
  <2>2. PICK x \in T : TRUE
    OBVIOUS
  <2>3. n - x \in D
    BY <2>2
  <2> QED BY <2>1, <2>3
<1>2. PICK d \in D : \A y \in D : d <= y
  <2> HIDE DEF D
  <2> QED BY <1>1, LeastElement
<1>3. PICK x \in T : d = n - x
  OBVIOUS
<1>4. \A y \in T : n - x <= n - y
  BY <1>2, <1>3
<1>5. \A y \in T : x >= y
  BY <1>4
<1> QED BY <1>5 DEF Max

IsFold(f, n, base, step) ==
  f = [s \in SUBSET (1..n) |-> IF s = {} THEN base ELSE step[<<f[s \ {Max(s)}], Max(s)>>]]

LEMMA FoldExists ==
  ASSUME NEW n \in Nat, NEW base, NEW step
  PROVE  \E f : IsFold(f, n, base, step)
<1> DEFINE Is(m, f) == f = [s \in SUBSET (1..m) |-> IF s = {} THEN base ELSE step[<<f[s \ {Max(s)}], Max(s)>>]]
           S == {m \in Nat : \E f : Is(m, f)}
<1>1. 0 \in S
  <2>1. Is(0, [s \in SUBSET (1..0) |-> base])
    OBVIOUS
  <2> QED BY <2>1
<1>2. ASSUME NEW m \in Nat, m \in S PROVE m + 1 \in S
  <2>1. PICK g : Is(m, g)
    BY <1>2
  <2> DEFINE h == [s \in SUBSET (1..(m + 1)) |->
                     IF m + 1 \in s THEN step[<<g[s \ {m + 1}], m + 1>>] ELSE g[s]]
  <2>2. ASSUME NEW s \in SUBSET (1..(m + 1))
        PROVE  h[s] = IF s = {} THEN base ELSE step[<<h[s \ {Max(s)}], Max(s)>>]
    <3>1. CASE m + 1 \in s
      <4>1. Max(s) = m + 1
        <5>1. m + 1 \in Nat /\ s \subseteq 1..(m + 1) /\ s # {}
          BY <3>1
        <5>2. Max(s) \in s /\ \A y \in s : y <= Max(s)
          BY <5>1, MaxOf
        <5>3. m + 1 <= Max(s) /\ Max(s) \in 1..(m + 1)
          BY <5>1, <5>2, <3>1
        <5> HIDE DEF h, Is, S
        <5> QED BY <5>3
      <4>2. s \ {m + 1} \in SUBSET (1..(m + 1)) /\ m + 1 \notin s \ {m + 1}
        OBVIOUS
      <4>3. h[s \ {m + 1}] = g[s \ {m + 1}]
        BY <4>2
      <4> QED BY <4>1, <4>3, <3>1
    <3>2. CASE m + 1 \notin s /\ s # {}
      <4>1. s \in SUBSET (1..m)
        BY <3>2
      <4>2. s \ {Max(s)} \in SUBSET (1..m) /\ m + 1 \notin s \ {Max(s)}
        BY <4>1, <3>2
      <4>3. h[s] = g[s] /\ h[s \ {Max(s)}] = g[s \ {Max(s)}]
        BY <4>1, <4>2, <3>2
      <4>4. g[s] = step[<<g[s \ {Max(s)}], Max(s)>>]
        BY <2>1, <4>1, <3>2
      <4> QED BY <4>3, <4>4, <3>2
    <3>3. CASE s = {}
      <4>1. h[s] = g[s] /\ s \in SUBSET (1..m)
        BY <3>3
      <4>2. g[s] = base
        BY <2>1, <4>1, <3>3
      <4> QED BY <4>1, <4>2, <3>3
    <3> QED BY <3>1, <3>2, <3>3
  <2>3. Is(m + 1, h)
    <3> DEFINE k == [s \in SUBSET (1..(m + 1)) |-> IF s = {} THEN base ELSE step[<<h[s \ {Max(s)}], Max(s)>>]]
    <3>1. DOMAIN h = DOMAIN k /\ \A s \in DOMAIN h : h[s] = k[s]
      BY <2>2
    <3>2. h = k
      BY <3>1
    <3> QED BY <3>2
  <2>4. m + 1 \in Nat /\ \E f : Is(m + 1, f)
    <3> HIDE DEF h, Is
    <3> QED BY <2>3
  <2> QED BY <2>4
<1>3. n \in S
  <2> HIDE DEF S
  <2> QED BY <1>1, <1>2, Induction
<1>4. PICK f : Is(n, f)
  BY <1>3
<1>5. IsFold(f, n, base, step)
  BY <1>4 DEF IsFold
<1> QED BY <1>5

(* The function that a fold is defined by exists, and has its values in    *)
(* any set that is closed under the step.                                  *)
LEMMA FoldExistsIn ==
  ASSUME NEW n \in Nat, NEW A, NEW base \in A, NEW step \in [A \X (1..n) -> A]
  PROVE  \E f \in [SUBSET (1..n) -> A] : IsFold(f, n, base, step)
<1>0. PICK f : IsFold(f, n, base, step)
  BY FoldExists
<1>1. f = [s \in SUBSET (1..n) |-> IF s = {} THEN base ELSE step[<<f[s \ {Max(s)}], Max(s)>>]]
  BY <1>0 DEF IsFold
<1> DEFINE S == {m \in Nat : \A s \in SUBSET (1..n) : s \subseteq 1..m => f[s] \in A}
<1>2. 0 \in S
  BY <1>1
<1>3. ASSUME NEW m \in Nat, m \in S PROVE m + 1 \in S
  <2> SUFFICES ASSUME NEW s \in SUBSET (1..n), s \subseteq 1..(m + 1) PROVE f[s] \in A
    OBVIOUS
  <2>1. CASE s = {}
    BY <2>1, <1>1
  <2>2. CASE s # {}
    <3>1. Max(s) \in s /\ \A y \in s : y <= Max(s)
      BY <2>2, MaxOf
    <3>2. s \ {Max(s)} \subseteq 1..m /\ s \ {Max(s)} \in SUBSET (1..n)
      <4>1. ASSUME NEW y \in s \ {Max(s)} PROVE y \in 1..m
        <5>1. y <= Max(s) /\ y # Max(s) /\ Max(s) \in 1..(m + 1) /\ y \in 1..(m + 1)
          BY <3>1
        <5> HIDE DEF S
        <5> QED BY <5>1
      <4> QED BY <4>1
    <3>3. f[s \ {Max(s)}] \in A
      BY <1>3, <3>2
    <3>4. f[s] = step[<<f[s \ {Max(s)}], Max(s)>>]
      BY <1>1, <2>2
    <3>5. <<f[s \ {Max(s)}], Max(s)>> \in A \X (1..n)
      BY <3>1, <3>3
    <3> HIDE DEF S
    <3> QED BY <3>4, <3>5
  <2> QED BY <2>1, <2>2
<1>4. n \in S
  <2> HIDE DEF S
  <2> QED BY <1>2, <1>3, Induction
<1>5. \A s \in SUBSET (1..n) : f[s] \in A
  BY <1>4
<1>6. f \in [SUBSET (1..n) -> A]
  <2>1. DOMAIN f = SUBSET (1..n) /\ f = [s \in DOMAIN f |-> f[s]]
    BY <1>1
  <2> HIDE DEF S
  <2> QED BY <1>5, <2>1
<1> QED BY <1>0, <1>6

LEMMA FoldPrefix ==
  ASSUME NEW n \in Nat, NEW k \in 1..n
  PROVE  /\ 1..k \in SUBSET (1..n) /\ 1..k # {}
         /\ Max(1..k) = k /\ (1..k) \ {k} = 1..(k - 1) /\ (1..0) = {}
<1>1. k \in Nat /\ 1..k \subseteq 1..k /\ k \in 1..k
  OBVIOUS
<1>2. Max(1..k) \in 1..k /\ k <= Max(1..k)
  BY <1>1, MaxOf
<1> QED BY <1>1, <1>2

(* What holds of the first value, and is kept by each step.                *)
LEMMA FoldValue ==
  ASSUME NEW n \in Nat, NEW A, NEW f, f[{}] \in A,
         \A k \in 1..n : f[1..(k - 1)] \in A => f[1..k] \in A
  PROVE  f[1..n] \in A
<1> DEFINE S == {m \in Nat : m <= n => f[1..m] \in A}
<1>1. 0 \in S
  <2>1. 1..0 = {}
    OBVIOUS
  <2> QED BY <2>1
<1>2. ASSUME NEW m \in Nat, m \in S PROVE m + 1 \in S
  <2>1. CASE m + 1 <= n
    <3>1. m + 1 \in 1..n /\ (m + 1) - 1 = m /\ m <= n
      BY <2>1
    <3>2. f[1..m] \in A
      BY <1>2, <3>1
    <3>3. f[1..((m + 1) - 1)] \in A
      BY <3>1, <3>2
    <3>4. f[1..(m + 1)] \in A
      BY <3>1, <3>3
    <3> QED BY <3>4
  <2>2. CASE ~ (m + 1 <= n)
    BY <2>2
  <2> QED BY <2>1, <2>2
<1>3. n \in S
  <2> HIDE DEF S
  <2> QED BY <1>1, <1>2, Induction
<1> QED BY <1>3

-----------------------------------------------------------------------------
(* Sorting by rank: a strict total order on a finite set puts each element *)
(* of it in one place of the sequence.                                     *)
StrictOrder(R, S) ==
  /\ R \subseteq S \X S
  /\ \A i \in S : <<i, i>> \notin R
  /\ \A i, j, k \in S : <<i, j>> \in R /\ <<j, k>> \in R => <<i, k>> \in R
  /\ \A i, j \in S : i # j => <<i, j>> \in R \/ <<j, i>> \in R

LEMMA InOrderSorts ==
  ASSUME NEW S, IsFiniteSet(S), NEW R, StrictOrder(R, S)
  PROVE  /\ Cardinality(S) \in Nat
         /\ InOrder(S, R) \in [1..Cardinality(S) -> S]
         /\ \A i \in S : \E k \in 1..Cardinality(S) : InOrder(S, R)[k] = i
         /\ \A k, l \in 1..Cardinality(S) : k < l => <<InOrder(S, R)[k], InOrder(S, R)[l]>> \in R
<1> DEFINE n == Cardinality(S)
           Below(i) == {j \in S : <<j, i>> \in R}
           rank == [i \in S |-> Cardinality(Below(i))]
           s == InOrder(S, R)
<1>1. n \in Nat
  BY FS_CardinalityType
<1>2. \A i \in S : IsFiniteSet(Below(i)) /\ rank[i] \in Nat
  <2> SUFFICES ASSUME NEW i \in S PROVE IsFiniteSet(Below(i)) /\ Cardinality(Below(i)) \in Nat
    OBVIOUS
  <2>1. Below(i) \in SUBSET S
    OBVIOUS
  <2> HIDE DEF Below
  <2> QED BY <2>1, FS_Subset, FS_CardinalityType
<1>3. ASSUME NEW i \in S, NEW j \in S, <<i, j>> \in R
      PROVE  rank[i] < rank[j]
  <2>1. Below(i) \cup {i} \in SUBSET Below(j) /\ i \notin Below(i)
    BY <1>3 DEF StrictOrder
  <2>2. IsFiniteSet(Below(j)) /\ IsFiniteSet(Below(i)) /\ rank[i] \in Nat /\ rank[j] \in Nat
    BY <1>2
  <2>3. Cardinality(Below(i) \cup {i}) = Cardinality(Below(i)) + 1
    <3> HIDE DEF Below
    <3> QED BY <2>1, <2>2, FS_AddElement
  <2>4. Cardinality(Below(i) \cup {i}) <= Cardinality(Below(j))
    <3> HIDE DEF Below
    <3> QED BY <2>1, <2>2, FS_Subset
  <2> HIDE DEF Below
  <2> QED BY <2>2, <2>3, <2>4
<1>4. ASSUME NEW i \in S PROVE rank[i] < n
  <2>1. Below(i) \in SUBSET (S \ {i})
    BY DEF StrictOrder
  <2>2. IsFiniteSet(S \ {i}) /\ Cardinality(S \ {i}) = n - 1
    BY FS_RemoveElement
  <2>3. Cardinality(Below(i)) <= Cardinality(S \ {i})
    <3> HIDE DEF Below
    <3> QED BY <2>1, <2>2, FS_Subset
  <2> QED BY <1>1, <1>2, <2>2, <2>3
<1>5. rank \in Injection(S, 0..(n - 1))
  <2>1. \A i \in S : rank[i] \in 0..(n - 1)
    BY <1>1, <1>2, <1>4
  <2>2. ASSUME NEW i \in S, NEW j \in S, i # j PROVE rank[i] # rank[j]
    <3>1. <<i, j>> \in R \/ <<j, i>> \in R
      BY <2>2 DEF StrictOrder
    <3>2. rank[i] < rank[j] \/ rank[j] < rank[i]
      BY <1>3, <3>1
    <3>3. rank[i] \in Nat /\ rank[j] \in Nat
      BY <1>2
    <3> HIDE DEF rank
    <3> QED BY <3>2, <3>3
  <2>3. rank \in [S -> 0..(n - 1)]
    BY <2>1
  <2> HIDE DEF rank
  <2> QED BY <2>2, <2>3 DEF Injection, IsInjective
<1>6. rank \in Surjection(S, 0..(n - 1))
  <2>1. IsFiniteSet(0..(n - 1)) /\ Cardinality(0..(n - 1)) = n
    BY <1>1, FS_Interval
  <2> HIDE DEF rank
  <2> QED BY <1>5, <2>1, FS_Injection
<1>7. \A k \in 1..n : \E i \in S : rank[i] = k - 1
  <2>1. \A k \in 1..n : k - 1 \in 0..(n - 1)
    BY <1>1
  <2> HIDE DEF rank
  <2> QED BY <1>6, <2>1 DEF Surjection
<1>8. ASSUME NEW k \in 1..n PROVE s[k] \in S /\ rank[s[k]] = k - 1
  <2>1. PICK x \in S : rank[x] = k - 1
    BY <1>7
  <2>2. s[k] = CHOOSE i \in S : Cardinality(Below(i)) = k - 1
    BY DEF InOrder
  <2>3. \E i \in S : Cardinality(Below(i)) = k - 1
    BY <2>1
  <2>4. s[k] \in S /\ Cardinality(Below(s[k])) = k - 1
    <3> HIDE DEF Below, s
    <3> QED BY <2>2, <2>3
  <2> HIDE DEF s
  <2> QED BY <2>4
<1>9. s \in [1..n -> S]
  <2>1. DOMAIN s = 1..n /\ s = [k \in DOMAIN s |-> s[k]]
    <3> DEFINE at(k) == CHOOSE i \in S : Cardinality({j \in S : <<j, i>> \in R}) = k - 1
    <3>1. s = [k \in 1..n |-> at(k)]
      BY DEF InOrder
    <3> HIDE DEF s, at
    <3> QED BY <3>1
  <2> HIDE DEF s
  <2> QED BY <1>8, <2>1
<1>10. ASSUME NEW i \in S PROVE \E k \in 1..n : s[k] = i
  <2>1. rank[i] + 1 \in 1..n /\ (rank[i] + 1) - 1 = rank[i]
    BY <1>1, <1>2, <1>4
  <2>2. s[rank[i] + 1] \in S /\ rank[s[rank[i] + 1]] = rank[i]
    <3> HIDE DEF rank, s
    <3> QED BY <1>8, <2>1
  <2>3. s[rank[i] + 1] = i
    <3> HIDE DEF rank, s
    <3> QED BY <1>5, <2>2 DEF Injection, IsInjective
  <2> QED BY <2>1, <2>3
<1>11. ASSUME NEW k \in 1..n, NEW l \in 1..n, k < l PROVE <<s[k], s[l]>> \in R
  <2>1. s[k] \in S /\ s[l] \in S /\ rank[s[k]] = k - 1 /\ rank[s[l]] = l - 1
    BY <1>8
  <2>2. ~ (rank[s[l]] < rank[s[k]]) /\ s[k] # s[l]
    <3> HIDE DEF rank, s
    <3> QED BY <2>1, <1>11
  <2>3. <<s[l], s[k]>> \notin R
    <3> HIDE DEF rank, s
    <3> QED BY <1>3, <2>1, <2>2
  <2> HIDE DEF rank, s
  <2> QED BY <2>1, <2>2, <2>3 DEF StrictOrder
<1> QED BY <1>1, <1>9, <1>10, <1>11

LEMMA ByOffsetIsStrict ==
  ASSUME NEW S, S \subseteq Nat, NEW t, \A i \in S : t[i].off \in Int
  PROVE  StrictOrder(ByOffset(t, S), S)
<1> DEFINE R == ByOffset(t, S)
<1>1. \A i, j \in S : <<i, j>> \in R <=> t[i].off < t[j].off \/ (t[i].off = t[j].off /\ i < j)
  BY DEF ByOffset
<1>2. R \subseteq S \X S
  BY DEF ByOffset
<1>3. \A i \in S : i \in Int
  <2> HIDE DEF R
  <2> SUFFICES ASSUME NEW i \in S PROVE i \in Int
    OBVIOUS
  <2>1. i \in Nat
    OBVIOUS
  <2> QED BY <2>1
<1> HIDE DEF R
<1>4. \A i \in S : <<i, i>> \notin R
  BY <1>1, <1>3
<1>5. \A i, j, k \in S : <<i, j>> \in R /\ <<j, k>> \in R => <<i, k>> \in R
  BY <1>1, <1>3
<1>6. \A i, j \in S : i # j => <<i, j>> \in R \/ <<j, i>> \in R
  BY <1>1, <1>3
<1> QED BY <1>2, <1>4, <1>5, <1>6 DEF StrictOrder, R

-----------------------------------------------------------------------------
(* The table of free space, and what is found in it.                       *)
Regions == [off : Unsigned, size : Unsigned]

LEMMA FreeTable ==
  ASSUME NEW R, NEW free \in Seq(R), NEW seq \in Seq(Regions),
         \A k \in 1..Len(seq) : seq[k].size > 0 => seq[k] \in R
  PROVE  FoldLeft(append_free_space_table, free, seq) \in Seq(R)
<1> DEFINE n == Len(seq)
           A == Seq(R)
           Step(acc, r) == append_free_space_table(acc, r)
           Fold(g) == g = [s \in SUBSET (DOMAIN seq) |->
                             IF s = {} THEN free ELSE Step(g[s \ {Max(s)}], seq[Max(s)])]
           f == CHOOSE g : Fold(g)
<1>1. n \in Nat /\ DOMAIN seq = 1..n
  OBVIOUS
<1>2. free \in A
  OBVIOUS
<1>3. \A a \in A, k \in 1..n : Step(a, seq[k]) \in A
  BY DEF append_free_space_table
<1>4. Fold(f)
  <2> DEFINE step == [p \in A \X (1..n) |-> Step(p[1], seq[p[2]])]
  <2>1. step \in [A \X (1..n) -> A]
    BY <1>3
  <2>2. \A a \in A, j \in 1..n : step[<<a, j>>] = Step(a, seq[j])
    OBVIOUS
  <2>3. PICK g \in [SUBSET (1..n) -> A] : IsFold(g, n, free, step)
    <3> HIDE DEF step, n, A
    <3> QED BY <1>1, <1>2, <2>1, FoldExistsIn
  <2>4. \A s \in SUBSET (1..n) : s # {} => Max(s) \in s
    BY <1>1, MaxOf
  <2>5. Fold(g)
    <3> HIDE DEF step, Step, A, n
    <3>1. \A s \in SUBSET (1..n) :
             s # {} => step[<<g[s \ {Max(s)}], Max(s)>>] = Step(g[s \ {Max(s)}], seq[Max(s)])
      BY <2>2, <2>4
    <3> QED BY <2>3, <3>1, <1>1 DEF IsFold
  <2> HIDE DEF Fold
  <2> QED BY <2>5
<1>5. f[1..n] \in A
  <2>1. f[{}] \in A
    BY <1>2, <1>4
  <2>2. ASSUME NEW k \in 1..n, f[1..(k - 1)] \in A PROVE f[1..k] \in A
    <3>1. 1..k \in SUBSET (1..n) /\ 1..k # {} /\ Max(1..k) = k /\ (1..k) \ {k} = 1..(k - 1)
      BY <1>1, FoldPrefix
    <3> HIDE DEF f, A, Step, n
    <3>2. f[1..k] = Step(f[1..(k - 1)], seq[k])
      BY <1>1, <1>4, <3>1
    <3> QED BY <3>2, <2>2, <1>3
  <2> HIDE DEF f, A
  <2> QED BY <1>1, <2>1, <2>2, FoldValue
<1>6. FoldLeft(append_free_space_table, free, seq) = f[DOMAIN seq]
  BY DEF FoldLeft, MapThenFoldSet
<1> QED BY <1>1, <1>5, <1>6

LEMMA LargestIsFree ==
  ASSUME NEW R, NEW seq \in Seq(R), NEW logical \in BOOLEAN
  PROVE  \/ find_largest_free_region(seq, logical) = NoRegion
         \/ \E r \in R : find_largest_free_region(seq, logical) = Padded(r, logical)
<1> DEFINE n == Len(seq)
           A == R \cup {NoRegion}
           Step(acc, r) == IF acc = NoRegion \/ r.size > acc.size THEN r ELSE acc
           Fold(g) == g = [s \in SUBSET (DOMAIN seq) |->
                             IF s = {} THEN NoRegion ELSE Step(g[s \ {Max(s)}], seq[Max(s)])]
           f == CHOOSE g : Fold(g)
<1>1. n \in Nat /\ DOMAIN seq = 1..n
  OBVIOUS
<1>2. NoRegion \in A
  OBVIOUS
<1>3. \A a \in A, k \in 1..n : Step(a, seq[k]) \in A
  OBVIOUS
<1>4. Fold(f)
  <2> DEFINE step == [p \in A \X (1..n) |-> Step(p[1], seq[p[2]])]
  <2>1. step \in [A \X (1..n) -> A]
    BY <1>3
  <2>2. \A a \in A, j \in 1..n : step[<<a, j>>] = Step(a, seq[j])
    OBVIOUS
  <2>3. PICK g \in [SUBSET (1..n) -> A] : IsFold(g, n, NoRegion, step)
    <3> HIDE DEF step, n, A
    <3> QED BY <1>1, <1>2, <2>1, FoldExistsIn
  <2>4. \A s \in SUBSET (1..n) : s # {} => Max(s) \in s
    BY <1>1, MaxOf
  <2>5. Fold(g)
    <3> HIDE DEF step, Step, A, n
    <3>1. \A s \in SUBSET (1..n) :
             s # {} => step[<<g[s \ {Max(s)}], Max(s)>>] = Step(g[s \ {Max(s)}], seq[Max(s)])
      BY <2>2, <2>4
    <3> QED BY <2>3, <3>1, <1>1 DEF IsFold
  <2> HIDE DEF Fold
  <2> QED BY <2>5
<1>5. f[1..n] \in A
  <2>1. f[{}] \in A
    BY <1>2, <1>4
  <2>2. ASSUME NEW k \in 1..n, f[1..(k - 1)] \in A PROVE f[1..k] \in A
    <3>1. 1..k \in SUBSET (1..n) /\ 1..k # {} /\ Max(1..k) = k /\ (1..k) \ {k} = 1..(k - 1)
      BY <1>1, FoldPrefix
    <3> HIDE DEF f, A, Step, n
    <3>2. f[1..k] = Step(f[1..(k - 1)], seq[k])
      BY <1>1, <1>4, <3>1
    <3> QED BY <3>2, <2>2, <1>3
  <2> HIDE DEF f, A
  <2> QED BY <1>1, <2>1, <2>2, FoldValue
<1>6. \/ find_largest_free_region(seq, logical) = NoRegion
      \/ f[DOMAIN seq] # NoRegion /\ find_largest_free_region(seq, logical) = Padded(f[DOMAIN seq], logical)
  BY DEF find_largest_free_region, FoldLeft, MapThenFoldSet
<1> QED BY <1>1, <1>5, <1>6

LEMMA BestFitIsFree ==
  ASSUME NEW R, NEW seq \in Seq(R), NEW logical \in BOOLEAN, NEW size \in Int,
         \A r \in R : r.size \in Int
  PROVE  \/ find_free_region_best_fit(seq, size, logical) = NoRegion
         \/ \E r \in R : /\ r.size >= size + (IF logical THEN Pad ELSE 0)
                         /\ find_free_region_best_fit(seq, size, logical) = Padded(r, logical)
<1> DEFINE n == Len(seq)
           need == size + (IF logical THEN Pad ELSE 0)
           A == {r \in R : r.size >= need} \cup {NoRegion}
           Step(acc, r) == IF acc = NoRegion THEN (IF r.size >= need THEN r ELSE acc)
                           ELSE IF r.size > need /\ r.size < acc.size THEN r ELSE acc
           Fold(g) == g = [s \in SUBSET (DOMAIN seq) |->
                             IF s = {} THEN NoRegion ELSE Step(g[s \ {Max(s)}], seq[Max(s)])]
           f == CHOOSE g : Fold(g)
<1>1. n \in Nat /\ DOMAIN seq = 1..n
  OBVIOUS
<1>2. NoRegion \in A
  OBVIOUS
<1>3. \A a \in A, k \in 1..n : Step(a, seq[k]) \in A
  <2> SUFFICES ASSUME NEW a \in A, NEW k \in 1..n PROVE Step(a, seq[k]) \in A
    OBVIOUS
  <2>1. seq[k] \in R /\ seq[k].size \in Int
    OBVIOUS
  <2>2. need \in Int
    BY DpAssumption
  <2>3. seq[k].size > need => seq[k].size >= need
    BY <2>1, <2>2
  <2> HIDE DEF need
  <2> QED BY <2>1, <2>3
<1>4. Fold(f)
  <2> DEFINE step == [p \in A \X (1..n) |-> Step(p[1], seq[p[2]])]
  <2>1. step \in [A \X (1..n) -> A]
    BY <1>3
  <2>2. \A a \in A, j \in 1..n : step[<<a, j>>] = Step(a, seq[j])
    OBVIOUS
  <2>3. PICK g \in [SUBSET (1..n) -> A] : IsFold(g, n, NoRegion, step)
    <3> HIDE DEF step, n, A
    <3> QED BY <1>1, <1>2, <2>1, FoldExistsIn
  <2>4. \A s \in SUBSET (1..n) : s # {} => Max(s) \in s
    BY <1>1, MaxOf
  <2>5. Fold(g)
    <3> HIDE DEF step, Step, A, n
    <3>1. \A s \in SUBSET (1..n) :
             s # {} => step[<<g[s \ {Max(s)}], Max(s)>>] = Step(g[s \ {Max(s)}], seq[Max(s)])
      BY <2>2, <2>4
    <3> QED BY <2>3, <3>1, <1>1 DEF IsFold
  <2> HIDE DEF Fold
  <2> QED BY <2>5
<1>5. f[1..n] \in A
  <2>1. f[{}] \in A
    BY <1>2, <1>4
  <2>2. ASSUME NEW k \in 1..n, f[1..(k - 1)] \in A PROVE f[1..k] \in A
    <3>1. 1..k \in SUBSET (1..n) /\ 1..k # {} /\ Max(1..k) = k /\ (1..k) \ {k} = 1..(k - 1)
      BY <1>1, FoldPrefix
    <3> HIDE DEF f, A, Step, n
    <3>2. f[1..k] = Step(f[1..(k - 1)], seq[k])
      BY <1>1, <1>4, <3>1
    <3> QED BY <3>2, <2>2, <1>3
  <2> HIDE DEF f, A
  <2> QED BY <1>1, <2>1, <2>2, FoldValue
<1>6. \/ find_free_region_best_fit(seq, size, logical) = NoRegion
      \/ /\ f[DOMAIN seq] # NoRegion
         /\ find_free_region_best_fit(seq, size, logical) = Padded(f[DOMAIN seq], logical)
  BY DEF find_free_region_best_fit, FoldLeft, MapThenFoldSet
<1> QED BY <1>1, <1>5, <1>6

-----------------------------------------------------------------------------
(* The table of partitions.                                                *)
Tables == [Slots -> PartEntry]

(* What the validation leaves alone: the types, and the entries that have  *)
(* the place and the size found on the disk.                               *)
SameKind(a, b) == \A i \in Slots : a[i].type = b[i].type /\ a[i].id = b[i].id
AsFound(p, old) == p.off = old.off /\ p.size = old.size /\ p.mb = old.mb
Keeps(t, found, v) ==
  /\ v \in Tables /\ SameKind(v, t)
  /\ \A i \in Slots : AsFound(t[i], found[i]) => AsFound(v[i], found[i])

LEMMA Wrapped ==
  ASSUME NEW n \in Int
  PROVE  U(n) \in Unsigned
BY DpAssumption DEF U, Unsigned

LEMMA ResizeOneKeeps ==
  ASSUME NEW t \in Tables, NEW found \in Tables, NEW i \in Slots
  PROVE  LET r == ResizeOne(t, found, i, found[i], FALSE) IN
         /\ r \in Tables
         /\ \A j \in Slots \ {i} : r[j] = t[j]
         /\ r[i].type = t[i].type /\ r[i].id = t[i].id
         /\ t[i].mb = found[i].mb => AsFound(r[i], found[i])
<1> DEFINE p == t[i]
           q == IF ~is_resized(found[i], p) THEN [p EXCEPT !.off = found[i].off, !.size = found[i].size]
                ELSE IF is_deleted(found[i], p) THEN [p EXCEPT !.off = 0, !.size = 0]
                ELSE AiStart(t, i)
<1>1. p \in PartEntry /\ found[i] \in PartEntry
  BY DEF Tables
<1>2. \A by \in Int : resize_partition(p, by) \in PartEntry
                     /\ resize_partition(p, by).type = p.type /\ resize_partition(p, by).id = p.id
  <2> SUFFICES ASSUME NEW by \in Int
               PROVE  /\ resize_partition(p, by) \in PartEntry
                      /\ resize_partition(p, by).type = p.type /\ resize_partition(p, by).id = p.id
    OBVIOUS
  <2>1. p.off + by \in Int /\ p.size - by \in Int /\ p.mb - by \div Mb \in Int
    BY <1>1, DpAssumption DEF PartEntry, Unsigned
  <2>2. U(p.off + by) \in Unsigned /\ U(p.size - by) \in Unsigned /\ U(p.mb - by \div Mb) \in Unsigned
    BY <2>1, Wrapped
  <2> HIDE DEF p
  <2> QED BY <1>1, <2>2 DEF PartEntry, resize_partition
<1>3. /\ AiStart(t, i) \in PartEntry
      /\ AiStart(t, i).type = p.type /\ AiStart(t, i).id = p.id
  BY <1>1, <1>2, DpAssumption DEF AiStart
<1>4. q \in PartEntry /\ q.type = p.type /\ q.id = p.id
  <2>1. 0 \in Unsigned
    BY DpAssumption DEF Unsigned
  <2> HIDE DEF p
  <2> QED BY <1>1, <1>3, <2>1 DEF PartEntry
<1>5. ResizeOne(t, found, i, found[i], FALSE) = [t EXCEPT ![i] = q]
  BY DEF ResizeOne
<1>6. t[i].mb = found[i].mb => AsFound(q, found[i])
  <2>1. t[i].mb = found[i].mb => q = [p EXCEPT !.off = found[i].off, !.size = found[i].size]
    BY DEF is_resized
  <2> HIDE DEF p, q
  <2>2. LET z == [p EXCEPT !.off = found[i].off, !.size = found[i].size]
        IN z.off = found[i].off /\ z.size = found[i].size /\ z.mb = p.mb
    BY <1>1 DEF PartEntry
  <2> QED BY <2>1, <2>2 DEF AsFound, p
<1> HIDE DEF q, p
<1>7. /\ [t EXCEPT ![i] = q] \in Tables /\ [t EXCEPT ![i] = q][i] = q
      /\ \A j \in Slots \ {i} : [t EXCEPT ![i] = q][j] = t[j]
  BY <1>4 DEF Tables
<1> QED BY <1>4, <1>5, <1>6, <1>7 DEF p

LEMMA ResizeOneKeepsAll ==
  ASSUME NEW t \in Tables, NEW found \in Tables, NEW v, Keeps(t, found, v), NEW i \in Slots
  PROVE  Keeps(t, found, ResizeOne(v, found, i, found[i], FALSE))
<1> DEFINE r == ResizeOne(v, found, i, found[i], FALSE)
<1>1. v \in Tables
  BY DEF Keeps
<1>2. /\ r \in Tables /\ \A j \in Slots \ {i} : r[j] = v[j]
      /\ r[i].type = v[i].type /\ r[i].id = v[i].id
      /\ v[i].mb = found[i].mb => AsFound(r[i], found[i])
  BY <1>1, ResizeOneKeeps
<1> HIDE DEF r
<1>4. SameKind(r, t)
  BY <1>2 DEF Keeps, SameKind
<1>5. AsFound(v[i], found[i]) => AsFound(r[i], found[i])
  BY <1>2 DEF AsFound
<1>6. \A j \in Slots : AsFound(t[j], found[j]) => AsFound(r[j], found[j])
  BY <1>2, <1>5 DEF Keeps
<1> QED BY <1>2, <1>4, <1>6 DEF Keeps, r

LEMMA ValidatedKeeps ==
  ASSUME NEW t \in Tables, NEW found \in Tables
  PROVE  Keeps(t, found, Validated(t, found, FALSE))
<1> DEFINE n == NParts(t)
           A == {v \in Tables : Keeps(t, found, v)}
           seq == [j \in 1..n |-> j]
           Step(acc, j) == LET k == IF FALSE THEN map_order_to_index(acc, j) ELSE j
                           IN IF k = 0 THEN acc
                              ELSE ResizeOne(acc, found, k, found[IF FALSE THEN acc[k].id ELSE k], FALSE)
           Fold(g) == g = [s \in SUBSET (DOMAIN seq) |->
                             IF s = {} THEN t ELSE Step(g[s \ {Max(s)}], seq[Max(s)])]
           f == CHOOSE g : Fold(g)
<1>1. n \in Nat /\ 1..n \subseteq Slots /\ n # 0
  BY DpAssumption DEF NParts, Slots
<1>2. t \in A
  BY DEF Keeps, SameKind
<1>3. \A a \in A, j \in 1..n : Step(a, j) \in A
  <2> SUFFICES ASSUME NEW a \in A, NEW j \in 1..n PROVE Step(a, j) \in A
    OBVIOUS
  <2>1. Keeps(t, found, ResizeOne(a, found, j, found[j], FALSE))
    BY <1>1, ResizeOneKeepsAll
  <2> QED BY <2>1 DEF Keeps
<1>4. Fold(f)
  <2> DEFINE step == [p \in A \X (1..n) |-> Step(p[1], p[2])]
  <2>1. step \in [A \X (1..n) -> A]
    BY <1>3
  <2>2. \A a \in A, j \in 1..n : step[<<a, j>>] = Step(a, j)
    OBVIOUS
  <2>3. PICK g \in [SUBSET (1..n) -> A] : IsFold(g, n, t, step)
    <3> HIDE DEF step, n, A
    <3> QED BY <1>1, <1>2, <2>1, FoldExistsIn
  <2>4. \A s \in SUBSET (1..n) : s # {} => Max(s) \in s
    BY <1>1, MaxOf
  <2>5. Fold(g)
    <3> HIDE DEF step, Step, A, n
    <3>1. \A s \in SUBSET (1..n) :
             s # {} => step[<<g[s \ {Max(s)}], Max(s)>>] = Step(g[s \ {Max(s)}], Max(s))
      BY <2>2, <2>4
    <3>2. \A s \in SUBSET (1..n) : s # {} => seq[Max(s)] = Max(s)
      BY <2>4
    <3>3. DOMAIN seq = 1..n
      OBVIOUS
    <3> HIDE DEF seq
    <3> QED BY <2>3, <3>1, <3>2, <3>3 DEF IsFold
  <2> HIDE DEF Fold
  <2> QED BY <2>5
<1>5. f[1..n] \in A
  <2>1. f[{}] \in A
    BY <1>2, <1>4
  <2>2. ASSUME NEW k \in 1..n, f[1..(k - 1)] \in A PROVE f[1..k] \in A
    <3>0. 1..k \in SUBSET (1..n) /\ 1..k # {} /\ Max(1..k) = k /\ (1..k) \ {k} = 1..(k - 1)
      BY <1>1, FoldPrefix
    <3>3. seq[k] = k /\ DOMAIN seq = 1..n
      OBVIOUS
    <3> HIDE DEF f, A, Step, n, seq
    <3>1. f[1..k] = Step(f[1..(k - 1)], k)
      BY <1>4, <3>0, <3>3
    <3> QED BY <3>1, <2>2, <1>3
  <2> HIDE DEF f, A
  <2> QED BY <1>1, <2>1, <2>2, FoldValue
<1>6. Validated(t, found, FALSE) \in {t, f[1..n]}
  BY DEF Validated, FoldLeft, MapThenFoldSet
<1> QED BY <1>2, <1>5, <1>6

LEMMA Quotient ==
  ASSUME NEW n \in Nat
  PROVE  n \div Mb \in Nat /\ n \div Mb <= n /\ (n \div Mb) * Mb <= n
BY DpAssumption

LEMMA SmallNumbers ==
  /\ 0 \in Unsigned /\ DiskSec \in Unsigned /\ DiskMb \in Unsigned /\ DiskMb * Mb \in Unsigned
  /\ DiskMb * Mb # 0
  /\ \A n \in Unsigned : n \div Mb \in Unsigned
<1>1. 0 \in Unsigned /\ DiskSec \in Unsigned /\ DiskSec \in Nat
  BY DpAssumption DEF Unsigned
<1>2. \A n \in Unsigned : n \div Mb \in Unsigned
  BY Quotient, DpAssumption DEF Unsigned
<1>3. DiskMb \in Unsigned
  BY <1>1, <1>2 DEF DiskMb
<1>4. DiskMb * Mb <= DiskSec /\ DiskMb \in Nat
  BY <1>1, Quotient DEF DiskMb
<1>5. DiskMb # 0
  BY DpAssumption DEF DiskMb
<1>6. DiskMb * Mb \in Nat /\ DiskMb * Mb # 0
  BY <1>4, <1>5, DpAssumption
<1> QED BY <1>1, <1>2, <1>3, <1>4, <1>6, DpAssumption DEF Unsigned

LEMMA ExtIsASlot ==
  ASSUME NEW t \in Tables, ExtSlots(t) # {}
  PROVE  Ext(t) \in PartEntry
<1>1. ExtSlots(t) \subseteq Nat /\ ExtSlots(t) \subseteq Slots
  BY DpAssumption DEF ExtSlots, Slots
<1>2. Min(ExtSlots(t)) \in ExtSlots(t)
  BY <1>1, MinOf
<1> QED BY <1>1, <1>2 DEF Ext, Tables

(* The regions of the table of free space are regions.                     *)
LEMMA FreeSpaceIsTyped ==
  ASSUME NEW t \in Tables, NEW logical \in BOOLEAN
  PROVE  FreeSpace(t, logical).free \in Seq(Regions)
<1> DEFINE parts == {i \in Slots : t[i].mb # 0 /\ Logical(t[i].id) = logical}
           s == SortedParts(t, logical)
           n == Len(s)
           start == IF logical THEN Ext(t).off ELSE 0
           max   == IF logical THEN Ext(t).size ELSE DiskSec
           front == IF t[s[1]].off > start + (IF logical THEN Pad ELSE 0)
                    THEN <<Region(start, t[s[1]].off)>> ELSE <<>>
           gaps  == [k \in 1..(n-1) |-> Region(End(t[s[k]]), U(t[s[k+1]].off - End(t[s[k]])))]
           back  == <<Region(End(t[s[n]]), U(max - End(t[s[n]])))>>
<1>1. IsFiniteSet(parts) /\ parts \subseteq Nat
  <2>1. IsFiniteSet(Slots) /\ Slots \subseteq Nat
    <3>1. 1 \in Int /\ NumPart \in Int
      BY DpAssumption
    <3>2. IsFiniteSet(1..NumPart)
      BY <3>1, FS_Interval
    <3> QED BY <3>1, <3>2 DEF Slots
  <2>2. parts \in SUBSET Slots
    OBVIOUS
  <2> HIDE DEF parts
  <2> QED BY <2>1, <2>2, FS_Subset
<1>2. n \in Nat /\ s \in [1..n -> Slots]
  <2>1. StrictOrder(ByOffset(t, parts), parts)
    <3>1. \A i \in parts : t[i].off \in Int
      BY DEF Tables, PartEntry, Unsigned
    <3> HIDE DEF parts
    <3> QED BY <1>1, <3>1, ByOffsetIsStrict
  <2>2. s = InOrder(parts, ByOffset(t, parts))
    BY DEF SortedParts
  <2>3. Cardinality(parts) \in Nat /\ s \in [1..Cardinality(parts) -> parts]
    <3> HIDE DEF parts, s
    <3> QED BY <1>1, <2>1, <2>2, InOrderSorts
  <2>4. parts \subseteq Slots
    OBVIOUS
  <2> HIDE DEF parts, s
  <2> QED BY <2>3, <2>4
<1>3. FreeSpace(t, logical).free \in
        {<<>>, <<Region(start, max)>>, FoldLeft(append_free_space_table, front, gaps \o back)}
  BY DEF FreeSpace
<1>4. ~ (logical /\ ExtSlots(t) = {}) => start \in Unsigned /\ max \in Unsigned
  BY SmallNumbers, ExtIsASlot DEF PartEntry
<1>5. \A k \in 1..n : t[s[k]].off \in Unsigned /\ End(t[s[k]]) \in Unsigned
  <2>1. \A p \in PartEntry : p.off \in Unsigned /\ p.off + p.size \in Int
    BY DpAssumption DEF PartEntry, Unsigned
  <2>2. \A p \in PartEntry : End(p) \in Unsigned
    BY <2>1, Wrapped DEF End
  <2>3. \A k \in 1..n : t[s[k]] \in PartEntry
    BY <1>2 DEF Tables
  <2> HIDE DEF s, n
  <2> QED BY <2>1, <2>2, <2>3
<1>6. \A a, b \in Unsigned : U(a - b) \in Unsigned
  BY Wrapped, DpAssumption DEF Unsigned
<1>7. CASE logical /\ ExtSlots(t) = {}
  BY <1>7 DEF FreeSpace
<1>8. CASE ~ (logical /\ ExtSlots(t) = {}) /\ n = 0
  <2>1. FreeSpace(t, logical).free = <<Region(start, max)>>
    BY <1>8 DEF FreeSpace
  <2>2. Region(start, max) \in Regions
    BY <1>4, <1>8 DEF Region, Regions
  <2> HIDE DEF start, max
  <2> QED BY <2>1, <2>2
<1>9. CASE ~ (logical /\ ExtSlots(t) = {}) /\ n # 0
  <2>1. FreeSpace(t, logical).free \in {<<>>, FoldLeft(append_free_space_table, front, gaps \o back)}
    BY <1>9 DEF FreeSpace
  <2>2. front \in Seq(Regions)
    <3>1. Region(start, t[s[1]].off) \in Regions
      BY <1>2, <1>4, <1>5, <1>9 DEF Region, Regions
    <3> HIDE DEF start, s
    <3> QED BY <3>1
  <2>3. gaps \in Seq(Regions)
    <3>1. \A k \in 1..(n - 1) : k \in 1..n /\ k + 1 \in 1..n
      BY <1>2
    <3>2. \A k \in 1..(n - 1) : Region(End(t[s[k]]), U(t[s[k+1]].off - End(t[s[k]]))) \in Regions
      <4> HIDE DEF s, n
      <4> QED BY <1>5, <1>6, <3>1 DEF Region, Regions
    <3>3. gaps \in [1..(n - 1) -> Regions] /\ n - 1 \in Nat
      <4> HIDE DEF s, n
      <4> QED BY <1>2, <1>9, <3>2
    <3> HIDE DEF gaps, n
    <3> QED BY <3>3
  <2>4. back \in Seq(Regions)
    <3>1. n \in 1..n
      BY <1>2, <1>9
    <3>2. Region(End(t[s[n]]), U(max - End(t[s[n]]))) \in Regions
      <4> HIDE DEF s, n, max
      <4> QED BY <1>4, <1>5, <1>6, <1>9, <3>1 DEF Region, Regions
    <3> HIDE DEF s, n, max
    <3> QED BY <3>2
  <2>5. gaps \o back \in Seq(Regions)
    <3> HIDE DEF gaps, back
    <3> QED BY <2>3, <2>4
  <2>6. FoldLeft(append_free_space_table, front, gaps \o back) \in Seq(Regions)
    <3> DEFINE all == gaps \o back
    <3> HIDE DEF front, gaps, back
    <3>1. \A k \in 1..Len(all) : all[k] \in Regions
      BY <2>5
    <3> HIDE DEF all
    <3> QED BY <2>2, <2>5, <3>1, FreeTable DEF all
  <2>7. <<>> \in Seq(Regions)
    OBVIOUS
  <2> DEFINE all == FoldLeft(append_free_space_table, front, gaps \o back)
  <2> HIDE DEF all
  <2> QED BY <2>1, <2>6, <2>7 DEF all
<1> QED BY <1>7, <1>8, <1>9

LEMMA RegionIsTyped ==
  ASSUME NEW t \in Tables, NEW size \in Int, NEW logical \in BOOLEAN
  PROVE  find_unused_region_of_size(t, size, logical) \in Regions
<1> DEFINE free == FreeSpace(t, logical).free
<1>1. NoRegion \in Regions
  BY SmallNumbers DEF NoRegion, Region, Regions
<1>2. \A r \in Regions : Padded(r, logical) \in Regions
  <2>1. \A r \in Regions : r.off + Pad \in Int /\ r.size - Pad \in Int
    BY DpAssumption DEF Regions, Unsigned
  <2> QED BY <2>1, Wrapped DEF Padded, Region, Regions
<1>3. free \in Seq(Regions)
  BY FreeSpaceIsTyped
<1>4. find_largest_free_region(free, logical) \in Regions
  <2> HIDE DEF free
  <2> QED BY <1>1, <1>2, <1>3, LargestIsFree
<1>5. find_free_region_best_fit(free, size, logical) \in Regions
  <2>1. \A r \in Regions : r.size \in Int
    BY DEF Regions, Unsigned
  <2> HIDE DEF free
  <2> QED BY <1>1, <1>2, <1>3, <2>1, BestFitIsFree
<1>6. find_unused_region_of_size(t, size, logical) \in
        {NoRegion, find_largest_free_region(free, logical), find_free_region_best_fit(free, size, logical)}
  BY DEF find_unused_region_of_size
<1> HIDE DEF free
<1> QED BY <1>1, <1>4, <1>5, <1>6

-----------------------------------------------------------------------------
(* The inductive invariant: what the attributes say is the table, of which *)
(* the entries nobody touched are as they were found; nothing is written   *)
(* before they are set, and then what they say.                            *)
IdsAreSlots(t) == \A i \in Slots : Used(t[i]) => t[i].id = i
PartsOK ==
  /\ dpFound \in Found /\ dpTable \in Tables /\ IdsAreSlots(dpTable)
  /\ dpTouched \subseteq Slots /\ whole_disk \in BOOLEAN /\ dpEdits \in 0..MaxEdits
UntouchedStay ==
  \A i \in Slots \ dpTouched : dpFound[i].mb # 0 =>
    /\ AsFound(dpTable[i], dpFound[i]) /\ Used(dpTable[i])
    /\ Logical(i) => ExtSlots(dpTable) # {}
AskedIsTable == dpAsked.set => dpAsked.table = dpTable /\ dpAsked.n = NParts(dpTable)
WrittenWhenAsked ==
  /\ tiLast.op = "none" => ti = Machine(OnDisk(dpFound))
  /\ tiLast.op # "none" => dpAsked.set
DtInv == PartsOK /\ UntouchedStay /\ AskedIsTable /\ WrittenWhenAsked /\ UntouchedPartitionsSurvive

LEMMA PartsAreTyped ==
  PartsOK => DpTypeOK
BY DEF PartsOK, DpTypeOK, Tables, PartEntry, Unsigned, IdsAreSlots

LEMMA DtInitInv ==
  DtInit => DtInv
<1> SUFFICES ASSUME DtInit PROVE DtInv
  OBVIOUS
<1> USE DEF DtInit, DpInit
<1>1. PartsOK
  <2>1. dpTable \in Tables /\ IdsAreSlots(dpTable)
    BY FoundAssumption DEF Tables, IdsAreSlots
  <2>2. dpEdits \in 0..MaxEdits
    BY DpAssumption
  <2> QED BY <2>1, <2>2 DEF PartsOK
<1>2. UntouchedStay
  BY FoundAssumption DEF UntouchedStay, AsFound
<1>3. AskedIsTable
  BY DEF AskedIsTable, NoAttrs
<1>4. WrittenWhenAsked
  BY DEF WrittenWhenAsked, NoCall
<1>5. UntouchedPartitionsSurvive
  BY DEF UntouchedPartitionsSurvive, Written, NoCall
<1> QED BY <1>1, <1>2, <1>3, <1>4, <1>5 DEF DtInv

(* An edit keeps the entries in use that it does not name, and the         *)
(* extended partition of those.                                            *)
LEMMA EditKeeps ==
  ASSUME PartsOK, UntouchedStay, NEW t \in Tables, NEW slots \in SUBSET Slots, IdsAreSlots(t),
         \A i \in Slots \ slots : Used(dpTable[i]) =>
            t[i] = dpTable[i] /\ (Logical(i) /\ ExtSlots(dpTable) # {} => ExtSlots(t) # {}),
         Edit(t, slots)
  PROVE  PartsOK' /\ UntouchedStay' /\ dpAsked' = NoAttrs
<1>1. /\ dpFound' = dpFound /\ dpTable' = t /\ dpTouched' = dpTouched \cup slots /\ whole_disk' = whole_disk
      /\ dpEdits' = dpEdits + 1 /\ dpEdits < MaxEdits
  BY DEF Edit
<1>2. PartsOK'
  <2>1. IdsAreSlots(dpTable)'
    BY <1>1 DEF IdsAreSlots
  <2> QED BY <1>1, <2>1, DpAssumption DEF PartsOK
<1>3. UntouchedStay'
  <2> SUFFICES ASSUME NEW i \in Slots, i \notin dpTouched', dpFound[i].mb # 0
               PROVE  AsFound(t[i], dpFound[i]) /\ Used(t[i]) /\ (Logical(i) => ExtSlots(t) # {})
    BY <1>1 DEF UntouchedStay
  <2> QED BY <1>1 DEF UntouchedStay
<1> QED BY <1>2, <1>3 DEF Edit

LEMMA CreateKeeps ==
  ASSUME PartsOK, UntouchedStay, NEW c \in Creations,
         om_create_partition(c.type, c.off, c.size, c.entire, c.logical)
  PROVE  PartsOK' /\ UntouchedStay' /\ dpAsked' = NoAttrs
<1> DEFINE t == dpTable
           slot == Min(FreeSlots(t, c.logical))
           at   == Placement(t, c.off, c.size, c.entire, c.logical)
           moved == [t EXCEPT ![slot].off = at.off]
           made == [t[slot] EXCEPT !.type = c.type, !.id = slot, !.off = at.off,
                                   !.size = U(at.size), !.mb = U(at.size) \div Mb, !.swap = FALSE]
           new == [t EXCEPT ![slot] = made]
<1>0. /\ c.type \in STRING /\ c.off \in {-1} \cup Unsigned /\ c.size \in Unsigned
      /\ c.entire \in BOOLEAN /\ c.logical \in BOOLEAN
  BY CreationsAssumption
<1>1. slot \in Slots /\ ~Used(t[slot])
  <2>1. FreeSlots(t, c.logical) \subseteq Nat /\ FreeSlots(t, c.logical) # {}
    BY DpAssumption DEF FreeSlots, Slots, om_create_partition
  <2>2. slot \in FreeSlots(t, c.logical)
    BY <2>1, MinOf
  <2> QED BY <2>2 DEF FreeSlots
<1>2. at.off \in Unsigned /\ at.size \in Int
  <2>1. Placeable(t, c.off, c.size, c.entire, c.logical)
    BY DEF om_create_partition
  <2> DEFINE o == IF c.entire THEN 0 ELSE c.off
             sz == IF c.entire THEN DiskMb * Mb ELSE c.size
             r == find_unused_region_of_size(t, sz, c.logical)
             all == IF c.logical THEN Ext(t).mb * Mb ELSE DiskMb * Mb
  <2>2. sz \in Unsigned /\ o \in {-1} \cup Unsigned
    BY <1>0, SmallNumbers
  <2>3. r \in Regions
    <3>1. sz \in Int
      BY <2>2 DEF Unsigned
    <3>2. t \in Tables
      BY DEF PartsOK
    <3> HIDE DEF sz
    <3> QED BY <1>0, <3>1, <3>2, RegionIsTyped
  <2>4. o # -1 /\ sz = 0 => all \in Int
    <3>1. CASE c.logical /\ o # -1 /\ sz = 0
      <4>1. ~c.entire
        BY <3>1, SmallNumbers
      <4>2. ExtSlots(t) # {}
        BY <2>1, <3>1, <4>1 DEF Placeable
      <4>3. Ext(t).mb \in Int
        BY <4>2, ExtIsASlot DEF PartsOK, PartEntry, Unsigned
      <4> QED BY <3>1, <4>3, DpAssumption
    <3>2. CASE ~c.logical
      BY <3>2, SmallNumbers DEF Unsigned
    <3> QED BY <3>1, <3>2
  <2>5. at = IF o = -1 THEN Region(r.off, IF sz = 0 THEN r.size ELSE sz)
             ELSE Region(o, IF sz = 0 THEN all ELSE sz)
    BY DEF Placement
  <2>6. r.off \in Unsigned /\ r.size \in Int /\ sz \in Int
    BY <2>2, <2>3 DEF Regions, Unsigned
  <2> HIDE DEF at, o, sz, r, all
  <2> QED BY <2>2, <2>4, <2>5, <2>6 DEF Region
<1>3. t \in Tables /\ t[slot] \in PartEntry
  BY <1>1 DEF PartsOK, Tables
<1>4. moved \in Tables /\ \A i \in Slots \ {slot} : moved[i] = t[i]
  <2>1. [t[slot] EXCEPT !.off = at.off] \in PartEntry
    <3> DEFINE p == t[slot]
    <3> HIDE DEF at, slot, p
    <3> QED BY <1>2, <1>3 DEF PartEntry, p
  <2>2. moved = [t EXCEPT ![slot] = [t[slot] EXCEPT !.off = at.off]]
    OBVIOUS
  <2> HIDE DEF at, slot, moved
  <2> QED BY <1>3, <2>1, <2>2 DEF Tables
<1>5. moved[slot].type = t[slot].type
  <2> HIDE DEF at
  <2> QED BY <1>1, <1>3 DEF Tables, PartEntry
<1>6. ASSUME c.type \in Types PROVE made \in PartEntry /\ made.id = slot
  <2>1. U(at.size) \in Unsigned /\ U(at.size) \div Mb \in Unsigned
    <3> HIDE DEF at
    <3> QED BY <1>2, Wrapped, SmallNumbers
  <2>2. slot \in 0..NumPart
    <3> HIDE DEF slot
    <3> QED BY <1>1, DpAssumption DEF Slots
  <2> DEFINE sz == U(at.size)  mb == U(at.size) \div Mb  p == t[slot]
  <2> HIDE DEF at, slot, sz, mb, p
  <2> QED BY <1>0, <1>2, <1>3, <1>6, <2>1, <2>2 DEF PartEntry, sz, mb, p
<1>7. ASSUME c.type \in Types
      PROVE  new \in Tables /\ new[slot] = made /\ \A i \in Slots \ {slot} : new[i] = t[i]
  <2>1. made \in PartEntry
    BY <1>6, <1>7
  <2> HIDE DEF made, slot
  <2> QED BY <1>1, <1>3, <2>1 DEF Tables
<1>8. ExtSlots(t) \subseteq ExtSlots(moved) /\ (c.type \in Types => ExtSlots(t) \subseteq ExtSlots(new))
  <2>1. slot \notin ExtSlots(t)
    BY <1>1 DEF ExtSlots, Used
  <2> HIDE DEF slot, moved, new
  <2> QED BY <1>4, <1>7, <2>1 DEF ExtSlots
<1>9. IdsAreSlots(moved) /\ (c.type \in Types => IdsAreSlots(new))
  <2>1. IdsAreSlots(t)
    BY DEF PartsOK
  <2>2. ~Used(moved[slot])
    <3> HIDE DEF moved, slot
    <3> QED BY <1>1, <1>5 DEF Used
  <2> HIDE DEF slot, moved, new, made
  <2> QED BY <1>4, <1>6, <1>7, <2>1, <2>2 DEF IdsAreSlots
<1>10. (c.type \in Types /\ Edit(new, {slot})) \/ Edit(moved, {})
  BY DEF om_create_partition
<1>11. CASE c.type \in Types /\ Edit(new, {slot})
  <2> HIDE DEF slot, new, made
  <2>1. \A i \in Slots \ {slot} : Used(t[i]) =>
            new[i] = t[i] /\ (Logical(i) /\ ExtSlots(t) # {} => ExtSlots(new) # {})
    BY <1>7, <1>8, <1>11
  <2> QED BY <1>1, <1>7, <1>9, <1>11, <2>1, EditKeeps
<1>12. CASE Edit(moved, {})
  <2> HIDE DEF slot, moved
  <2>1. \A i \in Slots \ {} : Used(t[i]) =>
            moved[i] = t[i] /\ (Logical(i) /\ ExtSlots(t) # {} => ExtSlots(moved) # {})
    BY <1>1, <1>4, <1>8
  <2> QED BY <1>4, <1>9, <1>12, <2>1, EditKeeps
<1> QED BY <1>10, <1>11, <1>12

LEMMA DeletedKeeps ==
  ASSUME PartsOK, UntouchedStay, NEW m,
         Edit([j \in Slots |-> IF j \in Deleted(dpTable, m) THEN Unused ELSE dpTable[j]], Deleted(dpTable, m)),
         m \in Slots
  PROVE  PartsOK' /\ UntouchedStay' /\ dpAsked' = NoAttrs
<1> DEFINE gone == Deleted(dpTable, m)
           t == [j \in Slots |-> IF j \in gone THEN Unused ELSE dpTable[j]]
<1>1. gone \in SUBSET Slots
  BY DEF Deleted
<1>2. dpTable \in Tables /\ IdsAreSlots(dpTable)
  BY DEF PartsOK
<1>3. Unused \in PartEntry /\ ~Used(Unused)
  <2>1. 0 \in Unsigned /\ 0 \in 0..NumPart
    BY SmallNumbers, DpAssumption
  <2> QED BY <2>1 DEF Unused, PartEntry, Used, Types
<1>4. t \in Tables
  <2> HIDE DEF gone
  <2> QED BY <1>2, <1>3 DEF Tables
<1>5. IdsAreSlots(t)
  <2> HIDE DEF gone
  <2> QED BY <1>2, <1>3 DEF IdsAreSlots
<1>6. ASSUME NEW i \in Slots \ gone, Used(dpTable[i])
      PROVE  t[i] = dpTable[i] /\ (Logical(i) /\ ExtSlots(dpTable) # {} => ExtSlots(t) # {})
  <2>1. t[i] = dpTable[i]
    BY <1>6
  <2>2. ASSUME Logical(i), NEW e \in ExtSlots(dpTable) PROVE e \in ExtSlots(t)
    <3>1. dpTable[m].type # "extended"
      BY <1>2, <1>6, <2>2 DEF Deleted, IdsAreSlots
    <3>2. gone = {m}
      BY <3>1 DEF Deleted
    <3>3. e # m
      BY <3>1, <2>2 DEF ExtSlots
    <3>4. e \in Slots /\ e \notin gone
      BY <2>2, <3>2, <3>3 DEF ExtSlots
    <3>5. t[e] = dpTable[e]
      BY <3>4
    <3> HIDE DEF t
    <3> QED BY <2>2, <3>4, <3>5 DEF ExtSlots
  <2> HIDE DEF t
  <2> QED BY <2>1, <2>2
<1>7. Edit(t, gone)
  OBVIOUS
<1> HIDE DEF t, gone
<1> QED BY <1>1, <1>4, <1>5, <1>6, <1>7, EditKeeps

LEMMA AbsentKeeps ==
  ASSUME PartsOK, UntouchedStay, om_create_target_partition_info_if_absent
  PROVE  PartsOK' /\ UntouchedStay' /\ dpAsked' = NoAttrs
<1> DEFINE p == [dpTable[1] EXCEPT !.type = "solaris2", !.id = 1, !.mb = DiskMb, !.size = DiskMb * Mb]
           t == [dpTable EXCEPT ![1] = p]
<1>1. \A i \in Slots : ~Used(dpTable[i])
  BY DEF om_create_target_partition_info_if_absent
<1>2. 1 \in Slots /\ 1 \in 0..NumPart /\ dpTable \in Tables
  BY DpAssumption DEF PartsOK, Slots
<1>3. p \in PartEntry /\ p.id = 1
  <2>1. dpTable[1] \in PartEntry
    BY <1>2 DEF Tables
  <2> DEFINE q == dpTable[1]  sz == DiskMb * Mb
  <2>2. sz \in Unsigned /\ DiskMb \in Unsigned
    BY SmallNumbers
  <2>3. p = [q EXCEPT !.type = "solaris2", !.id = 1, !.mb = DiskMb, !.size = sz]
    OBVIOUS
  <2> HIDE DEF q, sz, p
  <2> QED BY <1>2, <2>1, <2>2, <2>3 DEF PartEntry, Types, q
<1>4. t \in Tables /\ t[1] = p /\ \A i \in Slots \ {1} : t[i] = dpTable[i]
  <2> HIDE DEF p
  <2> QED BY <1>2, <1>3 DEF Tables
<1>5. IdsAreSlots(t)
  <2> HIDE DEF t, p
  <2> QED BY <1>1, <1>3, <1>4 DEF IdsAreSlots
<1>6. Edit(t, {1})
  BY DEF om_create_target_partition_info_if_absent
<1> HIDE DEF t
<1> QED BY <1>1, <1>2, <1>4, <1>5, <1>6, EditKeeps

LEMMA KindDecides ==
  ASSUME NEW t \in Tables, NEW v \in Tables, SameKind(v, t)
  PROVE  /\ ExtSlots(v) = ExtSlots(t) /\ NParts(v) = NParts(t)
         /\ \A i \in Slots : Used(v[i]) = Used(t[i])
         /\ IdsAreSlots(t) => IdsAreSlots(v)
<1>1. ExtSlots(v) = ExtSlots(t)
  BY DEF SameKind, ExtSlots
<1>2. \A i \in Slots : Used(v[i]) = Used(t[i])
  BY DEF SameKind, Used
<1> QED BY <1>1, <1>2 DEF SameKind, IdsAreSlots, NParts

LEMMA FinalizeKeeps ==
  ASSUME PartsOK, UntouchedStay, om_finalize_fdisk_info_for_TI
  PROVE  PartsOK' /\ UntouchedStay' /\ dpAsked' = NoAttrs
<1> DEFINE v == Validated(dpTable, dpFound, FALSE)
<1>1. /\ dpTable' = v /\ whole_disk' = IsWhole(dpTable) /\ dpAsked' = NoAttrs
      /\ dpFound' = dpFound /\ dpTouched' = dpTouched /\ dpEdits' = dpEdits
  BY DEF om_finalize_fdisk_info_for_TI, Finalize
<1>2. dpTable \in Tables /\ dpFound \in Tables /\ IdsAreSlots(dpTable)
  BY FoundAssumption DEF PartsOK, Tables
<1>3. v \in Tables /\ SameKind(v, dpTable)
      /\ \A i \in Slots : AsFound(dpTable[i], dpFound[i]) => AsFound(v[i], dpFound[i])
  BY <1>2, ValidatedKeeps DEF Keeps
<1>4. IdsAreSlots(v) /\ ExtSlots(v) = ExtSlots(dpTable) /\ \A i \in Slots : Used(v[i]) = Used(dpTable[i])
  BY <1>2, <1>3, KindDecides
<1>5. IsWhole(dpTable) \in BOOLEAN
  BY DEF IsWhole
<1> HIDE DEF v
<1>6. PartsOK'
  <2>1. IdsAreSlots(dpTable)'
    BY <1>1, <1>4 DEF IdsAreSlots
  <2> QED BY <1>1, <1>3, <1>5, <2>1 DEF PartsOK
<1>7. UntouchedStay'
  <2> SUFFICES ASSUME NEW i \in Slots \ dpTouched', dpFound'[i].mb # 0
               PROVE  /\ AsFound(dpTable'[i], dpFound'[i]) /\ Used(dpTable'[i])
                      /\ Logical(i) => ExtSlots(dpTable') # {}
    BY DEF UntouchedStay
  <2> QED BY <1>1, <1>3, <1>4 DEF UntouchedStay
<1> QED BY <1>1, <1>6, <1>7

LEMMA SetKeeps ==
  ASSUME PartsOK, UntouchedStay, om_set_fdisk_target_attrs
  PROVE  PartsOK' /\ UntouchedStay' /\ AskedIsTable' /\ dpAsked'.set
<1> DEFINE at == Min(InstallSlots(dpTable))
           t == [dpTable EXCEPT ![at].type = "solaris2"]
<1>1. dpTable \in Tables /\ IdsAreSlots(dpTable)
  BY DEF PartsOK
<1>2. at \in Slots /\ dpTable[at].type \in {"solaris", "solaris2"}
  <2>1. InstallSlots(dpTable) # {} /\ InstallSlots(dpTable) \subseteq Nat
    BY DpAssumption DEF om_set_fdisk_target_attrs, InstallSlots, NParts
  <2>2. at \in InstallSlots(dpTable)
    BY <2>1, MinOf
  <2>3. 1..NParts(dpTable) \subseteq Slots
    BY DpAssumption DEF NParts, Slots
  <2> QED BY <2>2, <2>3 DEF InstallSlots
<1> HIDE DEF at
<1>3. t \in Tables /\ t[at].type = "solaris2" /\ t[at].id = dpTable[at].id
      /\ t[at].off = dpTable[at].off /\ t[at].size = dpTable[at].size /\ t[at].mb = dpTable[at].mb
      /\ \A i \in Slots \ {at} : t[i] = dpTable[i]
  <2>1. t = [dpTable EXCEPT ![at] = [dpTable[at] EXCEPT !.type = "solaris2"]]
    OBVIOUS
  <2> DEFINE p == dpTable[at]  q == [p EXCEPT !.type = "solaris2"]
  <2>2. p \in PartEntry
    BY <1>1, <1>2 DEF Tables
  <2>3. /\ q \in PartEntry /\ q.type = "solaris2" /\ q.id = p.id /\ q.off = p.off
        /\ q.size = p.size /\ q.mb = p.mb
    <3> HIDE DEF p
    <3>1. q \in PartEntry
      BY <2>2 DEF PartEntry, Types
    <3>2. q.type = "solaris2" /\ q.id = p.id /\ q.off = p.off
      BY <2>2 DEF PartEntry
    <3>3. q.size = p.size /\ q.mb = p.mb
      BY <2>2 DEF PartEntry
    <3> QED BY <3>1, <3>2, <3>3
  <2> HIDE DEF q, t
  <2> QED BY <1>1, <1>2, <2>1, <2>3 DEF Tables, q
<1>4. /\ dpTable' = t /\ dpAsked'.set /\ dpAsked'.table = t /\ dpAsked'.n = NParts(t)
      /\ UNCHANGED <<dpFound, dpTouched, whole_disk, dpEdits>>
  BY DEF om_set_fdisk_target_attrs, at
<1> HIDE DEF t
<1>5. /\ ExtSlots(t) = ExtSlots(dpTable)
      /\ \A i \in Slots : Used(t[i]) = Used(dpTable[i]) /\ (AsFound(dpTable[i], dpFound[i]) => AsFound(t[i], dpFound[i]))
  <2>1. at \notin ExtSlots(t) /\ at \notin ExtSlots(dpTable)
    BY <1>2, <1>3 DEF ExtSlots
  <2>2. ExtSlots(t) = ExtSlots(dpTable)
    BY <1>3, <2>1 DEF ExtSlots
  <2>3. ASSUME NEW i \in Slots
        PROVE  Used(t[i]) = Used(dpTable[i]) /\ (AsFound(dpTable[i], dpFound[i]) => AsFound(t[i], dpFound[i]))
    BY <1>2, <1>3 DEF Used, AsFound
  <2> QED BY <2>2, <2>3
<1>6. IdsAreSlots(t)
  BY <1>1, <1>2, <1>3, <1>5 DEF IdsAreSlots
<1>7. PartsOK'
  <2>1. IdsAreSlots(dpTable)'
    BY <1>4, <1>6 DEF IdsAreSlots
  <2> QED BY <1>3, <1>4, <2>1 DEF PartsOK
<1>8. UntouchedStay'
  <2> SUFFICES ASSUME NEW i \in Slots \ dpTouched', dpFound'[i].mb # 0
               PROVE  /\ AsFound(dpTable'[i], dpFound'[i]) /\ Used(dpTable'[i])
                      /\ Logical(i) => ExtSlots(dpTable') # {}
    BY DEF UntouchedStay
  <2> QED BY <1>4, <1>5 DEF UntouchedStay
<1>9. AskedIsTable'
  BY <1>4 DEF AskedIsTable, NParts, ExtSlots
<1> QED BY <1>4, <1>7, <1>8, <1>9

(* Before the table is written whatever is mounted from the disk or swaps  *)
(* to it is released, as far as that goes.                                 *)
HasParts(s, P) == "parts" \in DOMAIN s /\ s.parts = P

LEMMA ReleaseKeepsParts ==
  ASSUME NEW P, NEW s, HasParts(s, P), NEW disk
  PROVE  /\ \A o \in idm_unmount_all(s, disk) : HasParts(o.s, P)
         /\ \A o \in idm_release_swap(s, disk) : HasParts(o.s, P)
<1>1. ASSUME NEW m PROVE HasParts([s EXCEPT !.mounted = m], P) /\ HasParts([s EXCEPT !.swap = m], P)
  BY DEF HasParts
<1>2. ASSUME NEW o \in idm_unmount_all(s, disk) PROVE HasParts(o.s, P)
  <2>1. \E m, r : o = Out([s EXCEPT !.mounted = m], r)
    BY <1>2 DEF idm_unmount_all, Done
  <2>2. PICK m, r : o = Out([s EXCEPT !.mounted = m], r)
    BY <2>1
  <2>3. o.s = [s EXCEPT !.mounted = m]
    BY <2>2 DEF Out
  <2> QED BY <1>1, <2>3
<1>3. ASSUME NEW o \in idm_release_swap(s, disk) PROVE HasParts(o.s, P)
  <2>1. \E m, r : o = Out([s EXCEPT !.swap = m], r)
    BY <1>3 DEF idm_release_swap, Done
  <2>2. PICK m, r : o = Out([s EXCEPT !.swap = m], r)
    BY <2>1
  <2>3. o.s = [s EXCEPT !.swap = m]
    BY <2>2 DEF Out
  <2> QED BY <1>1, <2>3
<1> QED BY <1>2, <1>3

(* What the partitions P become: they stay, or are those listed in a, with *)
(* the ones to preserve among P.                                           *)
WrittenFrom(P, a, new) ==
  \E t : /\ HasParts(t, P)
         /\ \/ new = t /\ \A i \in 1..a.n : a.preserve[i]
            \/ /\ idm_fill_preserved_partitions(t, a) # NoEntries
               /\ new = [t EXCEPT !.parts = {idm_fill_preserved_partitions(t, a)[i] :
                                               i \in {j \in 1..a.n : a.used[j]}}]

LEMMA FdiskWrites ==
  ASSUME NEW P, NEW s, HasParts(s, P), NEW a, ~a.whole, a.n # 0, a.keeps,
         NEW o \in imm_create_fdisk_target(s, a), o.ret = "ok"
  PROVE  WrittenFrom(P, a, o.s)
<1> DEFINE unmounted == As("TI_E_UNMOUNT_FAILED", idm_unmount_all(s, a.disk))
           Free(t) == Whatever(idm_release_swap(t, a.disk))
           Table(t) == idm_fdisk_create_part_table(t, a)
           LastStep(t) == As("TI_E_FDISK_FAILED", Table(t))
           freed == Then(unmounted, Free)
<1>1. \A u \in unmounted : HasParts(u.s, P)
  BY ReleaseKeepsParts DEF As, Out
<1>2. \A t : HasParts(t, P) => \A u \in Free(t) : HasParts(u.s, P)
  BY ReleaseKeepsParts DEF Whatever, Out
<1>3. \A u \in freed : HasParts(u.s, P)
  <2> SUFFICES ASSUME NEW u \in freed PROVE HasParts(u.s, P)
    OBVIOUS
  <2>1. PICK v \in unmounted : u \in IF v.ret = "ok" THEN Free(v.s) ELSE {v}
    <3> HIDE DEF unmounted, Free
    <3> QED BY DEF Then
  <2> HIDE DEF unmounted, Free
  <2> QED BY <1>1, <1>2, <2>1
<1>4. imm_create_fdisk_target(s, a) = Then(freed, LastStep)
  BY DEF imm_create_fdisk_target
<1>5. PICK v \in freed : o \in IF v.ret = "ok" THEN LastStep(v.s) ELSE {v}
  <2> HIDE DEF freed, LastStep
  <2> QED BY <1>4 DEF Then
<1>6. CASE v.ret # "ok"
  BY <1>5, <1>6
<1>7. CASE v.ret = "ok"
  <2>1. PICK w \in Table(v.s) : o = IF w.ret \in {"ok", "abort"} THEN w ELSE Out(w.s, "TI_E_FDISK_FAILED")
    <3>1. o \in As("TI_E_FDISK_FAILED", Table(v.s))
      BY <1>5, <1>7
    <3> HIDE DEF Table
    <3> QED BY <3>1 DEF As
  <2>2. o = w /\ w.ret = "ok"
    BY <2>1 DEF Out
  <2> DEFINE t == v.s
             new == idm_fill_preserved_partitions(t, a)
             out == [t EXCEPT !.parts = {new[i] : i \in {j \in 1..a.n : a.used[j]}}]
  <2>3. HasParts(t, P)
    BY <1>3
  <2>4. CASE \A i \in 1..a.n : a.preserve[i]
    <3>1. w \in Done(t)
      BY <2>1, <2>4 DEF idm_fdisk_create_part_table
    <3>2. w = Out(t, "ok")
      BY <3>1 DEF Done
    <3>3. o.s = t
      BY <2>2, <3>2 DEF Out
    <3> QED BY <2>3, <2>4, <3>3 DEF WrittenFrom
  <2>5. CASE ~ \A i \in 1..a.n : a.preserve[i]
    <3>1. \/ new = NoEntries /\ w = Out(t, "IDM_E_FDISK_PART_TABLE_FAILED")
          \/ new # NoEntries /\ w \in Cmd("fdisk", t, out, "IDM_E_FDISK_PART_TABLE_FAILED")
      BY <2>1, <2>5 DEF idm_fdisk_create_part_table
    <3>2. w.ret # "ok" \/ new # NoEntries
      BY <3>1 DEF Out
    <3>3. new # NoEntries /\ w = Out(out, "ok")
      <4>1. \A u \in Cmd("fdisk", t, out, "IDM_E_FDISK_PART_TABLE_FAILED") :
              u = Out(out, "ok") \/ u = Out(t, "IDM_E_FDISK_PART_TABLE_FAILED")
        BY DEF Cmd, Done
      <4>2. Out(t, "IDM_E_FDISK_PART_TABLE_FAILED").ret # "ok"
        BY DEF Out
      <4> HIDE DEF out, new
      <4> QED BY <2>2, <3>1, <4>1, <4>2
    <3>4. o.s = out
      BY <2>2, <3>3 DEF Out
    <3> QED BY <2>3, <3>3, <3>4 DEF WrittenFrom
  <2> QED BY <2>4, <2>5
<1> QED BY <1>6, <1>7

(* A partition that nobody touched is among those that are to be kept, or  *)
(* is listed where it was found.                                           *)
LEMMA CommitFdiskKeeps ==
  ASSUME DtInv, CommitFdisk
  PROVE  DtInv'
<1> DEFINE P == OnDisk(dpFound)
           s == Machine(P)
           a == FdiskAttrs
           n == dpAsked.n
           t == dpAsked.table
<1>1. /\ PartsOK /\ UntouchedStay /\ AskedIsTable /\ ti = s /\ dpAsked.set
      /\ UNCHANGED <<dpFound, dpTable, dpTouched, whole_disk, dpAsked, dpEdits>>
  BY DEF DtInv, CommitFdisk, WrittenWhenAsked, dpVars
<1>2. t = dpTable /\ n = NParts(dpTable)
  BY <1>1 DEF AskedIsTable
<1>3. /\ a.type = "FDISK" /\ a.whole = dpAsked.whole /\ a.n = n /\ a.keeps /\ a.table = t
      /\ a.preserve = dpAsked.preserve /\ a.used = [i \in 1..n |-> t[i].mb # 0]
  BY DEF FdiskAttrs
<1>4. n \in Nat /\ n # 0 /\ 1..n \subseteq Slots
  BY <1>2, DpAssumption DEF NParts, Slots
<1>5. PICK o \in imm_create_fdisk_target(s, a) :
        ti' = o.s /\ tiLast' = [op |-> "FDISK", attrs |-> "none", ret |-> o.ret]
  <2>1. \E o \in ti_create_target(ti, a) : TiStep(a.type, "none", o)
    BY DEF CommitFdisk, TiSaid
  <2>2. ti_create_target(s, a) = imm_create_fdisk_target(s, a)
    <3> HIDE DEF s, a
    <3> QED BY <1>3 DEF ti_create_target
  <2> HIDE DEF s, a
  <2> QED BY <1>1, <1>3, <2>1, <2>2 DEF TiStep
<1>6. PartsOK' /\ UntouchedStay' /\ AskedIsTable'
  BY <1>1 DEF PartsOK, UntouchedStay, AskedIsTable, IdsAreSlots
<1>7. WrittenWhenAsked'
  BY <1>1, <1>5 DEF WrittenWhenAsked
<1>8. UntouchedPartitionsSurvive'
  <2> SUFFICES ASSUME o.ret = "ok", ~dpAsked.whole,
                      NEW i \in Slots \ dpTouched, dpFound[i].mb # 0
               PROVE  \E p \in ti'.parts : Place(p) = Place(dpFound[i])
    BY <1>1, <1>5 DEF UntouchedPartitionsSurvive, Written
  <2>1. HasParts(s, P)
    BY DEF HasParts, Machine
  <2>2. PICK m : /\ HasParts(m, P)
                 /\ \/ o.s = m /\ \A j \in 1..a.n : a.preserve[j]
                    \/ /\ idm_fill_preserved_partitions(m, a) # NoEntries
                       /\ o.s = [m EXCEPT !.parts = {idm_fill_preserved_partitions(m, a)[j] :
                                                       j \in {k \in 1..a.n : a.used[k]}}]
    <3>1. ~a.whole /\ a.n # 0 /\ a.keeps
      <4> HIDE DEF a
      <4> QED BY <1>3, <1>4
    <3>2. WrittenFrom(P, a, o.s)
      <4> HIDE DEF s, a, P
      <4> QED BY <1>5, <2>1, <3>1, FdiskWrites
    <3> HIDE DEF s, a, P
    <3> QED BY <3>2 DEF WrittenFrom
  <2>3. AsFound(t[i], dpFound[i]) /\ Used(t[i]) /\ (Logical(i) => ExtSlots(t) # {})
    BY <1>1, <1>2 DEF UntouchedStay
  <2>4. Used(dpFound[i])
    BY <1>1, FoundAssumption DEF PartsOK
  <2>5. CASE o.s = m
    <3> DEFINE q == [type |-> dpFound[i].type, off |-> dpFound[i].off, size |-> dpFound[i].size]
    <3>1. q \in P
      BY <2>4 DEF OnDisk
    <3>2. ti'.parts = P
      BY <1>5, <2>2, <2>5 DEF HasParts
    <3>3. Place(q) = Place(dpFound[i])
      BY DEF Place
    <3> HIDE DEF q, P
    <3> QED BY <3>1, <3>2, <3>3
  <2>6. CASE o.s # m
    <3> DEFINE new == idm_fill_preserved_partitions(m, a)
           parts == {new[j] : j \in {k \in 1..a.n : a.used[k]}}
    <3>1. new # NoEntries /\ ti'.parts = {new[j] : j \in {k \in 1..n : a.used[k]}}
      <4>1. new # NoEntries /\ o.s = [m EXCEPT !.parts = parts]
        <5> HIDE DEF a
        <5> QED BY <2>2, <2>6
      <4>2. [m EXCEPT !.parts = parts].parts = parts
        <5> HIDE DEF parts
        <5> QED BY <2>2 DEF HasParts
      <4> HIDE DEF new, a, n
      <4> QED BY <1>3, <1>5, <4>1, <4>2
    <3>2. i \in 1..n
      BY <1>2, <2>3, DpAssumption DEF NParts, Slots, Logical
    <3>3. a.used[i]
      BY <1>3, <2>3, <3>2 DEF AsFound
    <3>4. new[i].off = t[i].off /\ new[i].size = t[i].size
      <4> DEFINE kept == {j \in 1..n : a.preserve[j]}
      <4>1. /\ ~ \E j \in kept : Matches(m, t[j]) = {}
            /\ new = [j \in 1..n |-> IF j \in kept THEN CHOOSE q \in Matches(m, t[j]) : TRUE
                                     ELSE [type |-> t[j].type, off |-> t[j].off, size |-> t[j].size]]
        <5> HIDE DEF a, n, t
        <5> QED BY <1>3, <3>1 DEF idm_fill_preserved_partitions
      <4>2. CASE i \in kept
        <5>1. new[i] \in Matches(m, t[i])
          <6> HIDE DEF kept, n, t, new
          <6> QED BY <3>2, <4>1, <4>2
        <5> HIDE DEF new, t
        <5> QED BY <5>1 DEF Matches
      <4>3. CASE i \notin kept
        <5> HIDE DEF kept, n, new
        <5> QED BY <3>2, <4>1, <4>3
      <4> QED BY <4>2, <4>3
    <3>5. Place(new[i]) = Place(dpFound[i])
      <4> HIDE DEF new, t
      <4> QED BY <2>3, <3>4 DEF Place, AsFound
    <3> HIDE DEF new, a, n
    <3> QED BY <3>1, <3>2, <3>3, <3>5
  <2> QED BY <2>5, <2>6
<1> QED BY <1>6, <1>7, <1>8 DEF DtInv

(* Nothing is written while the tables are edited.                         *)
LEMMA EditingKeeps ==
  ASSUME DtInv, PartsOK', UntouchedStay', AskedIsTable', tiLast.op = "none", UNCHANGED <<dpFound, tiVars>>
  PROVE  DtInv'
<1>1. ti = Machine(OnDisk(dpFound)) /\ ti' = ti /\ tiLast' = tiLast /\ dpFound' = dpFound
  BY DEF DtInv, WrittenWhenAsked, tiVars
<1>2. WrittenWhenAsked'
  BY <1>1 DEF WrittenWhenAsked
<1>3. UntouchedPartitionsSurvive'
  BY <1>1 DEF UntouchedPartitionsSurvive, Written
<1> QED BY <1>2, <1>3 DEF DtInv

LEMMA PartEditKeeps ==
  ASSUME DtInv, PartEdit
  PROVE  DtInv'
<1>1. PartsOK /\ UntouchedStay /\ tiLast.op = "none" /\ UNCHANGED tiVars
  BY DEF DtInv, PartEdit, Editing, WrittenWhenAsked
<1> SUFFICES PartsOK' /\ UntouchedStay' /\ dpAsked' = NoAttrs /\ dpFound' = dpFound
  <2>1. AskedIsTable' /\ UNCHANGED <<dpFound, tiVars>>
    BY <1>1 DEF AskedIsTable, NoAttrs
  <2> QED BY <1>1, <2>1, EditingKeeps
<1>2. \A t, slots : Edit(t, slots) => dpFound' = dpFound
  BY DEF Edit
<1>3. CASE \E c \in Creations : om_create_partition(c.type, c.off, c.size, c.entire, c.logical)
  <2>1. PICK c \in Creations : om_create_partition(c.type, c.off, c.size, c.entire, c.logical)
    BY <1>3
  <2>2. dpFound' = dpFound
    BY <1>2, <2>1 DEF om_create_partition
  <2> QED BY <1>1, <2>1, <2>2, CreateKeeps
<1>4. CASE \E i \in Slots : om_delete_partition(i)
  <2>1. PICK i \in Slots : om_delete_partition(i)
    BY <1>4
  <2>2. Edit([j \in Slots |-> IF j \in Deleted(dpTable, i) THEN Unused ELSE dpTable[j]], Deleted(dpTable, i))
    BY <2>1 DEF om_delete_partition
  <2>3. dpFound' = dpFound
    BY <2>2 DEF Edit
  <2> QED BY <1>1, <2>2, <2>3, DeletedKeeps
<1>5. CASE \E i \in Slots : om_delete_partition_at(dpTable[i].off, dpTable[i].size)
  <2>1. PICK i \in Slots : om_delete_partition_at(dpTable[i].off, dpTable[i].size)
    BY <1>5
  <2> DEFINE at == {j \in Slots : dpTable[j].off = dpTable[i].off /\ dpTable[i].size \in {0, dpTable[j].size}}
  <2>2. /\ at # {}
        /\ Edit([j \in Slots |-> IF j \in Deleted(dpTable, Min(at)) THEN Unused ELSE dpTable[j]],
                Deleted(dpTable, Min(at)))
    BY <2>1 DEF om_delete_partition_at
  <2>3. Min(at) \in Slots
    <3>1. at \subseteq Nat /\ at # {}
      BY <2>2, DpAssumption DEF Slots
    <3>2. Min(at) \in at
      <4> HIDE DEF at
      <4> QED BY <3>1, MinOf
    <3> QED BY <3>2
  <2>4. dpFound' = dpFound
    <3> HIDE DEF at
    <3> QED BY <2>2 DEF Edit
  <2> HIDE DEF at
  <2> QED BY <1>1, <2>2, <2>3, <2>4, DeletedKeeps
<1>6. CASE om_create_target_partition_info_if_absent
  <2>1. dpFound' = dpFound
    BY <1>6, <1>2 DEF om_create_target_partition_info_if_absent
  <2> QED BY <1>1, <1>6, <2>1, AbsentKeeps
<1>7. CASE om_finalize_fdisk_info_for_TI
  <2>1. dpFound' = dpFound
    BY <1>7 DEF om_finalize_fdisk_info_for_TI, Finalize
  <2> QED BY <1>1, <1>7, <2>1, FinalizeKeeps
<1> QED BY <1>3, <1>4, <1>5, <1>6, <1>7 DEF PartEdit

LEMMA SliceEditKeeps ==
  ASSUME DtInv, SliceEdit
  PROVE  DtInv'
<1>1. \A op, a : SlCall(op, a) =>
        /\ dpEdits < MaxEdits /\ dpEdits' = dpEdits + 1
        /\ UNCHANGED <<dpFound, dpTable, dpTouched, whole_disk, dpAsked>>
  BY DEF SlCall
<1>2. /\ dpEdits < MaxEdits /\ dpEdits' = dpEdits + 1
      /\ UNCHANGED <<dpFound, dpTable, dpTouched, whole_disk, dpAsked>>
  <2>1. CASE \E i \in SlIds : om_preserve_slice(i) \/ om_delete_slice(i)
    BY <2>1, <1>1 DEF om_preserve_slice, om_delete_slice
  <2>2. CASE \E i \in SlIds \cup {99}, size \in Sizes, over \in BOOLEAN : om_create_slice(i, size, "root", over)
    BY <2>2, <1>1 DEF om_create_slice
  <2>3. CASE \E i \in SlIds \cup {99} : om_finalize_vtoc_for_TI(i)
    BY <2>3, <1>1 DEF om_finalize_vtoc_for_TI
  <2>4. CASE om_get_min_size
    BY <2>4, <1>1 DEF om_get_min_size
  <2> QED BY <2>1, <2>2, <2>3, <2>4 DEF SliceEdit
<1>3. PartsOK'
  <2>1. PartsOK
    BY DEF DtInv
  <2> QED BY <1>2, <2>1, DpAssumption DEF PartsOK, IdsAreSlots
<1>4. UntouchedStay' /\ AskedIsTable'
  <2>1. UntouchedStay /\ AskedIsTable
    BY DEF DtInv
  <2> QED BY <1>2, <2>1 DEF UntouchedStay, AskedIsTable
<1>5. tiLast.op = "none" /\ UNCHANGED <<dpFound, tiVars>>
  BY <1>2 DEF DtInv, SliceEdit, Editing, WrittenWhenAsked
<1> QED BY <1>3, <1>4, <1>5, EditingKeeps

LEMMA DtStepKeeps ==
  ASSUME DtInv, [DtNext]_dtVars
  PROVE  DtInv'
<1>1. CASE PartEdit
  BY <1>1, PartEditKeeps
<1>2. CASE SliceEdit
  BY <1>2, SliceEditKeeps
<1>3. CASE SetFdisk
  <2>1. PartsOK /\ UntouchedStay /\ tiLast.op = "none"
    BY <1>3 DEF DtInv, SetFdisk, Editing, WrittenWhenAsked
  <2>2. om_set_fdisk_target_attrs /\ UNCHANGED <<dpFound, tiVars>>
    BY <1>3 DEF SetFdisk, om_set_fdisk_target_attrs
  <2> QED BY <2>1, <2>2, SetKeeps, EditingKeeps
<1>4. CASE CommitFdisk
  BY <1>4, CommitFdiskKeeps
<1>5. ASSUME UNCHANGED <<dpVars, tiVars>> PROVE DtInv'
  BY <1>5 DEF dpVars, tiVars, DtInv, PartsOK, IdsAreSlots, UntouchedStay, AskedIsTable, WrittenWhenAsked,
              UntouchedPartitionsSurvive, Written
<1>6. CASE Target
  BY <1>5, <1>6 DEF Target, om_get_device_target_info, dpVars
<1>7. CASE SetVtoc
  BY <1>5, <1>7 DEF SetVtoc, om_set_vtoc_target_attrs
<1>8. CASE CommitVtoc
  <2>1. /\ UNCHANGED dpVars /\ dpAsked.set
        /\ \E o : TiStep("VTOC", "none", o)
    BY <1>8 DEF CommitVtoc, TiSaid, VtocAttrs, DtInv, WrittenWhenAsked
  <2>2. tiLast'.op = "VTOC"
    BY <2>1 DEF TiStep
  <2> QED BY <2>1, <2>2 DEF dpVars, DtInv, PartsOK, IdsAreSlots, UntouchedStay, AskedIsTable, WrittenWhenAsked,
              UntouchedPartitionsSurvive, Written
<1>9. CASE UNCHANGED dtVars
  BY <1>5, <1>9 DEF dtVars
<1> QED BY <1>1, <1>2, <1>3, <1>4, <1>6, <1>7, <1>8, <1>9 DEF DtNext

LEMMA DtInvHolds ==
  DtSpec => []DtInv
BY DtInitInv, DtStepKeeps, PTL DEF DtSpec

(* The table of partitions that is edited and set holds unsigned numbers   *)
(* of sectors, and each entry in use is in the slot of its number, whatever*)
(* is created, deleted and finalized (om_create_partition,                 *)
(* om_delete_partition, om_validate_and_resize_disk_partitions).           *)
THEOREM DiskTargetTypeCorrect ==
  DtSpec => []DpTypeOK
<1>1. DtInv => DpTypeOK
  BY PartsAreTyped DEF DtInv
<1> QED BY <1>1, DtInvHolds, PTL

(* A partition nobody edited is on the disk, in its place and of its size, *)
(* whenever the library said that it wrote the table: on a disk with any   *)
(* number of slots, any tables found on it, any creations and deletions in *)
(* any order, and any failures of the commands (om_set_fdisk_target_attrs, *)
(* idm_fill_preserved_partitions).                                         *)
THEOREM UntouchedPartitionsSurvived ==
  DtSpec => []UntouchedPartitionsSurvive
<1>1. DtInv => UntouchedPartitionsSurvive
  BY DEF DtInv
<1> QED BY <1>1, DtInvHolds, PTL

-----------------------------------------------------------------------------
(* The editor of slices. Each of its functions turns a state of the editor *)
(* into one, in which what is to be preserved is what it was.              *)
IsSl(s) ==
  /\ DOMAIN s = {"table", "edit", "whole", "invalid", "swap"}
  /\ DOMAIN s.edit = {"preserve", "create", "install"} /\ DOMAIN s.swap = {"slice", "failed"}
  /\ SlicesOK(s.table)
Stays(s, r) ==
  ~s.invalid => /\ ~r.invalid /\ s.edit.preserve \subseteq r.edit.preserve
                /\ \A i \in s.edit.preserve \cap DOMAIN s.table : i \in DOMAIN r.table /\ r.table[i] = s.table[i]
Edited(s, r) == IsSl(r) /\ Stays(s, r)

LEMMA EditedTwice ==
  ASSUME NEW s, NEW r, NEW q, Edited(s, r), Edited(r, q)
  PROVE  Edited(s, q)
BY DEF Edited, Stays

LEMMA EditedNot ==
  ASSUME NEW s, IsSl(s)
  PROVE  Edited(s, s)
BY DEF Edited, Stays

LEMMA NoSlicesOK ==
  SlicesOK(NoSlices)
<1>1. DOMAIN NoSlices = {}
  BY DEF NoSlices
<1> QED BY <1>1, FS_EmptySet DEF SlicesOK

LEMMA WithoutOK ==
  ASSUME NEW t, SlicesOK(t), NEW ids
  PROVE  /\ SlicesOK(Without(t, ids)) /\ DOMAIN Without(t, ids) = DOMAIN t \ ids
         /\ \A i \in DOMAIN t \ ids : Without(t, ids)[i] = t[i]
<1> DEFINE r == Without(t, ids)
<1>1. DOMAIN r = DOMAIN t \ ids /\ \A i \in DOMAIN t \ ids : r[i] = t[i]
  BY DEF Without
<1>2. IsFiniteSet(DOMAIN t \ ids)
  BY FS_Subset DEF SlicesOK
<1> HIDE DEF r
<1>3. SlicesOK(r)
  BY <1>1, <1>2 DEF SlicesOK
<1> QED BY <1>1, <1>3 DEF r

LEMMA WithOK ==
  ASSUME NEW t, SlicesOK(t), NEW id \in Nat, id # BootSlice, NEW off \in Unsigned, NEW size \in Unsigned, NEW tag
  PROVE  LET r == With(t, id, Slice(off, size, tag)) IN
         /\ SlicesOK(r) /\ DOMAIN r = DOMAIN t \cup {id}
         /\ r[id].off = off /\ r[id].size = size /\ \A i \in DOMAIN t \ {id} : r[i] = t[i]
<1> DEFINE z == Slice(off, size, tag)
           r == With(t, id, z)
<1>1. DOMAIN r = DOMAIN t \cup {id} /\ r[id] = z /\ \A i \in DOMAIN t \ {id} : r[i] = t[i]
  <2> HIDE DEF z
  <2> QED BY DEF With
<1>2. IsFiniteSet(DOMAIN t \cup {id})
  BY FS_AddElement DEF SlicesOK
<1>3. z.off = off /\ z.size = size
  BY DEF Slice
<1> HIDE DEF r, z
<1>4. SlicesOK(r)
  BY <1>1, <1>2, <1>3 DEF SlicesOK
<1> QED BY <1>1, <1>3, <1>4 DEF r, z

-----------------------------------------------------------------------------
LEMMA ClearKeeps ==
  ASSUME NEW s, IsSl(s)
  PROVE  LET c == clear_slice_info_if_invalidated(s) IN
         /\ Edited(s, c) /\ ~c.invalid /\ c.edit = s.edit /\ c.swap = s.swap /\ c.whole = s.whole
         /\ c.table = IF s.invalid THEN NoSlices ELSE s.table
<1> DEFINE c == clear_slice_info_if_invalidated(s)
<1>1. CASE s.invalid
  <2>1. c = [s EXCEPT !.table = NoSlices, !.invalid = FALSE]
    BY <1>1 DEF clear_slice_info_if_invalidated
  <2>2. IsSl(c) /\ c.table = NoSlices /\ c.invalid = FALSE /\ c.edit = s.edit /\ c.swap = s.swap /\ c.whole = s.whole
    BY <2>1, NoSlicesOK DEF IsSl
  <2> HIDE DEF c
  <2> QED BY <1>1, <2>2 DEF Edited, Stays, c
<1>2. CASE ~s.invalid
  BY <1>2, EditedNot DEF clear_slice_info_if_invalidated
<1> QED BY <1>1, <1>2

LEMMA RemoveKeeps ==
  ASSUME NEW s, IsSl(s), NEW id, id \notin s.edit.preserve
  PROVE  LET r == remove_slice_from_table(s, id) IN
         Edited(s, r) /\ r.edit = s.edit /\ r.invalid = s.invalid /\ r.table = Without(s.table, {id})
<1> DEFINE t == Without(s.table, {id})
           r == remove_slice_from_table(s, id)
<1>1. SlicesOK(t) /\ DOMAIN t = DOMAIN s.table \ {id} /\ \A i \in DOMAIN s.table \ {id} : t[i] = s.table[i]
  BY WithoutOK DEF IsSl
<1>2. r = [s EXCEPT !.table = t]
  BY DEF remove_slice_from_table, IsSl
<1> HIDE DEF t, r
<1>3. IsSl(r) /\ r.table = t /\ r.edit = s.edit /\ r.invalid = s.invalid
  BY <1>1, <1>2 DEF IsSl
<1>4. Stays(s, r)
  BY <1>1, <1>3 DEF Stays
<1> QED BY <1>3, <1>4 DEF Edited, r, t

LEMMA PartitionSize ==
  ASSUME PartsOK, NEW s, IsSl(s)
  PROVE  find_solaris_partition_size(s) \in Unsigned
<1> DEFINE at == {i \in Slots : dpTable[i].type = "solaris2"}
<1>1. \A n \in Int : U(n - 2 * Cyl) \in Unsigned
  BY Wrapped, DpAssumption
<1>2. at # {} => dpTable[Min(at)].size \in Int
  <2>1. at \subseteq Nat
    BY DpAssumption DEF Slots
  <2>2. at # {} => Min(at) \in at
    <3> HIDE DEF at
    <3> QED BY <2>1, MinOf
  <2> QED BY <2>2 DEF PartsOK, Tables, PartEntry, Unsigned
<1>3. 2 \in DOMAIN s.table => s.table[2].size \in Unsigned
  BY DEF IsSl, SlicesOK
<1>4. DiskSec \in Int
  BY DpAssumption
<1> HIDE DEF at
<1> QED BY <1>1, <1>2, <1>3, <1>4 DEF find_solaris_partition_size, at

(* The slices in the order of their offsets.                               *)
LEMMA SortedSlicesAre ==
  ASSUME NEW t, SlicesOK(t)
  PROVE  LET s == SortedSlices(t) IN
         /\ Len(s) \in Nat /\ s \in [1..Len(s) -> DOMAIN t \ Reserved] /\ s \in Seq(DOMAIN t \ Reserved)
         /\ \A i \in DOMAIN t \ Reserved : \E k \in 1..Len(s) : s[k] = i
         /\ \A k, l \in 1..Len(s) : k < l => t[s[k]].off <= t[s[l]].off /\ s[k] # s[l]
<1> DEFINE S == DOMAIN t \ Reserved
           R == ByOffset(t, S)
           s == SortedSlices(t)
           n == Cardinality(S)
<1>1. IsFiniteSet(S) /\ S \subseteq Nat /\ \A i \in S : t[i].off \in Int
  <2>1. IsFiniteSet(S)
    BY FS_Subset DEF SlicesOK
  <2> QED BY <2>1 DEF SlicesOK, Unsigned
<1>2. StrictOrder(R, S)
  <2> HIDE DEF S
  <2> QED BY <1>1, ByOffsetIsStrict
<1>3. s = InOrder(S, R)
  BY DEF SortedSlices
<1>4. /\ n \in Nat /\ s \in [1..n -> S] /\ \A i \in S : \E k \in 1..n : s[k] = i
      /\ \A k, l \in 1..n : k < l => <<s[k], s[l]>> \in R
  <2> HIDE DEF S, R, s
  <2> QED BY <1>1, <1>2, <1>3, InOrderSorts
<1>5. Len(s) = n /\ s \in Seq(S)
  <2> HIDE DEF S, n, s
  <2> QED BY <1>4
<1>6. ASSUME NEW k \in 1..n, NEW l \in 1..n, k < l PROVE t[s[k]].off <= t[s[l]].off /\ s[k] # s[l]
  <2>1. <<s[k], s[l]>> \in R /\ s[k] \in S /\ s[l] \in S
    BY <1>4, <1>6
  <2>2. s[k] # s[l]
    <3> HIDE DEF R, s, S
    <3> QED BY <1>2, <2>1 DEF StrictOrder
  <2>3. t[s[k]].off < t[s[l]].off \/ t[s[k]].off = t[s[l]].off
    <3> HIDE DEF s, S
    <3> QED BY <2>1 DEF R, ByOffset
  <2>4. t[s[k]].off \in Int /\ t[s[l]].off \in Int
    <3> HIDE DEF s, S
    <3> QED BY <1>1, <2>1
  <2> HIDE DEF s, S
  <2> QED BY <2>2, <2>3, <2>4
<1> HIDE DEF s, S, R, n
<1> QED BY <1>4, <1>5, <1>6 DEF s, S

LEMMA SlFreeSpaceIs ==
  ASSUME PartsOK, NEW s, IsSl(s)
  PROVE  SlFreeSpace(s).s = clear_slice_info_if_invalidated(s) /\ SlFreeSpace(s).free \in Seq(Regions)
<1> DEFINE c   == clear_slice_info_if_invalidated(s)
           t   == c.table
           q   == SortedSlices(t)
           n   == Len(q)
           bad == {k \in 1..(n-1) : SlEnd(t[q[k]]) > t[q[k+1]].off}
           upto == IF bad = {} THEN n - 1 ELSE Min(bad) - 1
           all == find_solaris_partition_size(s)
           front == IF t[q[1]].off # 0 THEN <<Region(0, t[q[1]].off)>> ELSE <<>>
           gaps == [k \in 1..upto |-> Region(SlEnd(t[q[k]]), U(t[q[k+1]].off - SlEnd(t[q[k]])))]
           back == <<Region(SlEnd(t[q[n]]), U(all - SlEnd(t[q[n]])))>>
           rest == gaps \o (IF bad = {} THEN back ELSE <<>>)
<1>1. SlFreeSpace(s).s = c
  BY DEF SlFreeSpace
<1>2. SlFreeSpace(s).free = IF n = 0 THEN <<Region(0, all)>> ELSE FoldLeft(append_free_space_table, front, rest)
  BY DEF SlFreeSpace
<1>3. all \in Unsigned
  BY PartitionSize
<1>4. SlicesOK(t)
  BY ClearKeeps DEF Edited, IsSl
<1> HIDE DEF c, t
<1>5. n \in Nat /\ q \in [1..n -> DOMAIN t]
  BY <1>4, SortedSlicesAre
<1>6. \A k \in 1..n : t[q[k]].off \in Unsigned /\ SlEnd(t[q[k]]) \in Unsigned
  <2>1. \A i \in DOMAIN t : t[i].off \in Unsigned /\ t[i].off + t[i].size \in Int
    BY <1>4, DpAssumption DEF SlicesOK, Unsigned
  <2>2. \A i \in DOMAIN t : t[i].off \in Unsigned /\ SlEnd(t[i]) \in Unsigned
    BY <2>1, Wrapped DEF SlEnd
  <2> HIDE DEF q, n
  <2> QED BY <1>5, <2>2
<1>7. \A a, b \in Unsigned : U(a - b) \in Unsigned
  BY Wrapped, DpAssumption DEF Unsigned
<1>8. CASE n = 0
  <2>1. Region(0, all) \in Regions
    BY <1>3, SmallNumbers DEF Region, Regions
  <2> HIDE DEF all
  <2> QED BY <1>1, <1>2, <1>8, <2>1 DEF c
<1>9. CASE n # 0
  <2>1. upto \in Nat /\ upto <= n - 1
    <3>1. bad # {} => Min(bad) \in bad
      <4>1. bad \subseteq Nat
        OBVIOUS
      <4> HIDE DEF bad
      <4> QED BY <4>1, MinOf
    <3>2. bad # {} => Min(bad) \in 1..(n - 1)
      BY <3>1
    <3> HIDE DEF bad, n
    <3> QED BY <1>5, <1>9, <3>1, <3>2
  <2>2. front \in Seq(Regions)
    <3>1. Region(0, t[q[1]].off) \in Regions
      <4>1. 1 \in 1..n
        BY <1>5, <1>9
      <4> HIDE DEF q, n
      <4> QED BY <1>6, <4>1, SmallNumbers DEF Region, Regions
    <3> HIDE DEF q
    <3> QED BY <3>1
  <2>3. gaps \in Seq(Regions)
    <3>1. \A k \in 1..upto : k \in 1..n /\ k + 1 \in 1..n
      <4> HIDE DEF upto, n
      <4> QED BY <1>5, <2>1
    <3>2. \A k \in 1..upto : Region(SlEnd(t[q[k]]), U(t[q[k+1]].off - SlEnd(t[q[k]]))) \in Regions
      <4> HIDE DEF q, n, upto
      <4> QED BY <1>6, <1>7, <3>1 DEF Region, Regions
    <3>3. gaps \in [1..upto -> Regions]
      <4> HIDE DEF q, n, upto
      <4> QED BY <3>2
    <3> HIDE DEF gaps, upto
    <3> QED BY <2>1, <3>3
  <2>4. back \in Seq(Regions)
    <3>1. n \in 1..n
      BY <1>5, <1>9
    <3>2. Region(SlEnd(t[q[n]]), U(all - SlEnd(t[q[n]]))) \in Regions
      <4> HIDE DEF q, n, all
      <4> QED BY <1>3, <1>6, <1>7, <3>1 DEF Region, Regions
    <3> HIDE DEF q, n, all
    <3> QED BY <3>2
  <2>5. rest \in Seq(Regions)
    <3> HIDE DEF gaps, back, bad
    <3> QED BY <2>3, <2>4
  <2>6. \A k \in 1..Len(rest) : rest[k] \in Regions
    <3> HIDE DEF rest
    <3> QED BY <2>5
  <2>7. FoldLeft(append_free_space_table, front, rest) \in Seq(Regions)
    <3> HIDE DEF front, rest
    <3> QED BY <2>2, <2>5, <2>6, FreeTable
  <2> DEFINE free == FoldLeft(append_free_space_table, front, rest)
  <2>8. free \in Seq(Regions) /\ SlFreeSpace(s).free = free
    BY <1>2, <1>9, <2>7
  <2> HIDE DEF free, front, rest, gaps, back, bad, upto
  <2> QED BY <1>1, <2>8 DEF c
<1> QED BY <1>8, <1>9

LEMMA SlRegionIsTyped ==
  ASSUME NEW free \in Seq(Regions), NEW size \in Unsigned
  PROVE  SlRegion(free, size) \in Regions
<1>1. NoRegion \in Regions
  BY SmallNumbers DEF NoRegion, Region, Regions
<1>2. \A r \in Regions : Padded(r, FALSE) = r /\ r.size \in Int
  BY DEF Padded, Regions, Unsigned
<1>3. find_largest_free_region(free, FALSE) \in Regions
  BY <1>1, <1>2, LargestIsFree
<1>4. ASSUME NEW n \in Int PROVE find_free_region_best_fit(free, n, FALSE) \in Regions
  <2>1. \A r \in Regions : r.size \in Int
    BY <1>2
  <2>2. \/ find_free_region_best_fit(free, n, FALSE) = NoRegion
        \/ \E r \in Regions : find_free_region_best_fit(free, n, FALSE) = Padded(r, FALSE)
    BY <2>1, BestFitIsFree
  <2> QED BY <1>1, <1>2, <2>2
<1>5. size \in Int /\ size - Cyl \in Int
  BY DpAssumption DEF Unsigned
<1> QED BY <1>3, <1>4, <1>5 DEF SlRegion

(* The state in which a slice was placed in the table.                     *)
PlacedAt(c, id, off, length, tag, whole) ==
  [c EXCEPT !.table = With(@, id, Slice(off, length, tag)), !.edit.create = @ \cup {id},
            !.edit.install = IF tag = "root" THEN @ \cup {id} ELSE @, !.whole = @ /\ whole /\ off = 0]

LEMMA PlacedKeeps ==
  ASSUME NEW c, IsSl(c), NEW id, id \in SlIds, id \notin Reserved, id \notin c.edit.preserve,
         NEW off \in Unsigned, NEW length \in Unsigned, NEW tag, NEW whole
  PROVE  LET z == PlacedAt(c, id, off, length, tag, whole) IN
         /\ Edited(c, z) /\ z.edit.preserve = c.edit.preserve /\ z.invalid = c.invalid
         /\ z.table = With(c.table, id, Slice(off, length, tag))
<1> DEFINE z == PlacedAt(c, id, off, length, tag, whole)
<1>1. id \in Nat /\ id # BootSlice
  BY SlicesAssumption DEF Reserved, BootSlice
<1>2. PICK t : t = With(c.table, id, Slice(off, length, tag))
  OBVIOUS
<1>3. SlicesOK(t) /\ DOMAIN t = DOMAIN c.table \cup {id} /\ \A i \in DOMAIN c.table \ {id} : t[i] = c.table[i]
  BY <1>1, <1>2, WithOK DEF IsSl
<1>4. z = [c EXCEPT !.table = t, !.edit.create = @ \cup {id},
            !.edit.install = IF tag = "root" THEN @ \cup {id} ELSE @, !.whole = @ /\ whole /\ off = 0]
  BY <1>2 DEF PlacedAt
<1> HIDE DEF z
<1>5. IsSl(z) /\ z.table = t /\ z.edit.preserve = c.edit.preserve /\ z.invalid = c.invalid
  BY <1>3, <1>4 DEF IsSl
<1>6. Stays(c, z)
  BY <1>3, <1>5 DEF Stays
<1> QED BY <1>2, <1>5, <1>6 DEF Edited, z

LEMMA PlaceKeeps ==
  ASSUME PartsOK, NEW s, IsSl(s), NEW id, NEW size \in Unsigned, NEW tag, NEW over,
         NEW made \in PlaceSlice(s, id, size, tag, over)
  PROVE  Edited(s, made.s)
<1> DEFINE b == IF id \in DOMAIN s.table THEN remove_slice_from_table(s, id) ELSE s
           f == SlFreeSpace(b)
           r == SlRegion(f.free, size)
           length == IF size = 0 THEN r.size ELSE size
<1>1. CASE made = Answer(s, FALSE)
  BY <1>1, EditedNot DEF Answer
<1>2. CASE made # Answer(s, FALSE)
  <2>1. /\ id \in SlIds /\ id \notin Reserved /\ id \notin s.edit.preserve
        /\ made.s \in {f.s, PlacedAt(f.s, id, r.off, length, tag, size = 0)}
    BY <1>2 DEF PlaceSlice, PlacedAt, Answer
  <2>2. Edited(s, b) /\ b.edit = s.edit
    BY <2>1, RemoveKeeps, EditedNot
  <2> HIDE DEF b
  <2>3. Edited(b, f.s) /\ f.s.edit = b.edit /\ f.free \in Seq(Regions) /\ IsSl(f.s)
    BY <2>2, SlFreeSpaceIs, ClearKeeps DEF Edited
  <2>4. length \in Unsigned /\ r.off \in Unsigned
    <3> HIDE DEF f
    <3>1. r \in Regions
      BY <2>3, SlRegionIsTyped
    <3> HIDE DEF r
    <3> QED BY <3>1 DEF Regions
  <2> HIDE DEF f, r, length
  <2>5. id \notin f.s.edit.preserve
    BY <2>1, <2>2, <2>3
  <2>6. Edited(f.s, PlacedAt(f.s, id, r.off, length, tag, size = 0))
    <3> PICK off, all, c, len : off = r.off /\ all = (size = 0) /\ c = f.s /\ len = length
      OBVIOUS
    <3>1. Edited(c, PlacedAt(c, id, off, len, tag, all))
      BY <2>1, <2>3, <2>4, <2>5, PlacedKeeps
    <3> QED BY <3>1
  <2> QED BY <2>1, <2>2, <2>3, <2>6, EditedTwice, EditedNot
<1> QED BY <1>1, <1>2

LEMMA SwapKeeps ==
  ASSUME PartsOK, NEW s, IsSl(s), NEW r \in create_swap_slice_if_necessary(s)
  PROVE  Edited(s, r)
<1>1. CASE s.swap.slice \/ ~LowMemory
  BY <1>1, EditedNot DEF create_swap_slice_if_necessary
<1>2. CASE ~(s.swap.slice \/ ~LowMemory) /\ 1 \notin DOMAIN s.table
  <2>1. PICK made \in PlaceSlice(s, 1, SwapNeeded, "swap", FALSE) :
               r = [made.s EXCEPT !.swap = [slice |-> TRUE, failed |-> @.failed \/ ~made.ok]]
    BY <1>2 DEF create_swap_slice_if_necessary
  <2>2. Edited(s, made.s)
    BY PlaceKeeps, SlicesAssumption
  <2>3. Edited(made.s, r)
    BY <2>1, <2>2 DEF Edited, IsSl, Stays
  <2> QED BY <2>2, <2>3, EditedTwice
<1>3. CASE ~(s.swap.slice \/ ~LowMemory) /\ 1 \in DOMAIN s.table
  <2>1. r = [s EXCEPT !.swap.slice = TRUE, !.whole = FALSE] \/ r = [s EXCEPT !.swap = [slice |-> TRUE, failed |-> TRUE]]
    BY <1>3 DEF create_swap_slice_if_necessary
  <2> QED BY <2>1 DEF Edited, IsSl, Stays
<1> QED BY <1>1, <1>2, <1>3

LEMMA ComputedKeeps ==
  ASSUME NEW s, IsSl(s)
  PROVE  Edited(s, SwapComputed(s)) /\ SwapComputed(s).table = s.table
BY DEF Edited, IsSl, Stays, SwapComputed

LEMMA DeleteKeeps ==
  ASSUME NEW s, IsSl(s), NEW id
  PROVE  Edited(s, DeleteSlice(s, id).s)
<1> DEFINE c == clear_slice_info_if_invalidated(s)
<1>1. Edited(s, c) /\ IsSl(c)
  BY ClearKeeps DEF Edited
<1>2. DeleteSlice(s, id).s = IF id \in Reserved \cup c.edit.preserve THEN c ELSE remove_slice_from_table(c, id)
  BY DEF DeleteSlice, Answer
<1> HIDE DEF c
<1>3. id \notin c.edit.preserve => Edited(c, remove_slice_from_table(c, id))
  BY <1>1, RemoveKeeps
<1> QED BY <1>1, <1>2, <1>3, EditedTwice

LEMMA PrunedKeeps ==
  ASSUME PartsOK, NEW s, IsSl(s)
  PROVE  Edited(s, Pruned(s))
<1> DEFINE c == SlFreeSpace(s).s
           gone == {i \in DOMAIN c.table : i \notin Reserved \cup c.edit.preserve \cup c.edit.create}
           t == Without(c.table, gone)
           r == [c EXCEPT !.table = Without(@, gone), !.whole = @ /\ c.edit.preserve \cap DOMAIN c.table = {}]
<1>1. Edited(s, c) /\ IsSl(c)
  BY SlFreeSpaceIs, ClearKeeps DEF Edited
<1>2. Pruned(s) \in {c, r}
  BY DEF Pruned
<1>3. gone \cap c.edit.preserve = {}
  OBVIOUS
<1>4. r = [c EXCEPT !.table = t, !.whole = @ /\ c.edit.preserve \cap DOMAIN c.table = {}]
  BY <1>1 DEF IsSl
<1> HIDE DEF c, r, gone
<1>5. SlicesOK(t) /\ DOMAIN t = DOMAIN c.table \ gone /\ \A i \in DOMAIN c.table \ gone : t[i] = c.table[i]
  BY <1>1, WithoutOK DEF IsSl
<1> HIDE DEF t
<1>6. IsSl(r) /\ r.table = t /\ r.edit = c.edit /\ r.invalid = c.invalid
  BY <1>1, <1>4, <1>5 DEF IsSl
<1>7. Edited(c, r)
  BY <1>3, <1>5, <1>6 DEF Edited, Stays
<1> QED BY <1>1, <1>2, <1>7, EditedTwice

LEMMA ChosenKeeps ==
  ASSUME NEW s, IsSl(s), NEW install
  PROVE  Edited(s, Chosen(s, install)) /\ Chosen(s, install).table = s.table
<1>1. CASE install = 0
  BY <1>1, EditedNot DEF Chosen
<1>2. CASE install # 0
  BY <1>2 DEF Chosen, IsSl, Edited, Stays
<1> QED BY <1>1, <1>2

-----------------------------------------------------------------------------
(* A table that was found without overlaps, when its slices were compared  *)
(* in their order. The ends are compared as unsigned numbers: a slice that *)
(* reaches beyond the range of the type would seem to end in front.        *)
Checked(t) == NoWraps(t) => TableApart(t)

LEMMA CheckedIsApart ==
  ASSUME NEW s, IsSl(s), SlFreeSpace(s).ok
  PROVE  Checked(SlFreeSpace(s).s.table)
<1> DEFINE t == clear_slice_info_if_invalidated(s).table
           S == DOMAIN t \ Reserved
           q == SortedSlices(t)
           n == Len(q)
           bad == {k \in 1..(n-1) : SlEnd(t[q[k]]) > t[q[k+1]].off}
<1>1. SlFreeSpace(s).s.table = t /\ SlFreeSpace(s).ok = (bad = {})
  BY DEF SlFreeSpace
<1>2. SlicesOK(t)
  BY ClearKeeps DEF Edited, IsSl
<1> HIDE DEF t
<1>3. /\ n \in Nat /\ q \in [1..n -> S]
      /\ \A i \in S : \E k \in 1..n : q[k] = i
      /\ \A k, l \in 1..n : k < l => t[q[k]].off <= t[q[l]].off /\ q[k] # q[l]
  BY <1>2, SortedSlicesAre
<1>4. \A k \in 1..(n-1) : ~(SlEnd(t[q[k]]) > t[q[k+1]].off)
  BY <1>1
<1> HIDE DEF q, n, S
<1> SUFFICES ASSUME NoWraps(t), NEW i \in S, NEW j \in S, i # j PROVE Apart(t[i], t[j])
  BY <1>1 DEF Checked, TableApart, S
<1>5. \A m \in S : t[m].off \in Nat /\ t[m].size \in Nat /\ SlEnd(t[m]) = t[m].off + t[m].size
  <2> SUFFICES ASSUME NEW m \in S PROVE t[m].off \in Nat /\ t[m].size \in Nat /\ SlEnd(t[m]) = t[m].off + t[m].size
    OBVIOUS
  <2>1. t[m].off \in Nat /\ t[m].size \in Nat
    BY <1>2, DpAssumption DEF SlicesOK, Unsigned, S
  <2>2. t[m].off + t[m].size < Width
    BY DEF NoWraps, S
  <2> QED BY <2>1, <2>2, DpAssumption DEF SlEnd, U
<1>6. ASSUME NEW k \in 1..n, NEW l \in 1..n, k < l
      PROVE  t[q[k]].off + t[q[k]].size <= t[q[l]].off
  <2>1. k \in 1..(n-1) /\ k + 1 \in 1..n /\ (k + 1 < l \/ k + 1 = l)
    BY <1>3, <1>6
  <2>2. q[k] \in S /\ q[k+1] \in S /\ q[l] \in S
    BY <1>3, <2>1
  <2>3. ~(SlEnd(t[q[k]]) > t[q[k+1]].off)
    BY <1>4, <2>1
  <2>4. t[q[k+1]].off <= t[q[l]].off
    BY <1>3, <1>5, <2>1, <2>2
  <2> QED BY <1>5, <2>2, <2>3, <2>4
<1>7. PICK k \in 1..n, l \in 1..n : q[k] = i /\ q[l] = j
  BY <1>3
<1> QED BY <1>3, <1>6, <1>7 DEF Apart

-----------------------------------------------------------------------------
(* A call of the editor of slices.                                         *)
PreservedStay ==
  ~slInvalid => \A i \in slEdit.preserve \cap DOMAIN slTable : i \in DOMAIN slTable' /\ slTable'[i] = slTable[i]
CheckedWhenFinal == slLast.op \in {"none", "finalize"} /\ slLast.ok => Checked(slTable)
SlicesStay == IsSl(Sl)' /\ PreservedStay /\ CheckedWhenFinal'

LEMMA BecomeStays ==
  ASSUME NEW s, Edited(Sl, s), Become(s)
  PROVE  IsSl(Sl)' /\ PreservedStay /\ slTable' = s.table
BY DEF Edited, IsSl, Stays, Become, Sl, PreservedStay

LEMMA CallStays ==
  ASSUME NEW op, op # "none", NEW a, Edited(Sl, a.s), op = "finalize" /\ a.ok => Checked(a.s.table), SlCall(op, a)
  PROVE  SlicesStay
<1>1. Become(a.s) /\ slLast' = [op |-> op, ok |-> a.ok]
  BY DEF SlCall
<1>2. IsSl(Sl)' /\ PreservedStay /\ slTable' = a.s.table
  <2> PICK s : s = a.s
    OBVIOUS
  <2> QED BY <1>1, BecomeStays
<1>3. CheckedWhenFinal'
  BY <1>1, <1>2 DEF CheckedWhenFinal
<1> QED BY <1>2, <1>3 DEF SlicesStay

LEMMA PreserveStays ==
  ASSUME IsSl(Sl), NEW id, om_preserve_slice(id)
  PROVE  SlicesStay
<1>1. CASE id \in SlIds
  <2> DEFINE r == [Sl EXCEPT !.edit.preserve = @ \cup {id}]
  <2>1. Edited(Sl, r)
    BY DEF Edited, IsSl, Stays
  <2>2. SlCall("preserve", Answer(r, TRUE))
    BY <1>1 DEF om_preserve_slice
  <2> HIDE DEF r
  <2>3. Answer(r, TRUE).s = r
    BY DEF Answer
  <2> PICK a : a = Answer(r, TRUE)
    OBVIOUS
  <2> QED BY <2>1, <2>2, <2>3, CallStays
<1>2. CASE id \notin SlIds
  <2>1. SlCall("preserve", Answer(Sl, FALSE)) /\ Answer(Sl, FALSE).s = Sl
    BY <1>2 DEF om_preserve_slice, Answer
  <2> PICK a : a = Answer(Sl, FALSE)
    OBVIOUS
  <2> QED BY <2>1, EditedNot, CallStays
<1> QED BY <1>1, <1>2

LEMMA DeleteStays ==
  ASSUME IsSl(Sl), NEW id, om_delete_slice(id)
  PROVE  SlicesStay
<1> PICK a : a = DeleteSlice(Sl, id)
  OBVIOUS
<1>1. SlCall("delete", a)
  BY DEF om_delete_slice
<1>2. Edited(Sl, a.s)
  BY DeleteKeeps
<1> QED BY <1>1, <1>2, CallStays

LEMMA CreateStays ==
  ASSUME PartsOK, IsSl(Sl), NEW id, NEW size \in Unsigned, NEW tag, NEW over, om_create_slice(id, size, tag, over)
  PROVE  SlicesStay
<1> PICK c : c = clear_slice_info_if_invalidated(Sl)
  OBVIOUS
<1>1. Edited(Sl, c) /\ IsSl(c)
  BY ClearKeeps DEF Edited
<1>2. PICK s \in create_swap_slice_if_necessary(c) : \E made \in PlaceSlice(s, id, size, tag, over) : SlCall("create", made)
  BY DEF om_create_slice
<1>3. PICK made \in PlaceSlice(s, id, size, tag, over) : SlCall("create", made)
  BY <1>2
<1>4. Edited(c, s) /\ IsSl(s)
  BY <1>1, <1>2, SwapKeeps DEF Edited
<1>5. Edited(s, made.s)
  BY <1>4, PlaceKeeps
<1> QED BY <1>1, <1>3, <1>4, <1>5, EditedTwice, CallStays

(* The last thing a finalization does is to compare the slices.            *)
LEMMA FinalStays ==
  ASSUME PartsOK, NEW r, Edited(Sl, r), NEW free, free = SlFreeSpace(r), SlCall("finalize", Answer(free.s, free.ok))
  PROVE  SlicesStay
<1>1. Edited(r, free.s) /\ (free.ok => Checked(free.s.table))
  BY SlFreeSpaceIs, ClearKeeps, CheckedIsApart DEF Edited
<1> PICK a : a = Answer(free.s, free.ok)
  OBVIOUS
<1>2. a.s = free.s /\ a.ok = free.ok
  BY DEF Answer
<1> QED BY <1>1, <1>2, EditedTwice, CallStays

LEMMA FinalizeStays ==
  ASSUME PartsOK, IsSl(Sl), NEW install, om_finalize_vtoc_for_TI(install)
  PROVE  SlicesStay
<1> PICK p : p = Pruned(Sl)
  OBVIOUS
<1>1. Edited(Sl, p) /\ IsSl(p)
  BY PrunedKeeps DEF Edited
<1>2. CASE install # 0 /\ install \notin SlIds /\ SlCall("finalize", Answer([p EXCEPT !.whole = FALSE], FALSE))
  <2> PICK a : a = Answer([p EXCEPT !.whole = FALSE], FALSE)
    OBVIOUS
  <2>1. a.s = [p EXCEPT !.whole = FALSE] /\ ~a.ok
    BY DEF Answer
  <2>2. Edited(p, a.s)
    BY <1>1, <2>1 DEF Edited, IsSl, Stays
  <2> QED BY <1>1, <1>2, <2>1, <2>2, EditedTwice, CallStays
<1>3. CASE ~(install # 0 /\ install \notin SlIds /\ SlCall("finalize", Answer([p EXCEPT !.whole = FALSE], FALSE)))
  <2> PICK c : c = Chosen(p, install)
    OBVIOUS
  <2>1. PICK r \in create_swap_slice_if_necessary(c) :
          \/ \E free \in {SlFreeSpace(r)} : SlCall("finalize", Answer(free.s, free.ok))
          \/ \E s \in create_swap_slice_if_necessary(clear_slice_info_if_invalidated(r)) :
               \E made \in PlaceSlice(s, install, 0, "root", FALSE) :
                 \/ ~made.ok /\ SlCall("finalize", made)
                 \/ made.ok /\ \E free \in {SlFreeSpace(made.s)} : SlCall("finalize", Answer(free.s, free.ok))
    BY <1>3 DEF om_finalize_vtoc_for_TI
  <2>2. Edited(Sl, r) /\ IsSl(r)
    <3>1. Edited(p, c) /\ IsSl(c)
      BY <1>1, ChosenKeeps DEF Edited
    <3>2. Edited(c, r)
      BY <2>1, <3>1, SwapKeeps
    <3> QED BY <1>1, <3>1, <3>2, EditedTwice DEF Edited
  <2>3. CASE \E free \in {SlFreeSpace(r)} : SlCall("finalize", Answer(free.s, free.ok))
    <3> PICK free : free = SlFreeSpace(r) /\ SlCall("finalize", Answer(free.s, free.ok))
      BY <2>3
    <3> QED BY <2>2, FinalStays
  <2>4. ASSUME NEW s \in create_swap_slice_if_necessary(clear_slice_info_if_invalidated(r)),
               NEW made \in PlaceSlice(s, install, 0, "root", FALSE),
               \/ ~made.ok /\ SlCall("finalize", made)
               \/ made.ok /\ \E free \in {SlFreeSpace(made.s)} : SlCall("finalize", Answer(free.s, free.ok))
        PROVE  SlicesStay
    <3> PICK d : d = clear_slice_info_if_invalidated(r)
      OBVIOUS
    <3>1. Edited(r, d) /\ IsSl(d)
      BY <2>2, ClearKeeps DEF Edited
    <3>2. Edited(d, s) /\ IsSl(s)
      BY <3>1, SwapKeeps DEF Edited
    <3>3. Edited(s, made.s)
      BY <3>2, SmallNumbers, PlaceKeeps
    <3>4. Edited(Sl, made.s)
      BY <2>2, <3>1, <3>2, <3>3, EditedTwice
    <3>5. CASE ~made.ok /\ SlCall("finalize", made)
      BY <3>4, <3>5, CallStays
    <3>6. CASE \E free \in {SlFreeSpace(made.s)} : SlCall("finalize", Answer(free.s, free.ok))
      <4> PICK q, free : q = made.s /\ free = SlFreeSpace(q) /\ SlCall("finalize", Answer(free.s, free.ok))
        BY <3>6
      <4> QED BY <3>4, FinalStays
    <3> QED BY <2>4, <3>5, <3>6
  <2> QED BY <2>1, <2>3, <2>4
<1> QED BY <1>2, <1>3

LEMMA SliceEditStays ==
  ASSUME PartsOK, IsSl(Sl), CheckedWhenFinal, SliceEdit
  PROVE  SlicesStay
<1>1. CASE \E i \in SlIds : om_preserve_slice(i) \/ om_delete_slice(i)
  BY <1>1, PreserveStays, DeleteStays
<1>2. CASE \E i \in SlIds \cup {99}, size \in Sizes, over \in BOOLEAN : om_create_slice(i, size, "root", over)
  <2> PICK i \in SlIds \cup {99}, size \in Sizes, over \in BOOLEAN : om_create_slice(i, size, "root", over)
    BY <1>2
  <2>1. size \in Unsigned
    BY SlicesAssumption
  <2> QED BY <2>1, CreateStays
<1>3. CASE \E i \in SlIds \cup {99} : om_finalize_vtoc_for_TI(i)
  BY <1>3, FinalizeStays
<1>4. CASE om_get_min_size
  <2> PICK s : s = SwapComputed(Sl)
    OBVIOUS
  <2>1. Edited(Sl, s) /\ s.table = slTable
    BY ComputedKeeps DEF Sl
  <2>2. Become(s) /\ slLast' = slLast
    BY <1>4 DEF om_get_min_size
  <2> QED BY <2>1, <2>2, BecomeStays DEF SlicesStay, CheckedWhenFinal
<1> QED BY <1>1, <1>2, <1>3, <1>4 DEF SliceEdit

-----------------------------------------------------------------------------
(* Slices rounded to whole cylinders.                                      *)
LEMMA Cylinders ==
  /\ TiCyl \in Nat /\ TiCyl > 0
  /\ \A x \in Nat : x \div TiCyl \in Nat /\ (x \div TiCyl) * TiCyl <= x /\ x < (x \div TiCyl) * TiCyl + TiCyl
  /\ \A m, n \in Nat : m * TiCyl \in Nat /\ (m < n => m * TiCyl + TiCyl <= n * TiCyl)
<1>1. TiCyl \in Nat /\ TiCyl > 0
  BY TiAssumption
<1>2. \A x \in Nat : x \div TiCyl \in Nat /\ (x \div TiCyl) * TiCyl <= x /\ x < (x \div TiCyl) * TiCyl + TiCyl
  BY <1>1
<1>3. ASSUME NEW m \in Nat, NEW n \in Nat
      PROVE  m * TiCyl \in Nat /\ (m < n => m * TiCyl + TiCyl <= n * TiCyl)
  <2>1. CASE m < n
    <3> PICK d \in Nat : n = m + 1 + d
      <4> n - m - 1 \in Nat /\ n = m + 1 + (n - m - 1)
        BY <2>1
      <4> QED OBVIOUS
    <3>1. n * TiCyl = m * TiCyl + TiCyl + d * TiCyl
      BY <1>1
    <3>2. d * TiCyl >= 0 /\ m * TiCyl \in Nat /\ d * TiCyl \in Nat
      BY <1>1
    <3> QED BY <1>1, <3>1, <3>2
  <2> QED BY <1>1, <2>1
<1> QED BY <1>1, <1>2, <1>3

(* The slice that is left of one: its start and its end are boundaries of  *)
(* cylinders, not before the rounded start and not behind the old length.  *)
AdjustedOf(v, w, floor) ==
  /\ w.start \in Nat /\ w.size \in Nat
  /\ w.size # 0 => /\ w.start >= RoundedStart(v.start) /\ w.start >= floor
                   /\ w.start + w.size <= RoundedStart(v.start + v.size)

LEMMA AdjustedIs ==
  ASSUME NEW v, DOMAIN v = {"start", "size", "tag"}, v.start \in Nat, v.size \in Nat
  PROVE  AdjustedOf(v, AdjustedSlice(v, TiCyl), TiCyl)
<1> DEFINE C == TiCyl
           h == C \div 2
           m == (v.start + h) \div C
           start == RoundedStart(v.start)
           lost == IF start < C THEN C - start ELSE 0
           k == (v.size - lost) \div C
           e == (v.start + v.size + h) \div C
           w == AdjustedSlice(v, TiCyl)
<1>1. C \in Nat /\ C > 0 /\ h \in Nat
  BY Cylinders
<1>2. start = m * C /\ m \in Nat /\ start \in Nat /\ start <= v.start + h
  BY <1>1, Cylinders DEF RoundedStart
<1>3. RoundedStart(v.start + v.size) = e * C /\ e \in Nat /\ v.start + v.size + h < e * C + C /\ e * C \in Nat
  BY <1>1, Cylinders DEF RoundedStart
<1>4. lost \in Nat
  BY <1>1, <1>2
<1>5. CASE v.size < lost
  <2>1. w = [v EXCEPT !.start = 0, !.size = 0]
    BY <1>5 DEF AdjustedSlice
  <2>2. w.start = 0 /\ w.size = 0
    BY <2>1
  <2> HIDE DEF w
  <2> QED BY <2>2 DEF AdjustedOf, w
<1>6. CASE v.size >= lost
  <2>1. w = [v EXCEPT !.start = start + lost, !.size = k * C]
    <3>1. ~(v.size < lost)
      BY <1>4, <1>6
    <3> QED BY <3>1 DEF AdjustedSlice
  <2>2. w.start = start + lost /\ w.size = k * C
    <3> HIDE DEF start, lost, k
    <3> QED BY <2>1
  <2>3. k \in Nat /\ k * C \in Nat /\ k * C <= v.size - lost
    <3> v.size - lost \in Nat
      BY <1>4, <1>6
    <3> HIDE DEF lost
    <3> QED BY Cylinders
  <2>4. start + lost >= C
    <3> HIDE DEF start
    <3> QED BY <1>1, <1>2
  <2>5. PICK f \in Nat : start + lost = f * C
    <3>1. CASE start < C
      <4> start + lost = 1 * C
        BY <1>1, <1>2, <3>1
      <4> QED OBVIOUS
    <3>2. CASE ~(start < C)
      <4> start + lost = m * C
        BY <1>2, <3>2
      <4> QED BY <1>2
    <3> QED BY <3>1, <3>2
  <2>6. start + lost + k * C <= e * C
    <3> HIDE DEF start, lost, k, e, h, m
    <3>1. start + lost + k * C = (f + k) * C /\ f + k \in Nat
      BY <1>1, <2>3, <2>5
    <3>2. (f + k) * C < e * C + C
      <4>1. start + lost + k * C <= start + v.size
        BY <1>2, <1>4, <2>3
      <4> QED BY <1>1, <1>2, <1>3, <3>1, <4>1
    <3>3. ~(e < f + k)
      BY <1>3, <3>1, <3>2, Cylinders
    <3>4. f + k = e \/ f + k < e
      BY <1>3, <3>1, <3>3
    <3>5. (f + k) * C <= e * C
      <4>1. CASE f + k = e
        BY <1>3, <4>1
      <4>2. CASE f + k < e
        BY <1>1, <1>3, <3>1, <4>2, Cylinders
      <4> QED BY <3>4, <4>1, <4>2
    <3> QED BY <3>1, <3>5
  <2> HIDE DEF w, start, lost, k, e, h, m
  <2>7. w.start \in Nat /\ w.size \in Nat /\ w.start >= start /\ w.start >= C /\ w.start + w.size <= e * C
    BY <1>1, <1>2, <1>4, <2>2, <2>3, <2>4, <2>6
  <2> QED BY <1>3, <2>7 DEF AdjustedOf, start, w
<1> QED BY <1>4, <1>5, <1>6

LEMMA RoundedInOrder ==
  ASSUME NEW x \in Nat, NEW y \in Nat, x <= y
  PROVE  RoundedStart(x) \in Nat /\ RoundedStart(x) <= RoundedStart(y)
<1> DEFINE h == TiCyl \div 2
           m == (x + h) \div TiCyl
           n == (y + h) \div TiCyl
<1>1. h \in Nat
  BY Cylinders
<1>2. m \in Nat /\ n \in Nat /\ m * TiCyl <= x + h /\ y + h < n * TiCyl + TiCyl /\ m * TiCyl \in Nat /\ n * TiCyl \in Nat
  BY <1>1, Cylinders
<1>3. RoundedStart(x) = m * TiCyl /\ RoundedStart(y) = n * TiCyl
  BY DEF RoundedStart
<1> HIDE DEF m, n, h
<1>4. ~(n < m)
  BY <1>1, <1>2, Cylinders
<1>5. CASE m = n
  BY <1>2, <1>3, <1>5
<1>6. CASE m < n
  BY <1>2, <1>3, <1>6, Cylinders
<1> QED BY <1>2, <1>4, <1>5, <1>6

Plain == SliceIds \ {AllSlice, BootSlice, AltSlice}
VtocOK(v) ==
  /\ \A i \in SliceIds : DOMAIN v[i] = {"start", "size", "tag"} /\ v[i].start \in Nat /\ v[i].size \in Nat
  /\ v[BootSlice].start = 0 /\ v[BootSlice].size = TiCyl
  /\ \A i, j \in Plain : i # j /\ v[i].size # 0 /\ v[j].size # 0 =>
       v[i].start + v[i].size <= v[j].start \/ v[j].start + v[j].size <= v[i].start

LEMMA AdjustedApart ==
  ASSUME NEW v, VtocOK(v)
  PROVE  WrittenApart(idm_adjust_vtoc(v))
<1> DEFINE w == idm_adjust_vtoc(v)
<1>1. w[BootSlice] = v[BootSlice]
  BY DEF idm_adjust_vtoc, SliceIds, BootSlice
<1>2. ASSUME NEW i \in Plain, w[i].size # 0
      PROVE  v[i].size # 0 /\ AdjustedOf(v[i], w[i], TiCyl)
  <2>1. i \in SliceIds /\ i # AllSlice /\ i # BootSlice
    BY DEF Plain
  <2>2. w[i] = IF v[i].size = 0 THEN v[i] ELSE AdjustedSlice(v[i], v[BootSlice].size)
    BY <2>1 DEF idm_adjust_vtoc
  <2>3. v[i].size # 0 /\ w[i] = AdjustedSlice(v[i], TiCyl)
    <3> HIDE DEF w
    <3> QED BY <1>2, <2>2 DEF VtocOK
  <2>4. AdjustedOf(v[i], AdjustedSlice(v[i], TiCyl), TiCyl)
    BY <2>1, AdjustedIs DEF VtocOK
  <2> HIDE DEF w
  <2> QED BY <2>3, <2>4
<1> HIDE DEF w
<1>3. ASSUME NEW i \in Plain, NEW j \in Plain, w[i].size # 0, w[j].size # 0, v[i].start + v[i].size <= v[j].start
      PROVE  w[i].start + w[i].size <= w[j].start
  <2>1. AdjustedOf(v[i], w[i], TiCyl) /\ AdjustedOf(v[j], w[j], TiCyl)
    BY <1>2, <1>3
  <2>2. v[i].start + v[i].size \in Nat /\ v[j].start \in Nat
    BY DEF VtocOK, Plain
  <2>3. /\ RoundedStart(v[i].start + v[i].size) \in Nat /\ RoundedStart(v[j].start) \in Nat
        /\ RoundedStart(v[i].start + v[i].size) <= RoundedStart(v[j].start)
    BY <1>3, <2>2, RoundedInOrder
  <2>4. /\ w[i].start \in Nat /\ w[i].size \in Nat /\ w[i].start + w[i].size <= RoundedStart(v[i].start + v[i].size)
        /\ w[j].start \in Nat /\ w[j].start >= RoundedStart(v[j].start)
    BY <1>3, <2>1 DEF AdjustedOf
  <2> QED BY <2>3, <2>4
<1>4. ASSUME NEW i \in Plain, w[i].size # 0
      PROVE  w[BootSlice].start + w[BootSlice].size <= w[i].start
  <2>1. w[i].start \in Nat /\ w[i].start >= TiCyl
    BY <1>2, <1>4 DEF AdjustedOf
  <2>2. w[BootSlice].start = 0 /\ w[BootSlice].size = TiCyl /\ TiCyl \in Nat
    BY <1>1, Cylinders DEF VtocOK
  <2> QED BY <2>1, <2>2
<1>5. SUFFICES ASSUME NEW i \in SliceIds \ {AllSlice, AltSlice}, NEW j \in SliceIds \ {AllSlice, AltSlice},
                      i # j, w[i].size # 0, w[j].size # 0
               PROVE  w[i].start + w[i].size <= w[j].start \/ w[j].start + w[j].size <= w[i].start
  BY DEF WrittenApart, w
<1>6. (i \in Plain \/ i = BootSlice) /\ (j \in Plain \/ j = BootSlice)
  BY DEF Plain
<1>7. CASE i \in Plain /\ j \in Plain
  <2>1. v[i].size # 0 /\ v[j].size # 0
    BY <1>2, <1>5, <1>7
  <2> QED BY <1>3, <1>5, <1>7, <2>1 DEF VtocOK
<1> QED BY <1>4, <1>5, <1>6, <1>7

(* The default layout: swap behind the boot slice, and the rest.           *)
LEMMA ElementOf ==
  ASSUME NEW S, NEW q \in Seq(S), NEW k \in 1..Len(q)
  PROVE  q[k] \in S
OBVIOUS

LEMMA SwapSizeIsNat ==
  ASSUME NEW avail
  PROVE  idm_calc_swap_size(avail) \in Nat
<1> DEFINE n == Len(SwapTable)
           mbs == idm_cyls_to_mbs(avail)
           fits == {i \in 1..n : i = n \/ SwapTable[i].below > mbs}
<1>1. SwapTable \in Seq([below : Nat, mb : Nat]) /\ n \in Nat /\ n # 0
  BY TiCallersAssumption, TiAssumption
<1>2. Min(fits) \in 1..n
  <2>1. fits \subseteq Nat /\ n \in fits
    BY <1>1
  <2>2. Min(fits) \in fits
    <3> HIDE DEF fits
    <3> QED BY <2>1, MinOf
  <2> QED BY <2>2
<1> HIDE DEF fits
<1>3. SwapTable[Min(fits)].mb \in Nat
  <2> PICK k \in 1..Len(SwapTable) : k = Min(fits)
    BY <1>2
  <2>1. SwapTable[k] \in [below : Nat, mb : Nat]
    BY <1>1, ElementOf
  <2> QED BY <2>1
<1>4. ASSUME NEW mb \in Nat PROVE idm_mbs_to_cyls(mb) \in Nat
  <2>1. mb * TiMb \in Nat /\ TiCyl \div 2 \in Nat
    BY TiAssumption
  <2> QED BY <2>1, Cylinders DEF idm_mbs_to_cyls
<1> QED BY <1>3, <1>4 DEF idm_calc_swap_size, fits

LEMMA DefaultIsOK ==
  ASSUME NEW s, s.vtoc = [i \in SliceIds |-> NoSlice], NEW swap,
         ~(swap /\ idm_calc_swap_size(TiNCyl - FirstAvailable(s)) >= TiNCyl - FirstAvailable(s))
  PROVE  VtocOK(DefaultVtoc(s, swap))
<1> DEFINE first == FirstAvailable(s)
           avail == TiNCyl - first
           sw == IF swap THEN idm_calc_swap_size(avail) ELSE 0
           v == DefaultVtoc(s, swap)
<1>1. first = 1
  BY DEF FirstAvailable, AltSlice, SliceIds, NoSlice
<1>2. avail \in Nat
  BY <1>1, TiAssumption
<1>3. sw \in Nat /\ sw <= avail
  <2> HIDE DEF avail
  <2>1. idm_calc_swap_size(avail) \in Nat
    BY <1>2, SwapSizeIsNat
  <2> QED BY <1>2, <2>1 DEF avail
<1>4. v = [BaseVtoc EXCEPT
        ![1] = IF sw = 0 THEN NoSlice ELSE [start |-> 1 * TiCyl, size |-> sw * TiCyl, tag |-> "swap"],
        ![0] = [start |-> (1 + sw) * TiCyl, size |-> (avail - sw) * TiCyl, tag |-> "root"]]
  BY <1>1 DEF DefaultVtoc
<1> HIDE DEF v, sw, avail, first
<1>5. DOMAIN BaseVtoc = SliceIds
  BY DEF BaseVtoc
<1>6. /\ v[1] = IF sw = 0 THEN NoSlice ELSE [start |-> 1 * TiCyl, size |-> sw * TiCyl, tag |-> "swap"]
      /\ v[0] = [start |-> (1 + sw) * TiCyl, size |-> (avail - sw) * TiCyl, tag |-> "root"]
      /\ \A i \in SliceIds \ {0, 1} : v[i] = BaseVtoc[i]
  BY <1>4, <1>5 DEF SliceIds
<1>7. /\ sw * TiCyl \in Nat /\ (1 + sw) * TiCyl = 1 * TiCyl + sw * TiCyl /\ (avail - sw) * TiCyl \in Nat
      /\ 1 * TiCyl = TiCyl /\ TiNCyl * TiCyl \in Nat
  BY <1>2, <1>3, TiAssumption
<1>8. v[BootSlice] = [start |-> 0, size |-> TiCyl, tag |-> "boot"] /\ v[3] = NoSlice /\ v[9] = NoSlice
      /\ v[AllSlice] = [start |-> 0, size |-> TiNCyl * TiCyl, tag |-> "backup"]
  <2>1. {2, 3, 8, 9} \subseteq SliceIds \ {0, 1}
    BY DEF SliceIds
  <2>2. BaseVtoc[8] = [start |-> 0, size |-> TiCyl, tag |-> "boot"]
    BY <2>1 DEF BaseVtoc, BootSlice, AllSlice
  <2>3. BaseVtoc[2] = [start |-> 0, size |-> TiNCyl * TiCyl, tag |-> "backup"]
    BY <2>1 DEF BaseVtoc, BootSlice, AllSlice
  <2>4. BaseVtoc[3] = NoSlice /\ BaseVtoc[9] = NoSlice
    BY <2>1 DEF BaseVtoc, BootSlice, AllSlice
  <2> QED BY <1>6, <2>1, <2>2, <2>3, <2>4 DEF BootSlice, AllSlice
<1>9. \A i \in SliceIds : DOMAIN v[i] = {"start", "size", "tag"} /\ v[i].start \in Nat /\ v[i].size \in Nat
  BY <1>6, <1>7, <1>8, Cylinders DEF SliceIds, NoSlice, BootSlice, AllSlice
<1>10. \A i, j \in Plain : i # j /\ v[i].size # 0 /\ v[j].size # 0 =>
        v[i].start + v[i].size <= v[j].start \/ v[j].start + v[j].size <= v[i].start
  <2>1. Plain = {0, 1, 3}
    BY DEF Plain, SliceIds, AllSlice, BootSlice, AltSlice
  <2>2. v[3].size = 0 /\ v[0].start = TiCyl + sw * TiCyl /\ (v[1].size # 0 => v[1].start = TiCyl /\ v[1].size = sw * TiCyl)
    <3>1. v[3].size = 0
      BY <1>8 DEF NoSlice
    <3>2. v[0].start = TiCyl + sw * TiCyl
      <4>1. v[0].start = (1 + sw) * TiCyl
        BY <1>6
      <4> QED BY <1>7, <4>1
    <3>3. v[1].size # 0 => v[1].start = TiCyl /\ v[1].size = sw * TiCyl
      <4>1. sw # 0 => v[1].start = 1 * TiCyl /\ v[1].size = sw * TiCyl
        BY <1>6
      <4>2. sw = 0 => v[1].size = 0
        BY <1>6 DEF NoSlice
      <4> QED BY <1>7, <4>1, <4>2
    <3> QED BY <3>1, <3>2, <3>3
  <2>3. v[1].size # 0 => v[1].start + v[1].size <= v[0].start
    <3> PICK x \in Nat : x = sw * TiCyl
      BY <1>7
    <3>1. TiCyl + x \in Nat
      BY Cylinders
    <3> QED BY <2>2, <3>1
  <2> SUFFICES ASSUME NEW i \in Plain, NEW j \in Plain, i # j, v[i].size # 0, v[j].size # 0
               PROVE  v[i].start + v[i].size <= v[j].start \/ v[j].start + v[j].size <= v[i].start
    OBVIOUS
  <2>4. ASSUME NEW k \in Plain, v[k].size # 0 PROVE k = 0 \/ k = 1
    <3>1. k = 0 \/ k = 1 \/ k = 3
      BY <2>1
    <3>2. CASE k = 3
      BY <2>2, <2>4, <3>2
    <3> QED BY <3>1, <3>2
  <2>5. (i = 0 \/ i = 1) /\ (j = 0 \/ j = 1)
    BY <2>4
  <2>6. CASE i = 0 /\ j = 1
    BY <2>3, <2>6
  <2>7. CASE i = 1 /\ j = 0
    BY <2>3, <2>7
  <2> QED BY <2>5, <2>6, <2>7
<1> QED BY <1>8, <1>9, <1>10 DEF VtocOK, v

(* The slices as they are listed.                                          *)
Listed(t) ==
  [i \in DOMAIN t \cap SliceIds |-> [start |-> t[i].off, size |-> t[i].size, tag |-> t[i].tag]]

LEMMA ListedIsOK ==
  ASSUME NEW t, SlicesOK(t), TableApart(t)
  PROVE  VtocOK(ListedVtoc(Listed(t)))
<1> DEFINE l == Listed(t)
           v == ListedVtoc(l)
<1>1. DOMAIN l = DOMAIN t \cap SliceIds
      /\ \A i \in DOMAIN t \cap SliceIds : l[i] = [start |-> t[i].off, size |-> t[i].size, tag |-> t[i].tag]
  BY DEF Listed
<1> HIDE DEF l
<1>2. \A i \in SliceIds : v[i] = IF i \in DOMAIN l THEN l[i] ELSE BaseVtoc[i]
  BY DEF ListedVtoc
<1> HIDE DEF v
<1>3. ASSUME NEW i \in SliceIds, i \in DOMAIN t
      PROVE  /\ v[i] = [start |-> t[i].off, size |-> t[i].size, tag |-> t[i].tag]
             /\ DOMAIN v[i] = {"start", "size", "tag"} /\ v[i].start = t[i].off /\ v[i].size = t[i].size
             /\ v[i].start \in Nat /\ v[i].size \in Nat
  <2>1. v[i] = [start |-> t[i].off, size |-> t[i].size, tag |-> t[i].tag]
    BY <1>1, <1>2, <1>3
  <2>2. t[i].off \in Nat /\ t[i].size \in Nat
    BY <1>3, DpAssumption DEF SlicesOK, Unsigned
  <2> QED BY <2>1, <2>2
<1>4. ASSUME NEW i \in SliceIds, i \notin DOMAIN t
      PROVE  /\ v[i] = BaseVtoc[i] /\ DOMAIN v[i] = {"start", "size", "tag"}
             /\ v[i].start \in Nat /\ v[i].size \in Nat /\ (i \notin {AllSlice, BootSlice} => v[i].size = 0)
  <2>1. v[i] = BaseVtoc[i]
    BY <1>1, <1>2, <1>4
  <2>2. TiNCyl * TiCyl \in Nat /\ TiCyl \in Nat
    BY TiAssumption
  <2>3. CASE i = AllSlice
    <3>1. v[i] = [start |-> 0, size |-> TiNCyl * TiCyl, tag |-> "backup"]
      BY <2>1, <2>3 DEF BaseVtoc
    <3> QED BY <2>1, <2>2, <2>3, <3>1
  <2>4. CASE i = BootSlice
    <3>1. v[i] = [start |-> 0, size |-> TiCyl, tag |-> "boot"]
      BY <2>1, <2>4 DEF BaseVtoc, AllSlice, BootSlice
    <3> QED BY <2>1, <2>2, <2>4, <3>1
  <2>5. CASE i # AllSlice /\ i # BootSlice
    <3>1. v[i] = NoSlice
      BY <2>1, <2>5 DEF BaseVtoc
    <3>2. v[i].start = 0 /\ v[i].size = 0 /\ DOMAIN v[i] = {"start", "size", "tag"}
      BY <3>1 DEF NoSlice
    <3> QED BY <2>1, <3>2
  <2> QED BY <2>3, <2>4, <2>5
<1>5. v[BootSlice].start = 0 /\ v[BootSlice].size = TiCyl
  <2>1. BootSlice \in SliceIds
    BY DEF BootSlice, SliceIds
  <2>2. CASE BootSlice \in DOMAIN t
    BY <1>3, <2>1, <2>2, SlicesAssumption DEF SlicesOK
  <2>3. CASE BootSlice \notin DOMAIN t
    <3>1. BaseVtoc[BootSlice] = [start |-> 0, size |-> TiCyl, tag |-> "boot"]
      BY <2>1 DEF BaseVtoc, AllSlice, BootSlice
    <3>2. v[BootSlice] = BaseVtoc[BootSlice]
      BY <1>4, <2>1, <2>3
    <3> QED BY <3>1, <3>2
  <2> QED BY <2>2, <2>3
<1>6. ASSUME NEW i \in Plain, NEW j \in Plain, i # j, v[i].size # 0, v[j].size # 0
      PROVE  v[i].start + v[i].size <= v[j].start \/ v[j].start + v[j].size <= v[i].start
  <2>1. i \in SliceIds /\ j \in SliceIds /\ i \notin Reserved /\ j \notin Reserved
        /\ i \notin {AllSlice, BootSlice} /\ j \notin {AllSlice, BootSlice}
    BY DEF Plain, Reserved, AllSlice, BootSlice, AltSlice
  <2>2. i \in DOMAIN t /\ j \in DOMAIN t
    BY <1>4, <1>6, <2>1
  <2>3. Apart(t[i], t[j])
    BY <1>6, <2>1, <2>2 DEF TableApart
  <2> QED BY <1>3, <2>1, <2>2, <2>3 DEF Apart
<1>7. \A i \in SliceIds : DOMAIN v[i] = {"start", "size", "tag"} /\ v[i].start \in Nat /\ v[i].size \in Nat
  BY <1>3, <1>4
<1> QED BY <1>5, <1>6, <1>7 DEF VtocOK, v, l

-----------------------------------------------------------------------------
(* The library changes the table of slices only when it makes a new one.   *)
HasVtoc(s, V) == "vtoc" \in DOMAIN s /\ s.vtoc = V

LEMMA FdiskKeepsVtoc ==
  ASSUME NEW V, NEW s, HasVtoc(s, V), NEW a, NEW o \in imm_create_fdisk_target(s, a)
  PROVE  HasVtoc(o.s, V)
<1> DEFINE unmounted == As("TI_E_UNMOUNT_FAILED", idm_unmount_all(s, a.disk))
           Free(t) == Whatever(idm_release_swap(t, a.disk))
           Table(t) == IF a.whole THEN idm_fdisk_whole_disk(t, a)
                       ELSE IF a.n = 0 THEN Done(t) ELSE idm_fdisk_create_part_table(t, a)
           LastStep(t) == As("TI_E_FDISK_FAILED", Table(t))
           freed == Then(unmounted, Free)
<1>2. imm_create_fdisk_target(s, a) = Then(freed, LastStep)
  BY DEF imm_create_fdisk_target
<1>3. ASSUME NEW code, NEW outs, \A u \in outs : HasVtoc(u.s, V)
      PROVE  /\ \A u \in As(code, outs) : HasVtoc(u.s, V)
             /\ \A u \in Whatever(outs) : HasVtoc(u.s, V)
  BY <1>3 DEF As, Whatever, Out
<1>4. \A u \in unmounted : HasVtoc(u.s, V)
  <2>1. ASSUME NEW u \in idm_unmount_all(s, a.disk) PROVE HasVtoc(u.s, V)
    <3>1. \E m, r : u = Out([s EXCEPT !.mounted = m], r)
      BY <2>1 DEF idm_unmount_all, Done
    <3>2. PICK m, r : u = Out([s EXCEPT !.mounted = m], r)
      BY <3>1
    <3>3. u.s = [s EXCEPT !.mounted = m]
      BY <3>2 DEF Out
    <3> QED BY <3>3 DEF HasVtoc
  <2> QED BY <1>3, <2>1
<1>5. ASSUME NEW t, HasVtoc(t, V) PROVE \A u \in Free(t) : HasVtoc(u.s, V)
  <2>1. ASSUME NEW u \in idm_release_swap(t, a.disk) PROVE HasVtoc(u.s, V)
    <3>1. \E m, r : u = Out([t EXCEPT !.swap = m], r)
      BY <2>1 DEF idm_release_swap, Done
    <3>2. PICK m, r : u = Out([t EXCEPT !.swap = m], r)
      BY <3>1
    <3>3. u.s = [t EXCEPT !.swap = m]
      BY <3>2 DEF Out
    <3> QED BY <1>5, <3>3 DEF HasVtoc
  <2> QED BY <1>3, <2>1
<1>6. ASSUME NEW t, HasVtoc(t, V) PROVE \A u \in LastStep(t) : HasVtoc(u.s, V)
  <2>1. ASSUME NEW name, NEW m, NEW err PROVE \A u \in Cmd(name, t, [t EXCEPT !.parts = m], err) : HasVtoc(u.s, V)
    <3>1. HasVtoc([t EXCEPT !.parts = m], V)
      BY <1>6 DEF HasVtoc
    <3> DEFINE d == [t EXCEPT !.parts = m]
    <3> HIDE DEF d
    <3>2. \A u \in Cmd(name, t, d, err) : u.s = t \/ u.s = d
      BY DEF Cmd, Done, Out
    <3> QED BY <1>6, <3>1, <3>2 DEF d
  <2>2. \A u \in idm_fdisk_whole_disk(t, a) : HasVtoc(u.s, V)
    BY <2>1 DEF idm_fdisk_whole_disk
  <2>3. \A u \in idm_fdisk_create_part_table(t, a) : HasVtoc(u.s, V)
    <3> DEFINE listed == [i \in 1..a.n |-> [type |-> a.table[i].type, off |-> a.table[i].off, size |-> a.table[i].size]]
               new == IF a.keeps THEN idm_fill_preserved_partitions(t, a) ELSE listed
               m == {new[i] : i \in {j \in 1..a.n : a.used[j]}}
    <3>1. \A u \in idm_fdisk_create_part_table(t, a) :
            \/ u \in Done(t) \/ u = Out(t, "IDM_E_FDISK_PART_TABLE_FAILED")
            \/ u \in Cmd("fdisk", t, [t EXCEPT !.parts = m], "IDM_E_FDISK_PART_TABLE_FAILED")
      BY DEF idm_fdisk_create_part_table
    <3> HIDE DEF m
    <3>2. \A u \in Done(t) : HasVtoc(u.s, V)
      BY <1>6 DEF Done, Out
    <3>3. HasVtoc(Out(t, "IDM_E_FDISK_PART_TABLE_FAILED").s, V)
      BY <1>6 DEF Out
    <3> QED BY <2>1, <3>1, <3>2, <3>3
  <2>4. \A u \in Done(t) : HasVtoc(u.s, V)
    BY <1>6 DEF Done, Out
  <2>5. \A u \in Table(t) : HasVtoc(u.s, V)
    BY <2>2, <2>3, <2>4
  <2> HIDE DEF Table
  <2> QED BY <1>3, <2>5
<1>7. ASSUME NEW outs, \A u \in outs : HasVtoc(u.s, V), NEW u \in Then(outs, LastStep)
      PROVE  HasVtoc(u.s, V)
  <2>1. PICK w \in outs : u \in IF w.ret = "ok" THEN LastStep(w.s) ELSE {w}
    <3> HIDE DEF LastStep
    <3> QED BY <1>7 DEF Then
  <2> HIDE DEF LastStep
  <2> QED BY <1>6, <1>7, <2>1
<1>8. \A u \in freed : HasVtoc(u.s, V)
  <2> SUFFICES ASSUME NEW u \in freed PROVE HasVtoc(u.s, V)
    OBVIOUS
  <2>1. PICK w \in unmounted : u \in IF w.ret = "ok" THEN Free(w.s) ELSE {w}
    <3> HIDE DEF unmounted, Free
    <3> QED BY DEF Then
  <2> HIDE DEF unmounted, Free
  <2> QED BY <1>4, <1>5, <2>1
<1> HIDE DEF freed, LastStep
<1> QED BY <1>2, <1>7, <1>8

LEMMA VtocWrites ==
  ASSUME NEW V, NEW s, HasVtoc(s, V), NEW a, NEW o \in imm_create_vtoc_target(s, a), o.ret = "ok"
  PROVE  /\ ~(a.default /\ a.swap /\ idm_calc_swap_size(TiNCyl - FirstAvailable(s)) >= TiNCyl - FirstAvailable(s))
         /\ o.s.vtoc = idm_adjust_vtoc(IF a.default THEN DefaultVtoc(s, a.swap) ELSE ListedVtoc(a.slices))
<1> DEFINE v == IF a.default THEN DefaultVtoc(s, a.swap) ELSE ListedVtoc(a.slices)
           W == idm_adjust_vtoc(v)
           written == [s EXCEPT !.vtoc = W]
           swapped == [written EXCEPT !.swap = @ \cup {[disk |-> a.disk, part |-> "s1"]}]
           full == a.default /\ a.swap /\ idm_calc_swap_size(TiNCyl - FirstAvailable(s)) >= TiNCyl - FirstAvailable(s)
           Swap(w) == IF a.swap THEN Whatever(Cmd("swap", w, swapped, "failed")) ELSE Done(w)
<1>1. PICK w \in idm_create_vtoc(s, a) : o = IF w.ret \in {"ok", "abort"} THEN w ELSE Out(w.s, "TI_E_VTOC_FAILED")
  BY DEF imm_create_vtoc_target, As
<1>2. o = w /\ w.ret = "ok"
  BY <1>1 DEF Out
<1>3. idm_create_vtoc(s, a) = IF full THEN {Out(s, "abort")} ELSE Then(Cmd("vtoc", s, written, "IDM_E_VTOC_FAILED"), Swap)
  BY DEF idm_create_vtoc
<1>4. ~full
  <2> HIDE DEF full, Swap, written
  <2>1. CASE full
    <3>1. w = Out(s, "abort")
      BY <1>1, <1>3, <2>1
    <3> QED BY <1>2, <3>1 DEF Out
  <2> QED BY <2>1
<1>5. HasVtoc(written, W) /\ HasVtoc(swapped, W)
  <2> HIDE DEF W
  <2>1. HasVtoc(written, W)
    BY DEF HasVtoc
  <2> HIDE DEF written
  <2> QED BY <2>1 DEF HasVtoc
<1>6. PICK x \in Cmd("vtoc", s, written, "IDM_E_VTOC_FAILED") : w \in IF x.ret = "ok" THEN Swap(x.s) ELSE {x}
  <2> HIDE DEF written, Swap, full
  <2> QED BY <1>1, <1>3, <1>4 DEF Then
<1> HIDE DEF written, swapped, W
<1>7. x.ret = "ok" => x.s = written
  BY DEF Cmd, Done, Out
<1>8. x.ret = "ok"
  BY <1>2, <1>6
<1>9. w \in Swap(written)
  BY <1>6, <1>7, <1>8
<1>10. w.s \in {written, swapped}
  BY <1>9 DEF Whatever, Cmd, Done, Out
<1>11. o.s.vtoc = W
  BY <1>2, <1>5, <1>10 DEF HasVtoc
<1> HIDE DEF full
<1> QED BY <1>4, <1>11 DEF full, W

-----------------------------------------------------------------------------
(* The slices through the edits, the setting of attributes and the         *)
(* commands of the library.                                                *)
CheckedWhenAsked == dpAsked.set => Checked(slTable)
ListedAsIs == slAsked.set => dpAsked.set /\ (slAsked.default \/ slAsked.slices = slTable)
VtocFree == tiLast.op \in {"none", "FDISK"} => HasVtoc(ti, [i \in SliceIds |-> NoSlice])
VtocChecked == Written("VTOC") => (NoWraps(slTable) => WrittenApart(ti.vtoc))
SlInv == IsSl(Sl) /\ CheckedWhenFinal /\ CheckedWhenAsked /\ ListedAsIs /\ VtocFree /\ VtocChecked

LEMMA SlInitInv ==
  DtInit => SlInv
<1> SUFFICES ASSUME DtInit PROVE SlInv
  OBVIOUS
<1> USE DEF DtInit, DpInit, SlInit
<1>1. SlicesOK(slTable) /\ TableApart(slTable)
  BY SlicesAssumption
<1>2. IsSl(Sl)
  BY <1>1 DEF IsSl, Sl
<1>3. CheckedWhenFinal /\ CheckedWhenAsked /\ ListedAsIs
  BY <1>1 DEF CheckedWhenFinal, CheckedWhenAsked, ListedAsIs, Checked, NoAttrs
<1>4. VtocFree
  BY DEF VtocFree, HasVtoc, Machine
<1>5. VtocChecked
  BY DEF VtocChecked, Written, NoCall
<1> QED BY <1>2, <1>3, <1>4, <1>5 DEF SlInv

(* Nothing is written and no attributes are set while there are edits.     *)
LEMMA EditStays ==
  ASSUME SlInv, IsSl(Sl)', CheckedWhenFinal', ~dpAsked'.set, ~slAsked'.set, tiLast.op = "none", UNCHANGED tiVars
  PROVE  SlInv'
BY DEF SlInv, CheckedWhenAsked, ListedAsIs, VtocFree, VtocChecked, Written, tiVars

LEMMA PartEditStays ==
  ASSUME DtInv, SlInv, PartEdit
  PROVE  SlInv' /\ slTable' = slTable
<1>1. /\ UNCHANGED <<slTable, slEdit, slWhole, slSwap, slAsked, slLast>> /\ UNCHANGED tiVars
      /\ ~dpAsked.set
  BY DEF PartEdit, Forget, slVars, Editing
<1>2. ~dpAsked'.set
  <2>1. \A t, slots : Edit(t, slots) => dpAsked' = NoAttrs
    BY DEF Edit
  <2>2. \A gui : Finalize(gui) => dpAsked' = NoAttrs
    BY DEF Finalize
  <2>3. dpAsked' = NoAttrs
    BY <2>1, <2>2 DEF PartEdit, om_create_partition, om_delete_partition, om_delete_partition_at,
                      om_create_target_partition_info_if_absent, om_finalize_fdisk_info_for_TI
  <2> QED BY <2>3 DEF NoAttrs
<1>3. IsSl(Sl)'
  BY <1>1 DEF SlInv, IsSl, Sl
<1>4. CheckedWhenFinal' /\ ~slAsked'.set /\ tiLast.op = "none"
  BY <1>1 DEF SlInv, CheckedWhenFinal, ListedAsIs, DtInv, WrittenWhenAsked
<1> QED BY <1>1, <1>2, <1>3, <1>4, EditStays

LEMMA SliceEditInv ==
  ASSUME DtInv, SlInv, SliceEdit
  PROVE  SlInv' /\ PreservedStay
<1>1. SlicesStay
  BY SliceEditStays DEF SlInv, DtInv
<1>2. ~dpAsked.set /\ ~slAsked.set /\ tiLast.op = "none" /\ UNCHANGED tiVars
  BY DEF SliceEdit, Editing, SlInv, ListedAsIs, DtInv, WrittenWhenAsked
<1>3. dpAsked' = dpAsked /\ slAsked' \in {slAsked, NoAttrs}
  <2>1. \A op, a : SlCall(op, a) => dpAsked' = dpAsked /\ slAsked' = NoAttrs
    BY DEF SlCall
  <2> QED BY <2>1 DEF SliceEdit, om_preserve_slice, om_delete_slice, om_create_slice, om_finalize_vtoc_for_TI, om_get_min_size
<1>4. ~dpAsked'.set /\ ~slAsked'.set
  BY <1>2, <1>3 DEF NoAttrs
<1> QED BY <1>1, <1>2, <1>4, EditStays DEF SlicesStay

(* Swap is computed, and the slices stay as they are.                      *)
LEMMA ComputedStays ==
  ASSUME IsSl(Sl), Become(SwapComputed(Sl))
  PROVE  IsSl(Sl)' /\ slTable' = slTable
<1> PICK s : s = SwapComputed(Sl)
  OBVIOUS
<1>1. Edited(Sl, s) /\ s.table = slTable
  BY ComputedKeeps DEF Sl
<1> QED BY <1>1, BecomeStays

LEMMA SetFdiskStays ==
  ASSUME DtInv, SlInv, SetFdisk
  PROVE  SlInv' /\ slTable' = slTable
<1>1. /\ Become(SwapComputed(Sl)) /\ UNCHANGED <<slAsked, slLast>> /\ UNCHANGED tiVars /\ ~dpAsked.set
      /\ slLast.op \in {"none", "finalize"} /\ slLast.ok
  BY DEF SetFdisk, Finalized, Editing
<1>2. IsSl(Sl)' /\ slTable' = slTable
  BY <1>1, ComputedStays DEF SlInv
<1>3. Checked(slTable) /\ ~slAsked.set
  BY <1>1 DEF SlInv, CheckedWhenFinal, ListedAsIs
<1> QED BY <1>1, <1>2, <1>3 DEF SlInv, CheckedWhenFinal, CheckedWhenAsked, ListedAsIs, VtocFree, VtocChecked, Written, tiVars

LEMMA TargetStays ==
  ASSUME SlInv, Target
  PROVE  SlInv' /\ slTable' = slTable
<1>1. UNCHANGED <<slTable, slEdit, slInvalid, slSwap, slAsked, dpAsked, tiVars>> /\ slLast'.op = "target"
  BY DEF Target, om_get_device_target_info, dpVars
<1>2. IsSl(Sl)'
  BY <1>1 DEF SlInv, IsSl, Sl
<1>3. CheckedWhenFinal'
  BY <1>1 DEF CheckedWhenFinal
<1> QED BY <1>1, <1>2, <1>3 DEF SlInv, CheckedWhenAsked, ListedAsIs, VtocFree, VtocChecked, Written, tiVars

LEMMA SetVtocStays ==
  ASSUME DtInv, SlInv, SetVtoc
  PROVE  SlInv' /\ slTable' = slTable
<1>1. /\ Become(SwapComputed(Sl)) /\ UNCHANGED dpVars /\ UNCHANGED tiVars
      /\ tiLast.op = "FDISK" /\ slLast'.op = "attrs"
      /\ slAsked'.default = slWhole /\ slAsked'.slices = IF slWhole THEN NoSlices ELSE slTable
  BY DEF SetVtoc, Written, om_set_vtoc_target_attrs
<1>2. IsSl(Sl)' /\ slTable' = slTable
  BY <1>1, ComputedStays DEF SlInv
<1>3. dpAsked.set /\ Checked(slTable) /\ dpAsked' = dpAsked
  BY <1>1 DEF DtInv, WrittenWhenAsked, SlInv, CheckedWhenAsked, dpVars
<1>4. ListedAsIs'
  <2>1. CASE slWhole
    BY <1>1, <1>3, <2>1 DEF ListedAsIs
  <2>2. CASE ~slWhole
    BY <1>1, <1>2, <1>3, <2>2 DEF ListedAsIs
  <2> QED BY <2>1, <2>2
<1>5. CheckedWhenFinal' /\ CheckedWhenAsked'
  BY <1>1, <1>2, <1>3 DEF CheckedWhenFinal, CheckedWhenAsked
<1> QED BY <1>1, <1>2, <1>4, <1>5 DEF SlInv, VtocFree, VtocChecked, Written, tiVars

LEMMA WritingStays ==
  ASSUME SlInv, UNCHANGED <<dpVars, slVars>>, VtocFree', VtocChecked'
  PROVE  SlInv' /\ slTable' = slTable
<1>1. UNCHANGED <<slTable, slEdit, slWhole, slInvalid, slSwap, slAsked, slLast, dpAsked>>
  BY DEF dpVars, slVars
<1>2. IsSl(Sl)'
  BY <1>1 DEF SlInv, IsSl, Sl
<1> QED BY <1>1, <1>2 DEF SlInv, CheckedWhenFinal, CheckedWhenAsked, ListedAsIs

LEMMA CommitFdiskStays ==
  ASSUME SlInv, CommitFdisk
  PROVE  SlInv' /\ slTable' = slTable
<1> PICK a : a = FdiskAttrs
  OBVIOUS
<1>1. a.type = "FDISK"
  BY DEF FdiskAttrs
<1>2. PICK o \in imm_create_fdisk_target(ti, a) : ti' = o.s /\ tiLast' = [op |-> "FDISK", attrs |-> "none", ret |-> o.ret]
  <2>1. \E o \in ti_create_target(ti, a) : TiStep(a.type, "none", o)
    BY DEF CommitFdisk, TiSaid
  <2>2. ti_create_target(ti, a) = imm_create_fdisk_target(ti, a)
    BY <1>1 DEF ti_create_target
  <2> QED BY <1>1, <2>1, <2>2 DEF TiStep
<1>3. HasVtoc(ti, [i \in SliceIds |-> NoSlice])
  BY DEF SlInv, VtocFree, CommitFdisk
<1> PICK V, s : V = [i \in SliceIds |-> NoSlice] /\ s = ti
  OBVIOUS
<1>4. HasVtoc(o.s, V)
  BY <1>2, <1>3, FdiskKeepsVtoc
<1>5. VtocFree' /\ VtocChecked'
  BY <1>2, <1>4 DEF VtocFree, VtocChecked, Written
<1> QED BY <1>5, WritingStays DEF CommitFdisk

LEMMA CommitVtocStays ==
  ASSUME SlInv, CommitVtoc
  PROVE  SlInv' /\ slTable' = slTable
<1> PICK a : a = VtocAttrs
  OBVIOUS
<1>1. a.type = "VTOC" /\ a.default = slAsked.default /\ a.swap = slAsked.swap /\ a.slices = Listed(slAsked.slices)
  BY DEF VtocAttrs, Listed
<1>2. PICK o \in imm_create_vtoc_target(ti, a) : ti' = o.s /\ tiLast' = [op |-> "VTOC", attrs |-> "none", ret |-> o.ret]
  <2>1. \E o \in ti_create_target(ti, a) : TiStep(a.type, "none", o)
    BY DEF CommitVtoc, TiSaid
  <2>2. ti_create_target(ti, a) = imm_create_vtoc_target(ti, a)
    BY <1>1 DEF ti_create_target
  <2> QED BY <1>1, <2>1, <2>2 DEF TiStep
<1>3. HasVtoc(ti, [i \in SliceIds |-> NoSlice]) /\ slAsked.set /\ dpAsked.set /\ UNCHANGED <<dpVars, slVars>>
  BY DEF SlInv, VtocFree, CommitVtoc, ListedAsIs
<1>4. ASSUME o.ret = "ok", NoWraps(slTable) PROVE WrittenApart(o.s.vtoc)
  <2> DEFINE v == IF a.default THEN DefaultVtoc(ti, a.swap) ELSE ListedVtoc(a.slices)
  <2>1. /\ ~(a.default /\ a.swap /\ idm_calc_swap_size(TiNCyl - FirstAvailable(ti)) >= TiNCyl - FirstAvailable(ti))
        /\ o.s.vtoc = idm_adjust_vtoc(v)
    <3> PICK s, V : s = ti /\ V = [i \in SliceIds |-> NoSlice]
      OBVIOUS
    <3>1. HasVtoc(s, V) /\ o \in imm_create_vtoc_target(s, a)
      BY <1>2, <1>3
    <3>2. /\ ~(a.default /\ a.swap /\ idm_calc_swap_size(TiNCyl - FirstAvailable(s)) >= TiNCyl - FirstAvailable(s))
          /\ o.s.vtoc = idm_adjust_vtoc(IF a.default THEN DefaultVtoc(s, a.swap) ELSE ListedVtoc(a.slices))
      BY <1>4, <3>1, VtocWrites
    <3> QED BY <3>2
  <2>2. VtocOK(v)
    <3>1. CASE a.default
      <4> PICK s : s = ti
        OBVIOUS
      <4>1. s.vtoc = [i \in SliceIds |-> NoSlice]
        BY <1>3 DEF HasVtoc
      <4>2. VtocOK(DefaultVtoc(s, a.swap))
        BY <2>1, <3>1, <4>1, DefaultIsOK
      <4> QED BY <3>1, <4>2
    <3>2. CASE ~a.default
      <4> PICK t : t = slTable
        OBVIOUS
      <4>1. a.slices = Listed(t)
        BY <1>1, <1>3, <3>2 DEF SlInv, ListedAsIs
      <4>2. SlicesOK(t) /\ TableApart(t)
        BY <1>3, <1>4 DEF SlInv, IsSl, Sl, CheckedWhenAsked, Checked
      <4> QED BY <3>2, <4>1, <4>2, ListedIsOK
    <3> QED BY <3>1, <3>2
  <2> HIDE DEF v
  <2> QED BY <2>1, <2>2, AdjustedApart
<1>5. VtocFree' /\ VtocChecked'
  <2>1. slTable' = slTable
    BY <1>3 DEF slVars
  <2> QED BY <1>2, <1>4, <2>1 DEF VtocFree, VtocChecked, Written
<1> QED BY <1>3, <1>5, WritingStays

LEMMA SlStepKeeps ==
  ASSUME DtInv, SlInv, [DtNext]_dtVars
  PROVE  SlInv' /\ (PreservedStay \/ slTable' = slTable)
<1>1. CASE PartEdit
  BY <1>1, PartEditStays
<1>2. CASE SliceEdit
  BY <1>2, SliceEditInv
<1>3. CASE SetFdisk
  BY <1>3, SetFdiskStays
<1>4. CASE CommitFdisk
  BY <1>4, CommitFdiskStays
<1>5. CASE Target
  BY <1>5, TargetStays
<1>6. CASE SetVtoc
  BY <1>6, SetVtocStays
<1>7. CASE CommitVtoc
  BY <1>7, CommitVtocStays
<1>8. CASE UNCHANGED dtVars
  <2>1. UNCHANGED <<dpVars, slVars>> /\ UNCHANGED tiVars /\ slTable' = slTable
    BY <1>8 DEF dtVars, slVars
  <2>2. VtocFree' /\ VtocChecked'
    BY <2>1 DEF SlInv, VtocFree, VtocChecked, Written, tiVars
  <2> QED BY <2>1, <2>2, WritingStays
<1> QED BY <1>1, <1>2, <1>3, <1>4, <1>5, <1>6, <1>7, <1>8 DEF DtNext

LEMMA SlInvHolds ==
  DtSpec => []SlInv
BY SlInitInv, DtInvHolds, SlStepKeeps, PTL DEF DtSpec

(* A slice that the user wants preserved keeps its place and its size,     *)
(* whatever is created, deleted and finalized, until the partition under   *)
(* it goes (om_preserve_slice, om_create_slice, om_delete_slice,           *)
(* om_finalize_vtoc_for_TI).                                               *)
THEOREM PreservedSlicesAlwaysStay ==
  DtSpec => PreservedSlicesStay
<1>1. DtInv /\ SlInv /\ [DtNext]_dtVars =>
        [~slInvalid => \A i \in slEdit.preserve \cap DOMAIN slTable :
            i \in DOMAIN slTable' /\ slTable'[i] = slTable[i]]_slTable
  BY SlStepKeeps DEF PreservedStay
<1> QED BY <1>1, DtInvHolds, SlInvHolds, PTL DEF DtSpec, PreservedSlicesStay

(* Finalized slices do not overlap, in the table that is handed over and   *)
(* in the one written to the disk, as long as no slice reaches beyond the  *)
(* range of the unsigned numbers in which their ends are compared          *)
(* (build_free_space_table, idm_adjust_vtoc).                              *)
THEOREM SlicesStayApart ==
  DtSpec => [](NoWraps(slTable) => SlicesAreApart)
<1>1. DtInv /\ SlInv => (NoWraps(slTable) => SlicesAreApart)
  <2> SUFFICES ASSUME DtInv, SlInv, NoWraps(slTable) PROVE SlicesAreApart
    OBVIOUS
  <2>1. DpTypeOK
    BY PartsAreTyped DEF DtInv
  <2>2. FinalizedSlicesAreApart
    BY DEF SlInv, CheckedWhenFinal, Checked, FinalizedSlicesAreApart
  <2>3. WrittenSlicesAreApart
    BY DEF SlInv, VtocChecked, WrittenSlicesAreApart
  <2> QED BY <2>1, <2>2, <2>3 DEF SlicesAreApart
<1> QED BY <1>1, DtInvHolds, SlInvHolds, PTL

-----------------------------------------------------------------------------
(* The library: a call keeps the machine one that a caller may find, as a *)
(* command may fail at each step. Kept says so, Grown that nothing that    *)
(* was made is gone.                                                       *)

Kept(s, t) == IsMachine(t) /\ t.progress = s.progress
Grown(s, t) == Kept(s, t) /\ t.pools = s.pools /\ s.datasets \subseteq t.datasets

LEMMA GrownTwice ==
  ASSUME NEW r, NEW s, NEW t, Grown(r, s), Grown(s, t)
  PROVE  Grown(r, t)
BY DEF Grown, Kept

LEMMA Changes ==
  ASSUME NEW s, IsMachine(s)
  PROVE  /\ Grown(s, s)
         /\ \A m \in SUBSET s.mounted : Grown(s, [s EXCEPT !.mounted = m])
         /\ \A m \in SUBSET s.swap : Grown(s, [s EXCEPT !.swap = m])
         /\ \A d : d.part \notin {"swap", "dump"} => Grown(s, [s EXCEPT !.swap = s.swap \cup {d}])
         /\ \A d : d.part \notin {"swap", "dump"} => Grown(s, [s EXCEPT !.dump = d])
         /\ \A p : Grown(s, [s EXCEPT !.parts = p])
         /\ \A b : Grown(s, [s EXCEPT !.be = b])
         /\ \A b : Grown(s, [s EXCEPT !.bemounted = b])
<1>1. Grown(s, s)
  BY DEF Grown, Kept
<1>2. ASSUME NEW m \in SUBSET s.mounted PROVE Grown(s, [s EXCEPT !.mounted = m])
  BY DEF Grown, Kept, IsMachine, Typed, TiFields, VolumesAreThere, NotForgotten
<1>3. ASSUME NEW m \in SUBSET s.swap PROVE Grown(s, [s EXCEPT !.swap = m])
  BY DEF Grown, Kept, IsMachine, Typed, TiFields, VolumesAreThere, NotForgotten
<1>4. ASSUME NEW d, d.part \notin {"swap", "dump"} PROVE Grown(s, [s EXCEPT !.swap = s.swap \cup {d}])
  BY <1>4 DEF Grown, Kept, IsMachine, Typed, TiFields, VolumesAreThere, NotForgotten
<1>5. ASSUME NEW d, d.part \notin {"swap", "dump"} PROVE Grown(s, [s EXCEPT !.dump = d])
  BY <1>5 DEF Grown, Kept, IsMachine, Typed, TiFields, VolumesAreThere, NotForgotten
<1>6. ASSUME NEW p PROVE Grown(s, [s EXCEPT !.parts = p])
  BY DEF Grown, Kept, IsMachine, Typed, TiFields, VolumesAreThere, NotForgotten
<1>7. ASSUME NEW b PROVE Grown(s, [s EXCEPT !.be = b]) /\ Grown(s, [s EXCEPT !.bemounted = b])
  BY DEF Grown, Kept, IsMachine, Typed, TiFields, VolumesAreThere, NotForgotten
<1> QED BY <1>1, <1>2, <1>3, <1>4, <1>5, <1>6, <1>7

LEMMA VolumeChanges ==
  ASSUME NEW s, IsMachine(s), NEW pool \in s.pools, NEW name
  PROVE  /\ Grown(s, [s EXCEPT !.datasets = s.datasets \cup {Dataset(pool, name)}])
         /\ Grown(s, [s EXCEPT !.swap = s.swap \cup {Zvol(pool, name)}])
         /\ name # "swap" => Grown(s, [s EXCEPT !.dump = Zvol(pool, name)])
<1>1. Grown(s, [s EXCEPT !.datasets = s.datasets \cup {Dataset(pool, name)}])
  BY DEF Grown, Kept, IsMachine, Typed, TiFields, VolumesAreThere, NotForgotten, Dataset
<1> DEFINE z == Zvol(pool, name)
<1>2. z.disk \in s.pools /\ z.part = name
  BY DEF Zvol
<1> HIDE DEF z
<1>3. Grown(s, [s EXCEPT !.swap = s.swap \cup {z}])
  BY <1>2 DEF Grown, Kept, IsMachine, Typed, TiFields, VolumesAreThere, NotForgotten
<1>4. name # "swap" => Grown(s, [s EXCEPT !.dump = z])
  BY <1>2 DEF Grown, Kept, IsMachine, Typed, TiFields, VolumesAreThere, NotForgotten
<1> QED BY <1>1, <1>3, <1>4 DEF z

LEMMA CommandGrows ==
  ASSUME NEW r, NEW s, NEW t, Grown(r, s), Grown(r, t), NEW name, NEW err
  PROVE  \A o \in Cmd(name, s, t, err) : Grown(r, o.s)
<1>1. \A o \in Cmd(name, s, t, err) : o.s = s \/ o.s = t
  BY DEF Cmd, Done, Out
<1> QED BY <1>1

LEMMA AnswersGrow ==
  ASSUME NEW r, NEW outs, \A o \in outs : Grown(r, o.s), NEW code
  PROVE  /\ \A o \in As(code, outs) : Grown(r, o.s)
         /\ \A o \in Whatever(outs) : Grown(r, o.s)
BY DEF As, Whatever, Out

LEMMA DoneGrows ==
  ASSUME NEW r, NEW s, Grown(r, s)
  PROVE  \A o \in Done(s) : Grown(r, o.s)
BY DEF Done, Out

LEMMA FreeingGrows ==
  ASSUME NEW s, IsMachine(s), NEW disk
  PROVE  /\ \A o \in idm_unmount_all(s, disk) : Grown(s, o.s)
         /\ \A o \in idm_release_swap(s, disk) : Grown(s, o.s)
<1>1. ASSUME NEW o \in idm_unmount_all(s, disk) PROVE Grown(s, o.s)
  <2>1. PICK m \in SUBSET s.mounted : o.s = [s EXCEPT !.mounted = m]
    <3> DEFINE mine == {m \in s.mounted : <<disk, m.disk>> \in Begins}
    <3>1. /\ s.mounted \ mine \in SUBSET s.mounted
          /\ \A part \in SUBSET mine \ {mine} : s.mounted \ part \in SUBSET s.mounted
      OBVIOUS
    <3>2. \/ o = Out([s EXCEPT !.mounted = s.mounted \ mine], "ok")
          \/ \E part \in SUBSET mine \ {mine} :
                o = Out([s EXCEPT !.mounted = s.mounted \ part], "IDM_E_UNMOUNT_FAILED")
      BY <1>1 DEF idm_unmount_all, Done
    <3> HIDE DEF mine
    <3>3. \E m \in SUBSET s.mounted : \E ret : o = Out([s EXCEPT !.mounted = m], ret)
      BY <3>1, <3>2
    <3>4. PICK m \in SUBSET s.mounted : \E ret : o = Out([s EXCEPT !.mounted = m], ret)
      BY <3>3
    <3>5. o.s = [s EXCEPT !.mounted = m]
      BY <3>4 DEF Out
    <3> QED BY <3>5
  <2> QED BY <2>1, Changes
<1>2. ASSUME NEW o \in idm_release_swap(s, disk) PROVE Grown(s, o.s)
  <2>1. PICK m \in SUBSET s.swap : o.s = [s EXCEPT !.swap = m]
    <3> DEFINE mine == {d \in s.swap : <<disk, d.disk>> \in Begins}
    <3>1. /\ s.swap \ mine \in SUBSET s.swap
          /\ \A part \in SUBSET mine \ {mine} : s.swap \ part \in SUBSET s.swap
      OBVIOUS
    <3>2. \/ o = Out([s EXCEPT !.swap = s.swap \ mine], "ok")
          \/ \E part \in SUBSET mine \ {mine} :
                o = Out([s EXCEPT !.swap = s.swap \ part], "IDM_E_RELEASE_SWAP_FAILED")
      BY <1>2 DEF idm_release_swap, Done
    <3> HIDE DEF mine
    <3>3. \E m \in SUBSET s.swap : \E ret : o = Out([s EXCEPT !.swap = m], ret)
      BY <3>1, <3>2
    <3>4. PICK m \in SUBSET s.swap : \E ret : o = Out([s EXCEPT !.swap = m], ret)
      BY <3>3
    <3>5. o.s = [s EXCEPT !.swap = m]
      BY <3>4 DEF Out
    <3> QED BY <3>5
  <2> QED BY <2>1, Changes
<1> QED BY <1>1, <1>2

LEMMA FdiskGrows ==
  ASSUME NEW s, IsMachine(s), NEW a
  PROVE  \A o \in imm_create_fdisk_target(s, a) : Grown(s, o.s)
<1> DEFINE unmounted == As("TI_E_UNMOUNT_FAILED", idm_unmount_all(s, a.disk))
           Free(t) == Whatever(idm_release_swap(t, a.disk))
           Table(t) == IF a.whole THEN idm_fdisk_whole_disk(t, a)
                       ELSE IF a.n = 0 THEN Done(t) ELSE idm_fdisk_create_part_table(t, a)
           Told(t) == As("TI_E_FDISK_FAILED", Table(t))
           freed == Then(unmounted, Free)
<1>1. imm_create_fdisk_target(s, a) = Then(freed, Told)
  BY DEF imm_create_fdisk_target
<1>2. \A u \in unmounted : Grown(s, u.s)
  BY FreeingGrows, AnswersGrow
<1>3. ASSUME NEW t, Grown(s, t) PROVE \A u \in Free(t) : Grown(s, u.s)
  <2>1. \A u \in idm_release_swap(t, a.disk) : Grown(s, u.s)
    BY <1>3, FreeingGrows, GrownTwice DEF Grown, Kept
  <2> QED BY <2>1, AnswersGrow
<1>4. ASSUME NEW t, Grown(s, t) PROVE \A u \in Told(t) : Grown(s, u.s)
  <2>1. ASSUME NEW p, NEW err PROVE \A u \in Cmd("fdisk", t, [t EXCEPT !.parts = p], err) : Grown(s, u.s)
    <3> DEFINE d == [t EXCEPT !.parts = p]
    <3>1. Grown(s, d)
      BY <1>4, Changes, GrownTwice DEF Grown, Kept
    <3> HIDE DEF d
    <3>2. \A u \in Cmd("fdisk", t, d, err) : Grown(s, u.s)
      BY <1>4, <3>1, CommandGrows
    <3> QED BY <3>2 DEF d
  <2>2. \A u \in idm_fdisk_whole_disk(t, a) : Grown(s, u.s)
    BY <2>1 DEF idm_fdisk_whole_disk
  <2>3. \A u \in idm_fdisk_create_part_table(t, a) : Grown(s, u.s)
    <3> DEFINE listed == [i \in 1..a.n |-> [type |-> a.table[i].type, off |-> a.table[i].off, size |-> a.table[i].size]]
               new == IF a.keeps THEN idm_fill_preserved_partitions(t, a) ELSE listed
               m == {new[i] : i \in {j \in 1..a.n : a.used[j]}}
    <3>1. \A u \in idm_fdisk_create_part_table(t, a) :
            \/ u \in Done(t) \/ u = Out(t, "IDM_E_FDISK_PART_TABLE_FAILED")
            \/ u \in Cmd("fdisk", t, [t EXCEPT !.parts = m], "IDM_E_FDISK_PART_TABLE_FAILED")
      BY DEF idm_fdisk_create_part_table
    <3> HIDE DEF m
    <3>2. \A u \in Done(t) : Grown(s, u.s)
      BY <1>4, DoneGrows
    <3>3. Grown(s, Out(t, "IDM_E_FDISK_PART_TABLE_FAILED").s)
      BY <1>4 DEF Out
    <3> QED BY <2>1, <3>1, <3>2, <3>3
  <2>4. \A u \in Done(t) : Grown(s, u.s)
    BY <1>4, DoneGrows
  <2>5. \A u \in Table(t) : Grown(s, u.s)
    BY <2>2, <2>3, <2>4
  <2> HIDE DEF Table
  <2> QED BY <2>5, AnswersGrow
<1> HIDE DEF unmounted, Free, Told
<1>5. \A u \in freed : Grown(s, u.s)
  <2> SUFFICES ASSUME NEW u \in freed PROVE Grown(s, u.s)
    OBVIOUS
  <2>1. PICK w \in unmounted : u \in IF w.ret = "ok" THEN Free(w.s) ELSE {w}
    BY DEF Then
  <2> QED BY <1>2, <1>3, <2>1
<1> SUFFICES ASSUME NEW o \in Then(freed, Told) PROVE Grown(s, o.s)
  BY <1>1
<1> HIDE DEF freed
<1>6. PICK w \in freed : o \in IF w.ret = "ok" THEN Told(w.s) ELSE {w}
  BY DEF Then
<1> QED BY <1>4, <1>5, <1>6

(* Whatever is asked for, the slices written have starts and sizes.        *)
Roundable(v) ==
  /\ \A i \in SliceIds : DOMAIN v[i] = {"start", "size", "tag"} /\ v[i].start \in Nat /\ v[i].size \in Int
  /\ v[AllSlice].size \in Nat /\ v[BootSlice].size \in Nat

LEMMA RoundedIsTyped ==
  ASSUME NEW v, Roundable(v)
  PROVE  \A i \in SliceIds : idm_adjust_vtoc(v)[i].start \in Nat /\ idm_adjust_vtoc(v)[i].size \in Nat
<1>1. ASSUME NEW i \in SliceIds, v[i].size # 0
      PROVE  AdjustedSlice(v[i], v[BootSlice].size).start \in Nat /\ AdjustedSlice(v[i], v[BootSlice].size).size \in Nat
  <2> DEFINE floor == v[BootSlice].size
             start == RoundedStart(v[i].start)
             lost == IF start < floor THEN floor - start ELSE 0
             k == (v[i].size - lost) \div TiCyl
             w == AdjustedSlice(v[i], floor)
  <2>1. floor \in Nat /\ v[i].start \in Nat /\ v[i].size \in Int /\ DOMAIN v[i] = {"start", "size", "tag"}
    BY DEF Roundable
  <2>2. start \in Nat
    <3>1. v[i].start + TiCyl \div 2 \in Nat
      BY <2>1, Cylinders
    <3> QED BY <3>1, Cylinders DEF RoundedStart
  <2> HIDE DEF start, floor
  <2>3. lost \in Nat
    BY <2>1, <2>2
  <2> HIDE DEF lost
  <2>4. CASE v[i].size < lost
    <3>1. w = [v[i] EXCEPT !.start = 0, !.size = 0]
      BY <2>4 DEF AdjustedSlice, lost, start
    <3> HIDE DEF w
    <3>2. w.start = 0 /\ w.size = 0
      BY <2>1, <3>1
    <3> QED BY <3>2 DEF w, floor
  <2>5. CASE ~(v[i].size < lost)
    <3>1. w = [v[i] EXCEPT !.start = start + lost, !.size = k * TiCyl]
      BY <2>5 DEF AdjustedSlice, lost, start
    <3>2. v[i].size - lost \in Nat
      BY <2>1, <2>3, <2>5
    <3>3. k * TiCyl \in Nat
      BY <3>2, Cylinders
    <3> HIDE DEF w, k
    <3>4. w.start = start + lost /\ w.size = k * TiCyl
      BY <2>1, <3>1
    <3> QED BY <2>2, <2>3, <3>3, <3>4 DEF w, floor
  <2> QED BY <2>4, <2>5
<1>2. ASSUME NEW i \in SliceIds
      PROVE  idm_adjust_vtoc(v)[i] = IF i \in {AllSlice, BootSlice} \/ v[i].size = 0 THEN v[i]
                                     ELSE AdjustedSlice(v[i], v[BootSlice].size)
  BY DEF idm_adjust_vtoc
<1>3. ASSUME NEW i \in SliceIds
      PROVE  idm_adjust_vtoc(v)[i].start \in Nat /\ idm_adjust_vtoc(v)[i].size \in Nat
  <2>1. CASE i \in {AllSlice, BootSlice} \/ v[i].size = 0
    BY <1>2, <2>1 DEF Roundable
  <2>2. CASE ~(i \in {AllSlice, BootSlice} \/ v[i].size = 0)
    <3>1. idm_adjust_vtoc(v)[i] = AdjustedSlice(v[i], v[BootSlice].size)
      BY <1>2, <2>2
    <3> QED BY <1>1, <2>2, <3>1
  <2> QED BY <2>1, <2>2
<1> QED BY <1>3

LEMMA BaseIsRoundable ==
  /\ DOMAIN BaseVtoc = SliceIds
  /\ \A i \in SliceIds : DOMAIN BaseVtoc[i] = {"start", "size", "tag"} /\ BaseVtoc[i].start \in Nat /\ BaseVtoc[i].size \in Nat
<1>1. TiNCyl * TiCyl \in Nat /\ TiCyl \in Nat
  BY TiAssumption
<1>2. \A i \in SliceIds : BaseVtoc[i] \in {[start |-> 0, size |-> TiNCyl * TiCyl, tag |-> "backup"],
                                            [start |-> 0, size |-> TiCyl, tag |-> "boot"], NoSlice}
  BY DEF BaseVtoc
<1>3. ASSUME NEW i \in SliceIds
      PROVE DOMAIN BaseVtoc[i] = {"start", "size", "tag"} /\ BaseVtoc[i].start \in Nat /\ BaseVtoc[i].size \in Nat
  BY <1>1, <1>2 DEF NoSlice
<1> QED BY <1>3 DEF BaseVtoc

LEMMA DefaultIsRoundable ==
  ASSUME NEW s, IsMachine(s), NEW swap,
         ~(swap /\ idm_calc_swap_size(TiNCyl - FirstAvailable(s)) >= TiNCyl - FirstAvailable(s))
  PROVE  Roundable(DefaultVtoc(s, swap))
<1> DEFINE first == FirstAvailable(s)
           avail == TiNCyl - first
           sw == IF swap THEN idm_calc_swap_size(avail) ELSE 0
           v == DefaultVtoc(s, swap)
<1>1. first \in Nat
  <2> DEFINE alt == IF s.vtoc[AltSlice].size > 0 THEN s.vtoc[AltSlice].start + s.vtoc[AltSlice].size ELSE 0
  <2>1. alt \in Nat
    <3>1. AltSlice \in SliceIds
      BY DEF AltSlice, SliceIds
    <3> QED BY <3>1 DEF IsMachine, Typed
  <2>2. first = IF alt > 0 THEN (alt + TiCyl - 1) \div TiCyl ELSE 1
    BY DEF FirstAvailable
  <2> HIDE DEF alt, first
  <2>3. alt + TiCyl - 1 \in Nat
    BY <2>1, Cylinders
  <2> QED BY <2>2, <2>3, Cylinders
<1> HIDE DEF first
<1>2. avail \in Int
  BY <1>1, TiAssumption
<1> HIDE DEF avail
<1>3. sw \in Nat
  BY SwapSizeIsNat
<1> HIDE DEF sw
<1>4. v = [BaseVtoc EXCEPT
        ![1] = IF sw = 0 THEN NoSlice ELSE [start |-> first * TiCyl, size |-> sw * TiCyl, tag |-> "swap"],
        ![0] = [start |-> (first + sw) * TiCyl, size |-> (avail - sw) * TiCyl, tag |-> "root"]]
  BY DEF DefaultVtoc, sw, avail, first
<1> HIDE DEF v
<1>5. /\ v[1] = IF sw = 0 THEN NoSlice ELSE [start |-> first * TiCyl, size |-> sw * TiCyl, tag |-> "swap"]
      /\ v[0] = [start |-> (first + sw) * TiCyl, size |-> (avail - sw) * TiCyl, tag |-> "root"]
      /\ \A i \in SliceIds \ {0, 1} : v[i] = BaseVtoc[i]
  BY <1>4, BaseIsRoundable DEF SliceIds
<1>6. first * TiCyl \in Nat /\ sw * TiCyl \in Nat /\ (first + sw) * TiCyl \in Nat /\ (avail - sw) * TiCyl \in Int
  BY <1>1, <1>2, <1>3, TiAssumption
<1>7. \A i \in SliceIds : DOMAIN v[i] = {"start", "size", "tag"} /\ v[i].start \in Nat /\ v[i].size \in Int
  BY <1>5, <1>6, BaseIsRoundable DEF SliceIds, NoSlice
<1>8. AllSlice \in SliceIds \ {0, 1} /\ BootSlice \in SliceIds \ {0, 1}
  BY DEF AllSlice, BootSlice, SliceIds
<1> QED BY <1>5, <1>7, <1>8, BaseIsRoundable DEF Roundable, v

LEMMA ListedIsRoundable ==
  ASSUME NEW l, SlicesListed(l)
  PROVE  Roundable(ListedVtoc(l))
<1>1. \A i \in SliceIds : ListedVtoc(l)[i] = IF i \in DOMAIN l THEN l[i] ELSE BaseVtoc[i]
  BY DEF ListedVtoc
<1>2. AllSlice \in SliceIds /\ BootSlice \in SliceIds
  BY DEF AllSlice, BootSlice, SliceIds
<1>3. ASSUME NEW i \in SliceIds
      PROVE  /\ DOMAIN ListedVtoc(l)[i] = {"start", "size", "tag"}
             /\ ListedVtoc(l)[i].start \in Nat /\ ListedVtoc(l)[i].size \in Nat
  BY <1>1, BaseIsRoundable DEF SlicesListed
<1> QED BY <1>2, <1>3 DEF Roundable

LEMMA VtocGrows ==
  ASSUME NEW s, IsMachine(s), NEW a, ~a.default => SlicesListed(a.slices)
  PROVE  \A o \in imm_create_vtoc_target(s, a) : Grown(s, o.s)
<1> DEFINE v == IF a.default THEN DefaultVtoc(s, a.swap) ELSE ListedVtoc(a.slices)
           W == idm_adjust_vtoc(v)
           written == [s EXCEPT !.vtoc = W]
           swapped == [written EXCEPT !.swap = @ \cup {[disk |-> a.disk, part |-> "s1"]}]
           full == a.default /\ a.swap /\ idm_calc_swap_size(TiNCyl - FirstAvailable(s)) >= TiNCyl - FirstAvailable(s)
           Swap(w) == IF a.swap THEN Whatever(Cmd("swap", w, swapped, "failed")) ELSE Done(w)
<1>1. idm_create_vtoc(s, a) = IF full THEN {Out(s, "abort")} ELSE Then(Cmd("vtoc", s, written, "IDM_E_VTOC_FAILED"), Swap)
  BY DEF idm_create_vtoc
<1>2. ASSUME ~full PROVE Grown(s, written) /\ Grown(written, swapped)
  <2>1. Roundable(v)
    <3>1. CASE a.default
      <4>1. ~(a.swap /\ idm_calc_swap_size(TiNCyl - FirstAvailable(s)) >= TiNCyl - FirstAvailable(s))
        BY <1>2, <3>1
      <4> QED BY <3>1, <4>1, DefaultIsRoundable
    <3>2. CASE ~a.default
      BY <3>2, ListedIsRoundable
    <3> QED BY <3>1, <3>2
  <2> HIDE DEF v
  <2>2. \A i \in SliceIds : W[i].start \in Nat /\ W[i].size \in Nat
    BY <2>1, RoundedIsTyped
  <2> HIDE DEF W
  <2>3. Grown(s, written)
    BY <2>2 DEF Grown, Kept, IsMachine, Typed, TiFields, VolumesAreThere, NotForgotten
  <2> DEFINE d == [disk |-> a.disk, part |-> "s1"]
  <2> HIDE DEF written
  <2>4. d.part \notin {"swap", "dump"} /\ IsMachine(written)
    BY <2>3 DEF Grown, Kept
  <2> HIDE DEF d
  <2>5. Grown(written, [written EXCEPT !.swap = written.swap \cup {d}])
    BY <2>4, Changes
  <2> QED BY <2>3, <2>5 DEF d
<1> HIDE DEF written, swapped, full
<1>3. ASSUME ~full, NEW w, Grown(s, w) PROVE \A u \in Swap(w) : Grown(s, u.s)
  <2>1. \A u \in Cmd("swap", w, swapped, "failed") : Grown(s, u.s)
    BY <1>2, <1>3, GrownTwice, CommandGrows
  <2>2. \A u \in Whatever(Cmd("swap", w, swapped, "failed")) : Grown(s, u.s)
    BY <2>1, AnswersGrow
  <2>3. \A u \in Done(w) : Grown(s, u.s)
    BY <1>3, DoneGrows
  <2> QED BY <2>2, <2>3
<1> HIDE DEF Swap
<1>4. \A o \in idm_create_vtoc(s, a) : Grown(s, o.s)
  <2>1. CASE full
    BY <1>1, <2>1, Changes DEF Out
  <2>2. CASE ~full
    <3> SUFFICES ASSUME NEW o \in Then(Cmd("vtoc", s, written, "IDM_E_VTOC_FAILED"), Swap) PROVE Grown(s, o.s)
      BY <1>1, <2>2
    <3>1. PICK w \in Cmd("vtoc", s, written, "IDM_E_VTOC_FAILED") : o \in IF w.ret = "ok" THEN Swap(w.s) ELSE {w}
      BY DEF Then
    <3>2. Grown(s, w.s)
      BY <1>2, <2>2, Changes, CommandGrows
    <3> QED BY <1>3, <2>2, <3>1, <3>2
  <2> QED BY <2>1, <2>2
<1> QED BY <1>4, AnswersGrow DEF imm_create_vtoc_target

LEMMA KeptTwice ==
  ASSUME NEW r, NEW s, NEW t, Kept(r, s), Kept(s, t)
  PROVE  Kept(r, t)
BY DEF Kept

LEMMA DestroyKeeps ==
  ASSUME NEW s, IsMachine(s), NEW pool, NEW err
  PROVE  \A o \in DestroyPool(s, pool, err) : Kept(s, o.s)
<1> DEFINE t == [s EXCEPT !.pools = @ \ {pool}, !.busy = @ \ {pool}, !.datasets = {d \in @ : d.pool # pool}]
<1>1. Kept(s, s)
  BY DEF Kept
<1>2. CASE pool \notin s.pools \/ Uses(s, pool) # {}
  BY <1>1, <1>2 DEF DestroyPool, Out
<1>3. CASE ~(pool \notin s.pools \/ Uses(s, pool) # {})
  <2>1. \A d \in s.swap \cup {s.dump} : d.disk # pool
    BY <1>3 DEF Uses
  <2>2. /\ DOMAIN t = TiFields /\ t = [x \in DOMAIN t |-> t[x]] /\ t.pools = s.pools \ {pool} /\ t.busy = s.busy \ {pool}
        /\ t.datasets = {d \in s.datasets : d.pool # pool} /\ t.swap = s.swap /\ t.dump = s.dump
        /\ t.mounted = s.mounted /\ t.vtoc = s.vtoc /\ t.progress = s.progress
        /\ t.lofi = s.lofi /\ t.file = s.file /\ t.dir = s.dir /\ t.rmounted = s.rmounted
    BY DEF IsMachine, Typed, TiFields
  <2> HIDE DEF t
  <2>3. Typed(t)
    BY <2>2 DEF IsMachine, Typed
  <2>4. VolumesAreThere(t) /\ NotForgotten(t)
    BY <2>1, <2>2 DEF IsMachine, VolumesAreThere, NotForgotten
  <2>5. Kept(s, t)
    BY <2>2, <2>3, <2>4 DEF Kept, IsMachine
  <2>6. \A o \in Cmd("destroy", s, t, err) : o.s = s \/ o.s = t
    BY DEF Cmd, Done, Out
  <2>7. DestroyPool(s, pool, err) = Cmd("destroy", s, t, err)
    BY <1>3 DEF DestroyPool, t
  <2> QED BY <1>1, <2>5, <2>6, <2>7
<1> QED BY <1>2, <1>3

(* A pool that was made is there.                                          *)
LEMMA PoolMade ==
  ASSUME NEW s, IsMachine(s), NEW a, NEW o \in imm_create_zfs_rpool_target(s, a)
  PROVE  Kept(s, o.s) /\ (o.ret = "ok" /\ a.device => a.pool \in o.s.pools)
<1> DEFINE E == "ZFM_E_ZFS_POOL_CREATE_FAILED"
           gone == IF zfm_zpool_exists(s, a.pool) THEN DestroyPool(s, a.pool, E) ELSE Done(s)
           MadeNew(w) == Cmd("create", w, [w EXCEPT !.pools = @ \cup {a.pool}], E)
           Menu(w) == Cmd("mkdir", w, w, E)
           Busy(w) == Cmd("set", w, [w EXCEPT !.busy = @ \cup {a.pool}], E)
           made == Then(gone, MadeNew)
           menu == Then(made, Menu)
           With_(w) == Kept(s, w.s) /\ (w.ret = "ok" => a.pool \in w.s.pools)
<1>1. zfm_create_pool(s, a) = IF ~a.device \/ (zfm_zpool_exists(s, a.pool) /\ a.keep) THEN Done(s) ELSE Then(menu, Busy)
  BY DEF zfm_create_pool
<1>2. Kept(s, s)
  BY DEF Kept
<1>3. \A w \in gone : Kept(s, w.s)
  BY <1>2, DestroyKeeps DEF Done, Out
<1>4. ASSUME NEW w, Kept(s, w) PROVE \A u \in MadeNew(w) : With_(u)
  <2> DEFINE t == [w EXCEPT !.pools = @ \cup {a.pool}]
  <2>1. Kept(s, t) /\ a.pool \in t.pools
    BY <1>4 DEF Kept, IsMachine, Typed, TiFields, VolumesAreThere, NotForgotten
  <2> HIDE DEF t
  <2>2. \A u \in Cmd("create", w, t, E) : u.s = t \/ (u.s = w /\ u.ret = E)
    BY DEF Cmd, Done, Out
  <2> QED BY <1>4, <2>1, <2>2 DEF t
<1>5. ASSUME NEW w, Kept(s, w), a.pool \in w.pools PROVE \A u \in Menu(w) : With_(u)
  BY <1>5 DEF Cmd, Done, Out
<1>6. ASSUME NEW w, Kept(s, w), a.pool \in w.pools PROVE \A u \in Busy(w) : With_(u)
  <2> DEFINE t == [w EXCEPT !.busy = @ \cup {a.pool}]
  <2>1. Kept(s, t) /\ a.pool \in t.pools
    BY <1>6 DEF Kept, IsMachine, Typed, TiFields, VolumesAreThere, NotForgotten
  <2> HIDE DEF t
  <2>2. \A u \in Cmd("set", w, t, E) : u.s = t \/ u.s = w
    BY DEF Cmd, Done, Out
  <2> QED BY <1>6, <2>1, <2>2 DEF t
<1> HIDE DEF gone, MadeNew, Menu, Busy
<1>7. ASSUME NEW u \in made PROVE With_(u)
  <2>1. PICK w \in gone : u \in IF w.ret = "ok" THEN MadeNew(w.s) ELSE {w}
    BY <1>7 DEF Then
  <2> QED BY <1>3, <1>4, <2>1
<1> HIDE DEF made
<1>8. ASSUME NEW u \in menu PROVE With_(u)
  <2>1. PICK w \in made : u \in IF w.ret = "ok" THEN Menu(w.s) ELSE {w}
    BY <1>8 DEF Then
  <2> QED BY <1>5, <1>7, <2>1
<1> HIDE DEF menu
<1>9. ASSUME NEW u \in Then(menu, Busy) PROVE With_(u)
  <2>1. PICK w \in menu : u \in IF w.ret = "ok" THEN Busy(w.s) ELSE {w}
    BY <1>9 DEF Then
  <2> QED BY <1>6, <1>8, <2>1
<1>10. ASSUME NEW u \in zfm_create_pool(s, a)
       PROVE  Kept(s, u.s) /\ (u.ret = "ok" /\ a.device => a.pool \in u.s.pools)
  <2>1. CASE ~a.device \/ (zfm_zpool_exists(s, a.pool) /\ a.keep)
    <3>1. u.s = s
      BY <1>1, <1>10, <2>1 DEF Done, Out
    <3> QED BY <1>2, <2>1, <3>1 DEF zfm_zpool_exists
  <2>2. CASE ~(~a.device \/ (zfm_zpool_exists(s, a.pool) /\ a.keep))
    BY <1>1, <1>9, <1>10, <2>2
  <2> QED BY <2>1, <2>2
<1>11. PICK u \in zfm_create_pool(s, a) : o = IF u.ret \in {"ok", "abort"} THEN u ELSE Out(u.s, "TI_E_ZFS_FAILED")
  BY DEF imm_create_zfs_rpool_target, As
<1> QED BY <1>10, <1>11 DEF Out

(* A dump is never to a volume for swap, wherever dumpadm moves it.        *)
LEMMA DumpMoves ==
  ASSUME NEW s, IsMachine(s)
  PROVE  \A o \in dumpadm_swap(s) : Kept(s, o.s)
<1>1. ASSUME NEW d \in {NoDump} \cup {e \in s.swap : e.disk \notin s.pools} PROVE Kept(s, [s EXCEPT !.dump = d])
  <2>1. d.part \notin {"swap", "dump"}
    BY DEF NoDump, IsMachine, VolumesAreThere
  <2> QED BY <2>1, Changes DEF Grown
<1>2. ASSUME NEW o \in dumpadm_swap(s) PROVE Kept(s, o.s)
  <2>1. o = Out(s, "ok") \/ \E d \in {NoDump} \cup {e \in s.swap : e.disk \notin s.pools} : o = Out([s EXCEPT !.dump = d], "ok")
    BY <1>2 DEF dumpadm_swap, Done
  <2>2. CASE o = Out(s, "ok")
    BY <2>2 DEF Out, Kept
  <2>3. CASE \E d \in {NoDump} \cup {e \in s.swap : e.disk \notin s.pools} : o = Out([s EXCEPT !.dump = d], "ok")
    <3> PICK d \in {NoDump} \cup {e \in s.swap : e.disk \notin s.pools} : o = Out([s EXCEPT !.dump = d], "ok")
      BY <2>3
    <3>1. o.s = [s EXCEPT !.dump = d]
      BY DEF Out
    <3> QED BY <1>1, <3>1
  <2> QED BY <2>1, <2>2, <2>3
<1> QED BY <1>2

LEMMA PoolReleased ==
  ASSUME NEW s, IsMachine(s), NEW a, NEW o \in imm_release_zfs_rpool_target(s, a)
  PROVE  Kept(s, o.s)
<1> DEFINE E == "ZFM_E_ZFS_POOL_RELEASE_FAILED"
           dumped == IF s.dump = Zvol(a.pool, "dump") THEN dumpadm_swap(s) ELSE Done(s)
           Swapped(w) == IF w.dump = Zvol(a.pool, "dump") THEN {Out(w, E)} ELSE idm_release_swap(w, a.pool)
           Gone(w) == DestroyPool(w, a.pool, E)
           swapped == Then(dumped, Swapped)
<1>1. zfm_release_pool(s, a) = Then(swapped, Gone)
  BY DEF zfm_release_pool
<1>2. \A u \in dumped : Kept(s, u.s)
  BY DumpMoves DEF Done, Out, Kept
<1>3. ASSUME NEW w, Kept(s, w) PROVE \A u \in Swapped(w) : Kept(s, u.s)
  <2>1. \A u \in idm_release_swap(w, a.pool) : Kept(s, u.s)
    BY <1>3, FreeingGrows, KeptTwice DEF Grown, Kept
  <2> QED BY <1>3, <2>1 DEF Out
<1>4. ASSUME NEW w, Kept(s, w) PROVE \A u \in Gone(w) : Kept(s, u.s)
  BY <1>4, DestroyKeeps, KeptTwice DEF Kept
<1> HIDE DEF dumped, Swapped, Gone
<1>5. ASSUME NEW u \in swapped PROVE Kept(s, u.s)
  <2>1. PICK w \in dumped : u \in IF w.ret = "ok" THEN Swapped(w.s) ELSE {w}
    BY <1>5 DEF Then
  <2> QED BY <1>2, <1>3, <2>1
<1> HIDE DEF swapped
<1>6. ASSUME NEW u \in Then(swapped, Gone) PROVE Kept(s, u.s)
  <2>1. PICK w \in swapped : u \in IF w.ret = "ok" THEN Gone(w.s) ELSE {w}
    BY <1>6 DEF Then
  <2> QED BY <1>4, <1>5, <2>1
<1>7. PICK u \in zfm_release_pool(s, a) : o = IF u.ret \in {"ok", "abort"} THEN u ELSE Out(u.s, "TI_E_ZFS_FAILED")
  BY DEF imm_release_zfs_rpool_target, As
<1> QED BY <1>1, <1>6, <1>7 DEF Out

(* When every command works: the dump ends, then the swapping, and the     *)
(* pool, which nothing uses any more, is destroyed.                        *)
LEMMA ReleaseWorks ==
  ASSUME NEW s, IsMachine(s), NEW a, a.type = "ZFS_RPOOL", a.pool # "none", <<a.pool, a.pool>> \in Begins,
         Releasable(s, a.pool)
  PROVE  \E o \in ti_release_target(s, a) : o.ret = "ok" /\ a.pool \notin o.s.pools
<1> DEFINE E == "ZFM_E_ZFS_POOL_RELEASE_FAILED"
           pool == a.pool
           dumped == IF s.dump = Zvol(pool, "dump") THEN dumpadm_swap(s) ELSE Done(s)
           Swapped(w) == IF w.dump = Zvol(pool, "dump") THEN {Out(w, E)} ELSE idm_release_swap(w, pool)
           Gone(w) == DestroyPool(w, pool, E)
           swapped == Then(dumped, Swapped)
           w1 == IF s.dump = Zvol(pool, "dump") THEN [s EXCEPT !.dump = NoDump] ELSE s
           mine == {d \in w1.swap : <<pool, d.disk>> \in Begins}
           w2 == [w1 EXCEPT !.swap = @ \ mine]
           w3 == [w2 EXCEPT !.pools = @ \ {pool}, !.busy = @ \ {pool}, !.datasets = {d \in @ : d.pool # pool}]
<1>1. /\ DOMAIN w1 = TiFields /\ w1.swap = s.swap /\ w1.pools = s.pools
      /\ w1.dump = IF s.dump = Zvol(pool, "dump") THEN NoDump ELSE s.dump
  BY DEF IsMachine, Typed, TiFields
<1>2. Out(w1, "ok") \in dumped
  <2>1. CASE s.dump = Zvol(pool, "dump")
    <3>1. w1 = [s EXCEPT !.dump = NoDump]
      BY <2>1
    <3> HIDE DEF w1
    <3> QED BY <2>1, <3>1 DEF dumpadm_swap
  <2>2. CASE s.dump # Zvol(pool, "dump")
    BY <2>2 DEF Done
  <2> QED BY <2>1, <2>2
<1> HIDE DEF w1
<1>3. w1.dump # Zvol(pool, "dump")
  <2>1. NoDump.disk # Zvol(pool, "dump").disk
    BY DEF NoDump, Zvol
  <2> QED BY <1>1, <2>1
<1>4. Out(w2, "ok") \in Swapped(w1)
  BY <1>3 DEF idm_release_swap, Done
<1>5. DOMAIN w2 = TiFields /\ w2.pools = s.pools /\ w2.dump = w1.dump /\ w2.swap = w1.swap \ mine
  <2> HIDE DEF mine
  <2> QED BY <1>1 DEF TiFields
<1> HIDE DEF w2
<1>6. Uses(w2, pool) = {}
  <2>1. ASSUME NEW d \in w2.swap, d.disk = pool PROVE FALSE
    BY <1>5, <2>1
  <2>2. w2.dump.disk # pool
    <3>1. CASE s.dump = Zvol(pool, "dump")
      BY <1>1, <1>5, <3>1 DEF NoDump
    <3>2. CASE s.dump # Zvol(pool, "dump") /\ s.dump.disk = pool
      <4>1. s.dump \in Uses(s, pool)
        BY <3>2 DEF Uses
      <4>2. s.dump = Zvol(pool, "swap")
        BY <3>2, <4>1 DEF Releasable
      <4>3. s.dump.part # "swap"
        BY DEF IsMachine, VolumesAreThere
      <4> QED BY <4>2, <4>3 DEF Zvol
    <3>3. CASE s.dump # Zvol(pool, "dump") /\ s.dump.disk # pool
      BY <1>1, <1>5, <3>3
    <3> QED BY <3>1, <3>2, <3>3
  <2> QED BY <2>1, <2>2 DEF Uses
<1>7. pool \in w2.pools
  BY <1>5 DEF Releasable
<1>8. Out(w3, "ok") \in Gone(w2)
  <2>1. Gone(w2) = Cmd("destroy", w2, w3, E)
    BY <1>6, <1>7 DEF DestroyPool
  <2> HIDE DEF w3
  <2> QED BY <2>1 DEF Cmd, Done
<1>9. pool \notin w3.pools
  BY <1>5 DEF TiFields
<1> HIDE DEF dumped, Swapped, Gone, w3, mine
<1>10. zfm_release_pool(s, a) = Then(swapped, Gone)
  BY DEF zfm_release_pool, dumped, Swapped, Gone
<1>11. ASSUME NEW w PROVE Out(w, "ok").ret = "ok" /\ Out(w, "ok").s = w
  BY DEF Out
<1>12. Out(w2, "ok") \in swapped
  BY <1>2, <1>4, <1>11 DEF Then
<1> HIDE DEF swapped
<1>13. Out(w3, "ok") \in zfm_release_pool(s, a)
  BY <1>8, <1>10, <1>11, <1>12 DEF Then
<1>14. Out(w3, "ok") \in imm_release_zfs_rpool_target(s, a)
  BY <1>11, <1>13 DEF imm_release_zfs_rpool_target, As
<1>15. ti_release_target(s, a) = imm_release_zfs_rpool_target(s, a)
  BY DEF ti_release_target
<1> QED BY <1>9, <1>11, <1>14, <1>15

-----------------------------------------------------------------------------
(* A command for each element of a sequence.                               *)
IsEach(g, n, base, step) ==
  g = [q \in SUBSET (1..n) |->
         IF q = {} THEN base
         ELSE UNION {IF o.ret = "ok" THEN step[<<o.s, Max(q)>>] ELSE {o} : o \in g[q \ {Max(q)}]}]

LEMMA EachExists ==
  ASSUME NEW n \in Nat, NEW O, NEW M, \A o \in O : o.s \in M, NEW base \in SUBSET O,
         NEW step \in [M \X (1..n) -> SUBSET O]
  PROVE  \E g \in [SUBSET (1..n) -> SUBSET O] : IsEach(g, n, base, step)
<1> DEFINE Next(outs, k) == UNION {IF o.ret = "ok" THEN step[<<o.s, k>>] ELSE {o} : o \in outs}
           next == [p \in (SUBSET O) \X (1..n) |-> Next(p[1], p[2])]
<1>1. ASSUME NEW outs \in SUBSET O, NEW k \in 1..n PROVE Next(outs, k) \in SUBSET O
  <2>1. \A o \in outs : <<o.s, k>> \in M \X (1..n)
    OBVIOUS
  <2>2. \A o \in outs : step[<<o.s, k>>] \in SUBSET O
    BY <2>1
  <2> QED BY <2>2
<1> HIDE DEF Next
<1>2. next \in [(SUBSET O) \X (1..n) -> SUBSET O]
  BY <1>1
<1>3. \A outs \in SUBSET O, k \in 1..n : next[<<outs, k>>] = Next(outs, k)
  OBVIOUS
<1> HIDE DEF next
<1>4. PICK g \in [SUBSET (1..n) -> SUBSET O] : IsFold(g, n, base, next)
  BY <1>2, FoldExistsIn
<1>5. \A q \in SUBSET (1..n) : q # {} => Max(q) \in q
  BY MaxOf
<1>6. \A q \in SUBSET (1..n) : q # {} => next[<<g[q \ {Max(q)}], Max(q)>>] = Next(g[q \ {Max(q)}], Max(q))
  BY <1>3, <1>5
<1>7. g = [q \in SUBSET (1..n) |-> IF q = {} THEN base ELSE Next(g[q \ {Max(q)}], Max(q))]
  BY <1>4, <1>6 DEF IsFold
<1>8. IsEach(g, n, base, step)
  BY <1>7 DEF IsEach, Next
<1> QED BY <1>8

LEMMA EachEnds ==
  ASSUME NEW n \in Nat, NEW f, NEW P, f[{}] \subseteq P[0],
         \A k \in 1..n : f[1..(k - 1)] \subseteq P[k - 1] => f[1..k] \subseteq P[k]
  PROVE  f[1..n] \subseteq P[n]
<1> DEFINE S == {m \in Nat : m <= n => f[1..m] \subseteq P[m]}
<1>1. 0 \in S
  <2>1. 1..0 = {}
    OBVIOUS
  <2> QED BY <2>1
<1>2. ASSUME NEW m \in Nat, m \in S PROVE m + 1 \in S
  <2>1. CASE m + 1 <= n
    <3>1. m + 1 \in 1..n /\ (m + 1) - 1 = m /\ m <= n
      BY <2>1
    <3>2. f[1..m] \subseteq P[m]
      BY <1>2, <3>1
    <3>3. f[1..((m + 1) - 1)] \subseteq P[(m + 1) - 1]
      BY <3>1, <3>2
    <3>4. f[1..(m + 1)] \subseteq P[m + 1]
      BY <3>1, <3>3
    <3> QED BY <3>4
  <2>2. CASE ~ (m + 1 <= n)
    BY <2>2
  <2> QED BY <2>1, <2>2
<1>3. n \in S
  <2> HIDE DEF S
  <2> QED BY <1>1, <1>2, Induction
<1> QED BY <1>3

(* The machines that making volumes and mounting them leads to.            *)
Nearby(s, pool) ==
  {[s EXCEPT !.datasets = d, !.swap = w, !.dump = u, !.bemounted = b] :
     d \in SUBSET (s.datasets \cup {Dataset(pool, x) : x \in STRING}),
     w \in SUBSET (s.swap \cup {Zvol(pool, x) : x \in STRING}),
     u \in {s.dump} \cup {Zvol(pool, x) : x \in STRING},
     b \in SUBSET (s.bemounted \cup STRING)}

LEMMA NearbyIsClosed ==
  ASSUME NEW s, IsMachine(s), NEW pool
  PROVE  /\ s \in Nearby(s, pool)
         /\ \A t \in Nearby(s, pool), x \in STRING :
              /\ [t EXCEPT !.datasets = t.datasets \cup {Dataset(pool, x)}] \in Nearby(s, pool)
              /\ [t EXCEPT !.swap = t.swap \cup {Zvol(pool, x)}] \in Nearby(s, pool)
              /\ [t EXCEPT !.dump = Zvol(pool, x)] \in Nearby(s, pool)
              /\ [t EXCEPT !.bemounted = t.bemounted \cup {x}] \in Nearby(s, pool)
<1> DEFINE D == SUBSET (s.datasets \cup {Dataset(pool, x) : x \in STRING})
           W == SUBSET (s.swap \cup {Zvol(pool, x) : x \in STRING})
           U_ == {s.dump} \cup {Zvol(pool, x) : x \in STRING}
           B == SUBSET (s.bemounted \cup STRING)
           At(d, w, u, b) == [s EXCEPT !.datasets = d, !.swap = w, !.dump = u, !.bemounted = b]
<1>0. DOMAIN s = TiFields /\ s = [x \in TiFields |-> s[x]]
  BY DEF IsMachine, Typed
<1>1. Nearby(s, pool) = {At(d, w, u, b) : d \in D, w \in W, u \in U_, b \in B}
  BY DEF Nearby
<1>2. s = At(s.datasets, s.swap, s.dump, s.bemounted)
  BY <1>0
<1>3. s.datasets \in D /\ s.swap \in W /\ s.dump \in U_ /\ s.bemounted \in B
  OBVIOUS
<1>4. ASSUME NEW d, NEW w, NEW u, NEW b
      PROVE  /\ At(d, w, u, b).datasets = d /\ At(d, w, u, b).swap = w
             /\ At(d, w, u, b).dump = u /\ At(d, w, u, b).bemounted = b
             /\ \A y : [At(d, w, u, b) EXCEPT !.datasets = y] = At(y, w, u, b)
             /\ \A y : [At(d, w, u, b) EXCEPT !.swap = y] = At(d, y, u, b)
             /\ \A y : [At(d, w, u, b) EXCEPT !.dump = y] = At(d, w, y, b)
             /\ \A y : [At(d, w, u, b) EXCEPT !.bemounted = y] = At(d, w, u, y)
  BY <1>0 DEF TiFields
<1> HIDE DEF At
<1>6. \A d \in D, w \in W, u \in U_, b \in B : At(d, w, u, b) \in Nearby(s, pool)
  BY <1>1
<1>7. s \in Nearby(s, pool)
  BY <1>2, <1>3, <1>6
<1> HIDE DEF D, W, U_, B
<1>5. ASSUME NEW t \in Nearby(s, pool), NEW x \in STRING
      PROVE  /\ [t EXCEPT !.datasets = t.datasets \cup {Dataset(pool, x)}] \in Nearby(s, pool)
             /\ [t EXCEPT !.swap = t.swap \cup {Zvol(pool, x)}] \in Nearby(s, pool)
             /\ [t EXCEPT !.dump = Zvol(pool, x)] \in Nearby(s, pool)
             /\ [t EXCEPT !.bemounted = t.bemounted \cup {x}] \in Nearby(s, pool)
  <2>1. PICK d \in D, w \in W, u \in U_, b \in B : t = At(d, w, u, b)
    BY <1>1
  <2>2. d \cup {Dataset(pool, x)} \in D /\ w \cup {Zvol(pool, x)} \in W /\ Zvol(pool, x) \in U_ /\ b \cup {x} \in B
    BY DEF D, W, U_, B
  <2>3. /\ [t EXCEPT !.datasets = t.datasets \cup {Dataset(pool, x)}] = At(d \cup {Dataset(pool, x)}, w, u, b)
        /\ [t EXCEPT !.swap = t.swap \cup {Zvol(pool, x)}] = At(d, w \cup {Zvol(pool, x)}, u, b)
        /\ [t EXCEPT !.dump = Zvol(pool, x)] = At(d, w, Zvol(pool, x), b)
        /\ [t EXCEPT !.bemounted = t.bemounted \cup {x}] = At(d, w, u, b \cup {x})
    <3>1. t.datasets = d /\ t.swap = w /\ t.bemounted = b
      BY <1>4, <2>1
    <3>2. ASSUME NEW y
          PROVE  /\ [t EXCEPT !.datasets = y] = At(y, w, u, b) /\ [t EXCEPT !.swap = y] = At(d, y, u, b)
                 /\ [t EXCEPT !.dump = y] = At(d, w, y, b) /\ [t EXCEPT !.bemounted = y] = At(d, w, u, y)
      BY <1>4, <2>1
    <3> QED BY <3>1, <3>2
  <2> QED BY <1>6, <2>1, <2>2, <2>3
<1> QED BY <1>5, <1>7

-----------------------------------------------------------------------------
(* File systems and volumes, one command after the other.                  *)

Codes ==
  {"ok", "ZFM_E_ZFS_FS_CREATE_FAILED", "ZFM_E_ZFS_SET_PROP_FAILED", "ZFM_E_ZFS_VOL_CREATE_FAILED",
   "IBEM_E_BE_MOUNT_FAILED"}

Answered(o) == o = Out(o.s, o.ret) /\ o.ret \in Codes

LEMMA DatasetMade ==
  ASSUME NEW w, NEW a, NEW x, NEW o \in MadeDataset(w, a, x)
  PROVE  /\ o.s = w \/ o.s = [w EXCEPT !.datasets = w.datasets \cup {Dataset(a.pool, x)}]
         /\ o.ret = "ok" => o.s = [w EXCEPT !.datasets = w.datasets \cup {Dataset(a.pool, x)}]
         /\ Answered(o)
<1> DEFINE d == [w EXCEPT !.datasets = w.datasets \cup {Dataset(a.pool, x)}]
           first == Cmd("zfs", w, d, "ZFM_E_ZFS_FS_CREATE_FAILED")
<1> SUFFICES /\ o.s = w \/ o.s = d
             /\ o.ret = "ok" => o.s = d
             /\ Answered(o)
  OBVIOUS
<1>1. MadeDataset(w, a, x) = Then(first, zfm_set_dataset_properties)
  BY DEF MadeDataset
<1> HIDE DEF d
<1>2. \A u \in first : u = Out(d, "ok") \/ u = Out(w, "ZFM_E_ZFS_FS_CREATE_FAILED")
  BY DEF Cmd, Done
<1> HIDE DEF first
<1>3. PICK u \in first : o \in IF u.ret = "ok" THEN zfm_set_dataset_properties(u.s) ELSE {u}
  BY <1>1 DEF Then
<1>6. ASSUME NEW t, NEW r
      PROVE  /\ Out(t, r).s = t /\ Out(t, r).ret = r
  BY DEF Out
<1>4. CASE u = Out(d, "ok")
  <2>1. u.ret = "ok" /\ u.s = d
    BY <1>4 DEF Out
  <2>2. o \in Cmd("set", d, d, "ZFM_E_ZFS_SET_PROP_FAILED")
    BY <1>3, <2>1 DEF zfm_set_dataset_properties
  <2>3. o = Out(d, "ok") \/ o = Out(d, "ZFM_E_ZFS_SET_PROP_FAILED")
    BY <2>2 DEF Cmd, Done
  <2>4. "ok" \in Codes /\ "ZFM_E_ZFS_SET_PROP_FAILED" \in Codes /\ "ok" # "ZFM_E_ZFS_SET_PROP_FAILED"
    BY DEF Codes
  <2> QED BY <2>3, <2>4, <1>6 DEF Answered
<1>5. CASE u = Out(w, "ZFM_E_ZFS_FS_CREATE_FAILED")
  <2>1. u.ret # "ok"
    BY <1>5 DEF Out
  <2>2. o = Out(w, "ZFM_E_ZFS_FS_CREATE_FAILED")
    BY <1>3, <1>5, <2>1
  <2>3. "ZFM_E_ZFS_FS_CREATE_FAILED" \in Codes /\ "ok" # "ZFM_E_ZFS_FS_CREATE_FAILED"
    BY DEF Codes
  <2> QED BY <2>2, <2>3, <1>6 DEF Answered
<1> QED BY <1>2, <1>4, <1>5

LEMMA NamesOf ==
  ASSUME NEW l \in Seq(STRING)
  PROVE  Len(l) \in Nat /\ DOMAIN l = 1..Len(l) /\ \A k \in 1..Len(l) : l[k] \in STRING
OBVIOUS

(* Commands for one after the other: each keeps what the ones before made. *)
EachRuns(s, n, M, O, step, made, f) ==
  /\ \A o \in O : o.s \in M
  /\ step \in [M \X (1..n) -> SUBSET O]
  /\ \A k \in 1..n : \A o \in O : Grown(s, o.s) => \A u \in step[<<o.s, k>>] :
        Grown(o.s, u.s) /\ (u.ret = "ok" => made[k] \subseteq u.s.datasets)
  /\ f[{}] = Done(s) /\ Done(s) \subseteq O
  /\ \A k \in 1..n : f[1..(k - 1)] \subseteq O =>
        f[1..k] = UNION {IF o.ret = "ok" THEN step[<<o.s, k>>] ELSE {o} : o \in f[1..(k - 1)]}
LEMMA EachGrows ==
  ASSUME NEW s, IsMachine(s), NEW n \in Nat, NEW M, NEW O, NEW step, NEW made, NEW f,
         EachRuns(s, n, M, O, step, made, f)
  PROVE  \A o \in f[1..n] : Grown(s, o.s) /\ (o.ret = "ok" => \A j \in 1..n : made[j] \subseteq o.s.datasets)
<1> DEFINE Right(o, k) == Grown(s, o.s) /\ (o.ret = "ok" => \A j \in 1..k : made[j] \subseteq o.s.datasets)
           P == [k \in 0..n |-> {o \in O : Right(o, k)}]
<1>0. /\ \A o \in O : o.s \in M
      /\ step \in [M \X (1..n) -> SUBSET O]
      /\ \A k \in 1..n : \A o \in O : Grown(s, o.s) => \A u \in step[<<o.s, k>>] :
            Grown(o.s, u.s) /\ (u.ret = "ok" => made[k] \subseteq u.s.datasets)
      /\ f[{}] = Done(s) /\ Done(s) \subseteq O
      /\ \A k \in 1..n : f[1..(k - 1)] \subseteq O =>
            f[1..k] = UNION {IF o.ret = "ok" THEN step[<<o.s, k>>] ELSE {o} : o \in f[1..(k - 1)]}
  BY DEF EachRuns
<1>1. f[{}] \subseteq P[0]
  <2>1. 1..0 = {} /\ 0 \in 0..n
    OBVIOUS
  <2>2. Out(s, "ok").s = s /\ Out(s, "ok") \in O
    BY <1>0 DEF Out, Done
  <2>3. Right(Out(s, "ok"), 0)
    BY <2>1, <2>2, Changes
  <2> HIDE DEF Right
  <2> QED BY <1>0, <2>1, <2>2, <2>3 DEF Done
<1>2. ASSUME NEW k \in 1..n, f[1..(k - 1)] \subseteq P[k - 1] PROVE f[1..k] \subseteq P[k]
  <2>1. k \in 0..n /\ k - 1 \in 0..n /\ \A j \in 1..k : j \in 1..(k - 1) \/ j = k
    OBVIOUS
  <2>2. \A o \in f[1..(k - 1)] : o \in O /\ Right(o, k - 1)
    <3> HIDE DEF Right
    <3> QED BY <1>2, <2>1
  <2> HIDE DEF P
  <2>3. f[1..k] = UNION {IF o.ret = "ok" THEN step[<<o.s, k>>] ELSE {o} : o \in f[1..(k - 1)]}
    BY <1>0, <2>2
  <2> SUFFICES ASSUME NEW u \in f[1..k] PROVE u \in O /\ Right(u, k)
    <3> HIDE DEF Right
    <3> QED BY <2>1 DEF P
  <2>4. PICK o \in f[1..(k - 1)] : u \in IF o.ret = "ok" THEN step[<<o.s, k>>] ELSE {o}
    BY <2>3
  <2>5. o \in O /\ Right(o, k - 1)
    BY <2>2
  <2>6. CASE o.ret # "ok"
    BY <2>4, <2>5, <2>6
  <2>7. CASE o.ret = "ok"
    <3>1. u \in step[<<o.s, k>>] /\ <<o.s, k>> \in M \X (1..n)
      BY <1>0, <2>4, <2>5, <2>7
    <3>2. u \in O
      BY <1>0, <3>1
    <3>3. Grown(o.s, u.s) /\ (u.ret = "ok" => made[k] \subseteq u.s.datasets)
      BY <1>0, <2>5, <3>1
    <3>4. Grown(s, u.s)
      BY <2>5, <3>3, GrownTwice
    <3>5. o.s.datasets \subseteq u.s.datasets
      BY <3>3 DEF Grown
    <3> QED BY <2>1, <2>5, <2>7, <3>2, <3>3, <3>4, <3>5
  <2> QED BY <2>6, <2>7
<1> HIDE DEF P
<1>3. f[1..n] \subseteq P[n]
  BY <1>1, <1>2, EachEnds
<1>4. n \in 0..n
  OBVIOUS
<1> HIDE DEF Right
<1> QED BY <1>3, <1>4 DEF P, Right

(* File systems: all that were asked for are there, or the call failed.    *)
LEMMA FsGrows ==
  ASSUME NEW s, IsMachine(s), NEW a, a.names \in Seq(STRING), NEW out \in zfm_create_fs(s, a)
  PROVE  /\ Grown(s, out.s)
         /\ out.ret = "ok" => \A k \in 1..Len(a.names) : Dataset(a.pool, a.names[k]) \in out.s.datasets
<1> DEFINE names == a.names
           pool == a.pool
           n == Len(names)
           M == Nearby(s, pool)
<1>1. n \in Nat /\ DOMAIN names = 1..n /\ \A k \in 1..n : names[k] \in STRING
  BY NamesOf
<1>2. s \in M
  BY NearbyIsClosed
<1> DEFINE O == [s : M, ret : Codes]
           One(w, x) == IF zfm_dataset_exists(w, a.pool, x) THEN Done(w) ELSE MadeDataset(w, a, x)
           Step(outs, x) == UNION {IF o.ret = "ok" THEN One(o.s, x) ELSE {o} : o \in outs}
           Fold(g) == g = [q \in SUBSET (DOMAIN names) |->
                             IF q = {} THEN Done(s) ELSE Step(g[q \ {Max(q)}], names[Max(q)])]
           f == CHOOSE g : Fold(g)
           step == [p \in M \X (1..n) |-> One(p[1], names[p[2]])]
           made == [k \in 1..n |-> {Dataset(pool, names[k])}]
<1>3. ASSUME NEW w \in M, NEW x \in STRING PROVE One(w, x) \subseteq O
  <2>1. ASSUME NEW o, o \in MadeDataset(w, a, x) PROVE o \in O
    <3> HIDE DEF O, One, Step, f, step, made
    <3>1. o.s = w \/ o.s = [w EXCEPT !.datasets = w.datasets \cup {Dataset(a.pool, x)}]
      BY <2>1, DatasetMade
    <3>2. [w EXCEPT !.datasets = w.datasets \cup {Dataset(pool, x)}] \in M
      BY NearbyIsClosed
    <3>3. Answered(o)
      BY <2>1, DatasetMade
    <3>4. o.s \in M
      BY <3>1, <3>2
    <3> HIDE DEF M
    <3> QED BY <3>3, <3>4 DEF O, Out, Answered
  <2>2. \A o \in Done(w) : o \in O
    <3>1. "ok" \in Codes
      BY DEF Codes
    <3> HIDE DEF M
    <3> QED BY <3>1 DEF Done, Out
  <2> QED BY <2>1, <2>2
<1>4. ASSUME NEW o \in O, Grown(s, o.s), pool \in s.pools, NEW x, NEW u \in One(o.s, x)
      PROVE  Grown(o.s, u.s) /\ (u.ret = "ok" => Dataset(pool, x) \in u.s.datasets)
  <2> DEFINE w == o.s
  <2>1. IsMachine(w) /\ pool \in w.pools
    BY <1>4 DEF Grown, Kept
  <2>2. CASE zfm_dataset_exists(w, a.pool, x)
    <3>1. u = Out(w, "ok")
      BY <1>4, <2>2 DEF Done
    <3>2. u.s = w
      BY <3>1 DEF Out
    <3> QED BY <2>1, <2>2, <3>2, Changes DEF zfm_dataset_exists
  <2>3. CASE ~zfm_dataset_exists(w, a.pool, x)
    <3> DEFINE d == [w EXCEPT !.datasets = w.datasets \cup {Dataset(pool, x)}]
    <3>1. (u.s = w \/ u.s = d) /\ (u.ret = "ok" => u.s = d)
      BY <1>4, <2>3, DatasetMade
    <3>2. Grown(w, d) /\ Grown(w, w)
      BY <2>1, VolumeChanges, Changes
    <3>3. Dataset(pool, x) \in d.datasets
      BY <2>1 DEF IsMachine, Typed, TiFields
    <3> QED BY <3>1, <3>2, <3>3
  <2> QED BY <2>2, <2>3
<1>10. step \in [M \X (1..n) -> SUBSET O] /\ \A w \in M, k \in 1..n : step[<<w, k>>] = One(w, names[k])
  <2> HIDE DEF One, M, O
  <2> QED BY <1>1, <1>3
<1>11. Done(s) \subseteq O /\ \A o \in O : o.s \in M
  <2>1. "ok" \in Codes
    BY DEF Codes
  <2> HIDE DEF M
  <2> QED BY <1>2, <2>1 DEF Done, Out
<1>12. \A k \in 1..n : made[k] = {Dataset(pool, names[k])}
  OBVIOUS
<1> HIDE DEF step, made, M, O, One
<1>5. Fold(f)
  <2>1. Done(s) \in SUBSET O
    BY <1>11
  <2>5. PICK g \in [SUBSET (1..n) -> SUBSET O] : IsEach(g, n, Done(s), step)
    BY <1>1, <1>10, <1>11, <2>1, EachExists
  <2>6. \A q \in SUBSET (1..n) : q # {} => Max(q) \in q
    BY <1>1, MaxOf
  <2>7. ASSUME NEW q \in SUBSET (1..n), q # {}
        PROVE  UNION {IF o.ret = "ok" THEN step[<<o.s, Max(q)>>] ELSE {o} : o \in g[q \ {Max(q)}]}
                 = Step(g[q \ {Max(q)}], names[Max(q)])
    <3>1. g[q \ {Max(q)}] \subseteq O /\ Max(q) \in 1..n
      BY <2>5, <2>6, <2>7
    <3>2. \A o \in g[q \ {Max(q)}] : step[<<o.s, Max(q)>>] = One(o.s, names[Max(q)])
      BY <1>10, <1>11, <3>1
    <3> DEFINE outs == g[q \ {Max(q)}]
               k == Max(q)
    <3> HIDE DEF outs, k, f, Fold
    <3>3. \A o \in outs : step[<<o.s, k>>] = One(o.s, names[k])
      BY <3>2 DEF outs, k
    <3>4. \A o \in outs : (IF o.ret = "ok" THEN step[<<o.s, k>>] ELSE {o}) = IF o.ret = "ok" THEN One(o.s, names[k]) ELSE {o}
      BY <3>3
    <3>5. UNION {IF o.ret = "ok" THEN step[<<o.s, k>>] ELSE {o} : o \in outs}
            = UNION {IF o.ret = "ok" THEN One(o.s, names[k]) ELSE {o} : o \in outs}
      BY <3>4
    <3> QED BY <3>5 DEF outs, k
  <2>8. Fold(g)
    <3> HIDE DEF Step
    <3> QED BY <1>1, <2>5, <2>7 DEF IsEach
  <2> HIDE DEF Fold
  <2> QED BY <2>8
<1>6. ASSUME n = 0 \/ pool \in s.pools
      PROVE  \A o \in f[1..n] : Grown(s, o.s) /\ (o.ret = "ok" => \A j \in 1..n : made[j] \subseteq o.s.datasets)
  <2> HIDE DEF f
  <2>1. ASSUME NEW k \in 1..n, NEW o \in O, Grown(s, o.s), NEW u \in step[<<o.s, k>>]
        PROVE  Grown(o.s, u.s) /\ (u.ret = "ok" => made[k] \subseteq u.s.datasets)
    <3>1. u \in One(o.s, names[k]) /\ pool \in s.pools
      BY <1>1, <1>6, <1>10, <1>11
    <3>2. Grown(o.s, u.s) /\ (u.ret = "ok" => Dataset(pool, names[k]) \in u.s.datasets)
      BY <1>4, <2>1, <3>1
    <3>3. made[k] = {Dataset(pool, names[k])}
      BY <1>12
    <3> QED BY <3>2, <3>3
  <2>2. f[{}] = Done(s)
    BY <1>5
  <2>3. ASSUME NEW k \in 1..n, f[1..(k - 1)] \subseteq O
        PROVE  f[1..k] = UNION {IF o.ret = "ok" THEN step[<<o.s, k>>] ELSE {o} : o \in f[1..(k - 1)]}
    <3>1. 1..k \in SUBSET (1..n) /\ 1..k # {} /\ Max(1..k) = k /\ (1..k) \ {k} = 1..(k - 1)
      BY <1>1, FoldPrefix
    <3>2. f[1..k] = Step(f[1..(k - 1)], names[k])
      <4> HIDE DEF Step
      <4> QED BY <1>1, <1>5, <3>1
    <3>3. \A o \in f[1..(k - 1)] : (IF o.ret = "ok" THEN step[<<o.s, k>>] ELSE {o}) = IF o.ret = "ok" THEN One(o.s, names[k]) ELSE {o}
      BY <1>10, <1>11, <2>3
    <3> QED BY <3>2, <3>3
  <2>4. \A k \in 1..n : \A o \in O : Grown(s, o.s) => \A u \in step[<<o.s, k>>] :
          Grown(o.s, u.s) /\ (u.ret = "ok" => made[k] \subseteq u.s.datasets)
    BY <2>1
  <2>5. \A k \in 1..n : f[1..(k - 1)] \subseteq O =>
          f[1..k] = UNION {IF o.ret = "ok" THEN step[<<o.s, k>>] ELSE {o} : o \in f[1..(k - 1)]}
    <3> HIDE DEF Step, Fold, n
    <3> QED BY <2>3
  <2>6. n \in Nat /\ (\A o \in O : o.s \in M) /\ step \in [M \X (1..n) -> SUBSET O] /\ Done(s) \subseteq O
    BY <1>1, <1>10, <1>11
  <2> HIDE DEF Step, Fold, n, names, pool
  <2>7. EachRuns(s, n, M, O, step, made, f)
    BY <2>2, <2>4, <2>5, <2>6 DEF EachRuns
  <2> QED BY <1>1, <2>7, EachGrows
<1>7. CASE ~zfm_zpool_exists(s, a.pool) /\ a.names # <<>>
  <2>1. out = Out(s, "ZFM_E_ZFS_FS_CREATE_FAILED")
    BY <1>7 DEF zfm_create_fs
  <2> QED BY <2>1, Changes DEF Out
<1>8. CASE ~(~zfm_zpool_exists(s, a.pool) /\ a.names # <<>>)
  <2>1. zfm_create_fs(s, a) = f[DOMAIN names]
    <3>1. zfm_create_fs(s, a) = EachOf(a.names, s, One)
      BY <1>8 DEF zfm_create_fs, One
    <3>2. EachOf(a.names, s, One) = f[DOMAIN names]
      BY DEF EachOf, FoldLeft, MapThenFoldSet
    <3> QED BY <3>1, <3>2
  <2>2. out \in f[1..n]
    <3> HIDE DEF f
    <3> QED BY <1>1, <2>1
  <2>3. n = 0 \/ pool \in s.pools
    BY <1>8 DEF zfm_zpool_exists
  <2> HIDE DEF f, Fold, Step
  <2> QED BY <1>1, <1>6, <1>12, <2>2, <2>3
<1> QED BY <1>7, <1>8

(* A volume for swap or dump is used once it was made, if that works.      *)
UseVolume(w, a, x) ==
  IF x = "swap" THEN Whatever(zfm_add_volume_to_swap_pool(w, a, x))
  ELSE IF x = "dump" THEN Whatever(zfm_set_volume_as_dump(w, a, x)) ELSE Done(w)
MadeVolume(w, a, x) == Then(MadeDataset(w, a, x), LAMBDA y : UseVolume(y, a, x))

LEMMA VolumeUsed ==
  ASSUME NEW w, NEW a, NEW x, NEW o, o \in UseVolume(w, a, x)
  PROVE  /\ Answered(o)
         /\ \/ o.s = w
            \/ o.s = [w EXCEPT !.swap = w.swap \cup {Zvol(a.pool, x)}]
            \/ x # "swap" /\ o.s = [w EXCEPT !.dump = Zvol(a.pool, x)]
<1> DEFINE v == [w EXCEPT !.swap = w.swap \cup {Zvol(a.pool, x)}]
           u == [w EXCEPT !.dump = Zvol(a.pool, x)]
<1>1. "ok" \in Codes
  BY DEF Codes
<1>2. ASSUME NEW t PROVE Out(t, "ok").s = t /\ Answered(Out(t, "ok"))
  BY <1>1 DEF Out, Answered
<1>3. ASSUME NEW t, NEW name, NEW err, NEW p, p \in Whatever(Cmd(name, w, t, err))
      PROVE  p = Out(t, "ok") \/ p = Out(w, "ok")
  <2>1. PICK q \in Cmd(name, w, t, err) : p = Out(q.s, "ok")
    BY <1>3 DEF Whatever
  <2>2. q.s = t \/ q.s = w
    BY DEF Cmd, Done, Out
  <2> QED BY <2>1, <2>2
<1> SUFFICES Answered(o) /\ (o.s = w \/ o.s = v \/ (x # "swap" /\ o.s = u))
  OBVIOUS
<1>4. CASE x = "swap"
  <2>1. o \in Whatever(Cmd("swap", w, v, "ZFM_E_ZFS_VOL_SET_SWAP_FAILED"))
    BY <1>4 DEF UseVolume, zfm_add_volume_to_swap_pool
  <2> HIDE DEF v, u
  <2>2. o = Out(v, "ok") \/ o = Out(w, "ok")
    BY <1>3, <2>1
  <2> QED BY <1>2, <2>2
<1>5. CASE x # "swap" /\ x = "dump"
  <2>1. o \in Whatever(Cmd("dump", w, u, "ZFM_E_ZFS_VOL_SET_DUMP_FAILED"))
    BY <1>5 DEF UseVolume, zfm_set_volume_as_dump
  <2> HIDE DEF v, u
  <2>2. o = Out(u, "ok") \/ o = Out(w, "ok")
    BY <1>3, <2>1
  <2> QED BY <1>2, <1>5, <2>2
<1>6. CASE x # "swap" /\ x # "dump"
  <2>1. o = Out(w, "ok")
    BY <1>6 DEF UseVolume, Done
  <2> HIDE DEF v, u
  <2> QED BY <1>2, <2>1
<1> QED BY <1>4, <1>5, <1>6

LEMMA VolumeMade ==
  ASSUME NEW w, NEW a, NEW x, NEW o, o \in MadeVolume(w, a, x)
  PROVE  \/ o \in MadeDataset(w, a, x)
         \/ o \in UseVolume([w EXCEPT !.datasets = w.datasets \cup {Dataset(a.pool, x)}], a, x)
<1> DEFINE d == [w EXCEPT !.datasets = w.datasets \cup {Dataset(a.pool, x)}]
           Use(y) == UseVolume(y, a, x)
<1>1. MadeVolume(w, a, x) = Then(MadeDataset(w, a, x), Use)
  BY DEF MadeVolume
<1>2. PICK q \in MadeDataset(w, a, x) : o \in IF q.ret = "ok" THEN Use(q.s) ELSE {q}
  BY <1>1 DEF Then
<1>3. q.ret = "ok" => q.s = d
  BY DatasetMade
<1> HIDE DEF d
<1>4. o = q \/ o \in UseVolume(d, a, x)
  BY <1>2, <1>3
<1> QED BY <1>4 DEF d

(* Volumes likewise.                                                       *)
LEMMA VolsGrow ==
  ASSUME NEW s, IsMachine(s), NEW a, a.vols \in Seq(STRING), NEW out \in zfm_create_volumes(s, a)
  PROVE  /\ Grown(s, out.s)
         /\ out.ret = "ok" => \A k \in 1..Len(a.vols) : Dataset(a.pool, a.vols[k]) \in out.s.datasets
<1> DEFINE names == a.vols
           pool == a.pool
           n == Len(names)
           M == Nearby(s, pool)
<1>1. n \in Nat /\ DOMAIN names = 1..n /\ \A k \in 1..n : names[k] \in STRING
  BY NamesOf
<1>2. s \in M
  BY NearbyIsClosed
<1> DEFINE O == [s : M, ret : Codes]
           One(w, x) == IF zfm_dataset_exists(w, a.pool, x) THEN Done(w) ELSE MadeVolume(w, a, x)
           Step(outs, x) == UNION {IF o.ret = "ok" THEN One(o.s, x) ELSE {o} : o \in outs}
           Fold(g) == g = [q \in SUBSET (DOMAIN names) |->
                             IF q = {} THEN Done(s) ELSE Step(g[q \ {Max(q)}], names[Max(q)])]
           f == CHOOSE g : Fold(g)
           step == [p \in M \X (1..n) |-> One(p[1], names[p[2]])]
           made == [k \in 1..n |-> {Dataset(pool, names[k])}]
<1>3. ASSUME NEW w \in M, NEW x \in STRING PROVE One(w, x) \subseteq O
  <2> DEFINE d == [w EXCEPT !.datasets = w.datasets \cup {Dataset(a.pool, x)}]
  <2>1. ASSUME NEW o, o \in MadeVolume(w, a, x) PROVE o \in O
    <3> HIDE DEF O, One, Step, f, step, made
    <3>1. d \in M
      BY NearbyIsClosed
    <3> HIDE DEF d
    <3>2. /\ [d EXCEPT !.swap = d.swap \cup {Zvol(pool, x)}] \in M
          /\ [d EXCEPT !.dump = Zvol(pool, x)] \in M
      BY <3>1, NearbyIsClosed
    <3>3. CASE o \in MadeDataset(w, a, x)
      <4>1. Answered(o)
        BY <3>3, DatasetMade
      <4>2. o.s = w \/ o.s = d
        BY <3>3, DatasetMade DEF d
      <4> HIDE DEF M
      <4> QED BY <3>1, <4>1, <4>2 DEF O, Out, Answered
    <3>4. CASE o \in UseVolume(d, a, x)
      <4>1. Answered(o)
        BY <3>4, VolumeUsed
      <4>2. \/ o.s = d \/ o.s = [d EXCEPT !.swap = d.swap \cup {Zvol(pool, x)}]
            \/ o.s = [d EXCEPT !.dump = Zvol(pool, x)]
        BY <3>4, VolumeUsed
      <4>3. o.s \in M
        BY <3>1, <3>2, <4>2
      <4> HIDE DEF M
      <4> QED BY <4>1, <4>3 DEF O, Out, Answered
    <3>5. o \in MadeDataset(w, a, x) \/ o \in UseVolume(d, a, x)
      BY <2>1, VolumeMade DEF d
    <3> QED BY <3>3, <3>4, <3>5
  <2>2. \A o \in Done(w) : o \in O
    <3>1. "ok" \in Codes
      BY DEF Codes
    <3> HIDE DEF M
    <3> QED BY <3>1 DEF Done, Out
  <2> QED BY <2>1, <2>2
<1>4. ASSUME NEW o \in O, Grown(s, o.s), pool \in s.pools, NEW x, NEW u \in One(o.s, x)
      PROVE  Grown(o.s, u.s) /\ (u.ret = "ok" => Dataset(pool, x) \in u.s.datasets)
  <2> DEFINE w == o.s
  <2>1. IsMachine(w) /\ pool \in w.pools
    BY <1>4 DEF Grown, Kept
  <2>2. CASE zfm_dataset_exists(w, a.pool, x)
    <3>1. u = Out(w, "ok")
      BY <1>4, <2>2 DEF Done
    <3>2. u.s = w
      BY <3>1 DEF Out
    <3> QED BY <2>1, <2>2, <3>2, Changes DEF zfm_dataset_exists
  <2>3. CASE ~zfm_dataset_exists(w, a.pool, x)
    <3> DEFINE d == [w EXCEPT !.datasets = w.datasets \cup {Dataset(pool, x)}]
    <3>1. Grown(w, d) /\ Grown(w, w)
      BY <2>1, VolumeChanges, Changes
    <3>2. Dataset(pool, x) \in d.datasets /\ d.pools = w.pools
      BY <2>1 DEF IsMachine, Typed, TiFields
    <3>3. u \in MadeDataset(w, a, x) \/ u \in UseVolume(d, a, x)
      BY <1>4, <2>3, VolumeMade
    <3>4. CASE u \in MadeDataset(w, a, x)
      <4>1. (u.s = w \/ u.s = d) /\ (u.ret = "ok" => u.s = d)
        BY <3>4, DatasetMade
      <4> QED BY <3>1, <3>2, <4>1
    <3>5. CASE u \in UseVolume(d, a, x)
      <4> HIDE DEF d
      <4>1. \/ u.s = d \/ u.s = [d EXCEPT !.swap = d.swap \cup {Zvol(pool, x)}]
            \/ x # "swap" /\ u.s = [d EXCEPT !.dump = Zvol(pool, x)]
        BY <3>5, VolumeUsed
      <4>2. IsMachine(d) /\ pool \in d.pools
        BY <2>1, <3>1, <3>2 DEF Grown, Kept
      <4> HIDE DEF M, O, One, Step, f, step, made, w
      <4>5. /\ Grown(d, [d EXCEPT !.swap = d.swap \cup {Zvol(pool, x)}])
            /\ x # "swap" => Grown(d, [d EXCEPT !.dump = Zvol(pool, x)])
        BY <4>2, VolumeChanges
      <4>6. Grown(d, d)
        BY <4>2, Changes
      <4>3. Grown(d, u.s)
        BY <4>1, <4>5, <4>6
      <4>4. Grown(w, u.s)
        BY <3>1, <4>3, GrownTwice
      <4>7. d.datasets \subseteq u.s.datasets
        BY <4>3 DEF Grown
      <4>8. Dataset(pool, x) \in u.s.datasets
        BY <3>2, <4>7
      <4> QED BY <4>4, <4>8 DEF w
    <3> QED BY <3>3, <3>4, <3>5
  <2> QED BY <2>2, <2>3
<1>10. step \in [M \X (1..n) -> SUBSET O] /\ \A w \in M, k \in 1..n : step[<<w, k>>] = One(w, names[k])
  <2> HIDE DEF One, M, O
  <2> QED BY <1>1, <1>3
<1>11. Done(s) \subseteq O /\ \A o \in O : o.s \in M
  <2>1. "ok" \in Codes
    BY DEF Codes
  <2> HIDE DEF M
  <2> QED BY <1>2, <2>1 DEF Done, Out
<1>12. \A k \in 1..n : made[k] = {Dataset(pool, names[k])}
  OBVIOUS
<1> HIDE DEF step, made, M, O, One
<1>5. Fold(f)
  <2>1. Done(s) \in SUBSET O
    BY <1>11
  <2>5. PICK g \in [SUBSET (1..n) -> SUBSET O] : IsEach(g, n, Done(s), step)
    BY <1>1, <1>10, <1>11, <2>1, EachExists
  <2>6. \A q \in SUBSET (1..n) : q # {} => Max(q) \in q
    BY <1>1, MaxOf
  <2>7. ASSUME NEW q \in SUBSET (1..n), q # {}
        PROVE  UNION {IF o.ret = "ok" THEN step[<<o.s, Max(q)>>] ELSE {o} : o \in g[q \ {Max(q)}]}
                 = Step(g[q \ {Max(q)}], names[Max(q)])
    <3>1. g[q \ {Max(q)}] \subseteq O /\ Max(q) \in 1..n
      BY <2>5, <2>6, <2>7
    <3>2. \A o \in g[q \ {Max(q)}] : step[<<o.s, Max(q)>>] = One(o.s, names[Max(q)])
      BY <1>10, <1>11, <3>1
    <3> DEFINE outs == g[q \ {Max(q)}]
               k == Max(q)
    <3> HIDE DEF outs, k, f, Fold
    <3>3. \A o \in outs : step[<<o.s, k>>] = One(o.s, names[k])
      BY <3>2 DEF outs, k
    <3>4. \A o \in outs : (IF o.ret = "ok" THEN step[<<o.s, k>>] ELSE {o}) = IF o.ret = "ok" THEN One(o.s, names[k]) ELSE {o}
      BY <3>3
    <3>5. UNION {IF o.ret = "ok" THEN step[<<o.s, k>>] ELSE {o} : o \in outs}
            = UNION {IF o.ret = "ok" THEN One(o.s, names[k]) ELSE {o} : o \in outs}
      BY <3>4
    <3> QED BY <3>5 DEF outs, k
  <2>8. Fold(g)
    <3> HIDE DEF Step
    <3> QED BY <1>1, <2>5, <2>7 DEF IsEach
  <2> HIDE DEF Fold
  <2> QED BY <2>8
<1>6. ASSUME n = 0 \/ pool \in s.pools
      PROVE  \A o \in f[1..n] : Grown(s, o.s) /\ (o.ret = "ok" => \A j \in 1..n : made[j] \subseteq o.s.datasets)
  <2> HIDE DEF f
  <2>1. ASSUME NEW k \in 1..n, NEW o \in O, Grown(s, o.s), NEW u \in step[<<o.s, k>>]
        PROVE  Grown(o.s, u.s) /\ (u.ret = "ok" => made[k] \subseteq u.s.datasets)
    <3>1. u \in One(o.s, names[k]) /\ pool \in s.pools
      BY <1>1, <1>6, <1>10, <1>11
    <3> QED BY <1>4, <1>12, <2>1, <3>1
  <2>2. f[{}] = Done(s)
    BY <1>5
  <2>3. ASSUME NEW k \in 1..n, f[1..(k - 1)] \subseteq O
        PROVE  f[1..k] = UNION {IF o.ret = "ok" THEN step[<<o.s, k>>] ELSE {o} : o \in f[1..(k - 1)]}
    <3>1. 1..k \in SUBSET (1..n) /\ 1..k # {} /\ Max(1..k) = k /\ (1..k) \ {k} = 1..(k - 1)
      BY <1>1, FoldPrefix
    <3>2. f[1..k] = Step(f[1..(k - 1)], names[k])
      <4> HIDE DEF Step
      <4> QED BY <1>1, <1>5, <3>1
    <3>3. \A o \in f[1..(k - 1)] : (IF o.ret = "ok" THEN step[<<o.s, k>>] ELSE {o}) = IF o.ret = "ok" THEN One(o.s, names[k]) ELSE {o}
      BY <1>10, <1>11, <2>3
    <3> QED BY <3>2, <3>3
  <2>4. \A k \in 1..n : \A o \in O : Grown(s, o.s) => \A u \in step[<<o.s, k>>] :
          Grown(o.s, u.s) /\ (u.ret = "ok" => made[k] \subseteq u.s.datasets)
    BY <2>1
  <2>5. \A k \in 1..n : f[1..(k - 1)] \subseteq O =>
          f[1..k] = UNION {IF o.ret = "ok" THEN step[<<o.s, k>>] ELSE {o} : o \in f[1..(k - 1)]}
    <3> HIDE DEF Step, Fold, n
    <3> QED BY <2>3
  <2>6. n \in Nat /\ (\A o \in O : o.s \in M) /\ step \in [M \X (1..n) -> SUBSET O] /\ Done(s) \subseteq O
    BY <1>1, <1>10, <1>11
  <2> HIDE DEF Step, Fold, n, names, pool
  <2>7. EachRuns(s, n, M, O, step, made, f)
    BY <2>2, <2>4, <2>5, <2>6 DEF EachRuns
  <2> QED BY <1>1, <2>7, EachGrows
<1>7. CASE ~zfm_zpool_exists(s, a.pool) /\ a.vols # <<>>
  <2>1. out = Out(s, "ZFM_E_ZFS_VOL_CREATE_FAILED")
    BY <1>7 DEF zfm_create_volumes
  <2> QED BY <2>1, Changes DEF Out
<1>8. CASE ~(~zfm_zpool_exists(s, a.pool) /\ a.vols # <<>>)
  <2>1. zfm_create_volumes(s, a) = f[DOMAIN names]
    <3>1. zfm_create_volumes(s, a) = EachOf(a.vols, s, One)
      BY <1>8 DEF zfm_create_volumes, One, MadeVolume, UseVolume
    <3>2. EachOf(a.vols, s, One) = f[DOMAIN names]
      BY DEF EachOf, FoldLeft, MapThenFoldSet
    <3> QED BY <3>1, <3>2
  <2>2. out \in f[1..n]
    <3> HIDE DEF f
    <3> QED BY <1>1, <2>1
  <2>3. n = 0 \/ pool \in s.pools
    BY <1>8 DEF zfm_zpool_exists
  <2> HIDE DEF f, Fold, Step
  <2> QED BY <1>1, <1>6, <1>12, <2>2, <2>3
<1> QED BY <1>7, <1>8

-----------------------------------------------------------------------------
(* Boot environments.                                                      *)

LEMMA CommandLeads ==
  ASSUME NEW name, NEW s, NEW t, NEW err
  PROVE  \A o \in Cmd(name, s, t, err) : o.s = s \/ o.s = t
BY DEF Cmd, Done, Out

MountAt(w, fs) == Cmd("mount", w, [w EXCEPT !.bemounted = @ \cup {fs}], "IBEM_E_BE_MOUNT_FAILED")
LEMMA SharedGrows ==
  ASSUME NEW s, IsMachine(s), NEW a, a.shared \in Seq(STRING), NEW out \in EachOf(a.shared, s, MountAt)
  PROVE  Grown(s, out.s)
<1> DEFINE names == a.shared
           pool == a.pool
           n == Len(names)
           M == Nearby(s, pool)
<1>1. n \in Nat /\ DOMAIN names = 1..n /\ \A k \in 1..n : names[k] \in STRING
  BY NamesOf
<1>2. s \in M
  BY NearbyIsClosed
<1> DEFINE O == [s : M, ret : Codes]
           One(w, x) == MountAt(w, x)
           Step(outs, x) == UNION {IF o.ret = "ok" THEN One(o.s, x) ELSE {o} : o \in outs}
           Fold(g) == g = [q \in SUBSET (DOMAIN names) |->
                             IF q = {} THEN Done(s) ELSE Step(g[q \ {Max(q)}], names[Max(q)])]
           f == CHOOSE g : Fold(g)
           step == [p \in M \X (1..n) |-> One(p[1], names[p[2]])]
           made == [k \in 1..n |-> {}]
<1>3. ASSUME NEW w \in M, NEW x \in STRING PROVE One(w, x) \subseteq O
  <2> DEFINE d == [w EXCEPT !.bemounted = w.bemounted \cup {x}]
  <2>1. d \in M
    BY NearbyIsClosed
  <2>2. "ok" \in Codes /\ "IBEM_E_BE_MOUNT_FAILED" \in Codes
    BY DEF Codes
  <2>3. \A o \in One(w, x) : o = Out(d, "ok") \/ o = Out(w, "IBEM_E_BE_MOUNT_FAILED")
    BY DEF MountAt, Cmd, Done
  <2> HIDE DEF d, M, One
  <2> QED BY <2>1, <2>2, <2>3 DEF Out
<1>4. ASSUME NEW o \in O, Grown(s, o.s), NEW x, NEW u \in One(o.s, x)
      PROVE  Grown(o.s, u.s)
  <2> DEFINE w == o.s
  <2>1. IsMachine(w)
    BY <1>4 DEF Grown, Kept
  <2> DEFINE b == w.bemounted \cup {x}
             d == [w EXCEPT !.bemounted = b]
  <2>2. u.s = d \/ u.s = w
    BY <1>4, CommandLeads DEF MountAt
  <2> HIDE DEF w, b
  <2>3. Grown(w, d) /\ Grown(w, w)
    BY <2>1, Changes
  <2> QED BY <2>2, <2>3 DEF w
<1>10. step \in [M \X (1..n) -> SUBSET O] /\ \A w \in M, k \in 1..n : step[<<w, k>>] = One(w, names[k])
  <2> HIDE DEF One, M, O
  <2> QED BY <1>1, <1>3
<1>11. Done(s) \subseteq O /\ \A o \in O : o.s \in M
  <2>1. "ok" \in Codes
    BY DEF Codes
  <2> HIDE DEF M
  <2> QED BY <1>2, <2>1 DEF Done, Out
<1>12. \A k \in 1..n : made[k] = {}
  OBVIOUS
<1> HIDE DEF step, made, M, O, One
<1>5. Fold(f)
  <2>1. Done(s) \in SUBSET O
    BY <1>11
  <2>5. PICK g \in [SUBSET (1..n) -> SUBSET O] : IsEach(g, n, Done(s), step)
    BY <1>1, <1>10, <1>11, <2>1, EachExists
  <2>6. \A q \in SUBSET (1..n) : q # {} => Max(q) \in q
    BY <1>1, MaxOf
  <2>7. ASSUME NEW q \in SUBSET (1..n), q # {}
        PROVE  UNION {IF o.ret = "ok" THEN step[<<o.s, Max(q)>>] ELSE {o} : o \in g[q \ {Max(q)}]}
                 = Step(g[q \ {Max(q)}], names[Max(q)])
    <3>1. g[q \ {Max(q)}] \subseteq O /\ Max(q) \in 1..n
      BY <2>5, <2>6, <2>7
    <3>2. \A o \in g[q \ {Max(q)}] : step[<<o.s, Max(q)>>] = One(o.s, names[Max(q)])
      BY <1>10, <1>11, <3>1
    <3> DEFINE outs == g[q \ {Max(q)}]
               k == Max(q)
    <3> HIDE DEF outs, k, f, Fold
    <3>3. \A o \in outs : step[<<o.s, k>>] = One(o.s, names[k])
      BY <3>2 DEF outs, k
    <3>4. \A o \in outs : (IF o.ret = "ok" THEN step[<<o.s, k>>] ELSE {o}) = IF o.ret = "ok" THEN One(o.s, names[k]) ELSE {o}
      BY <3>3
    <3>5. UNION {IF o.ret = "ok" THEN step[<<o.s, k>>] ELSE {o} : o \in outs}
            = UNION {IF o.ret = "ok" THEN One(o.s, names[k]) ELSE {o} : o \in outs}
      BY <3>4
    <3> QED BY <3>5 DEF outs, k
  <2>8. Fold(g)
    <3> HIDE DEF Step
    <3> QED BY <1>1, <2>5, <2>7 DEF IsEach
  <2> HIDE DEF Fold
  <2> QED BY <2>8
<1>6. \A o \in f[1..n] : Grown(s, o.s) /\ (o.ret = "ok" => \A j \in 1..n : made[j] \subseteq o.s.datasets)
  <2> HIDE DEF f
  <2>1. ASSUME NEW k \in 1..n, NEW o \in O, Grown(s, o.s), NEW u \in step[<<o.s, k>>]
        PROVE  Grown(o.s, u.s) /\ (u.ret = "ok" => made[k] \subseteq u.s.datasets)
    <3>1. u \in One(o.s, names[k])
      BY <1>1, <1>10, <1>11
    <3> QED BY <1>4, <1>12, <2>1, <3>1
  <2>2. f[{}] = Done(s)
    BY <1>5
  <2>3. ASSUME NEW k \in 1..n, f[1..(k - 1)] \subseteq O
        PROVE  f[1..k] = UNION {IF o.ret = "ok" THEN step[<<o.s, k>>] ELSE {o} : o \in f[1..(k - 1)]}
    <3>1. 1..k \in SUBSET (1..n) /\ 1..k # {} /\ Max(1..k) = k /\ (1..k) \ {k} = 1..(k - 1)
      BY <1>1, FoldPrefix
    <3>2. f[1..k] = Step(f[1..(k - 1)], names[k])
      <4> HIDE DEF Step
      <4> QED BY <1>1, <1>5, <3>1
    <3>3. \A o \in f[1..(k - 1)] : (IF o.ret = "ok" THEN step[<<o.s, k>>] ELSE {o}) = IF o.ret = "ok" THEN One(o.s, names[k]) ELSE {o}
      BY <1>10, <1>11, <2>3
    <3> QED BY <3>2, <3>3
  <2>4. \A k \in 1..n : \A o \in O : Grown(s, o.s) => \A u \in step[<<o.s, k>>] :
          Grown(o.s, u.s) /\ (u.ret = "ok" => made[k] \subseteq u.s.datasets)
    BY <2>1
  <2>5. \A k \in 1..n : f[1..(k - 1)] \subseteq O =>
          f[1..k] = UNION {IF o.ret = "ok" THEN step[<<o.s, k>>] ELSE {o} : o \in f[1..(k - 1)]}
    <3> HIDE DEF Step, Fold, n
    <3> QED BY <2>3
  <2>6. n \in Nat /\ (\A o \in O : o.s \in M) /\ step \in [M \X (1..n) -> SUBSET O] /\ Done(s) \subseteq O
    BY <1>1, <1>10, <1>11
  <2> HIDE DEF Step, Fold, n, names, pool
  <2>7. EachRuns(s, n, M, O, step, made, f)
    BY <2>2, <2>4, <2>5, <2>6 DEF EachRuns
  <2> QED BY <1>1, <2>7, EachGrows
<1>8. EachOf(a.shared, s, MountAt) = f[DOMAIN names]
  BY DEF EachOf, FoldLeft, MapThenFoldSet, One
<1>9. out \in f[1..n]
  <2> HIDE DEF f
  <2> QED BY <1>1, <1>8
<1> HIDE DEF f, Fold, Step
<1> QED BY <1>6, <1>9

LEMMA BeGrows ==
  ASSUME NEW s, IsMachine(s), NEW a, a.shared \in Seq(STRING)
  PROVE  \A o \in imm_create_be_target(s, a) : Grown(s, o.s)
<1> DEFINE MadeNew(w) == Cmd("be_init", w, [w EXCEPT !.be = @ \cup {a.be}], "IBEM_E_BE_CREATE_FAILED")
           Mount(w) == Cmd("be_mount", w, [w EXCEPT !.bemounted = @ \cup {"root"}], "IBEM_E_BE_MOUNT_FAILED")
           Share(w) == EachOf(a.shared, w, MountAt)
           mounted == Then(MadeNew(s), Mount)
<1>1. ibem_create_be(s, a) = IF ~zfm_zpool_exists(s, a.pool) THEN {Out(s, "IBEM_E_RPOOL_NOT_EXIST")}
                             ELSE IF a.mount THEN Then(mounted, Share) ELSE MadeNew(s)
  BY DEF ibem_create_be, MountAt, Then, EachOf, FoldLeft, MapThenFoldSet
<1>2. \A u \in MadeNew(s) : Grown(s, u.s)
  <2> DEFINE b == s.be \cup {a.be}
             d == [s EXCEPT !.be = b]
  <2>1. \A u \in MadeNew(s) : u.s = d \/ u.s = s
    BY CommandLeads
  <2> HIDE DEF b, MadeNew
  <2>2. Grown(s, d) /\ Grown(s, s)
    BY Changes
  <2> HIDE DEF d
  <2> QED BY <2>1, <2>2
<1>3. ASSUME NEW w, Grown(s, w) PROVE \A u \in Mount(w) : Grown(s, u.s)
  <2> DEFINE b == w.bemounted \cup {"root"}
             d == [w EXCEPT !.bemounted = b]
  <2>1. \A u \in Mount(w) : u.s = d \/ u.s = w
    BY CommandLeads
  <2> HIDE DEF b
  <2>2. Grown(w, d)
    BY <1>3, Changes DEF Grown, Kept
  <2> HIDE DEF d
  <2>3. Grown(s, d)
    BY <1>3, <2>2, GrownTwice
  <2> QED BY <1>3, <2>1, <2>3
<1>4. ASSUME NEW w, Grown(s, w) PROVE \A u \in Share(w) : Grown(s, u.s)
  <2>1. IsMachine(w)
    BY <1>4 DEF Grown, Kept
  <2> QED BY <1>4, <2>1, SharedGrows, GrownTwice
<1> HIDE DEF MadeNew, Mount, Share
<1>5. ASSUME NEW u \in mounted PROVE Grown(s, u.s)
  <2>1. PICK w \in MadeNew(s) : u \in IF w.ret = "ok" THEN Mount(w.s) ELSE {w}
    BY <1>5 DEF Then
  <2> QED BY <1>2, <1>3, <2>1
<1> HIDE DEF mounted
<1>6. ASSUME NEW u \in Then(mounted, Share) PROVE Grown(s, u.s)
  <2>1. PICK w \in mounted : u \in IF w.ret = "ok" THEN Share(w.s) ELSE {w}
    BY <1>6 DEF Then
  <2> QED BY <1>4, <1>5, <2>1
<1>7. Grown(s, Out(s, "IBEM_E_RPOOL_NOT_EXIST").s)
  BY Changes DEF Out
<1>8. \A u \in ibem_create_be(s, a) : Grown(s, u.s)
  BY <1>1, <1>2, <1>6, <1>7
<1> QED BY <1>8, AnswersGrow DEF imm_create_be_target

-----------------------------------------------------------------------------
(* Ramdisks: between two commands a device may be attached and not mounted. *)
Alike(s, t) == Typed(t) /\ VolumesAreThere(t) /\ t.progress = s.progress

LEMMA LofiAlike ==
  ASSUME NEW r, NEW s, Alike(r, s), NEW b \in BOOLEAN, NEW d, d = [s EXCEPT !.lofi = b]
  PROVE  Alike(r, d) /\ d.lofi = b /\ d.rmounted = s.rmounted
<1>1. DOMAIN s = TiFields
  BY DEF Alike, Typed
<1>2. Alike(r, d)
  BY DEF Alike, Typed, TiFields, VolumesAreThere
<1> QED BY <1>1, <1>2 DEF TiFields

LEMMA MountAlike ==
  ASSUME NEW r, NEW s, Alike(r, s), NEW b \in BOOLEAN, NEW d, d = [s EXCEPT !.rmounted = b]
  PROVE  Alike(r, d) /\ d.rmounted = b
<1>1. DOMAIN s = TiFields
  BY DEF Alike, Typed
<1>2. Alike(r, d)
  BY DEF Alike, Typed, TiFields, VolumesAreThere
<1> QED BY <1>1, <1>2 DEF TiFields

LEMMA FileAlike ==
  ASSUME NEW r, NEW s, Alike(r, s), NEW b \in BOOLEAN, NEW d, d = [s EXCEPT !.file = b]
  PROVE  Alike(r, d) /\ d.lofi = s.lofi /\ d.rmounted = s.rmounted
<1>1. DOMAIN s = TiFields
  BY DEF Alike, Typed
<1>2. Alike(r, d)
  BY DEF Alike, Typed, TiFields, VolumesAreThere
<1> QED BY <1>1, <1>2 DEF TiFields

LEMMA DirAlike ==
  ASSUME NEW r, NEW s, Alike(r, s), NEW b \in BOOLEAN, NEW d, d = [s EXCEPT !.dir = b]
  PROVE  Alike(r, d) /\ d.lofi = s.lofi /\ d.rmounted = s.rmounted
<1>1. DOMAIN s = TiFields
  BY DEF Alike, Typed
<1>2. Alike(r, d)
  BY DEF Alike, Typed, TiFields, VolumesAreThere
<1> QED BY <1>1, <1>2 DEF TiFields

LEMMA RolledKeeps ==
  ASSUME NEW r, NEW s, Alike(r, s), NEW dir, NEW err, NEW o, o \in Rolled(s, dir, err)
  PROVE  Kept(r, o.s)
<1> DEFINE Lofi(t) == IF t.rmounted THEN Done(t) ELSE Whatever(Cmd("unlofi", t, [t EXCEPT !.lofi = FALSE], "failed"))
           Dir(t)  == IF dir THEN Whatever(Cmd("rmdir", t, [t EXCEPT !.dir = FALSE], "failed")) ELSE Done(t)
           File(t) == Whatever(Cmd("rm", t, [t EXCEPT !.file = FALSE], "failed"))
           detached == Lofi(s)
           removed == Then(detached, Dir)
           Fine(t) == Alike(r, t) /\ NotForgotten(t)
<1>1. Rolled(s, dir, err) = {Out(u.s, err) : u \in Then(removed, File)}
  BY DEF Rolled
<1>2. ASSUME NEW t, NEW u, NEW name, NEW p, p \in Whatever(Cmd(name, t, u, "failed")) PROVE p.s = t \/ p.s = u
  BY <1>2, CommandLeads DEF Whatever, Out
<1>3. ASSUME NEW u, u \in detached PROVE Fine(u.s)
  <2>1. CASE s.rmounted
    <3>1. u.s = s
      BY <1>3, <2>1 DEF Done, Out
    <3> QED BY <2>1, <3>1 DEF NotForgotten
  <2>2. CASE ~s.rmounted
    <3> DEFINE d == [s EXCEPT !.lofi = FALSE]
    <3>1. u \in Whatever(Cmd("unlofi", s, d, "failed"))
      BY <1>3, <2>2
    <3>2. Alike(r, d) /\ ~d.lofi
      BY LofiAlike
    <3> HIDE DEF d
    <3>3. u.s = s \/ u.s = d
      BY <1>2, <3>1
    <3>4. "unlofi" \notin TiFaults => u.s = d
      BY <3>1 DEF Whatever, Cmd, Done, Out
    <3> QED BY <3>2, <3>3, <3>4 DEF NotForgotten
  <2> QED BY <2>1, <2>2
<1>4. ASSUME NEW t, Fine(t), NEW u, u \in Dir(t) PROVE Fine(u.s)
  <2> DEFINE d == [t EXCEPT !.dir = FALSE]
  <2>1. u.s = t \/ u.s = d
    BY <1>2, <1>4 DEF Done, Out
  <2>2. Alike(r, d) /\ d.lofi = t.lofi /\ d.rmounted = t.rmounted
    BY <1>4, DirAlike
  <2> HIDE DEF d
  <2> QED BY <1>4, <2>1, <2>2 DEF NotForgotten
<1>5. ASSUME NEW t, Fine(t), NEW u, u \in File(t) PROVE Fine(u.s)
  <2> DEFINE d == [t EXCEPT !.file = FALSE]
  <2>1. u.s = t \/ u.s = d
    BY <1>2, <1>5
  <2>2. Alike(r, d) /\ d.lofi = t.lofi /\ d.rmounted = t.rmounted
    BY <1>5, FileAlike
  <2> HIDE DEF d
  <2> QED BY <1>5, <2>1, <2>2 DEF NotForgotten
<1> HIDE DEF detached, Lofi, Dir, File, Fine
<1>6. ASSUME NEW u, u \in removed PROVE Fine(u.s)
  <2>1. PICK w \in detached : u \in IF w.ret = "ok" THEN Dir(w.s) ELSE {w}
    BY <1>6 DEF Then
  <2> QED BY <1>3, <1>4, <2>1
<1> HIDE DEF removed
<1>7. ASSUME NEW u, u \in Then(removed, File) PROVE Fine(u.s)
  <2>1. PICK w \in removed : u \in IF w.ret = "ok" THEN File(w.s) ELSE {w}
    BY <1>7 DEF Then
  <2> QED BY <1>5, <1>6, <2>1
<1>8. PICK u \in Then(removed, File) : o = Out(u.s, err)
  BY <1>1
<1>9. o.s = u.s
  BY <1>8 DEF Out
<1> QED BY <1>7, <1>9 DEF Fine, Alike, Kept, IsMachine

LEMMA RamdiskMade ==
  ASSUME NEW s, IsMachine(s), NEW a
  PROVE  \A o \in ti_create_ramdisk(s, a) : Kept(s, o.s)
<1> DEFINE Attach(t) == IF t.lofi THEN {Out(t, "TI_E_RAMDISK_LOFIADM_FAILED")}
                        ELSE Cmd("lofiadm", t, [t EXCEPT !.lofi = TRUE], "TI_E_RAMDISK_LOFIADM_FAILED")
           filed == Cmd("mkfile", s, [s EXCEPT !.file = TRUE], "TI_E_RAMDISK_MKFILE_FAILED")
           attached == Then(filed, Attach)
           OrBack(outs, dir) == UNION {IF o.ret = "ok" THEN {o} ELSE Rolled(o.s, dir, o.ret) : o \in outs}
           Newfs(t) == OrBack(Cmd("newfs", t, t, "TI_E_NEWFS_FAILED"), FALSE)
           Mkdir(t) == OrBack(Cmd("mkdir", t, [t EXCEPT !.dir = TRUE], "TI_E_MKDIR_FAILED"), FALSE)
           Mount(t) == OrBack(Cmd("mount", t, [t EXCEPT !.rmounted = TRUE], "TI_E_MOUNT_FAILED"), TRUE)
           newfs == Then(attached, Newfs)
           mkdir == Then(newfs, Mkdir)
           Fine(o) == Alike(s, o.s) /\ (o.ret # "ok" => Kept(s, o.s))
<1>1. ti_create_ramdisk(s, a) = Then(mkdir, Mount)
  BY DEF ti_create_ramdisk
<1>2. Alike(s, s) /\ Kept(s, s)
  BY DEF Alike, Kept, IsMachine
<1>3. ASSUME NEW u, u \in filed PROVE Fine(u) /\ Kept(s, u.s)
  <2> DEFINE d == [s EXCEPT !.file = TRUE]
  <2>1. Alike(s, d) /\ d.lofi = s.lofi /\ d.rmounted = s.rmounted
    BY <1>2, FileAlike
  <2> HIDE DEF d
  <2>2. u.s = s \/ u.s = d
    BY <1>3, CommandLeads DEF d
  <2>3. Kept(s, d)
    BY <2>1 DEF Kept, Alike, IsMachine, NotForgotten
  <2> QED BY <1>2, <2>1, <2>2, <2>3
<1>4. ASSUME NEW t, Alike(s, t), Kept(s, t), NEW u, u \in Attach(t) PROVE Fine(u)
  <2> DEFINE d == [t EXCEPT !.lofi = TRUE]
             E == "TI_E_RAMDISK_LOFIADM_FAILED"
  <2>1. Alike(s, d)
    BY <1>4, LofiAlike
  <2>2. CASE t.lofi
    BY <1>4, <2>2 DEF Out
  <2>3. CASE ~t.lofi
    <3> HIDE DEF d
    <3>1. u \in Cmd("lofiadm", t, d, E)
      BY <1>4, <2>3 DEF d
    <3>2. u = Out(d, "ok") \/ u = Out(t, E)
      BY <3>1 DEF Cmd, Done
    <3> QED BY <1>4, <2>1, <3>2 DEF Out
  <2> QED BY <2>2, <2>3
<1>5. ASSUME NEW t, NEW d, NEW name, NEW E, E # "ok", NEW dir, Alike(s, t),
             NEW u, u \in OrBack(Cmd(name, t, d, E), dir)
      PROVE  u = Out(d, "ok") \/ Kept(s, u.s)
  <2>1. PICK o \in Cmd(name, t, d, E) : u \in IF o.ret = "ok" THEN {o} ELSE Rolled(o.s, dir, o.ret)
    BY <1>5
  <2>2. o = Out(d, "ok") \/ o = Out(t, E)
    BY DEF Cmd, Done
  <2>3. CASE o = Out(d, "ok")
    BY <2>1, <2>3 DEF Out
  <2>4. CASE o = Out(t, E)
    <3>1. o.ret # "ok" /\ o.s = t
      BY <1>5, <2>4 DEF Out
    <3> QED BY <1>5, <2>1, <3>1, RolledKeeps
  <2> QED BY <2>2, <2>3, <2>4
<1> HIDE DEF OrBack
<1>6. ASSUME NEW t, Alike(s, t), NEW u, u \in Newfs(t) PROVE Fine(u)
  <2>1. u = Out(t, "ok") \/ Kept(s, u.s)
    BY <1>5, <1>6
  <2> QED BY <1>6, <2>1 DEF Out, Kept, IsMachine, Alike
<1>7. ASSUME NEW t, Alike(s, t), NEW u, u \in Mkdir(t) PROVE Fine(u)
  <2> DEFINE d == [t EXCEPT !.dir = TRUE]
  <2>1. Alike(s, d)
    BY <1>7, DirAlike
  <2> HIDE DEF d
  <2>2. u = Out(d, "ok") \/ Kept(s, u.s)
    BY <1>5, <1>7 DEF d
  <2>3. Kept(s, u.s) => Alike(s, u.s)
    BY DEF Kept, IsMachine, Alike
  <2>4. Out(d, "ok").s = d /\ Out(d, "ok").ret = "ok"
    BY DEF Out
  <2> QED BY <2>1, <2>2, <2>3, <2>4
<1>8. ASSUME NEW t, Alike(s, t), NEW u, u \in Mount(t) PROVE Kept(s, u.s)
  <2> DEFINE d == [t EXCEPT !.rmounted = TRUE]
  <2>1. Alike(s, d) /\ d.rmounted
    BY <1>8, MountAlike
  <2> HIDE DEF d
  <2>2. u = Out(d, "ok") \/ Kept(s, u.s)
    BY <1>5, <1>8 DEF d
  <2>3. Kept(s, d)
    BY <2>1 DEF Kept, IsMachine, Alike, NotForgotten
  <2>4. Out(d, "ok").s = d
    BY DEF Out
  <2> QED BY <2>2, <2>3, <2>4
<1> HIDE DEF filed, Attach, Newfs, Mkdir, Mount
<1>9. ASSUME NEW u, u \in attached PROVE Fine(u)
  <2>1. PICK w \in filed : u \in IF w.ret = "ok" THEN Attach(w.s) ELSE {w}
    BY <1>9 DEF Then
  <2> QED BY <1>3, <1>4, <2>1
<1> HIDE DEF attached
<1>10. ASSUME NEW u, u \in newfs PROVE Fine(u)
  <2>1. PICK w \in attached : u \in IF w.ret = "ok" THEN Newfs(w.s) ELSE {w}
    BY <1>10 DEF Then
  <2> QED BY <1>6, <1>9, <2>1
<1> HIDE DEF newfs
<1>11. ASSUME NEW u, u \in mkdir PROVE Fine(u)
  <2>1. PICK w \in newfs : u \in IF w.ret = "ok" THEN Mkdir(w.s) ELSE {w}
    BY <1>11 DEF Then
  <2> QED BY <1>7, <1>10, <2>1
<1> HIDE DEF mkdir
<1>12. ASSUME NEW u, u \in Then(mkdir, Mount) PROVE Kept(s, u.s)
  <2>1. PICK w \in mkdir : u \in IF w.ret = "ok" THEN Mount(w.s) ELSE {w}
    BY <1>12 DEF Then
  <2> QED BY <1>8, <1>11, <2>1
<1> QED BY <1>1, <1>12

(* A release that goes on after a failure leaves a device only mounted.    *)
LEMMA RamdiskReleased ==
  ASSUME NEW s, IsMachine(s), NEW a
  PROVE  \A o \in ti_release_ramdisk(s, a) : Kept(s, o.s)
<1> DEFINE Try(o, name, possible, next, err) ==
             (IF possible THEN {Out(next, o.ret)} ELSE {})
             \cup (IF name \in TiFaults \/ ~possible THEN {Out(o.s, IF o.ret = "ok" THEN err ELSE o.ret)} ELSE {})
           unmounted == Try(Out(s, "ok"), "umount", s.rmounted, [s EXCEPT !.rmounted = FALSE], "TI_E_UNMOUNT_FAILED")
           Detached(o) == Try(o, "unlofi", o.s.lofi /\ ~o.s.rmounted, [o.s EXCEPT !.lofi = FALSE], "TI_E_RAMDISK_LOFIADM_FAILED")
           detached == UNION {Detached(o) : o \in unmounted}
           Removed(o) == Try(o, "rmdir", o.s.dir /\ ~o.s.rmounted, [o.s EXCEPT !.dir = FALSE], "TI_E_RMDIR_FAILED")
<1>1. ti_release_ramdisk(s, a) = UNION {Removed(o) : o \in detached}
  BY DEF ti_release_ramdisk
<1> HIDE DEF Try
<1>3. Alike(s, s)
  BY DEF Alike, IsMachine
<1>4. ASSUME NEW u, u \in unmounted PROVE Alike(s, u.s)
  <2> DEFINE d == [s EXCEPT !.rmounted = FALSE]
  <2>1. Alike(s, d)
    BY <1>3, MountAlike
  <2> HIDE DEF d
  <2>2. s.rmounted \in BOOLEAN /\ Out(s, "ok").s = s
    BY DEF IsMachine, Typed, Out
  <2>4. u \in Try(Out(s, "ok"), "umount", s.rmounted, d, "TI_E_UNMOUNT_FAILED")
    BY <1>4 DEF d
  <2>5. u = Out(d, Out(s, "ok").ret) \/ \E r : u = Out(Out(s, "ok").s, r)
    BY <2>4 DEF Try
  <2>3. u.s = d \/ u.s = s
    BY <2>5 DEF Out
  <2> QED BY <1>3, <2>1, <2>3
<1>5. ASSUME NEW o, Alike(s, o.s), NEW u, u \in Detached(o) PROVE Kept(s, u.s)
  <2> DEFINE t == o.s
             d == [t EXCEPT !.lofi = FALSE]
  <2>1. Alike(s, d) /\ ~d.lofi
    <3>1. Alike(s, t) /\ d = [t EXCEPT !.lofi = FALSE]
      BY <1>5
    <3> HIDE DEF d, t
    <3> QED BY <3>1, LofiAlike
  <2> HIDE DEF d
  <2>2. t.lofi \in BOOLEAN /\ t.rmounted \in BOOLEAN
    BY <1>5 DEF Alike, Typed
  <2>3. u.s = d \/ (("unlofi" \in TiFaults \/ ~(t.lofi /\ ~t.rmounted)) /\ u.s = t)
    <3>1. u \in Try(o, "unlofi", t.lofi /\ ~t.rmounted, d, "TI_E_RAMDISK_LOFIADM_FAILED")
      BY <1>5 DEF d
    <3> HIDE DEF t
    <3>2. \/ u = Out(d, o.ret)
          \/ ("unlofi" \in TiFaults \/ ~(t.lofi /\ ~t.rmounted)) /\ \E r : u = Out(o.s, r)
      BY <2>2, <3>1 DEF Try
    <3> QED BY <3>2 DEF Out, t
  <2>4. Alike(s, u.s) /\ NotForgotten(u.s)
    BY <1>5, <2>1, <2>3 DEF NotForgotten
  <2> QED BY <2>4 DEF Alike, Kept, IsMachine
<1>6. ASSUME NEW o, Kept(s, o.s), NEW u, u \in Removed(o) PROVE Kept(s, u.s)
  <2> DEFINE t == o.s
             d == [t EXCEPT !.dir = FALSE]
  <2>1. Alike(s, t)
    BY <1>6 DEF Alike, Kept, IsMachine
  <2>2. Alike(s, d) /\ d.lofi = t.lofi /\ d.rmounted = t.rmounted
    BY <2>1, DirAlike
  <2> HIDE DEF d
  <2>3. t.dir \in BOOLEAN /\ t.rmounted \in BOOLEAN
    BY <2>1 DEF Alike, Typed
  <2>4. u.s = d \/ u.s = t
    <3>1. u \in Try(o, "rmdir", t.dir /\ ~t.rmounted, d, "TI_E_RMDIR_FAILED")
      BY <1>6 DEF d
    <3> HIDE DEF t
    <3>2. u = Out(d, o.ret) \/ \E r : u = Out(o.s, r)
      BY <2>3, <3>1 DEF Try
    <3> QED BY <3>2 DEF Out, t
  <2>5. Kept(s, d)
    BY <1>6, <2>2 DEF Alike, Kept, IsMachine, NotForgotten
  <2> QED BY <1>6, <2>4, <2>5
<1> HIDE DEF unmounted, Detached, Removed
<1>7. \A u \in detached : Kept(s, u.s)
  BY <1>4, <1>5
<1> HIDE DEF detached
<1> QED BY <1>1, <1>6, <1>7

LEMMA DirectoryMade ==
  ASSUME NEW s, IsMachine(s), NEW a
  PROVE  \A o \in ti_create_directory(s, a) : Kept(s, o.s)
<1> DEFINE d == [s EXCEPT !.dir = TRUE]
<1>1. Alike(s, s)
  BY DEF Alike, IsMachine
<1>2. Alike(s, d) /\ d.lofi = s.lofi /\ d.rmounted = s.rmounted
  BY <1>1, DirAlike
<1> HIDE DEF d
<1>3. Kept(s, d) /\ Kept(s, s)
  BY <1>2 DEF Alike, Kept, IsMachine, NotForgotten
<1>4. \A o \in Cmd("mkdir", s, d, "TI_E_MKDIR_FAILED") : o.s = s \/ o.s = d
  BY CommandLeads
<1> QED BY <1>3, <1>4 DEF ti_create_directory, d

-----------------------------------------------------------------------------
(* The whole target: what was reported so far, and what is there when the  *)
(* last milestone is reported.                                             *)
Early(s) == IsMachine(s) /\ s.progress \in Seq({1, 2, 3})
HasPool(s, a) == a.pool \in s.pools \/ ~a.device
HasFs(s, a) == \A k \in 1..Len(a.names) : Dataset(a.pool, a.names[k]) \in s.datasets
HasVols(s, a) == \A k \in 1..Len(a.vols) : Dataset(a.pool, a.vols[k]) \in s.datasets
Whole(s, a) == HasPool(s, a) /\ HasFs(s, a) /\ HasVols(s, a)

LEMMA KeptIsEarly ==
  ASSUME NEW s, NEW t, Early(s), Kept(s, t)
  PROVE  Early(t)
BY DEF Early, Kept

LEMMA GrownHas ==
  ASSUME NEW s, NEW t, Grown(s, t), NEW a
  PROVE  /\ HasPool(s, a) => HasPool(t, a)
         /\ HasFs(s, a) => HasFs(t, a)
BY DEF Grown, HasPool, HasFs

LEMMA Reported ==
  ASSUME NEW s, IsMachine(s), NEW a, NEW ms, NEW o, o \in ti_report_progress(s, a, ms)
  PROVE  /\ IsMachine(o.s) /\ o.ret = "ok" /\ o.s.pools = s.pools /\ o.s.datasets = s.datasets
         /\ o.s.progress = s.progress \/ o.s.progress = Append(s.progress, ms)
<1> DEFINE p == Append(s.progress, ms)
           d == [s EXCEPT !.progress = p]
<1>1. o = Out(IF a.cbf THEN [s EXCEPT !.progress = Append(@, ms)] ELSE s, "ok")
  BY DEF ti_report_progress, Done
<1>2. o.ret = "ok" /\ (o.s = s \/ o.s = d)
  BY <1>1 DEF Out
<1> HIDE DEF p
<1>3. IsMachine(d) /\ d.pools = s.pools /\ d.datasets = s.datasets /\ d.progress = p
  BY DEF IsMachine, Typed, TiFields, VolumesAreThere, NotForgotten
<1> HIDE DEF d
<1> QED BY <1>2, <1>3 DEF p

LEMMA EarlyReport ==
  ASSUME NEW s, Early(s), NEW a, NEW ms \in {1, 2, 3}, NEW o, o \in ti_report_progress(s, a, ms)
  PROVE  /\ Early(o.s) /\ o.ret = "ok"
         /\ HasPool(s, a) => HasPool(o.s, a)
<1>1. Append(s.progress, ms) \in Seq({1, 2, 3})
  BY DEF Early
<1>2. IsMachine(s)
  BY DEF Early
<1>3. /\ IsMachine(o.s) /\ o.ret = "ok" /\ o.s.pools = s.pools
      /\ o.s.progress = s.progress \/ o.s.progress = Append(s.progress, ms)
  BY <1>2, Reported
<1> QED BY <1>1, <1>3 DEF Early, HasPool

LEMMA FsMade ==
  ASSUME NEW s, IsMachine(s), NEW a, a.names \in Seq(STRING), NEW o, o \in imm_create_zfs_fs_target(s, a)
  PROVE  Grown(s, o.s) /\ (o.ret = "ok" => HasFs(o.s, a))
<1>1. PICK u \in zfm_create_fs(s, a) : o = IF u.ret \in {"ok", "abort"} THEN u ELSE Out(u.s, "TI_E_ZFS_FAILED")
  BY DEF imm_create_zfs_fs_target, As
<1>2. Grown(s, u.s) /\ (u.ret = "ok" => HasFs(u.s, a))
  BY FsGrows DEF HasFs
<1> QED BY <1>1, <1>2 DEF Out

LEMMA VolsMade ==
  ASSUME NEW s, IsMachine(s), NEW a, a.vols \in Seq(STRING), NEW o, o \in imm_create_zfs_vol_target(s, a)
  PROVE  Grown(s, o.s) /\ (o.ret = "ok" => HasVols(o.s, a))
<1>1. PICK u \in zfm_create_volumes(s, a) : o = IF u.ret \in {"ok", "abort"} THEN u ELSE Out(u.s, "TI_E_ZFS_FAILED")
  BY DEF imm_create_zfs_vol_target, As
<1>2. Grown(s, u.s) /\ (u.ret = "ok" => HasVols(u.s, a))
  BY VolsGrow DEF HasVols
<1> QED BY <1>1, <1>2 DEF Out

LEMMA TargetMade ==
  ASSUME NEW s, Early(s), NEW a, AttrsOK(a), a.type = "none", NEW o, o \in ti_create_implicit_target(s, a)
  PROVE  Early(o.s) \/ (IsMachine(o.s) /\ Whole(o.s, a))
<1> DEFINE Fdisk(w) == IF imm_skip_disk_module(a) THEN Done(w)
                       ELSE Then(As("TI_E_FDISK_FAILED", imm_create_fdisk_target(w, a)),
                                 LAMBDA x : ti_report_progress(x, a, 1))
           Vtoc(w)  == IF imm_skip_disk_module(a) THEN Done(w)
                       ELSE Then(imm_create_vtoc_target(w, a), LAMBDA x : ti_report_progress(x, a, 2))
           Pool(w)  == Then(imm_create_zfs_rpool_target(w, a), LAMBDA x : ti_report_progress(x, a, 3))
           Fs(w)    == imm_create_zfs_fs_target(w, a)
           Vols(w)  == Then(imm_create_zfs_vol_target(w, a), LAMBDA x : ti_report_progress(x, a, 4))
           fdisk == Fdisk(s)
           vtoc == Then(fdisk, Vtoc)
           pool == Then(vtoc, Pool)
           fs == Then(pool, Fs)
<1>1. ti_create_implicit_target(s, a) = Then(fs, Vols)
  BY DEF ti_create_implicit_target
<1>2. ASSUME NEW w, Early(w), NEW outs, \A u \in outs : Kept(w, u.s), NEW ms \in {1, 2, 3},
             NEW u, u \in Then(outs, LAMBDA x : ti_report_progress(x, a, ms))
      PROVE  Early(u.s)
  <2>1. PICK v \in outs : u \in IF v.ret = "ok" THEN ti_report_progress(v.s, a, ms) ELSE {v}
    BY <1>2 DEF Then
  <2>2. Early(v.s)
    BY <1>2, KeptIsEarly
  <2> QED BY <2>1, <2>2, EarlyReport
<1>3. ASSUME NEW w, Early(w) PROVE \A u \in Done(w) : Early(u.s)
  BY <1>3 DEF Done, Out
<1>4. ASSUME NEW u, u \in fdisk PROVE Early(u.s)
  <2>1. CASE imm_skip_disk_module(a)
    BY <1>3, <1>4, <2>1
  <2>2. CASE ~imm_skip_disk_module(a)
    <3>1. \A v \in imm_create_fdisk_target(s, a) : Grown(s, v.s)
      BY FdiskGrows DEF Early
    <3>2. \A v \in As("TI_E_FDISK_FAILED", imm_create_fdisk_target(s, a)) : Kept(s, v.s)
      BY <3>1, AnswersGrow DEF Grown
    <3>3. u \in Then(As("TI_E_FDISK_FAILED", imm_create_fdisk_target(s, a)), LAMBDA x : ti_report_progress(x, a, 1))
      BY <1>4, <2>2
    <3> QED BY <1>2, <3>2, <3>3
  <2> QED BY <2>1, <2>2
<1>5. ASSUME NEW w, Early(w), NEW u, u \in Vtoc(w) PROVE Early(u.s)
  <2>1. CASE imm_skip_disk_module(a)
    BY <1>3, <1>5, <2>1
  <2>2. CASE ~imm_skip_disk_module(a)
    <3>1. ~a.default => SlicesListed(a.slices)
      BY <2>2 DEF AttrsOK
    <3>2. \A v \in imm_create_vtoc_target(w, a) : Kept(w, v.s)
      BY <1>5, <3>1, VtocGrows DEF Early, Grown
    <3>3. u \in Then(imm_create_vtoc_target(w, a), LAMBDA x : ti_report_progress(x, a, 2))
      BY <1>5, <2>2
    <3> QED BY <1>2, <1>5, <3>2, <3>3
  <2> QED BY <2>1, <2>2
<1>6. ASSUME NEW w, Early(w), NEW u, u \in Pool(w) PROVE Early(u.s) /\ (u.ret = "ok" => HasPool(u.s, a))
  <2> DEFINE Told(x) == ti_report_progress(x, a, 3)
  <2>1. PICK v \in imm_create_zfs_rpool_target(w, a) : u \in IF v.ret = "ok" THEN Told(v.s) ELSE {v}
    BY <1>6 DEF Then
  <2>2. Kept(w, v.s) /\ (v.ret = "ok" => HasPool(v.s, a))
    BY <1>6, PoolMade DEF Early, HasPool
  <2>3. Early(v.s)
    BY <1>6, <2>2, KeptIsEarly
  <2> QED BY <2>1, <2>2, <2>3, EarlyReport
<1>7. ASSUME NEW w, Early(w), HasPool(w, a), NEW u, u \in Fs(w)
      PROVE  Early(u.s) /\ HasPool(u.s, a) /\ (u.ret = "ok" => HasFs(u.s, a))
  <2>1. Grown(w, u.s) /\ (u.ret = "ok" => HasFs(u.s, a))
    BY <1>7, FsMade DEF Early, AttrsOK
  <2> QED BY <1>7, <2>1, GrownHas, KeptIsEarly DEF Grown
<1>8. ASSUME NEW w, Early(w), HasPool(w, a), HasFs(w, a), NEW u, u \in Vols(w)
      PROVE  Early(u.s) \/ (IsMachine(u.s) /\ Whole(u.s, a))
  <2> DEFINE Told(x) == ti_report_progress(x, a, 4)
  <2>1. PICK v \in imm_create_zfs_vol_target(w, a) : u \in IF v.ret = "ok" THEN Told(v.s) ELSE {v}
    BY <1>8 DEF Then
  <2>2. Grown(w, v.s) /\ (v.ret = "ok" => HasVols(v.s, a))
    BY <1>8, VolsMade DEF Early, AttrsOK
  <2>3. Early(v.s) /\ IsMachine(v.s) /\ HasPool(v.s, a) /\ HasFs(v.s, a)
    BY <1>8, <2>2, GrownHas, KeptIsEarly DEF Grown, Early
  <2>4. CASE v.ret # "ok"
    BY <2>1, <2>3, <2>4
  <2>5. CASE v.ret = "ok"
    <3>1. IsMachine(u.s) /\ u.s.pools = v.s.pools /\ u.s.datasets = v.s.datasets
      BY <2>1, <2>3, <2>5, Reported
    <3> QED BY <2>2, <2>3, <2>5, <3>1 DEF Whole, HasPool, HasFs, HasVols
  <2> QED BY <2>4, <2>5
<1> HIDE DEF fdisk, Fdisk, Vtoc, Pool, Fs, Vols
<1>9. ASSUME NEW u, u \in vtoc PROVE Early(u.s)
  <2>1. PICK w \in fdisk : u \in IF w.ret = "ok" THEN Vtoc(w.s) ELSE {w}
    BY <1>9 DEF Then
  <2> QED BY <1>4, <1>5, <2>1
<1> HIDE DEF vtoc
<1>10. ASSUME NEW u, u \in pool PROVE Early(u.s) /\ (u.ret = "ok" => HasPool(u.s, a))
  <2>1. PICK w \in vtoc : u \in IF w.ret = "ok" THEN Pool(w.s) ELSE {w}
    BY <1>10 DEF Then
  <2> QED BY <1>6, <1>9, <2>1
<1> HIDE DEF pool
<1>11. ASSUME NEW u, u \in fs PROVE Early(u.s) /\ (u.ret = "ok" => HasPool(u.s, a) /\ HasFs(u.s, a))
  <2>1. PICK w \in pool : u \in IF w.ret = "ok" THEN Fs(w.s) ELSE {w}
    BY <1>11 DEF Then
  <2> QED BY <1>7, <1>10, <2>1
<1> HIDE DEF fs
<1>12. PICK w \in fs : o \in IF w.ret = "ok" THEN Vols(w.s) ELSE {w}
  BY <1>1 DEF Then
<1> QED BY <1>8, <1>11, <1>12

LEMMA TargetsMade ==
  ASSUME NEW s, Early(s), NEW a, AttrsOK(a), NEW o, o \in ti_create_target(s, a)
  PROVE  IsMachine(o.s) /\ (a.type = "none" => Early(o.s) \/ Whole(o.s, a))
<1>1. IsMachine(s)
  BY DEF Early
<1>2. CASE a.type = "none"
  <2>1. o \in ti_create_implicit_target(s, a)
    BY <1>2 DEF ti_create_target
  <2> QED BY <1>2, <2>1, TargetMade DEF Early
<1>3. CASE a.type # "none"
  <2> SUFFICES IsMachine(o.s)
    BY <1>3
  <2>1. CASE a.type = "FDISK"
    <3>1. o \in imm_create_fdisk_target(s, a)
      BY <2>1 DEF ti_create_target
    <3> QED BY <1>1, <3>1, FdiskGrows DEF Grown, Kept
  <2>2. CASE a.type = "VTOC"
    <3>1. o \in imm_create_vtoc_target(s, a)
      BY <2>2 DEF ti_create_target
    <3>2. ~a.default => SlicesListed(a.slices)
      BY <2>2 DEF AttrsOK
    <3> QED BY <1>1, <3>1, <3>2, VtocGrows DEF Grown, Kept
  <2>3. CASE a.type = "ZFS_RPOOL"
    <3>1. o \in imm_create_zfs_rpool_target(s, a)
      BY <2>3 DEF ti_create_target
    <3> QED BY <1>1, <3>1, PoolMade DEF Kept
  <2>4. CASE a.type = "ZFS_FS"
    <3>1. o \in imm_create_zfs_fs_target(s, a)
      BY <2>4 DEF ti_create_target
    <3> QED BY <1>1, <3>1, FsMade DEF AttrsOK, Grown, Kept
  <2>5. CASE a.type = "ZFS_VOLUME"
    <3>1. o \in imm_create_zfs_vol_target(s, a)
      BY <2>5 DEF ti_create_target
    <3> QED BY <1>1, <3>1, VolsMade DEF AttrsOK, Grown, Kept
  <2>6. CASE a.type = "BE"
    <3>1. o \in imm_create_be_target(s, a)
      BY <2>6 DEF ti_create_target
    <3> QED BY <1>1, <3>1, BeGrows DEF AttrsOK, Grown, Kept
  <2>7. CASE a.type = "DC_UFS"
    <3>1. o \in ti_create_directory(s, a)
      BY <2>7 DEF ti_create_target
    <3> QED BY <1>1, <3>1, DirectoryMade DEF Kept
  <2>8. CASE a.type = "DC_RAMDISK"
    <3>1. o \in ti_create_ramdisk(s, a)
      BY <2>8 DEF ti_create_target
    <3> QED BY <1>1, <3>1, RamdiskMade DEF Kept
  <2>9. CASE a.type \notin {"FDISK", "VTOC", "ZFS_RPOOL", "ZFS_FS", "ZFS_VOLUME", "BE", "DC_UFS", "DC_RAMDISK"}
    <3>1. o \in Unsupported(s) \/ o = Out(s, "TI_E_TARGET_UNKNOWN")
      BY <1>3, <2>9 DEF ti_create_target
    <3> QED BY <1>1, <3>1 DEF Unsupported, Out
  <2> QED BY <2>1, <2>2, <2>3, <2>4, <2>5, <2>6, <2>7, <2>8, <2>9
<1> QED BY <1>2, <1>3

LEMMA TargetsReleased ==
  ASSUME NEW s, IsMachine(s), NEW a, NEW o, o \in ti_release_target(s, a)
  PROVE  IsMachine(o.s)
<1>1. CASE a.type = "ZFS_RPOOL"
  <2>1. o \in imm_release_zfs_rpool_target(s, a)
    BY <1>1 DEF ti_release_target
  <2> QED BY <2>1, PoolReleased DEF Kept
<1>2. CASE a.type = "DC_RAMDISK"
  <2>1. o \in ti_release_ramdisk(s, a)
    BY <1>2 DEF ti_release_target
  <2> QED BY <2>1, RamdiskReleased DEF Kept
<1>3. CASE a.type \notin {"ZFS_RPOOL", "DC_RAMDISK"}
  <2>1. o = Out(s, "TI_E_TARGET_UNKNOWN") \/ o \in Unsupported(s)
    BY <1>3 DEF ti_release_target
  <2> QED BY <2>1 DEF Unsupported, Out
<1> QED BY <1>1, <1>2, <1>3

(* A last report of 4 is one of a whole target.                            *)
LEMMA WholeIsAll ==
  ASSUME NEW s, NEW a, AttrsOK(a), Whole(s, a)
  PROVE  \A name \in ToSet(a.names \o a.vols) : Dataset(a.pool, name) \in s.datasets
<1> DEFINE n == a.names
           v == a.vols
<1>1. n \in Seq(STRING) /\ v \in Seq(STRING)
  BY DEF AttrsOK
<1>2. /\ DOMAIN (n \o v) = 1..(Len(n) + Len(v))
      /\ \A i \in 1..(Len(n) + Len(v)) : (n \o v)[i] = IF i <= Len(n) THEN n[i] ELSE v[i - Len(n)]
      /\ Len(n) \in Nat /\ Len(v) \in Nat
  <2> HIDE DEF n, v
  <2> QED BY <1>1
<1> HIDE DEF n, v
<1>3. ASSUME NEW i \in 1..(Len(n) + Len(v)) PROVE Dataset(a.pool, (n \o v)[i]) \in s.datasets
  <2>1. CASE i <= Len(n)
    <3>1. i \in 1..Len(n) /\ (n \o v)[i] = n[i]
      BY <1>2, <2>1
    <3> QED BY <3>1 DEF Whole, HasFs, n
  <2>2. CASE ~(i <= Len(n))
    <3>1. i - Len(n) \in 1..Len(v) /\ (n \o v)[i] = v[i - Len(n)]
      BY <1>2, <2>2
    <3> QED BY <3>1 DEF Whole, HasVols, v
  <2> QED BY <2>1, <2>2
<1>4. \A name \in ToSet(n \o v) : \E i \in DOMAIN (n \o v) : name = (n \o v)[i]
  BY DEF ToSet
<1>5. \A name \in ToSet(n \o v) : Dataset(a.pool, name) \in s.datasets
  BY <1>2, <1>3, <1>4
<1> QED BY <1>5 DEF n, v

LEMMA EarlyIsNotLast ==
  ASSUME NEW s, Early(s), s.progress # <<>>
  PROVE  Last(s.progress) # 4
<1>1. s.progress \in Seq({1, 2, 3})
  BY DEF Early
<1>2. Len(s.progress) \in 1..Len(s.progress)
  BY <1>1
<1>3. s.progress[Len(s.progress)] \in {1, 2, 3}
  BY <1>1, <1>2
<1> QED BY <1>3 DEF Last

(* Every call of the library leaves a machine as it may be found.          *)
TiInv == IsMachine(ti) /\ ReportedTargetsExist

LEMMA TiInvInit == TiInit => TiInv
BY TiCallersAssumption DEF TiInit, TiInv, NoCall, ReportedTargetsExist

LEMMA TiInvStep ==
  ASSUME TiInv, [TiNext]_tiVars
  PROVE  TiInv'
<1>1. CASE UNCHANGED tiVars
  BY <1>1 DEF TiInv, tiVars, ReportedTargetsExist
<1>2. CASE TiNext
  <2>0. IsMachine(ti)
    BY DEF TiInv
  <2>1. PICK a \in TiAttrs :
          \/ \E o \in ti_create_target([ti EXCEPT !.progress = <<>>], a) : TiStep("create", a, o)
          \/ \E o \in ti_release_target(ti, a) : TiStep("release", a, o)
          \/ TiStep("exists", a, Out(ti, IF ti_target_exists(ti, a) THEN "ok" ELSE "no"))
    BY <1>2 DEF TiNext
  <2>2. AttrsOK(a)
    BY TiCallersAssumption
  <2>3. ASSUME NEW o \in ti_create_target([ti EXCEPT !.progress = <<>>], a), TiStep("create", a, o)
        PROVE  TiInv'
    <3> DEFINE s == [ti EXCEPT !.progress = <<>>]
    <3>1. Early(s)
      <4>1. IsMachine(s) /\ s.progress = <<>>
        BY <2>0 DEF IsMachine, Typed, TiFields, VolumesAreThere, NotForgotten
      <4> HIDE DEF s
      <4> QED BY <4>1 DEF Early
    <3> HIDE DEF s
    <3>2. IsMachine(o.s) /\ (a.type = "none" => Early(o.s) \/ Whole(o.s, a))
      BY <2>2, <2>3, <3>1, TargetsMade DEF s
    <3>3. ti' = o.s /\ tiLast'.attrs = a
      BY <2>3 DEF TiStep
    <3>4. ASSUME a.type = "none", o.s.progress # <<>>, Last(o.s.progress) = 4
          PROVE  /\ a.pool \in o.s.pools \/ ~a.device
                 /\ \A name \in ToSet(a.names \o a.vols) : Dataset(a.pool, name) \in o.s.datasets
      <4>1. Whole(o.s, a)
        BY <3>2, <3>4, EarlyIsNotLast
      <4> QED BY <2>2, <4>1, WholeIsAll DEF Whole, HasPool
    <3>5. ReportedTargetsExist'
      BY <3>3, <3>4 DEF ReportedTargetsExist
    <3>6. IsMachine(ti)'
      BY <3>2, <3>3 DEF IsMachine, Typed, VolumesAreThere, NotForgotten
    <3> QED BY <3>5, <3>6 DEF TiInv
  <2>4. ASSUME NEW o \in ti_release_target(ti, a), TiStep("release", a, o)
        PROVE  TiInv'
    <3>1. IsMachine(o.s)
      BY <2>0, TargetsReleased
    <3>2. ti' = o.s /\ tiLast'.op = "release"
      BY <2>4 DEF TiStep
    <3>3. IsMachine(ti)'
      BY <3>1, <3>2 DEF IsMachine, Typed, VolumesAreThere, NotForgotten
    <3> QED BY <3>2, <3>3 DEF TiInv, ReportedTargetsExist
  <2>5. ASSUME TiStep("exists", a, Out(ti, IF ti_target_exists(ti, a) THEN "ok" ELSE "no"))
        PROVE  TiInv'
    <3>1. ti' = ti /\ tiLast'.op = "exists"
      BY <2>5 DEF TiStep, Out
    <3>2. IsMachine(ti)'
      BY <2>0, <3>1 DEF IsMachine, Typed, VolumesAreThere, NotForgotten
    <3> QED BY <3>1, <3>2 DEF TiInv, ReportedTargetsExist
  <2> QED BY <2>1, <2>3, <2>4, <2>5
<1> QED BY <1>1, <1>2

LEMMA AccountedMachine ==
  ASSUME TiInv
  PROVE  DevicesAreAccounted
<1>1. TiTypeOK /\ NoDeviceIsForgotten /\ ReportedTargetsExist
  BY DEF TiInv, IsMachine, TiTypeOK, NoDeviceIsForgotten
<1>2. ReleaseMaySucceed
  <2> SUFFICES ASSUME NEW a \in {b \in TiAttrs : b.type = "ZFS_RPOOL"}, Releasable(ti, a.pool)
               PROVE  \E o \in ti_release_target(ti, a) : o.ret = "ok" /\ a.pool \notin o.s.pools
    BY DEF ReleaseMaySucceed
  <2>1. a.pool # "none" /\ <<a.pool, a.pool>> \in Begins
    BY TiCallersAssumption DEF AttrsOK
  <2> QED BY <2>1, ReleaseWorks DEF TiInv
<1> QED BY <1>1, <1>2 DEF DevicesAreAccounted

(* A target that was reported as made is there, file systems, volumes and  *)
(* pool; whatever failed, a pool that only its own volumes keep busy can   *)
(* still be released, and no device of a ramdisk is left attached and      *)
(* forgotten, after any calls of the library (ti_create_target,            *)
(* zfm_release_pool, dcm_create_ramdisk).                                  *)
THEOREM DevicesAlwaysAccounted == TiSpec => []DevicesAreAccounted
<1>1. TiInv /\ [TiNext]_tiVars => TiInv'
  BY TiInvStep
<1> QED BY <1>1, TiInvInit, AccountedMachine, PTL DEF TiSpec

-----------------------------------------------------------------------------
(* The library called for what the editors set: it makes no whole target   *)
(* and no ramdisk, so every call leaves a machine as it may be found.      *)
DtMachine == IsMachine(ti) /\ tiLast.op # "create"

LEMMA DtMachineInit ==
  ASSUME DtInit
  PROVE  DtMachine
<1>1. IsMachine(Machine(OnDisk(dpFound)))
  <2> PICK parts, m : parts = OnDisk(dpFound) /\ m = Machine(parts)
    OBVIOUS
  <2>1. DOMAIN m = TiFields /\ m = [x \in DOMAIN m |-> m[x]]
    BY DEF Machine, TiFields
  <2>2. /\ m.mounted = {} /\ m.swap = {} /\ m.dump = NoDump /\ m.pools = {} /\ m.busy = {} /\ m.datasets = {}
        /\ m.vtoc = [i \in SliceIds |-> NoSlice] /\ ~m.lofi /\ ~m.file /\ ~m.dir /\ ~m.rmounted
        /\ {m.lofi, m.file, m.dir, m.rmounted} \subseteq BOOLEAN
    BY DEF Machine
  <2>3. \A i \in SliceIds : m.vtoc[i].start \in Nat /\ m.vtoc[i].size \in Nat
    BY <2>2 DEF NoSlice
  <2>4. Typed(m)
    BY <2>1, <2>2, <2>3 DEF Typed
  <2>5. VolumesAreThere(m) /\ NotForgotten(m)
    BY <2>2 DEF VolumesAreThere, NotForgotten, NoDump
  <2> QED BY <2>4, <2>5 DEF IsMachine
<1>2. ti = Machine(OnDisk(dpFound)) /\ tiLast.op # "create"
  BY DEF DtInit, NoCall
<1> QED BY <1>1, <1>2 DEF DtMachine

LEMMA DtMachineStep ==
  ASSUME SlInv, DtMachine, [DtNext]_dtVars
  PROVE  DtMachine'
<1>1. CASE UNCHANGED tiVars
  BY <1>1 DEF DtMachine, tiVars
<1>2. CASE CommitFdisk
  <2> PICK s, a : s = ti /\ a = FdiskAttrs
    OBVIOUS
  <2>1. a.type = "FDISK"
    BY DEF FdiskAttrs
  <2>2. PICK o \in ti_create_target(s, a) : TiStep(a.type, "none", o)
    BY <1>2 DEF CommitFdisk, TiSaid
  <2>3. o \in imm_create_fdisk_target(s, a)
    BY <2>1, <2>2 DEF ti_create_target
  <2>4. IsMachine(o.s)
    BY <2>3, FdiskGrows DEF DtMachine, Grown, Kept
  <2> QED BY <2>1, <2>2, <2>4 DEF TiStep, DtMachine
<1>3. CASE CommitVtoc
  <2> PICK s, a : s = ti /\ a = VtocAttrs
    OBVIOUS
  <2>1. a.type = "VTOC" /\ a.default = slAsked.default /\ a.slices = Listed(slAsked.slices)
    BY DEF VtocAttrs, Listed
  <2>2. PICK o \in ti_create_target(s, a) : TiStep(a.type, "none", o)
    BY <1>3 DEF CommitVtoc, TiSaid
  <2>3. o \in imm_create_vtoc_target(s, a)
    BY <2>1, <2>2 DEF ti_create_target
  <2>4. ASSUME ~a.default PROVE SlicesListed(a.slices)
    <3> PICK t : t = slTable
      OBVIOUS
    <3>1. a.slices = Listed(t) /\ SlicesOK(t)
      BY <1>3, <2>1, <2>4 DEF CommitVtoc, SlInv, ListedAsIs, IsSl, Sl
    <3>2. \A i \in DOMAIN t : t[i].off \in Nat /\ t[i].size \in Nat
      BY <3>1, DpAssumption DEF SlicesOK, Unsigned
    <3> QED BY <3>1, <3>2 DEF SlicesListed, Listed
  <2>5. IsMachine(o.s)
    BY <2>3, <2>4, VtocGrows DEF DtMachine, Grown, Kept
  <2> QED BY <2>1, <2>2, <2>5 DEF TiStep, DtMachine
<1> QED BY <1>1, <1>2, <1>3
    DEF DtNext, PartEdit, SliceEdit, SetFdisk, Target, SetVtoc, dtVars

(* The same when the library is called for what was edited: whatever the   *)
(* editors set as attributes and whichever command fails, each call leaves *)
(* a machine on which a later release can still end every use of a pool    *)
(* (imm_create_fdisk_target, imm_create_vtoc_target, zfm_release_pool).    *)
THEOREM EditedDevicesAlwaysAccounted ==
  DtSpec => []DevicesAreAccounted
<1>1. DtMachine => DevicesAreAccounted
  <2> SUFFICES ASSUME DtMachine PROVE DevicesAreAccounted
    OBVIOUS
  <2>1. TiInv
    BY DEF DtMachine, TiInv, ReportedTargetsExist
  <2> QED BY <2>1, AccountedMachine
<1> QED BY <1>1, DtMachineInit, DtMachineStep, SlInvHolds, PTL DEF DtSpec

-----------------------------------------------------------------------------
(* The sizes of the swap and dump volumes.                                 *)

(* The bounds are numbers, in this order.                                  *)
LEMMA Bounds ==
  MinSwap \in Nat /\ MaxSwap \in Nat /\ MinSwap <= MaxSwap /\ MinDump \in Nat /\ MaxDump \in Nat /\ MinDump <= MaxDump
BY SMT DEF MinSwap, MaxSwap, MinDump, MaxDump

(* A requested size for which there is space is used as it is.             *)
LEMMA RequestedSize ==
  ASSUME NEW r \in Nat, r > 0, NEW mem, NEW needed, NEW lo, NEW hi, NEW space \in Int, r <= space
  PROVE  CalcSize(r, mem, needed, space, lo, hi) = r
<1>1. Least(r, space) = r  BY DEF Least
<1>2. Limit(r, 1, r) = r   BY DEF Limit
<1> QED  BY <1>1, <1>2 DEF CalcSize

(* A default size is a default size: at least the minimum, and above the   *)
(* space there is only when it is that.                                    *)
IsDefault(size, space, lo) == size \in Nat /\ size >= lo /\ (size <= space \/ size = lo)

LEMMA DefaultSize ==
  ASSUME NEW r \in Int, r <= 0, NEW mem \in Nat, NEW needed \in Nat, NEW space \in Int,
         NEW lo \in Nat, NEW hi \in Nat, lo <= hi
  PROVE  IsDefault(CalcSize(r, mem, needed, space, lo, hi), space, lo)
<1> USE DEF IsDefault
<1> DEFINE half == mem \div 2
           wanted == IF half < needed THEN needed ELSE half
<1>1. CASE mem = 0
  BY <1>1 DEF CalcSize
<1>2. CASE mem # 0
  <2>1. CalcSize(r, mem, needed, space, lo, hi) = Limit(Least(wanted, space), lo, hi)
    BY <1>2 DEF CalcSize
  <2>2. wanted \in Int
    OBVIOUS
  <2>3. Least(wanted, space) \in Int /\ Least(wanted, space) <= space
    BY <2>2 DEF Least
  <2>4. \A v \in Int : v <= space =>
          /\ Limit(v, lo, hi) \in Nat /\ Limit(v, lo, hi) >= lo
          /\ Limit(v, lo, hi) <= space \/ Limit(v, lo, hi) = lo
    BY DEF Limit
  <2> QED  BY ONLY <2>1, <2>3, <2>4
<1> QED  BY <1>1, <1>2

(* Two thirds and one third of the space do not exceed it, and the one is  *)
(* below its minimum exactly when the other is.                            *)
LEMMA Shares ==
  ASSUME NEW space \in Nat
  PROVE  LET s == (space * MinSwap) \div (MinSwap + MinDump)
             d == (space * MinDump) \div (MinSwap + MinDump)
         IN  s \in Nat /\ d \in Nat /\ s + d <= space /\ (s < MinSwap <=> d < MinDump)
BY SMT DEF MinSwap, MinDump

-----------------------------------------------------------------------------
(* The volumes of an installation that is not refused: sizes, their sum,   *)
(* and the requests.                                                       *)
EngineVolumes(c, space) == LET v == FullVolumes(c, space) IN
  /\ v \in [swap : Nat, dump : Nat]
  /\ \/ v.swap + v.dump <= space
     \/ v.swap <= MinSwap /\ v.dump <= MinDump
  /\ Granted(c.dump, MinDump, v.dump)
  /\ ~SwapSlice(c.mem) => Granted(c.swap, MinSwap, v.swap)

LEMMA RequiredIsNat ==
  ASSUME NEW mem \in Nat
  PROVE  Required(mem) \in Nat
BY SMT DEF Required

LEMMA DefaultSwap ==
  ASSUME NEW c, c.swap \in Int, c.swap <= 0, c.mem \in Nat, NEW space \in Int
  PROVE  IsDefault(SwapSize(c, space), space, MinSwap)
<1>1. Required(c.mem) \in Nat
  BY RequiredIsNat
<1> QED  BY <1>1, Bounds, DefaultSize DEF SwapSize

LEMMA DefaultDump ==
  ASSUME NEW c, c.dump \in Int, c.dump <= 0, c.mem \in Nat, NEW space \in Int
  PROVE  IsDefault(DumpSize(c, space), space, MinDump)
BY Bounds, DefaultSize DEF DumpSize

LEMMA FullVolumesAreRight ==
  ASSUME NEW c \in CaseSet, NEW space \in Nat, Fits(c, space)
  PROVE  EngineVolumes(c, space)
<1> DEFINE S == SpaceForSwap(c, space)
           D == SpaceForDump(c, space)
           s == SwapSize(c, S)
           d == DumpSize(c, D)
<1>t. c.swap \in Int /\ c.dump \in Int /\ c.mem \in Nat /\ Required(c.mem) \in Nat /\ IntMax \in Nat
  <2>1. IntMax \in Nat
    BY SMT DEF IntMax
  <2>2. c.swap \in Request /\ c.dump \in Request /\ c.mem \in Nat
    BY SMT DEF CaseSet
  <2>3. Request \subseteq Int
    BY <2>1, SMT DEF Request
  <2> QED  BY <2>1, <2>2, <2>3, RequiredIsNat
<1>1. S \in Int /\ D \in Int
  <2>1. (space * MinSwap) \div (MinSwap + MinDump) \in Nat /\ (space * MinDump) \div (MinSwap + MinDump) \in Nat
    BY Shares
  <2> QED BY <1>t, <2>1, SMT DEF SpaceForSwap, SpaceForDump
<1>2. c.swap > 0 => S >= c.swap /\ s = c.swap
  <2> SUFFICES ASSUME c.swap > 0 PROVE S >= c.swap /\ s = c.swap
    OBVIOUS
  <2>1. S >= c.swap
    BY <1>t, SMT DEF SpaceForSwap, Fits, TooMuch
  <2> QED  BY <1>t, <1>1, <2>1, RequestedSize, SMT DEF SwapSize
<1>3. c.dump > 0 => D >= c.dump /\ d = c.dump
  <2> SUFFICES ASSUME c.dump > 0 PROVE D >= c.dump /\ d = c.dump
    OBVIOUS
  <2>1. D >= c.dump
    BY <1>t, SMT DEF SpaceForDump, Fits, TooMuch
  <2> QED  BY <1>t, <1>1, <2>1, RequestedSize, SMT DEF DumpSize
<1>4. c.swap <= 0 => s \in Nat /\ s >= MinSwap /\ (s <= S \/ s = MinSwap)
  <2> HIDE DEF S
  <2> QED  BY <1>t, <1>1, DefaultSwap DEF IsDefault
<1>5. c.dump <= 0 => d \in Nat /\ d >= MinDump /\ (d <= D \/ d = MinDump)
  <2> HIDE DEF D
  <2> QED  BY <1>t, <1>1, DefaultDump DEF IsDefault
<1> DEFINE v == FullVolumes(c, space)
<1>6. /\ v = [swap |-> v.swap, dump |-> v.dump]
      /\ v.swap = IF SwapSlice(c.mem) \/ c.swap = 0 THEN 0 ELSE s
      /\ v.dump = IF c.dump = 0 THEN 0 ELSE d
  BY DEF FullVolumes
<1> HIDE DEF S, D, s, d, v
<1>7. s \in Nat /\ d \in Nat
  BY <1>t, <1>2, <1>3, <1>4, <1>5, Bounds, SMT
<1>8. v \in [swap : Nat, dump : Nat]
  BY <1>6, <1>7, SMT
<1>9. v.swap + v.dump <= space \/ (v.swap <= MinSwap /\ v.dump <= MinDump)
  <2>1. CASE c.swap >= 0 /\ c.dump >= 0
    <3>1. c.swap + c.dump <= space /\ S = space - c.dump /\ D = space - c.swap
      BY <1>t, <2>1, SMT DEF Fits, TooMuch, SpaceForSwap, SpaceForDump, S, D
    <3> QED  BY <1>t, <1>2, <1>3, <1>6, <1>7, <2>1, <3>1, SMT
  <2>2. CASE c.swap >= 0 /\ c.dump < 0
    <3>1. S = c.swap /\ D = space - c.swap /\ (c.swap > 0 => c.swap + MinDump <= space)
      BY <1>t, <2>2, SMT DEF Fits, TooMuch, SpaceForSwap, SpaceForDump, S, D, MinDump
    <3> QED  BY <1>t, <1>2, <1>5, <1>6, <1>7, <2>2, <3>1, Bounds, SMT
  <2>3. CASE c.swap < 0 /\ c.dump >= 0
    <3>1. S = space - c.dump /\ (c.dump > 0 => c.dump + MinSwap <= space)
      BY <1>t, <2>3, SMT DEF Fits, TooMuch, SpaceForSwap, SpaceForDump, S, D, MinSwap
    <3> QED  BY <1>t, <1>3, <1>4, <1>6, <1>7, <2>3, <3>1, Bounds, SMT
  <2>4. CASE c.swap < 0 /\ c.dump < 0
    <3>1. S \in Nat /\ D \in Nat /\ S + D <= space /\ (S < MinSwap <=> D < MinDump)
      BY <1>t, <2>4, Shares, SMT DEF SpaceForSwap, SpaceForDump, S, D
    <3> QED  BY <1>t, <1>4, <1>5, <1>6, <1>7, <2>4, <3>1, Bounds, SMT
  <2> QED  BY <1>t, <2>1, <2>2, <2>3, <2>4, SMT
<1>10. Granted(c.dump, MinDump, v.dump) /\ (~SwapSlice(c.mem) => Granted(c.swap, MinSwap, v.swap))
  BY <1>t, <1>2, <1>3, <1>4, <1>5, <1>6, Bounds, SMT DEF Granted, SwapSlice
<1> QED  BY <1>8, <1>9, <1>10, SMT DEF EngineVolumes, v

(* The text installer keeps its volumes and its reserve within the pool.   *)
LEMMA TextVolumesFit ==
  ASSUME NEW c \in CaseSet, c.avail >= TextMinimum(c)
  PROVE  LET v == [w \in {"swap", "dump"} |-> MadeSize(TextVolumes(c)[w])]
         IN  v \in [swap : Nat, dump : Nat] /\ v.swap + v.dump + c.image + Overhead <= c.avail
<1> DEFINE free == c.avail - TextMinimum(c)
           t == TextVolumes(c)
           half == (free * MinSwap) \div (MinSwap + MinDump)
           rest == (free * MinDump) \div (MinSwap + MinDump)
<1>1. c.avail \in Nat /\ c.image \in Nat /\ c.mem \in Nat
  BY SMT DEF CaseSet
<1>2. TextRequired(c.mem) \in Nat /\ free \in Nat /\ c.avail = free + c.image + 1024 + TextRequired(c.mem)
  BY <1>1, Bounds, SMT DEF TextRequired, TextMinimum, Overhead
<1>3. half \in Nat /\ rest \in Nat /\ half + rest <= free
  BY <1>2, Shares
<1>4. ASSUME NEW space \in Nat, NEW lo \in Nat, NEW hi \in Nat
      PROVE  /\ MadeSize(TextSize(c.mem, space, lo, hi)) \in Nat
             /\ MadeSize(TextSize(c.mem, space, lo, hi)) <= space
  <2> DEFINE size == IF c.mem < lo THEN lo ELSE Least(c.mem \div 2, hi)
  <2>1. size \in Int
    BY <1>1, SMT DEF Least
  <2>2. TextSize(c.mem, space, lo, hi) = IF space = 0 THEN 0 ELSE IF space < size THEN space - 1024 ELSE size
    BY DEF TextSize
  <2> HIDE DEF size
  <2> QED  BY <2>1, <2>2, SMT DEF MadeSize, Made
<1>5. /\ [w \in {"swap", "dump"} |-> MadeSize(t[w])] =
            [swap |-> MadeSize(t.swap), dump |-> MadeSize(t.dump)]
  OBVIOUS
<1>6. /\ MadeSize(t.swap) \in Nat /\ MadeSize(t.dump) \in Nat
      /\ MadeSize(t.swap) + MadeSize(t.dump) <= free + TextRequired(c.mem)
  <2>1. CASE TextRequired(c.mem) # 0
    <3>1. t.swap = TextRequired(c.mem) /\ t.dump = TextSize(c.mem, free, MinDump, MaxDump)
      BY <2>1 DEF TextVolumes
    <3>2. MadeSize(t.dump) \in Nat /\ MadeSize(t.dump) <= free
      <4>1. free \in Nat
        BY <1>2
      <4> HIDE DEF free
      <4> QED  BY <1>4, <3>1, <4>1, Bounds
    <3>3. MadeSize(t.swap) = TextRequired(c.mem)
      BY <1>2, <2>1, <3>1, SMT DEF MadeSize, Made
    <3> QED  BY ONLY <1>2, <3>2, <3>3, SMT
  <2>2. CASE TextRequired(c.mem) = 0
    <3>1. t.swap = TextSize(c.mem, half, MinSwap, MaxSwap) /\ t.dump = TextSize(c.mem, rest, MinDump, MaxDump)
      BY <2>2 DEF TextVolumes
    <3>2. MadeSize(t.dump) \in Nat /\ MadeSize(t.dump) <= rest /\ MadeSize(t.swap) \in Nat /\ MadeSize(t.swap) <= half
      BY <1>3, <1>4, <3>1, Bounds
    <3> QED  BY ONLY <1>2, <1>3, <2>2, <3>2, SMT
  <2> QED  BY <2>1, <2>2
<1> HIDE DEF free, t
<1> QED  BY <1>1, <1>2, <1>5, <1>6, SMT DEF Overhead, t
-----------------------------------------------------------------------------
(* What holds of the machine in between: nothing is made before it is      *)
(* decided, and a pool of the text installer is made in one step.          *)
VsInv ==
  /\ VsTypeOK
  /\ vsPc # "made" => vsVolumes = NoVolumes
  /\ VolumesFit /\ RequestsAreGranted

LEMMA SpaceLeftIsNat ==
  ASSUME NEW c \in CaseSet, NEW image \in Nat
  PROVE  SpaceLeft(c, image) \in Nat
<1>1. c.avail \in Nat /\ c.mem \in Nat
  BY SMT DEF CaseSet
<1>2. Required(c.mem) \in Nat
  BY <1>1, RequiredIsNat
<1>3. SoftwareSize(image, c.mem) \in Nat
  BY <1>2, SMT DEF SoftwareSize, MinimumSize
<1> QED  BY <1>1, <1>3, SMT DEF SpaceLeft

LEMMA LookUpKeepsType ==
  ASSUME VsTypeOK, LookUpImage
  PROVE  vsImage' \in [read : BOOLEAN, size : Nat]
<1>1. vsCase.image \in Nat
  BY CasesAssumption, SMT DEF VsTypeOK, CaseSet
<1>2. vsImage \in [read : BOOLEAN, size : Nat]
  BY DEF VsTypeOK
<1>3. CASE UNCHANGED vsImage
  BY <1>2, <1>3
<1>4. CASE vsImage' = [read |-> TRUE, size |-> vsCase.image]
  BY <1>1, <1>4
<1> QED  BY <1>3, <1>4 DEF LookUpImage

(* The machine starts there and every step stays there.                    *)
LEMMA VsInvInit == VsInit => VsInv
<1> SUFFICES ASSUME VsInit PROVE VsInv
  OBVIOUS
<1>1. DefaultImage \in Nat
  BY SMT DEF DefaultImage
<1>2. vsImage \in [read : BOOLEAN, size : Nat] /\ vsVolumes \in [swap : Nat, dump : Nat]
  BY <1>1 DEF VsInit, NoVolumes
<1> QED  BY <1>2 DEF VsInit, VsInv, VsTypeOK, VolumesFit, RequestsAreGranted

LEMMA VsInvDecide ==
  ASSUME VsInv, Decide
  PROVE  VsInv'
<1>1. vsImage' \in [read : BOOLEAN, size : Nat]
  BY LookUpKeepsType DEF VsInv, Decide
<1>2. vsRoom' \in BOOLEAN
  BY DEF Decide
<1> QED  BY <1>1, <1>2 DEF VsInv, VsTypeOK, Decide, VolumesFit, RequestsAreGranted

LEMMA VsInvEngine ==
  ASSUME VsInv, EngineMakes
  PROVE  VsInv'
<1> DEFINE space == SpaceLeft(vsCase, vsImage'.size)
<1>1. vsImage' \in [read : BOOLEAN, size : Nat] /\ vsCase \in CaseSet
  BY LookUpKeepsType, CasesAssumption DEF VsInv, EngineMakes, VsTypeOK
<1>2. space \in Nat
  <2>1. vsImage'.size \in Nat
    BY <1>1
  <2> QED  BY <1>1, <2>1, SpaceLeftIsNat
<1>3. vsCase' = vsCase /\ vsRoom' = vsRoom /\ vsRoom \in BOOLEAN /\ Engine /\ Engine' /\ vsCase \in Cases /\ vsVolumes = NoVolumes
  BY DEF VsInv, VsTypeOK, EngineMakes, Engine
<1>4. CASE vsPc' = "refused" /\ UNCHANGED vsVolumes
  BY <1>1, <1>3, <1>4 DEF VsInv, VsTypeOK, VolumesFit, RequestsAreGranted
<1>5. CASE vsRoom /\ NoneAskedFor(vsCase) /\ vsPc' = "made" /\ UNCHANGED vsVolumes
  <2>1. VsTypeOK'
    BY <1>1, <1>3, <1>5 DEF VsInv, VsTypeOK
  <2>2. VolumesFit'
    BY <1>3, <1>5, SMT DEF VolumesFit, NoVolumes, MinSwap, MinDump
  <2>3. RequestsAreGranted'
    BY <1>3, <1>5, SMT DEF RequestsAreGranted, NoVolumes, NoneAskedFor, Granted
  <2> QED  BY <1>5, <2>1, <2>2, <2>3 DEF VsInv
<1>6. CASE vsRoom /\ Fits(vsCase, space) /\ vsPc' = "made" /\ vsVolumes' = FullVolumes(vsCase, space)
  <2>1. EngineVolumes(vsCase, space)
    BY <1>1, <1>2, <1>6, FullVolumesAreRight
  <2>2. VsTypeOK'
    BY <1>1, <1>3, <1>6, <2>1 DEF VsInv, VsTypeOK, EngineVolumes
  <2>3. VolumesFit' /\ RequestsAreGranted'
    BY <1>3, <1>6, <2>1 DEF VolumesFit, RequestsAreGranted, EngineVolumes
  <2> QED  BY <1>6, <2>2, <2>3 DEF VsInv
<1>7. CASE ~vsRoom /\ vsPc' = "made" /\ (vsVolumes' = MinimalSwap(vsCase) \/ UNCHANGED vsVolumes)
  <2>1. Limit(Required(vsCase.mem), MinSwap, MaxSwap) \in Nat
    <3>1. vsCase.mem \in Nat
      BY <1>1, SMT DEF CaseSet
    <3> QED  BY <3>1, RequiredIsNat, Bounds, SMT DEF Limit
  <2>2. vsVolumes' \in [swap : Nat, dump : Nat]
    BY <1>3, <1>7, <2>1 DEF VsInv, VsTypeOK, MinimalSwap, NoVolumes
  <2> QED  BY <1>1, <1>3, <1>7, <2>2 DEF VsInv, VsTypeOK, VolumesFit, RequestsAreGranted
<1> QED  BY <1>4, <1>5, <1>6, <1>7, <1>3 DEF EngineMakes

LEMMA VsInvText ==
  ASSUME VsInv, TextMakes
  PROVE  VsInv'
<1>1. vsCase' = vsCase /\ vsCase \in CaseSet /\ ~Engine /\ ~Engine' /\ UNCHANGED <<vsImage, vsRoom>>
  BY CasesAssumption DEF VsInv, VsTypeOK, TextMakes, Engine
<1>2. CASE vsPc' = "refused" /\ UNCHANGED vsVolumes
  BY <1>1, <1>2 DEF VsInv, VsTypeOK, VolumesFit, RequestsAreGranted, TextMakes
<1>3. CASE /\ vsCase.avail >= TextMinimum(vsCase) /\ vsPc' = "made"
           /\ vsVolumes' = [v \in {"swap", "dump"} |-> MadeSize(TextVolumes(vsCase)[v])]
  <2>1. vsVolumes' \in [swap : Nat, dump : Nat] /\ vsVolumes'.swap + vsVolumes'.dump + vsCase.image + Overhead <= vsCase.avail
    BY <1>1, <1>3, TextVolumesFit
  <2> QED  BY <1>1, <1>3, <2>1 DEF VsInv, VsTypeOK, VolumesFit, RequestsAreGranted
<1> QED  BY <1>2, <1>3 DEF TextMakes

LEMMA VsInvStep == VsInv /\ [VsNext]_vsVars => VsInv'
<1> SUFFICES ASSUME VsInv, [VsNext]_vsVars PROVE VsInv'
  OBVIOUS
<1>1. CASE UNCHANGED vsVars
  BY <1>1 DEF VsInv, vsVars, VsTypeOK, VolumesFit, RequestsAreGranted, Engine
<1> QED  BY <1>1, VsInvDecide, VsInvEngine, VsInvText DEF VsNext

LEMMA VsSafe == VsSpec => []VsInv
BY VsInvInit, VsInvStep, PTL DEF VsSpec

(* Nothing set aside for the software is taken by swap and dump, whatever  *)
(* the memory, the requests, the image and the disk.                       *)
THEOREM VolumesAlwaysFit == VsSpec => []VolumesFit
<1>1. VsInv => VolumesFit
  BY DEF VsInv
<1> QED  BY <1>1, VsSafe, PTL

(* Every request is granted to the MB, or the installation is refused.     *)
THEOREM RequestsAreAlwaysGranted == VsSpec => []RequestsAreGranted
<1>1. VsInv => RequestsAreGranted
  BY DEF VsInv
<1> QED  BY <1>1, VsSafe, PTL
=============================================================================
