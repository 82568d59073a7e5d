--------------------------- MODULE TdObjectsProofs ---------------------------
(***************************************************************************)
(* The registry of the target discovery library, for every computer, every *)
(* number of calls and every failure: its lists, counters, cursors and     *)
(* descriptors stay right whatever calls were made before, walks meet all  *)
(* that there is, and the lists made for a disk are that disk's.           *)
(***************************************************************************)
EXTENDS TdObjects, FiniteSetTheorems, WellFoundedInduction, TLAPS

-----------------------------------------------------------------------------
(* The registry's invariant: class by class what a list is, then how the    *)
(* lists, the cursors and the flags hang together.                         *)
Listed == {"DISK", "PARTITION", "SLICE"}
Nodes(c) == CASE c = "DISK" -> Drives [] c = "PARTITION" -> Parts [] c \in {"SLICE", "OS"} -> Slices
Words == STRING \cup {"none", "lswap", "unknown"}
Attrs == [name : Seq(Nat), vendor : Words, boot : BOOLEAN, label : SUBSET Words]
Entries(c) == [handle : Nodes(c), attrib : Attrs, done : BOOLEAN]
Lists(c) ==
  [pddm : Seq(Nodes(c)), held : BOOLEAN, arr : Seq(Entries(c)), built : BOOLEAN, cnt : Nat, cur : Nat, issorted : BOOLEAN]

SameHandle(c, g, h) ==
  /\ g.name = h.name /\ g.answers = h.answers
  /\ c # "DISK" => g.of = h.of
  /\ c # "SLICE" => g = h
Handed(c, hs) == Len(hs) = Len(Handles(c)) /\ \A i \in DOMAIN hs : SameHandle(c, hs[i], Handles(c)[i])
EntryIs(c, e) ==
  /\ ~e.done => e.attrib = NoAttr
  /\ e.done => e.attrib = Attributes(c, e.handle) \/ (c = "SLICE" /\ e.attrib = NoAttr)
Proper(c, e) == e \in Entries(c) /\ EntryIs(c, e)
ListIs(c, l) ==
  /\ l.held => Handed(c, l.pddm)
  /\ l.built => l.held /\ l.cnt = Len(l.arr) /\ Len(l.arr) = Len(l.pddm)
  /\ \A i \in DOMAIN l.arr : Proper(c, l.arr[i])
InPlace(l) == \A i \in DOMAIN l.arr : l.arr[i].handle = l.pddm[i]
DisksAre(l) ==
  /\ \A i \in DOMAIN l.arr : \E j \in DOMAIN l.pddm : l.arr[i].handle = l.pddm[j]
  /\ l.built => \A j \in DOMAIN l.pddm : \E i \in DOMAIN l.arr : l.arr[i].handle = l.pddm[j]
  /\ \A i, j \in DOMAIN l.arr : l.arr[i].handle.name = l.arr[j].handle.name => i = j
AllDone(l) == \A i \in DOMAIN l.arr : l.arr[i].done
OsIs(l) == l.pddm = <<>> /\ ~l.held /\ l.cnt \in {0, Len(l.arr)} /\ AllDone(l)
ClassIs(c, l) ==
  /\ l \in Lists(c) /\ l.cur <= Len(l.arr) /\ (~l.built => l.arr = <<>>)
  /\ c \in Listed => ListIs(c, l)
  /\ c \in {"PARTITION", "SLICE"} => InPlace(l)
  /\ c = "DISK" => DisksAre(l)
  /\ c = "OS" => OsIs(l)
IsReg(o) == o = [c \in Classes |-> o[c]] /\ \A c \in Classes : ClassIs(c, o[c])
SortIs(l, a) ==
  /\ a => l.issorted
  /\ l.issorted => l.built /\ IF a THEN InPlace(l) ELSE InOrder(l.arr) /\ AllDone(l)
SearchIn(hs, key) ==
  bsearch(Len(hs), [i \in 1 .. Len(hs) |-> IF ~hs[i].answers THEN 1 ELSE strcmp(key, hs[i].name)])
Lost(h, a) ==
  \/ \A k \in DOMAIN Handles("DISK") : Handles("DISK")[k].answers => Handles("DISK")[k].name # h.of
  \/ a /\ SearchIn(Handles("DISK"), h.of) = 0
ThrownIs(l, a) ==
  ~Begins => \A i \in DOMAIN l.arr :
    l.arr[i].done /\ l.arr[i].handle.answers /\ l.arr[i].attrib = NoAttr /\ l.arr[i].handle.of \in DiskNames => Lost(l.arr[i].handle, a)

ObTypes ==
  /\ desc \in BOOLEAN /\ aborted \in BOOLEAN /\ again \in BOOLEAN /\ moved \subseteq Classes /\ calls \in 0 .. MaxCalls
  /\ noMemory \in BOOLEAN /\ td_errno \in {"SUCCESS", "END", "NO_DEVICE", "INVALID_ARG"} /\ seen \in [Classes -> Seq(Seq(Nat))]
Passed(l) == [i \in 1 .. l.cur |-> l.arr[i].handle.name]
SeenIs(o, s, m) == \A c \in Classes : c \notin m => s[c] = Passed(o[c])
DescIs(o, de, ab, nm) ==
  /\ de => o["DISK"].held \/ nm \/ Handles("DISK") = <<>>
  /\ ab => nm \/ Handles("DISK") = <<>>
RegInv(o, a) == IsReg(o) /\ SortIs(o["DISK"], a) /\ ThrownIs(o["SLICE"], a)
ObInv ==
  /\ IsComputer(computer) /\ ObTypes /\ RegInv(obj, again) /\ SeenIs(obj, seen, moved)
  /\ DescIs(obj, desc, aborted, noMemory)

-----------------------------------------------------------------------------
(* Least elements, induction over numbers, and loops: the functions by       *)
(* which strings, searches and lists are computed step by step.             *)
LEMMA LeastElement ==
  ASSUME NEW T, T \subseteq Nat, T # {}
  PROVE  \E x \in T : \A y \in T : x <= y
  <1> DEFINE R == {p \in Nat \X Nat : p[1] < p[2]}
  <1>1. IsWellFoundedOn(R, Nat)
    BY NatLessThanWellFounded DEF OpToRel
  <1>2. \E x \in T : \A y \in T : <<y, x>> \notin R
    <2> HIDE DEF R
    <2>1. QED
      BY <1>1, WFMin
  <1>3. PICK x \in T : \A y \in T : <<y, x>> \notin R
    BY <1>2
  <1>4. ASSUME NEW y \in T PROVE x <= y
    <2>1. <<y, x>> \in Nat \X Nat /\ <<y, x>>[1] = y /\ <<y, x>>[2] = x
      OBVIOUS
    <2>2. ~(y < x)
      BY <1>3, <2>1
    <2>3. QED
      BY <2>2
  <1>5. QED
    BY <1>4

LEMMA Induction ==
  ASSUME NEW A, 0 \in A, \A n \in Nat : n \in A => n + 1 \in A
  PROVE  Nat \subseteq A
  <1> DEFINE T == {n \in Nat : n \notin A}
  <1>1. SUFFICES ASSUME T # {} PROVE FALSE
    OBVIOUS
  <1>2. PICK m \in T : \A y \in T : m <= y
    <2>1. T \subseteq Nat
      OBVIOUS
    <2> HIDE DEF T
    <2>2. QED
      BY <1>1, <2>1, LeastElement
  <1>3. m # 0
    OBVIOUS
  <1>4. m - 1 \in Nat /\ m - 1 \notin T
    BY <1>2, <1>3
  <1>5. QED
    BY <1>4

(* A loop of n steps: the function of its states exists.                   *)
IsLoop(f, n, init, step) ==
  f = [k \in 0..n |-> IF k = 0 THEN init ELSE step[<<f[k - 1], k>>]]

LEMMA LoopExists ==
  ASSUME NEW n \in Nat, NEW A, NEW init \in A, NEW step \in [A \X (1..n) -> A]
  PROVE  \E f \in [0..n -> A] : IsLoop(f, n, init, step)
  <1> DEFINE Is(m, f) == f[0] = init /\ \A k \in 1..m : f[k] = step[<<f[k - 1], k>>]
  <1> DEFINE B == {m \in Nat : m <= n => \E f \in [0..m -> A] : Is(m, f)}
  <1>1. 0 \in B
    <2>1. [k \in 0..0 |-> init] \in [0..0 -> A] /\ Is(0, [k \in 0..0 |-> init])
      OBVIOUS
    <2>2. QED
      BY <2>1
  <1>2. ASSUME NEW m \in Nat, m \in B PROVE m + 1 \in B
    <2>1. SUFFICES ASSUME m + 1 <= n PROVE \E f \in [0..(m + 1) -> A] : Is(m + 1, f)
      OBVIOUS
    <2>2. PICK g \in [0..m -> A] : Is(m, g)
      BY <1>2, <2>1
    <2> DEFINE h == [k \in 0..(m + 1) |-> IF k = m + 1 THEN step[<<g[m], m + 1>>] ELSE g[k]]
    <2>3. step[<<g[m], m + 1>>] \in A
      <3>1. <<g[m], m + 1>> \in A \X (1..n)
        BY <2>1
      <3>2. QED
        BY <3>1
    <2>4. h \in [0..(m + 1) -> A]
      BY <2>3
    <2>5. \A k \in 0..m : h[k] = g[k]
      OBVIOUS
    <2>6. h[m + 1] = step[<<g[m], m + 1>>]
      OBVIOUS
    <2> HIDE DEF h
    <2>7. ASSUME NEW k \in 1..(m + 1) PROVE h[k] = step[<<h[k - 1], k>>]
      <3>1. CASE k = m + 1
        <4>1. k - 1 = m /\ m \in 0..m
          BY <3>1
        <4>2. QED
          BY <2>5, <2>6, <3>1, <4>1
      <3>2. CASE k # m + 1
        <4>1. k \in 1..m /\ k \in 0..m /\ k - 1 \in 0..m
          BY <3>2
        <4>2. g[k] = step[<<g[k - 1], k>>]
          BY <2>2, <4>1
        <4>3. QED
          BY <2>5, <4>1, <4>2
      <3>3. QED
        BY <3>1, <3>2
    <2>8. h[0] = init
      BY <2>2, <2>5
    <2>9. QED
      BY <2>4, <2>7, <2>8
  <1>3. n \in B
    <2> HIDE DEF B
    <2>1. QED
      BY <1>1, <1>2, Induction
  <1>4. PICK f \in [0..n -> A] : Is(n, f)
    BY <1>3
  <1>5. \A k \in 0..n : f[k] = IF k = 0 THEN init ELSE step[<<f[k - 1], k>>]
    BY <1>4
  <1>6. f = [k \in 0..n |-> IF k = 0 THEN init ELSE step[<<f[k - 1], k>>]]
    BY <1>5
  <1>7. QED
    BY <1>4, <1>6 DEF IsLoop

(* What holds of the first state and is kept by each step.                 *)
LEMMA LoopKeeps ==
  ASSUME NEW n \in Nat, NEW B, 0 \in B, \A k \in 1..n : k - 1 \in B => k \in B
  PROVE  \A k \in 0..n : k \in B
  <1> DEFINE C == {m \in Nat : m <= n => m \in B}
  <1>1. 0 \in C
    OBVIOUS
  <1>2. ASSUME NEW m \in Nat, m \in C PROVE m + 1 \in C
    <2>1. m + 1 <= n => m + 1 \in 1..n /\ (m + 1) - 1 = m /\ m <= n
      OBVIOUS
    <2>2. QED
      BY <1>2, <2>1
  <1>3. Nat \subseteq C
    <2> HIDE DEF C
    <2>1. QED
      BY <1>1, <1>2, Induction
  <1>4. QED
    BY <1>3

LEMMA MinOf ==
  ASSUME NEW T, T \subseteq Nat, T # {}
  PROVE  Min(T) \in T /\ \A y \in T : Min(T) <= y
  BY LeastElement DEF Min

(* What strcmp says of two names.                                          *)
LEMMA StrAt ==
  ASSUME NEW a \in Seq(Nat), NEW b \in Seq(Nat)
  PROVE  \/ /\ strcmp(a, b) = Len(a) - Len(b)
            /\ \A i \in 1..Len(a) : i <= Len(b) => a[i] = b[i]
         \/ \E k \in 1..Len(a) : /\ k <= Len(b) /\ a[k] # b[k] /\ strcmp(a, b) = a[k] - b[k]
                                 /\ \A j \in 1..(k - 1) : a[j] = b[j]
  <1> DEFINE apart == {i \in 1..Len(a) : i <= Len(b) /\ a[i] # b[i]}
  <1>1. Len(a) \in Nat /\ Len(b) \in Nat
    OBVIOUS
  <1>2. strcmp(a, b) = IF apart = {} THEN Len(a) - Len(b) ELSE a[Min(apart)] - b[Min(apart)]
    BY DEF strcmp
  <1>3. CASE apart = {}
    BY <1>2, <1>3
  <1>4. CASE apart # {}
    <2> DEFINE k == Min(apart)
    <2>1. apart \subseteq Nat
      BY <1>1
    <2>2. k \in apart /\ \A y \in apart : k <= y
      <3> HIDE DEF apart
      <3>1. QED
        BY <1>4, <2>1, MinOf
    <2>3. strcmp(a, b) = a[k] - b[k]
      BY <1>2, <1>4
    <2> HIDE DEF k
    <2>4. k \in 1..Len(a) /\ k <= Len(b) /\ a[k] # b[k]
      BY <2>2
    <2>5. ASSUME NEW j \in 1..(k - 1) PROVE a[j] = b[j]
      <3>1. j \in 1..Len(a) /\ j <= Len(b) /\ ~(k <= j)
        BY <1>1, <2>4
      <3>2. j \notin apart
        BY <2>2, <3>1
      <3>3. QED
        BY <3>1, <3>2
    <2>6. QED
      BY <2>3, <2>4, <2>5
  <1>5. QED
    BY <1>3, <1>4

LEMMA StrInt ==
  ASSUME NEW a \in Seq(Nat), NEW b \in Seq(Nat)
  PROVE  strcmp(a, b) \in Int
  <1>1. Len(a) \in Nat /\ Len(b) \in Nat /\ (\A i \in 1..Len(a) : a[i] \in Nat) /\ (\A i \in 1..Len(b) : b[i] \in Nat)
    OBVIOUS
  <1>2. CASE strcmp(a, b) = Len(a) - Len(b)
    BY <1>1, <1>2
  <1>3. CASE \E k \in 1..Len(a) : k <= Len(b) /\ strcmp(a, b) = a[k] - b[k]
    <2>1. PICK k \in 1..Len(a) : k <= Len(b) /\ strcmp(a, b) = a[k] - b[k]
      BY <1>3
    <2>2. k \in 1..Len(b)
      BY <1>1, <2>1
    <2>3. QED
      BY <1>1, <2>1, <2>2
  <1>4. QED
    BY <1>2, <1>3, StrAt

LEMMA StrEqual ==
  ASSUME NEW a \in Seq(Nat), NEW b \in Seq(Nat)
  PROVE  strcmp(a, b) = 0 <=> a = b
  <1>1. Len(a) \in Nat /\ Len(b) \in Nat /\ (\A i \in 1..Len(a) : a[i] \in Nat) /\ (\A i \in 1..Len(b) : b[i] \in Nat)
    OBVIOUS
  <1>2. CASE /\ strcmp(a, b) = Len(a) - Len(b)
             /\ \A i \in 1..Len(a) : i <= Len(b) => a[i] = b[i]
    <2>1. strcmp(a, b) = 0 <=> Len(a) = Len(b)
      BY <1>1, <1>2
    <2>2. Len(a) = Len(b) => a = b
      <3>1. Len(a) = Len(b) => \A i \in 1..Len(a) : a[i] = b[i]
        BY <1>1, <1>2
      <3>2. QED
        BY SMTT(30), <3>1
    <2>3. QED
      BY <2>1, <2>2
  <1>3. CASE \E k \in 1..Len(a) : /\ k <= Len(b) /\ a[k] # b[k] /\ strcmp(a, b) = a[k] - b[k]
                                 /\ \A j \in 1..(k - 1) : a[j] = b[j]
    <2>1. PICK k \in 1..Len(a) : k <= Len(b) /\ a[k] # b[k] /\ strcmp(a, b) = a[k] - b[k]
      BY <1>3
    <2>2. a[k] \in Nat /\ b[k] \in Nat
      BY <1>1, <2>1
    <2>3. QED
      BY <2>1, <2>2
  <1>4. QED
    BY <1>2, <1>3, StrAt

LEMMA StrTurns ==
  ASSUME NEW a \in Seq(Nat), NEW b \in Seq(Nat)
  PROVE  strcmp(b, a) = -strcmp(a, b)
  <1>1. Len(a) \in Nat /\ Len(b) \in Nat /\ (\A i \in 1..Len(a) : a[i] \in Nat) /\ (\A i \in 1..Len(b) : b[i] \in Nat)
    OBVIOUS
  <1> DEFINE Ends(c, d) == /\ strcmp(c, d) = Len(c) - Len(d)
                           /\ \A i \in 1..Len(c) : i <= Len(d) => c[i] = d[i]
  <1> DEFINE At(c, d, k) == /\ k \in 1..Len(c) /\ k <= Len(d) /\ c[k] # d[k] /\ strcmp(c, d) = c[k] - d[k]
                            /\ \A j \in 1..(k - 1) : c[j] = d[j]
  <1>2. Ends(a, b) \/ \E k : At(a, b, k)
    BY StrAt
  <1>3. Ends(b, a) \/ \E k : At(b, a, k)
    BY StrAt
  <1>4. ASSUME Ends(a, b), Ends(b, a) PROVE strcmp(b, a) = -strcmp(a, b)
    BY <1>1, <1>4
  <1>5. ASSUME Ends(a, b), NEW k, At(b, a, k) PROVE FALSE
    <2>1. k \in 1..Len(a) /\ k <= Len(b) /\ b[k] # a[k]
      BY <1>1, <1>5
    <2>2. QED
      BY <1>5, <2>1
  <1>6. ASSUME Ends(b, a), NEW k, At(a, b, k) PROVE FALSE
    <2>1. k \in 1..Len(b) /\ k <= Len(a) /\ b[k] # a[k]
      BY <1>1, <1>6
    <2>2. QED
      BY <1>6, <2>1
  <1>7. ASSUME NEW k, At(a, b, k), NEW l, At(b, a, l) PROVE strcmp(b, a) = -strcmp(a, b)
    <2>1. k \in Nat /\ l \in Nat /\ k >= 1 /\ l >= 1
      BY <1>1, <1>7
    <2>2. ~(k < l)
      <3>1. k < l => k \in 1..(l - 1)
        BY <2>1
      <3>2. QED
        BY <1>7, <3>1
    <2>3. ~(l < k)
      <3>1. l < k => l \in 1..(k - 1)
        BY <2>1
      <3>2. QED
        BY <1>7, <3>1
    <2>4. k = l
      BY <2>1, <2>2, <2>3
    <2>5. a[k] \in Nat /\ b[k] \in Nat
      BY <1>1, <1>7, <2>4
    <2>6. QED
      BY <1>7, <2>4, <2>5
  <1> HIDE DEF Ends, At
  <1>8. QED
    BY <1>2, <1>3, <1>4, <1>5, <1>6, <1>7

(* strcmp orders names: its order is told from the first place on which    *)
(* they are not the same.                                                  *)
LEMMA StrBelow ==
  ASSUME NEW a \in Seq(Nat), NEW b \in Seq(Nat)
  PROVE  strcmp(a, b) <= 0 <=>
           \A i \in 1..Len(a) : (\A j \in 1..(i - 1) : j <= Len(b) /\ a[j] = b[j]) => i <= Len(b) /\ a[i] <= b[i]
  <1>1. Len(a) \in Nat /\ Len(b) \in Nat /\ (\A i \in 1..Len(a) : a[i] \in Nat) /\ (\A i \in 1..Len(b) : b[i] \in Nat)
    OBVIOUS
  <1> DEFINE All == \A i \in 1..Len(a) : (\A j \in 1..(i - 1) : j <= Len(b) /\ a[j] = b[j]) => i <= Len(b) /\ a[i] <= b[i]
  <1>2. CASE /\ strcmp(a, b) = Len(a) - Len(b)
             /\ \A i \in 1..Len(a) : i <= Len(b) => a[i] = b[i]
    <2>1. CASE Len(a) <= Len(b)
      <3>1. strcmp(a, b) <= 0
        BY <1>1, <1>2, <2>1
      <3>2. \A i \in 1..Len(a) : i <= Len(b) /\ a[i] <= b[i]
        BY <1>1, <1>2, <2>1
      <3>3. QED
        BY <3>1, <3>2
    <2>2. CASE ~(Len(a) <= Len(b))
      <3>1. ~(strcmp(a, b) <= 0)
        BY <1>1, <1>2, <2>2
      <3> DEFINE i == Len(b) + 1
      <3>2. i \in 1..Len(a) /\ ~(i <= Len(b)) /\ \A j \in 1..(i - 1) : j <= Len(b) /\ j \in 1..Len(a)
        BY <1>1, <2>2
      <3>3. \A j \in 1..(i - 1) : j <= Len(b) /\ a[j] = b[j]
        BY <1>2, <3>2
      <3> HIDE DEF i
      <3>4. QED
        BY <3>1, <3>2, <3>3
    <2>3. QED
      BY <2>1, <2>2
  <1>3. CASE \E k \in 1..Len(a) : /\ k <= Len(b) /\ a[k] # b[k] /\ strcmp(a, b) = a[k] - b[k]
                                 /\ \A j \in 1..(k - 1) : a[j] = b[j]
    <2>1. PICK k \in 1..Len(a) : /\ k <= Len(b) /\ a[k] # b[k] /\ strcmp(a, b) = a[k] - b[k]
                                 /\ \A j \in 1..(k - 1) : a[j] = b[j]
      BY <1>3
    <2>2. a[k] \in Nat /\ b[k] \in Nat /\ k \in Nat
      BY <1>1, <2>1
    <2>3. strcmp(a, b) <= 0 <=> a[k] <= b[k]
      BY <2>1, <2>2
    <2>4. \A j \in 1..(k - 1) : j <= Len(b) /\ a[j] = b[j]
      BY <1>1, <2>1
    <2>5. All => a[k] <= b[k]
      BY <2>1, <2>4
    <2>6. ASSUME a[k] <= b[k], NEW i \in 1..Len(a), \A j \in 1..(i - 1) : j <= Len(b) /\ a[j] = b[j]
          PROVE  i <= Len(b) /\ a[i] <= b[i]
      <3>1. ~(k < i)
        <4>1. k < i => k \in 1..(i - 1)
          BY <1>1, <2>1
        <4>2. QED
          BY <2>1, <2>6, <4>1
      <3>2. CASE i = k
        BY <2>1, <2>6, <3>2
      <3>3. CASE i < k
        <4>1. i \in 1..(k - 1) /\ i <= Len(b) /\ i \in 1..Len(b)
          BY <1>1, <2>1, <3>3
        <4>2. a[i] = b[i] /\ a[i] \in Nat
          BY <1>1, <2>1, <4>1
        <4>3. QED
          BY <4>1, <4>2
      <3>4. QED
        BY <1>1, <2>2, <3>1, <3>2, <3>3
    <2>7. QED
      BY <2>3, <2>5, <2>6
  <1>4. QED
    BY <1>2, <1>3, StrAt

LEMMA StrOrders ==
  ASSUME NEW a \in Seq(Nat), NEW b \in Seq(Nat), NEW c \in Seq(Nat), strcmp(a, b) <= 0, strcmp(b, c) <= 0
  PROVE  strcmp(a, c) <= 0
  <1>1. Len(a) \in Nat /\ Len(b) \in Nat /\ Len(c) \in Nat
    OBVIOUS
  <1>2. /\ \A i \in 1..Len(a) : a[i] \in Nat
        /\ \A i \in 1..Len(b) : b[i] \in Nat
        /\ \A i \in 1..Len(c) : c[i] \in Nat
    OBVIOUS
  <1>3. \A i \in 1..Len(a) : (\A j \in 1..(i - 1) : j <= Len(b) /\ a[j] = b[j]) => i <= Len(b) /\ a[i] <= b[i]
    BY StrBelow
  <1>4. \A i \in 1..Len(b) : (\A j \in 1..(i - 1) : j <= Len(c) /\ b[j] = c[j]) => i <= Len(c) /\ b[i] <= c[i]
    BY StrBelow
  <1>5. SUFFICES ASSUME NEW i \in 1..Len(a), \A j \in 1..(i - 1) : j <= Len(c) /\ a[j] = c[j]
                 PROVE  i <= Len(c) /\ a[i] <= c[i]
    BY StrBelow
  <1>6. CASE \A j \in 1..(i - 1) : j <= Len(b) /\ a[j] = b[j]
    <2>1. i <= Len(b) /\ a[i] <= b[i] /\ i \in 1..Len(b)
      <3>1. i <= Len(b) /\ a[i] <= b[i]
        BY <1>3, <1>6
      <3>2. QED
        BY <1>1, <3>1
    <2>2. \A j \in 1..(i - 1) : j <= Len(c) /\ b[j] = c[j]
      BY <1>5, <1>6
    <2>3. i <= Len(c) /\ b[i] <= c[i]
      BY <1>4, <2>1, <2>2
    <2>4. i \in 1..Len(c)
      BY <1>1, <2>3
    <2>5. a[i] \in Nat /\ b[i] \in Nat /\ c[i] \in Nat
      BY <1>2, <2>1, <2>4
    <2>6. QED
      BY SMTT(30), <2>1, <2>3, <2>5
  <1>7. CASE ~ \A j \in 1..(i - 1) : j <= Len(b) /\ a[j] = b[j]
    <2> DEFINE T == {j \in 1..(i - 1) : ~(j <= Len(b) /\ a[j] = b[j])}
    <2>1. T \subseteq Nat /\ T # {}
      <3>1. 1..(i - 1) \subseteq Nat
        BY <1>1
      <3>2. QED
        BY <1>7, <3>1
    <2>2. PICK j \in T : \A l \in T : j <= l
      <3> HIDE DEF T
      <3>1. QED
        BY <2>1, LeastElement
    <2>3. j \in 1..(i - 1) /\ j \in 1..Len(a) /\ ~(j <= Len(b) /\ a[j] = b[j]) /\ j <= Len(c) /\ a[j] = c[j] /\ j \in 1..Len(c)
      BY <1>1, <1>5
    <2>4. ASSUME NEW l \in 1..(j - 1) PROVE l <= Len(b) /\ a[l] = b[l] /\ l <= Len(c) /\ a[l] = c[l]
      <3>1. l \in 1..(i - 1) /\ ~(j <= l)
        BY <1>1, <2>3
      <3>2. l \notin T
        BY <2>2, <3>1
      <3>3. QED
        BY <1>5, <3>1, <3>2
    <2> HIDE DEF T
    <2>5. \A l \in 1..(j - 1) : l <= Len(b) /\ a[l] = b[l]
      BY <2>4
    <2>6. j <= Len(b) /\ a[j] <= b[j]
      BY <1>3, <2>3, <2>5
    <2>7. j \in 1..Len(b)
      BY <1>1, <2>3, <2>6
    <2>8. b[j] <= c[j]
      BY <1>4, <2>4, <2>7
    <2>9. a[j] \in Nat /\ b[j] \in Nat /\ c[j] \in Nat
      BY <1>2, <2>3, <2>7
    <2>10. QED
      BY SMTT(30), <2>3, <2>6, <2>8, <2>9
  <1>8. QED
    BY <1>6, <1>7

-----------------------------------------------------------------------------
(* Any finite sequence can be sorted by a total order.                     *)
Sorts(R, m, p) ==
  /\ p \in [1..m -> 1..m] /\ \A i \in 1..m : \E j \in 1..m : p[j] = i
  /\ \A i, j \in 1..m : p[i] = p[j] => i = j
  /\ \A i, j \in 1..m : i < j => <<p[i], p[j]>> \in R

LEMMA SortExists ==
  ASSUME NEW n \in Nat, NEW R,
         \A i, j \in 1..n : <<i, j>> \in R \/ <<j, i>> \in R,
         \A i, j, k \in 1..n : <<i, j>> \in R /\ <<j, k>> \in R => <<i, k>> \in R
  PROVE  \E p \in Bijection(1..n, 1..n) : \A i, j \in 1..n : i < j => <<p[i], p[j]>> \in R
  <1> DEFINE A == {m \in Nat : m <= n => \E p : Sorts(R, m, p)}
  <1>1. 0 \in A
    <2>1. Sorts(R, 0, [i \in 1..0 |-> i])
      BY DEF Sorts
    <2>2. QED
      BY <2>1
  <1>2. ASSUME NEW m \in Nat, m \in A PROVE m + 1 \in A
    <2>1. SUFFICES ASSUME m + 1 <= n PROVE \E p : Sorts(R, m + 1, p)
      OBVIOUS
    <2>2. PICK q : Sorts(R, m, q)
      BY <1>2, <2>1
    <2>20. /\ q \in [1..m -> 1..m] /\ \A i \in 1..m : \E j \in 1..m : q[j] = i
           /\ \A i, j \in 1..m : q[i] = q[j] => i = j
           /\ \A i, j \in 1..m : i < j => <<q[i], q[j]>> \in R
      BY <2>2 DEF Sorts
    <2> DEFINE T == {i \in 1..(m + 1) : i = m + 1 \/ <<q[i], m + 1>> \notin R}
    <2>3. PICK r \in T : \A i \in T : r <= i
      <3>1. 1..(m + 1) \subseteq Nat /\ m + 1 \in 1..(m + 1)
        OBVIOUS
      <3>2. T \subseteq Nat /\ m + 1 \in T
        BY <3>1
      <3>3. T # {}
        BY <3>2
      <3> HIDE DEF T
      <3>4. QED
        BY <3>2, <3>3, LeastElement
    <2>4. r \in 1..(m + 1) /\ (r = m + 1 \/ <<q[r], m + 1>> \notin R)
      OBVIOUS
    <2>5. ASSUME NEW i \in 1..m, i < r PROVE <<q[i], m + 1>> \in R
      <3>1. i \notin T
        BY <2>3, <2>4, <2>5
      <3>2. QED
        BY <3>1
    <2> HIDE DEF T
    <2>6. \A i \in 1..m : q[i] \in 1..m /\ q[i] \in 1..n /\ q[i] # m + 1
      BY <2>1, <2>20
    <2>7. ASSUME NEW i \in 1..m, r <= i PROVE <<m + 1, q[i]>> \in R
      <3>1. r \in 1..m /\ <<q[r], m + 1>> \notin R
        BY <2>4, <2>7
      <3>2. m + 1 \in 1..n /\ q[r] \in 1..n /\ q[i] \in 1..n
        BY <2>1, <2>6, <3>1
      <3>3. <<m + 1, q[r]>> \in R
        BY <3>1, <3>2
      <3>4. CASE i = r
        BY <3>3, <3>4
      <3>5. CASE r < i
        <4>1. <<q[r], q[i]>> \in R
          BY <2>20, <3>1, <3>5
        <4>2. QED
          BY <3>2, <3>3, <4>1
      <3>6. QED
        BY <2>7, <3>1, <3>4, <3>5
    <2> DEFINE p == [i \in 1..(m + 1) |-> IF i < r THEN q[i] ELSE IF i = r THEN m + 1 ELSE q[i - 1]]
    <2>8. /\ \A i \in 1..(m + 1) : i < r => i \in 1..m /\ p[i] = q[i]
          /\ p[r] = m + 1
          /\ \A i \in 1..(m + 1) : r < i => i - 1 \in 1..m /\ r <= i - 1 /\ p[i] = q[i - 1]
      BY <2>4
    <2>9. DOMAIN p = 1..(m + 1) /\ p = [i \in 1..(m + 1) |-> p[i]]
      OBVIOUS
    <2> HIDE DEF p
    <2>10. \A i \in 1..(m + 1) : i < r \/ i = r \/ r < i
      BY <2>4
    <2>11. \A i \in 1..(m + 1) : p[i] \in 1..(m + 1)
      <3>1. \A i \in 1..m : q[i] \in 1..(m + 1)
        BY <2>6
      <3>2. QED
        BY <2>8, <2>10, <3>1
    <2>12. ASSUME NEW i \in 1..(m + 1) PROVE \E j \in 1..(m + 1) : p[j] = i
      <3>1. CASE i = m + 1
        BY <2>4, <2>8, <3>1
      <3>2. CASE i # m + 1
        <4>1. PICK j \in 1..m : q[j] = i
          BY <2>20, <3>2
        <4>2. CASE j < r
          <5>1. j \in 1..(m + 1)
            OBVIOUS
          <5>2. QED
            BY <2>8, <4>1, <4>2, <5>1
        <4>3. CASE ~(j < r)
          <5>1. j + 1 \in 1..(m + 1) /\ r < j + 1 /\ (j + 1) - 1 = j
            BY <2>4, <4>3
          <5>2. p[j + 1] = q[(j + 1) - 1]
            BY <2>8, <5>1
          <5>3. QED
            BY <4>1, <5>1, <5>2
        <4>4. QED
          BY <4>2, <4>3
      <3>3. QED
        BY <3>1, <3>2
    <2>13. ASSUME NEW i \in 1..(m + 1), NEW j \in 1..(m + 1), i < j PROVE <<p[i], p[j]>> \in R /\ p[i] # p[j]
      <3>1. CASE j < r
        <4>1. i < r /\ i \in 1..m /\ j \in 1..m
          BY <2>4, <2>13, <3>1
        <4>2. p[i] = q[i] /\ p[j] = q[j]
          BY <2>8, <3>1, <4>1
        <4>3. QED
          BY <2>20, <2>13, <4>1, <4>2
      <3>2. CASE j = r
        <4>1. i < r /\ i \in 1..m
          BY <2>4, <2>13, <3>2
        <4>2. p[i] = q[i] /\ p[j] = m + 1
          BY <2>8, <3>2, <4>1
        <4>3. QED
          BY <2>5, <2>6, <4>1, <4>2
      <3>3. CASE r < j /\ i = r
        <4>1. j - 1 \in 1..m /\ r <= j - 1 /\ p[j] = q[j - 1] /\ p[i] = m + 1
          BY <2>8, <3>3
        <4>2. QED
          BY <2>6, <2>7, <4>1
      <3>4. CASE r < j /\ i < r
        <4>1. j - 1 \in 1..m /\ r <= j - 1 /\ p[j] = q[j - 1] /\ i \in 1..m /\ p[i] = q[i]
          BY <2>8, <3>4
        <4>2. i < j - 1
          BY <2>4, <3>4, <4>1
        <4>3. QED
          BY <2>20, <4>1, <4>2
      <3>5. CASE r < j /\ r < i
        <4>1. j - 1 \in 1..m /\ p[j] = q[j - 1] /\ i - 1 \in 1..m /\ p[i] = q[i - 1]
          BY <2>8, <3>5
        <4>2. i - 1 < j - 1
          BY <2>13, <4>1
        <4>3. QED
          BY <2>20, <4>1, <4>2
      <3>6. QED
        BY <2>10, <3>1, <3>2, <3>3, <3>4, <3>5
    <2>14. ASSUME NEW i \in 1..(m + 1), NEW j \in 1..(m + 1), p[i] = p[j] PROVE i = j
      <3>1. ~(i < j) /\ ~(j < i)
        BY <2>13, <2>14
      <3>2. QED
        BY <3>1
    <2>15. p \in [1..(m + 1) -> 1..(m + 1)]
      BY <2>9, <2>11
    <2>16. QED
      BY <2>12, <2>13, <2>14, <2>15 DEF Sorts
  <1>3. n \in A
    <2> HIDE DEF A
    <2>1. QED
      BY <1>1, <1>2, Induction
  <1>4. PICK p : Sorts(R, n, p)
    BY <1>3
  <1>5. p \in Bijection(1..n, 1..n)
    BY <1>4 DEF Sorts, Bijection, Injection, Surjection, IsInjective
  <1>6. QED
    BY <1>4, <1>5 DEF Sorts

(* Sorted entries are those there were, and in order.                      *)
LEMMA SortedIs ==
  ASSUME NEW E, NEW arr \in Seq(E), \A e \in E : e.attrib.name \in Seq(Nat)
  PROVE  /\ InOrder(Sorted(arr))
         /\ \E p \in Bijection(DOMAIN arr, DOMAIN arr) : Sorted(arr) = Permuted(arr, p)
  <1> DEFINE n == Len(arr)
  <1> DEFINE Name(i) == arr[i].attrib.name
  <1> DEFINE R == {x \in (1..n) \X (1..n) : strcmp(Name(x[1]), Name(x[2])) <= 0}
  <1>1. n \in Nat /\ DOMAIN arr = 1..n /\ \A i \in 1..n : Name(i) \in Seq(Nat)
    OBVIOUS
  <1>2. \A i, j \in 1..n : <<i, j>> \in R <=> strcmp(Name(i), Name(j)) <= 0
    OBVIOUS
  <1> HIDE DEF n, Name, R
  <1>3. ASSUME NEW i \in 1..n, NEW j \in 1..n PROVE <<i, j>> \in R \/ <<j, i>> \in R
    <2>1. strcmp(Name(i), Name(j)) \in Int /\ strcmp(Name(j), Name(i)) = -strcmp(Name(i), Name(j))
      BY <1>1, StrInt, StrTurns
    <2>2. QED
      BY <1>2, <2>1
  <1>4. ASSUME NEW i \in 1..n, NEW j \in 1..n, NEW k \in 1..n, <<i, j>> \in R, <<j, k>> \in R PROVE <<i, k>> \in R
    <2>1. strcmp(Name(i), Name(j)) <= 0 /\ strcmp(Name(j), Name(k)) <= 0
      BY <1>2, <1>4
    <2>2. strcmp(Name(i), Name(k)) <= 0
      BY <1>1, <2>1, StrOrders
    <2>3. QED
      BY <1>2, <2>2
  <1>5. PICK p \in Bijection(1..n, 1..n) : \A i, j \in 1..n : i < j => <<p[i], p[j]>> \in R
    BY <1>1, <1>3, <1>4, SortExists
  <1>6. \A i \in 1..n : p[i] \in 1..n
    BY <1>5 DEF Bijection, Injection
  <1>7. DOMAIN Permuted(arr, p) = 1..n /\ \A i \in 1..n : Permuted(arr, p)[i].attrib.name = Name(p[i])
    BY <1>1 DEF Permuted, Name
  <1>8. InOrder(Permuted(arr, p))
    <2>1. ASSUME NEW i \in 1..n, NEW j \in 1..n, i < j
          PROVE  strcmp(Permuted(arr, p)[i].attrib.name, Permuted(arr, p)[j].attrib.name) <= 0
      <3>1. p[i] \in 1..n /\ p[j] \in 1..n /\ <<p[i], p[j]>> \in R
        BY <1>5, <1>6, <2>1
      <3>2. strcmp(Name(p[i]), Name(p[j])) <= 0
        BY <1>2, <3>1
      <3>3. QED
        BY <1>7, <3>2
    <2>2. QED
      BY <1>7, <2>1 DEF InOrder
  <1> DEFINE q == CHOOSE p0 \in Bijection(DOMAIN arr, DOMAIN arr) : InOrder(Permuted(arr, p0))
  <1>9. q \in Bijection(DOMAIN arr, DOMAIN arr) /\ InOrder(Permuted(arr, q))
    BY <1>1, <1>5, <1>8
  <1>10. QED
    BY <1>9 DEF Sorted

-----------------------------------------------------------------------------
(* The search by halves. *)
Middle(r) == (r[1] + r[2]) \div 2
Halved(r, cmp) ==
  IF r[1] > r[2] \/ cmp[Middle(r)] = 0 THEN r
  ELSE IF cmp[Middle(r)] < 0 THEN <<r[1], Middle(r) - 1>> ELSE <<Middle(r) + 1, r[2]>>
Ranges(n) == {r \in Int \X Int : 1 <= r[1] /\ r[2] <= n}

LEMMA MiddleIs ==
  ASSUME NEW n \in Nat, NEW r \in Ranges(n), r[1] <= r[2]
  PROVE  Middle(r) \in 1..n /\ r[1] <= Middle(r) /\ Middle(r) <= r[2]
  <1>1. r[1] \in Int /\ r[2] \in Int /\ 1 <= r[1] /\ r[2] <= n
    BY DEF Ranges
  <1>2. Middle(r) \in Int /\ r[1] <= Middle(r) /\ Middle(r) <= r[2]
    BY <1>1 DEF Middle
  <1>3. QED
    BY <1>1, <1>2

LEMMA HalvedIs ==
  ASSUME NEW n \in Nat, NEW cmp \in [1..n -> Int], NEW r \in Ranges(n)
  PROVE  /\ Halved(r, cmp) \in Ranges(n)
         /\ r[1] > r[2] \/ cmp[Middle(r)] = 0 => Halved(r, cmp) = r
         /\ ~(r[1] > r[2] \/ cmp[Middle(r)] = 0) =>
              /\ Middle(r) \in 1..n /\ r[1] <= Middle(r) /\ Middle(r) <= r[2]
              /\ IF cmp[Middle(r)] < 0 THEN Halved(r, cmp)[1] = r[1] /\ Halved(r, cmp)[2] = Middle(r) - 1
                 ELSE Halved(r, cmp)[1] = Middle(r) + 1 /\ Halved(r, cmp)[2] = r[2]
  <1>1. r[1] \in Int /\ r[2] \in Int /\ 1 <= r[1] /\ r[2] <= n
    BY DEF Ranges
  <1>2. CASE r[1] > r[2] \/ cmp[Middle(r)] = 0
    BY <1>2 DEF Halved
  <1>3. CASE ~(r[1] > r[2] \/ cmp[Middle(r)] = 0)
    <2>1. Middle(r) \in 1..n /\ r[1] <= Middle(r) /\ Middle(r) <= r[2]
      BY <1>1, <1>3, MiddleIs
    <2>2. CASE cmp[Middle(r)] < 0
      <3>1. Halved(r, cmp) = <<r[1], Middle(r) - 1>>
        BY <1>3, <2>2 DEF Halved
      <3>2. <<r[1], Middle(r) - 1>> \in Ranges(n)
        BY <1>1, <2>1 DEF Ranges
      <3>3. QED
        BY <1>3, <2>1, <2>2, <3>1, <3>2
    <2>3. CASE ~(cmp[Middle(r)] < 0)
      <3>1. Halved(r, cmp) = <<Middle(r) + 1, r[2]>>
        BY <1>3, <2>3 DEF Halved
      <3>2. <<Middle(r) + 1, r[2]>> \in Ranges(n)
        BY <1>1, <2>1 DEF Ranges
      <3>3. QED
        BY <1>3, <2>1, <2>3, <3>1, <3>2
    <2>4. QED
      BY <2>2, <2>3
  <1>4. QED
    BY <1>2, <1>3

LEMMA SearchRuns ==
  ASSUME NEW n \in Nat, NEW cmp \in [1..n -> Int]
  PROVE  \E f \in [0..n -> Ranges(n)] :
           /\ f[0] = <<1, n>> /\ \A k \in 1..n : f[k] = Halved(f[k - 1], cmp)
           /\ bsearch(n, cmp) = IF f[n][1] > f[n][2] THEN 0 ELSE Middle(f[n])
  <1> DEFINE A == Ranges(n)
  <1> DEFINE Is(f) == f = [k \in 0..n |-> IF k = 0 THEN <<1, n>> ELSE Halved(f[k - 1], cmp)]
  <1> DEFINE step == [p \in A \X (1..n) |-> Halved(p[1], cmp)]
  <1>1. <<1, n>> \in A
    BY DEF Ranges
  <1>2. step \in [A \X (1..n) -> A]
    BY HalvedIs
  <1>3. \A r \in A, k \in 1..n : step[<<r, k>>] = Halved(r, cmp)
    OBVIOUS
  <1> HIDE DEF A, step
  <1>4. PICK g \in [0..n -> A] : IsLoop(g, n, <<1, n>>, step)
    BY <1>1, <1>2, LoopExists
  <1>5. \A k \in 0..n : k # 0 => k \in 1..n /\ k - 1 \in 0..n /\ g[k - 1] \in A
    OBVIOUS
  <1>6. \A k \in 0..n : (IF k = 0 THEN <<1, n>> ELSE step[<<g[k - 1], k>>]) = IF k = 0 THEN <<1, n>> ELSE Halved(g[k - 1], cmp)
    BY <1>3, <1>5
  <1>7. Is(g)
    BY <1>4, <1>6 DEF IsLoop
  <1> DEFINE f == CHOOSE h : Is(h)
  <1>8. Is(f)
    <2> HIDE DEF Is
    <2>1. QED
      BY <1>7
  <1>9. bsearch(n, cmp) = IF f[n][1] > f[n][2] THEN 0 ELSE Middle(f[n])
    BY DEF bsearch, Halved, Middle
  <1> HIDE DEF f
  <1>10. f[0] = <<1, n>> /\ \A k \in 1..n : f[k] = Halved(f[k - 1], cmp)
    BY <1>8
  <1>11. \A k \in 0..n : f[k] \in A
    <2> DEFINE B == {k \in 0..n : f[k] \in A}
    <2>1. 0 \in 0..n /\ f[0] \in A
      BY <1>1, <1>10
    <2>2. 0 \in B
      BY <2>1
    <2>3. ASSUME NEW k \in 1..n, k - 1 \in B PROVE k \in B
      <3>1. f[k - 1] \in Ranges(n) /\ k \in 0..n
        BY <2>3 DEF A
      <3>2. f[k] \in A
        <4>1. f[k] = Halved(f[k - 1], cmp)
          BY <1>10
        <4>2. QED
          BY <3>1, <4>1, HalvedIs DEF A
      <3>3. QED
        BY <3>1, <3>2
    <2> HIDE DEF B
    <2>4. \A k \in 0..n : k \in B
      BY <2>2, <2>3, LoopKeeps
    <2>5. QED
      BY <2>4 DEF B
  <1>12. f \in [0..n -> A]
    BY <1>8, <1>11
  <1>13. QED
    BY <1>9, <1>10, <1>12 DEF A

(* What it finds compares equal; the only entry that does, those before    *)
(* and behind it being on their sides, it finds; and it looks at nothing   *)
(* but signs.                                                              *)
LEMMA SearchFinds ==
  ASSUME NEW n \in Nat, NEW cmp \in [1..n -> Int]
  PROVE  /\ bsearch(n, cmp) \in 0..n
         /\ bsearch(n, cmp) # 0 => cmp[bsearch(n, cmp)] = 0
         /\ \A i \in 1..n :
              cmp[i] = 0 /\ (\A j \in 1..n : (j < i => cmp[j] > 0) /\ (i < j => cmp[j] < 0)) => bsearch(n, cmp) = i
  <1>1. PICK f \in [0..n -> Ranges(n)] :
           /\ f[0] = <<1, n>> /\ \A k \in 1..n : f[k] = Halved(f[k - 1], cmp)
           /\ bsearch(n, cmp) = IF f[n][1] > f[n][2] THEN 0 ELSE Middle(f[n])
    BY SearchRuns
  <1>2. \A k \in 0..n : f[k] \in Ranges(n) /\ f[k][1] \in Int /\ f[k][2] \in Int
    BY DEF Ranges
  <1> DEFINE Hit(r) == ~(r[1] > r[2]) /\ cmp[Middle(r)] = 0
  <1> DEFINE B == {k \in 0..n : f[k][1] > f[k][2] \/ Hit(f[k]) \/ f[k][2] - f[k][1] < n - k}
  <1>3. 0 \in B
    BY <1>1
  <1>4. ASSUME NEW k \in 1..n, k - 1 \in B PROVE k \in B
    <2> DEFINE r == f[k - 1]
    <2> DEFINE s == f[k]
    <2>1. r \in Ranges(n) /\ s = Halved(r, cmp) /\ r[1] \in Int /\ r[2] \in Int /\ k \in 0..n /\ k - 1 \in 0..n
      BY <1>1, <1>2
    <2>2. r[1] > r[2] \/ Hit(r) \/ r[2] - r[1] < n - (k - 1)
      BY <1>4
    <2> HIDE DEF r
    <2>3. CASE r[1] > r[2] \/ cmp[Middle(r)] = 0
      <3>1. s = r
        BY <2>1, <2>3, HalvedIs
      <3>2. QED
        BY <2>1, <2>3, <3>1
    <2>4. CASE ~(r[1] > r[2] \/ cmp[Middle(r)] = 0)
      <3>1. /\ Middle(r) \in 1..n /\ r[1] <= Middle(r) /\ Middle(r) <= r[2]
            /\ IF cmp[Middle(r)] < 0 THEN s[1] = r[1] /\ s[2] = Middle(r) - 1
               ELSE s[1] = Middle(r) + 1 /\ s[2] = r[2]
        BY <2>1, <2>4, HalvedIs
      <3>2. r[2] - r[1] < n - (k - 1)
        BY <2>2, <2>4
      <3> HIDE DEF s
      <3>3. s[2] - s[1] < n - k
        BY SMTT(30), <2>1, <3>1, <3>2
      <3>4. QED
        BY <2>1, <3>3 DEF s
    <2>5. QED
      BY <2>3, <2>4
  <1>5. n \in B
    <2> HIDE DEF B
    <2>1. \A k \in 0..n : k \in B
      BY <1>3, <1>4, LoopKeeps
    <2>2. QED
      BY <2>1
  <1>6. f[n][1] > f[n][2] \/ Hit(f[n])
    BY <1>2, <1>5
  <1>7. bsearch(n, cmp) \in 0..n /\ (bsearch(n, cmp) # 0 => cmp[bsearch(n, cmp)] = 0)
    <2>1. n \in 0..n
      OBVIOUS
    <2>2. CASE f[n][1] > f[n][2]
      BY <1>1, <2>1, <2>2
    <2>3. CASE ~(f[n][1] > f[n][2])
      <3>1. Middle(f[n]) \in 1..n
        BY <1>2, <2>1, <2>3, MiddleIs
      <3>2. QED
        BY <1>1, <1>6, <2>3, <3>1
    <2>4. QED
      BY <2>2, <2>3
  <1>8. ASSUME NEW i \in 1..n, cmp[i] = 0, \A j \in 1..n : (j < i => cmp[j] > 0) /\ (i < j => cmp[j] < 0)
        PROVE  bsearch(n, cmp) = i
    <2> DEFINE C == {k \in 0..n : f[k][1] <= i /\ i <= f[k][2]}
    <2>1. 0 \in C
      BY <1>1
    <2>2. ASSUME NEW k \in 1..n, k - 1 \in C PROVE k \in C
      <3> DEFINE r == f[k - 1]
      <3> DEFINE s == f[k]
      <3>1. r \in Ranges(n) /\ s = Halved(r, cmp) /\ r[1] \in Int /\ r[2] \in Int /\ k \in 0..n
        BY <1>1, <1>2
      <3>2. r[1] <= i /\ i <= r[2]
        BY <2>2
      <3> HIDE DEF r
      <3>3. CASE cmp[Middle(r)] = 0
        BY <3>1, <3>2, <3>3, HalvedIs
      <3>4. CASE cmp[Middle(r)] # 0
        <4>1. ~(r[1] > r[2])
          BY <3>1, <3>2
        <4>2. /\ Middle(r) \in 1..n
              /\ IF cmp[Middle(r)] < 0 THEN s[1] = r[1] /\ s[2] = Middle(r) - 1
                 ELSE s[1] = Middle(r) + 1 /\ s[2] = r[2]
          <5>1. ~(r[1] > r[2] \/ cmp[Middle(r)] = 0)
            BY <3>4, <4>1
          <5>2. s = Halved(r, cmp) /\ r \in Ranges(n)
            BY <3>1
          <5> HIDE DEF s
          <5>3. QED
            BY <5>1, <5>2, HalvedIs
        <4>3. cmp[Middle(r)] < 0 => i < Middle(r)
          BY <1>8, <3>4, <4>2
        <4>4. ~(cmp[Middle(r)] < 0) => Middle(r) < i
          BY <1>8, <3>4, <4>2
        <4> HIDE DEF s
        <4>5. s[1] <= i /\ i <= s[2]
          BY SMTT(30), <3>1, <3>2, <4>2, <4>3, <4>4
        <4>6. QED
          BY <3>1, <4>5 DEF s
      <3>5. QED
        BY <3>3, <3>4
    <2>3. n \in C
      <3> HIDE DEF C
      <3>1. \A k \in 0..n : k \in C
        BY <2>1, <2>2, LoopKeeps
      <3>2. QED
        BY <3>1
    <2>4. ~(f[n][1] > f[n][2])
      BY <1>2, <2>3
    <2>5. bsearch(n, cmp) \in 1..n /\ cmp[bsearch(n, cmp)] = 0
      <3>1. n \in 0..n
        OBVIOUS
      <3>2. Middle(f[n]) \in 1..n
        BY <1>2, <2>4, <3>1, MiddleIs
      <3>3. QED
        BY <1>1, <1>7, <2>4, <3>2
    <2>6. QED
      BY <1>8, <2>5
  <1>9. QED
    BY <1>7, <1>8

LEMMA SearchBySign ==
  ASSUME NEW n \in Nat, NEW c \in [1..n -> Int], NEW d \in [1..n -> Int],
         \A i \in 1..n : (c[i] = 0 <=> d[i] = 0) /\ (c[i] < 0 <=> d[i] < 0)
  PROVE  bsearch(n, c) = bsearch(n, d)
  <1>1. PICK f \in [0..n -> Ranges(n)] :
           /\ f[0] = <<1, n>> /\ \A k \in 1..n : f[k] = Halved(f[k - 1], c)
           /\ bsearch(n, c) = IF f[n][1] > f[n][2] THEN 0 ELSE Middle(f[n])
    BY SearchRuns
  <1>2. PICK g \in [0..n -> Ranges(n)] :
           /\ g[0] = <<1, n>> /\ \A k \in 1..n : g[k] = Halved(g[k - 1], d)
           /\ bsearch(n, d) = IF g[n][1] > g[n][2] THEN 0 ELSE Middle(g[n])
    BY SearchRuns
  <1>3. ASSUME NEW r \in Ranges(n) PROVE Halved(r, c) = Halved(r, d)
    <2>1. r[1] \in Int /\ r[2] \in Int
      BY DEF Ranges
    <2>2. CASE r[1] > r[2]
      BY <2>2 DEF Halved
    <2>3. CASE r[1] <= r[2]
      <3>1. Middle(r) \in 1..n
        BY <2>3, MiddleIs
      <3>2. QED
        BY <3>1 DEF Halved
    <2>4. QED
      BY <2>1, <2>2, <2>3
  <1> DEFINE B == {k \in 0..n : f[k] = g[k]}
  <1>4. 0 \in B
    <2>1. 0 \in 0..n
      OBVIOUS
    <2>2. QED
      BY <1>1, <1>2, <2>1
  <1>5. ASSUME NEW k \in 1..n, k - 1 \in B PROVE k \in B
    <2>1. f[k - 1] \in Ranges(n) /\ f[k - 1] = g[k - 1] /\ k \in 0..n
      BY <1>5
    <2>2. QED
      BY <1>1, <1>2, <1>3, <2>1
  <1>6. n \in B
    <2> HIDE DEF B
    <2>1. \A k \in 0..n : k \in B
      BY <1>4, <1>5, LoopKeeps
    <2>2. QED
      BY <2>1
  <1>7. QED
    BY <1>1, <1>2, <1>6

-----------------------------------------------------------------------------
(* Those of a list that pass a test.                                       *)
IsKept(f, s, K) ==
  f = [k \in 0..Len(s) |-> IF k = 0 THEN <<>> ELSE IF s[k] \in K THEN Append(f[k - 1], s[k]) ELSE f[k - 1]]
(* r has those of the first n of s that are in K, each from its place.     *)
FromPlaces(r, s, n, K, m) ==
  /\ m \in [1..Len(r) -> 1..n]
  /\ \A i \in 1..Len(r) : r[i] = s[m[i]] /\ s[m[i]] \in K
  /\ \A i, j \in 1..Len(r) : m[i] = m[j] => i = j
  /\ \A k \in 1..n : s[k] \in K => \E i \in 1..Len(r) : m[i] = k

LEMMA KeptFrom ==
  ASSUME NEW X, NEW s \in Seq(X), NEW K, NEW f, IsKept(f, s, K)
  PROVE  f[Len(s)] \in Seq(X) /\ \E m : FromPlaces(f[Len(s)], s, Len(s), K, m)
  <1> DEFINE n == Len(s)
  <1>1. n \in Nat /\ \A k \in 1..n : s[k] \in X
    OBVIOUS
  <1>2. f[0] = <<>> /\ \A k \in 1..n : f[k] = IF s[k] \in K THEN Append(f[k - 1], s[k]) ELSE f[k - 1]
    <2>1. 0 \in 0..Len(s) /\ \A k \in 1..n : k \in 0..Len(s) /\ k # 0
      BY <1>1
    <2>2. \A k \in 0..Len(s) : f[k] = IF k = 0 THEN <<>> ELSE IF s[k] \in K THEN Append(f[k - 1], s[k]) ELSE f[k - 1]
      <3> DEFINE body == [k \in 0..Len(s) |-> IF k = 0 THEN <<>> ELSE IF s[k] \in K THEN Append(f[k - 1], s[k]) ELSE f[k - 1]]
      <3>1. f = body
        BY DEF IsKept
      <3>2. \A k \in 0..Len(s) : body[k] = IF k = 0 THEN <<>> ELSE IF s[k] \in K THEN Append(f[k - 1], s[k]) ELSE f[k - 1]
        OBVIOUS
      <3> HIDE DEF body
      <3>3. QED
        BY <3>1, <3>2
    <2>3. QED
      BY <2>1, <2>2
  <1> DEFINE B == {k \in 0..n : f[k] \in Seq(X) /\ \E m : FromPlaces(f[k], s, k, K, m)}
  <1>3. 0 \in B
    <2>1. FromPlaces(<<>>, s, 0, K, [i \in 1..0 |-> i])
      BY DEF FromPlaces
    <2>2. 0 \in 0..n /\ f[0] = <<>> /\ <<>> \in Seq(X)
      BY <1>1, <1>2
    <2>3. QED
      BY <2>1, <2>2
  <1>4. ASSUME NEW k \in 1..n, k - 1 \in B PROVE k \in B
    <2> DEFINE r == f[k - 1]
    <2>1. r \in Seq(X) /\ \E m : FromPlaces(r, s, k - 1, K, m)
      BY <1>4
    <2>2. PICK m : FromPlaces(r, s, k - 1, K, m)
      BY <2>1
    <2>3. /\ m \in [1..Len(r) -> 1..(k - 1)]
          /\ \A i \in 1..Len(r) : r[i] = s[m[i]] /\ s[m[i]] \in K
          /\ \A i, j \in 1..Len(r) : m[i] = m[j] => i = j
          /\ \A l \in 1..(k - 1) : s[l] \in K => \E i \in 1..Len(r) : m[i] = l
      BY <2>2 DEF FromPlaces
    <2> HIDE DEF r
    <2>4. k \in 0..n /\ k \in Int /\ Len(r) \in Nat
      BY <1>1, <2>1
    <2>5. CASE s[k] \in K
      <3> DEFINE t == Append(r, s[k])
      <3> DEFINE l == [i \in 1..(Len(r) + 1) |-> IF i = Len(r) + 1 THEN k ELSE m[i]]
      <3>1. f[k] = t
        BY <1>2, <2>5 DEF r
      <3>2. t \in Seq(X) /\ Len(t) = Len(r) + 1 /\ t[Len(r) + 1] = s[k] /\ \A i \in 1..Len(r) : t[i] = r[i]
        BY <1>1, <2>1
      <3> HIDE DEF t
      <3>3. l[Len(r) + 1] = k /\ \A i \in 1..Len(r) : l[i] = m[i] /\ m[i] \in 1..(k - 1)
        BY <2>3, <2>4
      <3>4. DOMAIN l = 1..Len(t) /\ l = [i \in 1..Len(t) |-> l[i]]
        BY <3>2
      <3> HIDE DEF l
      <3>5. \A i \in 1..Len(t) : i = Len(r) + 1 \/ i \in 1..Len(r)
        BY <2>4, <3>2
      <3>6. \A i \in 1..Len(t) : l[i] \in 1..k
        BY <2>4, <3>3, <3>5
      <3>7. \A i \in 1..Len(t) : t[i] = s[l[i]] /\ s[l[i]] \in K
        BY <2>3, <2>5, <3>2, <3>3, <3>5
      <3>8. \A i, j \in 1..Len(t) : l[i] = l[j] => i = j
        <4>1. \A i \in 1..Len(r) : l[i] # k
          BY <2>4, <3>3
        <4>2. QED
          BY <2>3, <3>3, <3>5, <4>1
      <3>9. ASSUME NEW j \in 1..k, s[j] \in K PROVE \E i \in 1..Len(t) : l[i] = j
        <4>1. CASE j = k
          <5>1. Len(r) + 1 \in 1..Len(t)
            BY <2>4, <3>2
          <5>2. QED
            BY <3>3, <4>1, <5>1
        <4>2. CASE j # k
          <5>1. j \in 1..(k - 1)
            BY <2>4, <4>2
          <5>2. PICK i \in 1..Len(r) : m[i] = j
            BY <2>3, <3>9, <5>1
          <5>3. i \in 1..Len(t)
            BY <2>4, <3>2
          <5>4. QED
            BY <3>3, <5>2, <5>3
        <4>3. QED
          BY <4>1, <4>2
      <3>10. FromPlaces(t, s, k, K, l)
        BY <3>4, <3>6, <3>7, <3>8, <3>9 DEF FromPlaces
      <3>11. QED
        BY <2>4, <3>1, <3>2, <3>10
    <2>6. CASE s[k] \notin K
      <3>1. f[k] = r
        BY <1>2, <2>6 DEF r
      <3>2. \A j \in 1..k : s[j] \in K => j \in 1..(k - 1)
        BY <2>4, <2>6
      <3>3. 1..(k - 1) \subseteq 1..k
        BY <2>4
      <3>4. FromPlaces(r, s, k, K, m)
        BY <2>3, <3>2, <3>3 DEF FromPlaces
      <3>5. QED
        BY <2>1, <2>4, <3>1, <3>4
    <2>7. QED
      BY <2>5, <2>6
  <1>5. \A k \in 0..n : k \in B
    <2> HIDE DEF B, n
    <2>1. QED
      BY <1>1, <1>3, <1>4, LoopKeeps
  <1>6. n \in B
    <2> HIDE DEF B
    <2>1. QED
      BY <1>1, <1>5
  <1>7. QED
    BY <1>6

LEMMA KeptExists ==
  ASSUME NEW X, NEW s \in Seq(X), NEW K
  PROVE  \E f : IsKept(f, s, K)
  <1> DEFINE n == Len(s)
  <1> DEFINE A == Seq(X)
  <1> DEFINE step == [p \in A \X (1..n) |-> IF s[p[2]] \in K THEN Append(p[1], s[p[2]]) ELSE p[1]]
  <1>1. n \in Nat /\ \A k \in 1..n : s[k] \in X
    OBVIOUS
  <1>2. \A r \in A, k \in 1..n : Append(r, s[k]) \in A
    BY <1>1
  <1>3. <<>> \in A
    OBVIOUS
  <1>4. step \in [A \X (1..n) -> A]
    BY <1>2
  <1>5. \A r \in A, k \in 1..n : step[<<r, k>>] = IF s[k] \in K THEN Append(r, s[k]) ELSE r
    OBVIOUS
  <1> HIDE DEF A, step, n
  <1>6. PICK g \in [0..n -> A] : IsLoop(g, n, <<>>, step)
    BY <1>1, <1>3, <1>4, LoopExists
  <1>7. \A k \in 0..n : k # 0 => k \in 1..n /\ g[k - 1] \in A
    BY <1>1
  <1>8. \A k \in 0..n : (IF k = 0 THEN <<>> ELSE step[<<g[k - 1], k>>]) =
                        IF k = 0 THEN <<>> ELSE IF s[k] \in K THEN Append(g[k - 1], s[k]) ELSE g[k - 1]
    BY <1>5, <1>7
  <1>9. IsKept(g, s, K)
    BY <1>6, <1>8 DEF IsLoop, IsKept, n
  <1>10. QED
    BY <1>9

-----------------------------------------------------------------------------
(* What libdiskmgt and devfs hand out, and what is made of it.              *)
LEMMA PrefixIs ==
  ASSUME NEW a \in Seq(Nat), NEW b \in Seq(Nat)
  PROVE  IsPrefix(a, b) <=> Len(a) <= Len(b) /\ \A i \in 1..Len(a) : a[i] = b[i]
  <1>1. Len(a) \in Nat /\ Len(b) \in Nat
    OBVIOUS
  <1>2. CASE Len(a) <= Len(b)
    <2> DEFINE p == SubSeq(a, 1, Len(a))
    <2> DEFINE q == SubSeq(b, 1, Len(a))
    <2>1. p \in Seq(Nat) /\ q \in Seq(Nat) /\ Len(p) = Len(a) /\ Len(q) = Len(a)
      BY <1>1, <1>2
    <2>2. \A i \in 1..Len(a) : p[i] = a[i] /\ q[i] = b[i]
      BY <1>1, <1>2
    <2>3. IsPrefix(a, b) <=> p = q
      BY <1>2 DEF IsPrefix
    <2> HIDE DEF p, q
    <2>6. p = [i \in 1..Len(a) |-> p[i]] /\ q = [i \in 1..Len(a) |-> q[i]]
      BY <2>1
    <2>4. p = q <=> \A i \in 1..Len(a) : p[i] = q[i]
      BY <2>6
    <2>5. QED
      BY <1>2, <2>2, <2>3, <2>4
  <1>3. CASE ~(Len(a) <= Len(b))
    BY <1>3 DEF IsPrefix
  <1>4. QED
    BY <1>2, <1>3

LEMMA NamesAre ==
  ASSUME NEW a \in Names
  PROVE  a \in Seq(Nat) /\ Len(a) \in Nat /\ Len(a) > 0 /\ \A i \in 1..Len(a) : a[i] \in Int /\ a[i] < 20
  <1>1. a \in Seq(0..19) /\ a # <<>>
    BY DEF Names
  <1>2. \A x \in 0..19 : x \in Int /\ x < 20
    OBVIOUS
  <1>3. \A i \in 1..Len(a) : a[i] \in 0..19
    BY <1>1
  <1>4. a \in Seq(Nat) /\ Len(a) \in Nat /\ Len(a) > 0
    BY <1>1
  <1>5. QED
    BY <1>2, <1>3, <1>4

LEMMA KeptIs ==
  ASSUME NEW X, NEW s \in Seq(X), NEW K
  PROVE  \E m : FromPlaces(Kept(s, K), s, Len(s), K, m)
         /\ Kept(s, K) \in Seq(X)
  <1> DEFINE f == CHOOSE g : IsKept(g, s, K)
  <1>1. IsKept(f, s, K)
    BY KeptExists
  <1>2. Kept(s, K) = f[Len(s)]
    BY DEF Kept, IsKept
  <1> HIDE DEF f
  <1>3. f[Len(s)] \in Seq(X) /\ \E m : FromPlaces(f[Len(s)], s, Len(s), K, m)
    BY <1>1, KeptFrom
  <1>4. QED
    BY <1>2, <1>3

Offered(d) == (d.kind = "disk" /\ ~d.media) \/ (d.kind = "cdrom" /\ ~d.opens)
LEMMA FilteredIs ==
  ASSUME NEW ds \in Seq(Drives), \A i, j \in DOMAIN ds : ds[i].name = ds[j].name => i = j
  PROVE  /\ ddm_filter_disks(ds) \in Seq(Drives)
         /\ \A i \in DOMAIN ddm_filter_disks(ds) :
              Offered(ddm_filter_disks(ds)[i]) /\ \E j \in DOMAIN ds : ddm_filter_disks(ds)[i] = ds[j]
         /\ \A i, j \in DOMAIN ddm_filter_disks(ds) : ddm_filter_disks(ds)[i].name = ddm_filter_disks(ds)[j].name => i = j
  <1> DEFINE K == {d \in ToSet(ds) : ~(ddm_drive_is_floppy(d) \/ ddm_drive_is_zvol(d) \/ ddm_drive_is_cdrom(d)
                                \/ ddm_drive_is_install_media(d))}
  <1> DEFINE r == Kept(ds, K)
  <1>1. r = ddm_filter_disks(ds)
    BY DEF ddm_filter_disks
  <1>2. ASSUME NEW d \in Drives, d \in K PROVE Offered(d)
    <2>1. d.kind \in {"disk", "cdrom", "floppy", "zvol"} /\ d.alias \in BOOLEAN /\ d.opens \in BOOLEAN /\ d.media \in BOOLEAN
      BY DEF Drives
    <2>2. QED
      BY <1>2, <2>1 DEF Offered, ddm_drive_is_floppy, ddm_drive_is_zvol, ddm_drive_is_cdrom, ddm_drive_is_install_media
  <1> HIDE DEF K
  <1>3. r \in Seq(Drives) /\ \E m : FromPlaces(r, ds, Len(ds), K, m)
    BY KeptIs
  <1> HIDE DEF r
  <1>4. PICK m : FromPlaces(r, ds, Len(ds), K, m)
    BY <1>3
  <1>5. /\ \A i \in 1..Len(r) : m[i] \in 1..Len(ds) /\ r[i] = ds[m[i]] /\ ds[m[i]] \in K
        /\ \A i, j \in 1..Len(r) : m[i] = m[j] => i = j
    BY <1>4 DEF FromPlaces
  <1>6. DOMAIN r = 1..Len(r) /\ DOMAIN ds = 1..Len(ds) /\ \A i \in 1..Len(r) : r[i] \in Drives
    BY <1>3
  <1>7. \A i \in 1..Len(r) : Offered(r[i])
    BY <1>2, <1>5, <1>6
  <1>8. \A i, j \in 1..Len(r) : r[i].name = r[j].name => i = j
    BY <1>5, <1>6
  <1>9. QED
    BY <1>1, <1>3, <1>5, <1>6, <1>7, <1>8

(* What the handles handed out are.                                        *)
Whole(c, h) ==
  /\ h \in Nodes(c)
  /\ c = "DISK" => Offered(h) /\ h.name \in DiskNames
  /\ c = "PARTITION" => Numbered(h.name, h.of, LetterP)
  /\ c = "SLICE" => Numbered(h.name, h.of, LetterS)

LEMMA HandlesAre ==
  ASSUME IsComputer(computer)
  PROVE  /\ \A c \in Listed : /\ Handles(c) \in Seq(Nodes(c)) /\ \A i \in DOMAIN Handles(c) : Whole(c, Handles(c)[i])
                              /\ \A i \in DOMAIN Handles(c) : Handles(c)[i].name \in Seq(Nat)
         /\ \A i, j \in DOMAIN Handles("DISK") : Handles("DISK")[i].name = Handles("DISK")[j].name => i = j
         /\ DiskNames \subseteq Names
  <1>1. /\ computer.drives \in Seq(Drives) /\ computer.parts \in Seq(Parts) /\ computer.slices \in Seq(Slices)
        /\ \A i, j \in DOMAIN computer.drives : computer.drives[i].name = computer.drives[j].name => i = j
        /\ \A i \in DOMAIN computer.parts : Numbered(computer.parts[i].name, computer.parts[i].of, LetterP)
        /\ \A i \in DOMAIN computer.slices : Numbered(computer.slices[i].name, computer.slices[i].of, LetterS)
    BY DEF IsComputer
  <1>2. DiskNames \subseteq Names
    <2>1. \A i \in DOMAIN computer.drives : computer.drives[i] \in Drives
      BY <1>1
    <2>2. QED
      BY <2>1 DEF DiskNames, Drives
  <1>3. Handles("DISK") = ddm_filter_disks(computer.drives)
    BY DEF Handles
  <1>4. /\ Handles("DISK") \in Seq(Drives)
        /\ \A i \in DOMAIN Handles("DISK") :
              Offered(Handles("DISK")[i]) /\ \E j \in DOMAIN computer.drives : Handles("DISK")[i] = computer.drives[j]
        /\ \A i, j \in DOMAIN Handles("DISK") : Handles("DISK")[i].name = Handles("DISK")[j].name => i = j
    BY <1>1, <1>3, FilteredIs
  <1>5. Handles("PARTITION") = computer.parts /\ Handles("SLICE") = computer.slices
    BY DEF Handles
  <1>6. Nodes("DISK") = Drives /\ Nodes("PARTITION") = Parts /\ Nodes("SLICE") = Slices
    BY DEF Nodes
  <1>7. \A i \in DOMAIN Handles("DISK") : Handles("DISK")[i] \in Drives /\ Handles("DISK")[i].name \in DiskNames
    BY <1>4 DEF DiskNames
  <1>8. \A i \in DOMAIN Handles("DISK") : Whole("DISK", Handles("DISK")[i]) /\ Handles("DISK")[i].name \in Seq(Nat)
    BY <1>2, <1>4, <1>6, <1>7, NamesAre DEF Whole
  <1>9. \A i \in DOMAIN computer.parts : Whole("PARTITION", computer.parts[i]) /\ computer.parts[i].name \in Seq(Nat)
    <2>1. \A i \in DOMAIN computer.parts : computer.parts[i] \in Parts
      BY <1>1
    <2>2. QED
      BY <1>1, <1>6, <2>1 DEF Whole, Parts
  <1>10. \A i \in DOMAIN computer.slices : Whole("SLICE", computer.slices[i]) /\ computer.slices[i].name \in Seq(Nat)
    <2>1. \A i \in DOMAIN computer.slices : computer.slices[i] \in Slices
      BY <1>1
    <2>2. QED
      BY <1>1, <1>6, <2>1 DEF Whole, Slices
  <1>11. QED
    BY <1>1, <1>2, <1>4, <1>5, <1>6, <1>8, <1>9, <1>10 DEF Listed

LEMMA NoAttrIs == NoAttr \in Attrs /\ NoAttr.name = <<>> /\ \A a \in Attrs : a.name \in Seq(Nat)
BY DEF NoAttr, Attrs, Words

LEMMA NodeNames ==
  ASSUME NEW c \in Classes, NEW h \in Nodes(c)
  PROVE  h.name \in Seq(Nat) /\ h.answers \in BOOLEAN
  <1>1. CASE c = "DISK"
    <2>1. h \in Drives
      BY <1>1 DEF Nodes
    <2>2. h.name \in Names /\ h.answers \in BOOLEAN
      BY <2>1 DEF Drives
    <2>3. QED
      BY <2>2, NamesAre
  <1>2. CASE c = "PARTITION"
    BY <1>2 DEF Nodes, Parts
  <1>3. CASE c \in {"SLICE", "OS"}
    <2>1. h \in Slices
      BY <1>3 DEF Nodes
    <2>2. QED
      BY <2>1 DEF Slices
  <1>4. QED
    BY <1>1, <1>2, <1>3 DEF Classes

LEMMA AttributesAre ==
  ASSUME NEW c \in Listed, NEW h \in Nodes(c)
  PROVE  /\ Attributes(c, h) \in Attrs /\ h.answers \in BOOLEAN
         /\ h.answers => Attributes(c, h).name = h.name
         /\ ~h.answers => Attributes(c, h) = NoAttr
  <1>1. NoAttr \in Attrs /\ h.name \in Seq(Nat)
    BY NoAttrIs, NodeNames DEF Listed, Classes
  <1>2. CASE c = "DISK"
    <2>1. h \in Drives /\ Attributes(c, h) = ddm_get_disk_attributes(h)
      BY <1>2 DEF Nodes, Attributes
    <2>2. h.vendor \in STRING /\ h.label \in SUBSET STRING /\ h.answers \in BOOLEAN
      BY <2>1 DEF Drives
    <2>3. QED
      BY <1>1, <2>1, <2>2 DEF ddm_get_disk_attributes, Attrs, Words
  <1>3. CASE c = "PARTITION"
    <2>1. h \in Parts /\ Attributes(c, h) = ddm_get_partition_attributes(h)
      BY <1>3 DEF Nodes, Attributes
    <2>2. h.answers \in BOOLEAN
      BY <2>1 DEF Parts
    <2>3. QED
      <3> DEFINE label == IF h.sunixos /\ ddm_is_linux_swap(h) THEN {"lswap"} ELSE {"unknown"}
      <3>1. label \in SUBSET Words
        BY DEF Words
      <3>2. ~h.answers => Attributes(c, h) = NoAttr
        BY <2>1 DEF ddm_get_partition_attributes
      <3>3. h.answers => Attributes(c, h) = [NoAttr EXCEPT !.name = h.name, !.label = label]
        BY <2>1 DEF ddm_get_partition_attributes
      <3> HIDE DEF label
      <3>4. [NoAttr EXCEPT !.name = h.name, !.label = label] \in Attrs /\ [NoAttr EXCEPT !.name = h.name, !.label = label].name = h.name
        BY <3>1, <1>1 DEF Attrs, NoAttr
      <3>5. QED
        BY <1>1, <2>2, <3>2, <3>3, <3>4
  <1>4. CASE c = "SLICE"
    <2>1. h \in Slices /\ Attributes(c, h) = ddm_get_slice_attributes(h)
      BY <1>4 DEF Nodes, Attributes
    <2>2. h.answers \in BOOLEAN /\ h.usedBy \in Seq(STRING)
      BY <2>1 DEF Slices
    <2>3. ddm_get_slice_inuse_stats(h) \in SUBSET Words
      BY <2>2 DEF ddm_get_slice_inuse_stats, Words
    <2>4. QED
      BY <1>1, <2>1, <2>2, <2>3 DEF ddm_get_slice_attributes, Attrs, NoAttr, Words
  <1>5. QED
    BY <1>2, <1>3, <1>4 DEF Listed

(* Entries and what becomes of them.                                       *)
LEMMA EntryMade ==
  ASSUME NEW c \in Listed, NEW h \in Nodes(c)
  PROVE  Proper(c, Entry(h)) /\ Entry(h).handle = h /\ ~Entry(h).done
  BY NoAttrIs DEF Entry, Proper, Entries, EntryIs

LEMMA EntryFilled ==
  ASSUME NEW c \in Listed, NEW e, Proper(c, e)
  PROVE  /\ Proper(c, Fill(c, e)) /\ Fill(c, e).handle = e.handle /\ Fill(c, e).done
         /\ e.done => Fill(c, e) = e
         /\ ~e.done => Fill(c, e).attrib = Attributes(c, e.handle)
  <1>1. e \in Entries(c) /\ EntryIs(c, e) /\ e.handle \in Nodes(c) /\ e.done \in BOOLEAN
    BY DEF Proper, Entries
  <1>2. Attributes(c, e.handle) \in Attrs
    BY <1>1, AttributesAre
  <1>3. CASE e.done
    BY <1>1, <1>3 DEF Fill, Proper
  <1>4. CASE ~e.done
    <2> DEFINE f == [e EXCEPT !.attrib = Attributes(c, e.handle), !.done = TRUE]
    <2>1. Fill(c, e) = f
      BY <1>4 DEF Fill
    <2>2. f \in Entries(c) /\ f.handle = e.handle /\ f.done /\ f.attrib = Attributes(c, e.handle)
      BY <1>1, <1>2 DEF Entries
    <2>3. QED
      BY <1>1, <1>4, <2>1, <2>2 DEF Proper, EntryIs
  <1>5. QED
    BY <1>1, <1>3, <1>4

-----------------------------------------------------------------------------
(* What each operation makes of a class, and of the registry.              *)
LEMMA SeqIs ==
  ASSUME NEW X, NEW s \in Seq(X)
  PROVE  s = [i \in 1..Len(s) |-> s[i]] /\ DOMAIN s = 1..Len(s) /\ Len(s) \in Nat /\ \A i \in 1..Len(s) : s[i] \in X
  OBVIOUS

LEMMA SeqSame ==
  ASSUME NEW X, NEW s \in Seq(X), NEW t \in Seq(X), Len(s) = Len(t), \A i \in DOMAIN s : s[i] = t[i]
  PROVE  s = t
  <1>1. s = [i \in 1..Len(s) |-> s[i]] /\ t = [i \in 1..Len(s) |-> t[i]]
    BY SeqIs
  <1>2. \A i \in 1..Len(s) : s[i] = t[i]
    BY SeqIs
  <1>3. QED
    BY <1>1, <1>2

LEMMA RegSet ==
  ASSUME NEW o, IsReg(o), NEW c \in Classes, NEW l, ClassIs(c, l)
  PROVE  /\ IsReg([o EXCEPT ![c] = l]) /\ [o EXCEPT ![c] = l][c] = l
         /\ \A d \in Classes : d # c => [o EXCEPT ![c] = l][d] = o[d]
  <1> DEFINE p == [o EXCEPT ![c] = l]
  <1>1. o = [d \in Classes |-> o[d]] /\ DOMAIN o = Classes
    BY DEF IsReg
  <1>2. p = [d \in Classes |-> IF d = c THEN l ELSE o[d]]
    BY <1>1
  <1> HIDE DEF p
  <1>3. \A d \in Classes : p[d] = IF d = c THEN l ELSE o[d]
    BY <1>2
  <1>4. p = [d \in Classes |-> p[d]]
    BY <1>2, <1>3
  <1>5. \A d \in Classes : ClassIs(d, p[d])
    BY <1>3 DEF IsReg
  <1>6. IsReg(p)
    BY <1>4, <1>5 DEF IsReg
  <1>7. QED
    BY <1>3, <1>6 DEF p

LEMMA HeldAre ==
  ASSUME IsComputer(computer), NEW c \in Listed, NEW hs \in Seq(Nodes(c)), Handed(c, hs)
  PROVE  /\ DOMAIN hs = DOMAIN Handles(c) /\ DOMAIN hs = 1..Len(hs) /\ Len(hs) \in Nat
         /\ \A i \in DOMAIN hs : hs[i] \in Nodes(c) /\ SameHandle(c, hs[i], Handles(c)[i]) /\ hs[i].name \in Seq(Nat)
         /\ c = "DISK" => hs = Handles(c) /\ \A i, j \in DOMAIN hs : hs[i].name = hs[j].name => i = j
  <1>1. Handles(c) \in Seq(Nodes(c))
    BY HandlesAre
  <1>2. Len(hs) = Len(Handles(c)) /\ \A i \in DOMAIN hs : SameHandle(c, hs[i], Handles(c)[i])
    BY DEF Handed
  <1>3. DOMAIN hs = DOMAIN Handles(c) /\ DOMAIN hs = 1..Len(hs) /\ Len(hs) \in Nat
    BY <1>1, <1>2
  <1>4. \A i \in DOMAIN hs : hs[i] \in Nodes(c) /\ hs[i].name \in Seq(Nat)
    BY <1>3, NodeNames DEF Listed, Classes
  <1>5. ASSUME c = "DISK" PROVE hs = Handles(c)
    <2>1. \A i \in DOMAIN hs : hs[i] = Handles(c)[i]
      BY <1>2, <1>5 DEF SameHandle
    <2>2. QED
      BY <1>1, <1>2, <2>1, SeqSame
  <1>6. ASSUME c = "DISK" PROVE \A i, j \in DOMAIN hs : hs[i].name = hs[j].name => i = j
    BY <1>5, <1>6, HandlesAre
  <1>7. QED
    BY <1>2, <1>3, <1>4, <1>5, <1>6

LEMMA HandlesHanded ==
  ASSUME IsComputer(computer), NEW c \in Listed
  PROVE  Handles(c) \in Seq(Nodes(c)) /\ Handed(c, Handles(c))
BY HandlesAre DEF Handed, SameHandle

Remade(c, l) ==
  LET hs == IF l.held THEN l.pddm ELSE Handles(c)
  IN [l EXCEPT !.pddm = hs, !.held = TRUE, !.arr = [i \in DOMAIN hs |-> Entry(hs[i])],
               !.built = TRUE, !.cnt = Len(hs), !.cur = 0]

LEMMA RemadeIs ==
  ASSUME IsComputer(computer), NEW c \in Listed, NEW l, ClassIs(c, l)
  PROVE  /\ ClassIs(c, Remade(c, l)) /\ InPlace(Remade(c, l))
         /\ Remade(c, l).held /\ Remade(c, l).built /\ Remade(c, l).cur = 0 /\ Remade(c, l).issorted = l.issorted
         /\ l.held => Remade(c, l).pddm = l.pddm
         /\ \A i \in DOMAIN Remade(c, l).arr : ~Remade(c, l).arr[i].done
  <1> DEFINE hs == IF l.held THEN l.pddm ELSE Handles(c)
  <1> DEFINE arr == [i \in DOMAIN hs |-> Entry(hs[i])]
  <1> DEFINE m == [l EXCEPT !.pddm = hs, !.held = TRUE, !.arr = arr, !.built = TRUE, !.cnt = Len(hs), !.cur = 0]
  <1>1. l \in Lists(c) /\ ListIs(c, l)
    BY DEF ClassIs
  <1>2. hs \in Seq(Nodes(c)) /\ Handed(c, hs)
    BY <1>1, HandlesHanded DEF Lists, ListIs
  <1>3. m = Remade(c, l)
    BY DEF Remade
  <1>4. l.held => hs = l.pddm
    OBVIOUS
  <1> HIDE DEF hs
  <1>5. /\ DOMAIN hs = 1..Len(hs) /\ Len(hs) \in Nat
        /\ \A i \in DOMAIN hs : hs[i] \in Nodes(c)
        /\ c = "DISK" => \A i, j \in DOMAIN hs : hs[i].name = hs[j].name => i = j
    BY <1>2, HeldAre
  <1>6. \A i \in DOMAIN hs : Proper(c, Entry(hs[i])) /\ Entry(hs[i]).handle = hs[i] /\ ~Entry(hs[i]).done
    BY <1>5, EntryMade
  <1>7. arr \in Seq(Entries(c)) /\ Len(arr) = Len(hs) /\ DOMAIN arr = 1..Len(hs) /\ \A i \in DOMAIN hs : arr[i] = Entry(hs[i])
    BY <1>5, <1>6 DEF Proper
  <1> HIDE DEF arr
  <1>8. /\ m \in Lists(c) /\ m.pddm = hs /\ m.held /\ m.arr = arr /\ m.built /\ m.cnt = Len(hs) /\ m.cur = 0
        /\ m.issorted = l.issorted
    BY <1>1, <1>2, <1>5, <1>7 DEF Lists
  <1> HIDE DEF m
  <1>9. ListIs(c, m)
    BY <1>2, <1>5, <1>6, <1>7, <1>8 DEF ListIs
  <1>10. InPlace(m)
    BY <1>5, <1>6, <1>7, <1>8 DEF InPlace
  <1>11. c = "DISK" => DisksAre(m)
    BY <1>5, <1>6, <1>7, <1>8 DEF DisksAre
  <1>12. ClassIs(c, m)
    BY <1>5, <1>7, <1>8, <1>9, <1>10, <1>11 DEF ClassIs, Listed
  <1>13. \A i \in DOMAIN m.arr : ~m.arr[i].done
    BY <1>5, <1>6, <1>7, <1>8
  <1>14. QED
    BY <1>3, <1>4, <1>8, <1>10, <1>12, <1>13

(* Entries in the places of others with the same handles.                  *)
LEMMA EntriesSet ==
  ASSUME NEW c \in Listed, NEW l, ClassIs(c, l), NEW arr,
         arr = [i \in DOMAIN l.arr |-> arr[i]],
         \A i \in DOMAIN l.arr : Proper(c, arr[i]) /\ arr[i].handle = l.arr[i].handle
  PROVE  /\ ClassIs(c, [l EXCEPT !.arr = arr]) /\ [l EXCEPT !.arr = arr].arr = arr /\ DOMAIN arr = DOMAIN l.arr
         /\ [l EXCEPT !.arr = arr] = [pddm |-> l.pddm, held |-> l.held, arr |-> arr, built |-> l.built, cnt |-> l.cnt,
                                      cur |-> l.cur, issorted |-> l.issorted]
         /\ InPlace(l) => InPlace([l EXCEPT !.arr = arr])
  <1> DEFINE m == [l EXCEPT !.arr = arr]
  <1>1. l \in Lists(c) /\ ListIs(c, l) /\ l.cur <= Len(l.arr) /\ (~l.built => l.arr = <<>>)
    BY DEF ClassIs
  <1>2. l.arr \in Seq(Entries(c)) /\ DOMAIN l.arr = 1..Len(l.arr) /\ Len(l.arr) \in Nat
    BY <1>1 DEF Lists
  <1>3. arr \in Seq(Entries(c)) /\ Len(arr) = Len(l.arr) /\ DOMAIN arr = DOMAIN l.arr
    <2>1. arr \in [1..Len(l.arr) -> Entries(c)]
      BY <1>2 DEF Proper
    <2>2. QED
      BY <1>2, <2>1
  <1>4. /\ m \in Lists(c) /\ m.pddm = l.pddm /\ m.held = l.held /\ m.arr = arr /\ m.built = l.built /\ m.cnt = l.cnt
        /\ m.cur = l.cur /\ m.issorted = l.issorted
    BY <1>1, <1>3 DEF Lists
  <1>5. m = [pddm |-> l.pddm, held |-> l.held, arr |-> arr, built |-> l.built, cnt |-> l.cnt, cur |-> l.cur, issorted |-> l.issorted]
    <2>1. l = [pddm |-> l.pddm, held |-> l.held, arr |-> l.arr, built |-> l.built, cnt |-> l.cnt, cur |-> l.cur,
               issorted |-> l.issorted]
      BY <1>1 DEF Lists
    <2>2. QED
      BY <2>1
  <1> HIDE DEF m
  <1>6. ListIs(c, m)
    BY <1>1, <1>3, <1>4 DEF ListIs
  <1>7. InPlace(l) => InPlace(m)
    BY <1>3, <1>4 DEF InPlace
  <1>8. DisksAre(l) => DisksAre(m)
    <2> SUFFICES ASSUME DisksAre(l) PROVE DisksAre(m)
      OBVIOUS
    <2>1. \A i \in DOMAIN l.arr : arr[i].handle = l.arr[i].handle
      OBVIOUS
    <2>2. \A i \in DOMAIN m.arr : \E j \in DOMAIN m.pddm : m.arr[i].handle = m.pddm[j]
      <3>1. \A i \in DOMAIN l.arr : \E j \in DOMAIN l.pddm : l.arr[i].handle = l.pddm[j]
        BY DEF DisksAre
      <3>2. DOMAIN m.arr = DOMAIN l.arr /\ m.pddm = l.pddm /\ \A i \in DOMAIN l.arr : m.arr[i].handle = l.arr[i].handle
        BY <1>3, <1>4, <2>1
      <3>3. QED
        BY <3>1, <3>2
    <2>3. m.built => \A j \in DOMAIN m.pddm : \E i \in DOMAIN m.arr : m.arr[i].handle = m.pddm[j]
      <3>1. l.built => \A j \in DOMAIN l.pddm : \E i \in DOMAIN l.arr : l.arr[i].handle = l.pddm[j]
        BY DEF DisksAre
      <3>2. DOMAIN m.arr = DOMAIN l.arr /\ m.pddm = l.pddm /\ m.built = l.built /\ \A i \in DOMAIN l.arr : m.arr[i].handle = l.arr[i].handle
        BY <1>3, <1>4, <2>1
      <3>3. QED
        BY <3>1, <3>2
    <2>4. \A i, j \in DOMAIN m.arr : m.arr[i].handle.name = m.arr[j].handle.name => i = j
      BY <1>3, <1>4, <2>1 DEF DisksAre
    <2>5. QED
      BY <2>2, <2>3, <2>4 DEF DisksAre
  <1>9. ~m.built => m.arr = <<>>
    BY <1>1, <1>2, <1>3, <1>4
  <1>10. ClassIs(c, m)
    BY <1>1, <1>3, <1>4, <1>6, <1>7, <1>8, <1>9 DEF ClassIs, Listed
  <1>11. QED
    BY <1>3, <1>4, <1>5, <1>7, <1>10 DEF m

Filled(c, l) == [l EXCEPT !.arr = [i \in DOMAIN @ |-> Fill(c, @[i])]]
LEMMA FilledIs ==
  ASSUME NEW c \in Listed, NEW l, ClassIs(c, l)
  PROVE  /\ ClassIs(c, Filled(c, l)) /\ AllDone(Filled(c, l)) /\ (InPlace(l) => InPlace(Filled(c, l)))
         /\ Filled(c, l) = [pddm |-> l.pddm, held |-> l.held, arr |-> Filled(c, l).arr, built |-> l.built, cnt |-> l.cnt,
                            cur |-> l.cur, issorted |-> l.issorted]
         /\ DOMAIN Filled(c, l).arr = DOMAIN l.arr
         /\ \A i \in DOMAIN l.arr : Filled(c, l).arr[i] = Fill(c, l.arr[i]) /\ Filled(c, l).arr[i].handle = l.arr[i].handle
         /\ AllDone(l) => Filled(c, l) = l
  <1> DEFINE arr == [i \in DOMAIN l.arr |-> Fill(c, l.arr[i])]
  <1>1. l \in Lists(c) /\ \A i \in DOMAIN l.arr : Proper(c, l.arr[i])
    BY DEF ClassIs, ListIs
  <1>2. \A i \in DOMAIN l.arr : /\ Proper(c, Fill(c, l.arr[i])) /\ Fill(c, l.arr[i]).handle = l.arr[i].handle
                                /\ Fill(c, l.arr[i]).done /\ (l.arr[i].done => Fill(c, l.arr[i]) = l.arr[i])
    BY <1>1, EntryFilled
  <1>3. Filled(c, l) = [l EXCEPT !.arr = arr]
    BY <1>1 DEF Filled, Lists
  <1>4. arr = [i \in DOMAIN l.arr |-> arr[i]] /\ \A i \in DOMAIN l.arr : arr[i] = Fill(c, l.arr[i])
    OBVIOUS
  <1> HIDE DEF arr
  <1>5. \A i \in DOMAIN l.arr : Proper(c, arr[i]) /\ arr[i].handle = l.arr[i].handle
    BY <1>2, <1>4
  <1>6. /\ ClassIs(c, [l EXCEPT !.arr = arr]) /\ [l EXCEPT !.arr = arr].arr = arr /\ DOMAIN arr = DOMAIN l.arr
        /\ [l EXCEPT !.arr = arr] = [pddm |-> l.pddm, held |-> l.held, arr |-> arr, built |-> l.built, cnt |-> l.cnt,
                                      cur |-> l.cur, issorted |-> l.issorted]
        /\ InPlace(l) => InPlace([l EXCEPT !.arr = arr])
    BY <1>4, <1>5, EntriesSet
  <1>7. AllDone(Filled(c, l))
    <2>1. Filled(c, l).arr = arr
      BY <1>3, <1>6
    <2>2. \A i \in DOMAIN l.arr : arr[i].done
      BY <1>2, <1>4
    <2>3. QED
      BY <1>6, <2>1, <2>2 DEF AllDone
  <1>8. AllDone(l) => Filled(c, l) = l
    <2> SUFFICES ASSUME AllDone(l) PROVE Filled(c, l) = l
      OBVIOUS
    <2>1. l.arr \in Seq(Entries(c))
      BY <1>1 DEF Lists
    <2>2. l.arr = [i \in DOMAIN l.arr |-> l.arr[i]]
      BY <2>1
    <2>3. \A i \in DOMAIN l.arr : arr[i] = l.arr[i]
      BY <1>2, <1>4 DEF AllDone
    <2>4. arr = l.arr
      BY <1>4, <2>2, <2>3
    <2>5. l = [pddm |-> l.pddm, held |-> l.held, arr |-> l.arr, built |-> l.built, cnt |-> l.cnt, cur |-> l.cur, issorted |-> l.issorted]
      BY <1>1 DEF Lists
    <2>6. QED
      BY <1>3, <1>6, <2>4, <2>5
  <1>9. QED
    BY <1>3, <1>4, <1>5, <1>6, <1>7, <1>8

Placed(l) == IF l.issorted THEN l ELSE [l EXCEPT !.arr = Sorted(@), !.issorted = TRUE]
LEMMA PlacedIs ==
  ASSUME NEW c \in {"DISK", "OS"}, NEW l, ClassIs(c, l)
  PROVE  /\ ClassIs(c, Placed(l)) /\ Placed(l).issorted /\ (l.issorted => Placed(l) = l)
         /\ ~l.issorted => InOrder(Placed(l).arr)
         /\ Placed(l) = [pddm |-> l.pddm, held |-> l.held, arr |-> Placed(l).arr, built |-> l.built, cnt |-> l.cnt,
                         cur |-> l.cur, issorted |-> TRUE]
         /\ Len(Placed(l).arr) = Len(l.arr)
         /\ AllDone(l) => AllDone(Placed(l))
  <1>1. l \in Lists(c) /\ l.cur <= Len(l.arr) /\ (~l.built => l.arr = <<>>)
    BY DEF ClassIs
  <1>2. l = [pddm |-> l.pddm, held |-> l.held, arr |-> l.arr, built |-> l.built, cnt |-> l.cnt,
                         cur |-> l.cur, issorted |-> l.issorted] /\ l.issorted \in BOOLEAN
    BY <1>1 DEF Lists
  <1>3. CASE l.issorted
    <2>1. Placed(l) = l
      BY <1>3 DEF Placed
    <2>2. QED
      BY <1>1, <1>2, <1>3, <2>1 DEF Lists
  <1>4. CASE ~l.issorted
    <2> DEFINE arr == Sorted(l.arr)
    <2> DEFINE m == [l EXCEPT !.arr = arr, !.issorted = TRUE]
    <2>1. m = Placed(l)
      BY <1>4 DEF Placed
    <2>2. l.arr \in Seq(Entries(c)) /\ DOMAIN l.arr = 1..Len(l.arr) /\ Len(l.arr) \in Nat
      BY <1>1 DEF Lists
    <2>3. \A e \in Entries(c) : e.attrib.name \in Seq(Nat)
      BY NoAttrIs DEF Entries
    <2>4. InOrder(arr) /\ \E p \in Bijection(DOMAIN l.arr, DOMAIN l.arr) : arr = Permuted(l.arr, p)
      BY <2>2, <2>3, SortedIs
    <2>5. PICK p \in Bijection(DOMAIN l.arr, DOMAIN l.arr) : arr = Permuted(l.arr, p)
      BY <2>4
    <2> HIDE DEF arr
    <2>6. /\ \A i \in DOMAIN l.arr : p[i] \in DOMAIN l.arr
          /\ \A i, j \in DOMAIN l.arr : p[i] = p[j] => i = j
          /\ \A j \in DOMAIN l.arr : \E i \in DOMAIN l.arr : p[i] = j
      BY DEF Bijection, Injection, Surjection, IsInjective
    <2>7. arr = [i \in DOMAIN l.arr |-> l.arr[p[i]]]
      BY <2>5 DEF Permuted
    <2>8. arr \in [1..Len(l.arr) -> Entries(c)] /\ \A i \in DOMAIN l.arr : arr[i] = l.arr[p[i]]
      BY SMTT(30), <2>2, <2>6, <2>7
    <2>9. arr \in Seq(Entries(c)) /\ Len(arr) = Len(l.arr) /\ DOMAIN arr = DOMAIN l.arr
      BY <2>2, <2>8
    <2>10. /\ m \in Lists(c) /\ m.pddm = l.pddm /\ m.held = l.held /\ m.arr = arr /\ m.built = l.built /\ m.cnt = l.cnt
           /\ m.cur = l.cur /\ m.issorted
      BY <1>1, <2>9 DEF Lists
    <2>11. m = [pddm |-> l.pddm, held |-> l.held, arr |-> arr, built |-> l.built, cnt |-> l.cnt, cur |-> l.cur, issorted |-> TRUE]
      <3>1. m = [pddm |-> m.pddm, held |-> m.held, arr |-> m.arr, built |-> m.built, cnt |-> m.cnt, cur |-> m.cur, issorted |-> m.issorted]
        <4>1. m \in Lists(c)
          BY <2>10
        <4> HIDE DEF m
        <4>2. QED
          BY <4>1 DEF Lists
      <3>2. m.issorted \in BOOLEAN
        BY <2>10 DEF Lists
      <3>3. QED
        BY <2>10, <3>1, <3>2
    <2> HIDE DEF m
    <2>12. c = "DISK" => ListIs(c, m) /\ DisksAre(m)
      <3> SUFFICES ASSUME c = "DISK" PROVE ListIs(c, m) /\ DisksAre(m)
        OBVIOUS
      <3>1. ListIs(c, l) /\ DisksAre(l)
        BY DEF ClassIs, Listed
      <3>2. \A i \in DOMAIN m.arr : Proper(c, m.arr[i])
        BY <2>6, <2>8, <2>9, <2>10, <3>1 DEF ListIs
      <3>3. ListIs(c, m)
        BY <2>9, <2>10, <3>1, <3>2 DEF ListIs
      <3>4. ASSUME NEW i \in DOMAIN m.arr PROVE \E j \in DOMAIN m.pddm : m.arr[i].handle = m.pddm[j]
        <4>1. i \in DOMAIN l.arr /\ p[i] \in DOMAIN l.arr /\ m.arr[i] = l.arr[p[i]]
          BY <2>6, <2>8, <2>9, <2>10
        <4>2. PICK j \in DOMAIN l.pddm : l.arr[p[i]].handle = l.pddm[j]
          BY <3>1, <4>1 DEF DisksAre
        <4>3. QED
          BY <2>10, <4>1, <4>2
      <3>5. ASSUME m.built, NEW j \in DOMAIN m.pddm PROVE \E i \in DOMAIN m.arr : m.arr[i].handle = m.pddm[j]
        <4>1. PICK k \in DOMAIN l.arr : l.arr[k].handle = l.pddm[j]
          BY <2>10, <3>1, <3>5 DEF DisksAre
        <4>2. PICK i \in DOMAIN l.arr : p[i] = k
          BY <2>6
        <4>3. m.arr[i].handle = m.pddm[j] /\ i \in DOMAIN m.arr
          BY <2>8, <2>9, <2>10, <4>1, <4>2
        <4>4. QED
          BY <4>3
      <3>6. ASSUME NEW i \in DOMAIN m.arr, NEW j \in DOMAIN m.arr, m.arr[i].handle.name = m.arr[j].handle.name PROVE i = j
        <4>1. /\ i \in DOMAIN l.arr /\ p[i] \in DOMAIN l.arr /\ m.arr[i] = l.arr[p[i]]
              /\ j \in DOMAIN l.arr /\ p[j] \in DOMAIN l.arr /\ m.arr[j] = l.arr[p[j]]
          BY <2>6, <2>8, <2>9, <2>10
        <4>2. p[i] = p[j]
          BY <3>1, <3>6, <4>1 DEF DisksAre
        <4>3. QED
          BY <2>6, <4>1, <4>2
      <3>7. QED
        BY <3>3, <3>4, <3>5, <3>6 DEF DisksAre
    <2>13. c = "OS" => OsIs(m)
      <3>1. c = "OS" => OsIs(l)
        BY DEF ClassIs
      <3>2. c = "OS" => \A i \in DOMAIN arr : arr[i].done
        BY <2>6, <2>8, <2>9, <3>1 DEF OsIs, AllDone
      <3>3. QED
        BY <2>9, <2>10, <3>1, <3>2 DEF OsIs, AllDone
    <2>14. ~m.built => m.arr = <<>>
      <3>1. ~m.built => Len(arr) = 0
        BY <1>1, <2>9, <2>10
      <3>2. QED
        BY <2>9, <2>10, <3>1
    <2>15. ClassIs(c, m)
      <3>1. m \in Lists(c) /\ m.cur <= Len(m.arr) /\ (~m.built => m.arr = <<>>)
        BY <1>1, <2>9, <2>10, <2>14
      <3>2. c \notin {"PARTITION", "SLICE"}
        OBVIOUS
      <3>3. c \in Listed => c = "DISK"
        BY DEF Listed
      <3>4. QED
        BY <2>12, <2>13, <3>1, <3>2, <3>3 DEF ClassIs
    <2>16. AllDone(l) => AllDone(m)
      <3> SUFFICES ASSUME AllDone(l) PROVE AllDone(m)
        OBVIOUS
      <3>1. \A i \in DOMAIN arr : i \in DOMAIN l.arr /\ p[i] \in DOMAIN l.arr /\ arr[i] = l.arr[p[i]]
        BY <2>6, <2>8, <2>9
      <3>2. QED
        BY <2>10, <3>1 DEF AllDone
    <2>17. QED
      BY <1>4, <2>1, <2>4, <2>9, <2>10, <2>11, <2>15, <2>16
  <1>5. QED
    BY <1>2, <1>3, <1>4

DiskReady(l) == Placed(Filled("DISK", IF l.built THEN l ELSE Remade("DISK", l)))
LEMMA DiskReadyIs ==
  ASSUME IsComputer(computer), NEW l, ClassIs("DISK", l), NEW a \in BOOLEAN, SortIs(l, a)
  PROVE  /\ ClassIs("DISK", DiskReady(l)) /\ SortIs(DiskReady(l), a) /\ AllDone(DiskReady(l))
         /\ DiskReady(l).issorted /\ DiskReady(l).built /\ DiskReady(l).held
         /\ DiskReady(l).cur = l.cur
         /\ l.issorted => /\ DOMAIN DiskReady(l).arr = DOMAIN l.arr
                          /\ \A i \in DOMAIN l.arr : DiskReady(l).arr[i].handle = l.arr[i].handle
  <1> DEFINE b == IF l.built THEN l ELSE Remade("DISK", l)
  <1> DEFINE f == Filled("DISK", b)
  <1> DEFINE r == Placed(f)
  <1>1. r = DiskReady(l)
    BY DEF DiskReady
  <1>2. "DISK" \in Listed /\ "DISK" \in {"DISK", "OS"}
    BY DEF Listed
  <1>3. l \in Lists("DISK") /\ l.cur <= Len(l.arr) /\ (~l.built => l.arr = <<>>) /\ l.cur \in Nat
    BY DEF ClassIs, Lists
  <1>4. /\ ClassIs("DISK", b) /\ b.built /\ b.cur = l.cur /\ b.issorted = l.issorted
        /\ l.issorted => b = l
    <2>1. CASE l.built
      BY <2>1
    <2>2. CASE ~l.built
      <3>1. l.cur = 0
        BY <1>3, <2>2
      <3>2. b = Remade("DISK", l)
        BY <2>2
      <3> HIDE DEF b
      <3>3. ~l.issorted
        BY <2>2 DEF SortIs
      <3>4. QED
        BY <1>2, <3>1, <3>2, <3>3, RemadeIs
    <2>3. QED
      BY <2>1, <2>2
  <1> HIDE DEF b
  <1>5. /\ ClassIs("DISK", f) /\ AllDone(f) /\ (InPlace(b) => InPlace(f)) /\ DOMAIN f.arr = DOMAIN b.arr
        /\ \A i \in DOMAIN b.arr : f.arr[i].handle = b.arr[i].handle
        /\ AllDone(b) => f = b
    BY <1>2, <1>4, FilledIs
  <1>6. f.built = b.built /\ f.cur = b.cur /\ f.issorted = b.issorted
    <2>1. f = [pddm |-> b.pddm, held |-> b.held, arr |-> f.arr, built |-> b.built, cnt |-> b.cnt, cur |-> b.cur, issorted |-> b.issorted]
      BY <1>2, <1>4, FilledIs
    <2> HIDE DEF f
    <2>2. QED
      BY <2>1
  <1> HIDE DEF f
  <1>7. /\ ClassIs("DISK", r) /\ r.issorted /\ (f.issorted => r = f) /\ AllDone(r)
        /\ ~f.issorted => InOrder(r.arr)
    BY <1>2, <1>5, PlacedIs
  <1>8. r.built = f.built /\ r.cur = f.cur
    <2>1. r = [pddm |-> f.pddm, held |-> f.held, arr |-> r.arr, built |-> f.built, cnt |-> f.cnt, cur |-> f.cur, issorted |-> TRUE]
      BY <1>2, <1>5, PlacedIs
    <2> HIDE DEF r
    <2>2. QED
      BY <2>1
  <1> HIDE DEF r
  <1>9. r.held
    BY <1>2, <1>4, <1>6, <1>7, <1>8 DEF ClassIs, ListIs
  <1>10. SortIs(r, a)
    <2>1. CASE a
      <3>1. l.issorted /\ InPlace(l)
        BY <2>1 DEF SortIs
      <3>2. r = f /\ InPlace(f)
        BY <1>4, <1>5, <1>6, <1>7, <3>1
      <3>3. QED
        BY <1>4, <1>6, <1>7, <1>8, <2>1, <3>2 DEF SortIs
    <2>2. CASE ~a
      <3>1. InOrder(r.arr)
        <4>1. CASE l.issorted
          <5>1. AllDone(l) /\ InOrder(l.arr)
            BY <2>2, <4>1 DEF SortIs
          <5>2. QED
            BY <1>4, <1>5, <1>6, <1>7, <4>1, <5>1
        <4>2. CASE ~l.issorted
          BY <1>4, <1>6, <1>7, <4>2
        <4>3. QED
          BY <4>1, <4>2
      <3>2. QED
        BY <1>4, <1>6, <1>7, <1>8, <2>2, <3>1 DEF SortIs
    <2>3. QED
      BY <2>1, <2>2
  <1>11. l.issorted => DOMAIN r.arr = DOMAIN l.arr /\ \A i \in DOMAIN l.arr : r.arr[i].handle = l.arr[i].handle
    BY <1>4, <1>5, <1>6, <1>7
  <1>12. QED
    BY <1>1, <1>4, <1>6, <1>7, <1>8, <1>9, <1>10, <1>11

LEMMA RebuiltIs ==
  ASSUME IsComputer(computer), NEW o, IsReg(o), NEW c \in Listed
  PROVE  /\ IsReg(Rebuilt(o, c)) /\ Rebuilt(o, c)[c] = Remade(c, o[c])
         /\ \A d \in Classes : d # c => Rebuilt(o, c)[d] = o[d]
  <1>1. c \in Classes /\ ClassIs(c, o[c]) /\ DOMAIN o = Classes
    BY DEF Listed, Classes, IsReg
  <1>2. Rebuilt(o, c) = [o EXCEPT ![c] = Remade(c, o[c])]
    BY <1>1 DEF Rebuilt, Remade
  <1>3. ClassIs(c, Remade(c, o[c]))
    BY <1>1, RemadeIs
  <1> DEFINE l == Remade(c, o[c])
  <1>4. ClassIs(c, l)
    BY <1>3
  <1>5. Rebuilt(o, c) = [o EXCEPT ![c] = l]
    BY <1>2
  <1> HIDE DEF l
  <1>6. /\ IsReg([o EXCEPT ![c] = l]) /\ [o EXCEPT ![c] = l][c] = l
        /\ \A d \in Classes : d # c => [o EXCEPT ![c] = l][d] = o[d]
    BY <1>1, <1>4, RegSet
  <1>7. QED
    BY <1>5, <1>6 DEF l

Fills(o, c) == [o EXCEPT ![c].arr = [i \in DOMAIN @ |-> Fill(c, @[i])]]
LEMMA FillsIs ==
  ASSUME NEW o, IsReg(o), NEW c \in Listed
  PROVE  /\ IsReg(Fills(o, c)) /\ Fills(o, c)[c] = Filled(c, o[c])
         /\ \A d \in Classes : d # c => Fills(o, c)[d] = o[d]
  <1>1. c \in Classes /\ ClassIs(c, o[c]) /\ DOMAIN o = Classes
    BY DEF Listed, Classes, IsReg
  <1>2. Fills(o, c) = [o EXCEPT ![c] = Filled(c, o[c])]
    BY <1>1 DEF Fills, Filled
  <1>3. ClassIs(c, Filled(c, o[c]))
    BY <1>1, FilledIs
  <1> DEFINE l == Filled(c, o[c])
  <1>4. ClassIs(c, l)
    BY <1>3
  <1>5. Fills(o, c) = [o EXCEPT ![c] = l]
    BY <1>2
  <1> HIDE DEF l
  <1>6. /\ IsReg([o EXCEPT ![c] = l]) /\ [o EXCEPT ![c] = l][c] = l
        /\ \A d \in Classes : d # c => [o EXCEPT ![c] = l][d] = o[d]
    BY <1>1, <1>4, RegSet
  <1>7. QED
    BY <1>5, <1>6 DEF l

LEMMA PlacesIs ==
  ASSUME NEW o, IsReg(o), NEW c \in {"DISK", "OS"}
  PROVE  /\ IsReg(sort_objs(o, c)) /\ sort_objs(o, c)[c] = Placed(o[c])
         /\ \A d \in Classes : d # c => sort_objs(o, c)[d] = o[d]
  <1>1. c \in Classes /\ ClassIs(c, o[c]) /\ DOMAIN o = Classes
    BY DEF Classes, IsReg
  <1>2. CASE o[c].issorted
    BY <1>1, <1>2 DEF sort_objs, Placed
  <1>3. CASE ~o[c].issorted
    <2>1. sort_objs(o, c) = [o EXCEPT ![c].arr = Sorted(@), ![c].issorted = TRUE]
      BY <1>3 DEF sort_objs
    <2>2. Placed(o[c]) = [o[c] EXCEPT !.arr = Sorted(@), !.issorted = TRUE]
      BY <1>3 DEF Placed
    <2>3. sort_objs(o, c) = [o EXCEPT ![c] = Placed(o[c])]
      BY <1>1, <2>1, <2>2
    <2>4. ClassIs(c, Placed(o[c]))
      BY <1>1, PlacedIs
    <2> DEFINE l == Placed(o[c])
    <2>5. ClassIs(c, l)
      BY <2>4
    <2>6. sort_objs(o, c) = [o EXCEPT ![c] = l]
      BY <2>3
    <2> HIDE DEF l
    <2>7. /\ IsReg([o EXCEPT ![c] = l]) /\ [o EXCEPT ![c] = l][c] = l
          /\ \A d \in Classes : d # c => [o EXCEPT ![c] = l][d] = o[d]
      BY <1>1, <2>5, RegSet
    <2>8. QED
      BY <2>6, <2>7 DEF l
  <1>4. QED
    BY <1>2, <1>3

LEMMA ReadyIs ==
  ASSUME IsComputer(computer), NEW o, IsReg(o)
  PROVE  /\ IsReg(Ready(o)) /\ Ready(o)["DISK"] = DiskReady(o["DISK"])
         /\ \A d \in Classes : d # "DISK" => Ready(o)[d] = o[d]
  <1> DEFINE b == IF o["DISK"].built THEN o ELSE Rebuilt(o, "DISK")
  <1>1. "DISK" \in Listed /\ "DISK" \in {"DISK", "OS"} /\ "DISK" \in Classes
    BY DEF Listed, Classes
  <1>2. /\ IsReg(b) /\ b["DISK"] = IF o["DISK"].built THEN o["DISK"] ELSE Remade("DISK", o["DISK"])
        /\ \A d \in Classes : d # "DISK" => b[d] = o[d]
    BY <1>1, RebuiltIs
  <1>3. Ready(o) = sort_objs(Fills(b, "DISK"), "DISK")
    BY DEF Ready, disks_discover_all_attrs, Fills, Fill, Attributes
  <1> HIDE DEF b
  <1>4. /\ IsReg(Fills(b, "DISK")) /\ Fills(b, "DISK")["DISK"] = Filled("DISK", b["DISK"])
        /\ \A d \in Classes : d # "DISK" => Fills(b, "DISK")[d] = b[d]
    BY <1>1, <1>2, FillsIs
  <1>5. /\ IsReg(Ready(o)) /\ Ready(o)["DISK"] = Placed(Fills(b, "DISK")["DISK"])
        /\ \A d \in Classes : d # "DISK" => Ready(o)[d] = Fills(b, "DISK")[d]
    BY <1>1, <1>3, <1>4, PlacesIs
  <1>6. QED
    BY <1>2, <1>4, <1>5 DEF DiskReady

LEMMA AnswerIs ==
  ASSUME NEW o, NEW c \in Listed, NEW e, Proper(c, e)
  PROVE  /\ Proper(c, Answer(o, c, e)) /\ Answer(o, c, e).handle = e.handle /\ Answer(o, c, e).done
         /\ c # "SLICE" \/ e.done => Answer(o, c, e) = Fill(c, e)
         /\ Answer(o, c, e).attrib = NoAttr /\ Fill(c, e).attrib # NoAttr =>
              Asks(c, e) /\ disk_random_slice(o, Fill(c, e).attrib)
  <1> DEFINE f == Fill(c, e)
  <1>1. Proper(c, f) /\ f.handle = e.handle /\ f.done
    BY EntryFilled
  <1> HIDE DEF f
  <1> DEFINE g == [f EXCEPT !.attrib = NoAttr]
  <1>2. f \in Entries(c)
    BY <1>1 DEF Proper
  <1>3. g \in Entries(c) /\ g.handle = f.handle /\ g.done /\ g.attrib = NoAttr
    BY <1>1, <1>2, NoAttrIs DEF Entries
  <1>4. CASE Asks(c, e) /\ disk_random_slice(o, Fill(c, e).attrib)
    <2>1. Answer(o, c, e) = g
      BY <1>4 DEF Answer, f
    <2>2. c = "SLICE" /\ ~e.done
      BY <1>4 DEF Asks
    <2>3. Proper(c, g)
      BY <1>3, <2>2 DEF Proper, EntryIs
    <2> HIDE DEF g
    <2>4. QED
      BY <1>1, <1>3, <1>4, <2>1, <2>2, <2>3
  <1>5. CASE ~(Asks(c, e) /\ disk_random_slice(o, Fill(c, e).attrib))
    <2>1. Answer(o, c, e) = f
      BY <1>5 DEF Answer, f
    <2>2. QED
      BY <1>1, <1>5, <2>1 DEF f
  <1>6. QED
    BY <1>4, <1>5

LEMMA OneSet ==
  ASSUME NEW c \in Classes, NEW l, ClassIs(c, l), NEW k \in DOMAIN l.arr, NEW x,
         IF c = "OS" THEN x = l.arr[k] ELSE Proper(c, x) /\ x.handle = l.arr[k].handle
  PROVE  LET m == [l EXCEPT !.arr = [@ EXCEPT ![k] = x]] IN
         /\ ClassIs(c, m)
         /\ m = [pddm |-> l.pddm, held |-> l.held, arr |-> m.arr, built |-> l.built, cnt |-> l.cnt,
                 cur |-> l.cur, issorted |-> l.issorted]
         /\ DOMAIN m.arr = DOMAIN l.arr /\ m.arr[k] = x /\ \A i \in DOMAIN l.arr : i # k => m.arr[i] = l.arr[i]
         /\ \A i \in DOMAIN l.arr : m.arr[i].handle = l.arr[i].handle
         /\ x = l.arr[k] => m = l
         /\ InPlace(l) => InPlace(m)
  <1> DEFINE arr == [l.arr EXCEPT ![k] = x]
  <1> DEFINE m == [l EXCEPT !.arr = arr]
  <1>1. l \in Lists(c)
    BY DEF ClassIs
  <1>2. m = [l EXCEPT !.arr = [@ EXCEPT ![k] = x]]
    BY <1>1 DEF Lists
  <1>3. l.arr \in Seq(Entries(c)) /\ l.arr = [i \in DOMAIN l.arr |-> l.arr[i]]
    BY <1>1 DEF Lists
  <1>4. arr = [i \in DOMAIN l.arr |-> IF i = k THEN x ELSE l.arr[i]]
    BY <1>3
  <1>5. x = l.arr[k] => arr = l.arr
    BY <1>3, <1>4
  <1>6. /\ DOMAIN arr = DOMAIN l.arr /\ arr = [i \in DOMAIN l.arr |-> arr[i]] /\ arr[k] = x
        /\ \A i \in DOMAIN l.arr : i # k => arr[i] = l.arr[i]
    BY <1>4
  <1> HIDE DEF arr
  <1>7. l = [pddm |-> l.pddm, held |-> l.held, arr |-> l.arr, built |-> l.built, cnt |-> l.cnt, cur |-> l.cur, issorted |-> l.issorted]
    BY <1>1 DEF Lists
  <1>8. m = [pddm |-> l.pddm, held |-> l.held, arr |-> arr, built |-> l.built, cnt |-> l.cnt, cur |-> l.cur, issorted |-> l.issorted]
    BY SMTT(30), <1>1 DEF Lists
  <1>9. m.arr = arr /\ (x = l.arr[k] => m = l)
    BY <1>5, <1>7, <1>8
  <1>10. CASE c = "OS"
    <2>1. m = l
      BY <1>9, <1>10
    <2>2. QED
      BY <1>2, <1>6, <1>7, <1>9, <1>10, <2>1
  <1>11. CASE c # "OS"
    <2>1. c \in Listed
      BY <1>11 DEF Listed, Classes
    <2>2. \A i \in DOMAIN l.arr : Proper(c, l.arr[i])
      BY <2>1 DEF ClassIs, ListIs
    <2>3. \A i \in DOMAIN l.arr : Proper(c, arr[i]) /\ arr[i].handle = l.arr[i].handle
      BY <1>6, <1>11, <2>2
    <2>4. ClassIs(c, m) /\ (InPlace(l) => InPlace(m))
      BY <1>6, <2>1, <2>3, EntriesSet
    <2> HIDE DEF m
    <2>5. QED
      BY <1>2, <1>6, <1>8, <1>9, <2>3, <2>4
  <1>12. QED
    BY <1>10, <1>11

LEMMA CurSet ==
  ASSUME NEW c \in Classes, NEW l, ClassIs(c, l), NEW n \in Nat, n <= Len(l.arr)
  PROVE  /\ ClassIs(c, [l EXCEPT !.cur = n])
         /\ [l EXCEPT !.cur = n] = [pddm |-> l.pddm, held |-> l.held, arr |-> l.arr, built |-> l.built, cnt |-> l.cnt,
                                    cur |-> n, issorted |-> l.issorted]
  <1> DEFINE m == [l EXCEPT !.cur = n]
  <1>1. l \in Lists(c)
    BY DEF ClassIs
  <1>2. m \in Lists(c) /\ m = [pddm |-> l.pddm, held |-> l.held, arr |-> l.arr, built |-> l.built, cnt |-> l.cnt,
                                    cur |-> n, issorted |-> l.issorted]
    BY <1>1 DEF Lists
  <1>3. /\ m.pddm = l.pddm /\ m.held = l.held /\ m.arr = l.arr /\ m.built = l.built /\ m.cnt = l.cnt
        /\ m.cur = n /\ m.issorted = l.issorted
    BY <1>2
  <1> HIDE DEF m
  <1>4. c \in Listed => ListIs(c, m)
    BY <1>3 DEF ClassIs, ListIs
  <1>5. c \in {"PARTITION", "SLICE"} => InPlace(m)
    BY <1>3 DEF ClassIs, InPlace
  <1>6. c = "DISK" => DisksAre(m)
    BY <1>3 DEF ClassIs, DisksAre
  <1>7. c = "OS" => OsIs(m)
    BY <1>3 DEF ClassIs, OsIs, AllDone
  <1>8. ClassIs(c, m)
    BY <1>2, <1>3, <1>4, <1>5, <1>6, <1>7 DEF ClassIs
  <1>9. QED
    BY <1>2, <1>8 DEF m

Here(o, c) == o[c].arr[o[c].cur]
LEMMA LookedIs ==
  ASSUME IsComputer(computer), NEW o, IsReg(o), NEW c \in Classes, o[c].cur # 0
  PROVE  /\ IsReg(Looked(o, c)) /\ o[c].cur \in DOMAIN o[c].arr
         /\ \A x \in Classes : x # c /\ x # "DISK" => Looked(o, c)[x] = o[x]
         /\ c # "DISK" => Looked(o, c)["DISK"] = IF Asks(c, Here(o, c)) THEN DiskReady(o["DISK"]) ELSE o["DISK"]
         /\ Looked(o, c)[c] = [pddm |-> o[c].pddm, held |-> o[c].held, arr |-> Looked(o, c)[c].arr, built |-> o[c].built,
                               cnt |-> o[c].cnt, cur |-> o[c].cur, issorted |-> o[c].issorted]
         /\ DOMAIN Looked(o, c)[c].arr = DOMAIN o[c].arr
         /\ \A i \in DOMAIN o[c].arr : Looked(o, c)[c].arr[i].handle = o[c].arr[i].handle
         /\ Looked(o, c)[c].arr[o[c].cur] = Answer(IF Asks(c, Here(o, c)) THEN Ready(o) ELSE o, c, Here(o, c))
         /\ \A i \in DOMAIN o[c].arr : i # o[c].cur => Looked(o, c)[c].arr[i] = o[c].arr[i]
         /\ InPlace(o[c]) => InPlace(Looked(o, c)[c])
         /\ c = "OS" \/ (c = "DISK" /\ Here(o, c).done) => Looked(o, c)[c] = o[c]
  <1> DEFINE e == Here(o, c)
  <1> DEFINE k == o[c].cur
  <1> DEFINE d == IF Asks(c, e) THEN Ready(o) ELSE o
  <1> DEFINE x == Answer(d, c, e)
  <1>1. ClassIs(c, o[c]) /\ o[c] \in Lists(c) /\ k \in Nat /\ k <= Len(o[c].arr) /\ o[c].arr \in Seq(Entries(c))
    BY DEF IsReg, ClassIs, Lists
  <1>2. k \in DOMAIN o[c].arr /\ e = o[c].arr[k]
    BY <1>1 DEF Here
  <1>3. Asks(c, e) => c = "SLICE"
    BY DEF Asks
  <1>4. /\ IsReg(d) /\ d[c] = o[c] /\ d["DISK"] = (IF Asks(c, e) THEN DiskReady(o["DISK"]) ELSE o["DISK"])
        /\ \A y \in Classes : y # "DISK" => d[y] = o[y]
    BY <1>3, ReadyIs
  <1> DEFINE m == [o[c] EXCEPT !.arr = [@ EXCEPT ![k] = x]]
  <1>5. Looked(o, c) = [d EXCEPT ![c] = m]
    <2>1. Looked(o, c) = [d EXCEPT ![c].arr[k] = x]
      BY DEF Looked, Here
    <2> HIDE DEF d, x, k
    <2>2. QED
      BY <1>4, <2>1
  <1>6. IF c = "OS" THEN x = e ELSE Proper(c, x) /\ x.handle = e.handle
    <2>1. CASE c = "OS"
      <3>1. OsIs(o[c]) /\ AllDone(o[c])
        BY <1>1, <2>1 DEF ClassIs, OsIs
      <3>2. e.done
        BY <1>2, <3>1 DEF AllDone
      <3>3. QED
        BY <1>3, <2>1, <3>2 DEF Answer, Fill
    <2>2. CASE c # "OS"
      <3>1. c \in Listed
        BY <2>2 DEF Listed, Classes
      <3>2. Proper(c, e)
        BY <1>1, <1>2, <3>1 DEF ClassIs, ListIs
      <3> HIDE DEF d, e
      <3>3. QED
        BY <2>2, <3>1, <3>2, AnswerIs
    <2>3. QED
      BY <2>1, <2>2
  <1>7. c = "OS" \/ (c = "DISK" /\ e.done) => x = e
    <2>1. c = "DISK" /\ e.done => x = e
      BY <1>3 DEF Answer, Fill
    <2>2. QED
      BY <1>6, <2>1
  <1> HIDE DEF x, k, e
  <1>8. /\ ClassIs(c, m)
        /\ m = [pddm |-> o[c].pddm, held |-> o[c].held, arr |-> m.arr, built |-> o[c].built, cnt |-> o[c].cnt,
                 cur |-> o[c].cur, issorted |-> o[c].issorted]
        /\ DOMAIN m.arr = DOMAIN o[c].arr /\ m.arr[k] = x /\ \A i \in DOMAIN o[c].arr : i # k => m.arr[i] = o[c].arr[i]
        /\ \A i \in DOMAIN o[c].arr : m.arr[i].handle = o[c].arr[i].handle
        /\ x = e => m = o[c]
        /\ InPlace(o[c]) => InPlace(m)
    <2>1. IF c = "OS" THEN x = o[c].arr[k] ELSE Proper(c, x) /\ x.handle = o[c].arr[k].handle
      BY <1>2, <1>6
    <2> DEFINE l == o[c]
    <2>2. l = o[c] /\ ClassIs(c, l) /\ k \in DOMAIN l.arr
      BY <1>1, <1>2
    <2>3. IF c = "OS" THEN x = l.arr[k] ELSE Proper(c, x) /\ x.handle = l.arr[k].handle
      BY <2>1
    <2> HIDE DEF l, m
    <2>4. LET n == [l EXCEPT !.arr = [@ EXCEPT ![k] = x]] IN
         /\ ClassIs(c, n)
         /\ n = [pddm |-> l.pddm, held |-> l.held, arr |-> n.arr, built |-> l.built, cnt |-> l.cnt,
                 cur |-> l.cur, issorted |-> l.issorted]
         /\ DOMAIN n.arr = DOMAIN l.arr /\ n.arr[k] = x /\ \A i \in DOMAIN l.arr : i # k => n.arr[i] = l.arr[i]
         /\ \A i \in DOMAIN l.arr : n.arr[i].handle = l.arr[i].handle
         /\ x = l.arr[k] => n = l
         /\ InPlace(l) => InPlace(n)
      BY SMTT(30), <2>2, <2>3, OneSet
    <2>5. QED
      BY <1>2, <2>2, <2>4 DEF m
  <1> HIDE DEF m
  <1>9. /\ IsReg([d EXCEPT ![c] = m]) /\ [d EXCEPT ![c] = m][c] = m
        /\ \A y \in Classes : y # c => [d EXCEPT ![c] = m][y] = d[y]
    <2> HIDE DEF d
    <2>1. QED
      BY <1>4, <1>8, RegSet
  <1>10. "DISK" \in Classes
    BY DEF Classes
  <1> HIDE DEF d
  <1>11. /\ IsReg(Looked(o, c)) /\ Looked(o, c)[c] = m /\ \A y \in Classes : y # c => Looked(o, c)[y] = d[y]
    BY <1>5, <1>9
  <1>12. \A y \in Classes : y # c /\ y # "DISK" => Looked(o, c)[y] = o[y]
    BY <1>4, <1>11
  <1>13. c # "DISK" => Looked(o, c)["DISK"] = IF Asks(c, e) THEN DiskReady(o["DISK"]) ELSE o["DISK"]
    BY <1>4, <1>10, <1>11
  <1>14. QED
    BY <1>2, <1>7, <1>8, <1>11, <1>12, <1>13 DEF d, x, k, e

Wants(o, c) == \E i \in DOMAIN o[c].arr : Asks(c, o[c].arr[i])
LEMMA WalkedIs ==
  ASSUME IsComputer(computer), NEW o, IsReg(o), NEW c \in Listed
  PROVE  LET d == IF Wants(o, c) THEN Ready(o) ELSE o IN
         /\ IsReg(Walked(o, c))
         /\ \A x \in Classes : x # c /\ x # "DISK" => Walked(o, c)[x] = o[x]
         /\ c # "DISK" => Walked(o, c)["DISK"] = IF Wants(o, c) THEN DiskReady(o["DISK"]) ELSE o["DISK"]
         /\ Walked(o, c)[c] = [pddm |-> o[c].pddm, held |-> o[c].held, arr |-> Walked(o, c)[c].arr, built |-> o[c].built,
                               cnt |-> o[c].cnt, cur |-> Len(o[c].arr), issorted |-> o[c].issorted]
         /\ DOMAIN Walked(o, c)[c].arr = DOMAIN o[c].arr
         /\ \A i \in DOMAIN o[c].arr : Walked(o, c)[c].arr[i] = Answer(d, c, o[c].arr[i])
         /\ \A i \in DOMAIN o[c].arr : Walked(o, c)[c].arr[i].handle = o[c].arr[i].handle
         /\ InPlace(o[c]) => InPlace(Walked(o, c)[c])
  <1> DEFINE d == IF Wants(o, c) THEN Ready(o) ELSE o
  <1> DEFINE arr == [i \in DOMAIN o[c].arr |-> Answer(d, c, o[c].arr[i])]
  <1> DEFINE n == Len(o[c].arr)
  <1> DEFINE l == [o[c] EXCEPT !.arr = arr]
  <1> DEFINE m == [l EXCEPT !.cur = n]
  <1>1. ClassIs(c, o[c]) /\ o[c] \in Lists(c) /\ n \in Nat /\ c \in Classes
    BY SMTT(30) DEF IsReg, ClassIs, Lists, Listed, Classes
  <1>2. Wants(o, c) => c = "SLICE"
    BY DEF Wants, Asks
  <1>3. /\ IsReg(d) /\ d[c] = o[c] /\ d["DISK"] = (IF Wants(o, c) THEN DiskReady(o["DISK"]) ELSE o["DISK"])
        /\ \A y \in Classes : y # "DISK" => d[y] = o[y]
    BY <1>1, <1>2, ReadyIs
  <1>4. DOMAIN d = Classes
    BY <1>3 DEF IsReg
  <1>5. Walked(o, c) = [d EXCEPT ![c].arr = [i \in DOMAIN @ |-> Answer(d, c, @[i])], ![c].cur = n]
    BY DEF Walked, Wants
  <1> HIDE DEF d
  <1>6. arr = [i \in DOMAIN o[c].arr |-> arr[i]] /\ \A i \in DOMAIN o[c].arr : arr[i] = Answer(d, c, o[c].arr[i])
    OBVIOUS
  <1>7. Walked(o, c) = [d EXCEPT ![c] = m]
    <2>1. [i \in DOMAIN d[c].arr |-> Answer(d, c, d[c].arr[i])] = arr
      BY <1>3
    <2>2. Walked(o, c) = [d EXCEPT ![c].arr = arr, ![c].cur = n]
      BY <1>1, <1>4, <1>5, <2>1
    <2> HIDE DEF arr, n
    <2>3. QED
      BY <1>1, <1>3, <1>4, <2>2
  <1> HIDE DEF arr
  <1>8. \A i \in DOMAIN o[c].arr : Proper(c, o[c].arr[i])
    BY <1>1 DEF ClassIs, ListIs
  <1>9. \A i \in DOMAIN o[c].arr : Proper(c, arr[i]) /\ arr[i].handle = o[c].arr[i].handle
    BY <1>6, <1>8, AnswerIs
  <1> DEFINE s == o[c]
  <1>10. /\ ClassIs(c, l) /\ l.arr = arr /\ DOMAIN arr = DOMAIN o[c].arr
         /\ l = [pddm |-> o[c].pddm, held |-> o[c].held, arr |-> arr, built |-> o[c].built, cnt |-> o[c].cnt,
                                      cur |-> o[c].cur, issorted |-> o[c].issorted]
         /\ InPlace(o[c]) => InPlace(l)
    <2>1. s = o[c] /\ ClassIs(c, s) /\ arr = [i \in DOMAIN s.arr |-> arr[i]]
          /\ \A i \in DOMAIN s.arr : Proper(c, arr[i]) /\ arr[i].handle = s.arr[i].handle
      BY <1>1, <1>6, <1>9
    <2> HIDE DEF s, l
    <2>2. /\ ClassIs(c, [s EXCEPT !.arr = arr]) /\ [s EXCEPT !.arr = arr].arr = arr /\ DOMAIN arr = DOMAIN s.arr
          /\ [s EXCEPT !.arr = arr] = [pddm |-> s.pddm, held |-> s.held, arr |-> arr, built |-> s.built, cnt |-> s.cnt,
                                      cur |-> s.cur, issorted |-> s.issorted]
          /\ InPlace(s) => InPlace([s EXCEPT !.arr = arr])
      BY <2>1, EntriesSet
    <2>3. QED
      BY <2>1, <2>2 DEF l
  <1> HIDE DEF l
  <1>11. n <= Len(l.arr)
    <2>1. o[c].arr \in Seq(Entries(c)) /\ l.arr \in Seq(Entries(c))
      BY <1>1, <1>10 DEF ClassIs, Lists
    <2>2. QED
      BY <1>10, <2>1
  <1>12. /\ ClassIs(c, m)
         /\ m = [pddm |-> l.pddm, held |-> l.held, arr |-> l.arr, built |-> l.built, cnt |-> l.cnt,
                                    cur |-> n, issorted |-> l.issorted]
    BY <1>1, <1>10, <1>11, CurSet
  <1>13. m.arr = arr /\ m.pddm = o[c].pddm /\ (InPlace(l) => InPlace(m))
    BY <1>10, <1>12 DEF InPlace
  <1>14. m = [pddm |-> o[c].pddm, held |-> o[c].held, arr |-> m.arr, built |-> o[c].built,
                               cnt |-> o[c].cnt, cur |-> Len(o[c].arr), issorted |-> o[c].issorted]
    BY <1>10, <1>12, <1>13
  <1> HIDE DEF m
  <1>15. /\ IsReg([d EXCEPT ![c] = m]) /\ [d EXCEPT ![c] = m][c] = m
         /\ \A y \in Classes : y # c => [d EXCEPT ![c] = m][y] = d[y]
    BY <1>1, <1>3, <1>12, RegSet
  <1>16. "DISK" \in Classes
    BY DEF Classes
  <1>17. /\ IsReg(Walked(o, c)) /\ Walked(o, c)[c] = m /\ \A y \in Classes : y # c => Walked(o, c)[y] = d[y]
    BY <1>7, <1>15
  <1>18. QED
    BY <1>3, <1>6, <1>9, <1>10, <1>13, <1>14, <1>16, <1>17 DEF d

SlicesHeld(l) == [l EXCEPT !.pddm = IF l.held THEN l.pddm ELSE Handles("SLICE"), !.held = TRUE,
                           !.cnt = Len(IF l.held THEN l.pddm ELSE Handles("SLICE"))]

LEMMA SlicesHeldIs ==
  ASSUME IsComputer(computer), NEW l, ClassIs("SLICE", l)
  PROVE  /\ ClassIs("SLICE", SlicesHeld(l)) /\ SlicesHeld(l).arr = l.arr /\ SlicesHeld(l).cur = l.cur
         /\ SlicesHeld(l).pddm = (IF l.held THEN l.pddm ELSE Handles("SLICE"))
         /\ SlicesHeld(l).pddm \in Seq(Slices) /\ SlicesHeld(l).built = l.built /\ SlicesHeld(l).held
  <1> DEFINE hs == IF l.held THEN l.pddm ELSE Handles("SLICE")
  <1> DEFINE m == [l EXCEPT !.pddm = hs, !.held = TRUE, !.cnt = Len(hs)]
  <1>1. "SLICE" \in Listed /\ Nodes("SLICE") = Slices
    BY DEF Listed, Nodes
  <1>2. l \in Lists("SLICE") /\ ListIs("SLICE", l) /\ InPlace(l) /\ l.cur <= Len(l.arr) /\ (~l.built => l.arr = <<>>)
    BY <1>1 DEF ClassIs
  <1>3. hs \in Seq(Slices) /\ Handed("SLICE", hs) /\ Len(hs) \in Nat
    BY <1>1, <1>2, HandlesHanded DEF Lists, ListIs
  <1>4. m = SlicesHeld(l)
    BY DEF SlicesHeld
  <1>5. l.built => l.held /\ hs = l.pddm
    BY <1>2 DEF ListIs
  <1>6. hs = IF l.held THEN l.pddm ELSE Handles("SLICE")
    OBVIOUS
  <1> HIDE DEF hs
  <1>7. /\ m \in Lists("SLICE") /\ m.pddm = hs /\ m.held /\ m.cnt = Len(hs) /\ m.arr = l.arr /\ m.cur = l.cur
        /\ m.built = l.built
    BY <1>1, <1>2, <1>3 DEF Lists
  <1> HIDE DEF m
  <1>8. ListIs("SLICE", m)
    BY <1>2, <1>3, <1>5, <1>7 DEF ListIs
  <1>9. InPlace(m)
    BY <1>2, <1>5, <1>7 DEF InPlace
  <1>10. ClassIs("SLICE", m)
    BY <1>1, <1>2, <1>7, <1>8, <1>9 DEF ClassIs
  <1>11. QED
    BY <1>3, <1>4, <1>6, <1>7, <1>10

LEMMA SystemsSet ==
  ASSUME NEW l, ClassIs("OS", l), NEW s \in Seq(Slices)
  PROVE  LET arr == [i \in DOMAIN s |-> [handle |-> s[i], attrib |-> [NoAttr EXCEPT !.name = s[i].name], done |-> TRUE]]
             m   == [l EXCEPT !.cnt = Len(s), !.cur = 0, !.arr = IF s = <<>> THEN @ ELSE arr, !.built = (@ \/ s # <<>>)]
         IN ClassIs("OS", m) /\ m.cur = 0
  <1> DEFINE arr == [i \in DOMAIN s |-> [handle |-> s[i], attrib |-> [NoAttr EXCEPT !.name = s[i].name], done |-> TRUE]]
  <1> DEFINE new == IF s = <<>> THEN l.arr ELSE arr
  <1> DEFINE m == [l EXCEPT !.cnt = Len(s), !.cur = 0, !.arr = new, !.built = (l.built \/ s # <<>>)]
  <1>1. l \in Lists("OS") /\ OsIs(l) /\ (~l.built => l.arr = <<>>) /\ Nodes("OS") = Slices
    BY DEF ClassIs, Nodes
  <1>2. DOMAIN s = 1..Len(s) /\ Len(s) \in Nat /\ \A i \in 1..Len(s) : s[i] \in Slices /\ s[i].name \in Seq(Nat)
    <2>1. \A x \in Slices : x.name \in Seq(Nat)
      BY DEF Slices
    <2>2. QED
      BY <2>1
  <1>3. \A i \in 1..Len(s) : [NoAttr EXCEPT !.name = s[i].name] \in Attrs
    BY <1>2 DEF NoAttr, Attrs, Words
  <1>4. /\ arr \in Seq(Entries("OS")) /\ Len(arr) = Len(s) /\ \A i \in DOMAIN arr : arr[i].done
    BY <1>1, <1>2, <1>3 DEF Entries
  <1> HIDE DEF arr
  <1>5. new \in Seq(Entries("OS")) /\ Len(new) \in Nat /\ Len(s) \in {0, Len(new)} /\ \A i \in DOMAIN new : new[i].done
    BY <1>1, <1>2, <1>4 DEF Lists, OsIs, AllDone
  <1>6. ~(l.built \/ s # <<>>) => new = <<>>
    BY <1>1
  <1> HIDE DEF new
  <1>7. l.built \in BOOLEAN
    BY <1>1 DEF Lists
  <1>8. (l.built \/ s # <<>>) \in BOOLEAN
    OBVIOUS
  <1>9. /\ m \in Lists("OS") /\ m.pddm = l.pddm /\ m.held = l.held /\ m.cnt = Len(s) /\ m.cur = 0 /\ m.arr = new
        /\ m.built = (l.built \/ s # <<>>)
    BY <1>1, <1>2, <1>5, <1>8 DEF Lists
  <1>10. m = [l EXCEPT !.cnt = Len(s), !.cur = 0, !.arr = IF s = <<>> THEN @ ELSE arr, !.built = (@ \/ s # <<>>)]
    BY <1>1 DEF Lists, new
  <1> HIDE DEF m
  <1>11. OsIs(m)
    BY <1>1, <1>5, <1>9 DEF OsIs, AllDone
  <1>12. ClassIs("OS", m)
    <2>1. m.cur <= Len(m.arr)
      BY <1>5, <1>9
    <2>2. ~m.built => m.arr = <<>>
      <3>1. m.built <=> (l.built \/ s # <<>>)
        BY <1>9 
      <3>2. QED
        BY <1>6, <1>9, <3>1
    <2>3. "OS" \notin Listed /\ "OS" \notin {"PARTITION", "SLICE"}
      BY DEF Listed
    <2>4. QED
      BY <1>9, <1>11, <2>1, <2>2, <2>3 DEF ClassIs
  <1>13. QED
    BY <1>9, <1>10, <1>12 DEF arr

LEMMA SystemsIs ==
  ASSUME IsComputer(computer), NEW o, IsReg(o)
  PROVE  /\ IsReg(os_discover(o)) /\ os_discover(o)["OS"].cur = 0
         /\ os_discover(o)["PARTITION"] = o["PARTITION"]
         /\ os_discover(o)["SLICE"].arr = o["SLICE"].arr /\ os_discover(o)["SLICE"].cur = o["SLICE"].cur
         /\ os_discover(o)["DISK"] = o["DISK"] \/ os_discover(o)["DISK"] = DiskReady(o["DISK"])
  <1> DEFINE hs == IF o["SLICE"].held THEN o["SLICE"].pddm ELSE Handles("SLICE")
  <1> DEFINE h == [o EXCEPT !["SLICE"].pddm = hs, !["SLICE"].held = TRUE, !["SLICE"].cnt = Len(hs)]
  <1> DEFINE r == IF hs = <<>> THEN h ELSE Ready(h)
  <1> DEFINE K == {s \in ToSet(hs) : Candidate(r, s)}
  <1> DEFINE oss == Kept(hs, K)
  <1> DEFINE arr == [i \in DOMAIN oss |-> [handle |-> oss[i], attrib |-> [NoAttr EXCEPT !.name = oss[i].name], done |-> TRUE]]
  <1> DEFINE n == [r EXCEPT !["OS"].cnt = Len(oss), !["OS"].cur = 0,
                       !["OS"].arr = IF oss = <<>> THEN @ ELSE arr, !["OS"].built = (@ \/ oss # <<>>)]
  <1>1. os_discover(o) = sort_objs(n, "OS")
    BY DEF os_discover
  <1>2. \A c \in Classes : ClassIs(c, o[c])
    BY DEF IsReg
  <1>3. DOMAIN o = Classes /\ "SLICE" \in Classes /\ "OS" \in Classes /\ "DISK" \in Classes /\ "PARTITION" \in Classes
    BY DEF IsReg, Classes
  <1> DEFINE l == SlicesHeld(o["SLICE"])
  <1>4. /\ ClassIs("SLICE", l) /\ l.arr = o["SLICE"].arr /\ l.cur = o["SLICE"].cur /\ hs \in Seq(Slices)
    BY <1>2, <1>3, SlicesHeldIs
  <1>5. h = [o EXCEPT !["SLICE"] = l]
    <2> HIDE DEF hs
    <2>1. l = [o["SLICE"] EXCEPT !.pddm = hs, !.held = TRUE, !.cnt = Len(hs)]
      BY DEF SlicesHeld, hs
    <2> HIDE DEF l
    <2>2. QED
      BY <1>3, <2>1
  <1> HIDE DEF l
  <1>6. /\ IsReg([o EXCEPT !["SLICE"] = l]) /\ [o EXCEPT !["SLICE"] = l]["SLICE"] = l
        /\ \A d \in Classes : d # "SLICE" => [o EXCEPT !["SLICE"] = l][d] = o[d]
    BY <1>3, <1>4, RegSet
  <1> HIDE DEF hs
  <1>7. IsReg(h) /\ h["SLICE"] = l /\ \A d \in Classes : d # "SLICE" => h[d] = o[d]
    BY <1>5, <1>6
  <1> HIDE DEF h
  <1>8. /\ IsReg(r) /\ (r["DISK"] = h["DISK"] \/ r["DISK"] = DiskReady(h["DISK"]))
        /\ \A d \in Classes : d # "DISK" => r[d] = h[d]
    BY <1>7, ReadyIs
  <1> HIDE DEF r
  <1>9. oss \in Seq(Slices)
    <2> HIDE DEF K
    <2>1. QED
      BY <1>4, KeptIs
  <1> HIDE DEF oss
  <1> DEFINE q == r["OS"]
  <1> DEFINE m == [q EXCEPT !.cnt = Len(oss), !.cur = 0, !.arr = IF oss = <<>> THEN @ ELSE arr, !.built = (@ \/ oss # <<>>)]
  <1>10. DOMAIN r = Classes /\ ClassIs("OS", q)
    BY <1>3, <1>8 DEF IsReg
  <1>11. n = [r EXCEPT !["OS"] = m]
    <2> HIDE DEF arr
    <2>1. QED
      BY <1>3, <1>10
  <1>12. ClassIs("OS", m) /\ m.cur = 0
    <2> HIDE DEF q
    <2>1. QED
      BY <1>9, <1>10, SystemsSet
  <1> HIDE DEF m, arr
  <1>13. /\ IsReg([r EXCEPT !["OS"] = m]) /\ [r EXCEPT !["OS"] = m]["OS"] = m
         /\ \A d \in Classes : d # "OS" => [r EXCEPT !["OS"] = m][d] = r[d]
    BY <1>3, <1>8, <1>12, RegSet
  <1>14. IsReg(n) /\ n["OS"] = m /\ \A d \in Classes : d # "OS" => n[d] = r[d]
    BY <1>11, <1>13
  <1> HIDE DEF n
  <1>15. /\ IsReg(os_discover(o)) /\ os_discover(o)["OS"] = Placed(m)
         /\ \A d \in Classes : d # "OS" => os_discover(o)[d] = n[d]
    BY <1>1, <1>14, PlacesIs
  <1>16. Placed(m).cur = 0
    <2>1. Placed(m) = [pddm |-> m.pddm, held |-> m.held, arr |-> Placed(m).arr, built |-> m.built, cnt |-> m.cnt,
                         cur |-> m.cur, issorted |-> TRUE]
      BY <1>12, PlacedIs
    <2>2. QED
      BY <1>12, <2>1
  <1>17. QED
    BY <1>3, <1>4, <1>7, <1>8, <1>14, <1>15, <1>16

-----------------------------------------------------------------------------
(* Names: a slice's and its disk's compare alike with other disks'.        *)
LEMMA KeySigns ==
  ASSUME NEW nm \in Names, NEW disk \in Names, NEW key \in Seq(Nat), NEW letter \in {LetterP, LetterS},
         Numbered(key, disk, letter), nm # disk => ~IsPrefix(nm, disk) /\ ~IsPrefix(disk, nm)
  PROVE  /\ IsPrefix(nm, key) <=> nm = disk
         /\ nm # disk => strcmp(key, nm) = strcmp(disk, nm) /\ strcmp(disk, nm) # 0
  <1>1. /\ nm \in Seq(Nat) /\ Len(nm) \in Nat /\ \A i \in 1..Len(nm) : nm[i] \in Int /\ nm[i] < 20
        /\ disk \in Seq(Nat) /\ Len(disk) \in Nat /\ \A i \in 1..Len(disk) : disk[i] \in Int /\ disk[i] < 20
        /\ Len(key) \in Nat /\ \A i \in 1..Len(key) : key[i] \in Nat
    BY NamesAre
  <1>2. /\ Len(disk) + 1 < Len(key) /\ key[Len(disk) + 1] >= 20
        /\ \A i \in 1..Len(disk) : key[i] = disk[i]
    BY SMTT(30), <1>1 DEF Numbered, LetterP, LetterS
  <1>3. IsPrefix(nm, key) => nm = disk
    <2> SUFFICES ASSUME IsPrefix(nm, key) PROVE nm = disk
      OBVIOUS
    <2>1. Len(nm) <= Len(key) /\ \A i \in 1..Len(nm) : nm[i] = key[i]
      BY <1>1, PrefixIs
    <2>2. Len(nm) <= Len(disk)
      <3>1. SUFFICES ASSUME ~(Len(nm) <= Len(disk)) PROVE FALSE
        OBVIOUS
      <3>2. Len(disk) + 1 \in 1..Len(nm)
        BY <1>1, <3>1
      <3>3. nm[Len(disk) + 1] = key[Len(disk) + 1] /\ nm[Len(disk) + 1] \in Int /\ nm[Len(disk) + 1] < 20
        BY <1>1, <2>1, <3>2
      <3>4. QED
        BY <1>2, <3>3
    <2>3. IsPrefix(nm, disk)
      <3>1. \A i \in 1..Len(nm) : nm[i] = disk[i]
        BY <1>1, <1>2, <2>1, <2>2
      <3>2. QED
        BY <1>1, <2>2, <3>1, PrefixIs
    <2>4. QED
      BY <2>3
  <1>4. nm = disk => IsPrefix(nm, key)
    BY SMTT(30), <1>1, <1>2, PrefixIs
  <1>5. ASSUME nm # disk PROVE strcmp(key, nm) = strcmp(disk, nm) /\ strcmp(disk, nm) # 0
    <2>1. ~IsPrefix(disk, nm) /\ ~IsPrefix(nm, disk)
      BY <1>5
    <2>2. \/ /\ strcmp(disk, nm) = Len(disk) - Len(nm)
             /\ \A i \in 1..Len(disk) : i <= Len(nm) => disk[i] = nm[i]
          \/ \E k \in 1..Len(disk) : /\ k <= Len(nm) /\ disk[k] # nm[k] /\ strcmp(disk, nm) = disk[k] - nm[k]
                                 /\ \A j \in 1..(k - 1) : disk[j] = nm[j]
      BY <1>1, StrAt
    <2>3. ~(\A i \in 1..Len(disk) : i <= Len(nm) => disk[i] = nm[i])
      <3>1. SUFFICES ASSUME \A i \in 1..Len(disk) : i <= Len(nm) => disk[i] = nm[i] PROVE FALSE
        OBVIOUS
      <3>2. CASE Len(disk) <= Len(nm)
        <4>1. \A i \in 1..Len(disk) : disk[i] = nm[i]
          BY <1>1, <3>1, <3>2
        <4>2. QED
          BY <1>1, <2>1, <3>2, <4>1, PrefixIs
      <3>3. CASE ~(Len(disk) <= Len(nm))
        <4>1. \A i \in 1..Len(nm) : nm[i] = disk[i]
          BY <1>1, <3>1, <3>3
        <4>2. QED
          BY <1>1, <2>1, <3>3, <4>1, PrefixIs
      <3>4. QED
        BY <3>2, <3>3
    <2>4. PICK k \in 1..Len(disk) : /\ k <= Len(nm) /\ disk[k] # nm[k] /\ strcmp(disk, nm) = disk[k] - nm[k]
                                 /\ \A j \in 1..(k - 1) : disk[j] = nm[j]
      BY <2>2, <2>3
    <2>5. k \in 1..Len(key) /\ k \in 1..Len(nm) /\ key[k] = disk[k]
      BY <1>1, <1>2, <2>4
    <2>6. \/ /\ strcmp(key, nm) = Len(key) - Len(nm)
             /\ \A i \in 1..Len(key) : i <= Len(nm) => key[i] = nm[i]
          \/ \E m \in 1..Len(key) : /\ m <= Len(nm) /\ key[m] # nm[m] /\ strcmp(key, nm) = key[m] - nm[m]
                                 /\ \A j \in 1..(m - 1) : key[j] = nm[j]
      BY <1>1, StrAt
    <2>7. PICK m \in 1..Len(key) : /\ m <= Len(nm) /\ key[m] # nm[m] /\ strcmp(key, nm) = key[m] - nm[m]
                                 /\ \A j \in 1..(m - 1) : key[j] = nm[j]
      BY <2>4, <2>5, <2>6
    <2>8. ~(k < m)
      <3>1. SUFFICES ASSUME k < m PROVE FALSE
        OBVIOUS
      <3>2. k \in 1..(m - 1)
        BY <2>5, <3>1
      <3>3. QED
        BY <2>4, <2>5, <2>7, <3>2
    <2>9. ~(m < k)
      <3>1. SUFFICES ASSUME m < k PROVE FALSE
        OBVIOUS
      <3>2. m \in 1..(k - 1) /\ m \in 1..Len(disk)
        BY <1>1, <3>1
      <3>3. QED
        BY <1>2, <2>4, <2>7, <3>2
    <2>10. m = k
      BY <1>1, <2>8, <2>9
    <2>11. disk[k] \in Int /\ nm[k] \in Int
      BY <1>1, <2>5
    <2>12. QED
      BY <2>4, <2>5, <2>7, <2>10, <2>11
  <1>6. QED
    BY <1>3, <1>4, <1>5

LEMMA DisksNamed ==
  ASSUME IsComputer(computer), NEW o, IsReg(o)
  PROVE  /\ DOMAIN o["DISK"].arr = 1..Len(o["DISK"].arr) /\ Len(o["DISK"].arr) \in Nat
         /\ o["DISK"].built => o["DISK"].cnt = Len(o["DISK"].arr)
         /\ \A i \in DOMAIN o["DISK"].arr : LET e == o["DISK"].arr[i] IN
              /\ DiskNamed(o, i) = e.attrib.name /\ e.attrib.name \in Seq(Nat) /\ e.handle.name \in DiskNames
              /\ e.attrib = NoAttr \/ (e.done /\ e.handle.answers /\ e.attrib.name = e.handle.name)
              /\ e.done /\ e.handle.answers => e.attrib.name = e.handle.name
              /\ e.handle.answers \in BOOLEAN /\ Whole("DISK", e.handle)
  <1> DEFINE l == o["DISK"]
  <1>1. "DISK" \in Listed /\ "DISK" \in Classes /\ Nodes("DISK") = Drives
    BY DEF Listed, Classes, Nodes
  <1>2. ClassIs("DISK", l) /\ l \in Lists("DISK") /\ ListIs("DISK", l) /\ DisksAre(l)
    BY <1>1 DEF IsReg, ClassIs
  <1>3. DOMAIN l.arr = 1..Len(l.arr) /\ Len(l.arr) \in Nat
    BY <1>2 DEF Lists
  <1>4. l.built => l.cnt = Len(l.arr)
    BY <1>2 DEF ListIs
  <1>5. ASSUME NEW i \in DOMAIN l.arr
        PROVE  LET e == l.arr[i] IN
              /\ DiskNamed(o, i) = e.attrib.name /\ e.attrib.name \in Seq(Nat) /\ e.handle.name \in DiskNames
              /\ e.attrib = NoAttr \/ (e.done /\ e.handle.answers /\ e.attrib.name = e.handle.name)
              /\ e.done /\ e.handle.answers => e.attrib.name = e.handle.name
              /\ e.handle.answers \in BOOLEAN /\ Whole("DISK", e.handle)
    <2> DEFINE e == l.arr[i]
    <2>1. Proper("DISK", e) /\ e \in Entries("DISK") /\ EntryIs("DISK", e)
      BY <1>2 DEF ListIs, Proper
    <2>2. e.attrib \in Attrs /\ e.attrib.name \in Seq(Nat) /\ e.handle \in Nodes("DISK") /\ e.done \in BOOLEAN
      BY <2>1, NoAttrIs DEF Entries
    <2>3. DiskNamed(o, i) = e.attrib.name
      BY DEF DiskNamed
    <2>4. PICK j \in DOMAIN l.pddm : e.handle = l.pddm[j]
      BY <1>2 DEF DisksAre
    <2>5. l.held
      <3>1. l.built
        <4>1. l.arr # <<>>
          BY <1>3
        <4>2. QED
          BY <1>2, <4>1 DEF ClassIs
      <3>2. QED
        BY <1>2, <3>1 DEF ListIs
    <2>6. l.pddm \in Seq(Nodes("DISK")) /\ Handed("DISK", l.pddm)
      BY <1>2, <2>5 DEF ListIs, Lists
    <2>7. e.handle = Handles("DISK")[j] /\ j \in DOMAIN Handles("DISK")
      BY <1>1, <2>4, <2>6, HeldAre
    <2>8. Whole("DISK", e.handle) /\ e.handle.name \in DiskNames
      BY <1>1, <2>7, HandlesAre DEF Whole
    <2>9. e.handle.answers \in BOOLEAN
      BY <1>1, <2>2, NodeNames
    <2> HIDE DEF e, l
    <2> DEFINE h == e.handle
    <2>10. /\ h.answers => Attributes("DISK", h).name = h.name
           /\ ~h.answers => Attributes("DISK", h) = NoAttr
      <3>1. h \in Nodes("DISK")
        BY <2>2
      <3> HIDE DEF h
      <3>2. QED
        BY <1>1, <3>1, AttributesAre
    <2>11. e.attrib = NoAttr \/ (e.done /\ e.handle.answers /\ e.attrib.name = e.handle.name)
      BY <2>1, <2>2, <2>9, <2>10 DEF EntryIs
    <2>12. e.done /\ e.handle.answers => e.attrib.name = e.handle.name
      BY <2>1, <2>10 DEF EntryIs
    <2>13. QED
      BY <2>2, <2>3, <2>8, <2>9, <2>11, <2>12 DEF e
  <1>6. QED
    BY <1>3, <1>4, <1>5

LEMMA NamesOfDisks ==
  ASSUME IsComputer(computer), NEW o, IsReg(o), NEW i \in DOMAIN o["DISK"].arr
  PROVE  /\ DiskNamed(o, i) = o["DISK"].arr[i].attrib.name
         /\ \/ o["DISK"].arr[i].attrib.name = <<>>
            \/ o["DISK"].arr[i].attrib.name = o["DISK"].arr[i].handle.name /\ o["DISK"].arr[i].handle.name \in DiskNames
  <1> DEFINE e == o["DISK"].arr[i]
  <1>1. /\ DiskNamed(o, i) = e.attrib.name /\ e.attrib.name \in Seq(Nat) /\ e.handle.name \in DiskNames
        /\ e.attrib = NoAttr \/ (e.done /\ e.handle.answers /\ e.attrib.name = e.handle.name)
    BY DisksNamed
  <1> HIDE DEF e
  <1>2. e.attrib = NoAttr => e.attrib.name = <<>>
    BY NoAttrIs
  <1>3. QED
    BY <1>1, <1>2 DEF e

DiskCmp(o, key) ==
  [i \in 1 .. o["DISK"].cnt |-> IF DiskNamed(o, i) = <<>> THEN 1 ELSE strcmp(key, DiskNamed(o, i))]
SliceCmp(o, key) ==
  [i \in 1 .. o["DISK"].cnt |->
    IF DiskNamed(o, i) = <<>> THEN 1 ELSE IF IsPrefix(DiskNamed(o, i), key) THEN 0 ELSE strcmp(key, DiskNamed(o, i))]

LEMMA DiskCmpIs ==
  ASSUME IsComputer(computer), NEW o, IsReg(o), o["DISK"].built, NEW key \in Seq(Nat)
  PROVE  /\ DiskCmp(o, key) \in [1 .. o["DISK"].cnt -> Int] /\ SliceCmp(o, key) \in [1 .. o["DISK"].cnt -> Int]
         /\ o["DISK"].cnt \in Nat /\ 1 .. o["DISK"].cnt = DOMAIN o["DISK"].arr
         /\ \A i \in DOMAIN o["DISK"].arr :
              /\ DiskCmp(o, key)[i] = IF DiskNamed(o, i) = <<>> THEN 1 ELSE strcmp(key, DiskNamed(o, i))
              /\ SliceCmp(o, key)[i] = IF DiskNamed(o, i) = <<>> THEN 1
                                       ELSE IF IsPrefix(DiskNamed(o, i), key) THEN 0 ELSE strcmp(key, DiskNamed(o, i))
              /\ DiskNamed(o, i) \in Seq(Nat) /\ strcmp(key, DiskNamed(o, i)) \in Int
         /\ search_disks(o, key) = bsearch(o["DISK"].cnt, DiskCmp(o, key))
         /\ search_disks_for_slices(o, key) = bsearch(o["DISK"].cnt, SliceCmp(o, key))
  <1>1. /\ o["DISK"].cnt \in Nat /\ 1 .. o["DISK"].cnt = DOMAIN o["DISK"].arr
        /\ \A i \in 1 .. o["DISK"].cnt : DiskNamed(o, i) \in Seq(Nat)
    BY DisksNamed
  <1>2. \A i \in 1 .. o["DISK"].cnt : strcmp(key, DiskNamed(o, i)) \in Int
    BY <1>1, StrInt
  <1>3. /\ search_disks(o, key) = bsearch(o["DISK"].cnt, DiskCmp(o, key))
        /\ search_disks_for_slices(o, key) = bsearch(o["DISK"].cnt, SliceCmp(o, key))
    BY DEF search_disks, search_disks_for_slices, DiskCmp, SliceCmp
  <1>4. DiskCmp(o, key) \in [1 .. o["DISK"].cnt -> Int] /\ SliceCmp(o, key) \in [1 .. o["DISK"].cnt -> Int]
    BY <1>2 DEF DiskCmp, SliceCmp
  <1>5. ASSUME NEW i \in DOMAIN o["DISK"].arr
        PROVE /\ DiskCmp(o, key)[i] = IF DiskNamed(o, i) = <<>> THEN 1 ELSE strcmp(key, DiskNamed(o, i))
              /\ SliceCmp(o, key)[i] = IF DiskNamed(o, i) = <<>> THEN 1
                                       ELSE IF IsPrefix(DiskNamed(o, i), key) THEN 0 ELSE strcmp(key, DiskNamed(o, i))
              /\ DiskNamed(o, i) \in Seq(Nat) /\ strcmp(key, DiskNamed(o, i)) \in Int
    BY <1>1, <1>2 DEF DiskCmp, SliceCmp
  <1>6. QED
    BY <1>1, <1>3, <1>4, <1>5

(* No disk's name begins another's: slices are searched for as their disks. *)
LEMMA SearchesAgree ==
  ASSUME IsComputer(computer), NEW o, IsReg(o), o["DISK"].built, ~Begins, NEW disk \in DiskNames,
         NEW key \in Seq(Nat), Numbered(key, disk, LetterS)
  PROVE  search_disks_for_slices(o, key) = search_disks(o, disk)
  <1> DEFINE n == o["DISK"].cnt
  <1> DEFINE c == SliceCmp(o, key)
  <1> DEFINE d == DiskCmp(o, disk)
  <1>1. DiskNames \subseteq Names /\ disk \in Names /\ disk \in Seq(Nat)
    BY HandlesAre, NamesAre
  <1>2. /\ n \in Nat /\ c \in [1..n -> Int] /\ search_disks_for_slices(o, key) = bsearch(n, c)
        /\ \A i \in 1..n : c[i] = IF DiskNamed(o, i) = <<>> THEN 1
                                  ELSE IF IsPrefix(DiskNamed(o, i), key) THEN 0 ELSE strcmp(key, DiskNamed(o, i))
    BY DiskCmpIs
  <1>3. /\ d \in [1..n -> Int] /\ search_disks(o, disk) = bsearch(n, d)
        /\ \A i \in 1..n : d[i] = IF DiskNamed(o, i) = <<>> THEN 1 ELSE strcmp(disk, DiskNamed(o, i))
    BY <1>1, DiskCmpIs
  <1>4. 1..n = DOMAIN o["DISK"].arr
    BY <1>1, DiskCmpIs
  <1> HIDE DEF n, c, d
  <1>5. ASSUME NEW i \in 1..n PROVE (c[i] = 0 <=> d[i] = 0) /\ (c[i] < 0 <=> d[i] < 0)
    <2> DEFINE nm == DiskNamed(o, i)
    <2>1. CASE nm = <<>>
      BY <1>2, <1>3, <2>1
    <2>2. CASE nm # <<>>
      <3>1. nm \in DiskNames
        <4>1. i \in DOMAIN o["DISK"].arr
          BY <1>4
        <4>2. QED
          BY <2>2, <4>1, NamesOfDisks
      <3>2. nm \in Names /\ (nm # disk => ~IsPrefix(nm, disk) /\ ~IsPrefix(disk, nm))
        BY <1>1, <3>1 DEF Begins
      <3>3. /\ c[i] = IF IsPrefix(nm, key) THEN 0 ELSE strcmp(key, nm)
            /\ d[i] = strcmp(disk, nm)
        BY <1>2, <1>3, <2>2
      <3> HIDE DEF nm
      <3>4. /\ IsPrefix(nm, key) <=> nm = disk
            /\ nm # disk => strcmp(key, nm) = strcmp(disk, nm) /\ strcmp(disk, nm) # 0
        BY <1>1, <3>2, KeySigns
      <3>5. nm = disk => strcmp(disk, nm) = 0
        BY <1>1, StrEqual
      <3>6. QED
        BY <3>3, <3>4, <3>5
    <2>3. QED
      BY <2>1, <2>2
  <1>6. bsearch(n, c) = bsearch(n, d)
    BY <1>2, <1>3, <1>5, SearchBySign
  <1>7. QED
    BY <1>2, <1>3, <1>6

LEMMA FoundIsNamed ==
  ASSUME IsComputer(computer), NEW o, IsReg(o), o["DISK"].built, NEW key \in Names
  PROVE  /\ search_disks(o, key) # 0 =>
              search_disks(o, key) \in DOMAIN o["DISK"].arr /\ o["DISK"].arr[search_disks(o, key)].attrib.name = key
         /\ InOrder(o["DISK"].arr) =>
              \A i \in DOMAIN o["DISK"].arr : o["DISK"].arr[i].attrib.name = key => search_disks(o, key) = i
  <1> DEFINE n == o["DISK"].cnt
  <1> DEFINE arr == o["DISK"].arr
  <1> DEFINE d == DiskCmp(o, key)
  <1>1. key \in Seq(Nat) /\ key # <<>>
    BY NamesAre DEF Names
  <1>2. /\ n \in Nat /\ d \in [1..n -> Int] /\ search_disks(o, key) = bsearch(n, d) /\ 1..n = DOMAIN arr
        /\ \A i \in 1..n : d[i] = IF DiskNamed(o, i) = <<>> THEN 1 ELSE strcmp(key, DiskNamed(o, i))
        /\ \A i \in 1..n : DiskNamed(o, i) \in Seq(Nat)
    BY <1>1, DiskCmpIs
  <1>3. \A i \in 1..n : DiskNamed(o, i) = arr[i].attrib.name
    BY <1>2, DisksNamed
  <1>4. \A i, j \in 1..n : arr[i].attrib.name = key /\ arr[j].attrib.name = key => i = j
    <2> SUFFICES ASSUME NEW i \in 1..n, NEW j \in 1..n, arr[i].attrib.name = key, arr[j].attrib.name = key PROVE i = j
      OBVIOUS
    <2>1. arr[i].handle.name = key /\ arr[j].handle.name = key
      <3>1. i \in DOMAIN arr /\ j \in DOMAIN arr
        BY <1>2
      <3>2. QED
        BY <1>1, <3>1, NamesOfDisks
    <2>2. DisksAre(o["DISK"])
      BY DEF IsReg, ClassIs, Classes
    <2>3. QED
      BY SMTT(30), <1>2, <2>1, <2>2 DEF DisksAre
  <1> HIDE DEF n, d
  <1>5. /\ bsearch(n, d) \in 0..n
        /\ bsearch(n, d) # 0 => d[bsearch(n, d)] = 0
        /\ \A i \in 1..n :
              d[i] = 0 /\ (\A j \in 1..n : (j < i => d[j] > 0) /\ (i < j => d[j] < 0)) => bsearch(n, d) = i
    BY <1>2, SearchFinds
  <1>6. \A i \in 1..n : d[i] = 0 <=> arr[i].attrib.name = key
    <2> SUFFICES ASSUME NEW i \in 1..n PROVE d[i] = 0 <=> arr[i].attrib.name = key
      OBVIOUS
    <2>1. strcmp(key, DiskNamed(o, i)) = 0 <=> key = DiskNamed(o, i)
      BY <1>1, <1>2, StrEqual
    <2>2. d[i] = (IF DiskNamed(o, i) = <<>> THEN 1 ELSE strcmp(key, DiskNamed(o, i))) /\ DiskNamed(o, i) = arr[i].attrib.name
      BY <1>2, <1>3
    <2>3. CASE DiskNamed(o, i) = <<>>
      BY <1>1, <2>2, <2>3
    <2>4. CASE DiskNamed(o, i) # <<>>
      BY <2>1, <2>2, <2>4
    <2>5. QED
      BY <2>3, <2>4
  <1>7. search_disks(o, key) # 0 => search_disks(o, key) \in DOMAIN arr /\ arr[search_disks(o, key)].attrib.name = key
    <2>1. bsearch(n, d) # 0 => bsearch(n, d) \in 1..n
      BY <1>2, <1>5
    <2>2. QED
      BY <1>2, <1>5, <1>6, <2>1
  <1>8. ASSUME InOrder(arr), NEW i \in DOMAIN arr, arr[i].attrib.name = key PROVE search_disks(o, key) = i
    <2>1. i \in 1..n /\ d[i] = 0
      BY <1>2, <1>6, <1>8
    <2>2. ASSUME NEW j \in 1..n PROVE (j < i => d[j] > 0) /\ (i < j => d[j] < 0)
      <3> DEFINE nm == arr[j].attrib.name
      <3>1. nm \in Seq(Nat) /\ nm = DiskNamed(o, j) /\ d[j] = IF nm = <<>> THEN 1 ELSE strcmp(key, nm)
        BY <1>2, <1>3
      <3>2. strcmp(key, nm) \in Int /\ strcmp(nm, key) = -strcmp(key, nm)
        BY <1>1, <3>1, StrInt, StrTurns
      <3>3. i # j => nm # key
        BY <1>4, <1>8, <2>1
      <3>4. strcmp(key, nm) = 0 <=> key = nm
        BY <1>1, <3>1, StrEqual
      <3>5. j < i => strcmp(nm, key) <= 0
        BY <1>2, <1>8, <2>1 DEF InOrder
      <3>6. i < j => strcmp(key, nm) <= 0
        BY <1>2, <1>8, <2>1 DEF InOrder
      <3>7. nm = <<>> => ~(strcmp(key, nm) <= 0)
        <4> SUFFICES ASSUME nm = <<>> PROVE ~(strcmp(key, nm) <= 0)
          OBVIOUS
        <4>1. strcmp(key, <<>>) = Len(key) - 0
          <5>1. Len(key) \in Nat /\ Len(<<>>) = 0 /\ <<>> \in Seq(Nat)
            BY <1>1
          <5>2. \/ strcmp(key, <<>>) = Len(key) - Len(<<>>)
                \/ \E k \in 1..Len(key) : k <= Len(<<>>)
            BY <1>1, <5>1, StrAt
          <5>3. QED
            BY <5>1, <5>2
        <4>2. Len(key) > 0 /\ Len(key) \in Nat
          BY NamesAre
        <4>3. QED
          BY <4>1, <4>2
      <3> HIDE DEF nm
      <3>8. i \in Int /\ j \in Int /\ i \in 1..n
        BY <2>1
      <3>9. j < i => d[j] > 0
        BY <3>1, <3>2, <3>3, <3>4, <3>5, <3>8
      <3>10. i < j => d[j] < 0
        BY <3>1, <3>2, <3>3, <3>4, <3>6, <3>7, <3>8
      <3>11. QED
        BY <3>9, <3>10
    <2>3. QED
      BY <1>2, <1>5, <2>1, <2>2
  <1>9. QED
    BY <1>7, <1>8

-----------------------------------------------------------------------------
(* Slices whose disk is not found are thrown away.                          *)
LEMMA SearchInIs ==
  ASSUME IsComputer(computer), NEW o, IsReg(o), o["DISK"].built, InPlace(o["DISK"]), AllDone(o["DISK"]), NEW key \in Seq(Nat)
  PROVE  search_disks(o, key) = SearchIn(Handles("DISK"), key)
  <1> DEFINE hs == Handles("DISK")
  <1> DEFINE n == Len(hs)
  <1> DEFINE arr == o["DISK"].arr
  <1> DEFINE f == [i \in 1..n |-> IF ~hs[i].answers THEN 1 ELSE strcmp(key, hs[i].name)]
  <1>1. "DISK" \in Listed /\ ClassIs("DISK", o["DISK"]) /\ ListIs("DISK", o["DISK"]) /\ o["DISK"] \in Lists("DISK")
    BY DEF Listed, IsReg, ClassIs, Classes
  <1>2. o["DISK"].pddm \in Seq(Nodes("DISK")) /\ Handed("DISK", o["DISK"].pddm) /\ o["DISK"].cnt = Len(o["DISK"].pddm)
    BY <1>1 DEF Lists, ListIs
  <1>3. o["DISK"].pddm = hs /\ o["DISK"].cnt = n /\ n \in Nat
    BY <1>1, <1>2, HeldAre
  <1>4. 1..n = DOMAIN arr
    BY <1>3, DiskCmpIs
  <1>5. ASSUME NEW i \in 1..n
        PROVE  (IF DiskNamed(o, i) = <<>> THEN 1 ELSE strcmp(key, DiskNamed(o, i))) = f[i]
    <2>1. arr[i].handle = hs[i] /\ arr[i].done
      BY <1>3, <1>4 DEF InPlace, AllDone
    <2>2. /\ DiskNamed(o, i) = arr[i].attrib.name /\ arr[i].handle.name \in DiskNames
          /\ arr[i].attrib = NoAttr \/ (arr[i].done /\ arr[i].handle.answers /\ arr[i].attrib.name = arr[i].handle.name)
          /\ arr[i].done /\ arr[i].handle.answers => arr[i].attrib.name = arr[i].handle.name
          /\ arr[i].handle.answers \in BOOLEAN
      BY <1>4, DisksNamed
    <2>3. arr[i].handle.name # <<>>
      BY <2>2, HandlesAre DEF Names
    <2>4. f[i] = IF ~hs[i].answers THEN 1 ELSE strcmp(key, hs[i].name)
      OBVIOUS
    <2> HIDE DEF f, arr, hs
    <2>5. CASE arr[i].handle.answers
      BY <2>1, <2>2, <2>3, <2>4, <2>5
    <2>6. CASE ~arr[i].handle.answers
      BY <2>1, <2>2, <2>4, <2>6, NoAttrIs
    <2>7. QED
      BY <2>2, <2>5, <2>6
  <1>6. DiskCmp(o, key) = [i \in 1..n |-> IF DiskNamed(o, i) = <<>> THEN 1 ELSE strcmp(key, DiskNamed(o, i))]
    BY <1>3 DEF DiskCmp
  <1>7. f = [i \in 1..n |-> f[i]]
    OBVIOUS
  <1>8. SearchIn(hs, key) = bsearch(n, f)
    BY DEF SearchIn
  <1> HIDE DEF f
  <1>9. DiskCmp(o, key) = f
    BY <1>5, <1>6, <1>7
  <1>10. search_disks(o, key) = bsearch(o["DISK"].cnt, DiskCmp(o, key))
    BY DiskCmpIs
  <1>11. QED
    BY <1>3, <1>8, <1>9, <1>10

LEMMA LostIs ==
  ASSUME IsComputer(computer), NEW o, IsReg(o), NEW a \in BOOLEAN, SortIs(o["DISK"], a), o["DISK"].issorted, AllDone(o["DISK"]),
         ~Begins, NEW h, h.of \in DiskNames, h.name \in Seq(Nat), Numbered(h.name, h.of, LetterS),
         search_disks_for_slices(o, h.name) = 0
  PROVE  Lost(h, a)
  <1> DEFINE arr == o["DISK"].arr
  <1>1. o["DISK"].built
    BY DEF SortIs
  <1>2. h.of \in Names /\ h.of \in Seq(Nat)
    BY HandlesAre, NamesAre
  <1>3. search_disks(o, h.of) = 0
    <2> DEFINE of == h.of
    <2> DEFINE key == h.name
    <2>1. of \in DiskNames /\ key \in Seq(Nat) /\ Numbered(key, of, LetterS) /\ search_disks_for_slices(o, key) = 0
      OBVIOUS
    <2> HIDE DEF of, key
    <2>2. search_disks_for_slices(o, key) = search_disks(o, of)
      BY <1>1, <2>1, SearchesAgree
    <2>3. QED
      BY <2>1, <2>2 DEF of
  <1>4. CASE a
    <2>1. InPlace(o["DISK"])
      BY <1>4 DEF SortIs
    <2>2. SearchIn(Handles("DISK"), h.of) = 0
      BY <1>1, <1>2, <1>3, <2>1, SearchInIs
    <2>3. QED
      BY <1>4, <2>2 DEF Lost
  <1>5. CASE ~a
    <2>1. InOrder(arr)
      BY <1>5 DEF SortIs
    <2>2. ASSUME NEW k \in DOMAIN Handles("DISK"), Handles("DISK")[k].answers, Handles("DISK")[k].name = h.of PROVE FALSE
      <3>1. "DISK" \in Listed /\ ClassIs("DISK", o["DISK"]) /\ ListIs("DISK", o["DISK"]) /\ o["DISK"] \in Lists("DISK") /\ DisksAre(o["DISK"])
        BY DEF Listed, IsReg, ClassIs, Classes
      <3>2. o["DISK"].pddm \in Seq(Nodes("DISK")) /\ Handed("DISK", o["DISK"].pddm)
        BY <1>1, <3>1 DEF Lists, ListIs
      <3>3. o["DISK"].pddm = Handles("DISK")
        BY <3>1, <3>2, HeldAre
      <3>4. PICK i \in DOMAIN arr : arr[i].handle = Handles("DISK")[k]
        BY <1>1, <3>1, <3>3 DEF DisksAre
      <3>5. arr[i].done
        BY DEF AllDone
      <3>6. arr[i].attrib.name = h.of
        <4>1. arr[i].done /\ arr[i].handle.answers => arr[i].attrib.name = arr[i].handle.name
          BY DisksNamed
        <4>2. QED
          BY <2>2, <3>4, <3>5, <4>1
      <3>7. search_disks(o, h.of) = i
        <4> DEFINE key == h.of
        <4>1. key \in Names /\ arr[i].attrib.name = key
          BY <1>2, <3>6
        <4> HIDE DEF key
        <4>2. search_disks(o, key) = i
          BY <1>1, <2>1, <4>1, FoundIsNamed
        <4>3. QED
          BY <4>2 DEF key
      <3>8. i # 0
        BY <1>1, DisksNamed
      <3>9. QED
        BY <1>3, <3>7, <3>8
    <2>3. QED
      BY <2>2 DEF Lost
  <1>6. QED
    BY <1>4, <1>5

LEMMA SlicesNumbered ==
  ASSUME IsComputer(computer), NEW o, IsReg(o), NEW c \in {"PARTITION", "SLICE"}, NEW i \in DOMAIN o[c].arr
  PROVE  /\ Numbered(o[c].arr[i].handle.name, o[c].arr[i].handle.of, IF c = "SLICE" THEN LetterS ELSE LetterP)
         /\ o[c].arr[i].handle.name \in Seq(Nat) /\ o[c].arr[i].handle.name # <<>> /\ o[c].arr[i].handle.answers \in BOOLEAN
         /\ i \in DOMAIN Handles(c) /\ SameHandle(c, o[c].arr[i].handle, Handles(c)[i]) /\ Proper(c, o[c].arr[i])
         /\ o[c].built => DOMAIN o[c].arr = DOMAIN Handles(c)
  <1> DEFINE l == o[c]
  <1>1. c \in Listed /\ ClassIs(c, l) /\ l \in Lists(c) /\ ListIs(c, l) /\ InPlace(l) /\ c \in Classes
    BY DEF Listed, IsReg, ClassIs, Classes
  <1>2. l.arr \in Seq(Entries(c)) /\ l.arr # <<>> /\ l.built /\ l.held
    <2>1. l.arr \in Seq(Entries(c)) /\ l.arr # <<>>
      BY <1>1 DEF Lists
    <2>2. QED
      BY <1>1, <2>1 DEF ClassIs, ListIs
  <1>3. l.pddm \in Seq(Nodes(c)) /\ Handed(c, l.pddm) /\ Len(l.arr) = Len(l.pddm)
    BY <1>1, <1>2 DEF Lists, ListIs
  <1>4. DOMAIN l.pddm = DOMAIN Handles(c) /\ DOMAIN l.pddm = DOMAIN l.arr /\ SameHandle(c, l.pddm[i], Handles(c)[i])
    BY <1>1, <1>2, <1>3, HeldAre
  <1>5. l.arr[i].handle = l.pddm[i] /\ Proper(c, l.arr[i]) /\ l.arr[i].handle \in Nodes(c)
    BY <1>1 DEF InPlace, ListIs, Proper, Entries
  <1>6. Whole(c, Handles(c)[i]) /\ Handles(c)[i].name \in Seq(Nat)
    BY <1>1, <1>4, HandlesAre
  <1>7. Numbered(Handles(c)[i].name, Handles(c)[i].of, IF c = "SLICE" THEN LetterS ELSE LetterP)
    BY <1>6 DEF Whole
  <1>8. SameHandle(c, l.arr[i].handle, Handles(c)[i])
    BY <1>4, <1>5
  <1>9. l.arr[i].handle.name = Handles(c)[i].name /\ l.arr[i].handle.of = Handles(c)[i].of
    BY <1>8 DEF SameHandle
  <1>10. Handles(c)[i].name # <<>>
    <2>1. Handles(c)[i].name = <<>> => Len(Handles(c)[i].name) = 0
      OBVIOUS
    <2>2. Handles(c)[i].of \in Names
      <3>1. Handles(c)[i] \in Nodes(c)
        BY <1>6 DEF Whole
      <3>2. QED
        BY <3>1 DEF Nodes, Parts, Slices
    <2>3. Len(Handles(c)[i].of) \in Nat
      BY <2>2, NamesAre
    <2>4. QED
      BY <1>7, <2>1, <2>3 DEF Numbered
  <1>11. l.arr[i].handle.answers \in BOOLEAN
    BY <1>1, <1>5, NodeNames
  <1>12. QED
    BY <1>4, <1>5, <1>6, <1>7, <1>8, <1>9, <1>10, <1>11

LEMMA LostStays ==
  ASSUME NEW h, NEW a \in BOOLEAN, NEW b \in BOOLEAN, a => b, Lost(h, a)
  PROVE  Lost(h, b)
  BY DEF Lost

LEMMA ThrownStays ==
  ASSUME NEW l, NEW m, NEW a \in BOOLEAN, NEW b \in BOOLEAN, a => b, ThrownIs(l, a), DOMAIN m.arr = DOMAIN l.arr,
         ~Begins => \A i \in DOMAIN l.arr :
           \/ m.arr[i] = l.arr[i]
           \/ m.arr[i].done /\ m.arr[i].handle.answers /\ m.arr[i].attrib = NoAttr /\ m.arr[i].handle.of \in DiskNames =>
                Lost(m.arr[i].handle, b)
  PROVE  ThrownIs(m, b)
  <1> SUFFICES ASSUME ~Begins, NEW i \in DOMAIN m.arr,
                      m.arr[i].done /\ m.arr[i].handle.answers /\ m.arr[i].attrib = NoAttr /\ m.arr[i].handle.of \in DiskNames
               PROVE  Lost(m.arr[i].handle, b)
    BY DEF ThrownIs
  <1>1. CASE m.arr[i] = l.arr[i]
    <2>1. Lost(m.arr[i].handle, a)
      BY <1>1 DEF ThrownIs
    <2> DEFINE h == m.arr[i].handle
    <2>2. Lost(h, a)
      BY <2>1
    <2> HIDE DEF h
    <2>3. Lost(h, b)
      BY <2>2, LostStays
    <2>4. QED
      BY <2>3 DEF h
  <1>2. QED
    BY <1>1

LEMMA AnswerLost ==
  ASSUME IsComputer(computer), NEW o, NEW a \in BOOLEAN, RegInv(o, a), NEW i \in DOMAIN o["SLICE"].arr, NEW d,
         Asks("SLICE", o["SLICE"].arr[i]) => d = Ready(o), ~Begins
  PROVE  LET e == o["SLICE"].arr[i]
             x == Answer(d, "SLICE", e)
         IN x = e \/ (x.done /\ x.handle.answers /\ x.attrib = NoAttr /\ x.handle.of \in DiskNames => Lost(x.handle, a))
  <1> DEFINE e == o["SLICE"].arr[i]
  <1> DEFINE x == Answer(d, "SLICE", e)
  <1>1. /\ Numbered(e.handle.name, e.handle.of, LetterS) /\ Proper("SLICE", e)
        /\ e.handle.name \in Seq(Nat) /\ e.handle.name # <<>> /\ e.handle.answers \in BOOLEAN
    BY SlicesNumbered DEF RegInv
  <1>2. "SLICE" \in Listed /\ e.done \in BOOLEAN /\ e.handle \in Nodes("SLICE")
    BY <1>1 DEF Listed, Proper, Entries
  <1> HIDE DEF e
  <1>3. /\ x.handle = e.handle
        /\ x.attrib = NoAttr /\ Fill("SLICE", e).attrib # NoAttr =>
              Asks("SLICE", e) /\ disk_random_slice(d, Fill("SLICE", e).attrib)
        /\ e.done => x = Fill("SLICE", e)
    BY <1>1, <1>2, AnswerIs
  <1>4. (e.done => Fill("SLICE", e) = e) /\ (~e.done => Fill("SLICE", e).attrib = Attributes("SLICE", e.handle))
    BY <1>1, <1>2, EntryFilled
  <1> HIDE DEF x
  <1>5. CASE e.done
    BY <1>3, <1>4, <1>5 DEF e, x
  <1>6. CASE ~e.done
    <2> SUFFICES ASSUME x.handle.answers, x.attrib = NoAttr, x.handle.of \in DiskNames PROVE Lost(x.handle, a)
      BY DEF e, x
    <2> DEFINE h == e.handle
    <2>1. h \in Nodes("SLICE") /\ h.answers /\ h.name # <<>> /\ Numbered(h.name, h.of, LetterS) /\ h.of \in DiskNames /\ h.name \in Seq(Nat)
      BY <1>1, <1>2, <1>3
    <2>2. Fill("SLICE", e).attrib = Attributes("SLICE", h)
      BY <1>4, <1>6
    <2> HIDE DEF h
    <2>3. Attributes("SLICE", h).name = h.name
      BY <1>2, <2>1, AttributesAre
    <2>4. Attributes("SLICE", h) # NoAttr
      BY <2>1, <2>3, NoAttrIs
    <2>5. Asks("SLICE", e) /\ disk_random_slice(d, Attributes("SLICE", h))
      BY <1>3, <2>2, <2>4
    <2>6. d = Ready(o)
      BY <2>5 DEF e
    <2>7. search_disks_for_slices(d, h.name) = 0
      BY <2>3, <2>5 DEF disk_random_slice
    <2>8. /\ IsReg(d) /\ SortIs(d["DISK"], a) /\ d["DISK"].issorted /\ AllDone(d["DISK"])
      <3>1. IsReg(d) /\ d["DISK"] = DiskReady(o["DISK"])
        BY <2>6, ReadyIs DEF RegInv
      <3> DEFINE l == o["DISK"]
      <3>2. ClassIs("DISK", l) /\ SortIs(l, a)
        BY DEF RegInv, IsReg, Classes
      <3> HIDE DEF l
      <3>3. SortIs(DiskReady(l), a) /\ AllDone(DiskReady(l)) /\ DiskReady(l).issorted
        BY <3>2, DiskReadyIs
      <3>4. QED
        BY <3>1, <3>3 DEF l
    <2>9. Lost(h, a)
      BY <2>1, <2>7, <2>8, LostIs
    <2>10. QED
      BY <1>3, <2>9 DEF h
  <1>7. QED
    BY <1>2, <1>5, <1>6

(* Operations keep the registry's invariant.                               *)
LEMMA RebuiltKeeps ==
  ASSUME IsComputer(computer), NEW o, NEW a \in BOOLEAN, RegInv(o, a), NEW c \in Listed
  PROVE  RegInv(Rebuilt(o, c), a \/ (c = "DISK" /\ o["DISK"].issorted))
  <1> DEFINE b == a \/ (c = "DISK" /\ o["DISK"].issorted)
  <1> DEFINE l == o[c]
  <1>1. /\ IsReg(Rebuilt(o, c)) /\ Rebuilt(o, c)[c] = Remade(c, l)
        /\ \A d \in Classes : d # c => Rebuilt(o, c)[d] = o[d]
    BY RebuiltIs DEF RegInv
  <1>2. ClassIs(c, l) /\ c \in Classes /\ "DISK" \in Classes /\ "SLICE" \in Classes
    BY DEF RegInv, IsReg, Listed, Classes
  <1>3. o["DISK"].issorted \in BOOLEAN
    <2>1. ClassIs("DISK", o["DISK"])
      BY <1>2 DEF RegInv, IsReg
    <2>2. QED
      BY <2>1 DEF ClassIs, Lists
  <1>4. b \in BOOLEAN /\ (a => b)
    BY <1>3
  <1> HIDE DEF l
  <1>5. /\ InPlace(Remade(c, l)) /\ Remade(c, l).built /\ Remade(c, l).issorted = l.issorted
        /\ \A i \in DOMAIN Remade(c, l).arr : ~Remade(c, l).arr[i].done
    BY <1>2, RemadeIs
  <1>6. SortIs(Rebuilt(o, c)["DISK"], b)
    <2>1. CASE c = "DISK"
      <3>1. Rebuilt(o, c)["DISK"] = Remade(c, l)
        BY <1>1, <2>1
      <3>2. b => l.issorted
        BY <2>1 DEF RegInv, SortIs, l
      <3>3. l.issorted => b
        BY <2>1 DEF l
      <3> HIDE DEF b
      <3>4. QED
        BY <1>5, <3>1, <3>2, <3>3 DEF SortIs
    <2>2. CASE c # "DISK"
      BY <1>1, <1>2, <2>2 DEF RegInv
    <2>3. QED
      BY <2>1, <2>2
  <1>7. ThrownIs(Rebuilt(o, c)["SLICE"], b)
    <2>1. CASE c = "SLICE"
      BY <1>1, <1>5, <2>1 DEF ThrownIs
    <2>2. CASE c # "SLICE"
      <3> DEFINE s == o["SLICE"]
      <3>1. Rebuilt(o, c)["SLICE"] = s /\ ThrownIs(s, a)
        BY <1>1, <1>2, <2>2 DEF RegInv
      <3> HIDE DEF s, b
      <3>2. ThrownIs(s, b)
        BY <1>4, <3>1, ThrownStays
      <3>3. QED
        BY <3>1, <3>2
    <2>3. QED
      BY <2>1, <2>2
  <1>8. QED
    BY <1>1, <1>6, <1>7 DEF RegInv

-----------------------------------------------------------------------------
(* What the whole operations leave of the registry's invariant.             *)
LEMMA DiskIn ==
  ASSUME NEW o, IsReg(o), NEW c \in Classes
  PROVE  ClassIs(c, o[c]) /\ o[c] \in Lists(c) /\ o[c].issorted \in BOOLEAN /\ o[c].cur \in Nat /\ o[c].held \in BOOLEAN
         /\ o[c].built \in BOOLEAN /\ o[c].cur <= Len(o[c].arr) /\ DOMAIN o[c].arr = 1..Len(o[c].arr) /\ Len(o[c].arr) \in Nat
  <1> DEFINE l == o[c]
  <1>1. ClassIs(c, l)
    BY DEF IsReg
  <1> HIDE DEF l
  <1>2. l \in Lists(c) /\ l.cur <= Len(l.arr)
    BY <1>1 DEF ClassIs
  <1>3. /\ l.issorted \in BOOLEAN /\ l.cur \in Nat /\ l.held \in BOOLEAN /\ l.built \in BOOLEAN /\ l.arr \in Seq(Entries(c))
    BY <1>2 DEF Lists
  <1>4. DOMAIN l.arr = 1..Len(l.arr) /\ Len(l.arr) \in Nat
    BY <1>3
  <1>5. QED
    BY <1>1, <1>2, <1>3, <1>4 DEF l

(* Sorting the disks, or filling slices with what was already so.          *)
LEMMA MovesKeep ==
  ASSUME IsComputer(computer), NEW o, NEW p, NEW a \in BOOLEAN, RegInv(o, a), IsReg(p),
         p["DISK"] = o["DISK"] \/ p["DISK"] = DiskReady(o["DISK"]),
         DOMAIN p["SLICE"].arr = DOMAIN o["SLICE"].arr,
         ~Begins => \A i \in DOMAIN o["SLICE"].arr : LET x == p["SLICE"].arr[i] IN
           \/ x = o["SLICE"].arr[i]
           \/ x.done /\ x.handle.answers /\ x.attrib = NoAttr /\ x.handle.of \in DiskNames => Lost(x.handle, a)
  PROVE  RegInv(p, a)
  <1> DEFINE l == o["DISK"]
  <1>1. ClassIs("DISK", l) /\ SortIs(l, a)
    BY DiskIn DEF RegInv, Classes
  <1> HIDE DEF l
  <1>2. SortIs(DiskReady(l), a)
    BY <1>1, DiskReadyIs
  <1>3. SortIs(p["DISK"], a)
    BY <1>1, <1>2 DEF l
  <1> DEFINE s == o["SLICE"]
             m == p["SLICE"]
  <1>4. ThrownIs(s, a) /\ DOMAIN m.arr = DOMAIN s.arr
    BY DEF RegInv
  <1>5. ~Begins => \A i \in DOMAIN s.arr :
           \/ m.arr[i] = s.arr[i]
           \/ m.arr[i].done /\ m.arr[i].handle.answers /\ m.arr[i].attrib = NoAttr /\ m.arr[i].handle.of \in DiskNames =>
                Lost(m.arr[i].handle, a)
    OBVIOUS
  <1> HIDE DEF s, m
  <1>6. ThrownIs(m, a)
    BY <1>4, <1>5, ThrownStays
  <1>7. QED
    BY <1>3, <1>6 DEF RegInv, m

LEMMA ReadyKeeps ==
  ASSUME IsComputer(computer), NEW o, NEW a \in BOOLEAN, RegInv(o, a)
  PROVE  RegInv(Ready(o), a)
  <1>1. /\ IsReg(Ready(o)) /\ Ready(o)["DISK"] = DiskReady(o["DISK"]) /\ Ready(o)["SLICE"] = o["SLICE"]
    BY ReadyIs DEF RegInv, Classes
  <1> DEFINE p == Ready(o)
  <1> HIDE DEF p
  <1>2. RegInv(p, a)
    BY <1>1, MovesKeep DEF p
  <1>3. QED
    BY <1>2 DEF p

LEMMA SystemsKeep ==
  ASSUME IsComputer(computer), NEW o, NEW a \in BOOLEAN, RegInv(o, a)
  PROVE  RegInv(os_discover(o), a)
  <1> DEFINE p == os_discover(o)
  <1>1. /\ IsReg(p) /\ p["SLICE"].arr = o["SLICE"].arr /\ (p["DISK"] = o["DISK"] \/ p["DISK"] = DiskReady(o["DISK"]))
    BY SystemsIs DEF RegInv
  <1> HIDE DEF p
  <1>2. RegInv(p, a)
    BY <1>1, MovesKeep
  <1>3. QED
    BY <1>2 DEF p

LEMMA LookedKeeps ==
  ASSUME IsComputer(computer), NEW o, NEW a \in BOOLEAN, RegInv(o, a), NEW c \in Classes, o[c].cur # 0
  PROVE  RegInv(Looked(o, c), a)
  <1> DEFINE p == Looked(o, c)
             e == Here(o, c)
             n == o[c].cur
             d == IF Asks(c, e) THEN Ready(o) ELSE o
  <1>1. /\ IsReg(p) /\ n \in DOMAIN o[c].arr
        /\ \A x \in Classes : x # c /\ x # "DISK" => p[x] = o[x]
        /\ c # "DISK" => p["DISK"] = IF Asks(c, e) THEN DiskReady(o["DISK"]) ELSE o["DISK"]
        /\ p[c] = [pddm |-> o[c].pddm, held |-> o[c].held, arr |-> p[c].arr, built |-> o[c].built,
                               cnt |-> o[c].cnt, cur |-> o[c].cur, issorted |-> o[c].issorted]
        /\ DOMAIN p[c].arr = DOMAIN o[c].arr
        /\ p[c].arr[n] = Answer(d, c, e)
        /\ \A i \in DOMAIN o[c].arr : i # n => p[c].arr[i] = o[c].arr[i]
        /\ InPlace(o[c]) => InPlace(p[c])
        /\ c = "DISK" /\ e.done => p[c] = o[c]
    BY LookedIs DEF RegInv
  <1>2. e = o[c].arr[n]
    BY DEF Here
  <1> HIDE DEF p, e, n
  <1>3. CASE c = "SLICE"
    <2>1. ~Begins => \A i \in DOMAIN o["SLICE"].arr : LET x == p["SLICE"].arr[i] IN
           \/ x = o["SLICE"].arr[i]
           \/ x.done /\ x.handle.answers /\ x.attrib = NoAttr /\ x.handle.of \in DiskNames => Lost(x.handle, a)
      <3> SUFFICES ASSUME ~Begins, NEW i \in DOMAIN o["SLICE"].arr, p["SLICE"].arr[i] # o["SLICE"].arr[i]
                   PROVE  LET x == p["SLICE"].arr[i] IN
                          x.done /\ x.handle.answers /\ x.attrib = NoAttr /\ x.handle.of \in DiskNames => Lost(x.handle, a)
        OBVIOUS
      <3>1. i = n /\ p["SLICE"].arr[i] = Answer(d, "SLICE", o["SLICE"].arr[i])
        BY <1>1, <1>2, <1>3
      <3>2. Asks("SLICE", o["SLICE"].arr[i]) => d = Ready(o)
        BY <1>2, <1>3, <3>1
      <3> HIDE DEF d
      <3>3. LET f == o["SLICE"].arr[i]
                x == Answer(d, "SLICE", f)
            IN x = f \/ (x.done /\ x.handle.answers /\ x.attrib = NoAttr /\ x.handle.of \in DiskNames => Lost(x.handle, a))
        BY <3>2, AnswerLost
      <3>4. QED
        BY <3>1, <3>3
    <2>2. p["DISK"] = o["DISK"] \/ p["DISK"] = DiskReady(o["DISK"])
      BY <1>1, <1>3
    <2>3. RegInv(p, a)
      BY <1>1, <1>3, <2>1, <2>2, MovesKeep
    <2>4. QED
      BY <2>3 DEF p
  <1>4. CASE c \in {"PARTITION", "OS"}
    <2>1. p["SLICE"] = o["SLICE"] /\ (p["DISK"] = o["DISK"] \/ p["DISK"] = DiskReady(o["DISK"]))
      BY <1>1, <1>4 DEF Classes
    <2>2. RegInv(p, a)
      BY <1>1, <2>1, MovesKeep
    <2>3. QED
      BY <2>2 DEF p
  <1>5. CASE c = "DISK"
    <2>1. p["SLICE"] = o["SLICE"]
      BY <1>1, <1>5 DEF Classes
    <2> DEFINE l == o["DISK"]
               m == p["DISK"]
    <2>2. SortIs(l, a) /\ ClassIs("DISK", l) /\ ThrownIs(o["SLICE"], a)
      BY DiskIn DEF RegInv, Classes
    <2>3. /\ m = [pddm |-> l.pddm, held |-> l.held, arr |-> m.arr, built |-> l.built, cnt |-> l.cnt, cur |-> l.cur,
                  issorted |-> l.issorted]
          /\ n \in DOMAIN l.arr /\ e = l.arr[n]
          /\ InPlace(l) => InPlace(m)
          /\ e.done => m = l
      BY <1>1, <1>2, <1>5
    <2> HIDE DEF l, m
    <2>4. m.issorted = l.issorted /\ m.built = l.built
      BY <2>3
    <2>5. SortIs(m, a)
      BY <2>2, <2>3, <2>4 DEF SortIs, AllDone
    <2>6. RegInv(p, a)
      BY <1>1, <2>1, <2>2, <2>5 DEF RegInv, m
    <2>7. QED
      BY <2>6 DEF p
  <1>6. QED
    BY <1>3, <1>4, <1>5 DEF Classes

LEMMA FillsKeep ==
  ASSUME IsComputer(computer), NEW o, NEW a \in BOOLEAN, RegInv(o, a), NEW c \in {"PARTITION", "SLICE"}
  PROVE  RegInv(Fills(o, c), a)
  <1> DEFINE p == Fills(o, c)
             l == o[c]
  <1>1. ClassIs(c, l) /\ c \in Classes /\ c \in Listed
    BY DiskIn DEF RegInv, Classes, Listed
  <1>2. /\ IsReg(p) /\ p[c] = Filled(c, l) /\ \A d \in Classes : d # c => p[d] = o[d]
    BY <1>1, FillsIs DEF RegInv
  <1> HIDE DEF p, l
  <1>3. /\ DOMAIN Filled(c, l).arr = DOMAIN l.arr
        /\ \A i \in DOMAIN l.arr : Filled(c, l).arr[i] = Fill(c, l.arr[i])
    BY <1>1, FilledIs
  <1>4. p["DISK"] = o["DISK"]
    BY <1>2 DEF Classes
  <1>5. DOMAIN p["SLICE"].arr = DOMAIN o["SLICE"].arr
    BY <1>2, <1>3 DEF Classes, l
  <1>6. ASSUME NEW i \in DOMAIN o["SLICE"].arr, p["SLICE"].arr[i] # o["SLICE"].arr[i]
        PROVE  ~(p["SLICE"].arr[i].handle.answers /\ p["SLICE"].arr[i].attrib = NoAttr)
    <2>1. c = "SLICE"
      BY <1>2, <1>6 DEF Classes
    <2> DEFINE e == o["SLICE"].arr[i]
    <2>2. p["SLICE"].arr[i] = Fill("SLICE", e)
      BY <1>2, <1>3, <2>1 DEF l
    <2>3. Proper("SLICE", e) /\ e.handle.name # <<>> /\ e.handle \in Nodes("SLICE")
      <3>1. Proper("SLICE", e) /\ e.handle.name # <<>>
        BY SlicesNumbered DEF RegInv
      <3> HIDE DEF e
      <3>2. QED
        BY <3>1 DEF Proper, Entries
    <2>4. p["SLICE"].arr[i] # e
      BY <1>6
    <2> HIDE DEF e
    <2>5. ~e.done /\ Fill("SLICE", e).handle = e.handle /\ Fill("SLICE", e).attrib = Attributes("SLICE", e.handle)
      BY <1>1, <2>1, <2>2, <2>3, <2>4, EntryFilled
    <2> DEFINE h == e.handle
    <2> HIDE DEF h
    <2>6. h.answers => Attributes("SLICE", h).name = h.name
      BY <1>1, <2>1, <2>3, AttributesAre DEF h
    <2>7. QED
      BY <2>2, <2>3, <2>5, <2>6, NoAttrIs DEF h
  <1>7. RegInv(p, a)
    BY <1>2, <1>4, <1>5, <1>6, MovesKeep
  <1>8. QED
    BY <1>7 DEF p

(* The walk of a list just made anew: nothing of it was asked for.          *)
LEMMA WalkedKeeps ==
  ASSUME IsComputer(computer), NEW o, NEW a \in BOOLEAN, RegInv(o, a), NEW c \in {"DISK", "SLICE"},
         c = "DISK" => (\A i \in DOMAIN o[c].arr : ~o[c].arr[i].done) /\ InPlace(o[c]) /\ a = o[c].issorted
  PROVE  RegInv(Walked(o, c), a)
  <1> DEFINE p == Walked(o, c)
             w == Wants(o, c)
             d == IF w THEN Ready(o) ELSE o
             l == o[c]
             m == p[c]
  <1>1. ClassIs(c, l) /\ c \in Classes /\ c \in Listed
    BY DiskIn DEF RegInv, Classes, Listed
  <1>2. /\ IsReg(p) /\ \A x \in Classes : x # c /\ x # "DISK" => p[x] = o[x]
        /\ c # "DISK" => p["DISK"] = IF w THEN DiskReady(o["DISK"]) ELSE o["DISK"]
        /\ m = [pddm |-> l.pddm, held |-> l.held, arr |-> m.arr, built |-> l.built,
                               cnt |-> l.cnt, cur |-> Len(l.arr), issorted |-> l.issorted]
        /\ DOMAIN m.arr = DOMAIN l.arr
        /\ \A i \in DOMAIN l.arr : m.arr[i] = Answer(d, c, l.arr[i])
        /\ InPlace(l) => InPlace(m)
    BY <1>1, WalkedIs DEF RegInv
  <1>3. CASE c = "SLICE"
    <2>1. p["DISK"] = o["DISK"] \/ p["DISK"] = DiskReady(o["DISK"])
      BY <1>2, <1>3
    <2>2. ASSUME NEW i \in DOMAIN o["SLICE"].arr, ~Begins
          PROVE  LET x == p["SLICE"].arr[i] IN
                 x = o["SLICE"].arr[i] \/ (x.done /\ x.handle.answers /\ x.attrib = NoAttr /\ x.handle.of \in DiskNames => Lost(x.handle, a))
      <3>1. p["SLICE"].arr[i] = Answer(d, "SLICE", o["SLICE"].arr[i])
        BY <1>2, <1>3
      <3>2. Asks("SLICE", o["SLICE"].arr[i]) => d = Ready(o)
        BY <1>3 DEF Wants
      <3> HIDE DEF d, p, w
      <3>3. LET f == o["SLICE"].arr[i]
                x == Answer(d, "SLICE", f)
            IN x = f \/ (x.done /\ x.handle.answers /\ x.attrib = NoAttr /\ x.handle.of \in DiskNames => Lost(x.handle, a))
        BY <2>2, <3>2, AnswerLost
      <3>4. QED
        BY <3>1, <3>3
    <2>3. DOMAIN p["SLICE"].arr = DOMAIN o["SLICE"].arr
      BY <1>2, <1>3
    <2> HIDE DEF p, w, d, l, m
    <2>4. RegInv(p, a)
      BY <1>2, <2>1, <2>2, <2>3, MovesKeep
    <2>5. QED
      BY <2>4 DEF p
  <1>4. CASE c = "DISK"
    <2>1. p["SLICE"] = o["SLICE"]
      BY <1>2, <1>4 DEF Classes
    <2>2. SortIs(l, a) /\ ThrownIs(o["SLICE"], a) /\ (a <=> l.issorted) /\ InPlace(l)
      BY <1>4 DEF RegInv
    <2> HIDE DEF p, w, d, l, m
    <2>3. m.issorted = l.issorted /\ m.built = l.built /\ InPlace(m)
      BY <1>2, <2>2
    <2>4. SortIs(m, a)
      BY <2>2, <2>3 DEF SortIs
    <2>5. RegInv(p, a)
      BY <1>2, <1>4, <2>1, <2>2, <2>4 DEF RegInv, m
    <2>6. QED
      BY <2>5 DEF p
  <1>5. QED
    BY <1>3, <1>4

AtCursor(o, c, n) == [o EXCEPT ![c].cur = n]
LEMMA CursorKeeps ==
  ASSUME NEW o, NEW a \in BOOLEAN, RegInv(o, a), NEW c \in Classes, NEW n \in Nat, n <= Len(o[c].arr)
  PROVE  /\ RegInv(AtCursor(o, c, n), a) /\ AtCursor(o, c, n)[c].cur = n /\ AtCursor(o, c, n)[c].arr = o[c].arr
         /\ \A x \in Classes : x # c => AtCursor(o, c, n)[x] = o[x]
         /\ \A x \in Classes : AtCursor(o, c, n)[x].arr = o[x].arr /\ AtCursor(o, c, n)[x].held = o[x].held
  <1> DEFINE l == o[c]
             m == [l EXCEPT !.cur = n]
             p == AtCursor(o, c, n)
  <1>1. ClassIs(c, l) /\ n <= Len(l.arr)
    BY DiskIn DEF RegInv
  <1>2. p = [o EXCEPT ![c] = m]
    BY DEF AtCursor
  <1> HIDE DEF l, p
  <1>3. /\ ClassIs(c, m)
        /\ m = [pddm |-> l.pddm, held |-> l.held, arr |-> l.arr, built |-> l.built, cnt |-> l.cnt,
                                    cur |-> n, issorted |-> l.issorted]
    BY <1>1, CurSet
  <1> HIDE DEF m
  <1>4. IsReg(p) /\ p[c] = m /\ \A x \in Classes : x # c => p[x] = o[x]
    <2>1. IsReg(o) /\ ClassIs(c, m)
      BY <1>3 DEF RegInv
    <2>2. /\ IsReg([o EXCEPT ![c] = m]) /\ [o EXCEPT ![c] = m][c] = m
          /\ \A x \in Classes : x # c => [o EXCEPT ![c] = m][x] = o[x]
      BY <2>1, RegSet
    <2>3. QED
      BY <1>2, <2>2
  <1>5. m.held = l.held /\ m.arr = l.arr /\ m.cur = n /\ m.pddm = l.pddm /\ m.built = l.built /\ m.issorted = l.issorted
    BY <1>3
  <1>6. \A x \in Classes : /\ p[x].arr = o[x].arr /\ p[x].held = o[x].held /\ p[x].built = o[x].built
                           /\ p[x].issorted = o[x].issorted /\ p[x].pddm = o[x].pddm
    BY <1>4, <1>5 DEF l
  <1>7. SortIs(p["DISK"], a) /\ ThrownIs(p["SLICE"], a)
    BY <1>6 DEF RegInv, SortIs, ThrownIs, InPlace, AllDone, InOrder, Classes
  <1>8. QED
    BY <1>4, <1>5, <1>6, <1>7 DEF RegInv, p, l

LEMMA EmptyIs ==
  ASSUME NEW o, o = [c \in Classes |-> Empty]
  PROVE  RegInv(o, FALSE) /\ \A c \in Classes : o[c].cur = 0 /\ ~o[c].held
  <1>1. \A c \in Classes : o[c] = Empty
    OBVIOUS
  <1>2. /\ Empty.pddm = <<>> /\ ~Empty.held /\ Empty.arr = <<>> /\ ~Empty.built /\ Empty.cnt = 0 /\ Empty.cur = 0
        /\ ~Empty.issorted
    BY DEF Empty
  <1>3. \A c \in Classes : Empty \in Lists(c)
    BY DEF Empty, Lists
  <1>4. DOMAIN (<<>>) = {} /\ Len(<<>>) = 0
    OBVIOUS
  <1>5. \A c \in Classes : ClassIs(c, Empty)
    BY <1>2, <1>3, <1>4 DEF ClassIs, ListIs, InPlace, DisksAre, OsIs, AllDone
  <1>6. IsReg(o)
    BY <1>1, <1>5 DEF IsReg
  <1>7. SortIs(Empty, FALSE) /\ ThrownIs(Empty, FALSE)
    BY <1>2, <1>4 DEF SortIs, ThrownIs
  <1>8. QED
    BY <1>1, <1>2, <1>6, <1>7 DEF RegInv, Classes

(* The registry's invariant is about the computer too, which stays.         *)
LEMMA StaysPut ==
  ASSUME UNCHANGED computer
  PROVE  /\ (IsComputer(computer) => IsComputer(computer)')
         /\ \A c \in Classes : Handles(c)' = Handles(c)
         /\ \A c, h : Attributes(c, h)' = Attributes(c, h)
         /\ DiskNames' = DiskNames /\ (Begins' <=> Begins)
  <1>1. ddm_get_curr_bootdisk' = ddm_get_curr_bootdisk
    BY DEF ddm_get_curr_bootdisk
  <1>2. \A h : ddm_get_disk_attributes(h)' = ddm_get_disk_attributes(h)
    BY <1>1 DEF ddm_get_disk_attributes
  <1>3. \A c, h : Attributes(c, h)' = Attributes(c, h)
    BY <1>2 DEF Attributes, ddm_get_partition_attributes, ddm_get_slice_attributes
  <1>4. \A c \in Classes : Handles(c)' = Handles(c)
    BY DEF Handles
  <1>5. DiskNames' = DiskNames
    BY DEF DiskNames
  <1>6. QED
    BY <1>3, <1>4, <1>5 DEF Begins, IsComputer

LEMMA RegNext ==
  ASSUME RegInv(obj', again'), \A c \in Listed : \A hs \in Seq(Nodes(c)) : Handed(c, hs) => Handed(c, hs)',
         \A c \in Listed : \A h : Attributes(c, h)' = Attributes(c, h),
         \A h, a : Lost(h, a) => Lost(h, a)',
         DiskNames' = DiskNames, Begins' <=> Begins
  PROVE  RegInv(obj, again)'
  <1>1. \A c \in Listed : \A e : EntryIs(c, e) => EntryIs(c, e)'
    BY DEF EntryIs
  <1>2. \A c \in Listed : \A e : Proper(c, e) => Proper(c, e)'
    BY <1>1 DEF Proper
  <1>3. \A c \in Listed : \A l \in Lists(c) : ListIs(c, l) => ListIs(c, l)'
    BY <1>2 DEF ListIs, Lists
  <1>4. \A c \in Classes : \A l : ClassIs(c, l) => ClassIs(c, l)'
    BY <1>3 DEF ClassIs
  <1>5. IsReg(obj') => IsReg(obj)'
    BY <1>4 DEF IsReg
  <1>6. \A l, a : ThrownIs(l, a) => ThrownIs(l, a)'
    BY DEF ThrownIs
  <1>7. QED
    BY <1>5, <1>6 DEF RegInv

(* Somebody installs a system: the handles' slices are the same slices.     *)
LEMMA SystemChanges ==
  ASSUME IsComputer(computer), NEW i \in DOMAIN computer.slices, computer' = [computer EXCEPT !.slices[i].os = ~@]
  PROVE  /\ IsComputer(computer)'
         /\ \A c \in Listed : \A hs \in Seq(Nodes(c)) : Handed(c, hs) => Handed(c, hs)'
         /\ \A c \in Listed : \A h : Attributes(c, h)' = Attributes(c, h)
         /\ Handles("DISK")' = Handles("DISK")
         /\ DiskNames' = DiskNames /\ (Begins' <=> Begins)
  <1> DEFINE c == computer
             s == c.slices[i]
             t == [s EXCEPT !.os = ~@]
             q == [c.slices EXCEPT ![i] = t]
  <1>1. c' = [c EXCEPT !.slices = q]
    OBVIOUS
  <1>2. c \in [drives : Seq(Drives), parts : Seq(Parts), slices : Seq(Slices), boot : Seq(Boots), booted : Names \cup {<<>>}]
    BY DEF IsComputer
  <1>3. s \in Slices /\ c.slices \in Seq(Slices)
    BY <1>2
  <1> HIDE DEF s
  <1>4. t \in Slices /\ t.name = s.name /\ t.of = s.of /\ t.answers = s.answers
    BY <1>3 DEF Slices
  <1> HIDE DEF t
  <1>5. /\ q \in Seq(Slices) /\ DOMAIN q = DOMAIN c.slices /\ Len(q) = Len(c.slices)
        /\ \A j \in DOMAIN q : q[j].name = c.slices[j].name /\ q[j].of = c.slices[j].of /\ q[j].answers = c.slices[j].answers
    <2>1. q \in Seq(Slices) /\ DOMAIN q = DOMAIN c.slices /\ Len(q) = Len(c.slices)
      BY <1>3, <1>4
    <2>2. \A j \in DOMAIN q : q[j] = IF j = i THEN t ELSE c.slices[j]
      OBVIOUS
    <2>3. QED
      BY <1>4, <2>1, <2>2 DEF s
  <1> HIDE DEF q
  <1>6. /\ c'.drives = c.drives /\ c'.parts = c.parts /\ c'.slices = q /\ c'.boot = c.boot /\ c'.booted = c.booted
        /\ c' \in [drives : Seq(Drives), parts : Seq(Parts), slices : Seq(Slices), boot : Seq(Boots), booted : Names \cup {<<>>}]
    BY <1>1, <1>2, <1>5
  <1>7. IsComputer(computer')
    BY <1>5, <1>6 DEF IsComputer, Booted, BootDisks
  <1>8. IsComputer(computer)'
    BY <1>7 DEF IsComputer
  <1>9. ddm_get_curr_bootdisk' = ddm_get_curr_bootdisk
    BY <1>6 DEF ddm_get_curr_bootdisk, BootDisks
  <1>10. \A h : ddm_get_disk_attributes(h)' = ddm_get_disk_attributes(h)
    BY <1>9 DEF ddm_get_disk_attributes
  <1>11. \A d, h : Attributes(d, h)' = Attributes(d, h)
    BY <1>10 DEF Attributes, ddm_get_partition_attributes, ddm_get_slice_attributes
  <1>12. Handles("DISK")' = Handles("DISK") /\ Handles("PARTITION")' = Handles("PARTITION")
    BY <1>6 DEF Handles
  <1>13. Handles("SLICE") = c.slices /\ Handles("SLICE")' = q
    BY <1>6 DEF Handles
  <1>14. ASSUME NEW hs \in Seq(Slices), Handed("SLICE", hs) PROVE Handed("SLICE", hs)'
    <2>1. Len(hs) = Len(c.slices) /\ \A j \in DOMAIN hs : SameHandle("SLICE", hs[j], c.slices[j])
      BY <1>13, <1>14 DEF Handed
    <2>2. DOMAIN hs = DOMAIN q /\ Len(hs) = Len(q)
      BY <1>3, <1>5, <2>1
    <2>3. \A j \in DOMAIN hs : SameHandle("SLICE", hs[j], q[j])
      BY <1>5, <2>1, <2>2 DEF SameHandle
    <2>4. QED
      BY <1>13, <2>2, <2>3 DEF Handed
  <1>15. DiskNames' = DiskNames
    BY <1>6 DEF DiskNames
  <1>16. Nodes("SLICE") = Slices
    BY DEF Nodes
  <1>17. \A d \in {"DISK", "PARTITION"} : \A hs : Handed(d, hs) => Handed(d, hs)'
    BY <1>12 DEF Handed
  <1>18. QED
    BY <1>8, <1>11, <1>12, <1>14, <1>15, <1>16, <1>17 DEF Begins, Listed

LEMMA InvNext ==
  ASSUME ObInv, UNCHANGED computer, ObTypes', RegInv(obj', again'), SeenIs(obj', seen', moved'),
         DescIs(obj', desc', aborted', noMemory')
  PROVE  ObInv'
  <1>1. /\ IsComputer(computer)'
        /\ \A c \in Listed : Handles(c)' = Handles(c)
        /\ \A c \in Listed : \A h : Attributes(c, h)' = Attributes(c, h)
        /\ Handles("DISK")' = Handles("DISK")
        /\ DiskNames' = DiskNames /\ (Begins' <=> Begins)
    BY StaysPut DEF ObInv, Listed, Classes
  <1>2. \A c \in Listed : \A hs \in Seq(Nodes(c)) : Handed(c, hs) => Handed(c, hs)'
    BY <1>1 DEF Handed
  <1>3. \A h, a : Lost(h, a) => Lost(h, a)'
    BY <1>1 DEF Lost
  <1>4. RegInv(obj, again)'
    BY <1>1, <1>2, <1>3, RegNext
  <1>5. DescIs(obj, desc, aborted, noMemory)'
    BY <1>1 DEF DescIs
  <1>6. SeenIs(obj, seen, moved)'
    BY DEF SeenIs
  <1>7. QED
    BY <1>1, <1>4, <1>5, <1>6 DEF ObInv

(* What a cursor went through.                                             *)
LEMMA PassedIs ==
  ASSUME NEW l, l.cur \in Nat
  PROVE  /\ l.cur = 0 => Passed(l) = <<>>
         /\ \A m : m.cur = l.cur /\ (\A i \in 1 .. l.cur : m.arr[i].handle = l.arr[i].handle) => Passed(m) = Passed(l)
         /\ \A m : m.cur = l.cur + 1 /\ m.arr = l.arr => Passed(m) = Append(Passed(l), l.arr[l.cur + 1].handle.name)
         /\ Len(Passed(l)) = l.cur
  <1>1. l.cur = 0 => Passed(l) = <<>>
    BY DEF Passed
  <1>2. ASSUME NEW m, m.cur = l.cur, \A i \in 1 .. l.cur : m.arr[i].handle = l.arr[i].handle PROVE Passed(m) = Passed(l)
    BY <1>2 DEF Passed
  <1>3. ASSUME NEW m, m.cur = l.cur + 1, m.arr = l.arr PROVE Passed(m) = Append(Passed(l), l.arr[l.cur + 1].handle.name)
    <2> DEFINE f == [i \in 1 .. l.cur |-> l.arr[i].handle.name]
               v == l.arr[l.cur + 1].handle.name
               X == {l.arr[i].handle.name : i \in 1 .. l.cur + 1}
    <2>1. f \in [1 .. l.cur -> X] /\ v \in X
      OBVIOUS
    <2>2. f \in Seq(X) /\ Len(f) = l.cur
      <3> DEFINE n == l.cur
      <3>1. f \in [1 .. n -> X] /\ n \in Nat
        BY <2>1
      <3> HIDE DEF f, X, n
      <3>2. f \in Seq(X) /\ Len(f) = n
        BY <3>1
      <3>3. QED
        BY <3>2 DEF n
    <2>3. Append(f, v) = [i \in 1 .. l.cur + 1 |-> IF i = l.cur + 1 THEN v ELSE f[i]]
      <3> DEFINE n == l.cur
      <3>1. f \in Seq(X) /\ Len(f) = n /\ v \in X /\ n \in Nat
        BY <2>1, <2>2
      <3> HIDE DEF f, v, X, n
      <3> DEFINE t == Append(f, v)
      <3>2. t \in Seq(X) /\ Len(t) = n + 1 /\ t[n + 1] = v /\ \A i \in 1 .. n : t[i] = f[i]
        BY <3>1
      <3> HIDE DEF t
      <3>3. t = [i \in 1 .. n + 1 |-> t[i]]
        BY <3>2, SeqIs
      <3>4. \A i \in 1 .. n + 1 : t[i] = IF i = n + 1 THEN v ELSE f[i]
        BY <3>1, <3>2
      <3>5. t = [i \in 1 .. n + 1 |-> IF i = n + 1 THEN v ELSE f[i]]
        BY <3>3, <3>4
      <3>6. QED
        BY <3>5 DEF n, t
    <2>4. \A i \in 1 .. l.cur + 1 : l.arr[i].handle.name = IF i = l.cur + 1 THEN v ELSE f[i]
      OBVIOUS
    <2>5. Passed(m) = [i \in 1 .. l.cur + 1 |-> l.arr[i].handle.name]
      BY <1>3 DEF Passed
    <2>6. Passed(m) = Append(f, v)
      <3> HIDE DEF f, v
      <3>1. QED
        BY <2>3, <2>4, <2>5
    <2>7. Passed(l) = f
      BY DEF Passed
    <2>8. QED
      BY <2>6, <2>7
  <1>4. Len(Passed(l)) = l.cur
    BY DEF Passed
  <1>5. QED
    BY <1>1, <1>2, <1>3, <1>4

LEMMA DiskPassed ==
  ASSUME IsComputer(computer), NEW o, NEW a \in BOOLEAN, RegInv(o, a), NEW p,
         p["DISK"] = o["DISK"] \/ p["DISK"] = DiskReady(o["DISK"])
  PROVE  /\ \/ Passed(p["DISK"]) = Passed(o["DISK"])
            \/ ~o["DISK"].issorted /\ o["DISK"].cur # 0 /\ p["DISK"].issorted
         /\ o["DISK"].held => p["DISK"].held
         /\ p["DISK"].cur = o["DISK"].cur
  <1> DEFINE l == o["DISK"]
             m == DiskReady(l)
  <1>1. ClassIs("DISK", l) /\ SortIs(l, a) /\ l.cur \in Nat /\ l.cur <= Len(l.arr) /\ DOMAIN l.arr = 1..Len(l.arr) /\ Len(l.arr) \in Nat
    BY DiskIn DEF RegInv, Classes
  <1> HIDE DEF l
  <1>2. /\ m.issorted /\ m.held /\ m.cur = l.cur
        /\ l.issorted => \A i \in DOMAIN l.arr : m.arr[i].handle = l.arr[i].handle
    BY <1>1, DiskReadyIs
  <1> HIDE DEF m
  <1>3. l.issorted => \A i \in 1 .. l.cur : m.arr[i].handle = l.arr[i].handle
    BY <1>1, <1>2
  <1>4. l.issorted \/ l.cur = 0 => Passed(m) = Passed(l)
    BY <1>1, <1>2, <1>3, PassedIs
  <1>5. QED
    BY <1>2, <1>4 DEF l, m

LEMMA TakesIs ==
  ASSUME ObInv, NEW o, TakesDrives(o), obj["DISK"].held => o["DISK"].held
  PROVE  /\ DescIs(o, desc', aborted', noMemory)
         /\ desc' \in BOOLEAN /\ aborted' \in BOOLEAN
  BY DEF ObInv, ObTypes, TakesDrives, DescIs

LEMMA SeenGoes ==
  ASSUME NEW o, NEW p, NEW s, NEW t, NEW m, NEW n, SeenIs(o, s, m),
         \A c \in Classes : \/ c \in n
                            \/ c \notin m /\ t[c] = s[c] /\ Passed(p[c]) = Passed(o[c])
                            \/ t[c] = Passed(p[c])
  PROVE  SeenIs(p, t, n)
  BY DEF SeenIs

-----------------------------------------------------------------------------
(* One lemma for each action, and the invariant.                            *)
LEMMA DiscoverKeeps ==
  ASSUME ObInv, NEW class \in Classes, td_discover(class)
  PROVE  ObInv'
  <1> DEFINE o == IF class = "OS" THEN os_discover(obj) ELSE Rebuilt(obj, class)
  <1>0. /\ IsComputer(computer) /\ ObTypes /\ RegInv(obj, again) /\ SeenIs(obj, seen, moved) /\ DescIs(obj, desc, aborted, noMemory)
        /\ again \in BOOLEAN /\ "DISK" \in Classes /\ "OS" \in Classes /\ "SLICE" \in Classes /\ "PARTITION" \in Classes
    BY DEF ObInv, ObTypes, Classes
  <1>c. UNCHANGED computer /\ calls' \in 0 .. MaxCalls
    BY <1>0, ObAssumption DEF td_discover, Keep0, Call, ObTypes
  <1>1. CASE /\ obj' = o /\ TakesDrives(o) /\ td_errno' = "SUCCESS"
             /\ seen' = [seen EXCEPT ![class] = <<>>]
             /\ moved' = (moved \ {class}) \cup (IF class = "OS" /\ ~obj["DISK"].issorted /\ obj["DISK"].cur # 0 THEN {"DISK"} ELSE {})
             /\ again' = (again \/ (class = "DISK" /\ obj["DISK"].issorted)) /\ UNCHANGED noMemory
    <2>1. /\ RegInv(o, again') /\ o[class].cur = 0 /\ Passed(o[class]) = <<>> /\ (obj["DISK"].held => o["DISK"].held)
          /\ \A c \in Classes : c # class => Passed(o[c]) = Passed(obj[c]) \/ (c = "DISK" /\ c \in moved')
      <3>1. CASE class = "OS"
        <4>1. /\ o["OS"].cur = 0 /\ o["PARTITION"] = obj["PARTITION"]
              /\ o["SLICE"].arr = obj["SLICE"].arr /\ o["SLICE"].cur = obj["SLICE"].cur
              /\ o["DISK"] = obj["DISK"] \/ o["DISK"] = DiskReady(obj["DISK"])
          BY <1>0, <3>1, SystemsIs DEF RegInv
        <4>2. RegInv(o, again)
          BY <1>0, <3>1, SystemsKeep
        <4> HIDE DEF o
        <4>3. /\ \/ Passed(o["DISK"]) = Passed(obj["DISK"])
                 \/ ~obj["DISK"].issorted /\ obj["DISK"].cur # 0 /\ o["DISK"].issorted
              /\ obj["DISK"].held => o["DISK"].held
          BY <1>0, <4>1, DiskPassed
        <4>4. Passed(o["SLICE"]) = Passed(obj["SLICE"]) /\ Passed(o["OS"]) = <<>>
          BY <4>1 DEF Passed
        <4>5. again' = again
          BY <1>0, <1>1, <3>1
        <4>6. QED
          BY <1>1, <3>1, <4>1, <4>2, <4>3, <4>4, <4>5 DEF Classes
      <3>2. CASE class # "OS"
        <4>1. class \in Listed
          BY <3>2 DEF Classes, Listed
        <4>2. o[class] = Remade(class, obj[class]) /\ \A d \in Classes : d # class => o[d] = obj[d]
          BY <1>0, <3>2, <4>1, RebuiltIs DEF RegInv
        <4>3. RegInv(o, again')
          BY <1>0, <1>1, <3>2, <4>1, RebuiltKeeps
        <4> HIDE DEF o
        <4> DEFINE l == obj[class]
        <4>4. ClassIs(class, l)
          BY <1>0, DiskIn DEF RegInv
        <4> HIDE DEF l
        <4>5. Remade(class, l).held /\ Remade(class, l).cur = 0
          BY <1>0, <4>1, <4>4, RemadeIs
        <4>6. o[class].cur = 0 /\ o[class].held
          BY <4>2, <4>5 DEF l
        <4>7. Passed(o[class]) = <<>>
          BY <4>6, PassedIs
        <4>8. QED
          BY <1>0, <4>2, <4>3, <4>6, <4>7
      <3>3. QED
        BY <3>1, <3>2
    <2> HIDE DEF o
    <2>2. SeenIs(o, seen', moved')
      <3>1. ASSUME NEW c \in Classes
            PROVE  \/ c \in moved'
                   \/ c \notin moved /\ seen'[c] = seen[c] /\ Passed(o[c]) = Passed(obj[c])
                   \/ seen'[c] = Passed(o[c])
        <4>1. CASE c = class
          <5>1. seen'[class] = <<>>
            BY <1>0, <1>1 DEF ObTypes
          <5>2. QED
            BY <2>1, <4>1, <5>1
        <4>2. CASE c # class
          BY <1>1, <2>1, <4>2, <1>0 DEF ObTypes
        <4>3. QED
          BY <4>1, <4>2
      <3>2. QED
        BY <1>0, <3>1 DEF SeenIs
    <2>3. DescIs(o, desc', aborted', noMemory) /\ desc' \in BOOLEAN /\ aborted' \in BOOLEAN
      BY <1>1, <2>1, TakesIs
    <2>4. ObTypes'
      <3>1. seen' \in [Classes -> Seq(Seq(Nat))]
        BY <1>0, <1>1 DEF ObTypes
      <3>2. moved' \subseteq Classes
        BY <1>0, <1>1 DEF ObTypes
      <3>3. again' \in BOOLEAN
        BY <1>1
      <3>4. QED
        BY <1>0, <1>c, <1>1, <2>3, <3>1, <3>2, <3>3 DEF ObTypes
    <2>5. RegInv(obj', again') /\ SeenIs(obj', seen', moved') /\ DescIs(obj', desc', aborted', noMemory')
      BY <1>1, <2>1, <2>2, <2>3
    <2>6. QED
      BY <1>c, <2>4, <2>5, InvNext
  <1>2. CASE /\ td_errno' = (IF class = "DISK" THEN "NO_DEVICE" ELSE "END")
             /\ UNCHANGED <<obj, desc, aborted, seen, moved, again, noMemory>>
    <2>1. ObTypes'
      BY <1>0, <1>c, <1>2 DEF ObTypes
    <2>2. RegInv(obj', again') /\ SeenIs(obj', seen', moved') /\ DescIs(obj', desc', aborted', noMemory')
      BY <1>0, <1>2
    <2>3. QED
      BY <1>c, <2>1, <2>2, InvNext
  <1>3. CASE /\ ~obj["DISK"].held /\ class = "DISK"
             /\ aborted' = (aborted \/ desc) /\ desc' = TRUE /\ td_errno' = "NO_DEVICE" /\ noMemory' = TRUE
             /\ UNCHANGED <<obj, seen, moved, again>>
    <2>1. ObTypes'
      BY <1>0, <1>c, <1>3 DEF ObTypes
    <2>2. RegInv(obj', again') /\ SeenIs(obj', seen', moved')
      BY <1>0, <1>3
    <2>3. DescIs(obj', desc', aborted', noMemory')
      BY <1>3 DEF DescIs
    <2>4. QED
      BY <1>c, <2>1, <2>2, <2>3, InvNext
  <1>4. QED
    BY <1>1, <1>2, <1>3 DEF td_discover, Discover

LEMMA NamesSeen ==
  ASSUME NEW o, IsReg(o), NEW c \in Classes, NEW i \in DOMAIN o[c].arr
  PROVE  o[c].arr[i].handle.name \in Seq(Nat)
  <1> DEFINE l == o[c]
             e == l.arr[i]
  <1>1. l \in Lists(c)
    BY DiskIn
  <1>2. i \in DOMAIN l.arr
    OBVIOUS
  <1> HIDE DEF l
  <1>3. e \in Entries(c)
    BY <1>1, <1>2 DEF Lists
  <1> HIDE DEF e
  <1>4. e.handle \in Nodes(c)
    BY <1>3 DEF Entries
  <1>5. e.handle.name \in Seq(Nat)
    BY <1>4, NodeNames
  <1>6. QED
    BY <1>5 DEF e, l

LEMMA CursorNext ==
  ASSUME ObInv, NEW c \in Classes, NEW n \in Nat, n <= Len(obj[c].arr), obj' = AtCursor(obj, c, n),
         UNCHANGED <<computer, again, desc, aborted, noMemory>>, ObTypes', moved \subseteq moved' \cup {c},
         \A d \in Classes : d # c => seen'[d] = seen[d],
         c \in moved' \/ seen'[c] = Passed(AtCursor(obj, c, n)[c])
  PROVE  ObInv'
  <1> DEFINE p == AtCursor(obj, c, n)
  <1>1. RegInv(obj, again) /\ again \in BOOLEAN /\ SeenIs(obj, seen, moved) /\ DescIs(obj, desc, aborted, noMemory)
    BY DEF ObInv, ObTypes
  <1>2. /\ RegInv(p, again) /\ p[c].cur = n /\ p[c].arr = obj[c].arr
        /\ \A x \in Classes : x # c => p[x] = obj[x]
        /\ \A x \in Classes : p[x].arr = obj[x].arr /\ p[x].held = obj[x].held
    BY <1>1, CursorKeeps
  <1>3. obj' = p /\ (c \in moved' \/ seen'[c] = Passed(p[c]))
    OBVIOUS
  <1> HIDE DEF p
  <1>4. SeenIs(p, seen', moved')
    BY <1>1, <1>2, <1>3 DEF SeenIs
  <1>5. DescIs(p, desc', aborted', noMemory')
    BY <1>1, <1>2 DEF DescIs, Classes
  <1>6. RegInv(obj', again') /\ SeenIs(obj', seen', moved') /\ DescIs(obj', desc', aborted', noMemory')
    BY <1>2, <1>3, <1>4, <1>5
  <1>7. QED
    BY <1>6, InvNext

LEMMA CursorReset ==
  ASSUME ObInv, NEW c \in Classes, Keep, obj' = [obj EXCEPT ![c].cur = 0], UNCHANGED <<again, desc, aborted>>,
         td_errno' \in {"SUCCESS", "END"}, seen' = [seen EXCEPT ![c] = <<>>], moved' = moved \ {c}
  PROVE  ObInv'
  <1>1. ObTypes
    BY DEF ObInv
  <1>2. calls' \in 0 .. MaxCalls /\ UNCHANGED <<computer, noMemory>>
    BY <1>1, ObAssumption DEF Keep, Keep0, Call, ObTypes
  <1>3. ObTypes' /\ seen'[c] = <<>> /\ \A d \in Classes : d # c => seen'[d] = seen[d]
    BY <1>1, <1>2 DEF ObTypes
  <1> DEFINE m == AtCursor(obj, c, 0)[c]
  <1>4. ClassIs(c, obj[c]) /\ Len(obj[c].arr) \in Nat
    BY DiskIn DEF ObInv, RegInv
  <1>5. m.cur = 0
    BY CursorKeeps, <1>1, <1>4 DEF ObInv, ObTypes
  <1> HIDE DEF m
  <1>6. Passed(m) = <<>>
    BY <1>5, PassedIs
  <1>7. QED
    <2>1. obj' = AtCursor(obj, c, 0)
      BY DEF AtCursor
    <2>2. 0 <= Len(obj[c].arr) /\ moved \subseteq moved' \cup {c}
      BY <1>4
    <2>3. seen'[c] = Passed(AtCursor(obj, c, 0)[c])
      BY <1>3, <1>6 DEF m
    <2>4. QED
      BY <1>2, <1>3, <2>1, <2>2, <2>3, CursorNext

LEMMA NextKeeps ==
  ASSUME ObInv, NEW class \in Classes, td_get_next(class)
  PROVE  ObInv'
  <1> DEFINE next == obj[class].cur + 1
  <1>1. ObTypes /\ again \in BOOLEAN /\ RegInv(obj, again) /\ SeenIs(obj, seen, moved)
    BY DEF ObInv, ObTypes
  <1>2. Keep /\ UNCHANGED <<desc, aborted, again>>
    BY DEF td_get_next
  <1>3. /\ obj[class].cur \in Nat /\ DOMAIN obj[class].arr = 1 .. Len(obj[class].arr) /\ Len(obj[class].arr) \in Nat
    BY <1>1, DiskIn DEF RegInv
  <1>4. CASE /\ next <= Len(obj[class].arr)
             /\ obj' = [obj EXCEPT ![class].cur = next] /\ td_errno' = "SUCCESS"
             /\ seen' = [seen EXCEPT ![class] = Append(@, obj[class].arr[next].handle.name)] /\ UNCHANGED moved
    <2>1. next \in DOMAIN obj[class].arr /\ next \in Nat
      BY <1>3, <1>4
    <2> HIDE DEF next
    <2>2. obj[class].arr[next].handle.name \in Seq(Nat)
      BY <1>1, <2>1, NamesSeen DEF RegInv
    <2>3. calls' \in 0 .. MaxCalls /\ UNCHANGED <<computer, noMemory>>
      BY <1>1, <1>2, ObAssumption DEF Keep, Keep0, Call, ObTypes
    <2>4. seen[class] \in Seq(Seq(Nat))
      BY <1>1 DEF ObTypes
    <2>5. Append(seen[class], obj[class].arr[next].handle.name) \in Seq(Seq(Nat))
      BY <2>2, <2>4
    <2>6. /\ seen' \in [Classes -> Seq(Seq(Nat))] /\ seen'[class] = Append(seen[class], obj[class].arr[next].handle.name)
          /\ \A d \in Classes : d # class => seen'[d] = seen[d]
      BY <1>1, <1>4, <2>5 DEF ObTypes
    <2>7. ObTypes'
      BY <1>1, <1>2, <1>4, <2>3, <2>6 DEF ObTypes
    <2> DEFINE l == obj[class]
               m == AtCursor(obj, class, next)[class]
    <2>8. m.cur = next /\ m.arr = l.arr
      BY <1>1, <1>4, <2>1, CursorKeeps
    <2>9. next = l.cur + 1 /\ l.cur \in Nat
      BY <1>3 DEF next
    <2> HIDE DEF m
    <2>10. class \in moved' \/ seen'[class] = Passed(m)
      <3>1. class \notin moved => seen[class] = Passed(obj[class])
        BY <1>1 DEF SeenIs
      <3> HIDE DEF l
      <3>2. Passed(m) = Append(Passed(l), l.arr[next].handle.name)
        BY <2>8, <2>9, PassedIs
      <3>3. QED
        BY <1>4, <2>6, <3>1, <3>2 DEF l
    <2>11. obj' = AtCursor(obj, class, next)
      BY <1>4 DEF AtCursor
    <2>12. QED
      BY <1>2, <1>4, <2>1, <2>3, <2>6, <2>7, <2>10, <2>11, CursorNext DEF m
  <1>5. CASE /\ obj' = [obj EXCEPT ![class].cur = 0] /\ td_errno' = "END"
             /\ seen' = [seen EXCEPT ![class] = <<>>] /\ moved' = moved \ {class}
    BY <1>2, <1>5, CursorReset
  <1>6. QED
    BY <1>4, <1>5 DEF td_get_next

LEMMA ResetKeeps ==
  ASSUME ObInv, NEW class \in Classes, td_reset(class)
  PROVE  ObInv'
  BY CursorReset DEF td_reset

LEMMA ReleaseKeeps ==
  ASSUME ObInv, td_discovery_release
  PROVE  ObInv'
  <1>1. ObTypes /\ RegInv(obj, again) /\ IsComputer(computer) /\ DescIs(obj, desc, aborted, noMemory)
    BY DEF ObInv
  <1>2. calls' \in 0 .. MaxCalls /\ UNCHANGED <<computer, noMemory>>
    BY <1>1, ObAssumption DEF td_discovery_release, Keep, Keep0, Call, ObTypes
  <1>3. /\ obj' = [c \in Classes |-> Empty] /\ td_errno' = "SUCCESS"
        /\ desc' = (desc /\ (~obj["DISK"].held \/ obj["DISK"].pddm = <<>>))
        /\ seen' = [c \in Classes |-> <<>>] /\ moved' = {} /\ again' = FALSE /\ UNCHANGED aborted
    BY DEF td_discovery_release
  <1>4. ObTypes'
    <2>1. desc' \in BOOLEAN
      BY <1>3
    <2>2. seen' \in [Classes -> Seq(Seq(Nat))]
      BY <1>3
    <2>3. QED
      BY <1>1, <1>2, <1>3, <2>1, <2>2 DEF ObTypes
  <1> DEFINE p == [c \in Classes |-> Empty]
  <1>5. RegInv(p, FALSE) /\ \A c \in Classes : p[c].cur = 0 /\ ~p[c].held
    BY EmptyIs
  <1> HIDE DEF p
  <1>6. SeenIs(p, seen', moved')
    BY <1>3, <1>5, PassedIs DEF SeenIs
  <1>7. DescIs(p, desc', aborted', noMemory')
    <2>1. desc' => ~obj["DISK"].held \/ Handles("DISK") = <<>>
      <3> SUFFICES ASSUME obj["DISK"].held, obj["DISK"].pddm = <<>> PROVE Handles("DISK") = <<>>
        BY <1>3
      <3> DEFINE l == obj["DISK"]
      <3>1. ClassIs("DISK", l) /\ l.held /\ l.pddm = <<>> /\ "DISK" \in Listed
        BY <1>1, DiskIn DEF RegInv, Classes, Listed
      <3> HIDE DEF l
      <3>2. l.pddm \in Seq(Nodes("DISK")) /\ Handed("DISK", l.pddm)
        BY <3>1 DEF ClassIs, ListIs, Lists
      <3>3. l.pddm = Handles("DISK")
        BY <1>1, <3>1, <3>2, HeldAre
      <3>4. QED
        BY <3>1, <3>3
    <2>2. QED
      BY <1>1, <1>2, <1>3, <2>1 DEF DescIs
  <1>8. RegInv(obj', again') /\ SeenIs(obj', seen', moved') /\ DescIs(obj', desc', aborted', noMemory')
    BY <1>3, <1>5, <1>6, <1>7 DEF p
  <1>9. QED
    BY <1>2, <1>4, <1>8, InvNext

(* A call that leaves the cursors and may have the disks sorted.            *)
LEMMA MovedOn ==
  ASSUME ObInv, Keep, UNCHANGED again, NEW o, obj' = o, RegInv(o, again), NEW r, r["DISK"] = o["DISK"], TakesDrives(r), SortsDisks(r),
         obj["DISK"].held => o["DISK"].held,
         \/ Passed(o["DISK"]) = Passed(obj["DISK"])
         \/ ~obj["DISK"].issorted /\ obj["DISK"].cur # 0 /\ o["DISK"].issorted,
         seen'["DISK"] = seen["DISK"], seen' \in [Classes -> Seq(Seq(Nat))],
         \A c \in Classes : c # "DISK" =>
           (seen'[c] = seen[c] /\ Passed(o[c]) = Passed(obj[c])) \/ seen'[c] = Passed(o[c]),
         td_errno' \in {"SUCCESS", "END", "NO_DEVICE", "INVALID_ARG"}
  PROVE  ObInv'
  <1>1. ObTypes /\ RegInv(obj, again) /\ SeenIs(obj, seen, moved) /\ "DISK" \in Classes
    BY DEF ObInv, Classes
  <1>2. calls' \in 0 .. MaxCalls /\ UNCHANGED <<computer, noMemory>>
    BY <1>1, ObAssumption DEF Keep, Keep0, Call, ObTypes
  <1>3. moved \subseteq moved' /\ moved' \subseteq moved \cup {"DISK"}
    BY DEF SortsDisks, Moved
  <1>4. ~obj["DISK"].issorted /\ obj["DISK"].cur # 0 /\ o["DISK"].issorted => "DISK" \in moved'
    BY DEF SortsDisks, Moved
  <1>5. SeenIs(o, seen', moved')
    <2>1. ASSUME NEW c \in Classes, c \notin moved' PROVE seen'[c] = Passed(o[c])
      <3>1. seen[c] = Passed(obj[c])
        BY <1>1, <1>3, <2>1 DEF SeenIs
      <3>2. CASE c = "DISK"
        BY <1>4, <2>1, <3>1, <3>2
      <3>3. CASE c # "DISK"
        BY <3>1, <3>3
      <3>4. QED
        BY <3>2, <3>3
    <2>2. QED
      BY <2>1 DEF SeenIs
  <1>6. DescIs(r, desc', aborted', noMemory) /\ desc' \in BOOLEAN /\ aborted' \in BOOLEAN
    BY TakesIs
  <1>7. DescIs(o, desc', aborted', noMemory')
    BY <1>2, <1>6 DEF DescIs
  <1>8. ObTypes'
    BY <1>1, <1>2, <1>3, <1>6 DEF ObTypes
  <1>9. RegInv(obj', again') /\ SeenIs(obj', seen', moved') /\ DescIs(obj', desc', aborted', noMemory')
    BY <1>5, <1>7
  <1>10. QED
    BY <1>2, <1>8, <1>9, InvNext

LEMMA LookKeeps ==
  ASSUME ObInv, NEW class \in Classes, td_attributes_get(class)
  PROVE  ObInv'
  <1>1. /\ ObTypes /\ RegInv(obj, again) /\ SeenIs(obj, seen, moved) /\ DescIs(obj, desc, aborted, noMemory) /\ IsComputer(computer)
        /\ "DISK" \in Classes /\ again \in BOOLEAN /\ IsReg(obj)
    BY DEF ObInv, ObTypes, RegInv, Classes
  <1>2. Keep /\ UNCHANGED <<seen, again>>
    BY DEF td_attributes_get
  <1>3. CASE obj[class].cur = 0
    <2>1. td_errno' = "END" /\ UNCHANGED <<obj, desc, aborted, moved>>
      BY <1>3 DEF td_attributes_get
    <2>2. calls' \in 0 .. MaxCalls /\ UNCHANGED <<computer, noMemory>>
      BY <1>1, <1>2, ObAssumption DEF Keep, Keep0, Call, ObTypes
    <2>3. ObTypes'
      BY <1>1, <1>2, <2>1, <2>2 DEF ObTypes
    <2>4. RegInv(obj', again') /\ SeenIs(obj', seen', moved') /\ DescIs(obj', desc', aborted', noMemory')
      BY <1>1, <1>2, <2>1, <2>2
    <2>5. QED
      BY <2>2, <2>3, <2>4, InvNext
  <1>4. CASE obj[class].cur # 0
    <2> DEFINE o == Looked(obj, class)
    <2>1. obj' = o /\ TakesDrives(o) /\ SortsDisks(o) /\ td_errno' = LookErrno(obj, class)
      BY <1>4 DEF td_attributes_get
    <2>2. RegInv(o, again)
      BY <1>1, <1>4, LookedKeeps
    <2> DEFINE l == obj[class]
    <2>3. /\ \A x \in Classes : x # class /\ x # "DISK" => o[x] = obj[x]
          /\ class # "DISK" => o["DISK"] = obj["DISK"] \/ o["DISK"] = DiskReady(obj["DISK"])
          /\ o[class] = [pddm |-> l.pddm, held |-> l.held, arr |-> o[class].arr, built |-> l.built,
                               cnt |-> l.cnt, cur |-> l.cur, issorted |-> l.issorted]
          /\ \A i \in DOMAIN l.arr : o[class].arr[i].handle = l.arr[i].handle
      BY <1>1, <1>4, LookedIs
    <2>4. l.cur \in Nat /\ l.cur <= Len(l.arr) /\ DOMAIN l.arr = 1 .. Len(l.arr) /\ Len(l.arr) \in Nat
      BY <1>1, DiskIn
    <2> HIDE DEF o
    <2>5. Passed(o[class]) = Passed(obj[class]) /\ o[class].held = obj[class].held
      <3> HIDE DEF l
      <3> DEFINE m == o[class]
      <3>1. m.cur = l.cur /\ m.held = l.held /\ \A i \in 1 .. l.cur : m.arr[i].handle = l.arr[i].handle
        BY <2>3, <2>4
      <3> HIDE DEF m
      <3>2. Passed(m) = Passed(l)
        BY <2>4, <3>1, PassedIs
      <3>3. QED
        BY <3>1, <3>2 DEF m, l
    <2>6. /\ obj["DISK"].held => o["DISK"].held
          /\ \/ Passed(o["DISK"]) = Passed(obj["DISK"])
             \/ ~obj["DISK"].issorted /\ obj["DISK"].cur # 0 /\ o["DISK"].issorted
      <3>1. CASE class = "DISK"
        BY <2>5, <3>1
      <3>2. CASE class # "DISK"
        BY <1>1, <2>3, <3>2, DiskPassed
      <3>3. QED
        BY <3>1, <3>2
    <2>7. \A c \in Classes : c # "DISK" => Passed(o[c]) = Passed(obj[c])
      BY <2>3, <2>5
    <2>8. td_errno' \in {"SUCCESS", "END", "NO_DEVICE", "INVALID_ARG"}
      BY <2>1 DEF LookErrno
    <2>9. seen' \in [Classes -> Seq(Seq(Nat))]
      BY <1>1, <1>2 DEF ObTypes
    <2>10. QED
      BY <1>2, <2>1, <2>2, <2>6, <2>7, <2>8, <2>9, MovedOn
  <1>5. QED
    BY <1>3, <1>4

LEMMA ChangeKeeps ==
  ASSUME ObInv, ChangeOs
  PROVE  ObInv'
  <1>1. PICK i \in DOMAIN computer.slices : computer' = [computer EXCEPT !.slices[i].os = ~@]
    BY DEF ChangeOs
  <1>2. UNCHANGED <<obj, desc, aborted, td_errno, list, seen, moved, again, noMemory>> /\ Call
    BY DEF ChangeOs
  <1>3. /\ IsComputer(computer)'
        /\ \A c \in Listed : \A hs \in Seq(Nodes(c)) : Handed(c, hs) => Handed(c, hs)'
        /\ \A c \in Listed : \A h : Attributes(c, h)' = Attributes(c, h)
        /\ Handles("DISK")' = Handles("DISK")
        /\ DiskNames' = DiskNames /\ (Begins' <=> Begins)
    BY <1>1, SystemChanges DEF ObInv
  <1>4. \A h, a : Lost(h, a) => Lost(h, a)'
    BY <1>3 DEF Lost
  <1>5. RegInv(obj', again')
    BY <1>2 DEF ObInv
  <1>6. RegInv(obj, again)'
    BY <1>3, <1>4, <1>5, RegNext
  <1>7. ObTypes'
    BY <1>2, ObAssumption DEF ObInv, ObTypes, Call
  <1>8. SeenIs(obj, seen, moved)'
    BY <1>2 DEF ObInv, SeenIs
  <1>9. DescIs(obj, desc, aborted, noMemory)'
    BY <1>2, <1>3 DEF ObInv, DescIs
  <1>10. QED
    BY <1>3, <1>6, <1>7, <1>8, <1>9 DEF ObInv

Own(class) == IF Ready(obj)[class].built THEN Ready(obj) ELSE Rebuilt(Ready(obj), class)
LEMMA OwnIs ==
  ASSUME ObInv, NEW class \in {"PARTITION", "SLICE"}
  PROVE  /\ RegInv(Ready(obj), again) /\ RegInv(Own(class), again) /\ RegInv(Fills(Own(class), class), again)
         /\ \A d \in Classes : d # class => Fills(Own(class), class)[d] = Ready(obj)[d]
         /\ \A d \in Classes : d # "DISK" => Ready(obj)[d] = obj[d]
         /\ Ready(obj)["DISK"] = DiskReady(obj["DISK"])
         /\ Fills(Own(class), class)[class] = Filled(class, Own(class)[class]) /\ ClassIs(class, Own(class)[class])
         /\ Own(class)[class].built
         /\ Own(class)[class] = IF obj[class].built THEN obj[class] ELSE Remade(class, obj[class])
  <1> DEFINE r == Ready(obj)
             b == Own(class)
  <1>1. IsComputer(computer) /\ RegInv(obj, again) /\ again \in BOOLEAN /\ IsReg(obj)
    BY DEF ObInv, ObTypes, RegInv
  <1>2. class \in Listed /\ class \in Classes /\ class # "DISK"
    BY DEF Listed, Classes
  <1>3. RegInv(r, again) /\ r["DISK"] = DiskReady(obj["DISK"]) /\ \A d \in Classes : d # "DISK" => r[d] = obj[d]
    BY <1>1, ReadyKeeps, ReadyIs
  <1> HIDE DEF r
  <1>4. /\ Rebuilt(r, class)[class] = Remade(class, r[class]) /\ RegInv(Rebuilt(r, class), again)
        /\ \A d \in Classes : d # class => Rebuilt(r, class)[d] = r[d]
    <2>1. again \/ (class = "DISK" /\ r["DISK"].issorted) <=> again
      BY <1>2
    <2>2. RegInv(Rebuilt(r, class), again \/ (class = "DISK" /\ r["DISK"].issorted))
      BY <1>1, <1>2, <1>3, RebuiltKeeps
    <2>3. (again \/ (class = "DISK" /\ r["DISK"].issorted)) = again
      BY <1>1, <1>2
    <2>4. RegInv(Rebuilt(r, class), again)
      BY <2>2, <2>3
    <2>5. QED
      BY <1>1, <1>2, <1>3, <2>4, RebuiltIs DEF RegInv
  <1>5. b = IF r[class].built THEN r ELSE Rebuilt(r, class)
    BY DEF Own, r
  <1> HIDE DEF b
  <1>6. RegInv(b, again) /\ (\A d \in Classes : d # class => b[d] = r[d])
    BY <1>3, <1>4, <1>5
  <1>7. r[class] = obj[class]
    BY <1>2, <1>3
  <1>8. b[class] = IF obj[class].built THEN obj[class] ELSE Remade(class, obj[class])
    BY <1>4, <1>5, <1>7
  <1>9. /\ RegInv(Fills(b, class), again)
        /\ Fills(b, class)[class] = Filled(class, b[class])
        /\ \A d \in Classes : d # class => Fills(b, class)[d] = b[d]
    BY <1>1, <1>2, <1>6, FillsKeep, FillsIs DEF RegInv
  <1> DEFINE l == obj[class]
  <1>10. ClassIs(class, l)
    BY <1>1, <1>2, DiskIn
  <1> HIDE DEF l
  <1>11. Remade(class, l).built /\ ClassIs(class, Remade(class, l))
    BY <1>1, <1>2, <1>10, RemadeIs
  <1>12. b[class].built /\ ClassIs(class, b[class])
    BY <1>8, <1>10, <1>11 DEF l
  <1>13. QED
    BY <1>3, <1>6, <1>8, <1>9, <1>12 DEF r, b

LEMMA OwnKeeps ==
  ASSUME ObInv, NEW class \in {"PARTITION", "SLICE"}, NEW disk, td_discover_object_by_disk(class, disk)
  PROVE  ObInv'
  <1> DEFINE r == Ready(obj)
             o == Fills(Own(class), class)
  <1>1. /\ ObTypes /\ RegInv(obj, again) /\ IsComputer(computer) /\ "DISK" \in Classes /\ again \in BOOLEAN /\ IsReg(obj)
        /\ class \in Classes /\ class \in Listed /\ class # "DISK"
    BY DEF ObInv, ObTypes, RegInv, Classes, Listed
  <1>2. Keep /\ UNCHANGED again /\ TakesDrives(r) /\ SortsDisks(r)
    BY DEF td_discover_object_by_disk
  <1>3. /\ RegInv(r, again) /\ RegInv(o, again)
        /\ \A d \in Classes : d # class => o[d] = r[d]
        /\ \A d \in Classes : d # "DISK" => r[d] = obj[d]
        /\ r["DISK"] = DiskReady(obj["DISK"])
        /\ o[class] = Filled(class, Own(class)[class]) /\ ClassIs(class, Own(class)[class])
        /\ Own(class)[class] = IF obj[class].built THEN obj[class] ELSE Remade(class, obj[class])
    BY OwnIs
  <1>4. \/ obj' = r /\ td_errno' = "NO_DEVICE" /\ UNCHANGED seen
        \/ /\ obj' = o /\ td_errno' = "SUCCESS"
           /\ seen' = IF r[class].built THEN seen ELSE [seen EXCEPT ![class] = <<>>]
    BY DEF td_discover_object_by_disk, Own, Fills
  <1> HIDE DEF r, o
  <1>5. /\ \/ Passed(r["DISK"]) = Passed(obj["DISK"])
           \/ ~obj["DISK"].issorted /\ obj["DISK"].cur # 0 /\ r["DISK"].issorted
        /\ obj["DISK"].held => r["DISK"].held
    BY <1>1, <1>3, DiskPassed
  <1>6. CASE obj' = r /\ td_errno' = "NO_DEVICE" /\ UNCHANGED seen
    <2>1. seen' \in [Classes -> Seq(Seq(Nat))]
      BY <1>1, <1>6 DEF ObTypes
    <2>2. QED
      BY <1>2, <1>3, <1>5, <1>6, <2>1, MovedOn
  <1>7. CASE /\ obj' = o /\ td_errno' = "SUCCESS"
             /\ seen' = IF r[class].built THEN seen ELSE [seen EXCEPT ![class] = <<>>]
    <2>1. seen' \in [Classes -> Seq(Seq(Nat))] /\ \A c \in Classes : c # class => seen'[c] = seen[c]
      BY <1>1, <1>7 DEF ObTypes
    <2>2. o["DISK"] = r["DISK"] /\ seen'["DISK"] = seen["DISK"]
      BY <1>1, <1>3, <2>1
    <2>3. (seen'[class] = seen[class] /\ Passed(o[class]) = Passed(obj[class])) \/ seen'[class] = Passed(o[class])
      <3> DEFINE l == obj[class]
                 b == Own(class)[class]
      <3>1. /\ ClassIs(class, l) /\ l.cur \in Nat /\ l.cur <= Len(l.arr) /\ DOMAIN l.arr = 1 .. Len(l.arr) /\ Len(l.arr) \in Nat
            /\ ClassIs(class, b) /\ b = (IF l.built THEN l ELSE Remade(class, l)) /\ o[class] = Filled(class, b)
            /\ r[class] = l
        BY <1>1, <1>3, DiskIn
      <3> HIDE DEF l, b
      <3>2. /\ Filled(class, b) = [pddm |-> b.pddm, held |-> b.held, arr |-> Filled(class, b).arr, built |-> b.built, cnt |-> b.cnt,
                                   cur |-> b.cur, issorted |-> b.issorted]
            /\ \A i \in DOMAIN b.arr : Filled(class, b).arr[i].handle = b.arr[i].handle
        BY <1>1, <3>1, FilledIs
      <3>3. Filled(class, b).cur = b.cur
        BY <3>2
      <3>4. CASE l.built
        <4>1. b = l
          BY <3>1, <3>4
        <4> DEFINE m == Filled(class, b)
        <4>2. m.cur = l.cur /\ \A i \in 1 .. l.cur : m.arr[i].handle = l.arr[i].handle
          BY <3>1, <3>2, <3>3, <4>1
        <4> HIDE DEF m
        <4>3. Passed(m) = Passed(l)
          BY <3>1, <4>2, PassedIs
        <4>4. QED
          BY <1>7, <3>1, <3>4, <4>3 DEF m, l
      <3>5. CASE ~l.built
        <4>1. b.cur = 0
          BY <1>1, <3>1, <3>5, RemadeIs
        <4>2. Passed(o[class]) = <<>>
          BY <3>1, <3>3, <4>1, PassedIs
        <4>3. seen'[class] = <<>>
          BY <1>1, <1>7, <3>1, <3>5 DEF ObTypes
        <4>4. QED
          BY <4>2, <4>3
      <3>6. QED
        BY <3>4, <3>5
    <2>4. \A c \in Classes : c # "DISK" =>
           (seen'[c] = seen[c] /\ Passed(o[c]) = Passed(obj[c])) \/ seen'[c] = Passed(o[c])
      BY <1>3, <2>1, <2>3
    <2>5. QED
      BY <1>2, <1>3, <1>5, <1>7, <2>1, <2>2, <2>4, MovedOn
  <1>8. QED
    BY <1>4, <1>6, <1>7

LEMMA ListKeeps ==
  ASSUME ObInv, NEW class \in {"DISK", "SLICE"}, NEW vendor, td_discover_get_attribute_list(class, vendor)
  PROVE  ObInv'
  <1> DEFINE b == Rebuilt(obj, class)
             w == Walked(b, class)
             l == obj[class]
  <1>1. /\ ObTypes /\ RegInv(obj, again) /\ IsComputer(computer) /\ "DISK" \in Classes /\ again \in BOOLEAN /\ IsReg(obj)
        /\ SeenIs(obj, seen, moved) /\ class \in Classes /\ class \in Listed
    BY DEF ObInv, ObTypes, RegInv, Classes, Listed
  <1>2. /\ Keep /\ obj' = w /\ TakesDrives(w) /\ td_errno' = "SUCCESS"
        /\ seen' = [seen EXCEPT ![class] = <<>>]
        /\ moved' = moved \cup {class} \cup (IF ~obj["DISK"].issorted /\ obj["DISK"].cur # 0 THEN {"DISK"} ELSE {})
        /\ again' = (again \/ (class = "DISK" /\ obj["DISK"].issorted))
    BY DEF td_discover_get_attribute_list
  <1>3. again' \in BOOLEAN
    BY <1>2
  <1>4. RegInv(b, again')
    BY <1>1, <1>2, RebuiltKeeps
  <1>5. b[class] = Remade(class, l) /\ \A d \in Classes : d # class => b[d] = obj[d]
    BY <1>1, RebuiltIs
  <1> HIDE DEF b, w
  <1>6. ClassIs(class, l) /\ l.issorted \in BOOLEAN
    BY <1>1, DiskIn
  <1> HIDE DEF l
  <1>7. /\ InPlace(Remade(class, l)) /\ Remade(class, l).held /\ Remade(class, l).issorted = l.issorted
        /\ \A i \in DOMAIN Remade(class, l).arr : ~Remade(class, l).arr[i].done
    BY <1>1, <1>6, RemadeIs
  <1>8. class = "DISK" => again' = b[class].issorted
    <2>1. again => obj["DISK"].issorted
      BY <1>1 DEF RegInv, SortIs
    <2>2. class = "DISK" => again' = l.issorted
      BY <1>1, <1>2, <1>6, <2>1 DEF l
    <2>3. QED
      BY <1>5, <1>7, <2>2
  <1>9. class = "DISK" => (\A i \in DOMAIN b[class].arr : ~b[class].arr[i].done) /\ InPlace(b[class]) /\ again' = b[class].issorted
    BY <1>5, <1>7, <1>8
  <1>10. RegInv(w, again')
    <2> DEFINE a == again'
    <2>1. a \in BOOLEAN /\ RegInv(b, a)
      BY <1>3, <1>4
    <2>2. class = "DISK" => (\A i \in DOMAIN b[class].arr : ~b[class].arr[i].done) /\ InPlace(b[class]) /\ a = b[class].issorted
      BY <1>9
    <2> HIDE DEF a
    <2>3. RegInv(Walked(b, class), a)
      BY <1>1, <2>1, <2>2, WalkedKeeps
    <2>4. QED
      BY <2>3 DEF a, w
  <1>11. /\ \A x \in Classes : x # class /\ x # "DISK" => w[x] = b[x]
         /\ class # "DISK" => w["DISK"] = b["DISK"] \/ w["DISK"] = DiskReady(b["DISK"])
         /\ w[class] = [pddm |-> b[class].pddm, held |-> b[class].held, arr |-> w[class].arr, built |-> b[class].built,
                        cnt |-> b[class].cnt, cur |-> Len(b[class].arr), issorted |-> b[class].issorted]
    BY <1>1, <1>4, WalkedIs DEF RegInv, w
  <1>12. /\ obj["DISK"].held => w["DISK"].held
         /\ class # "DISK" => \/ Passed(w["DISK"]) = Passed(obj["DISK"])
                              \/ ~obj["DISK"].issorted /\ obj["DISK"].cur # 0
    <2>1. CASE class = "DISK"
      <3>1. w[class].held = b[class].held
        BY <1>11
      <3>2. QED
        BY <1>5, <1>7, <2>1, <3>1
    <2>2. CASE class # "DISK"
      <3>1. w["DISK"] = obj["DISK"] \/ w["DISK"] = DiskReady(obj["DISK"])
        BY <1>1, <1>5, <1>11, <2>2
      <3>2. QED
        BY <1>1, <3>1, DiskPassed
    <2>3. QED
      BY <2>1, <2>2
  <1>13. SeenIs(w, seen', moved')
    <2>1. ASSUME NEW c \in Classes, c \notin moved' PROVE seen'[c] = Passed(w[c])
      <3>1. c # class /\ c \notin moved /\ seen'[c] = seen[c]
        BY <1>1, <1>2, <2>1 DEF ObTypes
      <3>2. seen[c] = Passed(obj[c])
        BY <1>1, <3>1 DEF SeenIs
      <3>3. CASE c = "DISK"
        BY <1>2, <1>12, <2>1, <3>1, <3>2, <3>3
      <3>4. CASE c # "DISK"
        BY <1>5, <1>11, <3>1, <3>2, <3>4
      <3>5. QED
        BY <3>3, <3>4
    <2>2. QED
      BY <2>1 DEF SeenIs
  <1>14. DescIs(w, desc', aborted', noMemory) /\ desc' \in BOOLEAN /\ aborted' \in BOOLEAN
    BY <1>2, <1>12, TakesIs
  <1>15. calls' \in 0 .. MaxCalls /\ UNCHANGED <<computer, noMemory>>
    BY <1>1, <1>2, ObAssumption DEF Keep, Keep0, Call, ObTypes
  <1>16. seen' \in [Classes -> Seq(Seq(Nat))] /\ moved' \subseteq Classes
    BY <1>1, <1>2 DEF ObTypes
  <1>17. ObTypes'
    BY <1>1, <1>2, <1>3, <1>14, <1>15, <1>16 DEF ObTypes
  <1>18. RegInv(obj', again') /\ SeenIs(obj', seen', moved') /\ DescIs(obj', desc', aborted', noMemory')
    BY <1>2, <1>10, <1>13, <1>14, <1>15
  <1>19. QED
    BY <1>15, <1>17, <1>18, InvNext

LEMMA RegistryStarts == ASSUME ObInit PROVE ObInv
  <1>1. computer \in Computers /\ obj = [c \in Classes |-> Empty] /\ desc = FALSE /\ aborted = FALSE /\ again = FALSE
    BY DEF ObInit
  <1>2. IsComputer(computer)
    BY <1>1, ObAssumption
  <1>3. ObTypes
    <2>1. [c \in Classes |-> <<>>] \in [Classes -> Seq(Seq(Nat))]
      OBVIOUS
    <2>2. seen \in [Classes -> Seq(Seq(Nat))]
      BY <2>1 DEF ObInit
    <2>3. calls \in 0 .. MaxCalls
      BY ObAssumption DEF ObInit
    <2>4. QED
      BY <2>2, <2>3 DEF ObInit, ObTypes
  <1>4. RegInv(obj, FALSE) /\ \A c \in Classes : obj[c].cur = 0 /\ ~obj[c].held
    BY <1>1, EmptyIs
  <1>5. SeenIs(obj, seen, moved)
    BY <1>4, PassedIs DEF ObInit, SeenIs
  <1>6. QED
    BY <1>1, <1>2, <1>3, <1>4, <1>5 DEF ObInv, DescIs

LEMMA RegistryGoesOn == ASSUME ObInv, [ObNext]_obVars PROVE ObInv'
  <1>1. CASE UNCHANGED obVars
    <2>1. UNCHANGED computer /\ ObTypes'
      BY <1>1 DEF obVars, ObInv, ObTypes
    <2>2. RegInv(obj', again') /\ SeenIs(obj', seen', moved') /\ DescIs(obj', desc', aborted', noMemory')
      BY <1>1 DEF obVars, ObInv
    <2>3. QED
      BY <2>1, <2>2, InvNext
  <1>2. ASSUME NEW class \in Classes, td_discover(class) PROVE ObInv'
    BY <1>2, DiscoverKeeps
  <1>3. ASSUME NEW class \in Classes, td_get_next(class) PROVE ObInv'
    BY <1>3, NextKeeps
  <1>4. ASSUME NEW class \in Classes, td_reset(class) PROVE ObInv'
    BY <1>4, ResetKeeps
  <1>5. ASSUME NEW class \in Classes, td_attributes_get(class) PROVE ObInv'
    BY <1>5, LookKeeps
  <1>6. ASSUME NEW class \in {"PARTITION", "SLICE"}, NEW disk \in DiskNames, td_discover_object_by_disk(class, disk) PROVE ObInv'
    BY <1>6, OwnKeeps
  <1>7. ASSUME NEW class \in {"DISK", "SLICE"}, NEW vendor \in {"any", "acme"}, td_discover_get_attribute_list(class, vendor)
        PROVE ObInv'
    BY <1>7, ListKeeps
  <1>8. ASSUME td_discovery_release PROVE ObInv'
    BY <1>8, ReleaseKeeps
  <1>9. ASSUME ChangeOs PROVE ObInv'
    BY <1>9, ChangeKeeps
  <1>10. QED
    BY <1>1, <1>2, <1>3, <1>4, <1>5, <1>6, <1>7, <1>8, <1>9 DEF ObNext, ObOver

(* For every computer, number of calls and failure: the lists of td_mg.c     *)
(* hold what libdiskmgt handed out, the disks in order once they are        *)
(* sorted, and what td_get_next has been through is what the cursor passed. *)
THEOREM RegistryHolds == ObSpec => []ObInv
  <1>1. ObInit => ObInv
    BY RegistryStarts
  <1>2. ObInv /\ [ObNext]_obVars => ObInv'
    BY RegistryGoesOn
  <1>3. QED
    BY <1>1, <1>2, PTL DEF ObSpec

-----------------------------------------------------------------------------
(* What the invariant says of disks, the boot disk, counters and searches.  *)
(* A boot device's name without its partition or slice.                     *)
LEMMA FirstIs ==
  ASSUME NEW s \in Seq(Nat), NEW x, NEW k \in DOMAIN s, s[k] = x, \A i \in DOMAIN s : i < k => s[i] # x
  PROVE  FirstOf(s, x) = k
  <1>1. DOMAIN s = 1..Len(s) /\ Len(s) \in Nat
    OBVIOUS
  <1>2. s[k] = x /\ \A j \in 1 .. k - 1 : s[j] # x
    BY <1>1
  <1>3. \A i \in DOMAIN s : s[i] = x /\ (\A j \in 1 .. i - 1 : s[j] # x) => i = k
    BY <1>1
  <1>4. QED
    BY <1>2, <1>3 DEF FirstOf

LEMMA LastIs ==
  ASSUME NEW s \in Seq(Nat), NEW x, NEW k \in DOMAIN s, s[k] = x, \A i \in DOMAIN s : i > k => s[i] # x
  PROVE  LastOf(s, x) = k
  <1>1. DOMAIN s = 1..Len(s) /\ Len(s) \in Nat
    OBVIOUS
  <1>2. s[k] = x /\ \A j \in DOMAIN s : s[j] = x => j <= k
    BY <1>1
  <1>3. \A i \in DOMAIN s : s[i] = x /\ (\A j \in DOMAIN s : s[j] = x => j <= i) => i = k
    BY <1>1
  <1>4. x \in ToSet(s)
    BY DEF ToSet
  <1>5. QED
    BY <1>2, <1>3, <1>4 DEF LastOf

LEMMA NumberedIs ==
  ASSUME NEW s \in Seq(Nat), NEW b \in Names, NEW letter \in {LetterP, LetterS}, Numbered(s, b, letter)
  PROVE  /\ Len(b) \in Nat /\ Len(b) > 0 /\ Len(b) + 1 < Len(s) /\ Len(s) \in Nat /\ DOMAIN s = 1..Len(s)
         /\ s[Len(b) + 1] = letter /\ Len(b) + 1 \in DOMAIN s
         /\ \A i \in DOMAIN s : i # Len(b) + 1 => s[i] < 20
         /\ \A i \in Len(b) + 2 .. Len(s) : s[i] \in Digits
         /\ FirstOf(s, letter) = Len(b) + 1 /\ LastOf(s, letter) = Len(b) + 1
         /\ SubSeq(s, 1, Len(b)) = b
  <1>1. /\ Len(b) \in Nat /\ Len(b) > 0 /\ DOMAIN b = 1..Len(b) /\ (\A i \in 1..Len(b) : b[i] \in Int /\ b[i] < 20)
        /\ b \in Seq(Nat)
    <2>1. b \in Seq(Nat)
      BY NamesAre
    <2>2. QED
      BY <2>1, NamesAre
  <1>2. /\ Len(b) + 1 < Len(s) /\ s[Len(b) + 1] = letter /\ \A i \in DOMAIN b : s[i] = b[i]
        /\ \A i \in Len(b) + 2 .. Len(s) : s[i] \in Digits
    BY DEF Numbered
  <1>3. Len(s) \in Nat /\ DOMAIN s = 1..Len(s) /\ \A i \in 1..Len(s) : s[i] \in Nat
    OBVIOUS
  <1>4. \A i \in DOMAIN s : i # Len(b) + 1 => s[i] < 20
    <2> SUFFICES ASSUME NEW i \in DOMAIN s, i # Len(b) + 1 PROVE s[i] < 20
      OBVIOUS
    <2>1. i \in 1..Len(b) \/ i \in Len(b) + 2 .. Len(s)
      <3>1. i \in 1..Len(s)
        BY <1>3
      <3>2. QED
        BY <1>1, <1>3, <3>1
    <2>2. CASE i \in 1..Len(b)
      <3>1. s[i] = b[i] /\ b[i] < 20
        BY <1>1, <1>2, <2>2
      <3>2. QED
        BY <3>1
    <2>3. CASE i \in Len(b) + 2 .. Len(s)
      <3>1. s[i] \in Digits
        BY <1>2, <2>3
      <3>2. QED
        BY <3>1 DEF Digits
    <2>4. QED
      BY <2>1, <2>2, <2>3
  <1>5. letter >= 20 /\ letter \in Nat
    BY DEF LetterP, LetterS
  <1>6. Len(b) + 1 \in DOMAIN s
    BY <1>1, <1>2, <1>3
  <1>7. \A i \in DOMAIN s : i # Len(b) + 1 => s[i] # letter
    BY <1>3, <1>4, <1>5
  <1> DEFINE k == Len(b) + 1
  <1>8. k \in DOMAIN s /\ s[k] = letter /\ k \in Nat /\ \A i \in DOMAIN s : i # k => s[i] # letter
    BY <1>1, <1>2, <1>6, <1>7
  <1> HIDE DEF k
  <1>9. FirstOf(s, letter) = k /\ LastOf(s, letter) = k
    <2>1. \A i \in DOMAIN s : (i < k => i # k) /\ (i > k => i # k)
      BY <1>3, <1>8
    <2>2. \A i \in DOMAIN s : (i < k => s[i] # letter) /\ (i > k => s[i] # letter)
      BY <1>8, <2>1
    <2>3. FirstOf(s, letter) = k
      BY <1>8, <2>2, FirstIs
    <2>4. LastOf(s, letter) = k
      BY <1>8, <2>2, LastIs
    <2>5. QED
      BY <2>3, <2>4
  <1>10. SubSeq(s, 1, Len(b)) = b
    <2> DEFINE n == Len(b)
    <2>1. n \in Nat /\ n <= Len(s)
      BY <1>1, <1>2, <1>3
    <2>2. SubSeq(s, 1, n) = [i \in 1..n |-> s[i]]
      BY <1>3, <2>1
    <2>3. b = [i \in 1..n |-> b[i]]
      BY <1>1, SeqIs
    <2>4. [i \in 1..n |-> s[i]] = [i \in 1..n |-> b[i]]
      BY <1>1, <1>2
    <2>5. QED
      BY <2>2, <2>3, <2>4
  <1>11. QED
    BY <1>1, <1>2, <1>3, <1>4, <1>6, <1>9, <1>10 DEF k

LEMMA NoPartition ==
  ASSUME NEW s, \A i \in DOMAIN s : s[i] # LetterP
  PROVE  ~ddm_is_part_name(s)
  <1>1. LetterP \notin ToSet(s)
    BY DEF ToSet
  <1>2. LastOf(s, LetterP) = 0
    BY <1>1 DEF LastOf
  <1>3. QED
    BY <1>2 DEF ddm_is_part_name

LEMMA BareIs ==
  ASSUME NEW c, NEW s \in Seq(Nat), c.booted \in Names, Booted(c, s)
  PROVE  Bare(s) = c.booted
  <1> DEFINE b == c.booted
  <1>0. Len(s) \in Nat /\ DOMAIN s = 1..Len(s)
    OBVIOUS
  <1> HIDE DEF b
  <1>1. CASE s = b
    <2>1. \A i \in 1..Len(s) : s[i] \in Int /\ s[i] < 20
      BY <1>1, NamesAre DEF b
    <2>2. ~ddm_is_part_name(s)
      BY <1>0, <2>1, NoPartition DEF LetterP
    <2>3. ~ddm_is_slice_name(s)
      <3>1. \A i \in 1..Len(s) : s[i] # LetterS
        BY <2>1 DEF LetterS
      <3>2. (Len(s) > 2 => Len(s) - 1 \in 1..Len(s)) /\ (Len(s) > 3 => Len(s) - 2 \in 1..Len(s))
        BY <1>0
      <3>3. QED
        BY <3>1, <3>2 DEF ddm_is_slice_name
    <2>4. QED
      BY <1>1, <2>2, <2>3 DEF Bare, b
  <1>2. CASE Numbered(s, b, LetterP)
    <2>1. /\ LastOf(s, LetterP) = Len(b) + 1 /\ FirstOf(s, LetterP) = Len(b) + 1 /\ Len(b) \in Nat /\ Len(b) > 0
          /\ Len(b) + 1 < Len(s) /\ SubSeq(s, 1, Len(b)) = b /\ \A i \in Len(b) + 2 .. Len(s) : s[i] \in Digits
      BY <1>2, NumberedIs DEF b
    <2> DEFINE p == LastOf(s, LetterP)
    <2>2. p > 1 /\ p < Len(s) /\ \A i \in p + 1 .. Len(s) : s[i] \in Digits
      BY <2>1
    <2>3. ddm_is_part_name(s)
      BY <2>2 DEF ddm_is_part_name
    <2>4. FirstOf(s, LetterP) - 1 = Len(b)
      BY <2>1
    <2>5. QED
      BY <2>1, <2>3, <2>4 DEF Bare, b
  <1>3. CASE /\ Numbered(s, b, LetterS) /\ Len(s) <= Len(b) + 3
             /\ (Len(s) = Len(b) + 3 => s[Len(b) + 2] \in {0, 1})
    <2>1. /\ FirstOf(s, LetterS) = Len(b) + 1 /\ Len(b) \in Nat /\ Len(b) > 0 /\ s[Len(b) + 1] = LetterS
          /\ Len(b) + 1 < Len(s) /\ SubSeq(s, 1, Len(b)) = b /\ \A i \in Len(b) + 2 .. Len(s) : s[i] \in Digits
          /\ \A i \in DOMAIN s : i # Len(b) + 1 => s[i] < 20
      BY <1>3, NumberedIs DEF b
    <2>2. \A i \in DOMAIN s : s[i] # LetterP
      BY <2>1 DEF LetterP, LetterS
    <2>3. ~ddm_is_part_name(s)
      BY <2>2, NoPartition
    <2>4. Len(s) = Len(b) + 2 \/ Len(s) = Len(b) + 3
      <3>1. Len(s) <= Len(b) + 3 /\ Len(b) + 1 < Len(s) /\ Len(b) \in Nat /\ Len(s) \in Nat
        BY <1>0, <1>3, <2>1
      <3>2. QED
        BY <3>1
    <2>5. ddm_is_slice_name(s)
      <3>1. CASE Len(s) = Len(b) + 2
        <4>1. Len(s) - 1 = Len(b) + 1 /\ Len(s) > 2 /\ Len(s) \in Len(b) + 2 .. Len(s)
          BY <2>1, <3>1
        <4>2. QED
          BY <2>1, <4>1 DEF ddm_is_slice_name
      <3>2. CASE Len(s) = Len(b) + 3
        <4>1. /\ Len(s) - 2 = Len(b) + 1 /\ Len(s) - 1 = Len(b) + 2 /\ Len(s) > 3 /\ Len(s) \in Len(b) + 2 .. Len(s)
              /\ Len(b) + 2 \in Len(b) + 2 .. Len(s)
          BY <2>1, <3>2
        <4>2. QED
          BY <1>3, <2>1, <3>2, <4>1 DEF ddm_is_slice_name
      <3>3. QED
        BY <2>4, <3>1, <3>2
    <2>6. FirstOf(s, LetterS) - 1 = Len(b)
      BY <2>1
    <2>7. QED
      BY <2>1, <2>3, <2>5, <2>6 DEF Bare, b
  <1>4. QED
    BY <1>1, <1>2, <1>3 DEF Booted, b

LEMMA BootDiskIs ==
  ASSUME IsComputer(computer)
  PROVE  ddm_get_curr_bootdisk = computer.booted
  <1>1. CASE BootDisks(computer) = {}
    BY <1>1 DEF IsComputer, ddm_get_curr_bootdisk
  <1>2. CASE BootDisks(computer) # {}
    <2> DEFINE s == computer.boot[Min(BootDisks(computer))].name
    <2>1. computer.boot \in Seq(Boots) /\ computer.booted \in Names \cup {<<>>}
      BY DEF IsComputer
    <2>2. BootDisks(computer) \subseteq DOMAIN computer.boot
      BY DEF BootDisks
    <2>3. BootDisks(computer) \subseteq Nat
      BY <2>1, <2>2
    <2>4. Min(BootDisks(computer)) \in DOMAIN computer.boot
      BY <1>2, <2>2, <2>3, MinOf
    <2>5. computer.boot[Min(BootDisks(computer))] \in Boots
      BY <2>1, <2>4
    <2>6. s \in Seq(Nat)
      BY <2>5 DEF Boots
    <2>7. Booted(computer, s) /\ computer.booted \in Names
      BY <1>2, <2>1 DEF IsComputer
    <2>8. ddm_get_curr_bootdisk = Bare(s)
      BY <1>2 DEF ddm_get_curr_bootdisk
    <2> HIDE DEF s
    <2>9. QED
      BY <2>6, <2>7, <2>8, BareIs
  <1>3. QED
    BY <1>1, <1>2

LEMMA TypesRight == ObInv => ObTypeOK
  <1> SUFFICES ASSUME ObInv PROVE ObTypeOK
    OBVIOUS
  <1>1. ASSUME NEW c \in Classes PROVE obj[c].cur \in 0 .. Len(obj[c].arr) /\ (~obj[c].built => obj[c].arr = <<>>)
    <2>1. /\ ClassIs(c, obj[c]) /\ obj[c].cur \in Nat /\ obj[c].cur <= Len(obj[c].arr) /\ Len(obj[c].arr) \in Nat
      BY DiskIn DEF ObInv, RegInv
    <2>2. ~obj[c].built => obj[c].arr = <<>>
      BY <2>1 DEF ClassIs
    <2>3. QED
      BY <2>1, <2>2
  <1>2. QED
    BY <1>1 DEF ObInv, ObTypes, ObTypeOK

LEMMA MediaRight == ObInv => MediaIsNeverOffered
  <1> SUFFICES ASSUME ObInv, NEW i \in DOMAIN obj["DISK"].arr PROVE Offered(obj["DISK"].arr[i].handle)
    BY DEF MediaIsNeverOffered, Offered
  <1>1. Whole("DISK", obj["DISK"].arr[i].handle)
    BY DisksNamed DEF ObInv, RegInv
  <1>2. QED
    BY <1>1 DEF Whole

LEMMA BootRight == ObInv => BootDiskIsMarked
  <1> SUFFICES ASSUME ObInv, NEW i \in DOMAIN obj["DISK"].arr, obj["DISK"].arr[i].attrib # NoAttr
               PROVE  obj["DISK"].arr[i].attrib.boot <=> obj["DISK"].arr[i].attrib.name = computer.booted
    BY DEF BootDiskIsMarked
  <1> DEFINE l == obj["DISK"]
             e == l.arr[i]
  <1>1. ClassIs("DISK", l) /\ ddm_get_curr_bootdisk = computer.booted /\ "DISK" \in Listed
    BY DiskIn, BootDiskIs DEF ObInv, RegInv, Classes, Listed
  <1>2. i \in DOMAIN l.arr /\ e.attrib # NoAttr
    OBVIOUS
  <1> HIDE DEF l
  <1>3. Proper("DISK", e)
    BY <1>1, <1>2 DEF ClassIs, ListIs
  <1> HIDE DEF e
  <1>4. e.attrib = Attributes("DISK", e.handle)
    BY <1>2, <1>3 DEF Proper, EntryIs
  <1> DEFINE h == e.handle
  <1> HIDE DEF h
  <1>5. e.attrib = ddm_get_disk_attributes(h)
    BY <1>4 DEF Attributes, h
  <1>6. e.attrib.name = h.name /\ (e.attrib.boot <=> h.name = ddm_get_curr_bootdisk)
    <2> DEFINE b == h.name = ddm_get_curr_bootdisk
               x == IF h.loaded THEN h.label ELSE {}
    <2>1. e.attrib = [name |-> h.name, vendor |-> h.vendor, boot |-> b, label |-> x]
      BY <1>2, <1>5 DEF ddm_get_disk_attributes
    <2>2. b \in BOOLEAN
      OBVIOUS
    <2>3. b <=> h.name = ddm_get_curr_bootdisk
      OBVIOUS
    <2> HIDE DEF b, x
    <2>4. e.attrib.name = h.name /\ e.attrib.boot = b
      BY <2>1
    <2>5. QED
      BY <2>2, <2>3, <2>4
  <1>7. QED
    BY <1>1, <1>6 DEF e, l

LEMMA CountsRight == ObInv => CountsAreRight
  <1> SUFFICES ASSUME ObInv PROVE CountsAreRight
    OBVIOUS
  <1>1. ASSUME NEW c \in Classes \ {"OS"}, obj[c].built PROVE obj[c].cnt = Len(obj[c].arr)
    <2>1. ClassIs(c, obj[c]) /\ c \in Listed
      BY DiskIn DEF ObInv, RegInv, Classes, Listed
    <2>2. QED
      BY <1>1, <2>1 DEF ClassIs, ListIs
  <1>2. obj["OS"].cnt \in {0, Len(obj["OS"].arr)}
    <2>1. ClassIs("OS", obj["OS"])
      BY DiskIn DEF ObInv, RegInv, Classes
    <2>2. QED
      BY <2>1 DEF ClassIs, OsIs
  <1>3. QED
    BY <1>1, <1>2 DEF CountsAreRight

LEMMA SlicesRight == ObInv => SliceFindsItsDisk
  <1> SUFFICES ASSUME ObInv, obj["DISK"].issorted, ~again, ~Begins, NEW i \in Known PROVE FindsItsDisk(i)
    BY DEF SliceFindsItsDisk
  <1> DEFINE d == obj["DISK"].arr[i].attrib.name
             key == d \o <<LetterS, 0>>
  <1>1. IsComputer(computer) /\ IsReg(obj) /\ SortIs(obj["DISK"], again)
    BY DEF ObInv, RegInv
  <1>2. obj["DISK"].built /\ InOrder(obj["DISK"].arr)
    BY <1>1 DEF SortIs
  <1>3. i \in DOMAIN obj["DISK"].arr /\ obj["DISK"].arr[i].attrib # NoAttr
    BY DEF Known
  <1>4. d \in DiskNames /\ DiskNames \subseteq Names
    BY <1>1, <1>3, DisksNamed, HandlesAre
  <1> HIDE DEF d
  <1>5. d \in Names /\ d \in Seq(Nat) /\ Len(d) \in Nat /\ DOMAIN d = 1..Len(d)
    <2>1. d \in Names
      BY <1>4
    <2>2. d \in Seq(Nat)
      BY <2>1, NamesAre
    <2>3. QED
      BY <2>1, <2>2
  <1>6. <<LetterS, 0>> \in Seq(Nat) /\ Len(<<LetterS, 0>>) = 2 /\ LetterS \in Nat
    BY DEF LetterS
  <1>7. key \in Seq(Nat) /\ Len(key) = Len(d) + 2
    BY <1>5, <1>6
  <1>8. /\ \A k \in DOMAIN d : key[k] = d[k]
        /\ key[Len(d) + 1] = LetterS /\ key[Len(d) + 2] = 0
    BY <1>5, <1>6
  <1> HIDE DEF key
  <1>9. Numbered(key, d, LetterS)
    BY <1>5, <1>7, <1>8 DEF Numbered, Digits
  <1>10. search_disks_for_slices(obj, key) = search_disks(obj, d)
    BY <1>1, <1>2, <1>4, <1>7, <1>9, SearchesAgree
  <1>11. search_disks(obj, d) = i
    BY <1>1, <1>2, <1>3, <1>5, FoundIsNamed DEF d
  <1>12. QED
    BY <1>10, <1>11 DEF FindsItsDisk, key, d

LEMMA DrivesRight == ObInv => DescriptorsAreFreed
  BY DEF ObInv, DescIs, DescriptorsAreFreed, Handles

LEMMA RegistryRight == ObInv => RegistryIsRight
  BY TypesRight, MediaRight, BootRight, CountsRight, SlicesRight, DrivesRight DEF RegistryIsRight

(* Whatever calls were made before: only disks that may be installed to are *)
(* listed, the one booted from is marked, counters fit the arrays, every    *)
(* slice finds its disk unless disks' names begin each other, and the       *)
(* assertion of ddm_get_disks holds while there is a disk and memory.       *)
THEOREM RegistryIsAlwaysRight == ObSpec => []RegistryIsRight
  BY RegistryHolds, RegistryRight, PTL

-----------------------------------------------------------------------------
(* Walks, and the lists made for one disk.                                  *)
WalkIs(c) ==
  (obj[c].cur # 0 /\ obj'[c].cur = 0 /\ td_errno' = "END" /\ c \notin moved /\ obj'[c].arr = obj[c].arr) =>
    Len(seen[c]) = Len(obj[c].arr) /\ ToSet(seen[c]) = {obj[c].arr[i].handle.name : i \in DOMAIN obj[c].arr}

LEMMA WalkEnds ==
  ASSUME ObInv, NEW c \in Classes, obj[c].cur # 0, ~(obj[c].built /\ obj[c].cur + 1 <= Len(obj[c].arr)), c \notin moved
  PROVE  Len(seen[c]) = Len(obj[c].arr) /\ ToSet(seen[c]) = {obj[c].arr[i].handle.name : i \in DOMAIN obj[c].arr}
  <1> DEFINE l == obj[c]
  <1>1. /\ ClassIs(c, l) /\ l.cur \in Nat /\ l.cur <= Len(l.arr) /\ DOMAIN l.arr = 1 .. Len(l.arr) /\ Len(l.arr) \in Nat
        /\ seen[c] = Passed(l) /\ l.cur # 0 /\ ~(l.built /\ l.cur + 1 <= Len(l.arr))
    BY DiskIn DEF ObInv, RegInv, SeenIs
  <1> HIDE DEF l
  <1>2. l.built
    <2>1. ~l.built => l.arr = <<>>
      BY <1>1 DEF ClassIs
    <2>2. QED
      BY <1>1, <2>1
  <1>3. l.cur = Len(l.arr)
    BY <1>1, <1>2
  <1>4. seen[c] = [i \in DOMAIN l.arr |-> l.arr[i].handle.name] /\ Len(seen[c]) = l.cur
    <2>1. Len(Passed(l)) = l.cur
      BY <1>1, PassedIs
    <2>2. QED
      BY <1>1, <1>3, <2>1 DEF Passed
  <1>5. ToSet(seen[c]) = {l.arr[i].handle.name : i \in DOMAIN l.arr}
    BY <1>4 DEF ToSet
  <1>6. QED
    BY <1>3, <1>4, <1>5 DEF l

LEMMA WalkHolds ==
  ASSUME ObInv, [ObNext]_obVars, NEW c \in Classes
  PROVE  WalkIs(c)
  <1> SUFFICES ASSUME obj[c].cur # 0, obj'[c].cur = 0, td_errno' = "END", c \notin moved
               PROVE  ~(obj[c].built /\ obj[c].cur + 1 <= Len(obj[c].arr))
    BY WalkEnds DEF WalkIs
  <1>1. obj' # obj
    OBVIOUS
  <1>2. ASSUME NEW class \in Classes, td_discover(class) PROVE FALSE
    BY <1>1, <1>2 DEF td_discover, Discover
  <1>3. ASSUME NEW class \in Classes, td_get_next(class) PROVE ~(obj[c].built /\ obj[c].cur + 1 <= Len(obj[c].arr))
    <2>1. ~(obj[class].built /\ obj[class].cur + 1 <= Len(obj[class].arr)) /\ obj' = AtCursor(obj, class, 0)
      BY <1>3 DEF td_get_next, AtCursor
    <2>2. class = c
      <3>1. RegInv(obj, again) /\ again \in BOOLEAN /\ Len(obj[class].arr) \in Nat
        BY DiskIn DEF ObInv, ObTypes, RegInv
      <3>2. \A x \in Classes : x # class => AtCursor(obj, class, 0)[x] = obj[x]
        BY <3>1, CursorKeeps
      <3>3. QED
        BY <2>1, <3>2
    <2>3. QED
      BY <2>1, <2>2
  <1>4. ASSUME NEW class \in Classes, td_reset(class) PROVE FALSE
    BY <1>4 DEF td_reset
  <1>5. ASSUME NEW class \in Classes, td_attributes_get(class) PROVE FALSE
    BY <1>1, <1>5 DEF td_attributes_get, LookErrno
  <1>6. ASSUME NEW class \in {"PARTITION", "SLICE"}, NEW disk \in DiskNames, td_discover_object_by_disk(class, disk) PROVE FALSE
    BY <1>6 DEF td_discover_object_by_disk
  <1>7. ASSUME NEW class \in {"DISK", "SLICE"}, NEW vendor \in {"any", "acme"}, td_discover_get_attribute_list(class, vendor)
        PROVE FALSE
    BY <1>7 DEF td_discover_get_attribute_list
  <1>8. ASSUME td_discovery_release PROVE FALSE
    BY <1>8 DEF td_discovery_release
  <1>9. ASSUME ChangeOs PROVE FALSE
    BY <1>1, <1>9 DEF ChangeOs
  <1>10. CASE UNCHANGED obVars
    BY <1>1, <1>10 DEF obVars
  <1>11. QED
    BY <1>2, <1>3, <1>4, <1>5, <1>6, <1>7, <1>8, <1>9, <1>10 DEF ObNext, ObOver

(* Whose a numbered name is.                                               *)
LEMMA OwnName ==
  ASSUME NEW name \in Seq(Nat), NEW of \in Names, NEW disk \in Names, NEW letter \in {LetterP, LetterS}, Numbered(name, of, letter)
  PROVE  IsPrefix(Append(disk, letter), name) <=> of = disk
  <1>1. /\ Len(of) \in Nat /\ Len(of) > 0 /\ Len(of) + 1 < Len(name) /\ Len(name) \in Nat /\ DOMAIN name = 1..Len(name)
        /\ name[Len(of) + 1] = letter /\ \A i \in DOMAIN name : i # Len(of) + 1 => name[i] < 20
    BY NumberedIs
  <1>2. letter \in Nat /\ letter >= 20
    BY DEF LetterP, LetterS
  <1>3. of \in Seq(Nat) /\ disk \in Seq(Nat)
    BY NamesAre
  <1>4. DOMAIN of = 1..Len(of) /\ DOMAIN disk = 1..Len(disk) /\ Len(disk) \in Nat
    BY <1>3
  <1>5. \A i \in 1..Len(of) : name[i] = of[i]
    BY <1>4 DEF Numbered
  <1> DEFINE pre == Append(disk, letter)
  <1>6. pre \in Seq(Nat) /\ Len(pre) = Len(disk) + 1 /\ pre[Len(disk) + 1] = letter /\ \A i \in 1..Len(disk) : pre[i] = disk[i]
    BY <1>2, <1>3, <1>4
  <1> HIDE DEF pre
  <1>7. IsPrefix(pre, name) <=> Len(pre) <= Len(name) /\ \A i \in 1..Len(pre) : pre[i] = name[i]
    BY <1>6, PrefixIs
  <1>8. ASSUME IsPrefix(pre, name) PROVE of = disk
    <2>1. Len(disk) + 1 \in 1..Len(pre) /\ Len(disk) + 1 \in DOMAIN name
      BY <1>1, <1>4, <1>6, <1>7, <1>8
    <2>2. name[Len(disk) + 1] = letter
      BY <1>6, <1>7, <1>8, <2>1
    <2>3. Len(disk) + 1 = Len(of) + 1
      BY <1>1, <1>2, <2>1, <2>2
    <2>4. Len(disk) = Len(of)
      <3>1. Len(of) \in Nat /\ Len(disk) \in Nat
        BY <1>1, <1>4
      <3>2. QED
        BY <2>3, <3>1
    <2>5. \A i \in DOMAIN of : of[i] = disk[i]
      <3> SUFFICES ASSUME NEW i \in 1..Len(of) PROVE of[i] = disk[i]
        BY <1>4
      <3>1. i \in 1..Len(disk) /\ i \in 1..Len(pre)
        BY <1>4, <1>6, <2>4
      <3>2. QED
        BY <1>5, <1>6, <1>7, <1>8, <3>1
    <2>6. QED
      BY <1>3, <2>4, <2>5, SeqSame
  <1>9. ASSUME of = disk PROVE IsPrefix(pre, name)
    <2>1. Len(pre) <= Len(name)
      BY <1>1, <1>6, <1>9
    <2>2. ASSUME NEW i \in 1..Len(pre) PROVE pre[i] = name[i]
      <3>1. i \in 1..Len(disk) \/ i = Len(disk) + 1
        BY <1>4, <1>6
      <3>2. QED
        BY <1>1, <1>5, <1>6, <1>9, <3>1
    <2>3. QED
      BY <1>7, <2>1, <2>2
  <1>10. QED
    BY <1>8, <1>9 DEF pre

(* A disk that is found has no slice that was thrown away.                  *)
LEMMA FoundHasAll ==
  ASSUME ObInv, NEW disk \in DiskNames, search_disks(Ready(obj), disk) # 0, NEW h, h.of = disk
  PROVE  ~Lost(h, again)
  <1> DEFINE r == Ready(obj)
             l == obj["DISK"]
  <1>1. IsComputer(computer) /\ RegInv(obj, again) /\ again \in BOOLEAN /\ IsReg(obj) /\ disk \in Names /\ disk \in Seq(Nat) /\ disk # <<>>
    <2>1. disk \in Names /\ IsComputer(computer)
      BY HandlesAre DEF ObInv
    <2>2. disk \in Seq(Nat) /\ disk # <<>>
      BY <2>1, NamesAre DEF Names
    <2>3. QED
      BY <2>1, <2>2 DEF ObInv, ObTypes, RegInv
  <1>2. ClassIs("DISK", l) /\ SortIs(l, again) /\ "DISK" \in Classes /\ "DISK" \in Listed
    BY <1>1, DiskIn DEF RegInv, Classes, Listed
  <1>3. IsReg(r) /\ r["DISK"] = DiskReady(l)
    BY <1>1, ReadyIs
  <1> HIDE DEF r, l
  <1> DEFINE m == DiskReady(l)
  <1>4. ClassIs("DISK", m) /\ SortIs(m, again) /\ AllDone(m) /\ m.issorted /\ m.built /\ m.held
    <2> DEFINE a == again
    <2>1. a \in BOOLEAN /\ SortIs(l, a)
      BY <1>1, <1>2
    <2> HIDE DEF a
    <2>2. SortIs(m, a) /\ ClassIs("DISK", m) /\ AllDone(m) /\ m.issorted /\ m.built /\ m.held
      BY <1>1, <1>2, <2>1, DiskReadyIs
    <2>3. QED
      BY <2>2 DEF a
  <1> HIDE DEF m
  <1>5. m \in Lists("DISK") /\ Handed("DISK", m.pddm) /\ DisksAre(m)
    BY <1>2, <1>4 DEF ClassIs, ListIs
  <1>6. m.pddm = Handles("DISK")
    <2>1. m.pddm \in Seq(Nodes("DISK"))
      BY <1>5 DEF Lists
    <2>2. QED
      BY <1>1, <1>2, <1>5, <2>1, HeldAre
  <1> DEFINE i == search_disks(r, disk)
  <1>7. i # 0 /\ i \in DOMAIN m.arr /\ m.arr[i].attrib.name = disk
    <2>1. r["DISK"].built /\ i # 0
      BY <1>3, <1>4 DEF r, m
    <2>2. QED
      BY <1>1, <1>3, <2>1, FoundIsNamed DEF m
  <1> HIDE DEF i
  <1>8. m.arr[i].handle.answers /\ m.arr[i].handle.name = disk
    <2>1. m.arr[i].attrib # NoAttr
      BY <1>1, <1>7, NoAttrIs
    <2>2. QED
      BY <1>1, <1>3, <1>7, <2>1, DisksNamed DEF m
  <1>9. PICK j \in DOMAIN m.pddm : m.arr[i].handle = m.pddm[j]
    BY <1>5, <1>7 DEF DisksAre
  <1>10. ~(\A k \in DOMAIN Handles("DISK") : Handles("DISK")[k].answers => Handles("DISK")[k].name # h.of)
    BY <1>6, <1>8, <1>9
  <1>11. ASSUME again PROVE SearchIn(Handles("DISK"), h.of) # 0
    <2>1. InPlace(r["DISK"]) /\ AllDone(r["DISK"]) /\ r["DISK"].built
      BY <1>3, <1>4, <1>11 DEF SortIs, m
    <2>2. search_disks(r, disk) = SearchIn(Handles("DISK"), disk)
      BY <1>1, <1>3, <2>1, SearchInIs
    <2>3. QED
      BY <1>7, <2>2 DEF i
  <1>12. QED
    BY <1>10, <1>11 DEF Lost

LEMMA OwnListed ==
  ASSUME ObInv, ~Begins, NEW class \in {"PARTITION", "SLICE"}, NEW disk \in DiskNames,
         td_discover_object_by_disk(class, disk), td_errno' = "SUCCESS"
  PROVE  {list'[i].name : i \in DOMAIN list'} = {h.name : h \in {g \in ToSet(Handles(class)) : g.answers /\ g.of = disk}}
  <1> DEFINE o == Fills(Own(class), class)
             hs == Handles(class)
             arr == o[class].arr
             letter == Letter(class)
             K == {e \in ToSet(arr) : e.attrib # NoAttr /\ IsPrefix(Append(disk, letter), e.attrib.name)}
             mine == Kept(arr, K)
  <1>1. search_disks(Ready(obj), disk) # 0 /\ list' = [i \in DOMAIN mine |-> mine[i].attrib]
    BY DEF td_discover_object_by_disk, Own, Fills
  <1>2. /\ IsComputer(computer) /\ RegInv(o, again) /\ IsReg(o) /\ class \in Listed /\ class \in Classes /\ again \in BOOLEAN
        /\ o[class] = Filled(class, Own(class)[class]) /\ ClassIs(class, Own(class)[class]) /\ Own(class)[class].built
    BY OwnIs DEF ObInv, ObTypes, RegInv, Listed, Classes
  <1>3. disk \in Names
    BY <1>2, HandlesAre
  <1>4. AllDone(o[class]) /\ o[class].built
    <2> DEFINE l == Own(class)[class]
    <2>1. ClassIs(class, l) /\ l.built
      BY <1>2
    <2> HIDE DEF l
    <2>2. AllDone(Filled(class, l)) /\ Filled(class, l) =
            [pddm |-> l.pddm, held |-> l.held, arr |-> Filled(class, l).arr, built |-> l.built, cnt |-> l.cnt,
             cur |-> l.cur, issorted |-> l.issorted]
      BY <1>2, <2>1, FilledIs
    <2>3. Filled(class, l).built
      BY <2>1, <2>2
    <2>4. QED
      BY <1>2, <2>2, <2>3 DEF l
  <1> HIDE DEF o
  <1>5. arr \in Seq(Entries(class)) /\ DOMAIN arr = 1..Len(arr)
    <2>1. o[class] \in Lists(class)
      BY <1>2, DiskIn
    <2>2. arr \in Seq(Entries(class))
      BY <2>1 DEF Lists
    <2>3. QED
      BY <2>2
  <1>6. letter = (IF class = "SLICE" THEN LetterS ELSE LetterP) /\ letter \in {LetterP, LetterS}
    BY DEF Letter
  <1> HIDE DEF letter
  <1>7. ASSUME NEW i \in DOMAIN arr
        PROVE  /\ i \in DOMAIN hs /\ arr[i].handle.answers = hs[i].answers /\ arr[i].handle.name = hs[i].name
               /\ arr[i].handle.of = hs[i].of /\ arr[i].done /\ DOMAIN arr = DOMAIN hs
               /\ arr[i].handle.answers \in BOOLEAN
               /\ arr[i].attrib # NoAttr => arr[i].handle.answers /\ arr[i].attrib.name = hs[i].name
               /\ arr[i].handle.answers => arr[i].attrib.name = hs[i].name \/ (class = "SLICE" /\ arr[i].attrib = NoAttr)
               /\ hs[i].name # <<>> /\ hs[i].name \in Seq(Nat) /\ hs[i].of \in Names /\ Numbered(hs[i].name, hs[i].of, letter)
    <2> DEFINE e == arr[i]
    <2>1. /\ Numbered(e.handle.name, e.handle.of, letter) /\ e.handle.name \in Seq(Nat) /\ e.handle.name # <<>>
          /\ i \in DOMAIN hs /\ SameHandle(class, e.handle, hs[i]) /\ Proper(class, e) /\ DOMAIN arr = DOMAIN hs /\ e.handle.answers \in BOOLEAN
      BY <1>2, <1>4, <1>6, SlicesNumbered
    <2>2. e.done
      BY <1>4 DEF AllDone
    <2> HIDE DEF e
    <2>3. e.handle.name = hs[i].name /\ e.handle.of = hs[i].of /\ e.handle.answers = hs[i].answers
      BY <2>1 DEF SameHandle
    <2>4. e.handle \in Nodes(class) /\ (e.attrib = Attributes(class, e.handle) \/ (class = "SLICE" /\ e.attrib = NoAttr))
      BY <2>1, <2>2 DEF Proper, EntryIs, Entries
    <2> DEFINE h == e.handle
    <2>5. h \in Nodes(class)
      BY <2>4
    <2> HIDE DEF h
    <2>6. (h.answers => Attributes(class, h).name = h.name) /\ (~h.answers => Attributes(class, h) = NoAttr)
      BY <1>2, <2>5, AttributesAre
    <2>7. h.of \in Names
      BY <2>5 DEF Nodes, Parts, Slices
    <2>8. QED
      BY <2>1, <2>2, <2>3, <2>4, <2>6, <2>7 DEF h, e
  <1> HIDE DEF arr, hs
  <1>8. ASSUME NEW i \in DOMAIN arr
        PROVE  arr[i] \in K <=> hs[i].answers /\ hs[i].of = disk
    <2>1. arr[i] \in ToSet(arr)
      BY DEF ToSet
    <2>2. IsPrefix(Append(disk, letter), hs[i].name) <=> hs[i].of = disk
      <3> DEFINE n == hs[i].name
                 f == hs[i].of
      <3>1. n \in Seq(Nat) /\ f \in Names /\ Numbered(n, f, letter)
        BY <1>7
      <3> HIDE DEF n, f
      <3>2. IsPrefix(Append(disk, letter), n) <=> f = disk
        BY <1>3, <1>6, <3>1, OwnName
      <3>3. QED
        BY <3>2 DEF n, f
    <2>3. ASSUME arr[i] \in K PROVE hs[i].answers /\ hs[i].of = disk
      BY <1>7, <2>2, <2>3
    <2>4. ASSUME hs[i].answers, hs[i].of = disk PROVE arr[i] \in K
      <3>1. arr[i].attrib # NoAttr
        <4> SUFFICES ASSUME arr[i].attrib = NoAttr PROVE FALSE
          OBVIOUS
        <4>1. class = "SLICE"
          BY <1>7, <2>4, NoAttrIs
        <4>2. ThrownIs(o["SLICE"], again)
          BY <1>2 DEF RegInv
        <4>3. Lost(arr[i].handle, again)
          <5>1. i \in DOMAIN o["SLICE"].arr /\ o["SLICE"].arr[i] = arr[i]
            BY <4>1 DEF arr
          <5>2. arr[i].done /\ arr[i].handle.answers /\ arr[i].handle.of \in DiskNames
            BY <1>7, <2>4
          <5>3. QED
            BY <4>2, <5>1, <5>2 DEF ThrownIs
        <4>4. arr[i].handle.of = disk
          BY <1>7, <2>4
        <4>5. QED
          BY <1>1, <4>3, <4>4, FoundHasAll
      <3>2. arr[i].attrib.name = hs[i].name
        BY <1>7, <3>1
      <3>3. QED
        BY <2>1, <2>2, <2>4, <3>1, <3>2
    <2>5. QED
      BY <2>3, <2>4
  <1> HIDE DEF K
  <1>9. /\ \A j \in DOMAIN mine : \E i \in DOMAIN arr : arr[i] \in K /\ mine[j] = arr[i]
        /\ \A i \in DOMAIN arr : arr[i] \in K => \E j \in DOMAIN mine : mine[j] = arr[i]
    <2>1. PICK m : FromPlaces(mine, arr, Len(arr), K, m)
      BY <1>5, KeptIs
    <2>2. QED
      BY <1>5, <2>1 DEF FromPlaces
  <1> HIDE DEF mine
  <1>10. {list'[j].name : j \in DOMAIN list'} = {arr[i].attrib.name : i \in {k \in DOMAIN arr : arr[k] \in K}}
    BY <1>1, <1>9
  <1>11. ASSUME NEW i \in DOMAIN arr, arr[i] \in K PROVE arr[i].attrib.name = hs[i].name
    BY <1>7, <1>11 DEF K
  <1>12. DOMAIN arr = DOMAIN hs
    <2> DEFINE l == o[class]
    <2>1. ClassIs(class, l) /\ l.built
      BY <1>2, <1>4, DiskIn
    <2> HIDE DEF l
    <2>2. l \in Lists(class) /\ Handed(class, l.pddm) /\ Len(l.arr) = Len(l.pddm)
      BY <1>2, <2>1 DEF ClassIs, ListIs
    <2>3. l.pddm \in Seq(Nodes(class))
      BY <2>2 DEF Lists
    <2>4. DOMAIN l.pddm = DOMAIN Handles(class) /\ DOMAIN l.pddm = 1..Len(l.pddm)
      BY <1>2, <2>2, <2>3, HeldAre
    <2>5. QED
      BY <1>5, <2>2, <2>4 DEF arr, hs, l
  <1>13. {h.name : h \in {g \in ToSet(hs) : g.answers /\ g.of = disk}} = {hs[i].name : i \in {k \in DOMAIN hs : hs[k].answers /\ hs[k].of = disk}}
    BY DEF ToSet
  <1>14. {arr[i].attrib.name : i \in {k \in DOMAIN arr : arr[k] \in K}} = {hs[i].name : i \in {k \in DOMAIN hs : hs[k].answers /\ hs[k].of = disk}}
    BY <1>8, <1>11, <1>12
  <1>15. QED
    BY <1>10, <1>13, <1>14 DEF hs

(* A walk with td_get_next from the start to the end meets every object     *)
(* exactly once, unless the array was sorted or made anew under its cursor. *)
THEOREM WalksAlwaysMeetAll == ObSpec => WalkMeetsAll
  <1>1. ObInv /\ [ObNext]_obVars => [\A c \in Classes : WalkIs(c)]_obVars
    BY WalkHolds
  <1>2. QED
    BY <1>1, RegistryHolds, PTL DEF ObSpec, WalkMeetsAll, WalkIs

OwnIsListed ==
  ~Begins => \A class \in {"PARTITION", "SLICE"}, disk \in DiskNames :
  (td_errno' = "SUCCESS" /\ td_discover_object_by_disk(class, disk)) =>
    {list'[i].name : i \in DOMAIN list'} =
      {h.name : h \in {g \in ToSet(Handles(class)) : g.answers /\ g.of = disk}}
(* What td_discover_object_by_disk lists for a disk is exactly that disk's  *)
(* partitions or slices that answer, unless disks' names begin each other.  *)
THEOREM ListedAreAlwaysOwn == ObSpec => ListedAreItsOwn
  <1>1. ObInv => OwnIsListed
    BY OwnListed DEF OwnIsListed
  <1>2. QED
    BY <1>1, RegistryHolds, PTL DEF ObSpec, ListedAreItsOwn, OwnIsListed
=============================================================================
