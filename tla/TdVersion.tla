----------------------------- MODULE TdVersion -----------------------------
(***************************************************************************)
(* td_prod_vcmp of td_version.c: os_discover compares the release it finds *)
(* with Solaris_2.5, 2.7 and 11. A product is a sequence of what stands    *)
(* between its underscores: Solaris_2.0.1_Dell_A is                        *)
(* <<Name, Num(<<2, 0, 1>>), Alpha(3), Alpha(0)>>.                         *)
(***************************************************************************)
EXTENDS Integers, Sequences

NOT_UPGRADEABLE == -2
LESS_THAN       == -1
EQUAL_TO        == 0
GREATER_THAN    == 1
Num(ns)  == [digits |-> TRUE, nums |-> ns, letter |-> 0]
Alpha(l) == [digits |-> FALSE, nums |-> <<>>, letter |-> l]
Solaris  == Alpha(100)
None     == [digits |-> TRUE, nums |-> <<>>, letter |-> 0]
IsEmpty(t) == t = None
(* A name is cut into pieces none of which is empty.                        *)
Pieces ==
  [digits : {TRUE}, nums : Seq(Nat) \ {<<>>}, letter : {0}] \cup [digits : {FALSE}, nums : {<<>>}, letter : Nat]

(* prod_tokenize and chk_prod_toks: the tokens name, ver, iver, vname,      *)
(* vver, viver, or nothing when the string is no product. A second piece    *)
(* with letters is the vendor's name; pieces after the sixth are ignored.   *)
Shifted(pieces) ==
  IF Len(pieces) >= 3 /\ ~pieces[3].digits
  THEN SubSeq(pieces, 1, 2) \o <<None>> \o SubSeq(pieces, 3, Len(pieces)) ELSE pieces
Tokens(pieces) == [i \in 1 .. 6 |-> IF i <= Len(Shifted(pieces)) THEN Shifted(pieces)[i] ELSE None]
IsProduct(pieces) ==
  LET t == Tokens(pieces) IN
  /\ Len(pieces) >= 2 /\ t[1] = Solaris /\ t[2].digits /\ ~IsEmpty(t[2])
  /\ t[3].digits /\ (IsEmpty(t[4]) \/ ~t[4].digits) /\ (IsEmpty(t[5]) \/ ~t[5].digits) /\ t[6].digits

Sign(n) == IF n < 0 THEN LESS_THAN ELSE IF n > 0 THEN GREATER_THAN ELSE EQUAL_TO
(* vstrcoll: number by number; of what is left over only zeros are equal    *)
(* to nothing.                                                             *)
FirstApart(a, b) == {i \in 1 .. Len(a) : i <= Len(b) /\ a[i] # b[i] /\ \A j \in 1 .. i - 1 : a[j] = b[j]}
Rest(a, b) == {i \in Len(b) + 1 .. Len(a) : a[i] # 0}
vstrcoll(x, y) ==
  IF ~x.digits THEN Sign(x.letter - y.letter)
  ELSE LET apart == FirstApart(x.nums, y.nums) IN
       CASE apart # {} -> LET i == CHOOSE j \in apart : TRUE IN Sign(x.nums[i] - y.nums[i])
         [] apart = {} /\ Rest(x.nums, y.nums) # {} -> GREATER_THAN
         [] apart = {} /\ Rest(y.nums, x.nums) # {} -> LESS_THAN
         [] OTHER -> EQUAL_TO
Then(state, x, y) == IF state = EQUAL_TO THEN vstrcoll(x, y) ELSE state

(* The second loop: what v1 lacks. A vendor only one of the two names ends   *)
(* either loop (i = MAX_TOKENS), the order being settled.                   *)
Second(a, b, state) ==
  IF \/ ~IsEmpty(b[3]) /\ IsEmpty(a[3])
     \/ ~IsEmpty(b[4]) /\ ~IsEmpty(a[3])
  THEN NOT_UPGRADEABLE
  ELSE IF ~IsEmpty(b[4]) /\ IsEmpty(a[4]) THEN IF state = EQUAL_TO THEN LESS_THAN ELSE state
  ELSE IF \E k \in {5, 6} : ~IsEmpty(b[k]) /\ IsEmpty(a[k]) THEN NOT_UPGRADEABLE
  ELSE state
(* The first loop: what v1 has, compared in the order of the tokens.        *)
First(a, b) ==
  LET ver  == vstrcoll(a[2], b[2])
      iver == IF IsEmpty(a[3]) THEN ver ELSE Then(ver, a[3], b[3])
      vver == IF IsEmpty(a[5]) THEN iver ELSE Then(iver, a[5], b[5])
      last == IF IsEmpty(a[6]) THEN vver ELSE Then(vver, a[6], b[6])
  IN IF \/ ~IsEmpty(a[3]) /\ IsEmpty(b[3])
        \/ ~IsEmpty(a[4]) /\ ~IsEmpty(b[3])
     THEN NOT_UPGRADEABLE
     ELSE IF ~IsEmpty(a[4]) /\ IsEmpty(b[4]) THEN IF iver = EQUAL_TO THEN GREATER_THAN ELSE Second(a, b, iver)
     ELSE IF ~IsEmpty(a[4]) /\ a[4] # b[4] THEN IF iver = EQUAL_TO THEN NOT_UPGRADEABLE ELSE iver
     ELSE IF \E k \in {5, 6} : ~IsEmpty(a[k]) /\ IsEmpty(b[k]) THEN NOT_UPGRADEABLE
     ELSE Second(a, b, last)
td_prod_vcmp(v1, v2) ==
  IF ~IsProduct(v1) \/ ~IsProduct(v2) THEN NOT_UPGRADEABLE ELSE First(Tokens(v1), Tokens(v2))

-----------------------------------------------------------------------------
(* The reference: a release is the sequence of its numbers, endless zeros   *)
(* after it.                                                               *)
At0(ns, i) == IF i <= Len(ns) THEN ns[i] ELSE 0
Before(a, b) == \E i \in 1 .. Len(a) + Len(b) : At0(a, i) < At0(b, i) /\ \A j \in 1 .. i - 1 : At0(a, j) = At0(b, j)
(* Without vendors, td_prod_vcmp is that order.                             *)
ComparesAsReleases(v1, v2) ==
  (Len(v1) = 2 /\ Len(v2) = 2 /\ IsProduct(v1) /\ IsProduct(v2)) =>
    td_prod_vcmp(v1, v2) = CASE Before(v1[2].nums, v2[2].nums) -> LESS_THAN
                             [] Before(v2[2].nums, v1[2].nums) -> GREATER_THAN [] OTHER -> EQUAL_TO
(* Turned round, every comparison gives the opposite answer.                *)
Opposite(r) == IF r = NOT_UPGRADEABLE THEN r ELSE -r
TurnsRound(v1, v2) == td_prod_vcmp(v2, v1) = Opposite(td_prod_vcmp(v1, v2))
=============================================================================
