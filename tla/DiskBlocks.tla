----------------------------- MODULE DiskBlocks -----------------------------
(***************************************************************************)
(* The order of blocks of the graphical disk screen, disk-block-order.c:   *)
(* a table of partitions seen as the sequence of its partitions on the     *)
(* disk and the gaps between them, and the gaps given to unused entries of *)
(* the table, so that the screen can offer them.                           *)
(***************************************************************************)
EXTENDS Integers, Sequences, SequencesExt, FiniteSetsExt

CONSTANTS
  FD_NUMPART, \* primary partitions: slots 1 to FD_NUMPART of a table
  OM_NUMPART, \* partitions with the logical ones
  Gb,         \* MBPERGB
  SizeMb      \* disk_size

ASSUME DbAssumption ==
  /\ FD_NUMPART \in Nat \ {0} /\ OM_NUMPART \in Nat /\ OM_NUMPART > FD_NUMPART
  /\ Gb \in Nat /\ Gb > 20 /\ SizeMb \in Nat \ {0}

Prims    == 1..FD_NUMPART
Logicals == (FD_NUMPART + 1)..OM_NUMPART
Entries  == 1..OM_NUMPART

(* Tables hold megabytes, the widgets show tenths of a gigabyte. A         *)
(* difference may be negative: the conversion cuts towards zero.           *)
om_round_mbtogb(mb) == (20 * mb + Gb) \div (2 * Gb)
om_gbtomb(tenths) == IF tenths >= 0 THEN (tenths * Gb) \div 10 ELSE -((-tenths * Gb) \div 10)

Zero == [type |-> "unused", swap |-> FALSE, id |-> 0, order |-> 0, off |-> 0, size |-> 0, mb |-> 0]
BlockOf(e, shown) ==
  [shown |-> shown, id |-> e.id, order |-> e.order, type |-> e.type, mb |-> e.mb, off |-> e.off]
Gap(mb, off) == BlockOf([Zero EXCEPT !.mb = mb, !.off = off], FALSE)

(* 0 where there is none *)
LeastOf(S) == IF S = {} THEN 0 ELSE Min(S)
get_part_by_blkorder(t, k) == LeastOf({i \in Entries : t[i].order = k})
get_part_by_id(t, id) == IF id = 0 THEN 0 ELSE LeastOf({i \in Entries : t[i].id = id})
block_by_id(L, id) == LeastOf({b \in DOMAIN L : L[b].id = id})
block_by_order(L, k) == LeastOf({b \in DOMAIN L : L[b].order = k})

(* How many of the orders first, first + 1, ... up to last a table has.    *)
InARow(t, first, last) ==
  Min({k \in first..(last + 1) : k > last \/ get_part_by_blkorder(t, k) = 0}) - first
Extended(t) ==
  LeastOf({k \in 1..InARow(t, 1, FD_NUMPART) : t[get_part_by_blkorder(t, k)].type = "extended"})
-----------------------------------------------------------------------------
(* installationdisk_get_blkorder_layout: the partitions of a table in      *)
(* their order, with the gaps before, between and behind them. No gap is   *)
(* looked for behind the last one when every place is taken.               *)
Pieces(t, first, last, from, edge, to) ==
  LET n == InARow(t, first, last)
      E(k) == t[get_part_by_blkorder(t, first + k - 1)]
      End(k) == E(k).off + E(k).mb
      Before(k) ==
        IF k = 1 THEN (IF E(1).off > edge THEN <<Gap(E(1).off - from, from)>> ELSE <<>>)
        ELSE IF E(k).off > End(k - 1) + 1 THEN <<Gap(E(k).off - End(k - 1) - 1, End(k - 1) + 1)>>
        ELSE <<>>
      Behind == IF first + n > last \/ End(n) >= to THEN <<>> ELSE <<Gap(to - End(n), End(n) + 1)>>
  IN FlattenSeq([k \in 1..n |-> Before(k) \o <<BlockOf(E(k), TRUE)>>]) \o Behind

PrimaryLayout(t) ==
  IF InARow(t, 1, FD_NUMPART) = 0 THEN <<Gap(SizeMb, 0)>> ELSE Pieces(t, 1, FD_NUMPART, 0, 1, SizeMb)

(* The gaps of an extended partition take part in the order; pieces that   *)
(* cannot be shown as a tenth of a gigabyte are dropped. One without       *)
(* logical partitions is a gap with the extended partition's own data.     *)
Numbered(L) == [k \in DOMAIN L |-> [L[k] EXCEPT !.order = FD_NUMPART + k]]
LogicalLayout(t) ==
  LET ext == t[get_part_by_blkorder(t, Extended(t))]
      all == IF InARow(t, FD_NUMPART + 1, OM_NUMPART) = 0 THEN <<BlockOf(ext, FALSE)>>
             ELSE Pieces(t, FD_NUMPART + 1, OM_NUMPART, ext.off, ext.off, ext.off + ext.mb)
  IN IF Extended(t) = 0 THEN <<>> ELSE Numbered(SelectSeq(all, LAMBDA b : om_round_mbtogb(b.mb) > 0))

get_blkorder_layout(t) == [p |-> t, prim |-> PrimaryLayout(t), logi |-> LogicalLayout(t)]
-----------------------------------------------------------------------------
(* The lowest free id goes to the first slot without a place in the order. *)
find_unused(t, slots, k) ==
  LET free == {i \in slots : \A j \in slots : t[j].id # i}
      slot == LeastOf({i \in slots : t[i].type = "unused" /\ t[i].order < 1})
  IN [slot |-> slot, p |-> IF slot = 0 THEN t ELSE [t EXCEPT ![slot].order = k, ![slot].id = LeastOf(free)]]

(* The first of the largest gaps nobody shows yet.                         *)
get_largest_free_block(L) ==
  LET gaps == {b \in DOMAIN L : ~L[b].shown /\ om_round_mbtogb(L[b].mb) > 0}
  IN LeastOf({b \in gaps : \A c \in gaps : L[c].mb <= L[b].mb})

(* Entry i of the table shows block b; without a block it has no size.     *)
Show(t, L, i, b) ==
  IF b = 0 THEN [p |-> t, L |-> L, given |-> FALSE]
  ELSE [p |-> [t EXCEPT ![i].mb = L[b].mb, ![i].off = L[b].off],
        L |-> [L EXCEPT ![b].shown = TRUE, ![b].id = t[i].id, ![b].order = t[i].order], given |-> TRUE]

(* Neighbours that both have a size are sorted by their offset; an entry   *)
(* without one, or with one of the ids fixed, stays where it is.           *)
SortedByOffset(t, lo, hi, fixed) ==
  LET Moves(i) == t[i].mb > 0 /\ t[i].id \notin fixed
      Run(i) == {j \in lo..hi : \A h \in Min({i, j})..Max({i, j}) : Moves(h)}
      Before(h, j) == t[h].off < t[j].off \/ (t[h].off = t[j].off /\ h < j)
      Rank(j) == Cardinality({h \in Run(j) : Before(h, j)})
  IN [i \in Entries |-> IF i \notin lo..hi \/ ~Moves(i) THEN t[i]
                        ELSE t[CHOOSE j \in Run(i) : Rank(j) = i - Min(Run(i))]]

(* installationdisk_reorder_to_blkorder: the slots become the order.       *)
InTableOrder(L, t, slots) ==
  [b \in DOMAIN L |->
     LET at == {i \in slots : t[i].id = L[b].id}
     IN IF at # {} /\ block_by_id(L, L[b].id) = b THEN [L[b] EXCEPT !.order = Min(at)] ELSE L[b]]
Reordered(d, t, n) ==
  [p |-> [i \in Entries |-> IF i \in 1..n THEN [t[i] EXCEPT !.order = i] ELSE t[i]],
   prim |-> InTableOrder(d.prim, t, Prims), logi |-> InTableOrder(d.logi, t, (FD_NUMPART + 1)..n)]
ReorderedTo(d, t) == Reordered(d, t, Min({i \in FD_NUMPART..OM_NUMPART : i = OM_NUMPART \/ t[i + 1].id = 0}))
reorder_to_blkorder(d) ==
  ReorderedTo(d, SortedByOffset(SortedByOffset(d.p, 1, FD_NUMPART, {}), FD_NUMPART + 1, OM_NUMPART, {0}))

(* initialize_default_partition_layout: every primary place of the order   *)
(* has an entry, one that is unused shows the largest gap left; the gaps   *)
(* of the extended partition become unused logical entries.                *)
ShowPrimary(acc, k) ==
  LET made == find_unused(acc.p, Prims, k)
      shown == Show(made.p, acc.L, made.slot, get_largest_free_block(acc.L))
  IN IF get_part_by_blkorder(acc.p, k) # 0 THEN acc ELSE [shown EXCEPT !.given = @ \/ acc.given]
ShowLogical(acc, k) ==
  LET made == find_unused(acc.p, Logicals, k)
  IN IF get_largest_free_block(acc.L) = 0 THEN acc ELSE Show(made.p, acc.L, made.slot, get_largest_free_block(acc.L))
PrimariesShown(d) == FoldLeft(ShowPrimary, [p |-> d.p, L |-> d.prim, given |-> FALSE], [k \in Prims |-> k])
LogicalsShown(p, logi) ==
  LET first == FD_NUMPART + 1 + InARow(p, FD_NUMPART + 1, OM_NUMPART)
  IN FoldLeft(ShowLogical, [p |-> p, L |-> logi, given |-> FALSE], [k \in 1..(OM_NUMPART + 1 - first) |-> first + k - 1])
IfGiven(d, given) == IF given THEN reorder_to_blkorder(d) ELSE d
AllShown(prims, logis) ==
  IfGiven([p |-> logis.p, prim |-> prims.L, logi |-> logis.L], prims.given \/ logis.given)
initialize_default_partition_layout(d) ==
  LET Then(prims) ==
        IF Extended(d.p) = 0 THEN IfGiven([p |-> prims.p, prim |-> prims.L, logi |-> d.logi], prims.given)
        ELSE AllShown(prims, LogicalsShown(prims.p, d.logi))
  IN Then(PrimariesShown(d))

Laid(t) == initialize_default_partition_layout(get_blkorder_layout(t))
=============================================================================
