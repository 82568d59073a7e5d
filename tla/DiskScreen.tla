----------------------------- MODULE DiskScreen -----------------------------
(***************************************************************************)
(* The disk screen of the graphical installer, installation-disk-screen.c: *)
(* the partitions of the chosen disk are edited by four rows of widgets,   *)
(* the logical ones by rows below their extended partition. The screen     *)
(* keeps the same space in three places, which every handler must keep in  *)
(* step: the table of partitions, the order of blocks on the disk with the *)
(* gaps between them (DiskBlocks), and the widgets.                        *)
(*                                                                         *)
(* While a handler runs all handlers are blocked: it is one action. The    *)
(* range and the available space of a row are computed again at the end    *)
(* of every handler; they are functions of the layout here.                *)
(***************************************************************************)
EXTENDS DiskBlocks

CONSTANTS
  Machines,  \* sets of disks: sequences of [kind, table], kind "ok", "unreadable" or "small"
  MinMb,     \* orchestrator_om_get_mininstall_sizemb()
  DsWidth,   \* the unsigned integers of the orchestrator wrap at this value
  MaxChanges \* bound on the changes of rows and the layouts made again

ASSUME DsAssumption ==
  /\ <<>> \notin Machines /\ MinMb \in 1..SizeMb /\ DsWidth \in Nat /\ DsWidth > 2 * SizeMb /\ MaxChanges \in Nat

VARIABLES
  disks,     \* alldiskinfo
  shown,     \* activedisk
  whole,     \* is the radio button of the whole disk the active one?
  passed,    \* has the user gone on to the next screen?
  defaults,  \* defaultpartitions
  layouts,   \* modifiedpartitions, with modified...blkorder: [p, prim, logi]
  modified,  \* disks whose button has the "modified" flag
  rows,      \* the rows of the primary partitions of the shown disk
  logicals,  \* per primary row, startlogical: the rows below it
  committed, \* what om_set_disk_partition_info() was given, or <<>>
  changes    \* changes of rows and new layouts so far

dsVars == <<disks, shown, whole, passed, defaults, layouts, modified, rows, logicals, committed, changes>>

(* The orchestrator's editor: a sector is a megabyte here. *)
DP == INSTANCE DiskParts WITH
        NumPrim <- FD_NUMPART, NumPart <- OM_NUMPART, Mb <- 1, Cyl <- 1, Pad <- 1,
        DiskSec <- SizeMb, Width <- DsWidth, Found <- {}, MaxEdits <- 0,
        dpFound <- {}, dpTable <- {}, dpTouched <- {}, whole_disk <- FALSE, dpAsked <- {}, dpEdits <- 0

Usable(n) == disks[n].kind # "small"
Readable(n) == disks[n].kind = "ok"
Solaris(e) == e.type = "solaris2" \/ (e.type = "solaris" /\ ~e.swap)
ComboOf(e) ==
  IF e.type \in {"unused", "extended"} THEN e.type ELSE IF Solaris(e) THEN "solaris" ELSE "other"
TypeOf(combo, e) == IF combo = "solaris" THEN "solaris2" ELSE IF combo = "other" THEN e.type ELSE combo

(* installation_disk_create_default_layout *)
DefaultTable ==
  [i \in Entries |-> IF i = 1 THEN [Zero EXCEPT !.type = "solaris2", !.id = 1, !.order = 1, !.mb = SizeMb]
                     ELSE IF i \in Prims THEN [Zero EXCEPT !.id = i, !.order = i] ELSE Zero]
OriginalTable(n) == IF Readable(n) THEN disks[n].table ELSE DefaultTable
(* Any of the usable disks may be the one the machine boots from.          *)
get_default_disk_index == IF \E n \in DOMAIN disks : Usable(n) THEN {n \in DOMAIN disks : Usable(n)} ELSE {1}
-----------------------------------------------------------------------------
(* A layout c = [p, prim, logi, rows, logicals] is worked on by a handler. *)
SumOf(f, S) == FoldSet(LAMBDA k, sum : sum + f[k], 0, S)
Clamp(v, lo, hi) == Max({lo, Min({v, hi})})
EntryAt(c, k) == get_part_by_blkorder(c.p, k)
Tenths(e) == om_round_mbtogb(e.mb)
NLogical(t) == InARow(t, FD_NUMPART + 1, OM_NUMPART)
ExtendedRow(c) == LeastOf({k \in Prims : c.logicals[k] # <<>>})

(* calculate_avail_space: the partition and the gaps next to it.           *)
Avail(L, e, type) ==
  LET b == block_by_id(L, e.id)
      size == [a \in DOMAIN L |-> Tenths(L[a])]
      Gaps(from, to) == \A a \in from..to : L[a].type = "unused"
      near == {a \in DOMAIN L : (a < b /\ Gaps(a, b - 1)) \/ (a > b /\ Gaps(b + 1, a))}
  IN IF b = 0 THEN 0
     ELSE Tenths(e) + (IF type \in {"unused", "solaris2", "solaris", "extended"} THEN SumOf(size, near) ELSE 0)
BlockType(L, e) ==
  LET b == block_by_id(L, e.id)
  IN IF b = 0 THEN "none" ELSE IF L[b].type = "solaris" /\ e.swap THEN "other" ELSE L[b].type

get_extended_partition_min_size(t) ==
  LET size == [k \in 1..NLogical(t) |-> Tenths(t[get_part_by_blkorder(t, FD_NUMPART + k)])]
      used == {k \in DOMAIN size : t[get_part_by_blkorder(t, FD_NUMPART + k)].type # "unused"}
  IN Max({1, SumOf(size, {k \in DOMAIN size : \E u \in used : k <= u})})

Lowest(t, e) == IF e.type = "extended" THEN get_extended_partition_min_size(t) ELSE IF e.type = "unused" THEN 0 ELSE 1
Highest(t, L, e) == IF Lowest(t, e) = 0 THEN 0 ELSE Avail(L, e, BlockType(L, e))
InRange(v, t, L, e) == Clamp(v, Lowest(t, e), Highest(t, L, e))

primary_update_avail_space(c) ==
  [c EXCEPT !.rows = [k \in Prims |-> [@[k] EXCEPT !.spin = InRange(@, c.p, c.prim, c.p[EntryAt(c, k)])]]]
logical_update_avail_space(c) ==
  LET x == ExtendedRow(c)
      Entry(j) == c.p[EntryAt(c, FD_NUMPART + j)]
      Ranged(j, r) == IF j > NLogical(c.p) THEN r ELSE [r EXCEPT !.spin = InRange(@, c.p, c.logi, Entry(j))]
      ext == c.p[EntryAt(c, x)]
  IN IF x = 0 THEN c
     ELSE [c EXCEPT !.logicals[x] = [j \in DOMAIN @ |-> Ranged(j, @[j])],
                    !.rows[x].spin = Clamp(@, get_extended_partition_min_size(c.p),
                                           Avail(c.prim, ext, BlockType(c.prim, ext)))]
-----------------------------------------------------------------------------
(* disk_partitioning_set_from_parts_data: the rows of a table. What        *)
(* differs from the table found on the disk, and every Solaris partition,  *)
(* is marked as changed: it will lose its data.                            *)
PrimaryRow(t, orig, L, e, readable) ==
  LET o == get_part_by_id(orig, e.id)
      resized == o # 0 /\ orig[o].mb # e.mb
      combo == ComboOf(e)
  IN [combo |-> combo, initial |-> TRUE, typechange |-> o # 0 /\ orig[o].type # e.type,
      sizechange |-> IF combo = "solaris" THEN readable ELSE combo # "unused" /\ resized,
      spin |-> InRange(Tenths(e), t, L, e)]
LogicalRow(t, orig, L, e, readable) ==
  LET o == get_part_by_id(orig, e.id)
      combo == ComboOf(e)
  IN [combo |-> combo, extra |-> combo = "other", typechange |-> o # 0 /\ orig[o].type # e.type,
      sizechange |-> IF combo = "solaris" THEN readable ELSE combo = "other" /\ o # 0 /\ orig[o].mb # e.mb,
      spin |-> InRange(Tenths(e), t, L, e)]
Rows(d, orig, readable) ==
  [k \in Prims |-> PrimaryRow(d.p, orig, d.prim, d.p[EntryAt(d, k)], readable)]
LogicalRows(d, orig, readable) ==
  [k \in Prims |->
     IF d.p[EntryAt(d, k)].type # "extended" THEN <<>>
     ELSE [j \in 1..NLogical(d.p) |-> LogicalRow(d.p, orig, d.logi, d.p[EntryAt(d, FD_NUMPART + j)], readable)]]
NewRow == [combo |-> "unused", extra |-> FALSE, typechange |-> TRUE, sizechange |-> FALSE, spin |-> 0]

(* update_blkorder_from_partinfo *)
Synced(L, e) ==
  LET b == block_by_id(L, e.id) IN IF b = 0 THEN L ELSE [L EXCEPT ![b].mb = e.mb, ![b].type = e.type]

(* The rows that changed are read into the table and the order of blocks.  *)
FromRow(e, r, size, type) ==
  LET tenths == IF r.combo = "unused" THEN Tenths(e) ELSE r.spin
  IN [e EXCEPT !.mb = IF size THEN om_gbtomb(tenths) ELSE @, !.type = IF type THEN TypeOf(r.combo, e) ELSE @]
update_logical_disk_partitions_from_ui(c) ==
  LET x == ExtendedRow(c)
      Read(acc, j) ==
        LET i == EntryAt(acc, FD_NUMPART + j)
            r == c.logicals[x][j]
            e == FromRow(acc.p[i], r, r.sizechange, r.typechange)
        IN IF r.sizechange \/ r.typechange THEN [acc EXCEPT !.p[i] = e, !.logi = Synced(@, e)] ELSE acc
  IN IF x = 0 \/ c.p[EntryAt(c, x)].type # "extended" THEN c
     ELSE FoldLeft(Read, c, [j \in 1..Min({NLogical(c.p), Len(c.logicals[x])}) |-> j])
update_disk_partitions_from_ui(c, readable) ==
  LET Read(acc, k) ==
        LET i == EntryAt(acc, k)
            r == c.rows[k]
            e == FromRow(acc.p[i], r, ~readable \/ r.sizechange, ~readable \/ r.typechange)
        IN IF readable /\ ~r.sizechange /\ ~r.typechange THEN acc
           ELSE [acc EXCEPT !.p[i] = e, !.prim = Synced(@, e)]
  IN update_logical_disk_partitions_from_ui(FoldLeft(Read, c, [k \in Prims |-> k]))
-----------------------------------------------------------------------------
(* logical_partition_remove and logical_partition_remove_ui: the block at  *)
(* b, its row and its entry; the slots behind it move up.                  *)
MovedUp(t, k) ==
  LET last == FD_NUMPART + NLogical(t)
      Next1(i) == IF i = OM_NUMPART THEN Zero ELSE t[i + 1]
  IN [i \in Entries |-> IF i \notin k..last THEN t[i] ELSE [Next1(i) EXCEPT !.order = IF @ > 0 THEN @ - 1 ELSE 0]]
logical_partition_remove(c, b) ==
  LET at == {k \in 1..NLogical(c.p) : c.p[EntryAt(c, FD_NUMPART + k)].id = c.logi[b].id}
      rest == RemoveAt(c.logi, b)
      x == ExtendedRow(c)
  IN [c EXCEPT !.p = IF at = {} THEN @ ELSE MovedUp(@, FD_NUMPART + Min(at)),
               !.logi = [a \in DOMAIN rest |-> IF a < b THEN rest[a] ELSE [rest[a] EXCEPT !.order = @ - 1]],
               !.logicals[x] = IF b \in DOMAIN @ THEN RemoveAt(@, b) ELSE @]
(* Mutant: the widgets of the logical partitions are not removed.          *)
RemoveAllButRows(c, k) ==
  LET gone == {EntryAt(c, FD_NUMPART + j) : j \in 1..NLogical(c.p)}
  IN [c EXCEPT !.p = [i \in Entries |-> IF i \in gone THEN Zero ELSE @[i]], !.logi = <<>>]
logical_partitions_remove_all(c, k) ==
  LET gone == {EntryAt(c, FD_NUMPART + j) : j \in 1..NLogical(c.p)}
  IN [c EXCEPT !.p = [i \in Entries |-> IF i \in gone THEN Zero ELSE @[i]], !.logi = <<>>, !.logicals[k] = <<>>]

(* create_logical_partition: a new unused partition at place k, or behind  *)
(* the one that has it: then the slots behind move on, with the unused one *)
(* that ends them, whose order becomes 1.                                  *)
MakeRoom(t, k) ==
  LET past == FD_NUMPART + NLogical(t) + 1
  IN [i \in Entries |-> IF i = k + 1 THEN Zero
                        ELSE IF i \in (k + 2)..(past + 1) THEN [t[i - 1] EXCEPT !.order = @ + 1] ELSE t[i]]
Inserted(L, b, at, moved) ==
  SubSeq(L, 1, at) \o <<b>> \o [a \in 1..(Len(L) - at) |-> [L[at + a] EXCEPT !.order = @ + moved]]
Placed(c, made, at, moved, mb, off) ==
  LET e == [made.p[made.slot] EXCEPT !.mb = mb, !.off = off]
  IN IF made.slot = 0 THEN c
     ELSE [c EXCEPT !.p = [made.p EXCEPT ![made.slot] = e], !.logi = Inserted(@, BlockOf(e, FALSE), at, moved)]
create_logical_partition(c, k, mb, off) ==
  IF EntryAt(c, k) # 0
  THEN Placed(c, find_unused(MakeRoom(c.p, k), Logicals, k + 1), block_by_order(c.logi, k), 1, mb, off)
  ELSE Placed(c, find_unused(c.p, Logicals, k), Len(c.logi), 0, mb, off)
create_logical_partition_ui(c, k, j, row) == [c EXCEPT !.logicals[k] = InsertAt(@, j, row)]
OnlyLogical(c, k, row) ==
  LET e == c.p[EntryAt(c, k)]
  IN create_logical_partition_ui(create_logical_partition(c, FD_NUMPART + 1, e.mb, e.off), k, 1, row)
-----------------------------------------------------------------------------
(* Space that a partition takes from a gap, or gives to it; a rest that    *)
(* cannot be shown is dropped.                                             *)
Taken(mb, diff) ==
  LET left == mb - om_gbtomb(diff)
  IN IF diff < 0 THEN [mb |-> left, diff |-> 0]
     ELSE IF left >= 0 THEN [mb |-> IF om_round_mbtogb(left) = 0 THEN 0 ELSE left, diff |-> 0]
     ELSE [mb |-> 0, diff |-> diff - om_round_mbtogb(mb)]

(* update_partinfo_from_blkorder *)
SyncEntry(t, slots, b) ==
  LET at == {i \in slots : t[i].id = b.id} IN IF at = {} THEN t ELSE [t EXCEPT ![Min(at)].mb = b.mb]
(* update_partinfo_from_blkorder_and_display: the neighbour in the order.  *)
Display(c, k, b) ==
  LET i == EntryAt(c, IF k < FD_NUMPART THEN k + 1 ELSE k - 1)
  IN IF c.p[i].type # "unused" THEN c
     ELSE [c EXCEPT !.p[i].mb = c.prim[b].mb, !.prim[b].id = c.p[i].id, !.prim[b].order = c.p[i].order,
                    !.prim[b].shown = TRUE]

(* One block of the walk away from the partition, up or down.              *)
TakePrimary(c, k, b, mb) ==
  LET d == [c EXCEPT !.prim[b].mb = mb]
  IN IF c.prim[b].id # 0 THEN [d EXCEPT !.p = SyncEntry(@, Prims, d.prim[b])]
     ELSE IF mb = 0 THEN [c EXCEPT !.prim = RemoveAt(@, b)]
     ELSE IF om_round_mbtogb(mb) > 0 THEN Display(d, k, b) ELSE d
TakeLogical(c, b, mb) ==
  LET d == [c EXCEPT !.logi[b].mb = mb]
      synced == [d EXCEPT !.p = SyncEntry(@, Logicals, d.logi[b])]
  IN IF mb = 0 THEN logical_partition_remove(synced, b) ELSE synced
Walk(c, list, k, from, step, diff) ==
  LET Go(acc, n) ==
        LET L == acc.c[list]
            took == Taken(L[acc.at].mb, acc.diff)
            d == IF list = "prim" THEN TakePrimary(acc.c, k, acc.at, took.mb) ELSE TakeLogical(acc.c, acc.at, took.mb)
        IN IF acc.diff = 0 \/ acc.at \notin DOMAIN L THEN acc
           ELSE IF L[acc.at].type # "unused" THEN [acc EXCEPT !.at = 0]
           ELSE IF L[acc.at].mb = 0 /\ acc.diff > 0 THEN [acc EXCEPT !.at = @ + step]
           ELSE [c |-> d, diff |-> took.diff, at |-> IF Len(d[list]) < Len(L) /\ step = 1 THEN acc.at ELSE acc.at + step]
  IN FoldLeft(Go, [c |-> c, diff |-> diff, at |-> from], [n \in 1..Len(c[list]) |-> n])

(* update_primary_unused_partition_size_from_ui *)
InsertDisplayed(c, k, mb) ==
  LET i == EntryAt(c, k)
      missing == LeastOf({o \in Prims : block_by_order(c.prim, o) = 0})
      at == IF missing = 0 THEN 0 ELSE block_by_order(c.prim, missing - 1)
      new == [BlockOf(c.p[i], TRUE) EXCEPT !.mb = mb, !.type = "unused", !.off = 0]
  IN [c EXCEPT !.p[i].mb = mb, !.prim = IF at = 0 THEN @ ELSE InsertAt(@, at + 1, new)]
empty_partinfo_sync(c, b, g) ==
  LET i == EntryAt(c, c.prim[b].order + 1)
  IN IF c.prim[b].order >= FD_NUMPART \/ i = 0 \/ \E a \in (b + 1)..Len(c.prim) : c.prim[a].order > c.prim[b].order THEN c
     ELSE [c EXCEPT !.p[i].mb = c.prim[g].mb, !.prim[g].id = c.p[i].id, !.prim[g].order = c.p[i].order,
                    !.prim[g].shown = TRUE]
GapBehind(c, b, mb) == empty_partinfo_sync([c EXCEPT !.prim = InsertAt(@, b + 1, Gap(mb, 0))], b, b + 1)
AboveThen(down, k, id) ==
  LET b == block_by_id(down.c.prim, id)
  IN IF down.diff < 0 THEN GapBehind(down.c, b, om_gbtomb(-down.diff))
     ELSE Walk(down.c, "prim", k, b - 1, -1, down.diff).c
BelowFirst(c, k, id, diff) ==
  LET b == block_by_id(c.prim, id)
  IN IF b = 0 THEN c ELSE AboveThen(Walk(c, "prim", k, b + 1, 1, diff), k, id)
update_primary_unused(c, k, diff) ==
  LET id == c.p[EntryAt(c, k)].id
  IN BelowFirst(IF block_by_id(c.prim, id) = 0 THEN InsertDisplayed(c, k, om_gbtomb(diff)) ELSE c, k, id, diff)

(* update_logical_unused_partition_size_from_ui *)
LogicalGapBehind(c, b, mb) ==
  create_logical_partition_ui(create_logical_partition(c, FD_NUMPART + b, mb, 0), Extended(c.p), b + 1, NewRow)
LogicalAboveThen(down, id) ==
  LET b == block_by_id(down.c.logi, id)
  IN IF down.diff < 0 THEN LogicalGapBehind(down.c, b, om_gbtomb(-down.diff))
     ELSE Walk(down.c, "logi", 0, b - 1, -1, down.diff).c
update_logical_unused(c, j, diff) ==
  LET id == c.p[EntryAt(c, FD_NUMPART + j)].id
      b == block_by_id(c.logi, id)
  IN IF diff = 0 \/ b = 0 THEN c ELSE LogicalAboveThen(Walk(c, "logi", 0, b + 1, 1, diff), id)

(* update_extended_partition: the first change of its size destroys the    *)
(* logical partitions; later ones go to the unused space at their end, or  *)
(* are taken from the end.                                                 *)
CutLogical(acc, n) ==
  LET at == acc.at
      cut == om_gbtomb(-acc.diff)
      left == acc.c.logi[at].mb - cut
      mb == IF left < 0 \/ om_round_mbtogb(left) = 0 THEN 0 ELSE left
  IN IF acc.diff = 0 \/ at = 0 THEN acc
     ELSE [c |-> TakeLogical(acc.c, at, mb), at |-> at - 1,
           diff |-> IF left >= 0 THEN 0 ELSE acc.diff + Tenths(acc.c.logi[at])]
GrowLogical(c, k, diff) ==
  LET b == Len(c.logi)
      d == [c EXCEPT !.logi[b].mb = @ + om_gbtomb(diff)]
  IN IF c.logi[b].type = "unused" THEN [d EXCEPT !.p = SyncEntry(@, Logicals, d.logi[b])]
     ELSE create_logical_partition_ui(create_logical_partition(c, FD_NUMPART + NLogical(c.p) + 1, om_gbtomb(diff), 0),
                                      k, Len(c.logicals[k]) + 1, NewRow)
update_extended_partition(c, k, diff) ==
  LET emptied == [logical_partitions_remove_all(c, k) EXCEPT !.rows[k].initial = FALSE]
      cut == FoldLeft(CutLogical, [c |-> c, at |-> Len(c.logi), diff |-> diff], [n \in DOMAIN c.logi |-> n])
  IN IF c.p[EntryAt(c, k)].type # "extended" THEN c
     ELSE logical_update_avail_space(
            IF c.rows[k].initial THEN OnlyLogical(emptied, k, [NewRow EXCEPT !.sizechange = TRUE])
            ELSE IF diff > 0 THEN GrowLogical(c, k, diff) ELSE cut.c)
-----------------------------------------------------------------------------
(* The handlers of the rows. A partition that was unused and without a     *)
(* size is given a tenth of a gigabyte from the gaps next to it.           *)
Offered(c, k, combo) ==
  LET e == c.p[EntryAt(c, k)] IN [c EXCEPT !.rows[k].spin = Clamp(Tenths(e), 1, Avail(c.prim, e, TypeOf(combo, e)))]
Sized(c, k, was, combo) ==
  IF combo = "unused" THEN [c EXCEPT !.rows[k].spin = 0]
  ELSE IF was = "unused"
  THEN Offered(IF c.p[EntryAt(c, k)].mb = 0 THEN update_primary_unused(c, k, 1) ELSE c, k, combo)
  ELSE IF combo = "extended"
  THEN [c EXCEPT !.rows[k].spin = InRange(Tenths(c.p[EntryAt(c, k)]), c.p, c.prim, c.p[EntryAt(c, k)])]
  ELSE c
Emptied(c, k, combo) ==
  IF combo # "extended" /\ c.logicals[k] # <<>> THEN logical_partitions_remove_all(c, k) ELSE c
Filled(c, k, combo) == IF combo = "extended" /\ c.logicals[k] = <<>> THEN OnlyLogical(c, k, NewRow) ELSE c
Flagged(c, k) == [c EXCEPT !.rows[k].typechange = TRUE, !.rows[k].sizechange = TRUE, !.rows[k].initial = FALSE]
partition_combo_changed(c, k, combo, readable) ==
  LET set == [IF readable THEN Flagged(c, k) ELSE c EXCEPT !.rows[k].combo = combo]
      made == Filled(Sized(Emptied(set, k, combo), k, c.rows[k].combo, combo), k, combo)
  IN IF combo = "extended" /\ \E o \in Prims \ {k} : c.logicals[o] # <<>> THEN c
     ELSE primary_update_avail_space(update_disk_partitions_from_ui(made, readable))
logical_partition_combo_changed(c, x, j, combo, readable) ==
  LET e == c.p[EntryAt(c, FD_NUMPART + j)]
      spin == IF combo = "unused" THEN 0
              ELSE IF c.logicals[x][j].combo = "unused" THEN Clamp(Tenths(e), 1, Avail(c.logi, e, "unused"))
              ELSE c.logicals[x][j].spin
      set == [c EXCEPT !.logicals[x][j].combo = combo, !.logicals[x][j].spin = spin,
                       !.logicals[x][j].typechange = @ \/ readable, !.logicals[x][j].sizechange = @ \/ readable]
  IN logical_update_avail_space(update_disk_partitions_from_ui(set, readable))
partition_spinner_value_changed(c, k, v, readable) ==
  LET diff == v - Tenths(c.p[EntryAt(c, k)])
      set == [c EXCEPT !.rows[k].spin = v, !.rows[k].sizechange = @ \/ readable]
      Done(d) == primary_update_avail_space(update_disk_partitions_from_ui(d, readable))
  IN IF diff = 0 THEN Done(set) ELSE update_extended_partition(Done(update_primary_unused(set, k, diff)), k, diff)
logical_partition_spinner_value_changed(c, x, j, v, readable) ==
  LET diff == v - Tenths(c.p[EntryAt(c, FD_NUMPART + j)])
      set == [c EXCEPT !.logicals[x][j].spin = v, !.logicals[x][j].sizechange = TRUE]
  IN logical_update_avail_space(update_disk_partitions_from_ui(update_logical_unused(set, j, diff), readable))
-----------------------------------------------------------------------------
(* collapse_partitions: before the table is given to the orchestrator its  *)
(* unused primary partitions give up their place in the order, the changed *)
(* logical ones their offset, and every entry goes to the slot of its id.  *)
(* The entry that comes in exchange is not looked at again.                *)
Swap(t, i, j) == [t EXCEPT ![i] = t[j], ![j] = t[i]]
ToItsSlot(t, i) == IF t[i].id # 0 /\ t[i].id # i THEN Swap(t, i, t[i].id) ELSE t
collapse_primary(t, i) ==
  LET closed == [j \in Entries |-> IF j \in Prims /\ t[j].order > t[i].order THEN [t[j] EXCEPT !.order = @ - 1] ELSE t[j]]
  IN ToItsSlot(IF t[i].type = "unused" THEN [closed EXCEPT ![i] = Zero] ELSE t, i)
installationdisk_partinfo_changed(orig, e) ==
  LET same == LeastOf({o \in Entries : orig[o].id = e.id})
  IN same # 0 /\ (orig[same].mb # e.mb \/ orig[same].type # e.type)
collapse_logical(orig, acc, i) ==
  LET kept == [acc.t[i] EXCEPT !.off = IF installationdisk_partinfo_changed(orig, acc.t[i]) THEN 0 ELSE @,
                               !.size = IF installationdisk_partinfo_changed(orig, acc.t[i]) THEN 0 ELSE @]
      placed == [acc.t EXCEPT ![i] = [kept EXCEPT !.order = acc.order + 1]]
  IN IF kept.type = "unused"
     THEN [acc EXCEPT !.t[i] = [kept EXCEPT !.mb = 0, !.id = 0, !.order = 0], !.hole = IF @ = 0 THEN i ELSE @]
     ELSE [t |-> IF acc.hole = 0 THEN placed ELSE Swap(placed, acc.hole, i), order |-> acc.order + 1,
           hole |-> IF acc.hole = 0 THEN 0 ELSE i]
collapse_partitions(t, orig) ==
  LET logical == [k \in 1..(OM_NUMPART - FD_NUMPART) |-> FD_NUMPART + k]
      prims == FoldLeft(collapse_primary, t, [k \in Prims |-> k])
      packed == FoldLeft(LAMBDA acc, i : collapse_logical(orig, acc, i),
                         [t |-> prims, order |-> FD_NUMPART, hole |-> 0], logical)
  IN FoldLeft(ToItsSlot, packed.t, logical)

(* installationdisk_validate: what keeps the user on the screen.           *)
UsedMb(t, slots) == SumOf([i \in Entries |-> t[i].mb], {i \in slots : t[i].type # "unused"})
Acceptable(t) ==
  LET solaris == {i \in Entries : Solaris(t[i])}
      ext == {i \in Entries : t[i].type = "extended"}
      extMb == IF ext = {} THEN 0 ELSE t[Max(ext)].mb
  IN /\ Cardinality(solaris) = 1
     /\ UsedMb(t, Prims) - SizeMb <= Gb \div 10 /\ UsedMb(t, Logicals) - extMb <= Gb \div 10
     /\ \A i \in solaris : t[i].order > 0 /\ Tenths(t[i]) >= om_round_mbtogb(MinMb)

(* disk_partitions_match: sizes are unsigned, a larger one never matches.  *)
disk_partitions_match(old, new) ==
  LET SizeAt(t, k) == IF get_part_by_blkorder(t, k) = 0 THEN -1 ELSE t[get_part_by_blkorder(t, k)].mb
  IN \A k \in Entries : (SizeAt(old, k) - SizeAt(new, k)) % DsWidth <= (100 * Gb) \div 1024
-----------------------------------------------------------------------------
proposed == IF whole THEN defaults[shown] ELSE layouts[shown].p
Opened(n, d) ==
  [p |-> d.p, prim |-> d.prim, logi |-> d.logi,
   rows |-> Rows(d, OriginalTable(n), Readable(n)), logicals |-> LogicalRows(d, OriginalTable(n), Readable(n))]
Current == [p |-> layouts[shown].p, prim |-> layouts[shown].prim, logi |-> layouts[shown].logi,
            rows |-> rows, logicals |-> logicals]
Put(c) ==
  /\ layouts' = [layouts EXCEPT ![shown] = [p |-> c.p, prim |-> c.prim, logi |-> c.logi]]
  /\ rows' = c.rows /\ logicals' = c.logicals
Fresh(n) == Laid(OriginalTable(n))

DsInit ==
  /\ disks \in Machines
  /\ shown \in get_default_disk_index /\ whole = ~Usable(shown) /\ passed = FALSE
  /\ defaults = [n \in DOMAIN disks |-> DefaultTable]
  /\ layouts = [n \in DOMAIN disks |-> Fresh(n)]
  /\ modified = {} /\ committed = <<>> /\ changes = 0
  /\ rows = Opened(shown, layouts[shown]).rows /\ logicals = Opened(shown, layouts[shown]).logicals

(* disk_selection_set_active_disk, by the button of another disk. The rows *)
(* of a disk that is too small are not loaded, and cannot be used.         *)
disk_selection_set_active_disk(n) ==
  /\ ~passed /\ n # shown
  /\ shown' = n /\ whole' = (whole \/ ~Usable(n))
  /\ IF Usable(n) THEN rows' = Opened(n, layouts[n]).rows /\ logicals' = Opened(n, layouts[n]).logicals
     ELSE UNCHANGED <<rows, logicals>>
  /\ UNCHANGED <<disks, passed, defaults, layouts, modified, committed, changes>>

(* The radio buttons above the rows.                                       *)
wholediskradio_toggled ==
  /\ ~passed /\ Usable(shown) /\ whole' = ~whole
  /\ UNCHANGED <<disks, shown, passed, defaults, layouts, modified, rows, logicals, committed, changes>>

MayEdit == ~passed /\ ~whole /\ Usable(shown) /\ changes < MaxChanges
(* Bound: without a slot for another logical partition the program ends,   *)
(* g_assert(logpartinfo); there are 32 of them.                            *)
SlotLeft == find_unused(Current.p, Logicals, 0).slot # 0
Change(c) ==
  /\ Put(c) /\ modified' = modified \cup {shown} /\ changes' = changes + 1
  /\ UNCHANGED <<disks, shown, whole, passed, defaults, committed>>

(* The combo of a row that is unused and has no space is insensitive.      *)
ChangePrimaryType(k) ==
  /\ MayEdit
  /\ rows[k].combo \in {"solaris", "extended"} \/ Avail(Current.prim, Current.p[EntryAt(Current, k)],
                                                         BlockType(Current.prim, Current.p[EntryAt(Current, k)])) > 0
  /\ \E combo \in {"unused", "solaris", "extended"} \ {rows[k].combo} :
        Change(partition_combo_changed(Current, k, combo, Readable(shown)))
ChangeLogicalType(k, j) ==
  LET items == {"unused", "solaris"} \cup {t \in {"other"} : logicals[k][j].extra}
  IN MayEdit /\ \E combo \in items \ {logicals[k][j].combo} :
       Change(logical_partition_combo_changed(Current, k, j, combo, Readable(shown)))
SpinValues(t, L, e) == {Lowest(t, e), (Lowest(t, e) + Highest(t, L, e)) \div 2, Highest(t, L, e)}
(* An extended partition whose last logical one was cut away cannot grow   *)
(* again: the end of an empty list is dereferenced, the program ends.      *)
ChangePrimarySize(k) ==
  /\ MayEdit /\ SlotLeft /\ rows[k].combo \in {"solaris", "extended"}
  /\ \E v \in SpinValues(Current.p, Current.prim, Current.p[EntryAt(Current, k)]) \ {rows[k].spin} :
        /\ rows[k].combo = "extended" /\ ~rows[k].initial /\ v > Tenths(Current.p[EntryAt(Current, k)]) => Current.logi # <<>>
        /\ Change(partition_spinner_value_changed(Current, k, v, Readable(shown)))
ChangeLogicalSize(k, j) ==
  /\ MayEdit /\ SlotLeft /\ logicals[k][j].combo = "solaris"
  /\ \E v \in SpinValues(Current.p, Current.logi, Current.p[EntryAt(Current, FD_NUMPART + j)]) \ {logicals[k][j].spin} :
        Change(logical_partition_spinner_value_changed(Current, k, j, v, Readable(shown)))

(* A place of the order without an entry ends the program: g_assert().     *)
disk_partitioning_reset_button_clicked ==
  /\ ~passed /\ ~whole /\ Usable(shown) /\ shown \in modified
  /\ \E d \in {initialize_default_partition_layout(
                 [get_blkorder_layout(OriginalTable(shown)) EXCEPT !.p = IF Readable(shown) THEN @ ELSE defaults[shown]])} :
       (\A k \in Prims : EntryAt(d, k) # 0) /\ Put(Opened(shown, d))
  /\ modified' = modified \ {shown}
  /\ UNCHANGED <<disks, shown, whole, passed, defaults, committed, changes>>

(* installationdisk_validate and installation_disk_store_data, by the next *)
(* button. The table the orchestrator returns replaces the proposed one;   *)
(* when that shows, the user may stay, and the screen is laid out again.   *)
Returned == DP!Validated(collapse_partitions(proposed, OriginalTable(shown)),
                          IF Readable(shown) THEN disks[shown].table ELSE DP!NoTable, TRUE)
installation_disk_store_data == committed' = Returned
installationdisk_validate ==
  /\ ~passed /\ Usable(shown) /\ Acceptable(proposed)
  /\ IF whole THEN defaults' = [defaults EXCEPT ![shown] = Returned] /\ UNCHANGED layouts
     ELSE layouts' = [layouts EXCEPT ![shown].p = Returned] /\ UNCHANGED defaults
  /\ passed' = TRUE /\ installation_disk_store_data
  /\ UNCHANGED <<disks, shown, whole, modified, rows, logicals, changes>>
restore_unused_partitions(t) == Put(Opened(shown, Laid(t)))
ReviewAdjustments ==
  /\ MayEdit /\ Acceptable(proposed)
  /\ ~disk_partitions_match(collapse_partitions(proposed, OriginalTable(shown)), Returned)
  /\ restore_unused_partitions(Returned) /\ changes' = changes + 1
  /\ UNCHANGED <<disks, shown, whole, passed, defaults, modified, committed>>

(* By the back button of the next screen.                                  *)
GoBack ==
  /\ passed /\ passed' = FALSE /\ changes < MaxChanges /\ changes' = changes + 1
  /\ IF whole THEN UNCHANGED <<layouts, rows, logicals>> ELSE restore_unused_partitions(layouts[shown].p)
  /\ UNCHANGED <<disks, shown, whole, defaults, modified, committed>>

DsNext ==
  \/ \E n \in DOMAIN disks : disk_selection_set_active_disk(n)
  \/ \E k \in Prims : ChangePrimaryType(k) \/ ChangePrimarySize(k)
  \/ \E k \in Prims : \E j \in DOMAIN logicals[k] : ChangeLogicalType(k, j) \/ ChangeLogicalSize(k, j)
  \/ wholediskradio_toggled \/ disk_partitioning_reset_button_clicked
  \/ installationdisk_validate \/ ReviewAdjustments \/ GoBack
DsSpec == DsInit /\ [][DsNext]_dsVars
-----------------------------------------------------------------------------
(* Properties *)

(* Whatever was edited, the screen shows what it will give to the          *)
(* installation: every place of the order has exactly one of the primary   *)
(* entries, the row of that place shows its type, no two of them share an  *)
(* id, and only an extended partition has rows below it (find_unused,      *)
(* update_disk_partitions_from_ui, partition_combo_changed).               *)
RowsAreInStep ==
  Usable(shown) /\ ~passed =>
    /\ \A k \in Prims :
         /\ Cardinality({i \in Prims : Current.p[i].order = k}) = 1
         /\ rows[k].combo = ComboOf(Current.p[EntryAt(Current, k)])
         /\ logicals[k] # <<>> => rows[k].combo = "extended"
    /\ \A i, j \in Prims : Current.p[i].id = Current.p[j].id => i = j \/ Current.p[i].id = 0

(* A partition that was found on the disk, and whose row does not warn     *)
(* that its data will be lost, is handed to the installation exactly as it *)
(* was found: its id, type, place and size, though perhaps in another slot *)
(* of the table. What the user did to its neighbours, went back on or laid *)
(* out again does not matter.                                              *)
Kept(n, id) ==
  LET found == disks[n].table[id]
      Same(e) == e.type = found.type /\ e.off = found.off /\ e.size = found.size /\ e.mb = found.mb
  IN found.type = "unused" \/ \E i \in Entries : committed[i].id = id /\ Same(committed[i])
Promised(r) == ~r.typechange /\ ~r.sizechange /\ r.combo # "unused"
KeptPartitionsStay ==
  passed /\ ~whole /\ Readable(shown) =>
    \A k \in Prims :
      /\ Promised(rows[k]) => Kept(shown, layouts[shown].prim[block_by_order(layouts[shown].prim, k)].id)
      /\ \A j \in DOMAIN logicals[k] : Promised(logicals[k][j]) => Kept(shown, layouts[shown].logi[j].id)

(* The user goes on with exactly one Solaris partition; no id is given     *)
(* twice, and no partition leaves the disk (installationdisk_validate,     *)
(* collapse_partitions, om_validate_and_resize_disk_partitions).           *)
PartEnd(e) == e.off + e.size
CommittedFits ==
  passed =>
    /\ Cardinality({i \in Entries : Solaris(committed[i])}) = 1
    /\ \A i, j \in Entries : committed[i].id = committed[j].id => i = j \/ committed[i].id = 0
    /\ \A i \in Entries : PartEnd(committed[i]) <= SizeMb

(* The screen, what it promises and what it hands over, after any edits    *)
(* and going back (installation-disk-screen.c).                            *)
ScreenIsRight == RowsAreInStep /\ KeptPartitionsStay /\ CommittedFits

(* "If the partition overlaps with subsequent one which is in use and that *)
(* partition was not changed, adjust size accordingly": the primary        *)
(* partitions handed to the installation do not overlap.                   *)
PartitionsAreApart ==
  LET used == {i \in Prims : passed /\ committed[i].type # "unused"}
  IN \A i, j \in used : i = j \/ PartEnd(committed[i]) <= committed[j].off \/ PartEnd(committed[j]) <= committed[i].off
=============================================================================
