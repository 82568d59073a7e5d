----------------------------- MODULE DiskParts -----------------------------
(***************************************************************************)
(* The partition editor of the orchestrator, disk_parts.c: the table of    *)
(* fdisk partitions of the disk to install on, edited by size and offset,  *)
(* validated against the table found on the disk, and turned into the      *)
(* attributes of the target instantiation library.                         *)
(***************************************************************************)
EXTENDS Integers, Sequences, FiniteSets, FiniteSetsExt, SequencesExt

CONSTANTS
  NumPrim,   \* FD_NUMPART: primary partitions
  NumPart,   \* OM_NUMPART: with the logical ones
  Mb,        \* BLOCKS_TO_MB: sectors of a megabyte
  Cyl,       \* sectors of a cylinder, disk_cyl_size
  Pad,       \* LOGICAL_PARTITION_PAD: sectors before a logical partition
  DiskSec,   \* disk_size_sec
  Width,     \* the unsigned integers wrap at this value
  Found,     \* tables target discovery may have found; NoTable for none
  MaxEdits   \* bound on the calls of the editor

Slots == 1..NumPart
DiskMb == DiskSec \div Mb
Unused == [type |-> "unused", swap |-> FALSE, id |-> 0, order |-> 0, off |-> 0, size |-> 0, mb |-> 0]
NoTable == [i \in Slots |-> Unused]

ASSUME DpAssumption ==
  /\ NumPrim \in Nat \ {0} /\ NumPart \in Nat /\ NumPart > NumPrim
  /\ {Mb, Cyl, Pad, DiskSec} \subseteq Nat \ {0} /\ Width \in Nat /\ Width > 2 * DiskSec
  /\ DiskSec >= Mb /\ MaxEdits \in Nat

Used(p) == p.type \notin {"none", "unused"}
Logical(i) == i > NumPrim
ExtSlots(t) == {i \in Slots : t[i].type = "extended"}
Unsigned == 0..(Width - 1)
Types == {"solaris2", "solaris", "other", "extended"}
PartEntry == [type : Types \cup {"none", "unused"}, swap : BOOLEAN, id : 0..NumPart,
              order : 0..NumPart, off : Unsigned, size : Unsigned, mb : Unsigned]
(* What target discovery finds: an entry in use is in the slot of its      *)
(* number, one that has a size is in use, and there are logical partitions *)
(* only in an extended one.                                                *)
ASSUME FoundAssumption ==
  \A t \in Found :
    /\ t \in [Slots -> PartEntry]
    /\ \A i \in Slots : /\ t[i].mb # 0 => Used(t[i])
                        /\ Used(t[i]) => t[i].id = i
                        /\ Used(t[i]) /\ Logical(i) => ExtSlots(t) # {}

VARIABLES
  dpFound,    \* system_disks[..].dparts: the table on the disk
  dpTable,    \* committed_disk_target->dparts
  dpTouched,  \* slots the caller created or deleted
  whole_disk, \* global: install on the whole disk
  dpAsked,    \* attributes set for the target instantiation, or NoAttrs
  dpEdits     \* calls of the editor so far

dpVars == <<dpFound, dpTable, dpTouched, whole_disk, dpAsked, dpEdits>>

NoAttrs == [set |-> FALSE]
U(n) == n % Width
End(p) == U(p.off + p.size)

(* The extended partition of a table is the first of its kind. *)
Ext(t) == t[Min(ExtSlots(t))]
NParts(t) == IF ExtSlots(t) = {} THEN NumPrim ELSE NumPart

is_resized(old, new) == old.mb # new.mb
is_changed(old, new) == is_resized(old, new) \/ (old.type # new.type /\ new.mb # 0)
is_deleted(old, new) == old.mb # 0 /\ new.mb = 0

Kin(i) == {j \in Slots : Logical(j) = Logical(i)}
is_first_used(t, i) == t[i].order = IF Logical(i) THEN NumPrim + 1 ELSE 1
is_last_used(t, i) ==
  \A j \in Kin(i) : Used(t[j]) => t[j].order < t[i].order \/ (t[j].order = t[i].order /\ j <= i)
next_used(t, i) ==
  LET after == {j \in Slots : Used(t[j]) /\ t[j].order > t[i].order}
      first == {j \in after : \A k \in after : t[j].order <= t[k].order}
  IN IF after = {} THEN 0 ELSE Min(first)
previous_used(t, i) ==
  LET before == {j \in Kin(i) : t[j].order = t[i].order - 1}
  IN IF before = {} THEN 0 ELSE Min(before)
map_order_to_index(t, order) ==
  LET at == {i \in Slots : Used(t[i]) /\ t[i].order = order} IN IF at = {} THEN 0 ELSE Min(at)

resize_partition(p, by) ==
  [p EXCEPT !.off = U(@ + by), !.size = U(@ - by), !.mb = U(@ - by \div Mb)]
set_sec_from_mb(p) == [p EXCEPT !.size = U(p.mb * Mb)]
set_mb_from_sec(p) == [p EXCEPT !.mb = p.size \div Mb]

(* Where a partition of the table t may start: at the extended partition   *)
(* or behind the previous partition.                                       *)
FirstFree(t, i) == IF is_first_used(t, i) THEN Ext(t).off ELSE End(t[previous_used(t, i)])
logical_start_adjust(t, i, p) ==
  LET diff == p.off - FirstFree(t, i)
  IN IF Logical(i) /\ diff < Pad THEN resize_partition(p, Pad - diff) ELSE p

partition_end_adjust(t, i, p) ==
  LET limit == IF Logical(i) THEN End(Ext(t)) ELSE DiskSec
      over  == p.off + p.size - limit
  IN IF over <= 0 THEN p ELSE set_mb_from_sec([p EXCEPT !.size = U(@ - over)])

(* The sizes of the graphical screens are megabytes: the first partition   *)
(* leaves the first cylinder free, the others follow one another.          *)
GuiStart(t, i) ==
  LET p == t[i]
      placed == IF ~is_first_used(t, i) THEN [p EXCEPT !.off = End(t[previous_used(t, i)])]
                ELSE IF Logical(i) THEN [p EXCEPT !.off = Ext(t).off]
                ELSE [p EXCEPT !.off = Cyl, !.mb = U(@ - Cyl \div Mb)]
  IN logical_start_adjust(t, i, set_sec_from_mb(placed))

(* A partition ends where the next one starts when that one keeps its      *)
(* place; the next one is compared with the entry found in the same slot.  *)
GuiEnd(t, found, i, p) ==
  LET next == next_used(t, i)
      room == U(t[next].off - p.off)
  IN IF is_last_used(t, i) THEN partition_end_adjust(t, i, p)
     ELSE IF is_resized(found[next], t[next]) THEN p
     ELSE LET cut == IF End(p) <= t[next].off THEN p
                     ELSE set_mb_from_sec([p EXCEPT !.size = IF Logical(p.id) THEN U(room - Pad) ELSE room])
          IN partition_end_adjust(t, i, cut)

AiStart(t, i) ==
  LET p == t[i] IN
  IF p.off \in {0, Pad} THEN resize_partition(p, Cyl)
  ELSE IF ExtSlots(t) # {} /\ Logical(p.id) /\ Ext(t).off = p.off THEN resize_partition(p, Pad)
  ELSE p

(* One entry: unchanged sizes take the place found on the disk back.       *)
(* Mutant: entries of unchanged size are moved to a cylinder boundary.     *)
ResizeOneAligned(t, found, i, old, gui) ==
  [t EXCEPT ![i] = IF is_deleted(old, t[i]) THEN [t[i] EXCEPT !.off = 0, !.size = 0]
                   ELSE resize_partition(t[i], -t[i].off % Cyl)]
ResizeOne(t, found, i, old, gui) ==
  LET p == t[i] IN
  [t EXCEPT ![i] =
     IF ~is_resized(old, p) THEN [p EXCEPT !.off = old.off, !.size = old.size]
     ELSE IF is_deleted(old, p) THEN [p EXCEPT !.off = 0, !.size = 0]
     ELSE IF gui THEN GuiEnd([t EXCEPT ![i] = GuiStart(t, i)], found, i, GuiStart(t, i))
     ELSE AiStart(t, i)]

IsWhole(t) ==
  /\ t[1].mb = DiskMb /\ t[1].type = "solaris2"
  /\ \A i \in 2..NParts(t) : t[i].mb = 0 /\ ~Used(t[i])

(* om_validate_and_resize_disk_partitions *)
Validated(t, found, gui) ==
  LET n == NParts(t)
      Step(acc, j) ==
        LET i == IF gui THEN map_order_to_index(acc, j) ELSE j
        IN IF i = 0 THEN acc
           ELSE ResizeOne(acc, found, i, found[IF gui THEN acc[i].id ELSE i], gui)
  IN IF IsWhole(t) \/ \A i \in 1..n : ~is_changed(found[i], t[i])
     THEN t ELSE FoldLeft(Step, t, [j \in 1..n |-> j])
-----------------------------------------------------------------------------
(* The elements of S in the order of the pairs in before.                  *)
InOrder(S, before) ==
  [k \in 1..Cardinality(S) |-> CHOOSE i \in S : Cardinality({j \in S : <<j, i>> \in before}) = k - 1]
ByOffset(t, S) == {p \in S \X S : t[p[1]].off < t[p[2]].off \/ (t[p[1]].off = t[p[2]].off /\ p[1] < p[2])}

(* The table of free space: the regions between the used ones.             *)
Region(off, size) == [off |-> off, size |-> size]
SortedParts(t, logical) ==
  LET parts == {i \in Slots : t[i].mb # 0 /\ Logical(t[i].id) = logical}
  IN InOrder(parts, ByOffset(t, parts))

append_free_space_table(free, r) == IF r.size > 0 THEN Append(free, r) ELSE free
FreeSpace(t, logical) ==
  LET s     == SortedParts(t, logical)
      n     == Len(s)
      start == IF logical THEN Ext(t).off ELSE 0
      max   == IF logical THEN Ext(t).size ELSE DiskSec
      front == IF t[s[1]].off > start + (IF logical THEN Pad ELSE 0)
               THEN <<Region(start, t[s[1]].off)>> ELSE <<>>
      gaps  == [k \in 1..(n-1) |-> Region(End(t[s[k]]), U(t[s[k+1]].off - End(t[s[k]])))]
      back  == <<Region(End(t[s[n]]), U(max - End(t[s[n]])))>>
  IN IF logical /\ ExtSlots(t) = {} THEN [ok |-> FALSE, free |-> <<>>]
     ELSE IF n = 0 THEN [ok |-> TRUE, free |-> <<Region(start, max)>>]
     ELSE IF \E k \in 1..(n-1) : End(t[s[k]]) > t[s[k+1]].off THEN [ok |-> FALSE, free |-> <<>>]
     ELSE [ok |-> TRUE, free |-> FoldLeft(append_free_space_table, front, gaps \o back)]

Padded(r, logical) == IF logical THEN Region(U(r.off + Pad), U(r.size - Pad)) ELSE r
NoRegion == Region(0, 0)

find_largest_free_region(free, logical) ==
  LET Larger(best, r) == IF best = NoRegion \/ r.size > best.size THEN r ELSE best
      found == FoldLeft(Larger, NoRegion, free)
  IN IF found = NoRegion THEN found ELSE Padded(found, logical)

find_free_region_best_fit(free, size, logical) ==
  LET need == size + (IF logical THEN Pad ELSE 0)
      Closer(best, r) ==
        IF best = NoRegion THEN (IF r.size >= need THEN r ELSE best)
        ELSE IF r.size > need /\ r.size < best.size THEN r ELSE best
      found == FoldLeft(Closer, NoRegion, free)
  IN IF found = NoRegion THEN found ELSE Padded(found, logical)

find_unused_region_of_size(t, size, logical) ==
  LET table == FreeSpace(t, logical) IN
  IF ~table.ok THEN NoRegion
  ELSE IF size = 0 THEN find_largest_free_region(table.free, logical)
  ELSE find_free_region_best_fit(table.free, size, logical)
-----------------------------------------------------------------------------
DpInit ==
  /\ dpFound \in Found /\ dpTable = dpFound /\ dpTouched = {}
  /\ whole_disk = FALSE /\ dpAsked = NoAttrs /\ dpEdits = 0

Edit(t, slots) ==
  /\ dpEdits < MaxEdits /\ dpEdits' = dpEdits + 1
  /\ dpTable' = t /\ dpTouched' = dpTouched \cup slots
  /\ dpAsked' = NoAttrs
  /\ UNCHANGED <<dpFound, whole_disk>>

(* om_create_partition: the offset and the size -1 and 0 leave the choice  *)
(* to the table of free space. A type the function does not know leaves    *)
(* the offset in the entry; the entry stays unused.                        *)
Placement(t, off, size, entire, logical) ==
  LET o == IF entire THEN 0 ELSE off
      s == IF entire THEN DiskMb * Mb ELSE size
      r == find_unused_region_of_size(t, s, logical)
      all == IF logical THEN Ext(t).mb * Mb ELSE DiskMb * Mb
  IN IF o = -1 THEN Region(r.off, IF s = 0 THEN r.size ELSE s)
     ELSE Region(o, IF s = 0 THEN all ELSE s)

Placeable(t, off, size, entire, logical) ==
  /\ off \in {-1, 0} \/ \A i \in Slots : t[i].off # off \/ t[i].size = 0
  /\ off = -1 /\ ~entire => find_unused_region_of_size(t, size, logical) # NoRegion
  /\ logical /\ off # -1 /\ size = 0 => ExtSlots(t) # {}

FreeSlots(t, logical) == {i \in Slots : Logical(i) = logical /\ ~Used(t[i])}

om_create_partition(type, off, size, entire, logical) ==
  LET slot == Min(FreeSlots(dpTable, logical))
      at   == Placement(dpTable, off, size, entire, logical)
      moved == [dpTable EXCEPT ![slot].off = at.off]
      made == [dpTable[slot] EXCEPT !.type = type, !.id = slot, !.off = at.off,
                                    !.size = U(at.size), !.mb = U(at.size) \div Mb, !.swap = FALSE]
  IN /\ FreeSlots(dpTable, logical) # {}
     /\ type = "extended" => ExtSlots(dpTable) = {}
     /\ Placeable(dpTable, off, size, entire, logical)
     /\ IF type \in Types /\ FreeSpace(moved, logical).ok
        THEN Edit([dpTable EXCEPT ![slot] = made], {slot})
        ELSE Edit(moved, {})

(* om_delete_partition, by number or by place: an extended partition takes *)
(* the logical ones with it. The caller is told of slices to forget when a *)
(* Solaris2 partition goes.                                                *)
Deleted(t, i) ==
  {i} \cup (IF t[i].type = "extended" THEN {j \in Slots : Logical(t[j].id)} ELSE {})
om_delete_partition(i) ==
  /\ Used(dpTable[i])
  /\ Edit([j \in Slots |-> IF j \in Deleted(dpTable, i) THEN Unused ELSE dpTable[j]],
          Deleted(dpTable, i))
om_delete_partition_at(off, size) ==
  LET at == {i \in Slots : dpTable[i].off = off /\ size \in {0, dpTable[i].size}}
  IN /\ at # {}
     /\ Edit([j \in Slots |-> IF j \in Deleted(dpTable, Min(at)) THEN Unused ELSE dpTable[j]],
             Deleted(dpTable, Min(at)))

(* om_create_target_partition_info_if_absent: the whole disk, in entry 1.  *)
om_create_target_partition_info_if_absent ==
  /\ \A i \in Slots : ~Used(dpTable[i])
  /\ Edit([dpTable EXCEPT ![1] = [@ EXCEPT !.type = "solaris2", !.id = 1, !.mb = DiskMb,
                                            !.size = DiskMb * Mb]], {1})

(* The table of the graphical disk screen replaces the committed one.      *)
om_set_disk_partition_info(t) ==
  Edit(t, {i \in Slots : [t[i] EXCEPT !.order = dpTable[i].order] # dpTable[i]})

(* om_finalize_fdisk_info_for_TI, and the validation the screens call.     *)
Finalize(gui) ==
  /\ dpTable' = Validated(dpTable, dpFound, gui)
  /\ whole_disk' = IsWhole(dpTable)
  /\ dpAsked' = NoAttrs
  /\ UNCHANGED <<dpFound, dpTouched, dpEdits>>
om_finalize_fdisk_info_for_TI == Finalize(FALSE)
om_validate_and_resize_disk_partitions == Finalize(TRUE)

(* om_set_fdisk_target_attrs: the Solaris partition becomes Solaris2, and  *)
(* what has the size and the type found in its slot is to be preserved; of *)
(* a disk nobody edited, everything.                                       *)
InstallSlots(t) ==
  {i \in 1..NParts(t) : t[i].type = "solaris2" \/ (t[i].type = "solaris" /\ ~t[i].swap)}
om_set_fdisk_target_attrs ==
  /\ InstallSlots(dpTable) # {}
  /\ LET at == Min(InstallSlots(dpTable))
         t == [dpTable EXCEPT ![at].type = "solaris2"]
     IN /\ dpTable' = t
        /\ dpAsked' =
             [set |-> TRUE, whole |-> whole_disk,
              n |-> NParts(t), table |-> t,
              preserve |-> [i \in 1..NParts(t) |-> (dpEdits = 0 /\ t = dpFound)
                 \/ (t[i].mb # 0 /\ dpFound[i].mb = t[i].mb /\ dpFound[i].type = t[i].type)]]
  /\ UNCHANGED <<dpFound, dpTouched, whole_disk, dpEdits>>

om_install_partition_is_logical(t) ==
  LET at == {i \in Slots : t[i].type = "solaris2" \/ (t[i].type = "solaris" /\ ~t[i].swap)}
  IN at # {} /\ Logical(t[Min(at)].id)
-----------------------------------------------------------------------------
DpTypeOK ==
  /\ \A i \in Slots : {dpTable[i].off, dpTable[i].size, dpTable[i].mb} \subseteq 0..(Width - 1)
  /\ \A i \in Slots : Used(dpTable[i]) => dpTable[i].id = i
  /\ dpTouched \subseteq Slots /\ whole_disk \in BOOLEAN /\ dpEdits \in 0..MaxEdits
=============================================================================
