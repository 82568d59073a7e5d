----------------------------- MODULE DiskSlices -----------------------------
(***************************************************************************)
(* The slice editor of the orchestrator, disk_slices.c: the VTOC slices of *)
(* the Solaris partition, edited one by one and turned into the attributes *)
(* of the target instantiation library. It keeps file-level state of its   *)
(* own, which a deleted Solaris partition invalidates.                     *)
(***************************************************************************)
EXTENDS DiskParts

CONSTANTS
  SlIds,        \* ids a caller names, NDKMAP of them in the code; a larger one is invalid
  SlFound,      \* slice tables target discovery may have found
  SwapNeeded,   \* sectors of swap calc_required_swap_size() asks for
  LowMemory,    \* so little memory that swap must be a slice
  Automated     \* om_is_automated_installation()

VARIABLES
  slTable,    \* committed_disk_target->dslices: slices by id, no empty ones
  slEdit,     \* slice_edit_list: sets of ids preserved, created, to install on
  slWhole,    \* use_whole_partition_for_slice_0
  slInvalid,  \* invalidate_slice_info
  slSwap,     \* create_swap_slice, and swap_slice_1_failure
  slAsked,    \* attributes of the VTOC to make, or NoAttrs
  slLast      \* the last call and its answer

slVars == <<slTable, slEdit, slWhole, slInvalid, slSwap, slAsked, slLast>>

Reserved == {2, 8, 9}
Slice(off, size, tag) == [off |-> off, size |-> size, tag |-> tag]
SlEnd(s) == U(s.off + s.size)
NoSlices == [i \in {} |-> 0]
Without(t, ids) == [i \in DOMAIN t \ ids |-> t[i]]
With(t, id, s) == [i \in DOMAIN t \cup {id} |-> IF i = id THEN s ELSE t[i]]

(* A state of the editor as a record: the calls nest. *)
Sl == [table |-> slTable, edit |-> slEdit, whole |-> slWhole, invalid |-> slInvalid, swap |-> slSwap]
Become(s) ==
  /\ slTable' = s.table /\ slEdit' = s.edit /\ slWhole' = s.whole
  /\ slInvalid' = s.invalid /\ slSwap' = s.swap

clear_slice_info_if_invalidated(s) ==
  IF s.invalid THEN [s EXCEPT !.table = NoSlices, !.invalid = FALSE] ELSE s
om_invalidate_slice_info(s) == [s EXCEPT !.invalid = TRUE]

(* The size that slice 2 tells, or else the partition less two cylinders.  *)
find_solaris_partition_size(s) ==
  LET at == {i \in Slots : dpTable[i].type = "solaris2"}
  IN IF ~s.invalid /\ 2 \in DOMAIN s.table THEN s.table[2].size
     ELSE IF at # {} THEN U(dpTable[Min(at)].size - 2 * Cyl) ELSE U(DiskSec - 2 * Cyl)

SortedSlices(t) == InOrder(DOMAIN t \ Reserved, ByOffset(t, DOMAIN t \ Reserved))
(* build_free_space_table: the regions found before an overlap is met stay *)
(* in the table, and callers that ignore the answer use them.              *)
SlFreeSpace(s) ==
  LET c   == clear_slice_info_if_invalidated(s)
      t   == c.table
      seq == SortedSlices(t)
      n   == Len(seq)
      bad == {k \in 1..(n-1) : SlEnd(t[seq[k]]) > t[seq[k+1]].off}
      upto == IF bad = {} THEN n - 1 ELSE Min(bad) - 1
      front == IF t[seq[1]].off # 0 THEN <<Region(0, t[seq[1]].off)>> ELSE <<>>
      gaps == [k \in 1..upto |-> Region(SlEnd(t[seq[k]]), U(t[seq[k+1]].off - SlEnd(t[seq[k]])))]
      back == <<Region(SlEnd(t[seq[n]]), U(find_solaris_partition_size(s) - SlEnd(t[seq[n]])))>>
  IN [s |-> c, ok |-> bad = {},
      free |-> IF n = 0 THEN <<Region(0, find_solaris_partition_size(s))>>
               ELSE FoldLeft(append_free_space_table, front, gaps \o (IF bad = {} THEN back ELSE <<>>))]

(* A region up to a cylinder too small is taken as well. *)
SlRegion(free, size) ==
  IF size = 0 THEN find_largest_free_region(free, FALSE)
  ELSE find_free_region_best_fit(free, IF size > Cyl THEN size - Cyl ELSE size, FALSE)

Answer(s, ok) == [s |-> s, ok |-> ok]
remove_slice_from_table(s, id) == [s EXCEPT !.table = Without(@, {id})]

(* The body of om_create_slice, past the creation of the swap slice: the   *)
(* set of its one answer.                                                  *)
(* Mutant: slices to preserve are not protected. *)
PlaceSliceAnyway(s, id, size, tag, overwrite) ==
  {LET r == SlRegion(f.free, size) IN
   IF id \notin SlIds \/ (id \in DOMAIN s.table /\ ~overwrite) \/ r = NoRegion THEN Answer(s, FALSE)
   ELSE Answer([f.s EXCEPT !.table = With(@, id, Slice(r.off, IF size = 0 THEN r.size ELSE size, tag)),
                           !.edit.create = @ \cup {id}], TRUE) :
   f \in {SlFreeSpace(remove_slice_from_table(s, id))}}
PlaceSlice(s, id, size, tag, overwrite) ==
  LET exists == id \in DOMAIN s.table
      Placed(f) ==
        LET r == SlRegion(f.free, size)
            length == IF size = 0 THEN r.size ELSE size
        IN IF r = NoRegion THEN Answer(f.s, FALSE)
           ELSE Answer([f.s EXCEPT !.table = With(@, id, Slice(r.off, length, tag)),
                                   !.edit.create = @ \cup {id},
                                   !.edit.install = IF tag = "root" THEN @ \cup {id} ELSE @,
                                   !.whole = @ /\ size = 0 /\ r.off = 0], TRUE)
  IN IF id \notin SlIds \/ id \in Reserved \cup s.edit.preserve \/ (exists /\ ~overwrite)
     THEN {Answer(s, FALSE)}
     ELSE {Placed(f) : f \in {SlFreeSpace(IF exists THEN remove_slice_from_table(s, id) ELSE s)}}

(* create_swap_slice_if_necessary: when memory is short, slice 1 is made   *)
(* for swap, unless the size was computed earlier: that sets the flag by   *)
(* which this function knows it has nothing to do.                         *)
create_swap_slice_if_necessary(s) ==
  IF s.swap.slice \/ ~LowMemory THEN {s}
  ELSE IF 1 \notin DOMAIN s.table
  THEN {[made.s EXCEPT !.swap = [slice |-> TRUE, failed |-> @.failed \/ ~made.ok]] :
        made \in PlaceSlice(s, 1, SwapNeeded, "swap", FALSE)}
  ELSE IF s.table[1].tag = "swap" THEN {[s EXCEPT !.swap.slice = TRUE, !.whole = FALSE]}
  ELSE {[s EXCEPT !.swap = [slice |-> TRUE, failed |-> TRUE]]}
(* calc_required_swap_size(), called by anybody. *)
SwapComputed(s) == [s EXCEPT !.swap.slice = @ \/ LowMemory]

DeleteSlice(s, id) ==
  LET c == clear_slice_info_if_invalidated(s)
  IN IF id \in Reserved \cup c.edit.preserve THEN Answer(c, FALSE) ELSE Answer(remove_slice_from_table(c, id), TRUE)

(* With a slice to preserve, those neither preserved nor created go.       *)
Pruned(s) ==
  LET c == SlFreeSpace(s).s
      gone == {i \in DOMAIN c.table : i \notin Reserved \cup c.edit.preserve \cup c.edit.create}
  IN IF c.edit.preserve = {} THEN c
     ELSE [c EXCEPT !.table = Without(@, gone), !.whole = @ /\ c.edit.preserve \cap DOMAIN c.table = {}]
-----------------------------------------------------------------------------
SlInit ==
  /\ slTable \in SlFound
  /\ slEdit = [preserve |-> {}, create |-> {}, install |-> {}]
  /\ slWhole = TRUE /\ slInvalid = FALSE
  /\ slSwap = [slice |-> FALSE, failed |-> FALSE]
  /\ slAsked = NoAttrs /\ slLast = [op |-> "none", ok |-> TRUE]

SlCall(op, answer) ==
  /\ dpEdits < MaxEdits /\ dpEdits' = dpEdits + 1
  /\ \E a \in {answer} : Become(a.s) /\ slLast' = [op |-> op, ok |-> a.ok]
  /\ slAsked' = NoAttrs
  /\ UNCHANGED <<dpFound, dpTable, dpTouched, whole_disk, dpAsked>>

om_preserve_slice(id) ==
  SlCall("preserve", IF id \in SlIds THEN Answer([Sl EXCEPT !.edit.preserve = @ \cup {id}], TRUE) ELSE Answer(Sl, FALSE))
om_create_slice(id, size, tag, overwrite) ==
  \E s \in create_swap_slice_if_necessary(clear_slice_info_if_invalidated(Sl)) :
    \E made \in PlaceSlice(s, id, size, tag, overwrite) : SlCall("create", made)
om_delete_slice(id) == id \in SlIds /\ SlCall("delete", DeleteSlice(Sl, id))
(* Swap and the slice to install on are made, when they are not there.     *)
Chosen(s, install) ==
  IF install = 0 THEN s ELSE [s EXCEPT !.whole = FALSE, !.edit.install = @ \cup {install}]
om_finalize_vtoc_for_TI(install) ==
  \E p \in {Pruned(Sl)} :
    \/ install # 0 /\ install \notin SlIds /\ SlCall("finalize", Answer([p EXCEPT !.whole = FALSE], FALSE))
    \/ /\ install = 0 \/ install \in SlIds
       /\ \E r \in create_swap_slice_if_necessary(Chosen(p, install)) :
            \/ /\ install \in DOMAIN r.table \/ r.whole
               /\ \E free \in {SlFreeSpace(r)} : SlCall("finalize", Answer(free.s, free.ok))
            \/ /\ install \notin DOMAIN r.table /\ ~r.whole
               /\ \E s \in create_swap_slice_if_necessary(clear_slice_info_if_invalidated(r)) :
                  \E made \in PlaceSlice(s, install, 0, "root", FALSE) :
                    \/ ~made.ok /\ SlCall("finalize", made)
                    \/ made.ok /\ \E free \in {SlFreeSpace(made.s)} : SlCall("finalize", Answer(free.s, free.ok))
(* Anyone who asks for the size of a minimal installation computes swap.   *)
om_get_min_size ==
  /\ dpEdits < MaxEdits /\ dpEdits' = dpEdits + 1 /\ Become(SwapComputed(Sl))
  /\ UNCHANGED <<slAsked, slLast, dpFound, dpTable, dpTouched, whole_disk, dpAsked>>

(* om_set_vtoc_target_attrs: the default layout, or the slices as listed.  *)
om_set_vtoc_target_attrs ==
  LET s == SwapComputed(Sl) IN
  /\ Become(s)
  /\ slAsked' = [set |-> TRUE, default |-> slWhole,
                 swap |-> SwapNeeded # 0 /\ s.swap.slice /\ ~s.swap.failed,
                 slices |-> IF slWhole THEN NoSlices ELSE slTable]
  /\ slLast' = [op |-> "attrs", ok |-> TRUE]
  /\ UNCHANGED dpVars

(* om_get_device_target_info: the slice the root pool goes to, or -1.      *)
InstallSlice(s) ==
  LET whole == s.whole /\ ~(Automated /\ DOMAIN s.table \ Reserved # {})
      first == Min(s.edit.install)
  IN IF whole THEN 0
     ELSE IF s.edit.install # {} THEN (IF first \in Reserved THEN -1 ELSE first)
     ELSE IF 0 \in DOMAIN s.table THEN 0 ELSE -1
om_get_device_target_info ==
  /\ slWhole' = (slWhole /\ ~(Automated /\ DOMAIN slTable \ Reserved # {}))
  /\ slLast' = [op |-> "target", ok |-> InstallSlice(Sl) # -1]
  /\ UNCHANGED <<slTable, slEdit, slInvalid, slSwap, slAsked, dpVars>>
=============================================================================
