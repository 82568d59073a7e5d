----------------------------- MODULE DiskTarget -----------------------------
(***************************************************************************)
(* The editors of partitions and slices composed with the library that     *)
(* writes them: what a caller edits, finalizes and sets as attributes is   *)
(* what ti_create_target() is given by do_ti().                            *)
(***************************************************************************)
EXTENDS DiskSlices, LibTi

CONSTANTS
  Creations,   \* calls of om_create_partition
  Sizes,       \* sizes of slices asked for; 0 for the largest
  Disk         \* name of the disk

ASSUME CreationsAssumption ==
  Creations \subseteq [type : STRING, off : {-1} \cup Unsigned, size : Unsigned, entire : BOOLEAN, logical : BOOLEAN]

(* Slices as target discovery finds them: none overlap, and the boot slice *)
(* is the first cylinder.                                                  *)
SlicesOK(t) ==
  /\ IsFiniteSet(DOMAIN t) /\ DOMAIN t \subseteq Nat
  /\ \A i \in DOMAIN t : t[i].off \in Unsigned /\ t[i].size \in Unsigned
  /\ BootSlice \in DOMAIN t => t[BootSlice].off = 0 /\ t[BootSlice].size = Cyl
Apart(a, b) == a.off + a.size <= b.off \/ b.off + b.size <= a.off
(* No slice ends past what its numbers can tell. A slice may be made longer *)
(* than the region it is put into, and a region behind the last one may be *)
(* counted below zero, so the editor can be brought to violate this.       *)
NoWraps(t) == \A i \in DOMAIN t \ Reserved : t[i].off + t[i].size < Width
TableApart(t) == \A i, j \in DOMAIN t \ Reserved : i # j => Apart(t[i], t[j])
ASSUME SlicesAssumption ==
  /\ TiCyl = Cyl /\ SlIds \subseteq Nat /\ Sizes \subseteq Unsigned /\ SwapNeeded \in Unsigned
  /\ \A t \in SlFound : SlicesOK(t) /\ TableApart(t)

OnDisk(t) == {[type |-> t[i].type, off |-> t[i].off, size |-> t[i].size] : i \in {j \in Slots : Used(t[j])}}
Machine(parts) ==
  [parts |-> parts, vtoc |-> [i \in SliceIds |-> NoSlice], mounted |-> {}, swap |-> {}, dump |-> NoDump,
   pools |-> {}, busy |-> {}, datasets |-> {}, be |-> {}, bemounted |-> {},
   lofi |-> FALSE, file |-> FALSE, dir |-> FALSE, rmounted |-> FALSE, progress |-> <<>>]

dtVars == <<dpVars, slVars, tiVars>>
DtInit == DpInit /\ SlInit /\ ti = Machine(OnDisk(dpFound)) /\ tiLast = NoCall

FdiskAttrs ==
  [type |-> "FDISK", disk |-> Disk, whole |-> dpAsked.whole, n |-> dpAsked.n, keeps |-> TRUE,
   table |-> dpAsked.table, preserve |-> dpAsked.preserve,
   used |-> [i \in 1..dpAsked.n |-> dpAsked.table[i].mb # 0]]
VtocAttrs ==
  [type |-> "VTOC", disk |-> Disk, default |-> slAsked.default, swap |-> slAsked.swap,
   slices |-> [i \in DOMAIN slAsked.slices \cap SliceIds |->
                 [start |-> slAsked.slices[i].off, size |-> slAsked.slices[i].size, tag |-> slAsked.slices[i].tag]]]
TiSaid(a, outs) == \E o \in outs : TiStep(a.type, "none", o)
CommitFdisk ==
  /\ dpAsked.set /\ tiLast.op = "none" /\ slLast = [op |-> "target", ok |-> TRUE]
  /\ TiSaid(FdiskAttrs, ti_create_target(ti, FdiskAttrs)) /\ UNCHANGED <<dpVars, slVars>>
CommitVtoc  == slAsked.set /\ tiLast.op = "FDISK" /\ TiSaid(VtocAttrs, ti_create_target(ti, VtocAttrs)) /\ UNCHANGED <<dpVars, slVars>>

(* A Solaris2 partition that goes takes the slices with it. *)
Forget(gone) ==
  IF \E i \in gone : dpTable[i].type = "solaris2"
  THEN slInvalid' = TRUE /\ UNCHANGED <<slTable, slEdit, slWhole, slSwap, slAsked, slLast>>
  ELSE UNCHANGED slVars

Written(type) == tiLast.op = type /\ tiLast.ret = "ok"
Editing == ~dpAsked.set
PartEdit ==
  /\ Editing
  /\ \/ \E c \in Creations : om_create_partition(c.type, c.off, c.size, c.entire, c.logical) /\ UNCHANGED slVars
     \/ \E i \in Slots : om_delete_partition(i) /\ Forget(Deleted(dpTable, i))
     \/ \E i \in Slots : om_delete_partition_at(dpTable[i].off, dpTable[i].size)
                         /\ Used(dpTable[i]) /\ Forget(dpTouched' \ dpTouched)
     \/ om_create_target_partition_info_if_absent /\ UNCHANGED slVars
     \/ om_finalize_fdisk_info_for_TI /\ UNCHANGED slVars
  /\ UNCHANGED tiVars

SliceEdit ==
  /\ Editing
  /\ \/ \E i \in SlIds : om_preserve_slice(i) \/ om_delete_slice(i)
     \/ \E i \in SlIds \cup {99}, size \in Sizes, over \in BOOLEAN : om_create_slice(i, size, "root", over)
     \/ \E i \in SlIds \cup {99} : om_finalize_vtoc_for_TI(i)
     \/ om_get_min_size
  /\ UNCHANGED tiVars

(* The fdisk attributes are set; do_ti() looks up the slice to install on, *)
(* writes the partitions, and sets and writes the VTOC attributes.         *)
(* The fdisk attributes ask for the recommended size, hence for swap.      *)
(* Callers finalize the slices they edited, and go on when that succeeds.  *)
Finalized == slLast.op \in {"none", "finalize"} /\ slLast.ok
SetFdisk ==
  Editing /\ Finalized /\ om_set_fdisk_target_attrs /\ Become(SwapComputed(Sl)) /\ UNCHANGED <<slAsked, slLast, tiVars>>
Target == ~Editing /\ tiLast.op = "none" /\ slLast.op # "target" /\ om_get_device_target_info /\ UNCHANGED tiVars
SetVtoc == Written("FDISK") /\ slLast = [op |-> "target", ok |-> TRUE] /\ om_set_vtoc_target_attrs /\ UNCHANGED tiVars

DtNext == PartEdit \/ SliceEdit \/ SetFdisk \/ CommitFdisk \/ Target \/ SetVtoc \/ CommitVtoc
DtSpec == DtInit /\ [][DtNext]_dtVars
-----------------------------------------------------------------------------
(* A partition nobody edited is on the disk, where it was and as large,    *)
(* after its table was validated, set and written: for this the editor,    *)
(* the attributes and the library must agree on it to the sector           *)
(* (om_finalize_fdisk_info_for_TI, om_set_fdisk_target_attrs,              *)
(* idm_fill_preserved_partitions).                                         *)
Place(p) == [off |-> p.off, size |-> p.size]
UntouchedPartitionsSurvive ==
  Written("FDISK") /\ dpAsked.set /\ ~dpAsked.whole =>
    \A i \in Slots \ dpTouched :
      dpFound[i].mb # 0 => Place(dpFound[i]) \in {Place(p) : p \in ti.parts}

(* A slice that is preserved keeps its place, as long as the partition     *)
(* under it stays (om_preserve_slice).                                     *)
PreservedSlicesStay ==
  [][~slInvalid => \A i \in slEdit.preserve \cap DOMAIN slTable :
        i \in DOMAIN slTable' /\ slTable'[i] = slTable[i]]_slTable

(* Finalized slices do not overlap (om_finalize_vtoc_for_TI).              *)
FinalizedSlicesAreApart == slLast = [op |-> "finalize", ok |-> TRUE] => TableApart(slTable)

(* Nor do the slices that the library writes for them, rounded to whole    *)
(* cylinders and moved past the boot slice; those that are left of nothing *)
(* are gone (idm_adjust_vtoc). Slice 9 is listed as it was found and no    *)
(* other is kept from it.                                                  *)
WrittenApart(v) ==
  \A i, j \in SliceIds \ {AllSlice, AltSlice} : i # j /\ v[i].size # 0 /\ v[j].size # 0 =>
    v[i].start + v[i].size <= v[j].start \/ v[j].start + v[j].size <= v[i].start
WrittenSlicesAreApart == Written("VTOC") => WrittenApart(ti.vtoc)
(* Whatever was asked for in whichever order, no two slices overlap: not    *)
(* in the table handed to libti, and not in the one written to the disk     *)
(* after its rounding to cylinders (om_finalize_vtoc_for_TI, idm_adjust_vtoc). *)
SlicesAreApart == DpTypeOK /\ FinalizedSlicesAreApart /\ WrittenSlicesAreApart

(* Targets reported as made exist, a pool that swaps or dumps can still be  *)
(* released, and of a ramdisk that could not be made nothing is left        *)
(* attached (ti_create_target, zfm_release_pool, dcm_create_ramdisk).      *)
DevicesAreAccounted == TiTypeOK /\ NoDeviceIsForgotten /\ ReportedTargetsExist /\ ReleaseMaySucceed
=============================================================================
