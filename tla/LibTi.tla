------------------------------- MODULE LibTi -------------------------------
(***************************************************************************)
(* The target instantiation library, libti: an attribute list is turned    *)
(* into commands that change disks, pools, volumes and ramdisks. A command *)
(* may fail; what was done before it is seldom undone.                     *)
(***************************************************************************)
EXTENDS Integers, Sequences, FiniteSets, FiniteSetsExt, SequencesExt

CONSTANTS
  TiCyl,       \* sectors of a cylinder
  TiNCyl,      \* cylinders of the Solaris partition
  TiMb,        \* sectors of a megabyte
  TiDiskSec,   \* sectors of the disk
  SwapTable,   \* idm_swap_size_table: <<[below, mb], ...>>, the last for any size
  Begins,      \* pairs of disk names the first of which begins the second
  TiAttrs,     \* attribute lists callers pass
  TiStarts,    \* states of the machine a caller may find
  TiFaults     \* the commands that may fail

ASSUME TiAssumption ==
  /\ {TiCyl, TiNCyl, TiMb, TiDiskSec} \subseteq Nat \ {0}
  /\ SwapTable # <<>>

VARIABLES
  ti,      \* the machine: partition table, VTOC, mounts, swap, pools, ...
  tiLast   \* the last call: its attributes and its answer

tiVars == <<ti, tiLast>>

SliceIds == {0, 1, 2, 3, 8, 9}
AllSlice == 2
BootSlice == 8
AltSlice == 9
NoSlice == [start |-> 0, size |-> 0, tag |-> "none"]
NoEntries == [none |-> TRUE]

Out(s, ret) == [s |-> s, ret |-> ret]
Done(s) == {Out(s, "ok")}
(* A command leads from s to done, or fails with err and changes nothing.  *)
Cmd(name, s, done, err) == Done(done) \cup (IF name \in TiFaults THEN {Out(s, err)} ELSE {})
Then(outs, Next(_)) == UNION {IF o.ret = "ok" THEN Next(o.s) ELSE {o} : o \in outs}
Whatever(outs) == {Out(o.s, "ok") : o \in outs}
(* A failure is reported upwards as one code per method.                   *)
As(code, outs) == {IF o.ret \in {"ok", "abort"} THEN o ELSE Out(o.s, code) : o \in outs}
(* One command for each element of a sequence, stopping at a failure.      *)
EachOf(seq, s, Step(_, _)) ==
  FoldLeft(LAMBDA outs, x : UNION {IF o.ret = "ok" THEN Step(o.s, x) ELSE {o} : o \in outs}, Done(s), seq)
-----------------------------------------------------------------------------
(* ti_dm.c *)
(* idm_unmount_all: whatever is mounted from a device whose name begins    *)
(* with the disk's; umount stops at the first failure.                     *)
idm_unmount_all(s, disk) ==
  LET mine == {m \in s.mounted : <<disk, m.disk>> \in Begins}
  IN Done([s EXCEPT !.mounted = @ \ mine])
     \cup {Out([s EXCEPT !.mounted = @ \ part], "IDM_E_UNMOUNT_FAILED") :
             part \in IF "umount" \in TiFaults THEN SUBSET mine \ {mine} ELSE {}}

idm_release_swap(s, name) ==
  LET mine == {d \in s.swap : <<name, d.disk>> \in Begins}
  IN Done([s EXCEPT !.swap = @ \ mine])
     \cup {Out([s EXCEPT !.swap = @ \ part], "IDM_E_RELEASE_SWAP_FAILED") :
             part \in IF "swap" \in TiFaults THEN SUBSET mine \ {mine} ELSE {}}

(* The entries to preserve are looked up in the table on the disk by their *)
(* first sector and their size; type, flags and geometry come from there.  *)
Matches(s, p) == {q \in s.parts : q.off = p.off /\ q.size = p.size}
idm_fill_preserved_partitions(s, a) ==
  LET kept == {i \in 1..a.n : a.preserve[i]}
  IN IF \E i \in kept : Matches(s, a.table[i]) = {} THEN NoEntries
     ELSE [i \in 1..a.n |-> IF i \in kept THEN CHOOSE q \in Matches(s, a.table[i]) : TRUE
                            ELSE [type |-> a.table[i].type, off |-> a.table[i].off, size |-> a.table[i].size]]

idm_fdisk_whole_disk(s, a) ==
  Cmd("fdisk", s, [s EXCEPT !.parts = {[type |-> "solaris2", off |-> TiCyl, size |-> TiDiskSec - TiCyl]}],
      "IDM_E_FDISK_WDISK_FAILED")

(* With everything preserved nothing is written. Entries without a size    *)
(* are written as unused ones.                                             *)
idm_fdisk_create_part_table(s, a) ==
  LET listed == [i \in 1..a.n |-> [type |-> a.table[i].type, off |-> a.table[i].off, size |-> a.table[i].size]]
      new == IF a.keeps THEN idm_fill_preserved_partitions(s, a) ELSE listed
  IN IF a.keeps /\ \A i \in 1..a.n : a.preserve[i] THEN Done(s)
     ELSE IF new = NoEntries THEN {Out(s, "IDM_E_FDISK_PART_TABLE_FAILED")}
     ELSE Cmd("fdisk", s, [s EXCEPT !.parts = {new[i] : i \in {j \in 1..a.n : a.used[j]}}],
              "IDM_E_FDISK_PART_TABLE_FAILED")

idm_mbs_to_cyls(mb) == (mb * TiMb + TiCyl \div 2) \div TiCyl
idm_cyls_to_mbs(cyls) == (cyls * TiCyl + 1) \div TiMb

(* The swap slice of the default layout. The function asserts that there   *)
(* is more room than swap.                                                 *)
idm_calc_swap_size(avail) ==
  LET mbs == idm_cyls_to_mbs(avail)
      fits == {i \in 1..Len(SwapTable) : i = Len(SwapTable) \/ SwapTable[i].below > mbs}
  IN idm_mbs_to_cyls(SwapTable[Min(fits)].mb)

(* Slices are moved to cylinder boundaries: the start to the nearest one,  *)
(* not below the end of the boot slice, the size down.                     *)
RoundedStart(start) == ((start + TiCyl \div 2) \div TiCyl) * TiCyl
(* Mutant: the size is rounded to the nearest cylinder, too. *)
AdjustedSliceNearest(slice, floor) ==
  [slice EXCEPT !.start = RoundedStart(slice.start), !.size = RoundedStart(slice.size)]
AdjustedSlice(slice, floor) ==
  LET start == RoundedStart(slice.start)
      lost  == IF start < floor THEN floor - start ELSE 0
  IN IF slice.size < lost THEN [slice EXCEPT !.start = 0, !.size = 0]
     ELSE [slice EXCEPT !.start = start + lost, !.size = ((slice.size - lost) \div TiCyl) * TiCyl]
idm_adjust_vtoc(v) ==
  [i \in SliceIds |-> IF i \in {AllSlice, BootSlice} \/ v[i].size = 0 THEN v[i]
                      ELSE AdjustedSlice(v[i], v[BootSlice].size)]

(* The reserved slices: 2 is the partition, 8 its first cylinder. Room for *)
(* the others begins behind slice 9 when there was one.                    *)
BaseVtoc == [i \in SliceIds |->
  IF i = AllSlice THEN [start |-> 0, size |-> TiNCyl * TiCyl, tag |-> "backup"]
  ELSE IF i = BootSlice THEN [start |-> 0, size |-> TiCyl, tag |-> "boot"] ELSE NoSlice]
FirstAvailable(s) ==
  LET alt == IF s.vtoc[AltSlice].size > 0 THEN s.vtoc[AltSlice].start + s.vtoc[AltSlice].size ELSE 0
  IN IF alt > 0 THEN (alt + TiCyl - 1) \div TiCyl ELSE 1

DefaultVtoc(s, swap) ==
  LET first == FirstAvailable(s)
      avail == TiNCyl - first
      sw    == IF swap THEN idm_calc_swap_size(avail) ELSE 0
  IN [BaseVtoc EXCEPT
        ![1] = IF sw = 0 THEN NoSlice ELSE [start |-> first * TiCyl, size |-> sw * TiCyl, tag |-> "swap"],
        ![0] = [start |-> (first + sw) * TiCyl, size |-> (avail - sw) * TiCyl, tag |-> "root"]]
ListedVtoc(slices) == [i \in SliceIds |-> IF i \in DOMAIN slices THEN slices[i] ELSE BaseVtoc[i]]

idm_create_vtoc(s, a) ==
  LET v == IF a.default THEN DefaultVtoc(s, a.swap) ELSE ListedVtoc(a.slices)
      written == [s EXCEPT !.vtoc = idm_adjust_vtoc(v)]
      swapped == [written EXCEPT !.swap = @ \cup {[disk |-> a.disk, part |-> "s1"]}]
      avail == TiNCyl - FirstAvailable(s)
  IN IF a.default /\ a.swap /\ idm_calc_swap_size(avail) >= avail THEN {Out(s, "abort")}
     ELSE Then(Cmd("vtoc", s, written, "IDM_E_VTOC_FAILED"),
               LAMBDA w : IF a.swap THEN Whatever(Cmd("swap", w, swapped, "failed")) ELSE Done(w))
-----------------------------------------------------------------------------
(* ti_zfm.c *)
Dataset(pool, name) == [pool |-> pool, name |-> name]
Zvol(pool, name) == [disk |-> pool, part |-> name]
zfm_zpool_exists(s, pool) == pool \in s.pools
zfm_dataset_exists(s, pool, name) == Dataset(pool, name) \in s.datasets

(* zpool destroy -f: a pool that is swapped or dumped to stays.            *)
NoDump == [disk |-> "none", part |-> "none"]
Uses(s, pool) == {d \in s.swap \cup {s.dump} : d.disk = pool}
DestroyPool(s, pool, err) ==
  IF pool \notin s.pools \/ Uses(s, pool) # {} THEN {Out(s, err)}
  ELSE Cmd("destroy", s, [s EXCEPT !.pools = @ \ {pool}, !.busy = @ \ {pool},
                                   !.datasets = {d \in @ : d.pool # pool}], err)

(* zfm_create_pool: an existing pool is kept when asked, else destroyed    *)
(* and made anew. A failure after zpool create leaves the pool behind.     *)
zfm_create_pool(s, a) ==
  LET gone == IF zfm_zpool_exists(s, a.pool) THEN DestroyPool(s, a.pool, "ZFM_E_ZFS_POOL_CREATE_FAILED") ELSE Done(s)
      Made(s1) == Cmd("create", s1, [s1 EXCEPT !.pools = @ \cup {a.pool}], "ZFM_E_ZFS_POOL_CREATE_FAILED")
      Menu(s2) == Cmd("mkdir", s2, s2, "ZFM_E_ZFS_POOL_CREATE_FAILED")
      Busy(s3) == Cmd("set", s3, [s3 EXCEPT !.busy = @ \cup {a.pool}], "ZFM_E_ZFS_POOL_CREATE_FAILED")
  IN IF ~a.device \/ (zfm_zpool_exists(s, a.pool) /\ a.keep) THEN Done(s)
     ELSE Then(Then(Then(gone, Made), Menu), Busy)

(* zfm_release_pool: dumpadm -d swap moves the dump device to a swap slice *)
(* or, failing, leaves none; then swap on the pool is removed and the pool *)
(* is destroyed.                                                           *)
dumpadm_swap(s) ==
  Done(s) \cup {Out([s EXCEPT !.dump = d], "ok") : d \in {NoDump} \cup {e \in s.swap : e.disk \notin s.pools}}
zfm_release_pool(s, a) ==
  LET dumped == IF s.dump = Zvol(a.pool, "dump") THEN dumpadm_swap(s) ELSE Done(s)
      Swapped(s1) == IF s1.dump = Zvol(a.pool, "dump") THEN {Out(s1, "ZFM_E_ZFS_POOL_RELEASE_FAILED")}
                     ELSE idm_release_swap(s1, a.pool)
  IN Then(Then(dumped, Swapped), LAMBDA s2 : DestroyPool(s2, a.pool, "ZFM_E_ZFS_POOL_RELEASE_FAILED"))

(* zfm_create_fs and zfm_create_volumes: what exists is left as it is. A   *)
(* property that cannot be set fails the call, the dataset stays.          *)
zfm_set_dataset_properties(s) == Cmd("set", s, s, "ZFM_E_ZFS_SET_PROP_FAILED")
MadeDataset(s, a, name) ==
  Then(Cmd("zfs", s, [s EXCEPT !.datasets = @ \cup {Dataset(a.pool, name)}], "ZFM_E_ZFS_FS_CREATE_FAILED"),
       zfm_set_dataset_properties)
zfm_create_fs(s, a) ==
  IF ~zfm_zpool_exists(s, a.pool) /\ a.names # <<>> THEN {Out(s, "ZFM_E_ZFS_FS_CREATE_FAILED")}
  ELSE EachOf(a.names, s, LAMBDA w, name :
         IF zfm_dataset_exists(w, a.pool, name) THEN Done(w) ELSE MadeDataset(w, a, name))
zfm_fs_exists(s, a) == Len(a.names) = 1 /\ zfm_dataset_exists(s, a.pool, a.names[1])

zfm_add_volume_to_swap_pool(s, a, name) ==
  Cmd("swap", s, [s EXCEPT !.swap = @ \cup {Zvol(a.pool, name)}], "ZFM_E_ZFS_VOL_SET_SWAP_FAILED")
zfm_set_volume_as_dump(s, a, name) ==
  Cmd("dump", s, [s EXCEPT !.dump = Zvol(a.pool, name)], "ZFM_E_ZFS_VOL_SET_DUMP_FAILED")
zfm_create_volumes(s, a) ==
  LET Use(w, name) == IF name = "swap" THEN Whatever(zfm_add_volume_to_swap_pool(w, a, name))
                      ELSE IF name = "dump" THEN Whatever(zfm_set_volume_as_dump(w, a, name)) ELSE Done(w)
      One(w, name) == IF zfm_dataset_exists(w, a.pool, name) THEN Done(w)
                      ELSE Then(MadeDataset(w, a, name), LAMBDA x : Use(x, name))
  IN IF ~zfm_zpool_exists(s, a.pool) /\ a.vols # <<>> THEN {Out(s, "ZFM_E_ZFS_VOL_CREATE_FAILED")}
     ELSE EachOf(a.vols, s, One)
-----------------------------------------------------------------------------
(* ti_bem.c: be_init() makes the boot environment, be_mount() mounts it,   *)
(* then each shared file system is moved below and mounted. A failure      *)
(* leaves what was made.                                                   *)
ibem_create_be(s, a) ==
  LET Init(s1)  == Cmd("be_init", s1, [s1 EXCEPT !.be = @ \cup {a.be}], "IBEM_E_BE_CREATE_FAILED")
      Mount(s2) == Cmd("be_mount", s2, [s2 EXCEPT !.bemounted = @ \cup {"root"}], "IBEM_E_BE_MOUNT_FAILED")
      Share(s3) == EachOf(a.shared, s3, LAMBDA w, fs :
                     Cmd("mount", w, [w EXCEPT !.bemounted = @ \cup {fs}], "IBEM_E_BE_MOUNT_FAILED"))
  IN IF ~zfm_zpool_exists(s, a.pool) THEN {Out(s, "IBEM_E_RPOOL_NOT_EXIST")}
     ELSE IF a.mount THEN Then(Then(Init(s), Mount), Share) ELSE Init(s)
-----------------------------------------------------------------------------
(* ti_dcm.c: a file, a lofi device on it, a file system on that, mounted.  *)
(* What fails once the device is attached is rolled back in this order:    *)
(* device, directory, file.                                                *)
RolledFileOnly(s, dir, err) == {Out([s EXCEPT !.file = FALSE], err)}   \* mutant: the device is forgotten
Rolled(s, dir, err) ==
  LET Lofi(s1) == IF s1.rmounted THEN Done(s1) ELSE Whatever(Cmd("unlofi", s1, [s1 EXCEPT !.lofi = FALSE], "failed"))
      Dir(s2)  == IF dir THEN Whatever(Cmd("rmdir", s2, [s2 EXCEPT !.dir = FALSE], "failed")) ELSE Done(s2)
      File(s3) == Whatever(Cmd("rm", s3, [s3 EXCEPT !.file = FALSE], "failed"))
  IN {Out(o.s, err) : o \in Then(Then(Lofi(s), Dir), File)}

ti_create_ramdisk(s, a) ==
  LET attached == Then(Cmd("mkfile", s, [s EXCEPT !.file = TRUE], "TI_E_RAMDISK_MKFILE_FAILED"),
                       LAMBDA s1 : IF s1.lofi THEN {Out(s1, "TI_E_RAMDISK_LOFIADM_FAILED")}
                         ELSE Cmd("lofiadm", s1, [s1 EXCEPT !.lofi = TRUE], "TI_E_RAMDISK_LOFIADM_FAILED"))
      OrBack(outs, dir) == UNION {IF o.ret = "ok" THEN {o} ELSE Rolled(o.s, dir, o.ret) : o \in outs}
      Newfs(s2) == OrBack(Cmd("newfs", s2, s2, "TI_E_NEWFS_FAILED"), FALSE)
      Mkdir(s3) == OrBack(Cmd("mkdir", s3, [s3 EXCEPT !.dir = TRUE], "TI_E_MKDIR_FAILED"), FALSE)
      Mount(s4) == OrBack(Cmd("mount", s4, [s4 EXCEPT !.rmounted = TRUE], "TI_E_MOUNT_FAILED"), TRUE)
  IN Then(Then(Then(attached, Newfs), Mkdir), Mount)

(* Each step is tried whatever became of the one before; the first failure *)
(* is the answer. A mounted device is not detached, nor its directory      *)
(* removed. The file stays.                                                *)
ti_release_ramdisk(s, a) ==
  LET Try(o, name, possible, next, err) ==
        (IF possible THEN {Out(next, o.ret)} ELSE {})
        \cup (IF name \in TiFaults \/ ~possible THEN {Out(o.s, IF o.ret = "ok" THEN err ELSE o.ret)} ELSE {})
      unmounted == Try(Out(s, "ok"), "umount", s.rmounted, [s EXCEPT !.rmounted = FALSE], "TI_E_UNMOUNT_FAILED")
      detached == UNION {Try(o, "unlofi", o.s.lofi /\ ~o.s.rmounted, [o.s EXCEPT !.lofi = FALSE],
                             "TI_E_RAMDISK_LOFIADM_FAILED") : o \in unmounted}
  IN UNION {Try(o, "rmdir", o.s.dir /\ ~o.s.rmounted, [o.s EXCEPT !.dir = FALSE], "TI_E_RMDIR_FAILED") : o \in detached}

ti_create_directory(s, a) == Cmd("mkdir", s, [s EXCEPT !.dir = TRUE], "TI_E_MKDIR_FAILED")
-----------------------------------------------------------------------------
(* ti_mg.c: one method per type of target. *)
imm_create_fdisk_target(s, a) ==
  LET Free(s1) == Whatever(idm_release_swap(s1, a.disk))
      Table(s2) == IF a.whole THEN idm_fdisk_whole_disk(s2, a)
                   ELSE IF a.n = 0 THEN Done(s2) ELSE idm_fdisk_create_part_table(s2, a)
  IN Then(Then(As("TI_E_UNMOUNT_FAILED", idm_unmount_all(s, a.disk)), Free),
          LAMBDA s3 : As("TI_E_FDISK_FAILED", Table(s3)))
imm_create_vtoc_target(s, a) == As("TI_E_VTOC_FAILED", idm_create_vtoc(s, a))
imm_create_zfs_rpool_target(s, a) == As("TI_E_ZFS_FAILED", zfm_create_pool(s, a))
imm_release_zfs_rpool_target(s, a) == As("TI_E_ZFS_FAILED", zfm_release_pool(s, a))
imm_create_zfs_fs_target(s, a) == As("TI_E_ZFS_FAILED", zfm_create_fs(s, a))
imm_create_zfs_vol_target(s, a) == As("TI_E_ZFS_FAILED", zfm_create_volumes(s, a))
imm_create_be_target(s, a) == As("TI_E_BE_FAILED", ibem_create_be(s, a))

Milestones == <<"FDISK", "VTOC", "ZFS_RPOOL", "ZFS_FS">>
(* A report that cannot be made is logged and nothing else.                *)
ti_report_progress(s, a, ms) ==
  Done(IF a.cbf THEN [s EXCEPT !.progress = Append(@, ms)] ELSE s)

(* Without a type the whole target is made: partitions and slices when a   *)
(* disk is named, then pool, file systems and volumes.                     *)
imm_skip_disk_module(a) == a.disk = "none"
ti_create_implicit_target(s, a) ==
  LET Fdisk(w) == IF imm_skip_disk_module(a) THEN Done(w)
                  ELSE Then(As("TI_E_FDISK_FAILED", imm_create_fdisk_target(w, a)),
                            LAMBDA x : ti_report_progress(x, a, 1))
      Vtoc(w)  == IF imm_skip_disk_module(a) THEN Done(w)
                  ELSE Then(imm_create_vtoc_target(w, a), LAMBDA x : ti_report_progress(x, a, 2))
      Pool(w)  == Then(imm_create_zfs_rpool_target(w, a), LAMBDA x : ti_report_progress(x, a, 3))
      Fs(w)    == imm_create_zfs_fs_target(w, a)
      Vols(w)  == Then(imm_create_zfs_vol_target(w, a), LAMBDA x : ti_report_progress(x, a, 4))
  IN Then(Then(Then(Then(Fdisk(s), Vtoc), Pool), Fs), Vols)

Unsupported(s) == {Out(s, "TI_E_TARGET_NOT_SUPPORTED")}
ti_create_target(s, a) ==
  CASE a.type = "none"       -> ti_create_implicit_target(s, a)
    [] a.type = "FDISK"      -> imm_create_fdisk_target(s, a)
    [] a.type = "DISK_LABEL" -> Unsupported(s)
    [] a.type = "VTOC"       -> imm_create_vtoc_target(s, a)
    [] a.type = "ZFS_RPOOL"  -> imm_create_zfs_rpool_target(s, a)
    [] a.type = "ZFS_FS"     -> imm_create_zfs_fs_target(s, a)
    [] a.type = "ZFS_VOLUME" -> imm_create_zfs_vol_target(s, a)
    [] a.type = "BE"         -> imm_create_be_target(s, a)
    [] a.type = "DC_UFS"     -> ti_create_directory(s, a)
    [] a.type = "DC_RAMDISK" -> ti_create_ramdisk(s, a)
    [] OTHER                 -> {Out(s, "TI_E_TARGET_UNKNOWN")}
ti_release_target(s, a) ==
  CASE a.type = "none"       -> {Out(s, "TI_E_TARGET_UNKNOWN")}
    [] a.type = "ZFS_RPOOL"  -> imm_release_zfs_rpool_target(s, a)
    [] a.type = "DC_RAMDISK" -> ti_release_ramdisk(s, a)
    [] OTHER                 -> Unsupported(s)
ti_target_exists(s, a) == a.type = "ZFS_FS" /\ zfm_fs_exists(s, a)
-----------------------------------------------------------------------------
(* A machine as a caller may find it. Volumes that are swapped or dumped   *)
(* to are in a pool that is there, and no ramdisk was left behind.         *)
TiFields ==
  {"parts", "vtoc", "mounted", "swap", "dump", "pools", "busy", "datasets", "be", "bemounted",
   "lofi", "file", "dir", "rmounted", "progress"}
Typed(s) ==
  /\ DOMAIN s = TiFields /\ s = [x \in DOMAIN s |-> s[x]]
  /\ s.mounted \subseteq [disk : STRING, part : STRING]
  /\ \A i \in SliceIds : s.vtoc[i].start \in Nat /\ s.vtoc[i].size \in Nat
  /\ {d.pool : d \in s.datasets} \cup s.busy \subseteq s.pools
  /\ {s.lofi, s.file, s.dir, s.rmounted} \subseteq BOOLEAN
VolumesAreThere(s) ==
  /\ \A d \in s.swap \cup {s.dump} : d.part \in {"swap", "dump"} => d.disk \in s.pools
  /\ s.dump.part # "swap"
NotForgotten(s) == "unlofi" \notin TiFaults /\ s.lofi => s.rmounted
IsMachine(s) == Typed(s) /\ VolumesAreThere(s) /\ NotForgotten(s)
(* Starts and sizes of the slices a caller lists. *)
SlicesListed(l) ==
  \A i \in DOMAIN l \cap SliceIds :
    DOMAIN l[i] = {"start", "size", "tag"} /\ l[i].start \in Nat /\ l[i].size \in Nat
AttrsOK(a) ==
  /\ {a.names, a.vols, a.shared} \subseteq Seq(STRING)
  /\ a.pool # "none" /\ <<a.pool, a.pool>> \in Begins
  /\ a.type = "VTOC" \/ (a.type = "none" /\ ~imm_skip_disk_module(a)) => a.default \/ SlicesListed(a.slices)
ASSUME TiCallersAssumption ==
  /\ SwapTable \in Seq([below : Nat, mb : Nat])
  /\ \A a \in TiAttrs : AttrsOK(a)
  /\ \A s \in TiStarts : IsMachine(s)

NoCall == [op |-> "none", attrs |-> "none", ret |-> "ok"]
TiInit == ti \in TiStarts /\ tiLast = NoCall

TiStep(op, a, o) == ti' = o.s /\ tiLast' = [op |-> op, attrs |-> a, ret |-> o.ret]
TiNext ==
  /\ tiLast.ret # "abort"
  /\ \E a \in TiAttrs :
       \/ \E o \in ti_create_target([ti EXCEPT !.progress = <<>>], a) : TiStep("create", a, o)
       \/ \E o \in ti_release_target(ti, a) : TiStep("release", a, o)
       \/ TiStep("exists", a, Out(ti, IF ti_target_exists(ti, a) THEN "ok" ELSE "no"))
TiSpec == TiInit /\ [][TiNext]_tiVars
-----------------------------------------------------------------------------
TiTypeOK == Typed(ti)

(* A pool that nothing but its own swap and dump volumes keeps is          *)
(* released, when the commands do what they are asked: each kind of use    *)
(* must have been ended before the pool can be destroyed (zfm_release_pool).*)
Releasable(s, pool) ==
  pool \in s.pools /\ Uses(s, pool) \subseteq {Zvol(pool, "swap"), Zvol(pool, "dump")}
ReleaseMaySucceed ==
  \A a \in {b \in TiAttrs : b.type = "ZFS_RPOOL"} :
    Releasable(ti, a.pool) => \E o \in ti_release_target(ti, a) : o.ret = "ok" /\ a.pool \notin o.s.pools

(* However the making or the release of a ramdisk fails, no attached       *)
(* device stays behind unmounted, as long as devices can be detached       *)
(* (ti_create_ramdisk, ti_release_ramdisk).                                *)
NoDeviceIsForgotten == NotForgotten(ti)

(* A milestone that was reported is a fact: the last one means that the    *)
(* pool holds every file system and volume, each one known to swap or dump *)
(* unless that command failed (ti_create_implicit_target).                 *)
ReportedTargetsExist ==
  LET a == tiLast.attrs IN
  tiLast.op = "create" /\ a.type = "none" /\ ti.progress # <<>> /\ Last(ti.progress) = 4 =>
    /\ a.pool \in ti.pools \/ ~a.device
    /\ \A name \in ToSet(a.names \o a.vols) : Dataset(a.pool, name) \in ti.datasets
=============================================================================
