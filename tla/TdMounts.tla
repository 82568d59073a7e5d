------------------------------ MODULE TdMounts ------------------------------
(***************************************************************************)
(* Discovery of installed systems in libtd: os_discover of td_mg.c looks   *)
(* at every slice, and to see the zones of a system it mounts all that the *)
(* system's vfstab names and adds its swap (td_mountall.c). Everything     *)
(* runs in one thread; any command may fail.                               *)
(***************************************************************************)
EXTENDS Integers, Sequences, SequencesExt, FiniteSets

CONSTANTS
  Machines,    \* the computers: [slices, info, mounts, swaps]
  MdFaults,    \* subset of {"mount", "map", "fsck", "umount", "zones", "memory"}: what may fail
  MaxMdFaults  \* bound: failures in one discovery

(* The directories of a system's vfstab, and what must be mounted first.   *)
Parent == [s \in {"/usr", "/var", "/usr/kvm", "/usr/kvm/a"} |->
             CASE s \in {"/usr", "/var"} -> "/" [] s = "/usr/kvm" -> "/usr" [] OTHER -> "/usr/kvm"]
Dirs   == DOMAIN Parent \cup {"/"}
Lines  == [dev : STRING \ {"none"}, sub : Dirs, dirty : BOOLEAN,
           kind : {"ufs", "swap", "swapfile", "net", "ro", "noauto", "short"}]

(* What is mounted at first is somebody else's, on directories that exist. *)
ASSUME MdAssumption ==
  /\ MaxMdFaults \in Nat /\ MdFaults \subseteq {"mount", "map", "fsck", "umount", "zones", "memory"}
  /\ \A m \in Machines :
       /\ m.slices \in Seq(DOMAIN m.info) /\ DOMAIN m.info \subseteq STRING
       /\ ToSet(m.slices) = DOMAIN m.info /\ \A i, j \in DOMAIN m.slices : m.slices[i] = m.slices[j] => i = j
       /\ \A s \in DOMAIN m.info : m.info[s].vfstab \in Seq(Lines)
       /\ m.mounts \subseteq [dev : STRING, base : {"live"}, sub : Dirs]
       /\ \A k \in m.mounts : k.sub \in DOMAIN Parent => \E h \in m.mounts : h.sub = Parent[k.sub]

VARIABLES
  machine,
  mounts,       \* the mount table: [dev, base, sub], base "tmp", "live" or "lost"
  swaps,        \* the swap devices in use
  umount_head, unswap_head,  \* what td_umount_all has to undo, the latest first
  retry_list,   \* what could not be mounted or added in the first pass
  rootdir,      \* td_set_rootdir: "install", "tmp" or "live"
  slices,       \* the slices still to look at
  mdPc,
  rootmounted, varslice, fr, vfstab,  \* locals of os_discover for one slice, and the vfstab lines left
  ri, all_have_failed,  \* the retry pass
  zonesUp,      \* zones of the slice are mounted
  found,        \* the instances: [slice, why]
  tderr, mdFaults, umountOk

mdTables == <<mounts, swaps>>
mdLists  == <<umount_head, unswap_head, retry_list>>
mdSlice  == <<rootmounted, varslice, fr>>
mdPass   == <<vfstab, ri, all_have_failed>>
mdFixed  == <<machine, rootdir, slices>>
mdVars   == <<mdTables, mdLists, mdSlice, mdPass, mdFixed, mdPc, zonesUp, found, tderr, mdFaults, umountOk>>

Slice     == Head(slices)
Info      == machine.info[Slice]
At(base, sub) == {m \in mounts : m.base = base /\ m.sub = sub}
DirExists(base, sub) == sub \in DOMAIN Parent => At(base, Parent[sub]) # {}
Free(base, sub) == At(base, sub) = {}
Mounted(dev) == \E m \in mounts : m.dev = dev
Base      == IF rootdir = "live" THEN "live" ELSE "tmp"
Busy(M, m) == \E k \in M : k.base = m.base /\ k.sub \in DOMAIN Parent /\ Parent[k.sub] = m.sub
Without(M, dev) == {m \in M : m.dev # dev \/ Busy(M, m)}
May(f)    == f \in MdFaults /\ mdFaults < MaxMdFaults /\ mdFaults' = mdFaults + 1
Works     == UNCHANGED mdFaults

MdInit ==
  /\ machine \in Machines /\ mounts = machine.mounts /\ swaps = machine.swaps
  /\ umount_head = <<>> /\ unswap_head = <<>> /\ retry_list = <<>> /\ rootdir = "install"
  /\ slices = machine.slices /\ mdPc = "slice" /\ rootmounted = FALSE /\ varslice = "none" /\ fr = {}
  /\ vfstab = <<>> /\ ri = 1 /\ all_have_failed = FALSE /\ zonesUp = FALSE /\ found = <<>>
  /\ tderr = "SUCCESS" /\ mdFaults = 0 /\ umountOk = TRUE

(* ------------------------- one slice: its root -------------------------- *)
Skipped == Info.tag = "data" \/ ~Info.known
Live    == \E m \in mounts : m.dev = Slice /\ m.sub = "/"
SkipSlice ==
  /\ mdPc = "slice" /\ slices # <<>>
  /\ \/ Skipped /\ UNCHANGED rootdir /\ Works
     \/ ~Skipped /\ Info.fs # "ufs" /\ rootdir' = "tmp" /\ Works
     \/ ~Skipped /\ ~Live /\ (May("mount") \/ May("fsck")) /\ rootdir' = "tmp"
  /\ slices' = Tail(slices)
  /\ UNCHANGED <<mdTables, mdLists, mdSlice, mdPass, machine, mdPc, zonesUp, found, tderr, umountOk>>
(* td_fsck_mount mounts the slice unless the running system has done so.   *)
MountSlice ==
  /\ mdPc = "slice" /\ slices # <<>> /\ ~Skipped /\ Info.fs = "ufs"
  /\ rootmounted' = Live /\ varslice' = "none" /\ fr' = {}
  /\ rootdir' = IF Live THEN "live" ELSE "tmp"
  /\ mounts' = IF Live THEN mounts ELSE mounts \cup {[dev |-> Slice, base |-> "tmp", sub |-> "/"]}
  /\ mdPc' = "vfstab"
  /\ UNCHANGED <<swaps, mdLists, mdPass, machine, slices, zonesUp, found, tderr, mdFaults, umountOk>>

(* --------------------- its /var, and what it must have ------------------- *)
VarLines  == {i \in DOMAIN Info.vfstab : Info.vfstab[i].sub = "/var"}
VarDev    == Info.vfstab[CHOOSE i \in VarLines : TRUE].dev
NeedsVar  == VarLines # {} /\ ~(rootmounted /\ At("live", "/var") # {})
CanMountVar == DirExists("tmp", "/var") /\ Free("tmp", "/var") /\ ~Mounted(VarDev)
(* A slice without the root tag is dropped at the first thing missing.      *)
Missing(why) ==
  IF Info.tag = "root" THEN fr' = fr \cup why /\ mdPc' = "checks" ELSE UNCHANGED fr /\ mdPc' = "umount"
LookForVar ==
  /\ mdPc = "vfstab"
  /\ \/ ~Info.readable /\ Works /\ mdPc' = (IF Info.tag = "root" THEN "checks" ELSE "umount") /\ UNCHANGED <<mounts, varslice, fr>>
     \/ Info.readable /\ ~NeedsVar /\ Works /\ mdPc' = "checks" /\ UNCHANGED <<mounts, varslice, fr>>
     \/ /\ Info.readable /\ NeedsVar
        /\ \/ /\ CanMountVar /\ Works
              /\ varslice' = VarDev /\ mounts' = mounts \cup {[dev |-> VarDev, base |-> "tmp", sub |-> "/var"]}
              /\ mdPc' = "checks" /\ UNCHANGED fr
           \/ /\ (IF CanMountVar THEN (May("mount") \/ May("map")) ELSE Works)
              /\ Missing({"var_not_mountable"}) /\ UNCHANGED <<mounts, varslice>>
  /\ UNCHANGED <<swaps, mdLists, mdPass, mdFixed, rootmounted, zonesUp, found, tderr, umountOk>>

InVar     == {"inst_release", "clustertoc", "cluster"}
SeesVar   == VarLines = {} \/ varslice # "none" \/ (rootmounted /\ At("live", "/var") # {})
Lacks0    == IF SeesVar THEN Info.lacks ELSE Info.lacks \cup InVar
Lacks     == {w \in Lacks0 : (w \in {"bootenvrc", "too_old"} => "inst_release" \notin Lacks0)
                             /\ (w = "metacluster" => "cluster" \notin Lacks0)}
Examine ==
  /\ mdPc = "checks"
  /\ IF Info.tag # "root" /\ Lacks \ {"metacluster"} # {} THEN mdPc' = "umount" /\ UNCHANGED fr
     ELSE mdPc' = "zones" /\ fr' = fr \cup Lacks
  /\ UNCHANGED <<mdTables, mdLists, mdPass, mdFixed, rootmounted, varslice, zonesUp, found, tderr, mdFaults, umountOk>>

(* -------------------------- td_umount_all ------------------------------- *)
(* Latest first. A zone that stays up stops it before it begins; a command *)
(* that fails does not, and is forgotten.                                  *)
UmountZones == zonesUp' = FALSE
td_umount_all(undo, next) ==
  /\ \/ UmountZones /\ Works /\ mdPc' = undo /\ UNCHANGED umountOk
     \/ zonesUp /\ May("zones") /\ mdPc' = next /\ umountOk' = FALSE /\ UNCHANGED zonesUp
  /\ UNCHANGED <<mdTables, mdLists, mdPass, mdFixed, mdSlice, found, tderr>>
UmountOld == mdPc = "zones" /\ td_umount_all("umountOld", "mount")
Undoing == mdPc \in {"umountOld", "umountNew"}
UmountOne ==
  /\ Undoing /\ umount_head # <<>> /\ umount_head' = Tail(umount_head)
  /\ \/ Works /\ mounts' = Without(mounts, Head(umount_head)) /\ UNCHANGED umountOk
     \/ May("umount") /\ umountOk' = FALSE /\ UNCHANGED mounts
  /\ UNCHANGED <<swaps, unswap_head, retry_list, mdPass, mdFixed, mdSlice, mdPc, zonesUp, found, tderr>>
UnswapOne ==
  /\ Undoing /\ umount_head = <<>> /\ unswap_head # <<>> /\ unswap_head' = Tail(unswap_head)
  /\ \/ Works /\ swaps' = swaps \ {Head(unswap_head)} /\ UNCHANGED umountOk
     \/ May("umount") /\ umountOk' = FALSE /\ UNCHANGED swaps
  /\ UNCHANGED <<mounts, umount_head, retry_list, mdPass, mdFixed, mdSlice, mdPc, zonesUp, found, tderr>>
AllUndone ==
  /\ Undoing /\ umount_head = <<>> /\ unswap_head = <<>>
  /\ mdPc' = IF mdPc = "umountOld" THEN "mount" ELSE "record"
  /\ UNCHANGED <<mdTables, mdLists, mdPass, mdFixed, mdSlice, zonesUp, found, tderr, mdFaults, umountOk>>

(* ---------------- td_mount_and_add_swap, line by line -------------------- *)
Failed == mdPc' = "unzone"
(* The root is mounted already, so nothing is done for it but fsck -m; and *)
(* when its vfstab cannot be read umount_root undoes what was not done.    *)
MountRoot ==
  /\ mdPc = "mount" /\ retry_list' = <<>> /\ ri' = 1
  /\ \/ May("fsck") /\ Failed /\ UNCHANGED <<mounts, vfstab>>
     \/ ~Info.readable /\ Works /\ mounts' = Without(mounts, Slice) /\ Failed /\ UNCHANGED vfstab
     \/ Info.readable /\ Works /\ vfstab' = Info.vfstab /\ mdPc' = "line" /\ UNCHANGED mounts
  /\ UNCHANGED <<swaps, umount_head, unswap_head, mdSlice, mdFixed, all_have_failed, zonesUp, found, tderr, umountOk>>

(* td_mount_filesys: mounted there already, mounted now, kept for another   *)
(* try, or an error.                                                       *)
MountsAt(l) == [dev |-> l.dev, base |-> Base, sub |-> l.sub]
CanMount(l) == DirExists(Base, l.sub) /\ Free(Base, l.sub) /\ ~Mounted(l.dev)
DoMount(l) == mounts' = mounts \cup {MountsAt(l)} /\ umount_head' = <<l.dev>> \o umount_head
Retry(l)   == retry_list' = Append(retry_list, l)
td_mount_filesys(l) ==
  \/ MountsAt(l) \in mounts /\ Works /\ mdPc' = "line" /\ UNCHANGED <<mounts, umount_head, retry_list>>
  \/ CanMount(l) /\ Works /\ DoMount(l) /\ mdPc' = "line" /\ UNCHANGED retry_list
  \/ /\ ~DirExists(Base, l.sub) /\ ~Mounted(l.dev) /\ ~l.dirty /\ Works /\ Retry(l) /\ mdPc' = "line"
     /\ UNCHANGED <<mounts, umount_head>>
  \/ /\ DirExists(Base, l.sub) /\ ~Mounted(l.dev) /\ (IF Free(Base, l.sub) THEN May("mount") ELSE Works)
     /\ Retry(l) /\ mdPc' = "line" /\ UNCHANGED <<mounts, umount_head>>
  \/ /\ (IF MountsAt(l) \notin mounts /\ (Mounted(l.dev) \/ (l.dirty /\ ~DirExists(Base, l.sub)))
          THEN Works ELSE May("fsck"))
     /\ Failed /\ UNCHANGED <<mounts, umount_head, retry_list>>
NoUnswap(dev) == swaps' = swaps \cup {dev} /\ UNCHANGED unswap_head
add_swap_dev(dev) ==
  IF dev \in swaps THEN UNCHANGED <<swaps, unswap_head>>
  ELSE swaps' = swaps \cup {dev} /\ unswap_head' = <<dev>> \o unswap_head
SwapThere(l) == l.kind = "swapfile" => DirExists(Base, l.sub)
SwapLine(l) ==
  \/ SwapThere(l) /\ Works /\ add_swap_dev(l.dev) /\ mdPc' = "line" /\ UNCHANGED retry_list
  \/ ~SwapThere(l) /\ Works /\ Retry(l) /\ mdPc' = "line" /\ UNCHANGED <<swaps, unswap_head>>
  \/ (May("map") \/ May("mount")) /\ Failed /\ UNCHANGED <<swaps, unswap_head, retry_list>>
Swap(l) == l.kind \in {"swap", "swapfile"}
Ignored(l) == l.kind \in {"ro", "noauto", "net"} \/ l.sub = "/"
VfstabLine ==
  /\ mdPc = "line" /\ vfstab # <<>> /\ vfstab' = Tail(vfstab)
  /\ LET l == Head(vfstab) IN
     \/ l.kind = "short" /\ Failed /\ Works /\ UNCHANGED <<mdTables, mdLists>>
     \/ Swap(l) /\ SwapLine(l) /\ UNCHANGED <<mounts, umount_head>>
     \/ ~Swap(l) /\ Ignored(l) /\ Works /\ UNCHANGED <<mdPc, mdTables, mdLists>>
     \/ l.kind = "ufs" /\ ~Ignored(l) /\ td_mount_filesys(l) /\ UNCHANGED <<swaps, unswap_head>>
     \/ l.kind = "ufs" /\ ~Ignored(l) /\ May("map") /\ Failed /\ UNCHANGED <<mdTables, mdLists>>
  /\ UNCHANGED <<mdSlice, mdFixed, ri, all_have_failed, zonesUp, found, tderr, umountOk>>

(* The list is tried again until a pass gets nothing done.                 *)
Done(i) == retry_list' = RemoveAt(retry_list, i) /\ UNCHANGED ri /\ all_have_failed' = FALSE
Later   == ri' = ri + 1 /\ UNCHANGED <<retry_list, all_have_failed>>
StartRetries ==
  /\ mdPc = "line" /\ vfstab = <<>> /\ mdPc' = "retry" /\ ri' = 1 /\ all_have_failed' = TRUE
  /\ UNCHANGED <<mdTables, mdLists, mdSlice, mdFixed, vfstab, zonesUp, found, tderr, mdFaults, umountOk>>
RetryOne ==
  /\ mdPc = "retry" /\ ri <= Len(retry_list)
  /\ LET l == retry_list[ri] IN
     \/ Swap(l) /\ SwapThere(l) /\ Works /\ add_swap_dev(l.dev) /\ Done(ri) /\ UNCHANGED <<mdPc, mounts, umount_head>>
     \/ Swap(l) /\ SwapThere(l) /\ May("mount") /\ Failed /\ UNCHANGED <<mdTables, mdLists, ri, all_have_failed>>
     \/ Swap(l) /\ ~SwapThere(l) /\ Works /\ Later /\ UNCHANGED <<mdPc, mdTables, umount_head, unswap_head>>
     \/ ~Swap(l) /\ CanMount(l) /\ Works /\ DoMount(l) /\ Done(ri) /\ UNCHANGED <<mdPc, swaps, unswap_head>>
     \/ /\ ~Swap(l) /\ (IF CanMount(l) THEN May("mount") ELSE Works)
        /\ Later /\ UNCHANGED <<mdPc, mdTables, umount_head, unswap_head>>
  /\ UNCHANGED <<mdSlice, mdFixed, vfstab, zonesUp, found, tderr, umountOk>>
OnePassOnly ==
  /\ mdPc = "retry" /\ ri > Len(retry_list) /\ mdPc' = "zonesUp"
  /\ UNCHANGED <<mdTables, mdLists, mdSlice, mdFixed, mdPass, zonesUp, found, tderr, mdFaults, umountOk>>
PassForEver ==
  /\ mdPc = "retry" /\ ri > Len(retry_list)
  /\ IF retry_list # <<>> THEN ri' = 1 /\ all_have_failed' = ~all_have_failed /\ UNCHANGED mdPc
     ELSE mdPc' = "zonesUp" /\ UNCHANGED <<ri, all_have_failed>>
  /\ UNCHANGED <<mdTables, mdLists, mdSlice, mdFixed, vfstab, zonesUp, found, tderr, mdFaults, umountOk>>
EndOfPass ==
  /\ mdPc = "retry" /\ ri > Len(retry_list)
  /\ IF retry_list # <<>> /\ ~all_have_failed THEN ri' = 1 /\ all_have_failed' = TRUE /\ UNCHANGED mdPc
     ELSE mdPc' = (IF retry_list = <<>> THEN "zonesUp" ELSE "unzone") /\ UNCHANGED <<ri, all_have_failed>>
  /\ UNCHANGED <<mdTables, mdLists, mdSlice, mdFixed, vfstab, zonesUp, found, tderr, mdFaults, umountOk>>

(* mount_zones, then the zones' packages are looked at.                    *)
LookAtZones ==
  /\ mdPc = "zonesUp" /\ zonesUp' = Info.zones /\ Failed
  /\ \/ Works /\ fr' = IF Info.zones THEN fr \cup {"zones"} ELSE fr
     \/ Info.zones /\ May("zones") /\ UNCHANGED fr
  /\ UNCHANGED <<mdTables, mdLists, mdPass, mdFixed, rootmounted, varslice, found, tderr, umountOk>>
UmountNew == mdPc = "unzone" /\ td_umount_all("umountNew", "record")

(* --------------------- the instance, and the next slice ------------------ *)
Record ==
  /\ mdPc = "record" /\ mdPc' = "umount"
  /\ \/ Works /\ found' = Append(found, [slice |-> Slice, why |-> fr]) /\ UNCHANGED tderr
     \/ May("memory") /\ tderr' = "MEMORY" /\ UNCHANGED found
  /\ UNCHANGED <<mdTables, mdLists, mdSlice, mdPass, mdFixed, zonesUp, umountOk>>
UmountSlice ==
  /\ mdPc = "umount"
  /\ LET noVar == mounts \ (IF varslice = "none" THEN {} ELSE At("tmp", "/var"))
         ours  == {m \in noVar : m.base = "tmp"}
         root  == {m \in ours : m.sub = "/"}
         can   == root # {} /\ ours = root
     IN \/ rootmounted /\ Works /\ mounts' = noVar /\ UNCHANGED umountOk
        \/ ~rootmounted /\ can /\ Works /\ mounts' = noVar \ root /\ UNCHANGED umountOk
        \/ /\ ~rootmounted /\ (IF can THEN May("umount") ELSE Works)
           /\ mounts' = (noVar \ ours) \cup {[m EXCEPT !.base = "lost"] : m \in ours}
           /\ umountOk' = (umountOk /\ root = {})
  /\ slices' = IF tderr = "SUCCESS" THEN Tail(slices) ELSE <<>>
  /\ mdPc' = "slice"
  /\ UNCHANGED <<swaps, mdLists, mdSlice, mdPass, machine, rootdir, zonesUp, found, tderr>>
(* td_be_list adds the members of pools that could be imported.            *)
Pools == {s \in DOMAIN machine.info : machine.info[s].fs = "zfs" /\ machine.info[s].known}
EndOfDiscovery ==
  /\ mdPc = "slice" /\ slices = <<>> /\ mdPc' = "done" /\ rootdir' = "install"
  /\ found' = found \o SetToSeq({[slice |-> s, why |-> {}] : s \in Pools})
  /\ UNCHANGED <<mdTables, mdLists, mdSlice, mdPass, machine, slices, zonesUp, tderr, mdFaults, umountOk>>
MdOver == mdPc = "done" /\ UNCHANGED mdVars

MdNext ==
  \/ SkipSlice \/ MountSlice \/ LookForVar \/ Examine
  \/ UmountOld \/ UmountOne \/ UnswapOne \/ AllUndone \/ MountRoot \/ VfstabLine
  \/ StartRetries \/ RetryOne \/ EndOfPass \/ LookAtZones \/ UmountNew \/ Record \/ UmountSlice
  \/ EndOfDiscovery \/ MdOver
MdSpec == MdInit /\ [][MdNext]_mdVars

-----------------------------------------------------------------------------
MdTypeOK ==
  /\ rootdir \in {"install", "tmp", "live"} /\ tderr \in {"SUCCESS", "MEMORY"}
  /\ mdPc \in {"slice", "vfstab", "checks", "zones", "umountOld", "mount", "line", "retry", "zonesUp",
               "unzone", "umountNew", "record", "umount", "done"}
  /\ mounts \subseteq [dev : STRING, base : {"tmp", "live", "lost"}, sub : Dirs]
  /\ ri \in 1 .. Len(retry_list) + 1 /\ mdFaults \in 0 .. MaxMdFaults

(* Unless an unmount failed, a discovery leaves the machine's mounts and   *)
(* swap as it found them, nothing to undo, and the installer's own rootdir *)
(* (os_discover, td_mg.c:1690-1723).                                       *)
NothingStaysMounted ==
  (mdPc = "done" /\ umountOk) =>
    mounts \subseteq machine.mounts /\ swaps = machine.swaps /\ umount_head = <<>> /\ rootdir = "install"

(* A system in use whose vfstab can be read keeps its file systems and its *)
(* swap throughout (td_mountall.c:654-660, add_swap_dev).                  *)
SystemsInUseStay ==
  /\ machine.swaps \subseteq swaps
  /\ \A m \in machine.mounts : (m.dev \notin DOMAIN machine.info \/ machine.info[m.dev].readable) => m \in mounts

(* A look for installed systems leaves what is mounted, and what swaps, as *)
(* it was, also when it goes wrong half-way (td_umount_all).               *)
SystemsAreLeftAlone == MdTypeOK /\ NothingStaysMounted /\ SystemsInUseStay

(* When the zones of a system are looked at, everything its vfstab mounts  *)
(* at boot is mounted under its root and its swap is in use, in whichever  *)
(* order the lines are (the retries of td_mountall.c:451-505).             *)
ZonesSeeWholeSystem ==
  mdPc = "zonesUp" =>
    \A i \in DOMAIN Info.vfstab : LET l == Info.vfstab[i] IN
      IF Swap(l) THEN l.dev \in swaps ELSE Ignored(l) \/ MountsAt(l) \in mounts

(* An instance nobody marked lacks nothing (TD_UPGRADE_FAIL), but maybe a   *)
(* vfstab, of which os_discover says nothing in a slice with the root tag.  *)
UnmarkedLacksNothing ==
  \A i \in DOMAIN found : LET s == machine.info[found[i].slice] IN
    s.fs = "ufs" /\ found[i].why = {} => s.lacks = {} /\ (s.readable \/ s.tag = "root")

(* A slice that is in use; its /var, when it has one of its own, is in use  *)
(* with it, and otherwise not in use by another.                           *)
InUse(s) == \E m \in machine.mounts : m.dev = s /\ m.sub = "/"
HasVar(s) ==
  LET vars == {l \in ToSet(machine.info[s].vfstab) : l.sub = "/var"} IN
  \/ vars = {}
  \/ InUse(s) /\ \E m \in machine.mounts : m.sub = "/var" /\ (m.dev \in DOMAIN machine.info => machine.info[m.dev].readable)
  \/ ~InUse(s) /\ \A l \in vars : l.dev # s /\ \A m \in machine.mounts : m.dev # l.dev
IsSystem(i) ==
  i.known /\ (i.fs = "zfs" \/ (i.fs = "ufs" /\ (i.tag = "root" \/
    (i.tag # "data" /\ i.readable /\ i.lacks \subseteq {"metacluster"}))))

(* When nothing fails, every root slice of a known disk is reported once,  *)
(* whatever it lacks; another slice only when it is whole, and then it is, *)
(* unless its /var cannot be had (os_discover).                            *)
Reports(s) == {k \in DOMAIN found : found[k].slice = s}
EverySystemIsReported ==
  mdPc = "done" /\ mdFaults = 0 =>
    \A s \in DOMAIN machine.info : LET i == machine.info[s] IN
      /\ \A k, l \in Reports(s) : k = l
      /\ Reports(s) # {} => IsSystem(i)
      /\ IsSystem(i) /\ (i.fs = "zfs" \/ i.tag = "root" \/ HasVar(s)) => Reports(s) # {}

(* Every system is reported once, with what it lacks, and its zones were    *)
(* looked at with all its file systems there (os_discover).                *)
SystemsAreReported == ZonesSeeWholeSystem /\ UnmarkedLacksNothing /\ EverySystemIsReported

=============================================================================
