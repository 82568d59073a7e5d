------------------------------ MODULE TdProofs ------------------------------
(***************************************************************************)
(* The target discovery library, for every machine, vfstab and failure:    *)
(* looking for installed systems leaves the machine as it was found and    *)
(* reports each that there is; an iSCSI disk that is found is configured,  *)
(* once, at nobody's expense; any two releases are compared rightly; and   *)
(* the library keeps these promises and its registry's, all together.      *)
(***************************************************************************)
EXTENDS LibTd, TdObjectsProofs

-----------------------------------------------------------------------------
(* Stacks, and what holds while a machine is looked at. *)

(* Sequences that are used as stacks. *)
LEMMA Popped ==
  ASSUME NEW S, NEW s \in Seq(S), s # <<>>
  PROVE  /\ Head(s) \in S /\ Tail(s) \in Seq(S) /\ ToSet(s) = {Head(s)} \cup ToSet(Tail(s))
         /\ DOMAIN Tail(s) = 1..(Len(s) - 1) /\ DOMAIN s = 1..Len(s) /\ Len(s) \in Nat \ {0} /\ s[1] = Head(s)
         /\ \A i \in 1..(Len(s) - 1) : Tail(s)[i] = s[i + 1] /\ i + 1 \in 1..Len(s)
  <1> DEFINE n == Len(s)
  <1> DEFINE t == Tail(s)
  <1>1. n \in Nat \ {0} /\ DOMAIN s = 1..n /\ \A i \in 1..n : s[i] \in S
    OBVIOUS
  <1>2. Head(s) = s[1]
    OBVIOUS
  <1>3. t \in Seq(S) /\ Len(t) = n - 1
    OBVIOUS
  <1>4. \A i \in 1..(n - 1) : t[i] = s[i + 1] /\ i + 1 \in 1..n
    OBVIOUS
  <1> HIDE DEF n, t
  <1>5. DOMAIN t = 1..(n - 1)
    BY <1>1, <1>3
  <1>6. \A i \in 1..n : i = 1 \/ (i - 1 \in 1..(n - 1) /\ i = (i - 1) + 1)
    BY <1>1
  <1>7. ToSet(s) = {s[1]} \cup ToSet(t)
    <2>1. \A x \in ToSet(s) : x = s[1] \/ x \in ToSet(t)
      <3> SUFFICES ASSUME NEW i \in 1..n PROVE s[i] = s[1] \/ s[i] \in ToSet(t)
        BY <1>1 DEF ToSet
      <3>1. CASE i - 1 \in 1..(n - 1) /\ i = (i - 1) + 1
        <4>1. t[i - 1] = s[i]
          BY <1>4, <3>1
        <4>2. QED
          BY <1>5, <3>1, <4>1 DEF ToSet
      <3>2. QED
        BY <1>6, <3>1
    <2>2. \A x \in ToSet(t) : x \in ToSet(s)
      BY <1>1, <1>4, <1>5 DEF ToSet
    <2>3. s[1] \in ToSet(s)
      BY <1>1 DEF ToSet
    <2>4. QED
      BY <2>1, <2>2, <2>3
  <1>8. QED
    BY <1>1, <1>2, <1>3, <1>4, <1>5, <1>7 DEF n, t

LEMMA Pushed ==
  ASSUME NEW S, NEW s \in Seq(S), NEW x \in S, NEW t, t = <<x>> \o s
  PROVE  /\ t \in Seq(S) /\ ToSet(t) = {x} \cup ToSet(s) /\ DOMAIN t = 1..(Len(s) + 1) /\ Len(s) \in Nat
         /\ DOMAIN s = 1..Len(s) /\ t[1] = x /\ \A i \in 1..Len(s) : t[i + 1] = s[i]
  <1> DEFINE n == Len(s)
  <1>1. n \in Nat /\ DOMAIN s = 1..n
    OBVIOUS
  <1>2. t \in Seq(S) /\ Len(t) = n + 1
    OBVIOUS
  <1>3. t[1] = x /\ \A i \in 1..n : t[i + 1] = s[i]
    OBVIOUS
  <1> HIDE DEF n
  <1>4. DOMAIN t = 1..(n + 1)
    BY <1>1, <1>2
  <1>5. \A i \in 1..(n + 1) : i = 1 \/ (i - 1 \in 1..n /\ i = (i - 1) + 1)
    BY <1>1
  <1>6. \A i \in 1..n : i + 1 \in 1..(n + 1)
    BY <1>1
  <1>7. ToSet(t) = {x} \cup ToSet(s)
    <2>1. \A y \in ToSet(t) : y = x \/ y \in ToSet(s)
      <3> SUFFICES ASSUME NEW i \in 1..(n + 1) PROVE t[i] = x \/ t[i] \in ToSet(s)
        BY <1>4 DEF ToSet
      <3>1. CASE i - 1 \in 1..n /\ i = (i - 1) + 1
        <4>1. t[i] = s[i - 1]
          BY <1>3, <3>1
        <4>2. QED
          BY <1>1, <3>1, <4>1 DEF ToSet
      <3>2. QED
        BY <1>3, <1>5, <3>1
    <2>2. \A y \in ToSet(s) : y \in ToSet(t)
      BY <1>1, <1>3, <1>4, <1>6 DEF ToSet
    <2>3. x \in ToSet(t)
      <3>1. 1 \in DOMAIN t
        BY <1>1, <1>4
      <3>2. QED
        BY <1>3, <3>1 DEF ToSet
    <2>4. QED
      BY <2>1, <2>2, <2>3
  <1>8. QED
    BY <1>1, <1>2, <1>3, <1>4, <1>7 DEF n

LEMMA EmptyHoldsNothing == ToSet(<<>>) = {}
  BY DEF ToSet

LEMMA TakenOut ==
  ASSUME NEW S, NEW s \in Seq(S), NEW i \in 1..Len(s)
  PROVE  RemoveAt(s, i) \in Seq(S) /\ Len(RemoveAt(s, i)) = Len(s) - 1
  <1> DEFINE a == SubSeq(s, 1, i - 1)
  <1> DEFINE b == SubSeq(s, i + 1, Len(s))
  <1>1. Len(s) \in Nat
    OBVIOUS
  <1>2. a \in Seq(S) /\ Len(a) = i - 1
    OBVIOUS
  <1>3. b \in Seq(S) /\ Len(b) = Len(s) - i
    OBVIOUS
  <1> HIDE DEF a, b
  <1>4. a \o b \in Seq(S) /\ Len(a \o b) = Len(s) - 1
    BY <1>1, <1>2, <1>3
  <1>5. QED
    BY <1>4 DEF RemoveAt, a, b

(* Where a slice is being looked at, and where there may be something to   *)
(* undo.                                                                   *)
InSlice == {"vfstab", "checks", "zones", "umountOld", "mount", "line", "retry", "zonesUp", "unzone", "umountNew",
            "record", "umount"}
Holding == {"line", "retry", "zonesUp", "unzone", "umountNew"}

MdTyped ==
  /\ MdTypeOK /\ machine \in Machines /\ umountOk \in BOOLEAN /\ rootmounted \in BOOLEAN
  /\ slices \in Seq(DOMAIN machine.info) /\ (mdPc \in InSlice => slices # <<>>)
  /\ vfstab \in Seq(Lines) /\ retry_list \in Seq(Lines)
  /\ umount_head \in Seq(STRING) /\ unswap_head \in Seq(STRING)
  /\ (mdPc \in InSlice => rootdir = IF rootmounted THEN "live" ELSE "tmp")

(* k is mounted on a directory of m; every directory is there.             *)
On(k, m) == k.base = m.base /\ k.sub \in DOMAIN Parent /\ Parent[k.sub] = m.sub
Closed == \A k \in mounts : k.base # "lost" /\ k.sub \in DOMAIN Parent => \E m \in mounts : On(k, m)

(* What is not to be undone.                                               *)
Protected == {m \in machine.mounts : m.dev \notin DOMAIN machine.info \/ machine.info[m.dev].readable}
InUseInv ==
  /\ machine.swaps \subseteq swaps /\ \A d \in ToSet(unswap_head) : d \notin machine.swaps
  /\ Protected \subseteq mounts /\ \A d \in ToSet(umount_head), m \in Protected : m.dev # d

(* As long as no unmount failed: everything else that is mounted is to be  *)
(* undone, the latest first, so that nothing is mounted on it then.        *)
RootMount == [dev |-> Slice, base |-> "tmp", sub |-> "/"]
ToUndo(m) ==
  \/ m.dev \in ToSet(umount_head)
  \/ mdPc \in InSlice /\ ~rootmounted /\ m = RootMount
  \/ mdPc \in InSlice /\ varslice # "none" /\ m.base = "tmp" /\ m.sub = "/var"
LinesInOrder ==
  \A i \in DOMAIN umount_head : \A m, k \in mounts :
    m.dev = umount_head[i] /\ On(k, m) => \E j \in 1..(i - 1) : k.dev = umount_head[j]
Balance ==
  /\ mdPc \notin Holding => umount_head = <<>> /\ unswap_head = <<>>
  /\ swaps \subseteq machine.swaps \cup ToSet(unswap_head)
  /\ \A m \in mounts : m \in machine.mounts \/ ToUndo(m)
  /\ \A m \in mounts : m.base = "tmp" => mdPc \in InSlice /\ ~rootmounted
  /\ LinesInOrder

MdInv == MdTyped /\ Closed /\ InUseInv /\ (umountOk => Balance) /\ (mdPc = "done" => rootdir = "install")

-----------------------------------------------------------------------------
(* The machines, and the failures of one discovery. *)

Mounts == [dev : STRING, base : {"tmp", "live", "lost"}, sub : Dirs]

(* The directories, and the way from each down to the root.                *)
LEMMA RootIsDir ==
  /\ "/" \in Dirs /\ "/var" \in Dirs /\ "/var" \in DOMAIN Parent /\ Parent["/var"] = "/" /\ "/" \notin DOMAIN Parent
  /\ \A s \in DOMAIN Parent :
       /\ Parent[s] # "/var" /\ Parent[s] # s /\ Parent[s] \in Dirs
       /\ Parent[s] # "/" =>
            Parent[s] \in DOMAIN Parent
            /\ (Parent[Parent[s]] # "/" => Parent[Parent[s]] \in DOMAIN Parent /\ Parent[Parent[Parent[s]]] = "/")
  BY DEF Dirs, Parent

(* The slice that is looked at is one of the machine's.                     *)
LEMMA InSliceKnown ==
  ASSUME MdTyped, slices # <<>>
  PROVE  /\ Slice \in DOMAIN machine.info /\ Slice \in STRING /\ Info.vfstab \in Seq(Lines)
         /\ Tail(slices) \in Seq(DOMAIN machine.info)
  <1>1. slices \in Seq(DOMAIN machine.info) /\ machine \in Machines
    BY DEF MdTyped
  <1>2. Slice \in DOMAIN machine.info /\ Tail(slices) \in Seq(DOMAIN machine.info)
    BY <1>1 DEF Slice
  <1>3. QED
    BY <1>1, <1>2, MdAssumption DEF Info

LEMMA FirstLine ==
  ASSUME NEW s \in Seq(Lines), s # <<>>
  PROVE  Head(s) \in Lines /\ Tail(s) \in Seq(Lines) /\ Head(s).dev \in STRING \ {"none"} /\ Head(s).sub \in Dirs
  <1>1. Head(s) \in Lines /\ Tail(s) \in Seq(Lines)
    OBVIOUS
  <1>2. QED
    BY <1>1 DEF Lines

LEMMA VarDevKnown ==
  ASSUME MdTyped, slices # <<>>, VarLines # {}
  PROVE  VarDev \in STRING /\ VarDev # "none"
  <1>1. Info.vfstab \in Seq(Lines)
    BY InSliceKnown
  <1>2. PICK i \in VarLines : i = (CHOOSE j \in VarLines : TRUE)
    OBVIOUS
  <1>3. Info.vfstab[i] \in Lines
    BY <1>1 DEF VarLines
  <1>4. QED
    BY <1>2, <1>3 DEF VarDev, Lines

(* How many commands have failed.                                          *)
LEMMA FaultsFit ==
  ASSUME mdFaults \in 0..MaxMdFaults, Works \/ \E f \in {"mount", "map", "fsck", "umount", "zones", "memory"} : May(f)
  PROVE  mdFaults' \in 0..MaxMdFaults
  BY MdAssumption DEF Works, May

LEMMA StepsFail ==
  ASSUME MdNext
  PROVE  Works \/ \E f \in {"mount", "map", "fsck", "umount", "zones", "memory"} : May(f)
  <1> DEFINE F == Works \/ \E f \in {"mount", "map", "fsck", "umount", "zones", "memory"} : May(f)
  <1>1. SkipSlice => F
    BY DEF SkipSlice
  <1>2. MountSlice => F
    BY DEF MountSlice, Works
  <1>3. LookForVar => F
    BY DEF LookForVar
  <1>4. Examine => F
    BY DEF Examine, Works
  <1>5. UmountOld \/ UmountNew => F
    BY DEF UmountOld, UmountNew, td_umount_all
  <1>6. UmountOne \/ UnswapOne => F
    BY DEF UmountOne, UnswapOne
  <1>7. AllUndone \/ StartRetries \/ EndOfPass \/ EndOfDiscovery \/ MdOver => F
    BY DEF AllUndone, StartRetries, EndOfPass, EndOfDiscovery, MdOver, Works, mdVars
  <1>8. MountRoot => F
    BY DEF MountRoot
  <1>9. VfstabLine => F
    BY DEF VfstabLine, SwapLine, td_mount_filesys
  <1>10. RetryOne => F
    BY DEF RetryOne
  <1>11. LookAtZones \/ Record \/ UmountSlice => F
    BY DEF LookAtZones, Record, UmountSlice
  <1> HIDE DEF F
  <1>12. F
    BY <1>1, <1>2, <1>3, <1>4, <1>5, <1>6, <1>7, <1>8, <1>9, <1>10, <1>11 DEF MdNext
  <1>13. QED
    BY <1>12 DEF F

LEMMA FaultStep ==
  ASSUME MdTyped, MdNext
  PROVE  mdFaults' \in 0..MaxMdFaults
  <1>1. mdFaults \in 0..MaxMdFaults
    BY DEF MdTyped, MdTypeOK
  <1>2. QED
    BY <1>1, StepsFail, FaultsFit

-----------------------------------------------------------------------------
(* Types. *)

Shaped ==
  /\ rootdir \in {"install", "tmp", "live"} /\ tderr \in {"SUCCESS", "MEMORY"}
  /\ mdPc \in InSlice \cup {"slice", "done"}
  /\ machine \in Machines /\ umountOk \in BOOLEAN /\ rootmounted \in BOOLEAN
  /\ slices \in Seq(DOMAIN machine.info) /\ (mdPc \in InSlice => slices # <<>>)
  /\ vfstab \in Seq(Lines) /\ retry_list \in Seq(Lines) /\ ri \in 1..Len(retry_list) + 1
  /\ umount_head \in Seq(STRING) /\ unswap_head \in Seq(STRING)
  /\ (mdPc \in InSlice => rootdir = IF rootmounted THEN "live" ELSE "tmp")

LEMMA ShapedIsTyped == MdTyped <=> Shaped /\ mounts \subseteq Mounts /\ mdFaults \in 0..MaxMdFaults
  BY DEF MdTyped, MdTypeOK, Shaped, Mounts, InSlice

LEMMA ShapedStep ==
  ASSUME MdTyped, MdNext
  PROVE  Shaped'
  <1> USE DEF mdTables, mdLists, mdSlice, mdPass, mdFixed
  <1>1. Shaped
    BY ShapedIsTyped
  <1>2. slices # <<>> => Tail(slices) \in Seq(DOMAIN machine.info) /\ Info.vfstab \in Seq(Lines)
    BY InSliceKnown
  <1>3. CASE SkipSlice
    BY <1>1, <1>2, <1>3 DEF SkipSlice, Shaped, InSlice
  <1>4. CASE MountSlice
    BY <1>1, <1>4 DEF MountSlice, Shaped, InSlice, Live
  <1>5. CASE LookForVar
    BY <1>1, <1>5 DEF LookForVar, Shaped, InSlice, Missing
  <1>6. CASE Examine
    BY <1>1, <1>6 DEF Examine, Shaped, InSlice
  <1>7. CASE UmountOld \/ UmountNew
    <2>1. mdPc \in InSlice /\ mdPc' \in InSlice /\ umountOk' \in BOOLEAN
      BY <1>1, <1>7 DEF UmountOld, UmountNew, td_umount_all, Shaped, InSlice
    <2>2. UNCHANGED <<mdTables, mdLists, mdPass, mdFixed, mdSlice, found, tderr>>
      BY <1>7 DEF UmountOld, UmountNew, td_umount_all
    <2>3. QED
      BY <1>1, <2>1, <2>2 DEF Shaped
  <1>8. CASE UmountOne
    <2>1. Tail(umount_head) \in Seq(STRING)
      BY <1>1, <1>8, Popped DEF UmountOne, Shaped
    <2>2. QED
      BY <1>1, <1>8, <2>1 DEF UmountOne, Shaped, InSlice, Undoing
  <1>9. CASE UnswapOne
    <2>1. Tail(unswap_head) \in Seq(STRING)
      BY <1>1, <1>9, Popped DEF UnswapOne, Shaped
    <2>2. QED
      BY <1>1, <1>9, <2>1 DEF UnswapOne, Shaped, InSlice, Undoing
  <1>10. CASE AllUndone
    BY <1>1, <1>10 DEF AllUndone, Undoing, Shaped, InSlice
  <1>11. CASE MountRoot
    BY <1>1, <1>2, <1>11 DEF MountRoot, Failed, Shaped, InSlice
  <1>12. CASE VfstabLine
    <2>1. vfstab # <<>> /\ vfstab' = Tail(vfstab) /\ vfstab' \in Seq(Lines) /\ Head(vfstab) \in Lines
      BY <1>1, <1>12, FirstLine DEF VfstabLine, Shaped
    <2> DEFINE l == Head(vfstab)
    <2>2. /\ mdPc = "line" /\ mdPc' \in {"line", "unzone"}
          /\ retry_list' = retry_list \/ retry_list' = Append(retry_list, l)
      BY <1>12 DEF VfstabLine, SwapLine, td_mount_filesys, Retry, Failed
    <2>3. umount_head' = umount_head \/ umount_head' = <<l.dev>> \o umount_head
      BY <1>12 DEF VfstabLine, SwapLine, td_mount_filesys, DoMount
    <2>4. unswap_head' = unswap_head \/ unswap_head' = <<l.dev>> \o unswap_head
      BY <1>12 DEF VfstabLine, SwapLine, add_swap_dev
    <2>5. UNCHANGED <<mdSlice, mdFixed, ri, all_have_failed, zonesUp, found, tderr, umountOk>>
      BY <1>12 DEF VfstabLine
    <2>6. l \in Lines /\ l.dev \in STRING
      BY <2>1 DEF Lines
    <2> HIDE DEF l
    <2>7. umount_head' \in Seq(STRING) /\ unswap_head' \in Seq(STRING)
      <3>1. <<l.dev>> \o umount_head \in Seq(STRING) /\ <<l.dev>> \o unswap_head \in Seq(STRING)
        BY <1>1, <2>6 DEF Shaped
      <3>2. QED
        BY <1>1, <2>3, <2>4, <3>1 DEF Shaped
    <2>8. retry_list' \in Seq(Lines) /\ Len(retry_list') \in {Len(retry_list), Len(retry_list) + 1}
      <3>1. retry_list \in Seq(Lines)
        BY <1>1 DEF Shaped
      <3>2. Append(retry_list, l) \in Seq(Lines) /\ Len(Append(retry_list, l)) = Len(retry_list) + 1
        BY <2>6, <3>1
      <3>3. QED
        BY <2>2, <3>1, <3>2 DEF l
    <2>9. ri \in 1..Len(retry_list') + 1
      <3>1. Len(retry_list) \in Nat /\ ri \in 1..Len(retry_list) + 1
        BY <1>1 DEF Shaped
      <3>2. QED
        BY <2>8, <3>1
    <2>10. QED
      BY <1>1, <2>1, <2>2, <2>5, <2>7, <2>8, <2>9 DEF Shaped, InSlice
  <1>13. CASE StartRetries
    BY <1>1, <1>13 DEF StartRetries, Shaped, InSlice
  <1>14. CASE RetryOne
    <2>1. mdPc = "retry" /\ ri <= Len(retry_list)
      BY <1>14 DEF RetryOne
    <2>2. ri \in 1..Len(retry_list) /\ Len(retry_list) \in Nat
      BY <1>1, <2>1 DEF Shaped
    <2> DEFINE l == retry_list[ri]
    <2>3. l \in Lines
      BY <1>1, <2>2 DEF Shaped
    <2>4. l.dev \in STRING
      BY <2>3 DEF Lines
    <2>5. \/ retry_list' = retry_list /\ ri' \in {ri, ri + 1}
          \/ retry_list' = RemoveAt(retry_list, ri) /\ ri' = ri
      BY <1>14 DEF RetryOne, Done, Later
    <2>6. umount_head' = umount_head \/ umount_head' = <<l.dev>> \o umount_head
      BY <1>14 DEF RetryOne, DoMount
    <2>7. unswap_head' = unswap_head \/ unswap_head' = <<l.dev>> \o unswap_head
      BY <1>14 DEF RetryOne, add_swap_dev
    <2>8. UNCHANGED <<mdSlice, mdFixed, vfstab, zonesUp, found, tderr, umountOk>> /\ mdPc' \in {"retry", "unzone"}
      BY <1>14, <2>1 DEF RetryOne, Failed
    <2> HIDE DEF l
    <2>9. umount_head' \in Seq(STRING) /\ unswap_head' \in Seq(STRING)
      <3>1. <<l.dev>> \o umount_head \in Seq(STRING) /\ <<l.dev>> \o unswap_head \in Seq(STRING)
        BY <1>1, <2>4 DEF Shaped
      <3>2. QED
        BY <1>1, <2>6, <2>7, <3>1 DEF Shaped
    <2>10. retry_list' \in Seq(Lines) /\ ri' \in 1..Len(retry_list') + 1
      <3>1. retry_list \in Seq(Lines)
        BY <1>1 DEF Shaped
      <3>2. RemoveAt(retry_list, ri) \in Seq(Lines) /\ Len(RemoveAt(retry_list, ri)) = Len(retry_list) - 1
        BY <2>2, <3>1, TakenOut
      <3>3. QED
        BY <2>2, <2>5, <3>1, <3>2
    <2>11. QED
      BY <1>1, <2>1, <2>8, <2>9, <2>10 DEF Shaped, InSlice
  <1>15. CASE EndOfPass
    <2>1. Len(retry_list) \in Nat
      BY <1>1 DEF Shaped
    <2>2. QED
      BY <1>1, <1>15, <2>1 DEF EndOfPass, Shaped, InSlice
  <1>16. CASE LookAtZones
    BY <1>1, <1>16 DEF LookAtZones, Failed, Shaped, InSlice
  <1>17. CASE Record
    BY <1>1, <1>17 DEF Record, Shaped, InSlice
  <1>18. CASE UmountSlice
    <2>1. mdPc = "umount" /\ mdPc' = "slice" /\ slices' = IF tderr = "SUCCESS" THEN Tail(slices) ELSE <<>>
      BY <1>18 DEF UmountSlice
    <2>2. UNCHANGED <<swaps, mdLists, mdSlice, mdPass, machine, rootdir, zonesUp, found, tderr>>
      BY <1>18 DEF UmountSlice
    <2>3. umountOk' \in BOOLEAN
      BY <1>1, <1>18 DEF UmountSlice, Shaped
    <2>4. slices' \in Seq(DOMAIN machine.info)
      <3>1. slices # <<>> /\ <<>> \in Seq(DOMAIN machine.info)
        BY <1>1, <2>1 DEF Shaped, InSlice
      <3>2. QED
        BY <1>2, <2>1, <3>1
    <2>5. QED
      BY <1>1, <2>1, <2>2, <2>3, <2>4 DEF Shaped, InSlice
  <1>19. CASE EndOfDiscovery
    BY <1>1, <1>19 DEF EndOfDiscovery, Shaped, InSlice
  <1>20. CASE MdOver
    BY <1>1, <1>20 DEF MdOver, mdVars, Shaped
  <1>21. QED
    BY <1>3, <1>4, <1>5, <1>6, <1>7, <1>8, <1>9, <1>10, <1>11, <1>12, <1>13, <1>14, <1>15, <1>16, <1>17, <1>18,
       <1>19, <1>20 DEF MdNext

-----------------------------------------------------------------------------
(* What the steps do to what is mounted, to the swap and to the stacks. *)

Quiet == UNCHANGED <<mounts, swaps, umount_head, unswap_head>>
(* d is mounted on b's directory s, which is there, free and d nowhere.    *)
Mount(d, b, s) ==
  /\ DirExists(b, s) /\ Free(b, s) /\ s \in Dirs /\ d \in STRING
  /\ mounts' = mounts \cup {[dev |-> d, base |-> b, sub |-> s]}
KeepStacks == UNCHANGED <<swaps, umount_head, unswap_head>>

(* A line of the vfstab, at once or in a retry.                            *)
LineDone(l) ==
  /\ l \in Lines
  /\ \/ Quiet
     \/ Mount(l.dev, Base, l.sub) /\ ~Mounted(l.dev) /\ umount_head' = <<l.dev>> \o umount_head
        /\ UNCHANGED <<swaps, unswap_head>>
     \/ add_swap_dev(l.dev) /\ UNCHANGED <<mounts, umount_head>>

LEMMA LineKinds ==
  ASSUME MdTyped, VfstabLine \/ RetryOne
  PROVE  /\ \E l \in Lines : LineDone(l)
         /\ mdPc \in {"line", "retry"} /\ mdPc' \in {"line", "retry", "unzone"}
         /\ UNCHANGED <<mdSlice, mdFixed, umountOk>>
  <1> USE DEF mdTables, mdLists
  <1>1. Shaped
    BY ShapedIsTyped
  <1>2. CASE VfstabLine
    <2> DEFINE l == Head(vfstab)
    <2>1. l \in Lines /\ l.dev \in STRING /\ l.sub \in Dirs
      BY <1>1, <1>2, FirstLine DEF Shaped, VfstabLine
    <2>2. /\ mdPc = "line" /\ mdPc' \in {"line", "unzone"}
          /\ UNCHANGED <<mdSlice, mdFixed, umountOk>>
      BY <1>2 DEF VfstabLine, SwapLine, td_mount_filesys, Failed
    <2>3. \/ Quiet
          \/ CanMount(l) /\ DoMount(l) /\ UNCHANGED <<swaps, unswap_head>>
          \/ add_swap_dev(l.dev) /\ UNCHANGED <<mounts, umount_head>>
      BY <1>2 DEF VfstabLine, SwapLine, td_mount_filesys, Quiet
    <2> HIDE DEF l
    <2>4. LineDone(l)
      BY <2>1, <2>3 DEF LineDone, CanMount, DoMount, MountsAt, Mount
    <2>5. QED
      BY <2>1, <2>2, <2>4
  <1>3. CASE RetryOne
    <2> DEFINE l == retry_list[ri]
    <2>1. mdPc = "retry" /\ ri \in 1..Len(retry_list) /\ retry_list \in Seq(Lines)
      BY <1>1, <1>3 DEF RetryOne, Shaped
    <2>2. l \in Lines
      BY <2>1
    <2>3. mdPc' \in {"retry", "unzone"} /\ UNCHANGED <<mdSlice, mdFixed, umountOk>>
      BY <1>3 DEF RetryOne, Failed
    <2>4. \/ Quiet
          \/ CanMount(l) /\ DoMount(l) /\ UNCHANGED <<swaps, unswap_head>>
          \/ add_swap_dev(l.dev) /\ UNCHANGED <<mounts, umount_head>>
      BY <1>3 DEF RetryOne, Quiet
    <2> HIDE DEF l
    <2>5. l.dev \in STRING /\ l.sub \in Dirs
      BY <2>2 DEF Lines
    <2>6. LineDone(l)
      BY <2>2, <2>4, <2>5 DEF LineDone, CanMount, DoMount, MountsAt, Mount
    <2>7. QED
      BY <2>1, <2>2, <2>3, <2>6
  <1>4. QED
    BY <1>2, <1>3

(* The steps that change none of them.                                     *)
LEMMA QuietSteps ==
  ASSUME SkipSlice \/ Examine \/ UmountOld \/ AllUndone \/ StartRetries \/ EndOfPass \/ LookAtZones \/ UmountNew
         \/ Record \/ EndOfDiscovery \/ MdOver
  PROVE  Quiet /\ UNCHANGED <<machine, rootmounted, varslice>>
  <1> USE DEF mdTables, mdLists, mdSlice, mdPass, mdFixed, Quiet
  <1>1. CASE SkipSlice
    BY <1>1 DEF SkipSlice
  <1>2. CASE Examine
    BY <1>2 DEF Examine
  <1>3. CASE UmountOld \/ UmountNew
    BY <1>3 DEF UmountOld, UmountNew, td_umount_all
  <1>4. CASE AllUndone \/ StartRetries
    BY <1>4 DEF AllUndone, StartRetries
  <1>5. CASE EndOfPass
    BY <1>5 DEF EndOfPass
  <1>6. CASE LookAtZones \/ Record
    BY <1>6 DEF LookAtZones, Record
  <1>7. CASE EndOfDiscovery \/ MdOver
    BY <1>7 DEF EndOfDiscovery, MdOver, mdVars
  <1>8. QED
    BY <1>1, <1>2, <1>3, <1>4, <1>5, <1>6, <1>7

(* A directory that is mounted on another stays on it.                     *)
LEMMA MountKeepsClosed ==
  ASSUME Closed, NEW d, NEW b, NEW s, Mount(d, b, s)
  PROVE  Closed'
  <1> DEFINE n == [dev |-> d, base |-> b, sub |-> s]
  <1>1. n.base = b /\ n.sub = s /\ mounts' = mounts \cup {n}
    BY DEF Mount
  <1>2. s \in DOMAIN Parent => \E m \in mounts : m.base = b /\ m.sub = Parent[s]
    BY DEF Mount, DirExists, At
  <1> HIDE DEF n
  <1>3. QED
    BY <1>1, <1>2 DEF Closed, On

LEMMA WithoutKeepsClosed ==
  ASSUME Closed, NEW d, mounts' = Without(mounts, d)
  PROVE  Closed'
  <1> SUFFICES ASSUME NEW k \in mounts', k.base # "lost", k.sub \in DOMAIN Parent PROVE \E m \in mounts' : On(k, m)
    BY DEF Closed
  <1>1. k \in mounts /\ (k.dev # d \/ Busy(mounts, k))
    BY DEF Without
  <1>2. PICK m \in mounts : On(k, m)
    BY <1>1 DEF Closed
  <1>3. Busy(mounts, m)
    BY <1>1, <1>2 DEF Busy, On
  <1>4. QED
    BY <1>2, <1>3 DEF Without

-----------------------------------------------------------------------------
(* Systems in use. *)

LEMMA PushedHolds == \A x \in STRING : \A s \in Seq(STRING) : ToSet(<<x>> \o s) = {x} \cup ToSet(s)
  <1> SUFFICES ASSUME NEW x \in STRING, NEW s \in Seq(STRING) PROVE ToSet(<<x>> \o s) = {x} \cup ToSet(s)
    OBVIOUS
  <1> DEFINE t == <<x>> \o s
  <1>1. t = <<x>> \o s
    OBVIOUS
  <1> HIDE DEF t
  <1>2. ToSet(t) = {x} \cup ToSet(s)
    BY <1>1, Pushed
  <1>3. QED
    BY <1>2 DEF t
(* What UmountSlice leaves: without the /var, and what is on "tmp" then.   *)
NoVar == mounts \ (IF varslice = "none" THEN {} ELSE At("tmp", "/var"))
OnTmp == {m \in NoVar : m.base = "tmp"}
LEMMA UmountKinds ==
  ASSUME UmountSlice
  PROVE  /\ mdPc = "umount" /\ mdPc' = "slice" /\ UNCHANGED <<swaps, mdLists, mdSlice, machine>>
         /\ \/ rootmounted /\ mounts' = NoVar /\ UNCHANGED umountOk
            \/ ~rootmounted /\ mounts' = NoVar \ OnTmp /\ UNCHANGED umountOk
            \/ /\ ~rootmounted /\ umountOk' = (umountOk /\ {m \in OnTmp : m.sub = "/"} = {})
               /\ mounts' = (NoVar \ OnTmp) \cup {[m EXCEPT !.base = "lost"] : m \in OnTmp}
  <1>1. mdPc = "umount" /\ mdPc' = "slice" /\ UNCHANGED <<swaps, mdLists, mdSlice, machine>>
    BY DEF UmountSlice
  <1> DEFINE root == {m \in OnTmp : m.sub = "/"}
  <1> DEFINE can == root # {} /\ OnTmp = root
  <1>2. \/ rootmounted /\ Works /\ mounts' = NoVar /\ UNCHANGED umountOk
        \/ ~rootmounted /\ can /\ Works /\ mounts' = NoVar \ root /\ UNCHANGED umountOk
        \/ /\ ~rootmounted /\ (IF can THEN May("umount") ELSE Works)
           /\ mounts' = (NoVar \ OnTmp) \cup {[m EXCEPT !.base = "lost"] : m \in OnTmp}
           /\ umountOk' = (umountOk /\ root = {})
    BY DEF UmountSlice, NoVar, OnTmp
  <1>3. QED
    BY <1>1, <1>2

LEMMA SafeMounts ==
  ASSUME MdTyped, Closed, MdNext
  PROVE  mounts' \subseteq Mounts /\ Closed'
  <1>1. mounts \subseteq Mounts /\ Shaped
    BY ShapedIsTyped
  <1>2. ASSUME NEW d, NEW b \in {"tmp", "live"}, NEW s, Mount(d, b, s) PROVE mounts' \subseteq Mounts /\ Closed'
    BY <1>1, <1>2, MountKeepsClosed DEF Mount, Mounts
  <1>3. ASSUME NEW d, mounts' = Without(mounts, d) PROVE mounts' \subseteq Mounts /\ Closed'
    BY <1>1, <1>3, WithoutKeepsClosed DEF Without
  <1>4. ASSUME mounts' = mounts PROVE mounts' \subseteq Mounts /\ Closed'
    BY <1>1, <1>4 DEF Closed
  <1>5. CASE SkipSlice \/ Examine \/ UmountOld \/ AllUndone \/ StartRetries \/ EndOfPass \/ LookAtZones \/ UmountNew
             \/ Record \/ EndOfDiscovery \/ MdOver
    BY <1>4, <1>5, QuietSteps DEF Quiet
  <1>6. CASE MountSlice
    <2>1. slices # <<>>
          /\ mounts' = IF Live THEN mounts ELSE mounts \cup {[dev |-> Slice, base |-> "tmp", sub |-> "/"]}
      BY <1>6 DEF MountSlice
    <2>2. Slice \in STRING
      BY <2>1, InSliceKnown
    <2>3. CASE ~Live
      <3>1. mounts' \subseteq Mounts
        BY <1>1, <2>1, <2>2, <2>3, RootIsDir DEF Mounts
      <3>2. Closed'
        BY <2>1, <2>3, RootIsDir DEF Closed, On
      <3>3. QED
        BY <3>1, <3>2
    <2>4. QED
      BY <1>4, <2>1, <2>3
  <1>7. CASE LookForVar
    <2>1. \/ mounts' = mounts
          \/ NeedsVar /\ CanMountVar /\ mounts' = mounts \cup {[dev |-> VarDev, base |-> "tmp", sub |-> "/var"]}
      BY <1>7 DEF LookForVar
    <2>2. slices # <<>>
      BY <1>1, <1>7 DEF LookForVar, Shaped, InSlice
    <2>3. NeedsVar => VarDev \in STRING
      BY <2>2, VarDevKnown DEF NeedsVar
    <2>4. CASE NeedsVar /\ CanMountVar /\ mounts' = mounts \cup {[dev |-> VarDev, base |-> "tmp", sub |-> "/var"]}
      <3>1. Mount(VarDev, "tmp", "/var")
        BY <2>3, <2>4, RootIsDir DEF Mount, CanMountVar
      <3>2. QED
        BY <1>2, <3>1
    <2>5. QED
      BY <1>4, <2>1, <2>4
  <1>8. CASE UmountOne
    BY <1>3, <1>4, <1>8 DEF UmountOne
  <1>9. CASE UnswapOne
    BY <1>4, <1>9 DEF UnswapOne
  <1>10. CASE MountRoot
    BY <1>3, <1>4, <1>10 DEF MountRoot
  <1>11. CASE VfstabLine \/ RetryOne
    <2>1. PICK l \in Lines : LineDone(l)
      BY <1>11, LineKinds
    <2>2. Base \in {"tmp", "live"}
      BY DEF Base
    <2>3. CASE Mount(l.dev, Base, l.sub)
      BY <1>2, <2>2, <2>3
    <2>4. CASE mounts' = mounts
      BY <1>4, <2>4
    <2>5. QED
      <3>1. Mount(l.dev, Base, l.sub) \/ mounts' = mounts
        BY ONLY <2>1 DEF LineDone, Quiet
      <3>2. QED
        BY <2>3, <2>4, <3>1
  <1>12. CASE UmountSlice
    <2>1. \/ mounts' = NoVar \/ mounts' = NoVar \ OnTmp
          \/ mounts' = (NoVar \ OnTmp) \cup {[m EXCEPT !.base = "lost"] : m \in OnTmp}
      BY <1>12, UmountKinds
    <2>2. NoVar \subseteq mounts /\ OnTmp \subseteq NoVar
          /\ \A m \in mounts : m \notin NoVar => m.base = "tmp" /\ m.sub = "/var"
      BY DEF NoVar, OnTmp, At
    <2>3. \A m \in OnTmp : /\ [m EXCEPT !.base = "lost"] \in Mounts /\ [m EXCEPT !.base = "lost"].base = "lost"
      BY <1>1, <2>2 DEF Mounts
    <2>4. mounts' \subseteq Mounts
      BY <1>1, <2>1, <2>2, <2>3
    <2>5. ASSUME NEW k \in mounts', k.base # "lost", k.sub \in DOMAIN Parent PROVE \E m \in mounts' : On(k, m)
      <3>1. k \in NoVar /\ (k \in OnTmp => mounts' = NoVar)
        <4>1. CASE mounts' = NoVar
          BY <2>5, <4>1
        <4>2. CASE mounts' = NoVar \ OnTmp
          BY <2>5, <4>2
        <4>3. CASE mounts' = (NoVar \ OnTmp) \cup {[m EXCEPT !.base = "lost"] : m \in OnTmp}
          <5>1. \A m \in {[h EXCEPT !.base = "lost"] : h \in OnTmp} : m.base = "lost"
            BY <2>3
          <5>2. QED
            BY <2>5, <4>3, <5>1
        <4>4. QED
          BY <2>1, <4>1, <4>2, <4>3
      <3>2. PICK m \in mounts : On(k, m)
        BY <2>2, <2>5, <3>1 DEF Closed
      <3>3. m \in NoVar
        BY <2>2, <2>5, <3>2, RootIsDir DEF On
      <3>4. k \notin OnTmp => m \notin OnTmp
        BY <3>1, <3>2 DEF OnTmp, On
      <3>5. m \in mounts'
        BY <2>1, <3>1, <3>3, <3>4
      <3>6. QED
        BY <3>2, <3>5
    <2>6. Closed'
      BY <2>5 DEF Closed, On
    <2>7. QED
      BY <2>4, <2>6
  <1>13. QED
    BY <1>5, <1>6, <1>7, <1>8, <1>9, <1>10, <1>11, <1>12 DEF MdNext

(* Systems in use keep what is theirs.                                     *)
LEMMA InUseStep ==
  ASSUME MdTyped, Closed, InUseInv, MdNext
  PROVE  InUseInv' /\ machine' = machine
  <1>1. machine' = machine
    <2> USE DEF mdFixed
    <2>1. CASE MountSlice
      BY <2>1 DEF MountSlice
    <2>2. CASE LookForVar
      BY <2>2 DEF LookForVar
    <2>3. CASE UmountOne \/ UnswapOne
      BY <2>3 DEF UmountOne, UnswapOne
    <2>4. CASE MountRoot
      BY <2>4 DEF MountRoot
    <2>5. CASE VfstabLine \/ RetryOne
      BY <2>5, LineKinds
    <2>6. CASE UmountSlice
      BY <2>6, UmountKinds
    <2>7. QED
      BY <2>1, <2>2, <2>3, <2>4, <2>5, <2>6, QuietSteps DEF MdNext
  <1>2. Protected' = Protected
    BY <1>1 DEF Protected
  <1>3. /\ machine.swaps \subseteq swaps /\ \A d \in ToSet(unswap_head) : d \notin machine.swaps
        /\ Protected \subseteq mounts /\ \A d \in ToSet(umount_head), m \in Protected : m.dev # d
    BY DEF InUseInv
  <1>4. Shaped
    BY ShapedIsTyped
  <1>5. \A m \in Protected : m.base = "live" /\ m \in machine.mounts
    BY <1>4, MdAssumption DEF Protected, Shaped
  <1>6. ASSUME KeepStacks, Protected \subseteq mounts' PROVE InUseInv'
    BY <1>1, <1>2, <1>3, <1>6 DEF InUseInv, KeepStacks
  <1>7. CASE Quiet
    <2>1. KeepStacks /\ Protected \subseteq mounts'
      BY <1>3, <1>7 DEF Quiet, KeepStacks
    <2>2. QED
      BY <1>1, <1>6, <2>1
  <1>8. CASE MountSlice \/ LookForVar
    <2>1. KeepStacks
      BY <1>8 DEF MountSlice, LookForVar, mdLists, KeepStacks
    <2>2. mounts \subseteq mounts'
      BY <1>8 DEF MountSlice, LookForVar
    <2>3. Protected \subseteq mounts'
      BY <1>3, <2>2
    <2>4. QED
      BY <1>1, <1>6, <2>1, <2>3
  <1>9. CASE UmountOne
    <2>1. /\ umount_head # <<>> /\ umount_head' = Tail(umount_head) /\ UNCHANGED <<swaps, unswap_head>>
          /\ (mounts' = Without(mounts, Head(umount_head)) \/ mounts' = mounts)
      BY <1>9 DEF UmountOne
    <2>2. ToSet(umount_head) = {Head(umount_head)} \cup ToSet(umount_head')
      BY <1>4, <2>1, Popped DEF Shaped
    <2>3. \A m \in Protected : m.dev # Head(umount_head)
      BY <1>3, <2>2
    <2>4. Protected \subseteq mounts'
      BY <1>3, <2>1, <2>3 DEF Without
    <2>5. QED
      BY <1>1, <1>2, <1>3, <2>1, <2>2, <2>4 DEF InUseInv
  <1>10. CASE UnswapOne
    <2>1. /\ unswap_head # <<>> /\ unswap_head' = Tail(unswap_head) /\ UNCHANGED <<mounts, umount_head>>
          /\ (swaps' = swaps \ {Head(unswap_head)} \/ swaps' = swaps)
      BY <1>10 DEF UnswapOne
    <2>2. ToSet(unswap_head) = {Head(unswap_head)} \cup ToSet(unswap_head')
      BY <1>4, <2>1, Popped DEF Shaped
    <2>3. QED
      BY <1>1, <1>2, <1>3, <2>1, <2>2 DEF InUseInv
  <1>11. CASE MountRoot
    <2>1. /\ KeepStacks
          /\ mounts' = mounts \/ (~Info.readable /\ mounts' = Without(mounts, Slice))
      BY <1>11 DEF MountRoot, KeepStacks
    <2>2. Slice \in DOMAIN machine.info
      BY <1>4, <1>11, InSliceKnown DEF MountRoot, Shaped, InSlice
    <2>3. ~Info.readable => \A m \in Protected : m.dev # Slice
      BY <2>2 DEF Protected, Info
    <2>4. Protected \subseteq mounts'
      BY <1>3, <2>1, <2>3 DEF Without
    <2>5. QED
      BY <1>1, <1>2, <1>3, <2>1, <2>4 DEF InUseInv, KeepStacks
  <1>12. CASE VfstabLine \/ RetryOne
    <2>1. PICK l \in Lines : LineDone(l)
      BY <1>12, LineKinds
    <2>2. l.dev \in STRING
      BY DEF Lines
    <2>3. CASE Mount(l.dev, Base, l.sub) /\ ~Mounted(l.dev) /\ umount_head' = <<l.dev>> \o umount_head
               /\ UNCHANGED <<swaps, unswap_head>>
      <3>0. umount_head \in Seq(STRING)
        BY <1>4 DEF Shaped
      <3>1. ToSet(umount_head') = {l.dev} \cup ToSet(umount_head)
        BY <2>2, <2>3, <3>0, PushedHolds, Zenon
      <3>2. \A m \in Protected : m.dev # l.dev
        BY <1>3, <2>3 DEF Mounted
      <3>3. mounts \subseteq mounts'
        BY <2>3 DEF Mount
      <3>4. QED
        BY <1>1, <1>2, <1>3, <2>3, <3>1, <3>2, <3>3 DEF InUseInv
    <2>4. CASE add_swap_dev(l.dev) /\ UNCHANGED <<mounts, umount_head>>
      <3>1. CASE l.dev \in swaps
        BY <1>7, <2>4, <3>1 DEF add_swap_dev, Quiet
      <3>2. CASE l.dev \notin swaps
        <4>1. swaps' = swaps \cup {l.dev} /\ unswap_head' = <<l.dev>> \o unswap_head
          BY <2>4, <3>2 DEF add_swap_dev
        <4>0. unswap_head \in Seq(STRING)
          BY <1>4 DEF Shaped
        <4>2. ToSet(unswap_head') = {l.dev} \cup ToSet(unswap_head)
          BY <2>2, <4>0, <4>1, PushedHolds, Zenon
        <4>3. QED
          BY <1>1, <1>2, <1>3, <2>4, <3>2, <4>1, <4>2 DEF InUseInv
      <3>3. QED
        BY <3>1, <3>2
    <2>5. QED
      BY <1>7, <2>1, <2>3, <2>4 DEF LineDone
  <1>13. CASE UmountSlice
    <2>1. KeepStacks
      BY <1>13, UmountKinds DEF mdLists, KeepStacks
    <2>2. \/ mounts' = NoVar \/ mounts' = NoVar \ OnTmp
          \/ mounts' = (NoVar \ OnTmp) \cup {[m EXCEPT !.base = "lost"] : m \in OnTmp}
      BY <1>13, UmountKinds
    <2>3. \A m \in mounts : m.base = "live" => m \in NoVar /\ m \notin OnTmp
      BY DEF NoVar, OnTmp, At
    <2>4. Protected \subseteq mounts'
      BY <1>3, <1>5, <2>2, <2>3
    <2>5. QED
      BY <1>1, <1>2, <1>3, <2>1, <2>4 DEF InUseInv, KeepStacks
  <1>14. QED
    BY <1>1, <1>7, <1>8, <1>9, <1>10, <1>11, <1>12, <1>13, QuietSteps DEF MdNext

-----------------------------------------------------------------------------
(* What there is to undo. *)

(* A step that is not about the tables keeps the place in the slice.       *)
LEMMA QuietPlaces ==
  ASSUME SkipSlice \/ Examine \/ UmountOld \/ AllUndone \/ StartRetries \/ EndOfPass \/ LookAtZones \/ UmountNew
         \/ Record \/ EndOfDiscovery \/ MdOver
  PROVE  /\ \/ mdPc \in InSlice /\ mdPc' \in InSlice /\ slices' = slices
            \/ mdPc \notin InSlice /\ mdPc' \notin InSlice
         /\ mdPc' \notin Holding /\ mdPc \in Holding =>
              umountOk' = FALSE \/ (umount_head = <<>> /\ unswap_head = <<>>)
         /\ umountOk' = umountOk \/ umountOk' = FALSE
  <1> USE DEF mdFixed, InSlice, Holding
  <1>1. CASE SkipSlice
    BY <1>1 DEF SkipSlice
  <1>2. CASE Examine
    BY <1>2 DEF Examine
  <1>3. CASE UmountOld \/ UmountNew
    <2>1. CASE UmountOld
      BY <2>1 DEF UmountOld, td_umount_all
    <2>2. CASE UmountNew
      BY <2>2 DEF UmountNew, td_umount_all
    <2>3. QED
      BY <1>3, <2>1, <2>2
  <1>4. CASE AllUndone
    BY <1>4 DEF AllUndone, Undoing
  <1>5. CASE StartRetries
    BY <1>5 DEF StartRetries
  <1>6. CASE EndOfPass
    BY <1>6 DEF EndOfPass
  <1>7. CASE LookAtZones
    BY <1>7 DEF LookAtZones, Failed
  <1>8. CASE Record
    BY <1>8 DEF Record
  <1>9. CASE EndOfDiscovery \/ MdOver
    BY <1>9 DEF EndOfDiscovery, MdOver, mdVars
  <1>10. QED
    BY <1>1, <1>2, <1>3, <1>4, <1>5, <1>6, <1>7, <1>8, <1>9

LEMMA QuietBalance ==
  ASSUME Balance, Quiet, UNCHANGED <<machine, rootmounted, varslice>>,
         \/ mdPc \in InSlice /\ mdPc' \in InSlice /\ slices' = slices
         \/ mdPc \notin InSlice /\ mdPc' \notin InSlice,
         mdPc' \notin Holding => umount_head = <<>> /\ unswap_head = <<>>
  PROVE  Balance'
  <1>1. UNCHANGED <<mounts, swaps, umount_head, unswap_head>>
    BY DEF Quiet
  <1>2. (mdPc' \in InSlice) = (mdPc \in InSlice)
    OBVIOUS
  <1>3. \A m : ToUndo(m) => ToUndo(m)'
    BY <1>1, <1>2 DEF ToUndo, RootMount, Slice
  <1>4. LinesInOrder'
    <2>1. LinesInOrder
      BY DEF Balance
    <2>2. QED
      BY <1>1, <2>1 DEF LinesInOrder, On
  <1>5. \A m \in mounts' : m \in machine'.mounts \/ ToUndo(m)'
    BY <1>1, <1>3 DEF Balance
  <1>6. \A m \in mounts' : m.base = "tmp" => mdPc' \in InSlice /\ ~rootmounted'
    BY <1>1, <1>2 DEF Balance
  <1>7. swaps' \subseteq machine'.swaps \cup ToSet(unswap_head')
    BY <1>1 DEF Balance
  <1>8. mdPc' \notin Holding => umount_head' = <<>> /\ unswap_head' = <<>>
    BY <1>1
  <1>9. QED
    BY <1>4, <1>5, <1>6, <1>7, <1>8 DEF Balance

(* The directory that everything on "tmp" is on in the end.                *)
LEMMA DownToTheRoot ==
  ASSUME Closed, NEW k \in mounts, k.base = "tmp", k.sub \in Dirs
  PROVE  \E m \in mounts : m.base = "tmp" /\ m.sub = "/"
  <1>1. \A h \in mounts : h.base = "tmp" /\ h.sub \in DOMAIN Parent =>
          \E m \in mounts : m.base = "tmp" /\ m.sub = Parent[h.sub]
    BY DEF Closed, On
  <1>2. CASE k.sub = "/"
    BY <1>2
  <1>3. CASE k.sub # "/"
    <2>1. k.sub \in DOMAIN Parent
      BY <1>3 DEF Dirs
    <2>2. PICK a \in mounts : a.base = "tmp" /\ a.sub = Parent[k.sub]
      BY <1>1, <2>1
    <2>3. CASE a.sub = "/"
      BY <2>2, <2>3
    <2>4. CASE a.sub # "/"
      <3>1. a.sub \in DOMAIN Parent
        BY <2>1, <2>2, <2>4, RootIsDir
      <3>2. PICK b \in mounts : b.base = "tmp" /\ b.sub = Parent[a.sub]
        BY <1>1, <2>2, <3>1
      <3>3. CASE b.sub = "/"
        BY <3>2, <3>3
      <3>4. CASE b.sub # "/"
        <4>1. b.sub \in DOMAIN Parent /\ Parent[b.sub] = "/"
          BY <2>1, <2>2, <2>4, <3>2, <3>4, RootIsDir
        <4>2. QED
          BY <1>1, <3>2, <4>1
      <3>5. QED
        BY <3>3, <3>4
    <2>5. QED
      BY <2>3, <2>4
  <1>4. QED
    BY <1>2, <1>3

(* Pushing a mount and popping one keep the order.                         *)
LEMMA PushKeepsOrder ==
  ASSUME MdTyped, Closed, LinesInOrder, NEW d \in STRING, NEW b \in {"tmp", "live"}, NEW s,
         Mount(d, b, s), ~Mounted(d), umount_head' = <<d>> \o umount_head
  PROVE  LinesInOrder'
  <1> DEFINE n == [dev |-> d, base |-> b, sub |-> s]
  <1>1. n.dev = d /\ n.base = b /\ n.sub = s /\ mounts' = mounts \cup {n}
    BY DEF Mount
  <1>2. \A k \in mounts : ~(k.base = b /\ k.sub = s)
    BY DEF Mount, Free, At
  <1> HIDE DEF n
  <1>3. \A k \in mounts' : ~On(k, n)
    <2> SUFFICES ASSUME NEW k \in mounts', On(k, n) PROVE FALSE
      OBVIOUS
    <2>1. k.base = b /\ k.sub \in DOMAIN Parent /\ Parent[k.sub] = s
      BY <1>1 DEF On
    <2>2. k # n
      BY <1>1, <2>1, RootIsDir
    <2>3. k \in mounts /\ k.base # "lost"
      BY <1>1, <2>1, <2>2
    <2>4. PICK h \in mounts : On(k, h)
      BY <2>1, <2>3 DEF Closed
    <2>5. QED
      BY <1>2, <2>1, <2>4 DEF On
  <1>4. umount_head \in Seq(STRING)
    BY DEF MdTyped
  <1>5. /\ DOMAIN umount_head' = 1..(Len(umount_head) + 1) /\ Len(umount_head) \in Nat
        /\ DOMAIN umount_head = 1..Len(umount_head) /\ umount_head'[1] = d
        /\ \A i \in 1..Len(umount_head) : umount_head'[i + 1] = umount_head[i]
    <2> DEFINE h == umount_head
    <2> DEFINE t == umount_head'
    <2>1. t = <<d>> \o h /\ h \in Seq(STRING)
      BY <1>4
    <2> HIDE DEF h, t
    <2>2. /\ DOMAIN t = 1..(Len(h) + 1) /\ Len(h) \in Nat /\ DOMAIN h = 1..Len(h) /\ t[1] = d
          /\ \A i \in 1..Len(h) : t[i + 1] = h[i]
      BY <2>1, Pushed
    <2>3. QED
      BY <2>2 DEF h, t
  <1>6. SUFFICES ASSUME NEW i \in DOMAIN umount_head', NEW m \in mounts', NEW k \in mounts',
                        m.dev = umount_head'[i], On(k, m)
                 PROVE  \E j \in 1..(i - 1) : k.dev = umount_head'[j]
    BY DEF LinesInOrder, On
  <1>7. m # n /\ m \in mounts /\ m.dev # d
    BY <1>1, <1>3, <1>6 DEF Mounted
  <1>8. i # 1 /\ i \in 1..(Len(umount_head) + 1)
    BY <1>5, <1>6, <1>7
  <1>9. i - 1 \in 1..Len(umount_head) /\ i = (i - 1) + 1 /\ 1 \in 1..(i - 1)
    BY <1>5, <1>8
  <1>10. CASE k = n
    BY <1>1, <1>5, <1>9, <1>10
  <1>11. CASE k \in mounts
    <2>1. m.dev = umount_head[i - 1] /\ i - 1 \in DOMAIN umount_head
      BY <1>5, <1>6, <1>9
    <2>2. PICK j \in 1..((i - 1) - 1) : k.dev = umount_head[j]
      BY <1>6, <1>7, <1>11, <2>1 DEF LinesInOrder
    <2>3. j \in 1..Len(umount_head) /\ j + 1 \in 1..(i - 1)
      BY <1>5, <1>9
    <2>4. umount_head'[j + 1] = umount_head[j]
      BY <1>5, <2>3
    <2>5. QED
      BY <2>2, <2>3, <2>4
  <1>12. QED
    BY <1>1, <1>10, <1>11

LEMMA PopKeepsOrder ==
  ASSUME MdTyped, LinesInOrder, umount_head # <<>>, umount_head' = Tail(umount_head),
         mounts' = Without(mounts, Head(umount_head))
  PROVE  /\ LinesInOrder' /\ \A m \in mounts' : m.dev # Head(umount_head)
         /\ ToSet(umount_head) = {Head(umount_head)} \cup ToSet(umount_head')
  <1>1. umount_head \in Seq(STRING)
    BY DEF MdTyped
  <1>2. /\ ToSet(umount_head) = {Head(umount_head)} \cup ToSet(umount_head')
        /\ DOMAIN umount_head' = 1..(Len(umount_head) - 1) /\ DOMAIN umount_head = 1..Len(umount_head)
        /\ Len(umount_head) \in Nat \ {0} /\ umount_head[1] = Head(umount_head)
        /\ \A i \in 1..(Len(umount_head) - 1) : umount_head'[i] = umount_head[i + 1] /\ i + 1 \in 1..Len(umount_head)
    BY <1>1, Popped
  <1>3. 1 \in DOMAIN umount_head /\ 1..(1 - 1) = {}
    BY <1>2
  <1>4. \A m \in mounts : m.dev = Head(umount_head) => ~Busy(mounts, m)
    <2> SUFFICES ASSUME NEW m \in mounts, m.dev = Head(umount_head), NEW k \in mounts, On(k, m) PROVE FALSE
      BY DEF Busy, On
    <2>1. \E j \in 1..(1 - 1) : k.dev = umount_head[j]
      BY <1>2, <1>3 DEF LinesInOrder
    <2>2. QED
      BY <1>3, <2>1
  <1>5. mounts' \subseteq mounts /\ \A m \in mounts' : m.dev # Head(umount_head)
    BY <1>4 DEF Without
  <1>6. LinesInOrder'
    <2> SUFFICES ASSUME NEW i \in DOMAIN umount_head', NEW m \in mounts', NEW k \in mounts',
                        m.dev = umount_head'[i], On(k, m)
                 PROVE  \E j \in 1..(i - 1) : k.dev = umount_head'[j]
      BY DEF LinesInOrder, On
    <2>1. i \in 1..(Len(umount_head) - 1) /\ i + 1 \in DOMAIN umount_head /\ m.dev = umount_head[i + 1]
      BY <1>2
    <2>2. m \in mounts /\ k \in mounts /\ k.dev # umount_head[1]
      BY <1>2, <1>5
    <2>3. PICK j \in 1..((i + 1) - 1) : k.dev = umount_head[j]
      BY <2>1, <2>2 DEF LinesInOrder
    <2>4. j # 1
      BY <2>2, <2>3
    <2>5. j - 1 \in 1..(i - 1) /\ j - 1 \in 1..(Len(umount_head) - 1) /\ (j - 1) + 1 = j
      BY <1>2, <2>1, <2>4
    <2>6. umount_head'[j - 1] = umount_head[j]
      BY <1>2, <2>5
    <2>7. QED
      BY <2>3, <2>5, <2>6
  <1>7. QED
    BY <1>2, <1>5, <1>6

LEMMA MountSliceBalance ==
  ASSUME MdTyped, Balance, MountSlice
  PROVE  Balance'
  <1>1. /\ mdPc = "slice" /\ mdPc' = "vfstab" /\ slices' = slices /\ rootmounted' = Live /\ varslice' = "none"
        /\ mounts' = IF Live THEN mounts ELSE mounts \cup {[dev |-> Slice, base |-> "tmp", sub |-> "/"]}
        /\ UNCHANGED <<swaps, umount_head, unswap_head, machine>>
    BY DEF MountSlice, mdLists
  <1>2. umount_head = <<>> /\ unswap_head = <<>> /\ ToSet(umount_head) = {}
    BY <1>1, EmptyHoldsNothing DEF Balance, Holding
  <1>3. \A m \in mounts : m \in machine.mounts /\ m.base # "tmp"
    BY <1>1, <1>2 DEF Balance, ToUndo, InSlice
  <1>4. \A m \in mounts' : m \in machine'.mounts \/ ToUndo(m)'
    BY <1>1, <1>3 DEF ToUndo, RootMount, InSlice, Slice
  <1>5. \A m \in mounts' : m.base = "tmp" => mdPc' \in InSlice /\ ~rootmounted'
    BY <1>1, <1>3 DEF InSlice
  <1>6. umount_head' = <<>> /\ unswap_head' = <<>> /\ DOMAIN <<>> = {}
    BY <1>1, <1>2
  <1>7. LinesInOrder'
    BY <1>6 DEF LinesInOrder
  <1>8. swaps' \subseteq machine'.swaps \cup ToSet(unswap_head')
    BY <1>1 DEF Balance
  <1>9. QED
    BY <1>4, <1>5, <1>6, <1>7, <1>8 DEF Balance

LEMMA LookForVarBalance ==
  ASSUME MdTyped, Balance, LookForVar
  PROVE  Balance'
  <1>1. /\ mdPc = "vfstab" /\ mdPc' \in {"checks", "umount"}
        /\ UNCHANGED <<swaps, umount_head, unswap_head, machine, slices, rootmounted>>
    BY DEF LookForVar, mdLists, mdFixed, Missing
  <1>2. \/ mounts' = mounts /\ varslice' = varslice
        \/ /\ NeedsVar /\ CanMountVar /\ varslice' = VarDev
           /\ mounts' = mounts \cup {[dev |-> VarDev, base |-> "tmp", sub |-> "/var"]}
    BY DEF LookForVar
  <1>3. umount_head = <<>> /\ unswap_head = <<>> /\ umount_head' = <<>> /\ unswap_head' = <<>>
    BY <1>1 DEF Balance, Holding
  <1>4. slices # <<>>
    BY <1>1 DEF MdTyped, InSlice
  <1>5. NeedsVar => VarDev # "none"
    BY <1>4, VarDevKnown DEF NeedsVar
  <1>6. CanMountVar => ~rootmounted
    <2> SUFFICES ASSUME CanMountVar PROVE ~rootmounted
      OBVIOUS
    <2>1. PICK m \in mounts : m.base = "tmp"
      BY RootIsDir DEF CanMountVar, DirExists, At
    <2>2. QED
      BY <2>1 DEF Balance
  <1>7. varslice # "none" => varslice' # "none"
    BY <1>2, <1>5
  <1>8. \A m : ToUndo(m) => ToUndo(m)'
    BY <1>1, <1>7 DEF ToUndo, RootMount, Slice, InSlice
  <1>9. \A m \in mounts' : m \in machine'.mounts \/ ToUndo(m)'
    <2> SUFFICES ASSUME NEW m \in mounts' PROVE m \in machine'.mounts \/ ToUndo(m)'
      OBVIOUS
    <2>1. CASE m \in mounts
      BY <1>1, <1>8, <2>1 DEF Balance
    <2>2. CASE m \notin mounts
      <3>1. m.base = "tmp" /\ m.sub = "/var" /\ varslice' # "none" /\ mdPc' \in InSlice
        BY <1>1, <1>2, <1>5, <2>2 DEF InSlice
      <3>2. QED
        BY <3>1 DEF ToUndo
    <2>3. QED
      BY <2>1, <2>2
  <1>10. \A m \in mounts' : m.base = "tmp" => mdPc' \in InSlice /\ ~rootmounted'
    <2> SUFFICES ASSUME NEW m \in mounts', m.base = "tmp" PROVE ~rootmounted
      BY <1>1 DEF InSlice
    <2>1. CASE m \in mounts
      BY <2>1 DEF Balance
    <2>2. QED
      BY <1>2, <1>6, <2>1
  <1>11. LinesInOrder'
    <2>1. DOMAIN umount_head' = {}
      BY <1>3
    <2>2. QED
      BY <2>1 DEF LinesInOrder
  <1>12. swaps' \subseteq machine'.swaps \cup ToSet(unswap_head')
    BY <1>1 DEF Balance
  <1>13. QED
    BY <1>3, <1>9, <1>10, <1>11, <1>12 DEF Balance

(* The steps in which there may be something to undo, and MountRoot.       *)
LEMMA LineBalance ==
  ASSUME MdTyped, Closed, Balance, VfstabLine \/ RetryOne
  PROVE  Balance'
  <1>1. PICK l \in Lines : LineDone(l)
    BY LineKinds
  <1>2. /\ mdPc \in {"line", "retry"} /\ mdPc' \in {"line", "retry", "unzone"}
        /\ UNCHANGED <<machine, rootdir, slices, rootmounted, varslice>>
    BY LineKinds DEF mdSlice, mdFixed
  <1>3. l.dev \in STRING /\ l.sub \in Dirs
    BY DEF Lines
  <1>4. umount_head \in Seq(STRING) /\ unswap_head \in Seq(STRING) /\ mdPc \in InSlice /\ mdPc' \in InSlice
        /\ mdPc' \in Holding
    BY <1>2 DEF MdTyped, InSlice, Holding
  <1>5. Base = "tmp" => ~rootmounted
    BY <1>4 DEF MdTyped, Base
  <1>6. ASSUME ToSet(umount_head) \subseteq ToSet(umount_head') PROVE \A m : ToUndo(m) => ToUndo(m)'
    BY <1>2, <1>4, <1>6 DEF ToUndo, RootMount, Slice
  <1>7. CASE Quiet
    BY <1>2, <1>4, <1>7, QuietBalance DEF Balance
  <1>8. CASE Mount(l.dev, Base, l.sub) /\ ~Mounted(l.dev) /\ umount_head' = <<l.dev>> \o umount_head
             /\ UNCHANGED <<swaps, unswap_head>>
    <2>1. ToSet(umount_head') = {l.dev} \cup ToSet(umount_head)
      BY <1>3, <1>4, <1>8, PushedHolds, Zenon
    <2>2. LinesInOrder'
      <3>1. Base \in {"tmp", "live"} /\ LinesInOrder
        BY DEF Base, Balance
      <3>2. QED
        BY <1>3, <1>8, <3>1, PushKeepsOrder
    <2>3. mounts' = mounts \cup {[dev |-> l.dev, base |-> Base, sub |-> l.sub]}
      BY <1>8 DEF Mount
    <2>4. \A m \in mounts' : m \in mounts \/ (m.dev = l.dev /\ m.base = Base)
      BY <2>3
    <2>5. \A m : ToUndo(m) => ToUndo(m)'
      BY <1>6, <2>1
    <2>6. \A m \in mounts' : m \in machine'.mounts \/ ToUndo(m)'
      <3> SUFFICES ASSUME NEW m \in mounts' PROVE m \in machine'.mounts \/ ToUndo(m)'
        OBVIOUS
      <3>1. CASE m \in mounts
        BY <1>2, <2>5, <3>1 DEF Balance
      <3>2. CASE m.dev = l.dev
        BY <2>1, <3>2 DEF ToUndo
      <3>3. QED
        BY <2>4, <3>1, <3>2
    <2>7. \A m \in mounts' : m.base = "tmp" => mdPc' \in InSlice /\ ~rootmounted'
      BY <1>2, <1>4, <1>5, <2>4 DEF Balance
    <2>8. swaps' \subseteq machine'.swaps \cup ToSet(unswap_head')
      BY <1>2, <1>8 DEF Balance
    <2>9. QED
      BY <1>4, <2>2, <2>6, <2>7, <2>8 DEF Balance
  <1>9. CASE add_swap_dev(l.dev) /\ l.dev \notin swaps /\ UNCHANGED <<mounts, umount_head>>
    <2>1. swaps' = swaps \cup {l.dev} /\ unswap_head' = <<l.dev>> \o unswap_head
      BY <1>9 DEF add_swap_dev
    <2>2. ToSet(unswap_head') = {l.dev} \cup ToSet(unswap_head)
      BY <1>3, <1>4, <2>1, PushedHolds, Zenon
    <2>3. swaps' \subseteq machine'.swaps \cup ToSet(unswap_head')
      BY <1>2, <2>1, <2>2 DEF Balance
    <2>4. \A m : ToUndo(m) => ToUndo(m)'
      BY <1>6, <1>9
    <2>5. \A m \in mounts' : m \in machine'.mounts \/ ToUndo(m)'
      BY <1>2, <1>9, <2>4 DEF Balance
    <2>6. \A m \in mounts' : m.base = "tmp" => mdPc' \in InSlice /\ ~rootmounted'
      BY <1>2, <1>4, <1>9 DEF Balance
    <2>7. LinesInOrder'
      BY <1>9 DEF Balance, LinesInOrder, On
    <2>8. QED
      BY <1>4, <2>3, <2>5, <2>6, <2>7 DEF Balance
  <1>10. CASE add_swap_dev(l.dev) /\ l.dev \in swaps /\ UNCHANGED <<mounts, umount_head>>
    BY <1>7, <1>10 DEF add_swap_dev, Quiet
  <1>11. QED
    BY <1>1, <1>7, <1>8, <1>9, <1>10 DEF LineDone

LEMMA UmountOneBalance ==
  ASSUME MdTyped, Balance, UmountOne, umountOk'
  PROVE  Balance'
  <1>1. /\ Undoing /\ umount_head # <<>> /\ umount_head' = Tail(umount_head)
        /\ UNCHANGED <<swaps, unswap_head, machine, slices, rootmounted, varslice, mdPc>>
        /\ mounts' = Without(mounts, Head(umount_head))
    BY DEF UmountOne, mdFixed, mdSlice
  <1>2. LinesInOrder
    BY DEF Balance
  <1>3. LinesInOrder' /\ (\A m \in mounts' : m.dev # Head(umount_head))
        /\ ToSet(umount_head) = {Head(umount_head)} \cup ToSet(umount_head')
    BY <1>1, <1>2, PopKeepsOrder
  <1>4. mounts' \subseteq mounts
    BY <1>1 DEF Without
  <1>5. mdPc \in Holding
    BY <1>1 DEF Balance
  <1>6. \A m \in mounts' : ToUndo(m) => ToUndo(m)'
    BY <1>1, <1>3 DEF ToUndo, RootMount, Slice
  <1>7. \A m \in mounts' : m \in machine'.mounts \/ ToUndo(m)'
    BY <1>1, <1>4, <1>6 DEF Balance
  <1>8. \A m \in mounts' : m.base = "tmp" => mdPc' \in InSlice /\ ~rootmounted'
    BY <1>1, <1>4 DEF Balance
  <1>9. swaps' \subseteq machine'.swaps \cup ToSet(unswap_head')
    BY <1>1 DEF Balance
  <1>10. QED
    BY <1>1, <1>3, <1>5, <1>7, <1>8, <1>9 DEF Balance

LEMMA UnswapOneBalance ==
  ASSUME MdTyped, Balance, UnswapOne, umountOk'
  PROVE  Balance'
  <1>1. /\ Undoing /\ unswap_head # <<>> /\ unswap_head' = Tail(unswap_head)
        /\ UNCHANGED <<mounts, umount_head, machine, slices, rootmounted, varslice, mdPc>>
        /\ swaps' = swaps \ {Head(unswap_head)}
    BY DEF UnswapOne, mdFixed, mdSlice
  <1>2. ToSet(unswap_head) = {Head(unswap_head)} \cup ToSet(unswap_head')
    BY <1>1, Popped DEF MdTyped
  <1>3. mdPc \in Holding
    BY <1>1 DEF Balance
  <1>4. \A m : ToUndo(m) => ToUndo(m)'
    BY <1>1 DEF ToUndo, RootMount, Slice
  <1>5. \A m \in mounts' : m \in machine'.mounts \/ ToUndo(m)'
    BY <1>1, <1>4 DEF Balance
  <1>6. \A m \in mounts' : m.base = "tmp" => mdPc' \in InSlice /\ ~rootmounted'
    BY <1>1 DEF Balance
  <1>7. LinesInOrder'
    BY <1>1 DEF Balance, LinesInOrder, On
  <1>8. swaps' \subseteq machine'.swaps \cup ToSet(unswap_head')
    BY <1>1, <1>2 DEF Balance
  <1>9. QED
    BY <1>1, <1>3, <1>5, <1>6, <1>7, <1>8 DEF Balance

LEMMA MountRootBalance ==
  ASSUME MdTyped, Balance, MountRoot
  PROVE  Balance'
  <1>1. /\ mdPc = "mount" /\ mdPc' \in {"line", "unzone"} /\ mounts' \subseteq mounts
        /\ UNCHANGED <<swaps, umount_head, unswap_head, machine, slices, rootmounted, varslice>>
    BY DEF MountRoot, Failed, mdFixed, mdSlice, Without
  <1>2. mdPc' \in Holding /\ mdPc' \in InSlice
    BY <1>1 DEF Holding, InSlice
  <1>3. \A m : ToUndo(m) => ToUndo(m)'
    BY <1>1, <1>2 DEF ToUndo, RootMount, Slice
  <1>4. \A m \in mounts' : m \in machine'.mounts \/ ToUndo(m)'
    BY <1>1, <1>3 DEF Balance
  <1>5. \A m \in mounts' : m.base = "tmp" => mdPc' \in InSlice /\ ~rootmounted'
    BY <1>1, <1>2 DEF Balance
  <1>6. LinesInOrder'
    BY <1>1 DEF Balance, LinesInOrder, On
  <1>7. swaps' \subseteq machine'.swaps \cup ToSet(unswap_head')
    BY <1>1 DEF Balance
  <1>8. QED
    BY <1>2, <1>4, <1>5, <1>6, <1>7 DEF Balance

(* When the slice is unmounted and nothing failed, nothing of it is left.  *)
LEMMA UmountSliceBalance ==
  ASSUME MdTyped, Closed, Balance, UmountSlice, umountOk'
  PROVE  Balance'
  <1>1. /\ mdPc = "umount" /\ mdPc' = "slice"
        /\ UNCHANGED <<swaps, umount_head, unswap_head, rootmounted, varslice, machine>>
    BY UmountKinds DEF mdLists, mdSlice
  <1>2. umount_head = <<>> /\ unswap_head = <<>> /\ ToSet(umount_head) = {} /\ DOMAIN umount_head = {}
    BY <1>1, EmptyHoldsNothing DEF Balance, Holding
  <1>3. NoVar \subseteq mounts /\ OnTmp = {m \in NoVar : m.base = "tmp"}
    BY DEF NoVar, OnTmp
  <1>4. \A m \in mounts : m.base # "tmp" => m \in machine.mounts
    <2> SUFFICES ASSUME NEW m \in mounts, m.base # "tmp" PROVE m \in machine.mounts
      OBVIOUS
    <2>1. m \in machine.mounts \/ ToUndo(m)
      BY DEF Balance
    <2>2. ~ToUndo(m)
      BY <1>2 DEF ToUndo, RootMount
    <2>3. QED
      BY <2>1, <2>2
  <1>5. \A m \in mounts' : m \in mounts /\ m.base # "tmp"
    <2>1. CASE rootmounted /\ mounts' = NoVar
      BY <1>3, <2>1 DEF Balance
    <2>2. CASE mounts' = NoVar \ OnTmp
      BY <1>3, <2>2
    <2>3. CASE /\ umountOk' = (umountOk /\ {m \in OnTmp : m.sub = "/"} = {})
               /\ mounts' = (NoVar \ OnTmp) \cup {[m EXCEPT !.base = "lost"] : m \in OnTmp}
      <3>1. {m \in OnTmp : m.sub = "/"} = {}
        BY <2>3
      <3>2. \A m \in mounts : m.base = "tmp" /\ m.sub = "/" => m \in OnTmp
        BY DEF NoVar, OnTmp, At
      <3>3. \A m \in mounts : m.base = "tmp" => m.sub \in Dirs
        BY DEF MdTyped, MdTypeOK
      <3>4. \A m \in mounts : m.base # "tmp"
        BY <3>1, <3>2, <3>3, DownToTheRoot
      <3>5. OnTmp = {}
        BY <1>3, <3>4
      <3>6. mounts' = NoVar
        BY <2>3, <3>5
      <3>7. QED
        BY <1>3, <3>4, <3>6
    <2>4. QED
      BY <2>1, <2>2, <2>3, UmountKinds
  <1>6. \A m \in mounts' : m \in machine'.mounts
    BY <1>1, <1>4, <1>5
  <1>7. LinesInOrder'
    BY <1>1, <1>2 DEF LinesInOrder
  <1>8. swaps' \subseteq machine'.swaps \cup ToSet(unswap_head')
    BY <1>1 DEF Balance
  <1>9. QED
    BY <1>1, <1>2, <1>5, <1>6, <1>7, <1>8 DEF Balance

LEMMA BalanceStep ==
  ASSUME MdTyped, Closed, umountOk => Balance, MdNext
  PROVE  (umountOk => Balance)'
  <1> SUFFICES ASSUME umountOk' PROVE Balance'
    OBVIOUS
  <1>1. CASE SkipSlice \/ Examine \/ UmountOld \/ AllUndone \/ StartRetries \/ EndOfPass \/ LookAtZones \/ UmountNew
             \/ Record \/ EndOfDiscovery \/ MdOver
    <2>1. umountOk = TRUE
      BY <1>1, QuietPlaces DEF MdTyped
    <2>2. Balance
      BY <2>1
    <2>3. mdPc' \notin Holding => umount_head = <<>> /\ unswap_head = <<>>
      BY <1>1, <2>2, QuietPlaces DEF Balance
    <2>4. QED
      BY <1>1, <2>2, <2>3, QuietPlaces, QuietSteps, QuietBalance
  <1>2. CASE MountSlice \/ LookForVar
    BY <1>2, MountSliceBalance, LookForVarBalance DEF MountSlice, LookForVar
  <1>3. CASE UmountOne \/ UnswapOne
    <2>1. umountOk
      BY <1>3 DEF UmountOne, UnswapOne
    <2>2. QED
      BY <1>3, <2>1, UmountOneBalance, UnswapOneBalance
  <1>4. CASE MountRoot
    BY <1>4, MountRootBalance DEF MountRoot
  <1>5. CASE VfstabLine \/ RetryOne
    BY <1>5, LineKinds, LineBalance
  <1>6. CASE UmountSlice
    <2>1. umountOk
      BY <1>6, UmountKinds
    <2>2. QED
      BY <1>6, <2>1, UmountSliceBalance
  <1>7. QED
    BY <1>1, <1>2, <1>3, <1>4, <1>5, <1>6 DEF MdNext

LEMMA DoneStep ==
  ASSUME mdPc = "done" => rootdir = "install", MdTyped, MdNext
  PROVE  (mdPc = "done" => rootdir = "install")'
  <1>1. CASE EndOfDiscovery \/ MdOver
    BY <1>1 DEF EndOfDiscovery, MdOver, mdVars, mdFixed
  <1>2. mdPc \in InSlice /\ mdPc' \in InSlice => mdPc' # "done"
    BY DEF InSlice
  <1>3. CASE SkipSlice \/ MountSlice
    BY <1>3 DEF SkipSlice, MountSlice
  <1>4. CASE LookForVar
    BY <1>4 DEF LookForVar, Missing
  <1>5. CASE VfstabLine \/ RetryOne
    BY <1>5, LineKinds
  <1>6. CASE UmountSlice
    BY <1>6, UmountKinds
  <1>7. CASE UmountOne \/ UnswapOne
    BY <1>7 DEF UmountOne, UnswapOne, Undoing
  <1>8. CASE MountRoot
    BY <1>8 DEF MountRoot, Failed
  <1>9. CASE Examine \/ StartRetries
    BY <1>9 DEF Examine, StartRetries
  <1>10. CASE AllUndone
    BY <1>10 DEF AllUndone
  <1>11. CASE UmountOld
    BY <1>11 DEF UmountOld, td_umount_all
  <1>12. CASE UmountNew
    BY <1>12 DEF UmountNew, td_umount_all
  <1>13. CASE EndOfPass
    BY <1>13 DEF EndOfPass
  <1>14. CASE LookAtZones \/ Record
    BY <1>14 DEF LookAtZones, Record, Failed
  <1>15. QED
    BY <1>1, <1>3, <1>4, <1>5, <1>6, <1>7, <1>8, <1>9, <1>10, <1>11, <1>12, <1>13, <1>14 DEF MdNext

LEMMA MdInitInv == MdInit => MdInv
  <1> SUFFICES ASSUME MdInit PROVE MdInv
    OBVIOUS
  <1>1. machine \in Machines /\ mounts = machine.mounts /\ swaps = machine.swaps /\ slices = machine.slices
    BY DEF MdInit
  <1>2. MdTyped
    <2>1. mounts \subseteq Mounts
      BY <1>1, MdAssumption DEF Mounts
    <2>2. Shaped
      <3>1. <<>> \in Seq(Lines) /\ Len(<<>>) = 0 /\ <<>> \in Seq(STRING)
        OBVIOUS
      <3>2. ri \in 1..Len(retry_list) + 1
        BY <3>1 DEF MdInit
      <3>3. slices \in Seq(DOMAIN machine.info)
        BY <1>1, MdAssumption
      <3>4. mdPc \notin InSlice /\ mdPc = "slice"
        BY DEF MdInit, InSlice
      <3>5. vfstab \in Seq(Lines) /\ retry_list \in Seq(Lines)
            /\ umount_head \in Seq(STRING) /\ unswap_head \in Seq(STRING)
        BY <3>1 DEF MdInit
      <3>6. rootdir = "install" /\ tderr = "SUCCESS" /\ umountOk = TRUE /\ rootmounted = FALSE
        BY DEF MdInit
      <3>7. QED
        BY <1>1, <3>2, <3>3, <3>4, <3>5, <3>6 DEF Shaped
    <2>3. mdFaults \in 0..MaxMdFaults
      BY MdAssumption DEF MdInit
    <2>4. QED
      BY <2>1, <2>2, <2>3, ShapedIsTyped
  <1>3. Closed
    BY <1>1, MdAssumption DEF Closed, On
  <1>4. ToSet(umount_head) = {} /\ ToSet(unswap_head) = {} /\ DOMAIN umount_head = {}
    BY EmptyHoldsNothing DEF MdInit
  <1>5. InUseInv
    BY <1>1, <1>4 DEF InUseInv, Protected
  <1>6. Balance
    <2>1. \A m \in mounts : m.base = "live"
      BY <1>1, MdAssumption
    <2>2. umount_head = <<>> /\ unswap_head = <<>>
      BY DEF MdInit
    <2>3. QED
      BY <1>1, <1>4, <2>1, <2>2 DEF Balance, LinesInOrder
  <1>7. mdPc = "slice"
    BY DEF MdInit
  <1>8. QED
    BY <1>2, <1>3, <1>5, <1>6, <1>7 DEF MdInv

LEMMA MdStep == MdInv /\ [MdNext]_mdVars => MdInv'
  <1> SUFFICES ASSUME MdInv, [MdNext]_mdVars PROVE MdInv'
    OBVIOUS
  <1>1. CASE MdNext
    <2>1. MdTyped /\ Closed /\ InUseInv /\ (umountOk => Balance) /\ (mdPc = "done" => rootdir = "install")
      BY DEF MdInv
    <2>2. MdTyped'
      <3>1. Shaped' /\ mdFaults' \in 0..MaxMdFaults /\ mounts' \subseteq Mounts
        BY <1>1, <2>1, ShapedStep, FaultStep, SafeMounts
      <3>2. (MdTyped <=> Shaped /\ mounts \subseteq Mounts /\ mdFaults \in 0..MaxMdFaults)'
        BY ShapedIsTyped, PTL
      <3>3. QED
        BY <3>1, <3>2 DEF Mounts
    <2>3. Closed'
      BY <1>1, <2>1, SafeMounts
    <2>4. InUseInv'
      BY <1>1, <2>1, InUseStep
    <2>5. (umountOk => Balance)'
      BY <1>1, <2>1, BalanceStep
    <2>6. (mdPc = "done" => rootdir = "install")'
      BY <1>1, <2>1, DoneStep
    <2>7. QED
      BY <2>2, <2>3, <2>4, <2>5, <2>6 DEF MdInv
  <1>2. CASE UNCHANGED mdVars
    <2>1. UNCHANGED <<machine, mounts, swaps, umount_head, unswap_head, retry_list, rootdir, slices, mdPc,
                      rootmounted, varslice, vfstab, ri, tderr, mdFaults, umountOk>>
      BY <1>2 DEF mdVars, mdTables, mdLists, mdSlice, mdPass, mdFixed
    <2>2. MdTyped' /\ Closed' /\ InUseInv'
      BY <2>1 DEF MdInv, MdTyped, MdTypeOK, Closed, On, InUseInv, Protected
    <2>3. (umountOk => Balance)'
      BY <2>1 DEF MdInv, Balance, ToUndo, RootMount, Slice, LinesInOrder, On
    <2>4. QED
      BY <2>1, <2>2, <2>3 DEF MdInv
  <1>3. QED
    BY <1>1, <1>2

(* At the end of the search nothing is left to undo.                       *)
LEMMA MdInvIsSafe == MdInv => SystemsAreLeftAlone
  <1> SUFFICES ASSUME MdInv PROVE SystemsAreLeftAlone
    OBVIOUS
  <1>1. MdTypeOK
    BY DEF MdInv, MdTyped
  <1>2. SystemsInUseStay
    BY DEF MdInv, InUseInv, SystemsInUseStay, Protected
  <1>3. NothingStaysMounted
    <2> SUFFICES ASSUME mdPc = "done", umountOk
                 PROVE  mounts \subseteq machine.mounts /\ swaps = machine.swaps
                        /\ umount_head = <<>> /\ rootdir = "install"
      BY DEF NothingStaysMounted
    <2>1. Balance /\ mdPc \notin Holding /\ mdPc \notin InSlice
      BY DEF MdInv, Holding, InSlice
    <2>2. umount_head = <<>> /\ ToSet(umount_head) = {} /\ ToSet(unswap_head) = {}
      BY <2>1, EmptyHoldsNothing DEF Balance
    <2>3. mounts \subseteq machine.mounts
      BY <2>1, <2>2 DEF Balance, ToUndo
    <2>4. swaps = machine.swaps
      BY <2>1, <2>2 DEF Balance, MdInv, InUseInv
    <2>5. QED
      BY <2>2, <2>3, <2>4 DEF MdInv
  <1>4. QED
    BY <1>1, <1>2, <1>3 DEF SystemsAreLeftAlone

(* Whatever fails while a machine is searched for installed systems, no    *)
(* file system and no swap of a system in use is lost; and unless it was   *)
(* an unmount that failed, at the end nothing stays mounted, nothing swaps *)
(* that did not, nothing is left to undo and rootdir is the installer's    *)
(* again (os_discover, td_mount_and_add_swap, td_umount_all).              *)
THEOREM SystemsAreAlwaysLeftAlone == MdSpec => []SystemsAreLeftAlone
  <1>1. MdInit => MdInv
    BY MdInitInv
  <1>2. MdSpec => []MdInv
    BY <1>1, MdStep, PTL DEF MdSpec
  <1>3. QED
    BY <1>2, MdInvIsSafe, PTL

-----------------------------------------------------------------------------
(* What is reported. *)

(* While a vfstab is gone through: what is left of it is still to be done. *)
Seen(l) == IF Swap(l) THEN l.dev \in swaps ELSE Ignored(l) \/ MountsAt(l) \in mounts
ToDo == ToSet(retry_list) \cup (IF mdPc = "line" THEN ToSet(vfstab) ELSE {})
LinesInv ==
  /\ mdPc \in {"line", "retry", "zonesUp"} => \A l \in ToSet(Info.vfstab) : Seen(l) \/ l \in ToDo
  /\ mdPc = "zonesUp" => retry_list = <<>>

(* What is known of the slice that is looked at.                           *)
Mounting == {"zones", "umountOld", "mount", "line", "retry", "zonesUp", "unzone", "umountNew", "record"}
SliceInv ==
  /\ mdPc \in InSlice => ~Skipped /\ Info.fs = "ufs"
  /\ mdPc \in Mounting \cup {"checks"} => Info.tag = "root" \/ Info.readable
  /\ mdPc = "checks" => Info.tag = "root" \/ SeesVar
  /\ mdPc \in Mounting => (fr = {} => Info.lacks = {}) /\ (Info.tag = "root" \/ Info.lacks \subseteq {"metacluster"})
  /\ mdPc = "vfstab" => varslice = "none" /\ (rootmounted \/ RootMount \in mounts)
(* As long as nothing failed.                                              *)
CalmInv ==
  mdFaults = 0 =>
    /\ umountOk /\ tderr = "SUCCESS"
    /\ mdPc = "vfstab" /\ Info.readable => (rootmounted <=> InUse(Slice))

(* The slices that have been looked at; each once.                         *)
Over(s) == s \notin ToSet(slices) \/ (mdPc = "umount" /\ s = Slice)
SlicesInv ==
  /\ \A i, j \in DOMAIN slices : slices[i] = slices[j] => i = j
  /\ mdPc = "done" => slices = <<>>
Unmarked(f) ==
  LET s == machine.info[f.slice] IN
  /\ f.slice \in DOMAIN machine.info /\ IsSystem(s)
  /\ s.fs = "ufs" /\ f.why = {} => s.lacks = {} /\ (s.readable \/ s.tag = "root")
FoundInv ==
  /\ found \in Seq(ToSet(found))
  /\ \A k \in DOMAIN found : Unmarked(found[k])
  /\ \A k, l \in DOMAIN found : found[k].slice = found[l].slice => k = l
  /\ mdPc # "done" => \A k \in DOMAIN found : Over(found[k].slice) /\ machine.info[found[k].slice].fs = "ufs"
Reportable(s) ==
  LET i == machine.info[s] IN
  IsSystem(i) /\ (IF i.fs = "zfs" THEN mdPc = "done" ELSE i.tag = "root" \/ HasVar(s))
ReportInv == mdFaults = 0 => \A s \in DOMAIN machine.info : Reportable(s) /\ Over(s) => Reports(s) # {}

ScanInv == LinesInv /\ SliceInv /\ CalmInv /\ SlicesInv /\ FoundInv /\ ReportInv

-----------------------------------------------------------------------------
(* Lists, and sets as lists. *)

LEMMA Appended ==
  ASSUME NEW S, NEW s \in Seq(S), NEW x \in S
  PROVE  /\ Append(s, x) \in Seq(S) /\ ToSet(Append(s, x)) = ToSet(s) \cup {x}
         /\ Len(s) \in Nat /\ DOMAIN s = 1..Len(s) /\ DOMAIN Append(s, x) = 1..(Len(s) + 1)
         /\ Append(s, x)[Len(s) + 1] = x /\ \A i \in 1..Len(s) : Append(s, x)[i] = s[i]
  <1> DEFINE n == Len(s)
  <1> DEFINE t == Append(s, x)
  <1>1. n \in Nat /\ DOMAIN s = 1..n
    OBVIOUS
  <1>2. t \in Seq(S) /\ Len(t) = n + 1
    OBVIOUS
  <1>3. t[n + 1] = x /\ \A i \in 1..n : t[i] = s[i]
    OBVIOUS
  <1> HIDE DEF n, t
  <1>4. DOMAIN t = 1..(n + 1)
    BY <1>1, <1>2
  <1>5. \A i \in 1..(n + 1) : i = n + 1 \/ i \in 1..n
    BY <1>1
  <1>6. n + 1 \in 1..(n + 1) /\ \A i \in 1..n : i \in 1..(n + 1)
    BY <1>1
  <1>7. ToSet(t) = ToSet(s) \cup {x}
    <2>1. \A y \in ToSet(t) : y = x \/ y \in ToSet(s)
      BY <1>1, <1>3, <1>4, <1>5 DEF ToSet
    <2>2. x \in ToSet(t) /\ \A y \in ToSet(s) : y \in ToSet(t)
      BY <1>1, <1>3, <1>4, <1>6 DEF ToSet
    <2>3. QED
      BY <2>1, <2>2
  <1>8. QED
    BY <1>1, <1>2, <1>3, <1>4, <1>7 DEF n, t

(* What is left of a list of which one is taken out.                       *)
LEMMA LeftOver ==
  ASSUME NEW S, NEW s \in Seq(S), NEW i \in 1..Len(s), NEW x \in ToSet(s)
  PROVE  x = s[i] \/ x \in ToSet(RemoveAt(s, i))
  <1> DEFINE a == SubSeq(s, 1, i - 1)
  <1> DEFINE b == SubSeq(s, i + 1, Len(s))
  <1> DEFINE n == Len(s)
  <1>1. n \in Nat /\ DOMAIN s = 1..n /\ i \in 1..n
    OBVIOUS
  <1>2. a \in Seq(S) /\ Len(a) = i - 1
    OBVIOUS
  <1>3. b \in Seq(S) /\ Len(b) = n - i
    OBVIOUS
  <1>13. (\A j \in 1..(i - 1) : a[j] = s[j]) /\ (\A j \in 1..(n - i) : b[j] = s[i + j])
    OBVIOUS
  <1> HIDE DEF a, b, n
  <1>4. PICK k \in 1..n : x = s[k]
    BY <1>1 DEF ToSet
  <1> DEFINE t == a \o b
  <1>5. Len(t) = n - 1 /\ t \in Seq(S)
    <2>1. Len(t) = Len(a) + Len(b) /\ t \in Seq(S)
      BY SMTT(30), <1>2, <1>3
    <2> HIDE DEF t
    <2>2. QED
      BY <1>1, <1>2, <1>3, <2>1
  <1>6. \A j \in 1..(i - 1) : t[j] = a[j]
    BY <1>1, <1>2, <1>3
  <1>7. \A j \in 1..(n - i) : t[(i - 1) + j] = b[j]
    BY <1>1, <1>2, <1>3
  <1>8. DOMAIN t = 1..(n - 1)
    BY <1>5
  <1> HIDE DEF t
  <1>9. CASE k < i
    <2>1. k \in 1..(i - 1) /\ k \in 1..(n - 1)
      BY <1>1, <1>9
    <2>2. t[k] = x
      BY <1>13, <1>4, <1>6, <2>1
    <2>3. x \in ToSet(t)
      BY <1>8, <2>1, <2>2 DEF ToSet
    <2>4. QED
      BY <2>3 DEF RemoveAt, t, a, b, n
  <1>10. CASE k > i
    <2>1. k - i \in 1..(n - i) /\ k - 1 \in 1..(n - 1) /\ (i - 1) + (k - i) = k - 1 /\ i + (k - i) = k
      BY <1>1, <1>10
    <2>2. t[k - 1] = x
      BY <1>13, <1>4, <1>7, <2>1
    <2>3. x \in ToSet(t)
      BY <1>8, <2>1, <2>2 DEF ToSet
    <2>4. QED
      BY <2>3 DEF RemoveAt, t, a, b, n
  <1>11. k = i \/ k < i \/ k > i
    BY <1>1
  <1>12. QED
    BY <1>4, <1>9, <1>10, <1>11

LEMMA FiniteList ==
  ASSUME NEW S, NEW s \in Seq(S)
  PROVE  IsFiniteSet(ToSet(s))
  <1> DEFINE n == Len(s)
  <1>1. n \in Nat /\ s \in [1..n -> S]
    OBVIOUS
  <1> HIDE DEF n
  <1>2. s \in Surjection(1..n, ToSet(s))
    BY <1>1 DEF Surjection, ToSet
  <1>3. 1 \in Int /\ n \in Int
    BY <1>1
  <1>4. IsFiniteSet(1..n)
    BY <1>3, FS_Interval
  <1>5. QED
    BY <1>2, <1>4, FS_Surjection

(* A set as a sequence has each member once.                               *)
LEMMA SetInSeq ==
  ASSUME NEW S, IsFiniteSet(S)
  PROVE  /\ SetToSeq(S) \in Seq(S) /\ ToSet(SetToSeq(S)) = S
         /\ \A i, j \in DOMAIN SetToSeq(S) : SetToSeq(S)[i] = SetToSeq(S)[j] => i = j
  <1> DEFINE n == Cardinality(S)
  <1> DEFINE t == SetToSeq(S)
  <1>1. n \in Nat /\ ExistsBijection(1..n, S)
    BY FS_CardinalityType
  <1>2. PICK f \in [1..n -> S] : IsInjective(f)
    BY <1>1 DEF ExistsBijection, Bijection, Injection
  <1>3. t \in [1..n -> S] /\ IsInjective(t)
    <2>1. t = CHOOSE g \in [1..n -> S] : IsInjective(g)
      BY DEF SetToSeq
    <2> HIDE DEF t, n
    <2>2. QED
      BY <1>2, <2>1
  <1> HIDE DEF t
  <1>4. t \in Injection(1..n, S)
    BY <1>3 DEF Injection
  <1>5. Cardinality(1..n) = n
    <2> HIDE DEF n
    <2>1. 1 \in Int /\ n \in Int /\ n - 1 + 1 = n /\ (1 > n => n = 0)
      BY <1>1
    <2>2. QED
      BY <2>1, FS_Interval
  <1>6. t \in Surjection(1..n, S)
    BY <1>4, <1>5, FS_Injection
  <1> HIDE DEF n
  <1>7. t \in Seq(S) /\ DOMAIN t = 1..n
    BY <1>1, <1>3
  <1>8. ToSet(t) = S
    BY <1>3, <1>6, <1>7 DEF ToSet, Surjection
  <1>9. QED
    BY <1>3, <1>7, <1>8 DEF IsInjective, t

-----------------------------------------------------------------------------
(* What fails, and where the steps go. *)

LEMMA CalmStep ==
  ASSUME MdTyped, MdNext, mdFaults' = 0
  PROVE  mdFaults = 0 /\ \A f : ~May(f)
  <1>1. mdFaults \in Nat
    BY MdAssumption DEF MdTyped, MdTypeOK
  <1>2. Works \/ \E f \in {"mount", "map", "fsck", "umount", "zones", "memory"} : May(f)
    BY StepsFail
  <1>3. QED
    BY <1>1, <1>2 DEF Works, May

(* The steps between what is seen of a slice and what is reported of it.    *)
LEMMA KeptStep ==
  ASSUME MdTyped, UmountOld \/ UmountOne \/ UnswapOne \/ AllUndone \/ MountRoot \/ VfstabLine \/ StartRetries
                  \/ RetryOne \/ EndOfPass \/ LookAtZones \/ UmountNew
  PROVE  /\ mdPc \in Mounting /\ mdPc' \in Mounting /\ fr \subseteq fr'
         /\ UNCHANGED <<machine, slices, rootdir, rootmounted, varslice, found, tderr>>
  <1> USE DEF mdTables, mdLists, mdSlice, mdPass, mdFixed, Mounting
  <1>1. CASE UmountOld \/ UmountNew
    BY <1>1 DEF UmountOld, UmountNew, td_umount_all
  <1>2. CASE UmountOne \/ UnswapOne
    BY <1>2 DEF UmountOne, UnswapOne, Undoing
  <1>3. CASE AllUndone
    BY <1>3 DEF AllUndone, Undoing
  <1>4. CASE MountRoot
    BY <1>4 DEF MountRoot, Failed
  <1>5. CASE VfstabLine \/ RetryOne
    <2>1. mdPc \in {"line", "retry"} /\ mdPc' \in {"line", "retry", "unzone"} /\ UNCHANGED <<mdSlice, mdFixed>>
      BY <1>5, LineKinds
    <2>2. UNCHANGED <<found, tderr>>
      BY <1>5 DEF VfstabLine, RetryOne
    <2>3. QED
      BY <2>1, <2>2
  <1>6. CASE StartRetries \/ EndOfPass
    BY <1>6 DEF StartRetries, EndOfPass
  <1>7. CASE LookAtZones
    BY <1>7 DEF LookAtZones, Failed
  <1>8. QED
    BY <1>1, <1>2, <1>3, <1>4, <1>5, <1>6, <1>7

LEMMA MachineStays == MdTyped /\ Closed /\ InUseInv /\ MdNext => machine' = machine
  BY InUseStep

-----------------------------------------------------------------------------
(* Going through a vfstab. *)

LEMMA SeenStays ==
  ASSUME mounts \subseteq mounts', swaps \subseteq swaps', rootdir' = rootdir
  PROVE  \A l : Seen(l) => Seen(l)'
  BY DEF Seen, MountsAt, Base

LEMMA LineMoves ==
  ASSUME MdTyped, VfstabLine, mdPc' = "line"
  PROVE  /\ mounts \subseteq mounts' /\ swaps \subseteq swaps' /\ UNCHANGED <<machine, slices, rootdir>>
         /\ ToSet(retry_list) \subseteq ToSet(retry_list')
         /\ \E x : ToSet(vfstab) = {x} \cup ToSet(vfstab') /\ (Seen(x)' \/ x \in ToSet(retry_list'))
  <1>0. PICK l : l = Head(vfstab)
    OBVIOUS
  <1>1. vfstab # <<>> /\ vfstab' = Tail(vfstab) /\ vfstab \in Seq(Lines) /\ retry_list \in Seq(Lines)
    BY DEF VfstabLine, MdTyped
  <1>2. l \in Lines /\ ToSet(vfstab) = {l} \cup ToSet(vfstab')
    BY <1>0, <1>1, Popped
  <1>3. UNCHANGED <<machine, slices, rootdir>>
    BY DEF VfstabLine, mdFixed
  <1>4. Base' = Base
    BY <1>3 DEF Base
  <1>5. mdPc' # "unzone"
    OBVIOUS
  <1>6. ToSet(Append(retry_list, l)) = ToSet(retry_list) \cup {l}
    BY <1>1, <1>2, Appended
  <1>7. \/ Swap(l) /\ SwapLine(l) /\ UNCHANGED <<mounts, umount_head>>
        \/ ~Swap(l) /\ Ignored(l) /\ UNCHANGED <<mdTables, mdLists>>
        \/ ~Swap(l) /\ td_mount_filesys(l) /\ UNCHANGED <<swaps, unswap_head>>
    BY <1>0, <1>5 DEF VfstabLine, Failed, Swap
  <1>8. CASE Swap(l) /\ SwapLine(l) /\ UNCHANGED <<mounts, umount_head>>
    <2>1. \/ add_swap_dev(l.dev) /\ retry_list' = retry_list
          \/ Retry(l) /\ swaps' = swaps
      BY <1>5, <1>8 DEF SwapLine, Failed
    <2>2. CASE add_swap_dev(l.dev) /\ retry_list' = retry_list
      <3>1. swaps' = swaps \cup {l.dev}
        BY <2>2 DEF add_swap_dev
      <3>2. Seen(l)'
        BY <1>8, <3>1 DEF Seen, Swap
      <3>3. QED
        BY <1>2, <1>3, <1>8, <2>2, <3>1, <3>2
    <2>3. CASE Retry(l) /\ swaps' = swaps
      BY <1>2, <1>3, <1>6, <1>8, <2>3 DEF Retry
    <2>4. QED
      BY <2>1, <2>2, <2>3
  <1>9. CASE ~Swap(l) /\ Ignored(l) /\ UNCHANGED <<mdTables, mdLists>>
    <2>1. Seen(l)'
      BY <1>9 DEF Seen, Swap, Ignored
    <2>2. QED
      BY <1>2, <1>3, <1>9, <2>1 DEF mdTables, mdLists
  <1>10. CASE ~Swap(l) /\ td_mount_filesys(l) /\ UNCHANGED <<swaps, unswap_head>>
    <2>1. \/ MountsAt(l) \in mounts /\ UNCHANGED <<mounts, retry_list>>
          \/ mounts' = mounts \cup {MountsAt(l)} /\ UNCHANGED retry_list
          \/ Retry(l) /\ mounts' = mounts
      BY <1>5, <1>10 DEF td_mount_filesys, Failed, DoMount
    <2>2. CASE MountsAt(l) \in mounts' /\ mounts \subseteq mounts' /\ UNCHANGED retry_list
      <3>1. MountsAt(l)' = MountsAt(l)
        BY <1>4 DEF MountsAt
      <3>2. Seen(l)'
        BY <1>10, <2>2, <3>1 DEF Seen, Swap
      <3>3. QED
        BY <1>2, <1>3, <1>10, <2>2, <3>2
    <2>3. CASE Retry(l) /\ mounts' = mounts
      BY <1>2, <1>3, <1>6, <1>10, <2>3 DEF Retry
    <2>4. QED
      BY <2>1, <2>2, <2>3
  <1>11. QED
    BY <1>7, <1>8, <1>9, <1>10

LEMMA RetryMoves ==
  ASSUME MdTyped, RetryOne, mdPc' = "retry"
  PROVE  /\ mounts \subseteq mounts' /\ swaps \subseteq swaps' /\ UNCHANGED <<machine, slices, rootdir>>
         /\ \A x \in ToSet(retry_list) : x \in ToSet(retry_list') \/ Seen(x)'
  <1>0. PICK l : l = retry_list[ri]
    OBVIOUS
  <1>1. retry_list \in Seq(Lines) /\ ri \in 1..Len(retry_list)
    BY ShapedIsTyped DEF RetryOne, Shaped
  <1>2. UNCHANGED <<machine, slices, rootdir>>
    BY DEF RetryOne, mdFixed
  <1>3. Base' = Base
    BY <1>2 DEF Base
  <1>4. mdPc' # "unzone"
    OBVIOUS
  <1>5. \A x \in ToSet(retry_list) : x = l \/ x \in ToSet(RemoveAt(retry_list, ri))
    BY <1>0, <1>1, LeftOver
  <1>6. \/ retry_list' = retry_list /\ UNCHANGED mdTables
        \/ Swap(l) /\ add_swap_dev(l.dev) /\ Done(ri) /\ mounts' = mounts
        \/ ~Swap(l) /\ DoMount(l) /\ Done(ri) /\ swaps' = swaps
    BY <1>0, <1>4 DEF RetryOne, Failed, mdTables, mdLists, Later
  <1>7. CASE retry_list' = retry_list /\ UNCHANGED mdTables
    BY <1>2, <1>7 DEF mdTables
  <1>8. CASE Swap(l) /\ add_swap_dev(l.dev) /\ Done(ri) /\ mounts' = mounts
    <2>1. swaps' = swaps \cup {l.dev}
      BY <1>8 DEF add_swap_dev
    <2>2. Seen(l)'
      BY <1>8, <2>1 DEF Seen, Swap
    <2>3. QED
      BY <1>2, <1>5, <1>8, <2>1, <2>2 DEF Done
  <1>9. CASE ~Swap(l) /\ DoMount(l) /\ Done(ri) /\ swaps' = swaps
    <2>1. mounts' = mounts \cup {MountsAt(l)} /\ MountsAt(l)' = MountsAt(l)
      BY <1>3, <1>9 DEF DoMount, MountsAt
    <2>2. Seen(l)'
      BY <1>9, <2>1 DEF Seen, Swap
    <2>3. QED
      BY <1>2, <1>5, <1>9, <2>1, <2>2 DEF Done
  <1>10. QED
    BY <1>6, <1>7, <1>8, <1>9

(* Each line of the vfstab is done, or is to be done.                      *)
LEMMA LinesStep ==
  ASSUME MdTyped, LinesInv, MdNext
  PROVE  LinesInv'
  <1> DEFINE Going == {"line", "retry", "zonesUp"}
  <1> DEFINE All == \A l \in ToSet(Info.vfstab) : Seen(l) \/ l \in ToDo
  <1>1. mdPc \in Going => All
    BY DEF LinesInv
  <1>2. mdPc' \in Going => MountRoot \/ VfstabLine \/ StartRetries \/ RetryOne \/ EndOfPass
    <2>1. SkipSlice \/ MountSlice \/ LookForVar \/ Examine => mdPc' \notin Going
      BY DEF SkipSlice, MountSlice, LookForVar, Examine, Missing
    <2>2. UmountOld \/ UmountNew => mdPc' \notin Going
      BY DEF UmountOld, UmountNew, td_umount_all
    <2>3. UmountOne \/ UnswapOne \/ AllUndone => mdPc' \notin Going
      BY DEF UmountOne, UnswapOne, AllUndone, Undoing
    <2>4. LookAtZones \/ Record \/ UmountSlice => mdPc' \notin Going
      BY DEF LookAtZones, Record, UmountSlice, Failed
    <2>5. EndOfDiscovery \/ MdOver => mdPc' \notin Going
      BY DEF EndOfDiscovery, MdOver, mdVars
    <2>6. QED
      BY <2>1, <2>2, <2>3, <2>4, <2>5 DEF MdNext
  <1>3. ASSUME UNCHANGED <<machine, slices, rootdir>>, mounts \subseteq mounts', swaps \subseteq swaps', All,
               \A l \in ToDo : l \in ToDo' \/ Seen(l)'
        PROVE  All'
    <2>1. Info' = Info
      BY <1>3 DEF Info, Slice
    <2>2. QED
      BY <1>3, <2>1, SeenStays
  <1>4. ASSUME All', mdPc' = "zonesUp" => retry_list' = <<>> PROVE LinesInv'
    BY <1>4 DEF LinesInv
  <1>5. CASE mdPc' \notin Going
    BY <1>5 DEF LinesInv
  <1>6. CASE MountRoot /\ mdPc' \in Going
    <2>1. mdPc' = "line" /\ vfstab' = Info.vfstab /\ Info' = Info
      BY <1>6 DEF MountRoot, Failed, mdFixed, Info, Slice
    <2>2. All'
      BY <2>1 DEF ToDo
    <2>3. QED
      BY <1>4, <2>1, <2>2
  <1>7. CASE VfstabLine /\ mdPc' \in Going
    <2>1. mdPc = "line" /\ mdPc' = "line"
      BY <1>7 DEF VfstabLine, Failed, SwapLine, td_mount_filesys
    <2>2. \A l \in ToDo : l \in ToDo' \/ Seen(l)'
      BY <1>7, <2>1, LineMoves DEF ToDo
    <2>3. All'
      BY <1>1, <1>3, <1>7, <2>1, <2>2, LineMoves
    <2>4. QED
      BY <1>4, <2>1, <2>3
  <1>8. CASE StartRetries
    <2>1. /\ mdPc = "line" /\ vfstab = <<>> /\ mdPc' = "retry"
          /\ UNCHANGED <<machine, slices, rootdir, mounts, swaps, retry_list>>
      BY <1>8 DEF StartRetries, mdFixed, mdTables, mdLists
    <2>2. \A l \in ToDo : l \in ToDo'
      BY <2>1, EmptyHoldsNothing DEF ToDo
    <2>3. All'
      BY <1>1, <1>3, <2>1, <2>2
    <2>4. QED
      BY <1>4, <2>1, <2>3
  <1>9. CASE RetryOne /\ mdPc' \in Going
    <2>1. mdPc = "retry" /\ mdPc' = "retry"
      BY <1>9 DEF RetryOne, Failed
    <2>2. \A l \in ToDo : l \in ToDo' \/ Seen(l)'
      BY <1>9, <2>1, RetryMoves DEF ToDo
    <2>3. All'
      BY <1>1, <1>3, <1>9, <2>1, <2>2, RetryMoves
    <2>4. QED
      BY <1>4, <2>1, <2>3
  <1>10. CASE EndOfPass
    <2>1. /\ mdPc = "retry" /\ mdPc' \in {"retry", "zonesUp", "unzone"} /\ (mdPc' = "zonesUp" => retry_list = <<>>)
          /\ UNCHANGED <<machine, slices, rootdir, mounts, swaps, retry_list>>
      BY <1>10 DEF EndOfPass, mdFixed, mdTables, mdLists
    <2>2. \A l \in ToDo : l \in ToDo'
      BY <2>1 DEF ToDo
    <2>3. All'
      BY <1>1, <1>3, <2>1, <2>2
    <2>4. QED
      BY <1>4, <2>1, <2>3
  <1>11. QED
    BY <1>2, <1>5, <1>6, <1>7, <1>8, <1>9, <1>10

LEMMA LinesInvIsSafe == LinesInv => ZonesSeeWholeSystem
  <1> SUFFICES ASSUME LinesInv, mdPc = "zonesUp", NEW i \in DOMAIN Info.vfstab PROVE Seen(Info.vfstab[i])
    BY DEF ZonesSeeWholeSystem, Seen
  <1>1. ToDo = {}
    BY EmptyHoldsNothing DEF LinesInv, ToDo
  <1>2. Info.vfstab[i] \in ToSet(Info.vfstab)
    BY DEF ToSet
  <1>3. QED
    BY <1>1, <1>2 DEF LinesInv

-----------------------------------------------------------------------------
(* The slice that is looked at. *)

LEMMA LacksNothing ==
  /\ Lacks = {} => Info.lacks = {}
  /\ Lacks \ {"metacluster"} = {} => Info.lacks \subseteq {"metacluster"}
  /\ SeesVar /\ Info.lacks \subseteq {"metacluster"} => Lacks \ {"metacluster"} = {}
  <1>1. Info.lacks \subseteq Lacks0 /\ (SeesVar => Lacks0 = Info.lacks)
    BY DEF Lacks0
  <1>2. \A w \in Lacks0 : w \in Lacks \/ (w \in {"bootenvrc", "too_old"} /\ "inst_release" \in Lacks0)
                                      \/ (w = "metacluster" /\ "cluster" \in Lacks0)
    BY DEF Lacks
  <1>3. /\ "inst_release" \in Lacks0 => "inst_release" \in Lacks
        /\ "cluster" \in Lacks0 => "cluster" \in Lacks
    BY <1>2
  <1>4. Lacks \subseteq Lacks0
    BY DEF Lacks
  <1>5. QED
    BY <1>1, <1>2, <1>3, <1>4

LEMMA SliceStep ==
  ASSUME MdTyped, SliceInv, MdNext, machine' = machine
  PROVE  SliceInv'
  <1> DEFINE Good == ~Skipped /\ Info.fs = "ufs"
  <1> DEFINE HasTab == Info.tag = "root" \/ Info.readable
  <1> DEFINE Fits == (fr = {} => Info.lacks = {}) /\ (Info.tag = "root" \/ Info.lacks \subseteq {"metacluster"})
  <1>1. /\ mdPc \in InSlice => Good
        /\ mdPc \in Mounting \cup {"checks"} => HasTab
        /\ mdPc = "checks" => Info.tag = "root" \/ SeesVar
        /\ mdPc \in Mounting => Fits
    BY DEF SliceInv
  <1>2. /\ Mounting \subseteq InSlice /\ "checks" \in InSlice /\ "vfstab" \in InSlice /\ "umount" \in InSlice
        /\ "checks" \notin Mounting /\ "vfstab" \notin Mounting /\ "umount" \notin Mounting /\ "slice" \notin Mounting /\ "done" \notin Mounting
        /\ "slice" \notin InSlice /\ "done" \notin InSlice
    BY DEF Mounting, InSlice
  <1>3. slices' = slices => Info' = Info /\ (Good => Good') /\ (HasTab => HasTab')
    BY DEF Info, Slice, Skipped
  <1>4. ASSUME mdPc' \notin InSlice PROVE SliceInv'
    BY <1>2, <1>4 DEF SliceInv
  <1>5. ASSUME mdPc' = "umount", slices' = slices, mdPc \in InSlice PROVE SliceInv'
    BY <1>1, <1>2, <1>3, <1>5 DEF SliceInv
  <1>6. CASE SkipSlice
    BY <1>2, <1>4, <1>6 DEF SkipSlice
  <1>7. CASE MountSlice
    <2>1. /\ mdPc' = "vfstab" /\ Good /\ UNCHANGED slices
          /\ varslice' = "none" /\ rootmounted' = Live
          /\ ~Live => RootMount \in mounts'
      BY <1>7 DEF MountSlice, RootMount
    <2>2. RootMount' = RootMount
      BY <2>1 DEF RootMount, Slice
    <2>3. Good'
      BY <1>3, <2>1
    <2>4. QED
      BY <1>2, <2>1, <2>2, <2>3 DEF SliceInv
  <1>8. CASE LookForVar
    <2>1. /\ mdPc = "vfstab" /\ mdPc' \in {"checks", "umount"} /\ UNCHANGED <<slices, rootmounted>>
      BY <1>8 DEF LookForVar, Missing, mdFixed
    <2>2. CASE mdPc' = "checks"
      <3>1. Good /\ Good' /\ Info' = Info
        BY <1>1, <1>2, <1>3, <2>1
      <3>2. \/ ~Info.readable /\ Info.tag = "root"
            \/ Info.readable /\ ~NeedsVar /\ UNCHANGED <<mounts, varslice>>
            \/ Info.readable /\ NeedsVar /\ varslice' = VarDev
            \/ Info.readable /\ Info.tag = "root"
        BY <1>8, <2>2 DEF LookForVar, Missing
      <3>3. HasTab'
        BY <3>1, <3>2
      <3>4. Info.tag = "root" \/ SeesVar'
        <4>1. CASE ~NeedsVar /\ UNCHANGED <<mounts, varslice>>
          <5>1. VarLines' = VarLines /\ At("live", "/var")' = At("live", "/var")
            BY <3>1, <4>1 DEF VarLines, At
          <5>2. QED
            BY <2>1, <4>1, <5>1 DEF NeedsVar, SeesVar
        <4>2. CASE NeedsVar /\ varslice' = VarDev
          <5>1. slices # <<>> /\ VarLines # {}
            BY <1>2, <2>1, <4>2 DEF MdTyped, NeedsVar
          <5>2. varslice' # "none"
            BY <4>2, <5>1, VarDevKnown
          <5>3. QED
            BY <5>2 DEF SeesVar
        <4>3. QED
          BY <3>2, <4>1, <4>2
      <3>5. QED
        BY <1>2, <2>2, <3>1, <3>3, <3>4 DEF SliceInv
    <2>3. QED
      BY <1>2, <1>5, <2>1, <2>2
  <1>9. CASE Examine
    <2>1. /\ mdPc = "checks" /\ UNCHANGED slices
          /\ \/ mdPc' = "umount"
             \/ mdPc' = "zones" /\ fr' = fr \cup Lacks /\ (Info.tag = "root" \/ Lacks \ {"metacluster"} = {})
      BY <1>9 DEF Examine, mdFixed
    <2>2. CASE mdPc' = "zones" /\ fr' = fr \cup Lacks /\ (Info.tag = "root" \/ Lacks \ {"metacluster"} = {})
      <3>1. Good' /\ HasTab' /\ Info' = Info
        BY <1>1, <1>2, <1>3, <2>1
      <3>2. Fits'
        BY <2>2, <3>1, LacksNothing
      <3>3. mdPc' \in Mounting
        BY <2>2 DEF Mounting
      <3>4. QED
        BY <1>2, <2>2, <3>1, <3>2, <3>3 DEF SliceInv
    <2>3. QED
      BY <1>2, <1>5, <2>1, <2>2
  <1>10. CASE UmountOld \/ UmountOne \/ UnswapOne \/ AllUndone \/ MountRoot \/ VfstabLine \/ StartRetries
              \/ RetryOne \/ EndOfPass \/ LookAtZones \/ UmountNew
    <2>1. mdPc \in Mounting /\ mdPc' \in Mounting /\ fr \subseteq fr' /\ slices' = slices
      BY <1>10, KeptStep
    <2>2. Info' = Info /\ Good' /\ HasTab' /\ Fits
      BY <1>1, <1>2, <1>3, <2>1
    <2>3. Fits'
      BY <2>1, <2>2
    <2>4. QED
      BY <1>2, <2>1, <2>2, <2>3 DEF SliceInv
  <1>11. CASE Record
    BY <1>2, <1>5, <1>11 DEF Record, Mounting, mdFixed
  <1>12. CASE UmountSlice
    BY <1>2, <1>4, <1>12 DEF UmountSlice
  <1>13. CASE EndOfDiscovery \/ MdOver
    BY <1>2, <1>4, <1>13 DEF EndOfDiscovery, MdOver, mdVars
  <1>14. QED
    BY <1>6, <1>7, <1>8, <1>9, <1>10, <1>11, <1>12, <1>13 DEF MdNext

(* Between two slices nothing is mounted that was not so at first; so a    *)
(* slice with a vfstab is in use when it is mounted.                       *)
LEMMA LiveIsInUse ==
  ASSUME MdTyped, InUseInv, Balance, mdPc = "slice", slices # <<>>, Info.readable
  PROVE  Live <=> InUse(Slice)
  <1>1. umount_head = <<>> /\ mdPc \notin InSlice
    BY DEF Balance, Holding, InSlice
  <1>2. \A m \in mounts : m \in machine.mounts
    BY <1>1, EmptyHoldsNothing DEF Balance, ToUndo
  <1>3. \A m \in machine.mounts : m.dev = Slice => m \in mounts
    BY DEF InUseInv, Protected, Info
  <1>4. QED
    BY <1>2, <1>3 DEF Live, InUse

(* What is left on "tmp" when the slice is unmounted is its root.           *)
LEMMA OnlyRootIsLeft ==
  ASSUME MdTyped, Balance, mdPc = "umount"
  PROVE  \A m \in OnTmp : m = RootMount
  <1>1. umount_head = <<>> /\ ToSet(umount_head) = {}
    BY EmptyHoldsNothing DEF Balance, Holding
  <1>2. \A m \in OnTmp : m \in mounts /\ m.base = "tmp" /\ (varslice # "none" => m.sub # "/var")
    BY DEF OnTmp, NoVar, At
  <1>3. \A m \in machine.mounts : m.base = "live"
    BY MdAssumption DEF MdTyped
  <1>4. QED
    BY <1>1, <1>2, <1>3 DEF Balance, ToUndo

LEMMA CalmInvStep ==
  ASSUME MdInv, CalmInv, MdNext
  PROVE  CalmInv'
  <1> SUFFICES ASSUME mdFaults' = 0
               PROVE  umountOk' /\ tderr' = "SUCCESS" /\ (mdPc' = "vfstab" /\ Info'.readable => (rootmounted' <=> InUse(Slice)'))
    BY DEF CalmInv
  <1> USE DEF mdTables, mdLists, mdSlice, mdPass, mdFixed
  <1>1. MdTyped /\ Closed /\ InUseInv /\ mdFaults = 0 /\ \A f : ~May(f)
    BY CalmStep DEF MdInv
  <1>2. umountOk /\ tderr = "SUCCESS" /\ Balance
    BY <1>1 DEF CalmInv, MdInv
  <1>3. tderr' = "SUCCESS"
    <2>1. CASE SkipSlice \/ MountSlice \/ LookForVar \/ Examine
      BY <1>2, <2>1 DEF SkipSlice, MountSlice, LookForVar, Examine
    <2>2. CASE UmountOld \/ UmountOne \/ UnswapOne \/ AllUndone \/ MountRoot \/ VfstabLine \/ StartRetries
               \/ RetryOne \/ EndOfPass \/ LookAtZones \/ UmountNew
      BY <1>1, <1>2, <2>2, KeptStep
    <2>3. CASE Record
      BY <1>1, <1>2, <2>3 DEF Record
    <2>4. CASE UmountSlice \/ EndOfDiscovery \/ MdOver
      BY <1>2, <2>4 DEF UmountSlice, EndOfDiscovery, MdOver, mdVars
    <2>5. QED
      BY <2>1, <2>2, <2>3, <2>4 DEF MdNext
  <1>4. umountOk'
    <2>1. CASE SkipSlice \/ MountSlice \/ LookForVar \/ Examine
      BY <1>2, <2>1 DEF SkipSlice, MountSlice, LookForVar, Examine
    <2>2. CASE UmountOld \/ UmountNew
      BY <1>1, <1>2, <2>2 DEF UmountOld, UmountNew, td_umount_all
    <2>3. CASE UmountOne \/ UnswapOne
      BY <1>1, <1>2, <2>3 DEF UmountOne, UnswapOne
    <2>4. CASE AllUndone \/ MountRoot \/ StartRetries \/ EndOfPass \/ LookAtZones \/ Record
      BY <1>2, <2>4 DEF AllUndone, MountRoot, StartRetries, EndOfPass, LookAtZones, Record
    <2>5. CASE VfstabLine \/ RetryOne
      BY <1>2, <2>5 DEF VfstabLine, RetryOne
    <2>6. CASE UmountSlice
      <3> DEFINE root == {m \in OnTmp : m.sub = "/"}
      <3>1. mdPc = "umount"
        BY <2>6 DEF UmountSlice
      <3>2. \A m \in OnTmp : m.sub = "/"
        BY <1>1, <1>2, <3>1, OnlyRootIsLeft DEF RootMount
      <3>3. OnTmp = root
        BY <3>2
      <3>4. \/ umountOk' = umountOk
            \/ /\ IF root # {} /\ OnTmp = root THEN May("umount") ELSE Works
               /\ umountOk' = (umountOk /\ root = {})
        BY <2>6 DEF UmountSlice, OnTmp, NoVar
      <3>5. QED
        BY <1>1, <1>2, <3>3, <3>4
    <2>7. CASE EndOfDiscovery \/ MdOver
      BY <1>2, <2>7 DEF EndOfDiscovery, MdOver, mdVars
    <2>8. QED
      BY <2>1, <2>2, <2>3, <2>4, <2>5, <2>6, <2>7 DEF MdNext
  <1>5. ASSUME mdPc' = "vfstab", Info'.readable PROVE rootmounted' <=> InUse(Slice)'
    <2>1. MountSlice
      <3>1. ~(SkipSlice \/ LookForVar \/ Examine)
        BY <1>5 DEF SkipSlice, LookForVar, Missing, Examine
      <3>2. ~(UmountOld \/ UmountOne \/ UnswapOne \/ AllUndone \/ MountRoot \/ VfstabLine \/ StartRetries
               \/ RetryOne \/ EndOfPass \/ LookAtZones \/ UmountNew)
        BY <1>1, <1>5, KeptStep DEF Mounting
      <3>3. ~(Record \/ UmountSlice \/ EndOfDiscovery \/ MdOver)
        BY <1>5 DEF Record, UmountSlice, EndOfDiscovery, MdOver, mdVars
      <3>4. QED
        BY <3>1, <3>2, <3>3 DEF MdNext
    <2>2. mdPc = "slice" /\ slices # <<>> /\ rootmounted' = Live /\ UNCHANGED <<machine, slices>>
      BY <2>1 DEF MountSlice
    <2>3. Info' = Info /\ InUse(Slice)' = InUse(Slice)
      BY <2>2 DEF Info, Slice, InUse
    <2>4. QED
      BY <1>1, <1>2, <1>5, <2>2, <2>3, LiveIsInUse
  <1>6. QED
    BY <1>3, <1>4, <1>5

-----------------------------------------------------------------------------
(* The slices that have been looked at. *)

LEMMA SliceMoves ==
  ASSUME MdTyped, MdNext
  PROVE  /\ \/ slices' = slices
            \/ (SkipSlice \/ UmountSlice) /\ slices # <<>> /\ slices' = Tail(slices)
            \/ UmountSlice /\ slices' = <<>> /\ tderr # "SUCCESS"
         /\ mdPc = "umount" => UmountSlice
         /\ mdPc' = "umount" => LookForVar \/ Examine \/ Record
         /\ mdPc' = "done" => EndOfDiscovery \/ MdOver
  <1> USE DEF mdSlice, mdPass, mdFixed
  <1>1. mdPc = "umount" => slices # <<>>
    BY DEF MdTyped, InSlice
  <1>2. CASE SkipSlice
    BY <1>2 DEF SkipSlice
  <1>3. CASE MountSlice
    BY <1>3 DEF MountSlice
  <1>4. CASE LookForVar \/ Examine
    <2>1. slices' = slices /\ mdPc' # "done" /\ mdPc # "umount"
      BY <1>4 DEF LookForVar, Examine, Missing
    <2>2. QED
      BY <1>4, <2>1
  <1>5. CASE UmountOld \/ UmountOne \/ UnswapOne \/ AllUndone \/ MountRoot \/ VfstabLine \/ StartRetries
             \/ RetryOne \/ EndOfPass \/ LookAtZones \/ UmountNew
    BY <1>5, KeptStep DEF Mounting
  <1>6. CASE Record
    BY <1>6 DEF Record
  <1>7. CASE UmountSlice
    <2>1. slices' = (IF tderr = "SUCCESS" THEN Tail(slices) ELSE <<>>) /\ mdPc = "umount" /\ mdPc' = "slice"
      BY <1>7 DEF UmountSlice
    <2>2. QED
      BY <1>1, <1>7, <2>1
  <1>8. CASE EndOfDiscovery
    BY <1>8 DEF EndOfDiscovery
  <1>9. CASE MdOver
    BY <1>9 DEF MdOver, mdVars
  <1>10. QED
    BY <1>2, <1>3, <1>4, <1>5, <1>6, <1>7, <1>8, <1>9 DEF MdNext

(* The first slice is none of the others.                                  *)
LEMMA FirstIsLooked ==
  ASSUME MdTyped, SlicesInv, slices # <<>>
  PROVE  /\ ToSet(slices) = {Slice} \cup ToSet(Tail(slices)) /\ Slice \notin ToSet(Tail(slices))
         /\ \A i, j \in DOMAIN Tail(slices) : Tail(slices)[i] = Tail(slices)[j] => i = j
  <1> DEFINE n == Len(slices)
  <1> DEFINE t == Tail(slices)
  <1>1. /\ ToSet(slices) = {Slice} \cup ToSet(t) /\ DOMAIN t = 1..(n - 1) /\ DOMAIN slices = 1..n /\ n \in Nat \ {0}
        /\ slices[1] = Slice /\ \A i \in 1..(n - 1) : t[i] = slices[i + 1] /\ i + 1 \in 1..n
    BY Popped DEF MdTyped, Slice
  <1> HIDE DEF n, t
  <1>2. \A i, j \in 1..n : slices[i] = slices[j] => i = j
    BY <1>1 DEF SlicesInv
  <1>3. Slice \notin ToSet(t)
    <2> SUFFICES ASSUME NEW i \in 1..(n - 1), t[i] = Slice PROVE FALSE
      BY <1>1 DEF ToSet
    <2>1. 1 \in 1..n /\ i + 1 \in 1..n /\ slices[i + 1] = slices[1]
      BY <1>1
    <2>2. i + 1 = 1
      BY <1>2, <2>1
    <2>3. QED
      BY <2>2
  <1>4. ASSUME NEW i \in 1..(n - 1), NEW j \in 1..(n - 1), t[i] = t[j] PROVE i = j
    <2>1. i + 1 \in 1..n /\ j + 1 \in 1..n /\ slices[i + 1] = slices[j + 1]
      BY <1>1, <1>4
    <2>2. i + 1 = j + 1
      BY <1>2, <2>1
    <2>3. QED
      BY <2>2
  <1>5. QED
    BY <1>1, <1>3, <1>4 DEF t

LEMMA SlicesStep ==
  ASSUME MdTyped, SlicesInv, MdNext
  PROVE  SlicesInv'
  <1>1. \A i, j \in DOMAIN slices' : slices'[i] = slices'[j] => i = j
    <2>1. CASE slices' = slices
      BY <2>1 DEF SlicesInv
    <2>2. CASE slices # <<>> /\ slices' = Tail(slices)
      BY <2>2, FirstIsLooked
    <2>3. CASE slices' = <<>>
      BY <2>3
    <2>4. QED
      BY <2>1, <2>2, <2>3, SliceMoves
  <1>2. mdPc' = "done" => slices' = <<>>
    BY SliceMoves DEF EndOfDiscovery, MdOver, mdVars, SlicesInv
  <1>3. QED
    BY <1>1, <1>2 DEF SlicesInv

LEMMA OverGrows ==
  ASSUME MdTyped, SlicesInv, MdNext
  PROVE  \A s : Over(s) => Over(s)'
  <1> SUFFICES ASSUME NEW s, Over(s) PROVE Over(s)'
    OBVIOUS
  <1>1. CASE slices' = slices
    <2>1. mdPc = "umount" => s \notin ToSet(slices)
      <3>1. CASE mdPc = "umount"
        <4>1. slices # <<>> /\ (slices = Tail(slices) \/ slices = <<>>)
          BY <1>1, <3>1, SliceMoves DEF MdTyped, InSlice, UmountSlice
        <4>2. QED
          BY <4>1, FirstIsLooked
      <3>2. QED
        BY <3>1
    <2>2. QED
      BY <1>1, <2>1 DEF Over
  <1>2. CASE slices # <<>> /\ slices' = Tail(slices)
    BY <1>2, FirstIsLooked DEF Over
  <1>3. CASE slices' = <<>>
    BY <1>3, EmptyHoldsNothing DEF Over
  <1>4. QED
    BY <1>1, <1>2, <1>3, SliceMoves

LEMMA NewlyOver ==
  ASSUME MdTyped, SlicesInv, MdNext, tderr = "SUCCESS", NEW s, Over(s)', ~Over(s)
  PROVE  s = Slice /\ (SkipSlice \/ (mdPc' = "umount" /\ slices' = slices /\ (LookForVar \/ Examine \/ Record)))
  <1>1. s \in ToSet(slices) /\ ~(mdPc = "umount" /\ s = Slice)
    BY DEF Over
  <1>2. CASE slices' = slices
    <2>1. mdPc' = "umount" /\ s = Slice
      BY <1>1, <1>2 DEF Over, Slice
    <2>2. QED
      BY <1>2, <2>1, SliceMoves
  <1>3. CASE (SkipSlice \/ UmountSlice) /\ slices # <<>> /\ slices' = Tail(slices)
    <2>1. mdPc' # "umount"
      BY <1>3 DEF SkipSlice, UmountSlice
    <2>2. s = Slice
      BY <1>1, <1>3, <2>1, FirstIsLooked DEF Over
    <2>3. ~UmountSlice
      BY <1>1, <2>2 DEF UmountSlice
    <2>4. QED
      BY <1>3, <2>2, <2>3
  <1>4. QED
    BY <1>2, <1>3, SliceMoves

-----------------------------------------------------------------------------
(* What has been found. *)

LEMMA OwnMembers == \A S : \A s \in Seq(S) : s \in Seq(ToSet(s))
  <1> SUFFICES ASSUME NEW S, NEW s \in Seq(S) PROVE s \in Seq(ToSet(s))
    OBVIOUS
  <1> DEFINE n == Len(s)
  <1>1. n \in Nat /\ s \in [1..n -> S]
    OBVIOUS
  <1> HIDE DEF n
  <1>2. s \in [1..n -> ToSet(s)]
    BY <1>1 DEF ToSet
  <1>3. QED
    BY <1>1, <1>2

LEMMA WiderList ==
  ASSUME NEW S, NEW T, S \subseteq T, NEW s \in Seq(S)
  PROVE  s \in Seq(T)
  <1> DEFINE n == Len(s)
  <1>1. n \in Nat /\ s \in [1..n -> S]
    OBVIOUS
  <1> HIDE DEF n
  <1>2. s \in [1..n -> T]
    BY <1>1
  <1>3. QED
    BY <1>1, <1>2

LEMMA Joined ==
  ASSUME NEW S, NEW s \in Seq(S), NEW t \in Seq(S)
  PROVE  /\ s \o t \in Seq(S) /\ Len(s) \in Nat /\ Len(t) \in Nat
         /\ DOMAIN s = 1..Len(s) /\ DOMAIN t = 1..Len(t) /\ DOMAIN (s \o t) = 1..(Len(s) + Len(t))
         /\ \A i \in 1..Len(s) : (s \o t)[i] = s[i]
         /\ \A i \in 1..Len(t) : (s \o t)[Len(s) + i] = t[i]
         /\ \A i \in 1..(Len(s) + Len(t)) : i \in 1..Len(s) \/ (i - Len(s) \in 1..Len(t) /\ i = Len(s) + (i - Len(s)))
  <1> DEFINE m == Len(s)
  <1> DEFINE n == Len(t)
  <1>1. m \in Nat /\ n \in Nat /\ DOMAIN s = 1..m /\ DOMAIN t = 1..n
    OBVIOUS
  <1>2. s \o t \in Seq(S) /\ Len(s \o t) = m + n
    OBVIOUS
  <1>3. \A i \in 1..m : (s \o t)[i] = s[i]
    OBVIOUS
  <1>4. \A i \in 1..n : (s \o t)[m + i] = t[i]
    OBVIOUS
  <1> DEFINE c == s \o t
  <1>5. DOMAIN c = 1..(m + n)
    <2> HIDE DEF c, m, n
    <2>1. c \in Seq(S) /\ Len(c) = m + n
      BY <1>2 DEF c
    <2>2. QED
      BY <1>1, <2>1
  <1>6. \A i \in 1..(m + n) : i \in 1..m \/ (i - m \in 1..n /\ i = m + (i - m))
    <2> HIDE DEF m, n
    <2>1. QED
      BY <1>1
  <1>7. QED
    BY <1>1, <1>2, <1>3, <1>4, <1>5, <1>6

(* The pools' members, at the end.                                         *)
Imported == {[slice |-> s, why |-> {}] : s \in Pools}
LEMMA PoolsAreListed ==
  ASSUME MdTyped
  PROVE  /\ SetToSeq(Imported) \in Seq(Imported) /\ ToSet(SetToSeq(Imported)) = Imported
         /\ \A i, j \in DOMAIN SetToSeq(Imported) : SetToSeq(Imported)[i] = SetToSeq(Imported)[j] => i = j
  <1>1. machine.slices \in Seq(DOMAIN machine.info) /\ ToSet(machine.slices) = DOMAIN machine.info
    BY MdAssumption DEF MdTyped
  <1>2. IsFiniteSet(DOMAIN machine.info)
    BY <1>1, FiniteList
  <1>3. IsFiniteSet(Pools)
    BY <1>2, FS_Subset DEF Pools
  <1> DEFINE f == [s \in Pools |-> [slice |-> s, why |-> {}]]
  <1>4. f \in Surjection(Pools, Imported)
    BY DEF Surjection, Imported
  <1>5. IsFiniteSet(Imported)
    BY <1>3, <1>4, FS_Surjection
  <1>6. QED
    BY <1>5, SetInSeq

LEMMA FoundMoves ==
  ASSUME MdTyped, MdNext
  PROVE  \/ found' = found
         \/ Record /\ found' = Append(found, [slice |-> Slice, why |-> fr])
         \/ EndOfDiscovery /\ found' = found \o SetToSeq(Imported)
  <1> USE DEF mdSlice, mdPass, mdFixed
  <1>1. CASE SkipSlice \/ MountSlice \/ LookForVar \/ Examine
    BY <1>1 DEF SkipSlice, MountSlice, LookForVar, Examine
  <1>2. CASE UmountOld \/ UmountOne \/ UnswapOne \/ AllUndone \/ MountRoot \/ VfstabLine \/ StartRetries
             \/ RetryOne \/ EndOfPass \/ LookAtZones \/ UmountNew
    BY <1>2, KeptStep
  <1>3. CASE Record
    BY <1>3 DEF Record
  <1>4. CASE UmountSlice \/ MdOver
    BY <1>4 DEF UmountSlice, MdOver, mdVars
  <1>5. CASE EndOfDiscovery
    BY <1>5 DEF EndOfDiscovery, Imported
  <1>6. QED
    BY <1>1, <1>2, <1>3, <1>4, <1>5 DEF MdNext

(* One more instance: of a slice that has not been reported.               *)
LEMMA RecordStep ==
  ASSUME MdTyped, SliceInv, SlicesInv, FoundInv, MdNext, Record, machine' = machine,
         found' = Append(found, [slice |-> Slice, why |-> fr])
  PROVE  FoundInv' /\ Slice \in DOMAIN machine.info
  <1> DEFINE n == Len(found)
  <1> DEFINE S == ToSet(found)
  <1>0. PICK x : x = [slice |-> Slice, why |-> fr]
    OBVIOUS
  <1>1. found \in Seq(S) /\ mdPc = "record" /\ mdPc' = "umount" /\ slices' = slices
    BY DEF FoundInv, Record, mdFixed
  <1>2. slices # <<>> /\ Slice \in DOMAIN machine.info /\ Slice \in ToSet(slices)
    <2>1. slices # <<>>
      BY <1>1 DEF MdTyped, InSlice
    <2>2. QED
      BY <2>1, InSliceKnown, FirstIsLooked
  <1>3. found \in Seq(S \cup {x})
    <2> HIDE DEF S
    <2>1. QED
      BY <1>1, WiderList
  <1>4. /\ found' \in Seq(S \cup {x}) /\ n \in Nat /\ DOMAIN found = 1..n /\ DOMAIN found' = 1..(n + 1)
        /\ found'[n + 1] = x /\ \A i \in 1..n : found'[i] = found[i]
    <2> HIDE DEF S
    <2>1. x \in S \cup {x} /\ found' = Append(found, x)
      BY <1>0
    <2>2. QED
      BY <1>3, <2>1, Appended
  <1> HIDE DEF n
  <1>5. \A i \in 1..(n + 1) : i = n + 1 \/ i \in 1..n
    BY <1>4
  <1>6. found' \in Seq(ToSet(found'))
    BY <1>4, OwnMembers
  <1>7. Unmarked(x)' /\ x.slice = Slice /\ machine.info[Slice].fs = "ufs"
    <2>1. ~Skipped /\ Info.fs = "ufs" /\ (Info.tag = "root" \/ Info.readable)
          /\ (fr = {} => Info.lacks = {}) /\ (Info.tag = "root" \/ Info.lacks \subseteq {"metacluster"})
      BY <1>1 DEF SliceInv, InSlice, Mounting
    <2>2. IsSystem(Info)
      BY <2>1 DEF IsSystem, Skipped
    <2>3. x.slice = Slice /\ x.why = fr
      BY <1>0
    <2>4. Unmarked(x)
      BY <1>2, <2>1, <2>2, <2>3 DEF Unmarked, Info
    <2>5. Unmarked(x)'
      BY <2>4 DEF Unmarked, IsSystem
    <2>6. QED
      BY <2>1, <2>3, <2>5 DEF Info
  <1>8. ASSUME NEW i \in 1..n
        PROVE  \E y : /\ found'[i] = y /\ found[i] = y /\ Unmarked(y)' /\ Over(y.slice)'
                      /\ machine.info[y.slice].fs = "ufs" /\ y.slice # Slice
    <2>1. PICK y : y = found[i]
      OBVIOUS
    <2>2. Unmarked(y) /\ Over(y.slice) /\ machine.info[y.slice].fs = "ufs"
      BY <1>1, <1>4, <2>1 DEF FoundInv
    <2>3. Unmarked(y)'
      BY <2>2 DEF Unmarked, IsSystem
    <2>4. y.slice # Slice
      BY <1>1, <1>2, <2>2 DEF Over
    <2>5. Over(y.slice)'
      BY <2>2, OverGrows
    <2>6. found'[i] = y
      BY <1>4, <2>1
    <2>7. QED
      BY <2>1, <2>2, <2>3, <2>4, <2>5, <2>6
  <1>9. Over(Slice)'
    BY <1>1 DEF Over, Slice
  <1>10. ASSUME NEW k \in 1..(n + 1)
         PROVE  \E y : found'[k] = y /\ Unmarked(y)' /\ Over(y.slice)' /\ machine'.info[y.slice].fs = "ufs"
                       /\ (k = n + 1 <=> y.slice = Slice)
    <2>1. CASE k = n + 1
      <3>1. Over(x.slice)'
        BY <1>1, <1>7, <1>9 DEF Over, Slice
      <3>2. QED
        BY <1>4, <1>7, <2>1, <3>1
    <2>2. CASE k \in 1..n
      <3>1. k # n + 1
        BY <1>4, <2>2
      <3>2. QED
        BY <1>8, <2>2, <3>1
    <2>3. QED
      BY <1>5, <2>1, <2>2
  <1>11. \A k, l \in DOMAIN found' : found'[k].slice = found'[l].slice => k = l
    <2> SUFFICES ASSUME NEW k \in 1..(n + 1), NEW l \in 1..(n + 1), found'[k].slice = found'[l].slice PROVE k = l
      BY <1>4
    <2>1. k = n + 1 <=> l = n + 1
      BY <1>10
    <2>2. CASE k \in 1..n /\ l \in 1..n
      BY <1>1, <1>4, <2>2 DEF FoundInv
    <2>3. QED
      BY <1>5, <2>1, <2>2
  <1>12. ASSUME NEW k \in DOMAIN found'
         PROVE Unmarked(found[k])' /\ Over(found[k].slice)' /\ machine'.info[found'[k].slice].fs = "ufs"
    <2>1. PICK y : found'[k] = y /\ Unmarked(y)' /\ Over(y.slice)' /\ machine'.info[y.slice].fs = "ufs"
      BY <1>4, <1>10
    <2>2. QED
      BY <2>1 DEF Unmarked, Over
  <1>13. QED
    BY <1>2, <1>6, <1>11, <1>12 DEF FoundInv

(* The end: the members of pools, which no slice that was reported is.     *)
LEMMA EndStep ==
  ASSUME MdTyped, FoundInv, EndOfDiscovery, machine' = machine, found' = found \o SetToSeq(Imported)
  PROVE  FoundInv' /\ \A s \in Pools : Reports(s)' # {}
  <1> DEFINE t == SetToSeq(Imported)
  <1> DEFINE S == ToSet(found) \cup Imported
  <1> DEFINE m == Len(found)
  <1> DEFINE n == Len(t)
  <1>1. found \in Seq(S) /\ t \in Seq(S) /\ ToSet(t) = Imported /\ \A i, j \in DOMAIN t : t[i] = t[j] => i = j
    <2>1. found \in Seq(ToSet(found)) /\ t \in Seq(Imported) /\ ToSet(t) = Imported
          /\ \A i, j \in DOMAIN t : t[i] = t[j] => i = j
      BY PoolsAreListed DEF FoundInv
    <2> DEFINE F == ToSet(found)
    <2> HIDE DEF t, F
    <2>2. found \in Seq(F \cup Imported) /\ t \in Seq(F \cup Imported)
      <3>1. found \in Seq(F)
        BY <2>1 DEF F
      <3>2. QED
        BY <2>1, <3>1, WiderList
    <2>3. QED
      BY <2>1, <2>2 DEF F
  <1>2. found' = found \o t
    OBVIOUS
  <1> HIDE DEF t, S
  <1>3. /\ found' \in Seq(S) /\ m \in Nat /\ n \in Nat
        /\ DOMAIN found = 1..m /\ DOMAIN t = 1..n /\ DOMAIN found' = 1..(m + n)
        /\ \A i \in 1..m : found'[i] = found[i]
        /\ \A i \in 1..n : found'[m + i] = t[i]
        /\ \A i \in 1..(m + n) : i \in 1..m \/ (i - m \in 1..n /\ i = m + (i - m))
    BY <1>1, <1>2, Joined
  <1> HIDE DEF m, n
  <1>4. mdPc = "slice" /\ mdPc' = "done"
    BY DEF EndOfDiscovery
  <1>5. found' \in Seq(ToSet(found'))
    BY <1>3, OwnMembers
  <1>6. ASSUME NEW i \in 1..m
        PROVE  \E y : found'[i] = y /\ found[i] = y /\ Unmarked(y)' /\ machine.info[y.slice].fs = "ufs"
    <2>1. PICK y : y = found[i]
      OBVIOUS
    <2>2. Unmarked(y) /\ machine.info[y.slice].fs = "ufs"
      BY <1>3, <1>4, <2>1 DEF FoundInv
    <2>3. Unmarked(y)'
      BY <2>2 DEF Unmarked, IsSystem
    <2>4. QED
      BY <1>3, <2>1, <2>2, <2>3
  <1>7. ASSUME NEW i \in 1..n
        PROVE  \E s \in Pools : \E y : /\ y = [slice |-> s, why |-> {}] /\ found'[m + i] = y /\ t[i] = y /\ Unmarked(y)'
                                         /\ machine.info[s].fs = "zfs"
    <2>1. t[i] \in Imported
      BY <1>1, <1>3 DEF ToSet
    <2>2. PICK s \in Pools : t[i] = [slice |-> s, why |-> {}]
      BY <2>1 DEF Imported
    <2>3. PICK y : y = [slice |-> s, why |-> {}]
      OBVIOUS
    <2>4. s \in DOMAIN machine.info /\ machine.info[s].fs = "zfs" /\ machine.info[s].known
      BY DEF Pools
    <2>5. IsSystem(machine.info[s])
      BY <2>4 DEF IsSystem
    <2>6. y.slice = s
      BY <2>3
    <2>7. Unmarked(y)
      BY <2>4, <2>5, <2>6 DEF Unmarked
    <2>8. Unmarked(y)'
      BY <2>7 DEF Unmarked, IsSystem
    <2>9. QED
      BY <1>3, <2>2, <2>3, <2>4, <2>8
  <1>8. ASSUME NEW k \in DOMAIN found' PROVE Unmarked(found[k])'
    <2>1. PICK y : found'[k] = y /\ Unmarked(y)'
      <3>1. CASE k \in 1..m
        BY <1>6, <3>1
      <3>2. CASE k - m \in 1..n /\ k = m + (k - m)
        BY <1>7, <3>2
      <3>3. QED
        BY <1>3, <3>1, <3>2
    <2>2. QED
      BY <2>1 DEF Unmarked
  <1>9. ASSUME NEW k \in DOMAIN found', NEW l \in DOMAIN found', found'[k].slice = found'[l].slice PROVE k = l
    <2>1. CASE k \in 1..m /\ l \in 1..m
      BY <1>3, <1>9, <2>1 DEF FoundInv
    <2>2. CASE k - m \in 1..n /\ k = m + (k - m) /\ l - m \in 1..n /\ l = m + (l - m)
      <3>1. PICK a : found'[k] = [slice |-> a, why |-> {}] /\ t[k - m] = [slice |-> a, why |-> {}]
        BY <1>7, <2>2
      <3>2. PICK b : found'[l] = [slice |-> b, why |-> {}] /\ t[l - m] = [slice |-> b, why |-> {}]
        BY <1>7, <2>2
      <3>3. a = b
        BY <1>9, <3>1, <3>2
      <3>4. t[k - m] = t[l - m]
        BY <3>1, <3>2, <3>3
      <3>5. k - m = l - m
        BY <1>1, <1>3, <2>2, <3>4
      <3>6. QED
        BY <2>2, <3>5
    <2>3. ASSUME NEW a \in 1..m, NEW b \in 1..n PROVE found'[a].slice # found'[m + b].slice
      <3>1. machine.info[found'[a].slice].fs = "ufs"
        BY <1>6
      <3>2. PICK s \in Pools : found'[m + b] = [slice |-> s, why |-> {}] /\ machine.info[s].fs = "zfs"
        BY <1>7
      <3>3. found'[m + b].slice = s
        BY <3>2
      <3>4. QED
        BY <3>1, <3>2, <3>3
    <2>4. ~(k \in 1..m /\ l - m \in 1..n /\ l = m + (l - m))
      BY <1>9, <2>3
    <2>5. ~(l \in 1..m /\ k - m \in 1..n /\ k = m + (k - m))
      BY <1>9, <2>3
    <2>6. /\ k \in 1..m \/ (k - m \in 1..n /\ k = m + (k - m))
          /\ l \in 1..m \/ (l - m \in 1..n /\ l = m + (l - m))
      BY <1>3
    <2>7. QED
      BY <2>1, <2>2, <2>4, <2>5, <2>6
  <1>10. ASSUME NEW s \in Pools PROVE Reports(s)' # {}
    <2>1. [slice |-> s, why |-> {}] \in ToSet(t)
      BY <1>1 DEF Imported
    <2>2. PICK i \in 1..n : t[i] = [slice |-> s, why |-> {}]
      BY <1>3, <2>1 DEF ToSet
    <2>3. m + i \in 1..(m + n) /\ found'[m + i].slice = s
      <3>1. found'[m + i] = t[i]
        BY <1>3
      <3>2. m + i \in 1..(m + n)
        BY <1>3
      <3>3. t[i].slice = s
        BY <2>2
      <3>4. QED
        BY <3>1, <3>2, <3>3
    <2>4. QED
      BY <1>3, <2>3 DEF Reports
  <1>11. QED
    BY <1>4, <1>5, <1>8, <1>9, <1>10 DEF FoundInv

LEMMA FoundStep ==
  ASSUME MdTyped, SliceInv, SlicesInv, FoundInv, MdNext, machine' = machine
  PROVE  FoundInv'
  <1>1. CASE found' = found /\ ~EndOfDiscovery
    <2>1. found' \in Seq(ToSet(found')) /\ (\A k, l \in DOMAIN found' : found'[k].slice = found'[l].slice => k = l)
      BY <1>1 DEF FoundInv
    <2>2. ASSUME NEW k \in DOMAIN found' PROVE Unmarked(found[k])'
      <3>1. PICK y : y = found[k] /\ y = found'[k]
        BY <1>1
      <3>2. Unmarked(y)
        BY <1>1, <3>1 DEF FoundInv
      <3>3. QED
        BY <3>1, <3>2 DEF Unmarked, IsSystem
    <2>3. ASSUME NEW k \in DOMAIN found', mdPc' # "done"
          PROVE  Over(found[k].slice)' /\ machine'.info[found'[k].slice].fs = "ufs"
      <3>1. PICK y : y = found[k].slice /\ y = found'[k].slice
        BY <1>1
      <3>2. mdPc # "done"
        BY <2>3 DEF MdNext, SkipSlice, MountSlice, LookForVar, Examine, UmountOld, UmountOne, UnswapOne, AllUndone,
              Undoing, MountRoot, VfstabLine, StartRetries, RetryOne, EndOfPass, LookAtZones, UmountNew, Record,
              UmountSlice, EndOfDiscovery, MdOver, mdVars
      <3>3. Over(y) /\ machine.info[y].fs = "ufs"
        BY <1>1, <3>1, <3>2 DEF FoundInv
      <3>4. Over(y)'
        BY <3>3, OverGrows
      <3>5. QED
        BY <3>1, <3>3, <3>4 DEF Over
    <2>4. QED
      BY <2>1, <2>2, <2>3 DEF FoundInv
  <1>2. CASE Record /\ found' = Append(found, [slice |-> Slice, why |-> fr])
    BY <1>2, RecordStep
  <1>3. CASE EndOfDiscovery
    <2>1. found' = found \o SetToSeq(Imported)
      BY <1>3 DEF EndOfDiscovery, Imported
    <2>2. QED
      BY <1>3, <2>1, EndStep
  <1>4. QED
    BY <1>1, <1>2, <1>3, FoundMoves

(* The /var of a system that has one can be mounted.                       *)
LEMMA VarIsHad ==
  ASSUME MdTyped, InUseInv, Balance, SliceInv, mdPc = "vfstab", Info.readable, rootmounted <=> InUse(Slice),
         HasVar(Slice), NeedsVar
  PROVE  CanMountVar
  <1>1. umount_head = <<>> /\ ToSet(umount_head) = {} /\ slices # <<>> /\ varslice = "none"
    BY EmptyHoldsNothing DEF Balance, Holding, SliceInv, MdTyped, InSlice
  <1>2. Info.vfstab \in Seq(Lines)
    BY <1>1, InSliceKnown
  <1>3. PICK i \in VarLines : VarDev = Info.vfstab[i].dev
    BY DEF NeedsVar, VarDev
  <1> DEFINE vars == {l \in ToSet(Info.vfstab) : l.sub = "/var"}
  <1>4. Info.vfstab[i] \in vars
    BY <1>3 DEF VarLines, ToSet
  <1>5. \A m \in machine.mounts : m.base = "live"
    BY MdAssumption DEF MdTyped
  <1>6. CASE InUse(Slice) /\ \E m \in machine.mounts :
                m.sub = "/var" /\ (m.dev \in DOMAIN machine.info => machine.info[m.dev].readable)
    <2>1. PICK m \in machine.mounts : m.sub = "/var" /\ (m.dev \in DOMAIN machine.info => machine.info[m.dev].readable)
      BY <1>6
    <2>2. m \in mounts /\ m.base = "live"
      BY <1>5, <2>1 DEF InUseInv, Protected
    <2>3. At("live", "/var") # {}
      BY <2>1, <2>2 DEF At
    <2>4. QED
      BY <1>6, <2>3 DEF NeedsVar
  <1>7. CASE ~InUse(Slice) /\ \A l \in vars : l.dev # Slice /\ \A m \in machine.mounts : m.dev # l.dev
    <2>1. VarDev # Slice /\ \A m \in machine.mounts : m.dev # VarDev
      BY <1>3, <1>4, <1>7
    <2>2. RootMount \in mounts
      BY <1>7 DEF SliceInv
    <2>3. \A m \in mounts : m \in machine.mounts \/ m = RootMount
      BY <1>1 DEF Balance, ToUndo
    <2>4. RootMount.dev = Slice /\ RootMount.base = "tmp" /\ RootMount.sub = "/"
      BY DEF RootMount
    <2>5. ~Mounted(VarDev)
      BY <2>1, <2>3, <2>4 DEF Mounted
    <2>6. Free("tmp", "/var")
      BY <1>5, <2>3, <2>4 DEF Free, At
    <2>7. DirExists("tmp", "/var")
      BY <2>2, <2>4, RootIsDir DEF DirExists, At
    <2>8. QED
      BY <2>5, <2>6, <2>7 DEF CanMountVar
  <1>8. vars # {}
    BY <1>4
  <1>9. QED
    BY <1>6, <1>7, <1>8 DEF HasVar, Info

(* When nothing fails, a system that has been looked at has been reported.  *)
LEMMA ReportsStay ==
  ASSUME MdTyped, FoundInv, MdNext, NEW s, Reports(s) # {}
  PROVE  Reports(s)' # {}
  <1>1. PICK k \in DOMAIN found : found[k].slice = s
    BY DEF Reports
  <1>2. found \in Seq(ToSet(found))
    BY DEF FoundInv
  <1> DEFINE F == ToSet(found)
  <1>3. k \in DOMAIN found' /\ found'[k] = found[k]
    <2>1. CASE found' = found
      BY <2>1
    <2>2. CASE found' = Append(found, [slice |-> Slice, why |-> fr])
      <3>1. PICK x : x = [slice |-> Slice, why |-> fr]
        OBVIOUS
      <3> HIDE DEF F
      <3>2. found \in Seq(F \cup {x})
        <4>1. found \in Seq(F)
          BY <1>2 DEF F
        <4>2. QED
          BY <4>1, WiderList
      <3>3. found' = Append(found, x) /\ x \in F \cup {x}
        BY <2>2, <3>1
      <3>4. DOMAIN found = 1..Len(found) /\ DOMAIN found' = 1..(Len(found) + 1) /\ Len(found) \in Nat
            /\ \A i \in 1..Len(found) : found'[i] = found[i]
        BY <3>2, <3>3, Appended
      <3>5. QED
        BY <3>4
    <2>3. CASE found' = found \o SetToSeq(Imported)
      <3> DEFINE t == SetToSeq(Imported)
      <3>1. t \in Seq(Imported)
        BY PoolsAreListed
      <3> HIDE DEF F, t
      <3>2. found \in Seq(F \cup Imported)
        <4>1. found \in Seq(F)
          BY <1>2 DEF F
        <4>2. QED
          BY <4>1, WiderList
      <3>3. t \in Seq(F \cup Imported)
        BY <3>1, WiderList
      <3>4. found' = found \o t
        BY <2>3 DEF t
      <3>5. DOMAIN found = 1..Len(found) /\ DOMAIN found' = 1..(Len(found) + Len(t)) /\ Len(found) \in Nat /\ Len(t) \in Nat
            /\ \A i \in 1..Len(found) : found'[i] = found[i]
        BY <3>2, <3>3, <3>4, Joined
      <3>6. QED
        BY <3>5
    <2>4. QED
      BY <2>1, <2>2, <2>3, FoundMoves
  <1>4. QED
    BY <1>1, <1>3 DEF Reports

LEMMA ReportStep ==
  ASSUME MdInv, SliceInv, CalmInv, SlicesInv, FoundInv, ReportInv, MdNext, machine' = machine
  PROVE  ReportInv'
  <1> SUFFICES ASSUME mdFaults' = 0, NEW s \in DOMAIN machine.info, Reportable(s)', Over(s)' PROVE Reports(s)' # {}
    BY DEF ReportInv
  <1> DEFINE i == machine.info[s]
  <1>1. MdTyped /\ InUseInv /\ mdFaults = 0 /\ \A f : ~May(f)
    BY CalmStep DEF MdInv
  <1>2. umountOk /\ tderr = "SUCCESS" /\ Balance
    BY <1>1 DEF CalmInv, MdInv
  <1>3. IsSystem(i) /\ (i.fs = "zfs" => mdPc' = "done") /\ (i.fs # "zfs" => i.tag = "root" \/ HasVar(s))
    <2>1. HasVar(s)' <=> HasVar(s)
      BY DEF HasVar, InUse
    <2>2. IsSystem(i)'
      BY DEF Reportable
    <2>3. IsSystem(i)
      BY <2>2 DEF IsSystem
    <2>4. QED
      BY <2>1, <2>3 DEF Reportable
  <1>4. i.fs # "zfs" => Reportable(s)
    BY <1>3 DEF Reportable
  <1>5. CASE Reportable(s) /\ Over(s)
    BY <1>1, <1>5, ReportsStay DEF ReportInv
  <1>6. CASE i.fs = "zfs"
    <2>1. CASE EndOfDiscovery
      <3>1. s \in Pools /\ found' = found \o SetToSeq(Imported)
        BY <1>3, <1>6, <2>1 DEF Pools, IsSystem, EndOfDiscovery, Imported
      <3>2. QED
        BY <1>1, <2>1, <3>1, EndStep
    <2>2. CASE MdOver
      <3>1. mdPc = "done" /\ slices' = slices /\ mdPc' = mdPc
        BY <2>2 DEF MdOver, mdVars, mdFixed
      <3>2. Reportable(s) /\ Over(s)
        BY <1>3, <1>6, <3>1 DEF Reportable, Over
      <3>3. QED
        BY <1>5, <3>2
    <2>3. QED
      BY <1>1, <1>3, <1>6, <2>1, <2>2, SliceMoves
  <1>7. CASE i.fs # "zfs" /\ ~Over(s)
    <2>1. s = Slice /\ (SkipSlice \/ (mdPc' = "umount" /\ slices' = slices /\ (LookForVar \/ Examine \/ Record)))
      BY <1>1, <1>2, <1>7, NewlyOver
    <2>2. i = Info /\ i.known /\ i.fs = "ufs" /\ i.tag # "data"
          /\ (i.tag = "root" \/ (HasVar(s) /\ i.readable /\ i.lacks \subseteq {"metacluster"}))
      BY <1>3, <1>7, <2>1 DEF Info, IsSystem
    <2>3. ~SkipSlice
      BY <1>1, <2>2 DEF SkipSlice, Skipped
    <2>4. ~LookForVar
      <3> SUFFICES ASSUME LookForVar, mdPc' = "umount" PROVE FALSE
        BY <2>1, <2>3
      <3>1. mdPc = "vfstab" /\ Info.tag # "root"
        BY <2>2 DEF LookForVar, Missing
      <3>2. Info.readable /\ NeedsVar /\ ~CanMountVar
        BY <1>1, <2>2, <3>1 DEF LookForVar
      <3>3. rootmounted <=> InUse(Slice)
        BY <1>1, <3>1, <3>2 DEF CalmInv
      <3>4. QED
        BY <1>1, <1>2, <2>1, <2>2, <3>1, <3>2, <3>3, VarIsHad
    <2>5. ~Examine
      <3> SUFFICES ASSUME Examine, mdPc' = "umount" PROVE FALSE
        BY <2>1, <2>3
      <3>1. mdPc = "checks" /\ Info.tag # "root" /\ Lacks \ {"metacluster"} # {}
        BY DEF Examine
      <3>2. SeesVar /\ Info.lacks \subseteq {"metacluster"}
        BY <2>2, <3>1 DEF SliceInv
      <3>3. QED
        BY <3>1, <3>2, LacksNothing
    <2>6. Record /\ found' = Append(found, [slice |-> Slice, why |-> fr])
      BY <1>1, <2>1, <2>3, <2>4, <2>5 DEF Record
    <2>7. PICK x : x = [slice |-> Slice, why |-> fr]
      OBVIOUS
    <2> DEFINE F == ToSet(found)
    <2>8. found \in Seq(F \cup {x})
      <3>1. found \in Seq(F)
        BY DEF FoundInv
      <3> HIDE DEF F
      <3>2. QED
        BY <3>1, WiderList
    <2> HIDE DEF F
    <2>9. DOMAIN found' = 1..(Len(found) + 1) /\ Len(found) \in Nat /\ found'[Len(found) + 1] = x
      <3>1. x \in F \cup {x} /\ found' = Append(found, x)
        BY <2>6, <2>7
      <3>2. QED
        BY <2>8, <3>1, Appended
    <2>10. Len(found) + 1 \in DOMAIN found' /\ x.slice = s
      BY <2>1, <2>7, <2>9
    <2>11. QED
      BY <2>9, <2>10 DEF Reports
  <1>8. QED
    BY <1>4, <1>5, <1>6, <1>7

LEMMA ScanInit == MdInit => ScanInv
  <1> SUFFICES ASSUME MdInit PROVE ScanInv
    OBVIOUS
  <1>1. /\ mdPc = "slice" /\ found = <<>> /\ slices = machine.slices /\ machine \in Machines
        /\ umountOk /\ tderr = "SUCCESS"
    BY DEF MdInit
  <1>2. LinesInv /\ SliceInv /\ CalmInv
    BY <1>1 DEF LinesInv, SliceInv, CalmInv, InSlice, Mounting
  <1>3. /\ \A i, j \in DOMAIN slices : slices[i] = slices[j] => i = j
        /\ ToSet(slices) = DOMAIN machine.info
    BY <1>1, MdAssumption
  <1>4. SlicesInv
    BY <1>1, <1>3 DEF SlicesInv
  <1>5. FoundInv
    BY <1>1 DEF FoundInv
  <1>6. ReportInv
    BY <1>1, <1>3 DEF ReportInv, Over
  <1>7. QED
    BY <1>2, <1>4, <1>5, <1>6 DEF ScanInv

LEMMA ScanStutters == MdInv /\ ScanInv /\ UNCHANGED mdVars => ScanInv'
  <1> SUFFICES ASSUME ScanInv, UNCHANGED mdVars PROVE ScanInv'
    OBVIOUS
  <1> USE DEF mdTables, mdLists, mdSlice, mdPass, mdFixed, mdVars
  <1>1. LinesInv'
    BY DEF ScanInv, LinesInv, Info, Slice, Seen, ToDo, MountsAt, Base
  <1>2. SliceInv'
    BY DEF ScanInv, SliceInv, Info, Slice, Skipped, SeesVar, VarLines, At, RootMount
  <1>3. CalmInv'
    BY DEF ScanInv, CalmInv, Info, Slice, InUse
  <1>4. SlicesInv'
    BY DEF ScanInv, SlicesInv
  <1>5. FoundInv'
    BY DEF ScanInv, FoundInv, Unmarked, Over, Slice
  <1>6. ReportInv'
    BY DEF ScanInv, ReportInv, Reportable, IsSystem, HasVar, InUse, Over, Slice, Reports
  <1>7. QED
    BY <1>1, <1>2, <1>3, <1>4, <1>5, <1>6 DEF ScanInv

LEMMA ScanStep == MdInv /\ ScanInv /\ [MdNext]_mdVars => ScanInv'
  <1>1. ASSUME MdInv, ScanInv, MdNext PROVE ScanInv'
    <2>1. MdTyped /\ machine' = machine
      BY <1>1, InUseStep DEF MdInv
    <2>2. LinesInv'
      BY <1>1, <2>1, LinesStep DEF ScanInv
    <2>3. SliceInv'
      BY <1>1, <2>1, SliceStep DEF ScanInv
    <2>4. CalmInv'
      BY <1>1, CalmInvStep DEF ScanInv
    <2>5. SlicesInv'
      BY <1>1, <2>1, SlicesStep DEF ScanInv
    <2>6. FoundInv'
      BY <1>1, <2>1, FoundStep DEF ScanInv
    <2>7. ReportInv'
      BY <1>1, <2>1, ReportStep DEF ScanInv
    <2>8. QED
      BY <2>2, <2>3, <2>4, <2>5, <2>6, <2>7 DEF ScanInv
  <1>2. QED
    BY <1>1, ScanStutters

LEMMA ScanIsSafe == ScanInv => SystemsAreReported
  <1> SUFFICES ASSUME ScanInv PROVE SystemsAreReported
    OBVIOUS
  <1>1. ZonesSeeWholeSystem
    BY LinesInvIsSafe DEF ScanInv
  <1>2. FoundInv /\ ReportInv /\ SlicesInv
    BY DEF ScanInv
  <1>3. UnmarkedLacksNothing
    BY <1>2 DEF UnmarkedLacksNothing, FoundInv, Unmarked
  <1>4. ASSUME mdPc = "done", mdFaults = 0, NEW s \in DOMAIN machine.info
        PROVE  /\ \A k, l \in Reports(s) : k = l
               /\ Reports(s) # {} => IsSystem(machine.info[s])
               /\ IsSystem(machine.info[s])
                    /\ (machine.info[s].fs = "zfs" \/ machine.info[s].tag = "root" \/ HasVar(s)) => Reports(s) # {}
    <2>1. \A k, l \in Reports(s) : k = l
      BY <1>2 DEF FoundInv, Reports
    <2>2. Reports(s) # {} => IsSystem(machine.info[s])
      BY <1>2 DEF FoundInv, Reports, Unmarked
    <2>3. Over(s)
      BY <1>2, <1>4, EmptyHoldsNothing DEF SlicesInv, Over
    <2>4. ASSUME IsSystem(machine.info[s]),
                 machine.info[s].fs = "zfs" \/ machine.info[s].tag = "root" \/ HasVar(s)
          PROVE  Reports(s) # {}
      BY <1>2, <1>4, <2>3, <2>4 DEF ReportInv, Reportable
    <2>5. QED
      BY <2>1, <2>2, <2>4
  <1>5. EverySystemIsReported
    BY <1>4 DEF EverySystemIsReported
  <1>6. QED
    BY <1>1, <1>3, <1>5 DEF SystemsAreReported

(* Every system is reported once, with what it lacks, and its zones were    *)
(* looked at with all its file systems there, for every machine, vfstab    *)
(* and failure (os_discover, td_mountall.c:451-505).                       *)
THEOREM SystemsAreAlwaysReported == MdSpec => []SystemsAreReported
  <1>1. MdInit => MdInv /\ ScanInv
    BY MdInitInv, ScanInit
  <1>2. MdInv /\ ScanInv /\ [MdNext]_mdVars => (MdInv /\ ScanInv)'
    BY MdStep, ScanStep
  <1>3. MdInv /\ ScanInv => SystemsAreReported
    BY ScanIsSafe
  <1>4. QED
    BY <1>1, <1>2, <1>3, PTL DEF MdSpec

-----------------------------------------------------------------------------
(* The search for an iSCSI disk. *)

(* Past each step of the search its outcome stands, and nothing has been   *)
(* answered before the end.                                                *)
Progress ==
  /\ isPc \in {"enable", "lun", "wait"} => Wanted \in config
  /\ isPc \in {"lun", "wait"} => enabled
  /\ isPc # "done" => isRet = "none"

IsInv == Progress /\ FoundIsConfigured /\ ConfiguredOnce

LEMMA IsInvInit == IsInit => IsInv
<1> SUFFICES ASSUME IsInit PROVE IsInv
  OBVIOUS
<1>1. \A c, d \in Same : c = d
  <2>1. "another" # ask.name
    BY IsAssumption DEF IsInit
  <2> QED  BY <2>1 DEF IsInit, KnownBefore, Same
<1> QED  BY <1>1 DEF IsInit, IsInv, Progress, FoundIsConfigured, ConfiguredOnce, Same

(* What the search wants and whom it takes for the same target depends on  *)
(* what was asked only.                                                    *)
LEMMA WantedStays ==
  ASSUME ask' = ask
  PROVE  Wanted' = Wanted /\ (config' = config => Same' = Same)
BY DEF Wanted, Port, Same

LEMMA AddKeepsInv ==
  ASSUME IsInv, instiscsi_add_static_config
  PROVE  IsInv'
<1> USE DEF instiscsi_add_static_config, Answer0
<1>0. Wanted' = Wanted /\ isPc = "add" /\ isRet = "none"
  BY WantedStays DEF IsInv, Progress
<1>1. CASE Answer0("NOT_FOUND") /\ UNCHANGED config
  BY <1>0, <1>1, WantedStays DEF IsInv, Progress, FoundIsConfigured, ConfiguredOnce
<1>2. CASE Wanted \in Same /\ isPc' = "enable" /\ UNCHANGED <<config, isRet>>
  BY <1>0, <1>2, WantedStays DEF IsInv, Progress, FoundIsConfigured, ConfiguredOnce, Same
<1>3. CASE Answer0("LUN_BUSY") /\ UNCHANGED config
  BY <1>0, <1>3, WantedStays DEF IsInv, Progress, FoundIsConfigured, ConfiguredOnce
<1>4. CASE config' = (config \ Same) \cup {Wanted} /\ isPc' = "enable" /\ UNCHANGED isRet
  <2>1. \A c \in Same' : c = Wanted
    BY <1>4 DEF Same
  <2> QED  BY <1>0, <1>4, <2>1 DEF IsInv, Progress, FoundIsConfigured, ConfiguredOnce
<1>5. CASE config' = config \ Same /\ Answer0("NOT_FOUND")
  <2>1. Same' = {}
    BY <1>5 DEF Same
  <2> QED  BY <1>0, <1>5, <2>1 DEF IsInv, Progress, FoundIsConfigured, ConfiguredOnce
<1> QED  BY <1>1, <1>2, <1>3, <1>4, <1>5

LEMMA EnableKeepsInv ==
  ASSUME IsInv, instiscsi_modify_static_discovery
  PROVE  IsInv'
BY WantedStays DEF instiscsi_modify_static_discovery, Answer0, IsInv, Progress, FoundIsConfigured, ConfiguredOnce

LEMMA ParseKeepsInv ==
  ASSUME IsInv, parse_lun_num
  PROVE  IsInv'
BY WantedStays DEF parse_lun_num, Answer0, IsInv, Progress, FoundIsConfigured, ConfiguredOnce

LEMMA WaitKeepsInv ==
  ASSUME IsInv, instiscsi_get_device_name_via_tgtname
  PROVE  IsInv'
<1> USE DEF instiscsi_get_device_name_via_tgtname
<1>0. ask' = ask /\ Wanted' = Wanted /\ Same' = Same /\ config' = config /\ enabled' = enabled
      /\ Wanted \in config /\ enabled /\ isPc = "wait"
  BY WantedStays DEF IsInv, Progress
<1>1. Progress' /\ FoundIsConfigured'
  BY <1>0 DEF IsInv, Progress, FoundIsConfigured, Answer0
<1>2. ConfiguredOnce'
  BY <1>0 DEF IsInv, ConfiguredOnce
<1> QED  BY <1>1, <1>2 DEF IsInv

LEMMA IsInvStep == IsInv /\ [IsNext]_isVars => IsInv'
<1> SUFFICES ASSUME IsInv, [IsNext]_isVars PROVE IsInv'
  OBVIOUS
<1>1. CASE DeviceAppears
  BY <1>1, WantedStays DEF DeviceAppears, IsInv, Progress, FoundIsConfigured, ConfiguredOnce
<1>2. CASE UNCHANGED isVars
  BY <1>2, WantedStays DEF isVars, IsInv, Progress, FoundIsConfigured, ConfiguredOnce
<1> QED  BY <1>1, <1>2, AddKeepsInv, EnableKeepsInv, ParseKeepsInv, WaitKeepsInv
         DEF IsNext, IsOver, iscsi_static_config

LEMMA IsSafe == IsSpec => []IsInv
BY IsInvInit, IsInvStep, PTL DEF IsSpec

(* A disk that is found is of the LUN asked for, and the initiator will    *)
(* find its target again after a reboot (iscsi_static_config).             *)
THEOREM FoundIsAlwaysConfigured == IsSpec => []FoundIsConfigured
<1>1. IsInv => FoundIsConfigured
  BY DEF IsInv
<1> QED  BY <1>1, IsSafe, PTL

(* No target is ever configured at two ports of one address: discovery     *)
(* would report each of its disks twice (instiscsi_add_static_config).     *)
THEOREM AlwaysConfiguredOnce == IsSpec => []ConfiguredOnce
<1>1. IsInv => ConfiguredOnce
  BY DEF IsInv
<1> QED  BY <1>1, IsSafe, PTL

(* Whatever fails: of what the initiator knew the search takes away only   *)
(* another port of the target and the address it was asked for, and it     *)
(* adds only what it was asked for. When adding fails after the removal    *)
(* the target is gone, and the answer says NOT_FOUND.                      *)
THEOREM OnlyTheAskedEverChanges == IsSpec => OnlyTheAskedChanges
<1>1. IsNext => [/\ \A c \in config \ config' :
                        c \in Same /\ Wanted \notin config /\ (Wanted \in config' \/ isRet' = "NOT_FOUND")
                 /\ config' \ config \subseteq {Wanted}]_config
  <2> SUFFICES ASSUME IsNext, config' # config
               PROVE  /\ \A c \in config \ config' :
                             c \in Same /\ Wanted \notin config /\ (Wanted \in config' \/ isRet' = "NOT_FOUND")
                      /\ config' \ config \subseteq {Wanted}
    OBVIOUS
  <2>1. instiscsi_add_static_config
    BY DEF IsNext, iscsi_static_config, instiscsi_modify_static_discovery, parse_lun_num,
           instiscsi_get_device_name_via_tgtname, DeviceAppears, IsOver, isVars
  <2>2. Wanted \notin Same => Wanted \notin config
    BY DEF Same, Wanted
  <2>3. CASE Wanted \notin Same /\ config' = (config \ Same) \cup {Wanted}
    BY <2>2, <2>3
  <2>4. CASE Wanted \notin Same /\ config' = config \ Same /\ Answer0("NOT_FOUND")
    BY <2>2, <2>4 DEF Answer0
  <2> QED  BY <2>1, <2>3, <2>4 DEF instiscsi_add_static_config
<1>2. UNCHANGED isVars => UNCHANGED config
  BY DEF isVars
<1> QED  BY <1>1, <1>2, PTL DEF IsSpec, OnlyTheAskedChanges

(* All of it at once: what the search finds is configured once, and nothing *)
(* else is touched for it (iscsi_static_config).                           *)
THEOREM ConfigIsAlwaysRight == IsSpec => ConfigIsRight
  BY FoundIsAlwaysConfigured, AlwaysConfiguredOnce, OnlyTheAskedEverChanges, PTL DEF ConfigIsRight

-----------------------------------------------------------------------------
(* Releases, compared by td_prod_vcmp.                                     *)

(* What two releases are compared by: a token, or nothing.                 *)
IsToken(t) ==
  /\ t.digits \in BOOLEAN /\ t.nums \in Seq(Nat) /\ t.letter \in Nat
  /\ (t.digits /\ t.nums = <<>> <=> IsEmpty(t))

LEMMA PieceIsToken == (\A t \in Pieces : IsToken(t) /\ ~IsEmpty(t)) /\ IsToken(None)
  <1>1. IsToken(None)
    <2>1. None.digits = TRUE /\ None.nums = <<>> /\ None.letter = 0 /\ IsEmpty(None)
      BY DEF None, IsEmpty
    <2>2. <<>> \in Seq(Nat) /\ 0 \in Nat
      OBVIOUS
    <2>3. QED
      BY <2>1, <2>2 DEF IsToken
  <1>2. ASSUME NEW ns \in Seq(Nat), ns # <<>> PROVE IsToken(Num(ns)) /\ ~IsEmpty(Num(ns))
    <2>1. Num(ns).nums = ns /\ Num(ns).digits = TRUE /\ Num(ns).letter = 0 /\ None.nums = <<>>
      BY DEF Num, None
    <2>2. ~IsEmpty(Num(ns))
      BY <1>2, <2>1 DEF IsEmpty
    <2>3. Num(ns).digits \in BOOLEAN
      BY <2>1
    <2>4. Num(ns).nums \in Seq(Nat) /\ Num(ns).letter \in Nat
      BY <2>1
    <2>5. Num(ns).nums # <<>>
      BY <1>2, <2>1
    <2>6. QED
      BY <2>2, <2>3, <2>4, <2>5 DEF IsToken
  <1>3. ASSUME NEW l \in Nat PROVE IsToken(Alpha(l)) /\ ~IsEmpty(Alpha(l))
    <2>1. Alpha(l).nums = <<>> /\ Alpha(l).digits = FALSE /\ Alpha(l).letter = l /\ None.digits = TRUE
      BY DEF Alpha, None
    <2>2. ~IsEmpty(Alpha(l))
      BY <2>1 DEF IsEmpty
    <2>3. <<>> \in Seq(Nat)
      OBVIOUS
    <2>4. QED
      BY <1>3, <2>1, <2>2, <2>3 DEF IsToken
  <1>4. ASSUME NEW t \in [digits : {TRUE}, nums : Seq(Nat) \ {<<>>}, letter : {0}] PROVE IsToken(t) /\ ~IsEmpty(t)
    <2> DEFINE ns == t.nums
    <2>1. ns \in Seq(Nat) /\ ns # <<>>
      OBVIOUS
    <2>2. t = Num(ns)
      BY DEF Num
    <2> HIDE DEF ns
    <2>3. QED
      BY <1>2, <2>1, <2>2
  <1>5. ASSUME NEW t \in [digits : {FALSE}, nums : {<<>>}, letter : Nat] PROVE IsToken(t) /\ ~IsEmpty(t)
    <2> DEFINE l == t.letter
    <2>1. l \in Nat
      OBVIOUS
    <2>2. t = Alpha(l)
      BY DEF Alpha
    <2> HIDE DEF l
    <2>3. QED
      BY <1>3, <2>1, <2>2
  <1>6. QED
    BY <1>1, <1>4, <1>5 DEF Pieces

(* Where two lists of numbers differ first.                                *)
LEMMA ApartAt ==
  ASSUME NEW a \in Seq(Nat), NEW b \in Seq(Nat)
  PROVE  /\ \A i, j \in FirstApart(a, b) : i = j
         /\ FirstApart(b, a) = FirstApart(a, b)
         /\ \A i \in FirstApart(a, b) : /\ i \in 1..Len(a) /\ i \in 1..Len(b) /\ a[i] \in Nat /\ b[i] \in Nat /\ a[i] # b[i]
                                        /\ \A j \in 1..(i - 1) : a[j] = b[j]
         /\ FirstApart(a, b) = {} => \A i \in 1..Len(a) : i <= Len(b) => a[i] = b[i]
  <1>1. Len(a) \in Nat /\ Len(b) \in Nat /\ (\A i \in 1..Len(a) : a[i] \in Nat) /\ (\A i \in 1..Len(b) : b[i] \in Nat)
    OBVIOUS
  <1>2. \A i, j \in FirstApart(a, b) : i = j
    <2> SUFFICES ASSUME NEW i \in FirstApart(a, b), NEW j \in FirstApart(a, b) PROVE ~(i < j)
      BY <1>1 DEF FirstApart
    <2>1. i \in 1..Len(a) /\ j \in 1..Len(a) /\ a[i] # b[i] /\ \A k \in 1..(j - 1) : a[k] = b[k]
      BY DEF FirstApart
    <2>2. QED
      BY <1>1, <2>1
  <1>3. FirstApart(b, a) = FirstApart(a, b)
    <2>1. ASSUME NEW c, NEW d, Len(c) \in Nat, Len(d) \in Nat, NEW i \in FirstApart(c, d) PROVE i \in FirstApart(d, c)
      <3>1. i \in 1..Len(c) /\ i <= Len(d) /\ c[i] # d[i] /\ \A j \in 1..(i - 1) : c[j] = d[j]
        BY DEF FirstApart
      <3>2. i \in 1..Len(d) /\ i <= Len(c) /\ d[i] # c[i]
        BY <2>1, <3>1
      <3>3. \A j \in 1..(i - 1) : d[j] = c[j]
        BY <3>1
      <3>4. QED
        BY <3>2, <3>3 DEF FirstApart
    <2>2. FirstApart(a, b) \subseteq FirstApart(b, a)
      BY <1>1, <2>1
    <2>3. FirstApart(b, a) \subseteq FirstApart(a, b)
      BY <1>1, <2>1
    <2>4. QED
      BY <2>2, <2>3
  <1>4. \A i \in FirstApart(a, b) : /\ i \in 1..Len(a) /\ i \in 1..Len(b) /\ a[i] \in Nat /\ b[i] \in Nat /\ a[i] # b[i]
                                    /\ \A j \in 1..(i - 1) : a[j] = b[j]
    BY <1>1 DEF FirstApart
  <1>5. ASSUME FirstApart(a, b) = {}, NEW i \in 1..Len(a), i <= Len(b), a[i] # b[i] PROVE FALSE
    <2> DEFINE D == {k \in 1..Len(a) : k <= Len(b) /\ a[k] # b[k]}
    <2>1. D \subseteq Nat /\ D # {}
      <3>1. 1..Len(a) \subseteq Nat
        BY <1>1
      <3>2. i \in D
        BY <1>5
      <3>3. QED
        BY <3>1, <3>2
    <2>2. PICK k \in D : \A l \in D : k <= l
      <3> HIDE DEF D
      <3>1. QED
        BY <2>1, LeastElement
    <2>3. k \in 1..Len(a) /\ k <= Len(b) /\ a[k] # b[k]
      OBVIOUS
    <2>4. ASSUME NEW j \in 1..(k - 1) PROVE a[j] = b[j]
      <3>1. j \in 1..Len(a) /\ j <= Len(b) /\ ~(k <= j)
        BY <1>1, <2>3
      <3>2. j \notin D
        BY <2>2, <3>1
      <3>3. QED
        BY <3>1, <3>2
    <2>5. k \in FirstApart(a, b)
      BY <2>3, <2>4 DEF FirstApart
    <2>6. QED
      BY <1>5, <2>5
  <1>6. QED
    BY <1>2, <1>3, <1>4, <1>5

Order == {LESS_THAN, EQUAL_TO, GREATER_THAN}
LEMMA SignTurns == \A m, n \in Nat : Sign(m - n) \in Order /\ Sign(n - m) = -Sign(m - n)
  BY DEF Sign, Order, LESS_THAN, EQUAL_TO, GREATER_THAN

LEMMA CollTurns ==
  ASSUME NEW x, NEW y, IsToken(x), IsToken(y), x.digits = y.digits
  PROVE  vstrcoll(x, y) \in Order /\ vstrcoll(y, x) = -vstrcoll(x, y)
  <1>1. CASE ~x.digits
    BY <1>1, SignTurns DEF vstrcoll, IsToken
  <1>2. CASE x.digits
    <2> DEFINE a == x.nums
    <2> DEFINE b == y.nums
    <2>1. a \in Seq(Nat) /\ b \in Seq(Nat)
      BY DEF IsToken
    <2> DEFINE Coll(c, d) ==
           CASE FirstApart(c, d) # {} -> LET i == CHOOSE j \in FirstApart(c, d) : TRUE IN Sign(c[i] - d[i])
             [] FirstApart(c, d) = {} /\ Rest(c, d) # {} -> GREATER_THAN
             [] FirstApart(c, d) = {} /\ Rest(d, c) # {} -> LESS_THAN
             [] OTHER -> EQUAL_TO
    <2>2. vstrcoll(x, y) = Coll(a, b) /\ vstrcoll(y, x) = Coll(b, a)
      BY <1>2 DEF vstrcoll
    <2> HIDE DEF a, b
    <2>3. FirstApart(b, a) = FirstApart(a, b)
      BY <2>1, ApartAt
    <2>4. CASE FirstApart(a, b) # {}
      <3>1. PICK i \in FirstApart(a, b) : i = CHOOSE j \in FirstApart(a, b) : TRUE
        BY <2>4
      <3>2. a[i] \in Nat /\ b[i] \in Nat
        BY <2>1, ApartAt
      <3>3. Coll(a, b) = Sign(a[i] - b[i]) /\ Coll(b, a) = Sign(b[i] - a[i])
        BY <2>3, <2>4, <3>1
      <3>4. QED
        BY <2>2, <3>2, <3>3, SignTurns
    <2>5. CASE FirstApart(a, b) = {}
      <3>1. ~(Rest(a, b) # {} /\ Rest(b, a) # {})
        <4>1. Len(a) \in Nat /\ Len(b) \in Nat
          BY <2>1
        <4>2. Rest(a, b) # {} => Len(b) < Len(a)
          BY <4>1 DEF Rest
        <4>3. Rest(b, a) # {} => Len(a) < Len(b)
          BY <4>1 DEF Rest
        <4>4. QED
          BY <4>1, <4>2, <4>3
      <3>2. CASE Rest(a, b) # {}
        <4>1. Coll(a, b) = GREATER_THAN /\ Coll(b, a) = LESS_THAN
          BY <2>3, <2>5, <3>1, <3>2
        <4>2. QED
          BY <2>2, <4>1 DEF Order, GREATER_THAN, LESS_THAN
      <3>3. CASE Rest(b, a) # {}
        <4>1. Coll(a, b) = LESS_THAN /\ Coll(b, a) = GREATER_THAN
          BY <2>3, <2>5, <3>1, <3>3
        <4>2. QED
          BY <2>2, <4>1 DEF Order, GREATER_THAN, LESS_THAN
      <3>4. CASE Rest(a, b) = {} /\ Rest(b, a) = {}
        <4>1. Coll(a, b) = EQUAL_TO /\ Coll(b, a) = EQUAL_TO
          BY <2>3, <2>5, <3>4
        <4>2. QED
          BY <2>2, <4>1 DEF Order, EQUAL_TO
      <3>5. QED
        BY <3>2, <3>3, <3>4
    <2>6. QED
      BY <2>4, <2>5
  <1>3. QED
    BY <1>1, <1>2 DEF IsToken

(* What is known of the tokens of a product: name and numbers are there,   *)
(* and none but the iver is left out before another.                       *)
AreTokens(t) ==
  /\ \A i \in 2..6 : IsToken(t[i])
  /\ t[2].digits /\ ~IsEmpty(t[2]) /\ t[3].digits /\ t[6].digits
  /\ IsEmpty(t[4]) \/ ~t[4].digits
  /\ IsEmpty(t[5]) \/ ~t[5].digits
  /\ IsEmpty(t[4]) => IsEmpty(t[5])
  /\ IsEmpty(t[5]) => IsEmpty(t[6])

LEMMA MiddleTokens ==
  ASSUME NEW S, NEW p \in Seq(S), NEW e \in S, NEW q \in Seq(S), NEW r, r = p \o <<e>> \o q
  PROVE  /\ Len(r) = Len(p) + 1 + Len(q)
         /\ \A i \in 1..Len(p) : r[i] = p[i]
         /\ r[Len(p) + 1] = e
         /\ \A i \in 1..Len(q) : r[i + (Len(p) + 1)] = q[i]
  <1> DEFINE m == p \o <<e>>
  <1>1. m \in Seq(S) /\ Len(m) = Len(p) + 1 /\ r = m \o q
    OBVIOUS
  <1>2. (\A i \in 1..Len(p) : m[i] = p[i]) /\ m[Len(p) + 1] = e
    OBVIOUS
  <1> HIDE DEF m
  <1>3. Len(p) \in Nat /\ Len(q) \in Nat
    OBVIOUS
  <1>4. Len(r) = Len(m) + Len(q) /\ \A i \in 1..Len(m) : r[i] = m[i]
    BY <1>1
  <1>5. \A i \in 1..Len(q) : r[i + Len(m)] = q[i]
    BY <1>1, <1>3
  <1>6. Len(p) + 1 \in 1..Len(m) /\ \A i \in 1..Len(p) : i \in 1..Len(m)
    BY <1>1, <1>3
  <1>7. QED
    BY <1>1, <1>2, <1>4, <1>5, <1>6

LEMMA TokensAre ==
  ASSUME NEW v \in Seq(Pieces), IsProduct(v)
  PROVE  /\ AreTokens(Tokens(v))
         /\ Tokens(v)[2] = v[2]
         /\ Len(v) = 2 => \A i \in 3..6 : IsEmpty(Tokens(v)[i])
  <1> DEFINE s == Shifted(v)
  <1> DEFINE t == Tokens(v)
  <1>1. Len(v) \in Nat /\ Len(v) >= 2 /\ \A i \in 1..Len(v) : v[i] \in Pieces
    BY DEF IsProduct
  <1>2. /\ Len(s) \in Nat /\ Len(s) >= 2 /\ s[1] = v[1] /\ s[2] = v[2] /\ (Len(v) = 2 => Len(s) = 2)
        /\ \A i \in 1..Len(s) : i # 3 => s[i] \in Pieces
        /\ Len(s) >= 3 => s[3] \in Pieces \cup {None}
    <2>1. CASE Len(v) >= 3 /\ ~v[3].digits
      <3> DEFINE p == SubSeq(v, 1, 2)
      <3> DEFINE q == SubSeq(v, 3, Len(v))
      <3>1. Len(p) = 2 /\ p[1] = v[1] /\ p[2] = v[2]
        BY <1>1
      <3>2. Len(q) = Len(v) - 2 /\ \A i \in 1..(Len(v) - 2) : q[i] = v[i + 2]
        BY <1>1, <2>1
      <3>3. s = p \o <<None>> \o q
        BY <2>1 DEF Shifted
      <3>4. p \in Seq(Pieces \cup {None}) /\ q \in Seq(Pieces \cup {None})
        BY <1>1, <2>1
      <3> HIDE DEF p, q
      <3> HIDE DEF s, t
      <3>0. /\ Len(s) = Len(p) + 1 + Len(q)
            /\ \A i \in 1..Len(p) : s[i] = p[i]
            /\ s[Len(p) + 1] = None
            /\ \A i \in 1..Len(q) : s[i + (Len(p) + 1)] = q[i]
        BY <3>3, <3>4, MiddleTokens
      <3>5. Len(s) = Len(v) + 1
        BY <1>1, <3>0, <3>1, <3>2
      <3>6. s[1] = p[1] /\ s[2] = p[2] /\ s[3] = None
        BY <3>0, <3>1
      <3>7. ASSUME NEW i \in 4..Len(s) PROVE s[i] = v[i - 1]
        <4>1. i - 3 \in 1..(Len(v) - 2) /\ i \in Int
          BY <1>1, <2>1, <3>5
        <4>2. s[i] = q[i - 3]
          <5>1. i - 3 \in 1..Len(q) /\ (i - 3) + (Len(p) + 1) = i
            BY <1>1, <3>1, <3>2, <4>1
          <5>2. s[(i - 3) + (Len(p) + 1)] = q[i - 3]
            BY <3>0, <5>1
          <5>3. QED
            BY <5>1, <5>2
        <4>3. q[i - 3] = v[(i - 3) + 2] /\ (i - 3) + 2 = i - 1
          BY <3>2, <4>1
        <4>4. QED
          BY <4>2, <4>3
      <3>8. ASSUME NEW i \in 1..Len(s), i # 3 PROVE s[i] \in Pieces
        <4>1. CASE i < 3
          BY <1>1, <3>1, <3>6, <3>8, <4>1
        <4>2. CASE i > 3
          <5>1. i \in 4..Len(s) /\ i - 1 \in 1..Len(v)
            BY <1>1, <3>5, <4>2
          <5>2. QED
            BY <1>1, <3>7, <5>1
        <4>3. QED
          BY <1>1, <3>5, <3>8, <4>1, <4>2
      <3>9. QED
        BY <1>1, <2>1, <3>1, <3>5, <3>6, <3>8
    <2>2. CASE ~(Len(v) >= 3 /\ ~v[3].digits)
      <3>1. s = v
        BY <2>2 DEF Shifted
      <3>2. QED
        BY <1>1, <3>1
    <2>3. QED
      BY <2>1, <2>2
  <1> HIDE DEF s
  <1>3. \A i \in 1..6 : t[i] = IF i <= Len(s) THEN s[i] ELSE None
    BY DEF Tokens, s
  <1>4. \A i \in 1..6 : i <= Len(s) => i \in 1..Len(s)
    BY <1>2
  <1>5. IsEmpty(None)
    BY DEF IsEmpty
  <1>6. \A i \in 2..6 : IsToken(t[i])
    BY <1>2, <1>3, <1>4, PieceIsToken
  <1>7. \A i \in 4..6 : IsEmpty(t[i]) <=> ~(i <= Len(s))
    BY <1>2, <1>3, <1>4, <1>5, PieceIsToken
  <1>8. t[2] = v[2]
    BY <1>2, <1>3
  <1>9. (IsEmpty(t[4]) => IsEmpty(t[5])) /\ (IsEmpty(t[5]) => IsEmpty(t[6]))
    BY <1>2, <1>7
  <1>10. ASSUME Len(v) = 2, NEW i \in 3..6 PROVE IsEmpty(t[i])
    <2>1. t[i] = None
      <3>1. Len(s) = 2 /\ i \in 1..6 /\ ~(i <= 2)
        BY <1>2, <1>10
      <3>2. QED
        BY <1>3, <3>1
    <2>2. QED
      BY <1>5, <2>1
  <1>11. QED
    BY <1>6, <1>8, <1>9, <1>10 DEF IsProduct, AreTokens

(* Two products compared, and compared the other way round.                *)
LEMMA FirstTurns ==
  ASSUME NEW a, NEW b, AreTokens(a), AreTokens(b)
  PROVE  First(b, a) = Opposite(First(a, b))
  <1> DEFINE c(k) == vstrcoll(a[k], b[k])
  <1> DEFINE d(k) == vstrcoll(b[k], a[k])
  <1>1. ASSUME NEW k \in 2..6, a[k].digits = b[k].digits
        PROVE  c(k) \in Order /\ d(k) = -c(k)
    BY <1>1, CollTurns DEF AreTokens
  <1>2. /\ c(2) \in Order /\ d(2) = -c(2)
        /\ c(3) \in Order /\ d(3) = -c(3)
        /\ c(6) \in Order /\ d(6) = -c(6)
    <2>1. a[2].digits = b[2].digits /\ a[3].digits = b[3].digits /\ a[6].digits = b[6].digits
      BY DEF AreTokens, IsToken
    <2>2. QED
      BY <1>1, <2>1
  <1>3. ~IsEmpty(a[5]) /\ ~IsEmpty(b[5]) => c(5) \in Order /\ d(5) = -c(5)
    <2>1. a[5].digits \in BOOLEAN /\ b[5].digits \in BOOLEAN
      BY DEF AreTokens, IsToken
    <2>2. ~IsEmpty(a[5]) /\ ~IsEmpty(b[5]) => a[5].digits = b[5].digits
      BY <2>1 DEF AreTokens
    <2>3. QED
      BY <1>1, <2>2
  <1>4. /\ IsEmpty(a[4]) => IsEmpty(a[5])
        /\ IsEmpty(a[5]) => IsEmpty(a[6])
        /\ IsEmpty(b[4]) => IsEmpty(b[5])
        /\ IsEmpty(b[5]) => IsEmpty(b[6])
    BY DEF AreTokens
  <1>5. \A n \in Order : n = -1 \/ n = 0 \/ n = 1
    BY DEF Order, LESS_THAN, EQUAL_TO, GREATER_THAN
  <1> HIDE DEF c, d
  <1>6. CASE ~(IsEmpty(a[3]) <=> IsEmpty(b[3]))
    BY <1>4, <1>6 DEF First, Second, Opposite, NOT_UPGRADEABLE
  <1>7. CASE ~IsEmpty(a[3]) /\ ~IsEmpty(b[3]) /\ (~IsEmpty(a[4]) \/ ~IsEmpty(b[4]))
    BY <1>4, <1>7 DEF First, Second, Opposite, NOT_UPGRADEABLE
  <1>8. CASE ~IsEmpty(a[3]) /\ ~IsEmpty(b[3]) /\ IsEmpty(a[4]) /\ IsEmpty(b[4])
    <2>1. First(a, b) = (IF c(2) = 0 THEN c(3) ELSE c(2)) /\ First(b, a) = (IF d(2) = 0 THEN d(3) ELSE d(2))
      BY <1>4, <1>8 DEF First, Second, Then, EQUAL_TO, c, d
    <2>2. QED
      BY <1>2, <1>5, <2>1 DEF Opposite, NOT_UPGRADEABLE
  <1>9. CASE IsEmpty(a[3]) /\ IsEmpty(b[3]) /\ IsEmpty(a[4]) /\ IsEmpty(b[4])
    <2>1. First(a, b) = c(2) /\ First(b, a) = d(2)
      BY <1>4, <1>9 DEF First, Second, c, d
    <2>2. QED
      BY <1>2, <1>5, <2>1 DEF Opposite, NOT_UPGRADEABLE
  <1>10. CASE IsEmpty(a[3]) /\ IsEmpty(b[3]) /\ ~IsEmpty(a[4]) /\ IsEmpty(b[4])
    <2>1. First(a, b) = (IF c(2) = 0 THEN 1 ELSE c(2)) /\ First(b, a) = (IF d(2) = 0 THEN -1 ELSE d(2))
      BY <1>4, <1>10 DEF First, Second, EQUAL_TO, GREATER_THAN, LESS_THAN, c, d
    <2>2. QED
      BY <1>2, <1>5, <2>1 DEF Opposite, NOT_UPGRADEABLE
  <1>11. CASE IsEmpty(a[3]) /\ IsEmpty(b[3]) /\ IsEmpty(a[4]) /\ ~IsEmpty(b[4])
    <2>1. First(a, b) = (IF c(2) = 0 THEN -1 ELSE c(2)) /\ First(b, a) = (IF d(2) = 0 THEN 1 ELSE d(2))
      BY <1>4, <1>11 DEF First, Second, EQUAL_TO, GREATER_THAN, LESS_THAN, c, d
    <2>2. QED
      BY <1>2, <1>5, <2>1 DEF Opposite, NOT_UPGRADEABLE
  <1>12. CASE IsEmpty(a[3]) /\ IsEmpty(b[3]) /\ ~IsEmpty(a[4]) /\ ~IsEmpty(b[4]) /\ a[4] # b[4]
    <2>1. First(a, b) = (IF c(2) = 0 THEN -2 ELSE c(2)) /\ First(b, a) = (IF d(2) = 0 THEN -2 ELSE d(2))
      BY <1>4, <1>12 DEF First, EQUAL_TO, NOT_UPGRADEABLE, c, d
    <2>2. QED
      BY <1>2, <1>5, <2>1 DEF Opposite, NOT_UPGRADEABLE
  <1>13. CASE IsEmpty(a[3]) /\ IsEmpty(b[3]) /\ ~IsEmpty(a[4]) /\ a[4] = b[4]
    <2> DEFINE same == (IsEmpty(a[5]) <=> IsEmpty(b[5])) /\ (IsEmpty(a[6]) <=> IsEmpty(b[6]))
    <2>1. CASE ~same
      BY <1>4, <1>13, <2>1 DEF First, Second, Opposite, NOT_UPGRADEABLE
    <2>2. CASE same
      <3>1. CASE IsEmpty(a[5])
        <4>1. First(a, b) = c(2) /\ First(b, a) = d(2)
          BY <1>4, <1>13, <2>2, <3>1 DEF First, Second, c, d
        <4>2. QED
          BY <1>2, <1>5, <4>1 DEF Opposite, NOT_UPGRADEABLE
      <3>2. CASE ~IsEmpty(a[5]) /\ IsEmpty(a[6])
        <4>1. First(a, b) = (IF c(2) = 0 THEN c(5) ELSE c(2)) /\ First(b, a) = (IF d(2) = 0 THEN d(5) ELSE d(2))
          BY <1>4, <1>13, <2>2, <3>2 DEF First, Second, Then, EQUAL_TO, c, d
        <4>2. QED
          BY <1>2, <1>3, <1>5, <2>2, <3>2, <4>1 DEF Opposite, NOT_UPGRADEABLE
      <3>3. CASE ~IsEmpty(a[5]) /\ ~IsEmpty(a[6])
        <4>1. First(a, b) = (IF c(2) = 0 THEN IF c(5) = 0 THEN c(6) ELSE c(5) ELSE c(2))
          BY <1>4, <1>13, <2>2, <3>3 DEF First, Second, Then, EQUAL_TO, c, d
        <4>2. First(b, a) = (IF d(2) = 0 THEN IF d(5) = 0 THEN d(6) ELSE d(5) ELSE d(2))
          BY <1>4, <1>13, <2>2, <3>3 DEF First, Second, Then, EQUAL_TO, c, d
        <4>3. QED
          BY <1>2, <1>3, <1>5, <2>2, <3>3, <4>1, <4>2 DEF Opposite, NOT_UPGRADEABLE
      <3>4. QED
        BY <3>1, <3>2, <3>3
    <2>3. QED
      BY <2>1, <2>2
  <1>14. QED
    BY <1>6, <1>7, <1>8, <1>9, <1>10, <1>11, <1>12, <1>13

(* The numbers of two releases, endless zeros after them, first differ at  *)
(* i: there the order is settled.                                          *)
LEMMA SettledAt ==
  ASSUME NEW a \in Seq(Nat), NEW b \in Seq(Nat), NEW i \in 1..(Len(a) + Len(b)),
         At0(a, i) # At0(b, i), \A j \in 1..(i - 1) : At0(a, j) = At0(b, j)
  PROVE  /\ Before(a, b) <=> At0(a, i) < At0(b, i)
         /\ Before(b, a) <=> At0(b, i) < At0(a, i)
  <1>1. Len(a) \in Nat /\ Len(b) \in Nat /\ i \in Nat
    OBVIOUS
  <1>2. \A k \in Nat \ {0} : At0(a, k) \in Nat /\ At0(b, k) \in Nat
    BY SMTT(30), <1>1 DEF At0
  <1>3. ASSUME NEW c, NEW d, c \in {a, b}, d \in {a, b},
               NEW k \in 1..(Len(c) + Len(d)), At0(c, k) < At0(d, k),
               \A j \in 1..(k - 1) : At0(c, j) = At0(d, j), c # d
        PROVE  k = i
    <2>1. k \in Nat /\ k >= 1 /\ At0(c, k) \in Nat /\ At0(d, k) \in Nat
      BY <1>1, <1>2, <1>3
    <2>2. At0(c, k) # At0(d, k)
      BY <1>3, <2>1
    <2>3. ~(k < i)
      <3>1. k < i => k \in 1..(i - 1)
        BY <1>1, <2>1
      <3>2. QED
        BY <1>3, <2>2, <3>1
    <2>4. ~(i < k)
      <3>1. i < k => i \in 1..(k - 1)
        BY <1>1, <2>1
      <3>2. QED
        BY <1>3, <3>1
    <2>5. QED
      BY <1>1, <2>1, <2>3, <2>4
  <1>4. a # b
    OBVIOUS
  <1>5. Before(a, b) => At0(a, i) < At0(b, i)
    BY <1>3, <1>4 DEF Before
  <1>6. Before(b, a) => At0(b, i) < At0(a, i)
    BY <1>3, <1>4 DEF Before
  <1>7. i \in 1..(Len(b) + Len(a))
    BY <1>1
  <1>8. At0(a, i) < At0(b, i) => Before(a, b)
    BY DEF Before
  <1>9. At0(b, i) < At0(a, i) => Before(b, a)
    BY <1>7 DEF Before
  <1>10. QED
    BY <1>5, <1>6, <1>8, <1>9

(* What is left over of a after b decides against zeros.                   *)
LEMMA RestSettles ==
  ASSUME NEW a \in Seq(Nat), NEW b \in Seq(Nat), Rest(a, b) # {},
         \A j \in 1..Len(a) : j <= Len(b) => a[j] = b[j]
  PROVE  Before(b, a) /\ ~Before(a, b)
  <1>1. Len(a) \in Nat /\ Len(b) \in Nat /\ \A j \in 1..Len(a) : a[j] \in Nat
    OBVIOUS
  <1>2. PICK r \in Rest(a, b) : \A j \in Rest(a, b) : r <= j
    <2>1. Rest(a, b) \subseteq Nat
      BY <1>1 DEF Rest
    <2>2. QED
      BY <2>1, LeastElement
  <1>3. r \in (Len(b) + 1)..Len(a) /\ a[r] # 0
    BY DEF Rest
  <1>4. r \in Nat /\ r \in 1..Len(a) /\ ~(r <= Len(b)) /\ r \in 1..(Len(a) + Len(b))
    BY <1>1, <1>3
  <1>5. At0(a, r) = a[r] /\ At0(b, r) = 0 /\ a[r] \in Nat
    BY <1>1, <1>4 DEF At0
  <1>6. ASSUME NEW j \in 1..(r - 1) PROVE At0(a, j) = At0(b, j)
    <2>1. j \in 1..Len(a) /\ ~(r <= j) /\ j <= Len(a) /\ j \in Nat
      BY <1>1, <1>4
    <2>2. CASE j <= Len(b)
      BY <2>1, <2>2 DEF At0
    <2>3. CASE ~(j <= Len(b))
      <3>1. j \in (Len(b) + 1)..Len(a)
        BY <1>1, <2>1, <2>3
      <3>2. a[j] = 0
        BY <1>2, <2>1, <3>1 DEF Rest
      <3>3. QED
        BY <2>1, <2>3, <3>2 DEF At0
    <2>4. QED
      BY <2>2, <2>3
  <1>7. /\ Before(a, b) <=> At0(a, r) < At0(b, r)
        /\ Before(b, a) <=> At0(b, r) < At0(a, r)
    <2>1. At0(a, r) # At0(b, r)
      BY <1>3, <1>5
    <2>2. QED
      BY <1>4, <1>6, <2>1, SettledAt
  <1>8. QED
    BY <1>3, <1>5, <1>7

LEMMA CollIsOrder ==
  ASSUME NEW x, NEW y, IsToken(x), x.digits, IsToken(y)
  PROVE  vstrcoll(x, y) = CASE Before(x.nums, y.nums) -> LESS_THAN
                            [] Before(y.nums, x.nums) -> GREATER_THAN [] OTHER -> EQUAL_TO
  <1> DEFINE a == x.nums
  <1> DEFINE b == y.nums
  <1> DEFINE Coll ==
         CASE FirstApart(a, b) # {} -> LET i == CHOOSE j \in FirstApart(a, b) : TRUE IN Sign(a[i] - b[i])
           [] FirstApart(a, b) = {} /\ Rest(a, b) # {} -> GREATER_THAN
           [] FirstApart(a, b) = {} /\ Rest(b, a) # {} -> LESS_THAN
           [] OTHER -> EQUAL_TO
  <1> DEFINE Ordered == CASE Before(a, b) -> LESS_THAN [] Before(b, a) -> GREATER_THAN [] OTHER -> EQUAL_TO
  <1>1. a \in Seq(Nat) /\ b \in Seq(Nat) /\ Len(a) \in Nat /\ Len(b) \in Nat
    BY DEF IsToken
  <1>2. vstrcoll(x, y) = Coll
    BY DEF vstrcoll
  <1> HIDE DEF a, b
  <1>3. SUFFICES Coll = Ordered
    BY <1>2 DEF a, b
  <1>4. CASE FirstApart(a, b) # {}
    <2>1. PICK i \in FirstApart(a, b) : i = CHOOSE j \in FirstApart(a, b) : TRUE
      BY <1>4
    <2>2. /\ i \in 1..Len(a) /\ i \in 1..Len(b) /\ a[i] \in Nat /\ b[i] \in Nat /\ a[i] # b[i]
          /\ \A j \in 1..(i - 1) : a[j] = b[j]
      BY <1>1, ApartAt
    <2>3. Coll = Sign(a[i] - b[i])
      BY <1>4, <2>1
    <2>4. At0(a, i) = a[i] /\ At0(b, i) = b[i]
      BY <1>1, <2>2 DEF At0
    <2>5. ASSUME NEW j \in 1..(i - 1) PROVE At0(a, j) = At0(b, j)
      <3>1. j <= Len(a) /\ j <= Len(b)
        BY <1>1, <2>2
      <3>2. QED
        BY <2>2, <3>1 DEF At0
    <2>6. (Before(a, b) <=> a[i] < b[i]) /\ (Before(b, a) <=> b[i] < a[i])
      <3>1. i \in 1..(Len(a) + Len(b))
        BY <1>1, <2>2
      <3>2. /\ Before(a, b) <=> At0(a, i) < At0(b, i)
            /\ Before(b, a) <=> At0(b, i) < At0(a, i)
        BY <1>1, <2>2, <2>4, <2>5, <3>1, SettledAt
      <3>3. QED
        BY <2>4, <3>2
    <2>7. QED
      BY <2>2, <2>3, <2>6 DEF Sign, LESS_THAN, GREATER_THAN
  <1>5. CASE FirstApart(a, b) = {}
    <2>1. (\A i \in 1..Len(a) : i <= Len(b) => a[i] = b[i]) /\ FirstApart(b, a) = {}
      BY SMTT(30), <1>1, <1>5, ApartAt
    <2>2. \A i \in 1..Len(b) : i <= Len(a) => b[i] = a[i]
      BY <1>1, <2>1
    <2>3. CASE Rest(a, b) # {}
      <3>1. Before(b, a) /\ ~Before(a, b)
        BY <1>1, <2>1, <2>3, RestSettles
      <3>2. Rest(b, a) = {}
        BY <1>1, <2>3 DEF Rest
      <3>3. Coll = GREATER_THAN
        BY <1>5, <2>3, <3>2
      <3>4. QED
        BY <3>1, <3>3
    <2>4. CASE Rest(b, a) # {} /\ Rest(a, b) = {}
      <3>1. Before(a, b) /\ ~Before(b, a)
        BY <1>1, <2>2, <2>4, RestSettles
      <3>2. Coll = LESS_THAN
        BY <1>5, <2>4
      <3>3. QED
        BY <3>1, <3>2
    <2>5. CASE Rest(a, b) = {} /\ Rest(b, a) = {}
      <3>1. \A j \in Nat \ {0} : j > Len(b) /\ j <= Len(a) => a[j] = 0
        <4>1. \A j \in (Len(b) + 1)..Len(a) : a[j] = 0
          BY <2>5 DEF Rest
        <4>2. QED
          BY <1>1, <4>1
      <3>2. \A j \in Nat \ {0} : j > Len(a) /\ j <= Len(b) => b[j] = 0
        <4>1. \A j \in (Len(a) + 1)..Len(b) : b[j] = 0
          BY <2>5 DEF Rest
        <4>2. QED
          BY <1>1, <4>1
      <3>3. \A j \in Nat \ {0} : At0(a, j) = At0(b, j) /\ At0(a, j) \in Nat
        BY <1>1, <2>1, <3>1, <3>2 DEF At0
      <3>4. ~Before(a, b) /\ ~Before(b, a)
        BY <1>1, <3>3 DEF Before
      <3>5. Coll = EQUAL_TO
        BY <1>5, <2>5
      <3>6. QED
        BY <3>4, <3>5
    <2>6. QED
      BY <2>3, <2>4, <2>5
  <1>6. QED
    BY <1>4, <1>5

(* td_prod_vcmp of any two products orders releases without a vendor as    *)
(* sequences of numbers, endless zeros after them; and turned round, every *)
(* comparison gives the opposite answer.                                   *)
THEOREM ReleasesAreCompared ==
  \A p, q \in Seq(Pieces) : ComparesAsReleases(p, q) /\ TurnsRound(p, q)
  <1> SUFFICES ASSUME NEW p \in Seq(Pieces), NEW q \in Seq(Pieces)
               PROVE  ComparesAsReleases(p, q) /\ TurnsRound(p, q)
    OBVIOUS
  <1>1. TurnsRound(p, q)
    <2>1. CASE IsProduct(p) /\ IsProduct(q)
      <3>1. AreTokens(Tokens(p)) /\ AreTokens(Tokens(q))
        BY <2>1, TokensAre
      <3>2. First(Tokens(q), Tokens(p)) = Opposite(First(Tokens(p), Tokens(q)))
        BY <3>1, FirstTurns
      <3>3. QED
        BY <2>1, <3>2 DEF TurnsRound, td_prod_vcmp
    <2>2. CASE ~(IsProduct(p) /\ IsProduct(q))
      BY <2>2 DEF TurnsRound, td_prod_vcmp, Opposite
    <2>3. QED
      BY <2>1, <2>2
  <1>2. ASSUME Len(p) = 2, Len(q) = 2, IsProduct(p), IsProduct(q)
        PROVE  td_prod_vcmp(p, q) = CASE Before(p[2].nums, q[2].nums) -> LESS_THAN
                 [] Before(q[2].nums, p[2].nums) -> GREATER_THAN [] OTHER -> EQUAL_TO
    <2> DEFINE a == Tokens(p)
    <2> DEFINE b == Tokens(q)
    <2>1. AreTokens(a) /\ AreTokens(b) /\ a[2] = p[2] /\ b[2] = q[2]
      BY <1>2, TokensAre
    <2>2. (\A i \in 3..6 : IsEmpty(a[i])) /\ (\A i \in 3..6 : IsEmpty(b[i]))
      BY <1>2, TokensAre
    <2>3. td_prod_vcmp(p, q) = First(a, b)
      BY <1>2 DEF td_prod_vcmp
    <2> HIDE DEF a, b
    <2>4. First(a, b) = vstrcoll(a[2], b[2])
      BY <2>2 DEF First, Second
    <2>5. IsToken(a[2]) /\ a[2].digits /\ IsToken(b[2])
      BY <2>1 DEF AreTokens
    <2>6. QED
      BY <2>1, <2>3, <2>4, <2>5, CollIsOrder
  <1>3. QED
    BY <1>1, <1>2 DEF ComparesAsReleases

-----------------------------------------------------------------------------
(* The four parts together.                                                *)

(* Whichever of them runs, each behaves as it does alone.                  *)
LEMMA EachAsAlone == Spec => MdSpec /\ ObSpec /\ IsSpec
<1>1. Init => MdInit /\ ObInit /\ IsInit
  BY DEF Init
<1>2. ASSUME [Next]_allVars PROVE [MdNext]_mdVars /\ [ObNext]_obVars /\ [IsNext]_isVars
  <2>1. CASE Systems
    BY <2>1 DEF Systems
  <2>2. CASE Registry
    BY <2>2 DEF Registry
  <2>3. CASE Iscsi(IsNext)
    BY <2>3 DEF Iscsi
  <2>4. CASE Turn
    BY <2>4 DEF Turn
  <2>5. CASE UNCHANGED allVars
    BY <2>5 DEF allVars
  <2> QED  BY <1>2, <2>1, <2>2, <2>3, <2>4, <2>5 DEF Next
<1> QED  BY <1>1, <1>2, PTL DEF Spec, MdSpec, ObSpec, IsSpec

(* What is compared are always names of releases.                          *)
AreProducts == v1 \in Seq(Pieces) /\ v2 \in Seq(Pieces)
LEMMA AlwaysProducts == Spec => []AreProducts
<1>1. Init => AreProducts
  <2>1. (CHOOSE x \in Products : TRUE) \in Products
    BY ProductsAssumption
  <2>2. \A b : Given(b, Products) \subseteq Products
    BY <2>1 DEF Given
  <2> QED  BY <2>2, ProductsAssumption DEF Init, AreProducts
<1>2. AreProducts /\ [Next]_allVars => AreProducts'
  BY DEF AreProducts, Next, Systems, Registry, Iscsi, Turn, allVars
<1> QED  BY <1>1, <1>2, PTL DEF Spec

(* Whatever calls were made before, the registry offers the right disks,    *)
(* counts them rightly and finds a slice's disk, and it leaves no           *)
(* descriptor behind that the next call stumbles on; and any two releases   *)
(* are compared rightly, from either side.                                  *)
THEOREM ObjectsAreAlwaysRight == Spec => []ObjectsAreRight
<1>1. RegistryIsRight /\ AreProducts => ObjectsAreRight
  BY ReleasesAreCompared DEF ObjectsAreRight, AreProducts
<1> QED  BY <1>1, EachAsAlone, AlwaysProducts, RegistryIsAlwaysRight, PTL

(* Walks with td_get_next meet all there is, once; the lists made for a     *)
(* disk are its partitions or slices, all of them and no other.             *)
THEOREM ListsAreAlwaysWhole == Spec => ListsAreWhole
  BY EachAsAlone, WalksAlwaysMeetAll, ListedAreAlwaysOwn, PTL DEF ListsAreWhole

(* The library's promises, all together: the systems in use stay mounted    *)
(* and every installed one is reported, the registry and the comparison     *)
(* are right, and an iSCSI target that was found is configured.             *)
THEOREM LibraryKeepsItsPromises ==
  Spec => [](SystemsAreLeftAlone /\ SystemsAreReported /\ ObjectsAreRight /\ FoundIsConfigured)
  BY EachAsAlone, SystemsAreAlwaysLeftAlone, SystemsAreAlwaysReported, FoundIsAlwaysConfigured,
     ObjectsAreAlwaysRight, PTL
=============================================================================
