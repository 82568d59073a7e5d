----------------------------- MODULE TdObjects -----------------------------
(***************************************************************************)
(* The target discovery library's registry: td_mg.c keeps a list of disks, *)
(* partitions, slices and installed systems with a cursor each, made from  *)
(* the handles td_dd.c gets from libdiskmgt. Callers make any sequence of  *)
(* calls; the library has no locks and one caller.                         *)
(***************************************************************************)
EXTENDS Integers, Sequences, SequencesExt, FiniteSets

CONSTANTS
  Computers,   \* [drives, parts, slices, boot]: what libdiskmgt and devfs list
  DdFaults,    \* subset of {"library", "memory"}: what may fail
  MaxCalls     \* bound: calls of the library

VARIABLES
  computer,
  obj,        \* objlist: class -> [pddm, held, arr, built, cnt, cur, issorted]
  desc,       \* ddm_drive_desc is held
  aborted,    \* the assertion of ddm_get_disks failed
  td_errno,
  list,       \* the last list handed out: attributes, or Hole where nothing was written
  seen,       \* what td_get_next has been through, class by class
  moved,      \* classes whose array was sorted or rebuilt under their cursor
  again,      \* disks were discovered again without a release
  noMemory,   \* a list of disks could not be made for want of memory
  calls

obVars == <<computer, obj, desc, aborted, td_errno, list, seen, moved, again, noMemory, calls>>
Classes == {"DISK", "PARTITION", "SLICE", "OS"}

(* Names are sequences of digits and letters: c0d10s0 is <<1, 0, LetterS, 0>>, *)
(* its disk <<1, 0>>; in ASCII letters come after digits.                  *)
LetterP == 20
LetterS == 21
Digits == 0 .. 9
NoAttr == [name |-> <<>>, vendor |-> "none", boot |-> FALSE, label |-> {}]
Hole   == [NoAttr EXCEPT !.vendor = "hole"]
strcmp(a, b) ==
  LET apart == {i \in 1 .. Len(a) : i <= Len(b) /\ a[i] # b[i]}
  IN IF apart = {} THEN Len(a) - Len(b) ELSE a[Min(apart)] - b[Min(apart)]
(* Those of a list that are in a set, in its order.                         *)
Kept(seq, S) ==
  LET kept[k \in 0 .. Len(seq)] ==
        IF k = 0 THEN <<>> ELSE IF seq[k] \in S THEN Append(kept[k - 1], seq[k]) ELSE kept[k - 1]
  IN kept[Len(seq)]

(* ------------------------------- td_dd.c --------------------------------- *)
(* A drive without an alias is taken for every kind that is left out; one  *)
(* that cannot be opened is taken for no CD.                               *)
ddm_drive_is_floppy(d) == d.alias => d.kind = "floppy"
ddm_drive_is_zvol(d)   == d.kind = "zvol"
ddm_drive_is_cdrom(d)  == d.alias => d.opens /\ d.kind = "cdrom"
ddm_drive_is_install_media(d) == d.alias => ~d.path \/ d.media
ddm_filter_disks(ds) ==
  Kept(ds, {d \in ToSet(ds) : ~(ddm_drive_is_floppy(d) \/ ddm_drive_is_zvol(d) \/ ddm_drive_is_cdrom(d)
                                \/ ddm_drive_is_install_media(d))})

LastOf(str, c) == IF c \in ToSet(str) THEN CHOOSE i \in DOMAIN str : str[i] = c /\ \A j \in DOMAIN str : str[j] = c => j <= i ELSE 0
FirstOf(str, c) == CHOOSE i \in DOMAIN str : str[i] = c /\ \A j \in 1 .. i - 1 : str[j] # c
ddm_is_part_name(str) ==
  LET p == LastOf(str, LetterP) IN p > 1 /\ p < Len(str) /\ \A i \in p + 1 .. Len(str) : str[i] \in Digits
ddm_is_slice_name(str) ==
  \/ Len(str) > 2 /\ str[Len(str) - 1] = LetterS /\ str[Len(str)] \in Digits
  \/ Len(str) > 3 /\ str[Len(str) - 2] = LetterS /\ str[Len(str) - 1] \in {0, 1} /\ str[Len(str)] \in Digits
(* The first boot device that is a disk, without its partition or slice.   *)
ddm_is_valid_boot_disk(b) == b.dsk /\ b.opens /\ ~b.cdrom
BootDisks(c) == {i \in DOMAIN c.boot : ddm_is_valid_boot_disk(c.boot[i])}
Bare(str) ==
  CASE ddm_is_part_name(str) -> SubSeq(str, 1, FirstOf(str, LetterP) - 1)
    [] ~ddm_is_part_name(str) /\ ddm_is_slice_name(str) -> SubSeq(str, 1, FirstOf(str, LetterS) - 1)
    [] OTHER -> str
ddm_get_curr_bootdisk == IF BootDisks(computer) = {} THEN <<>> ELSE Bare(computer.boot[Min(BootDisks(computer))].name)

(* Computers as libdiskmgt and devfs describe them: drives have names of    *)
(* their own, the partitions and slices of a disk its name and a number     *)
(* behind a letter, and booted is the disk of the first boot device.        *)
Names  == Seq(0 .. 19) \ {<<>>}
Drives ==
  [name : Names, kind : {"disk", "cdrom", "floppy", "zvol"}, alias : BOOLEAN, opens : BOOLEAN, path : BOOLEAN, media : BOOLEAN,
   answers : BOOLEAN, loaded : BOOLEAN, vendor : STRING, label : SUBSET STRING]
Parts  == [name : Seq(Nat), of : Names, answers : BOOLEAN, opens : BOOLEAN, signed : BOOLEAN, sunixos : BOOLEAN]
Slices == [name : Seq(Nat), of : Names, answers : BOOLEAN, usedBy : Seq(STRING), os : BOOLEAN]
Boots  == [name : Seq(Nat), dsk : BOOLEAN, opens : BOOLEAN, cdrom : BOOLEAN]
Numbered(name, disk, letter) ==
  /\ Len(disk) + 1 < Len(name) /\ name[Len(disk) + 1] = letter
  /\ \A i \in DOMAIN disk : name[i] = disk[i]
  /\ \A i \in Len(disk) + 2 .. Len(name) : name[i] \in Digits
Booted(c, name) ==
  \/ name = c.booted \/ Numbered(name, c.booted, LetterP)
  \/ Numbered(name, c.booted, LetterS) /\ Len(name) <= Len(c.booted) + 3
     /\ (Len(name) = Len(c.booted) + 3 => name[Len(c.booted) + 2] \in {0, 1})
IsComputer(c) ==
  /\ c \in [drives : Seq(Drives), parts : Seq(Parts), slices : Seq(Slices), boot : Seq(Boots), booted : Names \cup {<<>>}]
  /\ \A i, j \in DOMAIN c.drives : c.drives[i].name = c.drives[j].name => i = j
  /\ \A i \in DOMAIN c.parts : Numbered(c.parts[i].name, c.parts[i].of, LetterP)
  /\ \A i \in DOMAIN c.slices : Numbered(c.slices[i].name, c.slices[i].of, LetterS)
  /\ IF BootDisks(c) = {} THEN c.booted = <<>> ELSE c.booted # <<>> /\ Booted(c, c.boot[Min(BootDisks(c))].name)
ASSUME ObAssumption ==
  MaxCalls \in Nat /\ DdFaults \subseteq {"library", "memory"} /\ \A c \in Computers : IsComputer(c)

(* A drive without medium has no label; what is unknown is said to be so.   *)
ddm_get_disk_attributes(d) ==
  IF ~d.answers THEN NoAttr
  ELSE [name |-> d.name, vendor |-> d.vendor, boot |-> d.name = ddm_get_curr_bootdisk,
        label |-> IF d.loaded THEN d.label ELSE {}]
(* Of a partition and of a slice the content matters to this model only as *)
(* to whose they are; linux swap is told by its signature.                 *)
ddm_is_linux_swap(p) == p.opens /\ p.signed
ddm_get_partition_attributes(p) ==
  IF ~p.answers THEN NoAttr
  ELSE [NoAttr EXCEPT !.name = p.name, !.label = IF p.sunixos /\ ddm_is_linux_swap(p) THEN {"lswap"} ELSE {"unknown"}]
ddm_get_slice_inuse_stats(s) == IF s.usedBy = <<>> THEN {} ELSE {s.usedBy[1]}
ddm_get_slice_attributes(s) ==
  IF ~s.answers THEN NoAttr ELSE [NoAttr EXCEPT !.name = s.name, !.label = ddm_get_slice_inuse_stats(s)]

Handles(class) ==
  CASE class = "DISK" -> ddm_filter_disks(computer.drives)
    [] class = "PARTITION" -> computer.parts
    [] OTHER -> computer.slices
Attributes(class, h) ==
  CASE class = "DISK" -> ddm_get_disk_attributes(h)
    [] class = "PARTITION" -> ddm_get_partition_attributes(h)
    [] OTHER -> ddm_get_slice_attributes(h)

(* ------------------------- the registry: td_mg.c ------------------------- *)
Empty == [pddm |-> <<>>, held |-> FALSE, arr |-> <<>>, built |-> FALSE, cnt |-> 0, cur |-> 0, issorted |-> FALSE]
ObInit ==
  /\ computer \in Computers /\ obj = [c \in Classes |-> Empty] /\ desc = FALSE /\ aborted = FALSE
  /\ td_errno = "SUCCESS" /\ list = <<>> /\ seen = [c \in Classes |-> <<>>] /\ moved = {} /\ again = FALSE
  /\ noMemory = FALSE /\ calls = 0

Entry(h) == [handle |-> h, attrib |-> NoAttr, done |-> FALSE]
Fill(class, e) == IF e.done THEN e ELSE [e EXCEPT !.attrib = Attributes(class, e.handle), !.done = TRUE]
(* td_discover of one class: handles are kept, the array is made anew.      *)
Rebuilt(o, class) ==
  LET hs == IF o[class].held THEN o[class].pddm ELSE Handles(class)
  IN [o EXCEPT ![class] = [@ EXCEPT !.pddm = hs, !.held = TRUE, !.arr = [i \in DOMAIN hs |-> Entry(hs[i])],
                                    !.built = TRUE, !.cnt = Len(hs), !.cur = 0]]
disks_discover_all_attrs(o) ==
  LET b == IF o["DISK"].built THEN o ELSE Rebuilt(o, "DISK")
  IN [b EXCEPT !["DISK"].arr = [i \in DOMAIN @ |-> Fill("DISK", @[i])]]
(* qsort by name: entries of one name may stay in any order.                *)
InOrder(arr) == \A i, j \in DOMAIN arr : i < j => strcmp(arr[i].attrib.name, arr[j].attrib.name) <= 0
Permuted(arr, p) == [i \in DOMAIN arr |-> arr[p[i]]]
Sorted(arr) == Permuted(arr, CHOOSE p \in Bijection(DOMAIN arr, DOMAIN arr) : InOrder(Permuted(arr, p)))
Unsorted(o, class) == [o EXCEPT ![class].issorted = TRUE]
sort_objs(o, class) ==
  IF o[class].issorted THEN o
  ELSE [o EXCEPT ![class].arr = Sorted(@), ![class].issorted = TRUE]
Ready(o) == sort_objs(disks_discover_all_attrs(o), "DISK")

(* bsearch halves the range of n entries; cmp says how the key compares     *)
(* with each, and what it calls equal is found.                             *)
bsearch(n, cmp) ==
  LET Mid(r) == (r[1] + r[2]) \div 2
      range[k \in 0 .. n] ==
        IF k = 0 THEN <<1, n>>
        ELSE LET r == range[k - 1] IN
             IF r[1] > r[2] \/ cmp[Mid(r)] = 0 THEN r
             ELSE IF cmp[Mid(r)] < 0 THEN <<r[1], Mid(r) - 1>> ELSE <<Mid(r) + 1, r[2]>>
  IN IF range[n][1] > range[n][2] THEN 0 ELSE Mid(range[n])
DiskNamed(o, i) == o["DISK"].arr[i].attrib.name
search_disks(o, key) ==
  bsearch(o["DISK"].cnt, [i \in 1 .. o["DISK"].cnt |->
    IF DiskNamed(o, i) = <<>> THEN 1 ELSE strcmp(key, DiskNamed(o, i))])
search_disks_for_slices(o, key) ==
  bsearch(o["DISK"].cnt, [i \in 1 .. o["DISK"].cnt |->
    IF DiskNamed(o, i) = <<>> THEN 1 ELSE IF IsPrefix(DiskNamed(o, i), key) THEN 0 ELSE strcmp(key, DiskNamed(o, i))])
disk_random_slice(o, a) == search_disks_for_slices(o, a.name) = 0

(* os_discover: a slice on a disk nobody knows is passed over.              *)
Candidate(o, h) == ddm_get_slice_attributes(h) # NoAttr /\ ~disk_random_slice(o, ddm_get_slice_attributes(h)) /\ h.os
os_discover(o) ==
  LET hs  == IF o["SLICE"].held THEN o["SLICE"].pddm ELSE Handles("SLICE")
      h   == [o EXCEPT !["SLICE"].pddm = hs, !["SLICE"].held = TRUE, !["SLICE"].cnt = Len(hs)]
      r   == IF hs = <<>> THEN h ELSE Ready(h)
      oss == Kept(hs, {s \in ToSet(hs) : Candidate(r, s)})
      arr == [i \in DOMAIN oss |-> [handle |-> oss[i], attrib |-> [NoAttr EXCEPT !.name = oss[i].name], done |-> TRUE]]
      n   == [r EXCEPT !["OS"].cnt = Len(oss), !["OS"].cur = 0,
                       !["OS"].arr = IF oss = <<>> THEN @ ELSE arr, !["OS"].built = (@ \/ oss # <<>>)]
  IN sort_objs(n, "OS")

Call == calls < MaxCalls /\ calls' = calls + 1
Keep0 == Call /\ UNCHANGED computer
Keep == Keep0 /\ UNCHANGED noMemory
(* What else changes with the arrays: the cursors they had.                 *)
Moved(classes) == moved' = (moved \cup {c \in classes : obj[c].cur # 0})
(* The drives' descriptors are taken with the first list of disks, which    *)
(* asserts that they are not held.                                         *)
TakesDrives(o) ==
  IF o["DISK"].held /\ ~obj["DISK"].held THEN aborted' = (aborted \/ desc) /\ desc' = TRUE ELSE UNCHANGED <<desc, aborted>>

Discover(class) ==
  LET o == IF class = "OS" THEN os_discover(obj) ELSE Rebuilt(obj, class) IN
  \/ /\ obj' = o /\ TakesDrives(o) /\ td_errno' = "SUCCESS"
     /\ seen' = [seen EXCEPT ![class] = <<>>]
     /\ moved' = (moved \ {class}) \cup (IF class = "OS" /\ ~obj["DISK"].issorted /\ obj["DISK"].cur # 0 THEN {"DISK"} ELSE {})
     /\ again' = (again \/ (class = "DISK" /\ obj["DISK"].issorted)) /\ UNCHANGED noMemory
  \/ /\ "library" \in DdFaults /\ ~obj[IF class = "OS" THEN "SLICE" ELSE class].held
     /\ td_errno' = IF class = "DISK" THEN "NO_DEVICE" ELSE "END"
     /\ UNCHANGED <<obj, desc, aborted, seen, moved, again, noMemory>>
  (* ddm_filter_disks has no memory: the descriptors stay taken.            *)
  \/ /\ "memory" \in DdFaults /\ class = "DISK" /\ ~obj[class].held
     /\ aborted' = (aborted \/ desc) /\ desc' = TRUE /\ td_errno' = "NO_DEVICE" /\ noMemory' = TRUE
     /\ UNCHANGED <<obj, seen, moved, again>>
td_discover(class) == Keep0 /\ Discover(class) /\ UNCHANGED list

td_get_next(class) ==
  LET next == obj[class].cur + 1 IN
  /\ Keep /\ UNCHANGED <<desc, aborted, list, again>>
  /\ IF obj[class].built /\ next <= Len(obj[class].arr)
     THEN /\ obj' = [obj EXCEPT ![class].cur = next] /\ td_errno' = "SUCCESS"
          /\ seen' = [seen EXCEPT ![class] = Append(@, obj[class].arr[next].handle.name)] /\ UNCHANGED moved
     ELSE /\ obj' = [obj EXCEPT ![class].cur = 0] /\ td_errno' = "END"
          /\ seen' = [seen EXCEPT ![class] = <<>>] /\ moved' = moved \ {class}
td_reset(class) ==
  /\ Keep /\ obj' = [obj EXCEPT ![class].cur = 0] /\ td_errno' = "SUCCESS" /\ seen' = [seen EXCEPT ![class] = <<>>]
  /\ moved' = moved \ {class} /\ UNCHANGED <<desc, aborted, list, again>>

(* td_attributes_get: a slice of an unknown disk loses its attributes, so   *)
(* that the second question is an error where the first was not.           *)
Asks(class, e) == class = "SLICE" /\ ~e.done /\ Fill(class, e).attrib # NoAttr
Answer(o, class, e) ==
  IF Asks(class, e) /\ disk_random_slice(o, Fill(class, e).attrib)
  THEN [Fill(class, e) EXCEPT !.attrib = NoAttr] ELSE Fill(class, e)
Looked(o, class) ==
  LET e == o[class].arr[o[class].cur]
      d == IF Asks(class, e) THEN Ready(o) ELSE o
  IN [d EXCEPT ![class].arr[o[class].cur] = Answer(d, class, e)]
LookErrno(o, class) == LET e == o[class].arr[o[class].cur] IN IF e.done /\ e.attrib = NoAttr THEN "INVALID_ARG" ELSE "SUCCESS"
SortsDisks(o) == IF ~obj["DISK"].issorted /\ o["DISK"].issorted THEN Moved({"DISK"}) ELSE UNCHANGED moved
td_attributes_get(class) ==
  /\ Keep /\ UNCHANGED <<list, seen, again>>
  /\ IF obj[class].cur = 0 THEN td_errno' = "END" /\ UNCHANGED <<obj, desc, aborted, moved>>
     ELSE LET o == Looked(obj, class) IN
          obj' = o /\ TakesDrives(o) /\ SortsDisks(o) /\ td_errno' = LookErrno(obj, class)

(* td_discover_partition_by_disk, td_discover_slice_by_disk                 *)
WholeDisk(class) == 0
Letter(class) == IF class = "PARTITION" THEN LetterP ELSE LetterS
td_discover_object_by_disk(class, disk) ==
  LET r == Ready(obj)
      b == IF r[class].built THEN r ELSE Rebuilt(r, class)
      o == [b EXCEPT ![class].arr = [i \in DOMAIN @ |-> Fill(class, @[i])]]
      mine == Kept(o[class].arr, {e \in ToSet(o[class].arr) :
                                    e.attrib # NoAttr /\ IsPrefix(Append(disk, Letter(class)), e.attrib.name)})
  IN /\ Keep /\ UNCHANGED again /\ TakesDrives(r) /\ SortsDisks(r)
     /\ IF search_disks(r, disk) = 0
        THEN obj' = r /\ td_errno' = "NO_DEVICE" /\ list' = <<>> /\ UNCHANGED seen
        ELSE /\ obj' = o /\ td_errno' = "SUCCESS" /\ list' = [i \in DOMAIN mine |-> mine[i].attrib]
             /\ seen' = IF r[class].built THEN seen ELSE [seen EXCEPT ![class] = <<>>]

(* td_discover_get_attribute_list: discover, then walk, so that everything  *)
(* is asked for the first time; where the attribute wanted does not match   *)
(* nothing is written.                                                      *)
Walked(o, class) ==
  LET d == IF \E i \in DOMAIN o[class].arr : Asks(class, o[class].arr[i]) THEN Ready(o) ELSE o
  IN [d EXCEPT ![class].arr = [i \in DOMAIN @ |-> Answer(d, class, @[i])], ![class].cur = Len(o[class].arr)]
td_discover_get_attribute_list(class, vendor) ==
  LET w   == Walked(Rebuilt(obj, class), class)
      out == w[class].arr
  IN /\ Keep /\ obj' = w /\ TakesDrives(w) /\ td_errno' = "SUCCESS"
     /\ list' = [i \in DOMAIN out |-> IF vendor \in {"any", out[i].attrib.vendor} THEN out[i].attrib ELSE Hole]
     /\ seen' = [seen EXCEPT ![class] = <<>>] /\ moved' = moved \cup {class}
        \cup (IF ~obj["DISK"].issorted /\ obj["DISK"].cur # 0 THEN {"DISK"} ELSE {})
     /\ again' = (again \/ (class = "DISK" /\ obj["DISK"].issorted))

(* td_discovery_release: ddm_free_handle_list knows drives by the first of  *)
(* them, and without one it leaves their descriptors.                      *)
td_discovery_release ==
  /\ Keep /\ obj' = [c \in Classes |-> Empty] /\ td_errno' = "SUCCESS"
  /\ desc' = (desc /\ (~obj["DISK"].held \/ obj["DISK"].pddm = <<>>))
  /\ seen' = [c \in Classes |-> <<>>] /\ moved' = {} /\ again' = FALSE /\ UNCHANGED <<aborted, list>>

(* Somebody installs or overwrites a system between two calls.              *)
ChangeOs ==
  /\ Call /\ \E i \in DOMAIN computer.slices : computer' = [computer EXCEPT !.slices[i].os = ~@]
  /\ UNCHANGED <<obj, desc, aborted, td_errno, list, seen, moved, again, noMemory>>
ObOver == (calls = MaxCalls \/ aborted) /\ UNCHANGED obVars
DiskNames == {computer.drives[i].name : i \in DOMAIN computer.drives}
ObNext ==
  \/ /\ ~aborted
     /\ \/ \E class \in Classes : td_discover(class) \/ td_get_next(class) \/ td_reset(class) \/ td_attributes_get(class)
        \/ \E class \in {"PARTITION", "SLICE"}, disk \in DiskNames : td_discover_object_by_disk(class, disk)
        \/ \E class \in {"DISK", "SLICE"}, vendor \in {"any", "acme"} :
             (class = "SLICE" => vendor = "any") /\ td_discover_get_attribute_list(class, vendor)
        \/ td_discovery_release
        \/ ChangeOs
  \/ ObOver
ObSpec == ObInit /\ [][ObNext]_obVars

-----------------------------------------------------------------------------
ObTypeOK ==
  /\ desc \in BOOLEAN /\ aborted \in BOOLEAN /\ again \in BOOLEAN /\ moved \subseteq Classes /\ calls \in 0 .. MaxCalls
  /\ td_errno \in {"SUCCESS", "END", "NO_DEVICE", "INVALID_ARG"}
  /\ \A c \in Classes : obj[c].cur \in 0 .. Len(obj[c].arr) /\ (~obj[c].built => obj[c].arr = <<>>)

(* No CD, floppy, zvol or the medium the installer runs from is offered as  *)
(* a target; only a drive that could not be opened may be a CD.            *)
MediaIsNeverOffered ==
  \A i \in DOMAIN obj["DISK"].arr : LET d == obj["DISK"].arr[i].handle IN
    (d.kind = "disk" /\ ~d.media) \/ (d.kind = "cdrom" /\ ~d.opens)

(* Exactly the disk the system was booted from is marked CURRBOOT, whatever *)
(* the form of the boot device's name (ddm_get_curr_bootdisk).             *)
BootDiskIsMarked ==
  \A i \in DOMAIN obj["DISK"].arr : LET e == obj["DISK"].arr[i] IN
    e.attrib # NoAttr => (e.attrib.boot <=> e.attrib.name = computer.booted)

(* What an array holds is what its counter says; an installed system that   *)
(* is there no longer is no exception once something is found.             *)
CountsAreRight ==
  /\ \A c \in Classes \ {"OS"} : obj[c].built => obj[c].cnt = Len(obj[c].arr)
  /\ obj["OS"].cnt \in {0, Len(obj["OS"].arr)}

(* A slice belongs to its disk: while the disks are sorted and no disk's    *)
(* name begins another's, the search finds the right one of them.          *)
Begins == \E a, b \in DiskNames : a # b /\ IsPrefix(a, b)
Known  == {i \in DOMAIN obj["DISK"].arr : obj["DISK"].arr[i].attrib # NoAttr}
AllKnown == Known = DOMAIN obj["DISK"].arr
FindsItsDisk(i) == search_disks_for_slices(obj, obj["DISK"].arr[i].attrib.name \o <<LetterS, 0>>) = i
SliceFindsItsDisk ==
  obj["DISK"].issorted /\ ~again /\ ~Begins => \A i \in Known : FindsItsDisk(i)

(* ... and the same whatever the names are ("search for slice in list of    *)
(* disks").                                                                *)
EverySliceHasADisk ==
  obj["DISK"].issorted /\ AllKnown /\ ~again =>
    \A i \in Known : search_disks_for_slices(obj, obj["DISK"].arr[i].attrib.name \o <<LetterS, 0>>) # 0

(* A whole walk with td_get_next meets every object once, unless the array  *)
(* was sorted under the cursor on the way.                                 *)
WalkMeetsAll == [][\A c \in Classes :
  (obj[c].cur # 0 /\ obj'[c].cur = 0 /\ td_errno' = "END" /\ c \notin moved /\ obj'[c].arr = obj[c].arr) =>
    Len(seen[c]) = Len(obj[c].arr) /\ ToSet(seen[c]) = {obj[c].arr[i].handle.name : i \in DOMAIN obj[c].arr}]_obVars

(* The assertion of ddm_get_disks (td_dd.c:1507) holds as long as there is  *)
(* a disk to offer and there was memory for the list.                      *)
DescriptorsAreFreed == aborted => ddm_filter_disks(computer.drives) = <<>> \/ noMemory

(* What td_mg.c and td_dd.c promise after any sequence of calls.            *)
RegistryIsRight ==
  ObTypeOK /\ MediaIsNeverOffered /\ BootDiskIsMarked /\ CountsAreRight /\ SliceFindsItsDisk /\ DescriptorsAreFreed

(* Partitions and slices listed for a disk are that disk's, and all of them *)
(* that answer.                                                            *)
ListedAreItsOwn == [][~Begins => \A class \in {"PARTITION", "SLICE"}, disk \in DiskNames :
  (td_errno' = "SUCCESS" /\ td_discover_object_by_disk(class, disk)) =>
    {list'[i].name : i \in DOMAIN list'} =
      {h.name : h \in {g \in ToSet(Handles(class)) : g.answers /\ g.of = disk}}]_obVars
=============================================================================
