---------------------------- MODULE MCDiskTarget ----------------------------
(* Small instance: a disk of 24 sectors, 12 "megabytes", 8 cylinders; the  *)
(* disks of the screen are those of MCDiskScreen.                          *)
EXTENDS DiskTarget, VolumeSizes, MCDiskScreen, TLC

Part(type, swap, id, off, size) ==
  [type |-> type, swap |-> swap, id |-> id, order |-> 0, off |-> off, size |-> size, mb |-> size \div 2]
Table(parts) == [i \in 1..4 |-> IF \E p \in parts : p.id = i THEN CHOOSE p \in parts : p.id = i ELSE Unused]
MCFound == {Table({}),
            Table({Part("solaris2", FALSE, 1, 3, 9), Part("other", FALSE, 2, 12, 6)}),
            Table({Part("solaris", FALSE, 1, 3, 6), Part("extended", FALSE, 2, 9, 9), Part("other", FALSE, 4, 10, 4)})}
Creation(type, off, size, entire, logical) ==
  [type |-> type, off |-> off, size |-> size, entire |-> entire, logical |-> logical]
MCCreations ==
  {Creation("solaris2", -1, 6, FALSE, FALSE), Creation("other", -1, 0, FALSE, FALSE),
   Creation("solaris2", 18, 4, FALSE, FALSE), Creation("solaris2", 0, 0, TRUE, FALSE),
   Creation("other", -1, 3, FALSE, TRUE), Creation("bogus", 6, 2, FALSE, FALSE)}
MCSlFound ==
  {NoSlices, [i \in {0, 2, 8} |-> CASE i = 2 -> Slice(0, 9, "backup") [] i = 8 -> Slice(0, 3, "boot")
                                    [] OTHER -> Slice(6, 3, "root")]}
MCSwapTable == <<[below |-> 3, mb |-> 1], [below |-> 0, mb |-> 2]>>
MCBegins == {<<"c1d1", "c1d1">>, <<"c1d1", "c1d10">>, <<"rpool", "rpool">>, <<"data", "data">>}

(* The library is also called on its own, by other callers. *)
Attrs(type) ==
  [type |-> type, disk |-> "none", pool |-> "rpool", device |-> TRUE, keep |-> FALSE, names |-> <<>>,
   vols |-> <<>>, be |-> "none", mount |-> FALSE, shared |-> <<>>, cbf |-> TRUE]
OnDiskOf(disk) ==
  [Attrs("none") EXCEPT !.disk = disk, !.names = <<"export">>, !.vols = <<"swap", "dump">>]
    @@ [whole |-> TRUE, n |-> 0, default |-> TRUE, swap |-> TRUE, keeps |-> FALSE]
MCTiAttrs ==
  {Attrs("none"), OnDiskOf("c1d1"), Attrs("DISK_LABEL"), Attrs("ZFS_RPOOL"), [Attrs("ZFS_RPOOL") EXCEPT !.keep = TRUE],
   [Attrs("ZFS_FS") EXCEPT !.pool = "data", !.names = <<"export", "home">>],
   [Attrs("ZFS_VOLUME") EXCEPT !.vols = <<"swap", "dump">>],
   [Attrs("BE") EXCEPT !.be = "be0", !.mount = TRUE, !.shared = <<"export">>],
   Attrs("DC_UFS"), Attrs("DC_RAMDISK"), Attrs("bogus")}
MCTiStarts ==
  {Machine({}),
   [Machine({}) EXCEPT !.mounted = {[disk |-> "c1d1", part |-> "s0"], [disk |-> "c1d10", part |-> "s0"]},
                       !.swap = {[disk |-> "c1d1", part |-> "s1"]}, !.pools = {"data"},
                       !.vtoc[9] = [start |-> 0, size |-> 4, tag |-> "alternates"]]}

(* Sizes around those at which an image of 4000 or 4915 MB leaves nothing, *)
(* and at which a default volume is trimmed.                               *)
MCCases ==
  {c \in [installer : {"engine", "text"}, automated : BOOLEAN, mem : {0, 600, 800, 950, 3000, 200000},
          swap : {-1, 0, 300, IntMax}, dump : {-1, 0, 300, IntMax}, image : {4000}, part : {9000, 14000},
          avail : {5000, 5700, 10400, 11300, 12000, 90000}] :
     c.installer = "text" => c.mem > 0 /\ ~c.automated /\ c.swap = -1 /\ c.dump = -1}

MCCase == CHOOSE c \in MCCases : TRUE

Ramdisks == {"DC_RAMDISK", "DC_UFS"}
NoScreen == DsInit /\ disks = <<Unreadable>>
NoEditors == dpFound = NoTable /\ slTable = NoSlices
VARIABLE subject
MCInit == \/ subject = "editors" /\ vsCase = MCCase /\ DtInit /\ VsInit /\ NoScreen
          \/ subject \in {"ramdisk", "pool"} /\ DpInit /\ SlInit /\ TiInit /\ NoEditors
             /\ vsCase = MCCase /\ VsInit /\ NoScreen
          \/ subject = "sizes" /\ DtInit /\ NoEditors /\ VsInit /\ NoScreen
          \/ subject = "screen" /\ DtInit /\ NoEditors /\ vsCase = MCCase /\ VsInit /\ DsInit
MCNext == \/ subject = "editors" /\ DtNext /\ UNCHANGED <<subject, vsVars, dsVars>>
          \/ subject \in {"ramdisk", "pool"} /\ TiNext
             /\ (subject = "ramdisk") = (tiLast'.attrs.type \in Ramdisks)
             /\ UNCHANGED <<subject, dpVars, slVars, vsVars, dsVars>>
          \/ subject = "sizes" /\ VsNext /\ UNCHANGED <<subject, dtVars, dsVars>>
          \/ subject = "screen" /\ DsNext /\ UNCHANGED <<subject, dtVars, vsVars>>
MCSpec == MCInit /\ [][MCNext]_<<subject, dtVars, vsVars, dsVars>>
=============================================================================
