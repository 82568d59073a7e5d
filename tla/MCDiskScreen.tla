---------------------------- MODULE MCDiskScreen ----------------------------
(* Small instance of DiskScreen: disks of 96 megabytes, 32 to the gigabyte. *)
EXTENDS DiskScreen

Entry(type, id, order, off, mb) ==
  [type |-> type, swap |-> FALSE, id |-> id, order |-> order, off |-> off, size |-> mb, mb |-> mb]
EntryTable(parts) == [i \in Entries |-> IF \E p \in parts : p.id = i THEN CHOOSE p \in parts : p.id = i ELSE Zero]
Ok(parts)  == [kind |-> "ok", table |-> EntryTable(parts)]
Unreadable == [kind |-> "unreadable", table |-> EntryTable({})]
Small      == [kind |-> "small", table |-> EntryTable({})]

(* A gap behind the last partition; a full disk; a logical partition with  *)
(* gaps around it; no table; two disks, of which one is too small and the  *)
(* other has a partition whose slot is not its place.                      *)
MCMachines ==
  {<<Ok({Entry("solaris", 1, 1, 1, 16), Entry("other", 2, 2, 17, 40)})>>,
   <<Ok({Entry("other", 1, 1, 1, 40), Entry("solaris", 2, 2, 41, 16), Entry("other", 3, 3, 57, 39)})>>,
   <<Ok({Entry("solaris", 1, 1, 1, 40), Entry("extended", 2, 2, 50, 46), Entry("other", 4, 4, 51, 20)})>>,
   <<Unreadable>>,
   <<Small, Ok({Entry("other", 2, 1, 1, 30)})>>}
=============================================================================
