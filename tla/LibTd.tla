-------------------------------- MODULE LibTd --------------------------------
(***************************************************************************)
(* The target discovery library: looking for installed systems, its        *)
(* registry, an iSCSI target, and comparing releases. They share no state; *)
(* subject says which of the four is looked at.                            *)
(***************************************************************************)
EXTENDS TdMounts, TdObjects, TdVersion, TdIscsi

CONSTANT Products    \* names of releases that are compared
ASSUME ProductsAssumption == Products # {} /\ Products \subseteq Seq(Pieces)

VARIABLES subject, v1, v2
allVars == <<subject, v1, v2, mdVars, obVars, isVars>>

Given(on, set) == IF on THEN set ELSE {CHOOSE x \in set : TRUE}
Init ==
  /\ subject \in {"systems", "registry", "iscsi", "versions"}
  /\ machine \in Given(subject = "systems", Machines) /\ computer \in Given(subject = "registry", Computers)
  /\ ask \in Given(subject = "iscsi", Asked) /\ enabled \in Given(subject = "iscsi", BOOLEAN)
  /\ staleErrno \in Given(subject = "iscsi", BOOLEAN) /\ config \in Given(subject = "iscsi", KnownBefore)
  /\ v1 \in Given(subject = "versions", Products) /\ v2 \in Given(subject = "versions", Products)
  /\ MdInit /\ ObInit /\ IsInit
Systems  == subject = "systems" /\ MdNext /\ UNCHANGED <<subject, v1, v2, obVars, isVars>>
Registry == subject = "registry" /\ ObNext /\ UNCHANGED <<subject, v1, v2, mdVars, isVars>>
Iscsi(step) == subject = "iscsi" /\ step /\ UNCHANGED <<subject, v1, v2, mdVars, obVars>>
Turn     == subject = "versions" /\ v1' = v2 /\ v2' = v1 /\ UNCHANGED <<subject, mdVars, obVars, isVars>>
Next == Systems \/ Registry \/ Iscsi(IsNext) \/ Turn
Spec == Init /\ [][Next]_allVars /\ WF_allVars(Systems) /\ WF_allVars(Iscsi(iscsi_static_config))

-----------------------------------------------------------------------------
(* Whatever calls were made before: the disks listed may be installed to,   *)
(* counters fit the arrays, a slice finds its disk and no descriptor is     *)
(* left held; releases are compared alike from either side, plain ones by  *)
(* their numbers (td_mg.c, td_dd.c, td_version.c).                         *)
ObjectsAreRight ==
  RegistryIsRight /\ ComparesAsReleases(v1, v2) /\ TurnsRound(v1, v2)

(* A walk, and a list made for one disk, have all there is and nothing else *)
(* (td_get_next, td_discover_object_by_disk).                              *)
ListsAreWhole == WalkMeetsAll /\ ListedAreItsOwn

(* A look for installed systems ends, and so does the wait for an iSCSI    *)
(* device; the vfstab's retries and the LUN's are bounded.                 *)
LibtdEnds == (subject = "systems" => <>(mdPc = "done")) /\ (subject = "iscsi" => <>(isPc = "done"))
=============================================================================
