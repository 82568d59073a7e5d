-------------------------- MODULE TargetDiscovery ---------------------------
(***************************************************************************)
(* Target discovery: om_initiate_target_discovery() counts the disks and   *)
(* starts a thread, handle_disk_discovery(), that lists the disks, their   *)
(* partitions and slices and the installed systems and reports percentages *)
(* to the GUI's target_discovery_callback().  The GTK main loop polls the  *)
(* milestones the callback keeps; when the last one is complete the disk   *)
(* screen and the upgrade screen each ask the orchestrator, once, for what *)
(* was found.  Nothing the two threads share is protected by a lock.       *)
(*                                                                         *)
(* A list of disks is the set of their numbers: disks are appended in the  *)
(* order of td_get_next(), so the set determines the list.                 *)
(***************************************************************************)
EXTENDS Integers

CONSTANTS
  MaxDisks,      \* bound: disks td_discover() counts
  MaxInstances,  \* bound: installed systems td_discover() counts
  InstanceKinds, \* what td_attributes_get() can say of one of them
  Faults         \* may include "start", "memory", "discover"

ASSUME BoundsAssumption   == MaxDisks \in Nat /\ MaxInstances \in Nat
ASSUME KindsAssumption    == InstanceKinds \subseteq {"readable", "unreadable"}
ASSUME TdFaultsAssumption == Faults \subseteq {"start", "memory", "discover"}

VARIABLES
  disks,     \* the machine: disks_total, and which disks can be enumerated
  systems,   \* the machine: the installed systems on its disks
  tdPc,      \* where the discovery thread is
  i,         \* its loop counter
  pct,       \* cb_data.percentage_done of the function it is in
  found,     \* the list the running get_td_...() function is building
  systemDisks,        \* system_disks
  dparts, dslices,    \* those of them with dt->dparts and dt->dslices
  solarisInstances,   \* solaris_instances
  rescanned,          \* instances_discovery_done
  discoveryDone,      \* disk_discovery_done
  milestones,         \* those whose MileStoneComplete[] is TRUE
  screens,            \* per screen: what it shows
  rescanning          \* is the main loop in get_td_solaris_instances()?

machine == <<disks, systems>>
thread  == <<tdPc, i, pct, found>>
cache   == <<systemDisks, dparts, dslices, solarisInstances>>
guiSide == <<screens, rescanning, rescanned>>
tdVars  == <<machine, thread, cache, discoveryDone, milestones, guiSide>>

Milestones == {"disk", "partition", "slice", "upgrade"}
DiskKinds  == {"readable", "unreadable"}
Unset      == -1       \* percentage_done is not initialised
Pending    == [state |-> "polling", listed |-> {}]

Readable(list) == {n \in DOMAIN list : list[n] = "readable"}
DisksTotal     == CHOOSE n \in 0..MaxDisks : DOMAIN disks = 1..n
InstanceCount  == CHOOSE n \in 0..MaxInstances : DOMAIN systems = 1..n

(* Mutant: the loop counts the disk it is about to enumerate as well.      *)
PercentOfNext(n, of) == ((n + 1) * 100) \div of
Percent(n, of) == (n * 100) \div of

-----------------------------------------------------------------------------
(* What the callback does to the GUI's milestones. *)

(* Mutant: a wrong curr_milestone copied into the partitions' callback.    *)
CallbackCopied(m, percent) ==
  milestones' = IF percent = 100
                THEN milestones \cup {IF m = "partition" THEN "upgrade" ELSE m}
                ELSE milestones \ {m}

Callback(m, percent) ==
  milestones' = IF percent = 100 THEN milestones \cup {m} ELSE milestones \ {m}

(* Mutant: a phase that trusts its percentages to reach 100.               *)
LastCallbackNever(m) == UNCHANGED milestones

(* The last callback of a phase is made unless percentage_done is 100; if  *)
(* no earlier one was made, percentage_done is what the stack held.        *)
LastCallback(m) ==
  \/ pct # 100 /\ Callback(m, 100)
  \/ pct \in {100, Unset} /\ UNCHANGED milestones

Goto(pc) == tdPc' = pc /\ i' = 1 /\ pct' = Unset /\ found' = {}

-----------------------------------------------------------------------------
(* om_initiate_target_discovery: the program exits if it fails. *)

StartDiscovery ==
  /\ tdPc = "idle"
  /\ \/ Goto(IF disks = <<>> THEN "report" ELSE "disks")
     \/ "start" \in Faults /\ Goto("exit")
  /\ UNCHANGED <<machine, cache, discoveryDone, milestones, guiSide>>

(* get_td_disk_info_discover: a disk without data is skipped, and with it  *)
(* the callback.                                                           *)
EnumerateDisk ==
  /\ tdPc = "disks" /\ i \in DOMAIN disks
  /\ i' = i + 1
  /\ IF disks[i] = "readable"
     THEN /\ found' = found \cup {i} /\ pct' = Percent(i, DisksTotal)
          /\ Callback("disk", Percent(i, DisksTotal))
     ELSE UNCHANGED <<found, pct, milestones>>
  /\ UNCHANGED <<machine, tdPc, cache, discoveryDone, guiSide>>

(* Mutant: the discovery counts as done when the disks are known.          *)
DisksEnumeratedAndDone ==
  /\ tdPc = "disks" /\ i \notin DOMAIN disks
  /\ LastCallback("disk")
  /\ systemDisks' = found /\ discoveryDone' = TRUE
  /\ Goto(IF found = {} THEN "report" ELSE "parts")
  /\ UNCHANGED <<machine, dparts, dslices, solarisInstances, guiSide>>

DisksEnumerated ==
  /\ tdPc = "disks" /\ i \notin DOMAIN disks
  /\ LastCallback("disk")
  /\ systemDisks' = found
  /\ Goto(IF found = {} THEN "report" ELSE "parts")
  /\ UNCHANGED <<machine, dparts, dslices, solarisInstances, discoveryDone,
                 guiSide>>

IsNext(d, done) == d \in systemDisks \ done
                     /\ \A e \in systemDisks \ done : d <= e

(* get_td_disk_parts_discover: its percentages are of disks_total although *)
(* the list may be shorter.                                                *)
EnumeratePartitions ==
  /\ tdPc = "parts"
  /\ \E d \in systemDisks : IsNext(d, dparts) /\ dparts' = dparts \cup {d}
  /\ i' = i + 1 /\ pct' = Percent(i, DisksTotal)
  /\ Callback("partition", Percent(i, DisksTotal))
  /\ UNCHANGED <<machine, tdPc, found, systemDisks, dslices, solarisInstances,
                 discoveryDone, guiSide>>

PartitionsEnumerated ==
  /\ tdPc = "parts" /\ systemDisks \subseteq dparts
  /\ LastCallback("partition") /\ Goto("slices")
  /\ UNCHANGED <<machine, cache, discoveryDone, guiSide>>

(* get_td_disk_slices_discover *)
EnumerateSlices ==
  /\ tdPc = "slices"
  /\ \E d \in systemDisks : IsNext(d, dslices) /\ dslices' = dslices \cup {d}
  /\ i' = i + 1 /\ pct' = Percent(i, DisksTotal)
  /\ Callback("slice", Percent(i, DisksTotal))
  /\ UNCHANGED <<machine, tdPc, found, systemDisks, dparts, solarisInstances,
                 discoveryDone, guiSide>>

SlicesEnumerated ==
  /\ tdPc = "slices" /\ systemDisks \subseteq dslices
  /\ LastCallback("slice") /\ Goto("instances")
  /\ UNCHANGED <<machine, cache, discoveryDone, guiSide>>

(* get_td_solaris_instances, when td_discover() fails or finds none        *)
NoInstances ==
  /\ tdPc = "instances" /\ i = 1
  /\ systems = <<>> \/ "discover" \in Faults
  /\ Callback("upgrade", 100) /\ Goto("done")
  /\ UNCHANGED <<machine, cache, discoveryDone, guiSide>>

(* The C loop counts from 0, so no callback of the loop says 100.          *)
EnumerateInstance ==
  /\ tdPc = "instances" /\ i \in DOMAIN systems
  /\ i' = i + 1
  /\ IF systems[i] = "readable"
     THEN /\ found' = found \cup {i} /\ pct' = Percent(i - 1, InstanceCount)
          /\ Callback("upgrade", Percent(i - 1, InstanceCount))
     ELSE UNCHANGED <<found, pct, milestones>>
  /\ UNCHANGED <<machine, tdPc, cache, discoveryDone, guiSide>>

InstancesEnumerated ==
  /\ tdPc = "instances" /\ systems # <<>> /\ i \notin DOMAIN systems
  /\ LastCallback("upgrade")
  /\ solarisInstances' = found
  /\ Goto("done")
  /\ UNCHANGED <<machine, systemDisks, dparts, dslices, discoveryDone, guiSide>>

(* send_discovery_complete_callback, when no disk was found                *)
SendDiscoveryComplete ==
  /\ tdPc = "report"
  /\ Callback("upgrade", 100) /\ Goto("done")
  /\ UNCHANGED <<machine, cache, discoveryDone, guiSide>>

DiscoveryDone ==
  /\ tdPc = "done"
  /\ discoveryDone' = TRUE /\ Goto("release")
  /\ UNCHANGED <<machine, cache, milestones, guiSide>>

(* td_discovery_release, then pthread_exit                                 *)
Release ==
  /\ tdPc = "release" /\ Goto("ended")
  /\ UNCHANGED <<machine, cache, discoveryDone, milestones, guiSide>>

-----------------------------------------------------------------------------
(* The main loop.  om_get_disk_info answers nothing before discoveryDone,  *)
(* without disks or without memory.                                        *)

DiskInfo ==
  IF discoveryDone
  THEN {systemDisks} \cup (IF "memory" \in Faults THEN {{}} ELSE {})
  ELSE {{}}

(* Mutant: a monitor that is content with the partitions.                  *)
DiscoveryMonitorEarly(s) ==
  /\ ~rescanning
  /\ screens[s].state = "polling"
  /\ "partition" \in milestones \/ "upgrade" \in milestones
  /\ screens' = [screens EXCEPT ![s] =
                   [state |-> "shown", listed |-> systemDisks]]
  /\ UNCHANGED <<machine, thread, cache, discoveryDone, milestones, rescanned,
                 rescanning>>

(* partition_discovery_monitor and upgrade_discovery_monitor: polled until *)
(* the last milestone is complete, then run once.  For each listed disk a  *)
(* screen asks om_get_upgrade_targets_by_disk, which looks for installed   *)
(* systems itself, once, if the thread left none.                          *)
DiscoveryMonitor(s) ==
  /\ ~rescanning
  /\ screens[s].state = "polling" /\ "upgrade" \in milestones
  /\ \E info \in DiskInfo :
       /\ screens' = [screens EXCEPT ![s] = [state |-> "shown", listed |-> info]]
       /\ rescanning' = (info # {} /\ solarisInstances = {} /\ ~rescanned)
  /\ UNCHANGED <<machine, thread, cache, discoveryDone, milestones, rescanned>>

RescanInstances ==
  /\ rescanning /\ rescanning' = FALSE /\ rescanned' = TRUE
  /\ \/ solarisInstances' = Readable(systems)
     \/ "discover" \in Faults /\ UNCHANGED solarisInstances
  /\ UNCHANGED <<machine, thread, systemDisks, dparts, dslices, discoveryDone,
                 milestones, screens>>

-----------------------------------------------------------------------------
TdInit ==
  /\ \E n \in 0..MaxDisks : disks \in [1..n -> DiskKinds]
  /\ \E n \in 0..MaxInstances : systems \in [1..n -> InstanceKinds]
  /\ tdPc = "idle" /\ i = 1 /\ pct = Unset /\ found = {}
  /\ systemDisks = {} /\ dparts = {} /\ dslices = {} /\ solarisInstances = {}
  /\ rescanned = FALSE /\ discoveryDone = FALSE /\ milestones = {}
  /\ screens = [s \in {"disk", "upgrade"} |-> Pending]
  /\ rescanning = FALSE

DiscoveryThread ==
  \/ EnumerateDisk \/ DisksEnumerated
  \/ EnumeratePartitions \/ PartitionsEnumerated
  \/ EnumerateSlices \/ SlicesEnumerated
  \/ NoInstances \/ EnumerateInstance \/ InstancesEnumerated
  \/ SendDiscoveryComplete \/ DiscoveryDone \/ Release

MainLoop ==
  RescanInstances \/ \E s \in {"disk", "upgrade"} : DiscoveryMonitor(s)

(* Both screens are filled and the thread is gone, or main() has exited;   *)
(* or no milestone ever tells the screens, which poll for ever.            *)
Idle ==
  /\ tdPc \in {"ended", "exit"} /\ ~rescanning
  /\ \A s \in DOMAIN screens :
       screens[s].state = "shown" \/ "upgrade" \notin milestones
  /\ UNCHANGED tdVars

TdNext == StartDiscovery \/ DiscoveryThread \/ MainLoop \/ Idle

TdSpec     == TdInit /\ [][TdNext]_tdVars
(* The discovery thread is scheduled and the 200 ms timers are dispatched. *)
TdFairSpec == TdSpec /\ WF_tdVars(StartDiscovery) /\ WF_tdVars(DiscoveryThread)
                /\ \A s \in {"disk", "upgrade"} : WF_tdVars(DiscoveryMonitor(s))
                /\ WF_tdVars(RescanInstances)

-----------------------------------------------------------------------------
(* Types *)
TdTypeOK ==
  /\ \E n \in 0..MaxDisks : disks \in [1..n -> DiskKinds]
  /\ \E n \in 0..MaxInstances : systems \in [1..n -> InstanceKinds]
  /\ tdPc \in {"idle", "disks", "parts", "slices", "instances", "report",
               "done", "release", "ended", "exit"}
  /\ i \in Nat \ {0} /\ pct \in Unset..100
  /\ found \in SUBSET Nat /\ systemDisks \subseteq Readable(disks)
  /\ dparts \subseteq systemDisks /\ dslices \subseteq systemDisks
  /\ solarisInstances \subseteq Readable(systems)
  /\ milestones \subseteq Milestones
  /\ screens \in [{"disk", "upgrade"} ->
       [state : {"polling", "shown"}, listed : SUBSET (1..MaxDisks)]]
  /\ rescanned \in BOOLEAN /\ rescanning \in BOOLEAN /\ discoveryDone \in BOOLEAN

(* The milestone the screens wait for is complete only when every readable *)
(* disk is in system_disks with its partitions and its slices, though each *)
(* phase counts its own percentages and skips what it cannot read.         *)
CompleteMeansDiscovered ==
  "upgrade" \in milestones =>
    /\ systemDisks = Readable(disks)
    /\ dparts = systemDisks /\ dslices = systemDisks

(* A milestone once complete is never taken back: a poll that missed it    *)
(* would leave its screen polling.                                         *)
MilestonesStay == [][milestones \subseteq milestones']_tdVars

(* A screen that lists disks lists every readable one, and their           *)
(* partitions and slices are there: init_disk_status() asks for them.      *)
ListedDisksAreDissected ==
  \A s \in DOMAIN screens : screens[s].listed # {} =>
    /\ screens[s].listed = Readable(disks)
    /\ dparts = screens[s].listed /\ dslices = screens[s].listed

(* Once disk_discovery_done is set, the lists the orchestrator hands out   *)
(* without a lock are not written any more.                                *)
ListsAreStable ==
  [][discoveryDone => UNCHANGED <<systemDisks, dparts, dslices>>]_tdVars

(* Once discovery was started, both screens leave "Finding Disks", unless  *)
(* there are installed systems and none of them can be read.               *)
ScreensAreFilled ==
  tdPc = "disks" /\ (systems = <<>> \/ Readable(systems) # {})
    ~> \A s \in DOMAIN screens : screens[s].state = "shown"

=============================================================================
