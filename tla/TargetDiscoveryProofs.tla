----------------------- MODULE TargetDiscoveryProofs ------------------------
(***************************************************************************)
(* For every number of disks and installed systems and every fault: the    *)
(* screens of the GUI learn of the discovery's end, and list disks, only   *)
(* when the lists are complete, and afterwards nobody writes the lists.    *)
(* The invariant follows the discovery thread: what system_disks, dparts   *)
(* and dslices hold is determined by the phase it is in.                   *)
(***************************************************************************)
EXTENDS TargetDiscovery, TLAPS

Early == {"idle", "disks", "exit"}
Late  == {"instances", "report", "done", "release", "ended"}

(* Everything that can be read is in the lists.                            *)
Dissected == /\ systemDisks = Readable(disks)
             /\ dparts = systemDisks /\ dslices = systemDisks

Machine    == \E n \in 0..MaxDisks : disks \in [1..n -> DiskKinds]
PhaseOK    == tdPc \in Early \cup {"parts", "slices"} \cup Late
EarlyOK    == tdPc \in Early =>
                systemDisks = {} /\ dparts = {} /\ dslices = {}
DisksOK    == tdPc = "disks" =>
                i \in Nat \ {0} /\ found = {n \in Readable(disks) : n < i}
PartsOK    == tdPc = "parts" => /\ systemDisks = Readable(disks)
                                /\ dparts \subseteq systemDisks /\ dslices = {}
SlicesOK   == tdPc = "slices" => /\ systemDisks = Readable(disks)
                                 /\ dparts = systemDisks
                                 /\ dslices \subseteq systemDisks
LateOK     == tdPc \in Late => Dissected
DoneOK     == discoveryDone => tdPc \in {"release", "ended"}
UpgradeOK  == "upgrade" \in milestones => tdPc \in Late
ScreensOK  == /\ DOMAIN screens = {"disk", "upgrade"}
              /\ \A s \in {"disk", "upgrade"} : screens[s].listed # {} =>
                   tdPc \in Late /\ screens[s].listed = Readable(disks)

TInv == /\ Machine /\ PhaseOK /\ EarlyOK /\ DisksOK /\ PartsOK /\ SlicesOK
        /\ LateOK /\ DoneOK /\ UpgradeOK /\ ScreensOK

-----------------------------------------------------------------------------
(* The phase of the lists: all of TInv but what the main loop sees.        *)
Lists == Machine /\ PhaseOK /\ EarlyOK /\ DisksOK /\ PartsOK /\ SlicesOK /\ LateOK

LEMMA TInitially == TdInit => TInv
  BY DEF TdInit, TInv, Machine, PhaseOK, EarlyOK, DisksOK, PartsOK, SlicesOK,
         LateOK, DoneOK, UpgradeOK, ScreensOK, Early, Late, Pending

(* When the counter has left the machine's disks, every disk was visited.  *)
LEMMA AllVisited ==
  ASSUME Machine, i \in Nat \ {0}, i \notin DOMAIN disks
  PROVE  {n \in Readable(disks) : n < i} = Readable(disks)
<1>1. PICK m \in 0..MaxDisks : disks \in [1..m -> DiskKinds]
  BY DEF Machine
<1>2. DOMAIN disks = 1..m /\ m \in Nat
  BY <1>1, BoundsAssumption
<1>3. \A n \in DOMAIN disks : n < i
  BY <1>2
<1> QED
  BY <1>3 DEF Readable

(* A callback of another milestone does not complete the last one.         *)
LEMMA OtherCallbacks ==
  ASSUME NEW m \in Milestones \ {"upgrade"}, NEW p,
         "upgrade" \notin milestones, Callback(m, p) \/ LastCallback(m)
  PROVE  "upgrade" \notin milestones'
  BY DEF Callback, LastCallback, Milestones

(* No disks, nothing to read.                                              *)
LEMMA NoDisks == disks = <<>> => Readable(disks) = {}
  BY DEF Readable

LEMMA TKept == TInv /\ [TdNext]_tdVars => TInv'
<1> SUFFICES ASSUME TInv, [TdNext]_tdVars PROVE TInv'
  OBVIOUS
<1> USE DEF TInv, Machine, PhaseOK, EarlyOK, DisksOK, PartsOK, SlicesOK, LateOK,
            DoneOK, UpgradeOK, Early, Late, Dissected, Goto, machine, thread,
            cache, guiSide
<1>1. CASE StartDiscovery
  <2>1. Readable(disks)' = Readable(disks)
    BY <1>1 DEF StartDiscovery
  <2>2. UNCHANGED <<disks, screens, systemDisks, dparts, dslices, discoveryDone,
                    milestones>> /\ tdPc = "idle"
    BY <1>1 DEF StartDiscovery
  <2>3. CASE tdPc' = "report" /\ disks = <<>>
    BY <2>1, <2>2, <2>3, NoDisks DEF ScreensOK
  <2>4. CASE tdPc' = "exit"
    BY <2>1, <2>2, <2>4 DEF ScreensOK
  <2>5. CASE tdPc' = "disks" /\ i' = 1 /\ found' = {}
    <3>1. {n \in Readable(disks) : n < 1} = {}
      BY DEF Readable
    <3> QED
      BY <2>1, <2>2, <2>5, <3>1 DEF ScreensOK
  <2> QED
    BY <1>1, <2>3, <2>4, <2>5 DEF StartDiscovery
<1>2. CASE EnumerateDisk
  <2>1. "upgrade" \notin milestones'
    BY <1>2, OtherCallbacks DEF EnumerateDisk, Milestones
  <2>2. UNCHANGED <<disks, screens, systemDisks, dparts, dslices, discoveryDone,
                    tdPc>> /\ tdPc = "disks" /\ i' = i + 1 /\ i \in DOMAIN disks
    BY <1>2 DEF EnumerateDisk
  <2>3. found' = {n \in Readable(disks) : n < i + 1}
    <3>1. \A n \in DOMAIN disks : n < i + 1 <=> n < i \/ n = i
      <4>1. PICK m \in 0..MaxDisks : disks \in [1..m -> DiskKinds]
        OBVIOUS
      <4> QED
        BY <4>1, <2>2
    <3>2. CASE disks[i] = "readable"
      BY <3>1, <3>2, <1>2, <2>2 DEF EnumerateDisk, Readable
    <3>3. CASE disks[i] # "readable"
      BY <3>1, <3>3, <1>2, <2>2 DEF EnumerateDisk, Readable
    <3> QED
      BY <3>2, <3>3
  <2>4. Readable(disks)' = Readable(disks)
    BY <2>2
  <2> QED
    BY <2>1, <2>2, <2>3, <2>4 DEF ScreensOK
<1>3. CASE DisksEnumerated
  <2>1. "upgrade" \notin milestones'
    BY <1>3, OtherCallbacks DEF DisksEnumerated, Milestones
  <2>2. UNCHANGED <<disks, screens, dparts, dslices, discoveryDone>>
          /\ tdPc = "disks" /\ tdPc' \in {"report", "parts"}
          /\ (tdPc' = "report" => found = {}) /\ systemDisks' = found
    BY <1>3 DEF DisksEnumerated
  <2>3. found = Readable(disks)
    BY <1>3, AllVisited DEF DisksEnumerated
  <2>4. Readable(disks)' = Readable(disks)
    BY <2>2
  <2> QED
    BY <2>1, <2>2, <2>3, <2>4 DEF ScreensOK
<1>4. CASE EnumeratePartitions
  <2>1. "upgrade" \notin milestones'
    BY <1>4, OtherCallbacks DEF EnumeratePartitions, Milestones
  <2>2. UNCHANGED <<disks, screens, systemDisks, dslices, discoveryDone, tdPc>>
          /\ tdPc = "parts" /\ dparts' \subseteq systemDisks
    BY <1>4 DEF EnumeratePartitions
  <2>3. Readable(disks)' = Readable(disks)
    BY <2>2
  <2> QED
    BY <2>1, <2>2, <2>3 DEF ScreensOK
<1>5. CASE PartitionsEnumerated
  <2>1. "upgrade" \notin milestones'
    BY <1>5, OtherCallbacks DEF PartitionsEnumerated, Milestones
  <2>2. UNCHANGED <<disks, screens, cache, discoveryDone>> /\ tdPc = "parts"
          /\ tdPc' = "slices" /\ systemDisks \subseteq dparts
    BY <1>5 DEF PartitionsEnumerated
  <2>3. Readable(disks)' = Readable(disks)
    BY <2>2
  <2> QED
    BY <2>1, <2>2, <2>3 DEF ScreensOK
<1>6. CASE EnumerateSlices
  <2>1. "upgrade" \notin milestones'
    BY <1>6, OtherCallbacks DEF EnumerateSlices, Milestones
  <2>2. UNCHANGED <<disks, screens, systemDisks, dparts, discoveryDone, tdPc>>
          /\ tdPc = "slices" /\ dslices' \subseteq systemDisks
    BY <1>6 DEF EnumerateSlices
  <2>3. Readable(disks)' = Readable(disks)
    BY <2>2
  <2> QED
    BY <2>1, <2>2, <2>3 DEF ScreensOK
<1>7. CASE SlicesEnumerated
  <2>1. "upgrade" \notin milestones'
    BY <1>7, OtherCallbacks DEF SlicesEnumerated, Milestones
  <2>2. UNCHANGED <<disks, screens, cache, discoveryDone>> /\ tdPc = "slices"
          /\ tdPc' = "instances" /\ systemDisks \subseteq dslices
    BY <1>7 DEF SlicesEnumerated
  <2>3. Readable(disks)' = Readable(disks)
    BY <2>2
  <2> QED
    BY <2>1, <2>2, <2>3 DEF ScreensOK
<1>8. CASE \/ NoInstances \/ EnumerateInstance \/ InstancesEnumerated
           \/ SendDiscoveryComplete \/ DiscoveryDone \/ Release
  <2>1. UNCHANGED <<disks, screens, systemDisks, dparts, dslices>>
          /\ tdPc \in Late /\ tdPc' \in Late
    BY <1>8 DEF NoInstances, EnumerateInstance, InstancesEnumerated,
                SendDiscoveryComplete, DiscoveryDone, Release
  <2>2. DoneOK'
    BY <1>8 DEF NoInstances, EnumerateInstance, InstancesEnumerated,
                SendDiscoveryComplete, DiscoveryDone, Release
  <2>3. Readable(disks)' = Readable(disks)
    BY <2>1
  <2> QED
    BY <2>1, <2>2, <2>3 DEF ScreensOK
<1>9. CASE \E s \in {"disk", "upgrade"} : DiscoveryMonitor(s)
  <2>1. PICK s \in {"disk", "upgrade"} : DiscoveryMonitor(s)
    BY <1>9
  <2>2. UNCHANGED <<machine, thread, cache, discoveryDone, milestones>>
          /\ tdPc \in Late
    BY <2>1 DEF DiscoveryMonitor
  <2>3. PICK info \in DiskInfo : screens' = [screens EXCEPT ![s] =
                                      [state |-> "shown", listed |-> info]]
    BY <2>1 DEF DiscoveryMonitor
  <2>4. info = {} \/ info = Readable(disks)
    BY <2>2, <2>3 DEF DiskInfo
  <2>5. Readable(disks)' = Readable(disks)
    BY <2>2
  <2>6. ScreensOK'
    BY <2>2, <2>3, <2>4, <2>5 DEF ScreensOK
  <2> QED
    BY <2>2, <2>5, <2>6
<1>10. CASE RescanInstances \/ Idle \/ UNCHANGED tdVars
  <2>1. UNCHANGED <<machine, thread, systemDisks, dparts, dslices, discoveryDone,
                    milestones, screens>>
    BY <1>10 DEF RescanInstances, Idle, tdVars
  <2>2. Readable(disks)' = Readable(disks)
    BY <2>1
  <2> QED
    BY <2>1, <2>2 DEF ScreensOK
<1> HIDE DEF TInv, Machine, PhaseOK, EarlyOK, DisksOK, PartsOK, SlicesOK, LateOK,
            DoneOK, UpgradeOK, Early, Late, Dissected, Goto, machine, thread,
            cache, guiSide
<1> QED
  BY <1>1, <1>2, <1>3, <1>4, <1>5, <1>6, <1>7, <1>8, <1>9, <1>10
     DEF TdNext, DiscoveryThread, MainLoop

(* The phases of the discovery thread determine its lists.                 *)
THEOREM DiscoveryInvariant == TdSpec => []TInv
  BY TInitially, TKept, PTL DEF TdSpec

(* handle_disk_discovery: the milestone the screens poll is complete only  *)
(* when every readable disk, its partitions and slices are in the lists.   *)
THEOREM CompletionIsTrue == TdSpec => []CompleteMeansDiscovered
<1>1. TInv => CompleteMeansDiscovered
  BY DEF TInv, UpgradeOK, LateOK, Dissected, CompleteMeansDiscovered
<1> QED
  BY <1>1, DiscoveryInvariant, PTL

(* om_get_disk_info: a screen that lists disks lists all that are readable *)
(* and can ask for the partitions and slices of each.                      *)
THEOREM ListsAreComplete == TdSpec => []ListedDisksAreDissected
<1>1. TInv => ListedDisksAreDissected
  BY DEF TInv, ScreensOK, LateOK, Dissected, ListedDisksAreDissected
<1> QED
  BY <1>1, DiscoveryInvariant, PTL

(* disk_discovery_done: after it the lists are read without a lock, and    *)
(* rightly so: no step of either thread changes them.                      *)
THEOREM ListsStayStable == TdSpec => ListsAreStable
<1>1. TInv /\ [TdNext]_tdVars =>
        (discoveryDone => UNCHANGED <<systemDisks, dparts, dslices>>)
  BY DEF TInv, DoneOK, TdNext, DiscoveryThread, MainLoop, StartDiscovery,
         EnumerateDisk, DisksEnumerated, EnumeratePartitions,
         PartitionsEnumerated, EnumerateSlices, SlicesEnumerated, NoInstances,
         EnumerateInstance, InstancesEnumerated, SendDiscoveryComplete,
         DiscoveryDone, Release, DiscoveryMonitor, RescanInstances, Idle,
         tdVars, machine, thread, cache, guiSide
<1> QED
  BY <1>1, DiscoveryInvariant, PTL DEF TdSpec, ListsAreStable
=============================================================================
