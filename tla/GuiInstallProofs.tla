-------------------------- MODULE GuiInstallProofs --------------------------
(***************************************************************************)
(* Theorems about the installation engine, for every set of requests,      *)
(* every number of processes and every set of faults, and about the GUI    *)
(* installer over it: what it tells the user is true, and it implements    *)
(* the contract.                                                           *)
(***************************************************************************)
EXTENDS GuiInstall, TLAPS

-----------------------------------------------------------------------------
(* The engine: the inductive invariant *)

CallBeforeTi == {"idle", "validate", "pool_check", "release", "breakpoint",
                 "spawn_ti"}

(* The caller starts do_ti before do_transfer, and do_transfer gets past   *)
(* pthread_join only when do_ti has ended well.                            *)
Control ==
  /\ callPc \in CallBeforeTi => tiPc = "idle"
  /\ callPc \in CallBeforeTi \cup {"spawn_transfer"} => xPc = "idle"
  /\ callPc = "spawn_transfer" => tiPc # "idle"
  /\ tiPc = "idle" => xPc = "idle"
  /\ tiPc # "idle" /\ xPc \in {"idle", "join"} => tiRet = 0
  /\ tiPc \notin {"report", "exited"} => tiStatus = 0
  /\ xPc \notin {"idle", "join"} => tiPc = "exited"
  /\ xPc \notin {"idle", "join", "exited"} => tiStatus = 0
  /\ xPc # "idle" => callRet = "OM_SUCCESS"

(* do_ti owns the pool from zpool create on, and has a boot environment in *)
(* it when it ends well.                                                   *)
TargetKnown ==
  /\ pool = "absent" => owner = "nobody"
  /\ pool = "busy" => owner = "installer"
  /\ tiPc = "pool_busy" => pool = "unmarked" /\ owner = "installer"
  /\ tiPc \in {"zvol", "be"} => pool = "busy"
  /\ tiPc \in {"report", "exited"} /\ tiStatus = 0 /\ xPc \in {"idle", "join"}
       => pool = "busy" /\ "be" \in image

(* The position of a control point of do_transfer among its completion     *)
(* tasks.                                                                  *)
Rank(pc) ==
  CASE pc = "locale" -> 1         [] pc = "user_dir" -> 2
    [] pc = "user_profile" -> 3   [] pc = "vfstab" -> 4
    [] pc = "hostname" -> 5       [] pc = "activate_be" -> 6
    [] pc = "installboot" -> 7    [] pc = "install_finish" -> 8
    [] pc = "snapshot" -> 9       [] pc = "mark_ready" -> 10
    [] pc = "reset_mounts" -> 11  [] pc = "notify" -> 12
    [] OTHER -> 0

(* After the transfer the software is there, and as long as status is 0 so *)
(* is the work of every completion task passed.                            *)
TransferKnown ==
  Rank(xPc) > 0 =>
    /\ "software" \in image
    /\ xStatus = 0 => \A s \in CheckedIcts :
                        Rank(s) < Rank(xPc) /\ IctApplies(choices, s)
                          => s \in image

(* swap_device is chosen when the label is written; the pool made after it *)
(* has no volumes until do_ti adds them, and then the choice agrees with   *)
(* them as long as do_ti goes well.                                        *)
SwapAgrees ==
  /\ choices.swapSlice => swapDevice = "slice"
  /\ "swap" \in zvols => swapDevice = "zvol"

SwapKnown ==
  /\ pool = "absent" \/ tiPc \in {"pool_busy", "zvol"} => zvols = {}
  /\ tiPc \in {"pool", "pool_create", "pool_busy", "zvol"}
       => swapDevice = IF choices.swapSlice THEN "slice" ELSE "zvol"
  /\ tiPc = "be" \/ (tiPc \in {"report", "exited"} /\ tiStatus = 0)
       => SwapAgrees

IInv == /\ TypeOK /\ Control /\ TargetKnown /\ TransferKnown /\ SwapKnown
        /\ TransferHasTarget /\ ReadyIsPopulated /\ SuccessIsComplete

(* Facts about the sets the types are made of.                             *)
LEMMA CallbackTypes ==
  /\ \A m \in Milestones, p \in Percents : Progress(m, p) \in Callbacks
  /\ \A c \in FailureCodes : Failure(c) \in Callbacks
  /\ NoCb \in Callbacks
  BY DEF Callbacks

(* What do_ti, the transfer and the completion tasks add to the image is   *)
(* of its type.                                                            *)
LEMMA ImageTypes ==
  "be" \in ImageParts /\ "software" \in ImageParts /\ Icts \subseteq ImageParts
  BY DEF ImageParts

(* A request for volumes names volumes.                                    *)
LEMMA PlannedTypes ==
  \A c : /\ RequestedVolumes(c) \subseteq Volumes
         /\ MinimalVolumes(c) \subseteq Volumes
  BY DEF RequestedVolumes, MinimalVolumes, Volumes

(* Whatever volumes it makes, this part of do_ti goes on or fails, and     *)
(* touches nothing else the invariant speaks of.                           *)
LEMMA SwapAndDumpOutcome ==
  CreateSwapAndDump =>
    /\ tiPc = "zvol"
    /\ TiDone("be", 80) \/ \E e \in {"same", "CANT_CREATE_ZVOL"} : TiFail(e)
    /\ UNCHANGED <<pool, owner, image, vfstab, call, xfer, request, tiRet>>
  BY DEF CreateSwapAndDump, SkipVolumes, CreateVolumes, VolumesCreated,
         VolumesFailed

-----------------------------------------------------------------------------
(* Every step preserves each part of the invariant *)

(* Every step keeps the types; pthread_join adds a status to a ti_ret that *)
(* was 0.                                                                  *)
LEMMA TypeStep ==
  ASSUME TypeOK, Control, [Next]_omVars
  PROVE  TypeOK'
<1> USE DEF TypeOK, Control, CallPcs, TiPcs, XPcs,
            OmErrors, Milestones, Percents, FailureCodes
<1>1. CASE Call
  BY <1>1, CallbackTypes, ImageTypes, RunsAssumption DEF Call, GoOn,
     NoCallback, disk, ti, xfer, request
<1>2. CASE ClientResumes
  BY <1>2, CallbackTypes, ImageTypes, RunsAssumption DEF ClientResumes,
     GoOn, NoCallback, disk, ti, xfer, request
<1>3. CASE Validate
  BY <1>3, CallbackTypes, ImageTypes, RunsAssumption DEF Validate, GoOn,
     Return, NoCallback, disk, ti, xfer, request
<1>4. CASE PoolCheck
  BY <1>4, CallbackTypes, ImageTypes, RunsAssumption DEF PoolCheck, GoOn,
     Return, NoCallback, disk, ti, xfer, request, ListedAbsent, MayRelease
<1>5. CASE ReleasePool
  BY <1>5, CallbackTypes, ImageTypes, RunsAssumption DEF ReleasePool, GoOn,
     Return, DestroyPool, NoCallback, disk, ti, xfer, request
<1>6. CASE PassBreakpoint
  BY <1>6, CallbackTypes, ImageTypes, RunsAssumption DEF PassBreakpoint,
     GoOn, NoCallback, disk, ti, xfer, request
<1>7. CASE SpawnTI
  BY <1>7, CallbackTypes, ImageTypes, RunsAssumption DEF SpawnTI, GoOn,
     Return, NoCallback, disk, xfer, request
<1>8. CASE SpawnTransfer
  BY <1>8, CallbackTypes, ImageTypes, RunsAssumption DEF SpawnTransfer,
     Return, NoCallback, disk, ti, request
<1>9. CASE CreateFdisk
  BY <1>9, CallbackTypes, ImageTypes, RunsAssumption DEF CreateFdisk,
     TiDone, TiFail, NoCallback, disk, call, xfer, request
<1>10. CASE CreateVtoc
  BY <1>10, CallbackTypes, ImageTypes, RunsAssumption DEF CreateVtoc,
     TiDone, TiFail, NoCallback, disk, call, xfer, request
<1>11. CASE DestroyExistingPool
  BY <1>11, CallbackTypes, ImageTypes, RunsAssumption DEF
     DestroyExistingPool, TiGoOn, TiFail, DestroyPool, ListedAbsent,
     NoCallback, disk, call, xfer, request
<1>12. CASE CreatePool
  BY <1>12, CallbackTypes, ImageTypes, RunsAssumption DEF CreatePool,
     TiGoOn, TiFail, NoCallback, call, xfer, request
<1>13. CASE MarkPoolBusy
  BY <1>13, CallbackTypes, ImageTypes, RunsAssumption DEF MarkPoolBusy,
     TiDone, TiFail, NoCallback, call, xfer, request
<1>14. CASE CreateSwapAndDump
  <2>1. CASE SkipVolumes
    BY <1>14, <2>1, CallbackTypes
       DEF CreateSwapAndDump, SkipVolumes, TiDone, call, xfer, request
  <2>2. ASSUME NEW v \in SUBSET Volumes, CreateVolumes(v), UNCHANGED swapDevice
        PROVE  TypeOK'
    <3>1. zvols' \subseteq Volumes
      BY <2>2 DEF CreateVolumes, VolumesCreated, VolumesFailed, Volumes
    <3>2. /\ tiPc' \in TiPcs /\ tiStatus' \in {0, -1}
          /\ omErrno' \in OmErrors /\ cb' \in Callbacks
      BY <2>2, CallbackTypes
         DEF CreateVolumes, VolumesCreated, VolumesFailed, TiDone, TiFail,
             NoCallback
    <3> QED
      BY <1>14, <2>2, <3>1, <3>2 DEF CreateSwapAndDump, call, xfer, request
  <2> QED
    BY <1>14, <2>1, <2>2, PlannedTypes DEF CreateSwapAndDump
<1>15. CASE CreateBE
  BY <1>15, CallbackTypes, ImageTypes, RunsAssumption DEF CreateBE, TiDone,
     TiFail, NoCallback, call, xfer, request
<1>16. CASE TiReport
  BY <1>16, CallbackTypes, ImageTypes, RunsAssumption DEF TiReport,
     NotifyErrorStatus, disk, call, xfer, request
<1>17. CASE JoinTI
  BY <1>17, CallbackTypes, ImageTypes, RunsAssumption DEF JoinTI,
     TransferExit, TargetFailed, NotifyErrorStatus, NoCallback, disk, call, ti,
     request
<1>18. CASE HandleTMCallback
  BY <1>18, CallbackTypes, ImageTypes, RunsAssumption DEF HandleTMCallback,
     disk, call, ti, xfer, request
<1>19. CASE PerformTransfer
  <2>1. xPc' \in XPcs /\ xStatus' \in {0, -1} /\ cb' \in Callbacks
    BY <1>19, CallbackTypes
       DEF PerformTransfer, TransferExit, NotifyErrorStatus, NoCallback, Icts
  <2>2. image' \subseteq ImageParts /\ phase' \in Nat
    BY <1>19, ImageTypes DEF PerformTransfer
  <2> QED
    BY <1>19, <2>1, <2>2 DEF PerformTransfer, call, ti, request
<1>20. CASE PlainIct
  <2>1. xPc' \in XPcs /\ xStatus' \in {0, -1} /\ cb' \in Callbacks
    BY <1>20, CallbackTypes DEF PlainIct, Ict, NoteFailure, NoCallback, Icts
  <2>2. image' \subseteq ImageParts
    BY <1>20, ImageTypes DEF PlainIct, Ict, Icts
  <2> QED
    BY <1>20, <2>1, <2>2 DEF PlainIct, Ict, call, ti, request
<1>21. CASE SetupEtcVfstabForSwap
  <2>1. vfstab' \in {"none", "slice", "zvol"}
    BY <1>21 DEF SetupEtcVfstabForSwap
  <2> QED
    BY <1>21, <2>1, CallbackTypes, SMTT(30)
       DEF SetupEtcVfstabForSwap, NoCallback, call, ti, request, Icts
<1>22. CASE MarkRootPoolReady
  <2>1. xPc' \in XPcs /\ xStatus' \in {0, -1} /\ cb' \in Callbacks
    BY <1>22, CallbackTypes DEF MarkRootPoolReady, Ict, NoteFailure, NoCallback, Icts
  <2>2. image' \subseteq ImageParts
    BY <1>22, ImageTypes DEF MarkRootPoolReady, Ict, Icts
  <2> QED
    BY <1>22, <2>1, <2>2 DEF MarkRootPoolReady, Ict, call, ti, request
<1>23. CASE NotifyCaller
  BY <1>23, CallbackTypes, ImageTypes, RunsAssumption DEF NotifyCaller,
     NotifyInstallComplete, NotifyErrorStatus, disk, call, ti, request
<1>24. CASE ImportPool
  BY <1>24, CallbackTypes, ImageTypes, RunsAssumption DEF ImportPool,
     NoCallback, call, ti, xfer, request
<1>25. CASE Restart
  BY <1>25, CallbackTypes, ImageTypes, RunsAssumption DEF Restart,
     FreshProcess, NoCallback, disk
<1>26. CASE UNCHANGED omVars
  BY <1>26 DEF omVars, disk, call, ti, xfer, request
<1> HIDE DEF TypeOK, Control, CallPcs, TiPcs, XPcs,
            OmErrors, Milestones, Percents, FailureCodes
<1> QED
  BY <1>1, <1>2, <1>3, <1>4, <1>5, <1>6, <1>7, <1>8, <1>9, <1>10, <1>11,
     <1>12, <1>13, <1>14, <1>15, <1>16, <1>17, <1>18, <1>19, <1>20, <1>21,
     <1>22, <1>23, <1>24, <1>25, <1>26 DEF Next, Engine, CallStep, TiStep,
     TransferStep

(* Every step keeps the order of the three threads and the hand-over of    *)
(* the pool: only do_ti works on it once it is created, and do_transfer    *)
(* comes after it.                                                         *)
LEMMA PlaceStep ==
  ASSUME TypeOK, Control, TargetKnown, TransferHasTarget, [Next]_omVars
  PROVE  (Control /\ TargetKnown /\ TransferHasTarget)'
<1> USE DEF TypeOK, Control, TargetKnown, TransferHasTarget,
            CallBeforeTi, CallPcs, TiPcs, XPcs
<1>1. CASE Call
  BY <1>1 DEF Call, GoOn, NoCallback, disk, ti, xfer, request
<1>2. CASE ClientResumes
  BY <1>2 DEF ClientResumes, GoOn, NoCallback, disk, ti, xfer, request
<1>3. CASE Validate
  BY <1>3 DEF Validate, GoOn, Return, NoCallback, disk, ti, xfer, request
<1>4. CASE PoolCheck
  BY <1>4 DEF PoolCheck, GoOn, Return, NoCallback, disk, ti, xfer, request,
     ListedAbsent, MayRelease
<1>5. CASE ReleasePool
  BY <1>5 DEF ReleasePool, GoOn, Return, DestroyPool, NoCallback, disk, ti,
     xfer, request
<1>6. CASE PassBreakpoint
  BY <1>6 DEF PassBreakpoint, GoOn, NoCallback, disk, ti, xfer, request
<1>7. CASE SpawnTI
  BY <1>7 DEF SpawnTI, GoOn, Return, NoCallback, disk, xfer, request
<1>8. CASE SpawnTransfer
  BY <1>8 DEF SpawnTransfer, Return, NoCallback, disk, ti, request
<1>9. CASE CreateFdisk
  BY <1>9 DEF CreateFdisk, TiDone, TiFail, NoCallback, disk, call, xfer,
     request
<1>10. CASE CreateVtoc
  BY <1>10 DEF CreateVtoc, TiDone, TiFail, NoCallback, disk, call, xfer,
     request
<1>11. CASE DestroyExistingPool
  BY <1>11 DEF DestroyExistingPool, TiGoOn, TiFail, DestroyPool,
     ListedAbsent, NoCallback, disk, call, xfer, request
<1>12. CASE CreatePool
  BY <1>12 DEF CreatePool, TiGoOn, TiFail, NoCallback, call, xfer, request
<1>13. CASE MarkPoolBusy
  BY <1>13 DEF MarkPoolBusy, TiDone, TiFail, NoCallback, call, xfer, request
<1>14. CASE CreateSwapAndDump
  BY <1>14, SwapAndDumpOutcome DEF TiDone, TiFail, NoCallback, call, xfer,
     request
<1>15. CASE CreateBE
  BY <1>15 DEF CreateBE, TiDone, TiFail, NoCallback, call, xfer, request
<1>16. CASE TiReport
  BY <1>16 DEF TiReport, NotifyErrorStatus, disk, call, xfer, request
<1>17. CASE JoinTI
  BY <1>17 DEF JoinTI, TransferExit, TargetFailed, NotifyErrorStatus,
     NoCallback, disk, call, ti, request
<1>18. CASE HandleTMCallback
  BY <1>18 DEF HandleTMCallback, disk, call, ti, xfer, request
<1>19. CASE PerformTransfer
  BY <1>19 DEF PerformTransfer, TransferExit, NotifyErrorStatus, NoCallback,
     call, ti, request
<1>20. CASE PlainIct
  BY <1>20 DEF PlainIct, Ict, NoteFailure, NoCallback, call, ti, request,
     Icts
<1>21. CASE SetupEtcVfstabForSwap
  BY <1>21 DEF SetupEtcVfstabForSwap, NoCallback, call, ti, request
<1>22. CASE MarkRootPoolReady
  BY <1>22 DEF MarkRootPoolReady, Ict, NoteFailure, NoCallback, call, ti,
     request, Icts
<1>23. CASE NotifyCaller
  BY <1>23 DEF NotifyCaller, NotifyInstallComplete, NotifyErrorStatus, disk,
     call, ti, request
<1>24. CASE ImportPool
  BY <1>24 DEF ImportPool, NoCallback, call, ti, xfer, request
<1>25. CASE Restart
  BY <1>25 DEF Restart, FreshProcess, NoCallback, disk
<1>26. CASE UNCHANGED omVars
  BY <1>26 DEF omVars, disk, call, ti, xfer, request
<1> HIDE DEF TypeOK, Control, TargetKnown, TransferHasTarget,
            CallBeforeTi, CallPcs, TiPcs, XPcs
<1> QED
  BY <1>1, <1>2, <1>3, <1>4, <1>5, <1>6, <1>7, <1>8, <1>9, <1>10, <1>11,
     <1>12, <1>13, <1>14, <1>15, <1>16, <1>17, <1>18, <1>19, <1>20, <1>21,
     <1>22, <1>23, <1>24, <1>25, <1>26 DEF Next, Engine, CallStep, TiStep,
     TransferStep

(* What the transfer and the completion tasks have done stays recorded; so *)
(* only a populated pool is marked ready, and the success callback ends a  *)
(* run without failures.                                                   *)
LEMMA KnownStep ==
  ASSUME TypeOK, Control, TargetKnown, TransferKnown, TransferHasTarget,
         ReadyIsPopulated, SuccessIsComplete, [Next]_omVars
  PROVE  (TransferKnown /\ ReadyIsPopulated /\ SuccessIsComplete)'
<1> USE DEF TypeOK, Control, TargetKnown, TransferKnown, ReadyIsPopulated,
            Rank, SuccessIsComplete, Progress, Failure, NoCb
<1>1. CASE Call
  BY <1>1 DEF Call, GoOn, NoCallback, disk, ti, xfer, request
<1>2. CASE ClientResumes
  BY <1>2 DEF ClientResumes, GoOn, NoCallback, disk, ti, xfer, request
<1>3. CASE Validate
  BY <1>3 DEF Validate, GoOn, Return, NoCallback, disk, ti, xfer, request
<1>4. CASE PoolCheck
  BY <1>4 DEF PoolCheck, GoOn, Return, NoCallback, disk, ti, xfer, request,
     ListedAbsent, MayRelease
<1>5. CASE ReleasePool
  BY <1>5 DEF ReleasePool, GoOn, Return, DestroyPool, NoCallback, disk, ti,
     xfer, request, CallBeforeTi
<1>6. CASE PassBreakpoint
  BY <1>6 DEF PassBreakpoint, GoOn, NoCallback, disk, ti, xfer, request
<1>7. CASE SpawnTI
  BY <1>7 DEF SpawnTI, GoOn, Return, NoCallback, disk, xfer, request
<1>8. CASE SpawnTransfer
  BY <1>8 DEF SpawnTransfer, Return, NoCallback, disk, ti, request
<1>9. CASE CreateFdisk
  BY <1>9 DEF CreateFdisk, TiDone, TiFail, NoCallback, disk, call, xfer,
     request
<1>10. CASE CreateVtoc
  BY <1>10 DEF CreateVtoc, TiDone, TiFail, NoCallback, disk, call, xfer,
     request
<1>11. CASE DestroyExistingPool
  BY <1>11 DEF DestroyExistingPool, TiGoOn, TiFail, DestroyPool,
     ListedAbsent, NoCallback, disk, call, xfer, request
<1>12. CASE CreatePool
  BY <1>12 DEF CreatePool, TiGoOn, TiFail, NoCallback, call, xfer, request
<1>13. CASE MarkPoolBusy
  BY <1>13 DEF MarkPoolBusy, TiDone, TiFail, NoCallback, call, xfer, request
<1>14. CASE CreateSwapAndDump
  BY <1>14, SwapAndDumpOutcome DEF TiDone, TiFail, NoCallback, call, xfer,
     request
<1>15. CASE CreateBE
  BY <1>15 DEF CreateBE, TiDone, TiFail, NoCallback, call, xfer, request
<1>16. CASE TiReport
  BY <1>16 DEF TiReport, NotifyErrorStatus, disk, call, xfer, request
<1>17. CASE JoinTI
  BY <1>17 DEF JoinTI, TransferExit, TargetFailed, NotifyErrorStatus,
     NoCallback, disk, call, ti, request
<1>18. CASE HandleTMCallback
  BY <1>18 DEF HandleTMCallback, disk, call, ti, xfer, request
<1>19. CASE PerformTransfer
  BY <1>19 DEF PerformTransfer, TransferExit, NotifyErrorStatus, NoCallback,
     call, ti, request, Icts, CheckedIcts
<1>20. CASE PlainIct
  <2>1. TransferKnown'
    BY <1>20 DEF PlainIct, Ict, NoteFailure, NoCallback, call, ti, request,
             Icts, CheckedIcts, IctApplies
  <2>2. ReadyIsPopulated' /\ SuccessIsComplete'
    BY <1>20 DEF PlainIct, Ict, NoCallback
  <2> QED
    BY <2>1, <2>2
<1>21. CASE SetupEtcVfstabForSwap
  BY <1>21 DEF SetupEtcVfstabForSwap, NoCallback, call, ti, request, Icts,
     CheckedIcts
<1>22. CASE MarkRootPoolReady
  BY <1>22 DEF MarkRootPoolReady, Ict, NoteFailure, NoCallback, call, ti,
     request, Icts, CheckedIcts, IctApplies, TransferHasTarget
<1>23. CASE NotifyCaller
  BY <1>23 DEF NotifyCaller, NotifyInstallComplete, NotifyErrorStatus, disk,
     call, ti, request, TransferHasTarget, CheckedIcts, Icts, IctApplies
<1>24. CASE ImportPool
  BY <1>24 DEF ImportPool, NoCallback, call, ti, xfer, request
<1>25. CASE Restart
  BY <1>25 DEF Restart, FreshProcess, NoCallback, disk
<1>26. CASE UNCHANGED omVars
  BY <1>26 DEF omVars, disk, call, ti, xfer, request
<1> HIDE DEF TypeOK, Control, TargetKnown, TransferKnown, ReadyIsPopulated,
            Rank, SuccessIsComplete, Progress, Failure, NoCb
<1> QED
  BY <1>1, <1>2, <1>3, <1>4, <1>5, <1>6, <1>7, <1>8, <1>9, <1>10, <1>11,
     <1>12, <1>13, <1>14, <1>15, <1>16, <1>17, <1>18, <1>19, <1>20, <1>21,
     <1>22, <1>23, <1>24, <1>25, <1>26 DEF Next, Engine, CallStep, TiStep,
     TransferStep

(* The choice of the swap device and the volumes that exist agree.         *)
LEMMA SwapStep ==
  ASSUME TypeOK, Control, TargetKnown, SwapKnown, [Next]_omVars
  PROVE  SwapKnown'
<1> USE DEF TypeOK, Control, TargetKnown, SwapKnown, SwapAgrees,
            CallBeforeTi
<1>1. CASE Call
  BY <1>1 DEF Call, GoOn, NoCallback, disk, ti, xfer, request
<1>2. CASE ClientResumes
  BY <1>2 DEF ClientResumes, GoOn, NoCallback, disk, ti, xfer, request
<1>3. CASE Validate
  BY <1>3 DEF Validate, GoOn, Return, NoCallback, disk, ti, xfer, request
<1>4. CASE PoolCheck
  BY <1>4 DEF PoolCheck, GoOn, Return, NoCallback, disk, ti, xfer, request,
     ListedAbsent, MayRelease
<1>5. CASE ReleasePool
  BY <1>5 DEF ReleasePool, GoOn, Return, DestroyPool, NoCallback, disk, ti,
     xfer, request
<1>6. CASE PassBreakpoint
  BY <1>6 DEF PassBreakpoint, GoOn, NoCallback, disk, ti, xfer, request
<1>7. CASE SpawnTI
  BY <1>7 DEF SpawnTI, GoOn, Return, NoCallback, disk, xfer, request
<1>8. CASE SpawnTransfer
  BY <1>8 DEF SpawnTransfer, Return, NoCallback, disk, ti, request
<1>9. CASE CreateFdisk
  BY <1>9 DEF CreateFdisk, TiDone, TiFail, NoCallback, disk, call, xfer,
     request
<1>10. CASE CreateVtoc
  BY <1>10 DEF CreateVtoc, TiDone, TiFail, NoCallback, disk, call, xfer,
     request
<1>11. CASE DestroyExistingPool
  BY <1>11 DEF DestroyExistingPool, TiGoOn, TiFail, DestroyPool,
     ListedAbsent, NoCallback, disk, call, xfer, request
<1>12. CASE CreatePool
  BY <1>12 DEF CreatePool, TiGoOn, TiFail, NoCallback, call, xfer, request
<1>13. CASE MarkPoolBusy
  BY <1>13 DEF MarkPoolBusy, TiDone, TiFail, NoCallback, call, xfer, request
<1>14. CASE CreateSwapAndDump
  <2>1. tiPc = "zvol" /\ zvols = {} /\ pool = "busy" /\ pool' = "busy"
    BY <1>14 DEF CreateSwapAndDump
  <2>2. CASE TiDone("be", 80)
    <3>1. SwapAgrees'
      BY <1>14, <2>1, <2>2, ChoicesAssumption
         DEF CreateSwapAndDump, SkipVolumes, CreateVolumes, VolumesCreated,
             VolumesFailed, TiDone, TiFail, RequestedVolumes, MinimalVolumes,
             Volumes, request
    <3> QED
      BY <2>1, <2>2, <3>1 DEF TiDone
  <2>3. CASE tiPc' = "report" /\ tiStatus' = -1
    BY <2>1, <2>3
  <2> QED
    BY <1>14, <2>2, <2>3, SwapAndDumpOutcome DEF TiFail
<1>15. CASE CreateBE
  BY <1>15 DEF CreateBE, TiDone, TiFail, NoCallback, call, xfer, request
<1>16. CASE TiReport
  BY <1>16 DEF TiReport, NotifyErrorStatus, disk, call, xfer, request
<1>17. CASE JoinTI
  BY <1>17 DEF JoinTI, TransferExit, TargetFailed, NotifyErrorStatus,
     NoCallback, disk, call, ti, request
<1>18. CASE HandleTMCallback
  BY <1>18 DEF HandleTMCallback, disk, call, ti, xfer, request
<1>19. CASE PerformTransfer
  BY <1>19 DEF PerformTransfer, TransferExit, NotifyErrorStatus, NoCallback,
     call, ti, request
<1>20. CASE PlainIct
  BY <1>20 DEF PlainIct, Ict, NoteFailure, NoCallback, call, ti, request,
     Icts
<1>21. CASE SetupEtcVfstabForSwap
  BY <1>21 DEF SetupEtcVfstabForSwap, NoCallback, call, ti, request
<1>22. CASE MarkRootPoolReady
  BY <1>22 DEF MarkRootPoolReady, Ict, NoteFailure, NoCallback, call, ti,
     request, Icts
<1>23. CASE NotifyCaller
  BY <1>23 DEF NotifyCaller, NotifyInstallComplete, NotifyErrorStatus, disk,
     call, ti, request
<1>24. CASE ImportPool
  BY <1>24 DEF ImportPool, NoCallback, call, ti, xfer, request
<1>25. CASE Restart
  BY <1>25 DEF Restart, FreshProcess, NoCallback, disk
<1>26. CASE UNCHANGED omVars
  BY <1>26 DEF omVars, disk, call, ti, xfer, request
<1> HIDE DEF TypeOK, Control, TargetKnown, SwapKnown, SwapAgrees,
            CallBeforeTi
<1> QED
  BY <1>1, <1>2, <1>3, <1>4, <1>5, <1>6, <1>7, <1>8, <1>9, <1>10, <1>11,
     <1>12, <1>13, <1>14, <1>15, <1>16, <1>17, <1>18, <1>19, <1>20, <1>21,
     <1>22, <1>23, <1>24, <1>25, <1>26 DEF Next, Engine, CallStep, TiStep,
     TransferStep

-----------------------------------------------------------------------------
(* The theorems *)

(* The invariant holds of a machine before its first installation.         *)
LEMMA InitIInv == Init => IInv
<1> SUFFICES ASSUME Init PROVE IInv
  OBVIOUS
<1>1. TypeOK
  BY CallbackTypes, RunsAssumption
     DEF Init, TypeOK, CallPcs, TiPcs, XPcs, OmErrors
<1>2. Control /\ TargetKnown /\ TransferKnown /\ SwapKnown
  BY DEF Init, Control, TargetKnown, TransferKnown, SwapKnown, CallBeforeTi,
         Rank
<1>3. TransferHasTarget /\ ReadyIsPopulated /\ SuccessIsComplete
  BY DEF Init, TransferHasTarget, ReadyIsPopulated, SuccessIsComplete,
         NoCb, Progress
<1> QED
  BY <1>1, <1>2, <1>3 DEF IInv

(* Every step of the engine preserves the invariant.                       *)
LEMMA NextIInv == IInv /\ [Next]_omVars => IInv'
  BY TypeStep, PlaceStep, KnownStep, SwapStep DEF IInv

(* The invariant is one: whatever the requests, crashes, restarts, failing *)
(* commands and imported pools.                                            *)
THEOREM EngineInvariant == Spec => []IInv
  BY InitIInv, NextIInv, PTL DEF Spec

(* Every variable of the engine keeps its type; ti_ret, to which           *)
(* pthread_join's status is added, stays 0, 1 or -1.                       *)
THEOREM TypeCorrect == Spec => []TypeOK
<1>1. IInv => TypeOK
  BY DEF IInv
<1> QED
  BY <1>1, EngineInvariant, PTL

(* do_transfer writes only into a boot environment that do_ti has set up   *)
(* on the installer's own pool.                                            *)
THEOREM TransferIsSafe == Spec => []TransferHasTarget
<1>1. IInv => TransferHasTarget
  BY DEF IInv
<1> QED
  BY <1>1, EngineInvariant, PTL

(* A pool marked 'ready' by the installer holds a boot environment and the *)
(* software, after any number of crashes, failures and restarts.           *)
THEOREM ReadyPoolsArePopulated == Spec => []ReadyIsPopulated
<1>1. IInv => ReadyIsPopulated
  BY DEF IInv
<1> QED
  BY <1>1, EngineInvariant, PTL

(* The success callback is made of a complete installation only.           *)
THEOREM SuccessIsEarned == Spec => []SuccessIsComplete
<1>1. IInv => SuccessIsComplete
  BY DEF IInv
<1> QED
  BY <1>1, EngineInvariant, PTL

(* When vfstab is written, swap_device names the swap slice or the swap    *)
(* volume that do_ti made.                                                 *)
THEOREM SwapIsAlwaysListed == Spec => []SwapIsListed
<1>1. IInv => SwapIsListed
  BY DEF IInv, SwapIsListed, TransferHasTarget, SwapKnown, SwapAgrees
<1> QED
  BY <1>1, EngineInvariant, PTL

-----------------------------------------------------------------------------
(* Without faults, nobody else's pool is touched *)

(* From the check of om_perform_install to zpool create there is no pool;  *)
(* while ti_release_target works there is a busy one.                      *)
PoolGone ==
  /\ \/ callPc \in {"breakpoint", "spawn_ti"}
     \/ tiPc \in {"fdisk", "vtoc", "pool", "pool_create"}
     => pool = "absent"
  /\ callPc = "release" => pool = "busy"

(* Without faults this is invariant.                                       *)
LEMMA PoolGoneStep ==
  ASSUME Faults = {}, IInv, PoolGone, [Next]_omVars
  PROVE  PoolGone'
<1> USE DEF IInv, TypeOK, Control, TargetKnown, TransferHasTarget, PoolGone,
            CallBeforeTi
<1>1. CASE Call
  BY <1>1 DEF Call, GoOn, NoCallback, disk, ti, xfer, request
<1>2. CASE ClientResumes
  BY <1>2 DEF ClientResumes, GoOn, NoCallback, disk, ti, xfer, request
<1>3. CASE Validate
  BY <1>3 DEF Validate, GoOn, Return, NoCallback, disk, ti, xfer, request
<1>4. CASE PoolCheck
  BY <1>4 DEF PoolCheck, GoOn, Return, NoCallback, disk, ti, xfer, request,
     ListedAbsent, MayRelease
<1>5. CASE ReleasePool
  BY <1>5 DEF ReleasePool, GoOn, Return, DestroyPool, NoCallback, disk, ti,
     xfer, request
<1>6. CASE PassBreakpoint
  BY <1>6 DEF PassBreakpoint, GoOn, NoCallback, disk, ti, xfer, request
<1>7. CASE SpawnTI
  BY <1>7 DEF SpawnTI, GoOn, Return, NoCallback, disk, xfer, request
<1>8. CASE SpawnTransfer
  BY <1>8 DEF SpawnTransfer, Return, NoCallback, disk, ti, request
<1>9. CASE CreateFdisk
  BY <1>9 DEF CreateFdisk, TiDone, TiFail, NoCallback, disk, call, xfer,
     request
<1>10. CASE CreateVtoc
  BY <1>10 DEF CreateVtoc, TiDone, TiFail, NoCallback, disk, call, xfer,
     request
<1>11. CASE DestroyExistingPool
  BY <1>11 DEF DestroyExistingPool, TiGoOn, TiFail, DestroyPool,
     ListedAbsent, NoCallback, disk, call, xfer, request
<1>12. CASE CreatePool
  BY <1>12 DEF CreatePool, TiGoOn, TiFail, NoCallback, call, xfer, request
<1>13. CASE MarkPoolBusy
  BY <1>13 DEF MarkPoolBusy, TiDone, TiFail, NoCallback, call, xfer, request
<1>14. CASE CreateSwapAndDump
  BY <1>14, SwapAndDumpOutcome DEF TiDone, TiFail, NoCallback, call, xfer,
     request
<1>15. CASE CreateBE
  BY <1>15 DEF CreateBE, TiDone, TiFail, NoCallback, call, xfer, request
<1>16. CASE TiReport
  BY <1>16 DEF TiReport, NotifyErrorStatus, disk, call, xfer, request
<1>17. CASE JoinTI
  BY <1>17 DEF JoinTI, TransferExit, TargetFailed, NotifyErrorStatus,
     NoCallback, disk, call, ti, request
<1>18. CASE HandleTMCallback
  BY <1>18 DEF HandleTMCallback, disk, call, ti, xfer, request
<1>19. CASE PerformTransfer
  BY <1>19 DEF PerformTransfer, TransferExit, NotifyErrorStatus, NoCallback,
     call, ti, request
<1>20. CASE PlainIct
  BY <1>20 DEF PlainIct, Ict, NoteFailure, NoCallback, call, ti, request,
     Icts
<1>21. CASE SetupEtcVfstabForSwap
  BY <1>21 DEF SetupEtcVfstabForSwap, NoCallback, call, ti, request
<1>22. CASE MarkRootPoolReady
  BY <1>22 DEF MarkRootPoolReady, Ict, NoteFailure, NoCallback, call, ti,
     request, Icts
<1>23. CASE NotifyCaller
  BY <1>23 DEF NotifyCaller, NotifyInstallComplete, NotifyErrorStatus, disk,
     call, ti, request
<1>24. CASE ImportPool
  BY <1>24 DEF ImportPool, NoCallback, call, ti, xfer, request
<1>25. CASE Restart
  BY <1>25 DEF Restart, FreshProcess, NoCallback, disk
<1>26. CASE UNCHANGED omVars
  BY <1>26 DEF omVars, disk, call, ti, xfer, request
<1> HIDE DEF IInv, TypeOK, Control, TargetKnown, TransferHasTarget, PoolGone,
            CallBeforeTi
<1> QED
  BY <1>1, <1>2, <1>3, <1>4, <1>5, <1>6, <1>7, <1>8, <1>9, <1>10, <1>11,
     <1>12, <1>13, <1>14, <1>15, <1>16, <1>17, <1>18, <1>19, <1>20, <1>21,
     <1>22, <1>23, <1>24, <1>25, <1>26 DEF Next, Engine, CallStep, TiStep,
     TransferStep
(* What a step does to the pool of somebody else, or to a finished one.    *)
LEMMA ForeignStep ==
  ASSUME Faults = {}, IInv, PoolGone, [Next]_omVars,
         owner = "user" \/ pool = "ready"
  PROVE  UNCHANGED <<pool, owner>>
<1> USE DEF IInv, TypeOK, Control, TargetKnown, TransferHasTarget, PoolGone,
            CallBeforeTi
<1>1. CASE Call
  BY <1>1 DEF Call, GoOn, NoCallback, disk, ti, xfer, request
<1>2. CASE ClientResumes
  BY <1>2 DEF ClientResumes, GoOn, NoCallback, disk, ti, xfer, request
<1>3. CASE Validate
  BY <1>3 DEF Validate, GoOn, Return, NoCallback, disk, ti, xfer, request
<1>4. CASE PoolCheck
  BY <1>4 DEF PoolCheck, GoOn, Return, NoCallback, disk, ti, xfer, request,
     ListedAbsent, MayRelease
<1>5. CASE ReleasePool
  BY <1>5 DEF ReleasePool, GoOn, Return, DestroyPool, NoCallback, disk, ti,
     xfer, request
<1>6. CASE PassBreakpoint
  BY <1>6 DEF PassBreakpoint, GoOn, NoCallback, disk, ti, xfer, request
<1>7. CASE SpawnTI
  BY <1>7 DEF SpawnTI, GoOn, Return, NoCallback, disk, xfer, request
<1>8. CASE SpawnTransfer
  BY <1>8 DEF SpawnTransfer, Return, NoCallback, disk, ti, request
<1>9. CASE CreateFdisk
  BY <1>9 DEF CreateFdisk, TiDone, TiFail, NoCallback, disk, call, xfer,
     request
<1>10. CASE CreateVtoc
  BY <1>10 DEF CreateVtoc, TiDone, TiFail, NoCallback, disk, call, xfer,
     request
<1>11. CASE DestroyExistingPool
  BY <1>11 DEF DestroyExistingPool, TiGoOn, TiFail, DestroyPool,
     ListedAbsent, NoCallback, disk, call, xfer, request
<1>12. CASE CreatePool
  BY <1>12 DEF CreatePool, TiGoOn, TiFail, NoCallback, call, xfer, request
<1>13. CASE MarkPoolBusy
  BY <1>13 DEF MarkPoolBusy, TiDone, TiFail, NoCallback, call, xfer, request
<1>14. CASE CreateSwapAndDump
  BY <1>14, SwapAndDumpOutcome DEF TiDone, TiFail, NoCallback, call, xfer,
     request
<1>15. CASE CreateBE
  BY <1>15 DEF CreateBE, TiDone, TiFail, NoCallback, call, xfer, request
<1>16. CASE TiReport
  BY <1>16 DEF TiReport, NotifyErrorStatus, disk, call, xfer, request
<1>17. CASE JoinTI
  BY <1>17 DEF JoinTI, TransferExit, TargetFailed, NotifyErrorStatus,
     NoCallback, disk, call, ti, request
<1>18. CASE HandleTMCallback
  BY <1>18 DEF HandleTMCallback, disk, call, ti, xfer, request
<1>19. CASE PerformTransfer
  BY <1>19 DEF PerformTransfer, TransferExit, NotifyErrorStatus, NoCallback,
     call, ti, request
<1>20. CASE PlainIct
  BY <1>20 DEF PlainIct, Ict, NoteFailure, NoCallback, call, ti, request,
     Icts
<1>21. CASE SetupEtcVfstabForSwap
  BY <1>21 DEF SetupEtcVfstabForSwap, NoCallback, call, ti, request
<1>22. CASE MarkRootPoolReady
  BY <1>22 DEF MarkRootPoolReady, Ict, NoteFailure, NoCallback, call, ti,
     request, Icts
<1>23. CASE NotifyCaller
  BY <1>23 DEF NotifyCaller, NotifyInstallComplete, NotifyErrorStatus, disk,
     call, ti, request
<1>24. CASE ImportPool
  BY <1>24 DEF ImportPool, NoCallback, call, ti, xfer, request
<1>25. CASE Restart
  BY <1>25 DEF Restart, FreshProcess, NoCallback, disk
<1>26. CASE UNCHANGED omVars
  BY <1>26 DEF omVars, disk, call, ti, xfer, request
<1> HIDE DEF IInv, TypeOK, Control, TargetKnown, TransferHasTarget, PoolGone,
            CallBeforeTi
<1> QED
  BY <1>1, <1>2, <1>3, <1>4, <1>5, <1>6, <1>7, <1>8, <1>9, <1>10, <1>11,
     <1>12, <1>13, <1>14, <1>15, <1>16, <1>17, <1>18, <1>19, <1>20, <1>21,
     <1>22, <1>23, <1>24, <1>25, <1>26 DEF Next, Engine, CallStep, TiStep,
     TransferStep

(* When zpool list works and nobody imports a pool behind the installer's  *)
(* back, a pool of somebody else and a finished installation are never     *)
(* destroyed or marked anew.                                               *)
THEOREM ForeignPoolsSurvive ==
  ASSUME Faults = {} PROVE Spec => ForeignPoolSurvives
<1>1. Init => PoolGone
  BY DEF Init, PoolGone
<1>2. IInv /\ PoolGone /\ [Next]_omVars => PoolGone'
  BY PoolGoneStep
<1>3. IInv /\ PoolGone /\ [Next]_omVars
        => [owner = "user" \/ pool = "ready" => UNCHANGED <<pool, owner>>]_omVars
  BY ForeignStep
<1> QED
  BY <1>1, <1>2, <1>3, EngineInvariant, PTL DEF Spec, ForeignPoolSurvives

-----------------------------------------------------------------------------
(* The GUI: the inductive invariant *)

LastScreens == {"INSTALLATION", "FAILURE", "FINISH"}

Flags == /\ installfailed \in BOOLEAN /\ timer \in BOOLEAN
         /\ mainVisible \in BOOLEAN /\ logVisible \in BOOLEAN
GuiTypes == screen \in Screens /\ complete \subseteq Milestones /\ Flags

(* The engine is called on the way into the installation screen, once.     *)
ScreenFollowsCall ==
  /\ callPc # "idle" => screen \in LastScreens
  /\ screen = "INSTALLATION" => callPc # "idle"
  /\ screen \notin LastScreens => ~installfailed

(* The last milestone is recorded when both threads are through.           *)
CompleteIsTrue ==
  "POSTINSTAL_TASKS" \in complete =>
    /\ pool = "ready" /\ owner = "installer"
    /\ {"be", "software"} \subseteq image
    /\ \A s \in CheckedIcts : IctApplies(choices, s) => s \in image
    /\ tiPc = "exited" /\ xPc = "exited"
    /\ ~installfailed

(* After a failure do_transfer has ended, or waits for a do_ti that failed,*)
(* or was never started.                                                   *)
Halted ==
  \/ xPc = "exited"
  \/ xPc \in {"idle", "join"} /\ tiPc = "exited" /\ tiStatus # 0
  \/ xPc = "idle" /\ callPc = "idle"
  \/ xPc = "idle" /\ callPc = "done" /\ callRet = "OM_FAILURE"

FailedIsHalted == installfailed => Halted

ScreenIsTrue ==
  /\ screen = "FAILURE" => installfailed
  /\ screen = "FINISH" => "POSTINSTAL_TASKS" \in complete

GInv == /\ GuiTypes /\ ScreenFollowsCall /\ CompleteIsTrue
        /\ FailedIsHalted /\ ScreenIsTrue

(* A step of the GUI program is a step of the engine or leaves it alone.   *)
LEMMA GuiRefinesEngine == GuiNext => [Next]_omVars
  BY DEF GuiNext, OnNextButton, OnBackButton, OnInstallButton, OnQuitButton,
         OnLogButton, OnLogClose, OnLogDelete, PerformInstallReturned,
         InstallationNextStep, EngineStep, Crash, Over, guiVars, Next

(* So the engine's invariant holds under the GUI as well.                  *)
LEMMA GuiIInv == GuiSpec => []IInv
<1>1. GuiInit => IInv
  BY InitIInv DEF GuiInit
<1>2. IInv /\ [GuiNext]_guiVars => IInv'
  BY GuiRefinesEngine, NextIInv DEF guiVars
<1> QED
  BY <1>1, <1>2, PTL DEF GuiSpec

(* What the callback does to the last milestone and to installfailed.      *)
LEMMA ProgressFacts ==
  ASSUME GuiTypes, InstallationUpdateProgress
  PROVE  /\ complete' \subseteq Milestones /\ installfailed' \in BOOLEAN
         /\ cb' = NoCb => UNCHANGED <<complete, installfailed>>
         /\ \A c : cb' = Failure(c) => complete' = complete /\ installfailed'
         /\ \A m \in Milestones, p \in Percents : cb' = Progress(m, p) =>
              /\ installfailed' = installfailed
              /\ m # "POSTINSTAL_TASKS" =>
                   ("POSTINSTAL_TASKS" \in complete'
                      <=> "POSTINSTAL_TASKS" \in complete)
<1>1. complete' \subseteq Milestones
  BY DEF GuiTypes, InstallationUpdateProgress, CompleteAfter
<1>2. installfailed' \in BOOLEAN
  BY Zenon DEF InstallationUpdateProgress
<1>3. ASSUME cb' = NoCb PROVE UNCHANGED <<complete, installfailed>>
  <2>1. cb'.milestone \notin Milestones /\ cb'.milestone # "INVALID"
    BY <1>3 DEF NoCb, Milestones
  <2>2. UNCHANGED complete
    BY <2>1 DEF InstallationUpdateProgress, CompleteAfter
  <2>3. UNCHANGED installfailed
    BY <2>1, Zenon DEF InstallationUpdateProgress, GuiTypes, Flags
  <2> QED
    BY <2>2, <2>3
<1>4. ASSUME NEW c, cb' = Failure(c)
      PROVE  complete' = complete /\ installfailed'
  <2>1. cb'.milestone \notin Milestones /\ cb'.milestone = "INVALID"
    BY <1>4 DEF Failure, Milestones
  <2> QED
    BY <2>1 DEF InstallationUpdateProgress, CompleteAfter
<1>5. ASSUME NEW m \in Milestones, NEW p \in Percents, cb' = Progress(m, p)
      PROVE  /\ installfailed' = installfailed
             /\ m # "POSTINSTAL_TASKS" =>
                  ("POSTINSTAL_TASKS" \in complete'
                     <=> "POSTINSTAL_TASKS" \in complete)
  <2>1. cb'.milestone = m /\ m # "INVALID"
    BY <1>5 DEF Progress, Milestones
  <2>2. installfailed' = installfailed
    BY <2>1, Zenon DEF InstallationUpdateProgress, GuiTypes, Flags
  <2> QED
    BY <2>1, <2>2 DEF InstallationUpdateProgress, CompleteAfter
<1> QED
  BY <1>1, <1>2, <1>3, <1>4, <1>5

(* What the GUI relies on: the last milestone is the end of do_transfer; a *)
(* failure halts the engine, and it stays halted; when it is through       *)
(* nothing moves any more.                                                 *)
LEMMA EngineFacts ==
  ASSUME TypeOK, Control, Engine
  PROVE  /\ cb'.milestone = "POSTINSTAL_TASKS" => NotifyCaller
         /\ Halted \/ cb'.milestone = "INVALID" => Halted'
         /\ cb'.milestone = "INVALID" => callPc # "idle"
         /\ callPc = "idle" <=> callPc' = "idle"
         /\ ~(tiPc = "exited" /\ xPc = "exited" /\ pool = "ready")
         /\ UNCHANGED choices
<1> USE DEF TypeOK, Control, Halted, CallBeforeTi, Progress, Failure, NoCb
<1>1. CASE Validate
  BY <1>1 DEF Validate, GoOn, Return, NoCallback, disk, ti, xfer, request
<1>2. CASE PoolCheck
  BY <1>2 DEF PoolCheck, GoOn, Return, NoCallback, disk, ti, xfer, request,
     ListedAbsent, MayRelease
<1>3. CASE ReleasePool
  BY <1>3 DEF ReleasePool, GoOn, Return, DestroyPool, NoCallback, disk, ti,
     xfer, request
<1>4. CASE PassBreakpoint
  BY <1>4 DEF PassBreakpoint, GoOn, NoCallback, disk, ti, xfer, request
<1>5. CASE SpawnTI
  BY <1>5 DEF SpawnTI, GoOn, Return, NoCallback, disk, xfer, request
<1>6. CASE SpawnTransfer
  BY <1>6 DEF SpawnTransfer, Return, NoCallback, disk, ti, request
<1>7. CASE CreateFdisk
  BY <1>7 DEF CreateFdisk, TiDone, TiFail, NoCallback, disk, call, xfer,
     request
<1>8. CASE CreateVtoc
  BY <1>8 DEF CreateVtoc, TiDone, TiFail, NoCallback, disk, call, xfer,
     request
<1>9. CASE DestroyExistingPool
  BY <1>9 DEF DestroyExistingPool, TiGoOn, TiFail, DestroyPool,
     ListedAbsent, NoCallback, disk, call, xfer, request
<1>10. CASE CreatePool
  BY <1>10 DEF CreatePool, TiGoOn, TiFail, NoCallback, call, xfer, request
<1>11. CASE MarkPoolBusy
  BY <1>11 DEF MarkPoolBusy, TiDone, TiFail, NoCallback, call, xfer, request
<1>12. CASE CreateSwapAndDump
  BY <1>12, SwapAndDumpOutcome DEF TiDone, TiFail, NoCallback, call, xfer,
     request
<1>13. CASE CreateBE
  BY <1>13 DEF CreateBE, TiDone, TiFail, NoCallback, call, xfer, request
<1>14. CASE TiReport
  BY <1>14 DEF TiReport, NotifyErrorStatus, disk, call, xfer, request
<1>15. CASE JoinTI
  BY <1>15 DEF JoinTI, TransferExit, TargetFailed, NotifyErrorStatus,
     NoCallback, disk, call, ti, request
<1>16. CASE HandleTMCallback
  BY <1>16 DEF HandleTMCallback, disk, call, ti, xfer, request
<1>17. CASE PerformTransfer
  BY <1>17 DEF PerformTransfer, TransferExit, NotifyErrorStatus, NoCallback,
     call, ti, request
<1>18. CASE PlainIct
  BY <1>18 DEF PlainIct, Ict, NoteFailure, NoCallback, call, ti, request,
     Icts
<1>19. CASE SetupEtcVfstabForSwap
  BY <1>19 DEF SetupEtcVfstabForSwap, NoCallback, call, ti, request
<1>20. CASE MarkRootPoolReady
  BY <1>20 DEF MarkRootPoolReady, Ict, NoteFailure, NoCallback, call, ti,
     request, Icts
<1>21. CASE NotifyCaller
  BY <1>21 DEF NotifyCaller, NotifyInstallComplete, NotifyErrorStatus, disk,
     call, ti, request
<1>22. CASE ImportPool
  BY <1>22 DEF ImportPool, NoCallback, call, ti, xfer, request
<1> HIDE DEF TypeOK, Control, Halted, CallBeforeTi, Progress, Failure, NoCb
<1> QED
  BY <1>1, <1>2, <1>3, <1>4, <1>5, <1>6, <1>7, <1>8, <1>9, <1>10, <1>11,
     <1>12, <1>13, <1>14, <1>15, <1>16, <1>17, <1>18, <1>19, <1>20, <1>21,
     <1>22 DEF Engine, CallStep, TiStep, TransferStep

(* The user and the main loop keep the invariant.                          *)
LEMMA GuiStep ==
  ASSUME TypeOK, Control, GInv, [GuiNext]_guiVars, ~EngineStep
  PROVE  GInv'
<1> USE DEF GInv, GuiTypes, ScreenFollowsCall, CompleteIsTrue, FailedIsHalted,
            Halted, ScreenIsTrue
<1>1. CASE OnNextButton
  <2>1. Flags'
    BY <1>1, Zenon DEF OnNextButton, ScreenOrder, Flags, gui, FreshGui,
       windows
  <2> QED
    BY <1>1, <2>1 DEF OnNextButton, ScreenOrder, LastScreens, Screens,
       TypeOK, Control, CallBeforeTi, omVars, disk, call, ti, xfer, request,
       windows
<1>2. CASE OnBackButton
  <2>1. Flags'
    BY <1>2, Zenon DEF OnBackButton, ScreenOrder, Flags, gui, FreshGui,
       windows
  <2> QED
    BY <1>2, <2>1 DEF OnBackButton, ScreenOrder, LastScreens, Screens,
       TypeOK, Control, CallBeforeTi, omVars, disk, call, ti, xfer, request,
       windows
<1>3. CASE OnInstallButton
  <2>1. Flags'
    BY <1>3, Zenon DEF OnInstallButton, Call, GoOn, Flags, gui, FreshGui,
       windows
  <2> QED
    BY <1>3, <2>1 DEF OnInstallButton, Call, GoOn, LastScreens, Screens,
       TypeOK, Control, CallBeforeTi, omVars, disk, call, ti, xfer, request,
       windows
<1>4. CASE OnQuitButton
  <2>1. Flags'
    BY <1>4, Zenon DEF OnQuitButton, Restart, FreshGui, FreshProcess, Flags,
       gui, windows
  <2> QED
    BY <1>4, <2>1 DEF OnQuitButton, Restart, FreshGui, FreshProcess,
       LastScreens, Screens, TypeOK, Control, CallBeforeTi, omVars, disk, call,
       ti, xfer, request, windows
<1>5. CASE OnLogButton
  <2>1. Flags'
    BY <1>5, Zenon DEF OnLogButton, Flags, gui, FreshGui, windows
  <2> QED
    BY <1>5, <2>1 DEF OnLogButton, LastScreens, Screens, TypeOK, Control,
       CallBeforeTi, omVars, disk, call, ti, xfer, request, windows
<1>6. CASE OnLogClose
  <2>1. Flags'
    BY <1>6, Zenon DEF OnLogClose, Restart, FreshGui, FreshProcess, Flags,
       gui, windows
  <2> QED
    BY <1>6, <2>1 DEF OnLogClose, Restart, FreshGui, FreshProcess,
       LastScreens, Screens, TypeOK, Control, CallBeforeTi, omVars, disk, call,
       ti, xfer, request, windows
<1>7. CASE OnLogDelete
  <2>1. Flags'
    BY <1>7, Zenon DEF OnLogDelete, Flags, gui, FreshGui, windows
  <2> QED
    BY <1>7, <2>1 DEF OnLogDelete, LastScreens, Screens, TypeOK, Control,
       CallBeforeTi, omVars, disk, call, ti, xfer, request, windows
<1>8. CASE PerformInstallReturned
  <2>1. Flags'
    BY <1>8, Zenon DEF PerformInstallReturned, ClientResumes, GoOn,
       NextScreen, Flags, gui, FreshGui, windows
  <2> QED
    BY <1>8, <2>1 DEF PerformInstallReturned, ClientResumes, GoOn,
       NextScreen, LastScreens, Screens, TypeOK, Control, CallBeforeTi, omVars,
       disk, call, ti, xfer, request, windows
<1>9. CASE InstallationNextStep
  <2>1. Flags'
    BY <1>9, Zenon DEF InstallationNextStep, InstallDone, NextScreen, Flags,
       gui, FreshGui, windows
  <2> QED
    BY <1>9, <2>1 DEF InstallationNextStep, InstallDone, NextScreen,
       LastScreens, Screens, TypeOK, Control, CallBeforeTi, omVars, disk, call,
       ti, xfer, request, windows
<1>10. CASE Crash
  <2>1. Flags'
    BY <1>10, Zenon DEF Crash, Restart, FreshGui, FreshProcess, Flags, gui,
       windows
  <2> QED
    BY <1>10, <2>1 DEF Crash, Restart, FreshGui, FreshProcess, LastScreens,
       Screens, TypeOK, Control, CallBeforeTi, omVars, disk, call, ti, xfer,
       request, windows
<1>11. CASE UNCHANGED guiVars
  BY <1>11 DEF guiVars, gui, Flags, omVars, disk, call, ti, xfer, request
<1> HIDE DEF GInv, GuiTypes, ScreenFollowsCall, CompleteIsTrue, FailedIsHalted,
            Halted, ScreenIsTrue
<1> QED
  BY <1>1, <1>2, <1>3, <1>4, <1>5, <1>6, <1>7, <1>8, <1>9, <1>10, <1>11 DEF
     GuiNext, Over

(* A step of the engine, with its callback, keeps the invariant: a failure *)
(* finds or leaves the engine halted, the last milestone is the end.       *)
LEMMA EngineStepKeeps ==
  ASSUME IInv, IInv', GInv, EngineStep
  PROVE  GInv'
<1>1. TypeOK /\ TypeOK' /\ Control /\ GuiTypes /\ GuiTypes'
  <2>1. TypeOK /\ TypeOK' /\ Control /\ GuiTypes
    BY DEF IInv, GInv
  <2>2. UNCHANGED <<screen, timer, mainVisible, logVisible>>
    BY DEF EngineStep, InstallationUpdateProgress, windows
  <2>3. Flags'
    BY <2>1, <2>2, ProgressFacts, Zenon DEF EngineStep, GuiTypes, Flags
  <2> QED
    BY <2>1, <2>2, <2>3, ProgressFacts DEF EngineStep, GuiTypes
<1>2. /\ cb'.milestone = "POSTINSTAL_TASKS" => NotifyCaller
      /\ Halted \/ cb'.milestone = "INVALID" => Halted'
      /\ cb'.milestone = "INVALID" => callPc # "idle"
      /\ callPc = "idle" <=> callPc' = "idle"
      /\ ~(tiPc = "exited" /\ xPc = "exited" /\ pool = "ready")
      /\ screen' = screen
  BY <1>1, EngineFacts DEF EngineStep, InstallationUpdateProgress
<1>3. ~("POSTINSTAL_TASKS" \in complete)
  BY <1>2 DEF GInv, CompleteIsTrue
<1>4. CASE cb' = NoCb
  <2>1. UNCHANGED <<complete, installfailed>>
    BY <1>1, <1>4, ProgressFacts DEF EngineStep
  <2> QED
    BY <1>1, <1>2, <1>3, <2>1
       DEF GInv, ScreenFollowsCall, CompleteIsTrue, FailedIsHalted, ScreenIsTrue
<1>5. ASSUME NEW c \in FailureCodes, cb' = Failure(c) PROVE GInv'
  <2>1. complete' = complete /\ installfailed' /\ cb'.milestone = "INVALID"
    BY <1>1, <1>5, ProgressFacts DEF EngineStep, Failure
  <2>2. screen \in LastScreens
    BY <1>1, <1>2, <2>1 DEF GInv, ScreenFollowsCall
  <2> QED
    BY <1>1, <1>2, <1>3, <2>1, <2>2
       DEF GInv, ScreenFollowsCall, CompleteIsTrue, FailedIsHalted, ScreenIsTrue
<1>6. ASSUME NEW m \in Milestones, NEW p \in Percents, cb' = Progress(m, p)
      PROVE GInv'
  <2>1. installfailed' = installfailed /\ cb'.milestone = m
    BY <1>1, <1>6, ProgressFacts DEF EngineStep, Progress
  <2>2. CASE m # "POSTINSTAL_TASKS"
    <3>1. ~("POSTINSTAL_TASKS" \in complete')
      BY <1>1, <1>3, <1>6, <2>2, ProgressFacts DEF EngineStep
    <3> QED
      BY <1>1, <1>2, <1>3, <2>1, <3>1
         DEF GInv, ScreenFollowsCall, CompleteIsTrue, FailedIsHalted, ScreenIsTrue
  <2>3. CASE m = "POSTINSTAL_TASKS"
    <3>1. NotifyCaller
      BY <1>2, <2>1, <2>3
    <3>2. cb' = Progress("POSTINSTAL_TASKS", 100)
      BY <1>6, <2>1, <2>3, <3>1
         DEF NotifyCaller, NotifyInstallComplete, NotifyErrorStatus, Failure
    <3>3. ~installfailed
      BY <3>1 DEF GInv, FailedIsHalted, Halted, NotifyCaller
    <3>4. /\ pool' = "ready" /\ {"be", "software"} \subseteq image'
          /\ \A s \in CheckedIcts : IctApplies(choices', s) => s \in image'
      BY <3>2 DEF IInv, SuccessIsComplete
    <3>5. owner' = "installer" /\ tiPc' = "exited" /\ xPc' = "exited"
      BY <3>1 DEF IInv, TransferHasTarget, NotifyCaller, disk, ti
    <3> QED
      BY <1>1, <1>2, <1>3, <2>1, <3>3, <3>4, <3>5
         DEF GInv, ScreenFollowsCall, CompleteIsTrue, FailedIsHalted, ScreenIsTrue
  <2> QED
    BY <2>2, <2>3
<1>7. \/ cb' = NoCb
      \/ \E c \in FailureCodes : cb' = Failure(c)
      \/ \E m \in Milestones, p \in Percents : cb' = Progress(m, p)
  BY <1>1 DEF TypeOK, Callbacks
<1> QED
  BY <1>4, <1>5, <1>6, <1>7

-----------------------------------------------------------------------------
(* The theorems *)

(* A freshly started installer.                                            *)
LEMMA GuiInitGInv == GuiInit => GInv
  BY DEF GuiInit, Init, GInv, GuiTypes, Flags, Screens, ScreenFollowsCall,
         LastScreens, CompleteIsTrue, FailedIsHalted, ScreenIsTrue

(* What the screens, the flags and the engine's threads agree on, always.  *)
THEOREM GuiInvariant == GuiSpec => []GInv
<1>1. IInv /\ IInv' /\ GInv /\ [GuiNext]_guiVars => GInv'
  BY GuiStep, EngineStepKeeps DEF IInv
<1> QED
  BY GuiInitGInv, GuiIInv, <1>1, PTL DEF GuiSpec

(* The finish screen tells the truth: the pool is ready, the software is   *)
(* copied and every checked completion task is done.                       *)
THEOREM FinishIsTrue == GuiSpec => []FinishMeansInstalled
<1>1. GInv => FinishMeansInstalled
  BY DEF GInv, ScreenIsTrue, CompleteIsTrue, FinishMeansInstalled
<1> QED
  BY <1>1, GuiInvariant, PTL

(* A failure, once shown, is never followed by a completed installation.   *)
THEOREM FailureStays == GuiSpec => []FailureIsFinal
<1>1. GInv => FailureIsFinal
  BY DEF GInv, ScreenIsTrue, CompleteIsTrue, FailureIsFinal
<1> QED
  BY <1>1, GuiInvariant, PTL

(* The disk is left alone once the user has a verdict, but for a do_ti     *)
(* whose do_transfer could not be started.                                 *)
THEOREM VerdictMeansQuiet == GuiSpec => []NoWritesAfterVerdict
<1>1. IInv /\ GInv => NoWritesAfterVerdict
  BY DEF IInv, Control, CallBeforeTi, GInv, ScreenIsTrue, CompleteIsTrue,
         FailedIsHalted, Halted, NoWritesAfterVerdict
<1> QED
  BY <1>1, GuiIInv, GuiInvariant, PTL

-----------------------------------------------------------------------------
(* The contract *)

(* What a step of the engine can do to the pool when nobody interferes:    *)
(* release an unfinished one, create, mark busy, mark ready.               *)
LEMMA EngineTarget ==
  ASSUME Faults = {}, IInv, PoolGone, Engine
  PROVE  \/ UNCHANGED <<pool, owner>>
         \/ owner = "installer" /\ pool = "busy" /\ owner' = "nobody"
         \/ owner = "nobody" /\ owner' = "installer" /\ pool' = "unmarked"
         \/ /\ owner = "installer" /\ owner' = "installer"
            /\ pool = "unmarked" /\ pool' = "busy"
         \/ /\ owner = "installer" /\ owner' = "installer"
            /\ pool = "busy" /\ pool' = "ready" /\ xPc = "mark_ready"
<1> USE DEF IInv, TypeOK, Control, TargetKnown, TransferHasTarget, PoolGone,
            CallBeforeTi
<1>1. CASE Validate
  BY <1>1 DEF Validate, GoOn, Return, NoCallback, disk, ti, xfer, request
<1>2. CASE PoolCheck
  BY <1>2 DEF PoolCheck, GoOn, Return, NoCallback, disk, ti, xfer, request,
     ListedAbsent, MayRelease, MayRelease
<1>3. CASE ReleasePool
  BY <1>3 DEF ReleasePool, GoOn, Return, DestroyPool, NoCallback, disk, ti,
     xfer, request
<1>4. CASE PassBreakpoint
  BY <1>4 DEF PassBreakpoint, GoOn, NoCallback, disk, ti, xfer, request
<1>5. CASE SpawnTI
  BY <1>5 DEF SpawnTI, GoOn, Return, NoCallback, disk, xfer, request
<1>6. CASE SpawnTransfer
  BY <1>6 DEF SpawnTransfer, Return, NoCallback, disk, ti, request
<1>7. CASE CreateFdisk
  BY <1>7 DEF CreateFdisk, TiDone, TiFail, NoCallback, disk, call, xfer,
     request
<1>8. CASE CreateVtoc
  BY <1>8 DEF CreateVtoc, TiDone, TiFail, NoCallback, disk, call, xfer,
     request
<1>9. CASE DestroyExistingPool
  BY <1>9 DEF DestroyExistingPool, TiGoOn, TiFail, DestroyPool,
     ListedAbsent, NoCallback, disk, call, xfer, request
<1>10. CASE CreatePool
  BY <1>10 DEF CreatePool, TiGoOn, TiFail, NoCallback, call, xfer, request
<1>11. CASE MarkPoolBusy
  BY <1>11 DEF MarkPoolBusy, TiDone, TiFail, NoCallback, call, xfer, request
<1>12. CASE CreateSwapAndDump
  BY <1>12, SwapAndDumpOutcome DEF TiDone, TiFail, NoCallback, call, xfer,
     request
<1>13. CASE CreateBE
  BY <1>13 DEF CreateBE, TiDone, TiFail, NoCallback, call, xfer, request
<1>14. CASE TiReport
  BY <1>14 DEF TiReport, NotifyErrorStatus, disk, call, xfer, request
<1>15. CASE JoinTI
  BY <1>15 DEF JoinTI, TransferExit, TargetFailed, NotifyErrorStatus,
     NoCallback, disk, call, ti, request
<1>16. CASE HandleTMCallback
  BY <1>16 DEF HandleTMCallback, disk, call, ti, xfer, request
<1>17. CASE PerformTransfer
  BY <1>17 DEF PerformTransfer, TransferExit, NotifyErrorStatus, NoCallback,
     call, ti, request
<1>18. CASE PlainIct
  BY <1>18 DEF PlainIct, Ict, NoteFailure, NoCallback, call, ti, request,
     Icts
<1>19. CASE SetupEtcVfstabForSwap
  BY <1>19 DEF SetupEtcVfstabForSwap, NoCallback, call, ti, request
<1>20. CASE MarkRootPoolReady
  BY <1>20 DEF MarkRootPoolReady, Ict, NoteFailure, NoCallback, call, ti,
     request, Icts
<1>21. CASE NotifyCaller
  BY <1>21 DEF NotifyCaller, NotifyInstallComplete, NotifyErrorStatus, disk,
     call, ti, request
<1>22. CASE ImportPool
  BY <1>22 DEF ImportPool, NoCallback, call, ti, xfer, request
<1> HIDE DEF IInv, TypeOK, Control, TargetKnown, TransferHasTarget, PoolGone,
            CallBeforeTi
<1> QED
  BY <1>1, <1>2, <1>3, <1>4, <1>5, <1>6, <1>7, <1>8, <1>9, <1>10, <1>11,
     <1>12, <1>13, <1>14, <1>15, <1>16, <1>17, <1>18, <1>19, <1>20, <1>21,
     <1>22 DEF Engine, CallStep, TiStep, TransferStep

(* Every step of the GUI program is a step of the contract or a stutter.   *)
LEMMA StepImplements ==
  ASSUME Faults = {}, IInv, PoolGone, GInv, [GuiNext]_guiVars
  PROVE  Contract!Next \/ UNCHANGED <<Target, Verdict>>
<1> USE DEF Contract!Next, Contract!Start, Contract!Release, Contract!Install,
            Contract!Finish, Contract!Fail, Contract!Again, Target, Verdict
<1>1. CASE EngineStep
  <2>1. screen' = screen /\ Engine
    BY <1>1 DEF EngineStep, InstallationUpdateProgress
  <2>2. xPc = "mark_ready" => screen # "FAILURE" /\ screen # "FINISH"
    BY DEF GInv, ScreenIsTrue, CompleteIsTrue, FailedIsHalted, Halted
  <2>3. CASE UNCHANGED <<pool, owner>>
    BY <2>1, <2>3
  <2> QED
    BY <2>1, <2>2, <2>3, EngineTarget
<1>2. CASE OnQuitButton \/ OnLogClose \/ Crash
  <2>1. CASE FreshGui /\ Restart
    BY <2>1 DEF FreshGui, Restart, disk
  <2>2. CASE UNCHANGED <<omVars, screen>>
    BY <2>2 DEF omVars, disk
  <2> QED
    BY <1>2, <2>1, <2>2 DEF OnQuitButton, OnLogClose, Crash
<1>3. CASE OnNextButton \/ OnBackButton \/ OnLogButton \/ OnLogDelete
  BY <1>3 DEF OnNextButton, OnBackButton, OnLogButton, OnLogDelete,
              ScreenOrder, omVars, disk
<1>4. CASE OnInstallButton
  BY <1>4 DEF OnInstallButton, Call, omVars, disk
<1>5. CASE PerformInstallReturned
  BY <1>5 DEF PerformInstallReturned, ClientResumes, NextScreen, disk
<1>6. CASE InstallationNextStep
  <2>1. UNCHANGED <<pool, owner>>
    BY <1>6 DEF InstallationNextStep, omVars, disk
  <2>2. CASE screen # "INSTALLATION"
    BY <1>6, <2>1, <2>2 DEF InstallationNextStep, NextScreen
  <2>3. CASE screen = "INSTALLATION" /\ screen' = "FAILURE"
    BY <2>1, <2>3
  <2>4. CASE screen = "INSTALLATION" /\ screen' = "FINISH" /\ InstallDone
    BY <2>1, <2>4 DEF InstallDone, GInv, CompleteIsTrue
  <2> QED
    BY <1>6, <2>2, <2>3, <2>4 DEF InstallationNextStep, NextScreen
<1>7. CASE UNCHANGED guiVars
  BY <1>7 DEF guiVars, gui, omVars, disk
<1> HIDE DEF Contract!Next, Contract!Start, Contract!Release, Contract!Install,
             Contract!Finish, Contract!Fail, Contract!Again, Target, Verdict
<1> QED
  BY <1>1, <1>2, <1>3, <1>4, <1>5, <1>6, <1>7 DEF GuiNext, Over

(* When zpool list works and nobody else imports a pool, the GUI program   *)
(* with all its threads, flags and screens implements the contract.        *)
THEOREM GuiImplementsContract ==
  ASSUME Faults = {} PROVE GuiSpec => ImplementsContract
<1>1. GuiInit => Contract!Init
  BY DEF GuiInit, Init, Contract!Init, Target, Verdict
<1>2. GuiInit => PoolGone
  BY DEF GuiInit, Init, PoolGone
<1>3. IInv /\ PoolGone /\ [GuiNext]_guiVars => PoolGone'
  BY PoolGoneStep, GuiRefinesEngine DEF guiVars
<1>4. IInv /\ PoolGone /\ GInv /\ [GuiNext]_guiVars
        => [Contract!Next]_<<Target, Verdict>>
  BY StepImplements
<1> QED
  BY <1>1, <1>2, <1>3, <1>4, GuiIInv, GuiInvariant, PTL
     DEF GuiSpec, ImplementsContract, Contract!Spec

=============================================================================
