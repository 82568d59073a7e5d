------------------------------ MODULE OmInstall ------------------------------
(***************************************************************************)
(* The orchestrator's installation engine: om_perform_install() in the     *)
(* caller's thread, and the two threads it starts, do_ti() (target         *)
(* instantiation: fdisk, VTOC, root pool, swap and dump, boot environment) *)
(* and do_transfer() (join do_ti, copy the software, run the install       *)
(* completion tasks, report).                                              *)
(*                                                                         *)
(* The root pool "rpool" outlives the process.  The installer marks it     *)
(* 'busy' when it creates it and 'ready' when it has finished; a restarted *)
(* installer releases a busy pool and refuses to touch any other.          *)
(*                                                                         *)
(* cb is the callback made in the current step (NoCb when none is): the    *)
(* module that composes the engine with a client reads it.                 *)
(***************************************************************************)
EXTENDS Integers, FiniteSets

CONSTANTS
  Choices,  \* what a client may ask for: a set of ChoiceSet records
  MaxRuns,  \* bound on the number of installer processes started
  Faults    \* what goes wrong around the installer, out of FaultKinds

(* One installation request, with the answers of the machine it runs on:   *)
(*   automated   om_is_automated_installation()                            *)
(*   locale      a default locale was given                                *)
(*   phases      number of IPS phases in OM_ATTR_TRANSFER; 0 selects CPIO  *)
(*   swap, dump  requested_swap_size and requested_dump_size               *)
(*   sizeOk      create_swap_and_dump                                      *)
(*   required    calc_required_swap_size() # 0                             *)
(*   swapSlice   create_swap_slice                                         *)
(*   fits        calculate_available_swap_dump_space() succeeds            *)
(*   breakpoint  om_breakpoint                                             *)
Breakpoints == {"none", "before_TI", "after_TI"}

ChoiceSet ==
  [automated : BOOLEAN, locale : BOOLEAN, phases : Nat,
   swap : Int, dump : Int, sizeOk : BOOLEAN, required : BOOLEAN,
   swapSlice : BOOLEAN, fits : BOOLEAN, breakpoint : Breakpoints]

(* A swap slice is created only on machines where swap is mandatory.       *)
ASSUME ChoicesAssumption ==
  /\ Choices \subseteq ChoiceSet
  /\ \A c \in Choices : c.swapSlice => c.required
ASSUME RunsAssumption == MaxRuns \in Nat \ {0}

(*   import  somebody else imports a pool called rpool meanwhile           *)
(*   list    "zpool list" cannot be run, for want of a process say         *)
FaultKinds == {"import", "list"}
ASSUME FaultsAssumption == Faults \subseteq FaultKinds

VARIABLES
  \* persistent: the disk
  pool,       \* rpool: absent, or the value of its install property
  owner,      \* who created the pool (history)
  image,      \* what was put into the boot environment (history)
  zvols,      \* swap and dump volumes that exist in the pool
  vfstab,     \* swap device named in the installed /etc/vfstab
  \* the process
  runs,       \* number of installer processes so far
  choices,    \* the request of this process
  callPc,     \* control point of the caller's thread in om_perform_install
  callRet,    \* what om_perform_install returned
  omErrno,    \* om_errno
  tiPc,       \* control point of do_ti
  tiStatus,   \* do_ti's static status
  tiRet,      \* ti_ret
  swapDevice, \* swap_device
  xPc,        \* control point of do_transfer
  xStatus,    \* do_transfer's status
  phase,      \* IPS phases done
  cb          \* the callback of this step

disk    == <<pool, owner, image, zvols, vfstab>>
call    == <<callPc, callRet>>
ti      == <<tiPc, tiStatus, swapDevice>>
xfer    == <<xPc, xStatus, phase>>
request == <<runs, choices>>
omVars  == <<disk, call, ti, xfer, request, omErrno, tiRet, cb>>

-----------------------------------------------------------------------------
(* Callbacks (om_callback_info_t) *)

Milestones == {"TARGET_INSTANTIATION", "SOFTWARE_UPDATE", "POSTINSTAL_TASKS"}
FailureCodes == {"TARGET_INSTANTIATION_FAILED", "NO_SPACE",
                 "TRANSFER_FAILED", "ICT_FAILURE"}

(* The reasons left in om_errno.                                           *)
OmErrors == {"none", "BAD_INPUT", "ZFS_ROOT_POOL_EXISTS", "NO_SPACE",
             "THREAD_CREATE", "INITIAL_INSTALL_FAILED", "NO_TARGET_ATTRS",
             "TARGET_INSTANTIATION_FAILED", "CANT_CREATE_VTOC_TARGET",
             "CANT_CREATE_ZPOOL", "CANT_CREATE_ZVOL"}

Progress(m, p) == [milestone |-> m, percent |-> p, code |-> "none"]
(* A failure is milestone -1 with the error code in percentage_done.       *)
Failure(c) == [milestone |-> "INVALID", percent |-> 0, code |-> c]
NoCb == [milestone |-> "NONE", percent |-> 0, code |-> "none"]

Percents == {0, 20, 40, 60, 80, 99, 100}
Callbacks == {Progress(m, p) : m \in Milestones, p \in Percents}
               \cup {Failure(c) : c \in FailureCodes} \cup {NoCb}

NotifyErrorStatus(code) == cb' = Failure(code)
NotifyInstallComplete   == cb' = Progress("POSTINSTAL_TASKS", 100)
NoCallback              == cb' = NoCb

-----------------------------------------------------------------------------
(* The steps of do_transfer after the software has been copied *)

Icts == {"locale", "user_dir", "user_profile", "hostname", "activate_be",
         "installboot", "install_finish", "snapshot",
         "mark_ready", "reset_mounts"}

(* What an installation puts into the pool: the boot environment, the      *)
(* software, the work of each completion task; and the volumes.            *)
ImageParts == {"be", "software"} \cup Icts
Volumes    == {"swap", "dump"}

(* Which completion tasks this request runs at all.                        *)
IctApplies(c, s) ==
  CASE s = "locale" -> c.locale
    [] s \in {"user_dir", "user_profile"} -> ~c.automated
    [] OTHER -> TRUE

(* The tasks whose failure do_transfer notices.                            *)
CheckedIcts == Icts \ {"activate_be"}

CallPcs == {"idle", "validate", "pool_check", "release", "breakpoint",
            "spawn_ti", "spawn_transfer", "returned", "done"}
TiPcs   == {"idle", "fdisk", "vtoc", "pool", "pool_create", "pool_busy",
            "zvol", "be", "report", "exited"}
XPcs    == {"idle", "join", "transfer", "notify", "exited", "vfstab"} \cup Icts

-----------------------------------------------------------------------------
(* A fresh process: every variable of the program has its initial value.   *)
FreshProcess(c) ==
  /\ choices' = c
  /\ callPc' = "idle" /\ callRet' = "none" /\ omErrno' = "none"
  /\ tiPc' = "idle" /\ tiStatus' = 0 /\ tiRet' = 0 /\ swapDevice' = "none"
  /\ xPc' = "idle" /\ xStatus' = 0 /\ phase' = 0
  /\ NoCallback

(* A machine before its first installation has no rpool, an older release  *)
(* without the install property, or one a previous installer marked ready. *)
Init ==
  /\ \/ pool = "absent" /\ owner = "nobody"
     \/ pool \in {"unmarked", "ready"} /\ owner = "user"
  /\ image = {} /\ zvols = {} /\ vfstab = "none"
  /\ runs = 1 /\ choices \in Choices
  /\ callPc = "idle" /\ callRet = "none" /\ omErrno = "none"
  /\ tiPc = "idle" /\ tiStatus = 0 /\ tiRet = 0 /\ swapDevice = "none"
  /\ xPc = "idle" /\ xStatus = 0 /\ phase = 0
  /\ cb = NoCb

-----------------------------------------------------------------------------
(* om_perform_install, in the client's thread *)

Return(ret, err) ==
  /\ callPc' = "returned" /\ callRet' = ret
  /\ omErrno' = IF err = "same" THEN omErrno ELSE err

GoOn(pc) == callPc' = pc /\ UNCHANGED <<callRet, omErrno>>

(* The client calls om_perform_install.                                    *)
Call ==
  /\ callPc = "idle"
  /\ GoOn("validate")
  /\ NoCallback
  /\ UNCHANGED <<disk, ti, xfer, request, tiRet>>

(* Checks of the request, the attribute list, the fdisk attributes.  The   *)
(* one failure of nvlist_alloc returns OM_NO_SPACE, not OM_FAILURE.        *)
Validate ==
  /\ callPc = "validate"
  /\ \/ GoOn("pool_check")
     \/ Return("OM_FAILURE", "BAD_INPUT")
     \/ Return("OM_NO_SPACE", "same")
  /\ NoCallback
  /\ UNCHANGED <<disk, ti, xfer, request, tiRet>>

(* Mutant: a pool without the install property is released as well.        *)
MayReleaseUnmarked(property) == property \in {"busy", "unmarked"}
(* Mutant: the check only asks whether the property is there.              *)
MayReleaseMarked(property) == property # "unmarked"

MayRelease(property) == property = "busy"

(* What zpool list says; when it cannot be run there is no pool, both for  *)
(* om_perform_install and for zfm_zpool_exists.                            *)
ListedAbsent == pool = "absent" \/ "list" \in Faults

(* zpool list, then the install property of the pool; get_dataset_property *)
(* may also fail on a busy pool, which is then left alone.                 *)
PoolCheck ==
  /\ callPc = "pool_check"
  /\ \/ ListedAbsent /\ GoOn("breakpoint")
     \/ MayRelease(pool) /\ GoOn("release")
     \/ pool # "absent" /\ Return("OM_FAILURE", "ZFS_ROOT_POOL_EXISTS")
  /\ NoCallback
  /\ UNCHANGED <<disk, ti, xfer, request, tiRet>>

DestroyPool ==
  /\ pool' = "absent" /\ owner' = "nobody"
  /\ image' = {} /\ zvols' = {} /\ vfstab' = "none"

(* ti_release_target: dump and swap are taken off the pool, then it is     *)
(* destroyed.  Failing to prepare the attributes sets no reason of its own.*)
ReleasePool ==
  /\ callPc = "release"
  /\ \/ DestroyPool /\ GoOn("breakpoint")
     \/ Return("OM_FAILURE", "ZFS_ROOT_POOL_EXISTS") /\ UNCHANGED disk
     \/ \E e \in {"NO_SPACE", "same"} : Return("OM_FAILURE", e)
        /\ UNCHANGED disk
  /\ NoCallback
  /\ UNCHANGED <<ti, xfer, request, tiRet>>

PassBreakpoint ==
  /\ callPc = "breakpoint" /\ choices.breakpoint # "before_TI"
  /\ GoOn("spawn_ti")
  /\ NoCallback
  /\ UNCHANGED <<disk, ti, xfer, request, tiRet>>

SpawnTI ==
  /\ callPc = "spawn_ti"
  /\ \/ GoOn("spawn_transfer") /\ tiRet' = 0 /\ tiPc' = "fdisk"
     \/ Return("OM_FAILURE", "THREAD_CREATE") /\ tiRet' = 1 /\ UNCHANGED tiPc
  /\ NoCallback
  /\ UNCHANGED <<disk, tiStatus, swapDevice, xfer, request>>

(* call_transfer_module: any of its failures leaves do_ti running with     *)
(* nobody to join it.                                                      *)
SpawnTransfer ==
  /\ callPc = "spawn_transfer"
  /\ \/ Return("OM_SUCCESS", "same") /\ xPc' = "join"
     \/ Return("OM_FAILURE", "INITIAL_INSTALL_FAILED") /\ UNCHANGED xPc
  /\ NoCallback
  /\ UNCHANGED <<disk, ti, xStatus, phase, request, tiRet>>

(* The client goes on with what om_perform_install returned.               *)
ClientResumes ==
  /\ callPc = "returned"
  /\ GoOn("done")
  /\ NoCallback
  /\ UNCHANGED <<disk, ti, xfer, request, tiRet>>

-----------------------------------------------------------------------------
(* do_ti, in its own thread.  Every target is created by ti_create_target; *)
(* a failure sets status and jumps to ti_error ("report" here).            *)

(* Mutant: status is not set on the way to ti_error.                       *)
TiFailSilently(err) ==
  /\ tiPc' = "report" /\ UNCHANGED tiStatus
  /\ omErrno' = IF err = "same" THEN omErrno ELSE err
  /\ NoCallback

TiFail(err) ==
  /\ tiStatus' = -1 /\ tiPc' = "report"
  /\ omErrno' = IF err = "same" THEN omErrno ELSE err
  /\ NoCallback

TiDone(next, percent) ==
  /\ tiPc' = next /\ cb' = Progress("TARGET_INSTANTIATION", percent)
  /\ UNCHANGED <<tiStatus, omErrno>>

TiGoOn(next) ==
  /\ tiPc' = next /\ NoCallback
  /\ UNCHANGED <<tiStatus, omErrno>>

CreateFdisk ==
  /\ tiPc = "fdisk"
  /\ \/ TiDone("vtoc", 20)
     \/ \E e \in {"NO_SPACE", "NO_TARGET_ATTRS", "same",
                  "TARGET_INSTANTIATION_FAILED"} : TiFail(e)
  /\ UNCHANGED <<disk, swapDevice, call, xfer, request, tiRet>>

(* swap_device is chosen before the label is written.                      *)
CreateVtoc ==
  /\ tiPc = "vtoc"
  /\ \/ /\ swapDevice' = IF choices.swapSlice THEN "slice" ELSE "zvol"
        /\ TiDone("pool", 40) \/ TiFail("CANT_CREATE_VTOC_TARGET")
     \/ /\ \E e \in {"NO_SPACE", "same"} : TiFail(e)
        /\ UNCHANGED swapDevice
  /\ UNCHANGED <<disk, call, xfer, request, tiRet>>

(* zfm_create_pool: a pool of that name is destroyed, whatever it holds.   *)
DestroyExistingPool ==
  /\ tiPc = "pool"
  /\ \/ ListedAbsent /\ TiGoOn("pool_create") /\ UNCHANGED disk
     \/ pool # "absent" /\ TiGoOn("pool_create") /\ DestroyPool
     \/ \E e \in {"same", "CANT_CREATE_ZPOOL"} : TiFail(e) /\ UNCHANGED disk
  /\ UNCHANGED <<swapDevice, call, xfer, request, tiRet>>

(* zpool create: the pool exists from here on, with no install property.   *)
CreatePool ==
  /\ tiPc = "pool_create"
  /\ \/ /\ pool = "absent"
        /\ pool' = "unmarked" /\ owner' = "installer"
        /\ TiGoOn("pool_busy")
     \/ TiFail("CANT_CREATE_ZPOOL") /\ UNCHANGED <<pool, owner>>
  /\ UNCHANGED <<image, zvols, vfstab, swapDevice, call, xfer, request, tiRet>>

(* mkdir of the GRUB directory, then zfs set install=busy.                 *)
MarkPoolBusy ==
  /\ tiPc = "pool_busy"
  /\ \/ pool' = "busy" /\ TiDone("zvol", 60)
     \/ UNCHANGED pool /\ TiFail("CANT_CREATE_ZPOOL")
  /\ UNCHANGED <<owner, image, zvols, vfstab, swapDevice,
                 call, xfer, request, tiRet>>

(* prepare_zfs_volume_attrs: the volumes do_ti asks for, with the requested *)
(* sizes or for mandatory swap only; the empty set is its OM_FAILURE.      *)
(* Mutant: the swap slice is forgotten, a swap volume is made besides it.  *)
RequestedVolumesTwice(c) ==
  IF ~c.fits THEN {}
  ELSE {v \in Volumes : (v = "swap" /\ c.swap # 0) \/ (v = "dump" /\ c.dump # 0)}

RequestedVolumes(c) ==
  IF ~c.fits THEN {}
  ELSE {v \in Volumes : \/ v = "swap" /\ c.swap # 0 /\ ~c.swapSlice
                        \/ v = "dump" /\ c.dump # 0}

MinimalVolumes(c) == IF c.fits THEN {"swap"} ELSE {}

(* Requests for which do_ti creates no volume and says so in the log.      *)
NoVolumesRequested(c) ==
  c.dump = 0 /\ (c.swap = 0 \/ c.swapSlice)

(* zfm_create_volumes creates swap before dump and stops at the first      *)
(* failure.                                                                *)
VolumesCreated(planned) ==
  /\ zvols' = planned
  /\ TiDone("be", 80)
VolumesFailed(planned) ==
  /\ \/ zvols' = zvols
     \/ planned = Volumes /\ zvols' = {"swap"}
  /\ \E e \in {"same", "CANT_CREATE_ZVOL"} : TiFail(e)

CreateVolumes(planned) ==
  \/ planned # {} /\ VolumesCreated(planned)
  \/ VolumesFailed(planned)

SkipVolumes == UNCHANGED zvols /\ TiDone("be", 80)

CreateSwapAndDump ==
  /\ tiPc = "zvol"
  /\ \/ /\ choices.sizeOk /\ NoVolumesRequested(choices)
        /\ SkipVolumes /\ UNCHANGED swapDevice
     \/ /\ choices.sizeOk /\ ~NoVolumesRequested(choices)
        /\ CreateVolumes(RequestedVolumes(choices)) /\ UNCHANGED swapDevice
     \/ /\ ~choices.sizeOk /\ choices.required /\ ~choices.swapSlice
        /\ CreateVolumes(MinimalVolumes(choices)) /\ UNCHANGED swapDevice
     \/ /\ ~choices.sizeOk /\ choices.swapSlice
        /\ SkipVolumes /\ UNCHANGED swapDevice
     \/ /\ ~choices.sizeOk /\ ~choices.required
        /\ SkipVolumes /\ swapDevice' = "none"
  /\ UNCHANGED <<pool, owner, image, vfstab, call, xfer, request, tiRet>>

CreateBE ==
  /\ tiPc = "be"
  /\ \/ image' = image \cup {"be"} /\ TiDone("report", 99)
     \/ UNCHANGED image /\ TiFail("same")
  /\ UNCHANGED <<pool, owner, zvols, vfstab, swapDevice,
                 call, xfer, request, tiRet>>

(* ti_error: report the outcome.  With breakpoint after_TI the thread then *)
(* ends the process (see Exit).                                            *)
TiReport ==
  /\ tiPc = "report"
  /\ tiPc' = "exited"
  /\ IF tiStatus # 0
       THEN NotifyErrorStatus("TARGET_INSTANTIATION_FAILED")
       ELSE cb' = Progress("TARGET_INSTANTIATION", 100)
  /\ UNCHANGED <<disk, tiStatus, swapDevice, call, xfer, request,
                 omErrno, tiRet>>

-----------------------------------------------------------------------------
(* do_transfer, in its own thread *)

(* Mutant: no pthread_exit() after the failure was reported.               *)
TransferFallsThrough(code) ==
  /\ xPc' = "locale" /\ xStatus' = -1
  /\ NotifyErrorStatus(code)
(* Mutant: the thread exits without a callback.                            *)
TransferExitSilently(code) ==
  /\ xPc' = "exited" /\ xStatus' = -1
  /\ NoCallback

TransferExit(code) ==
  /\ xPc' = "exited" /\ xStatus' = -1
  /\ NotifyErrorStatus(code)

(* Mutant: do_ti's status is -1, never positive.                           *)
TargetFailedPositive(ret) == ret > 0

TargetFailed(ret) == ret # 0

(* pthread_join(ti_thread), then the transfer attributes are built.        *)
JoinTI ==
  /\ xPc = "join" /\ tiPc = "exited" /\ choices.breakpoint # "after_TI"
  /\ tiRet' = tiRet + tiStatus
  /\ \/ /\ TargetFailed(tiRet')
        /\ TransferExit("TARGET_INSTANTIATION_FAILED")
        /\ omErrno' = "TARGET_INSTANTIATION_FAILED"
     \/ /\ ~TargetFailed(tiRet') /\ choices.phases = 0
        /\ TransferExit("NO_SPACE") /\ omErrno' = "NO_SPACE"
     \/ /\ ~TargetFailed(tiRet')
        /\ xPc' = "transfer" /\ NoCallback /\ UNCHANGED <<xStatus, omErrno>>
  /\ UNCHANGED <<disk, call, ti, phase, request>>

(* handle_TM_callback: the transfer module reports progress.               *)
HandleTMCallback ==
  /\ xPc = "transfer"
  /\ \E p \in {0, 60, 100} : cb' = Progress("SOFTWARE_UPDATE", p)
  /\ UNCHANGED <<disk, call, ti, xfer, request, omErrno, tiRet>>

(* One TM_perform_transfer: the whole CPIO copy, or one IPS phase of       *)
(* om_perform_transfer_ips.                                                *)
PerformTransfer ==
  /\ xPc = "transfer"
  /\ \/ /\ phase' = phase + 1
        /\ IF phase' >= choices.phases
             THEN xPc' = "locale" /\ image' = image \cup {"software"}
             ELSE UNCHANGED <<xPc, image>>
        /\ UNCHANGED xStatus /\ NoCallback
     \/ /\ TransferExit("TRANSFER_FAILED")
        /\ UNCHANGED <<phase, image>>
  /\ UNCHANGED <<pool, owner, zvols, vfstab, call, ti, request,
                 omErrno, tiRet>>

(* Mutant: the failure of a completion task is logged and no more.         *)
NoteNothing(step) == UNCHANGED xStatus

NoteFailure(step) ==
  IF step \in CheckedIcts THEN xStatus' = -1 ELSE UNCHANGED xStatus

(* A completion task: a failure is remembered in status, and the next task *)
(* runs in either case.                                                    *)
Ict(step, next) ==
  /\ xPc = step /\ xPc' = next
  /\ \/ ~IctApplies(choices, step) /\ UNCHANGED <<image, xStatus>>
     \/ /\ IctApplies(choices, step)
        /\ image' = image \cup {step} /\ UNCHANGED xStatus
     \/ /\ IctApplies(choices, step)
        /\ UNCHANGED image
        /\ NoteFailure(step)
  /\ NoCallback
  /\ UNCHANGED <<zvols, owner, phase, call, ti, request, omErrno, tiRet>>

PlainIct ==
  /\ \/ Ict("locale", "user_dir")
     \/ Ict("user_dir", "user_profile")
     \/ Ict("user_profile", "vfstab")
     \/ Ict("hostname", "activate_be")
     \/ Ict("activate_be", "installboot")
     \/ Ict("installboot", "install_finish")
     \/ Ict("install_finish", "snapshot")
     \/ Ict("snapshot", "mark_ready")
     \/ Ict("reset_mounts", "notify")
  /\ UNCHANGED <<pool, vfstab>>

(* Only when swap_device is set; failing to open vfstab is not an error.   *)
SetupEtcVfstabForSwap ==
  /\ xPc = "vfstab" /\ xPc' = "hostname"
  /\ vfstab' \in {vfstab, swapDevice}
  /\ NoCallback
  /\ UNCHANGED <<pool, owner, image, zvols, xStatus, phase, call, ti, request,
                 omErrno, tiRet>>

MarkRootPoolReady ==
  /\ Ict("mark_ready", "reset_mounts")
  /\ pool' = IF "mark_ready" \in image' THEN "ready" ELSE pool
  /\ UNCHANGED vfstab

NotifyCaller ==
  /\ xPc = "notify" /\ xPc' = "exited"
  /\ IF xStatus = 0 THEN NotifyInstallComplete
                    ELSE NotifyErrorStatus("ICT_FAILURE")
  /\ UNCHANGED <<disk, call, ti, xStatus, phase, request, omErrno, tiRet>>

-----------------------------------------------------------------------------
(* Somebody imports an old pool called rpool on the machine being          *)
(* installed: the pool the comments of om_perform_install speak of.        *)
ImportPool ==
  /\ "import" \in Faults /\ pool = "absent"
  /\ pool' = "unmarked" /\ owner' = "user"
  /\ NoCallback
  /\ UNCHANGED <<image, zvols, vfstab, call, ti, xfer, request, omErrno, tiRet>>

(* The process ends, by exit(), by a crash or with the machine, and a new  *)
(* one is started with a new request; the disk stays as it is.             *)
Restart ==
  /\ runs < MaxRuns /\ runs' = runs + 1
  /\ \E c \in Choices : FreshProcess(c)
  /\ UNCHANGED disk

(* Every thread of the process has finished, or a breakpoint ended it.     *)
Stopped ==
  \/ callPc = "breakpoint" /\ choices.breakpoint = "before_TI"
  \/ tiPc = "exited" /\ choices.breakpoint = "after_TI"
  \/ callPc = "done" /\ tiPc \in {"idle", "exited"}
       /\ xPc \in {"idle", "exited"}

CallStep ==
  \/ Validate \/ PoolCheck \/ ReleasePool \/ PassBreakpoint
  \/ SpawnTI \/ SpawnTransfer
TiStep ==
  \/ CreateFdisk \/ CreateVtoc \/ DestroyExistingPool \/ CreatePool
  \/ MarkPoolBusy \/ CreateSwapAndDump \/ CreateBE \/ TiReport
TransferStep ==
  \/ JoinTI \/ PerformTransfer \/ PlainIct
  \/ SetupEtcVfstabForSwap \/ MarkRootPoolReady \/ NotifyCaller

Engine == CallStep \/ TiStep \/ TransferStep \/ HandleTMCallback \/ ImportPool

Next ==
  \/ Call \/ ClientResumes
  \/ Engine
  \/ Restart
  \/ Stopped /\ UNCHANGED omVars

Spec == Init /\ [][Next]_omVars

-----------------------------------------------------------------------------
(* Properties *)

TypeOK ==
  /\ pool \in {"absent", "unmarked", "busy", "ready"}
  /\ owner \in {"nobody", "user", "installer"}
  /\ image \subseteq ImageParts
  /\ zvols \subseteq Volumes
  /\ vfstab \in {"none", "slice", "zvol"}
  /\ runs \in 1..MaxRuns /\ choices \in Choices
  /\ callPc \in CallPcs
  /\ callRet \in {"none", "OM_SUCCESS", "OM_FAILURE", "OM_NO_SPACE"}
  /\ omErrno \in OmErrors
  /\ tiPc \in TiPcs /\ tiStatus \in {0, -1} /\ tiRet \in {0, 1, -1}
  /\ swapDevice \in {"none", "slice", "zvol"}
  /\ xPc \in XPcs /\ xStatus \in {0, -1} /\ phase \in Nat
  /\ cb \in Callbacks

(* do_transfer writes only into a boot environment that this process's     *)
(* do_ti has completely set up, on a pool that belongs to the installer:   *)
(* pthread_join and ti_ret keep the two threads apart.                     *)
TransferHasTarget ==
  xPc \notin {"idle", "join", "exited"} =>
    /\ tiPc = "exited" /\ tiStatus = 0
    /\ owner = "installer" /\ "be" \in image
    /\ pool = IF xPc \in {"reset_mounts", "notify"} /\ "mark_ready" \in image
                THEN "ready" ELSE "busy"

(* A pool the installer has marked 'ready' holds a boot environment and    *)
(* the whole software image, whatever crashed, failed or was restarted.    *)
ReadyIsPopulated ==
  pool = "ready" /\ owner = "installer" => {"be", "software"} \subseteq image

(* The success callback is made only when every completion task whose      *)
(* failure do_transfer looks at was done and the pool is marked ready.     *)
SuccessIsComplete ==
  cb = Progress("POSTINSTAL_TASKS", 100) =>
    /\ pool = "ready" /\ {"be", "software"} \subseteq image
    /\ \A s \in CheckedIcts : IctApplies(choices, s) => s \in image

(* When vfstab is written, a swap that do_ti did create is the device      *)
(* swap_device names.                                                      *)
SwapIsListed ==
  xPc = "vfstab" =>
    /\ choices.swapSlice => swapDevice = "slice"
    /\ "swap" \in zvols => swapDevice = "zvol"

(* A pool that somebody else made, or that an installation has finished,   *)
(* is never destroyed or re-marked: om_perform_install refuses it.  "If    *)
(* property can't be obtained, it must be assumed that root pool contains  *)
(* valid Solaris instance", as its comment says.                           *)
ForeignPoolSurvives ==
  [][owner = "user" \/ pool = "ready" => UNCHANGED <<pool, owner>>]_omVars

-----------------------------------------------------------------------------
(* What comments of the code say and the code does not keep *)

(* "If swap was created, add appropriate entry to <target>/etc/vfstab": an *)
(* entry for a swap volume is added for a volume that exists.              *)
VfstabSwapExists == vfstab = "zvol" => "swap" \in zvols

=============================================================================
