---------------------------- MODULE TextInstall ----------------------------
(***************************************************************************)
(* The installation of the text installer: the progress screen in the main *)
(* thread (install_progress.py), the installation thread (ti_install.py)   *)
(* and, inside it, the transfer with its progress thread. The user may ask *)
(* to quit at any time; the process may die and be started again.          *)
(***************************************************************************)
EXTENDS TransferMod

CONSTANTS
  Profiles,   \* install profiles: toPool (into an existing pool)
  TxFaults,   \* subset of {"checks", "clock", "disk", "tasks", "cleanup"}: steps that may fail
  Tasks,      \* number of completion tasks before the pool is marked ready
  MaxStarts   \* bound on the starts of the program

ASSUME TxAssumption ==
  /\ TxFaults \subseteq {"checks", "clock", "disk", "tasks", "cleanup"}
  /\ Tasks \in Nat /\ MaxStarts \in Nat \ {0}
  /\ \E r \in Requests : r.mech = "cpio" /\ r.act = "entire" /\ r.sized
  /\ \A f \in Profiles : f.toPool \in BOOLEAN

VARIABLES
  txProfile,   \* install_profile
  uiPc,        \* main thread: the progress screen, and what is after it
  itPc,        \* installation thread
  quitEvent, timeEvent, updateEvent,  \* the three threading.Events
  succeeded,   \* install_profile.install_succeeded
  txPool,      \* root pool on disk: its state
  txOwner,     \* history: who made it, "us" or "other"
  txImage,     \* what is in it: "old", "part", "whole"
  taskNo, failedIcts,  \* completion tasks run, and how many failed
  beMounted,   \* whether the boot environment is mounted on /a
  drawn,       \* whether the progress thread has just drawn on the screen
  starts

uiVars == <<uiPc, quitEvent, timeEvent, updateEvent, drawn>>
diskVars == <<txPool, txOwner, txImage>>
itVars == <<itPc, succeeded, diskVars, taskNo, failedIcts, beMounted>>
txVars == <<tmVars, txProfile, uiVars, itVars, starts>>

Entire == CHOOSE r \in Requests : r.mech = "cpio" /\ r.act = "entire" /\ r.sized
TxFault(f) == f \in TxFaults

Fresh ==
  /\ uiPc = "loop" /\ itPc = "checks" /\ quitEvent = FALSE /\ timeEvent = FALSE /\ updateEvent = FALSE
  /\ succeeded = FALSE /\ taskNo = 0 /\ failedIcts = 0 /\ beMounted = FALSE /\ drawn = FALSE
TxInit ==
  /\ TmInit /\ tmReq = Entire /\ Fresh /\ txProfile \in Profiles /\ starts = 1
  /\ txPool \in (IF txProfile.toPool THEN {"ready"} ELSE {"none", "foreign", "busy", "ready"})
  /\ txOwner = "other" /\ txImage = "old"

(* InstallStatus.update: raises when the user has asked to quit.           *)
Update == ~quitEvent
IsAlive == itPc \notin {"ended"}

(* An InstallationError ends perform_ti_install.                           *)
Fail == itPc' = "ended" /\ succeeded' = FALSE
To(pc) == itPc' = pc /\ UNCHANGED succeeded
ItRest == UNCHANGED <<txProfile, uiVars, tmVars, starts>>

(* do_ti_install: sizes and time zone; the clock, then the event the main  *)
(* thread waits for.                                                       *)
Checks ==
  /\ itPc = "checks" /\ ItRest /\ UNCHANGED <<diskVars, taskNo, failedIcts, beMounted>>
  /\ (To("clock") \/ (TxFault("checks") /\ Fail))
SetClock ==
  /\ itPc = "clock" /\ UNCHANGED <<txProfile, tmVars, starts, diskVars, taskNo, failedIcts, beMounted>>
  /\ \/ To("cleanup") /\ timeEvent' = TRUE
     \/ TxFault("clock") /\ Fail /\ UNCHANGED timeEvent
  /\ UNCHANGED <<uiPc, quitEvent, updateEvent, drawn>>

(* cleanup_existing_install_target: a pool that is not marked busy is not  *)
(* touched, and the installation ends.                                     *)
CleanupAny ==   \* mutant: the mark of the pool is not looked at
  /\ itPc = "cleanup" /\ ItRest /\ UNCHANGED <<taskNo, failedIcts, beMounted>>
  /\ To("disks") /\ txPool' = "none" /\ UNCHANGED <<txOwner, txImage>>
Cleanup ==
  /\ itPc = "cleanup" /\ ItRest /\ UNCHANGED <<taskNo, failedIcts, beMounted>>
  /\ \/ (txProfile.toPool \/ txPool = "none") /\ To("disks") /\ UNCHANGED diskVars
     \/ ~txProfile.toPool /\ txPool = "busy"
        /\ \/ To("disks") /\ txPool' = "none" /\ UNCHANGED <<txOwner, txImage>>
           \/ TxFault("disk") /\ Fail /\ txPool' \in {"none", "busy"} /\ UNCHANGED <<txOwner, txImage>>
     \/ ~txProfile.toPool /\ txPool \notin {"none", "busy"} /\ Fail /\ UNCHANGED diskVars

(* do_ti, create_root_pool: the pool is made, then marked busy, then       *)
(* filled with volumes and the boot environment. Each may fail, and after  *)
(* each the user's wish to quit is looked at.                              *)
TargetStep(pc, next, pools, asks) ==
  /\ itPc = pc /\ ItRest /\ UNCHANGED <<txImage, taskNo, failedIcts>>
  /\ \/ (asks => Update) /\ To(next) /\ txPool' = pools
     \/ asks /\ ~Update /\ Fail /\ txPool' = pools
     \/ TxFault("disk") /\ Fail /\ UNCHANGED txPool
MakeTarget ==
  \/ /\ IF txProfile.toPool THEN TargetStep("disks", "be", txPool, FALSE)
                            ELSE TargetStep("disks", "pool", txPool, TRUE)
     /\ UNCHANGED <<txOwner, beMounted>>
  \/ TargetStep("pool", "mark", "foreign", FALSE) /\ UNCHANGED beMounted
     /\ txOwner' = IF txPool' = "foreign" THEN "us" ELSE txOwner
  \/ TargetStep("mark", "volumes", "busy", TRUE) /\ UNCHANGED <<txOwner, beMounted>>
  \/ TargetStep("volumes", "be", txPool, TRUE) /\ UNCHANGED <<txOwner, beMounted>>
  \/ TargetStep("be", "transfer", txPool, TRUE) /\ UNCHANGED txOwner /\ beMounted' = (beMounted \/ itPc' = "transfer")

(* What becomes of the image of the pool's own installation; one into an   *)
(* existing pool leaves it alone.                                          *)
Image(is) == txImage' = IF txProfile.toPool THEN txImage ELSE is

(* do_transfer: the transfer module does the work in the thread that calls *)
(* it; transfer_mod_callback turns a wish to quit into a request to abort. *)
StartTransfer ==
  /\ itPc = "transfer" /\ tmPc \in {"idle", "returned"} /\ TmStart(Entire) /\ To("copying") /\ Image("part")
  /\ UNCHANGED <<txProfile, uiVars, starts, txPool, txOwner, taskNo, failedIcts, beMounted>>
CopyImage == itPc = "copying" /\ TmThread(quitEvent) /\ UNCHANGED <<txProfile, uiVars, itVars, starts>>
TransferDone ==
  /\ itPc = "copying" /\ tmPc = "returned" /\ ItRest /\ UNCHANGED <<txPool, txOwner, taskNo, failedIcts, beMounted>>
  /\ IF tmRet = "TM_E_SUCCESS"
     THEN Image("whole") /\ IF Update THEN To("vfstab") ELSE Fail
     ELSE Fail /\ UNCHANGED txImage
(* Progress is drawn unless the user is being asked.                       *)
Progress ==
  /\ MonThread(quitEvent) /\ drawn' = (tmCb' >= 0 /\ ~quitEvent /\ ~updateEvent)
  /\ UNCHANGED <<txProfile, uiPc, quitEvent, timeEvent, updateEvent, itVars, starts>>

(* init and vfstab are written, or the installation ends as it is.         *)
WriteVfstab ==
  /\ itPc = "vfstab" /\ ItRest /\ UNCHANGED <<diskVars, taskNo, failedIcts, beMounted>>
  /\ (To("tasks") \/ (TxFault("tasks") /\ Fail))

(* run_ICTs: the tasks are all run, whatever becomes of them; half-way the *)
(* wish to quit is looked at. The last marks the pool as ready.            *)
RunTask ==
  /\ itPc = "tasks" /\ taskNo < Tasks /\ ItRest /\ UNCHANGED <<diskVars, beMounted>>
  /\ \/ taskNo = Tasks \div 2 /\ ~Update /\ itPc' = "unmounting" /\ UNCHANGED <<succeeded, taskNo, failedIcts>>
     \/ (taskNo = Tasks \div 2 => Update) /\ taskNo' = taskNo + 1 /\ To("tasks")
        /\ (UNCHANGED failedIcts \/ (TxFault("tasks") /\ failedIcts' = failedIcts + 1))
MarkReady ==
  /\ itPc = "tasks" /\ taskNo = Tasks /\ ItRest /\ UNCHANGED <<txOwner, txImage, taskNo, beMounted>>
  /\ \/ txPool' = "ready" /\ UNCHANGED failedIcts
        /\ (IF failedIcts = 0 THEN To("cleaning") ELSE itPc' = "unmounting" /\ UNCHANGED succeeded)
     \/ TxFault("tasks") /\ failedIcts' = failedIcts + 1 /\ UNCHANGED txPool /\ To("unmounting")

(* post_install_cleanup, after success and after failure alike.            *)
PostInstallCleanup ==
  /\ itPc \in {"cleaning", "unmounting"} /\ ItRest /\ UNCHANGED <<diskVars, taskNo, failedIcts>>
  /\ \/ beMounted' = FALSE /\ IF itPc = "cleaning" THEN To("last") ELSE Fail
     \/ TxFault("cleanup") /\ Fail /\ UNCHANGED beMounted
LastUpdate ==
  /\ itPc = "last" /\ ItRest /\ UNCHANGED <<diskVars, taskNo, failedIcts, beMounted>>
  /\ itPc' = "ended" /\ succeeded' = Update

InstallThread ==
  \/ Checks \/ SetClock \/ Cleanup \/ MakeTarget \/ StartTransfer \/ CopyImage \/ TransferDone
  \/ WriteVfstab \/ RunTask \/ MarkReady \/ PostInstallCleanup \/ LastUpdate
-----------------------------------------------------------------------------
(* The main thread: validate_loop looks whether the thread is alive, waits *)
(* for the event without a time limit, and reads a key.                    *)
Ui(pc) == uiPc' = pc /\ drawn' = FALSE /\ UNCHANGED <<timeEvent, txProfile, tmVars, itVars, starts>>
LookAliveNever == uiPc = "loop" /\ Ui("wait") /\ UNCHANGED <<quitEvent, updateEvent>>   \* mutant
LookAlive == uiPc = "loop" /\ Ui(IF IsAlive THEN "wait" ELSE "next") /\ UNCHANGED <<quitEvent, updateEvent>>
WaitEvent == uiPc = "wait" /\ timeEvent /\ Ui("getch") /\ UNCHANGED <<quitEvent, updateEvent>>
NoKey     == uiPc = "getch" /\ Ui("loop") /\ UNCHANGED <<quitEvent, updateEvent>>
(* confirm_quit: nothing is drawn while the question is on the screen.     *)
KeyQuit   == uiPc = "getch" /\ Ui("asking") /\ updateEvent' = TRUE /\ UNCHANGED quitEvent
Answered(quits) ==
  uiPc = "asking" /\ updateEvent' = FALSE /\ quitEvent' = quits /\ Ui(IF quits THEN "joining" ELSE "loop")
JoinInstall == uiPc = "joining" /\ ~IsAlive /\ Ui("left") /\ UNCHANGED <<quitEvent, updateEvent>>
MainThread == LookAlive \/ WaitEvent \/ NoKey \/ JoinInstall

(* The process dies and the program is started again on what is on disk.   *)
Die ==
  /\ starts < MaxStarts /\ starts' = starts + 1
  /\ uiPc' = "loop" /\ itPc' = "checks" /\ quitEvent' = FALSE /\ timeEvent' = FALSE /\ updateEvent' = FALSE
  /\ succeeded' = FALSE /\ taskNo' = 0 /\ failedIcts' = 0 /\ beMounted' = FALSE /\ drawn' = FALSE
  /\ tmPc' = "idle" /\ tmReq' = Entire /\ tmRet' = "none" /\ tmLock' = "None" /\ do_abort' = FALSE
  /\ copied' = 0 /\ monPc' = "none" /\ monDone' = FALSE /\ prevpct' = -1 /\ strays' = 0
  /\ tries' = 0 /\ ipsImage' = NoImage /\ tmCb' = -1 /\ tmLast' = -1
  /\ UNCHANGED diskVars /\ txProfile' \in Profiles
  /\ (txProfile'.toPool => txPool = "ready")
(* An installation that ends before the clock is set leaves the screen     *)
(* waiting for an event that does not come.                                *)
Hung == uiPc = "wait" /\ ~IsAlive /\ ~timeEvent /\ UNCHANGED txVars
Over == uiPc \in {"next", "left"} /\ ~IsAlive /\ UNCHANGED txVars

TxNext ==
  InstallThread \/ Progress \/ MainThread \/ KeyQuit \/ Die \/ Hung \/ Over \/ \E q \in BOOLEAN : Answered(q)
TxSpec == TxInit /\ [][TxNext]_txVars
TxFairSpec ==
  TxSpec /\ WF_txVars(InstallThread) /\ WF_txVars(Progress) /\ WF_txVars(MainThread)
         /\ WF_txVars(\E q \in BOOLEAN : Answered(q))
-----------------------------------------------------------------------------
(* Types of what the text installer keeps. *)
TxTypeOK ==
  /\ TmTypeOK /\ txPool \in {"none", "foreign", "busy", "ready"} /\ txOwner \in {"us", "other"}
  /\ txImage \in {"old", "part", "whole"} /\ failedIcts \in 0..Tasks + 1 /\ taskNo \in 0..Tasks
  /\ beMounted \in BOOLEAN /\ succeeded \in BOOLEAN /\ quitEvent \in BOOLEAN

(* A pool that somebody else made, and that carries no mark of a broken    *)
(* installation, is never destroyed (cleanup_existing_install_target).     *)
ForeignPoolsStay ==
  [][(txPool \in {"foreign", "ready"}) => txPool' # "none"]_txVars

(* An installation that reports success copied everything, all its tasks   *)
(* succeeded, its pool is marked, and nothing of it is mounted or running. *)
SuccessIsWhole ==
  succeeded => tmRet = "TM_E_SUCCESS" /\ failedIcts = 0 /\ txPool = "ready" /\ ~beMounted /\ monPc = "none" /\ strays = 0

(* A pool of ours is marked ready only when an image was copied into it    *)
(* completely, so a broken one can be cleaned up by the next start.        *)
ReadyIsWhole == txOwner = "us" /\ txPool = "ready" => txImage = "whole"

(* The progress thread of a transfer that succeeded draws only while the   *)
(* installation runs: the next screen is not painted over. (One of a       *)
(* transfer that failed half-way is left behind, and draws on.)            *)
NextScreenStays == drawn /\ uiPc = "next" => tmRet # "TM_E_SUCCESS"

(* What is called a success is one: every list was copied and the progress  *)
(* thread has gone; an installation that succeeded is whole, marked and     *)
(* unmounted; a pool of ours that is marked ready has a whole image; and    *)
(* nobody draws on the next screen (cpio_transfer_filelist, do_ti_install). *)
SuccessIsSuccess ==
  TxTypeOK /\ SuccessIsOver /\ RetriesFitTheTimeout /\ SuccessIsWhole /\ ReadyIsWhole /\ NextScreenStays

(* Who confirms that he wants to quit gets out, and everything has stopped *)
(* by then: the abort goes through the callback, twice if need be.         *)
QuitGetsOut == quitEvent ~> (uiPc = "left" \/ ~quitEvent)

(* Once the clock is set, an installation thread that ended is noticed:    *)
(* the next screen comes, or the user who wants to quit gets out.          *)
EndIsNoticed == (itPc = "ended" /\ timeEvent) ~> (uiPc \in {"next", "left"} \/ itPc # "ended")

=============================================================================
