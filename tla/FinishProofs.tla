---------------------------- MODULE FinishProofs ----------------------------
(***************************************************************************)
(* Theorems about the end of an installation: the transfer module, with    *)
(* any requests, number of lists and faults, the text installer around it, *)
(* with any profiles, number of tasks and starts, and the installation     *)
(* completion tasks, with any installations and any tasks that fail.       *)
(***************************************************************************)
EXTENDS TextInstall, Ict, Functions, FiniteSetTheorems, TLAPS

-----------------------------------------------------------------------------
(* The transfer module *)

(* How far the copying is, said of each point of tm_perform_transfer; only *)
(* a call that finished is answered with success.                          *)
TmCopied ==
  /\ tmPc \in {"lists", "monitor", "next", "cpio", "join", "finish", "closing"} => tmReq.mech = "cpio"
  /\ tmPc = "ips" => tmReq.mech = "ips"
  /\ copied <= NLists
  /\ tmPc = "cpio" => copied < NLists
  /\ tmPc \in {"join", "finish", "closing"} => copied = NLists
  /\ tmPc = "closing" => tmRet = "TM_E_SUCCESS"
  /\ tmRet = "TM_E_SUCCESS" => tmPc \in {"closing", "returned"}

(* There is a progress thread only between its start and the wait for it,  *)
(* and after a transfer that failed in between.                            *)
TmWatched ==
  /\ monPc # "none" => tmReq.sized
  /\ tmPc \in {"idle", "lists", "monitor", "finish", "closing", "ips"} => monPc = "none"
  /\ tmPc = "returned" /\ tmRet = "TM_E_SUCCESS" => monPc = "none"

(* Another attempt is made only while time is left.                        *)
TmRetried == tmPc = "ips" /\ tmReq.act = "init" => tries <= (tmReq.timeout + 9) \div 10

(* 100 percent is reported by a transfer that is as good as successful.    *)
TmReported == tmLast \in -1..AllPct /\ (tmLast = AllPct => tmRet = "TM_E_SUCCESS")

TmInv ==
  /\ TmTypeOK /\ tmReq \in Requests /\ SuccessIsOver /\ RetriesFitTheTimeout
  /\ TmCopied /\ TmWatched /\ TmRetried /\ TmReported


LEMMA TmInitHolds == TmInit => TmInv
  <1> SUFFICES ASSUME TmInit PROVE TmInv
    OBVIOUS
  <1>1. tmReq \in Requests /\ tmReq.timeout \in Nat
    BY TmAssumption DEF TmInit
  <1>2. RetriesFitTheTimeout
    BY <1>1 DEF TmInit, RetriesFitTheTimeout
  <1>3. do_abort \in BOOLEAN
    BY DEF TmInit
  <1>5. copied \in 0..Lists
    BY TmAssumption DEF TmInit
  <1>6. TmTypeOK /\ TmReported
    BY <1>3, <1>5, TmAssumption DEF TmInit, TmTypeOK, TmReported, Below, EndPct, AllPct
  <1>4. SuccessIsOver /\ TmCopied /\ TmWatched /\ TmRetried
    BY TmAssumption DEF TmInit, SuccessIsOver, TmCopied, TmWatched, TmRetried, NLists
  <1>7. QED
    BY <1>1, <1>2, <1>4, <1>6 DEF TmInv

LEMMA TmStepHolds == ASSUME TmInv, [TmNext]_tmVars PROVE TmInv'
  <1> USE TmAssumption DEF TmInv, TmTypeOK, SuccessIsOver, RetriesFitTheTimeout, TmCopied, TmWatched,
        TmRetried, TmReported, NLists, Below, EndPct, AllPct, Silent, Report, tm_abort_transfer, tmShared, tmProgress
  <1>1. CASE AbortRequest
    <2>1. tmLock' \in {"None", "free", "locked"} /\ do_abort' \in BOOLEAN
      BY <1>1 DEF AbortRequest
    <2>2. UNCHANGED <<tmPc, tmReq, tmRet, copied, monPc, monDone, prevpct, strays, tries, tmLast>> /\ tmCb' = -1
      BY <1>1 DEF AbortRequest
    <2>3. QED
      BY <2>1, <2>2
  <1>2. ASSUME NEW req \in Requests, TmStart(req) PROVE TmInv'
    BY <1>2 DEF TmStart, First
  <1>3. ASSUME NEW abort \in BOOLEAN, TmThread(abort) PROVE TmInv'
    <2> USE DEF Raise, Answer, Goto
    <2>1. CASE BuildLists(abort)
      <3>1. tmLock' \in {"None", "free", "locked"} /\ do_abort' \in BOOLEAN
        BY <2>1 DEF BuildLists
      <3>2. tmCb' = Below /\ tmLast' = Below
        BY <2>1 DEF BuildLists
      <3>3. tmPc' \in {"lists", "monitor"} /\ tmPc = "lists"
            /\ UNCHANGED <<tmReq, tmRet, copied, monPc, monDone, prevpct, strays, tries>>
        BY <2>1 DEF BuildLists
      <3>4. TmTypeOK'
        BY <3>1, <3>2, <3>3
      <3>5. TmReported' /\ TmCopied' /\ TmWatched'
        BY <3>2, <3>3
      <3>6. TmRetried' /\ SuccessIsOver' /\ RetriesFitTheTimeout'
        BY <3>3
      <3>7. QED
        BY <3>3, <3>4, <3>5, <3>6
    <2>2. CASE ListsFail
      BY <2>2 DEF ListsFail
    <2>3. CASE StartMonitor
      BY <2>3 DEF StartMonitor
    <2>4. CASE NextList
      BY <2>4 DEF NextList
    <2>5. CASE Cpio
      BY <2>5 DEF Cpio
    <2>6. CASE Abort
      BY <2>6 DEF Abort, CheckAbort, Interrupted
    <2>7. CASE JoinMonitor
      BY <2>7 DEF JoinMonitor
    <2>8. CASE Finish(abort)
      <3>1. tmLock' \in {"None", "free", "locked"} /\ do_abort' \in BOOLEAN
        BY <2>8 DEF Finish
      <3>2. tmCb' \in -1..AllPct /\ tmLast' \in -1..AllPct
        BY <2>8 DEF Finish
      <3>3. /\ tmPc = "finish" /\ UNCHANGED <<tmReq, copied, monPc, monDone, prevpct, strays, tries>>
            /\ \/ tmPc' = "closing" /\ tmRet' = "TM_E_SUCCESS"
               \/ tmPc' = "returned" /\ tmRet' = "TM_E_PYTHON_ERROR" /\ tmLast' = tmLast
        BY <2>8 DEF Finish
      <3>4. QED
        BY <3>1, <3>2, <3>3
    <2>9. CASE Close
      BY <2>9 DEF Close
    <2>10. CASE IpsInit
      BY <2>10 DEF IpsInit, IpsKept, Left
    <2>11. CASE IpsCommand
      BY <2>11 DEF IpsCommand, IpsKept
    <2>12. QED
      BY <1>3, <2>1, <2>2, <2>3, <2>4, <2>5, <2>6, <2>7, <2>8, <2>9, <2>10, <2>11 DEF TmThread
  <1>4. ASSUME NEW abort \in BOOLEAN, MonThread(abort) PROVE TmInv'
    <2>1. CASE MonWake
      BY <2>1 DEF MonWake, MonLeave
    <2>2. ASSUME NEW p \in {Below, EndPct}, MonMeasure(p, abort) PROVE TmInv'
      <3>1. tmLock' \in {"None", "free", "locked"} /\ do_abort' \in BOOLEAN
        BY <2>2 DEF MonMeasure, MonLeave
      <3>2. /\ monPc = "measure" /\ monPc' \in {"none", "measure", "sleep"}
            /\ UNCHANGED <<tmPc, tmReq, tmRet, copied, monDone, strays, tries>>
        BY <2>2 DEF MonMeasure, MonLeave
      <3>3. CASE UNCHANGED <<prevpct, tmLast>> /\ tmCb' = -1
        BY <3>1, <3>2, <3>3
      <3>4. CASE prevpct' = p /\ UNCHANGED tmLast /\ tmCb' = -1
        BY <3>1, <3>2, <3>4
      <3>5. CASE prevpct' = p /\ tmLast' = p /\ tmCb' = p
        BY <3>1, <3>2, <3>5
      <3>6. QED
        BY <2>2, <3>3, <3>4, <3>5 DEF MonMeasure, MonLeave
    <2>3. QED
      BY <1>4, <2>1, <2>2 DEF MonThread
  <1>5. CASE UNCHANGED tmVars
    BY <1>5 DEF tmVars
  <1>6. ASSUME NEW abort \in BOOLEAN, NEW p \in {Below, EndPct}, StrayMonitor(p, abort) PROVE TmInv'
    <2>1. tmLock' \in {"None", "free", "locked"} /\ do_abort' \in BOOLEAN
      BY <1>6 DEF StrayMonitor
    <2>2. UNCHANGED <<tmPc, tmReq, tmRet, copied, monPc, monDone, prevpct, tries>> /\ strays' \in 0..MaxStrays
      BY <1>6 DEF StrayMonitor
    <2>3. (tmLast' = p /\ tmCb' = p) \/ (tmLast' = tmLast /\ tmCb' = -1)
      BY <1>6 DEF StrayMonitor
    <2>4. QED
      BY <2>1, <2>2, <2>3
  <1>7. QED
    BY <1>1, <1>2, <1>3, <1>4, <1>5, <1>6 DEF TmNext

(* The transfer module by itself: whoever calls it, in whatever order, a   *)
(* transfer by cpio that is called a success copied every list and has no  *)
(* progress thread left, and image-create is not tried for longer than     *)
(* asked (tm_perform_transfer).                                            *)
THEOREM TransfersAreOver == TmSpec => [](TmTypeOK /\ SuccessIsOver /\ RetriesFitTheTimeout)
  <1>1. TmInit => TmInv
    BY TmInitHolds
  <1>2. TmInv /\ [TmNext]_tmVars => TmInv'
    BY TmStepHolds
  <1>3. TmInv => TmTypeOK /\ SuccessIsOver /\ RetriesFitTheTimeout
    BY DEF TmInv
  <1>4. QED
    BY <1>1, <1>2, <1>3, PTL DEF TmSpec

(* After 100 percent a step of the module reports nothing: the thread that *)
(* transfers is past its report, and its progress thread has gone.         *)
LEMMA TmStepSilent == ASSUME TmInv, [TmNext]_tmVars, tmLast = AllPct, strays = 0, tmVars' # tmVars PROVE tmCb' = -1
  <1> USE DEF TmInv, TmCopied, TmWatched, TmReported, Silent, Raise, Answer
  <1>1. tmRet = "TM_E_SUCCESS" /\ tmPc \in {"closing", "returned"} /\ monPc = "none"
    BY DEF TmTypeOK
  <1>2. ASSUME NEW req \in Requests, TmStart(req) PROVE tmCb' = -1
    BY <1>2 DEF TmStart
  <1>3. ASSUME NEW abort \in BOOLEAN, TmThread(abort) PROVE tmCb' = -1
    BY <1>1, <1>3 DEF TmThread, BuildLists, ListsFail, StartMonitor, NextList, Goto, Cpio, Abort, Interrupted,
      JoinMonitor, Finish, Close, IpsInit, IpsCommand
  <1>4. ASSUME NEW abort \in BOOLEAN PROVE ~MonThread(abort) /\ \A p \in {Below, EndPct} : ~StrayMonitor(p, abort)
    BY <1>1 DEF MonThread, MonWake, MonMeasure, StrayMonitor
  <1>5. QED
    BY <1>2, <1>3, <1>4 DEF TmNext, AbortRequest

(* After 100 percent a transfer reports nothing, whichever thread it is,   *)
(* unless an earlier transfer has left one behind (cpio_transfer_filelist).*)
THEOREM HundredIsAlwaysLast == TmSpec => HundredIsLast
  <1>1. TmInit => TmInv
    BY TmInitHolds
  <1>2. TmInv /\ [TmNext]_tmVars => TmInv'
    BY TmStepHolds
  <1>3. TmInv /\ [TmNext]_tmVars => [tmLast = AllPct /\ strays = 0 => tmCb' = -1]_tmVars
    BY TmStepSilent
  <1>4. QED
    BY <1>1, <1>2, <1>3, PTL DEF TmSpec, HundredIsLast

-----------------------------------------------------------------------------
(* The text installer *)

(* Points of the installation thread, in order. *)
BeforeCopy == {"checks", "clock", "cleanup", "disks", "pool", "mark", "volumes", "be", "transfer"}
AfterCopy == {"vfstab", "tasks", "cleaning", "last"}

(* What the transfer was answered when the tasks are run.                  *)
TxCopied ==
  /\ tmReq = Entire
  /\ itPc \in AfterCopy => tmPc = "returned" /\ tmRet = "TM_E_SUCCESS"
  /\ itPc = "copying" \/ tmPc \in {"idle", "returned"}

(* There is one transfer in a run of the program: no thread of an earlier  *)
(* one.                                                                    *)
TxAlone == strays = 0 /\ (itPc \in BeforeCopy => tmPc = "idle")

(* A pool of its own is made, marked busy, filled and only then ready; a   *)
(* pool that was there is ready all the time.                              *)
TxPools ==
  IF txProfile.toPool THEN txPool = "ready" /\ itPc \notin {"pool", "mark", "volumes"}
  ELSE /\ itPc \in {"disks", "pool"} => txPool = "none"
       /\ itPc = "mark" => txPool = "foreign"
       /\ itPc \in {"volumes", "be", "transfer", "copying", "vfstab", "tasks"} => txPool = "busy"
       /\ itPc \in {"vfstab", "tasks"} => txImage = "whole"
       /\ itPc \in {"cleaning", "last"} => txPool = "ready"

(* Success is said of what was checked on the way.                         *)
TxEarned ==
  /\ itPc \in BeforeCopy \cup {"copying", "vfstab"} => failedIcts = 0 /\ taskNo = 0
  /\ itPc \in {"cleaning", "last"} => failedIcts = 0 /\ txPool = "ready"
  /\ itPc = "tasks" => failedIcts <= taskNo
  /\ itPc = "last" => ~beMounted
  /\ succeeded => itPc = "ended"

(* SuccessIsWhole, but for the threads of earlier transfers. *)
TxWhole == succeeded => tmRet = "TM_E_SUCCESS" /\ failedIcts = 0 /\ txPool = "ready" /\ ~beMounted /\ monPc = "none"

(* What the main thread saw stays so. *)
TxScreens == uiPc = "next" => itPc = "ended"

TxInv == TmInv /\ TxTypeOK /\ TxAlone /\ TxCopied /\ TxPools /\ TxEarned /\ TxScreens
         /\ TxWhole /\ ReadyIsWhole /\ NextScreenStays

LEMMA EntireIs == Entire \in Requests /\ Entire.mech = "cpio" /\ Entire.act = "entire" /\ Entire.sized
  BY TxAssumption DEF Entire

LEMMA TxInitHolds == TxInit => TxInv
  <1> SUFFICES ASSUME TxInit PROVE TxInv
    OBVIOUS
  <1>1. TmInv /\ TmTypeOK
    BY TmInitHolds DEF TxInit, TmInv
  <1>2. tmRet = "none" /\ tmPc = "idle" /\ monPc = "none" /\ strays = 0
    BY DEF TxInit, TmInit
  <1>3. succeeded = FALSE /\ beMounted = FALSE /\ quitEvent = FALSE /\ drawn = FALSE
    BY DEF TxInit, Fresh
  <1>4. taskNo = 0 /\ failedIcts = 0 /\ itPc = "checks" /\ uiPc = "loop"
    BY DEF TxInit, Fresh
  <1>5. txProfile.toPool \in BOOLEAN
    BY TxAssumption DEF TxInit
  <1>6. TxTypeOK
    <2>1. failedIcts \in 0..Tasks + 1 /\ taskNo \in 0..Tasks
      BY <1>4, TxAssumption
    <2>2. txPool \in {"none", "foreign", "busy", "ready"} /\ txOwner = "other" /\ txImage = "old"
      BY <1>5 DEF TxInit
    <2>3. QED
      BY <1>1, <1>3, <2>1, <2>2 DEF TxTypeOK
  <1>7. TxAlone /\ TxCopied /\ TxEarned /\ TxScreens /\ TxWhole /\ ReadyIsWhole /\ NextScreenStays
    BY <1>2, <1>3, <1>4 DEF TxInit, TxAlone, TxCopied, TxEarned, TxScreens, TxWhole, ReadyIsWhole, NextScreenStays,
      AfterCopy, BeforeCopy
  <1>8. TxPools
    BY <1>4, <1>5 DEF TxInit, TxPools
  <1>9. QED
    BY <1>1, <1>6, <1>7, <1>8 DEF TxInv

(* A step of the text installer is one of its transfer module, or leaves   *)
(* that alone, or starts the program anew.                                 *)
TmAnew == TmInit' /\ tmReq' = Entire
LEMMA TxStepIsTmStep == ASSUME TxTypeOK, [TxNext]_txVars PROVE [TmNext]_tmVars \/ TmAnew
  <1>1. ASSUME UNCHANGED tmVars PROVE [TmNext]_tmVars
    BY <1>1
  <1>2. quitEvent \in BOOLEAN
    BY DEF TxTypeOK
  <1>3. CASE StartTransfer
    BY <1>3, EntireIs DEF StartTransfer, TmNext
  <1>4. CASE CopyImage
    BY <1>4, <1>2 DEF CopyImage, TmNext
  <1>5. CASE Progress
    BY <1>5, <1>2 DEF Progress, TmNext
  <1>6. CASE Die
    BY <1>6, EntireIs DEF Die, TmAnew, TmInit
  <1>7. CASE Checks \/ SetClock \/ Cleanup \/ MakeTarget
    BY <1>7, <1>1 DEF Checks, SetClock, Cleanup, MakeTarget, TargetStep, ItRest
  <1>8. CASE TransferDone \/ WriteVfstab \/ RunTask \/ MarkReady \/ PostInstallCleanup \/ LastUpdate
    BY <1>8, <1>1 DEF TransferDone, WriteVfstab, RunTask, MarkReady, PostInstallCleanup, LastUpdate, ItRest
  <1>9. CASE MainThread \/ KeyQuit \/ \E q \in BOOLEAN : Answered(q)
    BY <1>9, <1>1 DEF MainThread, LookAlive, WaitEvent, NoKey, JoinInstall, KeyQuit, Answered, Ui
  <1>10. CASE Hung \/ Over \/ UNCHANGED txVars
    BY <1>10, <1>1 DEF Hung, Over, txVars
  <1>11. QED
    BY <1>3, <1>4, <1>5, <1>6, <1>7, <1>8, <1>9, <1>10 DEF TxNext, InstallThread

LEMMA TmAnewHolds == TmInit' => TmInv'
  BY TmInitHolds, PTL

LEMMA TmHolds == ASSUME TxInv, [TxNext]_txVars PROVE TmInv'
  <1>1. [TmNext]_tmVars \/ TmAnew
    BY TxStepIsTmStep DEF TxInv
  <1>2. CASE [TmNext]_tmVars
    BY <1>2, TmStepHolds DEF TxInv
  <1>3. CASE TmAnew
    BY <1>3, TmAnewHolds DEF TmAnew
  <1>4. QED
    BY <1>1, <1>2, <1>3

(* What is said of the text installer beside its transfer module.          *)
TxRest == TxTypeOK /\ TxCopied /\ TxPools /\ TxEarned /\ TxScreens /\ TxWhole /\ ReadyIsWhole /\ NextScreenStays

LEMMA TxAloneHolds == ASSUME TxInv, [TxNext]_txVars PROVE TxAlone'
  <1> USE DEF TxAlone, BeforeCopy, ItRest, To, Fail
  <1>1. TxAlone /\ (tmPc = "idle" => monPc = "none")
    BY DEF TxInv, TmInv, TmWatched
  <1>2. CASE Checks \/ SetClock \/ Cleanup
    BY <1>1, <1>2 DEF Checks, SetClock, Cleanup, tmVars
  <1>3. CASE MakeTarget
    BY <1>1, <1>3 DEF MakeTarget, TargetStep, tmVars
  <1>4. CASE StartTransfer
    BY <1>1, <1>4 DEF StartTransfer, TmStart
  <1>5. CASE CopyImage
    <2>1. strays' = strays
      BY <1>5 DEF CopyImage, TmThread, BuildLists, ListsFail, StartMonitor, NextList, Cpio, Abort, JoinMonitor, Finish,
        Close, IpsInit, IpsCommand, Interrupted, Raise, Goto, IpsKept, tmProgress
    <2>2. itPc' = "copying"
      BY <1>5 DEF CopyImage, itVars
    <2>3. QED
      BY <1>1, <2>1, <2>2
  <1>6. CASE TransferDone \/ WriteVfstab \/ RunTask \/ MarkReady
    BY <1>1, <1>6 DEF TransferDone, WriteVfstab, RunTask, MarkReady, tmVars
  <1>7. CASE PostInstallCleanup \/ LastUpdate
    BY <1>1, <1>7 DEF PostInstallCleanup, LastUpdate, tmVars
  <1>8. CASE Progress
    BY <1>1, <1>8 DEF Progress, MonThread, MonWake, MonMeasure, itVars
  <1>9. CASE MainThread \/ KeyQuit \/ \E q \in BOOLEAN : Answered(q)
    BY <1>1, <1>9 DEF MainThread, LookAlive, WaitEvent, NoKey, JoinInstall, KeyQuit, Answered, Ui, tmVars, itVars
  <1>10. CASE Die
    BY <1>10 DEF Die
  <1>11. CASE Hung \/ Over \/ UNCHANGED txVars
    BY <1>1, <1>11 DEF Hung, Over, txVars, tmVars, itVars
  <1>12. QED
    BY <1>2, <1>3, <1>4, <1>5, <1>6, <1>7, <1>8, <1>9, <1>10, <1>11 DEF TxNext, InstallThread

LEMMA TxStepHolds == ASSUME TxInv, [TxNext]_txVars PROVE TxInv'
  <1> USE TxAssumption
  <1>t. TmInv' /\ TmTypeOK'
    BY TmHolds DEF TmInv
  <1>a. TxAlone'
    BY TxAloneHolds
  <1>r. TxRest
    BY DEF TxInv, TxRest
  <1>s. itPc # "ended" => succeeded = FALSE
    <2>1. succeeded \in BOOLEAN /\ (succeeded => itPc = "ended")
      BY <1>r DEF TxRest, TxTypeOK, TxEarned
    <2>2. QED
      BY <2>1
  <1> SUFFICES TxRest'
    BY <1>t, <1>a DEF TxInv, TxRest
  <1> USE DEF TxRest, TxTypeOK, TxCopied, TxPools, TxEarned, TxScreens, TxWhole, ReadyIsWhole, NextScreenStays,
        BeforeCopy, AfterCopy, uiVars, diskVars, itVars, ItRest, To, Fail
  <1>1. CASE Checks
    <2>1. UNCHANGED <<txProfile, uiPc, quitEvent, drawn, tmReq, tmPc, tmRet, monPc>>
      BY <1>1 DEF Checks, tmVars
    <2>2. UNCHANGED <<txPool, txOwner, txImage, taskNo, failedIcts, beMounted>>
      BY <1>1 DEF Checks
    <2>3. itPc = "checks" /\ itPc' \in {"clock", "ended"} /\ succeeded' = FALSE
      BY <1>1, <1>s DEF Checks
    <2>4. TxTypeOK'
      BY <2>1, <2>2, <2>3, <1>t, <1>r
    <2>5. QED
      BY <2>1, <2>2, <2>3, <2>4, <1>r
  <1>2. CASE SetClock
    <2>1. UNCHANGED <<txProfile, uiPc, quitEvent, drawn, tmReq, tmPc, tmRet, monPc>>
      BY <1>2 DEF SetClock, tmVars
    <2>2. UNCHANGED <<txPool, txOwner, txImage, taskNo, failedIcts, beMounted>>
      BY <1>2 DEF SetClock
    <2>3. itPc = "clock" /\ itPc' \in {"cleanup", "ended"} /\ succeeded' = FALSE
      BY <1>2, <1>s DEF SetClock
    <2>4. TxTypeOK'
      BY <2>1, <2>2, <2>3, <1>t, <1>r
    <2>5. QED
      BY <2>1, <2>2, <2>3, <2>4, <1>r
  <1>3. CASE Cleanup
    <2>1. UNCHANGED <<txProfile, uiPc, quitEvent, drawn, tmReq, tmPc, tmRet, monPc>>
      BY <1>3 DEF Cleanup, tmVars
    <2>2. UNCHANGED <<txOwner, txImage, taskNo, failedIcts, beMounted>>
      BY <1>3 DEF Cleanup
    <2>3. itPc = "cleanup" /\ itPc' \in {"disks", "ended"} /\ succeeded' = FALSE
      BY <1>3, <1>s DEF Cleanup
    <2>4. /\ txPool' \in {"none", txPool}
          /\ txProfile.toPool => txPool' = txPool
          /\ ~txProfile.toPool /\ itPc' = "disks" => txPool' = "none"
      BY <1>3 DEF Cleanup
    <2>5. txPool' \in {"none", "foreign", "busy", "ready"}
      BY <2>4, <1>r
    <2>6. TxTypeOK'
      BY <2>1, <2>2, <2>3, <2>5, <1>t, <1>r
    <2>7. TxCopied' /\ TxScreens'
      BY <2>1, <2>2, <2>3, <1>r
    <2>8. TxEarned' /\ TxWhole' /\ NextScreenStays'
      BY <2>1, <2>2, <2>3, <1>r
    <2>9. TxPools' /\ ReadyIsWhole'
      BY <2>1, <2>2, <2>3, <2>4, <1>r
    <2>10. QED
      BY <2>6, <2>7, <2>8, <2>9
  <1>4. CASE MakeTarget
    <2>1. UNCHANGED <<txProfile, uiPc, quitEvent, drawn, tmReq, tmPc, tmRet, monPc, txImage, taskNo, failedIcts>>
      BY <1>4 DEF MakeTarget, TargetStep, tmVars
    <2>2. itPc \in {"disks", "pool", "mark", "volumes", "be"} /\ succeeded = FALSE /\ succeeded' = FALSE
      BY <1>4, <1>s DEF MakeTarget, TargetStep
    <2>3. CASE txProfile.toPool /\ itPc = "disks"
      BY <1>4, <2>1, <2>2, <2>3, <1>t, <1>r DEF MakeTarget, TargetStep
    <2>4. CASE ~txProfile.toPool /\ itPc = "disks"
      BY <1>4, <2>1, <2>2, <2>4, <1>t, <1>r DEF MakeTarget, TargetStep
    <2>5. CASE itPc = "pool"
      <3>1. /\ TargetStep("pool", "mark", "foreign", FALSE) /\ beMounted' = beMounted
            /\ txOwner' = IF txPool' = "foreign" THEN "us" ELSE txOwner
        BY <1>4, <2>5 DEF MakeTarget, TargetStep
      <3>2. itPc' \in {"mark", "ended"} /\ txPool' \in {txPool, "foreign"}
            /\ (itPc' # "ended" => txPool' = "foreign")
        BY <3>1 DEF TargetStep
      <3>3. txOwner' \in {"us", "other"} /\ txPool' \in {"none", "foreign", "busy", "ready"}
        BY <3>1, <3>2, <1>r
      <3>4. txPool' # "ready"
        BY <2>5, <3>1, <3>2, <1>r
      <3>5. TxTypeOK'
        BY <2>1, <2>2, <3>1, <3>3, <1>s, <1>t, <1>r
      <3>6. QED
        BY <2>1, <2>2, <2>5, <3>1, <3>2, <3>4, <3>5, <1>r
    <2>6. CASE itPc = "mark"
      <3>1. /\ TargetStep("mark", "volumes", "busy", TRUE) /\ beMounted' = beMounted
            /\ txOwner' = txOwner
        BY <1>4, <2>6 DEF MakeTarget, TargetStep
      <3>2. itPc' \in {"volumes", "ended"} /\ txPool' \in {txPool, "busy"}
            /\ (itPc' # "ended" => txPool' = "busy")
        BY <3>1 DEF TargetStep
      <3>3. txOwner' \in {"us", "other"} /\ txPool' \in {"none", "foreign", "busy", "ready"}
        BY <3>1, <3>2, <1>r
      <3>4. txPool' # "ready"
        BY <2>6, <3>1, <3>2, <1>r
      <3>5. TxTypeOK'
        BY <2>1, <2>2, <3>1, <3>3, <1>s, <1>t, <1>r
      <3>6. QED
        BY <2>1, <2>2, <2>6, <3>1, <3>2, <3>4, <3>5, <1>r
    <2>7. CASE itPc = "volumes"
      BY <1>4, <2>1, <2>2, <2>7, <1>t, <1>r DEF MakeTarget, TargetStep
    <2>8. CASE itPc = "be"
      BY <1>4, <2>1, <2>2, <2>8, <1>t, <1>r DEF MakeTarget, TargetStep
    <2>9. QED
      BY <2>2, <2>3, <2>4, <2>5, <2>6, <2>7, <2>8
  <1>5. CASE StartTransfer
    BY <1>5, <1>t, <1>r DEF StartTransfer, Image, TmStart
  <1>6. CASE CopyImage
    <2>1. UNCHANGED <<txProfile, uiPc, quitEvent, drawn, itPc, succeeded, txPool, txOwner, txImage, taskNo, failedIcts,
                      beMounted>>
      BY <1>6 DEF CopyImage
    <2>2. tmReq' = tmReq
      BY <1>6 DEF CopyImage, TmThread, BuildLists, ListsFail, StartMonitor, NextList, Cpio, Abort, JoinMonitor, Finish,
        Close, IpsInit, IpsCommand, Interrupted, Raise, Goto, IpsKept
    <2>3. itPc = "copying"
      BY <1>6 DEF CopyImage
    <2>4. TxTypeOK'
      BY <2>1, <2>2, <2>3, <1>t, <1>r
    <2>5. QED
      BY <2>1, <2>2, <2>3, <2>4, <1>r
  <1>7. CASE TransferDone
    BY <1>7, <1>t, <1>r DEF TransferDone, Image, Update, tmVars
  <1>8. CASE Progress
    <2>1. UNCHANGED <<txProfile, uiPc, quitEvent, itPc, succeeded, txPool, txOwner, txImage, taskNo, failedIcts, beMounted>>
      BY <1>8 DEF Progress
    <2>2. UNCHANGED <<tmReq, tmPc, tmRet>> /\ monPc # "none"
      BY <1>8 DEF Progress, MonThread, MonWake, MonMeasure
    <2>3. ~(tmPc \in {"idle", "returned"} /\ tmRet = "TM_E_SUCCESS")
      BY <2>2 DEF TxInv, TmInv, TmWatched
    <2>4. ~succeeded
      BY <2>2, <1>r
    <2>5. TxTypeOK'
      BY <2>1, <1>t, <1>r
    <2>6. TxScreens' /\ TxWhole' /\ NextScreenStays'
      BY <2>1, <2>2, <2>3, <2>4, <1>r
    <2>7. QED
      BY <2>1, <2>2, <2>5, <2>6, <1>r
  <1>9. CASE WriteVfstab
    <2>1. UNCHANGED <<txProfile, uiPc, quitEvent, drawn, tmReq, tmPc, tmRet, monPc>>
      BY <1>9 DEF WriteVfstab, tmVars
    <2>2. UNCHANGED <<txPool, txOwner, txImage, taskNo, failedIcts, beMounted>>
      BY <1>9 DEF WriteVfstab
    <2>3. itPc = "vfstab" /\ itPc' \in {"tasks", "ended"} /\ succeeded' = FALSE
      BY <1>9, <1>s DEF WriteVfstab
    <2>4. TxTypeOK'
      BY <2>1, <2>2, <2>3, <1>t, <1>r
    <2>5. QED
      BY <2>1, <2>2, <2>3, <2>4, <1>r
  <1>10. CASE RunTask
    BY <1>10, <1>t, <1>r DEF RunTask, tmVars, Update
  <1>11. CASE MarkReady
    BY <1>11, <1>t, <1>r DEF MarkReady, tmVars
  <1>12. CASE PostInstallCleanup
    BY <1>12, <1>t, <1>r DEF PostInstallCleanup, tmVars
  <1>13. CASE LastUpdate
    <2>1. UNCHANGED <<txProfile, uiPc, quitEvent, drawn, tmReq, tmPc, tmRet, monPc>>
      BY <1>13 DEF LastUpdate, tmVars
    <2>2. UNCHANGED <<txPool, txOwner, txImage, taskNo, failedIcts, beMounted>>
      BY <1>13 DEF LastUpdate
    <2>3. itPc = "last" /\ itPc' = "ended" /\ succeeded' \in BOOLEAN
      BY <1>13, <1>r DEF LastUpdate, Update
    <2>4. TxTypeOK'
      BY <2>1, <2>2, <2>3, <1>t, <1>r
    <2>5. monPc = "none"
      BY <2>3, <1>r DEF TxInv, TmInv, TmWatched
    <2>6. TxWhole'
      BY <2>1, <2>2, <2>3, <2>5, <1>r
    <2>7. QED
      BY <2>1, <2>2, <2>3, <2>4, <2>6, <1>r
  <1>14. CASE MainThread
    BY <1>14, <1>t, <1>r DEF MainThread, LookAlive, WaitEvent, NoKey, JoinInstall, Ui, IsAlive, tmVars
  <1>15. CASE KeyQuit \/ \E q \in BOOLEAN : Answered(q)
    BY <1>15, <1>t, <1>r DEF KeyQuit, Answered, Ui, tmVars
  <1>16. CASE Die
    <2>1. itPc' = "checks" /\ succeeded' = FALSE /\ uiPc' = "loop" /\ tmReq' = Entire /\ tmPc' = "idle"
      BY <1>16 DEF Die
    <2>2. taskNo' = 0 /\ failedIcts' = 0 /\ beMounted' = FALSE /\ quitEvent' = FALSE /\ drawn' = FALSE
      BY <1>16 DEF Die
    <2>3. UNCHANGED <<txPool, txOwner, txImage>> /\ (txProfile'.toPool => txPool = "ready")
      BY <1>16 DEF Die
    <2>4. TxTypeOK'
      <3>1. failedIcts' \in 0..Tasks + 1 /\ taskNo' \in 0..Tasks
        BY <2>2
      <3>2. QED
        BY <2>1, <2>2, <2>3, <3>1, <1>t, <1>r
    <2>5. QED
      BY <2>1, <2>2, <2>3, <2>4, <1>r
  <1>17. CASE Hung \/ Over \/ UNCHANGED txVars
    BY <1>17, <1>t, <1>r DEF Hung, Over, txVars, tmVars
  <1>18. QED
    BY <1>1, <1>2, <1>3, <1>4, <1>5, <1>6, <1>7, <1>8, <1>9, <1>10, <1>11, <1>12, <1>13, <1>14, <1>15, <1>16,
      <1>17 DEF TxNext, InstallThread

LEMMA TxAlways == TxSpec => []TxInv
  <1>1. TxInit => TxInv
    BY TxInitHolds
  <1>2. TxInv /\ [TxNext]_txVars => TxInv'
    BY TxStepHolds
  <1>3. QED
    BY <1>1, <1>2, PTL DEF TxSpec

(* Whatever fails, whenever the user quits and the program dies: what is   *)
(* called a success is one. The lists were all copied, nobody reports or   *)
(* draws any more, every task succeeded, the pool is marked and its image  *)
(* whole (do_ti_install, run_ICTs, cpio_transfer_filelist).                *)
THEOREM SuccessIsAlwaysSuccess == TxSpec => []SuccessIsSuccess
  <1>1. TxInv => SuccessIsSuccess
    BY DEF TxInv, TmInv, TxWhole, TxAlone, SuccessIsWhole, SuccessIsSuccess
  <1>2. QED
    BY <1>1, TxAlways, PTL

(* No step of the installer destroys a pool that carries no mark of a      *)
(* broken installation (cleanup_existing_install_target).                  *)
THEOREM ForeignPoolsAlwaysStay == TxSpec => ForeignPoolsStay
  <1>1. ASSUME [TxNext]_txVars, txPool \in {"foreign", "ready"} PROVE txPool' # "none"
    <2>1. CASE UNCHANGED txPool
      BY <1>1, <2>1
    <2>2. CASE Cleanup
      BY <1>1, <2>2 DEF Cleanup, diskVars, ItRest, uiVars
    <2>3. CASE MakeTarget
      BY <1>1, <2>3 DEF MakeTarget, TargetStep
    <2>4. CASE MarkReady
      BY <1>1, <2>4 DEF MarkReady
    <2>5. CASE Checks \/ SetClock \/ StartTransfer \/ CopyImage \/ TransferDone \/ WriteVfstab \/ RunTask
      BY <2>1, <2>5 DEF Checks, SetClock, StartTransfer, CopyImage, TransferDone, WriteVfstab, RunTask, diskVars, itVars
    <2>6. CASE PostInstallCleanup \/ LastUpdate \/ Progress \/ Die \/ Hung \/ Over \/ UNCHANGED txVars
      BY <2>1, <2>6 DEF PostInstallCleanup, LastUpdate, Progress, Die, Hung, Over, diskVars, itVars, txVars
    <2>7. CASE MainThread \/ KeyQuit \/ \E q \in BOOLEAN : Answered(q)
      BY <2>1, <2>7 DEF MainThread, LookAlive, WaitEvent, NoKey, JoinInstall, KeyQuit, Answered, Ui, diskVars, itVars
    <2>8. QED
      BY <1>1, <2>2, <2>3, <2>4, <2>5, <2>6, <2>7 DEF TxNext, InstallThread
  <1>2. [TxNext]_txVars => [(txPool \in {"foreign", "ready"}) => txPool' # "none"]_txVars
    BY <1>1
  <1>3. QED
    BY <1>2, PTL DEF TxSpec, ForeignPoolsStay

(* In the text installer nobody reports after 100 percent, whenever it     *)
(* dies and is started again: a process transfers once.                    *)
THEOREM TextEndsAtHundred == TxSpec => HundredIsLast
  <1>1. TxInv /\ [TxNext]_txVars => [tmLast = AllPct /\ strays = 0 => tmCb' = -1]_tmVars
    BY TxStepIsTmStep, TmStepSilent DEF TxInv, TmAnew, TmInit
  <1>2. QED
    BY <1>1, TxAlways, PTL DEF TxSpec, HundredIsLast

-----------------------------------------------------------------------------
(* The completion tasks *)

(* The stage of a task: the order all front ends have in common. Two tasks *)
(* have another place in an automated installation.                        *)
Basics   == {"ict_set_lang_locale", "ict_configure_user_directory", "ict_set_user_profile", "ict_set_host_node_name",
             "activate_be", "ict_installboot"}
Renewed  == {"create_smf_repository", "create_mnttab", "cleanup_unneeded_files_and_dirs", "generate_sc_profile",
             "delete_misc_trees", "set_boot_device_property", "add_splash_image_to_grub_menu"}
Networks == {"enable_nwam", "configure_nwam", "do_not_configure_network", "configure_network"}
Settings == {"remove_livecd_coreadm_conf", "remove_bootpath", "update_dumpadm_nodename", "setup_dev_namespace",
             "create_sparc_boot_menu", "copy_sparc_bootlst", "explicit_bootfs", "enable_happy_face_boot",
             "copy_splash_xpm", "remove_livecd_environment", "remove_specific_packages",
             "set_flush_content_cache_false", "set_root_password", "copy_generated_files", "create_new_user",
             "setup_rbac"}
Closing  == {"setup_sudo", "copy_capability_file", "reset_image_uuid", "apply_sysconfig_profile"}
Stage(t) ==
  IF t \in Basics THEN 1
  ELSE IF t \in Renewed THEN 2
  ELSE IF t = "set_partition_active" THEN IF Live THEN 5 ELSE 2
  ELSE IF t = "fix_grub_entry" THEN 3
  ELSE IF t = "add_operating_system_grub_entry" THEN 4
  ELSE IF t \in Settings \cup Networks THEN 5
  ELSE IF t = "smf_correct_sys_profile" THEN IF Live THEN 5 ELSE 6
  ELSE IF t \in Closing THEN 6
  ELSE IF t = "update_boot_archive" THEN 7
  ELSE IF t = "ict_snapshot" THEN 8
  ELSE IF t = "ict_mark_root_pool_ready" THEN 9
  ELSE 10

(* Stages follow one another in s, within a and b; one entry is added to   *)
(* the menu.                                                               *)
Staged(s, a, b) ==
  /\ \A j \in DOMAIN s : a <= Stage(s[j]) /\ Stage(s[j]) <= b
  /\ \A j, k \in DOMAIN s : j < k => Stage(s[j]) <= Stage(s[k]) /\ (Stage(s[j]) = 4 => Stage(s[k]) > 4)

LEMMA StageIsNumber == \A t : Stage(t) \in 1..10
  BY DEF Stage

LEMMA StagedJoin ==
  ASSUME NEW S, NEW s \in Seq(S), NEW t \in Seq(S), NEW a \in Nat, NEW b \in Nat, NEW c \in Nat, NEW d \in Nat,
         Staged(s, a, b), Staged(t, c, d), a <= c, b <= c, b <= d, b = c => b # 4
  PROVE  Staged(s \o t, a, d)
  <1> DEFINE m == Len(s)
  <1> DEFINE n == Len(t)
  <1> DEFINE u == s \o t
  <1>1. m \in Nat /\ n \in Nat /\ DOMAIN s = 1..m /\ DOMAIN t = 1..n /\ DOMAIN u = 1..(m + n)
    OBVIOUS
  <1>2. \A j \in 1..m : u[j] = s[j]
    OBVIOUS
  <1>3. \A j \in (m + 1)..(m + n) : u[j] = t[j - m] /\ j - m \in 1..n
    OBVIOUS
  <1>4. \A x : Stage(x) \in Nat
    BY StageIsNumber, SMT
  <1> HIDE DEF m, n, u
  <1>5. ASSUME NEW j \in DOMAIN u PROVE a <= Stage(u[j]) /\ Stage(u[j]) <= d
    <2>1. CASE j \in 1..m
      <3>1. u[j] = s[j] /\ a <= Stage(s[j]) /\ Stage(s[j]) <= b
        BY <1>1, <1>2, <2>1 DEF Staged
      <3>2. Stage(s[j]) \in Nat
        BY <1>4
      <3>3. QED
        BY <3>1, <3>2
    <2>2. CASE j \in (m + 1)..(m + n)
      <3>1. u[j] = t[j - m] /\ j - m \in DOMAIN t
        BY <1>1, <1>3, <2>2
      <3>2. c <= Stage(t[j - m]) /\ Stage(t[j - m]) <= d
        BY <3>1 DEF Staged
      <3>3. Stage(t[j - m]) \in Nat
        BY <1>4
      <3>4. QED
        BY <3>1, <3>2, <3>3
    <2>3. QED
      BY <1>1, <1>5, <2>1, <2>2
  <1>6. ASSUME NEW j \in DOMAIN u, NEW k \in DOMAIN u, j < k
        PROVE  Stage(u[j]) <= Stage(u[k]) /\ (Stage(u[j]) = 4 => Stage(u[k]) > 4)
    <2>1. CASE k \in 1..m
      <3>1. j \in 1..m
        BY <1>1, <1>6, <2>1
      <3>2. u[j] = s[j] /\ u[k] = s[k] /\ j \in DOMAIN s /\ k \in DOMAIN s
        BY <1>1, <1>2, <2>1, <3>1
      <3>3. Stage(s[j]) <= Stage(s[k]) /\ (Stage(s[j]) = 4 => Stage(s[k]) > 4)
        BY <1>6, <3>2 DEF Staged
      <3>4. QED
        BY <3>2, <3>3
    <2>2. CASE j \in (m + 1)..(m + n)
      <3>1. k \in (m + 1)..(m + n) /\ j - m < k - m
        BY <1>1, <1>6, <2>2
      <3>2. u[j] = t[j - m] /\ u[k] = t[k - m] /\ j - m \in DOMAIN t /\ k - m \in DOMAIN t
        BY <1>1, <1>3, <2>2, <3>1
      <3>3. Stage(t[j - m]) <= Stage(t[k - m]) /\ (Stage(t[j - m]) = 4 => Stage(t[k - m]) > 4)
        BY <3>1, <3>2 DEF Staged
      <3>4. QED
        BY <3>2, <3>3
    <2>3. CASE j \in 1..m /\ k \in (m + 1)..(m + n)
      <3>1. Stage(u[j]) <= b
        BY <1>1, <1>2, <2>3 DEF Staged
      <3>2. c <= Stage(u[k])
        BY <1>1, <1>3, <2>3 DEF Staged
      <3>3. QED
        BY <3>1, <3>2, <1>4
    <2>4. QED
      BY <1>1, <1>6, <2>1, <2>2, <2>3
  <1>7. QED
    BY <1>5, <1>6 DEF Staged, u

LEMMA RangeJoin ==
  ASSUME NEW S, NEW s \in Seq(S), NEW t \in Seq(S)
  PROVE  s \o t \in Seq(S) /\ Range(s \o t) = Range(s) \cup Range(t)
  <1> DEFINE m == Len(s)
  <1> DEFINE n == Len(t)
  <1> DEFINE u == s \o t
  <1>1. m \in Nat /\ n \in Nat /\ DOMAIN s = 1..m /\ DOMAIN t = 1..n /\ DOMAIN u = 1..(m + n)
    OBVIOUS
  <1>2. \A j \in 1..m : u[j] = s[j] /\ j \in 1..(m + n)
    OBVIOUS
  <1>3. \A j \in 1..n : u[j + m] = t[j] /\ j + m \in 1..(m + n)
    OBVIOUS
  <1>4. \A j \in 1..(m + n) : j \in 1..m \/ (j - m \in 1..n /\ j = (j - m) + m)
    BY <1>1
  <1>5. u \in Seq(S)
    OBVIOUS
  <1> HIDE DEF m, n, u
  <1>6. ASSUME NEW x \in Range(u) PROVE x \in Range(s) \cup Range(t)
    <2>1. PICK j \in 1..(m + n) : x = u[j]
      BY <1>1 DEF Range
    <2>2. CASE j \in 1..m
      BY <1>1, <1>2, <2>1, <2>2 DEF Range
    <2>3. CASE j - m \in 1..n /\ j = (j - m) + m
      <3>1. x = t[j - m]
        BY <1>3, <2>1, <2>3
      <3>2. QED
        BY <1>1, <2>3, <3>1 DEF Range
    <2>4. QED
      BY <1>4, <2>2, <2>3
  <1>7. \A x : x \in Range(s) => x \in Range(u)
    BY <1>1, <1>2 DEF Range
  <1>8. \A x : x \in Range(t) => x \in Range(u)
    BY <1>1, <1>3 DEF Range
  <1>9. Range(u) = Range(s) \cup Range(t)
    BY <1>6, <1>7, <1>8
  <1>10. QED
    BY <1>5, <1>9 DEF u

(* The parts the orders are made of. *)
Names == Basics \cup Renewed \cup Networks \cup Settings \cup Closing
         \cup {"set_partition_active", "fix_grub_entry", "add_operating_system_grub_entry", "smf_correct_sys_profile",
               "update_boot_archive", "ict_snapshot", "ict_mark_root_pool_ready", "ict_transfer_logs"}

(* Piece(s, a, b, R): s has stages a to b, and R is what is in it.         *)
Piece(s, a, b, R) == s \in Seq(Names) /\ Staged(s, a, b) /\ Range(s) = R

LEMMA PieceJoin ==
  ASSUME NEW s, NEW t, NEW a \in Nat, NEW b \in Nat, NEW c \in Nat, NEW d \in Nat, NEW R, NEW Q,
         Piece(s, a, b, R), Piece(t, c, d, Q), a <= c, b <= c, b <= d, b = c => b # 4
  PROVE  Piece(s \o t, a, d, R \cup Q)
  BY StagedJoin, RangeJoin DEF Piece

(* What a part that is run on a condition holds. *)
Part(c, R) == IF c THEN R ELSE {}

LEMMA PieceSkip == \A a, b : Piece(<<>>, a, b, {})
  BY DEF Piece, Staged, Range

(* The menu shows the happy face in the graphical installer's.             *)
HappyFace == <<"explicit_bootfs">> \o When(ictRun.front # "text", <<"enable_happy_face_boot">>) \o <<"copy_splash_xpm">>
LEMMA HappyOrder == Piece(HappyFace, 5, 5, Range(HappyFace)) /\ "explicit_bootfs" \in Range(HappyFace)
                    /\ Range(HappyFace) \subseteq {"explicit_bootfs", "enable_happy_face_boot", "copy_splash_xpm"}
  <1> DEFINE s1 == <<"explicit_bootfs">>
  <1> DEFINE s2 == <<"enable_happy_face_boot">>
  <1> DEFINE s3 == <<"copy_splash_xpm">>
  <1> DEFINE t2 == When(ictRun.front # "text", s2)
  <1> DEFINE r2 == Part(ictRun.front # "text", {"enable_happy_face_boot"})
  <1>1. Piece(s1, 5, 5, {"explicit_bootfs"})
    BY DEF Piece, Staged, Range, Stage, Names, Basics, Renewed, Networks, Settings, Closing
  <1>2. Piece(s2, 5, 5, {"enable_happy_face_boot"})
    BY DEF Piece, Staged, Range, Stage, Names, Basics, Renewed, Networks, Settings, Closing
  <1>3. Piece(s3, 5, 5, {"copy_splash_xpm"})
    BY DEF Piece, Staged, Range, Stage, Names, Basics, Renewed, Networks, Settings, Closing
  <1>4. HappyFace = s1 \o t2 \o s3
    BY DEF HappyFace
  <1>5. Piece(t2, 5, 5, r2)
    BY <1>2, PieceSkip DEF When, Part
  <1> HIDE DEF s1, s2, s3, t2, r2
  <1>6. Piece(s1 \o t2, 5, 5, {"explicit_bootfs"} \cup r2)
    BY <1>1, <1>5, PieceJoin
  <1>7. Piece(HappyFace, 5, 5, {"explicit_bootfs"} \cup r2 \cup {"copy_splash_xpm"})
    <2> DEFINE s == s1 \o t2
    <2>1. Piece(s, 5, 5, {"explicit_bootfs"} \cup r2)
      BY <1>6
    <2> HIDE DEF s
    <2>2. Piece(s \o s3, 5, 5, {"explicit_bootfs"} \cup r2 \cup {"copy_splash_xpm"})
      BY <1>3, <2>1, PieceJoin
    <2>3. QED
      BY <1>4, <2>2 DEF s
  <1>8. QED
    BY <1>7 DEF Piece, Part, r2

(* What each of the orders holds. *)
IntelSet ==
  {"create_smf_repository"}
  \cup {"set_boot_device_property"}
  \cup Part(Boot, {"add_splash_image_to_grub_menu", "set_partition_active", "fix_grub_entry",
         "add_operating_system_grub_entry", "explicit_bootfs", "enable_happy_face_boot", "copy_splash_xpm"})
  \cup {"remove_bootpath", "update_dumpadm_nodename", "setup_dev_namespace", "configure_nwam",
         "set_flush_content_cache_false"}
  \cup Part(Boot, {"copy_capability_file"})
  \cup {"apply_sysconfig_profile", "smf_correct_sys_profile", "update_boot_archive"}
SparcSet ==
  {"create_smf_repository"}
  \cup {"set_partition_active", "update_dumpadm_nodename", "setup_dev_namespace", "create_sparc_boot_menu",
         "copy_sparc_bootlst", "configure_nwam", "set_flush_content_cache_false"}
  \cup {"apply_sysconfig_profile", "smf_correct_sys_profile", "update_boot_archive"}
LiveSet ==
  {"create_smf_repository", "create_mnttab", "cleanup_unneeded_files_and_dirs", "generate_sc_profile",
         "delete_misc_trees"}
  \cup Part(Intel /\ Boot, {"set_boot_device_property", "add_splash_image_to_grub_menu", "fix_grub_entry",
         "add_operating_system_grub_entry"})
  \cup {"remove_livecd_coreadm_conf"}
  \cup Part(Boot, {"set_partition_active"})
  \cup Part(Intel, {"remove_bootpath"})
  \cup {"update_dumpadm_nodename"}
  \cup Part(~Intel, {"create_sparc_boot_menu", "copy_sparc_bootlst"})
  \cup Part(Intel /\ Boot, Range(HappyFace))
  \cup {"smf_correct_sys_profile", Network}
  \cup {"remove_livecd_environment", "remove_specific_packages", "set_flush_content_cache_false",
         "set_root_password", "copy_generated_files", "create_new_user", "setup_rbac", "setup_sudo"}
  \cup Part(Boot /\ Intel, {"copy_capability_file"})
  \cup {"reset_image_uuid"}
  \cup {"update_boot_archive"}
EngineSet(R) ==
  {"ict_set_lang_locale"}
  \cup Part(ictRun.front # "ai", {"ict_configure_user_directory", "ict_set_user_profile"})
  \cup {"ict_set_host_node_name", "activate_be", "ict_installboot"}
  \cup R
  \cup {"ict_snapshot", "ict_mark_root_pool_ready", "ict_transfer_logs"}
TextSet(R) ==
  {"ict_set_lang_locale", "ict_configure_user_directory", "ict_set_host_node_name", "ict_set_user_profile"}
  \cup Part(Boot, {"activate_be", "ict_installboot"})
  \cup R
  \cup {"ict_snapshot", "ict_mark_root_pool_ready"}

(* In an automated installation on Intel: the stages follow one another.   *)
LEMMA IntelOrder == ASSUME ~Live, Intel PROVE Piece(AutoFinish, 2, 7, IntelSet)
  <1> DEFINE
    s1 == <<"create_smf_repository">>
    r1 == {"create_smf_repository"}
    s2 == <<"set_boot_device_property">>
    r2 == {"set_boot_device_property"}
    s3 == <<"add_splash_image_to_grub_menu", "set_partition_active", "fix_grub_entry",
            "add_operating_system_grub_entry", "explicit_bootfs", "enable_happy_face_boot", "copy_splash_xpm">>
    r3 == {"add_splash_image_to_grub_menu", "set_partition_active", "fix_grub_entry",
           "add_operating_system_grub_entry", "explicit_bootfs", "enable_happy_face_boot", "copy_splash_xpm"}
    s4 == <<"remove_bootpath", "update_dumpadm_nodename", "setup_dev_namespace", "configure_nwam",
            "set_flush_content_cache_false">>
    r4 == {"remove_bootpath", "update_dumpadm_nodename", "setup_dev_namespace", "configure_nwam",
           "set_flush_content_cache_false"}
    s5 == <<"copy_capability_file">>
    r5 == {"copy_capability_file"}
    s6 == <<"apply_sysconfig_profile", "smf_correct_sys_profile", "update_boot_archive">>
    r6 == {"apply_sysconfig_profile", "smf_correct_sys_profile", "update_boot_archive"}
  <1>1. Piece(s1, 2, 2, r1)
    BY DEF Piece, Staged, Range, Stage, Names, Basics, Renewed, Networks, Settings, Closing
  <1>2. Piece(s2, 2, 2, r2)
    BY DEF Piece, Staged, Range, Stage, Names, Basics, Renewed, Networks, Settings, Closing
  <1>3. Piece(s3, 2, 5, r3)
    BY DEF Piece, Staged, Range, Stage, Names, Basics, Renewed, Networks, Settings, Closing
  <1>4. Piece(s4, 5, 5, r4)
    BY DEF Piece, Staged, Range, Stage, Names, Basics, Renewed, Networks, Settings, Closing
  <1>5. Piece(s5, 6, 6, r5)
    BY DEF Piece, Staged, Range, Stage, Names, Basics, Renewed, Networks, Settings, Closing
  <1>6. Piece(s6, 6, 7, r6)
    BY DEF Piece, Staged, Range, Stage, Names, Basics, Renewed, Networks, Settings, Closing
  <1>7. AutoFinish = s1 \o s2 \o When(Boot, s3) \o s4 \o When(Boot, s5) \o s6
    BY DEF AutoFinish, When
  <1>8. IntelSet = r1 \cup r2 \cup Part(Boot, r3) \cup r4 \cup Part(Boot, r5) \cup r6
    BY DEF IntelSet
  <1> HIDE DEF s1, r1, s2, r2, s3, r3, s4, r4, s5, r5, s6, r6
  <1>9. Piece(When(Boot, s3), 2, 5, Part(Boot, r3))
    BY <1>3, PieceSkip DEF When, Part
  <1>10. Piece(When(Boot, s5), 6, 6, Part(Boot, r5))
    BY <1>5, PieceSkip DEF When, Part
  <1>11. QED
    <2>1. Piece(s1 \o s2, 2, 2, r1 \cup r2)
      BY <1>1, <1>2, PieceJoin
    <2>2. Piece(s1 \o s2 \o When(Boot, s3), 2, 5, r1 \cup r2 \cup Part(Boot, r3))
      BY <2>1, <1>9, PieceJoin
    <2>3. Piece(s1 \o s2 \o When(Boot, s3) \o s4, 2, 5, r1 \cup r2 \cup Part(Boot, r3) \cup r4)
      BY <2>2, <1>4, PieceJoin
    <2>4. Piece(s1 \o s2 \o When(Boot, s3) \o s4 \o When(Boot, s5), 2, 6, r1 \cup r2 \cup Part(Boot, r3) \cup
               r4 \cup Part(Boot, r5))
      BY <2>3, <1>10, PieceJoin
    <2>5. Piece(s1 \o s2 \o When(Boot, s3) \o s4 \o When(Boot, s5) \o s6, 2, 7, r1 \cup r2 \cup Part(Boot, r3)
               \cup r4 \cup Part(Boot, r5) \cup r6)
      BY <2>4, <1>6, PieceJoin
    <2>6. QED
      BY <1>7, <1>8, <2>5

(* On SPARC.                                                               *)
LEMMA SparcOrder == ASSUME ~Live, ~Intel PROVE Piece(AutoFinish, 2, 7, SparcSet)
  <1> DEFINE
    s1 == <<"create_smf_repository">>
    r1 == {"create_smf_repository"}
    s2 == <<"set_partition_active", "update_dumpadm_nodename", "setup_dev_namespace", "create_sparc_boot_menu",
            "copy_sparc_bootlst", "configure_nwam", "set_flush_content_cache_false">>
    r2 == {"set_partition_active", "update_dumpadm_nodename", "setup_dev_namespace", "create_sparc_boot_menu",
           "copy_sparc_bootlst", "configure_nwam", "set_flush_content_cache_false"}
    s3 == <<"apply_sysconfig_profile", "smf_correct_sys_profile", "update_boot_archive">>
    r3 == {"apply_sysconfig_profile", "smf_correct_sys_profile", "update_boot_archive"}
  <1>1. Piece(s1, 2, 2, r1)
    BY DEF Piece, Staged, Range, Stage, Names, Basics, Renewed, Networks, Settings, Closing
  <1>2. Piece(s2, 2, 5, r2)
    BY DEF Piece, Staged, Range, Stage, Names, Basics, Renewed, Networks, Settings, Closing
  <1>3. Piece(s3, 6, 7, r3)
    BY DEF Piece, Staged, Range, Stage, Names, Basics, Renewed, Networks, Settings, Closing
  <1>4. AutoFinish = s1 \o s2 \o s3
    BY DEF AutoFinish, When
  <1>5. SparcSet = r1 \cup r2 \cup r3
    BY DEF SparcSet
  <1> HIDE DEF s1, r1, s2, r2, s3, r3
  <1>6. QED
    <2>1. Piece(s1 \o s2, 2, 5, r1 \cup r2)
      BY <1>1, <1>2, PieceJoin
    <2>2. Piece(s1 \o s2 \o s3, 2, 7, r1 \cup r2 \cup r3)
      BY <2>1, <1>3, PieceJoin
    <2>3. QED
      BY <1>4, <1>5, <2>2

(* For the graphical and the text installer.                               *)
LEMMA LiveOrder == ASSUME Live PROVE Piece(LiveFinish, 2, 7, LiveSet)
  <1> DEFINE
    s1 == <<"create_smf_repository", "create_mnttab", "cleanup_unneeded_files_and_dirs", "generate_sc_profile",
            "delete_misc_trees">>
    r1 == {"create_smf_repository", "create_mnttab", "cleanup_unneeded_files_and_dirs", "generate_sc_profile",
           "delete_misc_trees"}
    s2 == <<"set_boot_device_property", "add_splash_image_to_grub_menu", "fix_grub_entry",
            "add_operating_system_grub_entry">>
    r2 == {"set_boot_device_property", "add_splash_image_to_grub_menu", "fix_grub_entry",
           "add_operating_system_grub_entry"}
    s3 == <<"remove_livecd_coreadm_conf">>
    r3 == {"remove_livecd_coreadm_conf"}
    s4 == <<"set_partition_active">>
    r4 == {"set_partition_active"}
    s5 == <<"remove_bootpath">>
    r5 == {"remove_bootpath"}
    s6 == <<"update_dumpadm_nodename">>
    r6 == {"update_dumpadm_nodename"}
    s7 == <<"create_sparc_boot_menu", "copy_sparc_bootlst">>
    r7 == {"create_sparc_boot_menu", "copy_sparc_bootlst"}
    s8 == HappyFace
    r8 == Range(HappyFace)
    s9 == <<"smf_correct_sys_profile", Network>>
    r9 == {"smf_correct_sys_profile", Network}
    s10 == <<"remove_livecd_environment", "remove_specific_packages", "set_flush_content_cache_false",
             "set_root_password", "copy_generated_files", "create_new_user", "setup_rbac", "setup_sudo">>
    r10 == {"remove_livecd_environment", "remove_specific_packages", "set_flush_content_cache_false",
            "set_root_password", "copy_generated_files", "create_new_user", "setup_rbac", "setup_sudo"}
    s11 == <<"copy_capability_file">>
    r11 == {"copy_capability_file"}
    s12 == <<"reset_image_uuid">>
    r12 == {"reset_image_uuid"}
    s13 == <<"update_boot_archive">>
    r13 == {"update_boot_archive"}
  <1>1. Piece(s1, 2, 2, r1)
    BY DEF Piece, Staged, Range, Stage, Names, Basics, Renewed, Networks, Settings, Closing
  <1>2. Piece(s2, 2, 4, r2)
    BY DEF Piece, Staged, Range, Stage, Names, Basics, Renewed, Networks, Settings, Closing
  <1>3. Piece(s3, 5, 5, r3)
    BY DEF Piece, Staged, Range, Stage, Names, Basics, Renewed, Networks, Settings, Closing
  <1>4. Piece(s4, 5, 5, r4)
    BY DEF Piece, Staged, Range, Stage, Names, Basics, Renewed, Networks, Settings, Closing
  <1>5. Piece(s5, 5, 5, r5)
    BY DEF Piece, Staged, Range, Stage, Names, Basics, Renewed, Networks, Settings, Closing
  <1>6. Piece(s6, 5, 5, r6)
    BY DEF Piece, Staged, Range, Stage, Names, Basics, Renewed, Networks, Settings, Closing
  <1>7. Piece(s7, 5, 5, r7)
    BY DEF Piece, Staged, Range, Stage, Names, Basics, Renewed, Networks, Settings, Closing
  <1>8. Piece(s8, 5, 5, r8)
    BY HappyOrder
  <1>9. Piece(s9, 5, 5, r9)
    BY DEF Piece, Staged, Range, Stage, Names, Basics, Renewed, Networks, Settings, Closing, Network
  <1>10. Piece(s10, 5, 6, r10)
    BY DEF Piece, Staged, Range, Stage, Names, Basics, Renewed, Networks, Settings, Closing
  <1>11. Piece(s11, 6, 6, r11)
    BY DEF Piece, Staged, Range, Stage, Names, Basics, Renewed, Networks, Settings, Closing
  <1>12. Piece(s12, 6, 6, r12)
    BY DEF Piece, Staged, Range, Stage, Names, Basics, Renewed, Networks, Settings, Closing
  <1>13. Piece(s13, 7, 7, r13)
    BY DEF Piece, Staged, Range, Stage, Names, Basics, Renewed, Networks, Settings, Closing
  <1>14. LiveFinish = s1 \o When(Intel /\ Boot, s2) \o s3 \o When(Boot, s4) \o When(Intel, s5) \o s6 \o
           When(~Intel, s7) \o When(Intel /\ Boot, s8) \o s9 \o s10 \o When(Boot /\ Intel, s11) \o s12 \o s13
    BY DEF LiveFinish, Finish0, MenuTasks, UserTasks, HappyFace
  <1>15. LiveSet = r1 \cup Part(Intel /\ Boot, r2) \cup r3 \cup Part(Boot, r4) \cup Part(Intel, r5) \cup r6 \cup
           Part(~Intel, r7) \cup Part(Intel /\ Boot, r8) \cup r9 \cup r10 \cup Part(Boot /\ Intel, r11) \cup r12
           \cup r13
    BY DEF LiveSet
  <1> HIDE DEF s1, r1, s2, r2, s3, r3, s4, r4, s5, r5, s6, r6, s7, r7, s8, r8, s9, r9, s10, r10, s11, r11, s12, r12,
           s13, r13
  <1>16. Piece(When(Intel /\ Boot, s2), 2, 4, Part(Intel /\ Boot, r2))
    BY <1>2, PieceSkip DEF When, Part
  <1>17. Piece(When(Boot, s4), 5, 5, Part(Boot, r4))
    BY <1>4, PieceSkip DEF When, Part
  <1>18. Piece(When(Intel, s5), 5, 5, Part(Intel, r5))
    BY <1>5, PieceSkip DEF When, Part
  <1>19. Piece(When(~Intel, s7), 5, 5, Part(~Intel, r7))
    BY <1>7, PieceSkip DEF When, Part
  <1>20. Piece(When(Intel /\ Boot, s8), 5, 5, Part(Intel /\ Boot, r8))
    BY <1>8, PieceSkip DEF When, Part
  <1>21. Piece(When(Boot /\ Intel, s11), 6, 6, Part(Boot /\ Intel, r11))
    BY <1>11, PieceSkip DEF When, Part
  <1>22. QED
    <2>1. Piece(s1 \o When(Intel /\ Boot, s2), 2, 4, r1 \cup Part(Intel /\ Boot, r2))
      BY <1>1, <1>16, PieceJoin
    <2>2. Piece(s1 \o When(Intel /\ Boot, s2) \o s3, 2, 5, r1 \cup Part(Intel /\ Boot, r2) \cup r3)
      BY <2>1, <1>3, PieceJoin
    <2>3. Piece(s1 \o When(Intel /\ Boot, s2) \o s3 \o When(Boot, s4), 2, 5, r1 \cup Part(Intel /\ Boot, r2)
               \cup r3 \cup Part(Boot, r4))
      BY <2>2, <1>17, PieceJoin
    <2>4. Piece(s1 \o When(Intel /\ Boot, s2) \o s3 \o When(Boot, s4) \o When(Intel, s5), 2, 5, r1 \cup
               Part(Intel /\ Boot, r2) \cup r3 \cup Part(Boot, r4) \cup Part(Intel, r5))
      BY <2>3, <1>18, PieceJoin
    <2>5. Piece(s1 \o When(Intel /\ Boot, s2) \o s3 \o When(Boot, s4) \o When(Intel, s5) \o s6, 2, 5, r1 \cup
               Part(Intel /\ Boot, r2) \cup r3 \cup Part(Boot, r4) \cup Part(Intel, r5) \cup r6)
      BY <2>4, <1>6, PieceJoin
    <2>6. Piece(s1 \o When(Intel /\ Boot, s2) \o s3 \o When(Boot, s4) \o When(Intel, s5) \o s6 \o When(~Intel,
               s7), 2, 5, r1 \cup Part(Intel /\ Boot, r2) \cup r3 \cup Part(Boot, r4) \cup Part(Intel, r5) \cup r6
               \cup Part(~Intel, r7))
      BY <2>5, <1>19, PieceJoin
    <2>7. Piece(s1 \o When(Intel /\ Boot, s2) \o s3 \o When(Boot, s4) \o When(Intel, s5) \o s6 \o When(~Intel,
               s7) \o When(Intel /\ Boot, s8), 2, 5, r1 \cup Part(Intel /\ Boot, r2) \cup r3 \cup Part(Boot, r4)
               \cup Part(Intel, r5) \cup r6 \cup Part(~Intel, r7) \cup Part(Intel /\ Boot, r8))
      BY <2>6, <1>20, PieceJoin
    <2>8. Piece(s1 \o When(Intel /\ Boot, s2) \o s3 \o When(Boot, s4) \o When(Intel, s5) \o s6 \o When(~Intel,
               s7) \o When(Intel /\ Boot, s8) \o s9, 2, 5, r1 \cup Part(Intel /\ Boot, r2) \cup r3 \cup Part(Boot,
               r4) \cup Part(Intel, r5) \cup r6 \cup Part(~Intel, r7) \cup Part(Intel /\ Boot, r8) \cup r9)
      BY <2>7, <1>9, PieceJoin
    <2>9. Piece(s1 \o When(Intel /\ Boot, s2) \o s3 \o When(Boot, s4) \o When(Intel, s5) \o s6 \o When(~Intel,
               s7) \o When(Intel /\ Boot, s8) \o s9 \o s10, 2, 6, r1 \cup Part(Intel /\ Boot, r2) \cup r3 \cup
               Part(Boot, r4) \cup Part(Intel, r5) \cup r6 \cup Part(~Intel, r7) \cup Part(Intel /\ Boot, r8) \cup
               r9 \cup r10)
      BY <2>8, <1>10, PieceJoin
    <2>10. Piece(s1 \o When(Intel /\ Boot, s2) \o s3 \o When(Boot, s4) \o When(Intel, s5) \o s6 \o When(~Intel,
               s7) \o When(Intel /\ Boot, s8) \o s9 \o s10 \o When(Boot /\ Intel, s11), 2, 6, r1 \cup Part(Intel /\
               Boot, r2) \cup r3 \cup Part(Boot, r4) \cup Part(Intel, r5) \cup r6 \cup Part(~Intel, r7) \cup
               Part(Intel /\ Boot, r8) \cup r9 \cup r10 \cup Part(Boot /\ Intel, r11))
      BY <2>9, <1>21, PieceJoin
    <2>11. Piece(s1 \o When(Intel /\ Boot, s2) \o s3 \o When(Boot, s4) \o When(Intel, s5) \o s6 \o When(~Intel,
               s7) \o When(Intel /\ Boot, s8) \o s9 \o s10 \o When(Boot /\ Intel, s11) \o s12, 2, 6, r1 \cup
               Part(Intel /\ Boot, r2) \cup r3 \cup Part(Boot, r4) \cup Part(Intel, r5) \cup r6 \cup Part(~Intel,
               r7) \cup Part(Intel /\ Boot, r8) \cup r9 \cup r10 \cup Part(Boot /\ Intel, r11) \cup r12)
      BY <2>10, <1>12, PieceJoin
    <2>12. Piece(s1 \o When(Intel /\ Boot, s2) \o s3 \o When(Boot, s4) \o When(Intel, s5) \o s6 \o When(~Intel,
               s7) \o When(Intel /\ Boot, s8) \o s9 \o s10 \o When(Boot /\ Intel, s11) \o s12 \o s13, 2, 7, r1 \cup
               Part(Intel /\ Boot, r2) \cup r3 \cup Part(Boot, r4) \cup Part(Intel, r5) \cup r6 \cup Part(~Intel,
               r7) \cup Part(Intel /\ Boot, r8) \cup r9 \cup r10 \cup Part(Boot /\ Intel, r11) \cup r12 \cup r13)
      BY <2>11, <1>13, PieceJoin
    <2>13. QED
      BY <1>14, <1>15, <2>12

LEMMA LastTasks ==
  /\ Piece(<<"ict_snapshot", "ict_mark_root_pool_ready", "ict_transfer_logs">>, 8, 10,
           {"ict_snapshot", "ict_mark_root_pool_ready", "ict_transfer_logs"})
  /\ Piece(<<"ict_snapshot", "ict_mark_root_pool_ready">>, 8, 9, {"ict_snapshot", "ict_mark_root_pool_ready"})
  <1>1. Piece(<<"ict_snapshot", "ict_mark_root_pool_ready", "ict_transfer_logs">>, 8, 10,
              {"ict_snapshot", "ict_mark_root_pool_ready", "ict_transfer_logs"})
    BY DEF Piece, Staged, Range, Stage, Names, Basics, Renewed, Networks, Settings, Closing
  <1>2. Piece(<<"ict_snapshot", "ict_mark_root_pool_ready">>, 8, 9, {"ict_snapshot", "ict_mark_root_pool_ready"})
    <2> DEFINE s == <<"ict_snapshot", "ict_mark_root_pool_ready">>
    <2>1. s \in Seq(Names)
      BY DEF Names
    <2>5. Stage("ict_snapshot") = 8 /\ Stage("ict_mark_root_pool_ready") = 9
      BY DEF Stage, Basics, Renewed, Networks, Settings, Closing
    <2>2. Staged(s, 8, 9)
      BY <2>5 DEF Staged
    <2>3. Range(s) = {"ict_snapshot", "ict_mark_root_pool_ready"}
      BY DEF Range
    <2>4. QED
      BY <2>1, <2>2, <2>3 DEF Piece
  <1>3. QED
    BY <1>1, <1>2

(* Around them the tasks of the engine and of the text installer.          *)
LEMMA EngineOrder == ASSUME NEW finish, NEW R, Piece(finish, 2, 7, R) PROVE Piece(EngineTasks(finish), 1, 10, EngineSet(R))
  <1> DEFINE
    s1 == <<"ict_set_lang_locale">>
    r1 == {"ict_set_lang_locale"}
    s2 == <<"ict_configure_user_directory", "ict_set_user_profile">>
    r2 == {"ict_configure_user_directory", "ict_set_user_profile"}
    s3 == <<"ict_set_host_node_name", "activate_be", "ict_installboot">>
    r3 == {"ict_set_host_node_name", "activate_be", "ict_installboot"}
    s4 == finish
    r4 == R
    s5 == <<"ict_snapshot", "ict_mark_root_pool_ready", "ict_transfer_logs">>
    r5 == {"ict_snapshot", "ict_mark_root_pool_ready", "ict_transfer_logs"}
  <1>1. Piece(s1, 1, 1, r1)
    BY DEF Piece, Staged, Range, Stage, Names, Basics, Renewed, Networks, Settings, Closing
  <1>2. Piece(s2, 1, 1, r2)
    BY DEF Piece, Staged, Range, Stage, Names, Basics, Renewed, Networks, Settings, Closing
  <1>3. Piece(s3, 1, 1, r3)
    BY DEF Piece, Staged, Range, Stage, Names, Basics, Renewed, Networks, Settings, Closing
  <1>4. Piece(s4, 2, 7, r4)
    OBVIOUS
  <1>5. Piece(s5, 8, 10, r5)
    BY LastTasks
  <1>6. EngineTasks(finish) = s1 \o When(ictRun.front # "ai", s2) \o s3 \o s4 \o s5
    BY DEF EngineTasks
  <1>7. EngineSet(R) = r1 \cup Part(ictRun.front # "ai", r2) \cup r3 \cup r4 \cup r5
    BY DEF EngineSet
  <1> HIDE DEF s1, r1, s2, r2, s3, r3, s4, r4, s5, r5
  <1>8. Piece(When(ictRun.front # "ai", s2), 1, 1, Part(ictRun.front # "ai", r2))
    BY <1>2, PieceSkip DEF When, Part
  <1>9. QED
    <2>1. Piece(s1 \o When(ictRun.front # "ai", s2), 1, 1, r1 \cup Part(ictRun.front # "ai", r2))
      BY <1>1, <1>8, PieceJoin
    <2>2. Piece(s1 \o When(ictRun.front # "ai", s2) \o s3, 1, 1, r1 \cup Part(ictRun.front # "ai", r2) \cup
               r3)
      BY <2>1, <1>3, PieceJoin
    <2>3. Piece(s1 \o When(ictRun.front # "ai", s2) \o s3 \o s4, 1, 7, r1 \cup Part(ictRun.front # "ai", r2)
               \cup r3 \cup r4)
      BY <2>2, <1>4, PieceJoin
    <2>4. Piece(s1 \o When(ictRun.front # "ai", s2) \o s3 \o s4 \o s5, 1, 10, r1 \cup Part(ictRun.front #
               "ai", r2) \cup r3 \cup r4 \cup r5)
      BY <2>3, <1>5, PieceJoin
    <2>5. QED
      BY <1>6, <1>7, <2>4

LEMMA TextOrder == ASSUME NEW finish, NEW R, Piece(finish, 2, 7, R) PROVE Piece(TextTasks(finish), 1, 9, TextSet(R))
  <1> DEFINE
    s1 == <<"ict_set_lang_locale", "ict_configure_user_directory", "ict_set_host_node_name",
            "ict_set_user_profile">>
    r1 == {"ict_set_lang_locale", "ict_configure_user_directory", "ict_set_host_node_name", "ict_set_user_profile"}
    s2 == <<"activate_be", "ict_installboot">>
    r2 == {"activate_be", "ict_installboot"}
    s3 == finish
    r3 == R
    s4 == <<"ict_snapshot", "ict_mark_root_pool_ready">>
    r4 == {"ict_snapshot", "ict_mark_root_pool_ready"}
  <1>1. Piece(s1, 1, 1, r1)
    BY DEF Piece, Staged, Range, Stage, Names, Basics, Renewed, Networks, Settings, Closing
  <1>2. Piece(s2, 1, 1, r2)
    BY DEF Piece, Staged, Range, Stage, Names, Basics, Renewed, Networks, Settings, Closing
  <1>3. Piece(s3, 2, 7, r3)
    OBVIOUS
  <1>4. Piece(s4, 8, 9, r4)
    BY LastTasks
  <1>5. TextTasks(finish) = s1 \o When(Boot, s2) \o s3 \o s4
    BY DEF TextTasks
  <1>6. TextSet(R) = r1 \cup Part(Boot, r2) \cup r3 \cup r4
    BY DEF TextSet
  <1> HIDE DEF s1, r1, s2, r2, s3, r3, s4, r4
  <1>7. Piece(When(Boot, s2), 1, 1, Part(Boot, r2))
    BY <1>2, PieceSkip DEF When, Part
  <1>8. QED
    <2>1. Piece(s1 \o When(Boot, s2), 1, 1, r1 \cup Part(Boot, r2))
      BY <1>1, <1>7, PieceJoin
    <2>2. Piece(s1 \o When(Boot, s2) \o s3, 1, 7, r1 \cup Part(Boot, r2) \cup r3)
      BY <2>1, <1>3, PieceJoin
    <2>3. Piece(s1 \o When(Boot, s2) \o s3 \o s4, 1, 9, r1 \cup Part(Boot, r2) \cup r3 \cup r4)
      BY <2>2, <1>4, PieceJoin
    <2>4. QED
      BY <1>5, <1>6, <2>3


USE DEF Effect, ict_configure_user_directory, ict_set_user_profile, ict_set_lang_locale, ict_set_host_node_name,
  ict_installboot, ict_mark_root_pool_ready, ict_transfer_logs, activate_be, create_smf_repository,
  create_mnttab, cleanup_unneeded_files_and_dirs, generate_sc_profile, delete_misc_trees,
  remove_livecd_coreadm_conf, remove_bootpath, update_dumpadm_nodename, setup_dev_namespace,
  remove_livecd_environment, remove_specific_packages, set_flush_content_cache_false, set_root_password,
  create_new_user, copy_generated_files, setup_rbac, setup_sudo, copy_capability_file, copy_splash_xpm,
  add_splash_image_to_grub_menu, reset_image_uuid, set_boot_device_property, enable_nwam, configure_nwam,
  do_not_configure_network, configure_network, apply_sysconfig_profile, smf_correct_sys_profile,
  create_sparc_boot_menu, copy_sparc_bootlst, set_partition_active_sparc, update_boot_archive
(* What a task does to the facts the properties are about.                 *)
LEMMA EffectFacts ==
  ASSUME NEW t, NEW i PROVE
  /\ "root_password" \in Effect(t, i) <=> "root_password" \in i \/ t = "set_root_password"
  /\ "user" \in Effect(t, i) <=> "user" \in i \/ (t = "create_new_user" /\ ictRun.login)
  /\ "user_is_root" \in Effect(t, i) <=> "user_is_root" \in i \/ (t = "setup_rbac" /\ ictRun.login)
  /\ "root_role" \in Effect(t, i) <=> IF t = "setup_rbac" THEN ictRun.login ELSE "root_role" \in i
  /\ "nodename" \in Effect(t, i) <=> "nodename" \in i \/ t = "ict_set_host_node_name"
  /\ "old_dump_name" \in Effect(t, i) <=>
       "old_dump_name" \in i \/ (t = "update_dumpadm_nodename" /\ "nodename" \notin i)
  /\ "user_sudo" \in Effect(t, i) <=>
       t # "remove_livecd_environment" /\ ("user_sudo" \in i \/ (t = "setup_sudo" /\ ictRun.login))
  /\ "pool_ready" \in Effect(t, i) <=> "pool_ready" \in i \/ t = "ict_mark_root_pool_ready"
  /\ "logs" \in Effect(t, i) <=> "logs" \in i \/ t = "ict_transfer_logs"
  /\ "archive" \in Effect(t, i) <=> "archive" \in i \/ t = "update_boot_archive"
  <1>1. "root_password" \in Effect(t, i) <=> "root_password" \in i \/ t = "set_root_password"
    BY DEF NetFacts
  <1>2. "user" \in Effect(t, i) <=> "user" \in i \/ (t = "create_new_user" /\ ictRun.login)
    BY DEF NetFacts
  <1>3. "user_is_root" \in Effect(t, i) <=> "user_is_root" \in i \/ (t = "setup_rbac" /\ ictRun.login)
    BY DEF NetFacts
  <1>4. "root_role" \in Effect(t, i) <=> IF t = "setup_rbac" THEN ictRun.login ELSE "root_role" \in i
    BY DEF NetFacts
  <1>5. "nodename" \in Effect(t, i) <=> "nodename" \in i \/ t = "ict_set_host_node_name"
    BY DEF NetFacts
  <1>6. "old_dump_name" \in Effect(t, i) <=>
     "old_dump_name" \in i \/ (t = "update_dumpadm_nodename" /\ "nodename" \notin i)
    BY DEF NetFacts
  <1>7. "user_sudo" \in Effect(t, i) <=>
     t # "remove_livecd_environment" /\ ("user_sudo" \in i \/ (t = "setup_sudo" /\ ictRun.login))
    BY DEF NetFacts
  <1>8. "pool_ready" \in Effect(t, i) <=> "pool_ready" \in i \/ t = "ict_mark_root_pool_ready"
    BY DEF NetFacts
  <1>9. "logs" \in Effect(t, i) <=> "logs" \in i \/ t = "ict_transfer_logs"
    BY DEF NetFacts
  <1>10. "archive" \in Effect(t, i) <=> "archive" \in i \/ t = "update_boot_archive"
    BY DEF NetFacts
  <1>11. QED
    BY <1>1, <1>2, <1>3, <1>4, <1>5, <1>6, <1>7, <1>8, <1>9, <1>10

(* What was brought along is only removed. *)
LEMMA EffectLeftovers ==
  ASSUME NEW t, NEW i PROVE
  /\ Effect(t, i) \cap Leftovers \subseteq i
  /\ t = "setup_rbac" => "jack_user" \notin Effect(t, i)
  /\ t = "remove_livecd_environment" => {"jack_sudo", "live_config"} \cap Effect(t, i) = {}
  /\ t = "cleanup_unneeded_files_and_dirs" => "live_files" \notin Effect(t, i)
  /\ t = "remove_specific_packages" => "live_packages" \notin Effect(t, i)
  /\ t = "remove_livecd_coreadm_conf" => "live_coreadm" \notin Effect(t, i)
  /\ t = "delete_misc_trees" => "tmp_files" \notin Effect(t, i)
  <1>1. Effect(t, i) \cap Leftovers \subseteq i
    BY DEF Leftovers
  <1>2. t = "setup_rbac" => "jack_user" \notin Effect(t, i)
    BY DEF Leftovers
  <1>3. t = "remove_livecd_environment" => {"jack_sudo", "live_config"} \cap Effect(t, i) = {}
    BY DEF Leftovers
  <1>4. t = "cleanup_unneeded_files_and_dirs" => "live_files" \notin Effect(t, i)
    BY DEF Leftovers
  <1>5. t = "remove_specific_packages" => "live_packages" \notin Effect(t, i)
    BY DEF Leftovers
  <1>6. t = "remove_livecd_coreadm_conf" => "live_coreadm" \notin Effect(t, i)
    BY DEF Leftovers
  <1>7. t = "delete_misc_trees" => "tmp_files" \notin Effect(t, i)
    BY DEF Leftovers
  <1>8. QED
    BY <1>1, <1>2, <1>3, <1>4, <1>5, <1>6, <1>7

(* What the network is set up as by one of the four tasks.                 *)
NetOf(t) == CASE t \in {"enable_nwam", "configure_nwam"} -> {"network_nwam"}
              [] t = "configure_network" -> {"network_default", "nwam_off", "addresses"}
              [] OTHER -> {"network_default", "nwam_off"}
LEMMA EffectNetwork ==
  ASSUME NEW t, NEW i PROVE
  /\ t \in Networks /\ i \cap NetFacts = {} => Effect(t, i) \cap NetFacts = NetOf(t)
  /\ t \notin Networks /\ t # "create_smf_repository" => Effect(t, i) \cap NetFacts = i \cap NetFacts
  /\ t = "create_smf_repository" => Effect(t, i) \cap NetFacts = {}
  /\ t \in Networks /\ i \cap NetFacts = NetOf(t) => Effect(t, i) \cap NetFacts = NetOf(t)
  <1>1. t \in Networks /\ i \cap NetFacts = {} => Effect(t, i) \cap NetFacts = NetOf(t)
    BY DEF NetFacts, Networks, NetOf
  <1>2. t \notin Networks /\ t # "create_smf_repository" => Effect(t, i) \cap NetFacts = i \cap NetFacts
    BY DEF NetFacts, Networks, NetOf
  <1>3. t = "create_smf_repository" => Effect(t, i) \cap NetFacts = {}
    BY DEF NetFacts, Networks, NetOf
  <1>4. t \in Networks /\ i \cap NetFacts = NetOf(t) => Effect(t, i) \cap NetFacts = NetOf(t)
    BY DEF NetFacts, Networks, NetOf
  <1>5. QED
    BY <1>1, <1>2, <1>3, <1>4

(* The tasks at the end leave alone what the archive is made of; and the   *)
(* last two only say that they were there.                                 *)
LEMMA EffectLate ==
  ASSUME NEW t, NEW i PROVE
  /\ t \in {"update_boot_archive", "ict_snapshot", "ict_mark_root_pool_ready", "ict_transfer_logs"}
       => Effect(t, i) \cap Archived = i \cap Archived
  /\ t = "ict_snapshot" => Effect(t, i) = i
  /\ t = "ict_mark_root_pool_ready" => Effect(t, i) = i \cup {"pool_ready"}
  /\ t = "ict_transfer_logs" => Effect(t, i) = i \cup {"logs"}
  <1>1. t \in {"update_boot_archive", "ict_snapshot", "ict_mark_root_pool_ready", "ict_transfer_logs"}
     => Effect(t, i) \cap Archived = i \cap Archived
    BY DEF Archived
  <1>2. t = "ict_snapshot" => Effect(t, i) = i
    BY DEF Archived
  <1>3. t = "ict_mark_root_pool_ready" => Effect(t, i) = i \cup {"pool_ready"}
    BY DEF Archived
  <1>4. t = "ict_transfer_logs" => Effect(t, i) = i \cup {"logs"}
    BY DEF Archived
  <1>5. QED
    BY <1>1, <1>2, <1>3, <1>4

HIDE DEF Effect, ict_configure_user_directory, ict_set_user_profile, ict_set_lang_locale, ict_set_host_node_name,
  ict_installboot, ict_mark_root_pool_ready, ict_transfer_logs, activate_be, create_smf_repository,
  create_mnttab, cleanup_unneeded_files_and_dirs, generate_sc_profile, delete_misc_trees,
  remove_livecd_coreadm_conf, remove_bootpath, update_dumpadm_nodename, setup_dev_namespace,
  remove_livecd_environment, remove_specific_packages, set_flush_content_cache_false, set_root_password,
  create_new_user, copy_generated_files, setup_rbac, setup_sudo, copy_capability_file, copy_splash_xpm,
  add_splash_image_to_grub_menu, reset_image_uuid, set_boot_device_property, enable_nwam, configure_nwam,
  do_not_configure_network, configure_network, apply_sysconfig_profile, smf_correct_sys_profile,
  create_sparc_boot_menu, copy_sparc_bootlst, set_partition_active_sparc, update_boot_archive

(* The network task of the installation. *)
Net == IF Live THEN Network ELSE "configure_nwam"

(* The tasks that were run, and those of them that were always good.       *)
Done == {Flow[k] : k \in 1..ictPc}
Good(t) == t \in Done /\ t \notin failed

IctKnown ==
  /\ ictRun \in Installs /\ ictPc \in 0..Len(Flow)
  /\ IsFiniteSet(failed) /\ Cardinality(failed) <= MaxFailures /\ failed \subseteq Done

(* What the tasks that were good left in the image is still there.         *)
ImageInv ==
  /\ Good("set_root_password") => "root_password" \in image
  /\ Good("create_new_user") /\ ictRun.login => "user" \in image
  /\ Good("setup_rbac") => IF ictRun.login THEN "user_is_root" \in image ELSE "root_role" \notin image
  /\ Good("ict_set_host_node_name") => "nodename" \in image
  /\ "old_dump_name" \in image => "ict_set_host_node_name" \in failed
  /\ Good("update_boot_archive") => "archive" \in image
  /\ Good("setup_sudo") /\ ictRun.login => "user_sudo" \in image

NetInv ==
  /\ Net \notin Done => image \cap NetFacts = {}
  /\ Good(Net) => image \cap NetFacts = NetOf(Net)

LeftoverInv ==
  /\ Good("setup_rbac") => "jack_user" \notin image
  /\ Good("remove_livecd_environment") => {"jack_sudo", "live_config"} \cap image = {}
  /\ Good("cleanup_unneeded_files_and_dirs") => "live_files" \notin image
  /\ Good("remove_specific_packages") => "live_packages" \notin image
  /\ Good("remove_livecd_coreadm_conf") => "live_coreadm" \notin image
  /\ Good("delete_misc_trees") => "tmp_files" \notin image

(* The snapshot is the image as it was before the last two tasks.          *)
SnapInv ==
  /\ "ict_mark_root_pool_ready" \notin Done => "pool_ready" \notin image
  /\ "ict_transfer_logs" \notin Done => "logs" \notin image
  /\ "ict_snapshot" \notin Done => snapshot = {}
  /\ snapshot = {} \/ snapshot = image \ {"pool_ready", "logs"}
  /\ Good("ict_snapshot") => snapshot = image \ {"pool_ready", "logs"}

(* An entry of the new system, and behind it one of the others.            *)
Entries == [who : {"own", "other"}, title : {"default", "image", "other"}, bootfs : BOOLEAN, face : BOOLEAN]
MenuInv ==
  /\ menu \in Seq(Entries) /\ Len(menu) \in 1..2
  /\ menu[1].who = "own" /\ (menu[1].title = "image" => Live)
  /\ menu[1].title # "other" /\ (Live /\ Good("fix_grub_entry") => menu[1].title = "image")
  /\ Len(menu) = 2 => menu[2].who = "other" /\ menu[2].title = "other" /\ "add_operating_system_grub_entry" \in Done
  /\ \A k \in DOMAIN menu : menu[k].bootfs => menu[k].who = "own"
  /\ Good("explicit_bootfs") => \A k \in DOMAIN menu : menu[k].who = "own" => menu[k].bootfs

(* The partition table before and after set_boot_active.                   *)
Table == IF ictRun.logical THEN Logical ELSE Partitions
Activated == IF ictRun.logical THEN Logical
             ELSE <<[id |-> 7, active |-> FALSE], [id |-> 191, active |-> TRUE]>>
DiskInv ==
  /\ fdisk \in {Table, Activated}
  /\ "set_partition_active" \notin Done => fdisk = Table
  /\ Good("set_partition_active") /\ Intel => fdisk = Activated

IctInv == IctKnown /\ ImageInv /\ NetInv /\ LeftoverInv /\ SnapInv /\ MenuInv /\ DiskInv

(* What every order holds, and that its stages follow one another.         *)
Wanted ==
  /\ Flow \in Seq(Names) /\ Staged(Flow, 1, 10)
  /\ {"ict_set_host_node_name", "update_dumpadm_nodename", "update_boot_archive", "ict_snapshot", Net} \subseteq Range(Flow)
  /\ Live => {"set_root_password", "create_new_user", "setup_rbac", "setup_sudo", "cleanup_unneeded_files_and_dirs",
              "delete_misc_trees", "remove_livecd_coreadm_conf", "remove_livecd_environment",
              "remove_specific_packages"} \subseteq Range(Flow)
  /\ Range(Flow) \cap Networks = {Net}
  /\ Intel => ("set_partition_active" \in Range(Flow) <=> Boot)
  /\ Intel /\ Boot => "explicit_bootfs" \in Range(Flow) /\ (Live => "fix_grub_entry" \in Range(Flow))

LEMMA FlowHolds == ASSUME ictRun \in Installs PROVE Wanted
  <1>1. Net \in Networks
    BY DEF Net, Network, Networks
  <1>2. ASSUME NEW s, NEW b \in 7..10, NEW R, Piece(s, 1, b, R) PROVE s \in Seq(Names) /\ Staged(s, 1, 10) /\ Range(s) = R
    BY <1>2, StageIsNumber DEF Piece, Staged
  <1>3. CASE ictRun.front = "text"
    <2>1. Live /\ Flow = TextTasks(LiveFinish)
      BY <1>3 DEF Live, Flow
    <2>2. Piece(Flow, 1, 9, TextSet(LiveSet))
      BY <2>1, LiveOrder, TextOrder
    <2>3. Flow \in Seq(Names) /\ Staged(Flow, 1, 10) /\ Range(Flow) = TextSet(LiveSet)
      BY <1>2, <2>2
    <2>4. Net = Network
      BY <2>1 DEF Net
    <2> DEFINE H == Range(HappyFace)
    <2>5. "explicit_bootfs" \in H /\ H \subseteq {"explicit_bootfs", "enable_happy_face_boot", "copy_splash_xpm"}
      BY HappyOrder
    <2> HIDE DEF H
    <2>6. TextSet(LiveSet) \cap Networks = {Network}
      BY <1>1, <2>4, <2>5 DEF TextSet, LiveSet, Part, Networks, H
    <2> DEFINE R == TextSet(LiveSet)
    <2>7. {"ict_set_host_node_name", "update_dumpadm_nodename", "update_boot_archive", "ict_snapshot", Network} \subseteq R
      BY DEF TextSet, LiveSet, Part
    <2>8. {"set_root_password", "create_new_user", "setup_rbac", "setup_sudo", "cleanup_unneeded_files_and_dirs",
           "delete_misc_trees", "remove_livecd_coreadm_conf", "remove_livecd_environment",
           "remove_specific_packages"} \subseteq R
      BY DEF TextSet, LiveSet
    <2>9. "set_partition_active" \in R <=> Boot
      BY <1>1, <2>4, <2>5 DEF TextSet, LiveSet, Part, H, Networks
    <2>10. Intel /\ Boot => "explicit_bootfs" \in R /\ "fix_grub_entry" \in R
      BY <2>5 DEF TextSet, LiveSet, Part, H
    <2>11. QED
      BY <2>1, <2>3, <2>4, <2>6, <2>7, <2>8, <2>9, <2>10 DEF Wanted
  <1>4. CASE ictRun.front = "gui"
    <2>1. Live /\ Flow = EngineTasks(LiveFinish)
      BY <1>4 DEF Live, Flow
    <2>2. Piece(Flow, 1, 10, EngineSet(LiveSet))
      BY <2>1, LiveOrder, EngineOrder
    <2>3. Flow \in Seq(Names) /\ Staged(Flow, 1, 10) /\ Range(Flow) = EngineSet(LiveSet)
      BY <1>2, <2>2
    <2>4. Net = Network
      BY <2>1 DEF Net
    <2> DEFINE H == Range(HappyFace)
    <2>5. "explicit_bootfs" \in H /\ H \subseteq {"explicit_bootfs", "enable_happy_face_boot", "copy_splash_xpm"}
      BY HappyOrder
    <2> HIDE DEF H
    <2>6. EngineSet(LiveSet) \cap Networks = {Network}
      BY <1>1, <2>4, <2>5 DEF EngineSet, LiveSet, Part, Networks, H
    <2> DEFINE R == EngineSet(LiveSet)
    <2>7. {"ict_set_host_node_name", "update_dumpadm_nodename", "update_boot_archive", "ict_snapshot", Network} \subseteq R
      BY DEF EngineSet, LiveSet, Part
    <2>8. {"set_root_password", "create_new_user", "setup_rbac", "setup_sudo", "cleanup_unneeded_files_and_dirs",
           "delete_misc_trees", "remove_livecd_coreadm_conf", "remove_livecd_environment",
           "remove_specific_packages"} \subseteq R
      BY DEF EngineSet, LiveSet
    <2>9. "set_partition_active" \in R <=> Boot
      BY <1>1, <2>4, <2>5 DEF EngineSet, LiveSet, Part, H, Networks
    <2>10. Intel /\ Boot => "explicit_bootfs" \in R /\ "fix_grub_entry" \in R
      BY <2>5 DEF EngineSet, LiveSet, Part, H
    <2>11. QED
      BY <2>1, <2>3, <2>4, <2>6, <2>7, <2>8, <2>9, <2>10 DEF Wanted
  <1>5. CASE ictRun.front = "ai" /\ Intel
    <2>1. ~Live /\ Flow = EngineTasks(AutoFinish)
      BY <1>5 DEF Live, Flow
    <2>2. Piece(Flow, 1, 10, EngineSet(IntelSet))
      BY <1>5, <2>1, IntelOrder, EngineOrder
    <2>3. Flow \in Seq(Names) /\ Staged(Flow, 1, 10) /\ Range(Flow) = EngineSet(IntelSet)
      BY <1>2, <2>2
    <2>4. Net = "configure_nwam"
      BY <2>1 DEF Net
    <2>5. EngineSet(IntelSet) \cap Networks = {"configure_nwam"}
      BY DEF EngineSet, IntelSet, Part, Networks
    <2>6. QED
      BY <1>5, <2>1, <2>3, <2>4, <2>5 DEF Wanted, EngineSet, IntelSet, Part
  <1>6. CASE ictRun.front = "ai" /\ ~Intel
    <2>1. ~Live /\ Flow = EngineTasks(AutoFinish)
      BY <1>6 DEF Live, Flow
    <2>2. Piece(Flow, 1, 10, EngineSet(SparcSet))
      BY <1>6, <2>1, SparcOrder, EngineOrder
    <2>3. Flow \in Seq(Names) /\ Staged(Flow, 1, 10) /\ Range(Flow) = EngineSet(SparcSet)
      BY <1>2, <2>2
    <2>4. Net = "configure_nwam"
      BY <2>1 DEF Net
    <2>5. EngineSet(SparcSet) \cap Networks = {"configure_nwam"}
      BY DEF EngineSet, SparcSet, Part, Networks
    <2>6. QED
      BY <1>6, <2>1, <2>3, <2>4, <2>5 DEF Wanted, EngineSet, SparcSet, Part
  <1>7. QED
    BY <1>3, <1>4, <1>5, <1>6, IctAssumption

(* The next task: those of earlier stages were run, and of later ones not. *)
LEMMA NextTask ==
  ASSUME IctKnown, ictPc < Len(Flow), UNCHANGED ictRun, ictPc' = ictPc + 1
  PROVE  /\ Done' = Done \cup {Task} /\ Task \in Range(Flow)
         /\ \A t \in Done : Stage(t) <= Stage(Task) /\ (Stage(t) = 4 => Stage(Task) > 4)
         /\ \A t \in Range(Flow) : Stage(t) < Stage(Task) => t \in Done
  <1>1. Wanted
    BY FlowHolds DEF IctKnown
  <1>2. Flow' = Flow
    BY DEF Flow, TextTasks, EngineTasks, LiveFinish, Finish0, AutoFinish, MenuTasks, UserTasks, Network, Intel, Boot
  <1> DEFINE n == Len(Flow)
  <1>3. n \in Nat /\ DOMAIN Flow = 1..n /\ ictPc \in 0..n /\ ictPc + 1 \in 1..n
    BY <1>1 DEF Wanted, IctKnown
  <1> HIDE DEF n
  <1>4. \A t : Stage(t) \in Nat
    BY StageIsNumber, SMT
  <1>5. Done' = Done \cup {Task}
    BY <1>2, <1>3 DEF Done, Task
  <1>6. Task \in Range(Flow)
    BY <1>3 DEF Task, Range
  <1>7. ASSUME NEW t \in Done PROVE Stage(t) <= Stage(Task) /\ (Stage(t) = 4 => Stage(Task) > 4)
    <2>1. PICK k \in 1..ictPc : t = Flow[k]
      BY DEF Done
    <2>2. k \in DOMAIN Flow /\ ictPc + 1 \in DOMAIN Flow /\ k < ictPc + 1
      BY <1>3
    <2>3. QED
      BY <1>1, <2>1, <2>2 DEF Wanted, Staged, Task
  <1>8. ASSUME NEW t \in Range(Flow), Stage(t) < Stage(Task) PROVE t \in Done
    <2>1. PICK k \in DOMAIN Flow : t = Flow[k]
      BY DEF Range
    <2>2. ~(ictPc + 1 <= k)
      <3>1. SUFFICES ASSUME ictPc + 1 <= k PROVE FALSE
        OBVIOUS
      <3>2. ictPc + 1 \in DOMAIN Flow /\ (ictPc + 1 < k \/ ictPc + 1 = k)
        BY <1>3, <3>1
      <3>3. Stage(Task) <= Stage(t)
        BY <1>1, <1>4, <2>1, <3>2 DEF Wanted, Staged, Task
      <3>4. QED
        BY <1>4, <1>8, <3>3
    <2>3. k \in 1..ictPc
      BY <1>3, <2>2
    <2>4. QED
      BY <2>1, <2>3 DEF Done
  <1>9. QED
    BY <1>5, <1>6, <1>7, <1>8

LEMMA StageOf ==
  /\ Stage("ict_set_host_node_name") = 1 /\ Stage("create_smf_repository") = 2 /\ Stage("generate_sc_profile") = 2
  /\ Stage("fix_grub_entry") = 3 /\ Stage("add_operating_system_grub_entry") = 4
  /\ Stage("update_dumpadm_nodename") = 5 /\ Stage("explicit_bootfs") = 5 /\ Stage("remove_livecd_environment") = 5
  /\ Stage("setup_sudo") = 6 /\ Stage("update_boot_archive") = 7 /\ Stage("ict_snapshot") = 8
  /\ Stage("ict_mark_root_pool_ready") = 9 /\ Stage("ict_transfer_logs") = 10
  /\ \A t \in Networks : Stage(t) = 5
  /\ \A t \in Names : Stage(t) >= 7 =>
       t \in {"update_boot_archive", "ict_snapshot", "ict_mark_root_pool_ready", "ict_transfer_logs"}
  <1>1. Stage("ict_set_host_node_name") = 1 /\ Stage("create_smf_repository") = 2 /\ Stage("generate_sc_profile") = 2
    BY DEF Stage, Basics, Renewed
  <1>2. Stage("fix_grub_entry") = 3 /\ Stage("add_operating_system_grub_entry") = 4
    BY DEF Stage, Basics, Renewed
  <1>3. Stage("update_dumpadm_nodename") = 5 /\ Stage("explicit_bootfs") = 5 /\ Stage("remove_livecd_environment") = 5
    BY DEF Stage, Basics, Renewed, Settings
  <1>4. Stage("setup_sudo") = 6 /\ Stage("update_boot_archive") = 7
    BY DEF Stage, Basics, Renewed, Settings, Networks, Closing
  <1>5. Stage("ict_snapshot") = 8 /\ Stage("ict_mark_root_pool_ready") = 9
    BY DEF Stage, Basics, Renewed, Settings, Networks, Closing
  <1>6. Stage("ict_transfer_logs") = 10
    BY DEF Stage, Basics, Renewed, Settings, Networks, Closing
  <1>7. \A t \in Networks : Stage(t) = 5
    BY DEF Stage, Basics, Renewed, Settings, Networks
  <1>8. \A t \in Names : Stage(t) >= 7 =>
          t \in {"update_boot_archive", "ict_snapshot", "ict_mark_root_pool_ready", "ict_transfer_logs"}
    BY DEF Stage, Names
  <1>9. QED
    BY <1>1, <1>2, <1>3, <1>4, <1>5, <1>6, <1>7, <1>8

(* What a step does, whether the task is good or not.                      *)
Kept == /\ Task \in failed' /\ UNCHANGED <<menu, fdisk, snapshot>>
        /\ image' = image \/ (Task = "generate_sc_profile" /\ image' = image \ {"system_profile"})
LEMMA StepCases ==
  ASSUME IctKnown, Succeed \/ FailTask
  PROVE  /\ ictPc < Len(Flow) /\ ictPc' = ictPc + 1 /\ UNCHANGED ictRun
         /\ failed \subseteq failed' /\ failed' \subseteq failed \cup {Task}
         /\ Done' = Done \cup {Task} /\ Task \in Range(Flow) /\ Task \in Names
         /\ Carry \/ Kept
  <1>1. ictPc < Len(Flow) /\ ictPc' = ictPc + 1 /\ UNCHANGED ictRun
    BY DEF Succeed, FailTask
  <1>2. failed \subseteq failed' /\ failed' \subseteq failed \cup {Task}
    BY DEF Succeed, FailTask
  <1>3. Done' = Done \cup {Task} /\ Task \in Range(Flow)
    BY <1>1, NextTask
  <1>4. Task \in Names
    BY <1>3, FlowHolds DEF IctKnown, Wanted, Range
  <1>5. Carry \/ Kept
    <2>1. CASE Succeed
      BY <2>1 DEF Succeed
    <2>2. CASE FailTask
      <3>1. failed' = failed \cup {Task}
        BY <2>2 DEF FailTask
      <3>2. Carry \/ (image' = image \ (IF Task = "generate_sc_profile" THEN {"system_profile"} ELSE {})
                      /\ UNCHANGED <<menu, fdisk, snapshot>>)
        BY <2>2 DEF FailTask
      <3>3. QED
        BY <3>1, <3>2 DEF Kept
    <2>3. QED
      BY <2>1, <2>2
  <1>6. QED
    BY <1>1, <1>2, <1>3, <1>4, <1>5

LEMMA KnownStep == ASSUME IctKnown, Succeed \/ FailTask PROVE IctKnown'
  <1>1. /\ ictPc < Len(Flow) /\ ictPc' = ictPc + 1 /\ UNCHANGED ictRun
        /\ failed \subseteq failed' /\ failed' \subseteq failed \cup {Task} /\ Done' = Done \cup {Task}
    BY StepCases
  <1>2. Flow' = Flow
    BY <1>1 DEF Flow, TextTasks, EngineTasks, LiveFinish, Finish0, AutoFinish, MenuTasks, UserTasks, Network, Intel, Boot
  <1>3. Len(Flow) \in Nat
    BY FlowHolds DEF IctKnown, Wanted
  <1>4. IsFiniteSet(failed') /\ Cardinality(failed') <= MaxFailures
    <2>1. CASE failed' = failed
      BY <2>1 DEF IctKnown
    <2>2. CASE failed' # failed
      <3>1. Task \notin failed /\ failed' = failed \cup {Task} /\ Cardinality(failed) < MaxFailures
        BY <1>1, <2>2 DEF Succeed, FailTask
      <3>2. Cardinality(failed') = Cardinality(failed) + 1 /\ IsFiniteSet(failed') /\ Cardinality(failed) \in Nat
        BY <3>1, FS_AddElement, FS_CardinalityType DEF IctKnown
      <3>3. QED
        BY <3>1, <3>2, IctAssumption
    <2>3. QED
      BY <2>1, <2>2
  <1>5. QED
    BY <1>1, <1>2, <1>3, <1>4 DEF IctKnown

(* Of what a task leaves, only an archive that has become old is removed.  *)
LEMMA AgedKeeps ==
  ASSUME NEW i, NEW j
  PROVE  /\ \A x : x # "archive" => (x \in Aged(i, j) <=> x \in j)
         /\ "archive" \in Aged(i, j) => "archive" \in j
         /\ i \cap Archived = j \cap Archived => Aged(i, j) = j
  BY DEF Aged

LEMMA ImageStep == ASSUME IctKnown, ImageInv, Succeed \/ FailTask PROVE ImageInv'
  <1>1. /\ UNCHANGED ictRun /\ ictPc < Len(Flow) /\ ictPc' = ictPc + 1
        /\ failed \subseteq failed' /\ failed' \subseteq failed \cup {Task}
        /\ Done' = Done \cup {Task} /\ Task \in Names
    BY StepCases
  <1>2. Carry \/ Kept
    BY StepCases
  <1>3. \A t : Good(t)' => t = Task \/ Good(t)
    BY <1>1 DEF Good
  <1>4. /\ \A t \in Done : Stage(t) <= Stage(Task)
        /\ \A t \in Range(Flow) : Stage(t) < Stage(Task) => t \in Done
    BY <1>1, NextTask
  <1>5. "ict_set_host_node_name" \in Range(Flow)
    BY FlowHolds DEF IctKnown, Wanted
  <1>6. CASE Kept
    <2>1. \A t : Good(t)' => Good(t)
      BY <1>3, <1>6 DEF Kept, Good
    <2>2. \A x : x # "system_profile" => (x \in image' <=> x \in image)
      BY <1>6 DEF Kept
    <2>3. QED
      BY <1>1, <2>1, <2>2 DEF ImageInv
  <1>7. CASE Carry
    <2>1. image' = Aged(image, Effect(Task, image))
      BY <1>7 DEF Carry
    <2>2. \A x : x # "archive" => (x \in image' <=> x \in Effect(Task, image))
      BY <2>1, AgedKeeps
    <2>3. Good("set_root_password")' => "root_password" \in image'
      BY <1>3, <2>2, EffectFacts DEF ImageInv
    <2>4. Good("create_new_user")' /\ ictRun'.login => "user" \in image'
      BY <1>1, <1>3, <2>2, EffectFacts DEF ImageInv
    <2>5. Good("setup_rbac")' => IF ictRun'.login THEN "user_is_root" \in image' ELSE "root_role" \notin image'
      BY <1>1, <1>3, <2>2, EffectFacts DEF ImageInv
    <2>6. Good("ict_set_host_node_name")' => "nodename" \in image'
      BY <1>3, <2>2, EffectFacts DEF ImageInv
    <2>7. "old_dump_name" \in image' => "ict_set_host_node_name" \in failed'
      <3>1. CASE "old_dump_name" \in image
        BY <1>1, <3>1 DEF ImageInv
      <3>2. CASE Task = "update_dumpadm_nodename" /\ "nodename" \notin image
        <4>1. "ict_set_host_node_name" \in Done
          BY <1>4, <1>5, <3>2, StageOf
        <4>2. QED
          BY <1>1, <3>2, <4>1 DEF ImageInv, Good
      <3>3. QED
        BY <2>2, <3>1, <3>2, EffectFacts
    <2>8. Good("update_boot_archive")' => "archive" \in image'
      <3>1. SUFFICES ASSUME Good("update_boot_archive")' PROVE "archive" \in image'
        OBVIOUS
      <3>2. "archive" \in Effect(Task, image)
        BY <1>3, <3>1, EffectFacts DEF ImageInv
      <3>3. Stage(Task) >= 7
        BY <1>3, <1>4, <3>1, StageOf, StageIsNumber DEF Good
      <3>4. Task \in {"update_boot_archive", "ict_snapshot", "ict_mark_root_pool_ready", "ict_transfer_logs"}
        BY <1>1, <3>3, StageOf
      <3>5. Effect(Task, image) \cap Archived = image \cap Archived
        BY <3>4, EffectLate
      <3>6. QED
        BY <2>1, <3>2, <3>5, AgedKeeps
    <2>9. Good("setup_sudo")' /\ ictRun'.login => "user_sudo" \in image'
      <3>1. Good("setup_sudo")' => Task # "remove_livecd_environment"
        BY <1>3, <1>4, StageOf DEF Good
      <3>2. QED
        BY <1>1, <1>3, <2>2, <3>1, EffectFacts DEF ImageInv
    <2>10. QED
      BY <2>3, <2>4, <2>5, <2>6, <2>7, <2>8, <2>9 DEF ImageInv
  <1>8. QED
    BY <1>2, <1>6, <1>7

LEMMA NetStep == ASSUME IctKnown, NetInv, Succeed \/ FailTask PROVE NetInv'
  <1>1. /\ UNCHANGED ictRun /\ ictPc < Len(Flow) /\ ictPc' = ictPc + 1
        /\ failed \subseteq failed' /\ failed' \subseteq failed \cup {Task}
        /\ Done' = Done \cup {Task} /\ Task \in Range(Flow) /\ (Carry \/ Kept)
    BY StepCases
  <1>2. \A t \in Done : Stage(t) <= Stage(Task)
    BY <1>1, NextTask
  <1>3. Range(Flow) \cap Networks = {Net} /\ Net \in Networks
    BY FlowHolds DEF IctKnown, Wanted
  <1>4. Net' = Net
    BY <1>1 DEF Net, Live, Network
  <1>5. "archive" \notin NetFacts /\ "system_profile" \notin NetFacts
    BY DEF NetFacts
  <1> DEFINE n == Net
  <1> DEFINE now == image \cap NetFacts
  <1> HIDE DEF n, now
  <1>6. /\ n \notin Done => now = {}
        /\ n \in Done /\ n \notin failed => now = NetOf(n)
    BY DEF NetInv, Good, n, now
  <1>7. Kept => (image \cap NetFacts)' = now /\ Task \in failed'
    BY <1>5 DEF Kept, now
  <1>8. Carry => (image \cap NetFacts)' = Effect(Task, image) \cap NetFacts
    BY <1>5, AgedKeeps DEF Carry
  <1>9. (image \cap NetFacts)' = now \/ Task = n
         \/ (Task = "create_smf_repository" /\ (image \cap NetFacts)' = {})
    <2>1. Task \in Networks => Task = n
      BY <1>1, <1>3 DEF n
    <2>2. Task \notin Networks /\ Task # "create_smf_repository" => Effect(Task, image) \cap NetFacts = now
      BY EffectNetwork DEF now
    <2>3. Task = "create_smf_repository" => Effect(Task, image) \cap NetFacts = {}
      BY EffectNetwork
    <2>4. QED
      BY <1>1, <1>7, <1>8, <2>1, <2>2, <2>3
  <1>10. n \in Done => Task # "create_smf_repository"
    BY <1>2, <1>3, StageOf DEF n
  <1>11. Task = n /\ Carry /\ (now = {} \/ now = NetOf(n)) => (image \cap NetFacts)' = NetOf(n)
    BY <1>3, <1>8, EffectNetwork DEF n, now
  <1>12. n \notin Done' => (image \cap NetFacts)' = {}
    BY <1>1, <1>6, <1>9
  <1>13. n \in Done' /\ n \notin failed' => (image \cap NetFacts)' = NetOf(n)
    <2>1. SUFFICES ASSUME n \in Done', n \notin failed' PROVE (image \cap NetFacts)' = NetOf(n)
      OBVIOUS
    <2>2. now = {} \/ now = NetOf(n)
      BY <1>1, <1>6, <2>1
    <2>3. CASE Task = n
      BY <1>1, <1>7, <1>11, <2>1, <2>2, <2>3
    <2>4. CASE Task # n
      BY <1>1, <1>6, <1>9, <1>10, <2>1, <2>4
    <2>5. QED
      BY <2>3, <2>4
  <1>14. QED
    BY <1>4, <1>12, <1>13 DEF NetInv, Good, n

LEMMA LeftoverStep == ASSUME IctKnown, LeftoverInv, Succeed \/ FailTask PROVE LeftoverInv'
  <1>1. /\ failed \subseteq failed' /\ failed' \subseteq failed \cup {Task}
        /\ Done' = Done \cup {Task} /\ (Carry \/ Kept)
    BY StepCases
  <1>2. \A t : Good(t)' => t = Task \/ Good(t)
    BY <1>1 DEF Good
  <1>3. Leftovers = {"jack_user", "jack_sudo", "live_files", "live_config", "live_packages", "live_coreadm", "tmp_files"}
    BY DEF Leftovers
  <1>4. CASE Kept
    <2>1. \A t : Good(t)' => Good(t)
      BY <1>2, <1>4 DEF Kept, Good
    <2>2. image' \subseteq image
      BY <1>4 DEF Kept
    <2>3. QED
      BY <2>1, <2>2 DEF LeftoverInv
  <1>5. CASE Carry
    <2>1. \A x : x # "archive" => (x \in image' <=> x \in Effect(Task, image))
      BY <1>5, AgedKeeps DEF Carry
    <2>2. \A x \in Leftovers : x \in image' => x \in image /\ x \in Effect(Task, image)
      BY <1>3, <2>1, EffectLeftovers
    <2>3. Good("setup_rbac")' => "jack_user" \notin image'
      BY <1>2, <1>3, <2>2, EffectLeftovers DEF LeftoverInv
    <2>4. Good("remove_livecd_environment")' => {"jack_sudo", "live_config"} \cap image' = {}
      <3>1. Good("remove_livecd_environment")' => {"jack_sudo", "live_config"} \cap Effect(Task, image) = {}
                                                   \/ {"jack_sudo", "live_config"} \cap image = {}
        BY <1>2, EffectLeftovers DEF LeftoverInv
      <3>2. QED
        BY <1>3, <2>2, <3>1
    <2>5. Good("cleanup_unneeded_files_and_dirs")' => "live_files" \notin image'
      BY <1>2, <1>3, <2>2, EffectLeftovers DEF LeftoverInv
    <2>6. Good("remove_specific_packages")' => "live_packages" \notin image'
      BY <1>2, <1>3, <2>2, EffectLeftovers DEF LeftoverInv
    <2>7. Good("remove_livecd_coreadm_conf")' => "live_coreadm" \notin image'
      BY <1>2, <1>3, <2>2, EffectLeftovers DEF LeftoverInv
    <2>8. Good("delete_misc_trees")' => "tmp_files" \notin image'
      BY <1>2, <1>3, <2>2, EffectLeftovers DEF LeftoverInv
    <2>9. QED
      BY <2>3, <2>4, <2>5, <2>6, <2>7, <2>8 DEF LeftoverInv
  <1>6. QED
    BY <1>1, <1>4, <1>5

LEMMA SnapStep == ASSUME IctKnown, SnapInv, Succeed \/ FailTask PROVE SnapInv'
  <1>1. /\ ictPc < Len(Flow) /\ ictPc' = ictPc + 1 /\ UNCHANGED ictRun
        /\ failed \subseteq failed' /\ failed' \subseteq failed \cup {Task}
        /\ Done' = Done \cup {Task} /\ Task \in Names /\ (Carry \/ Kept)
    BY StepCases
  <1>2. \A t \in Done : Stage(t) <= Stage(Task)
    BY <1>1, NextTask
  <1> DEFINE last == {"pool_ready", "logs"}
  <1> HIDE DEF last
  <1>3. /\ "ict_mark_root_pool_ready" \notin Done => "pool_ready" \notin image
        /\ "ict_transfer_logs" \notin Done => "logs" \notin image
        /\ "ict_snapshot" \notin Done => snapshot = {}
        /\ snapshot = {} \/ snapshot = image \ last
        /\ "ict_snapshot" \in Done /\ "ict_snapshot" \notin failed => snapshot = image \ last
    BY DEF SnapInv, Good, last
  <1>4. "ict_snapshot" \in Done => Task # "generate_sc_profile" /\ Stage(Task) >= 8
    BY <1>2, StageOf
  <1>5. "ict_snapshot" \in Done => Task \in {"ict_snapshot", "ict_mark_root_pool_ready", "ict_transfer_logs"}
    BY <1>1, <1>4, StageOf, StageIsNumber
  <1>6. Task = "ict_snapshot" => "ict_mark_root_pool_ready" \notin Done /\ "ict_transfer_logs" \notin Done
    BY <1>2, StageOf
  <1>7. CASE Kept
    <2>1. snapshot' = snapshot /\ Task \in failed' /\ image' \subseteq image
          /\ (Task # "generate_sc_profile" => image' = image)
      BY <1>7 DEF Kept
    <2>2. snapshot' = {} \/ snapshot' = image' \ last
      BY <1>3, <1>4, <2>1
    <2>3. "ict_snapshot" \in Done' /\ "ict_snapshot" \notin failed' => snapshot' = image' \ last
      BY <1>1, <1>3, <1>4, <2>1
    <2>4. QED
      BY <1>1, <1>3, <2>1, <2>2, <2>3 DEF SnapInv, Good, last
  <1>8. CASE Carry /\ Task = "ict_snapshot"
    <2>1. Effect(Task, image) = image
      BY <1>8, EffectLate
    <2>2. image' = image
      BY <1>8, <2>1, AgedKeeps DEF Carry
    <2>3. snapshot' = image
      BY <1>8 DEF Carry
    <2>4. image' \ last = image
      BY <1>3, <1>6, <1>8, <2>2 DEF last
    <2>5. QED
      BY <1>1, <1>3, <1>8, <2>2, <2>3, <2>4 DEF SnapInv, Good, last
  <1>9. CASE Carry /\ Task # "ict_snapshot"
    <2>1. \A x : x # "archive" => (x \in image' <=> x \in Effect(Task, image))
      BY <1>9, AgedKeeps DEF Carry
    <2>2. snapshot' = snapshot
      BY <1>9 DEF Carry
    <2>3. "ict_mark_root_pool_ready" \notin Done' => "pool_ready" \notin image'
      BY <1>1, <1>3, <2>1, EffectFacts
    <2>4. "ict_transfer_logs" \notin Done' => "logs" \notin image'
      BY <1>1, <1>3, <2>1, EffectFacts
    <2>5. "ict_snapshot" \in Done => image' \ last = image \ last
      <3>1. SUFFICES ASSUME "ict_snapshot" \in Done PROVE image' \ last = image \ last
        OBVIOUS
      <3>2. Task = "ict_mark_root_pool_ready" \/ Task = "ict_transfer_logs"
        BY <1>5, <1>9, <3>1
      <3>3. Effect(Task, image) \ last = image \ last /\ Effect(Task, image) \cap Archived = image \cap Archived
        BY <3>2, EffectLate DEF last
      <3>4. image' = Effect(Task, image)
        BY <1>9, <3>3, AgedKeeps DEF Carry
      <3>5. QED
        BY <3>3, <3>4
    <2>6. QED
      BY <1>1, <1>3, <1>9, <2>2, <2>3, <2>4, <2>5 DEF SnapInv, Good, last
  <1>10. QED
    BY <1>1, <1>7, <1>8, <1>9

(* What the tasks do to an entry of the menu. *)
LEMMA FixEach ==
  ASSUME NEW m \in Seq(Entries)
  PROVE  LET n == fix_grub_entry(m)
         IN  /\ n \in Seq(Entries) /\ Len(n) = Len(m)
             /\ \A k \in 1..Len(m) : /\ n[k].who = m[k].who /\ n[k].bootfs = m[k].bootfs
                                     /\ n[k].title = IF Live THEN "image" ELSE m[k].title
  <1>1. CASE ~Live
    BY <1>1 DEF Live, fix_grub_entry
  <1>2. CASE Live
    <2> DEFINE f == [k \in DOMAIN m |-> [m[k] EXCEPT !.title = "image"]]
    <2>1. fix_grub_entry(m) = f
      BY <1>2 DEF Live, fix_grub_entry, Each
    <2>2. Len(m) \in Nat /\ DOMAIN m = 1..Len(m) /\ \A k \in 1..Len(m) : m[k] \in Entries
      OBVIOUS
    <2>3. \A k \in 1..Len(m) : f[k] = [m[k] EXCEPT !.title = "image"] /\ f[k] \in Entries
      BY <2>2 DEF Entries
    <2>4. f \in Seq(Entries) /\ Len(f) = Len(m)
      <3>1. f \in [1..Len(m) -> Entries]
        BY <2>2, <2>3
      <3> HIDE DEF f
      <3>2. QED
        BY <2>2, <3>1
    <2>5. QED
      BY <1>2, <2>1, <2>2, <2>3, <2>4 DEF Entries
  <1>3. QED
    BY <1>1, <1>2

LEMMA BootEach ==
  ASSUME NEW m \in Seq(Entries)
  PROVE  LET n == explicit_bootfs(m)
         IN  /\ n \in Seq(Entries) /\ Len(n) = Len(m)
             /\ \A k \in 1..Len(m) : /\ n[k].who = m[k].who /\ n[k].title = m[k].title
                                     /\ n[k].bootfs = (m[k].who = "own")
  <1> DEFINE f == [k \in DOMAIN m |-> [m[k] EXCEPT !.bootfs = (m[k].who = "own")]]
  <1>1. explicit_bootfs(m) = f
    BY DEF explicit_bootfs, Each
  <1>2. Len(m) \in Nat /\ DOMAIN m = 1..Len(m) /\ \A k \in 1..Len(m) : m[k] \in Entries
    OBVIOUS
  <1>3. \A k \in 1..Len(m) : f[k] = [m[k] EXCEPT !.bootfs = (m[k].who = "own")] /\ f[k] \in Entries
    BY <1>2 DEF Entries
  <1>4. f \in Seq(Entries) /\ Len(f) = Len(m)
    <2>1. f \in [1..Len(m) -> Entries]
      BY <1>2, <1>3
    <2> HIDE DEF f
    <2>2. QED
      BY <1>2, <2>1
  <1>5. QED
    BY <1>1, <1>2, <1>3, <1>4 DEF Entries

LEMMA FaceEach ==
  ASSUME NEW m \in Seq(Entries)
  PROVE  LET n == enable_happy_face_boot(m)
         IN  /\ n \in Seq(Entries) /\ Len(n) = Len(m)
             /\ \A k \in 1..Len(m) : n[k].who = m[k].who /\ n[k].title = m[k].title /\ n[k].bootfs = m[k].bootfs
  <1> DEFINE f == [k \in DOMAIN m |-> [m[k] EXCEPT !.face = (m[k].who = "own")]]
  <1>1. enable_happy_face_boot(m) = f
    BY DEF enable_happy_face_boot, Each
  <1>2. Len(m) \in Nat /\ DOMAIN m = 1..Len(m) /\ \A k \in 1..Len(m) : m[k] \in Entries
    OBVIOUS
  <1>3. \A k \in 1..Len(m) : f[k] = [m[k] EXCEPT !.face = (m[k].who = "own")] /\ f[k] \in Entries
    BY <1>2 DEF Entries
  <1>4. f \in Seq(Entries) /\ Len(f) = Len(m)
    <2>1. f \in [1..Len(m) -> Entries]
      BY <1>2, <1>3
    <2> HIDE DEF f
    <2>2. QED
      BY <1>2, <2>1
  <1>5. QED
    BY <1>1, <1>2, <1>3, <1>4 DEF Entries

(* Pairs and records, as the provers see them. *)
LEMMA PairIsTuple == ASSUME NEW f, f = [k \in 1..2 |-> f[k]] PROVE f = <<f[1], f[2]>>
  OBVIOUS
LEMMA ActiveIsSet ==
  ASSUME NEW r \in [id : Nat, active : BOOLEAN], NEW b \in BOOLEAN
  PROVE  [r EXCEPT !.active = b] = [id |-> r.id, active |-> b]
  OBVIOUS
LEMMA Appended ==
  ASSUME NEW S, NEW s \in Seq(S), NEW x \in S, NEW n, n = Append(s, x)
  PROVE  n \in Seq(S) /\ Len(n) = Len(s) + 1 /\ n[Len(s) + 1] = x /\ \A i \in 1..Len(s) : n[i] = s[i]
  OBVIOUS
LEMMA LastOfTwo ==
  ASSUME NEW S, NEW s \in Seq(S), NEW x \in S, NEW n, n = Append(s, x), Len(s) = 1
  PROVE  n \in Seq(S) /\ Len(n) = 2 /\ n[1] = s[1] /\ n[2] = x
  <1>1. n \in Seq(S) /\ Len(n) = Len(s) + 1 /\ n[Len(s) + 1] = x /\ \A i \in 1..Len(s) : n[i] = s[i]
    BY Appended
  <1>2. Len(s) + 1 = 2 /\ 1 \in 1..Len(s)
    OBVIOUS
  <1>3. QED
    BY <1>1, <1>2

LEMMA MenuStep == ASSUME IctKnown, MenuInv, Succeed \/ FailTask PROVE MenuInv'
  <1>1. /\ UNCHANGED ictRun /\ ictPc < Len(Flow) /\ ictPc' = ictPc + 1
        /\ failed \subseteq failed' /\ failed' \subseteq failed \cup {Task}
        /\ Done' = Done \cup {Task} /\ (Carry \/ Kept)
    BY StepCases
  <1>2. \A t \in Done : Stage(t) <= Stage(Task) /\ (Stage(t) = 4 => Stage(Task) > 4)
    BY <1>1, NextTask
  <1>3. \A t : Good(t)' => t = Task \/ Good(t)
    BY <1>1 DEF Good
  <1>4. Live' = Live
    BY <1>1 DEF Live
  <1>5. menu \in Seq(Entries) /\ Len(menu) \in 1..2 /\ DOMAIN menu = 1..Len(menu)
    BY DEF MenuInv
  <1>6. CASE menu' = menu /\ Task \notin {"fix_grub_entry", "explicit_bootfs"}
    BY <1>1, <1>3, <1>4, <1>6 DEF MenuInv
  <1>7. CASE Kept
    <2>1. menu' = menu /\ \A t : Good(t)' => Good(t)
      BY <1>3, <1>7 DEF Kept, Good
    <2>2. QED
      BY <1>1, <1>4, <2>1 DEF MenuInv
  <1>8. CASE Carry /\ Task = "fix_grub_entry"
    <2>1. menu' = fix_grub_entry(menu)
      BY <1>8 DEF Carry, OnMenu
    <2>2. menu' \in Seq(Entries) /\ Len(menu') = Len(menu)
          /\ \A k \in 1..Len(menu) : /\ menu'[k].who = menu[k].who /\ menu'[k].bootfs = menu[k].bootfs
                                     /\ menu'[k].title = IF Live THEN "image" ELSE menu[k].title
      BY <1>5, <2>1, FixEach
    <2>3. "add_operating_system_grub_entry" \notin Done
      BY <1>2, <1>8, StageOf
    <2>4. Len(menu) = 1 /\ Len(menu') = 1 /\ DOMAIN menu' = 1..1
      <3>1. Len(menu) # 2
        BY <2>3 DEF MenuInv
      <3>2. Len(menu) = 1
        BY <1>5, <3>1
      <3>3. QED
        BY <2>2, <3>2
    <2>5. menu'[1].who = "own" /\ menu'[1].title # "other" /\ (menu'[1].title = "image" <=> Live \/ menu[1].title = "image")
      BY <2>2, <2>4 DEF MenuInv
    <2>6. \A k \in DOMAIN menu' : menu'[k].bootfs => menu'[k].who = "own"
      BY <2>4, <2>5
    <2>7. Good("explicit_bootfs")' => \A k \in DOMAIN menu' : menu'[k].who = "own" => menu'[k].bootfs
      BY <1>3, <1>5, <1>8, <2>2, <2>4 DEF MenuInv
    <2>8. menu'[1].title = "image" => Live
      BY <2>5 DEF MenuInv
    <2>9. QED
      BY <1>4, <2>2, <2>4, <2>5, <2>6, <2>7, <2>8 DEF MenuInv
  <1>9. CASE Carry /\ Task = "add_operating_system_grub_entry"
    <2>1. menu' = Append(menu, Others)
      BY <1>9 DEF Carry, OnMenu, add_operating_system_grub_entry
    <2>2. "add_operating_system_grub_entry" \notin Done
      BY <1>2, <1>9, StageOf
    <2>3. Len(menu) = 1
      BY <1>5, <2>2 DEF MenuInv
    <2>4. Others \in Entries /\ Others.who = "other" /\ Others.title = "other" /\ Others.bootfs = FALSE
      BY DEF Others, Entries
    <2>5. menu' \in Seq(Entries) /\ Len(menu') = 2 /\ DOMAIN menu' = 1..2 /\ menu'[1] = menu[1] /\ menu'[2] = Others
      <3> DEFINE n == Append(menu, Others)
      <3>1. n = Append(menu, Others)
        OBVIOUS
      <3> HIDE DEF n
      <3>2. n \in Seq(Entries) /\ Len(n) = 2 /\ n[1] = menu[1] /\ n[2] = Others
        BY <1>5, <2>3, <2>4, <3>1, LastOfTwo
      <3>3. DOMAIN n = 1..2
        BY <3>2
      <3>4. QED
        BY <2>1, <3>1, <3>2, <3>3
    <2>6. \A k \in DOMAIN menu' : menu'[k].bootfs => menu'[k].who = "own"
      BY <1>5, <2>3, <2>4, <2>5 DEF MenuInv
    <2>7. Good("explicit_bootfs")' => \A k \in DOMAIN menu' : menu'[k].who = "own" => menu'[k].bootfs
      BY <1>3, <1>5, <1>9, <2>3, <2>4, <2>5 DEF MenuInv
    <2>8. Live /\ Good("fix_grub_entry")' => menu'[1].title = "image"
      BY <1>3, <1>9, <2>5 DEF MenuInv
    <2>9. QED
      BY <1>1, <1>4, <1>9, <2>4, <2>5, <2>6, <2>7, <2>8 DEF MenuInv
  <1>10. CASE Carry /\ Task = "explicit_bootfs"
    <2>1. menu' = explicit_bootfs(menu)
      BY <1>10 DEF Carry, OnMenu
    <2>2. menu' \in Seq(Entries) /\ Len(menu') = Len(menu)
          /\ \A k \in 1..Len(menu) : /\ menu'[k].who = menu[k].who /\ menu'[k].title = menu[k].title
                                     /\ menu'[k].bootfs = (menu[k].who = "own")
      BY <1>5, <2>1, BootEach
    <2>3. DOMAIN menu' = 1..Len(menu) /\ 1 \in 1..Len(menu)
      BY <1>5, <2>2
    <2>4. \A k \in DOMAIN menu' : menu'[k].bootfs <=> menu'[k].who = "own"
      BY <2>2, <2>3
    <2>5. Live /\ Good("fix_grub_entry")' => menu'[1].title = "image"
      BY <1>3, <1>10, <2>2, <2>3 DEF MenuInv
    <2>6. Len(menu) = 2 => menu'[2].who = "other" /\ menu'[2].title = "other" /\ "add_operating_system_grub_entry" \in Done'
      BY <1>1, <2>2 DEF MenuInv
    <2>7. menu'[1].who = "own" /\ (menu'[1].title = "image" => Live) /\ menu'[1].title # "other"
      BY <2>2, <2>3 DEF MenuInv
    <2>8. QED
      BY <1>4, <1>5, <2>2, <2>4, <2>5, <2>6, <2>7 DEF MenuInv
  <1>11. CASE Carry /\ Task = "enable_happy_face_boot"
    <2>1. menu' = enable_happy_face_boot(menu)
      BY <1>11 DEF Carry, OnMenu
    <2>2. menu' \in Seq(Entries) /\ Len(menu') = Len(menu)
          /\ \A k \in 1..Len(menu) : /\ menu'[k].who = menu[k].who /\ menu'[k].title = menu[k].title
                                     /\ menu'[k].bootfs = menu[k].bootfs
      BY <1>5, <2>1, FaceEach
    <2>3. DOMAIN menu' = 1..Len(menu) /\ 1 \in 1..Len(menu)
      BY <1>5, <2>2
    <2>4. \A k \in DOMAIN menu' : menu'[k].bootfs => menu'[k].who = "own"
      BY <1>5, <2>2, <2>3 DEF MenuInv
    <2>5. Live /\ Good("fix_grub_entry")' => menu'[1].title = "image"
      BY <1>3, <1>11, <2>2, <2>3 DEF MenuInv
    <2>6. Len(menu) = 2 => menu'[2].who = "other" /\ menu'[2].title = "other" /\ "add_operating_system_grub_entry" \in Done'
      BY <1>1, <2>2 DEF MenuInv
    <2>7. menu'[1].who = "own" /\ (menu'[1].title = "image" => Live) /\ menu'[1].title # "other"
      BY <2>2, <2>3 DEF MenuInv
    <2>8. Good("explicit_bootfs")' => \A k \in DOMAIN menu' : menu'[k].who = "own" => menu'[k].bootfs
      BY <1>3, <1>5, <1>11, <2>2, <2>3 DEF MenuInv
    <2>9. QED
      BY <1>4, <1>5, <2>2, <2>4, <2>5, <2>6, <2>7, <2>8 DEF MenuInv
  <1>12. CASE Carry /\ Task \notin {"fix_grub_entry", "add_operating_system_grub_entry", "explicit_bootfs",
                                    "enable_happy_face_boot"}
    <2>1. menu' = menu
      BY <1>12 DEF Carry, OnMenu
    <2>2. QED
      BY <1>6, <1>12, <2>1
  <1>13. QED
    BY <1>1, <1>7, <1>8, <1>9, <1>10, <1>11, <1>12

LEMMA BootActive == ASSUME fdisk \in {Table, Activated} PROVE set_boot_active(fdisk) = Activated
  <1>1. CASE ictRun.logical
    <2>1. fdisk = Logical
      BY <1>1 DEF Table, Activated
    <2>2. DOMAIN fdisk = 1..5 /\ fdisk[5].id = 191
      BY <2>1 DEF Logical
    <2>3. 5 \in Of(191) /\ 5 > 4
      BY <2>2 DEF Of
    <2>4. set_boot_active(fdisk) = fdisk
      BY <2>3 DEF set_boot_active
    <2>5. QED
      BY <1>1, <2>1, <2>4 DEF Activated
  <1>2. CASE ~ictRun.logical
    <2>1. fdisk = Partitions \/ fdisk = Activated
      BY <1>2 DEF Table
    <2>2. DOMAIN fdisk = 1..2 /\ fdisk[1].id = 7 /\ fdisk[2].id = 191
      BY <1>2, <2>1 DEF Partitions, Activated
    <2>3. Of(191) = {2}
      BY <2>2 DEF Of
    <2>4. set_boot_active(fdisk) = [k \in DOMAIN fdisk |-> [fdisk[k] EXCEPT !.active = (fdisk[k].id = 191)]]
      BY <2>3 DEF set_boot_active
    <2>5. fdisk[1] \in [id : {7}, active : BOOLEAN] /\ fdisk[2] \in [id : {191}, active : BOOLEAN]
      <3>1. CASE fdisk = Partitions
        BY <3>1 DEF Partitions
      <3>2. CASE fdisk = Activated
        BY <1>2, <3>2 DEF Activated
      <3>3. QED
        BY <2>1, <3>1, <3>2
    <2>6. [fdisk[1] EXCEPT !.active = (fdisk[1].id = 191)] = [id |-> 7, active |-> FALSE]
      <3>1. fdisk[1] \in [id : Nat, active : BOOLEAN] /\ fdisk[1].id = 7 /\ (fdisk[1].id = 191) = FALSE
        BY <2>5
      <3>2. [fdisk[1] EXCEPT !.active = FALSE] = [id |-> fdisk[1].id, active |-> FALSE]
        BY <3>1, ActiveIsSet
      <3>3. QED
        BY <3>1, <3>2
    <2>7. [fdisk[2] EXCEPT !.active = (fdisk[2].id = 191)] = [id |-> 191, active |-> TRUE]
      <3>1. fdisk[2] \in [id : Nat, active : BOOLEAN] /\ fdisk[2].id = 191 /\ (fdisk[2].id = 191) = TRUE
        BY <2>5
      <3>2. [fdisk[2] EXCEPT !.active = TRUE] = [id |-> fdisk[2].id, active |-> TRUE]
        BY <3>1, ActiveIsSet
      <3>3. QED
        BY <3>1, <3>2
    <2> DEFINE f == [k \in 1..2 |-> [fdisk[k] EXCEPT !.active = (fdisk[k].id = 191)]]
    <2>8. f[1] = [id |-> 7, active |-> FALSE] /\ f[2] = [id |-> 191, active |-> TRUE] /\ f = [k \in 1..2 |-> f[k]]
      BY <2>6, <2>7
    <2>9. set_boot_active(fdisk) = f
      BY <2>2, <2>4
    <2> HIDE DEF f
    <2>10. f = <<[id |-> 7, active |-> FALSE], [id |-> 191, active |-> TRUE]>>
      BY <2>8, PairIsTuple
    <2>11. QED
      BY <1>2, <2>9, <2>10 DEF Activated
  <1>3. QED
    BY <1>1, <1>2

LEMMA DiskStep == ASSUME IctKnown, DiskInv, Succeed \/ FailTask PROVE DiskInv'
  <1>1. /\ UNCHANGED ictRun /\ failed \subseteq failed'
        /\ Done' = Done \cup {Task} /\ (Carry \/ Kept)
    BY StepCases
  <1>2. Table' = Table /\ Activated' = Activated /\ Intel' = Intel
    BY <1>1 DEF Table, Activated, Intel
  <1> DEFINE t == "set_partition_active"
  <1>3. CASE Kept
    BY <1>1, <1>2, <1>3 DEF DiskInv, Kept, Good
  <1>4. CASE Carry /\ t = Task /\ Intel
    BY <1>1, <1>2, <1>4, BootActive DEF DiskInv, Carry, Good
  <1>5. CASE Carry /\ ~(t = Task /\ Intel)
    BY <1>1, <1>2, <1>5 DEF DiskInv, Carry, Good
  <1>6. QED
    BY <1>1, <1>3, <1>4, <1>5

LEMMA IctStarts == IctInit => IctInv
  <1> SUFFICES ASSUME IctInit PROVE IctInv
    OBVIOUS
  <1>1. Wanted
    BY FlowHolds DEF IctInit
  <1>2. Done = {}
    BY DEF Done, IctInit
  <1>3. IctKnown
    <2>1. Len(Flow) \in Nat
      BY <1>1 DEF Wanted
    <2>2. IsFiniteSet(failed) /\ Cardinality(failed) = 0
      BY FS_EmptySet DEF IctInit
    <2>3. QED
      BY <2>1, <2>2, IctAssumption DEF IctInit, IctKnown
  <1>4. image = {"jack_user", "jack_sudo", "live_files", "live_config", "live_packages", "live_coreadm", "tmp_files",
                 "live_repository", "root_role", "bootpath", "output-device"}
    BY DEF IctInit, Shipped, Leftovers
  <1>5. ImageInv /\ LeftoverInv
    BY <1>2, <1>4 DEF ImageInv, LeftoverInv, Good
  <1>6. NetInv
    BY <1>2, <1>4 DEF NetInv, Good, NetFacts
  <1>7. SnapInv
    BY <1>2, <1>4 DEF SnapInv, Good, IctInit
  <1>8. MenuInv
    <2>1. Own("default") \in Entries
      BY DEF Own, Entries
    <2>2. menu = <<Own("default")>> /\ menu \in Seq(Entries) /\ Len(menu) = 1 /\ menu[1] = Own("default") /\ DOMAIN menu = 1..1
      BY <2>1 DEF IctInit
    <2>3. QED
      BY <1>2, <2>2 DEF MenuInv, Good, Own
  <1>9. DiskInv
    BY <1>2 DEF DiskInv, Good, IctInit, Table
  <1>10. QED
    BY <1>3, <1>5, <1>6, <1>7, <1>8, <1>9 DEF IctInv

LEMMA IctSteps == IctInv /\ [IctNext]_ictVars => IctInv'
  <1>1. ASSUME IctInv, Succeed \/ FailTask PROVE IctInv'
    BY <1>1, KnownStep, ImageStep, NetStep, LeftoverStep, SnapStep, MenuStep, DiskStep DEF IctInv
  <1>2. ASSUME IctInv, UNCHANGED ictVars PROVE IctInv'
    <2>1. UNCHANGED <<ictRun, ictPc, image, menu, fdisk, snapshot, failed>>
      BY <1>2 DEF ictVars
    <2>2. Flow' = Flow
      BY <2>1 DEF Flow, TextTasks, EngineTasks, LiveFinish, Finish0, AutoFinish, MenuTasks, UserTasks, Network, Intel, Boot
    <2>3. Done' = Done
      BY <2>1, <2>2 DEF Done
    <2>4. Net' = Net /\ Live' = Live /\ Intel' = Intel /\ Table' = Table /\ Activated' = Activated
      BY <2>1 DEF Net, Live, Network, Intel, Table, Activated
    <2>5. IctKnown' /\ ImageInv' /\ LeftoverInv'
      BY <1>2, <2>1, <2>2, <2>3 DEF IctInv, IctKnown, ImageInv, LeftoverInv, Good
    <2>6. NetInv' /\ SnapInv'
      BY <1>2, <2>1, <2>3, <2>4 DEF IctInv, NetInv, SnapInv, Good
    <2>7. MenuInv' /\ DiskInv'
      BY <1>2, <2>1, <2>3, <2>4 DEF IctInv, MenuInv, DiskInv, Good
    <2>8. QED
      BY <2>5, <2>6, <2>7 DEF IctInv
  <1>3. QED
    BY <1>1, <1>2 DEF IctNext, IctOver

LEMMA IctIsRight == IctInv => FinishedSystemIsRight
  <1> SUFFICES ASSUME IctInv PROVE FinishedSystemIsRight
    OBVIOUS
  <1>1. Wanted /\ IctKnown
    BY FlowHolds DEF IctInv, IctKnown
  <1>2. Ended => Done = Range(Flow)
    <2>1. DOMAIN Flow = 1..Len(Flow)
      BY <1>1 DEF Wanted
    <2>2. QED
      BY <2>1 DEF Ended, Done, Range
  <1>3. \A t : Ended /\ t \in Range(Flow) /\ t \notin failed => Good(t)
    BY <1>2 DEF Good
  <1>4. Finished => Ended /\ failed = {}
    BY DEF Finished, Ended
  <1>5. IctTypeOK
    <2>1. snapshot \subseteq image \cup Shipped
      BY DEF IctInv, SnapInv
    <2>2. menu \in Seq(Entries) /\ Len(menu) \in 1..2
      BY DEF IctInv, MenuInv
    <2>3. Len(menu) <= 2
      <3>1. Len(menu) \in 1..2
        BY <2>2
      <3>2. \A k \in 1..2 : k <= 2
        OBVIOUS
      <3>3. QED
        BY <3>1, <3>2
    <2>4. \A k \in DOMAIN menu : menu[k] \in Entries
      <3>1. menu \in [1..Len(menu) -> Entries]
        BY <2>2
      <3>2. QED
        BY <3>1
    <2>5. \A k \in DOMAIN menu : menu[k].who \in {"own", "other"} /\ menu[k].title \in {"default", "image", "other"}
      BY <2>4 DEF Entries
    <2>6. QED
      BY <1>1, <2>1, <2>3, <2>5 DEF IctTypeOK, IctKnown
  <1>6. SomebodyIsRoot
    <2>1. SUFFICES ASSUME Ended, Live, Without({"create_new_user", "setup_rbac", "set_root_password"})
                   PROVE  "root_password" \in image /\ ("root_role" \in image => {"user", "user_is_root"} \subseteq image)
      BY DEF SomebodyIsRoot
    <2>2. Good("create_new_user") /\ Good("setup_rbac") /\ Good("set_root_password")
      BY <1>1, <1>3, <2>1 DEF Wanted, Without
    <2>3. QED
      BY <2>2 DEF IctInv, ImageInv
  <1>7. NetworkIsAsAsked
    <2>1. SUFFICES ASSUME Ended, Without({"create_smf_repository", Network, "configure_nwam"})
                   PROVE  image \cap NetFacts = IF ~Live \/ ictRun.net = "auto" THEN {"network_nwam"}
                             ELSE IF ictRun.net = "manual" THEN {"network_default", "nwam_off", "addresses"}
                             ELSE {"network_default", "nwam_off"}
      BY DEF NetworkIsAsAsked
    <2>2. Net \notin failed
      BY <2>1 DEF Without, Net
    <2>3. Good(Net)
      BY <1>1, <1>3, <2>1, <2>2 DEF Wanted
    <2>4. image \cap NetFacts = NetOf(Net)
      BY <2>3 DEF IctInv, NetInv
    <2>5. ictRun.net \in {"none", "manual", "auto"}
      BY <1>1, IctAssumption DEF IctKnown
    <2>6. NetOf(Net) = IF ~Live \/ ictRun.net = "auto" THEN {"network_nwam"}
                    ELSE IF ictRun.net = "manual" THEN {"network_default", "nwam_off", "addresses"}
                    ELSE {"network_default", "nwam_off"}
      <3>1. CASE ~Live
        <4>1. Net = "configure_nwam"
          BY <3>1 DEF Net
        <4>2. NetOf(Net) = {"network_nwam"}
          BY <4>1 DEF NetOf
        <4>3. QED
          BY <3>1, <4>2
      <3>2. CASE Live /\ ictRun.net = "auto"
        BY <3>2 DEF NetOf, Net, Network
      <3>3. CASE Live /\ ictRun.net = "manual"
        BY <3>3 DEF NetOf, Net, Network
      <3>4. CASE Live /\ ictRun.net = "none"
        BY <3>4 DEF NetOf, Net, Network
      <3>5. QED
        BY <2>5, <3>1, <3>2, <3>3, <3>4
    <2>7. QED
      BY <2>4, <2>6
  <1>8. DumpKnowsHost
    BY DEF DumpKnowsHost, Without, IctInv, ImageInv
  <1>9. ArchiveIsCurrent
    BY <1>1, <1>3 DEF ArchiveIsCurrent, IctInv, ImageInv, Wanted
  <1>10. UserKeepsRights
    <2>1. SUFFICES ASSUME Finished, Live PROVE image \cap Leftovers = {} /\ (ictRun.login => "user_sudo" \in image)
      BY DEF UserKeepsRights
    <2>2. \A t \in Range(Flow) : Good(t)
      BY <1>3, <1>4, <2>1
    <2>3. /\ Good("setup_rbac") /\ Good("remove_livecd_environment") /\ Good("cleanup_unneeded_files_and_dirs")
          /\ Good("remove_specific_packages") /\ Good("remove_livecd_coreadm_conf") /\ Good("delete_misc_trees")
          /\ Good("setup_sudo")
      BY <1>1, <2>1, <2>2 DEF Wanted
    <2>4. LeftoverInv /\ ImageInv
      BY DEF IctInv
    <2>5. image \cap Leftovers = {}
      BY <2>3, <2>4 DEF LeftoverInv, Leftovers
    <2>6. QED
      BY <2>3, <2>4, <2>5 DEF ImageInv
  <1>11. OthersKeepTheirTitles
    <2>1. SUFFICES ASSUME Finished, Intel, Boot, NEW k \in DOMAIN menu
                   PROVE  /\ (Live /\ menu[k].who = "own") = (menu[k].title = "image")
                          /\ (menu[k].who = "own") = menu[k].bootfs
      BY DEF OthersKeepTheirTitles
    <2>2. Good("explicit_bootfs") /\ (Live => Good("fix_grub_entry"))
      BY <1>1, <1>3, <1>4, <2>1 DEF Wanted
    <2>3. MenuInv
      BY DEF IctInv
    <2>4. k = 1 \/ (k = 2 /\ Len(menu) = 2)
      BY <2>1, <2>3 DEF MenuInv
    <2>5. Live /\ menu[k].who = "own" <=> menu[k].title = "image"
      BY <2>2, <2>3, <2>4 DEF MenuInv
    <2>6. menu[k].who = "own" <=> menu[k].bootfs
      BY <2>1, <2>2, <2>3 DEF MenuInv
    <2>7. menu[k] \in Entries
      BY <2>1, <2>3 DEF MenuInv
    <2>8. Live \in BOOLEAN /\ menu[k].bootfs \in BOOLEAN
      BY <2>7 DEF Live, Entries
    <2>9. QED
      BY <2>5, <2>6, <2>8
  <1>12. OneIsActive
    <2>1. SUFFICES ASSUME Finished, Intel
                   PROVE  {k \in DOMAIN fdisk : fdisk[k].active} = IF Boot /\ ~ictRun.logical THEN Of(191) ELSE {1}
      BY DEF OneIsActive
    <2>2. Boot <=> Good("set_partition_active")
      BY <1>1, <1>2, <1>4, <2>1 DEF Wanted, Good
    <2>3. Boot => fdisk = Activated
      BY <2>1, <2>2 DEF IctInv, DiskInv
    <2>4. ~Boot => fdisk = Table
      BY <1>1, <1>2, <1>4, <2>1 DEF Wanted, IctInv, DiskInv
    <2>5. CASE ictRun.logical
      <3>1. fdisk = Logical
        BY <2>3, <2>4, <2>5 DEF Table, Activated
      <3>2. DOMAIN fdisk = 1..5 /\ \A k \in 1..5 : fdisk[k].active <=> k = 1
        BY <3>1 DEF Logical
      <3>3. {k \in DOMAIN fdisk : fdisk[k].active} = {1}
        BY <3>2
      <3>4. QED
        BY <2>5, <3>3
    <2>6. CASE ~ictRun.logical /\ ~Boot
      <3>1. fdisk = Partitions
        BY <2>4, <2>6 DEF Table
      <3>2. DOMAIN fdisk = 1..2 /\ fdisk[1].active = TRUE /\ fdisk[2].active = FALSE
        BY <3>1 DEF Partitions
      <3>3. {k \in DOMAIN fdisk : fdisk[k].active} = {1}
        BY <3>2
      <3>4. QED
        BY <2>6, <3>3
    <2>7. CASE ~ictRun.logical /\ Boot
      <3>1. DOMAIN fdisk = 1..2 /\ fdisk[1].active = FALSE /\ fdisk[2].active = TRUE
        BY <2>3, <2>7 DEF Activated
      <3>2. fdisk[1].id = 7 /\ fdisk[2].id = 191
        BY <2>3, <2>7 DEF Activated
      <3>3. {k \in DOMAIN fdisk : fdisk[k].active} = {2} /\ Of(191) = {2}
        BY <3>1, <3>2 DEF Of
      <3>4. QED
        BY <2>7, <3>3
    <2>8. QED
      BY <2>5, <2>6, <2>7
  <1>13. SnapshotHoldsAll
    BY <1>1, <1>3, <1>4 DEF SnapshotHoldsAll, IctInv, SnapInv, Wanted
  <1>14. QED
    BY <1>5, <1>6, <1>7, <1>8, <1>9, <1>10, <1>11, <1>12, <1>13 DEF FinishedSystemIsRight

(* Of any installations, and whatever tasks fail, what the completion      *)
(* tasks leave is right in all that the tasks that were good are for.      *)
THEOREM FinishedSystemIsAlwaysRight == IctSpec => []FinishedSystemIsRight
  BY IctStarts, IctSteps, IctIsRight, PTL DEF IctSpec

=============================================================================
