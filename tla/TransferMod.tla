---------------------------- MODULE TransferMod ----------------------------
(***************************************************************************)
(* The transfer module: transfer_mod.py behind libtransfer. A caller's     *)
(* thread copies file lists with cpio, or runs one pkg command; a thread   *)
(* of its own reports progress; anybody may ask for an abort.              *)
(***************************************************************************)
EXTENDS Integers, FiniteSets

CONSTANTS
  Requests,   \* calls of tm_perform_transfer
  Lists,      \* number of file lists of an entire transfer
  TmFaults,   \* subset of {"lists", "media", "df", "skip", "pkg"}: what may fail
  MaxStrays   \* bound on the progress threads that failed transfers leave behind

ASSUME TmAssumption ==
  /\ Lists \in Nat \ {0} /\ MaxStrays \in Nat /\ TmFaults \subseteq {"lists", "media", "df", "skip", "pkg"}
  /\ \A r \in Requests : r.mech \in {"cpio", "ips", "bogus"} /\ r.timeout \in Nat /\ r.valid \in BOOLEAN
                         /\ r.sized \in BOOLEAN

VARIABLES
  tmPc,      \* where tm_perform_transfer is
  tmReq,     \* its arguments
  tmRet,     \* its answer
  tmLock,    \* PARAMS.tm_lock: "None", "free" or "locked"
  do_abort,  \* PARAMS.do_abort, which nobody resets
  copied,    \* number of lists cpio has been through
  monPc,     \* the progress thread of this transfer
  monDone,   \* its flag done
  prevpct,   \* the last percentage it reported
  strays,    \* how many progress threads of earlier transfers are still there
  tries,     \* how often image-create was tried
  ipsImage,  \* what pkg made: the image, its publishers, packages and properties
  tmCb,      \* the report made in the last step, or -1
  tmLast     \* the last report of this transfer, or -1

tmVars == <<tmPc, tmReq, tmRet, tmLock, do_abort, copied, monPc, monDone, prevpct, strays, tries, ipsImage, tmCb, tmLast>>
tmProgress == <<monPc, monDone, prevpct, strays>>
tmShared == <<tmLock, do_abort>>

(* Percentages are told apart no further than this. *)
Below   == 0        \* anything below 95
EndPct  == 1        \* 95: where the progress thread stops
AllPct  == 2        \* 100
Silent  == tmCb' = -1 /\ UNCHANGED tmLast
Fault(f) == f \in TmFaults
NoImage == [made |-> FALSE, has |-> {}]

TmInit ==
  /\ tmPc = "idle" /\ tmReq \in Requests /\ tmRet = "none" /\ tmLock = "None" /\ do_abort = FALSE
  /\ copied = 0 /\ monPc = "none" /\ monDone = FALSE /\ prevpct = -1 /\ strays = 0
  /\ tries = 0 /\ ipsImage = NoImage /\ tmCb = -1 /\ tmLast = -1

(* The first request during a transfer only releases the lock.             *)
tm_abort_transfer ==
  \/ tmLock = "locked" /\ tmLock' = "free" /\ UNCHANGED do_abort
  \/ tmLock = "free" /\ do_abort' = TRUE /\ UNCHANGED tmLock

(* logprogress: the callback runs in the thread that reports, and may ask  *)
(* for an abort.                                                           *)
Report(p, abort) ==
  /\ tmCb' = p /\ tmLast' = p
  /\ IF abort THEN tm_abort_transfer ELSE UNCHANGED tmShared

(* The end of tm_perform_transfer: the lock is given back, by finally.     *)
Answer(ret) ==
  tmPc' = "returned" /\ tmRet' = ret /\ tmLock' = IF tmLock = "locked" THEN "free" ELSE tmLock

Raise(ret) == Answer(ret) /\ Silent /\ UNCHANGED <<tmReq, do_abort, copied, tmProgress, tries, ipsImage>>
Interrupted == do_abort /\ Raise("EINTR")

First(req) == IF req.mech = "ips" THEN "ips" ELSE IF req.act = "list" THEN "monitor" ELSE "lists"
NLists == IF tmReq.act = "list" THEN 1 ELSE Lists

(* tm_perform_transfer: a new lock, which is taken, and the arguments.     *)
(* Nobody waits for the progress thread of a transfer that raised.         *)
TmStart(req) ==
  /\ tmPc \in {"idle", "returned"} /\ tmReq' = req
  /\ IF monPc = "none" THEN UNCHANGED strays ELSE strays < MaxStrays /\ strays' = strays + 1
  /\ monPc' = "none"
  /\ copied' = 0 /\ tries' = 0 /\ tmCb' = -1 /\ tmLast' = -1
  /\ IF req.valid /\ req.mech # "bogus"
     THEN tmLock' = "locked" /\ tmRet' = "none" /\ tmPc' = First(req)
     ELSE tmLock' = "free" /\ tmRet' = "TM_E_INVALID" /\ tmPc' = "returned"
  /\ UNCHANGED <<do_abort, monDone, prevpct, ipsImage>>

(* build_cpio_entire_file_list: percentages are reported while the         *)
(* directories are walked.                                                 *)
BuildLists(abort) ==
  /\ tmPc = "lists" /\ ~do_abort
  /\ Report(Below, abort) /\ tmPc' \in {"lists", "monitor"}
  /\ UNCHANGED <<tmReq, tmRet, copied, tmProgress, tries, ipsImage>>
ListsFail == tmPc = "lists" /\ Fault("lists") /\ ~do_abort /\ Raise("TM_E_CPIO_ENTIRE_FAILED")

(* startmonitor, when the size of the source is known.                     *)
StartMonitor ==
  /\ tmPc = "monitor" /\ tmPc' = "next" /\ Silent
  /\ IF tmReq.sized THEN monPc' = "measure" /\ monDone' = FALSE /\ prevpct' = -1 /\ UNCHANGED strays ELSE UNCHANGED tmProgress
  /\ UNCHANGED <<tmReq, tmRet, tmShared, copied, tries, ipsImage>>

(* cpio_transfer_filelist, one list after the other. What cpio exits with  *)
(* is not looked at.                                                       *)
Goto(pc) == tmPc' = pc /\ Silent /\ UNCHANGED <<tmReq, tmRet, tmShared, tmProgress, tries, ipsImage>>
NextList ==
  /\ tmPc = "next"
  /\ \/ copied < NLists /\ ~do_abort /\ Goto("cpio") /\ UNCHANGED copied
     \/ copied < NLists /\ ~do_abort /\ Fault("media") /\ Raise("TM_E_CPIO_ENTIRE_FAILED")
     \/ copied = NLists /\ tmPc' = "join" /\ monDone' = TRUE /\ Silent
        /\ UNCHANGED <<tmReq, tmRet, tmShared, copied, monPc, prevpct, strays, tries, ipsImage>>
Cpio == tmPc = "cpio" /\ ~do_abort /\ copied' = copied + 1 /\ Goto("next")
CheckAbort == tmPc \in {"lists", "cpio"} \/ (tmPc = "next" /\ copied < NLists)
Abort == CheckAbort /\ Interrupted

JoinMonitorNot == tmPc = "join" /\ Goto("finish") /\ UNCHANGED copied   \* mutant: no wait()
JoinMonitor == tmPc = "join" /\ (tmReq.sized => monPc = "none") /\ Goto("finish") /\ UNCHANGED copied

(* Lists and files to be skipped are removed, and 100 percent reported.    *)
Finish(abort) ==
  /\ tmPc = "finish"
  /\ \/ tmRet' = "TM_E_SUCCESS" /\ tmPc' = "closing" /\ Report(AllPct, abort)
        /\ UNCHANGED <<tmReq, copied, tmProgress, tries, ipsImage>>
     \/ Fault("skip") /\ Raise("TM_E_PYTHON_ERROR")
Close == tmPc = "closing" /\ Raise(tmRet)

MonLeave == monPc' = "none" /\ UNCHANGED prevpct
(* The progress thread: df, a report when the percentage changed, up or    *)
(* down, two seconds of sleep, and a look at the flags. One that is still  *)
(* below 95 may have changed or not.                                       *)
MonMeasure(p, abort) ==
  /\ monPc = "measure"
  /\ UNCHANGED <<tmPc, tmReq, tmRet, copied, monDone, strays, tries, ipsImage>>
  /\ \/ monPc' = (IF p = EndPct THEN "none" ELSE "sleep") /\ prevpct' = p
        /\ (Report(p, abort) \/ (p = prevpct /\ Silent /\ UNCHANGED tmShared))
     \/ Fault("df") /\ MonLeave /\ Silent /\ UNCHANGED tmShared
MonWake ==
  /\ monPc = "sleep" /\ Silent
  /\ IF do_abort \/ monDone THEN MonLeave ELSE monPc' = "measure" /\ UNCHANGED prevpct
  /\ UNCHANGED <<tmPc, tmReq, tmRet, tmShared, copied, monDone, strays, tries, ipsImage>>
(* The progress thread of a transfer that raised: done is never set for it, *)
(* and it reports into whatever transfer is under way.                      *)
StrayMonitor(p, abort) ==
  /\ strays > 0 /\ UNCHANGED <<tmPc, tmReq, tmRet, copied, monPc, monDone, prevpct, tries, ipsImage>>
  /\ \/ Report(p, abort) /\ strays' = IF p = EndPct THEN strays - 1 ELSE strays
     \/ (do_abort \/ Fault("df")) /\ strays' = strays - 1 /\ Silent /\ UNCHANGED tmShared

(* perform_ips_init: again after ten seconds while the repository cannot   *)
(* be reached and time is left. The abort flag is not looked at.           *)
Left == tmReq.timeout - 10 * tries
IpsKept == UNCHANGED <<tmReq, do_abort, copied, tmProgress>>
IpsInit ==
  /\ tmPc = "ips" /\ tmReq.act = "init" /\ Silent /\ IpsKept
  /\ \/ Answer("TM_E_SUCCESS") /\ ipsImage' = [made |-> TRUE, has |-> {}] /\ tries' = tries + 1
     \/ Fault("pkg") /\ Left > 0 /\ tries' = tries + 1 /\ UNCHANGED <<tmPc, tmRet, tmLock, ipsImage>>
     \/ Fault("pkg") /\ Answer("TM_E_IPS_INIT_FAILED") /\ tries' = tries + 1 /\ UNCHANGED ipsImage

(* The other actions run one pkg command in an image that must be there;   *)
(* failed_ips says how each of them fails.                                     *)
Adds   == {"set_auth", "retrieve", "set_prop"}
Drops  == [unset_auth |-> "set_auth", uninstall |-> "retrieve"]
failed_ips == [set_auth |-> "TM_E_IPS_SET_AUTH_FAILED", unset_auth |-> "TM_E_IPS_UNSET_AUTH_FAILED",
           retrieve |-> "TM_E_IPS_PKG_MISSING", uninstall |-> "TM_E_IPS_PKG_MISSING",
           verify |-> "TM_E_IPS_PKG_MISSING", refresh |-> "TM_E_IPS_REFRESH_FAILED",
           set_prop |-> "TM_E_IPS_SET_PROP_FAILED", purge |-> "EINTR"]
Changed(act) == IF act \in Adds THEN ipsImage.has \cup {act}
                ELSE IF act \in DOMAIN Drops THEN ipsImage.has \ {Drops[act]} ELSE ipsImage.has
IpsCommand ==
  /\ tmPc = "ips" /\ tmReq.act \in DOMAIN failed_ips /\ Silent /\ UNCHANGED tries /\ IpsKept
  /\ \/ ~ipsImage.made /\ Answer("TM_E_INVALID") /\ UNCHANGED ipsImage
     \/ ipsImage.made /\ Answer("TM_E_SUCCESS") /\ ipsImage' = [ipsImage EXCEPT !.has = Changed(tmReq.act)]
     \/ ipsImage.made /\ Fault("pkg") /\ Answer(failed_ips[tmReq.act]) /\ UNCHANGED ipsImage

AbortRequest ==
  tm_abort_transfer /\ Silent
  /\ UNCHANGED <<tmPc, tmReq, tmRet, copied, tmProgress, tries, ipsImage>>

(* The steps of the thread that transfers, and of the one that reports.    *)
TmThread(abort) ==
  \/ BuildLists(abort) \/ ListsFail \/ StartMonitor \/ NextList \/ Cpio \/ Abort \/ JoinMonitor
  \/ Finish(abort) \/ Close \/ IpsInit \/ IpsCommand
MonThread(abort) == MonWake \/ \E p \in {Below, EndPct} : MonMeasure(p, abort)

(* The module used by anybody: calls, aborts, and the two threads.         *)
TmNext ==
  \/ AbortRequest
  \/ \E req \in Requests : TmStart(req)
  \/ \E abort \in BOOLEAN : TmThread(abort) \/ MonThread(abort)
  \/ \E abort \in BOOLEAN, p \in {Below, EndPct} : StrayMonitor(p, abort)
TmSpec == TmInit /\ [][TmNext]_tmVars
-----------------------------------------------------------------------------
(* Types of what the module keeps. *)
TmTypeOK ==
  /\ tmPc \in {"idle", "lists", "monitor", "next", "cpio", "join", "finish", "closing", "ips", "returned"}
  /\ tmLock \in {"None", "free", "locked"} /\ do_abort \in BOOLEAN
  /\ copied \in 0..Lists /\ monPc \in {"none", "measure", "sleep"} /\ prevpct \in -1..EndPct
  /\ strays \in 0..MaxStrays
  /\ tries \in Nat /\ tmCb \in -1..AllPct

(* A transfer by cpio that is successful has been through all lists, and   *)
(* no progress thread of it is left to report (cpio_transfer_filelist).    *)
SuccessIsOver ==
  tmPc = "returned" /\ tmRet = "TM_E_SUCCESS" /\ tmReq.mech = "cpio" => copied = NLists /\ monPc = "none"

(* image-create is tried for as long as was asked, rounded up to ten       *)
(* seconds, and not longer (perform_ips_init).                             *)
RetriesFitTheTimeout == tries <= (tmReq.timeout + 9) \div 10 + 1

(* A transfer that reported 100 percent reports nothing after it: its       *)
(* progress thread was waited for. One that an earlier transfer left       *)
(* behind may still speak (cpio_transfer_filelist, __progressthread).      *)
HundredIsLast ==
  [][tmLast = AllPct /\ strays = 0 => tmCb' = -1]_tmVars
=============================================================================
