------------------------------- MODULE LogSvc -------------------------------
(***************************************************************************)
(* The logging service: liblogsvc. Where a message goes is decided when it *)
(* is posted; the log file is opened by the first message that needs it    *)
(* and is never closed, whatever is configured later.                      *)
(***************************************************************************)
EXTENDS Integers, Sequences, FiniteSets, SequencesExt

CONSTANTS
  EnvFile,     \* LS_FILE of the environment: a file name or "unset"
  EnvDest,     \* LS_DEST: 0..3, or -1 for unset or not a number
  EnvLevel,    \* LS_DBG_LVL: a number, -1 for garbage, -2 for unset
  MaxPosts     \* bound on the messages posted

Default == "/tmp/install_log"

ASSUME LsAssumption ==
  EnvDest \in -1..4 /\ MaxPosts \in Nat /\ "none" \notin {EnvFile}

VARIABLES
  log_filename, \* ls_log_filename
  log_file,     \* ls_log_file: name of the file that is open, or "none"
  log_dest,     \* ls_log_dest: bit 1 console, bit 2 file
  dbglvl,       \* ls_dbglvl
  written,      \* messages in each file, numbered in order of posting
  console,      \* messages on the console
  posted,       \* number of messages posted so far
  copied,       \* what ls_transfer copied to the target, or <<>>
  lsRet,        \* the last call's answer
  lsDone,       \* whether ls_init was called
  lsEarly,      \* whether a file was opened before it was
  lsKept        \* messages for the file that were posted when it could be opened

lsVars == <<log_filename, log_file, log_dest, dbglvl, written, console, posted, copied, lsRet, lsDone, lsEarly, lsKept>>
lsHistory == <<lsDone, lsEarly, lsKept>>

Levels    == 0..4                     \* ls_dbglvl_valid
Files     == {Default} \cup ({EnvFile} \ {"unset"})
ToConsole == log_dest % 2 = 1
ToFile    == log_dest \div 2 = 1
DestValid(d) == d \in 0..3

LsInit ==
  /\ log_filename = Default /\ log_file = "none" /\ log_dest = 2 /\ dbglvl = 2
  /\ written = [f \in Files |-> <<>>] /\ console = <<>> /\ posted = 0
  /\ copied = <<>> /\ lsRet = "LS_E_SUCCESS"
  /\ lsDone = FALSE /\ lsEarly = FALSE /\ lsKept = <<>>

SetDbgLevel(level) ==
  /\ dbglvl' = IF level \in Levels THEN level ELSE dbglvl
  /\ lsRet' = IF level \in Levels THEN "LS_E_SUCCESS" ELSE "LS_E_INVAL"

(* ls_init: the nvlist first, then the environment. The file name and the  *)
(* destination are then taken from the environment or reset to the         *)
(* defaults; only the debug level keeps what the nvlist said.              *)
LsInitialize(lvl) ==
  /\ log_filename' = IF EnvFile = "unset" THEN Default ELSE EnvFile
  /\ log_dest' = IF DestValid(EnvDest) THEN EnvDest ELSE 2
  /\ LET set == IF lvl \in Levels THEN lvl ELSE dbglvl
     IN IF EnvLevel = -2
        THEN dbglvl' = set /\ lsRet' = "LS_E_SUCCESS"
        ELSE /\ dbglvl' = IF EnvLevel \in Levels THEN EnvLevel ELSE set
             /\ lsRet' = IF EnvLevel \in Levels THEN "LS_E_SUCCESS" ELSE "LS_E_INVAL"
  /\ lsDone' = TRUE
  /\ UNCHANGED <<log_file, written, console, posted, copied, lsEarly, lsKept>>

(* The default method of posting: console, file, or both. A file that      *)
(* cannot be opened loses the message.                                     *)
(* Mutant: every message opens the file anew, for writing. *)
PostReopened(opens) ==
  /\ posted < MaxPosts /\ posted' = posted + 1
  /\ log_file' = IF ToFile /\ opens THEN log_filename ELSE log_file
  /\ written' = IF ToFile /\ opens THEN [written EXCEPT ![log_filename] = <<posted + 1>>] ELSE written
  /\ lsKept' = IF ToFile /\ opens THEN Append(lsKept, posted + 1) ELSE lsKept
  /\ UNCHANGED <<log_filename, log_dest, dbglvl, console, copied, lsRet, lsDone, lsEarly>>
Post(opens) ==
  LET file == IF log_file = "none" /\ ToFile /\ opens THEN log_filename ELSE log_file
  IN /\ posted < MaxPosts
     /\ posted' = posted + 1
     /\ console' = IF ToConsole THEN Append(console, posted + 1) ELSE console
     /\ log_file' = file
     /\ written' = IF ToFile /\ file # "none"
                   THEN [written EXCEPT ![file] = Append(@, posted + 1)] ELSE written
     /\ lsEarly' = (lsEarly \/ (~lsDone /\ file # "none"))
     /\ lsKept' = IF ToFile /\ (opens \/ log_file # "none") THEN Append(lsKept, posted + 1) ELSE lsKept
     /\ UNCHANGED <<log_filename, log_dest, dbglvl, copied, lsRet, lsDone>>

WriteLogMessage(opens) == Post(opens)
WriteDbgMessage(level, opens) ==
  IF level <= dbglvl THEN Post(opens) ELSE UNCHANGED lsVars

(* ls_transfer: the target directory is made if need be, then the file     *)
(* ls_log_filename is copied.                                              *)
Transfer(made, copies) ==
  /\ IF made /\ copies
     THEN copied' = written[log_filename] /\ lsRet' = "LS_E_SUCCESS"
     ELSE copied' = copied /\ lsRet' = "LS_E_LOG_TRANSFER_FAILED"
  /\ UNCHANGED <<log_filename, log_file, log_dest, dbglvl, written, console, posted, lsHistory>>

LsNext ==
  \/ \E lvl \in {-1} \cup Levels : LsInitialize(lvl)
  \/ \E lvl \in -1..5 :
       SetDbgLevel(lvl)
       /\ UNCHANGED <<log_filename, log_file, log_dest, written, console, posted, copied, lsHistory>>
  \/ \E opens \in BOOLEAN :
       WriteLogMessage(opens) \/ \E lvl \in Levels : WriteDbgMessage(lvl, opens)
  \/ \E made, copies \in BOOLEAN : Transfer(made, copies)

LsSpec == LsInit /\ [][LsNext]_lsVars
-----------------------------------------------------------------------------
LsTypeOK ==
  /\ log_filename \in Files /\ log_file \in Files \cup {"none"} /\ log_dest \in 0..3 /\ dbglvl \in Levels
  /\ \A f \in Files : written[f] \in Seq(1..posted)

(* The file that ls_transfer copies holds every message that could be      *)
(* written, in the order of posting, as long as nothing was written before *)
(* ls_init: the stream opened first is kept, the name is not.              *)
LogIsWhole == ~lsEarly => written[log_filename] = lsKept

(* What was copied to the target is the log up to a point, never a gap     *)
(* (ls_transfer).                                                          *)
TransferIsAPrefix == ~lsEarly => IsPrefix(copied, lsKept)

(* The log has every message posted to it once, in their order, and what is *)
(* carried to the new system is its beginning (ls_write, ls_transfer).     *)
NothingIsLost == LsTypeOK /\ LogIsWhole /\ TransferIsAPrefix
=============================================================================
