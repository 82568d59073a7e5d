--------------------------- MODULE InstallContract ---------------------------
(***************************************************************************)
(* What the installer promises of the root pool and of what it tells the   *)
(* user, with no threads, callbacks, timers or screens.                    *)
(***************************************************************************)

VARIABLES
  target,  \* the pool rpool: foreign, free (no such pool), partial, installed
  verdict  \* what this installer has told the user: none, failed, finished

Init == target \in {"foreign", "free"} /\ verdict = "none"

(* An installation puts something of its own on a free disk, and may take  *)
(* it away again as long as it is not finished.                            *)
Start   == target = "free" /\ target' = "partial" /\ UNCHANGED verdict
Release == target = "partial" /\ target' = "free" /\ UNCHANGED verdict

(* Finishing needs an installation under way and a user who still waits.   *)
Install == /\ target = "partial" /\ verdict = "none"
           /\ target' = "installed" /\ UNCHANGED verdict

(* "Finished" is said of an installed disk only; once said it stays said.  *)
Finish == /\ verdict = "none" /\ target = "installed"
          /\ verdict' = "finished" /\ UNCHANGED target
Fail   == verdict = "none" /\ verdict' = "failed" /\ UNCHANGED target

(* Another installer process: it has told the user nothing yet.            *)
Again == verdict' = "none" /\ UNCHANGED target

Next == Start \/ Release \/ Install \/ Finish \/ Fail \/ Again

Spec == Init /\ [][Next]_<<target, verdict>>

=============================================================================
