----------------------------- MODULE GuiInstall -----------------------------
(***************************************************************************)
(* The GUI installer on top of the installation engine.  The GTK main      *)
(* loop is one thread: it runs the button handlers, the two-second timer   *)
(* installation_next_step() and, on the way into the installation screen,  *)
(* the whole of om_perform_install().  The engine's threads call           *)
(* installation_update_progress() directly, so they write the GUI's        *)
(* installfailed and MileStoneComplete[] while the main loop reads them.   *)
(***************************************************************************)
EXTENDS OmInstall

VARIABLES
  screen,        \* InstallCurrScreen
  installfailed, \* InstallationProfile.installfailed
  complete,      \* milestones whose MileStoneComplete[] is TRUE
  timer,         \* is installation_next_step registered with the main loop?
  mainVisible,   \* is the main window shown?
  logVisible     \* is the installation log dialog shown?

gui     == <<screen, installfailed, complete, timer, mainVisible, logVisible>>
windows == <<mainVisible, logVisible>>
guiVars == <<omVars, gui>>

(* The screens Next and Back go through.                                   *)
ScreenOrder == <<"WELCOME", "DISK", "TIMEZONE", "LANGUAGE", "USER",
                 "CONFIRMATION">>
Screens == {"WELCOME", "DISK", "TIMEZONE", "LANGUAGE", "USER",
            "CONFIRMATION", "INSTALLATION", "FAILURE", "FINISH"}

(* The GUI asks for an initial, interactive installation by cpio and never *)
(* requests a swap or dump size or a breakpoint.                           *)
GuiChoices == {c \in Choices : ~c.automated /\ c.phases = 0 /\ c.swap = -1
                                 /\ c.dump = -1 /\ c.breakpoint = "none"}

FreshGui ==
  /\ screen' = "WELCOME" /\ installfailed' = FALSE /\ complete' = {}
  /\ timer' = FALSE /\ mainVisible' = TRUE /\ logVisible' = FALSE

GuiInit ==
  /\ Init /\ choices \in GuiChoices
  /\ screen = "WELCOME" /\ installfailed = FALSE /\ complete = {}
  /\ timer = FALSE /\ mainVisible = TRUE /\ logVisible = FALSE

(* The main loop dispatches events unless it is inside om_perform_install. *)
MainLoopFree == callPc \in {"idle", "done"}

(* on_nextbutton_clicked on the installation screen: the failure screen or *)
(* the one after it.  On the failure screen it does nothing but warn.      *)
NextScreen(next) ==
  screen' = IF screen = "INSTALLATION" THEN next ELSE screen

-----------------------------------------------------------------------------
(* The user *)

(* Next on an editing screen; a screen whose validation fails stays.       *)
OnNextButton ==
  /\ MainLoopFree
  /\ \E i \in 1..5 : screen = ScreenOrder[i] /\ screen' = ScreenOrder[i + 1]
  /\ UNCHANGED <<omVars, installfailed, complete, timer, windows>>

OnBackButton ==
  /\ MainLoopFree
  /\ \E i \in 2..6 : screen = ScreenOrder[i] /\ screen' = ScreenOrder[i - 1]
  /\ UNCHANGED <<omVars, installfailed, complete, timer, windows>>

(* Install, the license accepted: installation_window_set_contents starts  *)
(* the timer, then installation_window_start_install builds the request    *)
(* and calls om_perform_install.  If the request cannot be built it goes   *)
(* to the failure screen at once, by a nested on_nextbutton_clicked.       *)
OnInstallButton ==
  /\ screen = "CONFIRMATION" /\ callPc = "idle"
  /\ timer' = TRUE
  /\ \/ /\ Call
        /\ screen' = "INSTALLATION" /\ installfailed' = FALSE
     \/ /\ screen' = "FAILURE" /\ installfailed' = TRUE
        /\ UNCHANGED omVars
  /\ UNCHANGED <<complete, windows>>

(* Quit: not while installing.  With the log open the last two screens     *)
(* only hide the main window.                                              *)
OnQuitButton ==
  /\ MainLoopFree /\ mainVisible
  /\ \/ /\ screen # "INSTALLATION"
        /\ ~(screen \in {"FAILURE", "FINISH"} /\ logVisible)
        /\ Restart /\ choices' \in GuiChoices /\ FreshGui
     \/ /\ screen \in {"FAILURE", "FINISH"} /\ logVisible
        /\ mainVisible' = FALSE
        /\ UNCHANGED <<omVars, screen, installfailed, complete, timer,
                       logVisible>>

OnLogButton ==
  /\ MainLoopFree /\ mainVisible /\ screen \in {"FAILURE", "FINISH"}
  /\ logVisible' = TRUE
  /\ UNCHANGED <<omVars, screen, installfailed, complete, timer, mainVisible>>

(* The log's own Close button hides it, and ends the process if the main   *)
(* window is hidden already.                                               *)
OnLogClose ==
  /\ MainLoopFree /\ logVisible
  /\ \/ /\ mainVisible /\ logVisible' = FALSE
        /\ UNCHANGED <<omVars, screen, installfailed, complete, timer,
                       mainVisible>>
     \/ ~mainVisible /\ Restart /\ choices' \in GuiChoices /\ FreshGui

(* Closing the log from the window manager: the delete-event handler only  *)
(* hides it.                                                               *)
OnLogDelete ==
  /\ MainLoopFree /\ logVisible
  /\ logVisible' = FALSE
  /\ UNCHANGED <<omVars, screen, installfailed, complete, timer, mainVisible>>

-----------------------------------------------------------------------------
(* The main loop *)

(* om_perform_install has returned into installation_window_start_install: *)
(* only OM_FAILURE counts as a failure.                                    *)
PerformInstallReturned ==
  /\ ClientResumes
  /\ IF callRet = "OM_FAILURE"
       THEN installfailed' = TRUE /\ NextScreen("FAILURE")
       ELSE UNCHANGED <<installfailed, screen>>
  /\ UNCHANGED <<complete, timer, windows>>

(* installation_next_step: a failure wins over a completed installation;   *)
(* neither leaves the timer running.                                       *)
(* Mutant: the milestone before the last one counts.                       *)
InstallDoneEarly == "SOFTWARE_UPDATE" \in complete

InstallDone == "POSTINSTAL_TASKS" \in complete

InstallationNextStep ==
  /\ MainLoopFree /\ timer
  /\ \/ installfailed /\ NextScreen("FAILURE") /\ UNCHANGED installfailed
     \/ /\ ~installfailed /\ InstallDone
        /\ installfailed' = FALSE /\ NextScreen("FINISH")
  /\ timer' = FALSE
  /\ UNCHANGED <<omVars, complete, windows>>

(* MileStoneComplete[] after a callback; the code of a failure, whose      *)
(* milestone is -1, is never 100.                                          *)
(* Mutant: milestone -1 is recorded like any other.                        *)
CompleteAfterAny(c) ==
  IF c.percent = 100 \/ c.milestone = "INVALID"
    THEN complete \cup {c.milestone} ELSE complete \ {c.milestone}

CompleteAfter(c) ==
  IF c.milestone \in Milestones
    THEN IF c.percent = 100 THEN complete \cup {c.milestone}
                            ELSE complete \ {c.milestone}
    ELSE complete

(* installation_update_progress, in the engine's thread                    *)
InstallationUpdateProgress ==
  /\ complete' = CompleteAfter(cb')
  /\ installfailed' = (installfailed \/ cb'.milestone = "INVALID")
  /\ UNCHANGED <<screen, timer, windows>>

EngineStep == Engine /\ InstallationUpdateProgress

(* The machine or the process dies and the installer is started again.     *)
Crash == Restart /\ choices' \in GuiChoices /\ FreshGui

(* Nobody uses the finished installer any more; or om_perform_install      *)
(* returned OM_NO_SPACE, which the GUI takes for a started installation.   *)
Over ==
  /\ MainLoopFree
  /\ \/ screen \in {"FAILURE", "FINISH"} /\ ~timer
     \/ screen = "INSTALLATION" /\ callRet = "OM_NO_SPACE"
  /\ tiPc \in {"idle", "exited"} /\ xPc \in {"idle", "exited"}
  /\ UNCHANGED guiVars

GuiNext ==
  \/ OnNextButton \/ OnBackButton \/ OnInstallButton \/ OnQuitButton
  \/ OnLogButton \/ OnLogClose \/ OnLogDelete
  \/ PerformInstallReturned \/ InstallationNextStep
  \/ EngineStep
  \/ Crash
  \/ Over

(* Every thread is scheduled and every command it runs returns; the timer  *)
(* fires when the main loop is free.  Nothing is assumed of the user.      *)
GuiFairness ==
  /\ WF_guiVars(CallStep /\ InstallationUpdateProgress)
  /\ WF_guiVars(TiStep /\ InstallationUpdateProgress)
  /\ WF_guiVars(TransferStep /\ InstallationUpdateProgress)
  /\ WF_guiVars(PerformInstallReturned)
  /\ WF_guiVars(InstallationNextStep)

GuiSpec     == GuiInit /\ [][GuiNext]_guiVars
GuiFairSpec == GuiSpec /\ GuiFairness

-----------------------------------------------------------------------------
(* Properties *)

GuiTypeOK ==
  /\ TypeOK
  /\ screen \in Screens /\ complete \subseteq Milestones
  /\ {installfailed, timer, mainVisible, logVisible} \subseteq BOOLEAN

(* The finish screen is shown only for an installation that is complete:   *)
(* pool ready, software copied, every checked completion task done.  Three *)
(* threads, two flags and a timer stand between the two.                   *)
FinishMeansInstalled ==
  screen = "FINISH" =>
    /\ pool = "ready" /\ {"be", "software"} \subseteq image
    /\ \A s \in CheckedIcts : IctApplies(choices, s) => s \in image

(* An installation the user was told has failed never reports success      *)
(* afterwards: the failure screen excludes the completed milestone.        *)
FailureIsFinal ==
  screen = "FAILURE" => "POSTINSTAL_TASKS" \notin complete

(* Nothing writes to the disk any more when the user is shown a verdict    *)
(* and may quit, with one exception: om_perform_install failed to start    *)
(* do_transfer and left do_ti running.                                     *)
NoWritesAfterVerdict ==
  screen \in {"FAILURE", "FINISH"} =>
    /\ xPc \in {"idle", "join", "exited"}
    /\ tiPc \in {"idle", "exited"} \/ callRet = "OM_FAILURE"

(* The whole program implements the contract: read off the pool and the    *)
(* screen.                                                                 *)
Target ==
  IF owner = "nobody" THEN "free"
  ELSE IF owner = "user" THEN "foreign"
  ELSE IF pool = "ready" THEN "installed" ELSE "partial"
Verdict ==
  IF screen = "FAILURE" THEN "failed"
  ELSE IF screen = "FINISH" THEN "finished" ELSE "none"

Contract == INSTANCE InstallContract WITH target <- Target, verdict <- Verdict
ImplementsContract == Contract!Spec

(* Once do_ti has been started the installation screen is left for a       *)
(* verdict, unless the process dies.                                       *)
VerdictReached ==
  (tiPc # "idle") ~> (screen \in {"FAILURE", "FINISH", "WELCOME"})

=============================================================================
