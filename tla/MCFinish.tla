------------------------------ MODULE MCFinish ------------------------------
(* What comes after the target is there: the text installer with its       *)
(* transfer, the transfer module on its own with every request, and the    *)
(* completion tasks. subject says which of the three is being checked.     *)
EXTENDS TextInstall, Ict
VARIABLE subject
allVars == <<subject, txVars, ictVars>>

Cpio0(act, sized) == [mech |-> "cpio", act |-> act, valid |-> TRUE, sized |-> sized, timeout |-> 0]
Ips(act, t) == [mech |-> "ips", act |-> act, valid |-> TRUE, sized |-> FALSE, timeout |-> t]
MCRequests ==
  {Cpio0(a, z) : a \in {"entire", "list"}, z \in BOOLEAN} \cup {Ips("init", t) : t \in {0, 5, 15}}
  \cup {Ips(a, 0) : a \in DOMAIN failed_ips} \cup {[Cpio0("list", FALSE) EXCEPT !.valid = FALSE]}
MCProfiles == {[toPool |-> t] : t \in BOOLEAN}
I(f, s, o, n, l, g) == [front |-> f, sparc |-> s, overwrite |-> o, net |-> n, login |-> l, logical |-> g]
MCInstalls ==
  {I("gui", FALSE, TRUE, "auto", l, g) : l, g \in BOOLEAN}
  \cup {I("text", s, o, n, TRUE, FALSE) : s, o \in BOOLEAN, n \in {"none", "manual", "auto"}}
  \cup {I("text", FALSE, TRUE, "auto", FALSE, FALSE)}
  \cup {I("ai", s, TRUE, "auto", FALSE, g) : s, g \in BOOLEAN}

Init ==
  /\ subject \in {"text", "transfer", "tasks"}
  /\ TxInit /\ IctInit
  /\ (subject # "text" => txProfile = CHOOSE f \in Profiles : TRUE) /\ (subject # "text" => txPool \in {"none", "ready"})
  /\ (subject # "tasks" => ictRun = CHOOSE i \in Installs : TRUE)
TransferAlone == TmNext /\ UNCHANGED <<txProfile, uiVars, itVars, starts>>
Text(step) == subject = "text" /\ step /\ UNCHANGED <<subject, ictVars>>
Next ==
  \/ Text(TxNext)
  \/ subject = "transfer" /\ TransferAlone /\ UNCHANGED <<subject, ictVars>>
  \/ subject = "tasks" /\ IctNext /\ UNCHANGED <<subject, txVars>>
Spec ==
  Init /\ [][Next]_allVars
  /\ WF_allVars(Text(InstallThread)) /\ WF_allVars(Text(Progress)) /\ WF_allVars(Text(MainThread))
  /\ WF_allVars(Text(\E q \in BOOLEAN : Answered(q)))
-----------------------------------------------------------------------------
(* Who quits gets out, and the end of the installation thread is noticed    *)
(* once the clock is set, through every abort and failure (validate_loop);  *)
(* and nothing is reported after 100 percent.                              *)
EverybodyGetsOut == QuitGetsOut /\ EndIsNoticed /\ HundredIsLast
=============================================================================
