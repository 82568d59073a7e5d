---------------------------- MODULE MCGuiInstall ----------------------------
(* Small instances of GuiInstall for TLC.                                  *)
EXTENDS GuiInstall

GuiRequest(locale, sizeOk, required) ==
  [automated |-> FALSE, locale |-> locale, phases |-> 0, swap |-> -1,
   dump |-> -1, sizeOk |-> sizeOk, required |-> required,
   swapSlice |-> FALSE, fits |-> TRUE, breakpoint |-> "none"]

(* Two machines: ample disk with a locale, and little disk with little     *)
(* memory without one.                                                     *)
MCGuiChoices == {GuiRequest(TRUE, TRUE, FALSE), GuiRequest(FALSE, FALSE, TRUE)}
=============================================================================
