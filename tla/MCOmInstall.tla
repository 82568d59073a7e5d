----------------------------- MODULE MCOmInstall -----------------------------
(* Small instances of OmInstall for TLC.                                   *)
EXTENDS OmInstall

Request(automated, phases, swap, dump, sizeOk, required, slice, fits, bp) ==
  [automated |-> automated, locale |-> TRUE, phases |-> phases,
   swap |-> swap, dump |-> dump, sizeOk |-> sizeOk, required |-> required,
   swapSlice |-> slice, fits |-> fits, breakpoint |-> bp]

(* The Automated Installer: IPS phases, and every combination of requested *)
(* swap and dump sizes, space and memory that do_ti tells apart.           *)
AIChoices ==
  {Request(TRUE, 2, s, d, ok, m # "enough", m = "slice", f, "none") :
     s \in {-1, 0, 1}, d \in {-1, 0, 1}, ok \in BOOLEAN,
     m \in {"enough", "zvol", "slice"}, f \in BOOLEAN}

(* A few requests over several processes: crashes, breakpoints, retries.   *)
RestartChoices ==
  {Request(a, 0, -1, -1, TRUE, FALSE, FALSE, TRUE, bp) :
     a \in BOOLEAN, bp \in {"none", "before_TI", "after_TI"}}

(* The process started first has any request; those after it are few. *)
AllChoices == AIChoices \cup RestartChoices
MCNext == Next /\ (runs' = runs \/ choices' \in RestartChoices)
MCSpec == Init /\ [][MCNext]_omVars
=============================================================================
