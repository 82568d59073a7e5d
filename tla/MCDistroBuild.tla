---------------------------- MODULE MCDistroBuild ---------------------------
(* Small instances of DistroBuild for TLC.                                 *)
EXTENDS DistroBuild

MCNames == {"a", "b", "c"}

MCManifest(steps, edition, stop) ==
  [steps |-> steps, edition |-> edition, stopOnErr |-> stop,
   checkpoint |-> TRUE, resumeFrom |-> -1]

(* The same steps in two editions, the second resuming at its second step, *)
(* a manifest without the second step and one without the third, one with  *)
(* two steps swapped that goes on after errors, and one without            *)
(* checkpoints.                                                            *)
MCEdited ==
  {MCManifest(<<"a", "b", "c">>, 1, TRUE),
   [MCManifest(<<"a", "b", "c">>, 2, TRUE) EXCEPT !.resumeFrom = 1],
   MCManifest(<<"a", "c">>, 3, TRUE), MCManifest(<<"a", "b">>, 6, TRUE), MCManifest(<<"b", "a">>, 4, FALSE),
   [MCManifest(<<"a", "c">>, 5, FALSE) EXCEPT !.checkpoint = FALSE]}

=============================================================================
