----------------------------- MODULE MCServices -----------------------------
(* The services the programs share, each on its own: errors, logging,      *)
(* install services, manifests.                                            *)
EXTENDS ErrSvc, LogSvc, AiScf, ManifestServ

(* A request with several values, an empty one among them, and the three  *)
(* that have no answer.                                                    *)
MCFound == [many |-> <<"v", "">>, path |-> BadPath, quote |-> Quotes, ascii |-> NotAscii]

(* No two clients and no two readers differ.                              *)
Symmetry == Permutations(Clients) \cup Permutations(Readers)

VARIABLE service
svVars == <<service, esVars, lsVars, scVars, msVars>>
SvInit == service \in {"errors", "log", "scf", "manifest"} /\ EsInit /\ LsInit /\ ScInit /\ MsInit
SvNext == \/ service = "errors" /\ EsNext /\ UNCHANGED <<service, lsVars, scVars, msVars>>
          \/ service = "log" /\ LsNext /\ UNCHANGED <<service, esVars, scVars, msVars>>
          \/ service = "scf" /\ ScNext /\ UNCHANGED <<service, esVars, lsVars, msVars>>
          \/ service = "manifest" /\ MsNext /\ UNCHANGED <<service, esVars, lsVars, scVars>>
SvSpec == SvInit /\ [][SvNext]_svVars
=============================================================================
