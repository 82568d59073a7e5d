------------------------------- MODULE ErrSvc -------------------------------
(***************************************************************************)
(* The error service: liberrsvc, a C interface to the Python module errsvc.*)
(* Errors are Python objects; the C side keeps them alive by reference     *)
(* counts of its own, and hands out lists of them to its callers.          *)
(***************************************************************************)
EXTENDS Integers, Sequences, FiniteSets

CONSTANTS
  MaxErrors,   \* how many errors are created
  ModIds,      \* module ids of the callers; "" is the empty one
  MaxLists,    \* how many lists callers hold at a time
  EsFaults     \* subset of {"import"}: the Python module can stop loading

ASSUME EsAssumption == /\ MaxErrors \in Nat \ {0} /\ MaxLists \in Nat
                       /\ EsFaults \subseteq {"import"}

VARIABLES
  refs,    \* reference count of each error created, in order of creation
  attrs,   \* its mod_id, error_type and error_data
  errors,  \* _ERRORS: what the list of the Python module holds
  held,    \* the err_info_list_t each pointer of a caller stands for; {} is NULL
  es,      \* what the last call answered: ok, and es_errno
  freed    \* history: how often es_free_errors dropped the creator's reference of each error

esVars == <<refs, attrs, errors, held, es, freed>>

ErrTypes  == {"ES_ERR", "ES_CLEANUP_ERR"}   \* two of the three
IntData   == {"ES_DATA_ERR_NUM"}
StrData   == {"ES_DATA_OP_STR"}   \* one of the seven kinds of string
Ok        == [ok |-> TRUE, errno |-> "none"]
Einval    == [ok |-> FALSE, errno |-> "EINVAL"]
Failed    == [ok |-> FALSE, errno |-> "none"]

EsInit == refs = <<>> /\ attrs = <<>> /\ errors = {} /\ held = [i \in 1..MaxLists |-> {}]
          /\ es = Ok /\ freed = <<>>

(* Import of the Python module: it works, unless it was taken away. *)
LoadModule(loaded) == loaded \/ "import" \in EsFaults

Alive(e) == refs[e] > 0

(* One reference more for each item, as PySequence_GetItem returns it.      *)
ConvertList(list) == [e \in DOMAIN refs |-> refs[e] + (IF e \in list THEN 1 ELSE 0)]

(* es_create_err_info: one reference of the caller's, one of _ERRORS. *)
CreateErrInfo(mod, type) ==
  \/ /\ mod # "" /\ type \in ErrTypes
     /\ Len(refs) < MaxErrors
     /\ refs' = Append(refs, 2)
     /\ attrs' = Append(attrs, [mod |-> mod, type |-> type, data |-> {}])
     /\ errors' = errors \cup {Len(refs) + 1}
     /\ freed' = Append(freed, 0) /\ es' = Ok /\ UNCHANGED held
  \/ /\ mod = "" \/ type \notin ErrTypes
     /\ es' = Einval /\ UNCHANGED <<refs, attrs, errors, held, freed>>

Hand(list, reason) == \E i \in DOMAIN held :
  /\ held[i] = {} /\ held' = [held EXCEPT ![i] = list]
  /\ refs' = ConvertList(list)
  /\ es' = reason /\ UNCHANGED <<attrs, errors, freed>>

NoList(reason) == es' = reason /\ UNCHANGED <<refs, attrs, errors, held, freed>>

GetAllErrors == Hand(errors, Ok) \/ (LoadModule(FALSE) /\ NoList(Failed))

GetErrorsByModid(mod) ==
  \/ Hand({e \in errors : attrs[e].mod = mod}, Ok)
  \/ LoadModule(FALSE) /\ NoList(Einval)

(* list_is_empty is not raised for an empty list: Python returns [], not NULL. *)
GetErrorsByType(type) ==
  \/ Hand({e \in errors : attrs[e].type = type}, Ok)
  \/ LoadModule(FALSE) /\ NoList(Failed)

DropOne(list, r) == [e \in DOMAIN r |-> r[e] - (IF e \in list THEN 1 ELSE 0)]

FreeErrInfoList(i) ==
  /\ refs' = DropOne(held[i], refs)
  /\ held' = [held EXCEPT ![i] = {}]
  /\ UNCHANGED <<attrs, errors, es, freed>>

(* es_free_errors: drops the creator's reference of everything listed,     *)
(* then the temporary list, then has Python forget _ERRORS. Either of the  *)
(* two calls of Python may fail on its own; what was dropped stays dropped.*)
Released(list) == DropOne(list, DropOne(list, ConvertList(list)))
FreeErrorsLeaking(listed, cleared) ==   \* mutant: the temporary list is not freed
  /\ listed /\ cleared /\ refs' = DropOne(errors, DropOne(errors, ConvertList(errors)))
  /\ freed' = [e \in DOMAIN freed |-> freed[e] + (IF e \in errors THEN 1 ELSE 0)]
  /\ errors' = {} /\ UNCHANGED <<attrs, held, es>>
FreeErrors(listed, cleared) ==
  LET seen == IF listed THEN errors ELSE {} IN
  /\ LoadModule(listed) /\ LoadModule(cleared)
  /\ refs' = IF cleared THEN DropOne(errors, Released(seen)) ELSE Released(seen)
  /\ freed' = [e \in DOMAIN freed |-> freed[e] + (IF e \in seen THEN 1 ELSE 0)]
  /\ errors' = IF cleared THEN {} ELSE errors
  /\ UNCHANGED <<attrs, held, es>>

SetData(e, kind) ==
  attrs' = [attrs EXCEPT ![e].data = @ \cup {kind}] /\ es' = Ok /\ UNCHANGED <<refs, errors, held, freed>>

SetErrDataInt(e, kind) == IF kind \in IntData THEN SetData(e, kind) ELSE NoList(Einval)
SetErrDataStr(e, kind) == IF kind \in StrData THEN SetData(e, kind) ELSE NoList(Einval)

GetErrDataInt(e, kind) ==
  NoList(IF kind \in attrs[e].data /\ kind \in IntData THEN Ok ELSE Failed)
GetErrDataStr(e, kind) ==
  NoList(IF kind \in attrs[e].data /\ kind \in StrData THEN Ok ELSE Failed)

GetErrType(e)  == NoList(IF attrs[e].type \in ErrTypes THEN Ok ELSE Failed)
GetErrModId(e) == NoList(IF attrs[e].mod # "" THEN Ok ELSE Einval)

(* An error a caller may look at: one of its lists names it. *)
Reachable == UNION {held[i] : i \in DOMAIN held}

(* Once too many references were dropped, nothing is known of the process. *)
Sane == \A e \in errors : Alive(e)
EsNext == Sane /\ (
  \/ \E mod \in ModIds \cup {""}, type \in ErrTypes \cup {"bogus"} : CreateErrInfo(mod, type)
  \/ GetAllErrors
  \/ \E mod \in ModIds : GetErrorsByModid(mod)
  \/ \E type \in ErrTypes : GetErrorsByType(type)
  \/ \E i \in DOMAIN held : FreeErrInfoList(i)
  \/ \E listed, cleared \in BOOLEAN : FreeErrors(listed, cleared)
  \/ \E e \in Reachable, kind \in IntData \cup StrData :
       \/ SetErrDataInt(e, kind) \/ SetErrDataStr(e, kind)
       \/ GetErrDataInt(e, kind) \/ GetErrDataStr(e, kind)
  \/ \E e \in Reachable : GetErrType(e) \/ GetErrModId(e))

EsSpec == EsInit /\ [][EsNext]_esVars
-----------------------------------------------------------------------------
Holders(e) == {i \in DOMAIN held : e \in held[i]}

(* Types: errors and lists name errors that were created. *)
EsTypeOK ==
  /\ refs \in Seq(Int) /\ Len(refs) <= MaxErrors
  /\ DOMAIN attrs = DOMAIN refs
  /\ errors \subseteq DOMAIN refs
  /\ held \in [1..MaxLists -> SUBSET DOMAIN refs]
  /\ es \in {Ok, Einval, Failed} /\ freed \in Seq(Nat) /\ Len(freed) = Len(refs)

(* The service counts as Python does, after failures too: an error has a   *)
(* reference for every list of a caller that names it, one of _ERRORS, and *)
(* its creator's, less one for every es_free_errors that listed it. Fewer  *)
(* would free an object in use, more would never free it (es_free_errors,  *)
(* es_free_err_info_list, _convert_pylist_to_err_info_list).               *)
RefsAreCounted ==
  \A e \in DOMAIN refs :
    refs[e] = Cardinality(Holders(e)) + (IF e \in errors THEN 1 ELSE 0) + (1 - freed[e])

(* An error that a caller's list or _ERRORS names stays readable, whichever*)
(* call of Python fails, as long as no second es_free_errors lists what a  *)
(* first one could not have forgotten: that one drops too much.            *)
HeldErrorsAreAlive == \A e \in Reachable \cup errors : freed[e] <= 1 => Alive(e)

(* Every error is counted exactly as often as it is held, whatever fails,  *)
(* and is there for whoever holds it while it was released once at most.   *)
ErrorsAreCounted == EsTypeOK /\ RefsAreCounted /\ HeldErrorsAreAlive
=============================================================================
