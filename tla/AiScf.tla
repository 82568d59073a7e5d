------------------------------- MODULE AiScf -------------------------------
(***************************************************************************)
(* The install services in the SMF repository: libaiscf and its Python     *)
(* type _AISCF. A service is a property group; clients change it through   *)
(* transactions, each client with one handle that holds one group and one  *)
(* transaction at a time. The repository daemon is external: a group is    *)
(* loaded as it is then, and a commit of a transaction on an older version *)
(* of the group is answered 0 and changes nothing.                         *)
(***************************************************************************)
EXTENDS Naturals, FiniteSets

CONSTANTS
  Clients,     \* processes, each with a scfutilhandle_t
  Services,    \* names of services: property groups AI<name>
  Props,       \* property names
  Values,      \* property values
  MaxCommits,  \* bound on the versions of a group
  ScFaults     \* subset of {"denied", "trans", "instance"}: what libscf may refuse

ASSUME ScAssumption == MaxCommits \in Nat /\ ScFaults \subseteq {"denied", "trans", "instance"}

VARIABLES
  scRepo,    \* groups of the repository: existence, version, properties
  scPg,      \* handle->pg of each client: "NULL", "blank" or a service
  scTrans,   \* handle->trans: "none", or the group and version it is based on
  scCall,    \* the call each client is in, and how far
  scRet      \* the answer each client was given in the last step, or "none"

scVars == <<scRepo, scPg, scTrans, scCall, scRet>>

Unset == "unset"
NoTrans == [svc |-> "none", ver |-> 0]
NoProps == [p \in Props |-> Unset]
Idle == [op |-> "idle", at |-> "end", svc |-> "none", prop |-> "none", val |-> Unset]
Call(op, at, svc, prop, val) == [op |-> op, at |-> at, svc |-> svc, prop |-> prop, val |-> val]

ScInit ==
  /\ scRepo = [s \in Services |-> [on |-> FALSE, ver |-> 0, props |-> NoProps]]
  /\ scPg = [c \in Clients |-> "blank"] /\ scTrans = [c \in Clients |-> NoTrans]
  /\ scCall = [c \in Clients |-> Idle] /\ scRet = [c \in Clients |-> "none"]

Exists(s) == scRepo[s].on
Refused(fault) == fault \in ScFaults

(* The end of a call: its answer, and the handle as it leaves it.          *)
Return(c, ret) == scCall' = [scCall EXCEPT ![c] = Idle] /\ scRet' = [d \in Clients |-> IF d = c THEN ret ELSE "none"]
Proceed(c, call) == scCall' = [scCall EXCEPT ![c] = call] /\ scRet' = [d \in Clients |-> "none"]
Handle(c, pg, trans) == scPg' = [scPg EXCEPT ![c] = pg] /\ scTrans' = [scTrans EXCEPT ![c] = trans]

(* ai_get_pg: a handle whose group was destroyed still tells whether one   *)
(* exists.                                                                 *)
Loaded(c, s) == IF scPg[c] = "NULL" \/ ~Exists(s) THEN scPg[c] ELSE s
ai_get_pg(s) == IF Exists(s) THEN "AI_SUCCESS" ELSE "AI_NO_SUCH_PG"

(* ai_start_transaction: a new group for a destroyed one, the group loaded,*)
(* the transaction begun on it.                                            *)
ai_start_transaction(c, s, call) ==
  \/ Refused("instance") /\ Return(c, "AI_NO_SUCH_INSTANCE") /\ UNCHANGED <<scPg, scTrans>>
  \/ ~Exists(s) /\ Return(c, "AI_NO_SUCH_PG")
     /\ Handle(c, IF scPg[c] = "NULL" THEN "blank" ELSE scPg[c], scTrans[c])
  \/ Exists(s) /\ Refused("trans") /\ Return(c, "AI_TRANS_ERR") /\ Handle(c, s, NoTrans)
  \/ Exists(s) /\ Proceed(c, call) /\ Handle(c, s, [svc |-> s, ver |-> scRepo[s].ver])

ai_abort_transaction(c) == scTrans' = [scTrans EXCEPT ![c] = NoTrans]

(* ai_end_transaction: only -1 is taken for a failure of the commit, and   *)
(* then the caller aborts.                                                 *)
Stale(c) == scRepo[scTrans[c].svc].ver # scTrans[c].ver
Write(s, p, v) ==
  LET group == scRepo[s]
  IN scRepo' = [scRepo EXCEPT ![s] = [on |-> group.on, ver |-> group.ver + 1,
                                      props |-> [group.props EXCEPT ![p] = v]]]
ai_end_transaction(c, p, v) ==
  LET s == scTrans[c].svc IN
  /\ ai_abort_transaction(c) /\ UNCHANGED scPg
  /\ \/ ~Exists(s) /\ Return(c, "AI_SYSTEM_ERR") /\ UNCHANGED scRepo
     \/ Exists(s) /\ Stale(c) /\ Return(c, "AI_SUCCESS") /\ UNCHANGED scRepo
     \/ Exists(s) /\ ~Stale(c) /\ Return(c, "AI_SUCCESS")
        /\ scRepo[s].ver < MaxCommits /\ Write(s, p, v)
     \/ Refused("denied") /\ Return(c, "AI_SYSTEM_ERR") /\ UNCHANGED scRepo

(* A failure between begin and end aborts.                                 *)
AbandonOnly(c, ret) == Return(c, ret) /\ UNCHANGED <<scRepo, scPg, scTrans>>   \* mutant: no abort
Abandon(c, ret) == ai_abort_transaction(c) /\ Return(c, ret) /\ UNCHANGED <<scRepo, scPg>>
-----------------------------------------------------------------------------
(* ai_set_property, and ai_change_property, which wants an old value.      *)
ai_set_property(c, s, p, v) ==
  scCall[c] = Idle /\ ai_start_transaction(c, s, Call("set", "commit", s, p, v)) /\ UNCHANGED scRepo
ai_change_property(c, s, p, v) ==
  scCall[c] = Idle /\ ai_start_transaction(c, s, Call("change", "commit", s, p, v)) /\ UNCHANGED scRepo
(* ai_delete_property looks for the property before the transaction.       *)
ai_delete_property(c, s, p) ==
  /\ scCall[c] = Idle
  /\ IF ~Exists(s) THEN Return(c, "AI_NO_SUCH_PG") /\ UNCHANGED <<scRepo, scPg, scTrans>>
     ELSE /\ IF scPg[c] = "NULL" \/ scRepo[s].props[p] = Unset THEN Return(c, "AI_NO_SUCH_PROP")
             ELSE Proceed(c, Call("delete", "start", s, p, Unset))
          /\ Handle(c, Loaded(c, s), scTrans[c]) /\ UNCHANGED scRepo
StartDelete(c) ==
  /\ scCall[c].op = "delete" /\ scCall[c].at = "start"
  /\ ai_start_transaction(c, scCall[c].svc, [scCall[c] EXCEPT !.at = "commit"]) /\ UNCHANGED scRepo

(* The change is added to the transaction, which is committed.             *)
Known(c) == scRepo[scCall[c].svc].props[scCall[c].prop] # Unset
Commit(c) ==
  /\ scCall[c].at = "commit"
  /\ \/ scCall[c].op = "change" /\ ~Known(c) /\ Abandon(c, "AI_INVAL_ARG")
     \/ scCall[c].op = "delete" /\ ~Known(c) /\ Abandon(c, "AI_NO_SUCH_PROP")
     \/ Refused("denied") /\ Abandon(c, "AI_NO_PERMISSION")
     \/ (scCall[c].op = "set" \/ Known(c)) /\ ai_end_transaction(c, scCall[c].prop, scCall[c].val)

(* new_service: the group must be missing; ai_create_pg then takes one     *)
(* that somebody else made in between for its own.                         *)
new_service(c, s) ==
  /\ scCall[c] = Idle
  /\ IF Exists(s) THEN Return(c, "AI_PG_EXISTS_ERR") ELSE Proceed(c, Call("new", "create", s, "none", Unset))
  /\ Handle(c, Loaded(c, s), scTrans[c]) /\ UNCHANGED scRepo
ai_create_pg(c) ==
  LET s == scCall[c].svc IN
  /\ scCall[c].at = "create" /\ UNCHANGED scTrans
  /\ \/ Exists(s) /\ Return(c, "AI_SUCCESS") /\ UNCHANGED scRepo
        /\ scPg' = [scPg EXCEPT ![c] = Loaded(c, s)]
     \/ ~Exists(s) /\ scRepo[s].ver < MaxCommits /\ Return(c, "AI_SUCCESS")
        /\ scRepo' = [scRepo EXCEPT ![s] = [on |-> TRUE, ver |-> @.ver + 1, props |-> NoProps]]
        /\ scPg' = [scPg EXCEPT ![c] = IF @ = "NULL" THEN @ ELSE s]
     \/ ~Exists(s) /\ Refused("denied") /\ Return(c, "AI_NO_PERMISSION") /\ UNCHANGED <<scRepo, scPg>>

(* del_service: after it the handle has no group to load others into.      *)
del_service(c, s) ==
  /\ scCall[c] = Idle
  /\ IF Exists(s) THEN Proceed(c, Call("del", "delete", s, "none", Unset)) ELSE Return(c, "AI_NO_SUCH_PG")
  /\ Handle(c, Loaded(c, s), scTrans[c]) /\ UNCHANGED scRepo
ai_delete_pg(c) ==
  LET s == scCall[c].svc IN
  /\ scCall[c].at = "delete" /\ UNCHANGED scTrans
  /\ \/ ~Exists(s) /\ Return(c, "AI_SUCCESS") /\ UNCHANGED <<scRepo, scPg>>
     \/ Exists(s) /\ scPg[c] # "NULL" /\ Return(c, "AI_SUCCESS") /\ scPg' = [scPg EXCEPT ![c] = "NULL"]
        /\ scRepo' = [scRepo EXCEPT ![s].on = FALSE]
     \/ Exists(s) /\ (scPg[c] = "NULL" \/ Refused("denied"))
        /\ Return(c, "AI_NO_SUCH_PG") /\ scPg' = [scPg EXCEPT ![c] = "NULL"] /\ UNCHANGED scRepo

(* ai_read_property and as_dict, ai_read_all_props_in_pg: one after the    *)
(* other nothing is kept; without a group there is nothing to read into.   *)
ai_read_all_props_in_pg(c, s) ==
  /\ scCall[c] = Idle
  /\ Return(c, IF scPg[c] = "NULL" THEN "AI_NO_SUCH_PG" ELSE ai_get_pg(s))
  /\ Handle(c, Loaded(c, s), scTrans[c]) /\ UNCHANGED scRepo

(* AIservice(instance, name). *)
AIservice_init(c, s) ==
  /\ scCall[c] = Idle /\ Return(c, ai_get_pg(s))
  /\ Handle(c, Loaded(c, s), scTrans[c]) /\ UNCHANGED scRepo

(* AISCF() begins with a new handle; the object's end gives it back.       *)
AISCF_init(c) ==
  /\ scCall[c] = Idle
  /\ \/ Return(c, "AI_SUCCESS")
     \/ Refused("instance") /\ Return(c, "AI_NO_SUCH_INSTANCE")
  /\ Handle(c, "blank", NoTrans) /\ UNCHANGED scRepo

(* del service[name]: the group's name is formatted from a number where a  *)
(* string is wanted. The process dies, or asks for a group nobody has.     *)
DeleteSubscript(c) ==
  /\ scCall[c] = Idle /\ UNCHANGED scRepo
  /\ \/ Return(c, "AI_NO_SUCH_PG") /\ UNCHANGED <<scPg, scTrans>>
     \/ Return(c, "died") /\ Handle(c, "blank", NoTrans)

(* A client may die in the middle of a call.                               *)
Die(c) == scCall[c] # Idle /\ Return(c, "died") /\ Handle(c, "blank", NoTrans) /\ UNCHANGED scRepo

ScNext == \E c \in Clients :
  \/ \E s \in Services :
       \/ \E p \in Props, v \in Values : ai_set_property(c, s, p, v) \/ ai_change_property(c, s, p, v)
       \/ \E p \in Props : ai_delete_property(c, s, p)
       \/ new_service(c, s) \/ del_service(c, s) \/ ai_read_all_props_in_pg(c, s) \/ AIservice_init(c, s)
  \/ StartDelete(c) \/ Commit(c) \/ ai_create_pg(c) \/ ai_delete_pg(c)
  \/ AISCF_init(c) \/ DeleteSubscript(c) \/ Die(c)
ScSpec == ScInit /\ [][ScNext]_scVars
-----------------------------------------------------------------------------
ScTypeOK ==
  /\ \A s \in Services : scRepo[s].on \in BOOLEAN /\ scRepo[s].ver \in 0..MaxCommits
                         /\ scRepo[s].props \in [Props -> Values \cup {Unset}]
  /\ scPg \in [Clients -> Services \cup {"NULL", "blank"}]
  /\ \A c \in Clients : scTrans[c].svc \in Services \cup {"none"}

(* Between its calls a client holds no transaction, whatever failed in the *)
(* last one: the next would lose the pointer (ai_start_transaction).       *)
NoTransactionIsLeft == \A c \in Clients : scCall[c] = Idle => scTrans[c] = NoTrans

(* What of a group is as the client's call asked: a new group is empty, one *)
(* that is deleted is gone, and a transaction changes the one property it  *)
(* is about, in the version of the group that it began with.               *)
IsAsked(c, s) ==
  LET call == scCall[c]  old == scRepo[s]  new == scRepo'[s] IN
  \/ call.op = "new" /\ ~old.on /\ new.on /\ new.props = NoProps
  \/ call.op = "del" /\ old.on /\ ~new.on
  \/ /\ call.op \in {"set", "change", "delete"} /\ old.on /\ new.on
     /\ scTrans[c] = [svc |-> s, ver |-> old.ver] /\ new.props = [old.props EXCEPT ![call.prop] = call.val]

(* A group changes only by a call that named it and is answered success in *)
(* the same step, however the handle was used for other services before,   *)
(* and it changes to what was asked: no other property of it, and none     *)
(* that another client set in the meantime (ai_get_pg, handle->pg).        *)
ChangesAreAsked ==
  [][\A s \in Services : scRepo'[s] # scRepo[s] =>
       \E c \in Clients : /\ scCall[c].svc = s /\ scCall'[c] = Idle /\ scRet'[c] = "AI_SUCCESS"
                          /\ IsAsked(c, s)]_scVars

(* A call that has returned leaves no transaction open, and what a call     *)
(* stores goes to the service and the property that were asked for, with   *)
(* the value that was asked for (ai_utils.c, ai_trans.c).                  *)
TransactionsAreWhole == [](ScTypeOK /\ NoTransactionIsLeft) /\ ChangesAreAsked

(* A property that was set successfully has the value that was set: what a *)
(* caller of ai_set_property is told.                                      *)
SuccessMeansStored ==
  [][\A c \in Clients : scCall[c].op = "set" /\ scCall[c].at = "commit" /\ scCall'[c] = Idle /\ scRet'[c] = "AI_SUCCESS"
       => scRepo'[scCall[c].svc].props[scCall[c].prop] = scCall[c].val]_scVars

=============================================================================
