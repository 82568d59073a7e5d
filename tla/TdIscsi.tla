------------------------------ MODULE TdIscsi ------------------------------
(***************************************************************************)
(* td_target_search for an iSCSI disk (td_iscsi.c): the target is put into *)
(* the initiator's static configuration, static discovery is switched on,  *)
(* and the device of the LUN is waited for.                                *)
(***************************************************************************)
EXTENDS Integers, FiniteSets

CONSTANTS
  Asked,        \* what is asked for: [name, ip, port, lun, lunGiven]
  IsFaults,     \* subset of {"ima", "add", "remove", "enable"}: what may fail
  MaxRetry      \* INSTISCSI_MAX_RETRY_TIME

ASSUME IsAssumption == /\ MaxRetry \in Nat /\ IsFaults \subseteq {"ima", "add", "remove", "enable"}
                       /\ \A a \in Asked : a.name # "another"

VARIABLES
  ask,
  config,     \* the initiator's static targets: [name, ip, port]
  enabled,    \* static discovery
  devices,    \* the LUNs of the target the system has made a device for
  isPc, isRet, isRetry,
  devnam,     \* the LUN whose device was found, or -1
  staleErrno  \* errno is EINVAL or ERANGE from something earlier

isVars == <<ask, config, enabled, devices, isPc, isRet, isRetry, devnam, staleErrno>>
DefaultPort == 3260
Port == IF ask.port = 0 THEN DefaultPort ELSE ask.port
Wanted == [name |-> ask.name, ip |-> ask.ip, port |-> Port]
(* What the initiator knows: this target at one address or none, and maybe *)
(* another target at the address asked for.                                *)
KnownBefore ==
  LET this  == [name : {ask.name}, ip : {ask.ip, "elsewhere"}, port : {DefaultPort, 1}]
      other == [name |-> "another", ip |-> ask.ip, port |-> DefaultPort]
  IN {{}, {other}} \cup {{c} : c \in this} \cup {{c, other} : c \in this}
IsInit ==
  /\ ask \in Asked /\ enabled \in BOOLEAN /\ devices = {} /\ staleErrno \in BOOLEAN
  /\ config \in KnownBefore
  /\ isPc = "add" /\ isRet = "none" /\ isRetry = 0 /\ devnam = -1
Answer0(r) == isRet' = r /\ isPc' = "done"
IsFail(f)  == f \in IsFaults

(* The same target at another port is removed before the new is added.      *)
Same == {c \in config : c.name = ask.name /\ c.ip = ask.ip}
instiscsi_add_static_config ==
  /\ isPc = "add"
  /\ \/ IsFail("ima") /\ Answer0("NOT_FOUND") /\ UNCHANGED config
     \/ Wanted \in Same /\ isPc' = "enable" /\ UNCHANGED <<config, isRet>>
     \/ Same # {} /\ Wanted \notin Same /\ IsFail("remove") /\ Answer0("LUN_BUSY") /\ UNCHANGED config
     \/ Wanted \notin Same /\ config' = (config \ Same) \cup {Wanted} /\ isPc' = "enable" /\ UNCHANGED isRet
     \/ Wanted \notin Same /\ IsFail("add") /\ config' = config \ Same /\ Answer0("NOT_FOUND")
  /\ UNCHANGED <<ask, enabled, devices, isRetry, devnam, staleErrno>>
instiscsi_modify_static_discovery ==
  /\ isPc = "enable"
  /\ \/ enabled' = TRUE /\ isPc' = "lun" /\ UNCHANGED isRet
     \/ IsFail("enable") /\ Answer0("NOT_FOUND") /\ UNCHANGED enabled
  /\ UNCHANGED <<ask, config, devices, isRetry, devnam, staleErrno>>
(* strtol gives 0 for LUN 0 and leaves errno alone, which is looked at.     *)
parse_lun_num ==
  /\ isPc = "lun"
  /\ IF ask.lun = 0 /\ staleErrno THEN Answer0("NOT_FOUND") ELSE isPc' = "wait" /\ UNCHANGED isRet
  /\ UNCHANGED <<ask, config, enabled, devices, isRetry, devnam, staleErrno>>
AnyLun ==
  /\ isPc = "wait" /\ devices # {} /\ devnam' \in devices /\ Answer0("SUCCESS")
  /\ UNCHANGED <<ask, config, enabled, devices, isRetry, staleErrno>>
(* A second is slept between two looks at the same LUN.                     *)
instiscsi_get_device_name_via_tgtname ==
  /\ isPc = "wait"
  /\ \/ IsFail("ima") /\ Answer0("UNKNOWN_IMA_ERROR") /\ UNCHANGED <<isRetry, devnam>>
     \/ ask.lun \in devices /\ devnam' = ask.lun /\ Answer0("SUCCESS") /\ UNCHANGED isRetry
     \/ /\ ask.lun \notin devices
        /\ IF isRetry <= MaxRetry THEN isRetry' = isRetry + 1 /\ UNCHANGED <<isRet, isPc, devnam>>
           ELSE Answer0("NOT_FOUND") /\ UNCHANGED <<isRetry, devnam>>
  /\ UNCHANGED <<ask, config, enabled, devices, staleErrno>>
(* The system makes the devices of a target once discovery is on.           *)
DeviceAppears ==
  /\ isPc = "wait" /\ enabled /\ Wanted \in config /\ \E l \in 0 .. 1 : devices' = devices \cup {l} /\ devices' # devices
  /\ UNCHANGED <<ask, config, enabled, isPc, isRet, isRetry, devnam, staleErrno>>
iscsi_static_config ==
  \/ instiscsi_add_static_config \/ instiscsi_modify_static_discovery \/ parse_lun_num
  \/ instiscsi_get_device_name_via_tgtname
IsOver == isPc = "done" /\ UNCHANGED isVars
IsNext == iscsi_static_config \/ DeviceAppears \/ IsOver
IsSpec == IsInit /\ [][IsNext]_isVars

-----------------------------------------------------------------------------
(* An answer of success comes with the device of the LUN asked for, from    *)
(* the target asked for, which the initiator will find again.              *)
FoundIsConfigured ==
  isRet = "SUCCESS" => devnam = ask.lun /\ enabled /\ Wanted \in config
(* The same target at the same address is never configured twice.           *)
ConfiguredOnce == \A c, d \in Same : c = d
(* The initiator loses no target and no address but the one asked for, and *)
(* of that only another port, when the one asked for is not there yet: for *)
(* the new one, or for nothing when that cannot be added, which is         *)
(* answered NOT_FOUND. Nothing but what was asked for is added             *)
(* (instiscsi_add_static_config).                                          *)
OnlyTheAskedChanges ==
  [][/\ \A c \in config \ config' : c \in Same /\ Wanted \notin config /\ (Wanted \in config' \/ isRet' = "NOT_FOUND")
     /\ config' \ config \subseteq {Wanted}]_config
(* A disk that is found is of a target that stays configured, once, and     *)
(* finding it takes no other target from the initiator.                    *)
ConfigIsRight == [](FoundIsConfigured /\ ConfiguredOnce) /\ OnlyTheAskedChanges
=============================================================================
