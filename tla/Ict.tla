-------------------------------- MODULE Ict --------------------------------
(***************************************************************************)
(* The installation completion tasks: ict.c, ict.py, the order in which    *)
(* the engine (perform_slim_install.c), the text installer (run_ICTs) and  *)
(* install-finish run them, and what they leave in the installed image.    *)
(* The image is the set of the facts the tasks establish or undo; the boot *)
(* menu and the partition table, which they rewrite line by line, are      *)
(* sequences. Every task is run, whatever became of those before it.       *)
(***************************************************************************)
EXTENDS Integers, Sequences, FiniteSets

CONSTANTS
  Installs,    \* front ("gui", "text", "ai"), sparc, overwrite, net ("none", "manual", "auto"), login, logical
  MaxFailures  \* bound on the tasks that fail

ASSUME IctAssumption ==
  /\ MaxFailures \in Nat
  /\ \A n \in Installs : n.front \in {"gui", "text", "ai"} /\ n.net \in {"none", "manual", "auto"}

VARIABLES
  ictRun,   \* the installation: a member of Installs
  ictPc,    \* number of tasks that were run
  image,    \* facts that hold of the installed image
  menu,     \* entries of menu.lst
  fdisk,    \* the partition table: type and active flag
  snapshot, \* the facts the snapshot holds, or {}
  failed    \* tasks that answered other than 0

ictVars == <<ictRun, ictPc, image, menu, fdisk, snapshot, failed>>

(* What the transferred image brings along.                                *)
Leftovers == {"jack_user", "jack_sudo", "live_files", "live_config", "live_packages", "live_coreadm", "tmp_files"}
Shipped   == Leftovers \cup {"live_repository", "root_role", "bootpath", "output-device"}
Own(title) == [who |-> "own", title |-> title, bootfs |-> FALSE, face |-> FALSE]
Others     == [who |-> "other", title |-> "other", bootfs |-> FALSE, face |-> FALSE]
NetFacts   == {"network_nwam", "network_default", "nwam_off", "addresses"}
(* What the boot archive is made of: a change of it makes the archive old. *)
Archived   == {"console", "bootpath", "devices", "nodename"}
Partitions == <<[id |-> 7, active |-> TRUE], [id |-> 191, active |-> FALSE]>>
Logical    == [i \in 1..5 |-> [id |-> IF i = 5 THEN 191 ELSE 7, active |-> i = 1]]

IctInit ==
  /\ ictRun \in Installs /\ ictPc = 0 /\ image = Shipped /\ menu = <<Own("default")>>
  /\ fdisk = (IF ictRun.logical THEN Logical ELSE Partitions) /\ snapshot = {} /\ failed = {}

(* ------------------------------------------------------------- ict.c ---- *)
(* Without a login the two tasks of the user have nothing to do.           *)
ict_configure_user_directory(i) == IF ictRun.login THEN i \cup {"home_of_user"} ELSE i
ict_set_user_profile(i) == IF ictRun.login THEN i \cup {"profile_of_user"} ELSE i
ict_set_lang_locale(i) == i \cup {"locale"}
ict_set_host_node_name(i) == i \cup {"hosts", "nodename"}
ict_installboot(i) == i \cup {"boot_loader"}
ict_mark_root_pool_ready(i) == i \cup {"pool_ready"}
ict_transfer_logs(i) == i \cup {"logs"}
activate_be(i) == i \cup {"active_environment"}

(* ------------------------------------------------------------ ict.py ---- *)
create_smf_repository(i) == (i \ ({"live_repository"} \cup NetFacts)) \cup {"repository"}
create_mnttab(i) == i \cup {"mnttab"}
cleanup_unneeded_files_and_dirs(i) == i \ {"live_files"}
generate_sc_profile(i) == i \cup {"system_profile"}
delete_misc_trees(i) == i \ {"tmp_files"}
remove_livecd_coreadm_conf(i) == i \ {"live_coreadm"}
remove_bootpath(i) == i \ {"bootpath"}
update_dumpadm_nodename(i) == IF "nodename" \in i THEN i \cup {"dump_name"} ELSE i \cup {"old_dump_name"}
setup_dev_namespace(i) == i \cup {"devices"}
(* What was set aside when the medium was made is put back; sudoers too.   *)
remove_livecd_environment(i) == i \ {"live_config", "jack_sudo", "user_sudo"}
remove_specific_packages(i) == i \ {"live_packages"}
set_flush_content_cache_false(i) == i \cup {"flush_off"}
set_root_password(i) == i \cup {"root_password"}
create_new_user(i) == IF ictRun.login THEN i \cup {"user"} ELSE i
copy_generated_files(i) == IF ictRun.login THEN i \cup {"generated_files"} ELSE i
setup_rbac(i) ==
  IF ictRun.login THEN (i \ {"jack_user"}) \cup {"root_role", "user_is_root"} ELSE i \ {"jack_user", "root_role"}
setup_sudo(i) == (i \ {"jack_sudo"}) \cup (IF ictRun.login THEN {"user_sudo"} ELSE {})
copy_capability_file(i) == i \cup {"capability"}
copy_splash_xpm(i) == i \cup {"splash"}
add_splash_image_to_grub_menu(i) == i \cup {"menu_timeout"}
(* The order of the publishers is cut from a list of two, of which the     *)
(* first and the last are dropped: no publisher is left to be reset.       *)
publishers == SubSeq(<<"publisher-search-order", "the_publishers">>, 2, 1)
reset_image_uuid(i) == i \cup {"send_uuid"} \cup (IF publishers = <<>> THEN {} ELSE {"uuid"})
(* The property is named 'console', the one that is compared               *)
(* 'output-device'; the line is added, an old one of its name stays.       *)
set_boot_device_property(i) == IF "output-device" \in i THEN i ELSE i \cup {"console"}
enable_nwam(i) == i \cup {"network_nwam"}
configure_nwam(i) == i \cup {"network_nwam"}
do_not_configure_network(i) == i \cup {"network_default", "nwam_off"}
configure_network(i) == i \cup {"network_default", "nwam_off", "addresses"}
apply_sysconfig_profile(i) == i \cup {"system_profile"}
smf_correct_sys_profile(i) == i \cup {"profile_links"}
create_sparc_boot_menu(i) == i \cup {"sparc_menu"}
copy_sparc_bootlst(i) == i \cup {"bootlst"}
set_partition_active_sparc(i) == i \cup {"boot-device"}
update_boot_archive(i) == i \cup {"archive"}

(* Tasks that rewrite the menu.                                            *)
Each(m, f(_)) == [k \in DOMAIN m |-> f(m[k])]
(* The title is in the image information of a medium that is run live.     *)
fix_grub_entry(m) == IF ictRun.front = "ai" THEN m ELSE Each(m, LAMBDA e : [e EXCEPT !.title = "image"])
add_operating_system_grub_entry(m) == Append(m, Others)
explicit_bootfs(m) == Each(m, LAMBDA e : [e EXCEPT !.bootfs = (e.who = "own")])
enable_happy_face_boot(m) == Each(m, LAMBDA e : [e EXCEPT !.face = (e.who = "own")])

(* set_boot_active: Solaris2 (191) before Solaris (130); a logical         *)
(* partition leaves the table as it is.                                    *)
Of(id) == {k \in DOMAIN fdisk : fdisk[k].id = id}
set_boot_active(t) ==
  LET wanted == IF Of(191) # {} THEN 191 ELSE 130
  IN  IF Of(wanted) = {} \/ (\E k \in Of(191) : k > 4) THEN t
      ELSE [k \in DOMAIN t |-> [t[k] EXCEPT !.active = (t[k].id = wanted)]]

(* ------------------------------------------------ the order of the tasks -- *)
When(c, s) == IF c THEN s ELSE <<>>
Intel == ~ictRun.sparc
Boot  == ictRun.overwrite

(* install-finish, for an automated installation.                          *)
AutoFinish ==
  <<"create_smf_repository">>
  \o When(~Intel, <<"set_partition_active", "update_dumpadm_nodename", "setup_dev_namespace",
                    "create_sparc_boot_menu", "copy_sparc_bootlst", "configure_nwam", "set_flush_content_cache_false">>)
  \o When(Intel, <<"set_boot_device_property">>)
  \o When(Intel /\ Boot, <<"add_splash_image_to_grub_menu", "set_partition_active", "fix_grub_entry",
                           "add_operating_system_grub_entry", "explicit_bootfs", "enable_happy_face_boot",
                           "copy_splash_xpm">>)
  \o When(Intel, <<"remove_bootpath", "update_dumpadm_nodename", "setup_dev_namespace", "configure_nwam",
                   "set_flush_content_cache_false">>)
  \o When(Intel /\ Boot, <<"copy_capability_file">>)
  \o <<"apply_sysconfig_profile", "smf_correct_sys_profile", "update_boot_archive">>

(* install-finish, for the graphical and the text installer.               *)
Network == IF ictRun.net = "none" THEN "do_not_configure_network"
           ELSE IF ictRun.net = "manual" THEN "configure_network" ELSE "enable_nwam"
MenuTasks == When(Intel /\ Boot, <<"set_boot_device_property", "add_splash_image_to_grub_menu", "fix_grub_entry",
                                   "add_operating_system_grub_entry">>)
UserTasks == <<"remove_livecd_environment", "remove_specific_packages", "set_flush_content_cache_false",
               "set_root_password", "copy_generated_files", "create_new_user", "setup_rbac", "setup_sudo">>
Finish0(smf) ==
  <<smf, "create_mnttab", "cleanup_unneeded_files_and_dirs", "generate_sc_profile", "delete_misc_trees">>
  \o MenuTasks \o <<"remove_livecd_coreadm_conf">> \o When(Boot, <<"set_partition_active">>)
  \o When(Intel, <<"remove_bootpath">>) \o <<"update_dumpadm_nodename">>
  \o When(~Intel, <<"create_sparc_boot_menu", "copy_sparc_bootlst">>)
  \o When(Intel /\ Boot, <<"explicit_bootfs">> \o When(ictRun.front # "text", <<"enable_happy_face_boot">>)
                         \o <<"copy_splash_xpm">>)
  \o <<"smf_correct_sys_profile", Network>> \o UserTasks
  \o When(Boot /\ Intel, <<"copy_capability_file">>) \o <<"reset_image_uuid">>
LiveFinish == Finish0("create_smf_repository") \o <<"update_boot_archive">>

(* The engine (from do_ti's end on), and run_ICTs of the text installer.   *)
EngineTasksLate(finish) == <<"ict_set_lang_locale">> \o finish \o <<"ict_set_host_node_name", "ict_snapshot", "ict_mark_root_pool_ready">>  \* mutant
EngineTasks(finish) ==
  <<"ict_set_lang_locale">> \o When(ictRun.front # "ai", <<"ict_configure_user_directory", "ict_set_user_profile">>)
  \o <<"ict_set_host_node_name", "activate_be", "ict_installboot">> \o finish
  \o <<"ict_snapshot", "ict_mark_root_pool_ready", "ict_transfer_logs">>
TextTasks(finish) ==
  <<"ict_set_lang_locale", "ict_configure_user_directory", "ict_set_host_node_name", "ict_set_user_profile">>
  \o When(Boot, <<"activate_be", "ict_installboot">>) \o finish \o <<"ict_snapshot", "ict_mark_root_pool_ready">>
Flow == IF ictRun.front = "text" THEN TextTasks(LiveFinish)
        ELSE EngineTasks(IF ictRun.front = "ai" THEN AutoFinish ELSE LiveFinish)

(* ------------------------------------------------------ running a task ---- *)
Effect(t, i) ==
  CASE t = "ict_configure_user_directory" -> ict_configure_user_directory(i)
    [] t = "ict_set_user_profile" -> ict_set_user_profile(i)
    [] t = "ict_set_lang_locale" -> ict_set_lang_locale(i)
    [] t = "ict_set_host_node_name" -> ict_set_host_node_name(i)
    [] t = "ict_installboot" -> ict_installboot(i)
    [] t = "ict_mark_root_pool_ready" -> ict_mark_root_pool_ready(i)
    [] t = "ict_transfer_logs" -> ict_transfer_logs(i)
    [] t = "activate_be" -> activate_be(i)
    [] t = "create_smf_repository" -> create_smf_repository(i)
    [] t = "create_mnttab" -> create_mnttab(i)
    [] t = "cleanup_unneeded_files_and_dirs" -> cleanup_unneeded_files_and_dirs(i)
    [] t = "generate_sc_profile" -> generate_sc_profile(i)
    [] t = "delete_misc_trees" -> delete_misc_trees(i)
    [] t = "remove_livecd_coreadm_conf" -> remove_livecd_coreadm_conf(i)
    [] t = "remove_bootpath" -> remove_bootpath(i)
    [] t = "update_dumpadm_nodename" -> update_dumpadm_nodename(i)
    [] t = "setup_dev_namespace" -> setup_dev_namespace(i)
    [] t = "remove_livecd_environment" -> remove_livecd_environment(i)
    [] t = "remove_specific_packages" -> remove_specific_packages(i)
    [] t = "set_flush_content_cache_false" -> set_flush_content_cache_false(i)
    [] t = "set_root_password" -> set_root_password(i)
    [] t = "create_new_user" -> create_new_user(i)
    [] t = "copy_generated_files" -> copy_generated_files(i)
    [] t = "setup_rbac" -> setup_rbac(i)
    [] t = "setup_sudo" -> setup_sudo(i)
    [] t = "copy_capability_file" -> copy_capability_file(i)
    [] t = "copy_splash_xpm" -> copy_splash_xpm(i)
    [] t = "add_splash_image_to_grub_menu" -> add_splash_image_to_grub_menu(i)
    [] t = "reset_image_uuid" -> reset_image_uuid(i)
    [] t = "set_boot_device_property" -> set_boot_device_property(i)
    [] t = "enable_nwam" -> enable_nwam(i)
    [] t = "configure_nwam" -> configure_nwam(i)
    [] t = "do_not_configure_network" -> do_not_configure_network(i)
    [] t = "configure_network" -> configure_network(i)
    [] t = "apply_sysconfig_profile" -> apply_sysconfig_profile(i)
    [] t = "smf_correct_sys_profile" -> smf_correct_sys_profile(i)
    [] t = "create_sparc_boot_menu" -> create_sparc_boot_menu(i)
    [] t = "copy_sparc_bootlst" -> copy_sparc_bootlst(i)
    [] t = "set_partition_active" -> IF Intel THEN i ELSE set_partition_active_sparc(i)
    [] t = "update_boot_archive" -> update_boot_archive(i)
    [] OTHER -> i
(* A change of what the archive is made of makes it old.                   *)
Aged(i, j) == IF i \cap Archived = j \cap Archived THEN j ELSE j \ {"archive"}
OnMenu(t, m) ==
  CASE t = "fix_grub_entry" -> fix_grub_entry(m)
    [] t = "add_operating_system_grub_entry" -> add_operating_system_grub_entry(m)
    [] t = "explicit_bootfs" -> explicit_bootfs(m)
    [] t = "enable_happy_face_boot" -> enable_happy_face_boot(m)
    [] OTHER -> m

Task == Flow[ictPc + 1]
Carry ==
  /\ image' = Aged(image, Effect(Task, image)) /\ menu' = OnMenu(Task, menu)
  /\ fdisk' = IF Task = "set_partition_active" /\ Intel THEN set_boot_active(fdisk) ELSE fdisk
  /\ snapshot' = IF Task = "ict_snapshot" THEN image ELSE snapshot
Succeed == ictPc < Len(Flow) /\ Carry /\ ictPc' = ictPc + 1 /\ UNCHANGED <<ictRun, failed>>
(* A task that fails has done its work or not; the generated profile and   *)
(* the dump configuration are removed.                                     *)
FailTask ==
  /\ ictPc < Len(Flow) /\ Cardinality(failed) < MaxFailures
  /\ Task # "delete_misc_trees"     \* does not say that it failed
  /\ \/ Carry /\ Task \notin {"generate_sc_profile", "update_dumpadm_nodename", "ict_snapshot"}
     \/ image' = image \ (IF Task = "generate_sc_profile" THEN {"system_profile"} ELSE {}) /\ UNCHANGED <<menu, fdisk, snapshot>>
  /\ failed' = failed \cup {Task} /\ ictPc' = ictPc + 1 /\ UNCHANGED ictRun
IctOver == ictPc = Len(Flow) /\ UNCHANGED ictVars
IctNext == Succeed \/ FailTask \/ IctOver
IctSpec == IctInit /\ [][IctNext]_ictVars
-----------------------------------------------------------------------------
Finished == ictPc = Len(Flow) /\ failed = {}
Live == ictRun.front # "ai"
Without(s) == \A x \in s : x \notin failed
Ended == ictPc = Len(Flow)

(* Types of what the tasks change. *)
IctTypeOK ==
  /\ ictPc \in 0..Len(Flow) /\ Cardinality(failed) <= MaxFailures /\ snapshot \subseteq image \cup Shipped
  /\ Len(menu) <= 2 /\ \A k \in DOMAIN menu : menu[k].who \in {"own", "other"} /\ menu[k].title \in {"default", "image", "other"}

(* When the tasks that make accounts succeeded somebody can become root:   *)
(* root himself, or a user who exists and has the role (setup_rbac).       *)
SomebodyIsRoot ==
  Ended /\ Live /\ Without({"create_new_user", "setup_rbac", "set_root_password"})
    => /\ "root_password" \in image
       /\ ("root_role" \in image => {"user", "user_is_root"} \subseteq image)

(* The services of the new system are set up as was asked for, and not     *)
(* undone by the task that starts the repository anew.                     *)
NetworkIsAsAsked ==
  Ended /\ Without({"create_smf_repository", Network, "configure_nwam"})
    => image \cap NetFacts = IF ~Live \/ ictRun.net = "auto" THEN {"network_nwam"}
                             ELSE IF ictRun.net = "manual" THEN {"network_default", "nwam_off", "addresses"}
                             ELSE {"network_default", "nwam_off"}

(* The name in the dump configuration is the one the host was given.       *)
DumpKnowsHost ==
  Ended /\ Without({"ict_set_host_node_name", "update_dumpadm_nodename"}) => "old_dump_name" \notin image

(* The boot archive holds what the tasks changed, in every installation    *)
(* whose last task succeeded, whatever the others did.                     *)
ArchiveIsCurrent == Ended /\ "update_boot_archive" \notin failed => "archive" \in image

(* Nothing of the live system's user is left, and the new user's rights    *)
(* are not undone by what is put back from the medium.                     *)
UserKeepsRights ==
  Finished /\ Live => /\ image \cap Leftovers = {}
                      /\ (ictRun.login => "user_sudo" \in image)

(* Only the entry of the new system gets the title of the medium, and it   *)
(* is told the data set to boot; other systems keep theirs.                *)
OthersKeepTheirTitles ==
  Finished /\ Intel /\ Boot =>
    \A k \in DOMAIN menu : /\ (Live /\ menu[k].who = "own") = (menu[k].title = "image")
                           /\ (menu[k].who = "own") = menu[k].bootfs

(* The disk boots the new system: one active partition, its own; a table   *)
(* with the system in a logical partition, or one that was not to be       *)
(* touched, is left alone.                                                 *)
OneIsActive ==
  Finished /\ Intel =>
    LET active == {k \in DOMAIN fdisk : fdisk[k].active}
    IN  active = (IF Boot /\ ~ictRun.logical THEN Of(191) ELSE {1})

(* The snapshot holds everything but the mark of the pool and the logs.    *)
SnapshotHoldsAll == Finished => snapshot = image \ {"pool_ready", "logs"}

(* After the completion tasks of every front end, each of which may fail,   *)
(* the new system is right in what the other tasks are for: somebody can    *)
(* become root, the network, the dump name, the archive, the user's rights, *)
(* the menu, the active partition and the snapshot (install-finish, ict.py). *)
FinishedSystemIsRight ==
  /\ IctTypeOK /\ SomebodyIsRoot /\ NetworkIsAsAsked /\ DumpKnowsHost /\ ArchiveIsCurrent
  /\ UserKeepsRights /\ OthersKeepTheirTitles /\ OneIsActive /\ SnapshotHoldsAll

=============================================================================
