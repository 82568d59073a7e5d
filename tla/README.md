# A verification project for the Caiman installer (slim_source)

slim_source is the OpenSolaris installer family "Caiman": libraries that look at
the machine, lay out disks, copy the software and finish the installation; three
installers on top of them (graphical, text, automated); and the distribution
constructor, which builds the images they install from. This directory holds
TLA+ models of its components, TLC runs that check them on small instances, and
TLAPS proofs that hold for all values of the constants.

Paths below are relative to `src/usr/src/`.

1. [Inventory](#1-inventory) - 2. [Modules](#2-modules) - 3. [Runs](#3-runs) -
4. [Theorems](#4-theorems) - 5. [Met while modelling](#5-met-while-modelling) -
6. [Not modelled](#6-not-modelled) - 7. [What could follow](#7-what-could-follow)

## 1. Inventory

| component | code | state it keeps | operations | talks to |
|---|---|---|---|---|
| installation engine | `lib/liborchestrator/perform_slim_install.c` | static status words, `ti_ret`, `swap_device`, `om_errno`; the root pool and its `install` property on disk | `om_perform_install`, threads `do_ti` and `do_transfer`, callbacks | libti, libtransfer, libict; called by GUI and automated installer |
| target discovery | `liborchestrator/target_discovery.c`, `disk_target.c`, `disk_info.c`, `upgrade_targets.c` | `system_disks` with partitions and slices, `solaris_instances`, `disk_discovery_done` | `om_initiate_target_discovery`, thread `handle_disk_discovery`, `om_get_disk_info` and its kin | libtd; polled by the GUI |
| partition and slice editing | `liborchestrator/disk_parts.c`, `disk_slices.c` | the table being committed, slots and slices touched, `invalidate_slice_info` | create, delete, preserve, finalize, set attributes | GUI, automated installer; libti |
| process check, locale, time zone, system queries | `liborchestrator/om_proc.c`, `locale.c`, ... | none | queries | GUI `main` |
| target instantiation | `lib/libti` | disks, pools, volumes, ramdisks (on the machine) | `ti_create_target`, `ti_release_target` per type | engine, constructor |
| target discovery library | `lib/libtd` | a list and a cursor per class of object; mount and swap lists; initiator configuration | `td_discover`, `td_get_next`, `td_attributes_get`, `td_target_search`, ... | discovery |
| transfer | `lib/libtransfer`, `libtransfer_pymod` | lock, abort flag, progress thread | cpio and IPS transfer, abort | engine, text installer |
| completion tasks | `lib/libict`, `libict_pymod`, `cmd/slim-install/finish/install-finish` | files of the installed image | one function per task | engine, text installer |
| error and logging services | `lib/liberrsvc`, `liblogsvc` | error list and reference counts; log file and destinations | create, list, free; init, write, transfer | all |
| auto-install SCF library | `lib/libaiscf`, `libaiscf_pymod` | SMF property groups, a handle per client | services and their properties | installadm on the server |
| manifest server, parser | `lib/install_utils`, `cmd/install-tools` | parsed tree; socket, a thread per connection | start, `get_values`, stop | distribution constructor, automated installer |
| graphical installer | `cmd/gui-install/src` | current screen, `installfailed`, `MileStoneComplete[]`, timers | button handlers, timers, engine callbacks | engine, discovery |
| its disk screen | `installation-disk-screen.c`, `disk-block-order.c`, `orchestrator-wrappers.c` there | per disk a table of partitions and the order of blocks on the disk, primary and logical; rows of widgets | combo and spin handlers of rows, Reset, Next, Back, choice of a disk | partition editor |
| text installer | `cmd/text-install` | install profile, three events between its threads, screen list | screens, installation thread | libtarget, transfer, ict |
| distribution constructor | `cmd/distro_const`, `lib/install_utils/finalizer.py` | checkpoints (ZFS snapshots, state files), `@empty`, build area; queue of scripts | build, resume, pause, list | ZFS, finalizer scripts, manifest server |
| tools, python bindings | `cmd/install-tools`, `slim-install`, `system-config`, `lib/*_pymod` | none | conversions, scripts of the live media | |

What is hard in it:

* **Threads without locks.** The engine's `do_transfer` is started at once and
  kept from the disk only by `pthread_join` and the sign of `ti_ret`. Engine and
  discovery threads call GUI code that writes the flags the GTK main loop polls. The
  text installer has a screen, an installation thread and a progress thread, and a
  user who may quit.
* **State that outlives the process.** The installer may die at any moment; the
  only thing its successor has is the pool's `install` property. A build may be
  killed between a snapshot and the file that belongs to it.
* **Partial failure.** Everything is a chain of commands that each fail on their
  own; what was mounted, attached, held or started before must be undone, or
  the rest must be right without it.
* **Arithmetic at its edges.** Sizes travel as MB, sectors and cylinders through three
  components, partitions are fitted into holes, volumes are trimmed to what is left;
  milestones are percentages of integer divisions.
* **The same space kept three times.** The graphical disk screen has a table, a list of
  blocks and rows of widgets for each disk, which thirty handlers update one by one, by place,
  by id or by order.
* **Protocols without boundaries.** The manifest server's answers are told apart
  only by the acknowledgements between them.

The properties that make each component correct: the engine writes only to a
target it made itself and tells the truth about the result; discovery announces
completion only of complete lists, and always announces it; what a user did not
edit is on the disk afterwards; the disk screen shows what it will hand over, and hands over
what it promised to keep; the GUI shows a verdict, the right one, once;
what is called a success is whole, and the new system can be booted and
administered; whoever quits gets out; looking for systems leaves no trace; an
answer is the answer to the question asked; successful builds contain the
steps of their manifest whatever came before. `PROJECT.json` lists the hazards,
each at its line, with the properties aimed at it.

## 2. Modules

| module | models | builds on |
|---|---|---|
| `OmInstall` | the installation engine: caller's thread, `do_ti`, `do_transfer`, pool on disk, restarts | |
| `InstallContract` | abstract specification: what the installer promises of the pool and of its verdict | |
| `GuiInstall` | the GUI's main loop, buttons, timer and callback, composed with the engine | extends `OmInstall`, refines `InstallContract` |
| `TargetDiscovery` | discovery thread, milestones, the two screens that wait for them | |
| `DiskParts` | the partition editor | |
| `DiskSlices` | the slice editor | extends `DiskParts` |
| `LibTi` | target instantiation: what each type of target makes and releases | |
| `DiskTarget` | the editors composed with the library that writes what they edited | `DiskSlices`, `LibTi` |
| `DiskBlocks` | the blocks of a disk, in their order, and the gaps between them, as the graphical disk screen sees them | |
| `DiskScreen` | the disk screen: rows, blocks and table, Next and Back | extends `DiskBlocks`; instance of `DiskParts` for what Next calls |
| `VolumeSizes` | sizes of swap and dump volumes, in the engine and in the text installer | |
| `TransferMod` | the transfer module and its progress thread | |
| `TextInstall` | the text installer around its transfer | extends `TransferMod` |
| `Ict` | the completion tasks of the three front ends | |
| `TdMounts` | libtd: installed systems, their mounts and zones | |
| `TdObjects` | libtd: the registry of disks, partitions, slices, systems | |
| `TdVersion` | libtd: comparison of releases | |
| `TdIscsi` | libtd: search for an iSCSI disk | |
| `LibTd` | libtd: the four together, which share no state | extends them |
| `ErrSvc`, `LogSvc` | error service, logging service | |
| `AiScf` | install services in the SMF repository | |
| `ManifestServ` | manifest server and its readers | |
| `DistroBuild` | builds of the distribution constructor in a row, over one build area | |
| `MC...` | the requests, machines and manifests of the TLC instances; several components in one run, one `subject` at a time | the modules named in it |
| `...Proofs` | theorems and proofs | the module of that name; `GuiInstallProofs` is about `OmInstall` too, `TdProofs` about `LibTd` and its parts |

Names of definitions are those of the functions they stand for wherever there is one such
function; `PROJECT.json` maps each to its lines.

### OmInstall, InstallContract, GuiInstall

Three control points, one per thread: `callPc` in `om_perform_install`, `tiPc` in
`do_ti`, `xPc` in `do_transfer`. An action is the code between two calls that
another thread, a crash or a failure can tell apart; e.g. `CreatePool` (`zpool
create`) and `MarkPoolBusy` (`zfs set install=busy`) are two actions because a
process can die between them. `pool`, `image`, `zvols` and `vfstab` are the disk and
survive `Restart`, which resets everything else. `owner` and `image` are history: who
made the pool and what was put into it. `cb` is the callback made in a step.
A request (`choices`) carries the answers of the machine the code branches on; of
the sizes of swap and dump it has the outcomes `fits`, `sizeOk`, `required`,
`swapSlice`, whose arithmetic is `VolumeSizes`.

Faults are named constants: `list` (the command `zpool list` cannot be run, and
counts as "no such pool"), `import` (somebody imports a pool meanwhile). Every
command may fail in every run; that needs no fault.

`GuiInstall` adds the screen, the flags `installfailed` and `MileStoneComplete[]`,
the timer and the two windows. While `om_perform_install` runs the main loop is not free.
Engine steps are conjoined with `InstallationUpdateProgress`, since the engine's
threads call it directly. `ImplementsContract` reads the pool and the screen as
`InstallContract`'s `target` and `verdict`.

### TargetDiscovery

The thread's loops over disks, partitions, slices and installed systems, item by
item, with the percentage each callback reports and the one the last callback
depends on (`pct`, which is uninitialised stack memory until the first callback of
a phase: the model takes both outcomes). `DiscoveryMonitor` is the 200 ms timer of the disk and
of the upgrade screen, `RescanInstances` the discovery of installed systems the
main loop may start itself.

### DiskParts, DiskSlices, LibTi, DiskTarget

`DiskParts` has the table found on the disk (`dpFound`) and the one being committed
(`dpTable`); a partition has its size both in sectors and in MB, since the code
compares one and writes the other, and offsets wrap at the width of the C type.
Creation looks for a best fit among the holes, deletion leaves slots behind,
finalizing sorts and fills what is asked to take the rest; the attributes
(`dpAsked`) are what libti will be given. `DiskSlices` adds the slices, by id, with the
edit list of preserved, created and install slices, the flag that a deleted Solaris partition
sets, and the swap slice of an automated installation with little memory.
An editor's call is one action: nothing runs beside it.

`LibTi` takes an attribute list to the set of its outcomes: a command works or, if
it is in `TiFaults`, fails; `Then` goes on after success, `Whatever` after anything,
`As` is the code reported upwards. `ti` is the machine: partition table,
VTOC, mounts, swap, dump, pools, datasets, boot environments, ramdisk. `DiskTarget`
hands the editors' attributes to the library, sector by sector.

### DiskBlocks, DiskScreen

`layouts[n]` is what the screen keeps of disk n: the table `p` (`modifiedpartitions`) and the two lists
of blocks `prim` and `logi` (`modifiedprimaryblkorder`, `modifiedlogicalblkorder`); `rows` and `logicals` are the widgets of the
disk shown, with the values of combo box and spin button, the flags that a change of type or of size was
made, and `initial` (an extended partition whose first change of size destroys what is in it).
The handlers of GTK are blocked while one runs, so a handler is an action, with all it calls:
it works on `c`, a layout with its rows, by a chain of operators that have the functions' names
(`update_primary_unused`, `logical_partition_remove`, ...), and ends by reading the rows into the
table (`update_disk_partitions_from_ui`) and setting the ranges of the spin buttons anew.
`installationdisk_validate` is Next: it packs the table (`collapse_partitions`) and hands it to the orchestrator's
`om_validate_and_resize_disk_partitions()`, which is `DiskParts`' `Validated`; `GoBack` lays out what was returned.
`DiskBlocks` is a table as blocks and gaps: `get_blkorder_layout`, the unused entries given to gaps, and the sorting.

Taken as given: sizes are shown in tenths of a gigabyte, and the arithmetic on them, in floats in the code, is
exact here; `UNUSED`, the type of a partition that is not there, is `UNUSED_PARTITION`; layouts are made for all disks at
the start, where the code makes one when its disk is first shown, of the same data; the machine may boot from any usable disk; a
call of the orchestrator does not return NULL for want of memory. Focus handlers and text
filters change nothing kept here, but what a spin button may be set to: its lowest, middle or highest value.
Two states end the program and are no behaviours: no slot left for a logical partition (`SlotLeft`), and
a larger extended partition whose rows were all cut away (section 5).

### VolumeSizes

An installation (`vsCase`) is decided on, where there may be no room, and made, where
the size of the image may or may not be known; an action is one of the two. All of the
formulas, limits and trimmings are there, in MB, with the signed and unsigned types'
effect on requests up to `IntMax`.

### TransferMod, TextInstall, Ict

`TransferMod` has a thread in `tm_perform_transfer` (`tmPc`), a progress thread
(`monPc`) and callers of `tm_abort_transfer`; `tmLock` and `do_abort` are shared.
Percentages are reduced to the three levels the code compares with: below 95, from 95 on, where
the progress thread ends, and 100, which only the copying thread reports. Within a level what is
reported may go up or down, as what `df` measures does. A transfer that raises leaves its progress
thread running; the next one starts at once, and the thread it finds becomes one of the `strays`,
which report into it until they reach 95 or see the flag of an abort. The IPS actions are
single commands, except `image-create`, which is tried again until its timeout.

`TextInstall` has the progress screen in the main thread (`uiPc`), the installation
thread (`itPc`), the three events between them, and the disk (`txPool`, `txOwner`,
`txImage`), which survives `Die`. The question whether to quit may be asked, and
answered, at any moment.

`Ict` runs the tasks of a front end in its order, then those of `install-finish`;
the installed image is the set of facts the tasks establish or undo ("root role",
"jack user", "boot archive"), the boot menu and the partition table are sequences. Any task
may fail; none keeps the others from running.

### TdMounts, TdObjects, TdVersion, TdIscsi

`TdMounts` walks `os_discover` over the slices of a machine: mount, look, mount what the
vfstab names (in passes, until a pass gets nothing done), look at the zones, unmount
in reverse, one entry of the two lists in an action. `mounts` and `swaps` are the machine's
tables, `umount_head` and `unswap_head` the library's lists of what it has to undo; `base` says
which root a file system is mounted under, `Parent` which directory it needs. `TdObjects` has a record per
class: what is held, the array, its count, its cursor and whether it is sorted; its
names are sequences of digits and letters, because its binary search compares names in two ways, of which `bsearch` gets
the outcomes.
`TdVersion` is pure: products as the sequences of their pieces. `TdIscsi`
is the configuration of the initiator and the wait for the device.

### ErrSvc, LogSvc, AiScf, ManifestServ

`ErrSvc` counts references: an error lives as long as Python's list or a caller's list holds
it. `LogSvc` has where a message went (`written`, `console`) next to the configuration
at that time. `AiScf` has clients with one handle each, whose calls are cut where the repository
can change between two steps; a commit of a transaction on an old version of
a group is answered 0 and changes nothing (libscf, external).

`ManifestServ` has the thread that accepts (`accepting`), a session per connection
(`session`) and a reader per connection (`pc`), and between them two streams
of tokens, a token being what one `send()` writes: a `recv()` takes what is
there, so that two answers sent in a row may be read as one and a long one in pieces. `Buffer`
is how much a stream holds before `sendall()` waits. The server may be stopped, exit in
good order or be killed at any moment, and so may readers. `Found` says what each request
finds, or why it has no answer.

### DistroBuild

The build area is the sequence of scripts that ran on it since it was empty, a
snapshot is such a sequence under a name, a state file is the manifest it is a
copy of. A build walks through the commands of `parse_command_line` (deletion of
checkpoints), `cleanup_build_data_area`, `add_finalizer_scripts` and the queue of
`DCFinalizer.execute`; it can be killed between any two. Manifests with
other steps, order and flags may alternate. Faults: `crash`, `script` (a
script fails), `copy` (the state file cannot be written), `create` (build_data
cannot be created), `access` (a script is not executable), `zfs` (a zfs command
fails, which nobody notices).

## 3. Runs

Passing runs, with their distinct states:

| run | states | instance | shows |
|---|---|---|---|
| `engine` | 2,735,720 | two processes, the first with every swap and dump size in {-1, 0, 1}, space and memory; breakpoints, crashes anywhere; both faults | the transfer has its target; success is complete; vfstab lists an existing swap |
| `gui` | 468,174 | GUI over engine, two processes, two machines, fair | screens are truthful, failure is final, foreign and finished pools survive, ready pools are populated, no writes after the verdict, refinement of `InstallContract`; a started installation ends on a verdict screen |
| `discovery` | 12,835 | up to 3 disks and 3 installed systems, readable or not, all faults, fair | completion is true and stays, lists are stable, both screens are filled |
| `disks` | 114,869 | a disk of 24 sectors = 12 MB = 8 cylinders, three tables found, up to three edits, six creations; libti on its own with twelve commands failing; a grid of sizes; five machines with disks of 96 MB, 32 to the GB, and up to three changes on the disk screen | partitions nobody edited survive, slices do not overlap, preserved slices stay, what is made and released is accounted for; volumes fit and requests are granted; the screen is in step with its table and keeps what it promised |
| `finishing` | 192,233 | text installer with one death and every failure; transfer with each of its requests, beside a progress thread left by an earlier one; 21 installations' tasks with any one failing; fair | success is whole, marked and unmounted; foreign pools stay; the new system is right; who quits gets out and the end is noticed; nothing is reported after 100 percent |
| `libtd` | 50,119 | eight machines with any two commands failing; five registry calls in any order on two computers; iSCSI with a configuration of its own; pairs of 28 releases; fair | the machine is left as it was, every system is reported, walks and lists are whole, found means configured and nothing else of the configuration is touched; the search and the wait end |
| `services` | 501,518 | two errors in two lists; three messages around `ls_init`; two clients, two install services, two properties; two readers with two requests together, buffers of two tokens | references are counted exactly whichever calls fail, the log is whole, transactions end and groups change only to what a call asked that is answered success, every request is answered rightly or fails for a cause |
| `build` | 79,793 | 3 builds; six manifests: two editions of the same steps, one step less in the middle and at the end, two swapped, no checkpoints; all faults but `zfs` | unwarned successful builds are complete, mixtures are warned of, the order is the manifest's, snapshots nest |

Why the bounds suffice. *Engine*: two processes show everything one restart can leave to
the next, since only the disk passes from one to the other; the theorems hold for any number. *Discovery*: percentages are computed of 1, 2 and 3 items,
where rounding first matters at 3, and unreadable items occur at every position.
*Disks*: a cylinder is three sectors and a MB two, so both roundings go either way, and the tables
have a hole before, between and behind partitions, and a logical partition; three edits are
delete, create and create again in its place. The screen's three changes (of a row, or by Next and Back, which lay the rows out
anew) reach an extended partition made, filled, resized and handed over; its disks are full, have a gap before,
behind or within an extended partition, cannot be read, or are too small. `ScreenIsRight` also held
on this instance with six changes (1.5 million states, too long to be kept as a run). The grid of sizes has a value on either
side of each limit at which a formula changes. *Finishing*: a death before, amid and after
each step, then a whole second run; with two failing tasks the first would hide nothing of the
second, since tasks share only the facts; one stray progress thread (`MaxStrays`) shows what any
number of them does, since nothing but the number tells them apart. *libtd*: two failures leave a mount that cannot be
undone and a second one that meets it; five calls are discover, walk, attributes (which sorts),
walk on, list. *Services*: two holders of one error, one file name before and
one after `ls_init`, two writers of two groups with two properties, each of which is set or not, so that a change of
the wrong group or property can be told from the right one, and two commits, the later of which may be stale; two sessions; a buffer of two tokens is
smaller than the longest answer, so that it comes in pieces. Clients and readers are
symmetric: no code tells one from another. *Build*: three builds are make, disturb, resume; three
steps give a checkpoint before, at and after the one resumed from. The proofs do not depend on
the bounds.

Runs that show a disagreement with a comment (each is a finding in
`PROJECT.json`, with the comment quoted):

| run | what the code does |
|---|---|
| `engine_vfstab` | vfstab may name a swap volume that was not created |
| `screen_apart` | a partition made with the id and the size of one found on the disk gets that one's place, on top of its neighbour |
| `libtd_long` | a slice of disk `c0d1` does not find its disk when `c0d10` and `c0d11` are there: the search takes a disk for found when its name begins the slice's, an order the array does not have |
| `scf_lost_update` | a commit that came too late is answered as a success, and the value is lost |

Properties that are weaker than one would wish, and say so in their comments: `ScreensAreFilled` excepts
machines whose installed systems are all unreadable. `SuccessfulBuildIsAsAsked` excepts builds
after one that ended between deleting its first checkpoint and rolling the area back: the checkpoints are
deleted first step first, so a later snapshot is left directly behind an earlier one, and a
manifest without the steps between is accepted by `verify_resume_step` although the area holds
them (`UnwarnedBuildIsComplete` holds nevertheless: the build then warns that "Results
may be indeterminate"). `EverybodyGetsOut` promises that the end of the installation thread is noticed
only once the clock is set. `SliceFindsItsDisk`, a part of `ObjectsAreRight`, and `ListedAreItsOwn`, a part of `ListsAreWhole`, except names that
begin other names; the former also disks that were discovered again after they were sorted. `EverySystemIsReported` excepts slices tagged as something else than root whose `/var` is another slice
that cannot be mounted: they are passed over. Of errors `HeldErrorsAreAlive` says that they are alive while somebody holds them, unless
`es_free_errors` released them twice: it drops its reference of every listed error before Python forgets the list, so that when Python
fails and the function is called again the same reference is dropped a second time. One failure is not excepted, and the count of an
error (`RefsAreCounted`) is exact after any number. `HundredIsLast` excepts a transfer into which a progress thread
of an earlier one still reports; the text installer transfers once a process, so there it holds as it is
(`TextEndsAtHundred`). `ConfigIsRight` allows that of the asked target at the asked address another port goes for nothing, when adding
the new one fails after the removal; the search then answers NOT_FOUND.
A reader whose server disappears amid an answer is not said to come back: it does not
(section 5).

Deadlock is checked except where the program may really stop: `disks` and `services`
(`CHECK_DEADLOCK FALSE`: nobody need call a library again, and after the bounds
nobody does). Elsewhere the modules have an explicit step for a program that is idle (`Stopped`, `Over`,
`Idle`, `NoMoreBuilds`).

### Fairness

* `GuiFairSpec`: weak fairness of each engine thread, of the return from
  `om_perform_install` and of the two-second timer. Threads are scheduled by the
  kernel, commands run by `system()` return, and the GTK main loop dispatches a
  timer that stays registered.
* `TdFairSpec`: the same of the discovery thread and of the 200 ms timers.
* `MCFinish!Spec`: of the text installer's main thread, its installation thread and its progress
  thread, and of the answer to the question whether to quit: the screen waits for a key.
* `LibTd!Spec`: of the one thread that looks for systems, and of the iSCSI search, which sleeps a
  second at a time.

Nothing is assumed of users or of failures: no button need be pressed, no command need
succeed and no device need appear.

## 4. Theorems

Proved by TLAPS for every value of the constants that satisfies the named assumptions of
the modules: any set of requests, number of processes, disks, systems, builds,
manifests, errors, clients, readers and faults, unless said otherwise.

* `GuiInstallProofs`, the engine. `IInv` joins types, `Control` (where each thread may be, given
  the others), `TargetKnown` and `TransferKnown` (what is on the disk at each
  place of the two threads), and the properties. It is needed because none of the properties is
  inductive: that do_transfer has its target follows from what do_ti's place says of
  the pool, and that from who may have changed the pool since.
  `TypeCorrect`, `TransferIsSafe`, `ReadyPoolsArePopulated`, `SuccessIsEarned`;
  `SwapIsAlwaysListed`, from what each place of do_ti knows of the swap volume; and
  `ForeignPoolsSurvive`, for `Faults = {}`, which adds that the pool is gone while `do_ti`
  creates it.
* The GUI, in the same module. A step of the GUI is a step of the engine or leaves it alone
  (`GuiRefinesEngine`), so the engine's theorems carry over. `GInv` relates screen and
  flags to the threads: the last milestone is recorded only when both are
  through, and after a failure the transfer is halted for good. `FinishIsTrue`,
  `FailureStays`, `VerdictMeansQuiet`; and, for `Faults = {}`, `GuiImplementsContract`: initial
  states map to initial states and every step to a step of `InstallContract` or a stutter.
* `TargetDiscoveryProofs`. `TInv` says what the three lists hold in each phase of the
  thread; `CompletionIsTrue`, `ListsAreComplete`, `ListsStayStable`.
* `DistroBuildProofs`. `Stages` says that snapshots are stages of one another and of
  the area, under distinct names, and that each operation on them keeps it: `SnapshotsAlwaysGrow`,
  with every fault; `BuildTypesHold`.
* In the same module, for `"zfs" \notin Faults` and manifests of fewer than 9999
  steps (the number with which the code says "no pause"). `ResumeInv` says, for every manifest at once, what a
  later build may rely on when it resumes: snapshots in the order of a manifest's first n
  steps whose state files are all this manifest vouch for the scripts that ran
  (`SnapsVouched`), a state file that is a manifest lies behind no later snapshot than its own step's
  (`Placed`), and, unless a build ended amid its deletions, a snapshot holds just the
  scripts the ones before it are named after (`NamesChain`). Each place of a build adds what it has
  deleted, checked or written so far. `UnwarnedBuildsAreComplete`, `MixturesAreWarnedOf`,
  `SuccessfulBuildsAreAsAsked`. The exception in the last one came out of its proof, not of a run.
* `DiskTargetProofs`, partitions. `DtInv`: the table is typed and in its slots (`PartsOK`); an entry nobody
  touched is as it was found (`UntouchedStay`); the attributes say what the table says (`AskedIsTable`); and, once the
  library wrote, every such entry is on the disk (`WrittenWhenAsked`). Last comes the library's own matching of
  preserved partitions by place and size. `DiskTargetTypeCorrect`, `UntouchedPartitionsSurvived`: any table found,
  any edits, any failing command.
* Slices. `SlInv`: the table is well-formed (`IsSl`), the boot slice in its place; a finalized table has no
  overlaps (`CheckedWhenFinal`), and it is that one which becomes attributes (`CheckedWhenAsked`, `ListedAsIs`); what is
  on the disk was rounded from it (`VtocFree`, `VtocChecked`: adjusting slices to cylinders, with the boot slice
  in front, keeps them apart). `PreservedSlicesAlwaysStay` needs no more than that each call adds to what is kept. `SlicesStayApart`
  has the hypothesis `NoWraps(slTable)`: no slice ends past the width of the numbers its end is compared in. It cannot be dropped, see
  section 5.
* The library. `TiInv` is a machine as a caller may find it (`IsMachine`: its fields; volumes swapped or dumped to
  have their pool, and a dump is never to a volume for swap; no device of a ramdisk is forgotten) with the property. Each
  command keeps the machine, and those that make something keep what is there (`Grown`); a loop of commands keeps what
  the ones before made; the last milestone comes with everything made (`Early`, `Whole`). While a
  ramdisk is being made its device is attached and not mounted, and less is claimed (`Alike`).
  `DevicesAlwaysAccounted` for any calls of libti, `EditedDevicesAlwaysAccounted` for the calls with what the editors set.
  `ReleaseWorks` constructs the run of `zfm_release_pool` in which every command does what it is asked.
* Sizes, for every machine, request, image and disk:
  `VolumesAlwaysFit`, `RequestsAreAlwaysGranted`. The argument is a lemma on a volume of default size (it
  is at least its minimum, and fits or is the minimum) used twice, and lemmas on the shares the
  text installer gives to each.
* `TdProofs`. `SystemsAreAlwaysLeftAlone`, for machines with any slices, vfstabs and mounts, and any
  failures. Its invariant `MdInv`: what is mounted is somebody else's or stands in `umount_head`
  (`Balance`), with what was mounted later before what it was mounted in (`LinesInOrder`), so that no unmount finds its
  directory busy; every mounted directory has its parent mounted (`Closed`); what was there at first
  is still there (`InUseInv`). The balance is claimed only as long as no unmount
  failed, and so is the property. `SystemsAreAlwaysReported` adds `ScanInv`, which claims of a look in which nothing
  failed (`CalmInv`): each line of the vfstab in work is done or still to do (`LinesInv`), so that a pass
  in which nothing was done leaves only lines that cannot be; what was found out so far of the slice looked at is so
  (`SliceInv`); slices are looked at once each (`SlicesInv`), what is found is a
  system among them (`FoundInv`), and a whole system already looked at was reported (`ReportInv`). `ConfigIsAlwaysRight`, of `FoundIsAlwaysConfigured`, `AlwaysConfiguredOnce` and the
  action property `OnlyTheAskedEverChanges`: the initiator loses no other target and no other address, whatever fails.
  `ReleasesAreCompared`, the part of `ObjectsAreRight` about `td_prod_vcmp`, for any two products: releases without a
  vendor are ordered as number sequences with endless zeros behind them, and turned round every comparison
  gives the opposite answer. The first place where two products are apart decides in both
  directions, and empty tokens are only ever left out at the end.
* `TdObjectsProofs`, the registry, for any computer as libdiskmgt and devfs may describe it. `ObInv` says what each list
  is (`IsReg`): handles that were handed out as they were or with a system installed since, entries for them in place or, of
  disks, in some order, attributes that are the handle's or, of a slice, thrown away. Disks are in order once sorted, unless
  they were discovered again since, when they are in the order they were handed out in (`SortIs`); a slice was thrown away
  only if no disk of its name can be found (`ThrownIs`); what a walk has seen is what its cursor has passed (`SeenIs`);
  descriptors are held only for a list of disks (`DescIs`). None of it is said by the properties, and all of it is needed:
  that a list made for a disk is complete rests on no slice of it having been thrown away before, by whatever call. Below lie the
  facts about C's functions: `strcmp` is a total order (`StrOrders`), so that qsort has an order to put
  (`SortExists`); bsearch finds what compares equal when what comes before compares greater and what comes
  after less (`SearchFinds`); a slice compares with other disks as its own disk does when no name begins another
  (`KeySigns`). `RegistryHolds`, `RegistryIsAlwaysRight`, and the action properties
  `WalksAlwaysMeetAll` and `ListedAreAlwaysOwn`.
* `TdProofs`, last: each of the library's four parts behaves in `LibTd` as it does alone (`EachAsAlone`), hence
  `ObjectsAreAlwaysRight`, `ListsAreAlwaysWhole` and, for all invariants at once, `LibraryKeepsItsPromises`.
* `FinishProofs`. Transfers: `TmInv` says which lists are copied at each place of the thread
  (`TmCopied`), where a progress thread may be (`TmWatched`), how often image-create was tried
  (`TmRetried`) and what was reported (`TmReported`); `TransfersAreOver`, and `HundredIsAlwaysLast` as an action property: the copying
  thread reports 100 percent last, when it has waited for its progress thread.
  The text installer: `TxInv` adds what the pool is at each place of its installation thread
  (`TxPools`), what a good end was earned with (`TxEarned`) and who may draw (`TxScreens`);
  `SuccessIsAlwaysSuccess`, `ForeignPoolsAlwaysStay`, `TextEndsAtHundred`. Completion tasks: every order of
  tasks the front ends use runs in stages (`Staged`), and `IctInv` says of each part of the installed system
  what the tasks so far have made of it (`ImageInv`, `NetInv`, `LeftoverInv`, `MenuInv`, `DiskInv`, and `SnapInv` for the
  snapshot, which holds all that came before it); `FinishedSystemIsAlwaysRight`.
* `ServicesProofs`. `NothingIsEverLost` (the log; the invariant knows which of the two
  file names is open at which time), `ErrorsAreAlwaysCounted` (the count of an error is the cardinality of
  the set of its holders, a finite set one of which comes or goes, less the releases that no holder gave up) and `TransactionsAreAlwaysWhole` (a
  transaction is open only inside a call, of the group the call was asked for, and what is committed is what it asked for).
  `ConversationsAreAlwaysSound` is the manifest server: any number of readers, any requests, buffers of
  any size. Its invariant `MsInv` says that, as long as a connection is open, the place of its reader
  and of its session and the tokens in the two streams determine each other (`AtIdle` to `AtResults`),
  why a connection is closed while its reader is there (`Closed`), and that whoever waits to be accepted
  has no session yet and waits once (`Queue`). The results of a request are in three places, in order:
  received, under way and yet to be sent (`Pieces`); sending and receiving any number of them moves the
  two borders. One lemma per action, and `OtherReader` for the readers an action does not touch.

Assumed of what is outside: tables on a disk are as target discovery finds them, numbers in range, partitions in use
in the slot of their id, slices without overlap and the boot slice in front (`FoundAssumption`, `SlicesAssumption`); arguments
of editors have the types of the C parameters (`CreationsAssumption`); callers of libti pass names, and slices with starts and
sizes, and find a machine without leftovers of another caller (`TiCallersAssumption`); drives have names of their own, and a partition's, a slice's and the boot device's name
is its disk's with a letter and a number behind (`ObAssumption`); callers
of the slice editor finalize what they edited before they set attributes, as `disk_slices.c:270-295` asks (`Finalized`).

Loops over sequences are proved about by a lemma of the least element, from the library's well-founded induction, and
prefixes written out as a function (`EachExists`, `EachEnds`, `EachGrows`; for the registry `LoopExists`, `LoopKeeps`).

Model-checked only: the liveness properties (`VerdictReached`, `ScreensAreFilled`, `LibtdEnds`,
`EverybodyGetsOut`), as fairness is out of the prover's reach; `MilestonesStay` (a
percentage of a fold over items); `ScreenIsRight`, whose operators go through lists of blocks with searches and removals at
each change.

## 5. Met while modelling

Without a run of their own, most of them because no comment says otherwise:

*Engine and libti.* A pool whose creation stopped before it was marked busy is refused by every later
start (`ti_zfm.c:420`). The pool is marked ready although earlier completion tasks failed.
When `zpool list` cannot be run an existing pool counts as absent (`ForeignPoolSurvives` is
stated, and proved, without that fault). The comments of `calc_swap_size` and
`calc_dump_size` promise a minimum "regardless" of what is there, and `perform_slim_install.c:740` and `:890`
make 1 MB; with 700 to 2000 MB of memory the default swap volume is trimmed below
`calc_required_swap_size()` against the comment at `:792`; with a requested swap of 0 a mandatory swap is
skipped. The text installer's sizes leave its own table for some memory sizes
(`ti_install_utils.py:115`): less than `MIN_SWAP` for 900 MB to 1 GB, less than `MIN_DUMP` for 256 to 512 MB.
The flag `create_swap_slice` says both that a swap slice is needed and that it was seen to
(`disk_slices.c:703`): once anything else asked for the required swap size, none is made. A slice may be made up to a cylinder longer than the region it
is put into, and overrun the partition; the region behind is then counted below zero, which unsigned is a huge one
(`disk_slices.c`, `build_free_space_table`), and the next slice is put there. `NoWraps` is violated on the run's instance after two
creations. With numbers of ten bits, sizes of 20, 4 and 1001 sectors and seven calls TLC found a table that
`om_finalize_vtoc_for_TI` accepts although slices overlap, since their ends wrap too; with the 64 bits of the code it takes sizes
near 2^64, which no caller asks for.

*Disk screen.* The numbering of logical partitions fails after some changes. `create_logical_partition()` moves the slots behind
the new one up from `get_last_logical_index()` + 1 on, which already is the first free place
(`installation-disk-screen.c:1139`): the blank one moves with them, with order 1, and slots and orders are out of step.
`logical_partition_remove()` (`:874`) takes an order for a slot, so that a later removal leaves
a removed partition behind, or doubles one. With five changes two entries of the table have the same place, with
six the rows of a disk that is chosen again are more than its blocks. `RowsAreInStep` therefore speaks of the
primary partitions, and of which rows have others below.
An extended partition whose last row below was lost, by rounding, when it was made smaller ends the program when it is
made larger: the end of an empty list is looked at (`:1886`). A logical partition of another system that is made Solaris and
back again keeps the Solaris type (`:6284`). With the whole disk chosen, each Next after a Back moves the Solaris partition one
place up, to 0 at the third, which is then refused as too small; Reset on a disk without a table fails an assertion
then. Each Next after a Back makes a first partition that was resized a cylinder smaller (`disk_parts.c:1043`). `collapse_partitions()` does not look
at the entry it gets in exchange, so that an entry may be in another slot than its id's (`:5765`): what is
promised of kept partitions is said of ids.

*GUI and discovery.* A start that fails with `OM_NO_SPACE` leaves the installation screen up
(`installation-screen.c:927`). The timer presses Next once more on the failure screen. A log closed by
the window manager after Quit leaves a process without windows. The last callback of
discovery depends on an uninitialised percentage (`target_discovery.c:352`), so that the screens may poll for ever
when no installed system can be read, and is made before `disk_discovery_done` is set (`disk_target.c:187`), so that a
screen may show no disks. `om_get_disk_info` counts disks it does not return; the discovery's
resources are released while the main loop may be looking for installed systems.

*libtd.* Disks that are discovered again keep the flag that says they are sorted (`td_mg.c:2404`), so that the search by
halves then runs over an array in the order of libdiskmgt. When a disk's name begins another's, a slice may lose its attributes though
its disk is there (`td_mg.c:486`), and the lists made for that disk are without it from then on. A slice tagged root whose vfstab cannot be read is reported like a system that lacks
nothing, without a reason not to upgrade it. A system in use whose vfstab cannot be read loses its root: the error path unmounts what
it did not mount (`td_mountall.c:217`).

*Text installer and tasks.* The progress screen waits for `time_change_event` without a limit
(`install_progress.py:108`), and the thread that sets it may end before. `reset_image_uuid` cuts
the list of publishers down to an empty one, so that no publisher is reset (`ict.py:2272`).

*Services.* `ai_delete_pg` leaves the handle without a group, so that later reads through
it fail (`ai_utils.c:245`). `stop_socket_server` says "Raises: None" and raises socket.error when the server has
not bound its socket yet, which `start_socket_server` does not wait for; the name then stays
(`ManifestServ.py:551-593`). When the connection ends amid an answer the reader's loop gets
nothing, again and again (`ManifestRead.py:211`); for a value that is not ASCII that is the normal course, since
`sendall()` raises after the number of results was acknowledged. A value with an open quote
ends the session's thread and raises ValueError in the reader.

*Distribution constructor.* Failing zfs commands go unnoticed (`distro_const.py:388`), so that a full
build may start on leftovers. `-R` ends in an OSError after a kill between snapshot and state file
(`dc_checkpoint.py:499`). A build that fails in `add_finalizer_scripts` (`distro_const.py:552`), or dies before its
rollback, has already destroyed checkpoints: a later build with another manifest can resume on a snapshot that
holds a step nobody asked for, and report success after a warning. A manifest that resumes at its first step builds from
scratch (`distro_const.py:169`); the docstring of `parse_command_line` says that the
checkpoint resumed from is removed, which it is not.

## 6. Not modelled

* *Pure data work*: locale and time zone tables, access to the manifest tree and its path
  language, conversions between C and Python. Sequential, without state that outlives a call.
* *Widgets*: what the other pages of the graphical installer and those of the text installer show and let a user type;
  what they hand over are the inputs of the editors and installers modelled. Warnings and labels of the disk screen.
* *Scripts*: image scripts of the constructor and scripts of the live media run commands one after
  another; `DistroBuild` takes each as one step.
* *Process check*: a search of `/proc` for a name, without a lock; what it is there for is the foreign
  pool of `OmInstall`.
* In modelled components: the attributes of the automated installation's manifest, command strings,
  log texts, dead code, `om_errno` races between threads (it is only logged), requests that
  `parse_command_line` rejects, `td_be.c` (an answer of libbe), methods a caller could register with the logging
  service, and a session thread of the manifest server that cannot be started.

`area`, `image`, `owner`, `txImage`, `txOwner`, `lsKept` record what was done; `cut` records that a build
ended in its deletions. They guard nothing.

## 7. What could follow

1. The model of a disk in the text installer (`profile/partition_info.py`), checked against
   `DiskParts` on the same tables.
2. `TextInstall` against `InstallContract`, which `GuiInstall` implements.
3. Proofs about the disk screen, from the theorem that each operator keeps the places of the primary entries a
   permutation, and about the reports of installed systems, from `MdInv`.
