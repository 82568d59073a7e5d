----------------------------- MODULE DistroBuild ----------------------------
(***************************************************************************)
(* The distribution constructor, "distro_const build": a sequence of       *)
(* finalizer scripts fills the build_data area.  Before each script a      *)
(* checkpoint is made, a ZFS snapshot of the area and a copy of the        *)
(* manifest (the state file), so that a later build can resume at that     *)
(* step (-r step, -R for the last one, or resume_from in the manifest) or  *)
(* pause there (-p).  Builds follow one another; each may fail, pause or   *)
(* be killed between any two commands, and the user may edit the manifest  *)
(* between them.                                                           *)
(*                                                                         *)
(* Steps are numbered from 0, as Step.step_num is.  The area is the        *)
(* sequence of the scripts that ran on it since it was empty.  Requests    *)
(* that parse_command_line() rejects change nothing and are left out.      *)
(***************************************************************************)
EXTENDS Integers, SequencesExt

CONSTANTS
  Names,       \* checkpoint names (each belongs to one finalizer script)
  Manifests,   \* contents of the manifest file
  MaxBuilds,   \* bound: builds in a row
  Faults       \* may include "crash", "script", "copy", "create", "access", "zfs"

(* A manifest's steps, its stop_on_error and checkpoint_enable flags and   *)
(* its resume_from step; distinct manifests with equal fields differ in    *)
(* what their scripts are given.  No manifest has as many steps as the     *)
(* default pause step stands for.                                          *)
ASSUME ManifestsAssumption ==
  \A m \in Manifests :
    /\ m.steps \in Seq(Names) /\ IsInjective(m.steps) /\ Len(m.steps) < 9999
    /\ m.stopOnErr \in BOOLEAN /\ m.checkpoint \in BOOLEAN
    /\ m.resumeFrom \in -1..(Len(m.steps) - 1)
ASSUME BuildsAssumption      == MaxBuilds \in Nat
ASSUME BuildFaultsAssumption == 
  Faults \subseteq {"crash", "script", "copy", "create", "access", "zfs"}

VARIABLES
  zfs,        \* is the build area a ZFS dataset of its own?
  manifest,   \* the manifest of the running, or else the last, build
  resume,     \* cp._resume_step
  pause,      \* cp._pause_step
  pc,         \* the next command of the running build, or "idle"
  step,       \* the step it is about
  failed,     \* saved_rval of DCFinalizer.execute()
  warned,     \* did this build warn that the manifest has changed?
  status,     \* how the build ended
  builds,     \* bound: builds started
  cut,        \* did a build end between its deletions and its rollback? (history)
  area,       \* the build_data dataset
  empty,      \* @empty: a sequence of at most one snapshot's content
  snaps,      \* the @.step_ snapshots, in order of creation
  stateFiles  \* the .step_ files: per name the set of at most one manifest

request   == <<manifest, resume, pause>>
disk      == <<area, empty, snaps, stateFiles>>
buildVars == <<zfs, request, pc, step, failed, warned, status, builds, cut, disk>>

NoStep   == -1      \* no -r; the default resume step
LastStep == -2      \* -R
NoPause  == 9999    \* the default pause step

NumSteps(m)    == Len(m.steps)
Name(m, k)     == m.steps[k + 1]
StepNums(m)    == 0..(NumSteps(m) - 1)
Available(m)   == zfs /\ m.checkpoint
HasSnapshot(n) == \E s \in DOMAIN snaps : snaps[s].name = n

Flaky == IF "zfs" \in Faults THEN {TRUE, FALSE} ELSE {TRUE}

-----------------------------------------------------------------------------
(* Where a build may resume. *)

(* determine_resume_step: the last step of which, and before which, every  *)
(* snapshot exists.                                                        *)
ResumableSteps(m) ==
  {k \in StepNums(m) : \A j \in 0..k : HasSnapshot(Name(m, j))}

DetermineResumeStep(m) ==
  IF ResumableSteps(m) = {} THEN NoStep
  ELSE CHOOSE k \in ResumableSteps(m) : \A j \in ResumableSteps(m) : j <= k

(* Mutant: only whether the step's snapshot exists.                        *)
VerifyResumeStepExists(m, num) == num <= DetermineResumeStep(m)

(* verify_resume_step: and the snapshots are in the manifest's order.      *)
VerifyResumeStep(m, num) ==
  /\ DetermineResumeStep(m) # NoStep /\ num <= DetermineResumeStep(m)
  /\ \A k \in 0..num : snaps[k + 1].name = Name(m, k)

(* Mutant: the state file of the resume step only.                         *)
StateFilesToVerifyLast(m, num) == {Name(m, num)}

(* verify_resume_state: filecmp.cmp on each of them; a missing one raises. *)
StateFilesToVerify(m, num) == {Name(m, k) : k \in 0..num}

(* The resume step of the manifest, unless it is step 0, is overridden by  *)
(* -r and -R.                                                              *)
RequestedStep(m, opt) ==
  IF opt = LastStep THEN DetermineResumeStep(m)
  ELSE IF opt # NoStep THEN opt
  ELSE IF m.resumeFrom # NoStep /\ m.resumeFrom # 0 THEN m.resumeFrom
  ELSE NoStep

(* Only a build that checkpoints takes options or a resume_from.           *)
OptionsAllowed(m, opt, p) ==
  \/ Available(m) /\ (opt = LastStep => DetermineResumeStep(m) # NoStep)
  \/ ~Available(m) /\ opt = NoStep /\ p = NoPause /\ m.resumeFrom = NoStep

PauseFollows(p, r) == p > r

-----------------------------------------------------------------------------
(* main_func *)

Run(next, k) == pc' = next /\ step' = k

(* The first command for step k, once those before it are done.            *)
RunStep(m, k) ==
  IF k >= NumSteps(m) THEN Run("end", 0)
  ELSE IF ~Available(m) THEN Run("script", k)
  ELSE IF k = resume THEN Run("rollback", k)
  ELSE Run("checkpoint", k)

StartBuild(m, opt, p) ==
  /\ pc = "idle" /\ builds < MaxBuilds
  /\ OptionsAllowed(m, opt, p)
  /\ LET r == RequestedStep(m, opt) IN
     /\ r # NoStep => VerifyResumeStep(m, r)
     /\ PauseFollows(p, r)
     /\ manifest' = m /\ resume' = r /\ pause' = p
     /\ builds' = builds + 1 /\ failed' = FALSE
     /\ IF r # NoStep /\ \E n \in StateFilesToVerify(m, r) : stateFiles[n] = {}
        THEN /\ pc' = "idle" /\ step' = 0
             /\ status' = "exception" /\ warned' = FALSE
        ELSE /\ warned' = (r # NoStep /\ \E n \in StateFilesToVerify(m, r) :
                                           stateFiles[n] # {m})
             /\ status' = "running"
             /\ Run("destroy", IF Available(m) THEN r + 1 ELSE NumSteps(m))
  /\ UNCHANGED <<zfs, cut, disk>>

AnyBuild ==
  \E m \in Manifests :
    \E opt \in {NoStep, LastStep} \cup StepNums(m), p \in {NoPause} \cup StepNums(m) :
      StartBuild(m, opt, p)

(* delete_checkpoint of the steps after the resume step, in order; zfs     *)
(* destroy fails if there is no such snapshot, and nobody looks.           *)
DestroySnapshot ==
  /\ pc = "destroy" /\ step < NumSteps(manifest)
  /\ \/ \E s \in DOMAIN snaps :
          snaps[s].name = Name(manifest, step) /\ snaps' = RemoveAt(snaps, s)
     \/ /\ "zfs" \in Faults \/ ~HasSnapshot(Name(manifest, step))
        /\ UNCHANGED snaps
  /\ Run("remove", step)
  /\ UNCHANGED <<zfs, request, failed, warned, status, builds, cut, area, empty,
                 stateFiles>>

RemoveStateFile ==
  /\ pc = "remove"
  /\ stateFiles' = [stateFiles EXCEPT ![Name(manifest, step)] = {}]
  /\ Run("destroy", step + 1)
  /\ UNCHANGED <<zfs, request, failed, warned, status, builds, cut, area, empty, snaps>>

CheckpointsDeleted ==
  /\ pc = "destroy" /\ step >= NumSteps(manifest)
  /\ Run(IF resume = NoStep THEN "cleanup" ELSE "register", 0)
  /\ UNCHANGED <<zfs, request, failed, warned, status, builds, cut, disk>>

(* cleanup_build_data_area on ZFS: zfs rollback -r build_data@empty.  The  *)
(* shell's exit status is compared with -1, so a failure goes unnoticed.   *)
RollbackToEmpty ==
  /\ pc = "cleanup" /\ zfs /\ empty # <<>>
  /\ \E works \in Flaky :
       IF works THEN area' = empty[1] /\ snaps' = <<>>
                ELSE UNCHANGED <<area, snaps>>
  /\ Run("register", 0)
  /\ UNCHANGED <<zfs, request, failed, warned, status, builds, cut, empty, stateFiles>>

(* Without @empty: zfs destroy -r build_data, equally unchecked.           *)
DestroyBuildData ==
  /\ pc = "cleanup" /\ zfs /\ empty = <<>>
  /\ \E works \in Flaky :
       IF works THEN area' = <<>> /\ snaps' = <<>>
                ELSE UNCHANGED <<area, snaps>>
  /\ Run("recreate", 0)
  /\ UNCHANGED <<zfs, request, failed, warned, status, builds, cut, empty, stateFiles>>

(* ti.create_zfs_build_data_area leaves an existing dataset alone; its     *)
(* failure does end the build.                                             *)
CreateBuildData ==
  /\ pc = "recreate"
  /\ \/ Run("snapshotEmpty", 0) /\ UNCHANGED status
     \/ "create" \in Faults /\ Run("idle", 0) /\ status' = "failed"
  /\ UNCHANGED <<zfs, request, failed, warned, builds, cut, disk>>

SnapshotEmpty ==
  /\ pc = "snapshotEmpty"
  /\ \E works \in Flaky : empty' = IF works THEN <<area>> ELSE empty
  /\ Run("register", 0)
  /\ UNCHANGED <<zfs, request, failed, warned, status, builds, cut, area, snaps,
                 stateFiles>>

(* Without ZFS: rmtree of build_data and the directories made anew, whose  *)
(* failure ends the build too.                                             *)
RemoveBuildData ==
  /\ pc = "cleanup" /\ ~zfs
  /\ area' = <<>>
  /\ \/ Run("register", 0) /\ UNCHANGED status
     \/ "create" \in Faults /\ Run("idle", 0) /\ status' = "failed"
  /\ UNCHANGED <<zfs, request, failed, warned, builds, cut, empty, snaps, stateFiles>>

(* Checkpoints may be gone on which later ones rest that are still there:  *)
(* the cleanup, or the rollback, that destroys these has yet to come.      *)
InDeletions ==
  \/ pc \in {"destroy", "remove", "cleanup"}
  \/ pc \in {"register", "rollback"} /\ resume # NoStep

(* add_finalizer_scripts: either every script up to the pause step can be  *)
(* executed and is queued, or the build has failed before it started.      *)
AddFinalizerScripts ==
  /\ pc = "register"
  /\ \/ RunStep(manifest, IF resume = NoStep THEN 0 ELSE resume)
        /\ UNCHANGED <<status, cut>>
     \/ "access" \in Faults /\ Run("idle", 0) /\ status' = "failed"
        /\ cut' = (cut \/ InDeletions)
  /\ UNCHANGED <<zfs, request, failed, warned, builds, disk>>

-----------------------------------------------------------------------------
(* DCFinalizer.execute, one queued command at a time. *)

(* Mutant: a failing script does not stop the build.                       *)
StopsNever(m) == FALSE
Stops(m) == m.stopOnErr

(* finalizer_checkpoint.py: zfs snapshot fails if the name is taken, and   *)
(* nobody looks.                                                           *)
TakeSnapshot ==
  /\ pc = "checkpoint"
  /\ \E works \in Flaky :
       snaps' = IF works /\ ~HasSnapshot(Name(manifest, step))
                THEN Append(snaps, [name |-> Name(manifest, step), content |-> area])
                ELSE snaps
  /\ Run("copy", step)
  /\ UNCHANGED <<zfs, request, failed, warned, status, builds, cut, area, empty,
                 stateFiles>>

(* Then the state file is copied, where a failure makes the script fail;   *)
(* the pause step's own script is not queued.                              *)
CopyManifest ==
  /\ pc = "copy"
  /\ LET next == IF step = pause THEN Run("end", 0) ELSE Run("script", step) IN
     \/ /\ stateFiles' = [stateFiles EXCEPT ![Name(manifest, step)] = {manifest}]
        /\ next /\ UNCHANGED failed
     \/ /\ "copy" \in Faults
        /\ failed' = TRUE /\ UNCHANGED stateFiles
        /\ IF Stops(manifest) THEN Run("end", 0) ELSE next
  /\ UNCHANGED <<zfs, request, warned, status, builds, cut, area, empty, snaps>>

(* Mutant: a rollback without -r that works all the same.                  *)
RolledBackAlone(s) == snaps
RolledBack(s)      == SubSeq(snaps, 1, s)

(* finalizer_rollback.py: zfs rollback -r destroys the later snapshots.    *)
Rollback ==
  /\ pc = "rollback"
  /\ \E works \in Flaky :
       IF works
       THEN \E s \in DOMAIN snaps :
              /\ snaps[s].name = Name(manifest, step)
              /\ area' = snaps[s].content /\ snaps' = RolledBack(s)
       ELSE UNCHANGED <<area, snaps>>
  /\ Run("script", step)
  /\ UNCHANGED <<zfs, request, failed, warned, status, builds, cut, empty, stateFiles>>

Script(m, k, done) == [name |-> Name(m, k), by |-> m, done |-> done]

RunScript ==
  /\ pc = "script"
  /\ \/ /\ area' = Append(area, Script(manifest, step, TRUE))
        /\ RunStep(manifest, step + 1) /\ UNCHANGED failed
     \/ /\ "script" \in Faults
        /\ area' = Append(area, Script(manifest, step, FALSE))
        /\ failed' = TRUE
        /\ IF Stops(manifest) THEN Run("end", 0) ELSE RunStep(manifest, step + 1)
  /\ UNCHANGED <<zfs, request, warned, status, builds, cut, empty, snaps, stateFiles>>

EndBuild ==
  /\ pc = "end"
  /\ status' = IF failed THEN "failed" ELSE "success"
  /\ Run("idle", 0)
  /\ UNCHANGED <<zfs, request, failed, warned, builds, cut, disk>>

(* The process is killed, perhaps in the middle of a script.               *)
Crash ==
  /\ "crash" \in Faults /\ pc # "idle"
  /\ area' = IF pc = "script" THEN Append(area, Script(manifest, step, FALSE))
             ELSE area
  /\ cut' = (cut \/ InDeletions)
  /\ Run("idle", 0) /\ status' = "crashed"
  /\ UNCHANGED <<zfs, request, failed, warned, builds, empty, snaps, stateFiles>>

-----------------------------------------------------------------------------
BuildInit ==
  /\ zfs \in BOOLEAN
  /\ manifest \in Manifests /\ resume = NoStep /\ pause = NoPause
  /\ pc = "idle" /\ step = 0 /\ failed = FALSE /\ warned = FALSE
  /\ status = "none" /\ builds = 0 /\ cut = FALSE
  /\ area = <<>> /\ empty = <<>> /\ snaps = <<>>
  /\ stateFiles = [n \in Names |-> {}]

NoMoreBuilds == pc = "idle" /\ builds = MaxBuilds /\ UNCHANGED buildVars

BuildNext ==
  \/ AnyBuild
  \/ DestroySnapshot \/ RemoveStateFile \/ CheckpointsDeleted
  \/ RollbackToEmpty \/ DestroyBuildData \/ CreateBuildData \/ SnapshotEmpty
  \/ RemoveBuildData
  \/ AddFinalizerScripts
  \/ TakeSnapshot \/ CopyManifest \/ Rollback \/ RunScript \/ EndBuild
  \/ Crash \/ NoMoreBuilds

BuildSpec == BuildInit /\ [][BuildNext]_buildVars

-----------------------------------------------------------------------------
(* Properties *)

AreaType == Seq([name : Names, by : Manifests, done : BOOLEAN])

(* Types: of the running build, whose steps are those of its manifest, and *)
(* of what it leaves on disk.                                              *)
ControlTypeOK ==
  /\ zfs \in BOOLEAN /\ manifest \in Manifests
  /\ resume \in {NoStep} \cup StepNums(manifest)
  /\ pause \in {NoPause} \cup StepNums(manifest) /\ pause > resume
  /\ pc \in {"idle", "destroy", "remove", "cleanup", "recreate",
             "snapshotEmpty", "register", "checkpoint", "copy", "rollback",
             "script", "end"}
  /\ step \in 0..NumSteps(manifest)
  /\ failed \in BOOLEAN /\ warned \in BOOLEAN
  /\ status \in {"none", "running", "success", "failed", "crashed", "exception"}
  /\ builds \in 0..MaxBuilds /\ cut \in BOOLEAN
DiskTypeOK ==
  /\ area \in AreaType
  /\ empty \in Seq(AreaType) /\ Len(empty) <= 1
  /\ snaps \in Seq([name : Names, content : AreaType])
  /\ stateFiles \in [Names -> {{}} \cup {{m} : m \in Manifests}]
BuildTypeOK == ControlTypeOK /\ DiskTypeOK

(* The scripts a finished build of m was asked to have run.                *)
Asked(m, p) == SubSeq(m.steps, 1, IF p = NoPause THEN NumSteps(m) ELSE p)

AsAsked == /\ Len(area) = Len(Asked(manifest, pause))
           /\ \A k \in DOMAIN area : area[k].name = Asked(manifest, pause)[k]

(* A build that reports success and did not warn leaves an area on which   *)
(* the manifest's scripts ran in its order, each once and nothing else,    *)
(* however often earlier builds failed, paused, were killed or used other  *)
(* manifests, and wherever this one resumed; each ran to its end, unless   *)
(* the manifest goes on after errors.                                      *)
UnwarnedBuildIsComplete ==
  status = "success" /\ ~warned =>
    AsAsked /\ (manifest.stopOnErr => \A k \in DOMAIN area : area[k].done)

(* Of the order this holds even if the build warned: verify_resume_step    *)
(* refuses manifests whose steps are not those of the snapshots, as long   *)
(* as no build failed or was killed between its deletion of checkpoints    *)
(* and the cleanup or rollback that destroys those resting on them.        *)
SuccessfulBuildIsAsAsked == status = "success" /\ ~cut => AsAsked

(* If a script in the area ran under another manifest, this build warned   *)
(* that its results may be indeterminate: the state files never lose track *)
(* of a step, whatever builds and manifests its history mixes.             *)
MixtureIsWarnedOf ==
  status = "success" /\ (\E k \in DOMAIN area : area[k].by # manifest) => warned

(* No two snapshots have the same name, and a snapshot's content is a      *)
(* prefix of the content of every later one: resuming never loses or       *)
(* repeats a step that stays.                                              *)
SnapshotsGrow ==
  \A s, t \in DOMAIN snaps : s < t =>
    /\ snaps[s].name # snaps[t].name
    /\ IsPrefix(snaps[s].content, snaps[t].content)

=============================================================================
