-------------------------- MODULE DistroBuildProofs --------------------------
(***************************************************************************)
(* The distribution constructor for every set of manifests, any number of  *)
(* builds and every fault: its types, and the snapshots of the build area, *)
(* which are always stages of one another and of the area itself. Then     *)
(* what a build that resumes relies on: the order of the snapshots and the *)
(* state files tell which scripts ran on a snapshot, with which manifest.  *)
(* For that the zfs commands are taken to work: their failures go          *)
(* unnoticed.                                                              *)
(***************************************************************************)
EXTENDS DistroBuild, FiniteSetTheorems, TLAPS

Scripts   == [name : Names, by : Manifests, done : BOOLEAN]
Snapshots == [name : Names, content : AreaType]

(* The snapshots sn are stages of one another, with distinct names, and of *)
(* the area ar.                                                            *)
Stages(sn, ar) ==
  /\ \A s, t \in DOMAIN sn : s < t =>
       sn[s].name # sn[t].name /\ IsPrefix(sn[s].content, sn[t].content)
  /\ \A s \in DOMAIN sn : IsPrefix(sn[s].content, ar)

-----------------------------------------------------------------------------
(* Prefixes, and what each command does to the stages. *)

LEMMA ContentIsAnArea ==
  ASSUME NEW sn \in Seq(Snapshots), NEW s \in DOMAIN sn
  PROVE  sn[s] \in Snapshots /\ sn[s].content \in AreaType
<1>1. sn[s] \in Snapshots
  OBVIOUS
<1> QED  BY <1>1 DEF Snapshots

LEMMA PrefixIs ==
  ASSUME NEW S, NEW s \in Seq(S), NEW t \in Seq(S)
  PROVE  IsPrefix(s, t) <=> Len(s) <= Len(t) /\ \A i \in 1 .. Len(s) : s[i] = t[i]
BY DEF IsPrefix

LEMMA PrefixOfItself ==
  ASSUME NEW S, NEW s \in Seq(S)
  PROVE  IsPrefix(s, s)
BY PrefixIs

LEMMA PrefixOfLonger ==
  ASSUME NEW S, NEW s \in Seq(S), NEW t \in Seq(S), NEW x \in S, IsPrefix(s, t)
  PROVE  IsPrefix(s, Append(t, x))
<1>1. Append(t, x) \in Seq(S) /\ Len(Append(t, x)) = Len(t) + 1 /\ \A i \in 1 .. Len(t) : Append(t, x)[i] = t[i]
  OBVIOUS
<1>2. Len(s) <= Len(t) /\ \A i \in 1 .. Len(s) : s[i] = t[i]
  BY PrefixIs
<1>3. Len(s) <= Len(Append(t, x)) /\ \A i \in 1 .. Len(s) : s[i] = Append(t, x)[i]
  BY <1>1, <1>2
<1> QED  BY <1>1, <1>3, PrefixIs

LEMMA NoStages == ASSUME NEW ar PROVE Stages(<<>>, ar)
BY DEF Stages

(* A script that runs, or is begun. *)
LEMMA ScriptKeepsStages ==
  ASSUME NEW sn \in Seq(Snapshots), NEW ar \in AreaType, NEW x \in Scripts, Stages(sn, ar)
  PROVE  Stages(sn, Append(ar, x))
<1>1. \A s \in DOMAIN sn : sn[s].content \in AreaType
  BY ContentIsAnArea
<1>2. \A s \in DOMAIN sn : IsPrefix(sn[s].content, Append(ar, x))
  BY <1>1, PrefixOfLonger DEF Stages, AreaType, Scripts
<1> QED  BY <1>2 DEF Stages

(* zfs snapshot under a name that is free. *)
LEMMA SnapshotKeepsStages ==
  ASSUME NEW sn \in Seq(Snapshots), NEW ar \in AreaType, NEW n \in Names, Stages(sn, ar),
         \A s \in DOMAIN sn : sn[s].name # n
  PROVE  /\ Append(sn, [name |-> n, content |-> ar]) \in Seq(Snapshots)
         /\ Stages(Append(sn, [name |-> n, content |-> ar]), ar)
<1> DEFINE new == [name |-> n, content |-> ar]
           all == Append(sn, new)
<1>1. new \in Snapshots /\ new.name = n /\ new.content = ar
  BY DEF Snapshots
<1> HIDE DEF new
<1>2. /\ all \in Seq(Snapshots) /\ DOMAIN all = 1 .. (Len(sn) + 1) /\ DOMAIN sn = 1 .. Len(sn)
      /\ all[Len(sn) + 1] = new /\ \A s \in 1 .. Len(sn) : all[s] = sn[s]
  BY <1>1
<1> HIDE DEF all
<1>3. IsPrefix(ar, ar)
  BY PrefixOfItself DEF AreaType
<1>4. ASSUME NEW s \in DOMAIN all
      PROVE  IsPrefix(all[s].content, ar)
  <2>1. CASE s = Len(sn) + 1
    BY <2>1, <1>1, <1>2, <1>3
  <2>2. CASE s # Len(sn) + 1
    BY <2>2, <1>2 DEF Stages
  <2> QED  BY <2>1, <2>2
<1>5. ASSUME NEW s \in DOMAIN all, NEW t \in DOMAIN all, s < t
      PROVE  all[s].name # all[t].name /\ IsPrefix(all[s].content, all[t].content)
  <2>0. s \in DOMAIN sn /\ all[s] = sn[s]
    BY <1>2, <1>5
  <2>1. CASE t = Len(sn) + 1
    BY <2>0, <2>1, <1>1, <1>2 DEF Stages
  <2>2. CASE t # Len(sn) + 1
    <3>1. t \in DOMAIN sn /\ all[t] = sn[t]
      BY <2>2, <1>2
    <3> QED  BY <2>0, <3>1, <1>5 DEF Stages
  <2> QED  BY <2>1, <2>2
<1>6. Stages(all, ar)
  BY <1>4, <1>5 DEF Stages
<1> QED  BY <1>2, <1>6 DEF all, new

(* zfs destroy: those before it keep their places, those after it lose one.*)
LEMMA Removed ==
  ASSUME NEW sn \in Seq(Snapshots), NEW k \in DOMAIN sn
  PROVE  LET left == RemoveAt(sn, k) IN
         /\ left \in Seq(Snapshots) /\ Len(left) = Len(sn) - 1 /\ k \in 1 .. Len(sn)
         /\ \A i \in 1 .. Len(left) : left[i] = sn[IF i < k THEN i ELSE i + 1]
<1> DEFINE a == SubSeq(sn, 1, k - 1)
           b == SubSeq(sn, k + 1, Len(sn))
<1>1. k \in 1 .. Len(sn) /\ Len(sn) \in Nat
  OBVIOUS
<1>2. a \in Seq(Snapshots) /\ Len(a) = k - 1 /\ \A i \in 1 .. k - 1 : a[i] = sn[i]
  BY <1>1
<1>3. b \in Seq(Snapshots) /\ Len(b) = Len(sn) - k /\ \A i \in 1 .. Len(sn) - k : b[i] = sn[i + k]
  BY <1>1
<1> HIDE DEF a, b
<1>4. a \o b \in Seq(Snapshots) /\ Len(a \o b) = Len(sn) - 1
  BY <1>1, <1>2, <1>3
<1>5. ASSUME NEW i \in 1 .. Len(sn) - 1 PROVE (a \o b)[i] = sn[IF i < k THEN i ELSE i + 1]
  <2>1. CASE i < k
    BY <2>1, <1>1, <1>2, <1>3
  <2>2. CASE i >= k
    <3>1. (a \o b)[i] = b[i - (k - 1)]
      BY <2>2, <1>1, <1>2, <1>3
    <3>2. i - (k - 1) \in 1 .. Len(sn) - k /\ (i - (k - 1)) + k = i + 1 /\ ~(i < k)
      BY <2>2, <1>1
    <3>3. b[i - (k - 1)] = sn[i + 1]
      BY <3>2, <1>3
    <3> QED  BY <3>1, <3>2, <3>3
  <2>3. i < k \/ i >= k
    BY <1>1
  <2> QED  BY <2>1, <2>2, <2>3
<1> QED  BY <1>1, <1>4, <1>5 DEF RemoveAt, a, b

LEMMA DestroyKeepsStages ==
  ASSUME NEW sn \in Seq(Snapshots), NEW ar, NEW k \in DOMAIN sn, Stages(sn, ar)
  PROVE  RemoveAt(sn, k) \in Seq(Snapshots) /\ Stages(RemoveAt(sn, k), ar)
<1> DEFINE left == RemoveAt(sn, k)
           old(i) == IF i < k THEN i ELSE i + 1
<1>1. /\ left \in Seq(Snapshots) /\ Len(left) = Len(sn) - 1 /\ k \in 1 .. Len(sn) /\ Len(sn) \in Nat
      /\ \A i \in 1 .. Len(left) : left[i] = sn[old(i)]
  BY Removed
<1> HIDE DEF left
<1>2. ASSUME NEW i \in DOMAIN left, NEW j \in DOMAIN left
      PROVE  /\ old(i) \in DOMAIN sn /\ left[i] = sn[old(i)]
             /\ old(j) \in DOMAIN sn /\ left[j] = sn[old(j)] /\ (i < j => old(i) < old(j))
  BY <1>1
<1> HIDE DEF old
<1> QED  BY <1>1, <1>2 DEF Stages, left

(* zfs rollback -r to a snapshot. *)
LEMMA RollbackKeepsStages ==
  ASSUME NEW sn \in Seq(Snapshots), NEW ar, NEW k \in DOMAIN sn, Stages(sn, ar)
  PROVE  /\ sn[k].content \in AreaType /\ SubSeq(sn, 1, k) \in Seq(Snapshots)
         /\ Stages(SubSeq(sn, 1, k), sn[k].content)
<1> DEFINE left == SubSeq(sn, 1, k)
<1>1. sn[k] \in Snapshots /\ sn[k].content \in AreaType
  BY ContentIsAnArea
<1>2. left \in Seq(Snapshots) /\ DOMAIN left = 1 .. k /\ \A i \in 1 .. k : i \in DOMAIN sn /\ left[i] = sn[i]
  OBVIOUS
<1> HIDE DEF left
<1>3. IsPrefix(sn[k].content, sn[k].content)
  BY <1>1, PrefixOfItself DEF AreaType
<1>4. ASSUME NEW i \in DOMAIN left PROVE IsPrefix(left[i].content, sn[k].content)
  <2>1. CASE i = k
    BY <2>1, <1>2, <1>3
  <2>2. CASE i # k
    BY <2>2, <1>2 DEF Stages
  <2> QED  BY <2>1, <2>2
<1> QED  BY <1>1, <1>2, <1>4 DEF Stages, left

-----------------------------------------------------------------------------
(* Where a build resumes. *)

LEMMA ManifestFacts ==
  ASSUME NEW m \in Manifests
  PROVE  /\ NumSteps(m) \in Nat /\ \A k \in StepNums(m) : Name(m, k) \in Names
         /\ m.resumeFrom \in {NoStep} \cup StepNums(m)
         /\ \A k \in StepNums(m) : k \in Nat /\ k + 1 <= NumSteps(m)
<1>1. m.steps \in Seq(Names) /\ m.resumeFrom \in -1..(Len(m.steps) - 1)
  BY ManifestsAssumption
<1>2. Len(m.steps) \in Nat /\ \A k \in 0..(Len(m.steps) - 1) : m.steps[k + 1] \in Names
  BY <1>1
<1> QED  BY <1>1, <1>2 DEF NumSteps, StepNums, Name, NoStep

(* The steps with a snapshot each are those below their number.            *)
LEMMA LastResumable ==
  ASSUME NEW m \in Manifests, ResumableSteps(m) # {}
  PROVE  \E k \in ResumableSteps(m) : \A j \in ResumableSteps(m) : j <= k
<1> DEFINE S == ResumableSteps(m)
           c == Cardinality(S)
<1>1. NumSteps(m) \in Nat
  BY ManifestFacts
<1>2. /\ S \subseteq 0..(NumSteps(m) - 1)
      /\ \A k \in S, j \in Nat : j <= k => j \in S
  BY <1>1 DEF ResumableSteps, StepNums
<1> HIDE DEF S
<1>3. IsFiniteSet(S) /\ c \in Nat /\ c > 0
  <2>1. IsFiniteSet(0..(NumSteps(m) - 1))
    BY <1>1, FS_Interval
  <2>2. IsFiniteSet(S)
    BY <1>2, <2>1, FS_Subset
  <2> QED  BY <2>2, FS_CardinalityType, FS_EmptySet DEF S
<1>4. ASSUME NEW k \in S PROVE k + 1 <= c
  <2>1. k \in Nat /\ 0..k \subseteq S
    BY <1>1, <1>2
  <2>2. Cardinality(0..k) = k + 1
    BY <2>1, FS_Interval
  <2> QED  BY <2>1, <2>2, <1>3, FS_Subset
<1>5. c - 1 \in S
  <2> SUFFICES ASSUME c - 1 \notin S PROVE FALSE
    OBVIOUS
  <2>1. S \subseteq 0..(c - 2)
    BY <1>1, <1>2, <1>3, <1>4
  <2>2. IsFiniteSet(0..(c - 2)) /\ Cardinality(0..(c - 2)) = c - 1
    <3>1. \A n \in Nat : n > 0 => IsFiniteSet(0..(n - 2)) /\ Cardinality(0..(n - 2)) = n - 1
      <4> TAKE n \in Nat
      <4> HAVE n > 0
      <4>1. 0 \in Int /\ n - 2 \in Int
        OBVIOUS
      <4>2. Cardinality(0..(n - 2)) = IF 0 > n - 2 THEN 0 ELSE (n - 2) - 0 + 1
        BY <4>1, FS_Interval
      <4> QED  BY <4>1, <4>2, FS_Interval
    <3> HIDE DEF c
    <3> QED  BY <1>3, <3>1
  <2>3. c <= c - 1
    BY <2>1, <2>2, FS_Subset
  <2> QED  BY <2>3, <1>3
<1> HIDE DEF c
<1>6. \A j \in S : j <= c - 1
  BY <1>1, <1>2, <1>3, <1>4
<1> QED  BY <1>5, <1>6 DEF S

LEMMA RequestedStepType ==
  ASSUME NEW m \in Manifests, NEW opt \in {NoStep, LastStep} \cup StepNums(m)
  PROVE  RequestedStep(m, opt) \in {NoStep} \cup StepNums(m)
<1>1. DetermineResumeStep(m) \in {NoStep} \cup StepNums(m)
  BY LastResumable DEF DetermineResumeStep, ResumableSteps
<1>2. m.resumeFrom \in {NoStep} \cup StepNums(m)
  BY ManifestFacts
<1> QED  BY <1>1, <1>2 DEF RequestedStep

-----------------------------------------------------------------------------
(* The invariant of all commands. *)

(* A command about a step is about a step of the manifest; only in a ZFS   *)
(* dataset are there snapshots.                                            *)
AtStep == pc \in {"remove", "checkpoint", "copy", "rollback", "script"} => step \in StepNums(manifest)
OnZfs  == (pc = "checkpoint" => zfs) /\ (~zfs => snaps = <<>>)
BuildInv == ControlTypeOK /\ DiskTypeOK /\ AtStep /\ OnZfs /\ Stages(snaps, area)

LEMMA BuildInvInit == BuildInit => BuildInv
<1> SUFFICES ASSUME BuildInit PROVE BuildInv
  OBVIOUS
<1> USE DEF BuildInit
<1>1. NumSteps(manifest) \in Nat
  BY ManifestFacts
<1>2. ControlTypeOK
  <2>1. step \in 0..NumSteps(manifest) /\ builds \in 0..MaxBuilds
    BY <1>1, BuildsAssumption
  <2>2. NoPause > NoStep
    BY SMT DEF NoPause, NoStep
  <2> QED  BY <2>1, <2>2, Zenon DEF ControlTypeOK
<1>3. DiskTypeOK
  BY DEF DiskTypeOK, AreaType
<1>4. AtStep /\ OnZfs /\ Stages(snaps, area)
  BY NoStages DEF AtStep, OnZfs
<1> QED  BY <1>2, <1>3, <1>4 DEF BuildInv

(* The control part of the invariant, and what it says of the next command.*)
ControlInv == ControlTypeOK /\ AtStep /\ (pc = "checkpoint" => zfs)

LEMMA RunStepType ==
  ASSUME ControlInv, UNCHANGED <<zfs, manifest>>, NEW k \in 0..NumSteps(manifest), RunStep(manifest, k)
  PROVE  /\ pc' \in {"end", "script", "rollback", "checkpoint"}
         /\ step' \in 0..NumSteps(manifest') /\ AtStep' /\ (pc' = "checkpoint" => zfs')
<1>1. manifest \in Manifests /\ NumSteps(manifest) \in Nat
  BY ManifestFacts DEF ControlInv, ControlTypeOK
<1> QED  BY <1>1 DEF RunStep, Run, AtStep, StepNums, NumSteps, Available

LEMMA StartBuildType ==
  ASSUME ControlInv, AnyBuild
  PROVE  ControlInv'
<1>1. PICK m \in Manifests : \E opt \in {NoStep, LastStep} \cup StepNums(m), p \in {NoPause} \cup StepNums(m) :
        StartBuild(m, opt, p)
  BY DEF AnyBuild
<1>2. PICK opt \in {NoStep, LastStep} \cup StepNums(m), p \in {NoPause} \cup StepNums(m) : StartBuild(m, opt, p)
  BY <1>1
<1> DEFINE r == RequestedStep(m, opt)
<1>3. r \in {NoStep} \cup StepNums(m)
  BY RequestedStepType
<1>4. /\ manifest' = m /\ resume' = r /\ pause' = p /\ p > r
      /\ builds < MaxBuilds /\ builds' = builds + 1 /\ failed' = FALSE
      /\ warned' \in BOOLEAN /\ zfs' = zfs /\ cut' = cut
      /\ \/ pc' = "idle" /\ step' = 0 /\ status' = "exception"
         \/ pc' = "destroy" /\ status' = "running" /\ step' = IF Available(m) THEN r + 1 ELSE NumSteps(m)
  BY <1>2 DEF StartBuild, PauseFollows, Run
<1> HIDE DEF r
<1>5. step' \in 0..NumSteps(m)
  BY <1>3, <1>4, ManifestFacts DEF NoStep
<1>6. builds' \in 0..MaxBuilds
  BY <1>4, BuildsAssumption DEF ControlInv, ControlTypeOK
<1>7. AtStep' /\ (pc' = "checkpoint" => zfs')
  BY <1>4 DEF AtStep
<1>8. ControlTypeOK'
  <2>1. resume' \in {NoStep} \cup StepNums(manifest') /\ pause' \in {NoPause} \cup StepNums(manifest') /\ pause' > resume'
    BY <1>3, <1>4
  <2> QED  BY <2>1, <1>4, <1>5, <1>6 DEF ControlInv, ControlTypeOK
<1> QED  BY <1>7, <1>8 DEF ControlInv

LEMMA ControlInvStep ==
  ASSUME ControlInv, BuildNext
  PROVE  ControlInv'
<1>0. manifest \in Manifests /\ NumSteps(manifest) \in Nat /\ \A k \in StepNums(manifest) : k + 1 \in 0..NumSteps(manifest)
  BY ManifestFacts DEF ControlInv, ControlTypeOK
<1>1. CASE AnyBuild
  BY <1>1, StartBuildType
<1>2. CASE DestroySnapshot
  <2>1. step' = step /\ pc' = "remove" /\ step \in StepNums(manifest')
    BY <1>0, <1>2 DEF DestroySnapshot, Run, ControlInv, ControlTypeOK, StepNums, request
  <2> QED  BY <1>2, <2>1 DEF DestroySnapshot, ControlInv, ControlTypeOK, AtStep, request, disk
<1>3. CASE RemoveStateFile
  <2>1. step' \in 0..NumSteps(manifest') /\ pc' = "destroy"
    BY <1>0, <1>3 DEF RemoveStateFile, Run, ControlInv, AtStep, request
  <2> QED  BY <1>3, <2>1 DEF RemoveStateFile, ControlInv, ControlTypeOK, AtStep, request, disk
<1>4. ASSUME NEW next \in {"cleanup", "register", "recreate", "snapshotEmpty", "idle", "end"}, Run(next, 0),
             UNCHANGED <<zfs, request, warned, failed, builds>>, cut' \in BOOLEAN,
             status' \in {"none", "running", "success", "failed", "crashed", "exception"}
      PROVE  ControlInv'
  <2>1. step' \in 0..NumSteps(manifest') /\ pc' = next
    BY <1>0, <1>4 DEF Run, request
  <2> QED  BY <1>4, <2>1 DEF ControlInv, ControlTypeOK, AtStep, request
<1>5. CASE CheckpointsDeleted \/ RollbackToEmpty \/ DestroyBuildData \/ CreateBuildData
           \/ SnapshotEmpty \/ RemoveBuildData \/ EndBuild \/ Crash
  <2>1. cut \in BOOLEAN /\ status \in {"none", "running", "success", "failed", "crashed", "exception"}
    BY DEF ControlInv, ControlTypeOK
  <2>2. CASE CheckpointsDeleted
    BY <2>1, <2>2, <1>4 DEF CheckpointsDeleted
  <2>3. CASE RollbackToEmpty
    BY <2>1, <2>3, <1>4 DEF RollbackToEmpty
  <2>4. CASE DestroyBuildData
    BY <2>1, <2>4, <1>4 DEF DestroyBuildData
  <2>5. CASE CreateBuildData
    BY <2>1, <2>5, <1>4 DEF CreateBuildData
  <2>6. CASE SnapshotEmpty
    BY <2>1, <2>6, <1>4 DEF SnapshotEmpty
  <2>7. CASE RemoveBuildData
    BY <2>1, <2>7, <1>4 DEF RemoveBuildData
  <2>8. CASE EndBuild
    BY <2>1, <2>8, <1>4 DEF EndBuild
  <2>9. CASE Crash
    BY <2>1, <2>9, <1>4 DEF Crash
  <2> QED  BY <1>5, <2>2, <2>3, <2>4, <2>5, <2>6, <2>7, <2>8, <2>9
<1>6. CASE AddFinalizerScripts
  <2>1. CASE Run("idle", 0) /\ status' = "failed" /\ cut' = (cut \/ InDeletions)
    <3>1. cut' \in BOOLEAN
      BY <2>1
    <3> QED  BY <1>4, <1>6, <2>1, <3>1 DEF AddFinalizerScripts
  <2>2. CASE RunStep(manifest, IF resume = NoStep THEN 0 ELSE resume) /\ UNCHANGED <<status, cut>>
    <3>1. (IF resume = NoStep THEN 0 ELSE resume) \in 0..NumSteps(manifest)
      BY <1>0 DEF ControlInv, ControlTypeOK, StepNums
    <3>2. UNCHANGED <<zfs, request, failed, warned, status, builds, cut>> /\ zfs' = zfs /\ manifest' = manifest
      BY <1>6, <2>2 DEF AddFinalizerScripts, request
    <3>3. /\ pc' \in {"end", "script", "rollback", "checkpoint"}
          /\ step' \in 0..NumSteps(manifest') /\ AtStep' /\ (pc' = "checkpoint" => zfs')
      BY <2>2, <3>1, <3>2, RunStepType
    <3> QED  BY <3>2, <3>3 DEF ControlInv, ControlTypeOK, request
  <2> QED  BY <1>6, <2>1, <2>2 DEF AddFinalizerScripts
<1>7. CASE TakeSnapshot
  <2>1. step' = step /\ pc' = "copy"
    BY <1>7 DEF TakeSnapshot, Run
  <2> QED  BY <1>7, <2>1 DEF TakeSnapshot, ControlInv, ControlTypeOK, AtStep, request
<1>8. CASE CopyManifest
  <2>0. failed' \in BOOLEAN
    BY <1>8 DEF CopyManifest, ControlInv, ControlTypeOK
  <2>1. step' \in 0..NumSteps(manifest') /\ (pc' = "end" \/ (pc' = "script" /\ step' = step))
    <3>1. Run("end", 0) \/ Run("script", step)
      BY <1>8, Zenon DEF CopyManifest
    <3>2. manifest' = manifest
      BY <1>8 DEF CopyManifest, request
    <3> QED  BY <1>0, <3>1, <3>2 DEF Run, ControlInv, ControlTypeOK
  <2> QED  BY <1>8, <2>0, <2>1 DEF CopyManifest, ControlInv, ControlTypeOK, AtStep, request
<1>9. CASE Rollback
  <2>1. step' = step /\ pc' = "script"
    BY <1>9 DEF Rollback, Run
  <2> QED  BY <1>9, <2>1 DEF Rollback, ControlInv, ControlTypeOK, AtStep, request
<1>10. CASE RunScript
  <2>1. step + 1 \in 0..NumSteps(manifest)
    BY <1>0, <1>10 DEF RunScript, ControlInv, AtStep
  <2>2. UNCHANGED <<zfs, request, warned, status, builds, cut>> /\ zfs' = zfs /\ manifest' = manifest /\ failed' \in BOOLEAN
    BY <1>10 DEF RunScript, request, ControlInv, ControlTypeOK
  <2>3. CASE Run("end", 0)
    <3>1. step' \in 0..NumSteps(manifest') /\ pc' = "end"
      BY <1>0, <2>2, <2>3 DEF Run
    <3> QED  BY <2>2, <3>1 DEF ControlInv, ControlTypeOK, AtStep, request
  <2>4. CASE RunStep(manifest, step + 1)
    <3>1. /\ pc' \in {"end", "script", "rollback", "checkpoint"}
          /\ step' \in 0..NumSteps(manifest') /\ AtStep' /\ (pc' = "checkpoint" => zfs')
      BY <2>1, <2>2, <2>4, RunStepType
    <3> QED  BY <2>2, <3>1 DEF ControlInv, ControlTypeOK, request
  <2> QED  BY <1>10, <2>3, <2>4 DEF RunScript
<1>11. CASE NoMoreBuilds
  BY <1>11 DEF NoMoreBuilds, buildVars, request, ControlInv, ControlTypeOK, AtStep
<1> QED  BY <1>1, <1>2, <1>3, <1>5, <1>6, <1>7, <1>8, <1>9, <1>10, <1>11 DEF BuildNext

-----------------------------------------------------------------------------
(* What the commands do to the area, the snapshots and the state files. *)

LEMMA ScriptType ==
  ASSUME BuildInv, pc = "script", NEW done \in BOOLEAN
  PROVE  Script(manifest, step, done) \in Scripts
BY ManifestFacts DEF BuildInv, ControlTypeOK, AtStep, Script, Scripts

(* An area that only grows keeps its snapshots' stages.                    *)
LEMMA GrowingAreaStep ==
  ASSUME BuildInv, NEW x \in Scripts, area' = Append(area, x), UNCHANGED <<zfs, empty, snaps, stateFiles>>
  PROVE  DiskTypeOK' /\ (~zfs' => snaps' = <<>>) /\ Stages(snaps, area)'
<1>1. Append(area, x) \in AreaType
  BY DEF BuildInv, DiskTypeOK, AreaType, Scripts
<1>2. Stages(snaps, Append(area, x))
  BY ScriptKeepsStages DEF BuildInv, DiskTypeOK, Snapshots
<1> QED  BY <1>1, <1>2 DEF BuildInv, DiskTypeOK, OnZfs

LEMMA DiskInvStep ==
  ASSUME BuildInv, BuildNext
  PROVE  DiskTypeOK' /\ (~zfs' => snaps' = <<>>) /\ Stages(snaps, area)'
<1> DEFINE Goal == DiskTypeOK' /\ (~zfs' => snaps' = <<>>) /\ Stages(snaps, area)'
<1>0. /\ manifest \in Manifests /\ snaps \in Seq(Snapshots) /\ area \in AreaType /\ empty \in Seq(AreaType)
      /\ Stages(snaps, area) /\ (~zfs => snaps = <<>>) /\ DiskTypeOK
  BY DEF BuildInv, ControlTypeOK, DiskTypeOK, OnZfs, Snapshots
<1>1. ASSUME UNCHANGED <<zfs, disk>> PROVE Goal
  BY <1>0, <1>1 DEF DiskTypeOK, disk
<1>2. CASE AnyBuild \/ CheckpointsDeleted \/ CreateBuildData \/ AddFinalizerScripts \/ EndBuild \/ NoMoreBuilds
  BY <1>1, <1>2 DEF AnyBuild, StartBuild, CheckpointsDeleted, CreateBuildData, AddFinalizerScripts, EndBuild,
                    NoMoreBuilds, buildVars
<1>3. CASE DestroySnapshot
  <2>1. CASE UNCHANGED snaps
    BY <1>1, <1>3, <2>1 DEF DestroySnapshot, disk
  <2>2. CASE \E s \in DOMAIN snaps : snaps' = RemoveAt(snaps, s)
    <3>1. PICK s \in DOMAIN snaps : snaps' = RemoveAt(snaps, s)
      BY <2>2
    <3>2. snaps' \in Seq(Snapshots) /\ Stages(snaps', area) /\ snaps # <<>>
      BY <1>0, <3>1, DestroyKeepsStages
    <3>3. UNCHANGED <<zfs, area, empty, stateFiles>>
      BY <1>3 DEF DestroySnapshot
    <3> QED  BY <1>0, <3>2, <3>3 DEF DiskTypeOK, Snapshots
  <2> QED  BY <1>3, <2>1, <2>2 DEF DestroySnapshot
<1>4. ASSUME UNCHANGED <<zfs, area, empty, snaps>>,
             stateFiles' = stateFiles \/ (\E n \in Names, f \in {{}} \cup {{m} : m \in Manifests} :
                                             stateFiles' = [stateFiles EXCEPT ![n] = f])
      PROVE  Goal
  BY <1>0, <1>4 DEF DiskTypeOK
<1>5. CASE RemoveStateFile
  <2>1. Name(manifest, step) \in Names
    BY <1>5, ManifestFacts DEF RemoveStateFile, BuildInv, ControlTypeOK, AtStep
  <2> QED  BY <1>4, <1>5, <2>1 DEF RemoveStateFile
<1>6. CASE CopyManifest
  <2>1. Name(manifest, step) \in Names
    BY <1>6, ManifestFacts DEF CopyManifest, BuildInv, ControlTypeOK, AtStep
  <2>2. UNCHANGED <<zfs, area, empty, snaps>>
    BY <1>6 DEF CopyManifest
  <2>3. stateFiles' = stateFiles \/ stateFiles' = [stateFiles EXCEPT ![Name(manifest, step)] = {manifest}]
    BY <1>6, Zenon DEF CopyManifest
  <2> QED  BY <1>0, <1>4, <2>1, <2>2, <2>3
<1>7. ASSUME UNCHANGED <<zfs, empty, stateFiles>>, area' \in AreaType, snaps' \in Seq(Snapshots),
             Stages(snaps', area'), ~zfs => snaps' = <<>>
      PROVE  Goal
  BY <1>0, <1>7 DEF DiskTypeOK, Snapshots
<1>8. CASE RollbackToEmpty
  <2>1. CASE UNCHANGED <<area, snaps>>
    BY <1>1, <1>8, <2>1 DEF RollbackToEmpty, disk
  <2>2. CASE area' = empty[1] /\ snaps' = <<>>
    <3>1. empty[1] \in AreaType /\ <<>> \in Seq(Snapshots)
      BY <1>0, <1>8 DEF RollbackToEmpty
    <3> QED  BY <1>7, <1>8, <2>2, <3>1, NoStages DEF RollbackToEmpty
  <2> QED  BY <1>8, <2>1, <2>2 DEF RollbackToEmpty
<1>9. CASE DestroyBuildData
  <2>1. CASE UNCHANGED <<area, snaps>>
    BY <1>1, <1>9, <2>1 DEF DestroyBuildData, disk
  <2>2. CASE area' = <<>> /\ snaps' = <<>>
    <3>1. <<>> \in AreaType /\ <<>> \in Seq(Snapshots)
      BY DEF AreaType
    <3> QED  BY <1>7, <1>9, <2>2, <3>1, NoStages DEF DestroyBuildData
  <2> QED  BY <1>9, <2>1, <2>2 DEF DestroyBuildData
<1>10. CASE SnapshotEmpty
  <2>1. empty' \in Seq(AreaType) /\ Len(empty') <= 1
    BY <1>0, <1>10 DEF SnapshotEmpty, DiskTypeOK
  <2>2. UNCHANGED <<zfs, area, snaps, stateFiles>>
    BY <1>10 DEF SnapshotEmpty
  <2> QED  BY <1>0, <2>1, <2>2 DEF DiskTypeOK
<1>11. CASE RemoveBuildData
  <2>1. UNCHANGED <<zfs, empty, snaps, stateFiles>> /\ area' = <<>> /\ snaps = <<>>
    BY <1>0, <1>11 DEF RemoveBuildData
  <2>2. <<>> \in AreaType
    BY DEF AreaType
  <2> QED  BY <1>0, <1>7, <2>1, <2>2, NoStages
<1>12. CASE TakeSnapshot
  <2>1. Name(manifest, step) \in Names /\ zfs
    BY <1>12, ManifestFacts DEF TakeSnapshot, BuildInv, ControlTypeOK, AtStep, OnZfs
  <2>2. UNCHANGED <<zfs, area, empty, stateFiles>>
    BY <1>12 DEF TakeSnapshot
  <2>3. CASE UNCHANGED snaps
    BY <1>1, <2>2, <2>3 DEF disk
  <2>4. CASE ~HasSnapshot(Name(manifest, step))
             /\ snaps' = Append(snaps, [name |-> Name(manifest, step), content |-> area])
    <3>1. snaps' \in Seq(Snapshots) /\ Stages(snaps', area)
      BY <1>0, <2>1, <2>4, SnapshotKeepsStages DEF HasSnapshot
    <3> QED  BY <1>0, <1>7, <2>1, <2>2, <3>1
  <2> QED  BY <1>12, <2>3, <2>4, Zenon DEF TakeSnapshot
<1>13. CASE Rollback
  <2>1. CASE UNCHANGED <<area, snaps>>
    BY <1>1, <1>13, <2>1 DEF Rollback, disk
  <2>2. CASE \E s \in DOMAIN snaps : area' = snaps[s].content /\ snaps' = SubSeq(snaps, 1, s)
    <3>1. PICK s \in DOMAIN snaps : area' = snaps[s].content /\ snaps' = SubSeq(snaps, 1, s)
      BY <2>2
    <3>2. area' \in AreaType /\ snaps' \in Seq(Snapshots) /\ Stages(snaps', area')
      BY <1>0, <3>1, RollbackKeepsStages
    <3>3. zfs
      BY <1>0, <3>1
    <3> QED  BY <1>7, <1>13, <3>2, <3>3 DEF Rollback
  <2> QED  BY <1>13, <2>1, <2>2 DEF Rollback, RolledBack
<1>14. CASE RunScript
  <2>1. PICK done \in BOOLEAN : area' = Append(area, Script(manifest, step, done))
    BY <1>14 DEF RunScript
  <2>2. Script(manifest, step, done) \in Scripts
    BY <1>14, ScriptType DEF RunScript
  <2> QED  BY <1>14, <2>1, <2>2, GrowingAreaStep DEF RunScript
<1>15. CASE Crash
  <2>1. CASE pc = "script"
    <3>1. Script(manifest, step, FALSE) \in Scripts
      BY <2>1, ScriptType
    <3> QED  BY <1>15, <2>1, <3>1, GrowingAreaStep DEF Crash
  <2>2. CASE pc # "script"
    BY <1>1, <1>15, <2>2 DEF Crash, disk
  <2> QED  BY <2>1, <2>2
<1> QED  BY <1>2, <1>3, <1>5, <1>6, <1>8, <1>9, <1>10, <1>11, <1>12, <1>13, <1>14, <1>15 DEF BuildNext

LEMMA BuildInvStep == BuildInv /\ [BuildNext]_buildVars => BuildInv'
<1> SUFFICES ASSUME BuildInv, [BuildNext]_buildVars PROVE BuildInv'
  OBVIOUS
<1>1. CASE BuildNext
  <2>1. ControlInv'
    BY <1>1, ControlInvStep DEF ControlInv, BuildInv, OnZfs
  <2>2. DiskTypeOK' /\ (~zfs' => snaps' = <<>>) /\ Stages(snaps, area)'
    BY <1>1, DiskInvStep
  <2> QED  BY <2>1, <2>2 DEF ControlInv, BuildInv, OnZfs
<1>2. CASE UNCHANGED buildVars
  BY <1>2 DEF buildVars, request, disk, BuildInv, ControlTypeOK, DiskTypeOK, AtStep, OnZfs
<1> QED  BY <1>1, <1>2

LEMMA BuildIsSafe == BuildSpec => []BuildInv
BY BuildInvInit, BuildInvStep, PTL DEF BuildSpec

-----------------------------------------------------------------------------
(* The state of the distribution constructor and of its build area is of   *)
(* its type: every command is about a step of the running manifest, and    *)
(* what it pauses at comes after what it resumes at.                       *)
THEOREM BuildTypesHold == BuildSpec => []BuildTypeOK
<1>1. BuildInv => BuildTypeOK
  BY DEF BuildInv, BuildTypeOK
<1> QED  BY <1>1, BuildIsSafe, PTL

(* The snapshots of the build area are always stages of one another with   *)
(* distinct names, for any number of builds with any manifests, however    *)
(* they fail, even if the zfs commands fail unnoticed (finalizer_checkpoint.py, *)
(* finalizer_rollback.py, delete_checkpoint, cleanup_build_data_area).     *)
THEOREM SnapshotsAlwaysGrow == BuildSpec => []SnapshotsGrow
<1>1. BuildInv => SnapshotsGrow
  BY DEF BuildInv, Stages, SnapshotsGrow
<1> QED  BY <1>1, BuildIsSafe, PTL

-----------------------------------------------------------------------------
(* What a build that resumes relies on. *)

(* The scripts of c are the first k of manifest m; and m's own, to the end *)
(* unless m goes on after errors.                                          *)
Named(c, m, k) == Len(c) = k /\ \A i \in 1 .. k : c[i].name = m.steps[i]
Good(c, m, k)  == Named(c, m, k) /\ \A i \in 1 .. k : c[i].by = m /\ (m.stopOnErr => c[i].done)

(* The first n snapshots are those of m's first n steps, in their order;   *)
(* their state files are m; the state files of the later steps are gone.   *)
Follows(sn, m, n) == n <= Len(sn) /\ \A i \in 1 .. n : sn[i].name = m.steps[i]
Vouched(sf, m, n) == \A i \in 1 .. n : sf[m.steps[i]] = {m}
Gone(sf, m, n)    == \A i \in (n + 1) .. NumSteps(m) : sf[m.steps[i]] = {}

(* What the control of a build knows of its steps.                         *)
Control2 ==
  /\ resume # NoStep \/ pause # NoPause => Available(manifest)
  /\ status = "success" => pc = "idle"
  /\ pc \in {"cleanup", "recreate", "snapshotEmpty"} => resume = NoStep
  /\ pc = "rollback" => step = resume
  /\ pc \in {"destroy", "remove"} => step > resume
  /\ pc \in {"checkpoint", "copy"} => Available(manifest) /\ step > resume /\ step <= pause
  /\ pc = "script" => step >= resume /\ step < pause

(* The dataset is empty where it has been emptied, and @empty is.          *)
Blank ==
  /\ empty = <<>> \/ empty = <<<<>>>>
  /\ pc \in {"recreate", "snapshotEmpty"} \/ (pc = "register" /\ resume = NoStep) => area = <<>> /\ snaps = <<>>

FilesGone ==
  Available(manifest) =>
    /\ pc \in {"destroy", "remove"} => \A i \in (resume + 2) .. step : stateFiles[manifest.steps[i]] = {}
    /\ pc \in {"cleanup", "recreate", "snapshotEmpty", "register", "rollback"} => Gone(stateFiles, manifest, resume + 1)
    /\ pc \in {"checkpoint", "copy"} => Gone(stateFiles, manifest, step)
    /\ pc = "script" => Gone(stateFiles, manifest, step + 1)

InOrder ==
  /\ pc \in {"destroy", "remove", "register", "rollback"} => Follows(snaps, manifest, resume + 1)
  /\ pc = "checkpoint" => Len(snaps) = step /\ Follows(snaps, manifest, step)
  /\ pc = "copy" => snaps[step + 1].content = area
  /\ pc = "copy" \/ (pc = "script" /\ Available(manifest)) => Len(snaps) = step + 1 /\ Follows(snaps, manifest, step + 1)

(* A build that neither warned nor failed has its own state files.         *)
OwnFiles ==
  ~warned /\ ~failed /\ Available(manifest) =>
    /\ pc \in {"destroy", "remove", "cleanup", "recreate", "snapshotEmpty", "register", "rollback"} =>
         Vouched(stateFiles, manifest, resume + 1)
    /\ pc \in {"checkpoint", "copy"} => Vouched(stateFiles, manifest, step)
    /\ pc = "script" => Vouched(stateFiles, manifest, step + 1)

(* State files that are all m vouch for the area and for the snapshots.    *)
AreaVouched ==
  /\ pc \in {"checkpoint", "copy"} /\ Vouched(stateFiles, manifest, step) => Good(area, manifest, step)
  /\ pc = "script" /\ (Available(manifest) => Vouched(stateFiles, manifest, step + 1)) => Good(area, manifest, step)
SnapsVouched(sn, sf) ==
  \A m \in Manifests : \A n \in 1 .. NumSteps(m) :
    Follows(sn, m, n) /\ Vouched(sf, m, n) => Good(sn[n].content, m, n - 1)

(* A snapshot whose state file is m was not taken before its place in m.   *)
Placed(sn, sf) ==
  \A m \in Manifests : \A n \in 1 .. NumSteps(m), t \in DOMAIN sn :
    sn[t].name = m.steps[n] /\ sf[m.steps[n]] = {m} => t <= n

(* Unless a build ended in its deletions, a snapshot holds the scripts of  *)
(* the snapshots before it.                                                *)
NamedAfter(sn, t) == Len(sn[t].content) = t - 1 /\ \A i \in 1 .. t - 1 : sn[t].content[i].name = sn[i].name
NamesChain ==
  ~cut =>
    /\ \A t \in DOMAIN snaps : (InDeletions => t <= resume + 1) => NamedAfter(snaps, t)
    /\ pc \in {"checkpoint", "copy", "script"} => Named(area, manifest, step)

NumAsked == IF pause = NoPause THEN NumSteps(manifest) ELSE pause
Finished ==
  (pc = "end" /\ ~failed) \/ status = "success" =>
    /\ ~warned => Good(area, manifest, NumAsked)
    /\ ~cut => Named(area, manifest, NumAsked)

Resumable ==
  /\ Control2 /\ Blank /\ FilesGone /\ InOrder /\ OwnFiles
  /\ AreaVouched /\ SnapsVouched(snaps, stateFiles) /\ Placed(snaps, stateFiles) /\ NamesChain /\ Finished
ResumeInv == BuildInv /\ Resumable

-----------------------------------------------------------------------------
(* What each command does to snapshots and state files. *)

LEMMA StepFacts ==
  ASSUME NEW m \in Manifests
  PROVE  /\ NumSteps(m) \in Nat /\ NumSteps(m) < 9999
         /\ \A i \in 1 .. NumSteps(m) : m.steps[i] \in Names
         /\ \A i, j \in 1 .. NumSteps(m) : m.steps[i] = m.steps[j] => i = j
<1>1. m.steps \in Seq(Names) /\ IsInjective(m.steps) /\ Len(m.steps) < 9999
  BY ManifestsAssumption
<1>2. DOMAIN m.steps = 1 .. Len(m.steps) /\ Len(m.steps) \in Nat /\ \A i \in 1 .. Len(m.steps) : m.steps[i] \in Names
  BY <1>1
<1>3. \A i, j \in 1 .. Len(m.steps) : m.steps[i] = m.steps[j] => i = j
  BY <1>1, <1>2 DEF IsInjective
<1> QED  BY <1>1, <1>2, <1>3 DEF NumSteps

(* zfs rollback -r: what comes first stays.                                *)
LEMMA FirstStays ==
  ASSUME NEW sn \in Seq(Snapshots), NEW k \in DOMAIN sn
  PROVE  LET left == SubSeq(sn, 1, k) IN
         left \in Seq(Snapshots) /\ Len(left) = k /\ k \in 1 .. Len(sn) /\ \A i \in 1 .. k : left[i] = sn[i]
OBVIOUS

LEMMA RollbackVouched ==
  ASSUME NEW sn \in Seq(Snapshots), NEW sf, NEW k \in DOMAIN sn, SnapsVouched(sn, sf), Placed(sn, sf)
  PROVE  SnapsVouched(SubSeq(sn, 1, k), sf) /\ Placed(SubSeq(sn, 1, k), sf)
<1> DEFINE left == SubSeq(sn, 1, k)
<1>1. left \in Seq(Snapshots) /\ Len(left) = k /\ k \in 1 .. Len(sn) /\ Len(sn) \in Nat /\ \A i \in 1 .. k : left[i] = sn[i]
  BY FirstStays
<1> HIDE DEF left
<1>2. SnapsVouched(left, sf)
  <2> SUFFICES ASSUME NEW m \in Manifests, NEW n \in 1 .. NumSteps(m), Follows(left, m, n), Vouched(sf, m, n)
               PROVE  Good(left[n].content, m, n - 1)
    BY DEF SnapsVouched
  <2>1. n \in 1 .. k /\ Follows(sn, m, n)
    BY <1>1, StepFacts DEF Follows
  <2> QED  BY <1>1, <2>1 DEF SnapsVouched
<1>3. Placed(left, sf)
  <2> SUFFICES ASSUME NEW m \in Manifests, NEW n \in 1 .. NumSteps(m), NEW t \in DOMAIN left,
                      left[t].name = m.steps[n], sf[m.steps[n]] = {m}
               PROVE  t <= n
    BY DEF Placed
  <2>1. t \in DOMAIN sn /\ left[t] = sn[t]
    BY <1>1
  <2> QED  BY <2>1 DEF Placed
<1> QED  BY <1>2, <1>3 DEF left

LEMMA DestroyVouched ==
  ASSUME NEW sn \in Seq(Snapshots), NEW sf, NEW k \in DOMAIN sn, SnapsVouched(sn, sf), Placed(sn, sf)
  PROVE  SnapsVouched(RemoveAt(sn, k), sf) /\ Placed(RemoveAt(sn, k), sf)
<1> DEFINE left == RemoveAt(sn, k)
<1>1. /\ left \in Seq(Snapshots) /\ Len(left) = Len(sn) - 1 /\ Len(sn) \in Nat /\ k \in 1 .. Len(sn)
      /\ \A i \in 1 .. Len(left) : left[i] = sn[IF i < k THEN i ELSE i + 1]
      /\ DOMAIN left = 1 .. Len(left) /\ DOMAIN sn = 1 .. Len(sn)
  BY Removed
<1> HIDE DEF left
<1>2. SnapsVouched(left, sf)
  <2> SUFFICES ASSUME NEW m \in Manifests, NEW n \in 1 .. NumSteps(m), Follows(left, m, n), Vouched(sf, m, n)
               PROVE  Good(left[n].content, m, n - 1)
    BY DEF SnapsVouched
  <2>1. n \in 1 .. Len(left) /\ left[n].name = m.steps[n] /\ sf[m.steps[n]] = {m}
    BY <1>1, StepFacts DEF Follows, Vouched
  <2>2. n < k
    <3> SUFFICES ASSUME n >= k PROVE FALSE
      BY <1>1, <2>1
    <3>1. n + 1 \in DOMAIN sn /\ sn[n + 1].name = m.steps[n]
      BY <1>1, <2>1
    <3>2. n + 1 <= n
      BY <2>1, <3>1 DEF Placed
    <3> QED  BY <3>2, <2>1, <1>1
  <2>3. Follows(sn, m, n) /\ left[n] = sn[n]
    <3>1. \A i \in 1 .. n : i \in 1 .. Len(left) /\ left[i] = sn[i]
      BY <1>1, <2>1, <2>2
    <3>2. n <= Len(sn) /\ n \in 1 .. n
      BY <1>1, <2>1
    <3> QED  BY <3>1, <3>2 DEF Follows
  <2> QED  BY <2>3 DEF SnapsVouched
<1>3. Placed(left, sf)
  <2> SUFFICES ASSUME NEW m \in Manifests, NEW n \in 1 .. NumSteps(m), NEW t \in DOMAIN left,
                      left[t].name = m.steps[n], sf[m.steps[n]] = {m}
               PROVE  t <= n
    BY DEF Placed
  <2> DEFINE u == IF t < k THEN t ELSE t + 1
  <2>1. u \in DOMAIN sn /\ left[t] = sn[u] /\ t <= u /\ t \in Nat /\ u \in Nat /\ n \in Nat
    BY <1>1, StepFacts
  <2>2. u <= n
    BY <2>1 DEF Placed
  <2> HIDE DEF u
  <2> QED  BY <2>1, <2>2
<1> QED  BY <1>2, <1>3 DEF left

(* zfs snapshot, while the state file is gone.                             *)
LEMMA SnapshotVouched ==
  ASSUME NEW sn \in Seq(Snapshots), NEW sf, NEW new \in Snapshots, sf[new.name] = {},
         SnapsVouched(sn, sf), Placed(sn, sf)
  PROVE  SnapsVouched(Append(sn, new), sf) /\ Placed(Append(sn, new), sf)
<1> DEFINE all == Append(sn, new)
<1>1. /\ all \in Seq(Snapshots) /\ Len(all) = Len(sn) + 1 /\ Len(sn) \in Nat /\ all[Len(sn) + 1] = new
      /\ DOMAIN all = 1 .. Len(all) /\ DOMAIN sn = 1 .. Len(sn) /\ \A i \in 1 .. Len(sn) : all[i] = sn[i]
  OBVIOUS
<1> HIDE DEF all
<1>2. SnapsVouched(all, sf)
  <2> SUFFICES ASSUME NEW m \in Manifests, NEW n \in 1 .. NumSteps(m), Follows(all, m, n), Vouched(sf, m, n)
               PROVE  Good(all[n].content, m, n - 1)
    BY DEF SnapsVouched
  <2>1. n \in 1 .. Len(all) /\ all[n].name = m.steps[n] /\ sf[m.steps[n]] = {m}
    BY <1>1, StepFacts DEF Follows, Vouched
  <2>2. n \in 1 .. Len(sn)
    <3>1. all[n] # new
      BY <2>1
    <3> QED  BY <1>1, <2>1, <3>1
  <2>3. Follows(sn, m, n) /\ all[n] = sn[n]
    BY <1>1, <2>2 DEF Follows
  <2> QED  BY <2>3 DEF SnapsVouched
<1>3. Placed(all, sf)
  <2> SUFFICES ASSUME NEW m \in Manifests, NEW n \in 1 .. NumSteps(m), NEW t \in DOMAIN all,
                      all[t].name = m.steps[n], sf[m.steps[n]] = {m}
               PROVE  t <= n
    BY DEF Placed
  <2>1. t \in DOMAIN sn /\ all[t] = sn[t]
    <3>1. all[t] # new
      OBVIOUS
    <3> QED  BY <1>1, <3>1
  <2> QED  BY <2>1 DEF Placed
<1> QED  BY <1>2, <1>3 DEF all

(* A state file is removed.                                                *)
LEMMA RemoveVouched ==
  ASSUME NEW sn, NEW sf \in [Names -> {{}} \cup {{m} : m \in Manifests}], NEW x \in Names,
         SnapsVouched(sn, sf), Placed(sn, sf)
  PROVE  SnapsVouched(sn, [sf EXCEPT ![x] = {}]) /\ Placed(sn, [sf EXCEPT ![x] = {}])
<1> DEFINE new == [sf EXCEPT ![x] = {}]
<1>1. ASSUME NEW m \in Manifests, NEW n \in 1 .. NumSteps(m), new[m.steps[n]] = {m}
      PROVE  sf[m.steps[n]] = {m}
  <2>1. m.steps[n] \in Names
    BY StepFacts
  <2> QED  BY <1>1, <2>1
<1> HIDE DEF new
<1>2. ASSUME NEW m \in Manifests, NEW n \in 1 .. NumSteps(m), Vouched(new, m, n)
      PROVE  Vouched(sf, m, n)
  <2>1. NumSteps(m) \in Nat
    BY StepFacts
  <2>2. \A i \in 1 .. n : i \in 1 .. NumSteps(m)
    BY <2>1
  <2> QED  BY <1>1, <1>2, <2>2 DEF Vouched
<1>3. SnapsVouched(sn, new)
  BY <1>2 DEF SnapsVouched
<1>4. Placed(sn, new)
  BY <1>1 DEF Placed
<1> QED  BY <1>3, <1>4 DEF new

(* The state file of the snapshot that was just taken is written.          *)
LEMMA CopyVouched ==
  ASSUME NEW sn \in Seq(Snapshots), NEW sf \in [Names -> {{}} \cup {{m} : m \in Manifests}],
         NEW x \in Manifests, NEW k \in 1 .. NumSteps(x), Len(sn) = k, Follows(sn, x, k),
         Vouched(sf, x, k - 1) => Good(sn[k].content, x, k - 1),
         SnapsVouched(sn, sf), Placed(sn, sf)
  PROVE  LET new == [sf EXCEPT ![x.steps[k]] = {x}] IN SnapsVouched(sn, new) /\ Placed(sn, new)
<1> DEFINE new == [sf EXCEPT ![x.steps[k]] = {x}]
<1>0. /\ NumSteps(x) \in Nat /\ x.steps[k] \in Names /\ k \in Nat
      /\ \A i, j \in 1 .. NumSteps(x) : x.steps[i] = x.steps[j] => i = j
  BY StepFacts
<1>1. /\ new[x.steps[k]] = {x}
      /\ \A y \in Names : y # x.steps[k] => new[y] = sf[y]
  BY <1>0
<1> HIDE DEF new
<1>2. ASSUME NEW m \in Manifests, NEW n \in 1 .. NumSteps(m), new[m.steps[n]] = {m}
      PROVE  sf[m.steps[n]] = {m} \/ (m = x /\ n = k)
  <2>1. m.steps[n] \in Names
    BY StepFacts
  <2>2. CASE m.steps[n] # x.steps[k]
    BY <1>1, <1>2, <2>1, <2>2
  <2>3. CASE m.steps[n] = x.steps[k]
    <3>1. m = x
      BY <1>1, <1>2, <2>3
    <3> QED  BY <1>0, <2>3, <3>1
  <2> QED  BY <2>2, <2>3
<1>3. Placed(sn, new)
  <2> SUFFICES ASSUME NEW m \in Manifests, NEW n \in 1 .. NumSteps(m), NEW t \in DOMAIN sn,
                      sn[t].name = m.steps[n], new[m.steps[n]] = {m}
               PROVE  t <= n
    BY DEF Placed
  <2>1. CASE sf[m.steps[n]] = {m}
    BY <2>1 DEF Placed
  <2>2. CASE n = k
    BY <2>2, <1>0
  <2> QED  BY <1>2, <2>1, <2>2
<1>4. SnapsVouched(sn, new)
  <2> SUFFICES ASSUME NEW m \in Manifests, NEW n \in 1 .. NumSteps(m), Follows(sn, m, n), Vouched(new, m, n)
               PROVE  Good(sn[n].content, m, n - 1)
    BY DEF SnapsVouched
  <2>0. NumSteps(m) \in Nat /\ n \in Nat /\ n <= k /\ \A i \in 1 .. n : i \in 1 .. NumSteps(m)
    BY StepFacts DEF Follows
  <2>1. \A i \in 1 .. n : sf[m.steps[i]] = {m} \/ (m = x /\ i = k)
    BY <1>2, <2>0 DEF Vouched
  <2>2. CASE Vouched(sf, m, n)
    BY <2>2 DEF SnapsVouched
  <2>3. CASE ~Vouched(sf, m, n)
    <3>1. m = x /\ n = k
      BY <1>0, <2>0, <2>1, <2>3 DEF Vouched
    <3>2. Vouched(sf, x, k - 1)
      BY <1>0, <2>1, <3>1 DEF Vouched
    <3> QED  BY <3>1, <3>2
  <2> QED  BY <2>2, <2>3
<1> QED  BY <1>3, <1>4 DEF new

-----------------------------------------------------------------------------
(* The commands, one by one. *)

LEMMA TypeFacts ==
  ASSUME ResumeInv
  PROVE  /\ manifest \in Manifests /\ NumSteps(manifest) \in Nat /\ NumSteps(manifest) < NoPause
         /\ resume \in Int /\ resume >= -1 /\ resume < pause /\ pause \in Int
         /\ resume # NoStep => resume \in 0 .. NumSteps(manifest) - 1
         /\ pause # NoPause => pause \in 0 .. NumSteps(manifest) - 1
         /\ step \in 0 .. NumSteps(manifest)
         /\ pc \in {"remove", "checkpoint", "copy", "rollback", "script"} => step < NumSteps(manifest)
         /\ snaps \in Seq(Snapshots) /\ area \in AreaType /\ empty \in Seq(AreaType)
         /\ stateFiles \in [Names -> {{}} \cup {{m} : m \in Manifests}]
         /\ (pc = "checkpoint" => zfs) /\ (~zfs => snaps = <<>>)
<1>1. manifest \in Manifests
  BY DEF ResumeInv, BuildInv, ControlTypeOK
<1>2. NumSteps(manifest) \in Nat /\ NumSteps(manifest) < 9999
  BY <1>1, StepFacts
<1>3. /\ resume \in {NoStep} \cup StepNums(manifest) /\ pause \in {NoPause} \cup StepNums(manifest)
      /\ pause > resume /\ step \in 0 .. NumSteps(manifest)
  BY DEF ResumeInv, BuildInv, ControlTypeOK
<1>4. pc \in {"remove", "checkpoint", "copy", "rollback", "script"} => step \in StepNums(manifest)
  BY DEF ResumeInv, BuildInv, AtStep
<1>5. /\ snaps \in Seq(Snapshots) /\ area \in AreaType /\ empty \in Seq(AreaType)
      /\ stateFiles \in [Names -> {{}} \cup {{m} : m \in Manifests}]
  BY DEF ResumeInv, BuildInv, DiskTypeOK, Snapshots
<1>6. (pc = "checkpoint" => zfs) /\ (~zfs => snaps = <<>>)
  BY DEF ResumeInv, BuildInv, OnZfs
<1> QED  BY <1>1, <1>2, <1>3, <1>4, <1>5, <1>6, SMT DEF StepNums, NoStep, NoPause

(* A build that ends before its scripts do says nothing of its area.       *)
LEMMA ToIdle ==
  ASSUME ResumeInv, pc' = "idle", status' # "success",
         resume' # NoStep \/ pause' # NoPause => Available(manifest)',
         UNCHANGED <<empty, stateFiles, snaps>>, ~cut' => ~cut /\ (~InDeletions \/ snaps = <<>>)
  PROVE  Resumable'
<1>1. Control2' /\ FilesGone' /\ InOrder' /\ OwnFiles' /\ AreaVouched'
  BY DEF Control2, FilesGone, InOrder, OwnFiles, AreaVouched, Available
<1>2. Blank' /\ Finished'
  BY DEF ResumeInv, Resumable, Blank, Finished
<1>3. SnapsVouched(snaps, stateFiles)' /\ Placed(snaps, stateFiles)'
  BY DEF ResumeInv, Resumable
<1>4. NamesChain'
  <2> SUFFICES ASSUME ~cut', NEW t \in DOMAIN snaps PROVE NamedAfter(snaps, t)
    BY DEF NamesChain, InDeletions, NamedAfter
  <2>1. ~cut /\ ~InDeletions
    OBVIOUS
  <2> QED  BY <2>1 DEF ResumeInv, Resumable, NamesChain
<1> QED  BY <1>1, <1>2, <1>3, <1>4 DEF Resumable

LEMMA IdleSteps ==
  ASSUME ResumeInv, BuildNext, pc' = "idle", ~AnyBuild, pc # "end", pc # "idle"
  PROVE  Resumable'
<1>1. UNCHANGED <<zfs, manifest, resume, pause, empty, stateFiles, snaps>> /\ status' # "success"
      /\ (~cut' => ~cut /\ (~InDeletions \/ snaps = <<>>))
  <2>1. CASE CreateBuildData
    BY <2>1 DEF CreateBuildData, Run, InDeletions, request, disk, ResumeInv, Resumable, Control2
  <2>2. CASE RemoveBuildData
    BY <2>2, TypeFacts DEF RemoveBuildData, Run, request, ResumeInv, Resumable, Control2
  <2>3. CASE AddFinalizerScripts
    <3>1. status' = "failed" /\ cut' = (cut \/ InDeletions) /\ UNCHANGED <<zfs, request, disk>>
      BY <2>3 DEF AddFinalizerScripts, RunStep, Run
    <3> QED  BY <3>1 DEF request, disk
  <2>4. CASE Crash
    BY <2>4 DEF Crash, request
  <2> QED  BY <2>1, <2>2, <2>3, <2>4 DEF BuildNext, Run, RunStep, NoMoreBuilds, EndBuild, DestroySnapshot,
       RemoveStateFile, CheckpointsDeleted, RollbackToEmpty, DestroyBuildData, SnapshotEmpty, TakeSnapshot,
       CopyManifest, Rollback, RunScript
<1>2. resume' # NoStep \/ pause' # NoPause => Available(manifest)'
  BY <1>1 DEF ResumeInv, Resumable, Control2, Available
<1> QED  BY <1>1, <1>2, ToIdle

(* As many snapshots as steps that have one: no two have the same name.    *)
LEMMA EnoughSnapshots ==
  ASSUME NEW m \in Manifests, NEW n \in 0 .. NumSteps(m), snaps \in Seq(Snapshots),
         \A i \in 1 .. n : HasSnapshot(m.steps[i])
  PROVE  n <= Len(snaps)
<1>1. n \in Nat /\ Len(snaps) \in Nat /\ NumSteps(m) \in Nat
  BY StepFacts
<1>2. Cardinality(1 .. n) = n /\ IsFiniteSet(1 .. n)
  BY <1>1, FS_Interval
<1>3. Cardinality(1 .. Len(snaps)) = Len(snaps) /\ IsFiniteSet(1 .. Len(snaps))
  <2>1. \A q \in Nat : Cardinality(1 .. q) = q /\ IsFiniteSet(1 .. q)
    BY FS_Interval
  <2> QED  BY <1>1, <2>1
<1> SUFFICES ASSUME Len(snaps) < n PROVE FALSE
  BY <1>1
<1> DEFINE f == [i \in 1 .. n |-> CHOOSE s \in DOMAIN snaps : snaps[s].name = m.steps[i]]
<1>4. ASSUME NEW i \in 1 .. n PROVE f[i] \in 1 .. Len(snaps) /\ snaps[f[i]].name = m.steps[i]
  <2>1. \E s \in DOMAIN snaps : snaps[s].name = m.steps[i]
    BY DEF HasSnapshot
  <2>2. f[i] \in DOMAIN snaps /\ snaps[f[i]].name = m.steps[i]
    BY <2>1
  <2> QED  BY <2>2
<1>5. f \in [1 .. n -> 1 .. Len(snaps)]
  BY <1>4
<1> HIDE DEF f
<1>6. PICK i, j \in 1 .. n : i # j /\ f[i] = f[j]
  BY <1>2, <1>3, <1>5, FS_PigeonHole
<1>7. m.steps[i] = m.steps[j] /\ i \in 1 .. NumSteps(m) /\ j \in 1 .. NumSteps(m)
  BY <1>1, <1>4, <1>6
<1> QED  BY <1>6, <1>7, StepFacts

(* verify_resume_step: the snapshots begin with those of the steps up to   *)
(* the one to resume at.                                                   *)
LEMMA VerifiedOrder ==
  ASSUME NEW m \in Manifests, NEW r \in {NoStep} \cup StepNums(m), snaps \in Seq(Snapshots),
         r # NoStep => VerifyResumeStep(m, r)
  PROVE  Follows(snaps, m, r + 1)
<1>0. NumSteps(m) \in Nat
  BY StepFacts
<1>1. CASE r = NoStep
  BY <1>1 DEF Follows, NoStep
<1>2. CASE r # NoStep
  <2>1. r \in StepNums(m) /\ r \in Nat /\ r + 1 \in 0 .. NumSteps(m)
    BY <1>0, <1>2 DEF StepNums
  <2>2. DetermineResumeStep(m) \in ResumableSteps(m) /\ r <= DetermineResumeStep(m)
    BY <1>2, LastResumable DEF VerifyResumeStep, DetermineResumeStep
  <2>3. \A i \in 1 .. r + 1 : HasSnapshot(m.steps[i])
    <3> TAKE i \in 1 .. r + 1
    <3>1. i - 1 \in 0 .. DetermineResumeStep(m) /\ (i - 1) + 1 = i
      BY <2>1, <2>2, <1>0 DEF ResumableSteps, StepNums
    <3>2. HasSnapshot(Name(m, i - 1))
      BY <2>2, <3>1 DEF ResumableSteps
    <3> QED  BY <3>1, <3>2 DEF Name
  <2>4. \A i \in 1 .. r + 1 : snaps[i].name = m.steps[i]
    <3> TAKE i \in 1 .. r + 1
    <3>1. i - 1 \in 0 .. r /\ (i - 1) + 1 = i
      BY <2>1
    <3>2. snaps[(i - 1) + 1].name = Name(m, i - 1)
      BY <1>2, <3>1 DEF VerifyResumeStep
    <3> QED  BY <3>1, <3>2 DEF Name
  <2> QED  BY <2>1, <2>3, <2>4, EnoughSnapshots DEF Follows
<1> QED  BY <1>1, <1>2

LEMMA StartStep ==
  ASSUME ResumeInv, AnyBuild
  PROVE  Resumable'
<1>1. PICK m \in Manifests : \E opt \in {NoStep, LastStep} \cup StepNums(m), p \in {NoPause} \cup StepNums(m) :
        StartBuild(m, opt, p)
  BY DEF AnyBuild
<1>2. PICK opt \in {NoStep, LastStep} \cup StepNums(m), p \in {NoPause} \cup StepNums(m) : StartBuild(m, opt, p)
  BY <1>1
<1> DEFINE r == RequestedStep(m, opt)
<1>3. r \in {NoStep} \cup StepNums(m) /\ NumSteps(m) \in Nat
  BY RequestedStepType, StepFacts
<1>4. /\ manifest' = m /\ resume' = r /\ pause' = p /\ p > r /\ pc = "idle" /\ failed' = FALSE
      /\ r # NoStep => VerifyResumeStep(m, r)
      /\ UNCHANGED <<zfs, cut, area, empty, snaps, stateFiles>>
  BY <1>2 DEF StartBuild, PauseFollows, disk
<1>5. r # NoStep \/ p # NoPause => Available(m)
  <2>1. ~Available(m) => opt = NoStep /\ p = NoPause /\ m.resumeFrom = NoStep
    BY <1>2 DEF StartBuild, OptionsAllowed
  <2>2. opt = NoStep /\ m.resumeFrom = NoStep => r = NoStep
    BY DEF RequestedStep, NoStep, LastStep
  <2> QED  BY <2>1, <2>2
<1>6. Follows(snaps, m, r + 1)
  BY <1>3, <1>4, VerifiedOrder, TypeFacts
<1>7. ~InDeletions
  BY <1>4 DEF InDeletions
<1>8. CASE pc' = "idle" /\ status' = "exception"
  BY <1>4, <1>5, <1>7, <1>8, ToIdle DEF Available
<1>9. CASE /\ pc' = "destroy" /\ status' = "running" /\ step' = (IF Available(m) THEN r + 1 ELSE NumSteps(m))
           /\ warned' = (r # NoStep /\ \E n \in StateFilesToVerify(m, r) : stateFiles[n] # {m})
  <2> HIDE DEF r
  <2>1. Control2'
    <3>1. step' > resume'
      BY <1>3, <1>4, <1>9 DEF StepNums, NoStep
    <3> QED  BY <1>4, <1>5, <1>9, <3>1 DEF Control2, Available
  <2>2. Blank' /\ Finished' /\ AreaVouched'
    BY <1>4, <1>9 DEF ResumeInv, Resumable, Blank, Finished, AreaVouched
  <2>3. SnapsVouched(snaps, stateFiles)' /\ Placed(snaps, stateFiles)'
    BY <1>4 DEF ResumeInv, Resumable
  <2>4. FilesGone'
    BY <1>3, <1>4, <1>9 DEF FilesGone, Available, StepNums, NoStep
  <2>5. InOrder'
    BY <1>4, <1>6, <1>9 DEF InOrder
  <2>6. OwnFiles'
    <3>1. ~warned' => Vouched(stateFiles, m, r + 1)
      <4> SUFFICES ASSUME ~warned', NEW i \in 1 .. r + 1 PROVE stateFiles[m.steps[i]] = {m}
        BY DEF Vouched
      <4>1. r # NoStep /\ i - 1 \in 0 .. r /\ (i - 1) + 1 = i
        BY <1>3 DEF NoStep, StepNums
      <4>2. Name(m, i - 1) \in StateFilesToVerify(m, r)
        BY <4>1 DEF StateFilesToVerify
      <4> QED  BY <1>9, <4>1, <4>2 DEF Name
    <3> QED  BY <1>4, <1>9, <3>1 DEF OwnFiles
  <2>7. NamesChain'
    BY <1>4, <1>7, <1>9 DEF ResumeInv, Resumable, NamesChain, NamedAfter
  <2> QED  BY <2>1, <2>2, <2>3, <2>4, <2>5, <2>6, <2>7 DEF Resumable
<1>10. (pc' = "idle" /\ status' = "exception")
       \/ /\ pc' = "destroy" /\ status' = "running" /\ step' = (IF Available(m) THEN r + 1 ELSE NumSteps(m))
          /\ warned' = (r # NoStep /\ \E n \in StateFilesToVerify(m, r) : stateFiles[n] # {m})
  BY <1>2 DEF StartBuild, Run
<1> QED  BY <1>8, <1>9, <1>10

(* The steps to be destroyed are none of those before the resume step.     *)
LEMMA DestroyStep ==
  ASSUME ResumeInv, "zfs" \notin Faults, DestroySnapshot
  PROVE  Resumable'
<1>1. /\ pc = "destroy" /\ step < NumSteps(manifest) /\ step > resume /\ pc' = "remove" /\ step' = step
      /\ UNCHANGED <<zfs, manifest, resume, pause, failed, warned, status, cut, area, empty, stateFiles>>
  BY DEF DestroySnapshot, Run, request, ResumeInv, Resumable, Control2
<1>2. PICK gone \in BOOLEAN :
        IF gone THEN \E k \in DOMAIN snaps : snaps[k].name = manifest.steps[step + 1] /\ snaps' = RemoveAt(snaps, k)
        ELSE snaps' = snaps
  BY DEF DestroySnapshot, Name
<1>3. /\ Follows(snaps, manifest, resume + 1)
      /\ SnapsVouched(snaps, stateFiles) /\ Placed(snaps, stateFiles)
      /\ ~cut => \A t \in DOMAIN snaps : t <= resume + 1 => NamedAfter(snaps, t)
  BY <1>1 DEF ResumeInv, Resumable, InOrder, NamesChain, InDeletions
<1>4. Control2' /\ FilesGone' /\ OwnFiles' /\ AreaVouched'
  BY <1>1 DEF ResumeInv, Resumable, Control2, FilesGone, OwnFiles, AreaVouched, Available
<1>5. Blank' /\ Finished'
  BY <1>1 DEF ResumeInv, Resumable, Blank, Finished, Control2
<1>6. /\ Follows(snaps', manifest, resume + 1)
      /\ SnapsVouched(snaps', stateFiles) /\ Placed(snaps', stateFiles)
      /\ ~cut => \A t \in DOMAIN snaps' : t <= resume + 1 => NamedAfter(snaps', t)
  <2>1. CASE snaps' = snaps
    BY <1>3, <2>1
  <2>2. CASE \E k \in DOMAIN snaps : snaps[k].name = manifest.steps[step + 1] /\ snaps' = RemoveAt(snaps, k)
    <3>1. PICK k \in DOMAIN snaps : snaps[k].name = manifest.steps[step + 1] /\ snaps' = RemoveAt(snaps, k)
      BY <2>2
    <3>2. /\ snaps' \in Seq(Snapshots) /\ Len(snaps') = Len(snaps) - 1 /\ k \in 1 .. Len(snaps) /\ Len(snaps) \in Nat
          /\ \A i \in 1 .. Len(snaps') : snaps'[i] = snaps[IF i < k THEN i ELSE i + 1]
      <4>1. snaps \in Seq(Snapshots)
        BY TypeFacts
      <4>2. LET left == RemoveAt(snaps, k) IN
            /\ left \in Seq(Snapshots) /\ Len(left) = Len(snaps) - 1 /\ k \in 1 .. Len(snaps)
            /\ \A i \in 1 .. Len(left) : left[i] = snaps[IF i < k THEN i ELSE i + 1]
        BY <4>1, Removed
      <4> QED  BY <3>1, <4>1, <4>2
    <3>3. k > resume + 1
      <4> SUFFICES ASSUME k <= resume + 1 PROVE FALSE
        BY <3>2, TypeFacts
      <4>1. snaps[k].name = manifest.steps[k]
        BY <1>3, <3>2, TypeFacts DEF Follows
      <4>2. k \in 1 .. NumSteps(manifest) /\ step + 1 \in 1 .. NumSteps(manifest) /\ k # step + 1
        BY <1>1, <3>2, TypeFacts
      <4>3. manifest.steps[k] = manifest.steps[step + 1]
        BY <3>1, <4>1
      <4>4. \A i, j \in 1 .. NumSteps(manifest) : manifest.steps[i] = manifest.steps[j] => i = j
        BY TypeFacts, StepFacts
      <4> QED  BY <4>2, <4>3, <4>4
    <3>4. Len(snaps') >= resume + 1 /\ \A i \in 1 .. resume + 1 : i \in 1 .. Len(snaps) /\ snaps'[i] = snaps[i]
      <4>1. resume \in Int /\ resume >= -1
        BY TypeFacts
      <4>2. Len(snaps') >= resume + 1
        BY <3>2, <3>3, <4>1
      <4> QED  BY <3>2, <3>3, <4>1, <4>2
    <3>5. Follows(snaps', manifest, resume + 1)
      BY <1>3, <3>4, TypeFacts DEF Follows
    <3>6. SnapsVouched(snaps', stateFiles) /\ Placed(snaps', stateFiles)
      BY <1>3, <3>1, TypeFacts, DestroyVouched
    <3>7. ASSUME ~cut, NEW t \in DOMAIN snaps', t <= resume + 1 PROVE NamedAfter(snaps', t)
      <4>1. t \in 1 .. resume + 1 /\ t \in DOMAIN snaps /\ NamedAfter(snaps, t)
        BY <1>3, <3>2, <3>4, <3>7, TypeFacts
      <4>2. \A i \in 1 .. t - 1 : snaps'[i] = snaps[i]
        BY <3>4, <4>1, TypeFacts
      <4> QED  BY <3>4, <4>1, <4>2 DEF NamedAfter
    <3> QED  BY <3>5, <3>6, <3>7
  <2> QED  BY <1>2, <2>1, <2>2
<1>7. InOrder' /\ NamesChain'
  BY <1>1, <1>6 DEF InOrder, NamesChain, InDeletions, NamedAfter
<1>8. SnapsVouched(snaps, stateFiles)' /\ Placed(snaps, stateFiles)'
  BY <1>1, <1>6
<1> QED  BY <1>4, <1>5, <1>7, <1>8 DEF Resumable

LEMMA RemoveStep ==
  ASSUME ResumeInv, RemoveStateFile
  PROVE  Resumable'
<1>1. /\ pc = "remove" /\ step < NumSteps(manifest) /\ step > resume /\ pc' = "destroy" /\ step' = step + 1
      /\ UNCHANGED <<zfs, manifest, resume, pause, failed, warned, status, cut, area, empty, snaps>>
      /\ stateFiles' = [stateFiles EXCEPT ![manifest.steps[step + 1]] = {}]
  BY TypeFacts DEF RemoveStateFile, Run, request, Name, ResumeInv, Resumable, Control2
<1>2. step + 1 \in 1 .. NumSteps(manifest) /\ manifest.steps[step + 1] \in Names
  BY <1>1, TypeFacts, StepFacts
<1>3. /\ stateFiles'[manifest.steps[step + 1]] = {}
      /\ \A i \in 1 .. NumSteps(manifest) : i # step + 1 => stateFiles'[manifest.steps[i]] = stateFiles[manifest.steps[i]]
  BY <1>1, <1>2, TypeFacts, StepFacts
<1>4. Control2'
  BY <1>1, TypeFacts DEF ResumeInv, Resumable, Control2, Available
<1>5. Blank' /\ Finished' /\ AreaVouched' /\ InOrder' /\ NamesChain'
  BY <1>1 DEF ResumeInv, Resumable, Blank, Finished, Control2, AreaVouched, InOrder, NamesChain, InDeletions, NamedAfter
<1>6. FilesGone'
  <2>1. ASSUME Available(manifest), NEW i \in (resume + 2) .. (step + 1) PROVE stateFiles'[manifest.steps[i]] = {}
    <3>1. i \in 1 .. NumSteps(manifest)
      BY <1>1, TypeFacts
    <3>2. CASE i = step + 1
      BY <1>3, <3>2
    <3>3. CASE i # step + 1
      <4>1. i \in (resume + 2) .. step
        BY <3>3, TypeFacts
      <4>2. stateFiles[manifest.steps[i]] = {}
        BY <1>1, <2>1, <4>1 DEF ResumeInv, Resumable, FilesGone
      <4> QED  BY <1>3, <3>1, <3>3, <4>2
    <3> QED  BY <3>2, <3>3
  <2> QED  BY <1>1, <2>1 DEF FilesGone, Available
<1>7. OwnFiles'
  <2>1. ASSUME Vouched(stateFiles, manifest, resume + 1) PROVE Vouched(stateFiles', manifest, resume + 1)
    <3>1. \A i \in 1 .. resume + 1 : i \in 1 .. NumSteps(manifest) /\ i # step + 1
      BY <1>1, TypeFacts
    <3> QED  BY <1>3, <2>1, <3>1 DEF Vouched
  <2> QED  BY <1>1, <2>1 DEF ResumeInv, Resumable, OwnFiles, Available
<1>8. SnapsVouched(snaps', stateFiles') /\ Placed(snaps', stateFiles')
  BY <1>1, <1>2, TypeFacts, RemoveVouched DEF ResumeInv, Resumable
<1> QED  BY <1>4, <1>5, <1>6, <1>7, <1>8 DEF Resumable

LEMMA DeletedStep ==
  ASSUME ResumeInv, CheckpointsDeleted
  PROVE  Resumable'
<1>1. /\ pc = "destroy" /\ step >= NumSteps(manifest) /\ step' = 0
      /\ pc' = (IF resume = NoStep THEN "cleanup" ELSE "register")
      /\ UNCHANGED <<zfs, manifest, resume, pause, failed, warned, status, cut, area, empty, snaps, stateFiles>>
  BY DEF CheckpointsDeleted, Run, request, disk
<1>2. Control2' /\ Blank' /\ Finished' /\ AreaVouched' /\ InOrder' /\ OwnFiles'
  BY <1>1 DEF ResumeInv, Resumable, Control2, Blank, Finished, AreaVouched, InOrder, OwnFiles, Available
<1>3. FilesGone'
  <2>1. ASSUME Available(manifest), NEW i \in (resume + 1 + 1) .. NumSteps(manifest) PROVE stateFiles[manifest.steps[i]] = {}
    <3>1. i \in (resume + 2) .. step
      BY <1>1, TypeFacts
    <3> QED  BY <1>1, <2>1, <3>1 DEF ResumeInv, Resumable, FilesGone
  <2> QED  BY <1>1, <2>1 DEF FilesGone, Gone, Available, NumSteps
<1>4. NamesChain'
  BY <1>1 DEF ResumeInv, Resumable, NamesChain, InDeletions, NamedAfter
<1>5. SnapsVouched(snaps, stateFiles)' /\ Placed(snaps, stateFiles)'
  BY <1>1 DEF ResumeInv, Resumable
<1> QED  BY <1>2, <1>3, <1>4, <1>5 DEF Resumable

(* The area is emptied, and with it the snapshots are gone.                *)
LEMMA EmptiedStep ==
  ASSUME ResumeInv, pc = "cleanup", pc' \in {"register", "recreate"}, area' = <<>>, snaps' = <<>>,
         UNCHANGED <<zfs, manifest, resume, pause, failed, warned, status, cut, empty, stateFiles>>
  PROVE  Resumable'
<1>1. resume = NoStep /\ resume + 1 = 0
  BY DEF ResumeInv, Resumable, Control2, NoStep
<1>2. Control2' /\ Finished' /\ AreaVouched' /\ OwnFiles' /\ FilesGone'
  BY <1>1 DEF ResumeInv, Resumable, Control2, Finished, AreaVouched, OwnFiles, FilesGone, Available, Gone, NumSteps
<1>3. Blank'
  BY DEF ResumeInv, Resumable, Blank
<1>4. InOrder'
  BY <1>1 DEF InOrder, Follows
<1>5. NamesChain'
  BY DEF NamesChain
<1>6. SnapsVouched(snaps', stateFiles')
  <2> SUFFICES ASSUME NEW m \in Manifests, NEW n \in 1 .. NumSteps(m), Follows(<<>>, m, n) PROVE FALSE
    BY DEF SnapsVouched
  <2> QED  BY StepFacts DEF Follows
<1>7. Placed(snaps', stateFiles')
  BY DEF Placed
<1> QED  BY <1>2, <1>3, <1>4, <1>5, <1>6, <1>7 DEF Resumable

LEMMA CleanupSteps ==
  ASSUME ResumeInv, "zfs" \notin Faults, RollbackToEmpty \/ DestroyBuildData \/ (RemoveBuildData /\ pc' # "idle")
  PROVE  Resumable'
<1>1. CASE RollbackToEmpty
  <2>1. area' = empty[1] /\ empty # <<>> /\ snaps' = <<>>
    BY <1>1 DEF RollbackToEmpty, Flaky
  <2>2. area' = <<>>
    BY <2>1 DEF ResumeInv, Resumable, Blank
  <2> QED  BY <1>1, <2>1, <2>2, EmptiedStep DEF RollbackToEmpty, Run, request
<1>2. CASE DestroyBuildData
  <2>1. area' = <<>> /\ snaps' = <<>>
    BY <1>2 DEF DestroyBuildData, Flaky
  <2> QED  BY <1>2, <2>1, EmptiedStep DEF DestroyBuildData, Run, request
<1>3. CASE RemoveBuildData /\ pc' # "idle"
  <2>1. /\ area' = <<>> /\ snaps' = <<>> /\ pc = "cleanup" /\ pc' = "register"
        /\ UNCHANGED <<zfs, manifest, resume, pause, failed, warned, status, cut, empty, stateFiles>>
    BY <1>3, TypeFacts DEF RemoveBuildData, Run, request
  <2> QED  BY <2>1, EmptiedStep
<1> QED  BY <1>1, <1>2, <1>3

LEMMA RecreateSteps ==
  ASSUME ResumeInv, "zfs" \notin Faults, (CreateBuildData /\ pc' # "idle") \/ SnapshotEmpty
  PROVE  Resumable'
<1>1. /\ pc \in {"recreate", "snapshotEmpty"} /\ pc' \in {"snapshotEmpty", "register"}
      /\ UNCHANGED <<zfs, manifest, resume, pause, failed, warned, status, cut, area, snaps, stateFiles>>
      /\ empty' = empty \/ empty' = <<area>>
  BY DEF CreateBuildData, SnapshotEmpty, Flaky, Run, request, disk
<1>2. area = <<>> /\ snaps = <<>> /\ resume = NoStep /\ resume + 1 = 0
  BY <1>1 DEF ResumeInv, Resumable, Blank, Control2, NoStep
<1>3. Control2' /\ Finished' /\ AreaVouched' /\ OwnFiles' /\ FilesGone'
  BY <1>1, <1>2 DEF ResumeInv, Resumable, Control2, Finished, AreaVouched, OwnFiles, FilesGone, Available, Gone, NumSteps
<1>4. Blank'
  BY <1>1, <1>2 DEF ResumeInv, Resumable, Blank
<1>5. InOrder'
  BY <1>1, <1>2 DEF InOrder, Follows
<1>6. NamesChain'
  BY <1>1, <1>2 DEF NamesChain
<1>7. SnapsVouched(snaps, stateFiles)' /\ Placed(snaps, stateFiles)'
  BY <1>1 DEF ResumeInv, Resumable
<1> QED  BY <1>3, <1>4, <1>5, <1>6, <1>7 DEF Resumable

LEMMA RegisterStep ==
  ASSUME ResumeInv, AddFinalizerScripts, pc' # "idle"
  PROVE  Resumable'
<1> DEFINE first == IF resume = NoStep THEN 0 ELSE resume
<1>1. /\ pc = "register" /\ RunStep(manifest, first)
      /\ UNCHANGED <<zfs, manifest, resume, pause, failed, warned, status, cut, area, empty, snaps, stateFiles>>
  BY DEF AddFinalizerScripts, Run, request, disk
<1>2. /\ SnapsVouched(snaps, stateFiles)' /\ Placed(snaps, stateFiles)' /\ (Available(manifest)' <=> Available(manifest))
      /\ status # "success" /\ NumSteps(manifest') = NumSteps(manifest) /\ NumAsked' = NumAsked
  BY <1>1 DEF ResumeInv, Resumable, Control2, Available, NumAsked
<1>3. CASE resume = NoStep
  <2>1. area = <<>> /\ snaps = <<>> /\ first = 0 /\ resume = -1 /\ resume + 1 = 0
    BY <1>1, <1>3 DEF ResumeInv, Resumable, Blank, NoStep
  <2>2. /\ pc' = (IF NumSteps(manifest) = 0 THEN "end" ELSE IF Available(manifest) THEN "checkpoint" ELSE "script")
        /\ step' = 0
    BY <1>1, <2>1, TypeFacts DEF RunStep, Run
  <2>3. Control2'
    BY <1>1, <1>2, <2>1, <2>2, TypeFacts DEF ResumeInv, Resumable, Control2
  <2>4. Blank'
    BY <1>1, <2>2 DEF ResumeInv, Resumable, Blank
  <2>5. FilesGone'
    BY <1>1, <1>2, <2>1, <2>2 DEF ResumeInv, Resumable, FilesGone, Gone
  <2>6. InOrder' /\ OwnFiles'
    BY <1>1, <1>2, <2>1, <2>2 DEF InOrder, OwnFiles, Follows, Vouched
  <2>7. AreaVouched' /\ NamesChain'
    BY <1>1, <1>2, <2>1, <2>2 DEF AreaVouched, NamesChain, Good, Named
  <2>8. Finished'
    <3>1. NumSteps(manifest) = 0 => NumAsked = 0
      BY TypeFacts DEF NumAsked
    <3> QED  BY <1>1, <1>2, <2>1, <2>2, <3>1 DEF Finished, Good, Named
  <2> QED  BY <1>2, <2>3, <2>4, <2>5, <2>6, <2>7, <2>8 DEF Resumable
<1>4. CASE resume # NoStep
  <2>1. Available(manifest) /\ resume < NumSteps(manifest) /\ resume \in Nat
    BY <1>4, TypeFacts DEF ResumeInv, Resumable, Control2
  <2>2. pc' = "rollback" /\ step' = resume
    BY <1>1, <1>4, <2>1, TypeFacts DEF RunStep, Run
  <2>3. Control2' /\ FilesGone' /\ OwnFiles' /\ InOrder'
    BY <1>1, <1>2, <2>1, <2>2 DEF ResumeInv, Resumable, Control2, FilesGone, OwnFiles, InOrder, Gone
  <2>4. Blank' /\ Finished' /\ AreaVouched'
    BY <1>1, <1>2, <2>2 DEF ResumeInv, Resumable, Blank, Finished, AreaVouched
  <2>5. NamesChain'
    BY <1>1, <1>4, <2>2 DEF ResumeInv, Resumable, NamesChain, InDeletions, NamedAfter
  <2> QED  BY <1>2, <2>3, <2>4, <2>5 DEF Resumable
<1> QED  BY <1>3, <1>4

LEMMA SnapshotStep ==
  ASSUME ResumeInv, "zfs" \notin Faults, TakeSnapshot
  PROVE  Resumable'
<1> DEFINE k   == step + 1
           new == [name |-> manifest.steps[step + 1], content |-> area]
<1>1. /\ pc = "checkpoint" /\ pc' = "copy" /\ step' = step
      /\ UNCHANGED <<zfs, manifest, resume, pause, failed, warned, status, cut, area, empty, stateFiles>>
      /\ snaps' = IF HasSnapshot(manifest.steps[k]) THEN snaps ELSE Append(snaps, new)
  BY DEF TakeSnapshot, Flaky, Run, request, Name
<1>2. /\ step \in Nat /\ k \in 1 .. NumSteps(manifest) /\ manifest.steps[k] \in Names
      /\ Len(snaps) = step /\ snaps \in Seq(Snapshots) /\ \A i \in 1 .. step : snaps[i].name = manifest.steps[i]
  BY <1>1, TypeFacts, StepFacts DEF ResumeInv, Resumable, InOrder, Follows
<1>3. ~HasSnapshot(manifest.steps[k])
  <2> SUFFICES ASSUME NEW s \in DOMAIN snaps, snaps[s].name = manifest.steps[k] PROVE FALSE
    BY DEF HasSnapshot
  <2>1. s \in 1 .. step
    BY <1>2
  <2>2. s \in 1 .. NumSteps(manifest) /\ manifest.steps[s] = manifest.steps[k] /\ s # k
    BY <1>2, <2>1, TypeFacts
  <2>3. \A i, j \in 1 .. NumSteps(manifest) : manifest.steps[i] = manifest.steps[j] => i = j
    BY TypeFacts, StepFacts
  <2> QED  BY <1>2, <2>2, <2>3
<1>4. new \in Snapshots /\ new.name = manifest.steps[k] /\ new.content = area
  BY <1>2, TypeFacts DEF Snapshots
<1> HIDE DEF new
<1>5. snaps' = Append(snaps, new) /\ Len(snaps') = step + 1 /\ snaps'[step + 1] = new /\ \A i \in 1 .. step : snaps'[i] = snaps[i]
  BY <1>1, <1>2, <1>3, <1>4
<1>6. stateFiles[manifest.steps[k]] = {}
  <2>1. Available(manifest) /\ Gone(stateFiles, manifest, step)
    BY <1>1 DEF ResumeInv, Resumable, Control2, FilesGone
  <2> QED  BY <1>2, <2>1 DEF Gone
<1>7. SnapsVouched(snaps', stateFiles') /\ Placed(snaps', stateFiles')
  <2>1. SnapsVouched(snaps, stateFiles) /\ Placed(snaps, stateFiles) /\ stateFiles[new.name] = {}
    BY <1>4, <1>6 DEF ResumeInv, Resumable
  <2>2. SnapsVouched(Append(snaps, new), stateFiles) /\ Placed(Append(snaps, new), stateFiles)
    BY <1>2, <1>4, <2>1, SnapshotVouched
  <2> QED  BY <1>1, <1>5, <2>2
<1>8. Control2' /\ Blank' /\ Finished' /\ FilesGone' /\ OwnFiles' /\ AreaVouched'
  BY <1>1 DEF ResumeInv, Resumable, Control2, Blank, Finished, FilesGone, OwnFiles, AreaVouched, Available, Gone, NumSteps
<1>9. InOrder'
  <2>1. \A i \in 1 .. step + 1 : snaps'[i].name = manifest.steps[i]
    <3> TAKE i \in 1 .. step + 1
    <3>1. CASE i = step + 1
      BY <1>4, <1>5, <3>1
    <3>2. CASE i # step + 1
      <4>1. i \in 1 .. step
        BY <1>2, <3>2
      <4> QED  BY <1>2, <1>5, <4>1
    <3> QED  BY <3>1, <3>2
  <2> QED  BY <1>1, <1>2, <1>4, <1>5, <2>1 DEF InOrder, Follows
<1>10. NamesChain'
  <2>1. ASSUME ~cut, NEW t \in DOMAIN snaps' PROVE NamedAfter(snaps', t)
    <3>1. t \in 1 .. step + 1
      <4>1. DOMAIN snaps' = 1 .. step + 1
        BY <1>2, <1>4, <1>5
      <4> QED  BY <4>1
    <3>2. CASE t = step + 1
      <4>1. Named(area, manifest, step)
        BY <1>1, <2>1 DEF ResumeInv, Resumable, NamesChain
      <4> QED  BY <1>2, <1>4, <1>5, <3>2, <4>1 DEF NamedAfter, Named
    <3>3. CASE t # step + 1
      <4>1. t \in 1 .. step /\ t \in DOMAIN snaps
        BY <1>2, <3>1, <3>3
      <4>2. NamedAfter(snaps, t)
        BY <1>1, <2>1, <4>1 DEF ResumeInv, Resumable, NamesChain, InDeletions
      <4>3. \A i \in 1 .. t - 1 : snaps'[i] = snaps[i]
        BY <1>2, <1>5, <4>1
      <4> QED  BY <1>5, <4>1, <4>2, <4>3 DEF NamedAfter
    <3> QED  BY <3>2, <3>3
  <2> QED  BY <1>1, <2>1 DEF ResumeInv, Resumable, NamesChain, NamedAfter
<1> QED  BY <1>7, <1>8, <1>9, <1>10 DEF Resumable

LEMMA RollbackStep ==
  ASSUME ResumeInv, "zfs" \notin Faults, Rollback
  PROVE  Resumable'
<1>1. /\ pc = "rollback" /\ pc' = "script" /\ step' = step
      /\ UNCHANGED <<zfs, manifest, resume, pause, failed, warned, status, cut, empty, stateFiles>>
      /\ \E s \in DOMAIN snaps : snaps[s].name = manifest.steps[step + 1]
                                 /\ area' = snaps[s].content /\ snaps' = SubSeq(snaps, 1, s)
  BY DEF Rollback, RolledBack, Flaky, Run, request, Name
<1>2. PICK s \in DOMAIN snaps : snaps[s].name = manifest.steps[step + 1]
                                /\ area' = snaps[s].content /\ snaps' = SubSeq(snaps, 1, s)
  BY <1>1
<1>3. /\ step = resume /\ step \in Nat /\ step + 1 \in 1 .. NumSteps(manifest) /\ snaps \in Seq(Snapshots)
      /\ Follows(snaps, manifest, step + 1) /\ Available(manifest) /\ pause > resume
  BY <1>1, TypeFacts DEF ResumeInv, Resumable, Control2, InOrder, NoStep
<1>4. s = step + 1
  <2>1. step + 1 \in DOMAIN snaps /\ snaps[step + 1].name = manifest.steps[step + 1]
    BY <1>3 DEF Follows
  <2>2. \A i, j \in DOMAIN snaps : i < j => snaps[i].name # snaps[j].name
    BY DEF ResumeInv, BuildInv, Stages
  <2>3. s \in Nat
    BY <1>3
  <2> QED  BY <1>2, <1>3, <2>1, <2>2, <2>3
<1>5. Len(snaps') = step + 1 /\ DOMAIN snaps' = 1 .. step + 1 /\ \A i \in 1 .. step + 1 : i \in DOMAIN snaps /\ snaps'[i] = snaps[i]
  BY <1>2, <1>3, <1>4
<1>6. SnapsVouched(snaps', stateFiles') /\ Placed(snaps', stateFiles')
  BY <1>1, <1>2, <1>3, RollbackVouched DEF ResumeInv, Resumable
<1>7. Control2' /\ Blank' /\ Finished'
  BY <1>1, <1>3 DEF ResumeInv, Resumable, Control2, Blank, Finished, Available
<1>8. FilesGone' /\ OwnFiles'
  BY <1>1, <1>3 DEF ResumeInv, Resumable, FilesGone, OwnFiles, Available, Gone, NumSteps
<1>9. InOrder'
  BY <1>1, <1>3, <1>5 DEF InOrder, Follows
<1>10. AreaVouched'
  <2>1. ASSUME Vouched(stateFiles, manifest, step + 1) PROVE Good(area', manifest, step)
    <3>1. Good(snaps[step + 1].content, manifest, (step + 1) - 1) /\ (step + 1) - 1 = step
      BY <1>3, <2>1, TypeFacts DEF ResumeInv, Resumable, SnapsVouched
    <3> QED  BY <1>2, <1>4, <3>1
  <2> QED  BY <1>1, <1>3, <2>1 DEF AreaVouched, Available
<1>11. NamesChain'
  <2>1. ASSUME ~cut, NEW t \in 1 .. step + 1 PROVE NamedAfter(snaps, t)
    BY <1>1, <1>3, <1>5, <2>1 DEF ResumeInv, Resumable, NamesChain
  <2>2. ASSUME ~cut, NEW t \in DOMAIN snaps' PROVE NamedAfter(snaps', t)
    <3>1. t \in 1 .. step + 1 /\ \A i \in 1 .. t - 1 : snaps'[i] = snaps[i]
      BY <1>3, <1>5
    <3>2. NamedAfter(snaps, t)
      BY <2>1, <2>2, <3>1
    <3> QED  BY <1>5, <3>1, <3>2 DEF NamedAfter
  <2>3. ASSUME ~cut PROVE Named(area', manifest, step)
    <3>1. NamedAfter(snaps, step + 1)
      BY <1>3, <2>1, <2>3
    <3> QED  BY <1>2, <1>3, <1>4, <3>1 DEF NamedAfter, Named, Follows
  <2> QED  BY <1>1, <2>2, <2>3 DEF NamesChain, NamedAfter
<1> QED  BY <1>6, <1>7, <1>8, <1>9, <1>10, <1>11 DEF Resumable

(* One more script of the manifest.                                        *)
LEMMA GoodScript ==
  ASSUME NEW c \in AreaType, NEW m \in Manifests, NEW k \in Nat, NEW done \in BOOLEAN, Script(m, k, done) \in Scripts
  PROVE  LET new == Append(c, Script(m, k, done)) IN
         /\ Named(c, m, k) => Named(new, m, k + 1)
         /\ Good(c, m, k) /\ (m.stopOnErr => done) => Good(new, m, k + 1)
<1> DEFINE x   == Script(m, k, done)
           new == Append(c, x)
<1>1. x.name = m.steps[k + 1] /\ x.by = m /\ x.done = done
  BY DEF Script, Name
<1>2. x \in Scripts /\ c \in Seq(Scripts)
  BY DEF AreaType, Scripts
<1> HIDE DEF x
<1>3. Len(new) = Len(c) + 1 /\ Len(c) \in Nat /\ new[Len(c) + 1] = x /\ \A i \in 1 .. Len(c) : new[i] = c[i]
  BY <1>2
<1> HIDE DEF new
<1>4. ASSUME Len(c) = k, NEW i \in 1 .. k + 1 PROVE (i = k + 1 /\ new[i] = x) \/ (i \in 1 .. k /\ new[i] = c[i])
  BY <1>3, <1>4
<1>5. Named(c, m, k) => Named(new, m, k + 1)
  BY <1>1, <1>3, <1>4 DEF Named
<1>6. ASSUME Good(c, m, k), m.stopOnErr => done PROVE Good(new, m, k + 1)
  <2>1. Len(c) = k /\ Named(new, m, k + 1)
    BY <1>5, <1>6 DEF Good, Named
  <2>2. ASSUME NEW i \in 1 .. k + 1 PROVE new[i].by = m /\ (m.stopOnErr => new[i].done)
    <3>1. CASE i = k + 1 /\ new[i] = x
      BY <1>1, <1>6, <3>1
    <3>2. CASE i \in 1 .. k /\ new[i] = c[i]
      BY <1>6, <3>2 DEF Good
    <3> QED  BY <1>4, <2>1, <3>1, <3>2
  <2> QED  BY <2>1, <2>2 DEF Good
<1> QED  BY <1>5, <1>6 DEF new, x

LEMMA CopyStep ==
  ASSUME ResumeInv, CopyManifest
  PROVE  Resumable'
<1> DEFINE k == step + 1
<1>1. /\ pc = "copy" /\ UNCHANGED <<zfs, manifest, resume, pause, warned, status, cut, area, empty, snaps>>
      /\ (pc' = "end" /\ step' = 0) \/ (pc' = "script" /\ step' = step /\ step # pause)
  BY DEF CopyManifest, Run, request
<1>2. \/ stateFiles' = [stateFiles EXCEPT ![manifest.steps[k]] = {manifest}] /\ failed' = failed
         /\ (pc' = "end" => step = pause)
      \/ stateFiles' = stateFiles /\ failed'
  BY DEF CopyManifest, Run, Name
<1>3. /\ step \in Nat /\ k \in 1 .. NumSteps(manifest) /\ manifest.steps[k] \in Names /\ snaps \in Seq(Snapshots)
      /\ Len(snaps) = k /\ Follows(snaps, manifest, k) /\ snaps[k].content = area
      /\ Available(manifest) /\ step > resume /\ step <= pause /\ step # NoPause
      /\ Gone(stateFiles, manifest, step) /\ status # "success"
      /\ Vouched(stateFiles, manifest, step) => Good(area, manifest, step)
      /\ ~warned /\ ~failed => Vouched(stateFiles, manifest, step)
      /\ ~cut => Named(area, manifest, step)
  BY <1>1, TypeFacts, StepFacts
     DEF ResumeInv, Resumable, InOrder, Control2, FilesGone, AreaVouched, OwnFiles, NamesChain
<1>4. \A i \in 1 .. NumSteps(manifest) : i # k => stateFiles'[manifest.steps[i]] = stateFiles[manifest.steps[i]]
  <2>1. \A i \in 1 .. NumSteps(manifest) : i # k => manifest.steps[i] # manifest.steps[k]
    BY <1>3, TypeFacts, StepFacts
  <2> QED  BY <1>2, <2>1, TypeFacts, StepFacts
<1>5. SnapsVouched(snaps', stateFiles') /\ Placed(snaps', stateFiles')
  <2>1. SnapsVouched(snaps, stateFiles) /\ Placed(snaps, stateFiles)
    BY DEF ResumeInv, Resumable
  <2>2. Vouched(stateFiles, manifest, k - 1) => Good(snaps[k].content, manifest, k - 1)
    <3>1. k - 1 = step
      BY <1>3
    <3> QED  BY <1>3, <3>1
  <2>3. CASE stateFiles' = [stateFiles EXCEPT ![manifest.steps[k]] = {manifest}]
    <3>1. manifest \in Manifests /\ stateFiles \in [Names -> {{}} \cup {{m} : m \in Manifests}]
      BY TypeFacts
    <3> HIDE DEF k
    <3>2. LET new == [stateFiles EXCEPT ![manifest.steps[k]] = {manifest}] IN SnapsVouched(snaps, new) /\ Placed(snaps, new)
      BY <1>3, <2>1, <2>2, <3>1, CopyVouched
    <3> QED  BY <1>1, <2>3, <3>2
  <2>4. CASE stateFiles' = stateFiles
    BY <1>1, <2>1, <2>4
  <2> QED  BY <1>2, <2>3, <2>4
<1>6. Control2' /\ Blank'
  BY <1>1, <1>3, TypeFacts DEF ResumeInv, Resumable, Control2, Blank, Available
<1>7. FilesGone'
  <2>1. \A i \in (step + 1 + 1) .. NumSteps(manifest) : stateFiles'[manifest.steps[i]] = {}
    <3> TAKE i \in (step + 1 + 1) .. NumSteps(manifest)
    <3>1. i \in (step + 1) .. NumSteps(manifest) /\ i \in 1 .. NumSteps(manifest) /\ i # k
      BY <1>3, TypeFacts
    <3> QED  BY <1>3, <1>4, <3>1 DEF Gone
  <2> QED  BY <1>1, <2>1 DEF FilesGone, Gone, NumSteps
<1>8. InOrder'
  BY <1>1, <1>3 DEF InOrder
<1>9. \A i \in 1 .. step : i \in 1 .. NumSteps(manifest) /\ i # k
  BY <1>3, TypeFacts
<1>10. OwnFiles'
  <2>1. ASSUME ~warned, ~failed' PROVE Vouched(stateFiles', manifest, step + 1)
    <3>1. stateFiles'[manifest.steps[k]] = {manifest} /\ ~failed
      BY <1>2, <1>3, <2>1, TypeFacts
    <3>2. \A i \in 1 .. step + 1 : i = k \/ i \in 1 .. step
      BY <1>3
    <3> QED  BY <1>3, <1>4, <1>9, <2>1, <3>1, <3>2 DEF Vouched
  <2> QED  BY <1>1, <2>1 DEF OwnFiles
<1>11. Vouched(stateFiles', manifest, step + 1) => Good(area, manifest, step)
  <2>1. Vouched(stateFiles', manifest, step + 1) => Vouched(stateFiles, manifest, step)
    <3>1. \A i \in 1 .. step : i \in 1 .. step + 1
      BY <1>3
    <3> QED  BY <1>4, <1>9, <3>1 DEF Vouched
  <2> QED  BY <1>3, <2>1
<1>12. AreaVouched' /\ NamesChain'
  BY <1>1, <1>3, <1>11 DEF ResumeInv, Resumable, AreaVouched, NamesChain, InDeletions, NamedAfter, Available
<1>13. Finished'
  <2>1. ASSUME pc' = "end", ~failed' PROVE step = pause /\ NumAsked' = step /\ ~failed
    BY <1>1, <1>2, <1>3, <2>1 DEF NumAsked
  <2> QED  BY <1>1, <1>3, <2>1 DEF Finished
<1> QED  BY <1>5, <1>6, <1>7, <1>8, <1>10, <1>12, <1>13 DEF Resumable

LEMMA ScriptStep ==
  ASSUME ResumeInv, RunScript
  PROVE  Resumable'
<1>1. /\ pc = "script" /\ UNCHANGED <<zfs, manifest, resume, pause, warned, status, cut, empty, snaps, stateFiles>>
      /\ \E done \in BOOLEAN :
           /\ area' = Append(area, Script(manifest, step, done))
           /\ \/ done /\ failed' = failed /\ RunStep(manifest, step + 1)
              \/ ~done /\ failed' /\ ~manifest.stopOnErr /\ RunStep(manifest, step + 1)
              \/ ~done /\ failed' /\ Run("end", 0)
  BY DEF RunScript, request, Stops
<1>2. PICK done \in BOOLEAN :
        /\ area' = Append(area, Script(manifest, step, done))
        /\ \/ done /\ failed' = failed /\ RunStep(manifest, step + 1)
           \/ ~done /\ failed' /\ ~manifest.stopOnErr /\ RunStep(manifest, step + 1)
           \/ ~done /\ failed' /\ Run("end", 0)
  BY <1>1
<1>3. /\ step \in Nat /\ step < NumSteps(manifest) /\ step >= resume /\ step < pause /\ status # "success"
      /\ manifest \in Manifests /\ area \in AreaType
  BY <1>1, TypeFacts DEF ResumeInv, Resumable, Control2
<1>4. Script(manifest, step, done) \in Scripts
  BY <1>1, ScriptType DEF ResumeInv
<1>5. /\ Named(area, manifest, step) => Named(area', manifest, step + 1)
      /\ Good(area, manifest, step) /\ (manifest.stopOnErr => done) => Good(area', manifest, step + 1)
  <2>1. LET new == Append(area, Script(manifest, step, done)) IN
         /\ Named(area, manifest, step) => Named(new, manifest, step + 1)
         /\ Good(area, manifest, step) /\ (manifest.stopOnErr => done) => Good(new, manifest, step + 1)
    BY <1>3, <1>4, GoodScript
  <2> QED  BY <1>2, <2>1
<1>6. /\ (Available(manifest) => Vouched(stateFiles, manifest, step + 1)) => Good(area, manifest, step)
      /\ Available(manifest) => /\ Gone(stateFiles, manifest, step + 1)
                                /\ Len(snaps) = step + 1 /\ Follows(snaps, manifest, step + 1)
                                /\ ~warned /\ ~failed => Vouched(stateFiles, manifest, step + 1)
      /\ ~cut => Named(area, manifest, step)
      /\ resume # NoStep \/ pause # NoPause => Available(manifest)
  BY <1>1 DEF ResumeInv, Resumable, Control2, AreaVouched, FilesGone, InOrder, OwnFiles, NamesChain
<1>7. SnapsVouched(snaps, stateFiles)' /\ Placed(snaps, stateFiles)' /\ Blank'
      /\ (pc' \in {"end", "checkpoint", "script"} => \A t \in DOMAIN snaps : ~cut => NamedAfter(snaps, t))
  <2>1. \A t \in DOMAIN snaps : ~cut => NamedAfter(snaps, t)
    BY <1>1 DEF ResumeInv, Resumable, NamesChain, InDeletions
  <2> QED  BY <1>1, <1>2, <2>1 DEF ResumeInv, Resumable, Blank, RunStep, Run
<1>8. CASE Run("end", 0) /\ ~done
  BY <1>1, <1>2, <1>3, <1>5, <1>6, <1>7, <1>8
     DEF Resumable, Control2, FilesGone, InOrder, OwnFiles, AreaVouched, NamesChain, InDeletions, NamedAfter, Finished, Available, Run
<1>9. CASE RunStep(manifest, step + 1) /\ (manifest.stopOnErr => done) /\ (~failed' => ~failed)
  <2>1. /\ pc' = (IF step + 1 = NumSteps(manifest) THEN "end" ELSE IF Available(manifest) THEN "checkpoint" ELSE "script")
        /\ pc' # "end" => step' = step + 1
    BY <1>3, <1>9, TypeFacts DEF RunStep, Run
  <2>2. step + 1 <= pause
    BY <1>3, TypeFacts
  <2>3. ~Available(manifest) => pause = 9999 /\ NumSteps(manifest) < pause
    BY <1>6, TypeFacts DEF NoPause
  <2>4. Control2'
    BY <1>1, <1>3, <1>6, <2>1, <2>2, <2>3, TypeFacts DEF Control2, Available
  <2>5. FilesGone' /\ InOrder' /\ OwnFiles'
    BY <1>1, <1>6, <1>9, <2>1 DEF FilesGone, InOrder, OwnFiles, Available, Gone, NumSteps
  <2>6. AreaVouched' /\ NamesChain'
    BY <1>1, <1>5, <1>6, <1>7, <1>9, <2>1 DEF AreaVouched, NamesChain, InDeletions, NamedAfter, Available
  <2>7. Finished'
    <3>1. ASSUME pc' = "end" PROVE NumAsked' = step + 1
      BY <1>1, <1>3, <2>1, <3>1, TypeFacts DEF NumAsked, NumSteps
    <3> QED  BY <1>1, <1>3, <1>5, <1>6, <1>9, <2>1, <3>1 DEF Finished
  <2> QED  BY <1>7, <2>4, <2>5, <2>6, <2>7 DEF Resumable
<1> QED  BY <1>2, <1>8, <1>9

LEMMA EndStep ==
  ASSUME ResumeInv, EndBuild
  PROVE  Resumable'
<1>1. /\ pc = "end" /\ pc' = "idle" /\ status' = (IF failed THEN "failed" ELSE "success")
      /\ UNCHANGED <<zfs, manifest, resume, pause, failed, warned, cut, area, empty, snaps, stateFiles>>
  BY DEF EndBuild, Run, request, disk
<1>2. Control2' /\ FilesGone' /\ InOrder' /\ OwnFiles' /\ AreaVouched' /\ Blank'
  BY <1>1 DEF ResumeInv, Resumable, Control2, FilesGone, InOrder, OwnFiles, AreaVouched, Blank, Available
<1>3. SnapsVouched(snaps, stateFiles)' /\ Placed(snaps, stateFiles)'
  BY <1>1 DEF ResumeInv, Resumable
<1>4. NamesChain'
  BY <1>1 DEF ResumeInv, Resumable, NamesChain, InDeletions, NamedAfter
<1>5. Finished'
  <2>1. status' = "success" => ~failed
    BY <1>1
  <2> QED  BY <1>1, <2>1 DEF ResumeInv, Resumable, Finished, Good, Named, NumAsked, NumSteps
<1> QED  BY <1>2, <1>3, <1>4, <1>5 DEF Resumable

-----------------------------------------------------------------------------
LEMMA ResumeInvInit == BuildInit => ResumeInv
<1> SUFFICES ASSUME BuildInit PROVE Resumable
  BY BuildInvInit DEF ResumeInv
<1>1. pc = "idle" /\ status = "none" /\ resume = NoStep /\ pause = NoPause /\ empty = <<>> /\ snaps = <<>>
  BY DEF BuildInit
<1>2. Control2 /\ Blank /\ FilesGone /\ InOrder /\ OwnFiles /\ AreaVouched /\ NamesChain /\ Finished
  BY <1>1 DEF Control2, Blank, FilesGone, InOrder, OwnFiles, AreaVouched, NamesChain, Finished
<1>3. SnapsVouched(snaps, stateFiles)
  <2> SUFFICES ASSUME NEW m \in Manifests, NEW n \in 1 .. NumSteps(m), Follows(<<>>, m, n) PROVE FALSE
    BY <1>1 DEF SnapsVouched
  <2> QED  BY StepFacts DEF Follows
<1>4. Placed(snaps, stateFiles)
  BY <1>1 DEF Placed
<1> QED  BY <1>2, <1>3, <1>4 DEF Resumable

LEMMA ResumeInvStep ==
  "zfs" \notin Faults /\ ResumeInv /\ [BuildNext]_buildVars => ResumeInv'
<1> SUFFICES ASSUME "zfs" \notin Faults, ResumeInv, [BuildNext]_buildVars PROVE Resumable'
  BY BuildInvStep DEF ResumeInv
<1>1. CASE UNCHANGED buildVars
  BY <1>1 DEF buildVars, request, disk, ResumeInv, Resumable, Control2, Blank, FilesGone, InOrder, OwnFiles, AreaVouched,
              NamesChain, Finished, InDeletions, NamedAfter, Available, NumAsked
<1>2. CASE NoMoreBuilds
  BY <1>1, <1>2 DEF NoMoreBuilds
<1>3. CASE pc = "end" \/ pc = "idle"
  <2>1. CASE Crash
    <3>1. /\ pc' = "idle" /\ status' # "success" /\ cut' = (cut \/ InDeletions)
          /\ UNCHANGED <<zfs, manifest, resume, pause, empty, stateFiles, snaps>>
      BY <2>1 DEF Crash, Run, request
    <3>2. resume' # NoStep \/ pause' # NoPause => Available(manifest)'
      BY <3>1 DEF ResumeInv, Resumable, Control2, Available
    <3> QED  BY <3>1, <3>2, ToIdle
  <2>2. CASE EndBuild
    BY <2>2, EndStep
  <2>3. CASE AnyBuild
    BY <2>3, StartStep
  <2> QED  BY <1>1, <1>2, <1>3, <2>1, <2>2, <2>3 DEF BuildNext, DestroySnapshot, RemoveStateFile, CheckpointsDeleted,
       RollbackToEmpty, DestroyBuildData, CreateBuildData, SnapshotEmpty, RemoveBuildData, AddFinalizerScripts,
       TakeSnapshot, CopyManifest, Rollback, RunScript
<1>4. CASE pc # "end" /\ pc # "idle" /\ BuildNext
  <2>1. CASE AnyBuild
    BY <2>1, StartStep
  <2>2. CASE ~AnyBuild /\ pc' = "idle"
    BY <1>4, <2>2, IdleSteps
  <2>3. CASE pc' # "idle" /\ ~AnyBuild
    <3>1. ~Crash /\ ~NoMoreBuilds /\ ~EndBuild
      BY <1>4, <2>3 DEF Crash, Run, NoMoreBuilds, EndBuild
    <3> QED  BY <1>4, <2>3, <3>1, DestroyStep, RemoveStep, DeletedStep, CleanupSteps, RecreateSteps, RegisterStep,
                SnapshotStep, CopyStep, RollbackStep, ScriptStep DEF BuildNext
  <2> QED  BY <2>1, <2>2, <2>3
<1> QED  BY <1>1, <1>3, <1>4

LEMMA ResumeIsSafe == ASSUME "zfs" \notin Faults PROVE BuildSpec => []ResumeInv
<1>1. ResumeInv /\ [BuildNext]_buildVars => ResumeInv'
  BY ResumeInvStep
<1> QED  BY <1>1, ResumeInvInit, PTL DEF BuildSpec

LEMMA AskedFacts ==
  ASSUME ResumeInv, Named(area, manifest, NumAsked)
  PROVE  AsAsked
<1> DEFINE asked == Asked(manifest, pause)
<1>1. NumAsked \in 0 .. NumSteps(manifest) /\ NumSteps(manifest) = Len(manifest.steps) /\ manifest.steps \in Seq(Names)
  BY TypeFacts, ManifestsAssumption DEF NumAsked, NumSteps
<1>2. asked = SubSeq(manifest.steps, 1, NumAsked)
  BY DEF Asked, NumAsked
<1>3. Len(asked) = NumAsked /\ \A i \in 1 .. NumAsked : asked[i] = manifest.steps[i]
  BY <1>1, <1>2
<1> HIDE DEF asked
<1>4. area \in AreaType /\ DOMAIN area = 1 .. Len(area)
  BY TypeFacts DEF AreaType
<1> QED  BY <1>3, <1>4 DEF Named, AsAsked, asked

-----------------------------------------------------------------------------
(* As long as the zfs commands work, a build that reports success without  *)
(* a warning is the one that its manifest describes, for any manifests and *)
(* any number of builds before it (verify_resume_step, verify_resume_state). *)
THEOREM UnwarnedBuildsAreComplete ==
  ASSUME "zfs" \notin Faults PROVE BuildSpec => []UnwarnedBuildIsComplete
<1>1. ResumeInv => UnwarnedBuildIsComplete
  <2> SUFFICES ASSUME ResumeInv, status = "success", ~warned
               PROVE  AsAsked /\ (manifest.stopOnErr => \A k \in DOMAIN area : area[k].done)
    BY DEF UnwarnedBuildIsComplete
  <2>1. Good(area, manifest, NumAsked)
    BY DEF ResumeInv, Resumable, Finished
  <2>2. DOMAIN area = 1 .. NumAsked
    BY <2>1, TypeFacts DEF Good, Named, AreaType
  <2> QED  BY <2>1, <2>2, AskedFacts DEF Good
<1> QED  BY <1>1, ResumeIsSafe, PTL

(* Scripts of another manifest in a successful build were warned of.       *)
THEOREM MixturesAreWarnedOf ==
  ASSUME "zfs" \notin Faults PROVE BuildSpec => []MixtureIsWarnedOf
<1>1. ResumeInv => MixtureIsWarnedOf
  <2> SUFFICES ASSUME ResumeInv, status = "success", ~warned, NEW k \in DOMAIN area PROVE area[k].by = manifest
    BY DEF MixtureIsWarnedOf
  <2>1. Good(area, manifest, NumAsked)
    BY DEF ResumeInv, Resumable, Finished
  <2>2. DOMAIN area = 1 .. NumAsked
    BY <2>1, TypeFacts DEF Good, Named, AreaType
  <2> QED  BY <2>1, <2>2 DEF Good
<1> QED  BY <1>1, ResumeIsSafe, PTL

(* Even a build that warned ran the scripts that were asked for, each once *)
(* and in order, unless one before it ended in its deletions.              *)
THEOREM SuccessfulBuildsAreAsAsked ==
  ASSUME "zfs" \notin Faults PROVE BuildSpec => []SuccessfulBuildIsAsAsked
<1>1. ResumeInv => SuccessfulBuildIsAsAsked
  <2> SUFFICES ASSUME ResumeInv, status = "success", ~cut PROVE AsAsked
    BY DEF SuccessfulBuildIsAsAsked
  <2>1. Named(area, manifest, NumAsked)
    BY DEF ResumeInv, Resumable, Finished
  <2> QED  BY <2>1, AskedFacts
<1> QED  BY <1>1, ResumeIsSafe, PTL
=============================================================================
