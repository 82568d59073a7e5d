--------------------------- MODULE ServicesProofs ---------------------------
(***************************************************************************)
(* Theorems about the services the programs share: the log, the errors,    *)
(* the install services and the manifest server, for any environment, any  *)
(* number of errors, lists, clients, services, readers and requests, and   *)
(* every set of faults.                                                    *)
(***************************************************************************)
EXTENDS ErrSvc, LogSvc, AiScf, ManifestServ, FiniteSetTheorems, SequenceTheorems, TLAPS

-----------------------------------------------------------------------------
(* The log *)

(* What ls_init makes of LS_FILE; only the first message opens a file, and *)
(* one that was opened after ls_init has that name for ever.               *)
LsTypes ==
  /\ log_filename \in Files /\ log_file \in Files \cup {"none"}
  /\ log_dest \in 0..3 /\ dbglvl \in Levels /\ posted \in Nat
  /\ written \in [Files -> Seq(1..posted)] /\ lsKept \in Seq(1..posted)
  /\ copied \in Seq(1..posted) /\ lsDone \in BOOLEAN /\ lsEarly \in BOOLEAN

LogKnown ==
  /\ lsDone => log_filename = IF EnvFile = "unset" THEN Default ELSE EnvFile
  /\ ~lsEarly /\ log_file # "none" => lsDone /\ log_file = log_filename
  /\ ~lsEarly /\ log_file = "none" =>
       lsKept = <<>> /\ \A f \in Files : written[f] = <<>>

LsIInv == LsTypes /\ LogKnown /\ LogIsWhole /\ TransferIsAPrefix

(* A longer number of messages allows for the same sequences.              *)
LEMMA SeqGrows ==
  ASSUME NEW n \in Nat, NEW s \in Seq(1..n)
  PROVE  s \in Seq(1..(n + 1)) /\ Append(s, n + 1) \in Seq(1..(n + 1))
  OBVIOUS

(* A prefix stays one when something is appended.                          *)
LEMMA PrefixGrows ==
  ASSUME NEW n \in Nat, NEW s \in Seq(1..n), NEW t \in Seq(1..n), IsPrefix(s, t)
  PROVE  IsPrefix(s, Append(t, n + 1))
  BY DEF IsPrefix

LEMMA PrefixOfItself ==
  ASSUME NEW n \in Nat, NEW s \in Seq(1..n) PROVE IsPrefix(s, s)
  BY DEF IsPrefix

LEMMA LsFilesAreNamed == Default \in Files /\ "none" \notin Files
                         /\ (EnvFile = "unset" \/ EnvFile \in Files)
  BY LsAssumption DEF Files, Default

(* A message that is posted goes to the end of the one file there is.      *)
LEMMA PostStep ==
  ASSUME LsIInv, NEW opens \in BOOLEAN, Post(opens)
  PROVE  LsIInv'
<1> DEFINE file == IF log_file = "none" /\ ToFile /\ opens
                     THEN log_filename ELSE log_file
<1>1. /\ posted' = posted + 1 /\ posted \in Nat
      /\ file \in Files \cup {"none"} /\ log_file' = file
      /\ UNCHANGED <<log_filename, log_dest, dbglvl, copied, lsDone>>
      /\ lsEarly' = (lsEarly \/ (~lsDone /\ file # "none"))
      /\ written' = IF ToFile /\ file # "none"
                    THEN [written EXCEPT ![file] = Append(@, posted + 1)]
                    ELSE written
      /\ lsKept' = IF ToFile /\ (opens \/ log_file # "none")
                   THEN Append(lsKept, posted + 1) ELSE lsKept
  BY DEF Post, LsIInv, LsTypes
<1>2. LsTypes'
  <2>1. \A f \in Files : /\ written[f] \in Seq(1..(posted + 1))
                         /\ Append(written[f], posted + 1) \in Seq(1..(posted + 1))
    BY SeqGrows DEF LsIInv, LsTypes
  <2>2. written' \in [Files -> Seq(1..(posted + 1))]
    <3>1. CASE ToFile /\ file # "none"
      BY <1>1, <2>1, <3>1 DEF LsIInv, LsTypes
    <3>2. CASE ~(ToFile /\ file # "none")
      BY <1>1, <2>1, <3>2 DEF LsIInv, LsTypes
    <3> QED
      BY <3>1, <3>2
  <2>3. lsKept' \in Seq(1..(posted + 1)) /\ copied' \in Seq(1..(posted + 1))
    BY <1>1, SeqGrows DEF LsIInv, LsTypes
  <2> QED
    BY <1>1, <2>2, <2>3 DEF LsIInv, LsTypes
<1>3. CASE lsEarly'
  BY <1>1, <1>2, <1>3 DEF LsIInv, LogKnown, LogIsWhole, TransferIsAPrefix
<1>4. CASE ~lsEarly'
  <2>1. ~lsEarly /\ (file # "none" => lsDone)
    BY <1>1, <1>4 DEF LsIInv, LsTypes
  <2>2. file # "none" => file = log_filename
    BY <2>1 DEF LsIInv, LogKnown
  <2>3. (ToFile /\ file # "none") <=> (ToFile /\ (opens \/ log_file # "none"))
    BY LsFilesAreNamed DEF LsIInv, LsTypes
  <2>4. written[log_filename] = lsKept /\ log_filename \in DOMAIN written
    BY <2>1 DEF LsIInv, LogIsWhole, LsTypes
  <2>5. LogIsWhole'
    BY <1>1, <2>2, <2>3, <2>4 DEF LogIsWhole
  <2>6. TransferIsAPrefix'
    BY <1>1, <2>1, PrefixGrows DEF TransferIsAPrefix, LsIInv, LsTypes
  <2>7. LogKnown'
    BY <1>1, <2>1, <2>2, <2>3 DEF LsIInv, LogKnown
  <2> QED
    BY <1>2, <2>5, <2>6, <2>7 DEF LsIInv
<1> QED
  BY <1>2, <1>3, <1>4 DEF LsIInv, LsTypes

(* The other calls keep the file, and ls_transfer copies the whole of it.  *)
LEMMA LogStep == LsIInv /\ [LsNext]_lsVars => LsIInv'
<1> SUFFICES ASSUME LsIInv, [LsNext]_lsVars PROVE LsIInv'
  OBVIOUS
<1>1. ASSUME NEW lvl \in {-1} \cup Levels, LsInitialize(lvl) PROVE LsIInv'
  <2>1. LsTypes'
    BY <1>1, LsFilesAreNamed
       DEF LsIInv, LsTypes, LsInitialize, Levels, DestValid
  <2>2. LogKnown' /\ LogIsWhole' /\ TransferIsAPrefix'
    BY <1>1, LsFilesAreNamed
       DEF LsIInv, LsTypes, LsInitialize, LogKnown, LogIsWhole,
           TransferIsAPrefix
  <2> QED
    BY <2>1, <2>2 DEF LsIInv
<1>2. ASSUME NEW lvl \in -1..5, SetDbgLevel(lvl),
             UNCHANGED <<log_filename, log_file, log_dest, written, console,
                         posted, copied, lsHistory>>
      PROVE  LsIInv'
  BY <1>2 DEF LsIInv, LsTypes, SetDbgLevel, LogKnown, LogIsWhole,
              TransferIsAPrefix, lsHistory
<1>3. ASSUME NEW made \in BOOLEAN, NEW copies \in BOOLEAN,
             Transfer(made, copies)
      PROVE  LsIInv'
  <2>1. copied' = written[log_filename] \/ copied' = copied
    BY <1>3 DEF Transfer
  <2>2. TransferIsAPrefix'
    BY <1>3, <2>1, PrefixOfItself
       DEF Transfer, TransferIsAPrefix, LsIInv, LsTypes, LogIsWhole, lsHistory
  <2>3. LsTypes'
    BY <1>3, <2>1 DEF Transfer, LsIInv, LsTypes, lsHistory
  <2>4. LogKnown' /\ LogIsWhole'
    BY <1>3 DEF Transfer, LsIInv, LogKnown, LogIsWhole, lsHistory
  <2> QED
    BY <2>2, <2>3, <2>4 DEF LsIInv
<1>4. CASE UNCHANGED lsVars
  BY <1>4 DEF lsVars, LsIInv, LsTypes, LogKnown, LogIsWhole, TransferIsAPrefix
<1>5. ASSUME NEW opens \in BOOLEAN,
             WriteLogMessage(opens)
               \/ \E lvl \in Levels : WriteDbgMessage(lvl, opens)
      PROVE  LsIInv'
  BY <1>4, <1>5, PostStep DEF WriteLogMessage, WriteDbgMessage
<1> QED
  BY <1>1, <1>2, <1>3, <1>4, <1>5 DEF LsNext

(* Whatever the environment and the order of configuring, posting and      *)
(* carrying over, and whenever the file cannot be opened or copied: the    *)
(* log is whole and what was carried over is its beginning.                *)
THEOREM NothingIsEverLost == LsSpec => []NothingIsLost
<1>1. LsInit => LsIInv
  <2> SUFFICES ASSUME LsInit PROVE LsIInv
    OBVIOUS
  <2>1. LsTypes
    <3>1. <<>> \in Seq(1..posted)
      OBVIOUS
    <3>2. written \in [Files -> Seq(1..posted)]
      BY <3>1 DEF LsInit
    <3>3. 2 \in Levels /\ posted \in Nat
      BY DEF LsInit, Levels
    <3>4. log_filename \in Files /\ log_file \in Files \cup {"none"}
      BY LsFilesAreNamed DEF LsInit
    <3>5. log_dest \in 0..3 /\ dbglvl \in Levels
      BY <3>3 DEF LsInit
    <3>7. lsDone \in BOOLEAN /\ lsEarly \in BOOLEAN
      BY Zenon DEF LsInit
    <3>6. lsKept = <<>> /\ copied = <<>>
      BY DEF LsInit
    <3> QED
      BY <3>1, <3>2, <3>3, <3>4, <3>5, <3>6, <3>7 DEF LsTypes
  <2>2. LogKnown /\ LogIsWhole /\ TransferIsAPrefix
    BY LsFilesAreNamed DEF LsInit, LogKnown, LogIsWhole, TransferIsAPrefix, IsPrefix
  <2> QED
    BY <2>1, <2>2 DEF LsIInv
<1>2. LsIInv => NothingIsLost
  BY DEF LsIInv, LsTypes, NothingIsLost, LsTypeOK
<1> QED
  BY <1>1, <1>2, LogStep, PTL DEF LsSpec

-----------------------------------------------------------------------------
(* The errors *)

EsIInv == EsTypeOK /\ RefsAreCounted

(* A caller's lists are finitely many.                                     *)
LEMMA HoldersAreFinite ==
  ASSUME EsTypeOK, NEW e
  PROVE  /\ IsFiniteSet(Holders(e)) /\ Cardinality(Holders(e)) \in Nat
         /\ Holders(e) # {} => Cardinality(Holders(e)) > 0
<1>1. IsFiniteSet(1..MaxLists)
  BY FS_Interval, EsAssumption
<1>2. Holders(e) \subseteq 1..MaxLists
  BY DEF Holders, EsTypeOK
<1>3. IsFiniteSet(Holders(e))
  BY <1>1, <1>2, FS_Subset
<1> QED
  BY <1>3, FS_CardinalityType, FS_EmptySet

(* Handing out a list makes its caller a holder of everything in it.       *)
LEMMA HandCounts ==
  ASSUME EsTypeOK, NEW i \in DOMAIN held, held[i] = {}, NEW list,
         held' = [held EXCEPT ![i] = list], NEW e
  PROVE  Cardinality(Holders(e)')
           = Cardinality(Holders(e)) + (IF e \in list THEN 1 ELSE 0)
<1>1. held \in [1..MaxLists -> SUBSET DOMAIN refs]
  BY DEF EsTypeOK
<1>2. Holders(e)' = IF e \in list THEN Holders(e) \cup {i} ELSE Holders(e)
  BY <1>1 DEF Holders
<1>3. i \notin Holders(e)
  BY DEF Holders
<1> QED
  BY <1>2, <1>3, HoldersAreFinite, FS_AddElement

(* Freeing one takes it away from them.                                    *)
LEMMA FreeCounts ==
  ASSUME EsTypeOK, NEW i \in DOMAIN held, held' = [held EXCEPT ![i] = {}], NEW e
  PROVE  Cardinality(Holders(e)')
           = Cardinality(Holders(e)) - (IF e \in held[i] THEN 1 ELSE 0)
<1>1. held \in [1..MaxLists -> SUBSET DOMAIN refs]
  BY DEF EsTypeOK
<1>2. Holders(e)' = IF e \in held[i] THEN Holders(e) \ {i} ELSE Holders(e)
  BY <1>1 DEF Holders
<1>3. e \in held[i] => i \in Holders(e)
  BY <1>1 DEF Holders
<1>4. IsFiniteSet(Holders(e)) /\ Cardinality(Holders(e)) \in Nat
  BY HoldersAreFinite
<1>5. CASE e \in held[i]
  BY <1>2, <1>3, <1>4, <1>5, FS_RemoveElement
<1>6. CASE e \notin held[i]
  BY <1>2, <1>4, <1>6
<1> QED
  BY <1>5, <1>6

(* Giving out a list of registered errors counts it.                       *)
LEMMA HandStep ==
  ASSUME EsIInv, NEW list \in SUBSET errors, NEW reason \in {Ok, Einval, Failed},
         Hand(list, reason)
  PROVE  EsIInv'
<1>1. PICK i \in DOMAIN held : held[i] = {} /\ held' = [held EXCEPT ![i] = list]
  BY DEF Hand
<1>2. /\ refs' = [e \in DOMAIN refs |-> refs[e] + (IF e \in list THEN 1 ELSE 0)]
      /\ es' = reason /\ UNCHANGED <<attrs, errors, freed>>
  BY DEF Hand, ConvertList
<1>3. refs \in Seq(Int) /\ list \subseteq DOMAIN refs
  BY DEF EsIInv, EsTypeOK
<1>4. refs' \in Seq(Int) /\ Len(refs') = Len(refs) /\ DOMAIN refs' = DOMAIN refs
  BY <1>2, <1>3
<1>5. EsTypeOK'
  BY <1>1, <1>2, <1>3, <1>4 DEF EsIInv, EsTypeOK
<1>6. RefsAreCounted'
  <2> SUFFICES ASSUME NEW e \in DOMAIN refs
               PROVE  refs'[e] = Cardinality(Holders(e)') + (IF e \in errors THEN 1 ELSE 0) + (1 - freed[e])
    BY <1>2, <1>4 DEF RefsAreCounted
  <2>1. refs[e] = Cardinality(Holders(e)) + (IF e \in errors THEN 1 ELSE 0) + (1 - freed[e])
    BY DEF EsIInv, RefsAreCounted
  <2>4. freed[e] \in Nat
    BY DEF EsIInv, EsTypeOK
  <2>2. Cardinality(Holders(e)')
          = Cardinality(Holders(e)) + (IF e \in list THEN 1 ELSE 0)
    BY <1>1, HandCounts DEF EsIInv
  <2>3. Cardinality(Holders(e)) \in Nat
    BY HoldersAreFinite DEF EsIInv
  <2> QED
    BY <1>2, <2>1, <2>2, <2>3, <2>4
<1> QED
  BY <1>5, <1>6 DEF EsIInv

(* A caller's free gives back what the list counted.                       *)
LEMMA FreeListStep ==
  ASSUME EsIInv, NEW i \in DOMAIN held, FreeErrInfoList(i)
  PROVE  EsIInv'
<1>1. /\ held' = [held EXCEPT ![i] = {}]
      /\ refs' = [e \in DOMAIN refs |-> refs[e] - (IF e \in held[i] THEN 1 ELSE 0)]
      /\ UNCHANGED <<attrs, errors, es, freed>>
  BY DEF FreeErrInfoList, DropOne
<1>2. refs \in Seq(Int) /\ refs' \in Seq(Int) /\ Len(refs') = Len(refs)
      /\ DOMAIN refs' = DOMAIN refs
  <2>1. refs \in Seq(Int)
    BY DEF EsIInv, EsTypeOK
  <2> QED
    BY <1>1, <2>1
<1>3. EsTypeOK'
  BY <1>1, <1>2 DEF EsIInv, EsTypeOK
<1>4. RefsAreCounted'
  <2> SUFFICES ASSUME NEW e \in DOMAIN refs
               PROVE  refs'[e] = Cardinality(Holders(e)') + (IF e \in errors THEN 1 ELSE 0) + (1 - freed[e])
    BY <1>1, <1>2 DEF RefsAreCounted
  <2>1. refs[e] = Cardinality(Holders(e)) + (IF e \in errors THEN 1 ELSE 0) + (1 - freed[e])
    BY DEF EsIInv, RefsAreCounted
  <2>4. freed[e] \in Nat
    BY DEF EsIInv, EsTypeOK
  <2>2. Cardinality(Holders(e)')
          = Cardinality(Holders(e)) - (IF e \in held[i] THEN 1 ELSE 0)
    BY <1>1, FreeCounts DEF EsIInv
  <2>3. Cardinality(Holders(e)) \in Nat
    BY HoldersAreFinite DEF EsIInv
  <2> QED
    BY <1>1, <2>1, <2>2, <2>3, <2>4
<1> QED
  BY <1>3, <1>4 DEF EsIInv

(* A new error has two references and no list names it.                    *)
LEMMA CreateStep ==
  ASSUME EsIInv, NEW mod, NEW type, CreateErrInfo(mod, type)
  PROVE  EsIInv'
<1>1. CASE /\ Len(refs) < MaxErrors /\ refs' = Append(refs, 2)
           /\ attrs' = Append(attrs, [mod |-> mod, type |-> type, data |-> {}])
           /\ errors' = errors \cup {Len(refs) + 1}
           /\ freed' = Append(freed, 0) /\ es' = Ok /\ UNCHANGED held
  <2>1. /\ refs \in Seq(Int) /\ refs' \in Seq(Int) /\ Len(refs') = Len(refs) + 1
        /\ DOMAIN refs = 1..Len(refs) /\ DOMAIN refs' = 1..(Len(refs) + 1)
        /\ Len(refs) \in Nat /\ refs'[Len(refs) + 1] = 2
        /\ \A e \in DOMAIN refs : refs'[e] = refs[e]
    BY <1>1 DEF EsIInv, EsTypeOK
  <2>2. DOMAIN attrs' = DOMAIN refs'
    BY <1>1, <2>1 DEF EsIInv, EsTypeOK
  <2>7. /\ freed \in Seq(Nat) /\ Len(freed) = Len(refs) /\ freed' \in Seq(Nat) /\ Len(freed') = Len(refs')
        /\ freed'[Len(refs) + 1] = 0 /\ \A e \in DOMAIN refs : freed'[e] = freed[e]
    BY <1>1, <2>1 DEF EsIInv, EsTypeOK
  <2>3. EsTypeOK'
    <3>1. errors' \subseteq DOMAIN refs' /\ held' \in [1..MaxLists -> SUBSET DOMAIN refs']
      BY <1>1, <2>1 DEF EsIInv, EsTypeOK
    <3> QED
      BY <1>1, <2>1, <2>2, <2>7, <3>1, EsAssumption DEF EsTypeOK
  <2>4. \A e : Holders(e)' = Holders(e)
    BY <1>1 DEF Holders
  <2>5. Holders(Len(refs) + 1) = {}
    BY <2>1 DEF Holders, EsIInv, EsTypeOK
  <2>6. RefsAreCounted'
    <3> SUFFICES ASSUME NEW e \in DOMAIN refs'
                 PROVE  refs'[e] = Cardinality(Holders(e)) + (IF e \in errors' THEN 1 ELSE 0) + (1 - freed'[e])
      BY <1>1, <2>4 DEF RefsAreCounted
    <3>1. CASE e = Len(refs) + 1
      <4>1. Cardinality(Holders(e)) = 0
        BY <2>5, <3>1, FS_EmptySet
      <4> QED
        BY <1>1, <2>1, <2>7, <3>1, <4>1
    <3>2. CASE e \in DOMAIN refs
      BY <1>1, <2>1, <2>7, <3>2 DEF EsIInv, RefsAreCounted
    <3> QED
      BY <2>1, <3>1, <3>2
  <2> QED
    BY <2>3, <2>6 DEF EsIInv
<1>2. CASE es' = Einval /\ UNCHANGED <<refs, attrs, errors, held, freed>>
  BY <1>2 DEF EsIInv, EsTypeOK, RefsAreCounted, Holders
<1> QED
  BY <1>1, <1>2 DEF CreateErrInfo

(* Dropping a reference of each of a list drops no other.                  *)
LEMMA DropKeeps ==
  ASSUME NEW list, NEW r \in Seq(Int)
  PROVE  /\ DropOne(list, r) \in Seq(Int) /\ DOMAIN DropOne(list, r) = DOMAIN r /\ Len(DropOne(list, r)) = Len(r)
         /\ \A e \in DOMAIN r : DropOne(list, r)[e] = r[e] - (IF e \in list THEN 1 ELSE 0)
<1> DEFINE less == DropOne(list, r)
<1>1. DOMAIN r = 1 .. Len(r) /\ Len(r) \in Nat /\ \A e \in DOMAIN r : r[e] \in Int
  OBVIOUS
<1>2. less = [e \in 1 .. Len(r) |-> r[e] - (IF e \in list THEN 1 ELSE 0)]
  BY <1>1 DEF DropOne
<1> HIDE DEF less
<1>3. less \in Seq(Int) /\ Len(less) = Len(r) /\ DOMAIN less = DOMAIN r
  BY <1>1, <1>2
<1> QED
  BY <1>1, <1>2, <1>3 DEF less

(* A list that is handed out takes a reference of each of its errors.       *)
LEMMA ConvertTakes ==
  ASSUME NEW list, refs \in Seq(Int)
  PROVE  /\ ConvertList(list) \in Seq(Int) /\ DOMAIN ConvertList(list) = DOMAIN refs /\ Len(ConvertList(list)) = Len(refs)
         /\ \A e \in DOMAIN refs : ConvertList(list)[e] = refs[e] + (IF e \in list THEN 1 ELSE 0)
<1> DEFINE more == ConvertList(list)
<1>1. DOMAIN refs = 1 .. Len(refs) /\ Len(refs) \in Nat /\ \A e \in DOMAIN refs : refs[e] \in Int
  OBVIOUS
<1>2. more = [e \in 1 .. Len(refs) |-> refs[e] + (IF e \in list THEN 1 ELSE 0)]
  BY <1>1 DEF ConvertList
<1> HIDE DEF more
<1>3. more \in Seq(Int) /\ Len(more) = Len(refs) /\ DOMAIN more = DOMAIN refs
  BY <1>1, <1>2
<1> QED
  BY <1>1, <1>2, <1>3 DEF more

(* es_free_errors gives back the creator's reference of what it listed,    *)
(* and that of _ERRORS when Python forgot it.                              *)
LEMMA FreeErrorsStep ==
  ASSUME EsIInv, NEW listed \in BOOLEAN, NEW cleared \in BOOLEAN,
         FreeErrors(listed, cleared)
  PROVE  EsIInv'
<1> DEFINE seen == IF listed THEN errors ELSE {}
           released == Released(seen)
<1>1. /\ refs' = IF cleared THEN DropOne(errors, released) ELSE released
      /\ errors' = IF cleared THEN {} ELSE errors
      /\ freed' = [e \in DOMAIN freed |-> freed[e] + (IF e \in seen THEN 1 ELSE 0)]
      /\ UNCHANGED <<attrs, held, es>>
  BY DEF FreeErrors
<1>2. refs \in Seq(Int) /\ errors \subseteq DOMAIN refs /\ seen \subseteq errors
      /\ freed \in Seq(Nat) /\ DOMAIN freed = DOMAIN refs
  BY DEF EsIInv, EsTypeOK
<1> HIDE DEF seen
<1>3. /\ released \in Seq(Int) /\ DOMAIN released = DOMAIN refs
      /\ Len(released) = Len(refs)
      /\ \A e \in DOMAIN refs :
           released[e] = refs[e] - (IF e \in seen THEN 1 ELSE 0)
  <2> DEFINE once == ConvertList(seen)  twice == DropOne(seen, once)
  <2>1. /\ once \in Seq(Int) /\ DOMAIN once = DOMAIN refs /\ Len(once) = Len(refs)
        /\ \A e \in DOMAIN refs : once[e] = refs[e] + (IF e \in seen THEN 1 ELSE 0)
    BY <1>2, ConvertTakes
  <2> HIDE DEF once
  <2>2. /\ twice \in Seq(Int) /\ DOMAIN twice = DOMAIN once /\ Len(twice) = Len(once)
        /\ \A e \in DOMAIN once : twice[e] = once[e] - (IF e \in seen THEN 1 ELSE 0)
    BY <2>1, DropKeeps
  <2> HIDE DEF twice
  <2>3. released = DropOne(seen, twice)
    BY DEF Released, once, twice
  <2>4. /\ released \in Seq(Int) /\ DOMAIN released = DOMAIN twice /\ Len(released) = Len(twice)
        /\ \A e \in DOMAIN twice : released[e] = twice[e] - (IF e \in seen THEN 1 ELSE 0)
    BY <2>2, <2>3, DropKeeps
  <2> HIDE DEF released
  <2>5. \A e \in DOMAIN refs : refs[e] \in Int
    BY <1>2
  <2>6. \A e \in DOMAIN refs : released[e] = refs[e] - (IF e \in seen THEN 1 ELSE 0)
    BY <2>1, <2>2, <2>4, <2>5
  <2> QED
    BY <2>1, <2>2, <2>4, <2>6
<1> HIDE DEF released
<1>4. /\ refs' \in Seq(Int) /\ DOMAIN refs' = DOMAIN refs /\ Len(refs') = Len(refs)
      /\ cleared => \A e \in DOMAIN refs :
                     refs'[e] = released[e] - (IF e \in errors THEN 1 ELSE 0)
      /\ ~cleared => refs' = released
  BY <1>1, <1>3, DropKeeps
<1>7. freed' \in Seq(Nat) /\ Len(freed') = Len(freed)
      /\ \A e \in DOMAIN refs : freed[e] \in Nat /\ freed'[e] = freed[e] + (IF e \in seen THEN 1 ELSE 0)
  <2>1. Len(freed) \in Nat /\ DOMAIN freed = 1..Len(freed) /\ \A e \in DOMAIN freed : freed[e] \in Nat
    BY <1>2
  <2>2. freed' \in [1..Len(freed) -> Nat]
    BY <1>1, <2>1
  <2>3. freed' \in Seq(Nat) /\ Len(freed') = Len(freed)
    BY <2>1, <2>2
  <2> QED
    BY <1>1, <1>2, <2>1, <2>3
<1>5. EsTypeOK'
  BY <1>1, <1>4, <1>7 DEF EsIInv, EsTypeOK
<1>6. RefsAreCounted'
  <2> SUFFICES ASSUME NEW e \in DOMAIN refs
               PROVE  refs'[e] = Cardinality(Holders(e)') + (IF e \in errors' THEN 1 ELSE 0) + (1 - freed'[e])
    BY <1>4 DEF RefsAreCounted
  <2>3. refs[e] = Cardinality(Holders(e)) + (IF e \in errors THEN 1 ELSE 0) + (1 - freed[e])
    BY DEF EsIInv, RefsAreCounted
  <2>4. Holders(e)' = Holders(e) /\ Cardinality(Holders(e)) \in Nat
    BY <1>1, HoldersAreFinite DEF Holders, EsIInv
  <2>5. released[e] = refs[e] - (IF e \in seen THEN 1 ELSE 0)
    BY <1>3
  <2>6. freed[e] \in Nat /\ freed'[e] = freed[e] + (IF e \in seen THEN 1 ELSE 0)
    BY <1>7
  <2>7. CASE cleared
    <3>1. refs'[e] = released[e] - (IF e \in errors THEN 1 ELSE 0) /\ e \notin errors'
      BY <1>1, <1>4, <2>7
    <3> QED
      BY <2>3, <2>4, <2>5, <2>6, <3>1
  <2>8. CASE ~cleared
    <3>1. refs'[e] = released[e] /\ errors' = errors
      BY <1>1, <1>4, <2>8
    <3> QED
      BY <2>3, <2>4, <2>5, <2>6, <3>1
  <2> QED
    BY <2>7, <2>8
<1> QED
  BY <1>5, <1>6 DEF EsIInv

(* Setting and asking for the data of an error counts nothing.             *)
LEMMA ErrorsStep == EsIInv /\ [EsNext]_esVars => EsIInv'
<1> SUFFICES ASSUME EsIInv, [EsNext]_esVars PROVE EsIInv'
  OBVIOUS
<1>1. ASSUME NEW reason \in {Ok, Einval, Failed}, NoList(reason) PROVE EsIInv'
  BY <1>1 DEF NoList, EsIInv, EsTypeOK, RefsAreCounted, Holders
<1>2. ASSUME NEW e \in Reachable, NEW kind, SetData(e, kind) PROVE EsIInv'
  <2>1. DOMAIN attrs' = DOMAIN attrs
    BY <1>2 DEF SetData
  <2> QED
    BY <1>2, <2>1 DEF SetData, EsIInv, EsTypeOK, RefsAreCounted, Holders
<1>3. CASE UNCHANGED esVars
  BY <1>3 DEF esVars, EsIInv, EsTypeOK, RefsAreCounted, Holders
<1>4. CASE GetAllErrors
  BY <1>1, <1>4, HandStep DEF GetAllErrors
<1>5. ASSUME NEW mod \in ModIds, GetErrorsByModid(mod) PROVE EsIInv'
  BY <1>1, <1>5, HandStep DEF GetErrorsByModid
<1>6. ASSUME NEW type \in ErrTypes, GetErrorsByType(type) PROVE EsIInv'
  BY <1>1, <1>6, HandStep DEF GetErrorsByType
<1>7. ASSUME NEW e \in Reachable, NEW kind \in IntData \cup StrData,
             \/ SetErrDataInt(e, kind) \/ SetErrDataStr(e, kind)
             \/ GetErrDataInt(e, kind) \/ GetErrDataStr(e, kind)
      PROVE  EsIInv'
  BY <1>1, <1>2, <1>7
     DEF SetErrDataInt, SetErrDataStr, GetErrDataInt, GetErrDataStr
<1>8. ASSUME NEW e \in Reachable, GetErrType(e) \/ GetErrModId(e) PROVE EsIInv'
  BY <1>1, <1>8 DEF GetErrType, GetErrModId
<1>9. ASSUME EsNext PROVE EsIInv'
  BY <1>4, <1>5, <1>6, <1>7, <1>8, <1>9, CreateStep, FreeListStep, FreeErrorsStep
     DEF EsNext
<1> QED
  BY <1>3, <1>9

(* For any number of errors and lists, and whichever calls of Python fail, *)
(* every error is counted as often as it is held, less once for every time *)
(* it was released; and it is alive for whoever holds it as long as that   *)
(* happened once at most (es_free_errors, es_free_err_info_list).          *)
THEOREM ErrorsAreAlwaysCounted == EsSpec => []ErrorsAreCounted
<1>1. EsInit => EsIInv
  <2> SUFFICES ASSUME EsInit PROVE EsIInv
    OBVIOUS
  <2>1. refs \in Seq(Int) /\ Len(refs) = 0 /\ DOMAIN refs = {} /\ DOMAIN attrs = {}
    BY DEF EsInit
  <2>2. held \in [1..MaxLists -> SUBSET DOMAIN refs] /\ errors \subseteq DOMAIN refs
    BY DEF EsInit
  <2>3. es \in {Ok, Einval, Failed} /\ freed \in Seq(Nat) /\ Len(freed) = Len(refs)
    BY DEF EsInit
  <2>4. EsTypeOK
    BY <2>1, <2>2, <2>3, EsAssumption DEF EsTypeOK
  <2> QED
    BY <2>1, <2>4 DEF EsIInv, RefsAreCounted
<1>2. EsIInv => ErrorsAreCounted
  <2> SUFFICES ASSUME EsIInv, NEW e \in Reachable \cup errors, freed[e] <= 1 PROVE Alive(e)
    BY DEF EsIInv, ErrorsAreCounted, HeldErrorsAreAlive
  <2>1. e \in DOMAIN refs /\ (e \in errors \/ Holders(e) # {})
    <3>1. CASE e \in errors
      BY <3>1 DEF EsIInv, EsTypeOK
    <3>2. CASE e \in Reachable
      <4>1. PICK i \in DOMAIN held : e \in held[i]
        BY <3>2 DEF Reachable
      <4> QED
        BY <4>1 DEF EsIInv, EsTypeOK, Holders
    <3> QED
      BY <3>1, <3>2
  <2>2. freed[e] \in 0..1
    BY <2>1 DEF EsIInv, EsTypeOK
  <2>3. Cardinality(Holders(e)) \in Nat /\ (Holders(e) # {} => Cardinality(Holders(e)) > 0)
    BY <2>1, HoldersAreFinite DEF EsIInv
  <2>4. refs[e] = Cardinality(Holders(e)) + (IF e \in errors THEN 1 ELSE 0) + (1 - freed[e])
    BY <2>1 DEF EsIInv, RefsAreCounted
  <2> QED
    BY <2>1, <2>2, <2>3, <2>4 DEF Alive
<1> QED
  BY <1>1, <1>2, ErrorsStep, PTL DEF EsSpec

-----------------------------------------------------------------------------
(* The install services *)

Groups    == [on : BOOLEAN, ver : 0..MaxCommits, props : [Props -> Values \cup {Unset}]]
Trans     == [svc : Services \cup {"none"}, ver : Nat]
Calls     == [op : {"idle", "set", "change", "delete", "new", "del"},
              at : {"end", "commit", "start", "create", "delete"},
              svc : Services \cup {"none"}, prop : Props \cup {"none"},
              val : Values \cup {Unset}]

(* A call that is under way names its service, and the property it is      *)
(* about; only one that is about to commit has a transaction, on the group *)
(* it names.                                                               *)
CallFits(call, trans) ==
  /\ call.at # "end" => call.svc \in Services
  /\ call.at \in {"commit", "start"} => call.prop \in Props
  /\ call.at = "commit" => trans.svc = call.svc /\ call.op \in {"set", "change", "delete"}
  /\ call.at = "start" => call.op = "delete"
  /\ call.at = "create" => call.op = "new"
  /\ call.at = "delete" => call.op = "del"
  /\ call.at # "commit" => trans = NoTrans

ScIInv ==
  /\ scRepo \in [Services -> Groups]
  /\ scPg \in [Clients -> Services \cup {"NULL", "blank"}]
  /\ scTrans \in [Clients -> Trans] /\ scCall \in [Clients -> Calls]
  /\ \A c \in Clients : CallFits(scCall[c], scTrans[c])

(* What ChangesAreAsked says of one step.                                  *)
Asked == \A s \in Services : scRepo'[s] # scRepo[s] =>
           \E c \in Clients : /\ scCall[c].svc = s /\ scCall'[c] = Idle /\ scRet'[c] = "AI_SUCCESS"
                              /\ IsAsked(c, s)

LEMMA IdleFits == Idle \in Calls /\ NoTrans \in Trans /\ CallFits(Idle, NoTrans)
                  /\ Idle.at = "end"
  BY DEF Idle, Calls, NoTrans, Trans, CallFits, Unset

(* What a client's step has to see to.                                     *)
LEMMA ClientStep ==
  ASSUME ScIInv, NEW c \in Clients, NEW call \in Calls, NEW trans \in Trans,
         scCall' = [scCall EXCEPT ![c] = call],
         scTrans' = [scTrans EXCEPT ![c] = trans],
         CallFits(call, trans),
         scPg' \in [Clients -> Services \cup {"NULL", "blank"}],
         scRepo' \in [Services -> Groups]
  PROVE  ScIInv'
<1>1. scTrans' \in [Clients -> Trans] /\ scCall' \in [Clients -> Calls]
  BY DEF ScIInv
<1>2. ASSUME NEW d \in Clients PROVE CallFits(scCall'[d], scTrans'[d])
  <2>1. CASE d = c
    <3>1. scCall'[d] = call /\ scTrans'[d] = trans
      BY <2>1 DEF ScIInv
    <3> QED
      BY <3>1
  <2>2. CASE d # c
    <3>1. scCall'[d] = scCall[d] /\ scTrans'[d] = scTrans[d]
      BY <2>2 DEF ScIInv
    <3> QED
      BY <3>1 DEF ScIInv
  <2> QED
    BY <2>1, <2>2
<1> QED
  BY <1>1, <1>2 DEF ScIInv, CallFits

(* Between calls, and before and after the transaction, there is none.     *)
LEMMA NoneYet ==
  ASSUME ScIInv, NEW c \in Clients, scCall[c] = Idle \/ scCall[c].at # "commit"
  PROVE  scTrans[c] = NoTrans /\ scTrans = [scTrans EXCEPT ![c] = NoTrans]
  BY IdleFits DEF ScIInv, CallFits

(* A call that ends outside a transaction.                                 *)
LEMMA ReturnStep ==
  ASSUME ScIInv, NEW c \in Clients, NEW ret, Return(c, ret),
         scTrans' = [scTrans EXCEPT ![c] = NoTrans],
         scPg' \in [Clients -> Services \cup {"NULL", "blank"}],
         scRepo' \in [Services -> Groups]
  PROVE  ScIInv'
  BY ClientStep, IdleFits DEF Return

(* A group that is loaded is a service's or none.                          *)
LEMMA LoadedGroups ==
  ASSUME ScIInv, NEW c \in Clients, NEW s \in Services
  PROVE  Loaded(c, s) \in Services \cup {"NULL", "blank"}
  BY DEF ScIInv, Loaded

(* A call that goes on after loading a group, without a transaction.       *)
LEMMA LoadStep ==
  ASSUME ScIInv, NEW c \in Clients, NEW s \in Services, scCall[c] = Idle,
         Handle(c, Loaded(c, s), scTrans[c]), UNCHANGED scRepo,
         \/ \E ret : Return(c, ret)
         \/ \E call \in Calls : Proceed(c, call) /\ CallFits(call, NoTrans)
  PROVE  ScIInv'
<1>1. scTrans' = [scTrans EXCEPT ![c] = NoTrans]
  BY NoneYet DEF Handle
<1>2. scPg' \in [Clients -> Services \cup {"NULL", "blank"}]
  BY LoadedGroups DEF Handle, ScIInv
<1>3. scRepo' \in [Services -> Groups]
  BY DEF ScIInv
<1>4. CASE \E ret : Return(c, ret)
  BY <1>1, <1>2, <1>3, <1>4, ReturnStep
<1>5. CASE \E call \in Calls : Proceed(c, call) /\ CallFits(call, NoTrans)
  BY <1>1, <1>2, <1>3, <1>5, ClientStep, IdleFits DEF Proceed
<1> QED
  BY <1>4, <1>5

(* ai_start_transaction begins one for the call, or the call is over.      *)
LEMMA StartStep ==
  ASSUME ScIInv, NEW c \in Clients, NEW s \in Services, NEW call \in Calls,
         call.at = "commit", call.svc = s, call.prop \in Props, call.op \in {"set", "change", "delete"},
         scCall[c] = Idle \/ scCall[c].at = "start",
         ai_start_transaction(c, s, call), UNCHANGED scRepo
  PROVE  ScIInv'
<1>1. scRepo' \in [Services -> Groups] /\ scRepo[s].ver \in Nat
  BY ScAssumption DEF ScIInv, Groups
<1>2. scTrans[c] = NoTrans /\ scTrans = [scTrans EXCEPT ![c] = NoTrans]
  BY NoneYet
<1>3. CASE /\ Return(c, "AI_NO_SUCH_INSTANCE") /\ UNCHANGED <<scPg, scTrans>>
  BY <1>1, <1>2, <1>3, ReturnStep DEF ScIInv
<1>4. CASE /\ Return(c, "AI_NO_SUCH_PG")
           /\ Handle(c, IF scPg[c] = "NULL" THEN "blank" ELSE scPg[c], scTrans[c])
  <2>1. scPg' \in [Clients -> Services \cup {"NULL", "blank"}]
    BY <1>4 DEF Handle, ScIInv
  <2> QED
    BY <1>1, <1>2, <1>4, <2>1, ReturnStep DEF Handle
<1>5. CASE Return(c, "AI_TRANS_ERR") /\ Handle(c, s, NoTrans)
  <2>1. scPg' \in [Clients -> Services \cup {"NULL", "blank"}]
    BY <1>5 DEF Handle, ScIInv
  <2> QED
    BY <1>1, <1>5, <2>1, ReturnStep DEF Handle
<1>6. CASE Proceed(c, call) /\ Handle(c, s, [svc |-> s, ver |-> scRepo[s].ver])
  <2> DEFINE trans == [svc |-> s, ver |-> scRepo[s].ver]
  <2>1. scPg' \in [Clients -> Services \cup {"NULL", "blank"}]
    BY <1>6 DEF Handle, ScIInv
  <2>2. trans \in Trans /\ CallFits(call, trans)
    BY <1>1 DEF Trans, CallFits
  <2>3. scCall' = [scCall EXCEPT ![c] = call] /\ scTrans' = [scTrans EXCEPT ![c] = trans]
    BY <1>6 DEF Proceed, Handle
  <2> HIDE DEF trans
  <2> QED
    BY <1>1, <2>1, <2>2, <2>3, ClientStep
<1> QED
  BY <1>3, <1>4, <1>5, <1>6 DEF ai_start_transaction

(* A commit writes the group that the call names, or nothing, and ends the *)
(* transaction in either case.                                             *)
LEMMA CommitStep ==
  ASSUME ScIInv, NEW c \in Clients, Commit(c)
  PROVE  ScIInv' /\ Asked
<1> DEFINE s == scTrans[c].svc
           p == scCall[c].prop
           v == scCall[c].val
<1>1. /\ s \in Services /\ s = scCall[c].svc /\ p \in Props
      /\ v \in Values \cup {Unset} /\ scCall[c] \in Calls
  BY DEF Commit, ScIInv, CallFits, Calls
<1>2. scTrans' = [scTrans EXCEPT ![c] = NoTrans] /\ UNCHANGED scPg
      /\ \E ret : Return(c, ret)
  BY DEF Commit, Abandon, ai_end_transaction, ai_abort_transaction
<1>3. scRepo' = scRepo \/ (/\ scRepo[s].ver < MaxCommits /\ Write(s, p, v)
                           /\ Exists(s) /\ ~Stale(c) /\ Return(c, "AI_SUCCESS"))
  BY DEF Commit, Abandon, ai_end_transaction
<1>4. scRepo' \in [Services -> Groups]
      /\ \A t \in Services \ {s} : scRepo'[t] = scRepo[t]
  <2>1. CASE scRepo' = scRepo
    BY <2>1 DEF ScIInv
  <2>2. CASE scRepo[s].ver < MaxCommits /\ Write(s, p, v)
    <3>1. scRepo[s] \in Groups
      BY <1>1 DEF ScIInv
    <3> DEFINE g == [on |-> scRepo[s].on, ver |-> scRepo[s].ver + 1,
                        props |-> [scRepo[s].props EXCEPT ![p] = v]]
    <3>2. scRepo[s].ver + 1 \in 0..MaxCommits
      BY <2>2, <3>1, ScAssumption DEF Groups
    <3>3. [scRepo[s].props EXCEPT ![p] = v] \in [Props -> Values \cup {Unset}]
      BY <1>1, <3>1 DEF Groups
    <3>4. g \in Groups
      BY <3>1, <3>2, <3>3 DEF Groups
    <3>5. scRepo' = [scRepo EXCEPT ![s] = g]
      BY <2>2 DEF Write
    <3> HIDE DEF g
    <3> QED
      BY <1>1, <3>4, <3>5 DEF ScIInv
  <2> QED
    BY <1>3, <2>1, <2>2
<1>5. Asked
  <2>1. SUFFICES ASSUME scRepo' # scRepo
                 PROVE  scCall'[c] = Idle /\ scRet'[c] = "AI_SUCCESS" /\ IsAsked(c, s)
    BY <1>1, <1>4 DEF Asked
  <2>2. Write(s, p, v) /\ Exists(s) /\ ~Stale(c) /\ Return(c, "AI_SUCCESS")
    BY <1>3, <2>1
  <2>3. scCall'[c] = Idle /\ scRet'[c] = "AI_SUCCESS"
    BY <2>2 DEF Return, ScIInv
  <2>4. scTrans[c] = [svc |-> s, ver |-> scRepo[s].ver]
    BY <2>2 DEF Stale, ScIInv, Trans
  <2>5. scRepo'[s].on = scRepo[s].on /\ scRepo'[s].props = [scRepo[s].props EXCEPT ![p] = v] /\ scRepo[s].on
    BY <1>1, <2>2 DEF Write, Exists, ScIInv
  <2>6. scCall[c].op \in {"set", "change", "delete"}
    BY DEF Commit, ScIInv, CallFits
  <2> QED
    BY <2>3, <2>4, <2>5, <2>6 DEF IsAsked
<1> QED
  BY <1>2, <1>4, <1>5, ReturnStep DEF ScIInv

(* So do the two that make and destroy a group.                            *)
LEMMA GroupStep ==
  ASSUME ScIInv, NEW c \in Clients, ai_create_pg(c) \/ ai_delete_pg(c)
  PROVE  ScIInv' /\ Asked
<1> DEFINE s == scCall[c].svc
<1>1. s \in Services /\ scCall[c].at # "commit" /\ scPg[c] \in Services \cup {"NULL", "blank"}
  BY DEF ai_create_pg, ai_delete_pg, ScIInv, CallFits
<1>2. scTrans' = [scTrans EXCEPT ![c] = NoTrans]
  BY <1>1, NoneYet DEF ai_create_pg, ai_delete_pg
<1>3. \E ret : Return(c, ret)
  BY DEF ai_create_pg, ai_delete_pg
<1>4. scPg' \in [Clients -> Services \cup {"NULL", "blank"}]
  BY <1>1, LoadedGroups DEF ai_create_pg, ai_delete_pg, ScIInv
<1>5. scRepo' = scRepo \/ \E g \in Groups : scRepo' = [scRepo EXCEPT ![s] = g]
  <2>1. NoProps \in [Props -> Values \cup {Unset}]
    BY DEF NoProps
  <2>2. scRepo[s] \in Groups
    BY <1>1 DEF ScIInv
  <2>3. CASE scRepo' = [scRepo EXCEPT ![s].on = FALSE]
    <3>1. [scRepo[s] EXCEPT !.on = FALSE] \in Groups
      BY <2>2 DEF Groups
    <3> QED
      BY <2>3, <3>1
  <2>4. CASE /\ scRepo[s].ver < MaxCommits
             /\ scRepo' = [scRepo EXCEPT ![s] = [on |-> TRUE, ver |-> @.ver + 1, props |-> NoProps]]
    <3>1. [on |-> TRUE, ver |-> scRepo[s].ver + 1, props |-> NoProps] \in Groups
      BY <2>1, <2>2, <2>4, ScAssumption DEF Groups
    <3> QED
      BY <2>4, <3>1
  <2> QED
    BY <2>3, <2>4 DEF ai_create_pg, ai_delete_pg
<1>6. scRepo' \in [Services -> Groups]
      /\ \A t \in Services \ {s} : scRepo'[t] = scRepo[t]
  BY <1>1, <1>5 DEF ScIInv
<1>7. Asked
  <2>1. SUFFICES ASSUME scRepo' # scRepo
                 PROVE  scCall'[c] = Idle /\ scRet'[c] = "AI_SUCCESS" /\ IsAsked(c, s)
    BY <1>1, <1>6 DEF Asked
  <2>2. Return(c, "AI_SUCCESS")
    BY <2>1 DEF ai_create_pg, ai_delete_pg
  <2>3. scCall'[c] = Idle /\ scRet'[c] = "AI_SUCCESS"
    BY <2>2 DEF Return, ScIInv
  <2>4. CASE ai_create_pg(c)
    <3>1. /\ ~Exists(s) /\ scCall[c].at = "create"
          /\ scRepo' = [scRepo EXCEPT ![s] = [on |-> TRUE, ver |-> @.ver + 1, props |-> NoProps]]
      BY <2>1, <2>4 DEF ai_create_pg
    <3>2. scCall[c].op = "new"
      BY <3>1 DEF ScIInv, CallFits
    <3>3. scRepo'[s].on = TRUE /\ scRepo'[s].props = NoProps
      BY <1>1, <3>1 DEF ScIInv
    <3> QED
      BY <2>3, <3>1, <3>2, <3>3 DEF IsAsked, Exists
  <2>5. CASE ai_delete_pg(c)
    <3>1. Exists(s) /\ scCall[c].at = "delete" /\ scRepo' = [scRepo EXCEPT ![s].on = FALSE]
      BY <2>1, <2>5 DEF ai_delete_pg
    <3>2. scCall[c].op = "del"
      BY <3>1 DEF ScIInv, CallFits
    <3>3. scRepo'[s].on = FALSE
      BY <1>1, <3>1 DEF ScIInv, Groups
    <3> QED
      BY <2>3, <3>1, <3>2, <3>3 DEF IsAsked, Exists
  <2> QED
    BY <2>4, <2>5
<1> QED
  BY <1>2, <1>3, <1>4, <1>6, <1>7, ReturnStep

(* Every step of a client.                                                 *)
LEMMA ServiceStep == ScIInv /\ [ScNext]_scVars => ScIInv' /\ (Asked \/ UNCHANGED scVars)
<1> SUFFICES ASSUME ScIInv, [ScNext]_scVars
             PROVE  ScIInv' /\ (Asked \/ UNCHANGED scVars)
  OBVIOUS
<1>1. CASE UNCHANGED scVars
  BY <1>1 DEF scVars, ScIInv
<1>2. UNCHANGED scRepo => Asked
  BY DEF Asked
<1>3. ASSUME NEW c \in Clients, NEW s \in Services, NEW p \in Props, NEW v \in Values,
             ai_set_property(c, s, p, v) \/ ai_change_property(c, s, p, v)
      PROVE  ScIInv' /\ Asked
  <2>1. \A op \in {"set", "change"} : Call(op, "commit", s, p, v) \in Calls
    BY DEF Call, Calls
  <2>2. \A op : /\ Call(op, "commit", s, p, v).at = "commit" /\ Call(op, "commit", s, p, v).op = op
                /\ Call(op, "commit", s, p, v).svc = s
                /\ Call(op, "commit", s, p, v).prop = p
    BY DEF Call
  <2> QED
    BY <1>2, <1>3, <2>1, <2>2, StartStep DEF ai_set_property, ai_change_property
<1>4. ASSUME NEW c \in Clients, NEW s \in Services, NEW p \in Props,
             ai_delete_property(c, s, p)
      PROVE  ScIInv' /\ Asked
  <2>1. /\ scCall[c] = Idle /\ UNCHANGED scRepo
        /\ \/ Return(c, "AI_NO_SUCH_PG") /\ UNCHANGED <<scPg, scTrans>>
           \/ /\ Handle(c, Loaded(c, s), scTrans[c])
              /\ \/ Return(c, "AI_NO_SUCH_PROP")
                 \/ Proceed(c, Call("delete", "start", s, p, Unset))
    BY <1>4 DEF ai_delete_property
  <2>2. Call("delete", "start", s, p, Unset) \in Calls
        /\ CallFits(Call("delete", "start", s, p, Unset), NoTrans)
    BY DEF Call, Calls, CallFits
  <2>3. CASE Return(c, "AI_NO_SUCH_PG") /\ UNCHANGED <<scPg, scTrans>>
    BY <1>2, <2>1, <2>3, ReturnStep, NoneYet DEF ScIInv
  <2>4. CASE /\ Handle(c, Loaded(c, s), scTrans[c])
             /\ \/ Return(c, "AI_NO_SUCH_PROP")
                \/ Proceed(c, Call("delete", "start", s, p, Unset))
    BY <1>2, <2>1, <2>2, <2>4, LoadStep
  <2> QED
    BY <2>1, <2>3, <2>4
<1>5. ASSUME NEW c \in Clients, StartDelete(c) PROVE ScIInv' /\ Asked
  <2> DEFINE call == [scCall[c] EXCEPT !.at = "commit"]
  <2>1. scCall[c] \in Calls /\ scCall[c].at = "start" /\ CallFits(scCall[c], scTrans[c])
    BY <1>5 DEF StartDelete, ScIInv
  <2>2. scCall[c].svc \in Services /\ scCall[c].prop \in Props
    BY <2>1 DEF CallFits
  <2>3. /\ call \in Calls /\ call.at = "commit" /\ call.svc = scCall[c].svc
        /\ call.prop \in Props /\ call.op = "delete"
    BY <2>1, <2>2 DEF Calls, CallFits
  <2> HIDE DEF call
  <2>4. ai_start_transaction(c, scCall[c].svc, call) /\ UNCHANGED scRepo
    BY <1>5 DEF StartDelete, call
  <2> QED
    BY <1>2, <2>1, <2>2, <2>3, <2>4, StartStep
<1>6. ASSUME NEW c \in Clients, NEW s \in Services,
             \/ new_service(c, s) \/ del_service(c, s)
             \/ ai_read_all_props_in_pg(c, s) \/ AIservice_init(c, s)
      PROVE  ScIInv' /\ Asked
  <2>1. /\ Call("new", "create", s, "none", Unset) \in Calls /\ Call("del", "delete", s, "none", Unset) \in Calls
        /\ CallFits(Call("new", "create", s, "none", Unset), NoTrans)
        /\ CallFits(Call("del", "delete", s, "none", Unset), NoTrans)
    BY DEF Call, Calls, CallFits
  <2>2. /\ scCall[c] = Idle /\ UNCHANGED scRepo
        /\ Handle(c, Loaded(c, s), scTrans[c])
        /\ \/ \E ret : Return(c, ret)
           \/ Proceed(c, Call("new", "create", s, "none", Unset))
           \/ Proceed(c, Call("del", "delete", s, "none", Unset))
    BY <1>6 DEF new_service, del_service, ai_read_all_props_in_pg, AIservice_init
  <2> QED
    BY <1>2, <2>1, <2>2, LoadStep
<1>7. ASSUME NEW c \in Clients, AISCF_init(c) \/ DeleteSubscript(c) \/ Die(c)
      PROVE  ScIInv' /\ Asked
  <2>1. UNCHANGED scRepo /\ \E ret : Return(c, ret)
    BY <1>7 DEF AISCF_init, DeleteSubscript, Die
  <2>2. scPg' = scPg \/ scPg' = [scPg EXCEPT ![c] = "blank"]
    BY <1>7 DEF AISCF_init, DeleteSubscript, Die, Handle
  <2>3. scTrans' = [scTrans EXCEPT ![c] = NoTrans]
    BY <1>7, NoneYet DEF AISCF_init, DeleteSubscript, Die, Handle
  <2>4. scPg' \in [Clients -> Services \cup {"NULL", "blank"}]
    BY <2>2 DEF ScIInv
  <2> QED
    BY <1>2, <2>1, <2>3, <2>4, ReturnStep DEF ScIInv
<1> QED
  BY <1>1, <1>3, <1>4, <1>5, <1>6, <1>7, CommitStep, GroupStep DEF ScNext

(* For any clients, services, properties and values, whatever libscf       *)
(* refuses and whoever dies in the middle of a call: no transaction        *)
(* outlives its call, and a group changes only to what a call that named   *)
(* it asked, in the version its transaction began with, and is answered.   *)
THEOREM TransactionsAreAlwaysWhole == ScSpec => TransactionsAreWhole
<1>1. ScInit => ScIInv
  <2> SUFFICES ASSUME ScInit PROVE ScIInv
    OBVIOUS
  <2>1. NoProps \in [Props -> Values \cup {Unset}]
    BY DEF NoProps
  <2>2. [on |-> FALSE, ver |-> 0, props |-> NoProps] \in Groups
    BY <2>1, ScAssumption DEF Groups
  <2>3. scRepo \in [Services -> Groups]
    BY <2>2 DEF ScInit
  <2> QED
    BY <2>3, IdleFits DEF ScInit, ScIInv
<1>2. ScIInv => ScTypeOK /\ NoTransactionIsLeft
  <2> SUFFICES ASSUME ScIInv PROVE ScTypeOK /\ NoTransactionIsLeft
    OBVIOUS
  <2>1. ScTypeOK
    BY DEF ScIInv, ScTypeOK, Groups, Trans
  <2>2. NoTransactionIsLeft
    BY NoneYet DEF NoTransactionIsLeft
  <2> QED
    BY <2>1, <2>2
<1>3. ScIInv /\ [ScNext]_scVars
        => [\A s \in Services : scRepo'[s] # scRepo[s] =>
              \E c \in Clients : /\ scCall[c].svc = s /\ scCall'[c] = Idle /\ scRet'[c] = "AI_SUCCESS"
                                 /\ IsAsked(c, s)]_scVars
  BY ServiceStep DEF Asked
<1>4. ScIInv /\ [ScNext]_scVars => ScIInv'
  BY ServiceStep
<1> QED
  BY <1>1, <1>2, <1>3, <1>4, PTL DEF ScSpec, TransactionsAreWhole, ChangesAreAsked

-----------------------------------------------------------------------------
(* The manifest server *)

(* The tokens of the results of a request.                                 *)
Tokens(r) == {Value(ValuesOf(r)[i]) : i \in 1..Len(ValuesOf(r))} \cup {Token("REQ_COMPLETE")}

(* What is known of a reader and its session, by what the reader waits     *)
(* for. As long as the connection is open, the place of each of the two    *)
(* and the streams between them determine each other.                      *)
AtNew(c) == pc[c] = "new" =>
  /\ asked[c] = <<>> /\ up[c] = <<>> /\ down[c] = <<>> /\ left[c] = <<>>
  /\ session[c] = "none" /\ ~open[c] /\ ~gone[c]

(* Between calls all that was said was heard, but for an acknowledgement.  *)
AtIdle(c) == pc[c] = "idle" =>
  /\ down[c] = <<>> /\ ~gone[c]
  /\ asked[c] # <<>> => answer[c] = ValuesOf(Request(c))
  /\ open[c] => \/ session[c] \in {"none", "pre"} /\ up[c] = <<>>
                \/ /\ session[c] = "params" /\ up[c] = <<Token("RECV_PARAMS_RECVD")>>
                   /\ ValuesOf(request[c]) = <<>> /\ Found[request[c]] # NotAscii

(* It announced a request: the session reads that next.                    *)
AtAck(c) == pc[c] = "ack" =>
  /\ asked[c] # <<>> /\ ~gone[c]
  /\ open[c] => \/ session[c] \in {"none", "pre"} /\ up[c] = <<Token("pre")>> /\ down[c] = <<>>
                \/ session[c] = "request" /\ up[c] = <<>> /\ down[c] = <<Token("ack")>>
                \/ /\ session[c] = "params" /\ down[c] = <<>>
                   /\ up[c] = <<Token("RECV_PARAMS_RECVD"), Token("pre")>>
                   /\ ValuesOf(request[c]) = <<>> /\ Found[request[c]] # NotAscii

(* It sent the request itself, or the number of its results is on the way. *)
AtParams(c) == pc[c] = "params" =>
  /\ asked[c] # <<>> /\ ~gone[c]
  /\ open[c] =>
       \/ /\ session[c] = "request" /\ down[c] = <<>>
          /\ up[c] = <<[Token("request") EXCEPT !.value = Request(c)]>>
       \/ /\ session[c] = "params" /\ up[c] = <<>> /\ request[c] = Request(c)
          /\ down[c] = <<Params(Request(c))>> /\ Found[Request(c)] # Quotes

(* The results of the request are in three places, in order: those the     *)
(* reader has, those under way, and those the session has yet to send.     *)
Pieces(c, n) ==
  LET all == Results(Request(c)) IN
  /\ got[c] \in Seq(Tokens(Request(c))) /\ down[c] \in Seq(Tokens(Request(c))) /\ size[c] = Len(all)
  /\ Len(got[c]) < size[c] /\ Len(got[c]) + Len(down[c]) + n <= size[c]
  /\ \A i \in 1..Len(got[c]) : got[c][i] = all[i]
  /\ \A i \in 1..Len(down[c]) : down[c][i] = all[Len(got[c]) + i]

(* It acknowledged their number: results come, and nothing else.           *)
AtResults(c) == pc[c] = "results" =>
  /\ asked[c] # <<>> /\ ~gone[c] /\ ValuesOf(Request(c)) # <<>> /\ Pieces(c, 0)
  /\ open[c] =>
       \/ /\ session[c] = "params" /\ up[c] = <<Token("RECV_PARAMS_RECVD")>>
          /\ request[c] = Request(c) /\ down[c] = <<>> /\ got[c] = <<>>
       \/ /\ session[c] = "results" /\ up[c] = <<>> /\ left[c] \in Seq(Tokens(Request(c))) /\ left[c] # <<>>
          /\ Len(got[c]) + Len(down[c]) + Len(left[c]) = size[c]
          /\ \A i \in 1..Len(left[c]) :
               left[c][i] = Results(Request(c))[Len(got[c]) + Len(down[c]) + i]
       \/ /\ session[c] = "pre" /\ up[c] = <<>>
          /\ Len(got[c]) + Len(down[c]) = size[c]

(* Why a connection is closed while its reader is there.                   *)
Closed(c) == pc[c] \notin {"new", "left"} /\ ~open[c] =>
  \/ ~alive \/ stop # "no"
  \/ pc[c] = "raised" /\ asked[c] = <<>>
  \/ pc[c] \in {"params", "raised"} /\ Found[Request(c)] = Quotes
  \/ pc[c] = "results" /\ down[c] = <<>>

(* A call of get_values raises only on a connection that is closed.        *)
AtRaised(c) == pc[c] = "raised" => ~open[c] /\ ~gone[c]

(* All that is known of one reader.                                        *)
ReaderInv(c) ==
  /\ asked[c] \in Seq(Requests)
  /\ pc[c] \in {"new", "idle", "ack", "params", "results", "raised", "left"}
  /\ AtNew(c) /\ AtIdle(c) /\ AtAck(c) /\ AtParams(c) /\ AtResults(c)
  /\ Closed(c) /\ AtRaised(c)

(* The functions have the readers as domain; who waits to be accepted has  *)
(* no session yet and waits once.                                          *)
Shape ==
  /\ session = [c \in Readers |-> session[c]] /\ pc = [c \in Readers |-> pc[c]]
  /\ open \in [Readers -> BOOLEAN] /\ gone \in [Readers -> BOOLEAN]
  /\ size = [c \in Readers |-> size[c]]
  /\ up = [c \in Readers |-> up[c]] /\ down = [c \in Readers |-> down[c]]
  /\ request = [c \in Readers |-> request[c]] /\ left = [c \in Readers |-> left[c]]
  /\ got = [c \in Readers |-> got[c]] /\ asked = [c \in Readers |-> asked[c]]
  /\ answer = [c \in Readers |-> answer[c]]

(* A connection that was made and has no session.                          *)
Waiting(c) == session[c] = "none" /\ pc[c] # "new"
Queue ==
  /\ stop \in {"no", "connected", "done", "raised"} /\ alive \in BOOLEAN
  /\ server_run <=> stop = "no"
  /\ accepting = "over" => stop # "no"
  /\ taken \in Readers \cup {"stop", "none"} /\ backlog \in Seq(Readers \cup {"stop"})
  /\ accepting = "took" <=> taken # "none"
  /\ taken \in Readers => Waiting(taken)
  /\ taken = "stop" => stop # "no"
  /\ \A i \in 1..Len(backlog) :
       /\ backlog[i] \in Readers => Waiting(backlog[i]) /\ backlog[i] # taken
       /\ backlog[i] = "stop" => stop # "no"
  /\ \A i, j \in 1..Len(backlog) : i # j /\ backlog[i] = backlog[j] => backlog[i] = "stop"

(* The inductive invariant of the manifest server.                         *)
MsInv == Shape /\ Queue /\ \A c \in Readers : ReaderInv(c)

-----------------------------------------------------------------------------
(* Streams of one or two tokens. *)
LEMMA ShortStreams ==
  \A x, y : /\ <<x>> # <<>> /\ <<x, y>> # <<>> /\ <<>> \o <<x>> = <<x>>
            /\ Head(<<x>>) = x /\ Tail(<<x>>) = <<>>
            /\ Head(<<x, y>>) = x /\ Tail(<<x, y>>) = <<y>>
            /\ Append(<<>>, x) = <<x>> /\ Append(<<x>>, y) = <<x, y>>
<1> TAKE x, y
<1>1. <<x>> # <<>> /\ <<x, y>> # <<>>
  OBVIOUS
<1>2. Head(<<x>>) = x /\ Tail(<<x>>) = <<>>
  OBVIOUS
<1>3. Head(<<x, y>>) = x
  BY <<x, y>>[1] = x
<1>7. <<>> \o <<x>> = <<x>>
  <2>1. <<x>> \in Seq({x})
    OBVIOUS
  <2> QED
    BY <2>1, ConcatEmptySeq
<1>6. Tail(<<x, y>>) = <<y>>
  OBVIOUS
<1>4. Append(<<>>, x) = <<x>>
  OBVIOUS
<1>5. Append(<<x>>, y) = <<x, y>>
  <2> DEFINE s == Append(<<x>>, y)
  <2>1. <<x>> \in Seq({x, y}) /\ Len(<<x>>) = 1 /\ <<x>>[1] = x
    OBVIOUS
  <2>2. s \in Seq({x, y}) /\ Len(s) = 2 /\ s[1] = x /\ s[2] = y
    BY <2>1
  <2> HIDE DEF s
  <2>3. s = <<s[1], s[2]>>
    BY <2>2
  <2> QED
    BY <2>2, <2>3 DEF s
<1> QED
  BY <1>1, <1>2, <1>3, <1>4, <1>5, <1>6, <1>7

(* It holds at the start: nobody is connected, the server is starting.     *)
LEMMA MsInitial == MsInit => MsInv
<1> SUFFICES ASSUME MsInit PROVE MsInv
  OBVIOUS
<1>1. Shape
  <2>1. /\ session = [c \in Readers |-> session[c]] /\ pc = [c \in Readers |-> pc[c]]
        /\ size = [c \in Readers |-> size[c]]
    BY DEF MsInit
  <2>2. open \in [Readers -> BOOLEAN] /\ gone \in [Readers -> BOOLEAN]
    BY DEF MsInit
  <2>3. /\ up = [c \in Readers |-> up[c]] /\ down = [c \in Readers |-> down[c]]
        /\ request = [c \in Readers |-> request[c]] /\ left = [c \in Readers |-> left[c]]
    BY DEF MsInit
  <2>4. /\ got = [c \in Readers |-> got[c]] /\ asked = [c \in Readers |-> asked[c]]
        /\ answer = [c \in Readers |-> answer[c]]
    BY DEF MsInit
  <2> QED
    BY <2>1, <2>2, <2>3, <2>4 DEF Shape
<1>2. Queue
  <2>1. stop = "no" /\ alive \in BOOLEAN /\ server_run /\ accepting = "starting" /\ taken = "none"
    BY DEF MsInit
  <2>2. backlog = <<>> /\ taken \notin Readers
    BY MsAssumption DEF MsInit
  <2>3. backlog \in Seq(Readers \cup {"stop"}) /\ Len(backlog) = 0
    BY <2>2
  <2>4. server_run <=> stop = "no"
    BY <2>1
  <2>5. /\ stop \in {"no", "connected", "done", "raised"} /\ taken \in Readers \cup {"stop", "none"}
        /\ accepting = "took" <=> taken # "none"
    BY <2>1
  <2> QED
    BY <2>1, <2>2, <2>3, <2>4, <2>5 DEF Queue
<1>3. ASSUME NEW c \in Readers PROVE ReaderInv(c)
  <2>1. pc[c] = "new" /\ asked[c] = <<>> /\ up[c] = <<>> /\ down[c] = <<>> /\ left[c] = <<>>
    BY DEF MsInit
  <2>2. session[c] = "none" /\ ~open[c] /\ ~gone[c]
    BY DEF MsInit
  <2>3. asked[c] \in Seq(Requests) /\ AtNew(c)
    BY <2>1, <2>2 DEF AtNew
  <2>4. AtIdle(c) /\ AtAck(c) /\ AtParams(c) /\ AtResults(c) /\ Closed(c) /\ AtRaised(c)
    BY <2>1 DEF AtIdle, AtAck, AtParams, AtResults, Closed, AtRaised
  <2> QED
    BY <2>1, <2>3, <2>4 DEF ReaderInv
<1> QED
  BY <1>1, <1>2, <1>3 DEF MsInv

(* It implies what the conversations promise.                              *)
LEMMA MsImplies == MsInv => ConversationsAreSound
<1> SUFFICES ASSUME MsInv PROVE ConversationsAreSound
  OBVIOUS
<1> USE DEF MsInv, ReaderInv
<1>1. AnswersAreRight
  BY DEF AnswersAreRight, AtIdle
<1>2. ErrorsHaveACause
  BY DEF ErrorsHaveACause, Closed, AtRaised
<1>3. NobodyWaitsInVain
  <2> SUFFICES ASSUME NEW c \in Readers, alive, open[c],
                      pc[c] \in {"ack", "params", "results"}, down[c] = <<>>
               PROVE  \/ session[c] = "results"
                      \/ session[c] \in {"pre", "request", "params"} /\ up[c] # <<>>
                      \/ session[c] = "none" /\ (accepting # "over" \/ stop # "no")
    BY DEF NobodyWaitsInVain
  <2>0. (accepting # "over" \/ stop # "no") /\ AtAck(c) /\ AtParams(c) /\ AtResults(c)
    BY DEF Queue
  <2>1. CASE pc[c] = "ack"
    <3>1. CASE session[c] \in {"none", "pre"} /\ up[c] = <<Token("pre")>> /\ down[c] = <<>>
      BY <2>0, <3>1, ShortStreams
    <3>2. CASE session[c] = "request" /\ up[c] = <<>> /\ down[c] = <<Token("ack")>>
      BY <3>2, ShortStreams
    <3>3. CASE session[c] = "params" /\ up[c] = <<Token("RECV_PARAMS_RECVD"), Token("pre")>>
      BY <3>3, ShortStreams
    <3> QED
      BY <2>0, <2>1, <3>1, <3>2, <3>3 DEF AtAck
  <2>2. CASE pc[c] = "params"
    BY <2>0, <2>2, ShortStreams DEF AtParams
  <2>3. CASE pc[c] = "results"
    <3>1. CASE session[c] = "params" /\ up[c] = <<Token("RECV_PARAMS_RECVD")>>
      BY <3>1, ShortStreams
    <3>2. CASE session[c] = "pre" /\ Len(got[c]) + Len(down[c]) = size[c]
      <4>1. got[c] \in Seq(Tokens(Request(c))) /\ Len(got[c]) < size[c]
        BY <2>0, <2>3 DEF AtResults, Pieces
      <4> QED
        BY <3>2, <4>1
    <3> QED
      BY <2>0, <2>3, <3>1, <3>2 DEF AtResults
  <2> QED
    BY <2>1, <2>2, <2>3
<1> QED
  BY <1>1, <1>2, <1>3 DEF ConversationsAreSound

-----------------------------------------------------------------------------
(* A reader of whom a step changes nothing, but that it may close its      *)
(* connection when the server stops, is in a known state afterwards too.   *)
LEMMA OtherReader ==
  ASSUME NEW d \in Readers, ReaderInv(d),
         session'[d] = session[d], pc'[d] = pc[d], up'[d] = up[d], down'[d] = down[d],
         gone'[d] = gone[d], request'[d] = request[d], left'[d] = left[d],
         size'[d] = size[d], got'[d] = got[d], asked'[d] = asked[d], answer'[d] = answer[d],
         open'[d] => open[d], open[d] /\ ~open'[d] => ~alive' \/ stop' # "no",
         alive' => alive, stop # "no" => stop' # "no"
  PROVE  ReaderInv(d)'
<1> USE DEF ReaderInv, Request
<1>1. AtNew(d)' /\ AtIdle(d)' /\ AtAck(d)' /\ asked'[d] \in Seq(Requests)
  BY DEF AtNew, AtIdle, AtAck
<1>2. AtParams(d)'
  BY DEF AtParams
<1>3. AtResults(d)'
  BY DEF AtResults, Pieces
<1>4. Closed(d)' /\ AtRaised(d)'
  BY DEF Closed, AtRaised
<1> QED
  BY <1>1, <1>2, <1>3, <1>4

(* A reader whose session starts.                                          *)
LEMMA StartedReader ==
  ASSUME NEW d \in Readers, ReaderInv(d), session[d] = "none", session'[d] = "pre", pc[d] # "new",
         UNCHANGED <<alive, stop, pc, up, down, gone, request, left, size, got, asked, answer, open>>
  PROVE  ReaderInv(d)'
<1> USE DEF ReaderInv, Request
<1>1. AtNew(d)' /\ AtIdle(d)' /\ AtAck(d)' /\ asked'[d] \in Seq(Requests)
  BY DEF AtNew, AtIdle, AtAck
<1>2. AtParams(d)'
  BY DEF AtParams
<1>3. AtResults(d)'
  BY DEF AtResults, Pieces
<1>4. Closed(d)' /\ AtRaised(d)'
  BY DEF Closed, AtRaised
<1> QED
  BY <1>1, <1>2, <1>3, <1>4

(* The thread that accepts, and the end of the server.                     *)
LEMMA ServerStep ==
  ASSUME MsInv, Server
  PROVE  MsInv'
<1> USE DEF MsInv
<1>1. CASE Listen
  <2> USE <1>1 DEF Listen, talkVars, wordVars
  <2>1. Shape'
    BY DEF Shape
  <2>2. Queue'
    BY MsAssumption DEF Queue, Waiting
  <2>3. ASSUME NEW d \in Readers PROVE ReaderInv(d)'
    BY OtherReader
  <2> QED
    BY <2>1, <2>2, <2>3
<1>2. CASE Check
  <2> USE <1>2 DEF Check, wordVars
  <2>1. Shape'
    BY DEF Shape, CutOff
  <2>2. Queue'
    BY DEF Queue, Waiting
  <2>3. ASSUME NEW d \in Readers PROVE ReaderInv(d)'
    BY OtherReader DEF Queue, CutOff
  <2> QED
    BY <2>1, <2>2, <2>3
<1>3. CASE Accept
  <2> USE <1>3 DEF Accept, talkVars, wordVars
  <2>1. Shape'
    BY DEF Shape
  <2>2. Queue'
    <3>1. /\ backlog \in Seq(Readers \cup {"stop"}) /\ backlog # <<>>
          /\ taken' = backlog[1] /\ backlog' = Tail(backlog)
      BY DEF Queue
    <3>2. /\ backlog' \in Seq(Readers \cup {"stop"}) /\ Len(backlog') = Len(backlog) - 1
          /\ \A i \in 1..Len(backlog') : backlog'[i] = backlog[i + 1] /\ i + 1 \in 1..Len(backlog)
          /\ 1 \in 1..Len(backlog) /\ backlog[1] \in Readers \cup {"stop"}
      BY <3>1
    <3>3. taken' # "none" /\ accepting' = "took" /\ "stop" \notin Readers
      BY <3>1, <3>2, MsAssumption
    <3>4. \A i \in 1..Len(backlog') :
            /\ backlog'[i] \in Readers => Waiting(backlog[i])' /\ backlog'[i] # taken'
            /\ backlog'[i] = "stop" => stop' # "no"
      <4> SUFFICES ASSUME NEW i \in 1..Len(backlog')
                   PROVE  /\ backlog'[i] \in Readers => Waiting(backlog[i])' /\ backlog'[i] # taken'
                          /\ backlog'[i] = "stop" => stop' # "no"
        OBVIOUS
      <4>1. backlog'[i] = backlog[i + 1] /\ i + 1 \in 1..Len(backlog) /\ i + 1 # 1
        BY <3>1, <3>2
      <4>2. backlog[i + 1] \in Readers => Waiting(backlog[i + 1]) /\ backlog[i + 1] # backlog[1]
        BY <3>2, <3>3, <4>1 DEF Queue
      <4> QED
        BY <3>1, <4>1, <4>2 DEF Queue, Waiting
    <3>5. \A i, j \in 1..Len(backlog') : i # j /\ backlog'[i] = backlog'[j] => backlog'[i] = "stop"
      BY <3>2 DEF Queue
    <3>6. (taken' \in Readers => Waiting(taken)') /\ (taken' = "stop" => stop' # "no")
      BY <3>1, <3>2 DEF Queue, Waiting
    <3> QED
      BY <3>1, <3>2, <3>3, <3>4, <3>5, <3>6 DEF Queue
  <2>3. ASSUME NEW d \in Readers PROVE ReaderInv(d)'
    BY OtherReader
  <2> QED
    BY <2>1, <2>2, <2>3
<1>4. CASE StartSession
  <2> USE <1>4 DEF StartSession
  <2>0. taken \in Readers \cup {"stop"} /\ (server_run => taken \in Readers /\ Waiting(taken))
    BY DEF Queue
  <2>1. Shape'
    BY <2>0 DEF Shape, CutOff
  <2>2. Queue'
    <3>1. \A c \in Readers : Waiting(c) /\ c # taken => Waiting(c)'
      BY <2>0 DEF Waiting, Shape
    <3> QED
      BY <3>1, <2>0, MsAssumption DEF Queue
  <2>3. ASSUME NEW d \in Readers PROVE ReaderInv(d)'
    <3>1. CASE ~server_run
      BY <3>1, OtherReader DEF Queue, CutOff
    <3>2. CASE server_run /\ d # taken
      BY <3>2, <2>0, OtherReader DEF Shape
    <3>3. CASE server_run /\ d = taken
      <4>1. session[d] = "none" /\ session'[d] = "pre" /\ pc[d] # "new" /\ open' = open
        BY <3>3, <2>0 DEF Waiting, Shape
      <4> QED
        BY <4>1, StartedReader
    <3> QED
      BY <3>1, <3>2, <3>3
  <2> QED
    BY <2>1, <2>2, <2>3
<1>5. CASE StopConnect
  <2> USE <1>5 DEF StopConnect, talkVars, wordVars
  <2>1. Shape'
    BY DEF Shape
  <2>2. Queue'
    <3>1. /\ stop' \in {"connected", "raised"} /\ ~server_run' /\ accepting' = accepting
          /\ taken' = taken /\ alive' = alive /\ \A c \in Readers : Waiting(c)' <=> Waiting(c)
      BY DEF Waiting
    <3>2. CASE backlog' = backlog
      BY <3>1, <3>2 DEF Queue
    <3>3. CASE backlog' = Append(backlog, "stop")
      <4>1. /\ backlog' \in Seq(Readers \cup {"stop"}) /\ Len(backlog') = Len(backlog) + 1
            /\ \A i \in 1..Len(backlog) : backlog'[i] = backlog[i]
            /\ backlog'[Len(backlog) + 1] = "stop" /\ Len(backlog) \in Nat
        BY <3>3 DEF Queue
      <4>2. \A i \in 1..Len(backlog') : i \in 1..Len(backlog) \/ i = Len(backlog) + 1
        BY <4>1
      <4>3. "stop" \notin Readers
        BY MsAssumption
      <4> QED
        BY <3>1, <4>1, <4>2, <4>3 DEF Queue
    <3> QED
      BY <3>2, <3>3
  <2>3. ASSUME NEW d \in Readers PROVE ReaderInv(d)'
    BY OtherReader
  <2> QED
    BY <2>1, <2>2, <2>3
<1>6. CASE StopClose
  <2> USE <1>6 DEF StopClose, wordVars
  <2>1. Shape'
    BY DEF Shape, CutOff
  <2>2. Queue'
    BY DEF Queue, Waiting
  <2>3. ASSUME NEW d \in Readers PROVE ReaderInv(d)'
    BY OtherReader DEF CutOff
  <2> QED
    BY <2>1, <2>2, <2>3
<1>7. CASE Exit
  <2> USE <1>7 DEF Exit, wordVars
  <2>1. Shape'
    BY DEF Shape, CutOff
  <2>2. Queue'
    BY DEF Queue, Waiting
  <2>3. ASSUME NEW d \in Readers PROVE ReaderInv(d)'
    BY OtherReader DEF CutOff
  <2> QED
    BY <2>1, <2>2, <2>3
<1> QED
  BY <1>1, <1>2, <1>3, <1>4, <1>5, <1>6, <1>7 DEF Server

-----------------------------------------------------------------------------
(* A step of a session touches one reader, that was accepted.              *)
LEMMA SessionFrame ==
  ASSUME MsInv, NEW c \in Readers, Serve(c), ReaderInv(c)'
  PROVE  MsInv'
<1>0. Shape /\ Queue /\ \A d \in Readers : ReaderInv(d)
  BY DEF MsInv
<1>1. /\ \E s : session' = [session EXCEPT ![c] = s]
      /\ \E u : up' = [up EXCEPT ![c] = u]
      /\ \E dn : down' = [down EXCEPT ![c] = dn]
      /\ \E o : open' = [open EXCEPT ![c] = o]
      /\ \E rq : request' = [request EXCEPT ![c] = rq]
      /\ \E l : left' = [left EXCEPT ![c] = l]
  <2>1. \E s : session' = [session EXCEPT ![c] = s]
    BY DEF Serve, PreRequest, LookUp, ParamsReceived, SendResults, Answer, End, Awaits
  <2>2. \E u : up' = [up EXCEPT ![c] = u]
    <3>1. up' = up \/ up' = [up EXCEPT ![c] = Tail(@)]
      BY DEF Serve, PreRequest, LookUp, ParamsReceived, SendResults, Answer, End, Receive
    <3>2. up = [up EXCEPT ![c] = up[c]]
      BY <1>0 DEF Shape
    <3> QED
      BY <3>1, <3>2
  <2>3. \E dn : down' = [down EXCEPT ![c] = dn]
    <3>1. down' = down \/ \E x : down' = [down EXCEPT ![c] = @ \o x]
      BY DEF Serve, PreRequest, LookUp, ParamsReceived, SendResults, Answer, End, Send
    <3>2. down = [down EXCEPT ![c] = down[c]]
      BY <1>0 DEF Shape
    <3> QED
      BY <3>1, <3>2
  <2>4. \E o : open' = [open EXCEPT ![c] = o]
    <3>1. open' = open \/ CutOff({c})
      BY DEF Serve, PreRequest, LookUp, ParamsReceived, SendResults, Answer, End
    <3>2. open = [open EXCEPT ![c] = open[c]] /\ (CutOff({c}) => open' = [open EXCEPT ![c] = FALSE])
      BY <1>0 DEF Shape, CutOff
    <3> QED
      BY <3>1, <3>2
  <2>5. \E rq : request' = [request EXCEPT ![c] = rq]
    <3>1. request' = request \/ \E x : request' = [request EXCEPT ![c] = x]
      BY DEF Serve, PreRequest, LookUp, ParamsReceived, SendResults
    <3>2. request = [request EXCEPT ![c] = request[c]]
      BY <1>0 DEF Shape
    <3> QED
      BY <3>1, <3>2
  <2>6. \E l : left' = [left EXCEPT ![c] = l]
    <3>1. left' = left \/ \E x : left' = [left EXCEPT ![c] = x]
      BY DEF Serve, PreRequest, LookUp, ParamsReceived, SendResults, Answer, End
    <3>2. left = [left EXCEPT ![c] = left[c]]
      BY <1>0 DEF Shape
    <3> QED
      BY <3>1, <3>2
  <2> QED
    BY <2>1, <2>2, <2>3, <2>4, <2>5, <2>6
<1>2. open' \in [Readers -> BOOLEAN]
  BY <1>0 DEF Serve, PreRequest, LookUp, ParamsReceived, SendResults, Answer, End, CutOff, Shape
<1>3. UNCHANGED <<srvVars, pc, gone, size, got, asked, answer>>
  BY DEF Serve
<1>4. Shape'
  BY <1>0, <1>1, <1>2, <1>3 DEF Shape
<1>5. Queue'
  <2>1. session[c] # "none"
    BY DEF Serve, PreRequest, LookUp, ParamsReceived, SendResults
  <2>2. \A d \in Readers : Waiting(d) => Waiting(d)'
    BY <1>0, <1>1, <1>3, <2>1 DEF Waiting, Shape
  <2> QED
    BY <1>0, <2>2, <1>3 DEF Queue, srvVars
<1>6. ASSUME NEW d \in Readers, d # c PROVE ReaderInv(d)'
  BY <1>0, <1>1, <1>3, <1>6, OtherReader DEF Shape, srvVars
<1> QED
  BY <1>0, <1>4, <1>5, <1>6 DEF MsInv

(* Of a reader that has left nothing is known, nor need be.                *)
LEMMA LeftReader ==
  ASSUME NEW c \in Readers, asked'[c] \in Seq(Requests), pc'[c] = "left"
  PROVE  ReaderInv(c)'
  BY DEF ReaderInv, AtNew, AtIdle, AtAck, AtParams, AtResults, Closed, AtRaised

(* The place of a reader that is not at another place.                     *)
LEMMA OpenAtIdle ==
  ASSUME NEW c \in Readers, asked'[c] \in Seq(Requests), pc'[c] = "idle", open'[c], AtIdle(c)'
  PROVE  ReaderInv(c)'
BY DEF ReaderInv, AtNew, AtAck, AtParams, AtResults, Closed, AtRaised

(* The same for a reader that announced a request ...                      *)
LEMMA OpenAtAck ==
  ASSUME NEW c \in Readers, asked'[c] \in Seq(Requests), pc'[c] = "ack", open'[c], AtAck(c)'
  PROVE  ReaderInv(c)'
BY DEF ReaderInv, AtNew, AtIdle, AtParams, AtResults, Closed, AtRaised

(* ... that waits for the number of its results ...                        *)
LEMMA AtParamsOnly ==
  ASSUME NEW c \in Readers, asked'[c] \in Seq(Requests), pc'[c] = "params", AtParams(c)', Closed(c)'
  PROVE  ReaderInv(c)'
BY DEF ReaderInv, AtNew, AtIdle, AtAck, AtResults, AtRaised

(* ... or for the results.                                                 *)
LEMMA AtResultsOnly ==
  ASSUME NEW c \in Readers, asked'[c] \in Seq(Requests), pc'[c] = "results", AtResults(c)', Closed(c)'
  PROVE  ReaderInv(c)'
BY DEF ReaderInv, AtNew, AtIdle, AtAck, AtParams, AtRaised

(* What a session finds whose reader is there and still waits for it.      *)
LEMMA SessionKnown ==
  ASSUME NEW c \in Readers, ReaderInv(c), open[c], session[c] # "none", pc[c] # "left"
  PROVE  /\ ~gone[c] /\ asked[c] \in Seq(Requests)
         /\ pc[c] \in {"idle", "ack", "params", "results"}
         /\ session[c] \in {"pre", "request", "params", "results"}
         /\ session[c] = "pre" => pc[c] \in {"idle", "ack", "results"} /\ (up[c] # <<>> => pc[c] = "ack")
         /\ session[c] = "request" => pc[c] \in {"ack", "params"} /\ (up[c] # <<>> => pc[c] = "params")
         /\ session[c] = "results" => pc[c] = "results"
<1>0. AtNew(c) /\ AtIdle(c) /\ AtAck(c) /\ AtParams(c) /\ AtResults(c) /\ AtRaised(c) /\ asked[c] \in Seq(Requests)
  BY DEF ReaderInv
<1>1. pc[c] \in {"idle", "ack", "params", "results"}
  BY <1>0 DEF ReaderInv, AtNew, AtRaised
<1>2. CASE pc[c] = "idle"
  BY <1>0, <1>2 DEF AtIdle
<1>3. CASE pc[c] = "ack"
  BY <1>0, <1>3 DEF AtAck
<1>4. CASE pc[c] = "params"
  BY <1>0, <1>4 DEF AtParams
<1>5. CASE pc[c] = "results"
  BY <1>0, <1>5 DEF AtResults
<1> QED
  BY <1>1, <1>2, <1>3, <1>4, <1>5

(* A session acknowledges the request that was announced.                  *)
LEMMA PreRequestStep ==
  ASSUME MsInv, NEW c \in Readers, Serve(c), PreRequest(c), pc[c] # "left"
  PROVE  ReaderInv(c)'
<1>0. Shape /\ ReaderInv(c)
  BY DEF MsInv
<1>1. open[c] /\ session[c] = "pre" /\ ~gone[c] /\ (up[c] # <<>>)
  BY <1>0, SessionKnown DEF Serve, PreRequest
<1>2. pc[c] = "ack" /\ up[c] = <<Token("pre")>> /\ down[c] = <<>>
  <2>1. pc[c] = "ack" /\ AtAck(c)
    BY <1>0, <1>1, SessionKnown DEF ReaderInv
  <2> QED
    BY <1>1, <2>1 DEF AtAck
<1>3. Head(up[c]).kind = "pre"
  <2>1. Head(up[c]) = Token("pre")
    BY <1>2
  <2> QED
    BY <2>1 DEF Token
<1>4. Answer(c, <<Token("ack")>>, "request") /\ UNCHANGED <<request, srvVars, pc, gone, size, got, asked, answer>>
  BY <1>1, <1>3 DEF PreRequest, Serve
<1>5. session'[c] = "request" /\ up'[c] = <<>> /\ down'[c] = <<Token("ack")>> /\ open' = open
  <2>1. /\ session' = [session EXCEPT ![c] = "request"] /\ up' = [up EXCEPT ![c] = Tail(@)]
        /\ down' = [down EXCEPT ![c] = @ \o <<Token("ack")>>] /\ open' = open
    BY <1>1, <1>4 DEF Answer, Send, Receive, Awaits
  <2>2. session'[c] = "request" /\ up'[c] = Tail(up[c]) /\ down'[c] = down[c] \o <<Token("ack")>>
    BY <1>0, <2>1 DEF Shape
  <2>3. Tail(up[c]) = <<>> /\ down[c] \o <<Token("ack")>> = <<Token("ack")>>
    BY <1>2, ShortStreams
  <2> QED
    BY <2>1, <2>2, <2>3
<1>6. asked[c] \in Seq(Requests) /\ asked[c] # <<>>
  BY <1>0, <1>2 DEF ReaderInv, AtAck
<1>7. pc'[c] = "ack" /\ asked'[c] = asked[c] /\ ~gone'[c] /\ open'[c]
  BY <1>1, <1>2, <1>4, <1>5
<1>8. AtAck(c)'
  BY <1>5, <1>6, <1>7 DEF AtAck
<1> QED
  BY <1>6, <1>7, <1>8, OpenAtAck

(* A session that looks up a request sends the number of its results.      *)
LEMMA LookUpStep ==
  ASSUME MsInv, NEW c \in Readers, Serve(c), LookUp(c), pc[c] # "left"
  PROVE  ReaderInv(c)'
<1> DEFINE r == Request(c)
<1>0. Shape /\ ReaderInv(c)
  BY DEF MsInv
<1>1. open[c] /\ session[c] = "request" /\ ~gone[c] /\ (up[c] # <<>>)
  BY <1>0, SessionKnown DEF Serve, LookUp
<1>2. pc[c] = "params" /\ up[c] = <<[Token("request") EXCEPT !.value = r]>> /\ down[c] = <<>>
  <2>1. pc[c] = "params" /\ AtParams(c)
    BY <1>0, <1>1, SessionKnown DEF ReaderInv
  <2> QED
    BY <1>1, <2>1 DEF AtParams
<1>3. Head(up[c]).value = r
  <2>1. Head(up[c]) = [Token("request") EXCEPT !.value = r]
    BY <1>2
  <2> QED
    BY <2>1 DEF Token
<1>4. asked[c] \in Seq(Requests) /\ asked[c] # <<>>
  BY <1>0, <1>2 DEF ReaderInv, AtParams
<1>5. UNCHANGED <<srvVars, pc, gone, size, got, asked, answer>> /\ Request(c)' = r
  BY DEF Serve, Request
<1>6. request'[c] = r
  BY <1>0, <1>1, <1>3 DEF LookUp, Shape
<1>7. pc'[c] = "params" /\ asked'[c] = asked[c] /\ ~gone'[c]
  BY <1>1, <1>2, <1>5
<1>8. CASE Found[r] = Quotes
  <2>1. End(c)
    BY <1>1, <1>3, <1>8 DEF LookUp
  <2>2. ~open'[c]
    BY <2>1 DEF End, CutOff
  <2>3. AtParams(c)'
    BY <1>4, <1>7, <2>2 DEF AtParams
  <2>4. Closed(c)'
    BY <1>5, <1>7, <1>8 DEF Closed
  <2> QED
    BY <1>4, <1>7, <2>3, <2>4, AtParamsOnly
<1>9. CASE Found[r] # Quotes
  <2>1. Answer(c, <<Params(r)>>, "params")
    BY <1>1, <1>3, <1>9 DEF LookUp
  <2>2. session'[c] = "params" /\ up'[c] = <<>> /\ down'[c] = <<Params(r)>> /\ open' = open
    <3>1. /\ session' = [session EXCEPT ![c] = "params"] /\ up' = [up EXCEPT ![c] = Tail(@)]
          /\ down' = [down EXCEPT ![c] = @ \o <<Params(r)>>] /\ open' = open
      BY <1>1, <2>1 DEF Answer, Send, Receive, Awaits
    <3>2. session'[c] = "params" /\ up'[c] = Tail(up[c]) /\ down'[c] = down[c] \o <<Params(r)>>
      BY <1>0, <3>1 DEF Shape
    <3>3. Tail(up[c]) = <<>> /\ down[c] \o <<Params(r)>> = <<Params(r)>>
      BY <1>2, ShortStreams
    <3> QED
      BY <3>1, <3>2, <3>3
  <2>3. AtParams(c)'
    BY <1>4, <1>5, <1>6, <1>7, <1>9, <2>2 DEF AtParams
  <2>4. Closed(c)'
    BY <1>1, <2>2 DEF Closed
  <2> QED
    BY <1>4, <1>7, <2>3, <2>4, AtParamsOnly
<1> QED
  BY <1>8, <1>9

(* What a request is answered, as a sequence of tokens.                    *)
LEMMA ResultsAre ==
  ASSUME NEW r \in Requests
  PROVE  /\ ValuesOf(r) \in Seq(STRING)
         /\ Results(r) \in Seq(Tokens(r)) /\ Len(Results(r)) = Len(ValuesOf(r)) + 1
         /\ \A i \in 1..Len(ValuesOf(r)) : Results(r)[i] = Value(ValuesOf(r)[i])
<1>1. ValuesOf(r) \in Seq(STRING)
  <2>1. Found[r] \in Seq(STRING)
    BY MsAssumption
  <2>2. <<>> \in Seq(STRING)
    OBVIOUS
  <2> QED
    BY <2>1, <2>2 DEF ValuesOf
<1> DEFINE vs == [i \in 1..Len(ValuesOf(r)) |-> Value(ValuesOf(r)[i])]
<1>2. Len(ValuesOf(r)) \in Nat
  BY <1>1
<1>3. vs \in Seq(Tokens(r)) /\ Len(vs) = Len(ValuesOf(r))
  <2>1. \A i \in 1..Len(ValuesOf(r)) : Value(ValuesOf(r)[i]) \in Tokens(r)
    BY DEF Tokens
  <2> QED
    BY <1>2, <2>1
<1>4. Token("REQ_COMPLETE") \in Tokens(r)
  BY DEF Tokens
<1>5. Results(r) = Append(vs, Token("REQ_COMPLETE"))
  BY DEF Results
<1>6. \A i \in 1..Len(ValuesOf(r)) : vs[i] = Value(ValuesOf(r)[i])
  OBVIOUS
<1> HIDE DEF vs
<1>7. Results(r) \in Seq(Tokens(r)) /\ Len(Results(r)) = Len(ValuesOf(r)) + 1
  BY <1>3, <1>4, <1>5
<1>8. \A i \in 1..Len(ValuesOf(r)) : Results(r)[i] = vs[i]
  BY <1>2, <1>3, <1>4, <1>5
<1> QED
  BY <1>1, <1>6, <1>7, <1>8

(* A sequence cut in two. *)
LEMMA Cut ==
  ASSUME NEW S, NEW s \in Seq(S), NEW n \in 1..Len(s)
  PROVE  /\ n \in Nat /\ Len(s) \in Nat
         /\ SubSeq(s, 1, n) \in Seq(S) /\ Len(SubSeq(s, 1, n)) = n
         /\ \A i \in 1..n : SubSeq(s, 1, n)[i] = s[i]
         /\ SubSeq(s, n + 1, Len(s)) \in Seq(S) /\ Len(SubSeq(s, n + 1, Len(s))) = Len(s) - n
         /\ \A i \in 1..(Len(s) - n) : SubSeq(s, n + 1, Len(s))[i] = s[n + i]
<1>1. n \in Nat /\ Len(s) \in Nat /\ n <= Len(s) /\ n >= 1
  OBVIOUS
<1>2. SubSeq(s, 1, n) \in Seq(S) /\ Len(SubSeq(s, 1, n)) = n /\ \A i \in 1..n : SubSeq(s, 1, n)[i] = s[i]
  <2>1. \A i \in 1..n : s[i] \in S
    BY <1>1
  <2> QED
    BY <1>1, <2>1, SubSeqProperties
<1>3. /\ SubSeq(s, n + 1, Len(s)) \in Seq(S) /\ Len(SubSeq(s, n + 1, Len(s))) = Len(s) - n
      /\ \A i \in 1..(Len(s) - n) : SubSeq(s, n + 1, Len(s))[i] = s[n + i]
  <2>1. \A i \in (n + 1)..Len(s) : s[i] \in S
    BY <1>1
  <2> QED
    BY <1>1, <2>1, SubSeqProperties
<1> QED
  BY <1>1, <1>2, <1>3

(* Two sequences joined.                                                   *)
LEMMA Joined ==
  ASSUME NEW S, NEW s \in Seq(S), NEW t \in Seq(S)
  PROVE  /\ s \o t \in Seq(S) /\ Len(s \o t) = Len(s) + Len(t)
         /\ \A i \in 1..Len(s) : (s \o t)[i] = s[i]
         /\ \A i \in 1..Len(t) : (s \o t)[Len(s) + i] = t[i]
<1>1. Len(s) \in Nat /\ Len(t) \in Nat /\ Len(s \o t) = Len(s) + Len(t) /\ s \o t \in Seq(S)
  OBVIOUS
<1>2. \A i \in 1..Len(s) : (s \o t)[i] = s[i]
  OBVIOUS
<1>3. \A i \in 1..Len(t) : (s \o t)[Len(s) + i] = t[i]
  OBVIOUS
<1> QED
  BY <1>1, <1>2, <1>3

(* A session starts to send results once their number was acknowledged.    *)
LEMMA ParamsReceivedStep ==
  ASSUME MsInv, NEW c \in Readers, Serve(c), ParamsReceived(c), pc[c] # "left"
  PROVE  ReaderInv(c)'
<1>0. Shape /\ ReaderInv(c)
  BY DEF MsInv
<1>1. open[c] /\ session[c] = "params" /\ ~gone[c] /\ up[c] # <<>> /\ asked[c] \in Seq(Requests)
  BY <1>0, SessionKnown DEF Serve, ParamsReceived
<1>2. UNCHANGED <<srvVars, pc, gone, size, got, asked, answer, request>> /\ Request(c)' = Request(c)
  BY DEF Serve, ParamsReceived, Request
<1>3. AtIdle(c) /\ AtAck(c) /\ AtParams(c) /\ AtResults(c)
  BY <1>0 DEF ReaderInv
(* What the session does with the acknowledgement, and what is behind it.  *)
<1>4. ASSUME Head(up[c]) = Token("RECV_PARAMS_RECVD"), Found[request[c]] # NotAscii
      PROVE  /\ up'[c] = Tail(up[c]) /\ down' = down /\ open' = open
             /\ ValuesOf(request[c]) = <<>> => session'[c] = "pre"
             /\ ValuesOf(request[c]) # <<>> => session'[c] = "results" /\ left'[c] = Results(request[c])
  <2>1. Head(up[c]).kind = "RECV_PARAMS_RECVD"
    BY <1>4 DEF Token
  <2> QED
    BY <1>0, <1>1, <1>4, <2>1 DEF ParamsReceived, Receive, Awaits, Shape
<1>5. CASE pc[c] = "idle"
  <2>1. up[c] = <<Token("RECV_PARAMS_RECVD")>> /\ ValuesOf(request[c]) = <<>> /\ Found[request[c]] # NotAscii
    BY <1>1, <1>3, <1>5 DEF AtIdle
  <2>2. session'[c] = "pre" /\ up'[c] = <<>> /\ down' = down /\ open' = open
    BY <1>4, <2>1
  <2>3. AtIdle(c)'
    BY <1>2, <1>3, <1>5, <2>2 DEF AtIdle
  <2> QED
    BY <1>1, <1>2, <1>5, <2>2, <2>3, OpenAtIdle
<1>6. CASE pc[c] = "ack"
  <2>1. /\ up[c] = <<Token("RECV_PARAMS_RECVD"), Token("pre")>> /\ down[c] = <<>>
        /\ ValuesOf(request[c]) = <<>> /\ Found[request[c]] # NotAscii /\ asked[c] # <<>>
    BY <1>1, <1>3, <1>6 DEF AtAck
  <2>2. Head(up[c]) = Token("RECV_PARAMS_RECVD") /\ Tail(up[c]) = <<Token("pre")>>
    BY <2>1, ShortStreams
  <2>3. session'[c] = "pre" /\ up'[c] = <<Token("pre")>> /\ down' = down /\ open' = open
    BY <1>4, <2>1, <2>2
  <2>4. AtAck(c)'
    BY <1>1, <1>2, <2>1, <2>3 DEF AtAck
  <2> QED
    BY <1>1, <1>2, <1>6, <2>3, <2>4, OpenAtAck
<1>7. pc[c] # "params"
  BY <1>1, <1>3 DEF AtParams
<1>8. CASE pc[c] = "results"
  <2> DEFINE r == Request(c)
  <2>1. /\ up[c] = <<Token("RECV_PARAMS_RECVD")>> /\ request[c] = r /\ down[c] = <<>> /\ got[c] = <<>>
        /\ ValuesOf(r) # <<>> /\ asked[c] # <<>> /\ Pieces(c, 0)
    BY <1>1, <1>3, <1>8 DEF AtResults
  <2>2. down' = down /\ Pieces(c, 0)'
    <3>1. down' = down
      BY <1>1 DEF ParamsReceived, End
    <3> QED
      BY <1>2, <2>1, <3>1 DEF Pieces
  <2>3. CASE Found[r] = NotAscii
    <3>1. End(c)
      BY <1>1, <2>1, <2>3 DEF ParamsReceived
    <3>2. ~open'[c]
      BY <3>1 DEF End, CutOff
    <3>3. AtResults(c)'
      BY <1>1, <1>2, <2>1, <2>2, <3>2 DEF AtResults
    <3>4. Closed(c)'
      BY <1>2, <1>8, <2>1, <2>2 DEF Closed
    <3> QED
      BY <1>1, <1>2, <1>8, <3>3, <3>4, AtResultsOnly
  <2>4. CASE Found[r] # NotAscii
    <3>1. up'[c] = <<>> /\ open' = open /\ session'[c] = "results" /\ left'[c] = Results(r)
      BY <1>4, <2>1, <2>4
    <3>2. r \in Requests
      BY <1>1, <2>1 DEF Request, Last
    <3>3. /\ left'[c] \in Seq(Tokens(r)) /\ left'[c] # <<>> /\ Len(left'[c]) = size[c]
          /\ Len(got[c]) = 0 /\ Len(down[c]) = 0
      BY <2>1, <3>1, <3>2, ResultsAre DEF Pieces
    <3>4. AtResults(c)'
      BY <1>1, <1>2, <2>1, <2>2, <3>1, <3>3 DEF AtResults
    <3>5. Closed(c)'
      BY <1>1, <3>1 DEF Closed
    <3> QED
      BY <1>1, <1>2, <1>8, <3>4, <3>5, AtResultsOnly
  <2> QED
    BY <2>3, <2>4
<1> QED
  BY <1>0, <1>1, <1>5, <1>6, <1>7, <1>8, SessionKnown

(* A piece of the results leaves for the stream: the three parts stay whole. *)
LEMMA SendResultsStep ==
  ASSUME MsInv, NEW c \in Readers, Serve(c), SendResults(c), pc[c] # "left"
  PROVE  ReaderInv(c)'
<1> DEFINE r == Request(c)
<1>0. Shape /\ ReaderInv(c)
  BY DEF MsInv
<1>1. open[c] /\ session[c] = "results" /\ ~gone[c] /\ asked[c] \in Seq(Requests) /\ pc[c] = "results" /\ AtResults(c)
  BY <1>0, SessionKnown DEF Serve, SendResults, ReaderInv
<1>2. UNCHANGED <<srvVars, pc, gone, size, got, asked, answer, request>> /\ Request(c)' = Request(c)
  BY DEF Serve, SendResults, Request
<1>3. /\ up[c] = <<>> /\ left[c] \in Seq(Tokens(r)) /\ left[c] # <<>> /\ asked[c] # <<>> /\ ValuesOf(r) # <<>>
      /\ Pieces(c, 0) /\ Len(got[c]) + Len(down[c]) + Len(left[c]) = size[c]
      /\ \A i \in 1..Len(left[c]) : left[c][i] = Results(r)[Len(got[c]) + Len(down[c]) + i]
  BY <1>1 DEF AtResults
<1>4. PICK n \in 1..Len(left[c]) :
        /\ Send(c, SubSeq(left[c], 1, n))
        /\ left' = [left EXCEPT ![c] = SubSeq(@, n + 1, Len(@))]
        /\ Awaits(c, IF n = Len(left[c]) THEN "pre" ELSE "results")
        /\ UNCHANGED <<up, open>>
  BY <1>1 DEF SendResults
<1> DEFINE sent == SubSeq(left[c], 1, n)
           rest == SubSeq(left[c], n + 1, Len(left[c]))
<1>5. /\ down'[c] = down[c] \o sent /\ left'[c] = rest /\ up' = up /\ open' = open
      /\ session'[c] = IF n = Len(left[c]) THEN "pre" ELSE "results"
  BY <1>0, <1>4 DEF Send, Awaits, Shape
<1>6. /\ n \in Nat /\ n >= 1 /\ n <= Len(left[c]) /\ Len(left[c]) \in Nat
      /\ sent \in Seq(Tokens(r)) /\ Len(sent) = n /\ \A i \in 1..n : sent[i] = left[c][i]
      /\ rest \in Seq(Tokens(r)) /\ Len(rest) = Len(left[c]) - n
      /\ \A i \in 1..(Len(left[c]) - n) : rest[i] = left[c][n + i]
  BY <1>3, Cut
<1>7. /\ down[c] \in Seq(Tokens(r)) /\ got[c] \in Seq(Tokens(r)) /\ Len(down[c]) \in Nat /\ Len(got[c]) \in Nat
      /\ size[c] = Len(Results(r)) /\ Len(got[c]) < size[c]
      /\ \A i \in 1..Len(got[c]) : got[c][i] = Results(r)[i]
      /\ \A i \in 1..Len(down[c]) : down[c][i] = Results(r)[Len(got[c]) + i]
  <2>1. Pieces(c, 0)
    BY <1>3
  <2>2. /\ down[c] \in Seq(Tokens(r)) /\ got[c] \in Seq(Tokens(r))
        /\ size[c] = Len(Results(r)) /\ Len(got[c]) < size[c]
    BY <2>1 DEF Pieces
  <2>3. /\ \A i \in 1..Len(got[c]) : got[c][i] = Results(r)[i]
        /\ \A i \in 1..Len(down[c]) : down[c][i] = Results(r)[Len(got[c]) + i]
    BY <2>1 DEF Pieces
  <2>4. Len(down[c]) \in Nat /\ Len(got[c]) \in Nat
    BY <2>2
  <2> QED
    BY <2>2, <2>3, <2>4
<1> HIDE DEF sent, rest
<1>8. /\ down'[c] \in Seq(Tokens(r)) /\ Len(down'[c]) = Len(down[c]) + n
      /\ \A i \in 1..Len(down[c]) : down'[c][i] = down[c][i]
      /\ \A i \in 1..n : down'[c][Len(down[c]) + i] = sent[i]
  <2>1. down[c] \in Seq(Tokens(r)) /\ sent \in Seq(Tokens(r)) /\ Len(sent) = n
    BY <1>6, <1>7
  <2> DEFINE S == Tokens(r)
  <2>2. down[c] \in Seq(S) /\ sent \in Seq(S)
    BY <2>1
  <2> HIDE DEF S
  <2>3. /\ down[c] \o sent \in Seq(S) /\ Len(down[c] \o sent) = Len(down[c]) + Len(sent)
        /\ \A i \in 1..Len(down[c]) : (down[c] \o sent)[i] = down[c][i]
        /\ \A i \in 1..Len(sent) : (down[c] \o sent)[Len(down[c]) + i] = sent[i]
    BY <2>2, Joined
  <2>4. down'[c] = down[c] \o sent
    BY <1>5
  <2> QED
    BY <2>1, <2>3, <2>4, Zenon DEF S
<1>13. /\ Len(got[c]) \in Nat /\ Len(down[c]) \in Nat /\ Len(left[c]) \in Nat /\ n \in Nat /\ n <= Len(left[c])
       /\ size[c] = Len(got[c]) + Len(down[c]) + Len(left[c])
       /\ Len(down'[c]) = Len(down[c]) + n /\ Len(left'[c]) = Len(left[c]) - n
  BY <1>3, <1>5, <1>6, <1>7, <1>8
<1>14. /\ Len(got[c]) + Len(down'[c]) + 0 <= size[c]
       /\ Len(got[c]) + Len(down'[c]) + Len(left'[c]) = size[c]
       /\ n = Len(left[c]) => Len(got[c]) + Len(down'[c]) = size[c]
       /\ n # Len(left[c]) => Len(left'[c]) # 0
       /\ \A i \in Nat : Len(got[c]) + Len(down[c]) + (n + i) = Len(got[c]) + Len(down'[c]) + i
       /\ \A i, j \in Nat : i = Len(down[c]) + j => Len(got[c]) + Len(down[c]) + j = Len(got[c]) + i
  <2> DEFINE g == Len(got[c])  d == Len(down[c])  l == Len(left[c])  d2 == Len(down'[c])  l2 == Len(left'[c])
             sum == size[c]
  <2>1. g \in Nat /\ d \in Nat /\ l \in Nat /\ n \in Nat /\ n <= l /\ sum = g + d + l /\ d2 = d + n /\ l2 = l - n
    BY <1>13
  <2> HIDE DEF g, d, l, d2, l2, sum
  <2>2. /\ g + d2 + 0 <= sum /\ g + d2 + l2 = sum
        /\ n = l => g + d2 = sum
        /\ n # l => l2 # 0
    BY <2>1
  <2>3. /\ \A i \in Nat : g + d + (n + i) = g + d2 + i
        /\ \A i, j \in Nat : i = d + j => g + d + j = g + i
    BY <2>1
  <2> QED
    BY <2>2, <2>3, Zenon DEF g, d, l, d2, l2, sum
<1>9. \A i \in 1..Len(down'[c]) : down'[c][i] = Results(r)[Len(got[c]) + i]
  <2> SUFFICES ASSUME NEW i \in 1..Len(down'[c]) PROVE down'[c][i] = Results(r)[Len(got[c]) + i]
    OBVIOUS
  <2>1. CASE i <= Len(down[c])
    <3>1. i \in 1..Len(down[c])
      BY <1>7, <1>8, <2>1
    <3> QED
      BY <1>7, <1>8, <3>1
  <2>2. CASE ~(i <= Len(down[c]))
    <3> DEFINE j == i - Len(down[c])
    <3>1. j \in 1..n /\ j \in 1..Len(left[c]) /\ i = Len(down[c]) + j
      BY <1>6, <1>7, <1>8, <2>2
    <3> HIDE DEF j
    <3>2. down'[c][i] = left[c][j]
      BY <1>6, <1>8, <3>1
    <3>3. left[c][j] = Results(r)[Len(got[c]) + Len(down[c]) + j]
      BY <1>3, <3>1
    <3>4. Len(got[c]) + Len(down[c]) + j = Len(got[c]) + i
      <4>1. i \in Nat /\ j \in Nat
        BY <1>8, <3>1
      <4> QED
        BY <1>14, <3>1, <4>1, Zenon
    <3> QED
      BY <3>2, <3>3, <3>4
  <2> QED
    BY <2>1, <2>2
<1>15. Closed(c)'
  BY <1>1, <1>5 DEF Closed
<1>10. Pieces(c, 0)'
  <2>1. Len(got[c]) + Len(down'[c]) + 0 <= size[c]
    BY <1>14, Zenon
  <2> QED
    BY <1>2, <1>7, <1>8, <1>9, <2>1 DEF Pieces
<1>11. CASE n = Len(left[c])
  <2>1. session'[c] = "pre" /\ Len(got[c]) + Len(down'[c]) = size[c]
    BY <1>5, <1>11, <1>14, Zenon
  <2>2. AtResults(c)'
    BY <1>1, <1>2, <1>3, <1>5, <1>10, <2>1 DEF AtResults
  <2> QED
    BY <1>1, <1>2, <1>15, <2>2, AtResultsOnly
<1>12. CASE n # Len(left[c])
  <2>1. /\ session'[c] = "results" /\ left'[c] \in Seq(Tokens(r)) /\ left'[c] # <<>>
        /\ Len(got[c]) + Len(down'[c]) + Len(left'[c]) = size[c]
    <3>1. session'[c] = "results" /\ left'[c] \in Seq(Tokens(r))
      BY <1>5, <1>6, <1>12
    <3>2. Len(left'[c]) # 0 /\ Len(got[c]) + Len(down'[c]) + Len(left'[c]) = size[c]
      BY <1>12, <1>14, Zenon
    <3>3. left'[c] # <<>>
      <4> SUFFICES ASSUME left'[c] = <<>> PROVE FALSE
        OBVIOUS
      <4>1. Len(left'[c]) = 0
        OBVIOUS
      <4> QED
        BY <3>2, <4>1, Zenon
    <3> QED
      BY <3>1, <3>2, <3>3, Zenon
  <2>2. \A i \in 1..Len(left'[c]) : left'[c][i] = Results(r)[Len(got[c]) + Len(down'[c]) + i]
    <3> SUFFICES ASSUME NEW i \in 1..Len(left'[c])
                 PROVE  left'[c][i] = Results(r)[Len(got[c]) + Len(down'[c]) + i]
      OBVIOUS
    <3>1. i \in 1..(Len(left[c]) - n) /\ n + i \in 1..Len(left[c]) /\ i \in Nat
      BY <1>5, <1>6
    <3>2. left'[c][i] = left[c][n + i]
      BY <1>5, <1>6, <3>1
    <3>3. left[c][n + i] = Results(r)[Len(got[c]) + Len(down[c]) + (n + i)]
      BY <1>3, <3>1
    <3>4. Len(got[c]) + Len(down[c]) + (n + i) = Len(got[c]) + Len(down'[c]) + i
      BY <1>14, <3>1, Zenon
    <3> QED
      BY <3>2, <3>3, <3>4
  <2>3. AtResults(c)'
    BY <1>1, <1>2, <1>3, <1>5, <1>10, <2>1, <2>2 DEF AtResults
  <2> QED
    BY <1>1, <1>2, <1>15, <2>3, AtResultsOnly
<1> QED
  BY <1>11, <1>12

(* Any step of a session keeps the invariant.                              *)
LEMMA ServeStep ==
  ASSUME MsInv, NEW c \in Readers, Serve(c)
  PROVE  MsInv'
<1>1. CASE pc[c] = "left"
  <2>1. pc'[c] = "left" /\ asked'[c] = asked[c] /\ asked[c] \in Seq(Requests)
    BY <1>1 DEF Serve, MsInv, ReaderInv
  <2> QED
    BY <2>1, LeftReader, SessionFrame
<1>2. CASE pc[c] # "left"
  <2>1. PreRequest(c) \/ LookUp(c) \/ ParamsReceived(c) \/ SendResults(c)
    BY DEF Serve
  <2> QED
    BY <1>2, <2>1, PreRequestStep, LookUpStep, ParamsReceivedStep, SendResultsStep, SessionFrame
<1> QED
  BY <1>1, <1>2

-----------------------------------------------------------------------------
(* A step of a reader touches that reader.                                 *)
Touches(f, g, c) == \E x : g = [f EXCEPT ![c] = x]

(* A step of a reader leaves the others, their sessions and the queue alone. *)
LEMMA ReaderFrame ==
  ASSUME MsInv, NEW c \in Readers, UNCHANGED <<srvVars, session, open, request, left>>,
         Touches(pc, pc', c), Touches(up, up', c), Touches(down, down', c), Touches(gone, gone', c),
         Touches(size, size', c), Touches(got, got', c), Touches(asked, asked', c), Touches(answer, answer', c),
         pc'[c] # "new", gone' \in [Readers -> BOOLEAN], ReaderInv(c)'
  PROVE  MsInv'
<1>0. Shape /\ Queue /\ \A d \in Readers : ReaderInv(d)
  BY DEF MsInv
<1>1. Shape'
  BY <1>0 DEF Shape, Touches
<1>2. Queue'
  <2>1. \A d \in Readers : Waiting(d) => Waiting(d)'
    BY <1>0 DEF Waiting, Shape, Touches
  <2> QED
    BY <1>0, <2>1 DEF Queue, srvVars
<1>3. ASSUME NEW d \in Readers, d # c PROVE ReaderInv(d)'
  BY <1>0, <1>3, OtherReader DEF Shape, Touches, srvVars
<1> QED
  BY <1>0, <1>1, <1>2, <1>3 DEF MsInv

(* A function that stays as it is was touched nowhere else.                *)
LEMMA Untouched ==
  ASSUME NEW f, f = [x \in Readers |-> f[x]], NEW c \in Readers
  PROVE  Touches(f, f, c)
<1>1. f = [f EXCEPT ![c] = f[c]]
  OBVIOUS
<1> QED
  BY <1>1 DEF Touches

(* A call that raised: only the cause of the closed connection is left.    *)
LEMMA RaisedOnly ==
  ASSUME NEW c \in Readers, asked'[c] \in Seq(Requests), pc'[c] = "raised", ~open'[c], ~gone'[c], Closed(c)'
  PROVE  ReaderInv(c)'
BY DEF ReaderInv, AtNew, AtIdle, AtAck, AtParams, AtResults, AtRaised

(* What a call of get_values leaves as it is, and what it touches.         *)
LEMMA CallTouches ==
  ASSUME Shape, NEW c \in Readers, GetValues(c)
  PROVE  /\ UNCHANGED <<srvVars, session, open, gone, request, left>>
         /\ Touches(pc, pc', c) /\ Touches(up, up', c) /\ Touches(down, down', c)
         /\ Touches(size, size', c) /\ Touches(got, got', c)
         /\ Touches(asked, asked', c) /\ Touches(answer, answer', c)
<1>1. UNCHANGED <<srvVars, session, open, gone, request, left>>
  BY DEF GetValues
<1>2. /\ Touches(pc, pc, c) /\ Touches(up, up, c) /\ Touches(down, down, c) /\ Touches(size, size, c)
      /\ Touches(got, got, c) /\ Touches(asked, asked, c) /\ Touches(answer, answer, c)
  BY Untouched DEF Shape
<1> DEFINE Same(f, g) == g = f \/ \E x : g = [f EXCEPT ![c] = x]
<1>3. ASSUME NEW r, Ask(c, r)
      PROVE  Same(pc, pc') /\ Same(up, up') /\ Same(down, down') /\ Same(size, size') /\ Same(got, got') /\ Same(asked, asked') /\ Same(answer, answer')
  <2>1. Same(pc, pc')
    BY <1>3 DEF Ask, Raise, Reads
  <2>2. Same(up, up')
    BY <1>3 DEF Ask, Raise, Says
  <2>3. Same(down, down')
    BY <1>3 DEF Ask, Raise
  <2>4. Same(size, size')
    BY <1>3 DEF Ask, Raise
  <2>5. Same(got, got')
    BY <1>3 DEF Ask, Raise
  <2>6. Same(asked, asked')
    BY <1>3 DEF Ask
  <2>7. Same(answer, answer')
    BY <1>3 DEF Ask, Raise
  <2> QED
    BY <2>1, <2>2, <2>3, <2>4, <2>5, <2>6, <2>7
<1>4. ASSUME TakeAck(c)
      PROVE  Same(pc, pc') /\ Same(up, up') /\ Same(down, down') /\ Same(size, size') /\ Same(got, got') /\ Same(asked, asked') /\ Same(answer, answer')
  <2>1. Same(pc, pc')
    BY <1>4 DEF TakeAck, Raise, Reads
  <2>2. Same(up, up')
    BY <1>4 DEF TakeAck, Raise, Says
  <2>3. Same(down, down')
    BY <1>4 DEF TakeAck, Raise
  <2>4. Same(size, size')
    BY <1>4 DEF TakeAck, Raise
  <2>5. Same(got, got')
    BY <1>4 DEF TakeAck, Raise
  <2>6. Same(asked, asked')
    BY <1>4 DEF TakeAck
  <2>7. Same(answer, answer')
    BY <1>4 DEF TakeAck, Raise
  <2> QED
    BY <2>1, <2>2, <2>3, <2>4, <2>5, <2>6, <2>7
<1>5. ASSUME TakeParams(c)
      PROVE  Same(pc, pc') /\ Same(up, up') /\ Same(down, down') /\ Same(size, size') /\ Same(got, got') /\ Same(asked, asked') /\ Same(answer, answer')
  <2>1. Same(pc, pc')
    BY <1>5 DEF TakeParams, Raise, Reads, Returns
  <2>2. Same(up, up')
    BY <1>5 DEF TakeParams, Raise, Says
  <2>3. Same(down, down')
    BY <1>5 DEF TakeParams, Raise
  <2>4. Same(size, size')
    BY <1>5 DEF TakeParams, Raise
  <2>5. Same(got, got')
    BY <1>5 DEF TakeParams, Raise
  <2>6. Same(asked, asked')
    BY <1>5 DEF TakeParams
  <2>7. Same(answer, answer')
    BY <1>5 DEF TakeParams, Raise, Returns
  <2> QED
    BY <2>1, <2>2, <2>3, <2>4, <2>5, <2>6, <2>7
<1>6. ASSUME TakeResults(c)
      PROVE  Same(pc, pc') /\ Same(up, up') /\ Same(down, down') /\ Same(size, size') /\ Same(got, got') /\ Same(asked, asked') /\ Same(answer, answer')
  <2>1. Same(pc, pc')
    BY <1>6 DEF TakeResults, Reads, Returns
  <2>2. Same(up, up')
    BY <1>6 DEF TakeResults
  <2>3. Same(down, down')
    BY <1>6 DEF TakeResults
  <2>4. Same(size, size')
    BY <1>6 DEF TakeResults
  <2>5. Same(got, got')
    BY <1>6 DEF TakeResults
  <2>6. Same(asked, asked')
    BY <1>6 DEF TakeResults
  <2>7. Same(answer, answer')
    BY <1>6 DEF TakeResults, Returns
  <2> QED
    BY <2>1, <2>2, <2>3, <2>4, <2>5, <2>6, <2>7
<1>7. Same(pc, pc') /\ Same(up, up') /\ Same(down, down') /\ Same(size, size') /\ Same(got, got') /\ Same(asked, asked') /\ Same(answer, answer')
  BY <1>3, <1>4, <1>5, <1>6 DEF GetValues
<1>8. /\ Touches(pc, pc', c) /\ Touches(up, up', c) /\ Touches(down, down', c)
      /\ Touches(size, size', c) /\ Touches(got, got', c)
      /\ Touches(asked, asked', c) /\ Touches(answer, answer', c)
  BY <1>2, <1>7, Zenon DEF Touches
<1> QED
  BY <1>1, <1>8

(* A call of get_values announces its request, or finds it closed.         *)
LEMMA AskStep ==
  ASSUME MsInv, NEW c \in Readers, NEW r \in Requests, Ask(c, r), UNCHANGED <<srvVars, session, open, gone, request, left>>
  PROVE  ReaderInv(c)'
<1>0. Shape /\ ReaderInv(c)
  BY DEF MsInv
<1>1. pc[c] = "idle" /\ asked[c] \in Seq(Requests) /\ ~gone[c] /\ down[c] = <<>> /\ AtIdle(c) /\ Closed(c)
  BY <1>0 DEF Ask, ReaderInv, AtIdle
<1>2. asked'[c] = Append(asked[c], r)
  BY <1>0 DEF Ask, Shape
<1>3. asked'[c] \in Seq(Requests) /\ asked'[c] # <<>>
  <2>1. Append(asked[c], r) \in Seq(Requests) /\ Append(asked[c], r) # <<>>
    BY <1>1
  <2> QED
    BY <1>2, <2>1
<1>4. CASE open[c]
  <2>1. up' = [up EXCEPT ![c] = Append(@, Token("pre"))] /\ pc' = [pc EXCEPT ![c] = "ack"] /\ down' = down
    BY <1>4 DEF Ask, Says, Reads
  <2>2. up'[c] = Append(up[c], Token("pre")) /\ pc'[c] = "ack" /\ down'[c] = <<>> /\ ~gone'[c] /\ open'[c]
    BY <1>0, <1>1, <1>4, <2>1 DEF Shape
  <2>3. AtAck(c)'
    <3>1. CASE session[c] \in {"none", "pre"} /\ up[c] = <<>>
      <4>1. up'[c] = <<Token("pre")>>
        BY <2>2, <3>1, ShortStreams
      <4> QED
        BY <1>3, <2>2, <3>1, <4>1 DEF AtAck
    <3>2. CASE /\ session[c] = "params" /\ up[c] = <<Token("RECV_PARAMS_RECVD")>>
               /\ ValuesOf(request[c]) = <<>> /\ Found[request[c]] # NotAscii
      <4>1. up'[c] = <<Token("RECV_PARAMS_RECVD"), Token("pre")>>
        BY <2>2, <3>2, ShortStreams
      <4> QED
        BY <1>3, <2>2, <3>2, <4>1 DEF AtAck
    <3> QED
      BY <1>1, <1>4, <3>1, <3>2 DEF AtIdle
  <2> QED
    BY <1>3, <2>2, <2>3, OpenAtAck
<1>5. CASE ~open[c]
  <2>1. pc'[c] = "raised" /\ ~open'[c] /\ ~gone'[c]
    BY <1>0, <1>1, <1>5 DEF Ask, Raise, Reads, Shape
  <2>2. Closed(c)'
    BY <1>1, <1>5, <2>1 DEF Closed, srvVars
  <2> QED
    BY <1>3, <2>1, <2>2, RaisedOnly
<1> QED
  BY <1>4, <1>5

(* The acknowledgement can only be that of this request.                   *)
LEMMA TakeAckStep ==
  ASSUME MsInv, NEW c \in Readers, TakeAck(c), UNCHANGED <<srvVars, session, open, gone, request, left>>
  PROVE  ReaderInv(c)'
<1>0. Shape /\ ReaderInv(c)
  BY DEF MsInv
<1>1. pc[c] = "ack" /\ asked[c] \in Seq(Requests) /\ AtAck(c) /\ Closed(c)
  BY <1>0 DEF TakeAck, ReaderInv
<1>2. asked[c] # <<>> /\ ~gone[c] /\ asked' = asked /\ Request(c)' = Request(c)
  BY <1>1 DEF AtAck, TakeAck, Request
<1>3. CASE down[c] # <<>> /\ Head(down[c]).kind = "ack" /\ open[c]
  <2>1. session[c] = "request" /\ up[c] = <<>> /\ down[c] = <<Token("ack")>>
    BY <1>1, <1>3 DEF AtAck
  <2>2. /\ down' = [down EXCEPT ![c] = Tail(@)] /\ pc' = [pc EXCEPT ![c] = "params"]
        /\ up' = [up EXCEPT ![c] = Append(@, [Token("request") EXCEPT !.value = Request(c)])]
    BY <1>3 DEF TakeAck, Says, Reads
  <2>3. /\ down'[c] = Tail(down[c]) /\ pc'[c] = "params" /\ ~gone'[c] /\ open'[c]
        /\ up'[c] = Append(up[c], [Token("request") EXCEPT !.value = Request(c)])
    BY <1>0, <1>2, <1>3, <2>2 DEF Shape
  <2>4. Tail(down[c]) = <<>>
    BY <2>1
  <2>5. Append(up[c], [Token("request") EXCEPT !.value = Request(c)]) = <<[Token("request") EXCEPT !.value = Request(c)]>>
    BY <2>1, ShortStreams
  <2>6. AtParams(c)'
    BY <1>2, <2>1, <2>3, <2>4, <2>5 DEF AtParams
  <2>7. Closed(c)'
    BY <2>3 DEF Closed
  <2> QED
    BY <1>1, <1>2, <2>3, <2>6, <2>7, AtParamsOnly
<1>4. CASE ~(down[c] # <<>> /\ Head(down[c]).kind = "ack" /\ open[c])
  <2>1. (down[c] # <<>> \/ Lost(c)) /\ Raise(c)
    BY <1>4 DEF TakeAck
  <2>2. ~open[c]
    <3> SUFFICES ASSUME open[c] PROVE FALSE
      OBVIOUS
    <3>1. down[c] # <<>>
      BY <2>1 DEF Lost
    <3>2. down[c] = <<Token("ack")>>
      BY <1>1, <3>1 DEF AtAck
    <3>3. Head(down[c]) = Token("ack")
      BY <3>2
    <3>4. Head(down[c]).kind = "ack"
      BY <3>3 DEF Token
    <3> QED
      BY <1>4, <3>1, <3>4
  <2>3. pc'[c] = "raised" /\ ~open'[c] /\ ~gone'[c]
    BY <1>0, <1>2, <2>1, <2>2 DEF Raise, Reads, Shape
  <2>4. Closed(c)'
    BY <1>1, <2>2, <2>3 DEF Closed, srvVars
  <2> QED
    BY <1>1, <1>2, <2>3, <2>4, RaisedOnly
<1> QED
  BY <1>3, <1>4

(* The number announced is that of the results of this request.            *)
LEMMA TakeParamsStep ==
  ASSUME MsInv, NEW c \in Readers, TakeParams(c), UNCHANGED <<srvVars, session, open, gone, request, left>>
  PROVE  ReaderInv(c)'
<1> DEFINE r == Request(c)
<1>0. Shape /\ ReaderInv(c)
  BY DEF MsInv
<1>1. pc[c] = "params" /\ asked[c] \in Seq(Requests) /\ AtParams(c) /\ Closed(c)
  BY <1>0 DEF TakeParams, ReaderInv
<1>2. asked[c] # <<>> /\ ~gone[c] /\ asked' = asked /\ Request(c)' = Request(c)
  BY <1>1 DEF AtParams, TakeParams, Request
<1>3. r \in Requests
  BY <1>1, <1>2 DEF Request, Last
<1>4. CASE Len(down[c]) = 1 /\ Head(down[c]).kind = "params" /\ open[c]
  <2>1. /\ session[c] = "params" /\ up[c] = <<>> /\ request[c] = r
        /\ down[c] = <<Params(r)>> /\ Found[r] # Quotes
    <3>1. down[c] # <<>>
      BY <1>4
    <3> QED
      BY <1>1, <1>4, <3>1 DEF AtParams
  <2>2. Head(down[c]) = Params(r)
    BY <2>1
  <2>3. Head(down[c]).count = Len(ValuesOf(r))
    BY <2>2 DEF Params
  <2> DEFINE count == Len(ValuesOf(r))
  <2>4. count \in Nat /\ Len(Results(r)) = count + 1 /\ (count = 0 <=> ValuesOf(r) = <<>>)
    BY <1>3, ResultsAre
  <2>5. /\ down' = [down EXCEPT ![c] = <<>>] /\ up' = [up EXCEPT ![c] = Append(@, Token("RECV_PARAMS_RECVD"))]
        /\ size' = [size EXCEPT ![c] = IF count = 0 THEN 0 ELSE count + 1]
        /\ got' = [got EXCEPT ![c] = <<>>]
        /\ IF count = 0 THEN Returns(c, <<>>) ELSE Reads(c, "results") /\ UNCHANGED answer
    BY <1>4, <2>3, Zenon DEF TakeParams, Says
  <2> HIDE DEF count
  <2>6. /\ down'[c] = <<>> /\ up'[c] = Append(up[c], Token("RECV_PARAMS_RECVD")) /\ got'[c] = <<>>
        /\ size'[c] = (IF count = 0 THEN 0 ELSE count + 1) /\ open'[c] /\ ~gone'[c]
    BY <1>0, <1>2, <1>4, <2>5 DEF Shape
  <2>7. up'[c] = <<Token("RECV_PARAMS_RECVD")>>
    BY <2>1, <2>6, ShortStreams
  <2>8. CASE count = 0
    <3>1. pc'[c] = "idle" /\ answer'[c] = <<>>
      BY <1>0, <2>5, <2>8 DEF Returns, Reads, Shape
    <3>2. ValuesOf(r) = <<>> /\ Found[r] # NotAscii
      <4>1. ValuesOf(r) = <<>>
        BY <2>4, <2>8
      <4>2. Found[r] # NotAscii
        <5> SUFFICES ASSUME Found[r] = NotAscii PROVE FALSE
          OBVIOUS
        <5>1. NotAscii # BadPath
          <6>1. NotAscii[1] = "UnicodeEncodeError" /\ BadPath[1] = "TreeAccError"
            BY DEF NotAscii, BadPath
          <6> QED
            BY <6>1
        <5>2. ValuesOf(r) = NotAscii
          BY <5>1 DEF ValuesOf
        <5>3. NotAscii # <<>>
          BY DEF NotAscii
        <5> QED
          BY <4>1, <5>2, <5>3
      <4> QED
        BY <4>1, <4>2
    <3>3. AtIdle(c)'
      BY <1>2, <2>1, <2>6, <2>7, <3>1, <3>2 DEF AtIdle
    <3> QED
      BY <1>1, <1>2, <2>6, <3>1, <3>3, OpenAtIdle
  <2>9. CASE count # 0
    <3>1. pc'[c] = "results" /\ size'[c] = Len(Results(r)) /\ ValuesOf(r) # <<>> /\ size'[c] \in Nat /\ 0 < size'[c]
      BY <1>0, <2>4, <2>5, <2>6, <2>9 DEF Reads, Shape
    <3>2. Pieces(c, 0)'
      <4>1. Len(got'[c]) = 0 /\ Len(down'[c]) = 0 /\ got'[c] \in Seq(Tokens(r)) /\ down'[c] \in Seq(Tokens(r))
        BY <2>6
      <4> QED
        BY <1>2, <3>1, <4>1 DEF Pieces
    <3>3. AtResults(c)'
      BY <1>2, <2>1, <2>6, <2>7, <3>1, <3>2 DEF AtResults
    <3>4. Closed(c)'
      BY <2>6 DEF Closed
    <3> QED
      BY <1>1, <1>2, <3>1, <3>3, <3>4, AtResultsOnly
  <2> QED
    BY <2>8, <2>9
<1>5. CASE ~(Len(down[c]) = 1 /\ Head(down[c]).kind = "params" /\ open[c])
  <2>1. (down[c] # <<>> \/ Lost(c)) /\ Raise(c)
    BY <1>5, Zenon DEF TakeParams
  <2>2. ~open[c]
    <3> SUFFICES ASSUME open[c] PROVE FALSE
      OBVIOUS
    <3>1. down[c] # <<>>
      BY <2>1 DEF Lost
    <3>2. down[c] = <<Params(r)>>
      BY <1>1, <3>1 DEF AtParams
    <3>3. Head(down[c]) = Params(r) /\ Len(down[c]) = 1
      BY <3>2
    <3>4. Head(down[c]).kind = "params"
      BY <3>3 DEF Params
    <3> QED
      BY <1>5, <3>3, <3>4
  <2>3. pc'[c] = "raised" /\ ~open'[c] /\ ~gone'[c]
    BY <1>0, <1>2, <2>1, <2>2 DEF Raise, Reads, Shape
  <2>4. Closed(c)'
    BY <1>1, <1>2, <2>2, <2>3 DEF Closed, srvVars
  <2> QED
    BY <1>1, <1>2, <2>3, <2>4, RaisedOnly
<1> QED
  BY <1>4, <1>5
(* What a reader has of the results of a request is what it decodes.       *)
LEMMA DecodedAre ==
  ASSUME NEW r \in Requests, NEW s \in Seq(Tokens(r)), Len(s) = Len(Results(r)),
         \A i \in 1..Len(s) : s[i] = Results(r)[i]
  PROVE  Decoded(s) = ValuesOf(r)
<1>1. /\ ValuesOf(r) \in Seq(STRING) /\ Len(s) = Len(ValuesOf(r)) + 1
      /\ \A i \in 1..Len(ValuesOf(r)) : Results(r)[i] = Value(ValuesOf(r)[i])
  BY ResultsAre
<1>2. Len(ValuesOf(r)) \in Nat /\ Len(s) - 1 = Len(ValuesOf(r))
  BY <1>1
<1>3. \A i \in 1..Len(ValuesOf(r)) : s[i] = Value(ValuesOf(r)[i])
  BY <1>1, <1>2
<1>4. ASSUME NEW v PROVE (IF Value(v).kind = "EMPTY_STR" THEN Empty ELSE Value(v).value) = v
  BY DEF Value
<1>5. Decoded(s) = [i \in 1..Len(ValuesOf(r)) |-> IF s[i].kind = "EMPTY_STR" THEN Empty ELSE s[i].value]
  BY <1>2 DEF Decoded
<1>6. Decoded(s) = [i \in 1..Len(ValuesOf(r)) |-> ValuesOf(r)[i]]
  BY <1>3, <1>4, <1>5
<1> QED
  BY <1>1, <1>6

(* A piece of the results arrives: the last one completes the answer.      *)
LEMMA TakeResultsStep ==
  ASSUME MsInv, NEW c \in Readers, TakeResults(c), UNCHANGED <<srvVars, session, open, gone, request, left>>
  PROVE  ReaderInv(c)'
<1> DEFINE r == Request(c)
<1>0. Shape /\ ReaderInv(c)
  BY DEF MsInv
<1>1. pc[c] = "results" /\ asked[c] \in Seq(Requests) /\ AtResults(c) /\ Closed(c)
  BY <1>0 DEF TakeResults, ReaderInv
<1>2. asked[c] # <<>> /\ ~gone[c] /\ asked' = asked /\ size' = size /\ up' = up /\ Request(c)' = r
  BY <1>1 DEF AtResults, TakeResults, Request
<1>3. r \in Requests
  BY <1>1, <1>2 DEF Request, Last
<1>4. PICK n \in 1..Len(down[c]) :
        /\ n <= size[c] - Len(got[c])
        /\ down' = [down EXCEPT ![c] = SubSeq(@, n + 1, Len(@))]
        /\ got' = [got EXCEPT ![c] = @ \o SubSeq(down[c], 1, n)]
        /\ IF Len(got[c]) + n = size[c] THEN Returns(c, Decoded(got'[c]))
           ELSE UNCHANGED <<pc, answer>>
  BY Zenon DEF TakeResults
<1> DEFINE taking == SubSeq(down[c], 1, n)
           rest == SubSeq(down[c], n + 1, Len(down[c]))
<1>5. down'[c] = rest /\ got'[c] = got[c] \o taking
  BY <1>0, <1>4 DEF Shape
<1>6. /\ down[c] \in Seq(Tokens(r)) /\ got[c] \in Seq(Tokens(r))
      /\ size[c] = Len(Results(r)) /\ Len(got[c]) < size[c] /\ Len(got[c]) + Len(down[c]) + 0 <= size[c]
  BY <1>1 DEF AtResults, Pieces
<1>7. /\ \A i \in 1..Len(got[c]) : got[c][i] = Results(r)[i]
      /\ \A i \in 1..Len(down[c]) : down[c][i] = Results(r)[Len(got[c]) + i]
  BY <1>1 DEF AtResults, Pieces
<1>8. /\ n \in Nat /\ n >= 1 /\ n <= Len(down[c]) /\ Len(down[c]) \in Nat /\ Len(got[c]) \in Nat
      /\ taking \in Seq(Tokens(r)) /\ Len(taking) = n /\ \A i \in 1..n : taking[i] = down[c][i]
      /\ rest \in Seq(Tokens(r)) /\ Len(rest) = Len(down[c]) - n
      /\ \A i \in 1..(Len(down[c]) - n) : rest[i] = down[c][n + i]
  <2>1. /\ n \in Nat /\ n >= 1 /\ n <= Len(down[c]) /\ Len(down[c]) \in Nat /\ Len(got[c]) \in Nat
    BY <1>6
  <2>2. down[c] \in Seq(Tokens(r))
    BY <1>6
  <2>3. /\ taking \in Seq(Tokens(r)) /\ Len(taking) = n /\ \A i \in 1..n : taking[i] = down[c][i]
        /\ rest \in Seq(Tokens(r)) /\ Len(rest) = Len(down[c]) - n
        /\ \A i \in 1..(Len(down[c]) - n) : rest[i] = down[c][n + i]
    BY <2>2, Cut
  <2> QED
    BY <2>1, <2>3, Zenon
<1> HIDE DEF taking, rest
<1>9. /\ got'[c] \in Seq(Tokens(r)) /\ Len(got'[c]) = Len(got[c]) + n
      /\ \A i \in 1..Len(got[c]) : got'[c][i] = got[c][i]
      /\ \A i \in 1..n : got'[c][Len(got[c]) + i] = taking[i]
  <2>1. got[c] \in Seq(Tokens(r)) /\ taking \in Seq(Tokens(r)) /\ Len(taking) = n /\ Len(got[c]) \in Nat /\ n \in Nat
    BY <1>6, <1>8
  <2>2. got'[c] = got[c] \o taking
    BY <1>5
  <2>3. /\ got[c] \o taking \in Seq(Tokens(r)) /\ Len(got[c] \o taking) = Len(got[c]) + Len(taking)
        /\ \A i \in 1..Len(got[c]) : (got[c] \o taking)[i] = got[c][i]
        /\ \A i \in 1..Len(taking) : (got[c] \o taking)[Len(got[c]) + i] = taking[i]
    <3> DEFINE S == Tokens(r)
    <3>1. got[c] \in Seq(S) /\ taking \in Seq(S)
      BY <2>1
    <3> HIDE DEF S
    <3>2. /\ got[c] \o taking \in Seq(S) /\ Len(got[c] \o taking) = Len(got[c]) + Len(taking)
          /\ \A i \in 1..Len(got[c]) : (got[c] \o taking)[i] = got[c][i]
          /\ \A i \in 1..Len(taking) : (got[c] \o taking)[Len(got[c]) + i] = taking[i]
      BY <3>1, Joined
    <3> QED
      BY <3>2 DEF S
  <2> QED
    BY <2>1, <2>2, <2>3, Zenon
<1>10. \A i \in 1..Len(got'[c]) : got'[c][i] = Results(r)[i]
  <2> SUFFICES ASSUME NEW i \in 1..Len(got'[c]) PROVE got'[c][i] = Results(r)[i]
    OBVIOUS
  <2>1. CASE i <= Len(got[c])
    <3>1. i \in 1..Len(got[c])
      BY <1>8, <1>9, <2>1
    <3> QED
      BY <1>7, <1>9, <3>1
  <2>2. CASE ~(i <= Len(got[c]))
    <3> DEFINE j == i - Len(got[c])
    <3>1. j \in 1..n /\ j \in 1..Len(down[c]) /\ i = Len(got[c]) + j
      BY <1>8, <1>9, <2>2
    <3> HIDE DEF j
    <3>2. got'[c][i] = down[c][j]
      BY <1>8, <1>9, <3>1
    <3>3. down[c][j] = Results(r)[Len(got[c]) + j]
      BY <1>7, <3>1
    <3> QED
      BY <3>1, <3>2, <3>3
  <2> QED
    BY <2>1, <2>2
<1>11. /\ Len(got[c]) + Len(down[c]) = Len(got'[c]) + Len(down'[c])
       /\ size[c] \in Nat /\ Len(got'[c]) + Len(down'[c]) + 0 <= size[c] /\ Len(down'[c]) \in Nat /\ Len(got'[c]) \in Nat
       /\ Len(got[c]) + n = size[c] => Len(down'[c]) = 0
       /\ Len(got[c]) + n # size[c] => Len(got'[c]) < size[c]
       /\ \A i \in Nat : Len(got[c]) + (n + i) = Len(got'[c]) + i
  <2> DEFINE g == Len(got[c])  d == Len(down[c])  g2 == Len(got'[c])  d2 == Len(down'[c])  sum == size[c]
  <2>0. size[c] \in Nat
    BY <1>3, <1>6, ResultsAre
  <2>1. /\ g \in Nat /\ d \in Nat /\ n \in Nat /\ n <= d /\ g2 = g + n /\ d2 = d - n
        /\ g < sum /\ g + d + 0 <= sum /\ n <= sum - g /\ sum \in Nat
    BY <1>4, <1>5, <1>6, <1>8, <1>9, <2>0
  <2> HIDE DEF g, d, g2, d2, sum
  <2>2. /\ g + d = g2 + d2 /\ g2 + d2 + 0 <= sum /\ d2 \in Nat /\ g2 \in Nat
        /\ g + n = sum => d2 = 0
        /\ g + n # sum => g2 < sum
    BY <2>1
  <2>3. \A i \in Nat : g + (n + i) = g2 + i
    BY <2>1
  <2> QED
    BY <2>1, <2>2, <2>3, Zenon DEF g, d, g2, d2, sum
<1>12. down[c] # <<>>
  BY <1>8
<1>13. CASE Len(got[c]) + n = size[c]
  <2>1. pc'[c] = "idle" /\ answer'[c] = Decoded(got'[c])
    BY <1>0, <1>4, <1>13 DEF Returns, Reads, Shape
  <2>2. answer'[c] = ValuesOf(r)
    <3>1. Len(got'[c]) = Len(Results(r))
      BY <1>6, <1>9, <1>13
    <3> QED
      BY <1>3, <1>9, <1>10, <2>1, <3>1, DecodedAre
  <2>3. down'[c] = <<>>
    <3>1. Len(down'[c]) = 0 /\ down'[c] \in Seq(Tokens(r))
      BY <1>5, <1>8, <1>11, <1>13
    <3> QED
      BY <3>1
  <2>4. open[c] => session[c] = "pre" /\ up[c] = <<>>
    <3> SUFFICES ASSUME open[c], session[c] = "results", left[c] \in Seq(Tokens(r)), left[c] # <<>>,
                        Len(got[c]) + Len(down[c]) + Len(left[c]) = size[c]
                 PROVE  FALSE
      BY <1>1, <1>12 DEF AtResults
    <3>1. Len(left[c]) \in Nat /\ Len(left[c]) # 0
      OBVIOUS
    <3> DEFINE g == Len(got[c])  d == Len(down[c])  l == Len(left[c])
    <3>2. g \in Nat /\ d \in Nat /\ l \in Nat /\ l # 0 /\ n \in Nat /\ n <= d /\ g + d + l = g + n
      BY <1>8, <1>13, <3>1, Zenon
    <3> HIDE DEF g, d, l
    <3> QED
      BY <3>2
  <2>5. AtIdle(c)'
    BY <1>2, <2>1, <2>2, <2>3, <2>4 DEF AtIdle
  <2>6. Closed(c)'
    BY <1>1, <1>12, <2>1 DEF Closed, srvVars
  <2> QED
    BY <1>1, <1>2, <2>1, <2>5, <2>6 DEF ReaderInv, AtNew, AtAck, AtParams, AtResults, AtRaised
<1>14. CASE Len(got[c]) + n # size[c]
  <2>1. pc'[c] = "results"
    BY <1>1, <1>4, <1>14
  <2>2. \A i \in 1..Len(down'[c]) : down'[c][i] = Results(r)[Len(got'[c]) + i]
    <3> SUFFICES ASSUME NEW i \in 1..Len(down'[c])
                 PROVE  down'[c][i] = Results(r)[Len(got'[c]) + i]
      OBVIOUS
    <3>1. i \in 1..(Len(down[c]) - n) /\ n + i \in 1..Len(down[c]) /\ i \in Nat
      BY <1>5, <1>8
    <3>2. down'[c][i] = down[c][n + i]
      BY <1>5, <1>8, <3>1
    <3>3. down[c][n + i] = Results(r)[Len(got[c]) + (n + i)]
      BY <1>7, <3>1
    <3>4. Len(got[c]) + (n + i) = Len(got'[c]) + i
      BY <1>11, <3>1, Zenon
    <3> QED
      BY <3>2, <3>3, <3>4
  <2>3. Pieces(c, 0)'
    <3>1. Len(got'[c]) < size[c] /\ Len(got'[c]) + Len(down'[c]) + 0 <= size[c]
      BY <1>11, <1>14, Zenon
    <3>2. down'[c] \in Seq(Tokens(r))
      BY <1>5, <1>8
    <3> QED
      BY <1>2, <1>6, <1>9, <1>10, <2>2, <3>1, <3>2 DEF Pieces
  <2>4. open[c] => \/ /\ session[c] = "results" /\ up[c] = <<>> /\ left[c] \in Seq(Tokens(r)) /\ left[c] # <<>>
                      /\ Len(got[c]) + Len(down[c]) + Len(left[c]) = size[c]
                      /\ \A i \in 1..Len(left[c]) : left[c][i] = Results(r)[Len(got[c]) + Len(down[c]) + i]
                   \/ session[c] = "pre" /\ up[c] = <<>> /\ Len(got[c]) + Len(down[c]) = size[c]
    BY <1>1, <1>12 DEF AtResults
  <2>5. ValuesOf(r) # <<>> /\ open' = open /\ session' = session /\ left' = left /\ gone' = gone
    BY <1>1 DEF AtResults
  <2>6. Len(got[c]) + Len(down[c]) = Len(got'[c]) + Len(down'[c])
    BY <1>11, Zenon
  <2>7. AtResults(c)'
    BY <1>2, <2>1, <2>3, <2>4, <2>5, <2>6 DEF AtResults
  <2>8. Closed(c)'
    BY <1>1, <1>12, <2>1 DEF Closed, srvVars
  <2> QED
    BY <1>1, <1>2, <2>1, <2>7, <2>8, AtResultsOnly
<1> QED
  BY <1>13, <1>14
(* Any step of a call of get_values keeps the invariant.                   *)
LEMMA GetValuesStep ==
  ASSUME MsInv, NEW c \in Readers, GetValues(c)
  PROVE  MsInv'
<1>0. Shape /\ ReaderInv(c)
  BY DEF MsInv
<1>1. /\ UNCHANGED <<srvVars, session, open, gone, request, left>>
      /\ Touches(pc, pc', c) /\ Touches(up, up', c) /\ Touches(down, down', c)
      /\ Touches(size, size', c) /\ Touches(got, got', c)
      /\ Touches(asked, asked', c) /\ Touches(answer, answer', c)
  BY <1>0, CallTouches
<1>2. ReaderInv(c)'
  BY <1>1, AskStep, TakeAckStep, TakeParamsStep, TakeResultsStep DEF GetValues
<1>3. pc'[c] # "new"
  <2>1. CASE \E r \in Requests : Ask(c, r)
    BY <1>0, <2>1 DEF Ask, Raise, Reads, Shape
  <2>2. CASE TakeAck(c)
    BY <1>0, <2>2 DEF TakeAck, Raise, Reads, Shape
  <2>3. CASE TakeParams(c)
    <3>1. \/ pc' = [pc EXCEPT ![c] = "idle"] \/ pc' = [pc EXCEPT ![c] = "results"]
          \/ pc' = [pc EXCEPT ![c] = "raised"]
      BY <2>3 DEF TakeParams, Raise, Reads, Returns
    <3> QED
      BY <1>0, <3>1 DEF Shape
  <2>4. CASE TakeResults(c)
    <3>1. pc[c] = "results" /\ (pc' = pc \/ pc' = [pc EXCEPT ![c] = "idle"])
      BY <2>4 DEF TakeResults, Reads, Returns
    <3> QED
      BY <1>0, <3>1 DEF Shape
  <2> QED
    BY <2>1, <2>2, <2>3, <2>4 DEF GetValues
<1>4. Touches(gone, gone', c) /\ gone' \in [Readers -> BOOLEAN]
  <2>1. gone' = gone /\ gone \in [Readers -> BOOLEAN]
    BY <1>0, <1>1 DEF Shape
  <2>2. gone = [x \in Readers |-> gone[x]]
    BY <2>1
  <2> QED
    BY <2>1, <2>2, Untouched
<1> QED
  BY <1>1, <1>2, <1>3, <1>4, ReaderFrame

(* A reader leaves, by itself or killed.                                   *)
LEMMA LeaveStep ==
  ASSUME MsInv, NEW c \in Readers, Leave(c) \/ Killed(c)
  PROVE  MsInv'
<1>0. Shape /\ ReaderInv(c)
  BY DEF MsInv
<1>1. /\ UNCHANGED <<srvVars, session, down, open, request, left, size, got, asked, answer>>
      /\ pc' = [pc EXCEPT ![c] = "left"] /\ gone' = [gone EXCEPT ![c] = TRUE]
      /\ up' = up \/ up' = [up EXCEPT ![c] = Append(@, Token("TERM_LINK"))]
  BY DEF Leave, Killed, Reads, Says
<1>2. /\ Touches(down, down, c) /\ Touches(size, size, c) /\ Touches(got, got, c) /\ Touches(up, up, c)
      /\ Touches(asked, asked, c) /\ Touches(answer, answer, c)
  BY <1>0, Untouched DEF Shape
<1>3. Touches(pc, pc', c) /\ Touches(gone, gone', c)
  BY <1>1 DEF Touches
<1>4. Touches(up, up', c)
  <2>1. CASE up' = up
    BY <1>2, <2>1
  <2>2. CASE up' = [up EXCEPT ![c] = Append(@, Token("TERM_LINK"))]
    BY <2>2, Zenon DEF Touches
  <2> QED
    BY <1>1, <2>1, <2>2
<1>5. pc'[c] = "left" /\ gone' \in [Readers -> BOOLEAN]
  BY <1>0, <1>1 DEF Shape
<1>6. ReaderInv(c)'
  <2>1. asked'[c] \in Seq(Requests)
    BY <1>0, <1>1 DEF ReaderInv
  <2> QED
    BY <1>5, <2>1, LeftReader
<1>7. /\ Touches(down, down', c) /\ Touches(size, size', c) /\ Touches(got, got', c)
      /\ Touches(asked, asked', c) /\ Touches(answer, answer', c)
  BY <1>1, <1>2
<1>8. UNCHANGED <<srvVars, session, open, request, left>> /\ pc'[c] # "new"
  BY <1>1, <1>5
<1> QED
  BY <1>3, <1>4, <1>5, <1>6, <1>7, <1>8, ReaderFrame

(* A connection joins the queue, of which it was no part.                  *)
LEMMA ConnectStep ==
  ASSUME MsInv, NEW c \in Readers, Connect(c)
  PROVE  MsInv'
<1>0. Shape /\ Queue /\ ReaderInv(c) /\ \A d \in Readers : ReaderInv(d)
  BY DEF MsInv
<1>1. /\ pc[c] = "new" /\ asked[c] = <<>> /\ up[c] = <<>> /\ down[c] = <<>>
      /\ session[c] = "none" /\ ~open[c] /\ ~gone[c] /\ asked[c] \in Seq(Requests)
  BY <1>0 DEF Connect, ReaderInv, AtNew
<1>2. UNCHANGED <<alive, server_run, accepting, sock, stop, taken, session, up, down, gone, request, left, size, got, asked, answer>>
  BY DEF Connect
<1>3. \A d \in Readers : d # c => pc'[d] = pc[d] /\ open'[d] = open[d]
  BY <1>0 DEF Connect, Reads, Shape
<1>4. Shape'
  <2>1. pc' = [d \in Readers |-> pc'[d]] /\ open' \in [Readers -> BOOLEAN]
    BY <1>0 DEF Connect, Reads, Shape
  <2> QED
    BY <1>0, <1>2, <2>1 DEF Shape
<1>5. ASSUME NEW d \in Readers, d # c PROVE ReaderInv(d)'
  BY <1>0, <1>2, <1>3, <1>5, OtherReader
<1>6. \A d \in Readers : Waiting(d) => d # c /\ Waiting(d)'
  BY <1>1, <1>2, <1>3 DEF Waiting
<1> DEFINE Awaited(d) == session'[d] = "none" /\ pc'[d] # "new"
<1>7. CASE sock /\ alive
  <2>1. backlog' = Append(backlog, c) /\ pc'[c] = "idle" /\ open'[c]
    BY <1>0, <1>7 DEF Connect, Reads, Shape
  <2>2. Waiting(c)' /\ c # "stop" /\ taken # c
    BY <1>0, <1>1, <1>2, <1>6, <2>1, MsAssumption DEF Waiting, Queue
  <2>3. /\ backlog' \in Seq(Readers \cup {"stop"}) /\ Len(backlog') = Len(backlog) + 1
        /\ \A i \in 1..Len(backlog) : backlog'[i] = backlog[i]
        /\ backlog'[Len(backlog) + 1] = c /\ Len(backlog) \in Nat
    BY <1>0, <2>1 DEF Queue
  <2>4. \A i \in 1..Len(backlog') : i \in 1..Len(backlog) \/ i = Len(backlog) + 1
    BY <2>3
  <2>5. \A i \in 1..Len(backlog) :
          /\ backlog[i] # c
          /\ backlog[i] \in Readers => Awaited(backlog[i]) /\ backlog[i] # taken
          /\ backlog[i] = "stop" => stop # "no"
    <3> SUFFICES ASSUME NEW i \in 1..Len(backlog)
                 PROVE  /\ backlog[i] # c
                        /\ backlog[i] \in Readers => Awaited(backlog[i]) /\ backlog[i] # taken
                        /\ backlog[i] = "stop" => stop # "no"
      OBVIOUS
    <3>1. /\ backlog[i] \in Readers => Waiting(backlog[i]) /\ backlog[i] # taken
          /\ backlog[i] = "stop" => stop # "no"
      BY <1>0 DEF Queue
    <3>2. backlog[i] # c
      BY <1>6, <3>1
    <3>3. backlog[i] \in Readers => Awaited(backlog[i])
      BY <1>6, <3>1 DEF Waiting
    <3> QED
      BY <3>1, <3>2, <3>3
  <2>6. \A i \in 1..Len(backlog') :
          /\ backlog'[i] \in Readers => Awaited(backlog'[i]) /\ backlog'[i] # taken'
          /\ backlog'[i] = "stop" => stop' # "no"
    <3> SUFFICES ASSUME NEW i \in 1..Len(backlog')
                 PROVE  /\ backlog'[i] \in Readers => Awaited(backlog'[i]) /\ backlog'[i] # taken'
                        /\ backlog'[i] = "stop" => stop' # "no"
      OBVIOUS
    <3>1. CASE i \in 1..Len(backlog)
      <4>1. backlog'[i] = backlog[i] /\ taken' = taken /\ stop' = stop
        BY <1>2, <2>3, <3>1
      <4> HIDE DEF Awaited
      <4> QED
        BY <2>5, <3>1, <4>1
    <3>2. CASE i = Len(backlog) + 1
      <4>1. backlog'[i] = c /\ taken' = taken /\ Awaited(c)
        BY <1>2, <2>2, <2>3, <3>2 DEF Waiting
      <4> HIDE DEF Awaited
      <4> QED
        BY <2>2, <4>1
    <3> QED
      BY <2>4, <3>1, <3>2
  <2>7. \A i, j \in 1..Len(backlog') : i # j /\ backlog'[i] = backlog'[j] => backlog'[i] = "stop"
    <3> SUFFICES ASSUME NEW i \in 1..Len(backlog'), NEW j \in 1..Len(backlog'), i # j, backlog'[i] = backlog'[j]
                 PROVE  backlog'[i] = "stop"
      OBVIOUS
    <3>1. CASE i \in 1..Len(backlog) /\ j \in 1..Len(backlog)
      <4>1. backlog[i] = backlog[j] /\ backlog'[i] = backlog[i]
        BY <2>3, <3>1
      <4> QED
        BY <1>0, <3>1, <4>1 DEF Queue
    <3>2. CASE i \in 1..Len(backlog) /\ j = Len(backlog) + 1
      BY <2>3, <2>5, <3>2
    <3>3. CASE j \in 1..Len(backlog) /\ i = Len(backlog) + 1
      BY <2>3, <2>5, <3>3
    <3> QED
      BY <2>4, <3>1, <3>2, <3>3
  <2>8. taken' \in Readers => Awaited(taken')
    BY <1>0, <1>2, <1>6 DEF Queue, Waiting
  <2>9. Queue'
    <3>1. /\ stop' \in {"no", "connected", "done", "raised"} /\ alive' \in BOOLEAN
          /\ server_run' <=> stop' = "no"
          /\ accepting' = "over" => stop' # "no"
          /\ taken' \in Readers \cup {"stop", "none"} /\ backlog' \in Seq(Readers \cup {"stop"})
          /\ accepting' = "took" <=> taken' # "none"
          /\ taken' = "stop" => stop' # "no"
      BY <1>0, <1>2, <2>3 DEF Queue
    <3> QED
      BY <2>6, <2>7, <2>8, <3>1 DEF Queue, Waiting
  <2>10. AtIdle(c)'
    BY <1>1, <1>2, <2>1 DEF AtIdle
  <2>11. ReaderInv(c)'
    BY <1>1, <1>2, <2>1, <2>10, OpenAtIdle
  <2> QED
    BY <1>4, <1>5, <2>9, <2>11 DEF MsInv
<1>8. CASE ~(sock /\ alive)
  <2>1. backlog' = backlog /\ pc'[c] = "raised" /\ ~open'[c] /\ ~gone'[c]
    BY <1>0, <1>1, <1>2, <1>8 DEF Connect, Reads, Shape
  <2>2. Queue'
    BY <1>0, <1>2, <1>6, <2>1 DEF Queue
  <2>3. Closed(c)'
    BY <1>1, <1>2, <2>1 DEF Closed
  <2>4. ReaderInv(c)'
    BY <1>1, <1>2, <2>1, <2>3, RaisedOnly
  <2> QED
    BY <1>4, <1>5, <2>2, <2>4 DEF MsInv
<1> QED
  BY <1>7, <1>8

(* Every step of the manifest server and its readers keeps the invariant.  *)
LEMMA MsInvStep == MsInv /\ [MsNext]_msVars => MsInv'
<1> SUFFICES ASSUME MsInv, [MsNext]_msVars PROVE MsInv'
  OBVIOUS
<1>1. CASE MsNext
  BY <1>1, ServerStep, ServeStep, ConnectStep, GetValuesStep, LeaveStep DEF MsNext
<1>2. CASE UNCHANGED msVars
  <2> USE <1>2 DEF msVars, srvVars, talkVars, wordVars
  <2>0. Shape /\ Queue /\ \A d \in Readers : ReaderInv(d)
    BY DEF MsInv
  <2>1. Shape'
    BY <2>0 DEF Shape
  <2>2. Queue'
    BY <2>0 DEF Queue, Waiting
  <2>3. ASSUME NEW d \in Readers PROVE ReaderInv(d)'
    BY <2>0, OtherReader
  <2> QED
    BY <2>1, <2>2, <2>3 DEF MsInv
<1> QED
  BY <1>1, <1>2

(* Whatever the readers ask, however the streams are cut and whenever the  *)
(* server stops: get_values returns the values of its request, raises only *)
(* with a cause, and reader and session never wait for each other          *)
(* (ManifestServ.py, ManifestRead.py).                                     *)
THEOREM ConversationsAreAlwaysSound == MsSpec => []ConversationsAreSound
<1>1. MsInit => MsInv
  BY MsInitial
<1>2. MsInv /\ [MsNext]_msVars => MsInv'
  BY MsInvStep
<1>3. MsInv => ConversationsAreSound
  BY MsImplies
<1> QED
  BY <1>1, <1>2, <1>3, PTL DEF MsSpec
=============================================================================
