-------------------------- MODULE PersistencyProofs ---------------------------
(***************************************************************************)
(* The two protocols of PersistencyService that work on three files each.  *)
(*                                                                         *)
(* First, the journal keeps what it promised for every set of generations, *)
(* any number of refused calls and power losses, and either outcome of a   *)
(* rename over an existing file.  What the files yield is only meaningful  *)
(* together with where the running operation stands, so the inductive      *)
(* invariant has one conjunct for each operation, describing the files at  *)
(* every label.                                                            *)
(*                                                                         *)
(* Second, and independently, the current-project marker, for every set of *)
(* named projects.  The two are told apart by their specifications: file,  *)
(* calm and pc are the journal's under Spec, the marker's under MarkerSpec.*)
(***************************************************************************)
EXTENDS ProjectFileJournal, ProjectMarkerAlone, TLAPS

D == file["destination"]
B == file["backup"]
T == file["temporary"]

\* What recovery yields if the temporary is dropped.
Installed == IF Intact("destination") THEN D ELSE IF Intact("backup") THEN B ELSE None

OperationOfLabel ==
    /\ pc = "idle" => op = "none"
    /\ pc \in RecoverAt => op \in {"save", "open"}
    /\ pc \in SaveAt => op = "save"
    /\ pc \in OpenAt => op = "open"
    /\ pc \in DiscardAt => op = "discard"
    /\ pc \in {"ok", "failed"} => op # "none"

\* Between operations the ghosts agree with the files.
IdleSettled == pc = "idle" => owed = Outcome /\ attempt = Outcome /\ ~misread

\* Recover has changed nothing that matters, and knows which file it installs.
Recovering ==
    /\ pc \in RecoverAt /\ ~misread => Outcome = owed
    /\ pc \in {"dropStaleTemp", "dropOther"} /\ ~misread => Intact("destination")
    /\ pc \in {"clearDestination", "install"} /\ ~misread =>
          /\ ~Intact("destination") /\ Intact(source)
          /\ source = "temporary" => ~Intact("backup")
    /\ pc = "recovered" /\ ~misread => Intact("destination") \/ owed = None

\* A save owns the temporary; dropping it leaves the old or the new generation.
Saving ==
    /\ pc = "clearTemp" /\ ~misread => Outcome = owed /\ (Intact("destination") \/ owed = None)
    /\ pc \in {"write", "seal", "replace", "clearBackup", "keep"} /\ ~misread =>
          \/ Intact("destination") /\ D \in {owed, attempt}
          \/ ~Intact("destination") /\ ~Intact("backup") /\ owed = None
    /\ pc \in {"write", "seal"} => T \in {None, Invalid}
    /\ pc = "replace" => T = attempt
    /\ pc \in {"clearBackup", "keep", "swap"} => T \in {None, attempt}
    /\ pc \in {"swap", "restore"} /\ ~misread =>
          \/ Intact("backup") /\ B \in {owed, attempt}
          \/ ~Intact("backup") /\ owed = None
    /\ pc = "swap" => D = None
    /\ pc = "restore" => D \in {None, attempt}
    /\ pc = "restore" => T \in {None, attempt}
    /\ pc = "dropTemp" /\ ~misread => Installed \in {owed, attempt} /\ T \in {None, Invalid, attempt}
    /\ pc \in SaveAt => attempt \in Generation
    /\ pc \in RecoverAt /\ op = "save" => attempt \in Generation
    /\ pc = "cleanup" => D = attempt
    /\ pc = "ok" /\ op = "save" => D = attempt /\ attempt \in Generation

\* A load promotes only a backup it has restored, and finalizes only a
\* destination that stands without its siblings.
Opening ==
    /\ pc = "load" /\ ~misread => Outcome = owed
    /\ pc = "rejected" /\ ~misread => Outcome = owed
    /\ pc \in {"promoteClearTemp", "promoteClearDestination", "promote"} =>
          /\ Intact("backup") /\ B = owed
          /\ Intact("destination") => D = attempt
    /\ pc = "promote" => D = None
    /\ pc \in {"finalizeTemp", "finalizeBackup"} =>
          Intact("destination") /\ (~misread => D \in {owed, attempt})

\* Discard peels the journal from the least to the most authoritative file.
Discarding ==
    /\ op = "discard" => attempt = None
    /\ pc = "discardBackup" => T = None
    /\ pc = "discardDestination" => T = None /\ B = None

IInv ==
    /\ TypeOK
    /\ OperationOfLabel
    /\ IdleSettled
    /\ Recovering
    /\ Saving
    /\ Opening
    /\ Discarding
    /\ CommittedGenerationSurvives

-----------------------------------------------------------------------------
(***************************************************************************)
(* What one file system call leaves behind, whether or not it reports it.  *)
(***************************************************************************)
\* DeleteIfPresent touches at most its own path and only goes on to its first
\* label when that path is gone.
LEMMA DeleteEffect ==
    ASSUME TypeOK, NEW p \in Path, NEW yes, NEW no, DeleteIfPresent(p, yes, no)
    PROVE  /\ file' \in [Path -> Content]
           /\ \A q \in Path \ {p} : file'[q] = file[q]
           /\ file'[p] \in {None, file[p]}
           /\ (pc' = yes /\ file'[p] = None) \/ pc' = no
           /\ UNCHANGED <<op, source, owed, attempt, misread, calm>>
  BY DEF TypeOK, DeleteIfPresent, DeleteCall, Delete, Without, Exists, Branch, Goto, frame,
         ghosts, Content

\* MoveOr moves the content whole or leaves both paths alone; reporting success
\* means it moved.
LEMMA MoveEffect ==
    ASSUME TypeOK, NEW p \in Path, NEW q \in Path, p # q, NEW yes, NEW no,
           MoveOr(p, q, yes, no)
    PROVE  /\ file' \in [Path -> Content]
           /\ \A r \in Path \ {p, q} : file'[r] = file[r]
           /\ \/ file'[q] = file[p] /\ file[p] # None /\ file'[p] = None /\ pc' \in {yes, no}
              \/ file'[q] = file[q] /\ file'[p] = file[p] /\ pc' = no
           /\ UNCHANGED <<op, source, owed, attempt, misread, calm>>
  BY DEF TypeOK, MoveOr, MoveCall, Move, Moved, MayRefuse, Exists, Branch, Goto, frame, ghosts,
         Content

\* The first rename of a save, whose failure is told apart by what is left.
LEMMA ReplaceEffect ==
    ASSUME TypeOK, Replace
    PROVE  /\ file' \in [Path -> Content]
           /\ B' = B
           /\ \/ D' = T /\ T # None /\ T' = None
              \/ D' = D /\ T' = T
           /\ \/ pc' = "cleanup" /\ D' = T /\ T # None
              \/ pc' = "dropTemp" /\ D' = None
              \/ pc' = "clearBackup" /\ D' # None
           /\ UNCHANGED <<op, source, owed, attempt, misread, calm>>
  BY DEF TypeOK, Replace, Move, Moved, MayRefuse, Exists, Goto, frame, ghosts, Content, Path, B, D, T

-----------------------------------------------------------------------------
(***************************************************************************)
(* Each operation preserves the inductive invariant.                       *)
(***************************************************************************)
\* Recover rewrites the destination only with the generation recovery owes.
LEMMA RecoverKeepsIInv == ASSUME IInv, Recover PROVE IInv'
<1> USE ContentAssumption DEF IInv, TypeOK, Label, RecoverAt, SaveAt, OpenAt,
        DiscardAt, Path, Content, OperationOfLabel, IdleSettled, Recovering, Saving, Opening,
        Discarding, CommittedGenerationSurvives, Outcome, Installed, Intact, D, B, T
<1>1. CASE Classify
  <2>1. PICK d \in Verdict("destination"), b \in Verdict("backup"), t \in Verdict("temporary") :
          /\ misread' = (\/ misread
                         \/ d # Intact("destination")
                         \/ ~d /\ (b # Intact("backup") \/ t # Intact("temporary")))
          /\ source' = IF b THEN "backup" ELSE "temporary"
          /\ pc' = IF d THEN "dropStaleTemp"
                   ELSE IF b \/ t THEN "clearDestination" ELSE "recovered"
    BY <1>1 DEF Classify, Goto
  <2>2. /\ pc = "recover"
        /\ d \in BOOLEAN /\ b \in BOOLEAN /\ t \in BOOLEAN
        /\ d => Intact("destination")
        /\ UNCHANGED <<file, op, owed, attempt, calm>>
    BY <1>1 DEF Classify, Verdict
  <2>3. CASE d
    BY <2>1, <2>2, <2>3
  <2>4. CASE ~d /\ (b \/ t)
    <3>1. pc' = "clearDestination" /\ source' \in {"temporary", "backup"}
      BY <2>1, <2>4
    <3>2. CASE misread'
      BY <2>1, <2>2, <3>1, <3>2
    <3>3. CASE ~misread'
      <4>1. /\ ~misread /\ ~Intact("destination")
            /\ b = Intact("backup") /\ t = Intact("temporary")
        BY <2>1, <2>2, <2>4, <3>3
      <4>2. Intact(source)' /\ (source' = "temporary" => ~Intact("backup")')
            /\ misread' = FALSE
        BY <2>1, <2>2, <2>4, <3>3, <4>1
      <4> QED BY <2>2, <3>1, <3>3, <4>1, <4>2
    <3> QED BY <3>2, <3>3
  <2>5. CASE ~d /\ ~(b \/ t)
    BY <2>1, <2>2, <2>5
  <2> QED BY <2>2, <2>3, <2>4, <2>5
<1>2. CASE DropStaleTemp
  BY <1>2, DeleteEffect DEF DropStaleTemp
<1>3. CASE ClearDestination
  BY <1>3, DeleteEffect DEF ClearDestination
<1>4. CASE Install
  BY <1>4, MoveEffect DEF Install
<1>5. CASE DropOther
  BY <1>5, DeleteEffect DEF DropOther
<1>6. CASE RecoverReturns
  BY <1>6 DEF RecoverReturns, Goto, frame, ghosts
<1> QED BY <1>1, <1>2, <1>3, <1>4, <1>5, <1>6 DEF Recover

\* A save always leaves the old or the new generation.
LEMMA SaveKeepsIInv == ASSUME IInv, SaveAtomically PROVE IInv'
<1> USE ContentAssumption DEF IInv, TypeOK, Label, RecoverAt, SaveAt, OpenAt,
        DiscardAt, Path, Content, OperationOfLabel, IdleSettled, Recovering, Saving, Opening,
        Discarding, CommittedGenerationSurvives, Outcome, Installed, Intact, D, B, T
<1>1. CASE BeginSave
  BY <1>1 DEF BeginSave, Goto, frame, ghosts, Fresh
<1>2. CASE ClearTemp
  BY <1>2, DeleteEffect DEF ClearTemp
<1>3. CASE Write
  BY <1>3 DEF Write, Goto, frame, ghosts
<1>4. CASE Seal
  BY <1>4 DEF Seal, Goto, frame, ghosts
<1>5. CASE DropTemp
  BY <1>5, DeleteEffect DEF DropTemp
<1>6. CASE Replace
  BY <1>6, ReplaceEffect DEF Replace
<1>7. CASE ClearBackup
  BY <1>7, DeleteEffect DEF ClearBackup
<1>8. CASE Keep
  BY <1>8, MoveEffect DEF Keep
<1>9. CASE Swap
  BY <1>9, MoveEffect DEF Swap
<1>10. CASE Restore
  BY <1>10, MoveEffect DEF Restore
<1>11. CASE Cleanup
  BY <1>11, DeleteEffect DEF Cleanup
<1> QED BY <1>1, <1>2, <1>3, <1>4, <1>5, <1>6, <1>7, <1>8, <1>9, <1>10, <1>11 DEF SaveAtomically

\* A load keeps the destination or the backup it restored.
LEMMA OpenKeepsIInv == ASSUME IInv, OpenProject PROVE IInv'
<1> USE ContentAssumption DEF IInv, TypeOK, Label, RecoverAt, SaveAt, OpenAt,
        DiscardAt, Path, Content, OperationOfLabel, IdleSettled, Recovering, Saving, Opening,
        Discarding, CommittedGenerationSurvives, Outcome, Installed, Intact, D, B, T
<1>1. CASE BeginOpen
  BY <1>1 DEF BeginOpen, Goto, frame, ghosts
<1>2. CASE Load
  BY <1>2 DEF Load, Goto, frame, ghosts
<1>3. CASE Rejected
  BY <1>3 DEF Rejected, Goto, frame, ghosts
<1>4. CASE PromoteClearTemp
  BY <1>4, DeleteEffect DEF PromoteClearTemp
<1>5. CASE PromoteClearDestination
  BY <1>5, DeleteEffect DEF PromoteClearDestination
<1>6. CASE Promote
  BY <1>6, MoveEffect DEF Promote
<1>7. CASE FinalizeTemp
  BY <1>7, DeleteEffect DEF FinalizeTemp
<1>8. CASE FinalizeBackup
  BY <1>8, DeleteEffect DEF FinalizeBackup
<1> QED BY <1>1, <1>2, <1>3, <1>4, <1>5, <1>6, <1>7, <1>8 DEF OpenProject

\* A discard yields the old generation until it yields none.
LEMMA DiscardKeepsIInv == ASSUME IInv, Discard PROVE IInv'
<1> USE ContentAssumption DEF IInv, TypeOK, Label, RecoverAt, SaveAt, OpenAt,
        DiscardAt, Path, Content, OperationOfLabel, IdleSettled, Recovering, Saving, Opening,
        Discarding, CommittedGenerationSurvives, Outcome, Installed, Intact, D, B, T
<1>1. CASE BeginDiscard
  BY <1>1 DEF BeginDiscard, Goto, frame, ghosts
<1>2. CASE DiscardTemp
  BY <1>2, DeleteEffect DEF DiscardTemp
<1>3. CASE DiscardBackup
  BY <1>3, DeleteEffect DEF DiscardBackup
<1>4. CASE DiscardDestination
  BY <1>4, DeleteEffect DEF DiscardDestination
<1> QED BY <1>1, <1>2, <1>3, <1>4 DEF Discard

\* Returning, losing power, rot and the end of faults settle or keep the ghosts.
LEMMA SurroundingKeepsIInv ==
    ASSUME IInv, Return \/ Crash \/ Decay \/ BecomeCalm \/ UNCHANGED vars PROVE IInv'
<1> USE ContentAssumption DEF IInv, TypeOK, Label, RecoverAt, SaveAt, OpenAt,
        DiscardAt, Path, Content, OperationOfLabel, IdleSettled, Recovering, Saving, Opening,
        Discarding, CommittedGenerationSurvives, Outcome, Installed, Intact, D, B, T
<1>1. CASE Return
  BY <1>1 DEF Return, Settle, Goto
<1>2. CASE Crash
  BY <1>2 DEF Crash, Settle, Goto
<1>3. CASE Decay
  BY <1>3 DEF Decay
<1>4. CASE BecomeCalm
  BY <1>4 DEF BecomeCalm, ghosts
<1>5. CASE UNCHANGED vars
  BY <1>5 DEF vars
<1> QED BY <1>1, <1>2, <1>3, <1>4, <1>5

\* The inductive invariant holds in every reachable state.
THEOREM Invariance == Spec => []IInv
<1>1. Init => IInv
  BY ContentAssumption
     DEF Init, IInv, TypeOK, Label, RecoverAt, SaveAt, OpenAt, DiscardAt, Path, Content,
         OperationOfLabel, IdleSettled, Recovering, Saving, Opening, Discarding,
         CommittedGenerationSurvives, Outcome, Intact
<1>2. IInv /\ [Next]_vars => IInv'
  BY RecoverKeepsIInv, SaveKeepsIInv, OpenKeepsIInv, DiscardKeepsIInv, SurroundingKeepsIInv
     DEF Next
<1> QED BY <1>1, <1>2, PTL DEF Spec

-----------------------------------------------------------------------------
\* Every variable keeps its type.
THEOREM TypeCorrect == Spec => []TypeOK
<1>1. IInv => TypeOK
  BY DEF IInv
<1> QED BY <1>1, Invariance, PTL

\* No refused call and no power loss takes the last finished operation's
\* generation away, unless a read error misled Recover.
THEOREM GenerationSurvives == Spec => []CommittedGenerationSurvives
<1>1. IInv => CommittedGenerationSurvives
  BY DEF IInv
<1> QED BY <1>1, Invariance, PTL

\* A save that reports success has installed its own payload.
THEOREM SaveInstalls == Spec => []ReportedSaveIsInstalled
<1>1. IInv => ReportedSaveIsInstalled
  BY DEF IInv, Saving, ReportedSaveIsInstalled, D
<1> QED BY <1>1, Invariance, PTL

\* What stands in for the backup wherever it may be deleted, also after a read
\* error has misled Recover.
StandsIn ==
    /\ pc \in {"clearDestination", "install"} => Intact(source)
    /\ pc = "dropOther" => Intact("destination")
    /\ pc = "clearBackup" => D = attempt \/ T = attempt
    /\ pc = "keep" => B = None

\* What one step does to a valid backup.
BackupGivesWay ==
    Intact("backup") /\ file'["backup"] # file["backup"] /\ op # "discard"
        => Outcome' # None

LEMMA NextStandsIn ==
    ASSUME IInv, StandsIn, Next
    PROVE  StandsIn' /\ BackupGivesWay
<1> USE ContentAssumption DEF IInv, TypeOK, RecoverAt, SaveAt, OpenAt, DiscardAt, Path, Content,
        OperationOfLabel, Saving, Opening, StandsIn, BackupGivesWay, Outcome, Intact, D, B, T
<1>1. CASE Recover
  <2>1. CASE Classify
    <3>1. PICK d \in Verdict("destination"), b \in Verdict("backup"), t \in Verdict("temporary") :
            /\ source' = IF b THEN "backup" ELSE "temporary"
            /\ pc' = IF d THEN "dropStaleTemp"
                     ELSE IF b \/ t THEN "clearDestination" ELSE "recovered"
      BY <2>1 DEF Classify, Goto
    <3>2. (b => Intact("backup")) /\ (t => Intact("temporary")) /\ file' = file
      BY <2>1 DEF Classify, Verdict
    <3> QED BY <3>1, <3>2
  <2>2. CASE DropStaleTemp \/ ClearDestination \/ DropOther
    BY <2>2, DeleteEffect DEF DropStaleTemp, ClearDestination, DropOther
  <2>3. CASE Install
    BY <2>3, MoveEffect DEF Install
  <2>4. CASE RecoverReturns
    BY <2>4 DEF RecoverReturns, Goto
  <2> QED BY <1>1, <2>1, <2>2, <2>3, <2>4 DEF Recover
<1>2. CASE SaveAtomically
  <2>1. CASE BeginSave \/ Write \/ Seal
    BY <2>1 DEF BeginSave, Write, Seal, Goto, frame, ghosts
  <2>2. CASE ClearTemp \/ DropTemp
    BY <2>2, DeleteEffect DEF ClearTemp, DropTemp
  <2>3. CASE Replace
    BY <2>3, ReplaceEffect DEF Replace
  <2>4. CASE ClearBackup \/ Cleanup
    BY <2>4, DeleteEffect DEF ClearBackup, Cleanup
  <2>5. CASE Keep \/ Swap \/ Restore
    BY <2>5, MoveEffect DEF Keep, Swap, Restore
  <2> QED BY <1>2, <2>1, <2>2, <2>3, <2>4, <2>5 DEF SaveAtomically
<1>3. CASE OpenProject
  <2>1. CASE BeginOpen \/ Load \/ Rejected
    BY <2>1 DEF BeginOpen, Load, Rejected, Goto
  <2>2. CASE PromoteClearTemp \/ PromoteClearDestination \/ FinalizeTemp \/ FinalizeBackup
    BY <2>2, DeleteEffect
    DEF PromoteClearTemp, PromoteClearDestination, FinalizeTemp, FinalizeBackup
  <2>3. CASE Promote
    BY <2>3, MoveEffect DEF Promote
  <2> QED BY <1>3, <2>1, <2>2, <2>3 DEF OpenProject
<1>4. CASE Discard
  BY <1>4, DeleteEffect DEF Discard, BeginDiscard, DiscardTemp, DiscardBackup,
     DiscardDestination, Discarding, Goto
<1>5. CASE Return \/ Crash \/ Decay \/ BecomeCalm
  BY <1>5 DEF Return, Crash, Settle, Decay, BecomeCalm, Goto, ghosts
<1> QED BY <1>1, <1>2, <1>3, <1>4, <1>5 DEF Next

\* However often a read error misleads Recover and the medium corrupts what it
\* holds, a valid backup goes only while another valid generation is there.
THEOREM BackupOutlives == Spec => BackupOutlivesDoubt
<1>1. Init => StandsIn
  BY DEF Init, StandsIn
<1>2. IInv /\ StandsIn /\ [Next]_vars => StandsIn'
  <2>1. ASSUME UNCHANGED vars, StandsIn PROVE StandsIn'
    BY <2>1 DEF vars, StandsIn, Intact, D, B, T
  <2> QED BY <2>1, NextStandsIn
<1>3. IInv /\ StandsIn /\ [Next]_vars =>
        [Intact("backup") /\ file'["backup"] # file["backup"] /\ op # "discard"
            => Outcome' # None]_vars
  BY NextStandsIn DEF BackupGivesWay
<1> QED BY <1>1, <1>2, <1>3, Invariance, PTL DEF Spec, BackupOutlivesDoubt

-----------------------------------------------------------------------------
(***************************************************************************)
(* The current-project marker.                                             *)
(***************************************************************************)
USE NameAssumption

Current == file["current"]
StateTemp == file["stateTemp"]
StateBackup == file["stateBackup"]

InSave == pc \in RewriteAt \cup {"saved", "saveFailed"}
InLoad == pc \in LoadAt \cup {"loaded", "loadFailed"}

MarkerType ==
    /\ file \in [Marker -> Name \cup {None, Torn}]
    /\ calm \in BOOLEAN
    /\ pc \in RewriteAt \cup LoadAt \cup Returned \cup {"off", "idle"}
    /\ args \in SaveArgs
    /\ loadable \subseteq Name /\ answer \in Name
    /\ session \in Name
    /\ expected \in Name /\ allowed \subseteq Name

\* The project in use and the one being saved can be opened.
InUse ==
    /\ InSave \/ pc = "idle" => session \in loadable
    /\ InSave => args.name \in loadable
    /\ InSave => args.prev \in {None, session}
    /\ InSave /\ args.retain => args.name = Untitled

\* A save that retains the previous marker goes on only with that marker kept.
RetainedKept ==
    pc \in RewriteAt \ {"saveState"} /\ args.retain /\ args.prev # None
        => StateBackup = args.prev

\* Where the requested name is.  A rename that reports failure may have moved
\* the temporary all the same.
NameCarried ==
    /\ pc = "replaceState" => StateTemp = args.name
    /\ pc \in {"removeCurrent", "compareMarkers", "fallbackRemove", "keepCurrent"} =>
          StateTemp = args.name \/ (StateTemp = None /\ Current = args.name)
    /\ pc \in {"installState", "fallbackInstall", "swapState"} =>
          Current = None /\ StateTemp \in {None, args.name}
    /\ pc = "restoreState" =>
          Current \in {None, args.name} /\ StateTemp \in {None, args.name}
    /\ pc \in {"fallbackRemove", "fallbackInstall"} => StateBackup = args.name
    /\ pc = "keepCurrent" => StateBackup = None
    /\ pc \in {"removeCurrent", "installState"} => args.retain
    /\ args.retain => pc \notin {"fallbackRemove", "fallbackInstall", "keepCurrent",
                                "swapState", "restoreState", "compareMarkers"}
    /\ pc \in {"saved", "cleanStateBackup", "sameDropTemp", "sameDropBackup",
               "sameDropBackupAnyway", "fallbackDropTemp", "dropKept"} =>
          Current = args.name

Good(x) == x \in loadable /\ x \in allowed

\* A save always leaves a marker that may be selected: the current one until it
\* gives way, then the temporary or the backup.
PointerKept ==
    InSave =>
      \/ Name \subseteq allowed
      \/ /\ args.name \in allowed /\ session \in allowed
         /\ args.retain => StateBackup \in allowed \/ StateBackup \notin loadable
         /\ pc \in {"saveState", "clearStateTemp", "writeState", "sealState",
                    "replaceState", "cleanStateBackup", "removeCurrent",
                    "compareMarkers", "sameDropTemp", "sameDropBackup",
                    "sameDropBackupAnyway", "fallbackRemove", "keepCurrent"} =>
               Good(Current)
         /\ pc \in {"swapState", "restoreState"} => Good(StateBackup)
         /\ pc = "dropStateTemp" =>
               \/ Good(Current)
               \/ /\ Current = None /\ Good(StateBackup)
                  /\ StateTemp \in {None, args.name}
         /\ pc = "saveFailed" =>
               \/ Good(Current)
               \/ Current = None /\ StateTemp = args.name
               \/ /\ Current = None /\ StateTemp = None
                  /\ Good(StateBackup) \/ args.retain

\* Of these, in this order, the one that can be opened.
FirstOf(a, b, c) ==
    IF a \in loadable THEN a ELSE IF b \in loadable THEN b
    ELSE IF c \in loadable THEN c ELSE Untitled

\* What a boot that meets no fault knows at each label about the markers it has
\* not tried yet: they lead to the project it has to select.
Selecting ==
    calm =>
      /\ pc # "recoverFromBackup"
      /\ pc = "loadState" => expected = Selected
      /\ pc = "readCurrent" =>
            Current # None /\ expected = FirstOf(Current, StateBackup, StateTemp)
      /\ pc = "dropStale" => answer = expected /\ Current \in loadable
      /\ pc \in {"retryBackup", "installBackup"} =>
            /\ Current \notin loadable /\ StateBackup # None
            /\ expected = FirstOf(StateBackup, StateTemp, None)
      /\ pc \in {"installBackup", "installTemp"} => Current = None
      /\ pc = "rereadBackup" =>
            /\ StateBackup = None /\ Current # None
            /\ expected = FirstOf(Current, StateTemp, None)
      /\ pc \in {"retryTemp", "installTemp"} =>
            /\ Current \notin loadable /\ StateBackup \notin loadable
            /\ expected = FirstOf(StateTemp, None, None)
      /\ pc = "installTemp" => StateTemp # None
      /\ pc = "rereadTemp" =>
            /\ StateTemp = None /\ StateBackup \notin loadable
            /\ expected = FirstOf(Current, None, None)
      /\ pc \in {"giveUp", "giveUpTemp", "fallBack"} =>
            /\ {Current, StateTemp, StateBackup} \cap loadable = {}
            /\ expected = Untitled
      /\ pc = "loaded" => answer = expected
      /\ pc = "loadFailed" => expected = Untitled

\* Such a boot throws away only markers that lead nowhere.
CandidatesAllowed ==
    pc = "off" \/ (calm /\ InLoad) => Candidates \subseteq allowed

MarkerInv ==
    /\ MarkerType /\ InUse /\ RetainedKept /\ NameCarried
    /\ PointerKept /\ Selecting /\ CandidatesAllowed

\* Deleting one of the markers, with or without a look whether it is there.
LEMMA MarkerDeleted ==
    ASSUME MarkerType, NEW p \in Marker, NEW yes, NEW no,
           DropIfPresent(p, yes, no) \/ DeleteOr(p, yes, no)
    PROVE  /\ file' \in [Marker -> Name \cup {None, Torn}]
           /\ \A q \in Marker \ {p} : file'[q] = file[q]
           /\ file'[p] \in {None, file[p]}
           /\ (pc' = yes /\ file'[p] = None) \/ pc' = no
           /\ calm /\ (file[p] # None \/ DropIfPresent(p, yes, no)) =>
                pc' = yes /\ file'[p] = None
           /\ UNCHANGED <<args, loadable, answer, calm>>
  BY DEF MarkerType, DropIfPresent, DeleteOr, DeleteCall,
         Delete, Without, Exists, Branch, Goto,
         markerFrame

\* Renaming one to another.
LEMMA MarkerMoved ==
    ASSUME MarkerType, NEW p \in Marker, NEW q \in Marker,
           p # q, NEW yes, NEW no, RenameOr(p, q, yes, no)
    PROVE  /\ file' \in [Marker -> Name \cup {None, Torn}]
           /\ \A r \in Marker \ {p, q} : file'[r] = file[r]
           /\ \/ file'[q] = file[p] /\ file[p] # None /\ file'[p] = None /\ pc' \in {yes, no}
              \/ file' = file /\ pc' = no
           /\ calm /\ file[p] # None /\ file[q] = None =>
                file'[q] = file[p] /\ file'[p] = None /\ pc' = yes
           /\ UNCHANGED <<args, loadable, answer, calm>>
  BY DEF MarkerType, RenameOr, MoveCall, Move, Moved,
         MayRefuse, Exists, Branch, Goto, markerFrame

\* The rename that replaces the marker, whose failure is told apart by what is left.
LEMMA MarkerReplaced ==
    ASSUME MarkerType, ReplaceState
    PROVE  /\ file' \in [Marker -> Name \cup {None, Torn}]
           /\ StateBackup' = StateBackup
           /\ \/ Current' = StateTemp /\ StateTemp # None /\ StateTemp' = None
              \/ Current' = Current /\ StateTemp' = StateTemp
           /\ \/ pc' = "saved" /\ args.retain /\ Current' = StateTemp /\ StateTemp # None
              \/ pc' = "cleanStateBackup" /\ ~args.retain /\ Current' = StateTemp
                   /\ StateTemp # None
              \/ pc' = "dropStateTemp" /\ Current' = None
              \/ pc' = "removeCurrent" /\ Current' # None /\ args.retain
              \/ pc' = "compareMarkers" /\ Current' # None /\ ~args.retain
              \/ pc' = "keepCurrent" /\ Current' # None /\ StateBackup = None
                   /\ ~args.retain
           /\ UNCHANGED <<args, loadable, answer, calm>>
  BY DEF MarkerType, ReplaceState, Move, Moved, MayRefuse,
         Exists, Goto, markerFrame, Marker, Current, StateTemp,
         StateBackup

\* Which marker is selected.
SelectedNow ==
    IF Current # None THEN FirstOf(Current, StateBackup, StateTemp)
    ELSE FirstOf(StateTemp, StateBackup, None)

\* It is the first one of three that can be opened; a marker that is not there
\* cannot.
LEMMA SelectedIsFirst ==
    /\ MarkerType => Selected = SelectedNow
    /\ MarkerType' => Selected' = SelectedNow'
  <1>1. ASSUME MarkerType PROVE Selected = SelectedNow
    BY <1>1 DEF MarkerType, Selected, SelectedNow, FirstOf,
                Exists, Name, Current, StateTemp, StateBackup
  <1>2. ASSUME MarkerType' PROVE Selected' = SelectedNow'
    BY <1>2 DEF MarkerType, Selected, SelectedNow, FirstOf,
                Exists, Name, Current, StateTemp, StateBackup
  <1> QED BY <1>1, <1>2

\* A rewrite of the marker.
LEMMA RewriteKeeps ==
    ASSUME MarkerInv, SaveProjectState,
           UNCHANGED <<session, expected, allowed>>
    PROVE  MarkerInv'
<1> USE NameAssumption DEF MarkerInv, MarkerType, InSave, InLoad, InUse, RetainedKept,
        NameCarried, PointerKept, Good, Selecting, CandidatesAllowed, Current, StateTemp,
        StateBackup, Marker, RewriteAt, LoadAt, Returned,
        SaveArgs, Name
<1>1. CASE RetainPrevious
  <2>1. MarkerType'
    BY <1>1 DEF RetainPrevious, Goto, Exists, markerFrame
  <2>2. InUse'
    BY <1>1 DEF RetainPrevious, Goto, Exists, markerFrame
  <2>3. RetainedKept'
    BY <1>1 DEF RetainPrevious, Goto, Exists, markerFrame
  <2>4. NameCarried'
    BY <1>1 DEF RetainPrevious, Goto, Exists, markerFrame
  <2>5. PointerKept'
    BY <1>1 DEF RetainPrevious, Goto, Exists, markerFrame
  <2>6. Selecting'
    BY <1>1 DEF RetainPrevious, Goto, Exists, markerFrame
  <2>7. CandidatesAllowed'
    BY <1>1 DEF RetainPrevious, Goto, Exists, markerFrame
  <2> QED BY <2>1, <2>2, <2>3, <2>4, <2>5, <2>6, <2>7
<1>2. CASE ClearStateTemp
  BY <1>2, MarkerDeleted DEF ClearStateTemp
<1>3. CASE WriteState
  BY <1>3 DEF WriteState, Goto, markerFrame
<1>4. CASE SealState
  BY <1>4 DEF SealState, Goto, markerFrame
<1>5. CASE DropStateTemp
  BY <1>5, MarkerDeleted DEF DropStateTemp
<1>6. CASE ReplaceState
  BY <1>6, MarkerReplaced DEF ReplaceState
<1>7. CASE CleanStateBackup
  BY <1>7, MarkerDeleted DEF CleanStateBackup
<1>8. CASE RemoveCurrent
  BY <1>8, MarkerDeleted DEF RemoveCurrent
<1>9. CASE InstallState
  BY <1>9, MarkerMoved DEF InstallState
<1>10. CASE CompareMarkers
  BY <1>10 DEF CompareMarkers, Goto, markerFrame
<1>11. CASE SameDropTemp
  BY <1>11, MarkerDeleted DEF SameDropTemp
<1>12. CASE SameDropBackup
  BY <1>12, MarkerDeleted DEF SameDropBackup
<1>13. CASE SameDropBackupAnyway
  BY <1>13, MarkerDeleted DEF SameDropBackupAnyway
<1>14. CASE FallbackRemove
  BY <1>14, MarkerDeleted DEF FallbackRemove
<1>15. CASE FallbackInstall
  <2>1. MarkerType'
    BY <1>15, MarkerMoved DEF FallbackInstall
  <2>2. InUse'
    BY <1>15, MarkerMoved DEF FallbackInstall
  <2>3. RetainedKept'
    BY <1>15, MarkerMoved DEF FallbackInstall
  <2>4. NameCarried'
    BY <1>15, MarkerMoved DEF FallbackInstall
  <2>5. PointerKept'
    BY <1>15, MarkerMoved DEF FallbackInstall
  <2>6. Selecting'
    <3>1. pc' \in {"fallbackDropTemp", "saveFailed"}
      BY <1>15, MarkerMoved DEF FallbackInstall
    <3> QED BY <3>1
  <2>7. CandidatesAllowed'
    BY <1>15, MarkerMoved DEF FallbackInstall
  <2> QED BY <2>1, <2>2, <2>3, <2>4, <2>5, <2>6, <2>7
<1>16. CASE FallbackDropTemp
  BY <1>16, MarkerDeleted DEF FallbackDropTemp
<1>17. CASE KeepCurrent
  BY <1>17, MarkerMoved DEF KeepCurrent
<1>18. CASE SwapState
  BY <1>18, MarkerMoved DEF SwapState
<1>19. CASE RestoreState
  <2>1. MarkerType'
    BY <1>19, MarkerMoved DEF RestoreState
  <2>2. InUse'
    BY <1>19, MarkerMoved DEF RestoreState
  <2>3. RetainedKept'
    BY <1>19, MarkerMoved DEF RestoreState
  <2>4. NameCarried'
    BY <1>19, MarkerMoved DEF RestoreState
  <2>5. PointerKept'
    BY <1>19, MarkerMoved DEF RestoreState
  <2>6. Selecting'
    <3>1. pc' = "dropStateTemp"
      BY <1>19, MarkerMoved DEF RestoreState
    <3> QED BY <3>1
  <2>7. CandidatesAllowed'
    BY <1>19, MarkerMoved DEF RestoreState
  <2> QED BY <2>1, <2>2, <2>3, <2>4, <2>5, <2>6, <2>7
<1>20. CASE DropKept
  BY <1>20, MarkerDeleted DEF DropKept
<1> QED BY <1>1, <1>2, <1>3, <1>4, <1>5, <1>6, <1>7, <1>8, <1>9, <1>10, <1>11, <1>12,
        <1>13, <1>14, <1>15, <1>16, <1>17, <1>18, <1>19, <1>20 DEF SaveProjectState

\* A boot reads the markers.
LEMMA ReadingKeeps ==
    ASSUME MarkerInv, LoadCurrentProjectName,
           UNCHANGED <<session, expected, allowed>>
    PROVE  MarkerInv'
<1> USE NameAssumption DEF MarkerInv, MarkerType, InSave, InLoad, InUse, RetainedKept,
        NameCarried, PointerKept, Selecting, CandidatesAllowed, Current, StateTemp,
        StateBackup, Candidates, SelectedNow, FirstOf, Marker, RewriteAt,
        LoadAt, Returned, Name
<1>1. CASE LoadState
  BY <1>1, MarkerMoved, SelectedIsFirst DEF LoadState, RenameOr, Goto, Exists, markerFrame
<1>2. CASE SelectExistingUntitled
  BY <1>2, SelectedIsFirst DEF SelectExistingUntitled, Goto, Exists
<1>3. CASE RecoverFromBackup
  BY <1>3, MarkerMoved, SelectedIsFirst DEF RecoverFromBackup
<1>4. CASE ReadCurrent
  BY <1>4, SelectedIsFirst DEF ReadCurrent, ReadValidState, Goto, Exists
<1>5. CASE DropStale
  BY <1>5, MarkerDeleted, SelectedIsFirst DEF DropStale
<1>6. CASE RetryBackup
  BY <1>6, MarkerDeleted, SelectedIsFirst DEF RetryBackup
<1>7. CASE InstallBackup
  BY <1>7, MarkerMoved, SelectedIsFirst DEF InstallBackup
<1>8. CASE RereadBackup
  BY <1>8, SelectedIsFirst DEF RereadBackup, ReadValidState, Goto
<1>9. CASE RetryTemp
  BY <1>9, MarkerDeleted, SelectedIsFirst DEF RetryTemp, Goto, Exists, markerFrame
<1>10. CASE InstallTemp
  BY <1>10, MarkerMoved, SelectedIsFirst DEF InstallTemp
<1>11. CASE RereadTemp
  BY <1>11, SelectedIsFirst DEF RereadTemp, ReadValidState, Goto
<1>12. CASE GiveUp
  BY <1>12, MarkerDeleted, SelectedIsFirst DEF GiveUp
<1>13. CASE GiveUpTemp
  BY <1>13, MarkerDeleted, SelectedIsFirst DEF GiveUpTemp
<1>14. CASE FallBack
  BY <1>14, SelectedIsFirst DEF FallBack, Goto
<1> QED BY <1>1, <1>2, <1>3, <1>4, <1>5, <1>6, <1>7, <1>8, <1>9, <1>10, <1>11, <1>12,
        <1>13, <1>14 DEF LoadCurrentProjectName

\* The callers, and power losses.
LEMMA CallersKeep ==
    ASSUME MarkerInv,
           \/ Boot \/ Booted \/ BeginRewrite \/ Saved
           \/ PowerLoss \/ CreateOrDelete \/ UNCHANGED markerVars
    PROVE  MarkerInv'
<1> USE NameAssumption DEF MarkerInv, MarkerType, InSave, InLoad, InUse, RetainedKept,
        NameCarried, PointerKept, Good, Selecting, CandidatesAllowed, Current, StateTemp,
        StateBackup, Candidates, SelectedNow, FirstOf, Marker, RewriteAt,
        LoadAt, Returned, Name, SaveArgs, Goto
<1>1. CASE Boot
  BY <1>1, SelectedIsFirst DEF Boot
<1>2. CASE Booted
  BY <1>2, SelectedIsFirst DEF Booted
<1>3. CASE BeginRewrite
  BY <1>3, SelectedIsFirst DEF BeginRewrite, Retained
<1>4. CASE Saved
  BY <1>4, SelectedIsFirst DEF Saved
<1>5. CASE PowerLoss
  BY <1>5, SelectedIsFirst DEF PowerLoss
<1>6. CASE CreateOrDelete
  <2>1. /\ pc = "idle" /\ loadable' \subseteq Name /\ session \in loadable'
        /\ allowed' = Candidates'
        /\ UNCHANGED <<file, calm, pc, args, answer, session, expected>>
    BY <1>6 DEF CreateOrDelete
  <2>2. allowed' \subseteq Name
    <3>1. Selected' \in Name
      BY <2>1 DEF Selected
    <3> QED BY <2>1, <3>1
  <2> QED BY <2>1, <2>2
<1>7. CASE UNCHANGED markerVars
  BY <1>7, SelectedIsFirst DEF markerVars
<1> QED BY <1>1, <1>2, <1>3, <1>4, <1>5, <1>6, <1>7

\* The marker's invariant holds in every reachable state.
THEOREM MarkerInvariance == MarkerSpec => []MarkerInv
<1>1. MarkerInit => MarkerInv
  <2> SUFFICES ASSUME MarkerInit PROVE MarkerInv
    OBVIOUS
  <2>1. MarkerType
    BY DEF MarkerType, MarkerInit, Name, SaveArgs
  <2>2. Candidates = {Untitled}
    BY <2>1, SelectedIsFirst
       DEF MarkerInit, Candidates, SelectedNow, FirstOf, Current,
           StateTemp, StateBackup, Marker
  <2> QED BY <2>1, <2>2
          DEF MarkerInv, MarkerInit, InSave, InLoad, InUse, RetainedKept, NameCarried,
              PointerKept, Selecting, CandidatesAllowed, RewriteAt, LoadAt
<1>2. MarkerInv /\ [MarkerNext]_markerVars => MarkerInv'
  BY RewriteKeeps, ReadingKeeps, CallersKeep DEF MarkerNext, Run
<1> QED BY <1>1, <1>2, PTL DEF MarkerSpec

-----------------------------------------------------------------------------
\* A rewrite that reports success has made its project the current one.
THEOREM SaveIsCurrent == MarkerSpec => []SavedIsCurrent
<1>1. MarkerInv => SavedIsCurrent
  BY DEF MarkerInv, NameCarried, SavedIsCurrent, Current
<1> QED BY <1>1, MarkerInvariance, PTL

\* Wherever power is lost in a rewrite, or in a boot that meets no other fault,
\* the next boot selects a project it may select.
THEOREM PointerIsSafe == MarkerSpec => []PointerSurvives
<1>1. MarkerInv => PointerSurvives
  <2> SUFFICES ASSUME MarkerInv PROVE PointerSurvives
    OBVIOUS
  <2>1. MarkerType /\ Selected = SelectedNow
    BY SelectedIsFirst DEF MarkerInv
  <2>2. ASSUME InSave PROVE SelectedNow \in allowed
    BY <2>1, <2>2
       DEF MarkerInv, MarkerType, InSave, InUse, NameCarried, PointerKept,
           Good, SelectedNow, FirstOf, Current, StateTemp, StateBackup, Marker,
           Name, RewriteAt
  <2>3. ASSUME InLoad, calm PROVE Selected \in allowed
    BY <2>3 DEF MarkerInv, CandidatesAllowed, Candidates
  <2> QED BY <2>1, <2>2, <2>3 DEF PointerSurvives, InSave, InLoad
<1> QED BY <1>1, MarkerInvariance, PTL

\* A boot that meets no fault selects the project the markers led to.
THEOREM BootIsHonest == MarkerSpec => []BootHonoursMarkers
<1>1. MarkerInv => BootHonoursMarkers
  BY DEF MarkerInv, Selecting, BootHonoursMarkers
<1> QED BY <1>1, MarkerInvariance, PTL

\* The old marker only gives way once the retained one is on the medium.
THEOREM RetainedFirst == MarkerSpec => RetainedBeforeReplaced
<1>1. MarkerInv /\ [MarkerNext]_markerVars =>
        [(pc \in RewriteAt /\ args.retain /\ args.prev # None
            /\ file'["current"] # file["current"])
          => (args.prev = file["stateBackup"])]_markerVars
  <2> SUFFICES ASSUME MarkerInv, MarkerNext, pc \in RewriteAt, args.retain,
                      args.prev # None, file'["current"] # file["current"]
               PROVE  args.prev = file["stateBackup"]
    BY DEF markerVars
  <2>1. CASE pc = "saveState"
    <3>1. RetainPrevious
      <4> USE DEF DropIfPresent, DeleteOr, RenameOr
      <4>1. ~LoadCurrentProjectName
        BY <2>1 DEF LoadCurrentProjectName, LoadState,
             SelectExistingUntitled, RecoverFromBackup, ReadCurrent,
             DropStale, RetryBackup, InstallBackup,
             RereadBackup, RetryTemp, InstallTemp,
             RereadTemp, GiveUp, GiveUpTemp, FallBack
      <4>2. SaveProjectState => RetainPrevious
        BY <2>1 DEF SaveProjectState, ClearStateTemp, WriteState,
             SealState, DropStateTemp, ReplaceState,
             CleanStateBackup, RemoveCurrent, InstallState,
             CompareMarkers, SameDropTemp, SameDropBackup,
             SameDropBackupAnyway, FallbackRemove, FallbackInstall,
             FallbackDropTemp, KeepCurrent, SwapState,
             RestoreState, DropKept
      <4> QED BY <2>1, <4>1, <4>2
              DEF MarkerNext, Run, Boot, Booted, BeginRewrite,
                  Saved, PowerLoss, CreateOrDelete
    <3>2. file'["current"] = file["current"]
      BY <3>1 DEF RetainPrevious, MarkerInv, MarkerType, Marker
    <3> QED BY <3>2
  <2>2. CASE pc # "saveState"
    BY <2>2 DEF MarkerInv, RetainedKept, StateBackup
  <2> QED BY <2>1, <2>2
<1> QED BY <1>1, MarkerInvariance, PTL DEF MarkerSpec, RetainedBeforeReplaced
=============================================================================
