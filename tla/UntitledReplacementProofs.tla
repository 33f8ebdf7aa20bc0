---------------------- MODULE UntitledReplacementProofs ----------------------
(***************************************************************************)
(* Proofs about UntitledReplacement: the types, the finality of a purge,   *)
(* that the untitled project survives, that a boot that meets no fault     *)
(* comes up, and which project it opens, as long as no run of the phase    *)
(* markers has derailed.                                                   *)
(*                                                                         *)
(* UntitledSurvives is not inductive: whether a step may delete or move a  *)
(* directory depends on what an earlier step of the same operation, or of  *)
(* the one before a power loss, has found and written.  Owed is what any   *)
(* power loss must leave; Stand is what each operation has established at  *)
(* each of its labels, and what a recovery that reports success promises   *)
(* its caller (Settled); Flow is what keeps a durable PURGE ahead of       *)
(* everything else.  Sound is what a boot relies on: that procedures       *)
(* return to callers the session and the transaction agree with (Ready),   *)
(* that the way back to the marker PENDING names stays open (Marked), and  *)
(* where a boot that has met no fault can be (CalmBoot).  Homed, Leads and *)
(* Steered are what decides which project it opens: where the untitled one *)
(* can be opened, what PENDING and the marker files name, and what every   *)
(* rewrite, load, rollback and recovery is about to make them name.        *)
(***************************************************************************)
EXTENDS UntitledReplacement, TLAPS

S == file["staging"]
B == file["stagingBackup"]
C == Has("commit")
P == Has("pending")
U == Has("purge")

Directory == Generation \cup {Gutted, Husk, None}
State == {"current", "stateTemp", "stateBackup"}
Pointer == Name \cup {None, Torn}

\* What each path may hold.
FileType ==
  /\ DOMAIN file = Paths
  /\ \A p \in State : file[p] \in Pointer
  /\ S \in Directory /\ B \in Directory
  /\ file["pending"] \in Pending \cup {None}
  /\ file["commit"] \in {TRUE, None} /\ file["purge"] \in {TRUE, None}

\* Where the procedures may be asked to return to.
RecoverBack == {<<"off", "off">>, <<"loadState", "loadFailed">>, <<"purged", "purged">>,
                <<"begin", "rejectedLoad">>, <<"restoreSession", "restoreSession">>}
RollbackBack == RecoverBack \cup {<<"rolledBack", "failLoad">>}
No == {"off", "loadFailed", "purged", "rejectedLoad", "restoreSession"}
MarkerBack ==
  {<<"off", "off">>, <<"rejectedLoad", "rejectedLoad">>, <<"commitTransaction", "failLoad">>}
  \cup {<<"clearMarkers", no>> : no \in No} \cup {<<"rollbackDrop", no>> : no \in No \cup {"failLoad"}}

BackType ==
  /\ DOMAIN back = {"marker", "recover", "rollback"}
  /\ back["marker"] \in MarkerBack
  /\ back["recover"] \in RecoverBack
  /\ back["rollback"] \in RollbackBack

LocalsType ==
  /\ args \in [name : Name, retain : BOOLEAN, prev : Name \cup {None}]
  /\ load \in [name : Name, create : BOOLEAN, retry : BOOLEAN]
  /\ answer \in Name /\ prior \in Name \cup {None}
  /\ begun \in BOOLEAN /\ had \in BOOLEAN
  /\ stage \in {"first", "last", "user"}

TypeOK ==
  /\ FileType /\ BackType /\ LocalsType
  /\ calm \in BOOLEAN /\ tainted \in BOOLEAN
  /\ session \in Name \cup {None}
  /\ kept \in Generation \cup {None}

PurgeAt == {"purgeStaging", "purgeBackup", "purgeState", "purgeMarkers", "purgeDone"}

\* Where the operation may be while a purge is still to be finished: nothing is
\* loaded before it is, and every failure of it ends at a boot's last resort.
PurgeDueAt == PurgeAt \cup {"off", "dropMarker", "purge", "recover", "purged", "loadFailed",
                           "preflight", "rejectedLoad", "dead"}

\* A purge goes through its stages in order, and a durable PURGE is met by
\* nothing but a purge; a recovery acts on what it has found.
Flow ==
  /\ pc \in {"dropMarker", "purge"} => back["recover"] = <<"purged", "purged">> /\ stage = "first"
  /\ pc \in PurgeAt => U
  /\ pc \in {"purgeState", "purgeMarkers", "purgeDone"} => S = None /\ B = None
  /\ pc = "purgeBackup" => S = None
  /\ pc = "purgeDone" => ~P /\ ~C
  /\ U => /\ pc \in PurgeDueAt
          /\ pc # "off" => stage # "user"
          /\ pc \in PurgeAt \cup {"recover"} => RecoverNo \in {"loadFailed", "rejectedLoad", "purged"}
          /\ pc = "preflight" => load.create /\ load.name = Untitled
  /\ pc = "dropCandidate" => P \/ B # None
  /\ pc = "restorePointer" => P

\* The operation is at one of these places, or rewrites the marker on its way to one.
Rewriting == pc \in Mark!RewriteAt \cup {"saved", "saveFailed"}
At(labels) ==
  pc \in labels \/ (Rewriting /\ {back["marker"][1], back["marker"][2]} \cap labels # {})

Kept(p) == kept # None => kept = file[p]

\* What a power loss at any moment must leave.  As long as nothing is committed,
\* a backup is what counts, and with PENDING for a first untitled project there
\* is nothing to keep.
Owed ==
  /\ kept # None => kept \in {S, B}
  /\ U => kept = None
  /\ ~C => Kept(IF B # None THEN "stagingBackup" ELSE "staging")
  /\ ~C /\ P => file["pending"].had \/ kept = None
  /\ C /\ ~P => pc \in {"clearMarkers", "commitMarkers", "rollbackMarkers", "purgeMarkers"}
  /\ C /\ S = Gutted => pc = "rollbackDrop" \/ U

\* What a recovery that reports success has reached.
Settled == ~U /\ IF P THEN C /\ Validates("staging") ELSE B = None

LoadingAt == {"create", "restore", "rejected", "rolledBack", "tryPrevious", "commitMarker",
              "commitTransaction", "commit", "commitBackup", "commitState", "commitMarkers",
              "opened"}
OpensUntitled == load.name = Untitled

\* What a load relies on, from what the recovery before it has reached.
Loading ==
  /\ pc \in Mark!LoadAt \cup {"loaded", "begin"} => Settled
  /\ pc = "idle" => session # None
  /\ load.create => OpensUntitled
  /\ pc = "preflight" => ~begun
  /\ pc = "preflight" /\ ~load.create /\ OpensUntitled /\ P => Validates("staging")
  /\ At(LoadingAt) \/ (pc = "preflight" /\ ~load.create) =>
        (session = None \/ OpensUntitled => P \/ B = None)
  /\ pc = "moveAside" => P /\ ~C /\ B = None
  /\ pc = "abandon" => ~C
  /\ pc = "create" => ~C /\ Kept("stagingBackup")
  /\ At({"restore", "commitMarker", "commitTransaction", "commit"}) =>
        (begun \/ (OpensUntitled /\ C) => Whole("staging"))
  /\ pc = "commit" => begun \/ (OpensUntitled /\ C)
  /\ pc \in {"commitBackup", "commitState", "commitMarkers"} => Kept("staging")
  /\ pc = "commitBackup" => C
  /\ pc \in {"commitState", "commitMarkers"} => B = None

\* A recovery restores what is not committed; it deletes only what does not count.
Recovering ==
  /\ At({"dropCandidate", "adoptBackup", "restorePointer", "clearMarkers"}) => ~C
  /\ pc = "dropCandidate" /\ B = None => ~file["pending"].had
  /\ At({"restorePointer", "clearMarkers"}) => B = None

\* A rollback deletes only what does not count either.
RollingBack ==
  /\ At({"rollbackDrop", "rollbackRestore"}) =>
        Kept("stagingBackup") /\ (had => Whole("stagingBackup"))
  /\ pc \in {"rollbackState", "rollbackMarkers"} => Kept("staging") /\ B = None
  /\ pc = "rolledBack" => ~P /\ ~C /\ B = None

Stand == Loading /\ Recovering /\ RollingBack

-----------------------------------------------------------------------------
(* The boot.  What a boot that meets no fault relies on is what earlier      *)
(* boots and operations have left, wherever power was lost or a call was     *)
(* refused: Ready says it of the directories, Marked of the marker.          *)

Cur == file["current"]
Temp == file["stateTemp"]
Bak == file["stateBackup"]
Prev == file["pending"].prev

\* What the next recovery takes back, to the project named in PENDING.
Undone == P /\ ~U /\ (~C \/ ~Validates("staging"))
Undoing == Undone /\ Prev # None

\* A plain rewrite of the marker for this project is not a conflict.
Fits(name) == Cur \in {None, name} \/ Bak \in {None, name}

RecoverAt == {"recover", "dropCandidate", "adoptBackup", "restorePointer", "clearMarkers"}
RollbackAt == {"rollbackCommitted", "rollbackDrop", "rollbackRestore", "rollbackState",
               "rollbackMarkers"}

\* Where only a boot comes.
BootReturn == {"loadState", "purged"}
Booting ==
  \/ pc \in Mark!LoadAt \cup {"loaded", "loadFailed", "dropMarker", "purge", "purged", "dead"}
  \/ (At(RecoverAt) \/ pc \in PurgeAt) /\ back["recover"][1] \in BootReturn
  \/ At(RollbackAt) /\ back["rollback"][1] \in BootReturn

\* Procedures return to the one who called them.
Called ==
  /\ Rewriting =>
       /\ back["marker"][1] # "off"
       /\ back["marker"][1] = "clearMarkers" => back["marker"][2] = RecoverNo
       /\ back["marker"][1] = "rollbackDrop" => back["marker"][2] = RollbackNo
  /\ At(RecoverAt) \/ pc \in PurgeAt \cup {"purge", "dropMarker"} => back["recover"][1] # "off"
  /\ At(RollbackAt) => back["rollback"][1] \notin {"off", "restoreSession"}
  /\ Booting => stage # "user"

\* A session is there for the user only, and a transaction it has begun is its own.
Sessions ==
  /\ pc = "off" \/ (stage # "user" /\ pc # "done") => session = None
  /\ P /\ ~C /\ session # None /\ pc # "done" => Prev = session

\* There is something to return to.
Undoable ==
  /\ P /\ ~file["pending"].had => B = None
  /\ P /\ ~C /\ ~U /\ file["pending"].had => S # None \/ B # None

BeginsAt == {"create", "restore", "commitMarker", "commitTransaction", "commit"}

\* What a load has begun.
Beginning ==
  /\ pc = "idle" => ~Undone
  /\ pc = "moveAside" => had /\ S # None /\ file["pending"].had /\ Prev = session
  /\ At(LoadingAt) \/ (pc = "preflight" /\ ~load.create) =>
        (Undoing => begun /\ session = Prev /\ ~C)
  /\ At(BeginsAt) /\ begun /\ had => B # None
  /\ pc \in {"commitBackup", "commitState", "commitMarkers"} /\ P => C /\ Whole("staging")
  /\ OpensUntitled /\ session # None =>
        /\ pc = "preflight" => load.create
        /\ pc \in {"restore", "rejected"} => ~C
  /\ pc \in {"failLoad", "restoreSession"} /\ session # None /\ Undoing => ~C

\* What a recovery or a rollback has found.
Finding ==
  /\ pc = "recover" /\ back["recover"][1] = "restoreSession" => ~C
  /\ pc = "adoptBackup" => S = None /\ B # None
  /\ At(RollbackAt) /\ back["rollback"][1] = "rolledBack" => session = None
  /\ At({"rollbackDrop", "rollbackRestore"}) => C /\ (had \/ B = None)
  /\ pc = "rollbackRestore" => S = None

Ready == Called /\ Sessions /\ Undoable /\ Beginning /\ Finding

RetainAt == {"saveState", "clearStateTemp", "writeState", "sealState", "dropStateTemp",
             "replaceState", "removeCurrent", "installState", "saved", "saveFailed"}

\* Where the requested name is.
NameCarried ==
  /\ pc = "replaceState" => Temp = args.name
  /\ pc \in {"removeCurrent", "compareMarkers", "fallbackRemove", "keepCurrent"} =>
        Temp = args.name \/ (Temp = None /\ Cur = args.name)
  /\ pc \in {"installState", "fallbackInstall", "swapState"} =>
        Cur = None /\ Temp \in {None, args.name}
  /\ pc = "restoreState" => Cur \in {None, args.name} /\ Temp \in {None, args.name}
  /\ pc \in {"fallbackRemove", "fallbackInstall"} => Bak = args.name
  /\ pc = "keepCurrent" => Bak = None
  /\ pc \in {"saved", "cleanStateBackup", "sameDropTemp", "sameDropBackup",
             "sameDropBackupAnyway", "fallbackDropTemp", "dropKept"} => Cur = args.name
  /\ Rewriting /\ args.retain => pc \in RetainAt

\* The way back to the marker that PENDING names stays open.
Rewritten ==
  Rewriting /\ Undoing =>
    IF args.retain
    THEN /\ args.prev = Prev
         /\ pc = "saveState" => Cur = Prev
         /\ pc \notin {"saveState", "saveFailed"} => Bak = Prev
    ELSE args.name = Prev

Pointing ==
  /\ Undoing => Fits(Prev)
  /\ pc = "moveAside" /\ session # None => Cur = session
  /\ pc \in {"create", "restore", "commitMarker"} /\ Undoing => Cur = Prev
  /\ P /\ Prev # None =>
       /\ pc = "rollbackDrop" => Cur = Prev
       /\ Rewriting /\ back["marker"][1] = "rollbackDrop" => args.name = Prev /\ ~args.retain

Marked == NameCarried /\ Rewritten /\ Pointing

\* No place of a boot that meets no fault.
FaultAt == {"saveFailed", "dropStateTemp", "sameDropBackupAnyway", "restoreState",
            "recoverFromBackup", "abandon", "failLoad", "restoreSession", "rejected",
            "rolledBack", "tryPrevious", "rejectedLoad", "dead"}

\* Nothing is there that could be in the way of a new project.
Blank == ~P /\ ~C /\ ~U /\ B = None /\ Cur = None

CalmRewrite ==
  /\ args.retain => args.prev = None
  /\ pc \in {"saveState", "clearStateTemp", "writeState", "sealState", "replaceState",
             "compareMarkers"} => args.retain \/ Fits(args.name)
  /\ pc \in {"replaceState", "removeCurrent", "installState", "compareMarkers",
             "sameDropTemp", "keepCurrent", "swapState"} => Temp # None
  /\ pc \in {"removeCurrent", "compareMarkers", "fallbackRemove", "keepCurrent"} => Cur # None
  /\ pc \in {"compareMarkers", "sameDropTemp", "sameDropBackup", "fallbackRemove",
             "fallbackInstall", "swapState", "dropKept"} => Bak # None

CalmRead ==
  /\ pc = "dropStale" => Cur = answer
  /\ pc \in {"installBackup", "installTemp", "giveUpTemp", "fallBack"} => Cur = None
  /\ pc = "loaded" => Fits(answer)

\* A new project starts from nothing, any other one from a marker that fits it.
CalmWay ==
  /\ pc \in {"moveAside", "create", "restore", "commitMarker"} \/ (pc = "preflight" /\ ~load.create) =>
        Fits(load.name)
  /\ pc \in {"loadFailed", "begin"} \/ (pc = "preflight" /\ load.create) => Blank
  /\ pc \in {"recover", "clearMarkers"} /\ back["recover"][1] = "begin" => Blank
  /\ At({"dropCandidate", "adoptBackup", "restorePointer"}) \/ pc \in PurgeAt
     \/ (Rewriting /\ back["marker"][1] = "clearMarkers") => back["recover"][1] # "begin"
  /\ At(RecoverAt) => back["recover"][1] # "restoreSession"
  /\ At(RollbackAt) => back["rollback"][1] \in BootReturn
  /\ Rewriting => back["marker"][1] # "rejectedLoad"
  /\ pc = "rollbackCommitted" => P /\ C /\ ~Validates("staging")

CalmBoot ==
  calm /\ stage # "user" =>
    pc \notin FaultAt /\ (Rewriting => CalmRewrite) /\ CalmRead /\ CalmWay

Sound == Ready /\ Marked /\ CalmBoot

-----------------------------------------------------------------------------
(* The boot: which project it opens.  Homed says where the untitled project  *)
(* can be opened, Leads what the marker and PENDING lead a boot to, and      *)
(* Steered what each place adds to both.                                     *)

\* The untitled directory that a recovery leaves, and whether it can be opened.
Restored == IF B # None /\ (~P \/ Undone) THEN B ELSE S
Ours == Restored \in Generation \cup {Gutted}
Openable == Named \cup (IF Ours THEN {Untitled} ELSE {})

\* Where the untitled project is named, it is there to be opened.
Homed ==
  /\ P /\ Prev = Untitled => file["pending"].had
  /\ Undone /\ Prev = Untitled => Ours
  /\ stage = "user" /\ pc # "off" /\ ~Undone /\ Cur = Untitled => Ours

\* No claim is made while every project may be opened.
Wide == Name \subseteq due

\* A name that would be opened only where it may be; with none to open, the boot
\* comes to the backup, or to the untitled project.
Harmless(m) == m \in Openable => m \in due
Spare == /\ Harmless(Cur) /\ Harmless(Temp) /\ Harmless(Bak)
         /\ Bak \in Openable \cap due \/ Untitled \in due

\* What a boot finds in the marker files may be opened.
Pick == Cur \in Openable \cap due \/ Spare

\* A recovery that takes back returns to a project that may be opened; otherwise
\* the marker names one, or none of its files names any other.
Leads ==
  ~Wide =>
    /\ ~U /\ (calm \/ stage = "user")
    /\ session # None => session \in due
    /\ Undone => (IF Prev = None THEN Untitled ELSE Prev) \in due
    /\ ~Undone => Pick

\* The rewrites of the marker, by the one who asked for them.
Marking == Rewriting /\ back["marker"][1] = "commitTransaction"
Reverting == Rewriting /\ back["marker"][1] = "rollbackDrop"
Restoring == Rewriting /\ back["marker"][1] = "clearMarkers"

\* A rewrite of the marker asks for a project that may be opened, and that is there
\* unless a recovery comes first.
AtRewrite ==
  Rewriting =>
    /\ Marking => args.name = load.name
    /\ Reverting => args.name = prior
    /\ Restoring => P /\ args.name = Prev
    /\ pc = "removeCurrent" => args.retain
    /\ ~Undone =>
         /\ args.name \in Openable
         /\ stage = "user" /\ pc \in {"swapState", "restoreState"} => (Bak = Untitled => Ours)
         /\ ~Wide => /\ args.name \in due /\ ~args.retain
                     /\ pc \in {"swapState", "restoreState"} => Spare

OpenedAt == {"restore", "commitMarker", "commitTransaction", "commit", "commitBackup",
             "commitState", "commitMarkers", "opened"}
CommittedAt == {"commitBackup", "commitState", "commitMarkers", "opened"}

\* On the way to BeginStagingProjectReplacement_, or in it.
Creates ==
  \/ pc \in {"begin", "moveAside"}
  \/ (pc \in RecoverAt \cup PurgeAt \/ Restoring) /\ back["recover"][1] = "begin"
  \/ (pc \in RollbackAt \/ Reverting) /\ back["rollback"][1] = "begin"

\* What is loaded may be opened, and what a replacement has begun is its own.
AtLoad ==
  /\ Creates => load.create
  /\ pc = "off" => ~load.create
  /\ pc \in {"create", "commitBackup", "commitState", "commitMarkers"} => OpensUntitled
  /\ OpensUntitled /\ (pc \in OpenedAt \/ Marking) => Validates("staging")
  /\ pc \in BeginsAt \/ Marking =>
       /\ begun = load.create
       /\ begun => P /\ ~C /\ had = file["pending"].had
  /\ pc \in {"commitTransaction", "commit"} \cup CommittedAt => Cur = load.name
  /\ ~Wide =>
       /\ load.create /\ stage # "user" => Untitled \in due
       /\ pc \in BeginsAt \/ Marking \/ (pc = "preflight" /\ ~load.create) =>
            /\ Undone => begun
            /\ ~begun => load.name \in due
       /\ pc \in CommittedAt => load.name \in due

\* The project in use is the one the marker names, and it is there to be opened.
AtSession ==
  /\ stage = "user" /\ session = None => pc \in {"off", "rejectedLoad", "failed"}
  /\ pc = "failed" => stage = "user"
  /\ stage = "user" /\ session = Untitled /\ ~Undone =>
       \/ Ours
       \/ /\ pc \notin LoadingAt \cup {"preflight", "failLoad", "restoreSession"} /\ ~Marking
          /\ pc \in RecoverAt => back["recover"][1] # "restoreSession"
  /\ pc = "idle" => Cur = session
  /\ pc = "abandon" /\ session # None => Cur = session
  /\ pc = "done" => /\ session # None /\ Cur = session
                    /\ session = Untitled => Validates("staging") /\ (P \/ B = None)

TakesBackAt == {"rollbackDrop", "rollbackRestore", "rollbackState", "rollbackMarkers"}

\* A rollback rewrites the marker before it touches the directories.
AtRollback ==
  /\ pc \in {"rollbackDrop", "rollbackRestore", "rollbackState"} \/ Reverting =>
       P /\ prior = Prev /\ had = file["pending"].had
  /\ pc \in TakesBackAt /\ prior # None => Cur = prior
  /\ pc = "rollbackMarkers" => Cur = prior
  /\ pc \in {"rollbackState", "rollbackMarkers"} /\ prior = Untitled => Validates("staging")
  /\ pc \in TakesBackAt \/ Reverting => Wide \/ (prior # None /\ prior \in due)

\* A recovery forgets PENDING only after the marker names the previous project.
AtRecover ==
  /\ pc = "clearMarkers" /\ P =>
       IF Prev = None THEN Cur = None /\ Temp = None /\ Bak = None ELSE Cur = Prev
  /\ pc \in {"dropMarker", "purge"} => Wide
  /\ pc = "loadFailed" => Wide \/ Untitled \in due

\* What reading the marker has passed over could not be opened.
AtRead ==
  ~Wide =>
    /\ pc \in {"dropStale", "loaded"} => answer \in due
    /\ pc \in {"retryBackup", "retryTemp", "giveUp"} => Cur \notin Openable
    /\ pc = "rereadBackup" => Bak = None
    /\ pc = "rereadTemp" => Temp = None
    /\ pc \in {"retryTemp", "installTemp", "rereadTemp", "giveUp", "giveUpTemp", "fallBack"} =>
         Bak \notin Openable
    /\ pc \in {"giveUp", "giveUpTemp", "fallBack"} => Temp \notin Openable

Steered == AtRewrite /\ AtLoad /\ AtSession /\ AtRollback /\ AtRecover /\ AtRead

USE DirectoryAssumption, ReplacementAssumption

-----------------------------------------------------------------------------
(* The marker procedures touch the three files of the marker only. *)

OnlyState ==
  /\ DOMAIN file' = Paths
  /\ \A p \in State : file'[p] \in Pointer
  /\ \A p \in Paths \ State : file'[p] = file[p]

\* Each of the marker's file system calls.
LEMMA MarkerCalls ==
  ASSUME FileType, NEW p \in State, NEW q \in State, p # q, NEW yes, NEW no,
         \/ Mark!DropIfPresent(p, yes, no) \/ Mark!DeleteOr(p, yes, no)
         \/ Mark!RenameOr(p, q, yes, no)
  PROVE  OnlyState /\ pc' \in {yes, no} /\ UNCHANGED <<args, answer>>
  <1>1. CASE Mark!DropIfPresent(p, yes, no) \/ Mark!DeleteOr(p, yes, no)
    BY <1>1 DEF Mark!DropIfPresent, Mark!DeleteOr, Mark!DeleteCall, Mark!Delete, Mark!Branch,
       Mark!Goto, Mark!Without, Mark!markerFrame, OnlyState, FileType, State, Pointer, Paths
  <1>2. CASE Mark!RenameOr(p, q, yes, no)
    BY <1>2 DEF Mark!RenameOr, Mark!MoveCall, Mark!Move, Mark!Moved, Mark!Branch,
       Mark!Goto, Mark!markerFrame, OnlyState, FileType, State, Pointer, Paths
  <1> QED BY <1>1, <1>2

RewriteAt == Mark!RewriteAt
ReadAt == Mark!LoadAt

\* A rewrite goes on with the rewrite or ends.
LEMMA RewriteEffect ==
  ASSUME TypeOK, Mark!SaveProjectState
  PROVE  /\ OnlyState /\ UNCHANGED <<args, answer>>
         /\ pc \in RewriteAt /\ pc' \in RewriteAt \cup {"saved", "saveFailed"}
  <1> USE DEF TypeOK, LocalsType, RewriteAt, Mark!RewriteAt
  <1>1. "current" \in State /\ "stateTemp" \in State /\ "stateBackup" \in State
    BY DEF State
  <1>2. CASE Mark!RetainPrevious \/ Mark!WriteState \/ Mark!SealState \/ Mark!CompareMarkers
    BY <1>2 DEF Mark!RetainPrevious, Mark!WriteState, Mark!SealState, Mark!CompareMarkers,
       Mark!Goto, Mark!markerFrame, OnlyState, FileType, State, Pointer, Paths
  <1>3. CASE Mark!ReplaceState
    BY <1>3 DEF Mark!ReplaceState, Mark!Move, Mark!Moved,
       Mark!Goto, Mark!markerFrame, OnlyState, FileType, State, Pointer, Paths
  <1>4. CASE \/ Mark!ClearStateTemp \/ Mark!DropStateTemp \/ Mark!CleanStateBackup
             \/ Mark!RemoveCurrent \/ Mark!SameDropTemp \/ Mark!SameDropBackup
             \/ Mark!SameDropBackupAnyway \/ Mark!FallbackRemove \/ Mark!FallbackDropTemp
             \/ Mark!DropKept
    BY <1>1, <1>4, MarkerCalls DEF Mark!ClearStateTemp, Mark!DropStateTemp,
       Mark!CleanStateBackup, Mark!RemoveCurrent, Mark!SameDropTemp, Mark!SameDropBackup,
       Mark!SameDropBackupAnyway, Mark!FallbackRemove, Mark!FallbackDropTemp, Mark!DropKept
  <1>5. CASE \/ Mark!InstallState \/ Mark!FallbackInstall \/ Mark!KeepCurrent
             \/ Mark!SwapState \/ Mark!RestoreState
    BY <1>1, <1>5, MarkerCalls DEF Mark!InstallState, Mark!FallbackInstall,
       Mark!KeepCurrent, Mark!SwapState, Mark!RestoreState
  <1> QED BY <1>2, <1>3, <1>4, <1>5 DEF Mark!SaveProjectState

\* Reading goes on with reading or ends, with the name of a project.
LEMMA ReadEffect ==
  ASSUME TypeOK, Mark!LoadCurrentProjectName
  PROVE  /\ OnlyState /\ args' = args /\ answer' \in Name
         /\ pc \in ReadAt /\ pc' \in ReadAt \cup {"loaded", "loadFailed"}
  <1> USE DEF TypeOK, LocalsType, ReadAt, Mark!LoadAt
  <1>1. "current" \in State /\ "stateTemp" \in State /\ "stateBackup" \in State
    BY DEF State
  <1>2. Loadable \subseteq Name
    BY DEF Loadable, Name
  <1>3. CASE Mark!LoadState
    BY <1>3 DEF Mark!LoadState, Mark!MoveCall, Mark!Move, Mark!Moved, Mark!Branch,
       Mark!Goto, Mark!markerFrame, OnlyState, FileType, State, Pointer, Paths
  <1>4. CASE Mark!SelectExistingUntitled \/ Mark!FallBack
    BY <1>4 DEF Mark!SelectExistingUntitled, Mark!FallBack, Mark!Goto, OnlyState, FileType,
       State, Paths, Name
  <1>5. CASE Mark!ReadCurrent \/ Mark!RereadBackup \/ Mark!RereadTemp
    BY <1>2, <1>5 DEF Mark!ReadCurrent, Mark!RereadBackup, Mark!RereadTemp,
       Mark!ReadValidState, Mark!Goto, OnlyState, FileType, State, Paths
  <1>6. CASE \/ Mark!DropStale \/ Mark!RetryBackup \/ Mark!GiveUp \/ Mark!GiveUpTemp
    BY <1>1, <1>6, MarkerCalls DEF Mark!DropStale, Mark!RetryBackup, Mark!GiveUp,
       Mark!GiveUpTemp
  <1>7. CASE Mark!RecoverFromBackup \/ Mark!InstallBackup \/ Mark!InstallTemp
    BY <1>1, <1>7, MarkerCalls DEF Mark!RecoverFromBackup, Mark!InstallBackup,
       Mark!InstallTemp
  <1>8. CASE Mark!RetryTemp
    <2>1. CASE Mark!DropIfPresent("current", "installTemp", "giveUp")
      BY <1>1, <1>8, <2>1, MarkerCalls DEF Mark!RetryTemp
    <2>2. CASE ~Mark!DropIfPresent("current", "installTemp", "giveUp")
      BY <1>8, <2>2 DEF Mark!RetryTemp, Mark!Goto, Mark!markerFrame, OnlyState, FileType,
         State, Paths
    <2> QED BY <2>1, <2>2
  <1> QED BY <1>3, <1>4, <1>5, <1>6, <1>7, <1>8 DEF Mark!LoadCurrentProjectName

-----------------------------------------------------------------------------
(* What the other file system calls do. *)

Others(p) == DOMAIN file' = Paths /\ \A q \in Paths \ {p} : file'[q] = file[q]

LEMMA DeleteEffect ==
  ASSUME FileType, NEW p \in Paths, NEW yes, NEW no, DeleteCall(p, yes, no)
  PROVE  /\ Others(p) /\ file'[p] \in {file[p], None}
         /\ (pc' = yes /\ file'[p] = None) \/ pc' = no
  BY DEF DeleteCall, Delete, Without, Exists, Branch, Goto, Others, FileType

\* A directory loses its entries one by one before it goes.
LEMMA DropEffect ==
  ASSUME FileType, NEW p \in {"staging", "stagingBackup"}, NEW yes, NEW no,
         DeleteProject(p, yes, no)
  PROVE  /\ Others(p) /\ file'[p] \in {file[p], Gutted, Husk, None}
         /\ \/ pc' = pc
            \/ pc' = yes /\ file'[p] = None
            \/ pc' = no /\ file' = file
  BY DEF DeleteProject, Without, Goto, Others, FileType, Paths

LEMMA MoveEffect ==
  ASSUME FileType, NEW p \in {"staging", "stagingBackup"},
         NEW q \in {"staging", "stagingBackup"}, p # q, NEW yes, NEW no,
         MoveCall(p, q, yes, no)
  PROVE  /\ DOMAIN file' = Paths
         /\ \A r \in Paths \ {p, q} : file'[r] = file[r]
         /\ \/ /\ file[p] # None /\ file'[q] = file[p] /\ file'[p] = None
               /\ pc' \in {yes, no}
            \/ file' = file /\ pc' = no
  BY DEF MoveCall, Move, Moved, Exists, Branch, Goto, FileType, Paths

\* PENDING is deleted before COMMITTED.
LEMMA ClearMarkersEffect ==
  ASSUME FileType, NEW yes, NEW no, ClearMarkers(yes, no)
  PROVE  /\ DOMAIN file' = Paths
         /\ \A q \in Paths \ {"pending", "commit"} : file'[q] = file[q]
         /\ \/ pc' = yes /\ file' = file /\ ~P /\ ~C
            \/ /\ P /\ pc' \in {pc, no} /\ file'["commit"] = file["commit"]
               /\ file'["pending"] \in {file["pending"], None}
            \/ /\ ~P /\ C /\ pc' \in {pc, no} /\ file'["pending"] = file["pending"]
               /\ file'["commit"] \in {file["commit"], None}
  <1> DEFINE files == <<"pending", "commit">>
  <1>1. DOMAIN files = 1..2 /\ files[1] = "pending" /\ files[2] = "commit"
    OBVIOUS
  <1>2. CASE (\A i \in DOMAIN files : ~Exists(files[i])) /\ file' = file /\ Goto(yes)
    BY <1>1, <1>2 DEF Exists, Goto, FileType, Has, P, C
  <1>3. ASSUME NEW i \in DOMAIN files, NEW done \in BOOLEAN, Exists(files[i]),
               \A j \in 1..i - 1 : ~Exists(files[j]),
               Delete(files[i], done), Branch(done, pc, no)
        PROVE  /\ DOMAIN file' = Paths
               /\ \A q \in Paths \ {"pending", "commit"} : file'[q] = file[q]
               /\ \/ /\ P /\ pc' \in {pc, no} /\ file'["commit"] = file["commit"]
                     /\ file'["pending"] \in {file["pending"], None}
                  \/ /\ ~P /\ C /\ pc' \in {pc, no} /\ file'["pending"] = file["pending"]
                     /\ file'["commit"] \in {file["commit"], None}
    <2>1. pc' \in {pc, no} /\ (file' = file \/ file' = Without(files[i]))
      BY <1>3 DEF Delete, Branch, Goto
    <2>2. CASE i = 1
      BY <1>1, <1>3, <2>1, <2>2 DEF Exists, Without, FileType, Paths, Has, P, C
    <2>3. CASE i = 2
      <3>1. 1 \in 1..i - 1
        BY <2>3
      <3> QED BY <1>1, <1>3, <2>1, <2>3, <3>1 DEF Exists, Without, FileType, Paths, Has, P, C
    <2> QED BY <1>1, <2>2, <2>3
  <1> QED BY <1>2, <1>3 DEF ClearMarkers, DeleteEach

LEMMA ClearStateEffect ==
  ASSUME FileType, NEW yes, NEW no, ClearState(yes, no)
  PROVE  OnlyState /\ pc' \in {pc, yes, no}
  <1> DEFINE files == <<"current", "stateTemp", "stateBackup">>
  <1>1. DOMAIN files = 1..3 /\ \A i \in 1..3 : files[i] \in State
    BY DEF State
  <1>2. file' = file \/ \E i \in DOMAIN files : file' = Without(files[i])
    BY DEF ClearState, DeleteEach, Delete
  <1>3. pc' \in {pc, yes, no}
    BY DEF ClearState, DeleteEach, Branch, Goto
  <1>4. OnlyState
    BY <1>1, <1>2 DEF Without, OnlyState, FileType, State, Pointer, Paths
  <1> QED BY <1>3, <1>4

\* A marker that could not be written may be there all the same.
LEMMA WriteEffect ==
  ASSUME FileType, NEW m \in Paths, NEW contents, NEW yes, NEW no,
         WriteMarker(m, contents, yes, no)
  PROVE  /\ Others(m)
         /\ \/ pc' = yes /\ ~Has(m) /\ file'[m] = contents
            \/ pc' = no /\ (file' = file \/ (~Has(m) /\ file'[m] = contents))
  BY DEF WriteMarker, Has, Goto, Others, FileType

-----------------------------------------------------------------------------
(* Types. *)

LEMMA Unmoved ==
  ASSUME TypeOK
  PROVE  /\ file' = file => FileType'
         /\ back' = back => BackType'
         /\ UNCHANGED locals => BackType' /\ LocalsType'
  <1>1. ASSUME file' = file PROVE FileType'
    BY <1>1 DEF TypeOK, FileType, S, B
  <1>2. ASSUME back' = back PROVE BackType'
    BY <1>2 DEF TypeOK, BackType
  <1>3. ASSUME UNCHANGED locals PROVE LocalsType'
    BY <1>3 DEF TypeOK, LocalsType, locals
  <1> QED BY <1>1, <1>2, <1>3 DEF locals

LEMMA BackEffect ==
  ASSUME BackType
  PROVE  /\ RecoverNo \in No /\ RollbackNo \in No \cup {"failLoad"}
         /\ \A proc \in DOMAIN back : \A ok, no :
              back' = Call(proc, ok, no) =>
                /\ DOMAIN back' = {"marker", "recover", "rollback"}
                /\ back'[proc] = <<ok, no>>
                /\ \A other \in DOMAIN back \ {proc} : back'[other] = back[other]
  BY DEF BackType, RecoverNo, RollbackNo, RecoverBack, RollbackBack, No, Call

LEMMA SaveProjectStateEffect ==
  ASSUME TypeOK, NEW name \in Name, NEW retain \in BOOLEAN, NEW prev \in Name \cup {None},
         NEW ok, NEW no, <<ok, no>> \in MarkerBack, SaveProjectState(name, retain, prev, ok, no)
  PROVE  /\ pc' = "saveState" /\ file' = file
         /\ back'["marker"] = <<ok, no>>
         /\ \A other \in {"recover", "rollback"} : back'[other] = back[other]
         /\ BackType'
         /\ args' \in [name : Name, retain : BOOLEAN, prev : Name \cup {None}]
         /\ UNCHANGED <<answer, load, begun, had, prior, stage, session, kept>>
  <1>1. DOMAIN back = {"marker", "recover", "rollback"} /\ back' = Call("marker", ok, no)
    BY DEF TypeOK, BackType, SaveProjectState
  <1>2. /\ DOMAIN back' = {"marker", "recover", "rollback"}
        /\ back'["marker"] = <<ok, no>>
        /\ \A other \in {"recover", "rollback"} : back'[other] = back[other]
    BY <1>1, BackEffect DEF TypeOK
  <1> QED BY <1>1, <1>2 DEF TypeOK, BackType, SaveProjectState, Goto

LEMMA RecoverTypes ==
  ASSUME TypeOK, Flow, RecoverStaging
  PROVE  FileType' /\ BackType' /\ LocalsType' /\ UNCHANGED <<session, kept>>
  <1> USE DEF TypeOK
  <1>1. CASE Recover
    <2>1. FileType' /\ LocalsType' /\ UNCHANGED <<session, kept>>
      BY <1>1 DEF Recover, FileType, LocalsType, Has, S, B
    <2>2. CASE back' = back
      BY <2>1, <2>2 DEF BackType
    <2>3. CASE back' # back
      <3>1. back' = Call("rollback", back["recover"][1], back["recover"][2])
        BY <1>1, <2>3 DEF Recover
      <3>2. <<back["recover"][1], back["recover"][2]>> \in RollbackBack
        BY DEF BackType, RecoverBack, RollbackBack
      <3> QED BY <2>1, <3>1, <3>2, BackEffect DEF BackType
    <2> QED BY <2>2, <2>3
  <1>2. CASE DropCandidate
    <2>1. FileType'
      BY <1>2, DropEffect DEF DropCandidate, Then, FileType, Others, Directory, Paths, S, B,
         State
    <2> QED BY <1>2, <2>1 DEF DropCandidate, Then, locals, BackType, LocalsType
  <1>3. CASE AdoptBackup
    <2>1. FileType'
      BY <1>3, MoveEffect DEF AdoptBackup, Then, FileType, Directory, Paths, S, B, State
    <2> QED BY <1>3, <2>1 DEF AdoptBackup, Then, locals, BackType, LocalsType
  <1>4. CASE RestorePointer
    <2>1. CASE file["pending"].prev # None /\
               SaveProjectState(file["pending"].prev, FALSE, None, "clearMarkers", RecoverNo)
      <3>1. <<"clearMarkers", RecoverNo>> \in MarkerBack
        BY BackEffect DEF MarkerBack
      <3>2. file["pending"].prev \in Name
        BY <1>4, <2>1 DEF RestorePointer, Flow, P, Has, FileType, Pending
      <3>3. FALSE \in BOOLEAN /\ None \in Name \cup {None}
        OBVIOUS
      <3>4. /\ file' = file /\ BackType'
            /\ args' \in [name : Name, retain : BOOLEAN, prev : Name \cup {None}]
            /\ UNCHANGED <<answer, load, begun, had, prior, stage, session, kept>>
        BY <2>1, <3>1, <3>2, <3>3, SaveProjectStateEffect
      <3> QED BY <3>4 DEF FileType, LocalsType, S, B
    <2>2. CASE Then(ClearState("clearMarkers", RecoverNo))
      <3>1. FileType'
        BY <2>2, ClearStateEffect DEF Then, OnlyState, FileType, Paths, State, S, B
      <3> QED BY <2>2, <3>1 DEF Then, locals, BackType, LocalsType
    <2> QED BY <1>4, <2>1, <2>2 DEF RestorePointer
  <1>5. CASE ClearPhase
    <2>1. FileType'
      BY <1>5, ClearMarkersEffect DEF ClearPhase, Then, FileType, Paths, State, S, B
    <2> QED BY <1>5, <2>1 DEF ClearPhase, Then, locals, BackType, LocalsType
  <1> QED BY <1>1, <1>2, <1>3, <1>4, <1>5 DEF RecoverStaging

LEMMA PurgeTypes ==
  ASSUME TypeOK, Purge
  PROVE  FileType' /\ BackType' /\ LocalsType' /\ session' = session /\ kept' \in {kept, None}
  <1> USE DEF TypeOK
  <1>1. CASE BeginPurge
    <2>1. FileType' /\ kept' \in {kept, None}
      <3>1. CASE WriteMarker("purge", TRUE, "purgeStaging", RecoverNo)
        <4>1. "purge" \in Paths
          BY DEF Paths
        <4> QED BY <1>1, <3>1, <4>1, WriteEffect
              DEF BeginPurge, Others, FileType, Paths, State, S, B
      <3>2. CASE file' = file
        BY <1>1, <3>2 DEF BeginPurge, FileType, S, B
      <3> QED BY <1>1, <3>1, <3>2 DEF BeginPurge
    <2> QED BY <1>1, <2>1 DEF BeginPurge, locals, BackType, LocalsType
  <1>2. CASE PurgeStaging \/ PurgeBackup
    <2>1. FileType'
      <3>1. CASE file' = file
        BY <3>1 DEF FileType, S, B
      <3>2. CASE \E p \in {"staging", "stagingBackup"}, yes \in {"purgeBackup", "purgeState"} :
                   DeleteProject(p, yes, RecoverNo)
        BY <3>2, DropEffect DEF FileType, Others, Directory, Paths, S, B, State
      <3> QED BY <1>2, <3>1, <3>2 DEF PurgeStaging, PurgeBackup, Then, Decide
    <2> QED BY <1>2, <2>1
          DEF PurgeStaging, PurgeBackup, Then, Decide, locals, BackType, LocalsType
  <1>3. CASE PurgeState
    <2>1. FileType'
      BY <1>3, ClearStateEffect DEF PurgeState, Then, OnlyState, FileType, Paths, State, S, B
    <2> QED BY <1>3, <2>1 DEF PurgeState, Then, locals, BackType, LocalsType
  <1>4. CASE PurgeMarkers
    <2>1. FileType'
      BY <1>4, ClearMarkersEffect DEF PurgeMarkers, Then, FileType, Paths, State, S, B
    <2> QED BY <1>4, <2>1 DEF PurgeMarkers, Then, locals, BackType, LocalsType
  <1>5. CASE PurgeDone
    <2>1. FileType'
      <3>1. "purge" \in Paths
        BY DEF Paths
      <3> QED BY <1>5, <3>1, DeleteEffect DEF PurgeDone, Then, Others, FileType, Paths, State, S, B
    <2> QED BY <1>5, <2>1 DEF PurgeDone, Then, locals, BackType, LocalsType
  <1> QED BY <1>1, <1>2, <1>3, <1>4, <1>5 DEF Purge

LEMMA RollbackTypes ==
  ASSUME TypeOK, Rollback
  PROVE  /\ FileType' /\ BackType' /\ LocalsType' /\ session' = session
         /\ kept' \in {kept, None, B} /\ kept' \in Generation \cup {None}
  <1> USE DEF TypeOK
  <1>1. CASE RollbackCommitted
    <2>1. FileType' /\ session' = session /\ kept' \in {kept, None, B}
          /\ kept' \in Generation \cup {None}
      BY <1>1 DEF RollbackCommitted, FileType, S, B, Whole
    <2>2. CASE back' = back /\ args' = args /\ prior' = prior /\ had' = had
      BY <1>1, <2>1, <2>2 DEF RollbackCommitted, BackType, LocalsType
    <2>3. CASE Has("pending") /\ prior' = file["pending"].prev /\ had' = file["pending"].had
               /\ (\/ prior' # None /\ back' = Call("marker", "rollbackDrop", RollbackNo)
                     /\ args' = [name |-> prior', retain |-> FALSE, prev |-> None]
                   \/ UNCHANGED <<args, back>>)
      <3>1. prior' \in Name \cup {None} /\ had' \in BOOLEAN
        BY <2>3 DEF FileType, Pending, Has
      <3>2. BackType'
        <4>1. <<"rollbackDrop", RollbackNo>> \in MarkerBack
          BY BackEffect DEF MarkerBack
        <4>2. CASE back' = Call("marker", "rollbackDrop", RollbackNo)
          BY <4>1, <4>2, BackEffect DEF BackType
        <4>3. CASE back' = back
          BY <4>3 DEF BackType
        <4> QED BY <2>3, <4>2, <4>3
      <3>3. LocalsType'
        <4>1. args' \in [name : Name, retain : BOOLEAN, prev : Name \cup {None}]
          <5>1. CASE args' = args
            BY <5>1 DEF LocalsType
          <5>2. CASE args' = [name |-> prior', retain |-> FALSE, prev |-> None] /\ prior' # None
            BY <3>1, <5>2
          <5> QED BY <2>3, <5>1, <5>2
        <4> QED BY <1>1, <3>1, <4>1 DEF RollbackCommitted, LocalsType
      <3> QED BY <2>1, <3>2, <3>3
    <2> QED BY <1>1, <2>2, <2>3 DEF RollbackCommitted
  <1>2. CASE RollbackDrop \/ RollbackRestore
    <2>1. FileType'
      <3>1. CASE file' = file
        BY <3>1 DEF FileType, S, B
      <3>2. CASE DeleteProject("staging", "rollbackRestore", RollbackNo)
        BY <3>2, DropEffect DEF FileType, Others, Directory, Paths, S, B, State
      <3>3. CASE MoveCall("stagingBackup", "staging", "rollbackState", RollbackNo)
        BY <3>3, MoveEffect DEF FileType, Directory, Paths, S, B, State
      <3> QED BY <1>2, <3>1, <3>2, <3>3 DEF RollbackDrop, RollbackRestore, Then, Decide
    <2> QED BY <1>2, <2>1
          DEF RollbackDrop, RollbackRestore, Then, Decide, locals, BackType, LocalsType
  <1>3. CASE RollbackState
    <2>1. FileType'
      <3>1. CASE file' = file
        BY <3>1 DEF FileType, S, B
      <3>2. CASE ClearState("rollbackMarkers", RollbackNo)
        BY <3>2, ClearStateEffect DEF OnlyState, FileType, Paths, State, S, B
      <3> QED BY <1>3, <3>1, <3>2 DEF RollbackState, Then, Decide
    <2> QED BY <1>3, <2>1 DEF RollbackState, Then, Decide, locals, BackType, LocalsType
  <1>4. CASE RollbackMarkers
    <2>1. FileType'
      BY <1>4, ClearMarkersEffect DEF RollbackMarkers, Then, FileType, Paths, State, S, B
    <2> QED BY <1>4, <2>1 DEF RollbackMarkers, Then, locals, BackType, LocalsType
  <1> QED BY <1>1, <1>2, <1>3, <1>4 DEF Rollback

LEMMA ReplacementTypes ==
  ASSUME TypeOK, Replacement
  PROVE  /\ FileType' /\ BackType' /\ LocalsType' /\ session' = session
         /\ kept' \in Generation \cup {None}
  <1> USE DEF TypeOK
  <1>1. CASE Begin
    <2>1. CASE Exists("stagingBackup")
      BY <1>1, <2>1 DEF Begin, FileType, BackType, LocalsType, S, B
    <2>2. CASE ~Exists("stagingBackup")
      <3> DEFINE pending == [had |-> Exists("staging"), prev |-> session]
                 next == IF pending.had THEN "moveAside" ELSE "create"
      <3>1. pending \in Pending /\ pending.had \in BOOLEAN /\ "pending" \in Paths
        BY DEF Pending, Exists, Paths
      <3>2. WriteMarker("pending", pending, next, "rejectedLoad") /\ had' = pending.had
        BY <1>1, <2>2 DEF Begin
      <3> HIDE DEF pending, next
      <3>3. Others("pending") /\ file'["pending"] \in {pending, file["pending"]}
        BY ONLY <3>1, <3>2, WriteEffect, FileType
      <3>4. FileType'
        BY <3>1, <3>3 DEF Others, FileType, Paths, State, S, B
      <3> QED BY <1>1, <3>1, <3>2, <3>4 DEF Begin, BackType, LocalsType
    <2> QED BY <2>1, <2>2
  <1>2. CASE MoveAside
    <2>1. FileType'
      BY <1>2, MoveEffect DEF MoveAside, FileType, Directory, Paths, S, B, State
    <2> QED BY <1>2, <2>1 DEF MoveAside, BackType, LocalsType
  <1>3. CASE Abandon \/ CommitMarkers
    <2>1. FileType'
      BY <1>3, ClearMarkersEffect
      DEF Abandon, CommitMarkers, Then, FileType, Paths, State, S, B
    <2> QED BY <1>3, <2>1 DEF Abandon, CommitMarkers, Then, locals, BackType, LocalsType
  <1>4. CASE Commit
    <2>1. FileType'
      <3>1. CASE file' = file
        BY <3>1 DEF FileType, S, B
      <3>2. CASE WriteMarker("commit", TRUE, "commitBackup", CommitNo)
        <4>1. "commit" \in Paths
          BY DEF Paths
        <4> QED BY <3>2, <4>1, WriteEffect DEF Others, FileType, Paths, State, S, B
      <3> QED BY <1>4, <3>1, <3>2 DEF Commit
    <2> QED BY <1>4, <2>1 DEF Commit, Whole, locals, BackType, LocalsType
  <1>5. CASE CommitBackup
    <2>1. FileType'
      <3>1. CASE file' = file
        BY <3>1 DEF FileType, S, B
      <3>2. CASE DeleteProject("stagingBackup", "commitState", "opened")
        BY <3>2, DropEffect DEF FileType, Others, Directory, Paths, S, B, State
      <3> QED BY <1>5, <3>1, <3>2 DEF CommitBackup, Then, Decide
    <2> QED BY <1>5, <2>1 DEF CommitBackup, Then, Decide, locals, BackType, LocalsType
  <1>6. CASE CommitState
    <2>1. FileType'
      <3>1. "stateBackup" \in Paths
        BY DEF Paths
      <3> QED BY <1>6, <3>1, DeleteEffect
            DEF CommitState, Then, Others, FileType, Paths, State, Pointer, S, B
    <2> QED BY <1>6, <2>1 DEF CommitState, Then, locals, BackType, LocalsType
  <1> QED BY <1>1, <1>2, <1>3, <1>4, <1>5, <1>6 DEF Replacement

LEMMA LoadProjectEffect ==
  ASSUME NEW name \in Name, NEW create \in BOOLEAN, NEW retry \in BOOLEAN,
         LoadProject(name, create, retry)
  PROVE  /\ load' \in [name : Name, create : BOOLEAN, retry : BOOLEAN]
         /\ load'.name = name /\ load'.create = create
         /\ begun' = FALSE /\ pc' = "preflight"
  BY DEF LoadProject, Goto

LEMMA LoadTypes ==
  ASSUME TypeOK, Load
  PROVE  /\ FileType' /\ BackType' /\ LocalsType' /\ session' \in {session, None}
         /\ kept' = kept
  <1> USE DEF TypeOK
  <1>1. CASE Preflight \/ Rejected \/ FailLoad
    <2>1. BackType'
      <3>1. CASE back' = back
        BY <3>1 DEF BackType
      <3>2. CASE \/ back' = Call("recover", "begin", "rejectedLoad")
                 \/ back' = Call("recover", "restoreSession", "restoreSession")
                 \/ back' = Call("rollback", "rolledBack", "failLoad")
        BY <3>2, BackEffect DEF BackType, RecoverBack, RollbackBack
      <3> QED BY <1>1, <3>1, <3>2 DEF Preflight, Rejected, FailLoad
    <2> QED BY <1>1, <2>1 DEF Preflight, Rejected, FailLoad, FileType, LocalsType, S, B
  <1>2. CASE Create
    <2>1. FileType'
      BY <1>2 DEF Create, Exists, Fresh, FileType, Directory, Paths, State, S, B
    <2> QED BY <1>2, <2>1 DEF Create, locals, BackType, LocalsType
  <1>3. CASE Restore
    BY <1>3, Unmoved DEF Restore
  <1>4. CASE RolledBack \/ TryPrevious
    <2>1. Loadable \subseteq Name
      BY DEF Loadable, Name
    <2>2. \/ \E name \in Name : LoadProject(name, FALSE, FALSE)
          \/ UNCHANGED <<load, begun>>
      BY <1>4, <2>1 DEF RolledBack, TryPrevious, LocalsType
    <2>3. load' \in [name : Name, create : BOOLEAN, retry : BOOLEAN] /\ begun' \in BOOLEAN
      BY <2>2, LoadProjectEffect DEF LocalsType
    <2> QED BY <1>4, <2>3, Unmoved DEF RolledBack, TryPrevious, LocalsType
  <1>5. CASE RestoreSession \/ CommitMarker
    <2>1. \A name, retain, prev, ok, no :
             SaveProjectState(name, retain, prev, ok, no) =>
             file' = file /\ UNCHANGED <<load, begun, had, prior, answer, stage, session, kept>>
      BY DEF SaveProjectState
    <2>2. CASE session # None /\
               SaveProjectState(session, FALSE, None, "rejectedLoad", "rejectedLoad")
      <3>1. <<"rejectedLoad", "rejectedLoad">> \in MarkerBack
        BY DEF MarkerBack
      <3>2. /\ BackType'
            /\ args' \in [name : Name, retain : BOOLEAN, prev : Name \cup {None}]
        BY <2>2, <3>1, SaveProjectStateEffect
      <3> QED BY <2>1, <2>2, <3>2 DEF FileType, LocalsType, S, B
    <2>3. CASE CommitMarker
      <3>1. <<"commitTransaction", "failLoad">> \in MarkerBack
        BY DEF MarkerBack
      <3>2. load.name \in Name /\ begun \in BOOLEAN
            /\ (IF begun THEN session ELSE None) \in Name \cup {None}
        BY DEF LocalsType
      <3>3. SaveProjectState(load.name, begun, IF begun THEN session ELSE None,
                             "commitTransaction", "failLoad")
        BY <2>3 DEF CommitMarker
      <3>4. /\ BackType'
            /\ args' \in [name : Name, retain : BOOLEAN, prev : Name \cup {None}]
        BY <3>1, <3>2, <3>3, SaveProjectStateEffect
      <3> QED BY <2>1, <3>3, <3>4 DEF FileType, LocalsType, S, B
    <2>4. CASE file' = file /\ UNCHANGED <<locals, kept>> /\ session' \in {session, None}
      BY <2>4, Unmoved
    <2> QED BY <1>5, <2>2, <2>3, <2>4 DEF RestoreSession, Decide
  <1>6. CASE CommitTransaction
    <2>1. had' \in BOOLEAN
      BY <1>6 DEF CommitTransaction, FileType, Pending, Has, Exists, LocalsType
    <2> QED BY <1>6, <2>1 DEF CommitTransaction, FileType, BackType, LocalsType, S, B
  <1> QED BY <1>1, <1>2, <1>3, <1>4, <1>5, <1>6 DEF Load

LEMMA MarkerTypes ==
  ASSUME TypeOK, MarkerStep
  PROVE  /\ FileType' /\ BackType' /\ LocalsType' /\ UNCHANGED <<session, kept>>
         /\ OnlyState
  <1>1. UNCHANGED <<load, begun, had, prior, back, stage, session, kept>>
    BY DEF MarkerStep
  <1>2. OnlyState /\ args' = args /\ answer' \in Name
    BY RewriteEffect, ReadEffect DEF MarkerStep, TypeOK, LocalsType
  <1>3. FileType'
    BY <1>2 DEF OnlyState, TypeOK, FileType, State, Paths, S, B
  <1> QED BY <1>1, <1>2, <1>3, Unmoved DEF TypeOK, LocalsType

LEMMA ParkedLocals ==
  /\ NoArgs \in [name : Name, retain : BOOLEAN, prev : Name \cup {None}]
  /\ NoLoad \in [name : Name, create : BOOLEAN, retry : BOOLEAN]
  /\ Untitled \in Name
  /\ DOMAIN NoBack = {"marker", "recover", "rollback"}
  /\ NoBack["marker"] \in MarkerBack
  /\ NoBack["recover"] \in RecoverBack /\ NoBack["rollback"] \in RollbackBack
  <1>1. NoBack["marker"] = <<"off", "off">> /\ NoBack["recover"] = <<"off", "off">>
        /\ NoBack["rollback"] = <<"off", "off">>
    BY DEF NoBack
  <1>2. <<"off", "off">> \in MarkerBack /\ <<"off", "off">> \in RecoverBack
        /\ <<"off", "off">> \in RollbackBack
    BY DEF MarkerBack, RecoverBack, RollbackBack
  <1>3. NoArgs \in [name : Name, retain : BOOLEAN, prev : Name \cup {None}]
        /\ NoLoad \in [name : Name, create : BOOLEAN, retry : BOOLEAN]
    BY DEF NoArgs, NoLoad, Name
  <1> QED BY <1>1, <1>2, <1>3 DEF NoBack, Name

LEMMA CallerTypes ==
  ASSUME TypeOK,
         \/ MarkerReturns \/ DropMarker \/ Purged \/ Selected \/ RejectedLoad \/ Opened
         \/ Boot \/ NewProject \/ OpenProject \/ Finish \/ Crash
  PROVE  /\ FileType' /\ BackType' /\ LocalsType'
         /\ session' \in Name \cup {None} /\ kept' \in Generation \cup {None}
  <1> USE DEF TypeOK
  <1>1. CASE MarkerReturns
    BY <1>1, Unmoved DEF MarkerReturns
  <1>2. CASE DropMarker
    <2>1. FileType'
      <3>1. "current" \in Paths
        BY DEF Paths
      <3> QED BY <1>2, <3>1, DeleteEffect
            DEF DropMarker, Then, Others, FileType, Paths, State, Pointer, S, B
    <2> QED BY <1>2, <2>1, Unmoved DEF DropMarker, Then
  <1>3. CASE Purged \/ Boot
    <2>1. BackType'
      BY <1>3, BackEffect DEF Purged, Boot, BackType, RecoverBack
    <2> QED BY <1>3, <2>1, Unmoved DEF Purged, Boot, LocalsType
  <1>4. CASE Selected
    <2>1. answer' \in Name /\ (pc = "loadFailed") \in BOOLEAN
      BY <1>4 DEF Selected, LocalsType, Name
    <2>2. LoadProject(answer', pc = "loadFailed", TRUE)
      BY <1>4 DEF Selected
    <2>3. load' \in [name : Name, create : BOOLEAN, retry : BOOLEAN] /\ begun' = FALSE
      BY <2>1, <2>2, LoadProjectEffect
    <2> QED BY <1>4, <2>1, <2>3, Unmoved DEF Selected, LocalsType
  <1>5. CASE RejectedLoad
    <2>1. CASE UNCHANGED locals
      BY <1>5, <2>1, Unmoved DEF RejectedLoad
    <2>2. CASE /\ stage' = "last" /\ LoadProject(Untitled, TRUE, TRUE)
               /\ UNCHANGED <<answer, args, had, prior, back>>
      <3>1. load' \in [name : Name, create : BOOLEAN, retry : BOOLEAN] /\ begun' = FALSE
        BY <2>2, LoadProjectEffect DEF Name
      <3> QED BY <1>5, <2>2, <3>1, Unmoved DEF RejectedLoad, LocalsType
    <2> QED BY <1>5, <2>1, <2>2 DEF RejectedLoad
  <1>6. CASE Opened
    BY <1>6, Unmoved DEF Opened, Whole, LocalsType
  <1>7. CASE NewProject
    <2>1. load' \in [name : Name, create : BOOLEAN, retry : BOOLEAN] /\ begun' = FALSE
      BY <1>7, LoadProjectEffect DEF NewProject, Name
    <2> QED BY <1>7, <2>1, Unmoved DEF NewProject, LocalsType
  <1>8. CASE OpenProject
    <2>1. load' \in [name : Name, create : BOOLEAN, retry : BOOLEAN] /\ begun' = FALSE
      BY <1>8, LoadProjectEffect DEF OpenProject, Name
    <2> QED BY <1>8, <2>1, Unmoved DEF OpenProject, LocalsType
  <1>9. CASE Finish \/ Crash
    <2>1. BackType' /\ LocalsType'
      BY <1>9, ParkedLocals DEF Finish, Crash, Park, BackType, LocalsType
    <2> QED BY <1>9, <2>1, Unmoved DEF Finish, Crash
  <1> QED BY <1>1, <1>2, <1>3, <1>4, <1>5, <1>6, <1>7, <1>8, <1>9

LEMMA InitTypes == Init => TypeOK
  <1> SUFFICES ASSUME Init PROVE TypeOK
    OBVIOUS
  <1>1. DOMAIN file = Paths /\ \A p \in Paths : file[p] = None
    BY DEF Init
  <1>2. FileType
    BY <1>1 DEF FileType, Paths, State, Pointer, Directory, S, B
  <1>3. BackType /\ LocalsType
    BY ParkedLocals DEF Init, BackType, LocalsType
  <1> QED BY <1>2, <1>3 DEF Init, TypeOK

\* Every step keeps the types.
LEMMA NextTypes ==
  ASSUME TypeOK, Flow, Next
  PROVE  TypeOK'
  <1>1. FileType' /\ BackType' /\ LocalsType'
        /\ session' \in Name \cup {None} /\ kept' \in Generation \cup {None}
    <2>1. CASE \/ RecoverStaging \/ Purge \/ Rollback \/ Replacement \/ Load \/ MarkerStep
      BY <2>1, RecoverTypes, PurgeTypes, RollbackTypes, ReplacementTypes, LoadTypes,
         MarkerTypes DEF TypeOK
    <2> QED BY <2>1, CallerTypes DEF Next, Procedures
  <1>2. calm' \in BOOLEAN
    BY DEF Next, Procedures, Boot, NewProject, OpenProject, Finish, Crash, TypeOK
  <1>3. tainted' \in BOOLEAN
    BY Zenon DEF Next, TypeOK
  <1> QED BY <1>1, <1>2, <1>3 DEF TypeOK

-----------------------------------------------------------------------------
(* The purge. *)

LEMMA Returned ==
  ASSUME BackType
  PROVE  /\ back["recover"][1] \in {"off", "loadState", "purged", "begin", "restoreSession"}
         /\ back["recover"][2] \in No
         /\ back["rollback"][1] \in {"off", "loadState", "purged", "begin", "restoreSession", "rolledBack"}
         /\ back["rollback"][2] \in No \cup {"failLoad"}
         /\ back["marker"][1] \in {"off", "rejectedLoad", "commitTransaction", "clearMarkers", "rollbackDrop"}
         /\ back["marker"][2] \in No \cup {"failLoad"}
  BY DEF BackType, RecoverBack, RollbackBack, MarkerBack, No

\* Steps that neither find PURGE nor come to where the flow matters.
Aside ==
  /\ pc \notin PurgeDueAt
  /\ pc' \notin PurgeAt \cup {"dropMarker", "purge", "dropCandidate", "restorePointer"}
  /\ file'["purge"] = file["purge"]

LEMMA AsideKeepsFlow ==
  ASSUME Flow, Aside
  PROVE  Flow' /\ ~U
  BY DEF Flow, Aside, PurgeDueAt, PurgeAt, U, Has

LEMMA AsideSteps ==
  ASSUME TypeOK, Flow,
         \/ MarkerStep \/ MarkerReturns \/ ClearPhase \/ Rollback \/ Replacement
         \/ (Load /\ ~Preflight) \/ Opened \/ NewProject \/ OpenProject \/ Finish
  PROVE  Aside
  <1> USE Returned DEF TypeOK, Aside, PurgeDueAt, PurgeAt, No
  <1>0. "purge" \in Paths \ (State \cup {"pending", "commit", "staging", "stagingBackup"})
        /\ FileType
    BY DEF Paths, State
  <1>1. CASE MarkerStep
    BY <1>0, <1>1, RewriteEffect, ReadEffect
    DEF MarkerStep, OnlyState, RewriteAt, ReadAt, Mark!RewriteAt, Mark!LoadAt
  <1>2. CASE MarkerReturns
    BY <1>2 DEF MarkerReturns, Returns, Goto
  <1>3. CASE ClearPhase
    BY <1>0, <1>3, ClearMarkersEffect DEF ClearPhase, Then, RecoverNo
  <1>4. CASE Rollback
    <2>1. CASE RollbackCommitted
      BY <2>1 DEF RollbackCommitted, Goto, RollbackNo
    <2>2. CASE RollbackDrop
      BY <1>0, <2>2, DropEffect DEF RollbackDrop, Then, Decide, Goto, Others, RollbackNo
    <2>3. CASE RollbackRestore
      BY <1>0, <2>3, MoveEffect DEF RollbackRestore, Then, Decide, Goto, RollbackNo
    <2>4. CASE RollbackState
      BY <1>0, <2>4, ClearStateEffect DEF RollbackState, Then, Decide, Goto, OnlyState, RollbackNo
    <2>5. CASE RollbackMarkers
      BY <1>0, <2>5, ClearMarkersEffect DEF RollbackMarkers, Then, RollbackNo
    <2> QED BY <1>4, <2>1, <2>2, <2>3, <2>4, <2>5 DEF Rollback
  <1>5. CASE Replacement
    <2>1. CASE Begin
      <3>1. file'["purge"] = file["purge"] /\ pc = "begin"
        BY <1>0, <2>1 DEF Begin, WriteMarker, FileType
      <3>2. pc' \in {"moveAside", "create", "rejectedLoad"}
        BY <2>1 DEF Begin, WriteMarker, Goto
      <3> QED BY <3>1, <3>2
    <2>2. CASE MoveAside
      BY <1>0, <2>2, MoveEffect DEF MoveAside
    <2>3. CASE Abandon \/ CommitMarkers
      BY <1>0, <2>3, ClearMarkersEffect DEF Abandon, CommitMarkers, Then
    <2>4. CASE Commit
      <3>1. file'["purge"] = file["purge"] /\ pc = "commit"
        BY <1>0, <2>4 DEF Commit, WriteMarker, FileType
      <3>2. pc' \in {"commitBackup", "failLoad", "opened"}
        BY <2>4 DEF Commit, WriteMarker, Goto, CommitNo
      <3> QED BY <3>1, <3>2
    <2>5. CASE CommitBackup
      BY <1>0, <2>5, DropEffect DEF CommitBackup, Then, Decide, Goto, Others
    <2>6. CASE CommitState
      <3>1. "stateBackup" \in Paths /\ "stateBackup" # "purge"
        BY DEF Paths
      <3> QED BY <1>0, <2>6, <3>1, DeleteEffect DEF CommitState, Then, Others
    <2> QED BY <1>5, <2>1, <2>2, <2>3, <2>4, <2>5, <2>6 DEF Replacement
  <1>6. CASE Load /\ ~Preflight
    <2>1. CASE Create
      BY <1>0, <2>1 DEF Create, Goto, FileType
    <2>2. CASE Restore \/ Rejected \/ FailLoad \/ CommitTransaction
      BY <2>2 DEF Restore, Rejected, FailLoad, CommitTransaction, Goto
    <2>3. CASE RolledBack \/ TryPrevious
      BY <2>3 DEF RolledBack, TryPrevious, LoadProject, Goto
    <2>4. CASE RestoreSession \/ CommitMarker
      BY <2>4 DEF RestoreSession, CommitMarker, SaveProjectState, Decide, Goto
    <2> QED BY <1>6, <2>1, <2>2, <2>3, <2>4 DEF Load
  <1>7. CASE Opened \/ NewProject \/ OpenProject \/ Finish
    BY <1>7 DEF Opened, NewProject, OpenProject, LoadProject, Finish, Goto
  <1> QED BY <1>1, <1>2, <1>3, <1>4, <1>5, <1>6, <1>7

\* A recovery finishes a purge, or there is none.
LEMMA RecoverKeepsFlow ==
  ASSUME TypeOK, Flow, Recover \/ DropCandidate \/ AdoptBackup \/ RestorePointer
  PROVE  /\ Flow'
         /\ U => file' = file
  <1> USE Returned DEF TypeOK, No, PurgeAt, PurgeDueAt, P, C, U, S, B, Has, RecoverNo
  <1>1. CASE Recover
    <2>1. file' = file /\ stage' = stage /\ pc = "recover"
      BY <1>1 DEF Recover
    <2>2. back'["recover"] = back["recover"]
      <3>1. \/ back' = back
            \/ back' = Call("rollback", back["recover"][1], back["recover"][2])
        BY <1>1 DEF Recover
      <3>2. "rollback" \in DOMAIN back /\ "recover" \in DOMAIN back \ {"rollback"}
        BY DEF BackType
      <3> QED BY <3>1, <3>2, BackEffect
    <2>3. CASE U
      <3>1. Phase = "purgeStaging"
        BY <2>3 DEF Phase
      <3>2. pc' \in {"purgeStaging", RecoverNo}
        BY <1>1, <3>1 DEF Recover, Returns, Goto
      <3> QED BY <2>1, <2>2, <2>3, <3>2 DEF Flow
    <2>4. CASE ~U
      <3>1. /\ pc' \notin PurgeAt \cup {"dropMarker", "purge"}
            /\ pc' = "dropCandidate" => P \/ B # None
            /\ pc' = "restorePointer" => P
        <4>1. CASE pc' = Phase
          BY <2>4, <4>1 DEF Phase, Exists
        <4>2. CASE pc' # Phase
          BY <1>1, <4>2 DEF Recover, Returns, Goto
        <4> QED BY <4>1, <4>2
      <3> QED BY <2>1, <2>4, <3>1 DEF Flow
    <2> QED BY <2>1, <2>3, <2>4
  <1>2. CASE DropCandidate
    <2>1. /\ Others("staging")
          /\ pc' \in {"dropCandidate", RecoverNo} \cup (IF B # None THEN {"adoptBackup"} ELSE {"restorePointer"})
      BY <1>2, DropEffect DEF DropCandidate, Then, Exists
    <2>2. UNCHANGED <<file["pending"], file["commit"], file["purge"], file["stagingBackup"]>>
      BY <2>1 DEF Others, Paths
    <2> QED BY <1>2, <2>1, <2>2 DEF DropCandidate, Flow
  <1>3. CASE AdoptBackup
    <2>1. pc' \in {RecoverNo, "clearMarkers"} \cup (IF P THEN {"restorePointer"} ELSE {})
      BY <1>3, MoveEffect DEF AdoptBackup, Then
    <2>2. UNCHANGED <<file["pending"], file["commit"], file["purge"]>>
      BY <1>3, MoveEffect DEF AdoptBackup, Then, Paths
    <2> QED BY <1>3, <2>1, <2>2 DEF AdoptBackup, Flow
  <1>4. CASE RestorePointer
    <2>1. /\ pc' \in {"saveState", "restorePointer", "clearMarkers", RecoverNo}
          /\ UNCHANGED <<file["pending"], file["commit"], file["purge"]>>
      BY <1>4, ClearStateEffect
      DEF RestorePointer, Then, SaveProjectState, Goto, OnlyState, State, Paths
    <2> QED BY <1>4, <2>1 DEF RestorePointer, Flow
  <1> QED BY <1>1, <1>2, <1>3, <1>4

LEMMA WritePurgeEffect ==
  ASSUME FileType, NEW no, WriteMarker("purge", TRUE, "purgeStaging", no)
  PROVE  /\ UNCHANGED <<file["staging"], file["stagingBackup"]>>
         /\ \/ pc' = "purgeStaging" /\ file["purge"] = None /\ file'["purge"] # None
            \/ pc' = no /\ (file' = file \/ file["purge"] = None)
  <1>1. "purge" \in Paths /\ {"staging", "stagingBackup"} \subseteq Paths \ {"purge"}
    BY DEF Paths
  <1>2. TRUE # None
    OBVIOUS
  <1> QED BY <1>1, <1>2, WriteEffect DEF Others, Has

\* The stages of a purge.
LEMMA PurgeKeepsFlow ==
  ASSUME TypeOK, Flow, Purge
  PROVE  /\ Flow'
         /\ U => /\ file'["purge"] = None => S = None /\ B = None
                 /\ S' \in {S, Gutted, Husk, None} /\ B' \in {B, Gutted, Husk, None}
  <1> USE Returned DEF TypeOK, No, PurgeAt, PurgeDueAt, P, C, U, S, B, Has, RecoverNo
  <1>1. CASE BeginPurge
    <2>1. /\ UNCHANGED <<back, stage, file["staging"], file["stagingBackup"]>>
          /\ file'["purge"] = file["purge"] \/ ~U
          /\ pc = "purge" /\ pc' \in {"purgeStaging", RecoverNo}
          /\ pc' = "purgeStaging" => file'["purge"] # None
      <3>1. CASE WriteMarker("purge", TRUE, "purgeStaging", RecoverNo)
        <4>1. back["recover"][2] # "purgeStaging"
          OBVIOUS
        <4>2. /\ UNCHANGED <<file["staging"], file["stagingBackup"]>>
              /\ \/ pc' = "purgeStaging" /\ file["purge"] = None /\ file'["purge"] # None
                 \/ pc' = RecoverNo /\ (file' = file \/ file["purge"] = None)
          BY <3>1, WritePurgeEffect
        <4> QED BY <1>1, <4>1, <4>2 DEF BeginPurge, locals
      <3> QED BY <1>1, <3>1 DEF BeginPurge, locals, Goto
    <2> QED BY <2>1 DEF Flow
  <1>2. CASE PurgeStaging \/ PurgeBackup
    <2>1. UNCHANGED <<back, stage>>
      BY <1>2 DEF PurgeStaging, PurgeBackup, Then, Decide, locals
    <2>2. CASE PurgeStaging
      <3>1. /\ UNCHANGED <<file["purge"], file["stagingBackup"]>>
            /\ S' \in {S, Gutted, Husk, None} /\ pc = "purgeStaging"
            /\ pc' \in {"purgeStaging", RecoverNo} \/ (pc' = "purgeBackup" /\ S' = None)
        BY <2>2, DropEffect DEF PurgeStaging, Then, Decide, Goto, Exists, Others, Paths
      <3> QED BY <2>1, <3>1 DEF Flow
    <2>3. CASE PurgeBackup
      <3>1. /\ UNCHANGED <<file["purge"], file["staging"]>>
            /\ B' \in {B, Gutted, Husk, None} /\ pc = "purgeBackup"
            /\ pc' \in {"purgeBackup", RecoverNo} \/ (pc' = "purgeState" /\ B' = None)
        BY <2>3, DropEffect DEF PurgeBackup, Then, Decide, Goto, Exists, Others, Paths
      <3> QED BY <2>1, <3>1 DEF Flow
    <2> QED BY <1>2, <2>2, <2>3
  <1>3. CASE PurgeState
    <2>1. /\ UNCHANGED <<back, stage, file["purge"], file["staging"], file["stagingBackup"]>>
          /\ pc = "purgeState" /\ pc' \in {"purgeState", "purgeMarkers", RecoverNo}
      BY <1>3, ClearStateEffect DEF PurgeState, Then, locals, OnlyState, State, Paths
    <2> QED BY <2>1 DEF Flow
  <1>4. CASE PurgeMarkers
    <2>1. /\ UNCHANGED <<back, stage, file["purge"], file["staging"], file["stagingBackup"]>>
          /\ pc = "purgeMarkers" /\ pc' \in {"purgeMarkers", "purgeDone", RecoverNo}
          /\ pc' = "purgeDone" => ~P' /\ ~C'
      BY <1>4, ClearMarkersEffect DEF PurgeMarkers, Then, locals, Paths
    <2> QED BY <2>1 DEF Flow
  <1>5. CASE PurgeDone
    <2>1. /\ UNCHANGED <<back, stage>> /\ \A q \in Paths \ {"purge"} : file'[q] = file[q]
          /\ pc = "purgeDone" /\ file'["purge"] \in {file["purge"], None}
          /\ pc' = RecoverNo \/ (pc' = back["recover"][1] /\ file'["purge"] = None)
      <3>1. "purge" \in Paths
        BY DEF Paths
      <3> QED BY <1>5, <3>1, DeleteEffect DEF PurgeDone, Then, locals, Others
    <2>2. UNCHANGED <<file["staging"], file["stagingBackup"], file["pending"], file["commit"]>>
      BY <2>1 DEF Paths
    <2> QED BY <2>1, <2>2 DEF Flow
  <1> QED BY <1>1, <1>2, <1>3, <1>4, <1>5 DEF Purge

\* The boot, whose every way of failing leaves PURGE to another recovery.
LEMMA BootKeepsFlow ==
  ASSUME TypeOK, Flow,
         \/ Boot \/ DropMarker \/ Purged \/ Selected \/ Preflight \/ RejectedLoad \/ Crash
  PROVE  Flow' /\ S' = S /\ B' = B /\ file'["purge"] = file["purge"]
  <1> USE DEF TypeOK, PurgeAt, PurgeDueAt, P, C, U, S, B, Has, RecoverNo
  <1>1. CASE Boot
    <2>1. pc' \in {"recover", "dropMarker"} /\ stage' = "first" /\ file' = file
      BY <1>1 DEF Boot, Goto
    <2>2. \/ pc' = "recover" /\ back'["recover"] = <<"loadState", "loadFailed">>
          \/ pc' = "dropMarker" /\ back'["recover"] = <<"purged", "purged">>
      BY <1>1, BackEffect DEF Boot, Goto, BackType
    <2> QED BY <2>1, <2>2 DEF Flow
  <1>2. CASE DropMarker
    <2>1. "current" \in Paths /\ {"staging", "stagingBackup", "purge"} \subseteq Paths \ {"current"}
      BY DEF Paths
    <2>2. /\ UNCHANGED <<file["staging"], file["stagingBackup"], file["purge"], back, stage>>
          /\ pc = "dropMarker" /\ pc' = "purge"
      BY <1>2, <2>1, DeleteEffect DEF DropMarker, Then, Others, locals
    <2> QED BY <2>2 DEF Flow
  <1>3. CASE Purged
    <2>1. back'["recover"] = <<"loadState", "loadFailed">>
      BY <1>3, BackEffect DEF Purged, BackType
    <2> QED BY <1>3, <2>1 DEF Purged, Goto, Flow
  <1>4. CASE Selected
    <2>1. pc' = "preflight" /\ load'.name = answer' /\ load'.create = (pc = "loadFailed")
      BY <1>4 DEF Selected, LoadProject, Goto
    <2> QED BY <1>4, <2>1 DEF Selected, Flow
  <1>5. CASE Preflight
    <2>1. U => load.create /\ load.name = Untitled /\ stage # "user"
      BY <1>5 DEF Preflight, Flow
    <2>2. /\ file' = file /\ stage' = stage /\ pc' \in {"recover", "create", "restore", "rejectedLoad"}
          /\ U => pc' \in {"recover", "rejectedLoad"}
          /\ pc' = "recover" => back' = Call("recover", "begin", "rejectedLoad")
      BY <1>5, <2>1 DEF Preflight, Goto
    <2>3. pc' = "recover" => back'["recover"] = <<"begin", "rejectedLoad">>
      BY <2>2, BackEffect DEF BackType
    <2> QED BY <2>1, <2>2, <2>3 DEF Flow
  <1>6. CASE RejectedLoad
    <2>1. file' = file /\ pc = "rejectedLoad"
      BY <1>6 DEF RejectedLoad
    <2>2. \/ pc' = "preflight" /\ stage' = "last" /\ load'.create /\ load'.name = Untitled
          \/ pc' = "failed" /\ stage = "user"
          \/ pc' = "dead" /\ stage' = stage
      BY <1>6 DEF RejectedLoad, LoadProject, Goto, locals
    <2> QED BY <2>1, <2>2 DEF Flow
  <1>7. CASE Crash
    BY <1>7 DEF Crash, Goto, Flow
  <1> QED BY <1>1, <1>2, <1>3, <1>4, <1>5, <1>6, <1>7

\* What a step does while PURGE is durable.
PurgeGoesOn ==
  U => /\ \A p \in {"staging", "stagingBackup"} : file'[p] \in {file[p], Gutted, Husk, None}
       /\ file'["purge"] = None => {file["staging"], file["stagingBackup"]} = {None}

LEMMA NextFlow ==
  ASSUME TypeOK, Flow, Next
  PROVE  Flow' /\ PurgeGoesOn
  <1> USE DEF PurgeGoesOn, S, B, U, Has
  <1>1. CASE Aside
    BY <1>1, AsideKeepsFlow
  <1>2. CASE Recover \/ DropCandidate \/ AdoptBackup \/ RestorePointer
    BY <1>2, RecoverKeepsFlow
  <1>3. CASE Purge
    BY <1>3, PurgeKeepsFlow
  <1>4. CASE \/ Boot \/ DropMarker \/ Purged \/ Selected \/ Preflight \/ RejectedLoad \/ Crash
    BY <1>4, BootKeepsFlow
  <1> QED BY <1>1, <1>2, <1>3, <1>4, AsideSteps DEF Next, Procedures, RecoverStaging, Load

-----------------------------------------------------------------------------
(* The untitled project. *)

SameFiles ==
  UNCHANGED <<file["staging"], file["stagingBackup"], file["pending"], file["commit"],
              file["purge"], kept>>

LEMMA SameFilesOwe ==
  ASSUME Owed, SameFiles, ~CommitOrphaned,
         pc = "rollbackDrop" => pc' = "rollbackDrop" \/ S # Gutted
  PROVE  Owed'
  BY DEF Owed, SameFiles, CommitOrphaned, Kept, S, B, P, C, U, Has

\* Places of which nothing is claimed.
PlainAt == PurgeAt \cup {"off", "dropMarker", "purge", "recover", "purged", "loadFailed",
                        "rejectedLoad", "rollbackCommitted", "failLoad", "restoreSession",
                        "done", "failed", "dead"}

LEMMA PlainStands ==
  ASSUME pc' \in PlainAt, load'.create => load'.name = Untitled
  PROVE  Stand'
  BY DEF Stand, Loading, Recovering, RollingBack, At, Rewriting, Mark!RewriteAt, Mark!LoadAt,
         LoadingAt, OpensUntitled, PlainAt, PurgeAt

\* What a recovery or a rollback that succeeds goes on with.
LEMMA SettledStands ==
  ASSUME pc' \in {"off", "loadState", "purged", "begin", "restoreSession"}, Settled',
         load'.create => load'.name = Untitled
  PROVE  Stand'
  BY DEF Stand, Loading, Recovering, RollingBack, At, Rewriting, Mark!RewriteAt, Mark!LoadAt,
         LoadingAt, OpensUntitled

\* A recovery on its way, or rewriting the marker before it ends.
LEMMA RecoveryStands ==
  ASSUME \/ pc' \in {"dropCandidate", "adoptBackup", "restorePointer", "clearMarkers"}
         \/ pc' = "saveState" /\ \E no \in No : back'["marker"] = <<"clearMarkers", no>>,
         ~C', load'.create => load'.name = Untitled,
         (pc' = "dropCandidate" /\ B' = None) => ~file'["pending"].had,
         pc' \notin {"dropCandidate", "adoptBackup"} => B' = None
  PROVE  Stand'
  BY DEF Stand, Loading, Recovering, RollingBack, At, Rewriting, Mark!RewriteAt, Mark!LoadAt,
         LoadingAt, OpensUntitled, No

LEMMA MarkerOwes ==
  ASSUME TypeOK, Owed, Stand, MarkerStep \/ MarkerReturns, ~CommitOrphaned
  PROVE  Owed' /\ Stand'
  <1> USE DEF Rewriting, Mark!RewriteAt, Mark!LoadAt
  <1>1. CASE MarkerStep
    <2>1. /\ SameFiles /\ pc # "rollbackDrop"
          /\ UNCHANGED <<back, load, begun, had, session, kept>>
          /\ \/ Rewriting /\ Rewriting'
             \/ pc \in Mark!LoadAt /\ pc' \in Mark!LoadAt \cup {"loaded", "loadFailed"}
      <3>1. /\ OnlyState
            /\ \/ Rewriting /\ Rewriting'
               \/ pc \in Mark!LoadAt /\ pc' \in Mark!LoadAt \cup {"loaded", "loadFailed"}
        BY <1>1, RewriteEffect, ReadEffect DEF MarkerStep, RewriteAt, ReadAt
      <3> QED BY <1>1, <3>1 DEF MarkerStep, SameFiles, OnlyState, State, Paths
    <2>2. Owed'
      BY <2>1, SameFilesOwe
    <2>3. CASE Rewriting /\ Rewriting'
      <3>1. ASSUME NEW labels, labels \cap Mark!RewriteAt = {}, "saved" \notin labels,
                   "saveFailed" \notin labels
            PROVE  At(labels)' => At(labels)
        BY <2>1, <2>3, <3>1 DEF At
      <3> QED BY <2>1, <2>2, <2>3, <3>1
          DEF Stand, Loading, Recovering, RollingBack, LoadingAt, OpensUntitled, SameFiles,
              Kept, Whole, Validates, Settled, S, B, P, C, U, Has
    <2>4. CASE pc \in Mark!LoadAt /\ pc' \in Mark!LoadAt \cup {"loaded", "loadFailed"}
      BY <2>1, <2>2, <2>4 DEF Stand, Loading, Recovering, RollingBack, At, LoadingAt,
         OpensUntitled, SameFiles, Validates, Settled, S, B, P, C, U, Has
    <2> QED BY <2>1, <2>3, <2>4
  <1>2. CASE MarkerReturns
    <2>1. /\ Rewriting /\ SameFiles /\ UNCHANGED <<back, load, begun, had, session, kept>>
          /\ pc' \in {back["marker"][1], back["marker"][2]}
      BY <1>2 DEF MarkerReturns, Returns, Goto, SameFiles, locals
    <2>2. pc' \in PlainAt \cup {"commitTransaction", "clearMarkers", "rollbackDrop"}
      BY <2>1, Returned DEF TypeOK, No, PlainAt
    <2>3. Owed'
      BY <2>1, SameFilesOwe
    <2>4. CASE pc' \in PlainAt
      BY <2>1, <2>3, <2>4, PlainStands DEF Stand, Loading, OpensUntitled
    <2>5. CASE pc' \in {"commitTransaction", "clearMarkers", "rollbackDrop"}
      BY <2>1, <2>3, <2>5 DEF Stand, Loading, Recovering, RollingBack, At, LoadingAt,
         OpensUntitled, SameFiles, Kept, Whole, S, B, P, C, Has
    <2> QED BY <2>2, <2>4, <2>5
  <1> QED BY <1>1, <1>2

LEMMA RecoverOwes ==
  ASSUME TypeOK, Flow, Owed, Stand, RecoverStaging, ~CommitOrphaned
  PROVE  Owed' /\ Stand'
  <1>0. /\ back["recover"][1] \in {"off", "loadState", "purged", "begin", "restoreSession"}
        /\ RecoverNo \in PlainAt /\ (load.create => load.name = Untitled)
    BY Returned DEF TypeOK, No, PlainAt, RecoverNo, Stand, Loading, OpensUntitled
  <1>1. CASE Recover
    <2>1. SameFiles /\ UNCHANGED <<load, begun, had, session>> /\ pc = "recover"
      BY <1>1 DEF Recover, SameFiles
    <2>2. Owed'
      BY <2>1, SameFilesOwe
    <2>3. CASE pc' \in PlainAt
      BY <1>0, <2>1, <2>2, <2>3, PlainStands
    <2>4. CASE pc' = back["recover"][1] /\ Phase = "yes"
      <3>1. ~U /\ C /\ Validates("staging")
        BY <2>4 DEF Phase, U, C
      <3>2. P
        BY <2>1, <3>1 DEF Owed
      <3>3. Settled'
        BY <2>1, <3>1, <3>2 DEF Settled, SameFiles, Validates, P, C, U, Has
      <3> QED BY <1>0, <2>1, <2>2, <2>4, <3>3, SettledStands
    <2>5. CASE pc' = Phase /\ pc' \notin PlainAt
      <3>1. /\ pc' \in {"dropCandidate", "adoptBackup", "restorePointer", "clearMarkers"}
            /\ ~C
            /\ pc' = "dropCandidate" /\ B = None => ~file["pending"].had
            /\ pc' \in {"restorePointer", "clearMarkers"} => B = None
        <4>1. Phase \notin {"yes", "no", "rollback"}
          BY <1>0, <1>1, <2>5 DEF Recover, Returns, Goto, RecoverNo, PlainAt, PurgeAt
        <4> QED BY <1>1, <2>5, <4>1 DEF Phase, PlainAt, PurgeAt, C, B, Exists, Has
      <3> QED BY <1>0, <2>1, <2>2, <3>1
          DEF Stand, Loading, Recovering, RollingBack, At, Rewriting, LoadingAt, OpensUntitled,
              SameFiles, Mark!RewriteAt, Mark!LoadAt, C, B, Has
    <2>6. \/ pc' \in {"rollbackCommitted", RecoverNo, Phase}
          \/ pc' = back["recover"][1] /\ Phase = "yes"
      BY <1>1 DEF Recover, Returns, Goto, RecoverNo
    <2> QED BY <1>0, <2>3, <2>4, <2>5, <2>6 DEF PlainAt
  <1>2. CASE DropCandidate
    <2>1. /\ DropCandidate /\ pc = "dropCandidate" /\ ~C
          /\ UNCHANGED <<load, kept>> /\ (P \/ B # None)
      BY <1>2 DEF DropCandidate, Then, locals, Stand, Recovering, At, Flow
    <2>2. /\ UNCHANGED <<file["stagingBackup"], file["pending"], file["commit"], file["purge"]>>
          /\ \/ pc' = "dropCandidate"
             \/ pc' = "adoptBackup"
             \/ pc' = "restorePointer" /\ B = None
             \/ pc' = RecoverNo
      BY <2>1, DropEffect DEF DropCandidate, Then, Others, Paths, Exists, B, TypeOK
    <2>3. B = None => ~file["pending"].had /\ kept = None
      BY <2>1 DEF Stand, Recovering, Owed
    <2>4. Owed'
      BY <2>1, <2>2, <2>3 DEF Owed, Kept, S, B, P, C, U, Has
    <2>5. CASE pc' = RecoverNo
      BY <1>0, <2>1, <2>4, <2>5, PlainStands
    <2>6. CASE pc' # RecoverNo
      <3>1. /\ ~C' /\ pc' \in {"dropCandidate", "adoptBackup", "restorePointer"}
            /\ (pc' = "dropCandidate" /\ B' = None) => ~file'["pending"].had
            /\ pc' = "restorePointer" => B' = None
        BY <2>1, <2>2, <2>3, <2>6 DEF C, B, Has
      <3> QED BY <1>0, <2>1, <2>4, <3>1, RecoveryStands
    <2> QED BY <2>5, <2>6
  <1>3. CASE AdoptBackup
    <2>1. /\ AdoptBackup /\ pc = "adoptBackup" /\ ~C /\ UNCHANGED <<load, kept>>
      BY <1>3 DEF AdoptBackup, Then, locals, Stand, Recovering, At
    <2>2. /\ UNCHANGED <<file["pending"], file["commit"], file["purge"]>>
          /\ \/ /\ B # None /\ S' = B /\ B' = None
                /\ pc' \in {"restorePointer", "clearMarkers", RecoverNo}
             \/ S' = S /\ B' = B /\ pc' = RecoverNo
      BY <2>1, MoveEffect DEF AdoptBackup, Then, Paths, S, B, TypeOK
    <2>3. Owed'
      BY <2>1, <2>2 DEF Owed, Kept, S, B, P, C, U, Has
    <2>4. CASE pc' = RecoverNo
      BY <1>0, <2>1, <2>3, <2>4, PlainStands
    <2>5. CASE pc' # RecoverNo
      <3>1. ~C' /\ B' = None /\ pc' \in {"restorePointer", "clearMarkers"}
        BY <2>1, <2>2, <2>5 DEF C, Has
      <3> QED BY <1>0, <2>1, <2>3, <3>1, RecoveryStands
    <2> QED BY <2>4, <2>5
  <1>4. CASE RestorePointer
    <2>1. pc = "restorePointer" /\ ~C /\ B = None
      BY <1>4 DEF RestorePointer, Stand, Recovering, At
    <2>2. /\ SameFiles /\ load' = load
          /\ \/ pc' \in {"restorePointer", "clearMarkers", RecoverNo}
             \/ pc' = "saveState" /\ back'["marker"] = <<"clearMarkers", RecoverNo>>
      <3>1. CASE SaveProjectState(file["pending"].prev, FALSE, None, "clearMarkers", RecoverNo)
        <4>1. back'["marker"] = <<"clearMarkers", RecoverNo>>
          BY <3>1 DEF SaveProjectState, Call, TypeOK, BackType
        <4> QED BY <3>1, <4>1 DEF SaveProjectState, SameFiles, Goto
      <3>2. CASE Then(ClearState("clearMarkers", RecoverNo))
        BY <2>1, <3>2, ClearStateEffect DEF Then, OnlyState, SameFiles, State, Paths, locals, TypeOK
      <3> QED BY <1>4, <3>1, <3>2 DEF RestorePointer
    <2>3. Owed'
      BY <2>1, <2>2, SameFilesOwe
    <2>4. CASE pc' = RecoverNo
      BY <1>0, <2>2, <2>3, <2>4, PlainStands
    <2>5. CASE pc' # RecoverNo
      <3>1. ~C' /\ B' = None
        BY <2>1, <2>2 DEF C, B, Has, SameFiles
      <3>2. RecoverNo \in No
        BY BackEffect DEF TypeOK
      <3> QED BY <1>0, <2>2, <2>3, <2>5, <3>1, <3>2, RecoveryStands
    <2> QED BY <2>4, <2>5
  <1>5. CASE ClearPhase
    <2>1. pc = "clearMarkers" /\ ~C /\ B = None /\ ~U /\ UNCHANGED <<load, kept>>
      BY <1>5 DEF ClearPhase, Then, locals, Stand, Recovering, At, Flow, PurgeDueAt, PurgeAt
    <2>2. /\ UNCHANGED <<file["staging"], file["stagingBackup"], file["purge"], file["commit"]>>
          /\ \/ pc' = back["recover"][1] /\ ~P'
             \/ pc' \in {pc, RecoverNo}
          /\ file'["pending"] \in {file["pending"], None}
      BY <1>5, <2>1, ClearMarkersEffect DEF ClearPhase, Then, Paths, P, C, Has, TypeOK
    <2>3. Owed'
      BY <2>1, <2>2 DEF Owed, Kept, S, B, P, C, U, Has
    <2>4. CASE pc' = RecoverNo
      BY <1>0, <2>1, <2>3, <2>4, PlainStands
    <2>5. CASE pc' = pc
      <3>1. ~C' /\ B' = None
        BY <2>1, <2>2 DEF C, B, Has
      <3> QED BY <1>0, <2>1, <2>3, <2>5, <3>1, RecoveryStands
    <2>6. CASE pc' = back["recover"][1] /\ ~P'
      <3>1. Settled'
        BY <2>1, <2>2, <2>6 DEF Settled, B, P, U, Has
      <3> QED BY <1>0, <2>1, <2>3, <2>6, <3>1, SettledStands
    <2> QED BY <2>2, <2>4, <2>5, <2>6
  <1> QED BY <1>1, <1>2, <1>3, <1>4, <1>5 DEF RecoverStaging

\* A purge owes nothing: what is lost to it was given up when PURGE became durable.
LEMMA PurgeOwes ==
  ASSUME TypeOK, Flow, Owed, Stand, Purge, ~CommitOrphaned
  PROVE  Owed' /\ Stand'
  <1>0. /\ back["recover"][1] \in {"off", "loadState", "purged", "begin", "restoreSession"}
        /\ RecoverNo \in PlainAt /\ (load.create => load.name = Untitled)
    BY Returned DEF TypeOK, No, PlainAt, RecoverNo, Stand, Loading, OpensUntitled
  <1>1. CASE BeginPurge
    <2>1. /\ \/ pc' \in {"purgeStaging", RecoverNo}
          /\ pc = "purge" /\ load' = load
          /\ UNCHANGED <<file["staging"], file["stagingBackup"], file["pending"], file["commit"]>>
          /\ file'["purge"] # None \/ file'["purge"] = file["purge"]
          /\ kept' = IF file'["purge"] # None THEN None ELSE kept
      <3>1. CASE WriteMarker("purge", TRUE, "purgeStaging", RecoverNo)
        <4>1. "purge" \in Paths
          BY DEF Paths
        <4> QED BY <1>1, <3>1, <4>1, WriteEffect DEF BeginPurge, Others, Paths, TypeOK, locals
      <3>2. CASE Has("purge") /\ Goto("purgeStaging") /\ file' = file
        BY <1>1, <3>2 DEF BeginPurge, Goto, locals
      <3> QED BY <1>1, <3>1, <3>2 DEF BeginPurge
    <2>2. Owed'
      BY <2>1 DEF Owed, CommitOrphaned, Kept, S, B, P, C, U, Has
    <2>3. pc' \in PlainAt
      BY <1>0, <2>1 DEF PlainAt, PurgeAt
    <2> QED BY <1>0, <2>1, <2>2, <2>3, PlainStands
  <1>2. CASE ~BeginPurge
    <2>1. pc \in PurgeAt /\ U /\ UNCHANGED <<load, kept>>
      BY <1>2 DEF Purge, PurgeStaging, PurgeBackup, PurgeState, PurgeMarkers, PurgeDone, Then,
         Decide, locals, PurgeAt, Flow
    <2>2. kept = None /\ kept' = None
      BY <2>1 DEF Owed
    <2>3. CASE PurgeDone
      <3>1. /\ S = None /\ B = None /\ ~P /\ ~C
            /\ S' = None /\ B' = None /\ ~P' /\ ~C'
            /\ pc' = RecoverNo \/ (pc' = back["recover"][1] /\ ~U')
        <4>1. "purge" \in Paths
          BY DEF Paths
        <4> QED BY <2>3, <4>1, DeleteEffect
              DEF PurgeDone, Then, Others, Paths, Flow, TypeOK, S, B, P, C, U, Has
      <3>2. Owed'
        BY <2>2, <3>1 DEF Owed, Kept
      <3>3. CASE pc' = RecoverNo
        BY <1>0, <2>1, <3>2, <3>3, PlainStands
      <3>4. CASE pc' = back["recover"][1] /\ ~U'
        <4>1. Settled'
          BY <3>1, <3>4 DEF Settled
        <4> QED BY <1>0, <2>1, <3>2, <3>4, <4>1, SettledStands
      <3> QED BY <3>1, <3>3, <3>4
    <2>4. CASE ~PurgeDone
      <3>1. pc' \in PurgeAt \cup {RecoverNo} /\ file'["purge"] = file["purge"]
        <4>1. CASE PurgeStaging \/ PurgeBackup
          BY <4>1, DropEffect DEF PurgeStaging, PurgeBackup, Then, Decide, Goto, Others, Paths,
             PurgeAt, TypeOK
        <4>2. CASE PurgeState
          BY <4>2, ClearStateEffect DEF PurgeState, Then, OnlyState, State, Paths, PurgeAt, TypeOK
        <4>3. CASE PurgeMarkers
          BY <4>3, ClearMarkersEffect DEF PurgeMarkers, Then, Paths, PurgeAt, TypeOK
        <4> QED BY <1>2, <2>4, <4>1, <4>2, <4>3 DEF Purge
      <3>2. Owed'
        BY <2>1, <2>2, <3>1 DEF Owed, CommitOrphaned, Kept, P, C, U, Has
      <3>3. pc' \in PlainAt
        BY <1>0, <3>1 DEF PlainAt
      <3> QED BY <1>0, <2>1, <3>2, <3>3, PlainStands
    <2> QED BY <2>3, <2>4
  <1> QED BY <1>1, <1>2

\* A rollback on its way, or rewriting the marker before it deletes anything.
LEMMA RollbackStands ==
  ASSUME \/ pc' \in {"rollbackDrop", "rollbackRestore"}
         \/ pc' = "saveState" /\ \E no \in No \cup {"failLoad"} : back'["marker"] = <<"rollbackDrop", no>>,
         load'.create => load'.name = Untitled,
         Kept("stagingBackup")', had' => Whole("stagingBackup")'
  PROVE  Stand'
  BY DEF Stand, Loading, Recovering, RollingBack, At, Rewriting, Mark!RewriteAt, Mark!LoadAt,
         LoadingAt, OpensUntitled, No

LEMMA RolledBackStands ==
  ASSUME \/ pc' \in {"rollbackState", "rollbackMarkers"} /\ Kept("staging")'
         \/ pc' = "rolledBack" /\ ~P' /\ ~C',
         B' = None, load'.create => load'.name = Untitled
  PROVE  Stand'
  BY DEF Stand, Loading, Recovering, RollingBack, At, Rewriting, Mark!RewriteAt, Mark!LoadAt,
         LoadingAt, OpensUntitled

LEMMA RollbackOwes ==
  ASSUME TypeOK, Flow, Owed, Stand, Rollback,
         ~CommitOrphaned, ~NothingToRollBackTo, ~HalfRolledBack
  PROVE  Owed' /\ Stand'
  <1>0. /\ back["rollback"][1] \in {"off", "loadState", "purged", "begin", "restoreSession", "rolledBack"}
        /\ RollbackNo \in PlainAt /\ RollbackNo \in No \cup {"failLoad"}
        /\ (load.create => load.name = Untitled)
    BY Returned DEF TypeOK, No, PlainAt, RollbackNo, Stand, Loading, OpensUntitled
  <1>1. ~U /\ load' = load /\ (pc # "rollbackDrop" /\ C => S # Gutted)
    BY DEF Rollback, RollbackCommitted, RollbackDrop, RollbackRestore, RollbackState,
       RollbackMarkers, Then, Decide, locals, Flow, PurgeDueAt, PurgeAt, Owed
  <1>2. CASE RollbackCommitted
    <2>1. file' = file /\ pc = "rollbackCommitted"
      BY <1>2 DEF RollbackCommitted
    <2>2. CASE pc' = RollbackNo /\ kept' = kept
      <3>1. Owed'
        BY <1>1, <2>1, <2>2, SameFilesOwe DEF SameFiles
      <3> QED BY <1>0, <1>1, <2>2, <3>1, PlainStands
    <2>3. CASE Has("commit") /\ Has("pending") /\ pc' \in {"saveState", "rollbackDrop"}
               /\ kept' = (IF Whole("stagingBackup") THEN file["stagingBackup"] ELSE None)
      <3>1. pc' # RollbackNo
        BY <1>0, <2>3 DEF No
      <3>2. had' => Whole("stagingBackup")
        BY <2>1, <3>1 DEF NothingToRollBackTo
      <3>3. Owed'
        BY <1>1, <2>1, <2>3 DEF Owed, Kept, Whole, S, B, P, C, U, Has
      <3>4. Kept("stagingBackup")' /\ Whole("stagingBackup")' = Whole("stagingBackup")
        BY <2>1, <2>3 DEF Kept, Whole
      <3>5. pc' = "saveState" => back'["marker"] = <<"rollbackDrop", RollbackNo>>
        <4>1. "marker" \in DOMAIN back
          BY DEF TypeOK, BackType
        <4> QED BY <1>0, <1>2, <2>3, <4>1 DEF RollbackCommitted, Goto, Call, No
      <3> QED BY <1>0, <1>1, <2>3, <3>2, <3>3, <3>4, <3>5, RollbackStands
    <2> QED BY <1>2, <2>2, <2>3 DEF RollbackCommitted, Goto
  <1>3. CASE RollbackDrop
    <2>1. /\ pc = "rollbackDrop" /\ UNCHANGED <<had, kept>>
          /\ Kept("stagingBackup") /\ (had => Whole("stagingBackup"))
      BY <1>3 DEF RollbackDrop, Then, Decide, locals, Stand, RollingBack, At
    <2>2. /\ UNCHANGED <<file["stagingBackup"], file["pending"], file["commit"], file["purge"]>>
          /\ pc' \in {"rollbackDrop", "rollbackRestore", RollbackNo}
      BY <1>3, DropEffect DEF RollbackDrop, Then, Decide, Goto, Others, Paths, TypeOK
    <2>3. Owed'
      BY <1>1, <2>1, <2>2
      DEF Owed, HalfRolledBack, CommitOrphaned, Kept, S, B, P, C, U, Has
    <2>4. Kept("stagingBackup")' /\ (had' => Whole("stagingBackup")')
      BY <2>1, <2>2 DEF Kept, Whole
    <2>5. CASE pc' = RollbackNo
      BY <1>0, <1>1, <2>3, <2>5, PlainStands
    <2> QED BY <1>0, <1>1, <2>2, <2>3, <2>4, <2>5, RollbackStands
  <1>4. CASE RollbackRestore
    <2>1. /\ pc = "rollbackRestore" /\ UNCHANGED <<had, kept>>
          /\ Kept("stagingBackup") /\ (had => Whole("stagingBackup"))
      BY <1>4 DEF RollbackRestore, Then, Decide, locals, Stand, RollingBack, At
    <2>2. CASE SameFiles /\ (pc' = RollbackNo \/ (pc' = "rollbackState" /\ B = None))
      <3>1. Owed'
        BY <2>1, <2>2, SameFilesOwe
      <3>2. CASE pc' = RollbackNo
        BY <1>0, <1>1, <3>1, <3>2, PlainStands
      <3>3. CASE pc' = "rollbackState" /\ B = None
        <4>1. Kept("staging")' /\ B' = None
          BY <2>1, <2>2, <3>3 DEF Kept, SameFiles, B
        <4> QED BY <1>0, <1>1, <3>1, <3>3, <4>1, RolledBackStands
      <3> QED BY <2>2, <3>2, <3>3
    <2>3. CASE /\ UNCHANGED <<file["pending"], file["commit"], file["purge"]>>
               /\ had /\ S' = B /\ B' = None /\ pc' \in {"rollbackState", RollbackNo}
      <3>1. Kept("staging")' /\ S' # Gutted
        BY <2>1, <2>3 DEF Kept, Whole, S, B
      <3>2. Owed'
        BY <1>1, <2>1, <2>3, <3>1 DEF Owed, CommitOrphaned, Kept, S, B, P, C, U, Has
      <3>3. CASE pc' = RollbackNo
        BY <1>0, <1>1, <3>2, <3>3, PlainStands
      <3> QED BY <1>0, <1>1, <2>3, <3>1, <3>2, <3>3, RolledBackStands
    <2>4. CASE had
      <3>1. MoveCall("stagingBackup", "staging", "rollbackState", RollbackNo)
        BY <1>4, <2>4 DEF RollbackRestore, Then
      <3>2. {"pending", "commit", "purge"} \subseteq Paths \ {"stagingBackup", "staging"}
        BY DEF Paths
      <3> QED BY <2>1, <2>2, <2>3, <2>4, <3>1, <3>2, MoveEffect DEF SameFiles, S, B, TypeOK
    <2> QED BY <1>4, <2>1, <2>2, <2>4
          DEF RollbackRestore, Decide, Goto, SameFiles, Exists, B
  <1>5. CASE RollbackState
    <2>1. /\ pc = "rollbackState" /\ kept' = kept /\ Kept("staging") /\ B = None
      BY <1>5 DEF RollbackState, Then, Decide, locals, Stand, RollingBack
    <2>2. SameFiles /\ pc' \in {"rollbackState", "rollbackMarkers", RollbackNo}
      BY <1>5, <2>1, ClearStateEffect
      DEF RollbackState, Then, Decide, Goto, OnlyState, SameFiles, State, Paths, TypeOK
    <2>3. Owed'
      BY <2>1, <2>2, SameFilesOwe
    <2>4. Kept("staging")' /\ B' = None
      BY <2>1, <2>2 DEF Kept, SameFiles, B
    <2>5. CASE pc' = RollbackNo
      BY <1>0, <1>1, <2>3, <2>5, PlainStands
    <2> QED BY <1>0, <1>1, <2>2, <2>3, <2>4, <2>5, RolledBackStands
  <1>6. CASE RollbackMarkers
    <2>1. /\ pc = "rollbackMarkers" /\ kept' = kept /\ Kept("staging") /\ B = None
      BY <1>6 DEF RollbackMarkers, Then, locals, Stand, RollingBack
    <2>2. /\ UNCHANGED <<file["staging"], file["stagingBackup"], file["purge"]>>
          /\ \/ /\ pc' = back["rollback"][1] /\ ~P /\ ~C
                /\ UNCHANGED <<file["pending"], file["commit"]>>
             \/ /\ pc' \in {"rollbackMarkers", RollbackNo}
                /\ P' => (P /\ UNCHANGED <<file["pending"], file["commit"]>>)
                /\ C' => C
      BY <1>6, <2>1, ClearMarkersEffect DEF RollbackMarkers, Then, Paths, P, C, Has, TypeOK
    <2>3. Kept("staging")' /\ B' = None /\ ~U'
      BY <1>1, <2>1, <2>2 DEF Kept, B, U, Has
    <2>4. Owed'
      BY <1>1, <2>1, <2>2, <2>3 DEF Owed, CommitOrphaned, Kept, S, B, P, C, U, Has
    <2>5. CASE pc' = RollbackNo
      BY <1>0, <1>1, <2>4, <2>5, PlainStands
    <2>6. CASE pc' = "rollbackMarkers"
      BY <1>0, <1>1, <2>3, <2>4, <2>6, RolledBackStands
    <2>7. CASE pc' = back["rollback"][1] /\ ~P' /\ ~C'
      <3>1. CASE pc' = "rolledBack"
        BY <1>0, <1>1, <2>3, <2>4, <2>7, <3>1, RolledBackStands
      <3>2. CASE pc' # "rolledBack"
        <4>1. Settled'
          BY <2>3, <2>7 DEF Settled
        <4> QED BY <1>0, <1>1, <2>4, <2>7, <3>2, <4>1, SettledStands
      <3> QED BY <3>1, <3>2
    <2> QED BY <2>2, <2>5, <2>6, <2>7 DEF P, C, Has
  <1> QED BY <1>2, <1>3, <1>4, <1>5, <1>6 DEF Rollback

\* The marker rewritten on the way back from a failed load.
LEMMA PlainRewriteStands ==
  ASSUME pc' = "saveState", back'["marker"] = <<"rejectedLoad", "rejectedLoad">>,
         load'.create => load'.name = Untitled
  PROVE  Stand'
  BY DEF Stand, Loading, Recovering, RollingBack, At, Rewriting, Mark!RewriteAt, Mark!LoadAt,
         LoadingAt, OpensUntitled

\* What a load that goes on relies on still.
GoesOn ==
  /\ load.create => OpensUntitled
  /\ session = None \/ OpensUntitled => P \/ B = None

LEMMA GoesOnAt ==
  ASSUME Stand, pc \in LoadingAt
  PROVE  GoesOn
  BY DEF Stand, Loading, GoesOn, At

LEMMA ReplacementOwes ==
  ASSUME TypeOK, Flow, Owed, Stand, Replacement, ~CommitOrphaned
  PROVE  Owed' /\ Stand'
  <1>0. ~U /\ UNCHANGED <<load, session>> /\ (load.create => load.name = Untitled)
        /\ (C => S # Gutted)
    BY DEF Replacement, Begin, MoveAside, Abandon, Commit, CommitBackup, CommitState,
       CommitMarkers, Then, Decide, locals, Flow, PurgeDueAt, PurgeAt, Owed, Stand, Loading,
       OpensUntitled
  <1>1. CASE Begin
    <2>1. pc = "begin" /\ kept' = kept /\ Settled /\ (C => P)
      BY <1>1 DEF Begin, Stand, Loading, Owed
    <2>2. CASE SameFiles /\ pc' = "rejectedLoad"
      <3>1. Owed'
        BY <2>1, <2>2, SameFilesOwe
      <3> QED BY <1>0, <2>2, <3>1, PlainStands DEF PlainAt
    <2>3. CASE /\ ~P /\ B = None /\ file'["pending"] = [had |-> Exists("staging"), prev |-> session]
               /\ UNCHANGED <<file["staging"], file["stagingBackup"], file["commit"], file["purge"]>>
               /\ \/ pc' = "moveAside" \/ pc' = "rejectedLoad"
                  \/ pc' = "create" /\ ~Exists("staging")
      <3>1. ~C /\ Kept("staging")
        BY <2>1, <2>3 DEF Owed
      <3>2. file'["pending"].had = (S # None)
        BY <2>3 DEF Exists, S
      <3>3. Owed'
        BY <1>0, <2>1, <2>3, <3>1, <3>2 DEF Owed, Kept, S, B, P, C, U, Has
      <3>4. file'["pending"] # None
        <4>1. [had |-> Exists("staging"), prev |-> session] \in Pending
          BY DEF Exists, Pending, TypeOK
        <4> QED BY <2>3, <4>1
      <3>5. CASE pc' = "rejectedLoad"
        BY <1>0, <3>3, <3>5, PlainStands DEF PlainAt
      <3>6. CASE pc' = "moveAside"
        <4>1. ~C' /\ P' /\ B' = None
          BY <2>3, <3>1, <3>4 DEF P, C, B, Has
        <4> QED BY <1>0, <3>3, <3>6, <4>1
              DEF Stand, Loading, Recovering, RollingBack, At, Rewriting, Mark!RewriteAt,
                  Mark!LoadAt, LoadingAt, OpensUntitled
      <3>7. CASE pc' = "create" /\ ~Exists("staging")
        <4>1. ~C' /\ P' /\ Kept("stagingBackup")'
          BY <2>1, <2>3, <3>1, <3>4, <3>7 DEF Exists, Kept, P, C, Has
        <4> QED BY <1>0, <3>3, <3>7, <4>1
              DEF Stand, Loading, Recovering, RollingBack, At, Rewriting, Mark!RewriteAt,
                  Mark!LoadAt, LoadingAt, OpensUntitled
      <3> QED BY <2>3, <3>5, <3>6, <3>7
    <2>4. CASE Exists("stagingBackup")
      BY <1>1, <2>1, <2>2, <2>4 DEF Begin, Goto, SameFiles
    <2>5. CASE ~Exists("stagingBackup")
      <3> DEFINE pending == [had |-> Exists("staging"), prev |-> session]
                 next == IF pending.had THEN "moveAside" ELSE "create"
      <3>1. WriteMarker("pending", pending, next, "rejectedLoad") /\ "pending" \in Paths
        BY <1>1, <2>5 DEF Begin, Paths
      <3>2. {"staging", "stagingBackup", "commit", "purge"} \subseteq Paths \ {"pending"}
        BY DEF Paths
      <3>3. next = "moveAside" \/ (next = "create" /\ ~Exists("staging"))
        OBVIOUS
      <3> HIDE DEF next, pending
      <3>4. /\ Others("pending")
            /\ \/ pc' = next /\ ~P /\ file'["pending"] = pending
               \/ pc' = "rejectedLoad" /\ (file' = file \/ (~P /\ file'["pending"] = pending))
        BY <3>1, WriteEffect DEF TypeOK, P
      <3> QED BY <2>1, <2>2, <2>3, <2>5, <3>2, <3>3, <3>4
            DEF Others, SameFiles, pending, Exists, B
    <2> QED BY <2>4, <2>5
  <1>2. CASE MoveAside
    <2>1. pc = "moveAside" /\ kept' = kept /\ P /\ ~C /\ B = None
      BY <1>2 DEF MoveAside, Stand, Loading
    <2>2. /\ UNCHANGED <<file["pending"], file["commit"], file["purge"]>>
          /\ \/ S # None /\ B' = S /\ S' = None /\ pc' \in {"create", "abandon"}
             \/ S' = S /\ B' = B /\ pc' = "abandon"
      <3>1. {"pending", "commit", "purge"} \subseteq Paths \ {"stagingBackup", "staging"}
        BY DEF Paths
      <3> QED BY <1>2, <3>1, MoveEffect DEF MoveAside, S, B, TypeOK
    <2>3. Owed'
      BY <1>0, <2>1, <2>2 DEF Owed, Kept, S, B, P, C, U, Has
    <2>4. ~C' /\ P' /\ (pc' = "create" => Kept("stagingBackup")')
      BY <2>1, <2>2 DEF Owed, Kept, S, B, P, C, Has
    <2> QED BY <1>0, <2>2, <2>3, <2>4
          DEF Stand, Loading, Recovering, RollingBack, At, Rewriting, Mark!RewriteAt,
              Mark!LoadAt, LoadingAt, OpensUntitled
  <1>3. CASE Abandon
    <2>1. pc = "abandon" /\ kept' = kept /\ ~C
      BY <1>3 DEF Abandon, Then, Stand, Loading
    <2>2. /\ UNCHANGED <<file["staging"], file["stagingBackup"], file["commit"], file["purge"]>>
          /\ file'["pending"] \in {file["pending"], None} /\ pc' \in {"abandon", "rejectedLoad"}
      BY <1>3, <2>1, ClearMarkersEffect DEF Abandon, Then, Paths, C, Has, TypeOK
    <2>3. Owed'
      BY <1>0, <2>1, <2>2 DEF Owed, Kept, S, B, P, C, U, Has
    <2>4. CASE pc' = "rejectedLoad"
      BY <1>0, <2>3, <2>4, PlainStands DEF PlainAt
    <2>5. CASE pc' = "abandon"
      <3>1. ~C'
        BY <2>1, <2>2 DEF C, Has
      <3> QED BY <1>0, <2>3, <2>5, <3>1
            DEF Stand, Loading, Recovering, RollingBack, At, Rewriting, Mark!RewriteAt,
                Mark!LoadAt, LoadingAt, OpensUntitled
    <2> QED BY <2>2, <2>4, <2>5
  <1>4. CASE Commit
    <2>1. pc = "commit" /\ Whole("staging") /\ GoesOn
      BY <1>4, GoesOnAt DEF Commit, Stand, Loading, At, LoadingAt
    <2>2. /\ UNCHANGED <<file["staging"], file["stagingBackup"], file["pending"], file["purge"]>>
          /\ file'["commit"] = file["commit"] \/ ~C
          /\ pc' \in {"failLoad", "opened"} \/ (pc' = "commitBackup" /\ C')
      <3>1. CASE file' = file /\ ((Has("commit") /\ Goto("commitBackup")) \/ Goto(CommitNo))
        BY <3>1 DEF Goto, CommitNo, C, Has
      <3>2. CASE WriteMarker("commit", TRUE, "commitBackup", CommitNo)
        <4>1. "commit" \in Paths
              /\ {"staging", "stagingBackup", "pending", "purge"} \subseteq Paths \ {"commit"}
          BY DEF Paths
        <4>2. CommitNo \in {"failLoad", "opened"} /\ TRUE # None
          BY DEF CommitNo
        <4> QED BY <3>2, <4>1, <4>2, WriteEffect DEF Others, C, Has, TypeOK
      <3> QED BY <1>4, <3>1, <3>2 DEF Commit
    <2>3. kept' = IF C' THEN S ELSE kept
      BY <1>4, <2>1 DEF Commit, C, S, Has
    <2>4. C => C'
      BY <2>2 DEF C, Has
    <2>5. Owed'
      BY <1>0, <2>1, <2>2, <2>3, <2>4
      DEF Owed, CommitOrphaned, Kept, Whole, S, B, P, C, U, Has
    <2>6. CASE pc' = "failLoad"
      BY <1>0, <2>5, <2>6, PlainStands DEF PlainAt
    <2>7. CASE pc' # "failLoad"
      <3>1. GoesOn'
        BY <1>0, <2>1, <2>2 DEF GoesOn, OpensUntitled, P, B, Has
      <3>2. pc' = "opened" \/ (pc' = "commitBackup" /\ C' /\ Kept("staging")')
        BY <2>2, <2>3, <2>7 DEF Kept, S
      <3> QED BY <2>5, <3>1, <3>2
            DEF Stand, Loading, Recovering, RollingBack, At, Rewriting, Mark!RewriteAt,
                Mark!LoadAt, LoadingAt, GoesOn
    <2> QED BY <2>6, <2>7
  <1>5. CASE CommitBackup
    <2>1. pc = "commitBackup" /\ kept' = kept /\ C /\ Kept("staging") /\ GoesOn
      BY <1>5, GoesOnAt DEF CommitBackup, Then, Decide, Stand, Loading, LoadingAt
    <2>2. /\ UNCHANGED <<file["staging"], file["pending"], file["commit"], file["purge"]>>
          /\ B = None => B' = None
          /\ \/ pc' \in {"commitBackup", "opened"} \/ (pc' = "commitState" /\ B' = None)
      BY <1>5, <2>1, DropEffect
      DEF CommitBackup, Then, Decide, Goto, Exists, Others, Paths, B, TypeOK
    <2>3. Owed'
      BY <1>0, <2>1, <2>2 DEF Owed, CommitOrphaned, Kept, S, B, P, C, U, Has
    <2>4. GoesOn' /\ C' /\ Kept("staging")'
      BY <1>0, <2>1, <2>2 DEF GoesOn, OpensUntitled, Kept, P, C, B, Has
    <2> QED BY <2>2, <2>3, <2>4
          DEF Stand, Loading, Recovering, RollingBack, At, Rewriting, Mark!RewriteAt,
              Mark!LoadAt, LoadingAt, GoesOn
  <1>6. CASE CommitState \/ CommitMarkers
    <2>1. /\ pc \in {"commitState", "commitMarkers"} /\ kept' = kept
          /\ Kept("staging") /\ B = None /\ GoesOn
      BY <1>6, GoesOnAt DEF CommitState, CommitMarkers, Then, Stand, Loading, LoadingAt
    <2>2. /\ UNCHANGED <<file["staging"], file["stagingBackup"], file["purge"]>>
          /\ pc' \in {"commitMarkers", "opened"}
          /\ P' => (P /\ UNCHANGED <<file["pending"], file["commit"]>>)
          /\ C' => C
      <3>1. CASE CommitState
        <4>1. "stateBackup" \in Paths
              /\ {"staging", "stagingBackup", "pending", "commit", "purge"} \subseteq Paths \ {"stateBackup"}
          BY DEF Paths
        <4> QED BY <3>1, <4>1, DeleteEffect DEF CommitState, Then, Others, P, C, Has, TypeOK
      <3>2. CASE CommitMarkers
        BY <3>2, ClearMarkersEffect DEF CommitMarkers, Then, Paths, P, C, Has, TypeOK
      <3> QED BY <1>6, <3>1, <3>2
    <2>3. Owed'
      BY <1>0, <2>1, <2>2 DEF Owed, CommitOrphaned, Kept, S, B, P, C, U, Has
    <2>4. B' = None /\ Kept("staging")'
      BY <2>1, <2>2 DEF Kept, B
    <2> QED BY <1>0, <2>2, <2>3, <2>4
          DEF Stand, Loading, Recovering, RollingBack, At, Rewriting, Mark!RewriteAt,
              Mark!LoadAt, LoadingAt, OpensUntitled
  <1> QED BY <1>1, <1>2, <1>3, <1>4, <1>5, <1>6 DEF Replacement

\* A load that is asked for.
LEMMA PreflightStands ==
  ASSUME pc' = "preflight", ~begun', load'.create => load'.name = Untitled,
         \/ load'.create
         \/ /\ load'.name = Untitled /\ P' => Validates("staging")'
            /\ session' = None \/ load'.name = Untitled => P' \/ B' = None
  PROVE  Stand'
  BY DEF Stand, Loading, Recovering, RollingBack, At, Rewriting, Mark!RewriteAt, Mark!LoadAt,
         LoadingAt, OpensUntitled

\* A load that goes on, without a directory of its own or before Commit.
LEMMA GoesOnStands ==
  ASSUME \/ pc' \in {"rejected", "tryPrevious", "opened"}
         \/ pc' = "create" /\ ~C' /\ Kept("stagingBackup")'
         \/ /\ (begun' \/ (load'.name = Untitled /\ C') => Whole("staging")')
            /\ \/ pc' \in {"restore", "commitMarker", "commitTransaction"}
               \/ pc' = "commit" /\ (begun' \/ (load'.name = Untitled /\ C'))
               \/ pc' = "saveState" /\ back'["marker"] = <<"commitTransaction", "failLoad">>,
         GoesOn'
  PROVE  Stand'
  BY DEF Stand, Loading, Recovering, RollingBack, At, Rewriting, Mark!RewriteAt, Mark!LoadAt,
         LoadingAt, OpensUntitled, GoesOn

LEMMA LoadOwes ==
  ASSUME TypeOK, Flow, Owed, Stand, Load, ~CommitOrphaned
  PROVE  Owed' /\ Stand'
  <1>0. (load.create => load.name = Untitled) /\ (U => Preflight) /\ pc # "rollbackDrop"
    BY DEF Load, Create, Restore, Rejected, RolledBack, TryPrevious, FailLoad, RestoreSession,
       CommitMarker, CommitTransaction, Preflight, Flow, PurgeDueAt, PurgeAt, Stand, Loading,
       OpensUntitled
  <1>1. CASE Preflight
    <2>1. /\ pc = "preflight" /\ SameFiles /\ UNCHANGED <<load, begun, session>> /\ ~begun
          /\ pc' \in {"recover", "create", "restore", "rejectedLoad"}
          /\ pc' \in {"create", "restore"} => ~load.create
          /\ pc' = "create" => OpensUntitled /\ ~Validates("staging")
          /\ pc' = "restore" => ~(OpensUntitled /\ ~Validates("staging"))
      BY <1>0, <1>1 DEF Preflight, SameFiles, Goto, Stand, Loading, OpensUntitled
    <2>2. Owed'
      BY <2>1, SameFilesOwe
    <2>3. CASE pc' \in {"recover", "rejectedLoad"}
      BY <1>0, <2>1, <2>2, <2>3, PlainStands DEF PlainAt
    <2>4. CASE pc' \in {"create", "restore"}
      <3>1. GoesOn /\ (OpensUntitled /\ P => Validates("staging")) /\ ~U
        BY <2>1, <2>4 DEF Stand, Loading, GoesOn, Flow
      <3>2. GoesOn'
        BY <2>1, <3>1 DEF GoesOn, OpensUntitled, SameFiles, P, B, Has
      <3>3. CASE pc' = "create"
        <4>1. ~P /\ ~C /\ B = None /\ kept = None
          BY <2>1, <3>1, <3>3 DEF Owed, GoesOn, Kept, Validates, S, TypeOK
        <4>2. ~C' /\ Kept("stagingBackup")'
          BY <2>1, <4>1 DEF SameFiles, Kept, C, Has
        <4> QED BY <2>2, <3>2, <3>3, <4>2, GoesOnStands
      <3>4. CASE pc' = "restore"
        <4>1. OpensUntitled /\ C => Whole("staging")
          BY <2>1, <3>1, <3>4 DEF Owed, Validates, Whole, S
        <4>2. ~begun' /\ (load'.name = Untitled /\ C' => Whole("staging")')
          BY <2>1, <4>1 DEF SameFiles, OpensUntitled, Whole, C, Has
        <4> QED BY <2>2, <3>2, <3>4, <4>2, GoesOnStands
      <3> QED BY <2>4, <3>3, <3>4
    <2> QED BY <2>1, <2>3, <2>4
  <1>2. CASE Create
    <2>1. /\ pc = "create" /\ ~C /\ Kept("stagingBackup") /\ GoesOn
          /\ UNCHANGED <<load, begun, session, kept>>
      BY <1>2, GoesOnAt DEF Create, locals, Stand, Loading, LoadingAt
    <2>2. /\ UNCHANGED <<file["stagingBackup"], file["pending"], file["commit"], file["purge"]>>
          /\ \/ pc' \in {"create", "failLoad"}
             \/ pc' = "restore" /\ Whole("staging")'
      BY <1>2 DEF Create, Fresh, Goto, Whole, TypeOK, FileType, Paths
    <2>3. Owed'
      BY <1>0, <1>2, <2>1, <2>2 DEF Owed, Kept, S, B, P, C, U, Has, Preflight
    <2>4. GoesOn' /\ ~C' /\ Kept("stagingBackup")'
      BY <2>1, <2>2 DEF GoesOn, OpensUntitled, Kept, P, C, B, Has
    <2>5. CASE pc' = "failLoad"
      BY <1>0, <2>1, <2>3, <2>5, PlainStands DEF PlainAt
    <2> QED BY <2>2, <2>3, <2>4, <2>5, GoesOnStands
  <1>3. CASE Restore
    <2>1. /\ pc = "restore" /\ SameFiles /\ UNCHANGED <<load, begun, session>> /\ GoesOn
          /\ (begun \/ (OpensUntitled /\ C) => Whole("staging"))
          /\ pc' \in {"commitMarker", "failLoad", "rejected"}
      BY <1>3, GoesOnAt DEF Restore, SameFiles, locals, Goto, Stand, Loading, At, LoadingAt
    <2>2. Owed'
      BY <2>1, SameFilesOwe
    <2>3. GoesOn' /\ (begun' \/ (load'.name = Untitled /\ C') => Whole("staging")')
      BY <2>1 DEF SameFiles, GoesOn, OpensUntitled, Whole, P, C, B, Has
    <2>4. CASE pc' = "failLoad"
      BY <1>0, <2>1, <2>2, <2>4, PlainStands DEF PlainAt
    <2> QED BY <2>1, <2>2, <2>3, <2>4, GoesOnStands
  <1>4. CASE Rejected
    <2>1. /\ SameFiles /\ UNCHANGED <<load, session>> /\ GoesOn
          /\ pc' \in {"rollbackCommitted", "tryPrevious"}
      BY <1>4, GoesOnAt DEF Rejected, SameFiles, Goto, LoadingAt
    <2>2. Owed'
      BY <1>0, <2>1, SameFilesOwe
    <2>3. GoesOn'
      BY <2>1 DEF SameFiles, GoesOn, OpensUntitled, P, B, Has
    <2>4. CASE pc' = "rollbackCommitted"
      BY <1>0, <2>1, <2>2, <2>4, PlainStands DEF PlainAt
    <2> QED BY <2>1, <2>2, <2>3, <2>4, GoesOnStands
  <1>5. CASE RolledBack
    <2>1. pc = "rolledBack" /\ SameFiles /\ session' = session /\ ~P /\ B = None
      BY <1>5 DEF RolledBack, SameFiles, Stand, RollingBack
    <2>2. Owed'
      BY <2>1, SameFilesOwe
    <2>3. ~P' /\ B' = None
      BY <2>1 DEF SameFiles, P, B, Has
    <2>4. CASE LoadProject(prior, FALSE, FALSE)
      <3>1. pc' = "preflight" /\ ~begun' /\ ~load'.create
        BY <2>4 DEF LoadProject, Goto
      <3> QED BY <2>2, <2>3, <3>1, PreflightStands
    <2>5. CASE pc' = "tryPrevious" /\ load' = load
      <3>1. GoesOn'
        BY <1>0, <2>3, <2>5 DEF GoesOn, OpensUntitled
      <3> QED BY <2>2, <2>5, <3>1, GoesOnStands
    <2> QED BY <1>5, <2>4, <2>5 DEF RolledBack, Goto
  <1>6. CASE TryPrevious
    <2>1. pc = "tryPrevious" /\ SameFiles /\ session' = session /\ GoesOn
      BY <1>6, GoesOnAt DEF TryPrevious, SameFiles, LoadingAt
    <2>2. Owed'
      BY <2>1, SameFilesOwe
    <2>3. CASE /\ session = None /\ file["stateBackup"] \in Loadable
               /\ LoadProject(file["stateBackup"], FALSE, FALSE)
      <3>1. pc' = "preflight" /\ ~begun' /\ ~load'.create /\ load'.name \in Loadable
        BY <2>3 DEF LoadProject, Goto
      <3>2. P' \/ B' = None
        BY <2>1, <2>3 DEF GoesOn, SameFiles, P, B, Has
      <3>3. load'.name = Untitled => Validates("staging")'
        BY <2>1, <3>1 DEF Loadable, SameFiles, Validates
      <3> QED BY <2>2, <3>1, <3>2, <3>3, PreflightStands
    <2>4. CASE pc' = "failLoad" /\ load' = load
      BY <1>0, <2>2, <2>4, PlainStands DEF PlainAt
    <2> QED BY <1>6, <2>3, <2>4 DEF TryPrevious, Goto
  <1>7. CASE FailLoad
    <2>1. SameFiles /\ load' = load /\ pc' \in {"recover", "restoreSession"}
      BY <1>7 DEF FailLoad, SameFiles, Goto
    <2> QED BY <1>0, <2>1, SameFilesOwe, PlainStands DEF PlainAt
  <1>8. CASE RestoreSession
    <2>1. SameFiles /\ load' = load
          /\ \/ pc' = "rejectedLoad"
             \/ pc' = "saveState" /\ back'["marker"] = <<"rejectedLoad", "rejectedLoad">>
      BY <1>8 DEF RestoreSession, Decide, SaveProjectState, SameFiles, Goto, locals, Call,
         TypeOK, BackType
    <2> QED BY <1>0, <2>1, SameFilesOwe, PlainStands, PlainRewriteStands DEF PlainAt
  <1>9. CASE CommitMarker
    <2>1. /\ pc = "commitMarker" /\ SameFiles /\ UNCHANGED <<load, begun, session>> /\ GoesOn
          /\ (begun \/ (OpensUntitled /\ C) => Whole("staging"))
          /\ pc' = "saveState" /\ back'["marker"] = <<"commitTransaction", "failLoad">>
      BY <1>9, GoesOnAt DEF CommitMarker, SaveProjectState, SameFiles, Goto, Call, TypeOK,
         BackType, Stand, Loading, At, LoadingAt
    <2>2. Owed'
      BY <2>1, SameFilesOwe
    <2>3. GoesOn' /\ (begun' \/ (load'.name = Untitled /\ C') => Whole("staging")')
      BY <2>1 DEF SameFiles, GoesOn, OpensUntitled, Whole, P, C, B, Has
    <2> QED BY <2>1, <2>2, <2>3, GoesOnStands
  <1>10. CASE CommitTransaction
    <2>1. /\ pc = "commitTransaction" /\ SameFiles /\ UNCHANGED <<load, begun, session>> /\ GoesOn
          /\ (begun \/ (OpensUntitled /\ C) => Whole("staging"))
          /\ pc' = "opened" \/ (pc' = "commit" /\ (begun \/ (OpensUntitled /\ C)))
      BY <1>10, GoesOnAt DEF CommitTransaction, SameFiles, Goto, OpensUntitled, C, Has, Stand,
         Loading, At, LoadingAt
    <2>2. Owed'
      BY <2>1, SameFilesOwe
    <2>3. /\ GoesOn' /\ (begun' \/ (load'.name = Untitled /\ C') => Whole("staging")')
          /\ pc' = "commit" => begun' \/ (load'.name = Untitled /\ C')
      BY <2>1 DEF SameFiles, GoesOn, OpensUntitled, Whole, P, C, B, Has
    <2> QED BY <2>1, <2>2, <2>3, GoesOnStands
  <1> QED BY <1>1, <1>2, <1>3, <1>4, <1>5, <1>6, <1>7, <1>8, <1>9, <1>10 DEF Load

LEMMA CallerOwes ==
  ASSUME TypeOK, Flow, Owed, Stand, ~CommitOrphaned, ~HalfRolledBack, ~PointerElsewhere,
         \/ DropMarker \/ Purged \/ Selected \/ RejectedLoad \/ Opened
         \/ Boot \/ NewProject \/ OpenProject \/ Finish \/ Crash
  PROVE  Owed' /\ Stand'
  <1>0. load.create => load.name = Untitled
    BY DEF Stand, Loading, OpensUntitled
  <1>1. CASE DropMarker
    <2>1. "current" \in Paths
          /\ {"staging", "stagingBackup", "pending", "commit", "purge"} \subseteq Paths \ {"current"}
      BY DEF Paths
    <2>2. pc = "dropMarker" /\ pc' = "purge" /\ SameFiles /\ load' = load
      BY <1>1, <2>1, DeleteEffect DEF DropMarker, Then, Others, SameFiles, locals, TypeOK
    <2> QED BY <1>0, <2>2, SameFilesOwe, PlainStands DEF PlainAt
  <1>2. CASE Purged \/ Boot
    <2>1. pc \in {"purged", "off"} /\ pc' \in {"recover", "dropMarker"} /\ SameFiles /\ load' = load
      BY <1>2 DEF Purged, Boot, Goto, SameFiles
    <2> QED BY <1>0, <2>1, SameFilesOwe, PlainStands DEF PlainAt
  <1>3. CASE Selected
    <2>1. /\ pc \in {"loaded", "loadFailed"} /\ SameFiles /\ session' = session
          /\ pc' = "preflight" /\ ~begun'
          /\ load'.create = (pc = "loadFailed") /\ load'.name = answer'
          /\ pc = "loadFailed" => answer' = Untitled
      BY <1>3 DEF Selected, LoadProject, Goto, SameFiles
    <2>2. Owed'
      BY <2>1, SameFilesOwe
    <2>3. pc = "loaded" => (P' => Validates("staging")') /\ (P' \/ B' = None)
      BY <2>1 DEF Stand, Loading, Settled, SameFiles, Validates, P, B, Has
    <2> QED BY <2>1, <2>2, <2>3, PreflightStands
  <1>4. CASE RejectedLoad
    <2>1. /\ pc = "rejectedLoad" /\ SameFiles
          /\ \/ pc' = "preflight" /\ ~begun' /\ load'.create /\ load'.name = Untitled
             \/ pc' \in {"failed", "dead"} /\ load' = load
      BY <1>4 DEF RejectedLoad, LoadProject, Goto, SameFiles, locals
    <2> QED BY <1>0, <2>1, SameFilesOwe, PlainStands, PreflightStands DEF PlainAt
  <1>5. CASE Opened
    <2>1. pc = "opened" /\ pc' = "done" /\ file' = file /\ load' = load /\ GoesOn
      BY <1>5, GoesOnAt DEF Opened, Goto, LoadingAt, locals
    <2>2. ~U
      BY <2>1 DEF Flow, PurgeDueAt, PurgeAt
    <2>3. kept' = kept \/ (kept' = S /\ OpensUntitled /\ (P => C))
      BY <1>5 DEF Opened, OpensUntitled, S, P, C, Has
    <2>4. (kept' = S /\ OpensUntitled /\ (P => C) /\ ~C) => (~P /\ B = None)
      BY <2>1 DEF GoesOn
    <2>5. Owed'
      BY <2>1, <2>2, <2>3, <2>4 DEF Owed, CommitOrphaned, Kept, S, B, P, C, U, Has
    <2> QED BY <1>0, <2>1, <2>5, PlainStands DEF PlainAt
  <1>6. CASE NewProject
    <2>1. pc = "idle" /\ SameFiles /\ pc' = "preflight" /\ ~begun' /\ load'.create
          /\ load'.name = Untitled
      BY <1>6 DEF NewProject, LoadProject, Goto, SameFiles
    <2> QED BY <2>1, SameFilesOwe, PreflightStands
  <1>7. CASE OpenProject
    <2>1. pc = "idle" /\ SameFiles /\ pc' = "preflight" /\ ~begun' /\ ~load'.create
          /\ load'.name # Untitled /\ session' # None
      BY <1>7 DEF OpenProject, LoadProject, Goto, SameFiles, Stand, Loading
    <2> QED BY <2>1, SameFilesOwe, PreflightStands
  <1>8. CASE Finish
    <2>1. pc \in {"done", "failed"} /\ pc' = "idle" /\ SameFiles /\ session' # None /\ ~load'.create
      BY <1>8 DEF Finish, Goto, SameFiles, Park, NoLoad, PointerElsewhere
    <2>2. Stand'
      BY <2>1 DEF Stand, Loading, Recovering, RollingBack, At, Rewriting, Mark!RewriteAt,
         Mark!LoadAt, LoadingAt
    <2> QED BY <2>1, <2>2, SameFilesOwe
  <1>9. CASE Crash
    <2>1. pc' = "off" /\ SameFiles /\ ~load'.create /\ (pc = "rollbackDrop" => S # Gutted)
      BY <1>9 DEF Crash, Goto, SameFiles, Park, NoLoad, HalfRolledBack, S
    <2> QED BY <2>1, SameFilesOwe, PlainStands DEF PlainAt
  <1> QED BY <1>1, <1>2, <1>3, <1>4, <1>5, <1>6, <1>7, <1>8, <1>9

\* What must be there after any step that does not derail the phase markers.
LEMMA NextOwes ==
  ASSUME TypeOK, Flow, Owed, Stand, Next, ~Derails
  PROVE  Owed' /\ Stand'
  <1>1. /\ ~CommitOrphaned /\ ~NothingToRollBackTo /\ ~HalfRolledBack /\ ~PointerElsewhere
    BY DEF Derails
  <1>2. CASE MarkerStep \/ MarkerReturns \/ RecoverStaging \/ Purge
    BY <1>1, <1>2, MarkerOwes, RecoverOwes, PurgeOwes
  <1>3. CASE Rollback \/ Replacement \/ Load
    BY <1>1, <1>3, RollbackOwes, ReplacementOwes, LoadOwes
  <1> QED BY <1>1, <1>2, <1>3, CallerOwes DEF Next, Procedures

-----------------------------------------------------------------------------
(* The boot: the marker procedures, call by call. *)

\* Deleting one of the marker files, with or without a look whether it is there.
LEMMA MarkDeleted ==
  ASSUME FileType, NEW p \in State, NEW yes, NEW no,
         Mark!DropIfPresent(p, yes, no) \/ Mark!DeleteOr(p, yes, no)
  PROVE  /\ \A q \in State \ {p} : file'[q] = file[q]
         /\ file'[p] \in {None, file[p]}
         /\ (pc' = yes /\ file'[p] = None) \/ pc' = no
         /\ calm /\ (file[p] # None \/ Mark!DropIfPresent(p, yes, no)) =>
              pc' = yes /\ file'[p] = None
         /\ UNCHANGED <<args, answer, calm>>
  BY DEF FileType, State, Paths, Mark!DropIfPresent, Mark!DeleteOr, Mark!DeleteCall, Mark!Delete,
     Mark!Without, Mark!Exists, Mark!Branch, Mark!Goto, Mark!markerFrame

\* Renaming one to another.
LEMMA MarkMoved ==
  ASSUME FileType, NEW p \in State, NEW q \in State, p # q, NEW yes, NEW no,
         Mark!RenameOr(p, q, yes, no)
  PROVE  /\ \A r \in State \ {p, q} : file'[r] = file[r]
         /\ \/ file'[q] = file[p] /\ file[p] # None /\ file'[p] = None /\ pc' \in {yes, no}
            \/ file'[p] = file[p] /\ file'[q] = file[q] /\ pc' = no
         /\ calm /\ file[p] # None /\ file[q] = None =>
              file'[q] = file[p] /\ file'[p] = None /\ pc' = yes
         /\ UNCHANGED <<args, answer, calm>>
  BY DEF FileType, State, Paths, Mark!RenameOr, Mark!MoveCall, Mark!Move, Mark!Moved,
     Mark!MayRefuse, Mark!Exists, Mark!Branch, Mark!Goto, Mark!markerFrame

\* The rename that replaces the marker, whose failure is told apart by what is left.
LEMMA MarkReplaced ==
  ASSUME FileType, Mark!ReplaceState
  PROVE  /\ Bak' = Bak
         /\ \/ Cur' = Temp /\ Temp # None /\ Temp' = None
            \/ Cur' = Cur /\ Temp' = Temp
         /\ \/ pc' = "saved" /\ args.retain /\ Cur' = Temp /\ Temp # None
            \/ pc' = "cleanStateBackup" /\ ~args.retain /\ Cur' = Temp /\ Temp # None
            \/ pc' = "dropStateTemp" /\ Cur' = None
            \/ pc' = "removeCurrent" /\ Cur' # None /\ args.retain
            \/ pc' = "compareMarkers" /\ Cur' # None /\ Bak # None /\ ~args.retain
            \/ pc' = "keepCurrent" /\ Cur' # None /\ Bak = None /\ ~args.retain
         /\ calm /\ Temp # None =>
              pc' # "dropStateTemp" /\ (pc' \notin {"saved", "cleanStateBackup"} => Temp' = Temp)
         /\ UNCHANGED <<args, answer, calm>>
  BY DEF FileType, State, Paths, Mark!ReplaceState, Mark!Move, Mark!Moved, Mark!MayRefuse,
     Mark!Exists, Mark!Goto, Mark!markerFrame, Cur, Temp, Bak

\* A rewrite keeps the way back open, and a calm one that fits ends well.
LEMMA RewriteKeeps ==
  ASSUME TypeOK, Mark!SaveProjectState, NameCarried, Rewritten, Undoing => Fits(Prev),
         Undoing' = Undoing, Prev' = Prev
  PROVE  /\ NameCarried' /\ Rewritten' /\ (Undoing' => Fits(Prev)') /\ args' = args
         /\ calm /\ pc \notin FaultAt /\ CalmRewrite => pc' \notin FaultAt /\ CalmRewrite'
  <1> USE DEF NameCarried, Rewritten, Fits, Rewriting, RetainAt, CalmRewrite, FaultAt,
          Mark!RewriteAt
  <1>0. "current" \in State /\ "stateTemp" \in State /\ "stateBackup" \in State /\ FileType
        /\ args.name # None /\ args.retain \in BOOLEAN
    BY DEF State, TypeOK, LocalsType, Name
  <1>1. CASE Mark!RetainPrevious
    <2>1. /\ pc = "saveState" /\ pc' \in {"clearStateTemp", "saveFailed"} /\ UNCHANGED <<args, Cur, Temp>>
          /\ Bak' \in {Bak, args.prev}
          /\ args.retain /\ args.prev # None /\ pc' = "clearStateTemp" => Bak' = args.prev
          /\ Bak' # Bak => args.retain
          /\ calm /\ (args.retain => args.prev = None) => pc' = "clearStateTemp" /\ Bak' = Bak
      BY <1>0, <1>1 DEF Mark!RetainPrevious, Mark!Goto, Mark!Exists, Mark!markerFrame, FileType,
         Paths, Cur, Temp, Bak
    <2>2. Undoing => Prev # None
      BY DEF Undoing
    <2> QED BY <1>0, <2>1, <2>2
  <1>2. CASE Mark!ClearStateTemp
    BY <1>0, <1>2, MarkDeleted DEF Mark!ClearStateTemp, Cur, Temp, Bak
  <1>3. CASE Mark!WriteState
    <2>1. /\ pc = "writeState" /\ pc' \in {"sealState", "saveFailed"} /\ UNCHANGED <<args, Cur, Bak>>
          /\ calm => pc' = "sealState"
      BY <1>0, <1>3 DEF Mark!WriteState, Mark!Goto, Mark!markerFrame, FileType, Paths, Cur, Bak
    <2> QED BY <1>0, <2>1
  <1>4. CASE Mark!SealState
    <2>1. /\ pc = "sealState" /\ UNCHANGED <<args, Cur, Bak>>
          /\ pc' = "dropStateTemp" \/ (pc' = "replaceState" /\ Temp' = args.name)
          /\ calm => pc' = "replaceState"
      BY <1>0, <1>4 DEF Mark!SealState, Mark!Goto, Mark!markerFrame, FileType, Paths, Cur, Temp, Bak
    <2> QED BY <1>0, <2>1
  <1>5. CASE Mark!DropStateTemp
    BY <1>0, <1>5, MarkDeleted DEF Mark!DropStateTemp, Cur, Temp, Bak
  <1>6. CASE Mark!ReplaceState
    <2>1. pc = "replaceState"
      BY <1>6 DEF Mark!ReplaceState
    <2> QED BY <1>0, <1>6, <2>1, MarkReplaced
  <1>7. CASE Mark!CleanStateBackup
    BY <1>0, <1>7, MarkDeleted DEF Mark!CleanStateBackup, Cur, Temp, Bak
  <1>8. CASE Mark!RemoveCurrent
    BY <1>0, <1>8, MarkDeleted DEF Mark!RemoveCurrent, Cur, Temp, Bak
  <1>9. CASE Mark!InstallState
    BY <1>0, <1>9, MarkMoved DEF Mark!InstallState, Cur, Temp, Bak
  <1>10. CASE Mark!CompareMarkers
    <2>1. /\ pc = "compareMarkers" /\ UNCHANGED <<args, Cur, Temp, Bak>>
          /\ \/ pc' = "sameDropTemp" /\ Cur = args.name
             \/ pc' = "fallbackRemove" /\ Bak = args.name
             \/ pc' = "dropStateTemp" /\ (calm => Cur # args.name /\ Bak # args.name)
      BY <1>10 DEF Mark!CompareMarkers, Mark!Goto, Mark!markerFrame, Cur, Temp, Bak
    <2> QED BY <1>0, <2>1
  <1>11. CASE Mark!SameDropTemp
    BY <1>0, <1>11, MarkDeleted DEF Mark!SameDropTemp, Cur, Temp, Bak
  <1>12. CASE Mark!SameDropBackup
    BY <1>0, <1>12, MarkDeleted DEF Mark!SameDropBackup, Cur, Temp, Bak
  <1>13. CASE Mark!SameDropBackupAnyway
    BY <1>0, <1>13, MarkDeleted DEF Mark!SameDropBackupAnyway, Cur, Temp, Bak
  <1>14. CASE Mark!FallbackRemove
    BY <1>0, <1>14, MarkDeleted DEF Mark!FallbackRemove, Cur, Temp, Bak
  <1>15. CASE Mark!FallbackInstall
    BY <1>0, <1>15, MarkMoved DEF Mark!FallbackInstall, Cur, Temp, Bak
  <1>16. CASE Mark!FallbackDropTemp
    BY <1>0, <1>16, MarkDeleted DEF Mark!FallbackDropTemp, Cur, Temp, Bak
  <1>17. CASE Mark!KeepCurrent
    BY <1>0, <1>17, MarkMoved DEF Mark!KeepCurrent, Cur, Temp, Bak
  <1>18. CASE Mark!SwapState
    BY <1>0, <1>18, MarkMoved DEF Mark!SwapState, Cur, Temp, Bak
  <1>19. CASE Mark!RestoreState
    BY <1>0, <1>19, MarkMoved DEF Mark!RestoreState, Cur, Temp, Bak
  <1>20. CASE Mark!DropKept
    BY <1>0, <1>20, MarkDeleted DEF Mark!DropKept, Cur, Temp, Bak
  <1> QED BY <1>1, <1>2, <1>3, <1>4, <1>5, <1>6, <1>7, <1>8, <1>9, <1>10, <1>11, <1>12, <1>13,
            <1>14, <1>15, <1>16, <1>17, <1>18, <1>19, <1>20 DEF Mark!SaveProjectState

\* A calm boot that reads the marker ends with one that fits, or starts from nothing.
LEMMA ReadKeeps ==
  ASSUME TypeOK, Owed, Settled, Mark!LoadCurrentProjectName, calm, CalmRead, pc \notin FaultAt
  PROVE  /\ pc' \notin FaultAt /\ CalmRead'
         /\ pc' = "loadFailed" => Blank'
  <1> USE DEF CalmRead, Fits, FaultAt
  <1>0. "current" \in State /\ "stateTemp" \in State /\ "stateBackup" \in State /\ FileType
    BY DEF State, TypeOK
  <1>1. CASE Mark!LoadState
    <2>1. CASE Cur # None
      BY <1>1, <2>1 DEF Mark!LoadState, Mark!Goto, Mark!Exists, Cur
    <2>2. CASE Cur = None /\ Temp # None
      <3> DEFINE no == IF Mark!Exists("stateBackup") THEN "recoverFromBackup" ELSE "loadFailed"
      <3>1. Mark!RenameOr("stateTemp", "current", "readCurrent", no)
        BY <1>1, <2>2 DEF Mark!LoadState, Mark!RenameOr, Mark!Exists, Cur, Temp
      <3> HIDE DEF no
      <3> QED BY <1>0, <2>2, <3>1, MarkMoved DEF Cur, Temp
    <2>3. CASE Cur = None /\ Temp = None
      <3>1. Bak # None /\ Mark!RenameOr("stateBackup", "current", "readCurrent", "loadFailed")
        BY <1>1, <2>3 DEF Mark!LoadState, Mark!RenameOr, Mark!Exists, Cur, Temp, Bak
      <3> QED BY <1>0, <2>3, <3>1, MarkMoved DEF Cur, Bak
    <2> QED BY <2>1, <2>2, <2>3
  <1>2. CASE Mark!SelectExistingUntitled
    <2>1. /\ Cur = None /\ file' = file /\ pc = "loadState"
          /\ \/ pc' = "loaded"
             \/ pc' = "loadFailed" /\ ~Validates("staging")
      BY <1>2 DEF Mark!SelectExistingUntitled, Mark!Marker, Mark!Exists, Mark!Goto, Cur, Loadable
    <2>2. ~Validates("staging") => Blank
      BY <2>1 DEF Settled, Owed, Blank
    <2> QED BY <2>1, <2>2 DEF Blank, Cur, B, P, C, U, Has
  <1>3. CASE Mark!RecoverFromBackup
    BY <1>3 DEF Mark!RecoverFromBackup
  <1>4. CASE Mark!ReadCurrent \/ Mark!RereadBackup \/ Mark!RereadTemp
    BY <1>4 DEF Mark!ReadCurrent, Mark!RereadBackup, Mark!RereadTemp, Mark!ReadValidState,
       Mark!Goto, Cur
  <1>5. CASE Mark!DropStale
    <2>1. pc = "dropStale" /\ pc' = "loaded" /\ UNCHANGED <<answer, Cur>>
      BY <1>0, <1>5, MarkDeleted DEF Mark!DropStale, Cur, State
    <2> QED BY <1>0, <2>1
  <1>6. CASE Mark!RetryBackup
    <2>1. pc' = "installBackup" /\ Cur' = None
      BY <1>0, <1>6, MarkDeleted DEF Mark!RetryBackup, Cur, State
    <2> QED BY <1>0, <2>1
  <1>7. CASE Mark!InstallBackup
    <2>1. pc' \in {"rereadBackup", "retryTemp"}
      BY <1>0, <1>7, MarkMoved DEF Mark!InstallBackup, State
    <2> QED BY <1>0, <2>1
  <1>8. CASE Mark!RetryTemp
    <2>1. pc' = "giveUp" \/ (pc' = "installTemp" /\ Cur' = None)
      BY <1>0, <1>8, MarkDeleted DEF Mark!RetryTemp, Mark!Goto, Cur, State
    <2> QED BY <1>0, <2>1
  <1>9. CASE Mark!InstallTemp
    <2>1. pc' \in {"rereadTemp", "giveUp"}
      BY <1>0, <1>9, MarkMoved DEF Mark!InstallTemp, State
    <2> QED BY <1>0, <2>1
  <1>10. CASE Mark!GiveUp
    <2>1. pc' = "giveUpTemp" /\ Cur' = None
      BY <1>0, <1>10, MarkDeleted DEF Mark!GiveUp, Cur, State
    <2> QED BY <1>0, <2>1
  <1>11. CASE Mark!GiveUpTemp
    <2>1. pc = "giveUpTemp" /\ pc' = "fallBack" /\ Cur' = Cur
      BY <1>0, <1>11, MarkDeleted DEF Mark!GiveUpTemp, Cur, State
    <2> QED BY <1>0, <2>1
  <1>12. CASE Mark!FallBack
    BY <1>12 DEF Mark!FallBack, Mark!Goto, Cur
  <1> QED BY <1>1, <1>2, <1>3, <1>4, <1>5, <1>6, <1>7, <1>8, <1>9, <1>10, <1>11, <1>12
          DEF Mark!LoadCurrentProjectName

-----------------------------------------------------------------------------
(* The boot: the steps of the marker procedures and their returns. *)

\* The labels a recovery or a rollback returns to go together.
LEMMA Pairs ==
  ASSUME BackType
  PROVE  /\ back["recover"][1] = "off" <=> RecoverNo = "off"
         /\ back["recover"][1] = "loadState" <=> RecoverNo = "loadFailed"
         /\ back["recover"][1] = "purged" <=> RecoverNo = "purged"
         /\ back["recover"][1] = "begin" <=> RecoverNo = "rejectedLoad"
         /\ back["recover"][1] = "restoreSession" <=> RecoverNo = "restoreSession"
         /\ back["rollback"][1] = "off" <=> RollbackNo = "off"
         /\ back["rollback"][1] = "loadState" <=> RollbackNo = "loadFailed"
         /\ back["rollback"][1] = "purged" <=> RollbackNo = "purged"
         /\ back["rollback"][1] = "begin" <=> RollbackNo = "rejectedLoad"
         /\ back["rollback"][1] = "restoreSession" <=> RollbackNo = "restoreSession"
         /\ back["rollback"][1] = "rolledBack" <=> RollbackNo = "failLoad"
         /\ RecoverNo \in {"off", "loadFailed", "purged", "rejectedLoad", "restoreSession"}
         /\ RollbackNo \in {"off", "loadFailed", "purged", "rejectedLoad", "restoreSession", "failLoad"}
  BY DEF BackType, RecoverBack, RollbackBack, RecoverNo, RollbackNo

\* The places of the marker's two procedures.
LEMMA Rewrites ==
  /\ Rewriting => /\ pc \notin RecoverAt \cup RollbackAt \cup PurgeAt \cup LoadingAt \cup BeginsAt
                  /\ pc \notin Mark!LoadAt \cup {"loaded", "loadFailed", "dropMarker", "purge",
                                                "purged", "dead", "idle", "moveAside", "preflight",
                                                "failLoad", "restoreSession", "off", "done", "begin"}
  /\ Rewriting' => /\ pc' \notin RecoverAt \cup RollbackAt \cup PurgeAt \cup LoadingAt \cup BeginsAt
                   /\ pc' \notin Mark!LoadAt \cup {"loaded", "loadFailed", "dropMarker", "purge",
                                                 "purged", "dead", "idle", "moveAside", "preflight",
                                                 "failLoad", "restoreSession", "off", "done", "begin"}
  BY DEF Rewriting, Mark!RewriteAt, Mark!LoadAt, RecoverAt, RollbackAt, PurgeAt, LoadingAt, BeginsAt

\* The files of the transaction.
OwnFiles == UNCHANGED <<S, B, file["pending"], file["commit"], file["purge"]>>

LEMMA OwnFilesKeep ==
  ASSUME OwnFiles
  PROVE  /\ UNCHANGED <<S, B, P, C, U, Prev, Undone, Undoing, Validates("staging"), Whole("staging")>>
         /\ UNCHANGED <<Whole("stagingBackup"), file["pending"].had>>
  BY DEF OwnFiles, S, B, P, C, U, Has, Prev, Undone, Undoing, Validates, Whole

\* A rewrite that goes on changes nothing but the marker.
LEMMA RewriteSound ==
  ASSUME TypeOK, Ready, Marked, CalmBoot, Mark!SaveProjectState,
         UNCHANGED <<load, begun, had, back, stage, session, calm>>
  PROVE  Ready' /\ Marked' /\ CalmBoot'
  <1>1. /\ OnlyState /\ Rewriting /\ Rewriting'
    BY RewriteEffect DEF Rewriting, RewriteAt
  <1>2. OwnFiles
    BY <1>1 DEF OnlyState, OwnFiles, State, Paths, S, B
  <1>3. UNCHANGED <<S, B, P, C, U, Prev, Undone, Undoing, RecoverNo, RollbackNo, OpensUntitled>>
    BY <1>2, OwnFilesKeep DEF RecoverNo, RollbackNo, OpensUntitled
  <1>4. ASSUME NEW labels, labels \in {RecoverAt, RollbackAt, LoadingAt, BeginsAt,
                    {"rollbackDrop", "rollbackRestore"}, {"dropCandidate", "adoptBackup", "restorePointer"}}
        PROVE  At(labels)' => At(labels)
    <2>1. pc' \notin labels
      BY <1>1, <1>4, Rewrites DEF RollbackAt, RecoverAt
    <2> QED BY <1>1, <2>1 DEF At
  <1>5. Called'
    BY <1>1, <1>3, <1>4, Rewrites DEF Ready, Called, Booting
  <1>6. Sessions'
    BY <1>1, <1>3, Rewrites DEF Ready, Sessions
  <1>7. Undoable' /\ Finding'
    BY <1>1, <1>2, <1>3, <1>4, Rewrites DEF Ready, Undoable, Finding, OwnFiles, RecoverAt, RollbackAt
  <1>8. Beginning'
    BY <1>1, <1>3, <1>4, Rewrites DEF Ready, Beginning, LoadingAt, BeginsAt
  <1>9. /\ NameCarried' /\ Rewritten' /\ (Undoing' => Fits(Prev)') /\ args' = args
        /\ calm /\ pc \notin FaultAt /\ CalmRewrite => pc' \notin FaultAt /\ CalmRewrite'
    BY <1>3, RewriteKeeps DEF Marked, Pointing
  <1>10. Pointing'
    BY <1>1, <1>3, <1>9, Rewrites DEF Marked, Pointing, LoadingAt, RollbackAt
  <1>11. CalmBoot'
    <2>1. SUFFICES ASSUME calm', stage' # "user"
                   PROVE  /\ pc' \notin FaultAt /\ (Rewriting' => CalmRewrite') /\ CalmRead' /\ CalmWay'
      BY DEF CalmBoot
    <2>2. calm /\ stage # "user" /\ pc \notin FaultAt /\ CalmRewrite /\ CalmWay
      BY <1>1, <2>1 DEF CalmBoot
    <2>3. CalmRead'
      BY <1>1, Rewrites DEF CalmRead, Mark!LoadAt
    <2>4. CalmWay'
      BY <1>1, <1>3, <1>4, <2>2, Rewrites DEF CalmWay, RecoverAt, RollbackAt, LoadingAt
    <2> QED BY <1>9, <2>2, <2>3, <2>4
  <1> QED BY <1>5, <1>6, <1>7, <1>8, <1>9, <1>10, <1>11 DEF Ready, Marked

\* A rewrite that has ended: where it came from, and where it goes.
LEMMA Returning ==
  ASSUME TypeOK, Ready, MarkerReturns
  PROVE  /\ Rewriting /\ ~Rewriting' /\ pc \in {"saved", "saveFailed"} /\ file' = file
         /\ UNCHANGED <<args, answer, load, begun, had, prior, back, stage, session>>
         /\ back["marker"][1] \in {"rejectedLoad", "commitTransaction", "clearMarkers", "rollbackDrop"}
         /\ \/ pc = "saved" /\ pc' = back["marker"][1]
            \/ pc = "saveFailed" /\ pc' = back["marker"][2]
         /\ back["marker"][1] = "clearMarkers" => back["marker"][2] = RecoverNo
         /\ back["marker"][1] = "rollbackDrop" => back["marker"][2] = RollbackNo
         /\ pc' = "loadFailed" =>
              /\ pc = "saveFailed" /\ stage # "user"
              /\ \/ back["marker"][1] = "clearMarkers" /\ back["recover"][1] = "loadState"
                 \/ back["marker"][1] = "rollbackDrop" /\ back["rollback"][1] = "loadState"
         /\ pc' = "purged" =>
              \/ back["marker"][1] = "clearMarkers" /\ back["recover"][1] = "purged"
              \/ back["marker"][1] = "rollbackDrop" /\ back["rollback"][1] = "purged"
         /\ pc' = "failLoad" =>
              \/ back["marker"][1] = "commitTransaction"
              \/ back["marker"][1] = "rollbackDrop" /\ back["rollback"][1] = "rolledBack" /\ session = None
         /\ pc' = "restoreSession" => back["marker"][1] = "clearMarkers"
         /\ pc' \in {"clearMarkers", "rollbackDrop", "commitTransaction"} =>
              back["marker"][1] = pc' /\ pc = "saved"
         /\ pc' \in {"loadFailed", "purged", "failLoad", "restoreSession", "clearMarkers",
                     "rollbackDrop", "commitTransaction", "rejectedLoad"}
  <1>1. /\ Rewriting /\ pc \in {"saved", "saveFailed"}
        /\ \/ pc = "saved" /\ pc' = back["marker"][1]
           \/ pc = "saveFailed" /\ pc' = back["marker"][2]
        /\ file' = file /\ UNCHANGED <<args, answer, load, begun, had, prior, back, stage, session>>
    BY DEF MarkerReturns, Returns, Goto, locals, Rewriting
  <1>2. /\ back["marker"][1] \in {"rejectedLoad", "commitTransaction", "clearMarkers", "rollbackDrop"}
        /\ back["marker"][1] = "rejectedLoad" => back["marker"][2] = "rejectedLoad"
        /\ back["marker"][1] = "commitTransaction" => back["marker"][2] = "failLoad"
        /\ back["marker"][1] = "clearMarkers" => back["marker"][2] = RecoverNo
        /\ back["marker"][1] = "rollbackDrop" => back["marker"][2] = RollbackNo
    BY <1>1 DEF TypeOK, BackType, MarkerBack, Ready, Called
  <1>3. /\ RecoverNo \in {"loadFailed", "purged", "rejectedLoad", "restoreSession"}
            \/ back["marker"][1] # "clearMarkers"
        /\ RollbackNo \in {"loadFailed", "purged", "rejectedLoad", "failLoad"}
            \/ back["marker"][1] # "rollbackDrop"
    BY <1>1, Pairs DEF TypeOK, Ready, Called, At, RecoverAt, RollbackAt
  <1>4. pc' = "loadFailed" =>
          /\ pc = "saveFailed"
          /\ \/ back["marker"][1] = "clearMarkers" /\ back["recover"][1] = "loadState"
             \/ back["marker"][1] = "rollbackDrop" /\ back["rollback"][1] = "loadState"
    BY <1>1, <1>2, Pairs DEF TypeOK
  <1>5. pc' = "loadFailed" => stage # "user"
    BY <1>1, <1>4 DEF Ready, Called, Booting, At, RecoverAt, RollbackAt, BootReturn
  <1>6. pc' = "failLoad" =>
          \/ back["marker"][1] = "commitTransaction"
          \/ back["marker"][1] = "rollbackDrop" /\ back["rollback"][1] = "rolledBack"
    BY <1>1, <1>2, <1>3, Pairs DEF TypeOK
  <1>7. back["marker"][1] = "rollbackDrop" /\ back["rollback"][1] = "rolledBack" => session = None
    BY <1>1 DEF Ready, Finding, At, RollbackAt
  <1>8. pc' \in {"loadFailed", "purged", "failLoad", "restoreSession", "clearMarkers",
                 "rollbackDrop", "commitTransaction", "rejectedLoad"}
    BY <1>1, <1>2, <1>3
  <1>9. ~Rewriting'
    BY <1>8 DEF Rewriting, Mark!RewriteAt
  <1>10. pc' = "restoreSession" => back["marker"][1] = "clearMarkers"
    BY <1>1, <1>2, <1>3
  <1>11. pc' = "purged" =>
           \/ back["marker"][1] = "clearMarkers" /\ back["recover"][1] = "purged"
           \/ back["marker"][1] = "rollbackDrop" /\ back["rollback"][1] = "purged"
    BY <1>1, <1>2, Pairs DEF TypeOK
  <1> QED BY <1>1, <1>2, <1>3, <1>4, <1>5, <1>6, <1>7, <1>8, <1>9, <1>10, <1>11

\* A rewrite that has ended returns to its caller.
LEMMA ReturnSound ==
  ASSUME TypeOK, Stand, Ready, Marked, CalmBoot, MarkerReturns, calm' = calm
  PROVE  Ready' /\ Marked' /\ CalmBoot'
  <1>1. /\ Rewriting /\ pc \in {"saved", "saveFailed"}
        /\ \/ pc = "saved" /\ pc' = back["marker"][1]
           \/ pc = "saveFailed" /\ pc' = back["marker"][2]
        /\ file' = file /\ UNCHANGED <<args, answer, load, begun, had, prior, back, stage, session>>
    BY Returning
  <1>2. UNCHANGED <<S, B, P, C, U, Prev, Undone, Undoing, RecoverNo, RollbackNo, OpensUntitled,
                    Cur, Temp, Bak, Whole("staging"), Validates("staging")>>
    BY <1>1 DEF S, B, P, C, U, Has, Prev, Undone, Undoing, RecoverNo, RollbackNo, OpensUntitled,
       Cur, Temp, Bak, Whole, Validates
  <1>3. /\ back["marker"][1] \in {"rejectedLoad", "commitTransaction", "clearMarkers", "rollbackDrop"}
        /\ back["marker"][1] = "clearMarkers" => back["marker"][2] = RecoverNo
        /\ back["marker"][1] = "rollbackDrop" => back["marker"][2] = RollbackNo
    BY Returning
  <1>4. ASSUME NEW labels
        PROVE  At(labels)' => At(labels)
    BY <1>1, <1>2 DEF At, Rewriting
  <1>5. /\ pc' = "loadFailed" => \/ back["marker"][1] = "clearMarkers" /\ back["recover"][1] = "loadState"
                                 \/ back["marker"][1] = "rollbackDrop" /\ back["rollback"][1] = "loadState"
        /\ pc' = "purged" => \/ back["marker"][1] = "clearMarkers" /\ back["recover"][1] = "purged"
                             \/ back["marker"][1] = "rollbackDrop" /\ back["rollback"][1] = "purged"
        /\ pc' = "failLoad" => \/ back["marker"][1] = "commitTransaction"
                               \/ back["marker"][1] = "rollbackDrop" /\ back["rollback"][1] = "rolledBack"
        /\ pc' = "restoreSession" => back["marker"][1] = "clearMarkers"
        /\ pc' = "clearMarkers" => back["marker"][1] = "clearMarkers" /\ pc = "saved"
        /\ pc' = "rollbackDrop" => back["marker"][1] = "rollbackDrop" /\ pc = "saved"
        /\ pc' = "commitTransaction" => pc = "saved"
        /\ pc' \in {"loadFailed", "purged", "failLoad", "restoreSession", "clearMarkers",
                    "rollbackDrop", "commitTransaction", "rejectedLoad"}
    BY Returning
  <1>6. Called'
    BY <1>1, <1>2, <1>4, <1>5 DEF Ready, Called, Booting, At, RecoverAt, RollbackAt, BootReturn,
       PurgeAt, Rewriting, Mark!RewriteAt, Mark!LoadAt
  <1>7. Sessions' /\ Undoable'
    BY <1>1, <1>2, <1>5, Rewrites DEF Ready, Sessions, Undoable
  <1>8. Beginning'
    <2>1. pc' \in {"failLoad", "restoreSession"} /\ session # None /\ Undoing => ~C
      BY <1>1, <1>5 DEF Ready, Beginning, Finding, Stand, Recovering, At, LoadingAt, RollbackAt
    <2> QED BY <1>1, <1>2, <1>4, <1>5, <2>1 DEF Ready, Beginning
  <1>9. Finding'
    BY <1>1, <1>2, <1>4, <1>5 DEF Ready, Finding
  <1>10. ~Rewriting'
    BY <1>5 DEF Rewriting, Mark!RewriteAt
  <1>11. NameCarried' /\ Rewritten'
    BY <1>5, <1>10 DEF NameCarried, Rewritten
  <1>12. Pointing'
    <2>1. pc' = "rollbackDrop" /\ P /\ Prev # None => Cur = Prev
      BY <1>1, <1>5 DEF Marked, Pointing, NameCarried
    <2> QED BY <1>2, <1>5, <1>10, <2>1 DEF Marked, Pointing, Fits
  <1>13. CalmBoot'
    <2>1. SUFFICES ASSUME calm', stage' # "user"
                   PROVE  pc' \notin FaultAt /\ CalmRead' /\ CalmWay'
      BY <1>10 DEF CalmBoot
    <2>2. stage # "user" /\ CalmWay /\ pc \notin FaultAt
      BY <1>1, <2>1 DEF CalmBoot
    <2>3. pc' \in {"clearMarkers", "rollbackDrop", "commitTransaction"}
      BY <1>1, <1>3, <2>2 DEF CalmWay, FaultAt
    <2> QED BY <1>1, <1>2, <1>4, <1>5, <1>10, <2>2, <2>3 DEF CalmWay, CalmRead, FaultAt, PurgeAt
  <1> QED BY <1>6, <1>7, <1>8, <1>9, <1>11, <1>12, <1>13 DEF Ready, Marked

\* A boot that reads the marker has nothing to take back.
LEMMA ReadSound ==
  ASSUME TypeOK, Owed, Stand, Ready, CalmBoot, Mark!LoadCurrentProjectName,
         UNCHANGED <<load, begun, had, back, stage, session, calm>>
  PROVE  Ready' /\ Marked' /\ CalmBoot'
  <1>1. /\ OnlyState /\ pc \in Mark!LoadAt /\ pc' \in Mark!LoadAt \cup {"loaded", "loadFailed"}
    BY ReadEffect DEF ReadAt
  <1>2. OwnFiles
    BY <1>1 DEF OnlyState, OwnFiles, State, Paths, S, B
  <1>3. UNCHANGED <<S, B, P, C, U, Prev, Undone, Undoing, RecoverNo, RollbackNo, OpensUntitled>>
    BY <1>2, OwnFilesKeep DEF RecoverNo, RollbackNo, OpensUntitled
  <1>4. ~Rewriting' /\ Settled /\ ~Undone
    BY <1>1 DEF Rewriting, Mark!RewriteAt, Mark!LoadAt, Stand, Loading, Settled, Undone
  <1>5. Called'
    BY <1>1, <1>3, <1>4 DEF Ready, Called, Booting, At, RecoverAt, RollbackAt, PurgeAt, Mark!LoadAt
  <1>6. Sessions' /\ Undoable'
    BY <1>1, <1>2, <1>3, <1>4 DEF Ready, Sessions, Undoable, OwnFiles, Mark!LoadAt
  <1>7. Beginning' /\ Finding'
    BY <1>1, <1>3, <1>4 DEF Beginning, Finding, At, LoadingAt, BeginsAt, RollbackAt, Undoing, Mark!LoadAt
  <1>8. Marked'
    BY <1>1, <1>3, <1>4 DEF Marked, NameCarried, Rewritten, Pointing, Undoing, Mark!LoadAt
  <1>9. CalmBoot'
    <2>1. SUFFICES ASSUME calm', stage' # "user"
                   PROVE  pc' \notin FaultAt /\ CalmRead' /\ CalmWay'
      BY <1>4 DEF CalmBoot
    <2>2. /\ pc' \notin FaultAt /\ CalmRead'
          /\ pc' = "loadFailed" => Blank'
      BY <1>4, <2>1, ReadKeeps DEF CalmBoot
    <2> QED BY <1>1, <1>4, <2>2
          DEF CalmWay, At, RecoverAt, RollbackAt, PurgeAt, Mark!LoadAt
  <1> QED BY <1>5, <1>6, <1>7, <1>8, <1>9 DEF Ready

LEMMA MarkerSound ==
  ASSUME TypeOK, Owed, Stand, Ready, Marked, CalmBoot, MarkerStep \/ MarkerReturns, calm' = calm
  PROVE  Ready' /\ Marked' /\ CalmBoot'
  BY RewriteSound, ReturnSound, ReadSound DEF MarkerStep

-----------------------------------------------------------------------------
(* What there is to show of a step, by the place it comes to.  Sessions and   *)
(* Undoable do not depend on the place.                                       *)

Rest == Called /\ Beginning /\ Finding /\ Marked /\ CalmBoot
Quiet == calm /\ stage # "user"

\* The way back is open as far as it does not depend on the place.
Open == Undoing => Fits(Prev)

LEMMA RecoverRest ==
  ASSUME pc' \in RecoverAt, Open',
         back'["recover"][1] # "off", back'["recover"][1] \in BootReturn => stage' # "user",
         pc' = "recover" /\ back'["recover"][1] = "restoreSession" => ~C',
         pc' = "adoptBackup" => S' = None /\ B' # None,
         Quiet' => /\ back'["recover"][1] # "restoreSession"
                   /\ back'["recover"][1] = "begin" => Blank' /\ pc' \in {"recover", "clearMarkers"}
  PROVE  Rest'
  <1> USE DEF At, Rewriting, Mark!RewriteAt, RecoverAt, RollbackAt, PurgeAt, LoadingAt, BeginsAt
  <1>1. Called'
    BY DEF Called, Booting, Mark!LoadAt
  <1>2. Beginning' /\ Finding'
    BY DEF Beginning, Finding
  <1>3. Marked'
    BY DEF Marked, NameCarried, Rewritten, Pointing, Open
  <1>4. CalmBoot'
    BY DEF CalmBoot, CalmRead, CalmWay, FaultAt, Quiet
  <1> QED BY <1>1, <1>2, <1>3, <1>4 DEF Rest

LEMMA PurgeRest ==
  ASSUME pc' \in PurgeAt \cup {"purge", "dropMarker"}, Open',
         back'["recover"][1] # "off",
         pc' \in {"purge", "dropMarker"} \/ back'["recover"][1] \in BootReturn => stage' # "user",
         Quiet' /\ pc' \in PurgeAt => back'["recover"][1] # "begin"
  PROVE  Rest'
  <1> USE DEF At, Rewriting, Mark!RewriteAt, RecoverAt, RollbackAt, PurgeAt, LoadingAt, BeginsAt
  <1>1. Called'
    BY DEF Called, Booting, Mark!LoadAt
  <1>2. Beginning' /\ Finding'
    BY DEF Beginning, Finding
  <1>3. Marked'
    BY DEF Marked, NameCarried, Rewritten, Pointing, Open
  <1>4. CalmBoot'
    BY DEF CalmBoot, CalmRead, CalmWay, FaultAt, Quiet
  <1> QED BY <1>1, <1>2, <1>3, <1>4 DEF Rest

RestAt == {"off", "loadState", "loadFailed", "purged", "begin", "rejectedLoad", "restoreSession",
           "failLoad", "abandon", "done", "failed", "dead", "idle"}

LEMMA PlainRest ==
  ASSUME pc' \in RestAt, Open',
         pc' \in {"loadState", "loadFailed", "purged", "dead"} => stage' # "user",
         pc' = "idle" => ~Undone',
         pc' \in {"failLoad", "restoreSession"} /\ session' # None /\ Undoing' => ~C',
         Quiet' => pc' \notin FaultAt /\ (pc' \in {"loadFailed", "begin"} => Blank')
  PROVE  Rest'
  <1> USE DEF At, Rewriting, Mark!RewriteAt, RecoverAt, RollbackAt, PurgeAt, LoadingAt, BeginsAt,
          RestAt
  <1>1. Called'
    BY DEF Called, Booting, Mark!LoadAt
  <1>2. Beginning' /\ Finding'
    BY DEF Beginning, Finding
  <1>3. Marked'
    BY DEF Marked, NameCarried, Rewritten, Pointing, Open
  <1>4. CalmBoot'
    BY DEF CalmBoot, CalmRead, CalmWay, Quiet
  <1> QED BY <1>1, <1>2, <1>3, <1>4 DEF Rest

LEMMA RollbackRest ==
  ASSUME pc' \in RollbackAt, Open',
         back'["rollback"][1] \notin {"off", "restoreSession"},
         back'["rollback"][1] \in BootReturn => stage' # "user",
         back'["rollback"][1] = "rolledBack" => session' = None,
         pc' \in {"rollbackDrop", "rollbackRestore"} => C' /\ (had' \/ B' = None),
         pc' = "rollbackRestore" => S' = None,
         pc' = "rollbackDrop" /\ P' /\ Prev' # None => Cur' = Prev',
         Quiet' => /\ back'["rollback"][1] \in BootReturn
                   /\ pc' = "rollbackCommitted" => P' /\ C' /\ ~Validates("staging")'
  PROVE  Rest'
  <1> USE DEF At, Rewriting, Mark!RewriteAt, RecoverAt, RollbackAt, PurgeAt, LoadingAt, BeginsAt
  <1>1. Called'
    BY DEF Called, Booting, Mark!LoadAt
  <1>2. Beginning' /\ Finding'
    BY DEF Beginning, Finding
  <1>3. Marked'
    BY DEF Marked, NameCarried, Rewritten, Pointing, Open
  <1>4. CalmBoot'
    BY DEF CalmBoot, CalmRead, CalmWay, FaultAt, Quiet
  <1> QED BY <1>1, <1>2, <1>3, <1>4 DEF Rest

LEMMA LoadRest ==
  ASSUME pc' \in LoadingAt, Open',
         Undoing' => begun' /\ session' = Prev' /\ ~C',
         pc' \in BeginsAt /\ begun' /\ had' => B' # None,
         pc' \in {"commitBackup", "commitState", "commitMarkers"} /\ P' => C' /\ Whole("staging")',
         pc' \in {"restore", "rejected"} /\ load'.name = Untitled /\ session' # None => ~C',
         pc' \in {"create", "restore", "commitMarker"} /\ Undoing' => Cur' = Prev',
         Quiet' => /\ pc' \notin FaultAt
                   /\ pc' \in {"create", "restore", "commitMarker"} => Fits(load.name)'
  PROVE  Rest'
  <1> USE DEF At, Rewriting, Mark!RewriteAt, RecoverAt, RollbackAt, PurgeAt, LoadingAt, BeginsAt
  <1>1. Called'
    BY DEF Called, Booting, Mark!LoadAt
  <1>2. Beginning' /\ Finding'
    BY DEF Beginning, Finding, OpensUntitled
  <1>3. Marked'
    BY DEF Marked, NameCarried, Rewritten, Pointing, Open
  <1>4. CalmBoot'
    BY DEF CalmBoot, CalmRead, CalmWay, Quiet
  <1> QED BY <1>1, <1>2, <1>3, <1>4 DEF Rest

LEMMA PreflightRest ==
  ASSUME pc' = "preflight", Open',
         ~load'.create => ~Undoing',
         load'.name = Untitled /\ session' # None => load'.create,
         Quiet' => IF load'.create THEN Blank' ELSE Fits(load.name)'
  PROVE  Rest'
  <1> USE DEF At, Rewriting, Mark!RewriteAt, RecoverAt, RollbackAt, PurgeAt, LoadingAt, BeginsAt
  <1>1. Called'
    BY DEF Called, Booting, Mark!LoadAt
  <1>2. Beginning' /\ Finding'
    BY DEF Beginning, Finding, OpensUntitled
  <1>3. Marked'
    BY DEF Marked, NameCarried, Rewritten, Pointing, Open
  <1>4. CalmBoot'
    BY DEF CalmBoot, CalmRead, CalmWay, FaultAt, Quiet
  <1> QED BY <1>1, <1>2, <1>3, <1>4 DEF Rest

LEMMA MoveAsideRest ==
  ASSUME pc' = "moveAside", Open',
         had', S' # None, file'["pending"].had, Prev' = session',
         session' # None => Cur' = session',
         Quiet' => Fits(load.name)'
  PROVE  Rest'
  <1> USE DEF At, Rewriting, Mark!RewriteAt, RecoverAt, RollbackAt, PurgeAt, LoadingAt, BeginsAt
  <1>1. Called'
    BY DEF Called, Booting, Mark!LoadAt
  <1>2. Beginning' /\ Finding'
    BY DEF Beginning, Finding, OpensUntitled
  <1>3. Marked'
    BY DEF Marked, NameCarried, Rewritten, Pointing, Open
  <1>4. CalmBoot'
    BY DEF CalmBoot, CalmRead, CalmWay, FaultAt, Quiet
  <1> QED BY <1>1, <1>2, <1>3, <1>4 DEF Rest

\* The four calls of SaveProjectState_.
LEMMA SaveRest ==
  ASSUME pc' = "saveState", Open', args'.retain \in BOOLEAN,
         \/ /\ back'["marker"] = <<"clearMarkers", RecoverNo'>>
            /\ back'["recover"][1] # "off" /\ (back'["recover"][1] \in BootReturn => stage' # "user")
            /\ Quiet' => back'["recover"][1] \notin {"begin", "restoreSession"}
         \/ /\ back'["marker"] = <<"rollbackDrop", RollbackNo'>>
            /\ back'["rollback"][1] \notin {"off", "restoreSession"}
            /\ back'["rollback"][1] \in BootReturn => stage' # "user"
            /\ back'["rollback"][1] = "rolledBack" => session' = None
            /\ C' /\ (had' \/ B' = None)
            /\ P' /\ Prev' # None => args'.name = Prev' /\ ~args'.retain
            /\ Quiet' => back'["rollback"][1] \in BootReturn
         \/ back'["marker"] = <<"rejectedLoad", "rejectedLoad">> /\ ~Quiet'
         \/ /\ back'["marker"] = <<"commitTransaction", "failLoad">>
            /\ Undoing' => begun' /\ session' = Prev' /\ ~C'
            /\ begun' /\ had' => B' # None,
         Undoing' => IF args'.retain THEN args'.prev = Prev' /\ Cur' = Prev' ELSE args'.name = Prev',
         Quiet' => (args'.retain => args'.prev = None) /\ (args'.retain \/ Fits(args.name)')
  PROVE  Rest'
  <1> USE DEF At, Rewriting, Mark!RewriteAt, RecoverAt, RollbackAt, PurgeAt, LoadingAt, BeginsAt
  <1>1. Called'
    BY DEF Called, Booting, Mark!LoadAt, BootReturn
  <1>2. Beginning' /\ Finding'
    BY DEF Beginning, Finding, OpensUntitled
  <1>3. Marked'
    BY DEF Marked, NameCarried, Rewritten, Pointing, Open, RetainAt
  <1>4. CalmBoot'
    BY DEF CalmBoot, CalmRead, CalmWay, CalmRewrite, FaultAt, Quiet
  <1> QED BY <1>1, <1>2, <1>3, <1>4 DEF Rest

-----------------------------------------------------------------------------
(* The boot: the steps of each procedure. *)

\* No call of a calm operation is refused without need.
LEMMA CalmCalls ==
  ASSUME FileType, calm, NEW yes, NEW no
  PROVE  /\ \A p \in Paths : DeleteCall(p, yes, no) => pc' = yes
         /\ \A p \in Paths : DeleteProject(p, yes, no) => pc' \in {yes, pc}
         /\ \A p, q \in Paths :
              MoveCall(p, q, yes, no) /\ file[p] # None /\ file[q] = None => pc' = yes
         /\ \A m \in Paths : \A contents :
              WriteMarker(m, contents, yes, no) /\ ~Has(m) => pc' = yes
         /\ ClearMarkers(yes, no) => pc' \in {yes, pc}
         /\ ClearState(yes, no) => pc' \in {yes, pc}
  <1>1. /\ \A p \in Paths : DeleteCall(p, yes, no) => pc' = yes
        /\ \A p \in Paths : DeleteProject(p, yes, no) => pc' \in {yes, pc}
    BY DEF DeleteCall, DeleteProject, Delete, Exists, Branch, Goto
  <1>2. \A p, q \in Paths :
          MoveCall(p, q, yes, no) /\ file[p] # None /\ file[q] = None => pc' = yes
    BY DEF MoveCall, Move, MayRefuse, Exists, Branch, Goto
  <1>3. \A m \in Paths : \A contents :
          WriteMarker(m, contents, yes, no) /\ ~Has(m) => pc' = yes
    BY DEF WriteMarker, Has, Goto
  <1>4. ASSUME NEW files, DeleteEach(files, yes, no)
        PROVE  pc' \in {yes, pc}
    <2>1. ASSUME NEW p, Exists(p), NEW done \in BOOLEAN, Delete(p, done), Branch(done, pc, no)
          PROVE  pc' = pc
      BY <2>1 DEF Delete, Branch, Goto
    <2>2. CASE \E i \in DOMAIN files :
                 /\ Exists(files[i]) /\ \A j \in 1 .. i - 1 : ~Exists(files[j])
                 /\ \E done \in BOOLEAN :
                       Delete(files[i], done) /\ Branch(done, pc, no)
      <3>1. PICK i \in DOMAIN files, done \in BOOLEAN :
                Exists(files[i]) /\ Delete(files[i], done) /\ Branch(done, pc, no)
        BY <2>2
      <3>2. pc' = pc
        BY <2>1, <3>1
      <3> QED BY <3>2
    <2> QED BY <1>4, <2>2 DEF DeleteEach, Goto
  <1> QED BY <1>1, <1>2, <1>3, <1>4 DEF ClearMarkers, ClearState

\* A marker file is deleted or stays as it is.
LEMMA ClearStateKeeps ==
  ASSUME FileType, NEW yes, NEW no, ClearState(yes, no)
  PROVE  /\ OwnFiles /\ \A p \in State : file'[p] \in {file[p], None}
         /\ \A name : Fits(name) => Cur' \in {None, name} \/ Bak' \in {None, name}
  <1> DEFINE files == <<"current", "stateTemp", "stateBackup">>
  <1>1. DOMAIN files = 1..3 /\ \A i \in 1..3 : files[i] \in State
    BY DEF State
  <1>2. file' = file \/ \E i \in DOMAIN files : file' = Without(files[i])
    BY DEF ClearState, DeleteEach, Delete
  <1>3. \A p \in State : file'[p] \in {file[p], None}
    BY <1>1, <1>2 DEF Without, FileType, State, Paths
  <1>4. OwnFiles
    BY ClearStateEffect DEF OnlyState, OwnFiles, State, Paths, S, B
  <1> QED BY <1>3, <1>4 DEF State, Fits, Cur, Bak

\* What a step that leaves the transaction as it is keeps of it.
LEMMA SessionsKept ==
  ASSUME Ready, UNCHANGED <<session, stage>>, pc # "done", pc' # "off",
         P' /\ ~C' => P /\ ~C /\ Prev' = Prev
  PROVE  Sessions'
  BY DEF Ready, Sessions

LEMMA UndoableKept ==
  ASSUME Ready, UNCHANGED <<S, B>>, P' => file'["pending"] = file["pending"],
         P' /\ ~C' /\ ~U' => ~C /\ ~U
  PROVE  Undoable'
  BY DEF Ready, Undoable, P, Has

LEMMA Resting ==
  ASSUME Sessions', Undoable', Rest'
  PROVE  Ready' /\ Marked' /\ CalmBoot'
  BY DEF Ready, Rest

LEMMA QuietWay ==
  ASSUME CalmBoot, Quiet
  PROVE  pc \notin FaultAt /\ (Rewriting => CalmRewrite) /\ CalmRead /\ CalmWay
  BY DEF CalmBoot, Quiet

LEMMA RecoverCalled ==
  ASSUME TypeOK, Ready, pc \in RecoverAt \cup PurgeAt
  PROVE  /\ back["recover"][1] \in {"loadState", "purged", "begin", "restoreSession"}
         /\ RecoverNo \in {"loadFailed", "purged", "rejectedLoad", "restoreSession"}
         /\ back["recover"][1] \in BootReturn => stage # "user"
         /\ RecoverNo \in {"loadFailed", "purged"} => stage # "user"
  <1>1. back["recover"][1] # "off"
    BY DEF Ready, Called, At
  <1>2. back["recover"][1] \in BootReturn => stage # "user"
    BY DEF Ready, Called, At, Booting
  <1>3. back["recover"][1] \in {"loadState", "purged", "begin", "restoreSession"}
    BY <1>1 DEF TypeOK, BackType, RecoverBack
  <1> QED BY <1>1, <1>2, <1>3, Pairs DEF TypeOK, BootReturn

\* A recovery that ends with a failure leaves the way back open.
LEMMA RecoverFails ==
  ASSUME TypeOK, Ready, pc \in RecoverAt \cup PurgeAt, pc' = RecoverNo, stage' = stage, Open',
         Quiet' => pc' = "purged", pc' = "restoreSession" => ~C'
  PROVE  Rest'
  <1>1. RecoverNo \in {"loadFailed", "purged", "rejectedLoad", "restoreSession"}
        /\ (RecoverNo \in {"loadFailed", "purged"} => stage # "user")
    BY RecoverCalled
  <1> QED BY <1>1, PlainRest DEF RestAt, FaultAt

LEMMA RecoverSound ==
  ASSUME TypeOK, Flow, Owed, Stand, Ready, Marked, CalmBoot, RecoverStaging, calm' = calm
  PROVE  Ready' /\ Marked' /\ CalmBoot'
  <1>1. /\ pc \in RecoverAt /\ UNCHANGED <<session, stage, load, begun, had>>
        /\ pc # "done" /\ pc \notin FaultAt /\ FileType
    BY DEF RecoverStaging, Recover, DropCandidate, AdoptBackup, RestorePointer, ClearPhase,
       SaveProjectState, Then, locals, RecoverAt, FaultAt, TypeOK
  <1>2. /\ back["recover"][1] \in {"loadState", "purged", "begin", "restoreSession"}
        /\ RecoverNo \in {"loadFailed", "purged", "rejectedLoad", "restoreSession"}
        /\ back["recover"][1] \in BootReturn => stage # "user"
        /\ RecoverNo \in {"loadFailed", "purged"} => stage # "user"
    BY <1>1, RecoverCalled
  <1>3. Open
    BY DEF Marked, Pointing, Open
  <1>4. Quiet => /\ CalmWay
                 /\ back["recover"][1] # "restoreSession"
                 /\ pc \in {"recover", "clearMarkers"} /\ back["recover"][1] = "begin" => Blank
                 /\ pc \notin {"recover", "clearMarkers"} => back["recover"][1] # "begin"
    BY <1>1, QuietWay DEF CalmWay, At, RecoverAt
  <1>5. Quiet' = Quiet
    BY <1>1 DEF Quiet
  <1>6. CASE Recover
    <2>1. /\ pc = "recover" /\ file' = file /\ OwnFiles
          /\ UNCHANGED <<Open, C, P, U, S, B, Prev, Undone, Undoing, Validates("staging"), Blank>>
      BY <1>6 DEF Recover, OwnFiles, Open, C, P, U, S, B, Prev, Undone, Undoing, Validates, Fits,
         Cur, Bak, Has, Blank
    <2>2. pc' # "off"
      BY <1>2, <1>6 DEF Recover, Returns, Goto, RecoverNo, Phase
    <2>3. Sessions' /\ Undoable'
      BY <1>1, <2>1, <2>2, SessionsKept, UndoableKept
    <2>4. Phase # "no"
      BY DEF Phase, Ready, Undoable, Exists, Has, P, C, U, S, B
    <2>5. C => P
      BY <2>1 DEF Owed
    <2>6. CASE pc' = back["recover"][1] /\ Phase = "yes" /\ back' = back
      <3>1. C /\ ~U /\ ~Undone
        BY <2>5, <2>6 DEF Phase, Undone, C, U
      <3> QED BY <1>1, <1>2, <1>3, <1>4, <1>5, <2>1, <2>3, <2>6, <3>1, PlainRest, Resting
            DEF RestAt, FaultAt, Undoing, BootReturn
    <2>7. CASE /\ pc' = "rollbackCommitted" /\ C
               /\ ~Validates("staging") \/ ~calm
               /\ back'["rollback"] = back["recover"]
      <3>1. back["recover"][1] # "restoreSession"
        BY <2>1, <2>7 DEF Ready, Finding
      <3>2. Quiet => back["recover"][1] # "begin" /\ ~Validates("staging")
        BY <1>4, <2>1, <2>7 DEF Blank, Quiet
      <3>3. Rest'
        BY <1>1, <1>2, <1>3, <1>5, <2>1, <2>5, <2>7, <3>1, <3>2, RollbackRest
        DEF RollbackAt, BootReturn
      <3> QED BY <2>3, <3>3, Resting
    <2>8. CASE pc' = Phase /\ Phase \notin {"yes", "no", "rollback"} /\ back' = back
      <3>1. CASE Phase = "purgeStaging"
        <4>1. U /\ (Quiet => back["recover"][1] # "begin")
          BY <1>4, <2>1, <3>1 DEF Phase, Blank, U
        <4>2. Rest'
          BY <1>1, <1>2, <1>3, <1>5, <2>1, <2>8, <3>1, <4>1, PurgeRest DEF PurgeAt, BootReturn
        <4> QED BY <2>3, <4>2, Resting
      <3>2. CASE Phase # "purgeStaging"
        <4>1. /\ Phase \in {"dropCandidate", "adoptBackup", "restorePointer", "clearMarkers"}
              /\ Phase = "adoptBackup" => S = None /\ B # None
              /\ Blank => Phase = "clearMarkers"
          BY <2>8, <3>2 DEF Phase, Blank, Exists, Has, P, C, U, S, B
        <4>2. Rest'
          BY <1>1, <1>2, <1>3, <1>4, <1>5, <2>1, <2>8, <4>1, RecoverRest DEF RecoverAt
        <4> QED BY <2>3, <4>2, Resting
      <3> QED BY <3>1, <3>2
    <2>9. CASE pc' = RecoverNo /\ ~calm /\ back' = back
      <3>1. RecoverNo = "restoreSession" => ~C
        BY <2>1, Pairs DEF TypeOK, Ready, Finding
      <3>2. Rest'
        BY <1>1, <1>3, <1>5, <2>1, <2>9, <3>1, RecoverFails DEF Quiet
      <3> QED BY <2>3, <3>2, Resting
    <2>10. CASE back' = Call("rollback", back["recover"][1], back["recover"][2])
                /\ pc' = "rollbackCommitted" /\ (Phase = "rollback" \/ (Phase = "yes" /\ ~calm))
      <3>1. C /\ (~Validates("staging") \/ ~calm)
        BY <2>10 DEF Phase, C
      <3>2. back'["rollback"] = back["recover"]
        BY <2>10, BackEffect DEF TypeOK, BackType, RecoverBack
      <3> QED BY <2>7, <2>10, <3>1, <3>2
    <2> QED BY <1>6, <2>4, <2>6, <2>8, <2>9, <2>10 DEF Recover, Returns, Goto, RecoverNo
  <1>7. CASE ~Recover
    <2>1. pc \in {"dropCandidate", "adoptBackup", "restorePointer", "clearMarkers"}
      BY <1>7 DEF RecoverStaging, DropCandidate, AdoptBackup, RestorePointer, ClearPhase
    <2>2. ~C /\ ~U
      BY <2>1 DEF Flow, PurgeDueAt, PurgeAt, Stand, Recovering, At
    <2>3. CASE DropCandidate
      <3>1. /\ pc = "dropCandidate" /\ (P \/ B # None) /\ (B = None => ~file["pending"].had)
            /\ DeleteProject("staging", IF Exists("stagingBackup") THEN "adoptBackup" ELSE "restorePointer",
                             RecoverNo)
            /\ UNCHANGED locals
        BY <2>3 DEF DropCandidate, Then, Flow, Stand, Recovering
      <3> DEFINE yes == IF Exists("stagingBackup") THEN "adoptBackup" ELSE "restorePointer"
      <3>2. /\ Others("staging")
            /\ \/ pc' = pc
               \/ pc' = yes /\ S' = None
               \/ pc' = RecoverNo
            /\ calm => pc' \in {yes, pc}
        BY <1>1, <3>1, DropEffect, CalmCalls DEF S, Paths
      <3>3. yes \in {"adoptBackup", "restorePointer"} /\ (yes = "adoptBackup" <=> B # None)
        BY DEF Exists, B
      <3> HIDE DEF yes
      <3>4. UNCHANGED <<B, Cur, Bak, file["pending"], P, C, U, Prev, back>>
        BY <3>1, <3>2 DEF Others, Paths, B, Cur, Bak, P, C, U, Prev, Has, locals
      <3>5. Sessions' /\ Undoable' /\ Open'
        BY <1>1, <1>2, <1>3, <2>2, <3>1, <3>2, <3>3, <3>4, SessionsKept
        DEF Ready, Undoable, Open, Undoing, Undone, Fits
      <3>6. CASE pc' = RecoverNo
        BY <1>1, <1>2, <1>5, <2>2, <3>1, <3>2, <3>3, <3>4, <3>5, <3>6, RecoverFails, Resting DEF Quiet
      <3>7. CASE pc' # RecoverNo
        BY <1>1, <1>2, <1>4, <1>5, <3>1, <3>2, <3>3, <3>4, <3>5, <3>7, RecoverRest, Resting
        DEF RecoverAt
      <3> QED BY <3>6, <3>7
    <2>4. CASE AdoptBackup
      <3> DEFINE yes == IF Has("pending") THEN "restorePointer" ELSE "clearMarkers"
      <3>1. /\ pc = "adoptBackup" /\ S = None /\ B # None
            /\ MoveCall("stagingBackup", "staging", yes, RecoverNo)
            /\ UNCHANGED locals
        BY <2>4 DEF AdoptBackup, Then, Ready, Finding
      <3>2. yes \in {"restorePointer", "clearMarkers"}
        OBVIOUS
      <3> HIDE DEF yes
      <3>3. /\ \/ S' = B /\ B' = None /\ pc' \in {yes, RecoverNo}
               \/ S' = S /\ B' = B /\ pc' = RecoverNo
            /\ UNCHANGED <<Cur, Bak, file["pending"], P, C, U, Prev, back>>
        BY <1>1, <3>1, MoveEffect DEF S, B, Paths, Cur, Bak, P, C, U, Prev, Has, locals
      <3>4. calm => pc' = yes
        <4>1. {"staging", "stagingBackup"} \subseteq Paths
          BY DEF Paths
        <4> QED BY <1>1, <3>1, <4>1, CalmCalls DEF S, B
      <3>5. Sessions' /\ Undoable' /\ Open'
        BY <1>1, <1>2, <1>3, <2>2, <3>1, <3>2, <3>3, SessionsKept
        DEF Ready, Undoable, Open, Undoing, Undone, Fits
      <3>6. CASE pc' = RecoverNo
        BY <1>1, <1>2, <1>5, <2>2, <3>1, <3>2, <3>3, <3>4, <3>5, <3>6, RecoverFails, Resting DEF Quiet
      <3>7. CASE pc' # RecoverNo
        BY <1>1, <1>2, <1>4, <1>5, <3>1, <3>2, <3>3, <3>5, <3>7, RecoverRest, Resting
        DEF RecoverAt
      <3> QED BY <3>6, <3>7
    <2>5. CASE RestorePointer
      <3>1. pc = "restorePointer" /\ P /\ B = None
        BY <2>5 DEF RestorePointer, Flow, Stand, Recovering, At
      <3>2. CASE /\ Prev # None /\ SaveProjectState(Prev, FALSE, None, "clearMarkers", RecoverNo)
        <4>1. /\ pc' = "saveState" /\ file' = file /\ OwnFiles
              /\ args' = [name |-> Prev, retain |-> FALSE, prev |-> None]
              /\ back' = Call("marker", "clearMarkers", RecoverNo)
          BY <3>2 DEF SaveProjectState, Goto, OwnFiles, S, B
        <4>2. /\ back'["marker"] = <<"clearMarkers", RecoverNo>>
              /\ back'["recover"] = back["recover"] /\ RecoverNo' = RecoverNo
          BY <4>1, BackEffect DEF TypeOK, BackType, RecoverNo
        <4>3. Undoing /\ Fits(Prev)
          BY <1>3, <2>2, <3>1, <3>2 DEF Open, Undoing, Undone
        <4>4. UNCHANGED <<Prev, Cur, Bak, Fits(Prev)>>
          BY <4>1 DEF Prev, Cur, Bak, Fits
        <4>5. Sessions' /\ Undoable'
          BY <1>1, <4>1, <4>4, OwnFilesKeep, SessionsKept, UndoableKept DEF OwnFiles
        <4>6. Rest'
          <5>1. args'.name = Prev' /\ args'.retain = FALSE /\ Open' /\ (Fits(args.name))'
            BY <4>1, <4>3, <4>4 DEF Open, Fits
          <5> QED BY <1>1, <1>2, <1>4, <1>5, <3>1, <4>1, <4>2, <5>1, SaveRest
        <4> QED BY <4>5, <4>6, Resting
      <3>3. CASE Prev = None /\ ClearState("clearMarkers", RecoverNo) /\ UNCHANGED locals
        <4>1. OwnFiles /\ pc' \in {pc, "clearMarkers", RecoverNo} /\ back' = back
              /\ (calm => pc' \in {"clearMarkers", pc})
          BY <1>1, <3>3, ClearStateKeeps, ClearStateEffect, CalmCalls DEF locals
        <4>2. Sessions' /\ Undoable' /\ Open' /\ ~C'
          BY <1>1, <1>2, <2>2, <3>1, <3>3, <4>1, OwnFilesKeep, SessionsKept, UndoableKept
          DEF OwnFiles, Open, Undoing
        <4>3. CASE pc' = RecoverNo
          BY <1>1, <1>2, <1>5, <3>1, <4>1, <4>2, <4>3, RecoverFails, Resting DEF Quiet
        <4>4. CASE pc' # RecoverNo
          BY <1>1, <1>2, <1>4, <1>5, <3>1, <4>1, <4>2, <4>4, RecoverRest, Resting DEF RecoverAt
        <4> QED BY <4>3, <4>4
      <3> QED BY <2>5, <3>2, <3>3 DEF RestorePointer, Prev, Then
    <2>6. CASE ClearPhase
      <3>1. /\ pc = "clearMarkers" /\ B = None /\ UNCHANGED locals
            /\ ClearMarkers(back["recover"][1], RecoverNo)
        BY <2>6 DEF ClearPhase, Then, Stand, Recovering, At
      <3>2. /\ \A q \in Paths \ {"pending", "commit"} : file'[q] = file[q]
            /\ \/ pc' = back["recover"][1] /\ file' = file /\ ~P
               \/ /\ P /\ pc' \in {pc, RecoverNo}
                  /\ file'["pending"] \in {file["pending"], None}
            /\ ~C' /\ (calm => pc' \in {back["recover"][1], pc})
        <4>1. /\ \A q \in Paths \ {"pending", "commit"} : file'[q] = file[q]
              /\ \/ pc' = back["recover"][1] /\ file' = file /\ ~P
                 \/ /\ P /\ pc' \in {pc, RecoverNo} /\ file'["commit"] = file["commit"]
                    /\ file'["pending"] \in {file["pending"], None}
          BY <1>1, <2>2, <3>1, ClearMarkersEffect
        <4>2. calm => pc' \in {back["recover"][1], pc}
          BY <1>1, <3>1, CalmCalls
        <4> QED BY <2>2, <4>1, <4>2 DEF C, Has
      <3>3. /\ UNCHANGED <<S, B, Cur, Bak, U, back>> /\ (P' => P /\ Prev' = Prev)
            /\ P' => file'["pending"] = file["pending"]
        BY <3>1, <3>2 DEF S, B, Cur, Bak, P, Prev, U, Has, Paths, locals
      <3>4. Sessions' /\ Undoable'
        BY <1>1, <1>2, <2>2, <3>1, <3>2, <3>3, SessionsKept, UndoableKept
      <3>5. Open'
        BY <1>3, <2>2, <3>3 DEF Open, Undoing, Undone, Fits
      <3>6. CASE P /\ pc' = RecoverNo
        <4>1. Quiet => pc' = "purged"
          BY <1>2, <1>4, <3>1, <3>2, <3>6, Pairs DEF Quiet, TypeOK
        <4> QED BY <1>1, <1>2, <1>5, <3>1, <3>2, <3>4, <3>5, <3>6, <4>1, RecoverFails, Resting
      <3>7. CASE P /\ pc' = pc
        BY <1>1, <1>2, <1>4, <1>5, <3>1, <3>3, <3>4, <3>5, <3>7, RecoverRest, Resting
        DEF RecoverAt, Blank
      <3>8. CASE pc' = back["recover"][1] /\ file' = file /\ ~P
        <4>1. ~P' /\ (Blank => Blank')
          BY <3>8 DEF Blank, P, C, U, B, Cur, Has
        <4> QED BY <1>1, <1>2, <1>4, <1>5, <3>1, <3>4, <3>5, <3>8, <4>1, PlainRest, Resting
            DEF RestAt, FaultAt, BootReturn, Undoing, Undone
      <3> QED BY <3>2, <3>6, <3>7, <3>8
    <2> QED BY <1>7, <2>3, <2>4, <2>5, <2>6 DEF RecoverStaging
  <1> QED BY <1>6, <1>7

\* A purge that is under way.
LEMMA PurgeEffect ==
  ASSUME TypeOK, Flow, Purge, ~BeginPurge
  PROVE  /\ pc \in PurgeAt /\ U /\ UNCHANGED <<session, locals>>
         /\ \/ file'["purge"] = file["purge"] /\ pc' \in PurgeAt \cup {RecoverNo}
            \/ pc' \in {back["recover"][1], RecoverNo} /\ pc = "purgeDone"
         /\ calm => pc' \in PurgeAt \cup {back["recover"][1]}
         /\ file'["pending"] \in {file["pending"], None}
         /\ P' => file'["commit"] = file["commit"]
         /\ B' = None \/ B # None
         /\ ~P' \/ U'
  <1>1. /\ pc \in PurgeAt /\ U /\ FileType /\ UNCHANGED <<session, locals>>
    BY DEF Purge, PurgeStaging, PurgeBackup, PurgeState, PurgeMarkers, PurgeDone, PurgeAt, Flow,
       Then, Decide, TypeOK
  <1>2. CASE PurgeStaging \/ PurgeBackup
    <2>1. CASE file' = file /\ pc' \in PurgeAt
      BY <1>1, <2>1 DEF B, U, Has
    <2>2. ASSUME NEW p \in {"staging", "stagingBackup"}, NEW yes \in {"purgeBackup", "purgeState"},
                 DeleteProject(p, yes, RecoverNo), Exists(p)
          PROVE  /\ file'["purge"] = file["purge"] /\ pc' \in PurgeAt \cup {RecoverNo}
                 /\ calm => pc' \in PurgeAt
                 /\ file'["pending"] = file["pending"] /\ file'["commit"] = file["commit"]
                 /\ B' = None \/ B # None
      <3>1. Others(p) /\ pc' \in {pc, yes, RecoverNo}
        BY <1>1, <2>2, DropEffect
      <3>2. calm => pc' \in {yes, pc}
        BY <1>1, <2>2, CalmCalls DEF Paths
      <3>3. B' = None \/ B # None
        BY <2>2, <3>1 DEF Others, Paths, Exists, B
      <3> QED BY <1>1, <3>1, <3>2, <3>3 DEF Others, Paths, PurgeAt
    <2> QED BY <1>1, <1>2, <2>1, <2>2 DEF PurgeStaging, PurgeBackup, Then, Decide, Goto, PurgeAt, U, Has
  <1>3. CASE PurgeState
    <2>1. OwnFiles /\ pc' \in {pc, "purgeMarkers", RecoverNo} /\ (calm => pc' \in {"purgeMarkers", pc})
      BY <1>1, <1>3, ClearStateKeeps, ClearStateEffect, CalmCalls DEF PurgeState, Then
    <2> QED BY <1>1, <2>1 DEF OwnFiles, PurgeAt, U, Has
  <1>4. CASE PurgeMarkers
    <2>1. ClearMarkers("purgeDone", RecoverNo)
      BY <1>4 DEF PurgeMarkers, Then
    <2>2. /\ \A q \in Paths \ {"pending", "commit"} : file'[q] = file[q]
          /\ pc' \in {pc, "purgeDone", RecoverNo}
          /\ file'["pending"] \in {file["pending"], None}
          /\ P' => file'["commit"] = file["commit"]
      BY <1>1, <2>1, ClearMarkersEffect DEF P, Has
    <2>3. calm => pc' \in {"purgeDone", pc}
      BY <1>1, <2>1, CalmCalls
    <2> QED BY <1>1, <2>2, <2>3 DEF PurgeAt, Paths, B, U, Has
  <1>5. CASE PurgeDone
    <2>1. "purge" \in Paths
      BY DEF Paths
    <2>2. pc = "purgeDone" /\ DeleteCall("purge", back["recover"][1], RecoverNo) /\ ~P
      BY <1>5 DEF PurgeDone, Then, Flow
    <2>3. Others("purge") /\ pc' \in {back["recover"][1], RecoverNo}
      BY <1>1, <2>1, <2>2, DeleteEffect
    <2>4. calm => pc' = back["recover"][1]
      BY <1>1, <2>1, <2>2, CalmCalls
    <2> QED BY <1>1, <2>2, <2>3, <2>4 DEF Others, Paths, B, P, Has
  <1> QED BY <1>1, <1>2, <1>3, <1>4, <1>5 DEF Purge

LEMMA PurgeSound ==
  ASSUME TypeOK, Flow, Ready, Marked, CalmBoot, Purge, calm' = calm
  PROVE  Ready' /\ Marked' /\ CalmBoot'
  <1>1. /\ pc \in PurgeAt \cup {"purge"} /\ UNCHANGED <<session, stage, load, begun, had, back, RecoverNo>>
        /\ pc # "done" /\ FileType
    BY DEF Purge, BeginPurge, PurgeStaging, PurgeBackup, PurgeState, PurgeMarkers, PurgeDone,
       Then, Decide, locals, PurgeAt, TypeOK, RecoverNo
  <1>2. Quiet' = Quiet
    BY <1>1 DEF Quiet
  <1>3. Open
    BY DEF Marked, Pointing, Open
  <1>4. CASE BeginPurge
    <2>1. pc = "purge" /\ back["recover"] = <<"purged", "purged">> /\ RecoverNo = "purged"
          /\ stage = "first"
      BY <1>4 DEF BeginPurge, Flow, RecoverNo
    <2>2. /\ \A q \in Paths \ {"purge"} : file'[q] = file[q]
          /\ U => U'
          /\ pc' \in {"purgeStaging", "purged"}
      <3>1. "purge" \in Paths
        BY DEF Paths
      <3>2. CASE WriteMarker("purge", TRUE, "purgeStaging", RecoverNo)
        BY <1>1, <2>1, <3>1, <3>2, WriteEffect DEF Others, U, Has
      <3>3. CASE Has("purge") /\ Goto("purgeStaging") /\ file' = file
        BY <3>3 DEF Goto, U, Has
      <3> QED BY <1>4, <3>2, <3>3 DEF BeginPurge
    <2>3. UNCHANGED <<S, B, Cur, Bak, file["pending"], P, C, Prev>>
      BY <2>2 DEF S, B, Cur, Bak, P, C, Prev, Has, Paths
    <2>4. Sessions' /\ Undoable'
      BY <1>1, <2>2, <2>3, SessionsKept, UndoableKept
    <2>5. Open'
      <3>1. Undone' => Undone
        <4>1. Validates("staging")' = Validates("staging")
          BY <2>3 DEF Validates, S
        <4> QED BY <2>2, <2>3, <4>1 DEF Undone
      <3> QED BY <1>3, <2>3, <3>1 DEF Open, Undoing, Fits
    <2>6. CASE pc' = "purgeStaging"
      BY <1>1, <2>1, <2>4, <2>5, <2>6, PurgeRest, Resting DEF PurgeAt
    <2>7. CASE pc' = "purged"
      BY <1>1, <2>1, <2>4, <2>5, <2>7, PlainRest, Resting DEF RestAt, FaultAt
    <2> QED BY <2>2, <2>6, <2>7
  <1>5. CASE ~BeginPurge
    <2>1. pc \in PurgeAt /\ U
      BY <1>5, PurgeEffect
    <2>2. /\ back["recover"][1] \in {"loadState", "purged", "begin"}
          /\ RecoverNo \in {"loadFailed", "purged", "rejectedLoad"}
          /\ back["recover"][1] \in BootReturn => stage # "user"
      BY <2>1, RecoverCalled, Pairs DEF Flow, TypeOK
    <2>3. Quiet => back["recover"][1] # "begin"
      BY <2>1, QuietWay DEF CalmWay
    <2>4. /\ \/ file'["purge"] = file["purge"] /\ pc' \in PurgeAt \cup {RecoverNo}
             \/ pc' \in {back["recover"][1], RecoverNo} /\ pc = "purgeDone"
          /\ Quiet => pc' \in PurgeAt \cup {back["recover"][1], "purged"}
          /\ file'["pending"] \in {file["pending"], None}
          /\ P' => file'["commit"] = file["commit"]
          /\ B' = None \/ B # None
      BY <1>5, PurgeEffect DEF Quiet
    <2>5. ~P' \/ U'
      BY <1>5, PurgeEffect
    <2>6. Open'
      BY <2>5 DEF Open, Undoing, Undone
    <2>7. Sessions' /\ Undoable'
      <3>1. P' => P /\ file'["pending"] = file["pending"] /\ Prev' = Prev /\ C' = C
        BY <2>4 DEF P, C, Prev, Has
      <3>2. pc' # "off"
        BY <2>2, <2>4 DEF PurgeAt
      <3> QED BY <1>1, <2>4, <2>5, <3>1, <3>2, SessionsKept DEF Ready, Undoable
    <2>8. CASE pc' \in PurgeAt
      BY <1>1, <1>2, <2>1, <2>2, <2>3, <2>6, <2>7, <2>8, PurgeRest, Resting DEF PurgeAt
    <2>9. CASE pc' = RecoverNo
      <3>1. Quiet => pc' = "purged"
        BY <2>2, <2>3, <2>4, <2>9, Pairs DEF TypeOK, PurgeAt
      <3> QED BY <1>1, <1>2, <2>1, <2>2, <2>6, <2>7, <2>9, <3>1, RecoverFails, Resting
    <2>10. CASE pc' = back["recover"][1]
      BY <1>1, <1>2, <2>2, <2>3, <2>6, <2>7, <2>10, PlainRest, Resting DEF RestAt, FaultAt, BootReturn
    <2> QED BY <2>4, <2>8, <2>9, <2>10
  <1> QED BY <1>4, <1>5

LEMMA RollbackCalled ==
  ASSUME TypeOK, Ready, pc \in RollbackAt
  PROVE  /\ back["rollback"][1] \in {"loadState", "purged", "begin", "rolledBack"}
         /\ RollbackNo \in {"loadFailed", "purged", "rejectedLoad", "failLoad"}
         /\ back["rollback"][1] \in BootReturn => stage # "user"
         /\ RollbackNo \in {"loadFailed", "purged"} => stage # "user"
         /\ RollbackNo = "failLoad" \/ back["rollback"][1] = "rolledBack" => session = None
  <1>1. /\ back["rollback"][1] \notin {"off", "restoreSession"}
        /\ back["rollback"][1] = "rolledBack" => session = None
    BY DEF Ready, Called, Finding, At
  <1>2. back["rollback"][1] \in BootReturn => stage # "user"
    BY DEF Ready, Called, At, Booting
  <1>3. back["rollback"][1] \in {"loadState", "purged", "begin", "rolledBack"}
    BY <1>1 DEF TypeOK, BackType, RollbackBack, RecoverBack
  <1> QED BY <1>1, <1>2, <1>3, Pairs DEF TypeOK, BootReturn

LEMMA RollbackFails ==
  ASSUME TypeOK, Ready, pc \in RollbackAt, pc' = RollbackNo, UNCHANGED <<stage, session>>, Open',
         Quiet' => pc' = "purged"
  PROVE  Rest'
  <1>1. RollbackNo \in {"loadFailed", "purged", "rejectedLoad", "failLoad"}
        /\ (RollbackNo \in {"loadFailed", "purged"} => stage # "user")
        /\ (RollbackNo = "failLoad" => session = None)
    BY RollbackCalled
  <1> QED BY <1>1, PlainRest DEF RestAt, FaultAt

LEMMA RollbackSound ==
  ASSUME TypeOK, Flow, Stand, Ready, Marked, CalmBoot, Rollback, calm' = calm
  PROVE  Ready' /\ Marked' /\ CalmBoot'
  <1>1. /\ pc \in RollbackAt /\ UNCHANGED <<session, stage, load, begun>>
        /\ pc # "done" /\ FileType /\ ~U
    BY DEF Rollback, RollbackCommitted, RollbackDrop, RollbackRestore, RollbackState, RollbackMarkers,
       Then, Decide, locals, RollbackAt, TypeOK, Flow, PurgeDueAt, PurgeAt
  <1>2. /\ back["rollback"][1] \in {"loadState", "purged", "begin", "rolledBack"}
        /\ RollbackNo \in {"loadFailed", "purged", "rejectedLoad", "failLoad"}
        /\ back["rollback"][1] \in BootReturn => stage # "user"
        /\ RollbackNo \in {"loadFailed", "purged"} => stage # "user"
        /\ RollbackNo = "failLoad" \/ back["rollback"][1] = "rolledBack" => session = None
    BY <1>1, RollbackCalled
  <1>3. Open
    BY DEF Marked, Pointing, Open
  <1>4. Quiet => /\ back["rollback"][1] \in BootReturn
                 /\ pc = "rollbackCommitted" => P /\ C /\ ~Validates("staging")
    BY <1>1, QuietWay DEF CalmWay, At
  <1>5. Quiet' = Quiet
    BY <1>1 DEF Quiet
  <1>6. CASE RollbackCommitted
    <2>1. /\ pc = "rollbackCommitted" /\ file' = file /\ OwnFiles
          /\ UNCHANGED <<Open, C, P, U, S, B, Prev, Undone, Undoing, Validates("staging"), Cur, Bak>>
      BY <1>6 DEF RollbackCommitted, OwnFiles, Open, C, P, U, S, B, Prev, Undone, Undoing, Validates,
         Fits, Cur, Bak, Has
    <2>2. pc' # "off"
      BY <1>2, <1>6 DEF RollbackCommitted, Goto
    <2>3. Sessions' /\ Undoable'
      BY <1>1, <2>1, <2>2, SessionsKept, UndoableKept
    <2>4. CASE pc' = RollbackNo /\ (~(Has("commit") /\ Has("pending")) \/ ~calm)
      <3>1. ~Quiet
        BY <1>4, <2>1, <2>4 DEF Quiet, P, C
      <3>2. Rest'
        BY <1>1, <1>3, <1>5, <2>1, <2>4, <3>1, RollbackFails
      <3> QED BY <2>3, <3>2, Resting
    <2>5. CASE C /\ P /\ prior' = Prev /\ had' = file["pending"].had
      <3>1. had' \/ B = None
        BY <2>5 DEF Ready, Undoable
      <3>2. CASE /\ prior' # None /\ Goto("saveState") /\ back' = Call("marker", "rollbackDrop", RollbackNo)
                 /\ args' = [name |-> prior', retain |-> FALSE, prev |-> None]
        <4>1. /\ back'["marker"] = <<"rollbackDrop", RollbackNo>>
              /\ back'["rollback"] = back["rollback"] /\ RollbackNo' = RollbackNo
          BY <3>2, BackEffect DEF TypeOK, BackType, RollbackNo
        <4>2. args'.name = Prev' /\ args'.retain = FALSE /\ pc' = "saveState"
          BY <2>1, <2>5, <3>2 DEF Goto
        <4>3. Quiet' => Fits(args.name)'
          <5>1. Quiet => Undoing
            BY <1>1, <1>4, <2>1, <2>5, <3>2 DEF Undoing, Undone
          <5> QED BY <1>3, <1>5, <2>1, <4>2, <5>1 DEF Open, Fits
        <4>4. Rest'
          BY <1>1, <1>2, <1>3, <1>4, <1>5, <2>1, <2>5, <3>1, <4>1, <4>2, <4>3, SaveRest
        <4> QED BY <2>3, <4>4, Resting
      <3>3. CASE prior' = None /\ Goto("rollbackDrop") /\ back' = back
        <4>1. Rest'
          BY <1>1, <1>2, <1>3, <1>4, <1>5, <2>1, <2>5, <3>1, <3>3, RollbackRest DEF Goto, RollbackAt
        <4> QED BY <2>3, <4>1, Resting
      <3> QED BY <1>6, <2>5, <3>2, <3>3, <2>4 DEF RollbackCommitted, Goto
    <2> QED BY <1>6, <2>4, <2>5 DEF RollbackCommitted, Goto, C, P, Prev
  <1>7. CASE RollbackDrop
    <2>1. /\ pc = "rollbackDrop" /\ C /\ (had \/ B = None) /\ UNCHANGED locals
          /\ P /\ Prev # None => Cur = Prev
      BY <1>7 DEF RollbackDrop, Then, Decide, Ready, Finding, At, Marked, Pointing
    <2>2. /\ Others("staging")
          /\ \/ pc' = pc
             \/ pc' = "rollbackRestore" /\ S' = None
             \/ pc' = RollbackNo /\ ~calm
      <3>1. CASE S = None
        BY <1>7, <3>1, <1>1 DEF RollbackDrop, Decide, Goto, Exists, S, Others, FileType
      <3>2. CASE DeleteProject("staging", "rollbackRestore", RollbackNo)
        <4>1. "staging" \in Paths
          BY DEF Paths
        <4>2. /\ Others("staging")
              /\ \/ pc' = pc
                 \/ pc' = "rollbackRestore" /\ S' = None
                 \/ pc' = RollbackNo
          BY <1>1, <3>2, DropEffect DEF S
        <4>3. calm => pc' \in {"rollbackRestore", pc}
          BY <1>1, <3>2, <4>1, CalmCalls
        <4> QED BY <1>2, <2>1, <4>2, <4>3
      <3> QED BY <1>7, <3>1, <3>2 DEF RollbackDrop, Then, Exists, S
    <2>3. UNCHANGED <<B, Cur, Bak, file["pending"], P, C, U, Prev, back, had, RollbackNo>>
      BY <2>1, <2>2 DEF Others, Paths, B, Cur, Bak, P, C, U, Prev, Has, locals, RollbackNo
    <2>4. Sessions' /\ Undoable' /\ Open'
      BY <1>1, <1>2, <2>1, <2>2, <2>3, SessionsKept DEF Ready, Undoable, Open, Undoing, Undone, Fits
    <2>5. CASE pc' = RollbackNo /\ ~calm
      BY <1>1, <1>5, <2>4, <2>5, RollbackFails, Resting DEF Quiet
    <2>6. CASE pc' = pc \/ (pc' = "rollbackRestore" /\ S' = None)
      <3>1. Rest'
        BY <1>1, <1>2, <1>4, <1>5, <2>1, <2>3, <2>4, <2>6, RollbackRest DEF RollbackAt
      <3> QED BY <2>4, <3>1, Resting
    <2> QED BY <2>2, <2>5, <2>6
  <1>8. CASE RollbackRestore
    <2>1. /\ pc = "rollbackRestore" /\ C /\ (had \/ B = None) /\ S = None /\ UNCHANGED locals
          /\ had => B # None
      <3>1. had => Whole("stagingBackup")
        BY <1>8 DEF RollbackRestore, Stand, RollingBack, At
      <3> QED BY <1>8, <3>1 DEF RollbackRestore, Then, Decide, Ready, Finding, At, Whole, B
    <2>2. /\ \A r \in Paths \ {"staging", "stagingBackup"} : file'[r] = file[r]
          /\ \/ pc' = "rollbackState" /\ B' = None
             \/ pc' = RollbackNo /\ ~calm /\ (B' = None \/ B' = B)
      <3>1. CASE had
        <4>1. {"staging", "stagingBackup"} \subseteq Paths
              /\ MoveCall("stagingBackup", "staging", "rollbackState", RollbackNo)
          BY <1>8, <3>1 DEF Paths, RollbackRestore, Then
        <4>2. /\ \A r \in Paths \ {"staging", "stagingBackup"} : file'[r] = file[r]
              /\ \/ B' = None /\ pc' \in {"rollbackState", RollbackNo}
                 \/ B' = B /\ pc' = RollbackNo
          BY <1>1, <4>1, MoveEffect DEF B
        <4>3. calm => pc' = "rollbackState"
          BY <1>1, <2>1, <3>1, <4>1, CalmCalls DEF S, B
        <4> QED BY <1>2, <4>2, <4>3
      <3>2. CASE ~had
        BY <1>8, <2>1, <3>2 DEF RollbackRestore, Decide, Goto, Exists, B
      <3> QED BY <3>1, <3>2
    <2>3. UNCHANGED <<Cur, Bak, file["pending"], P, C, U, Prev, back, had, RollbackNo>>
      BY <2>1, <2>2 DEF Paths, Cur, Bak, P, C, U, Prev, Has, locals, RollbackNo
    <2>4. Open'
      <3>1. ~Validates("staging")
        BY <2>1 DEF Validates, S
      <3> QED BY <1>1, <1>3, <2>1, <2>3, <3>1 DEF Open, Undoing, Undone, Fits
    <2>5. Sessions' /\ Undoable'
      BY <1>1, <1>2, <2>1, <2>2, <2>3, SessionsKept DEF Ready, Undoable
    <2>6. CASE pc' = RollbackNo /\ ~calm
      BY <1>1, <1>5, <2>4, <2>5, <2>6, RollbackFails, Resting DEF Quiet
    <2>7. CASE pc' = "rollbackState"
      <3>1. Rest'
        BY <1>1, <1>2, <1>4, <1>5, <2>3, <2>4, <2>7, RollbackRest DEF RollbackAt
      <3> QED BY <2>5, <3>1, Resting
    <2> QED BY <2>2, <2>6, <2>7
  <1>9. CASE RollbackState
    <2>1. /\ pc = "rollbackState" /\ back' = back
          /\ OwnFiles /\ pc' \in {pc, "rollbackMarkers", RollbackNo}
          /\ calm => pc' \in {"rollbackMarkers", pc}
          /\ \A name : Fits(name) => Cur' \in {None, name} \/ Bak' \in {None, name}
      <3>1. CASE ClearState("rollbackMarkers", RollbackNo)
        BY <1>1, <1>9, <3>1, ClearStateKeeps, ClearStateEffect, CalmCalls
        DEF RollbackState, Then, Decide, locals
      <3>2. CASE file' = file /\ pc' = "rollbackMarkers"
        BY <1>9, <3>2 DEF RollbackState, Then, Decide, locals, OwnFiles, S, B, Fits, Cur, Bak
      <3> QED BY <1>9, <3>1, <3>2 DEF RollbackState, Then, Decide, Goto
    <2>2. Open'
      BY <1>3, <2>1, OwnFilesKeep DEF Open, Fits
    <2>3. Sessions' /\ Undoable'
      BY <1>1, <1>2, <2>1, OwnFilesKeep, SessionsKept, UndoableKept DEF OwnFiles
    <2>4. CASE pc' = RollbackNo
      BY <1>1, <1>2, <1>5, <2>1, <2>2, <2>3, <2>4, RollbackFails, Resting DEF Quiet
    <2>5. CASE pc' # RollbackNo
      <3>1. Rest'
        BY <1>1, <1>2, <1>4, <1>5, <2>1, <2>2, <2>5, RollbackRest DEF RollbackAt
      <3> QED BY <2>3, <3>1, Resting
    <2> QED BY <2>4, <2>5
  <1>10. CASE RollbackMarkers
    <2>1. /\ pc = "rollbackMarkers" /\ UNCHANGED locals
          /\ ClearMarkers(back["rollback"][1], RollbackNo)
      BY <1>10 DEF RollbackMarkers, Then
    <2>2. /\ \A q \in Paths \ {"pending", "commit"} : file'[q] = file[q]
          /\ \/ pc' = back["rollback"][1] /\ file' = file /\ ~P
             \/ pc' \in {pc, RollbackNo} /\ (P \/ C)
          /\ file'["pending"] \in {file["pending"], None}
          /\ P => file'["commit"] = file["commit"]
      BY <1>1, <2>1, ClearMarkersEffect
    <2>3. calm => pc' \in {back["rollback"][1], pc}
      BY <1>1, <2>1, CalmCalls
    <2>4. /\ UNCHANGED <<S, B, Cur, Bak, U, back, RollbackNo, Validates("staging")>>
          /\ P' => P /\ Prev' = Prev /\ C' = C /\ file'["pending"] = file["pending"]
      BY <2>1, <2>2 DEF S, B, Cur, Bak, P, C, Prev, U, Has, Paths, locals, RollbackNo, Validates
    <2>5. Sessions' /\ Undoable'
      BY <1>1, <1>2, <2>1, <2>2, <2>4, SessionsKept, UndoableKept
    <2>6. Open'
      BY <1>3, <2>4 DEF Open, Undoing, Undone, Fits
    <2>7. CASE pc' = RollbackNo
      <3>1. Quiet => pc' = "purged"
        BY <1>2, <1>4, <2>1, <2>3, <2>7, Pairs DEF Quiet, TypeOK, BootReturn
      <3> QED BY <1>1, <1>5, <2>5, <2>6, <2>7, <3>1, RollbackFails, Resting
    <2>8. CASE pc' = pc
      <3>1. Rest'
        BY <1>1, <1>2, <1>4, <1>5, <2>1, <2>4, <2>6, <2>8, RollbackRest DEF RollbackAt
      <3> QED BY <2>5, <3>1, Resting
    <2>9. CASE pc' = back["rollback"][1] /\ file' = file /\ ~P
      <3>1. ~Undoing'
        BY <2>9 DEF Undoing, Undone, P, Has
      <3>2. CASE pc' = "rolledBack"
        <4>1. ~P'
          BY <2>9 DEF P, Has
        <4>2. Rest'
          BY <1>2, <1>4, <1>5, <2>6, <2>9, <3>1, <3>2, <4>1, LoadRest DEF LoadingAt, BeginsAt, BootReturn
        <4> QED BY <2>5, <4>2, Resting
      <3>3. CASE pc' # "rolledBack"
        <4>1. Rest'
          BY <1>1, <1>2, <1>4, <1>5, <2>6, <2>9, <3>1, <3>3, PlainRest DEF RestAt, FaultAt, BootReturn
        <4> QED BY <2>5, <4>1, Resting
      <3> QED BY <3>2, <3>3
    <2> QED BY <2>2, <2>7, <2>8, <2>9
  <1> QED BY <1>6, <1>7, <1>8, <1>9, <1>10 DEF Rollback

\* A commit on its way has nothing to take back.
LEMMA CommitRest ==
  ASSUME pc' \in {"commitBackup", "commitState", "commitMarkers", "opened"},
         P' => C' /\ Whole("staging")'
  PROVE  Rest'
  <1>1. ~Undoing' /\ Open'
    BY DEF Undoing, Undone, Open, Validates, Whole
  <1> QED BY <1>1, LoadRest DEF LoadingAt, BeginsAt, FaultAt

LEMMA ReplacementSound ==
  ASSUME TypeOK, Flow, Owed, Stand, Ready, Marked, CalmBoot, Replacement, calm' = calm,
         ~PointerElsewhere
  PROVE  Ready' /\ Marked' /\ CalmBoot'
  <1>1. /\ UNCHANGED <<session, stage, load, back>> /\ pc # "done" /\ FileType /\ ~U
    BY DEF Replacement, Begin, MoveAside, Abandon, Commit, CommitBackup, CommitState, CommitMarkers,
       Then, Decide, locals, TypeOK, Flow, PurgeDueAt, PurgeAt
  <1>2. Open
    BY DEF Marked, Pointing, Open
  <1>3. Quiet' = Quiet
    BY <1>1 DEF Quiet
  <1>4. Quiet => pc \notin FaultAt /\ CalmWay
    BY QuietWay
  <1>5. CASE Begin
    <2>1. /\ pc = "begin" /\ ~Undone /\ (~P => ~C /\ B = None) /\ (session # None => Cur = session)
          /\ Quiet => Blank
      BY <1>4, <1>5 DEF Begin, Stand, Loading, Settled, Undone, Owed, PointerElsewhere, Cur, CalmWay
    <2>2. CASE Exists("stagingBackup")
      <3>1. pc' = "rejectedLoad" /\ file' = file /\ OwnFiles
        BY <1>5, <2>2 DEF Begin, Goto, OwnFiles, S, B
      <3>2. ~Undone' /\ Open' /\ ~Quiet
        BY <2>1, <2>2, <3>1, OwnFilesKeep DEF Open, Undoing, Blank, Exists, B
      <3>3. Sessions' /\ Undoable'
        BY <1>1, <3>1, OwnFilesKeep, SessionsKept, UndoableKept DEF OwnFiles
      <3> QED BY <1>1, <1>3, <3>1, <3>2, <3>3, PlainRest, Resting DEF RestAt
    <2>3. CASE ~Exists("stagingBackup")
      <3> DEFINE pending == [had |-> Exists("staging"), prev |-> session]
                 next == IF pending.had THEN "moveAside" ELSE "create"
      <3>1. /\ WriteMarker("pending", pending, next, "rejectedLoad") /\ had' = pending.had
            /\ begun' = (pc' = "create")
        BY <1>5, <2>3 DEF Begin
      <3>2. /\ "pending" \in Paths /\ next \in {"moveAside", "create"}
            /\ pending.had = (S # None) /\ pending.prev = session /\ pending # None
            /\ next = "moveAside" <=> S # None
        <4>1. pending \in Pending
          BY DEF Pending, Exists, TypeOK
        <4> QED BY <4>1 DEF Paths, Exists, S
      <3> HIDE DEF pending, next
      <3>3. /\ \A q \in Paths \ {"pending"} : file'[q] = file[q]
            /\ \/ pc' = next /\ ~P /\ file'["pending"] = pending
               \/ pc' = "rejectedLoad" /\ file' = file
               \/ pc' = "rejectedLoad" /\ ~P /\ file'["pending"] = pending
        BY <1>1, <3>1, <3>2, WriteEffect DEF Others, P
      <3>4. Quiet => pc' = next
        BY <1>1, <2>1, <3>1, <3>2, CalmCalls DEF Quiet, Blank, P
      <3>5. UNCHANGED <<S, B, Cur, Bak, C, U>> /\ B = None
        BY <2>3, <3>3 DEF S, B, Cur, Bak, C, U, Has, Paths, Exists
      <3>6. CASE pc' = "rejectedLoad" /\ file' = file
        <4>1. OwnFiles /\ ~Undone' /\ Open'
          BY <2>1, <3>6 DEF OwnFiles, Open, Undoing, Undone, S, B, P, C, U, Has, Validates
        <4>2. Sessions' /\ Undoable'
          BY <1>1, <3>6, <4>1, OwnFilesKeep, SessionsKept, UndoableKept DEF OwnFiles
        <4> QED BY <1>1, <1>3, <3>2, <3>4, <3>6, <4>1, <4>2, PlainRest, Resting DEF RestAt
      <3>7. CASE ~P /\ file'["pending"] = pending /\ pc' \in {next, "rejectedLoad"}
        <4>1. /\ P' /\ ~C' /\ ~U' /\ Prev' = session /\ file'["pending"].had = (S # None)
              /\ Undoing' => session # None
          BY <1>1, <2>1, <3>2, <3>5, <3>7 DEF P, C, U, Has, Prev, Undoing
        <4>2. Sessions' /\ Undoable' /\ Open'
          BY <1>1, <2>1, <3>2, <3>5, <3>7, <4>1 DEF Ready, Sessions, Undoable, Open, Fits
        <4>3. CASE pc' = "rejectedLoad"
          BY <1>1, <1>3, <3>2, <3>4, <4>2, <4>3, PlainRest, Resting DEF RestAt
        <4>4. Quiet' => Fits(load.name)'
          BY <1>3, <2>1, <3>5 DEF Blank, Fits
        <4>5. CASE pc' = "moveAside"
          BY <1>1, <2>1, <3>1, <3>2, <3>5, <3>7, <4>1, <4>2, <4>4, <4>5, MoveAsideRest, Resting
        <4>6. CASE pc' = "create"
          <5>1. begun' /\ ~had'
            BY <3>1, <3>2, <3>7, <4>6
          <5>2. Rest'
            BY <1>1, <2>1, <3>5, <4>1, <4>2, <4>4, <4>6, <5>1, LoadRest DEF LoadingAt, BeginsAt, FaultAt
          <5> QED BY <4>2, <5>2, Resting
        <4> QED BY <3>2, <3>7, <4>3, <4>5, <4>6
      <3> QED BY <3>3, <3>6, <3>7
    <2> QED BY <2>2, <2>3
  <1>6. CASE MoveAside
    <2>1. /\ pc = "moveAside" /\ P /\ ~C /\ B = None /\ S # None
          /\ file["pending"].had /\ Prev = session /\ (session # None => Cur = session)
          /\ MoveCall("staging", "stagingBackup", "create", "abandon") /\ begun' = (pc' = "create")
          /\ had' = had
      BY <1>6 DEF MoveAside, Stand, Loading, Ready, Beginning, Marked, Pointing
    <2>2. /\ \A r \in Paths \ {"staging", "stagingBackup"} : file'[r] = file[r]
          /\ \/ B' = S /\ pc' \in {"create", "abandon"}
             \/ B' = B /\ S' = S /\ pc' = "abandon"
      BY <1>1, <2>1, MoveEffect DEF S, B
    <2>3. calm => pc' = "create"
      <3>1. {"staging", "stagingBackup"} \subseteq Paths
        BY DEF Paths
      <3> QED BY <1>1, <2>1, <3>1, CalmCalls DEF S, B
    <2>4. UNCHANGED <<Cur, Bak, file["pending"], P, C, U, Prev>>
      BY <2>2 DEF Cur, Bak, P, C, U, Prev, Has, Paths
    <2>5. Sessions' /\ Undoable' /\ Open'
      BY <1>1, <2>1, <2>2, <2>4, SessionsKept DEF Ready, Undoable, Open, Fits, Undoing
    <2>6. CASE pc' = "create"
      <3>1. Quiet' => Fits(load.name)'
        BY <1>1, <1>3, <1>4, <2>1, <2>4 DEF CalmWay, Fits
      <3>2. Rest'
        BY <1>1, <2>1, <2>2, <2>4, <2>5, <2>6, <3>1, LoadRest DEF LoadingAt, BeginsAt, FaultAt, Undoing
      <3> QED BY <2>5, <3>2, Resting
    <2>7. CASE pc' = "abandon"
      BY <1>3, <2>3, <2>5, <2>7, PlainRest, Resting DEF RestAt, Quiet
    <2> QED BY <2>2, <2>6, <2>7
  <1>7. CASE Abandon
    <2>1. pc = "abandon" /\ ~C /\ ClearMarkers("rejectedLoad", "rejectedLoad")
      BY <1>7 DEF Abandon, Then, Stand, Loading
    <2>2. /\ \A q \in Paths \ {"pending", "commit"} : file'[q] = file[q]
          /\ pc' \in {pc, "rejectedLoad"} /\ file'["pending"] \in {file["pending"], None}
      BY <1>1, <2>1, ClearMarkersEffect
    <2>3. /\ UNCHANGED <<S, B, Cur, Bak, U>>
          /\ P' => P /\ Prev' = Prev /\ file'["pending"] = file["pending"]
      BY <2>2 DEF S, B, Cur, Bak, P, U, Prev, Has, Paths
    <2>4. Sessions' /\ Undoable' /\ Open'
      BY <1>1, <1>2, <2>1, <2>2, <2>3, SessionsKept, UndoableKept DEF Open, Undoing, Undone, Fits
    <2>5. ~Quiet
      BY <1>4, <2>1 DEF FaultAt
    <2> QED BY <1>3, <2>1, <2>2, <2>4, <2>5, PlainRest, Resting DEF RestAt
  <1>8. CASE Commit
    <2>1. /\ pc = "commit" /\ begun' = begun /\ (begun \/ C) /\ Whole("staging")
          /\ begun /\ had => B # None
      BY <1>8 DEF Commit, locals, Stand, Loading, At, Ready, Beginning, BeginsAt
    <2>2. /\ \A q \in Paths \ {"commit"} : file'[q] = file[q]
          /\ \/ pc' = "commitBackup" /\ C'
             \/ pc' = CommitNo /\ ~calm
          /\ C => C'
      <3>1. CASE Has("commit")
        BY <1>8, <3>1 DEF Commit, Goto, C, Has
      <3>2. CASE ~Has("commit")
        <4>1. WriteMarker("commit", TRUE, "commitBackup", CommitNo) /\ "commit" \in Paths
          BY <1>8, <2>1, <3>2 DEF Commit, Exists, B, C, Paths
        <4>2. /\ Others("commit")
              /\ \/ pc' = "commitBackup" /\ C'
                 \/ pc' = CommitNo
          BY <1>1, <4>1, WriteEffect DEF C, Has
        <4>3. calm => pc' = "commitBackup"
          BY <1>1, <3>2, <4>1, CalmCalls
        <4> QED BY <3>2, <4>2, <4>3 DEF Others, C, CommitNo
      <3> QED BY <3>1, <3>2
    <2>3. /\ UNCHANGED <<S, B, Cur, Bak, file["pending"], P, U, Prev, Whole("staging"), Validates("staging")>>
      BY <2>2 DEF S, B, Cur, Bak, P, U, Prev, Has, Paths, Whole, Validates
    <2>4. Undoing' => Undoing /\ ~C'
      BY <2>1, <2>2, <2>3 DEF Undoing, Undone, Whole, Validates
    <2>5. Sessions' /\ Undoable' /\ Open'
      <3>1. pc' # "off"
        BY <2>2 DEF CommitNo
      <3> QED BY <1>1, <1>2, <2>2, <2>3, <2>4, <3>1, SessionsKept, UndoableKept DEF Open, Fits
    <2>6. CASE pc' = "failLoad" /\ ~calm
      BY <1>3, <2>4, <2>5, <2>6, PlainRest, Resting DEF RestAt, Quiet
    <2>7. CASE pc' \in {"commitBackup", "opened"} /\ C'
      BY <2>1, <2>3, <2>5, <2>7, CommitRest, Resting
    <2> QED BY <2>1, <2>2, <2>6, <2>7 DEF CommitNo
  <1>9. CASE CommitBackup \/ CommitState \/ CommitMarkers
    <2>1. /\ pc \in {"commitBackup", "commitState", "commitMarkers"}
          /\ P => C /\ Whole("staging")
      BY <1>9 DEF CommitBackup, CommitState, CommitMarkers, Ready, Beginning
    <2>2. /\ pc' \in {"commitBackup", "commitState", "commitMarkers", "opened"}
          /\ UNCHANGED <<file["staging"], file["purge"]>>
          /\ B' = B \/ (B # None /\ ~(P /\ ~C))
          /\ file'["pending"] \in {file["pending"], None}
          /\ P' => file'["commit"] = file["commit"]
      <3>1. CASE CommitBackup
        <4>1. CASE DeleteProject("stagingBackup", "commitState", "opened") /\ Exists("stagingBackup")
          <5>1. Others("stagingBackup") /\ pc' \in {pc, "commitState", "opened"}
            BY <1>1, <4>1, DropEffect
          <5> QED BY <2>1, <4>1, <5>1 DEF Others, Paths, B, Exists
        <4>2. CASE file' = file /\ pc' = "commitState"
          BY <4>2 DEF B
        <4> QED BY <3>1, <4>1, <4>2 DEF CommitBackup, Then, Decide, Goto
      <3>2. CASE CommitState
        <4>1. "stateBackup" \in Paths
          BY DEF Paths
        <4>2. Others("stateBackup") /\ pc' \in {"commitMarkers", "opened"}
          BY <1>1, <3>2, <4>1, DeleteEffect DEF CommitState, Then
        <4> QED BY <4>2 DEF Others, Paths, B
      <3>3. CASE CommitMarkers
        <4>1. ClearMarkers("opened", "opened")
          BY <3>3 DEF CommitMarkers, Then
        <4>2. /\ \A q \in Paths \ {"pending", "commit"} : file'[q] = file[q]
              /\ pc' \in {pc, "opened"} /\ file'["pending"] \in {file["pending"], None}
              /\ P' => file'["commit"] = file["commit"]
          BY <1>1, <4>1, ClearMarkersEffect DEF P, Has
        <4> QED BY <2>1, <4>2 DEF Paths, B
      <3> QED BY <1>9, <3>1, <3>2, <3>3
    <2>3. /\ P' => P /\ C' = C /\ Prev' = Prev /\ file'["pending"] = file["pending"]
          /\ UNCHANGED <<S, U, Whole("staging")>>
      BY <2>2 DEF P, C, U, S, Prev, Has, Whole
    <2>4. Sessions' /\ Undoable'
      <3>1. pc' # "off"
        BY <2>2
      <3>2. Undoable'
        BY <2>1, <2>2, <2>3 DEF Ready, Undoable
      <3> QED BY <1>1, <2>3, <3>1, <3>2, SessionsKept
    <2> QED BY <2>1, <2>2, <2>3, <2>4, CommitRest, Resting
  <1> QED BY <1>5, <1>6, <1>7, <1>8, <1>9 DEF Replacement

LEMMA LoadSound ==
  ASSUME TypeOK, Flow, Stand, Ready, Marked, CalmBoot, Load, calm' = calm
  PROVE  Ready' /\ Marked' /\ CalmBoot'
  <1>1. /\ stage' = stage /\ pc # "done" /\ pc' # "off" /\ FileType
        /\ pc \in LoadingAt \cup {"preflight", "failLoad", "restoreSession"}
    <2>1. pc' # "off" /\ stage' = stage
      BY DEF Load, Preflight, Create, Restore, Rejected, RolledBack, TryPrevious, FailLoad,
         RestoreSession, CommitMarker, CommitTransaction, SaveProjectState, LoadProject, Decide,
         locals, Goto
    <2> QED BY <2>1 DEF Load, Preflight, Create, Restore, Rejected, RolledBack, TryPrevious, FailLoad,
         RestoreSession, CommitMarker, CommitTransaction, TypeOK, LoadingAt
  <1>2. Open
    BY DEF Marked, Pointing, Open
  <1>3. Quiet' = Quiet
    BY <1>1 DEF Quiet
  <1>4. Quiet => pc \notin FaultAt /\ CalmWay /\ session = None
    BY <1>1, QuietWay DEF Ready, Sessions, Quiet
  <1>5. pc \in LoadingAt \/ (pc = "preflight" /\ ~load.create) =>
          (Undoing => begun /\ session = Prev /\ ~C)
    BY DEF Ready, Beginning, At
  <1>6. ASSUME file' = file
        PROVE  /\ OwnFiles
               /\ UNCHANGED <<Open, C, P, U, S, B, Prev, Undone, Undoing, Cur, Bak>>
               /\ Fits(load.name)' = (Cur \in {None, load'.name} \/ Bak \in {None, load'.name})
               /\ session' \in {session, None} => Sessions' /\ Undoable'
    <2>1. /\ OwnFiles
          /\ UNCHANGED <<Open, C, P, U, S, B, Prev, Undone, Undoing, Cur, Bak>>
          /\ Fits(load.name)' = (Cur \in {None, load'.name} \/ Bak \in {None, load'.name})
      BY <1>6 DEF OwnFiles, Open, C, P, U, S, B, Prev, Undone, Undoing, Validates, Fits, Cur, Bak, Has
    <2>2. session' = session => Sessions'
      BY <1>1, <2>1, SessionsKept
    <2>3. session' = None => Sessions'
      BY DEF Sessions
    <2>4. Undoable'
      BY <1>6, <2>1, UndoableKept
    <2> QED BY <2>1, <2>2, <2>3, <2>4
  <1>7. CASE Preflight
    <2>1. /\ pc = "preflight" /\ file' = file /\ UNCHANGED <<load, begun, had, session>> /\ ~begun
          /\ load.create => load.name = Untitled
      BY <1>7 DEF Preflight, Stand, Loading, OpensUntitled
    <2>2. CASE load.create /\ pc' = "recover" /\ back' = Call("recover", "begin", "rejectedLoad")
      <3>1. back'["recover"] = <<"begin", "rejectedLoad">>
        BY <2>2, BackEffect DEF TypeOK, BackType
      <3>2. Quiet' => Blank'
        BY <1>3, <1>4, <2>1, <2>2 DEF CalmWay, Blank, P, C, U, B, Cur, Has
      <3>3. Rest'
        BY <1>2, <1>3, <1>6, <2>1, <2>2, <3>1, <3>2, RecoverRest DEF RecoverAt, BootReturn
      <3> QED BY <1>6, <2>1, <3>3, Resting
    <2>3. CASE ~load.create /\ pc' \in {"create", "restore"}
      <3>1. ~Undoing' /\ ~begun'
        BY <1>5, <1>6, <2>1, <2>3
      <3>2. load.name = Untitled => session = None
        BY <2>1, <2>3 DEF Ready, Beginning, OpensUntitled
      <3>3. Quiet' => Fits(load.name)'
        BY <1>3, <1>4, <1>6, <2>1, <2>3 DEF CalmWay, Fits
      <3>4. Rest'
        BY <1>2, <1>6, <2>1, <2>3, <3>1, <3>2, <3>3, LoadRest DEF LoadingAt, BeginsAt, FaultAt
      <3> QED BY <1>6, <2>1, <3>4, Resting
    <2>4. CASE ~calm /\ pc' = "rejectedLoad"
      BY <1>2, <1>3, <1>6, <2>1, <2>4, PlainRest, Resting DEF RestAt, Quiet
    <2> QED BY <1>7, <2>1, <2>2, <2>3, <2>4 DEF Preflight, Goto
  <1>8. CASE Create
    <2>1. /\ pc = "create" /\ ~C /\ UNCHANGED <<load, begun, had, session>>
      BY <1>8 DEF Create, Stand, Loading, locals
    <2>2. /\ \A q \in Paths \ {"staging"} : file'[q] = file[q]
          /\ S' = S \/ S' # None
          /\ pc' \in {"create", "restore"} \/ (~calm /\ pc' = "failLoad")
      BY <1>1, <1>8 DEF Create, Fresh, Goto, S, FileType, Paths
    <2>3. UNCHANGED <<B, Cur, Bak, file["pending"], P, C, U, Prev>>
      BY <2>2 DEF B, Cur, Bak, P, C, U, Prev, Has, Paths
    <2>4. Undoing' = Undoing
      BY <2>1, <2>3 DEF Undoing, Undone
    <2>5. Sessions' /\ Undoable' /\ Open'
      BY <1>1, <1>2, <2>1, <2>2, <2>3, <2>4, SessionsKept DEF Ready, Undoable, Open, Fits
    <2>6. CASE ~calm /\ pc' = "failLoad"
      BY <1>3, <2>1, <2>3, <2>5, <2>6, PlainRest, Resting DEF RestAt, Quiet
    <2>7. CASE pc' \in {"create", "restore"}
      <3>1. /\ Undoing => begun /\ session = Prev /\ Cur = Prev
            /\ begun /\ had => B # None
        BY <1>5, <2>1 DEF LoadingAt, Marked, Pointing, Ready, Beginning, BeginsAt, At
      <3>2. Quiet' => Fits(load.name)'
        BY <1>3, <1>4, <2>1, <2>3 DEF CalmWay, Fits
      <3>3. Rest'
        BY <2>1, <2>3, <2>4, <2>5, <2>7, <3>1, <3>2, LoadRest DEF LoadingAt, BeginsAt, FaultAt
      <3> QED BY <2>5, <3>3, Resting
    <2> QED BY <2>2, <2>6, <2>7
  <1>9. CASE Restore
    <2>1. /\ pc = "restore" /\ file' = file /\ UNCHANGED <<load, begun, had, session>>
          /\ pc' = "commitMarker" \/ (~calm /\ pc' \in {"failLoad", "rejected"})
      BY <1>9 DEF Restore, Goto, locals
    <2>2. /\ Undoing => begun /\ session = Prev /\ Cur = Prev /\ ~C
          /\ begun /\ had => B # None
          /\ load.name = Untitled /\ session # None => ~C
      BY <1>5, <2>1 DEF LoadingAt, Marked, Pointing, Ready, Beginning, BeginsAt, At, OpensUntitled
    <2>3. CASE pc' = "failLoad"
      BY <1>2, <1>3, <1>6, <2>1, <2>2, <2>3, PlainRest, Resting DEF RestAt, Quiet
    <2>4. CASE pc' \in {"commitMarker", "rejected"}
      <3>1. Quiet' => Fits(load.name)'
        BY <1>3, <1>4, <1>6, <2>1 DEF CalmWay, Fits
      <3>2. Quiet' => pc' = "commitMarker"
        BY <1>3, <2>1 DEF Quiet
      <3>3. Rest'
        BY <1>2, <1>6, <2>1, <2>2, <2>4, <3>1, <3>2, LoadRest DEF LoadingAt, BeginsAt, FaultAt
      <3> QED BY <1>6, <2>1, <3>3, Resting
    <2> QED BY <2>1, <2>3, <2>4
  <1>10. CASE Rejected
    <2>1. /\ pc = "rejected" /\ file' = file /\ UNCHANGED <<load, begun, had, session>> /\ ~Quiet'
      BY <1>3, <1>4, <1>10 DEF Rejected, FaultAt
    <2>2. CASE /\ load.name = Untitled /\ C /\ pc' = "rollbackCommitted"
               /\ back' = Call("rollback", "rolledBack", "failLoad")
      <3>1. session = None
        BY <2>1, <2>2 DEF Ready, Beginning, OpensUntitled
      <3>2. back'["rollback"] = <<"rolledBack", "failLoad">>
        BY <2>2, BackEffect DEF TypeOK, BackType
      <3>3. Rest'
        BY <1>2, <1>6, <2>1, <2>2, <3>1, <3>2, RollbackRest DEF RollbackAt, BootReturn
      <3> QED BY <1>6, <2>1, <3>3, Resting
    <2>3. CASE pc' = "tryPrevious"
      <3>1. Rest'
        BY <1>2, <1>5, <1>6, <2>1, <2>3, LoadRest DEF LoadingAt, BeginsAt
      <3> QED BY <1>6, <2>1, <3>1, Resting
    <2> QED BY <1>10, <2>2, <2>3 DEF Rejected, Goto, C
  <1>11. CASE RolledBack \/ TryPrevious
    <2>1. /\ pc \in {"rolledBack", "tryPrevious"} /\ file' = file /\ UNCHANGED <<had, session>>
          /\ ~Quiet' /\ pc \in LoadingAt
      BY <1>3, <1>4, <1>11 DEF RolledBack, TryPrevious, FaultAt, LoadingAt
    <2>2. CASE session = None /\ \E name \in {prior, file["stateBackup"]} : LoadProject(name, FALSE, FALSE)
      <3>1. pc' = "preflight" /\ ~load'.create
        BY <2>2 DEF LoadProject, Goto
      <3>2. ~Undoing'
        BY <1>5, <1>6, <2>1, <2>2 DEF Undoing
      <3>3. Rest'
        BY <1>2, <1>6, <2>1, <2>2, <3>1, <3>2, PreflightRest
      <3> QED BY <1>6, <2>1, <3>3, Resting
    <2>3. CASE pc' = "tryPrevious" /\ UNCHANGED <<load, begun>>
      <3>1. Rest'
        BY <1>2, <1>5, <1>6, <2>1, <2>3, LoadRest DEF LoadingAt, BeginsAt
      <3> QED BY <1>6, <2>1, <3>1, Resting
    <2>4. CASE pc' = "failLoad"
      BY <1>2, <1>5, <1>6, <2>1, <2>4, PlainRest, Resting DEF RestAt
    <2> QED BY <1>11, <2>2, <2>3, <2>4 DEF RolledBack, TryPrevious, Goto
  <1>12. CASE FailLoad
    <2>1. /\ pc = "failLoad" /\ file' = file /\ session' = session /\ ~Quiet'
          /\ session # None /\ Undoing => ~C
      BY <1>3, <1>4, <1>12 DEF FailLoad, FaultAt, Ready, Beginning
    <2>2. CASE ~C /\ pc' = "recover" /\ back' = Call("recover", "restoreSession", "restoreSession")
      <3>1. back'["recover"] = <<"restoreSession", "restoreSession">>
        BY <2>2, BackEffect DEF TypeOK, BackType
      <3>2. Rest'
        BY <1>2, <1>6, <2>1, <2>2, <3>1, RecoverRest DEF RecoverAt, BootReturn
      <3> QED BY <1>6, <2>1, <3>2, Resting
    <2>3. CASE pc' = "restoreSession"
      BY <1>2, <1>6, <2>1, <2>3, PlainRest, Resting DEF RestAt
    <2> QED BY <1>12, <2>2, <2>3 DEF FailLoad, Goto, C
  <1>13. CASE RestoreSession
    <2>1. /\ pc = "restoreSession" /\ file' = file /\ session' \in {session, None} /\ ~Quiet'
          /\ session # None /\ Undoing => Prev = session
      <3>1. session # None /\ Undoing => ~C /\ P
        BY <1>13 DEF RestoreSession, Ready, Beginning, Undoing, Undone
      <3> QED BY <1>1, <1>3, <1>4, <1>13, <3>1
          DEF RestoreSession, Decide, SaveProjectState, FaultAt, Ready, Sessions
    <2>2. CASE session # None /\ SaveProjectState(session, FALSE, None, "rejectedLoad", "rejectedLoad")
      <3>1. back'["marker"] = <<"rejectedLoad", "rejectedLoad">>
        BY <2>2, BackEffect DEF SaveProjectState, TypeOK, BackType
      <3>2. pc' = "saveState" /\ args'.name = session /\ args'.retain = FALSE
        BY <2>2 DEF SaveProjectState, Goto
      <3>3. Rest'
        <4>1. UNCHANGED <<Open, Undoing, Prev>>
          BY <1>6, <2>1
        <4>2. Undoing' => args'.name = Prev'
          BY <2>1, <2>2, <3>2, <4>1
        <4> QED BY <1>2, <2>1, <3>1, <3>2, <4>1, <4>2, SaveRest
      <3> QED BY <1>6, <2>1, <3>3, Resting
    <2>3. CASE pc' = "rejectedLoad"
      BY <1>2, <1>6, <2>1, <2>3, PlainRest, Resting DEF RestAt
    <2> QED BY <1>13, <2>2, <2>3 DEF RestoreSession, Decide, Goto
  <1>14. CASE CommitMarker
    <2>1. /\ pc = "commitMarker" /\ pc' = "saveState" /\ file' = file
          /\ UNCHANGED <<load, begun, had, session>>
          /\ args' = [name |-> load.name, retain |-> begun, prev |-> IF begun THEN session ELSE None]
          /\ back' = Call("marker", "commitTransaction", "failLoad")
      BY <1>14 DEF CommitMarker, SaveProjectState, Goto
    <2>2. back'["marker"] = <<"commitTransaction", "failLoad">>
      BY <2>1, BackEffect DEF TypeOK, BackType
    <2>3. /\ Undoing => begun /\ session = Prev /\ Cur = Prev /\ ~C
          /\ begun /\ had => B # None
      BY <1>5, <2>1 DEF LoadingAt, Marked, Pointing, Ready, Beginning, BeginsAt, At
    <2>4. /\ args'.retain = begun /\ args'.name = load.name
          /\ args'.prev = (IF begun THEN session ELSE None) /\ begun \in BOOLEAN
      BY <2>1 DEF TypeOK, LocalsType
    <2>5. Quiet' => args'.prev = None /\ Fits(args.name)'
      <3>1. Quiet => Fits(load.name)
        BY <1>4, <2>1 DEF CalmWay
      <3> QED BY <1>3, <1>4, <1>6, <2>1, <2>4, <3>1 DEF Fits
    <2>6. Rest'
      BY <1>2, <1>6, <2>1, <2>2, <2>3, <2>4, <2>5, SaveRest
    <2> QED BY <1>6, <2>1, <2>6, Resting
  <1>15. CASE CommitTransaction
    <2>1. /\ pc = "commitTransaction" /\ file' = file /\ UNCHANGED <<load, begun, session>>
          /\ pc' \in {"commit", "opened"} /\ (begun => had' = had)
      BY <1>15 DEF CommitTransaction, Goto
    <2>2. begun /\ had => B # None
      BY <2>1 DEF Ready, Beginning, BeginsAt, At
    <2>3. Rest'
      BY <1>2, <1>5, <1>6, <2>1, <2>2, LoadRest DEF LoadingAt, BeginsAt, FaultAt
    <2> QED BY <1>6, <2>1, <2>3, Resting
  <1> QED BY <1>7, <1>8, <1>9, <1>10, <1>11, <1>12, <1>13, <1>14, <1>15 DEF Load

LEMMA CallerSound ==
  ASSUME TypeOK, Flow, Stand, Ready, Marked, CalmBoot, ~RollbackLeftBehind,
         \/ /\ DropMarker \/ Purged \/ Selected \/ RejectedLoad \/ Opened
            /\ calm' = calm
         \/ Boot \/ NewProject \/ OpenProject \/ Finish \/ Crash
  PROVE  Ready' /\ Marked' /\ CalmBoot'
  <1>1. Open /\ FileType
    BY DEF Marked, Pointing, Open, TypeOK
  <1>2. ASSUME file' = file
        PROVE  /\ UNCHANGED <<Open, C, P, U, S, B, Prev, Undone, Undoing, Cur, Bak, Blank>>
               /\ Fits(load.name)' = (Cur \in {None, load'.name} \/ Bak \in {None, load'.name})
               /\ Undoable'
    <2>1. /\ UNCHANGED <<Open, C, P, U, S, B, Prev, Undone, Undoing, Cur, Bak, Blank>>
          /\ Fits(load.name)' = (Cur \in {None, load'.name} \/ Bak \in {None, load'.name})
      BY <1>2 DEF Open, C, P, U, S, B, Prev, Undone, Undoing, Validates, Fits, Cur, Bak, Has, Blank
    <2> QED BY <1>2, <2>1, UndoableKept
  <1>3. Quiet => pc \notin FaultAt /\ CalmWay /\ CalmRead
    BY QuietWay
  <1>4. pc # "done" /\ (pc = "off" \/ stage # "user") => session = None
    BY DEF Ready, Sessions
  <1>5. CASE DropMarker /\ calm' = calm
    <2>1. /\ pc = "dropMarker" /\ back["recover"] = <<"purged", "purged">> /\ stage = "first"
          /\ UNCHANGED <<locals, session>> /\ DeleteCall("current", "purge", "purge")
      BY <1>5 DEF DropMarker, Then, Flow
    <2>2. pc' = "purge" /\ Others("current") /\ Cur' \in {Cur, None}
      <3>1. "current" \in Paths
        BY DEF Paths
      <3> QED BY <1>1, <2>1, <3>1, DeleteEffect DEF Cur
    <2>3. OwnFiles /\ Bak' = Bak /\ UNCHANGED <<stage, back>>
      BY <2>1, <2>2 DEF Others, OwnFiles, Bak, Paths, S, B, locals
    <2>4. Sessions' /\ Undoable' /\ Open'
      BY <1>1, <2>1, <2>2, <2>3, OwnFilesKeep, SessionsKept, UndoableKept DEF OwnFiles, Open, Fits
    <2>5. Rest'
      BY <2>1, <2>2, <2>3, <2>4, PurgeRest DEF PurgeAt
    <2> QED BY <2>4, <2>5, Resting
  <1>6. CASE Purged \/ Boot
    <2>1. /\ pc \in {"purged", "off"} /\ file' = file /\ session' = session
          /\ stage' # "user" /\ session = None
      <3>1. pc \in Mark!LoadAt \cup {"loaded", "loadFailed", "dropMarker", "purge", "purged", "dead"}
               => stage # "user"
        BY DEF Ready, Called, Booting
      <3> QED BY <1>4, <1>6, <3>1 DEF Purged, Boot
    <2>2. /\ pc' \in {"recover", "dropMarker"}
          /\ pc' = "recover" => back' = Call("recover", "loadState", "loadFailed")
          /\ pc' = "dropMarker" => back' = Call("recover", "purged", "purged")
      BY <1>6 DEF Purged, Boot, Goto
    <2>3. /\ pc' = "recover" => back'["recover"] = <<"loadState", "loadFailed">>
          /\ pc' = "dropMarker" => back'["recover"] = <<"purged", "purged">>
      BY <2>2, BackEffect DEF TypeOK, BackType
    <2>4. Sessions'
      BY <2>1 DEF Sessions
    <2>5. Rest'
      BY <1>1, <1>2, <2>1, <2>2, <2>3, RecoverRest, PurgeRest DEF RecoverAt, PurgeAt
    <2> QED BY <1>2, <2>1, <2>4, <2>5, Resting
  <1>7. CASE Selected /\ calm' = calm
    <2>1. /\ pc \in {"loaded", "loadFailed"} /\ file' = file /\ UNCHANGED <<session, stage>>
          /\ pc' = "preflight" /\ load'.name = answer'
          /\ pc = "loadFailed" => load'.create
          /\ pc = "loaded" => ~load'.create /\ answer' = answer
      BY <1>7 DEF Selected, LoadProject, Goto
    <2>2. session = None
      BY <1>4, <2>1 DEF Ready, Called, Booting
    <2>3. pc = "loaded" => ~Undoing
      BY DEF Stand, Loading, Settled, Undoing, Undone
    <2>4. Quiet' => IF load'.create THEN Blank' ELSE Fits(load.name)'
      <3>1. Quiet' = Quiet
        BY <1>7, <2>1 DEF Quiet
      <3>2. Quiet => (pc = "loadFailed" => Blank) /\ (pc = "loaded" => Fits(answer))
        BY <1>3 DEF CalmWay, CalmRead
      <3> QED BY <1>2, <2>1, <3>1, <3>2 DEF Fits
    <2>5. Sessions'
      BY <2>1, <2>2 DEF Sessions
    <2>6. Rest'
      BY <1>1, <1>2, <2>1, <2>2, <2>3, <2>4, PreflightRest
    <2> QED BY <1>2, <2>1, <2>5, <2>6, Resting
  <1>8. CASE RejectedLoad /\ calm' = calm
    <2>1. /\ pc = "rejectedLoad" /\ file' = file /\ session' = session
          /\ \/ pc' = "preflight" /\ load'.create /\ stage = "first" /\ stage' = "last"
             \/ pc' = "failed" /\ stage' = stage
             \/ pc' = "dead" /\ stage # "user" /\ stage' = stage
      BY <1>8 DEF RejectedLoad, LoadProject, Goto, locals
    <2>2. ~Quiet'
      BY <1>3, <1>8, <2>1 DEF Quiet, FaultAt
    <2>3. Sessions'
      BY <1>2, <1>4, <2>1 DEF Ready, Sessions
    <2>4. Rest'
      BY <1>1, <1>2, <2>1, <2>2, PreflightRest, PlainRest DEF RestAt
    <2> QED BY <1>2, <2>1, <2>3, <2>4, Resting
  <1>9. CASE Opened /\ calm' = calm
    <2>1. pc' = "done" /\ file' = file
      BY <1>9 DEF Opened, Goto
    <2>2. Sessions'
      BY <2>1 DEF Sessions
    <2>3. Rest'
      BY <1>1, <1>2, <2>1, PlainRest DEF RestAt, FaultAt
    <2> QED BY <1>2, <2>1, <2>2, <2>3, Resting
  <1>10. CASE NewProject \/ OpenProject
    <2>1. /\ pc = "idle" /\ file' = file /\ UNCHANGED <<session, stage>> /\ pc' = "preflight"
          /\ load'.create \/ (~load'.create /\ load'.name # Untitled)
      BY <1>10 DEF NewProject, OpenProject, LoadProject, Goto
    <2>2. stage = "user" /\ ~Undoing /\ ~Quiet'
      BY <1>4, <2>1 DEF Stand, Loading, Ready, Beginning, Undoing, Quiet
    <2>3. Sessions'
      BY <1>2, <2>1 DEF Ready, Sessions
    <2>4. Rest'
      BY <1>1, <1>2, <2>1, <2>2, PreflightRest
    <2> QED BY <1>2, <2>1, <2>3, <2>4, Resting
  <1>11. CASE Finish
    <2>1. pc' = "idle" /\ file' = file /\ stage' = "user" /\ ~Quiet'
      BY <1>11 DEF Finish, Park, Goto, Quiet
    <2>2. P => C /\ Validates("staging")'
      BY <2>1 DEF RollbackLeftBehind, P, C, Has
    <2>3. ~Undone' /\ (P' => C')
      BY <2>1, <2>2 DEF Undone, P, C, Has
    <2>4. Sessions'
      BY <2>1, <2>3 DEF Sessions
    <2>5. Rest'
      BY <1>1, <1>2, <2>1, <2>3, PlainRest DEF RestAt
    <2> QED BY <1>2, <2>1, <2>4, <2>5, Resting
  <1>12. CASE Crash
    <2>1. pc' = "off" /\ file' = file /\ session' = None /\ ~Quiet'
      BY <1>12 DEF Crash, Park, Goto, Quiet
    <2>2. Sessions'
      BY <2>1 DEF Sessions
    <2>3. Rest'
      BY <1>1, <1>2, <2>1, PlainRest DEF RestAt
    <2> QED BY <1>2, <2>1, <2>2, <2>3, Resting
  <1> QED BY <1>5, <1>6, <1>7, <1>8, <1>9, <1>10, <1>11, <1>12

\* What a boot relies on after any step that does not derail the phase markers.
LEMMA NextSound ==
  ASSUME TypeOK, Flow, Owed, Stand, Sound, Next, ~Derails
  PROVE  Sound'
  <1>1. /\ Ready /\ Marked /\ CalmBoot
        /\ ~RollbackLeftBehind /\ ~PointerElsewhere
    BY DEF Sound, Derails
  <1>2. CASE Procedures
    <2>1. calm' = calm
      BY <1>2 DEF Procedures
    <2>2. CASE MarkerStep \/ MarkerReturns \/ RecoverStaging
      BY <1>1, <2>1, <2>2, MarkerSound, RecoverSound DEF Sound
    <2>3. CASE Purge \/ Rollback
      BY <1>1, <2>1, <2>3, PurgeSound, RollbackSound DEF Sound
    <2>4. CASE Replacement \/ Load
      BY <1>1, <2>1, <2>4, ReplacementSound, LoadSound DEF Sound
    <2> QED BY <1>1, <1>2, <2>1, <2>2, <2>3, <2>4, CallerSound DEF Procedures, Sound
  <1> QED BY <1>1, <1>2, CallerSound DEF Next, Sound

LEMMA InitSound == Init => Sound
  <1> SUFFICES ASSUME Init PROVE Sound
    OBVIOUS
  <1>1. pc = "off" /\ session = None /\ stage = "user" /\ \A p \in Paths : file[p] = None
    BY DEF Init
  <1>2. S = None /\ B = None /\ ~P /\ ~C /\ ~U
    BY <1>1 DEF Paths, S, B, P, C, U, Has
  <1>3. Sessions /\ Undoable
    BY <1>1, <1>2 DEF Sessions, Undoable
  <1>4. Called /\ Beginning /\ Finding /\ Marked /\ CalmBoot
    BY <1>1, <1>2 DEF Called, Beginning, Finding, Marked, NameCarried, Rewritten, Pointing, CalmBoot,
       Undoing, Undone, Booting, At, Rewriting, Mark!RewriteAt, Mark!LoadAt, RecoverAt, RollbackAt,
       PurgeAt, LoadingAt, BeginsAt
  <1> QED BY <1>3, <1>4 DEF Sound, Ready

LEMMA StutterSound ==
  ASSUME Sound, UNCHANGED vars
  PROVE  Sound'
  <1>1. /\ file' = file /\ pc' = pc
        /\ UNCHANGED <<args, answer, load, begun, had, prior, back, stage>>
        /\ UNCHANGED <<calm, session>>
    BY DEF vars, locals
  <1>2. Ready' = Ready
    BY <1>1 DEF Ready, Called, Sessions, Undoable, Beginning, Finding, Booting, At, Rewriting,
       OpensUntitled, Undoing, Undone, Prev, Whole, Validates, RecoverNo, RollbackNo,
       S, B, P, C, U, Has
  <1>3. Marked' = Marked
    BY <1>1 DEF Marked, NameCarried, Rewritten, Pointing, Fits, Rewriting, Cur, Temp, Bak,
       Undoing, Undone, Prev, Validates, P, C, U, Has
  <1>4. CalmBoot' = CalmBoot
    BY <1>1 DEF CalmBoot, CalmRewrite, CalmRead, CalmWay, Blank, Fits, At, Rewriting, Cur, Temp, Bak,
       Validates, B, P, C, U, Has
  <1> QED BY <1>2, <1>3, <1>4 DEF Sound

-----------------------------------------------------------------------------
(* The boot: which project it opens.  First what the steps have in common. *)

\* A step that leaves the files of the transaction alone.
LEMMA OwnFilesHold ==
  ASSUME OwnFiles
  PROVE  UNCHANGED <<Restored, Ours, Openable>>
  BY OwnFilesKeep DEF Restored, Ours, Openable

\* A step that changes no file.
LEMMA SameFilesHold ==
  ASSUME file' = file
  PROVE  OwnFiles /\ UNCHANGED <<Cur, Temp, Bak>>
  BY DEF OwnFiles, S, B, Cur, Temp, Bak

\* What is not undone is there to be opened when it is committed.
LEMMA OursCommitted ==
  ASSUME P, C, ~U, ~Undone
  PROVE  Ours /\ Validates("staging")
  BY DEF Undone, Ours, Restored, Validates, S

\* More projects may be opened than before.
LEMMA WideGrows ==
  ASSUME due \subseteq due'
  PROVE  /\ Wide => Wide'
         /\ \A m : Openable' = Openable /\ Harmless(m) => Harmless(m)'
  BY DEF Wide, Harmless

LEMMA PickGrows ==
  ASSUME due \subseteq due', Openable' \subseteq Openable \/ Openable' \subseteq Openable \cup due',
         Openable \cap due \subseteq Openable', Cur' = Cur, Temp' = Temp, Bak' = Bak, Pick
  PROVE  Pick'
  BY DEF Pick, Spare, Harmless

\* Homed and Leads hold on where the markers, the directories and the caller stay.
LEMMA SameHomed ==
  ASSUME Homed, OwnFiles, Cur' = Cur,
         stage' = "user" /\ pc' # "off" => stage = "user" /\ pc # "off"
  PROVE  Homed'
  BY OwnFilesKeep, OwnFilesHold DEF Homed

LEMMA SameLeads ==
  ASSUME Leads, OwnFiles, UNCHANGED <<Cur, Temp, Bak>>, due \subseteq due',
         session' \in {session, None}, calm \/ stage = "user" => calm' \/ stage' = "user"
  PROVE  Leads'
  <1>1. UNCHANGED <<U, Undone, Prev, Openable>>
    BY OwnFilesKeep, OwnFilesHold
  <1>2. Pick => Pick'
    BY <1>1, PickGrows
  <1>3. Wide => Wide'
    BY WideGrows
  <1> QED BY <1>1, <1>2, <1>3 DEF Leads, Pick

\* What a step of a rewrite does to the marker files.
Moves ==
  LET name == args.name IN
  \/ Cur' = name /\ pc' # "swapState" /\ (pc' = "restoreState" => Bak' = Bak /\ Temp' = None)
  \/ Cur' = Cur /\ Bak' = Bak /\ Temp' \in {Temp, None, Torn, name} /\ pc' # "swapState"
  \/ Cur' = None /\ Bak' = name /\ Temp' \in {None, name} /\ pc' \notin {"swapState", "restoreState"}
  \/ /\ pc = "keepCurrent" /\ Cur' = None /\ Bak' = Cur /\ Bak = None /\ Temp' \in {None, name}
     /\ pc' # "restoreState"
  \/ pc = "restoreState" /\ Cur' = Bak /\ Bak' = None /\ Temp' = Temp
     /\ pc' \notin {"swapState", "restoreState"}
  \/ args.retain /\ Cur' \in {Cur, None} /\ pc' \notin {"swapState", "restoreState"}

LEMMA RewriteMoves ==
  ASSUME TypeOK, Mark!SaveProjectState, NameCarried, pc = "removeCurrent" => args.retain
  PROVE  /\ Moves /\ args' = args
         /\ pc' = "restoreState" => pc = "swapState"
         /\ pc' = "removeCurrent" => args'.retain
  <1> USE DEF NameCarried, Rewriting, RetainAt, Moves, Mark!RewriteAt
  <1>0. "current" \in State /\ "stateTemp" \in State /\ "stateBackup" \in State /\ FileType
        /\ args.name # None /\ args.retain \in BOOLEAN
    BY DEF State, TypeOK, LocalsType, Name
  <1>1. CASE Mark!RetainPrevious
    <2>1. /\ pc = "saveState" /\ pc' \in {"clearStateTemp", "saveFailed"} /\ UNCHANGED <<args, Cur, Temp>>
          /\ Bak' # Bak => args.retain
      BY <1>0, <1>1 DEF Mark!RetainPrevious, Mark!Goto, Mark!Exists, Mark!markerFrame, FileType,
         Paths, Cur, Temp, Bak
    <2> QED BY <1>0, <2>1
  <1>2. CASE Mark!ClearStateTemp
    BY <1>0, <1>2, MarkDeleted DEF Mark!ClearStateTemp, Cur, Temp, Bak
  <1>3. CASE Mark!WriteState
    <2>1. /\ pc = "writeState" /\ pc' \in {"sealState", "saveFailed"} /\ UNCHANGED <<args, Cur, Bak>>
          /\ Temp' \in {Temp, Torn}
      BY <1>0, <1>3 DEF Mark!WriteState, Mark!Goto, Mark!markerFrame, FileType, Paths, Cur, Bak, Temp
    <2> QED BY <1>0, <2>1
  <1>4. CASE Mark!SealState
    <2>1. /\ pc = "sealState" /\ UNCHANGED <<args, Cur, Bak>>
          /\ pc' \in {"dropStateTemp", "replaceState"} /\ Temp' \in {Temp, args.name}
      BY <1>0, <1>4 DEF Mark!SealState, Mark!Goto, Mark!markerFrame, FileType, Paths, Cur, Temp, Bak
    <2> QED BY <1>0, <2>1
  <1>5. CASE Mark!DropStateTemp
    BY <1>0, <1>5, MarkDeleted DEF Mark!DropStateTemp, Cur, Temp, Bak
  <1>6. CASE Mark!ReplaceState
    <2>1. pc = "replaceState"
      BY <1>6 DEF Mark!ReplaceState
    <2> QED BY <1>0, <1>6, <2>1, MarkReplaced
  <1>7. CASE Mark!CleanStateBackup
    BY <1>0, <1>7, MarkDeleted DEF Mark!CleanStateBackup, Cur, Temp, Bak
  <1>8. CASE Mark!RemoveCurrent
    BY <1>0, <1>8, MarkDeleted DEF Mark!RemoveCurrent, Cur, Temp, Bak
  <1>9. CASE Mark!InstallState
    BY <1>0, <1>9, MarkMoved DEF Mark!InstallState, Cur, Temp, Bak
  <1>10. CASE Mark!CompareMarkers
    <2>1. /\ pc = "compareMarkers" /\ UNCHANGED <<args, Cur, Temp, Bak>>
          /\ pc' \in {"sameDropTemp", "fallbackRemove", "dropStateTemp"}
      BY <1>10 DEF Mark!CompareMarkers, Mark!Goto, Mark!markerFrame, Cur, Temp, Bak
    <2> QED BY <1>0, <2>1
  <1>11. CASE Mark!SameDropTemp
    BY <1>0, <1>11, MarkDeleted DEF Mark!SameDropTemp, Cur, Temp, Bak
  <1>12. CASE Mark!SameDropBackup
    BY <1>0, <1>12, MarkDeleted DEF Mark!SameDropBackup, Cur, Temp, Bak
  <1>13. CASE Mark!SameDropBackupAnyway
    BY <1>0, <1>13, MarkDeleted DEF Mark!SameDropBackupAnyway, Cur, Temp, Bak
  <1>14. CASE Mark!FallbackRemove
    BY <1>0, <1>14, MarkDeleted DEF Mark!FallbackRemove, Cur, Temp, Bak
  <1>15. CASE Mark!FallbackInstall
    BY <1>0, <1>15, MarkMoved DEF Mark!FallbackInstall, Cur, Temp, Bak
  <1>16. CASE Mark!FallbackDropTemp
    BY <1>0, <1>16, MarkDeleted DEF Mark!FallbackDropTemp, Cur, Temp, Bak
  <1>17. CASE Mark!KeepCurrent
    BY <1>0, <1>17, MarkMoved DEF Mark!KeepCurrent, Cur, Temp, Bak
  <1>18. CASE Mark!SwapState
    BY <1>0, <1>18, MarkMoved DEF Mark!SwapState, Cur, Temp, Bak
  <1>19. CASE Mark!RestoreState
    BY <1>0, <1>19, MarkMoved DEF Mark!RestoreState, Cur, Temp, Bak
  <1>20. CASE Mark!DropKept
    BY <1>0, <1>20, MarkDeleted DEF Mark!DropKept, Cur, Temp, Bak
  <1> QED BY <1>1, <1>2, <1>3, <1>4, <1>5, <1>6, <1>7, <1>8, <1>9, <1>10, <1>11, <1>12, <1>13,
            <1>14, <1>15, <1>16, <1>17, <1>18, <1>19, <1>20 DEF Mark!SaveProjectState

\* A place adds nothing elsewhere.
LEMMA Elsewhere ==
  /\ ~Rewriting' => AtRewrite'
  /\ ~Rewriting' /\ pc' \notin TakesBackAt => AtRollback'
  /\ pc' \notin {"clearMarkers", "dropMarker", "purge", "loadFailed"} => AtRecover'
  /\ pc' \notin {"dropStale", "loaded", "retryBackup", "rereadBackup", "rereadTemp", "retryTemp", "installTemp",
                 "giveUp", "giveUpTemp", "fallBack"} => AtRead'
  BY DEF AtRewrite, AtRollback, TakesBackAt, AtRecover, AtRead, Reverting

\* A rewrite ends with the marker that is asked for, or with nothing worse than before.
LEMMA RewritePicks ==
  ASSUME TypeOK, Moves, Openable' = Openable, due \subseteq due', args.name \in Openable \cap due,
         ~args.retain, pc \in {"swapState", "restoreState"} => Spare, Pick,
         pc' = "restoreState" => pc = "swapState"
  PROVE  Pick' /\ (pc' \in {"swapState", "restoreState"} => Spare')
  <1>1. args.name \in Openable /\ args.name \in due /\ None \notin Openable /\ Torn \notin Openable
    BY DEF Openable, Name
  <1>2. Untitled \in due => Untitled \in due'
    OBVIOUS
  <1>3. CASE Cur' = args.name
    BY <1>1, <1>2, <1>3 DEF Moves, Pick, Spare, Harmless
  <1>4. CASE Cur' = Cur /\ Bak' = Bak /\ Temp' \in {Temp, None, Torn, args.name} /\ pc' # "swapState"
    <2>1. CASE Spare
      <3>1. Spare'
        BY <1>1, <1>2, <1>4, <2>1 DEF Spare, Harmless
      <3> QED BY <3>1 DEF Pick
    <2>2. CASE ~Spare
      BY <1>1, <1>2, <1>4, <2>2 DEF Pick
    <2> QED BY <2>1, <2>2
  <1>5. CASE Cur' = None /\ Bak' = args.name /\ Temp' \in {None, args.name}
    BY <1>1, <1>5 DEF Pick, Spare, Harmless
  <1>6. CASE pc = "keepCurrent" /\ Cur' = None /\ Bak' = Cur /\ Bak = None /\ Temp' \in {None, args.name}
    BY <1>1, <1>2, <1>6 DEF Pick, Spare, Harmless
  <1>7. CASE pc = "restoreState" /\ Cur' = Bak /\ Bak' = None /\ Temp' = Temp
                  /\ pc' \notin {"swapState", "restoreState"}
    BY <1>1, <1>2, <1>7 DEF Pick, Spare, Harmless
  <1> QED BY <1>3, <1>4, <1>5, <1>6, <1>7 DEF Moves

LEMMA RewriteGuides ==
  ASSUME TypeOK, NameCarried, Homed, Leads, Steered, Mark!SaveProjectState, due \subseteq due',
         UNCHANGED <<load, begun, had, prior, back, stage, session, calm>>
  PROVE  Homed' /\ Leads' /\ Steered'
  <1>1. Rewriting /\ Rewriting' /\ pc' # "off" /\ pc # "off"
    BY RewriteEffect DEF Rewriting, RewriteAt, Mark!RewriteAt
  <1>2. OwnFiles
    BY RewriteEffect DEF OnlyState, OwnFiles, State, Paths, S, B
  <1>3. /\ UNCHANGED <<S, B, P, C, U, Prev, Undone, Validates("staging"), file["pending"].had>>
        /\ UNCHANGED <<Ours, Openable, Marking, Reverting, Restoring, OpensUntitled>>
    BY <1>1, <1>2, OwnFilesKeep, OwnFilesHold DEF Marking, Reverting, Restoring, OpensUntitled
  <1>4. /\ Moves /\ args' = args /\ args.name \in Name /\ args.retain \in BOOLEAN
        /\ pc' = "restoreState" => pc = "swapState"
        /\ pc' = "removeCurrent" => args'.retain
    BY <1>1, RewriteMoves DEF Steered, AtRewrite, TypeOK, LocalsType
  <1>5. (Wide => Wide') /\ AtRewrite
    BY WideGrows DEF Steered
  <1>6. ~Undone => args.name \in Openable
    BY <1>1, <1>5 DEF AtRewrite
  <1>7. ~Undone /\ ~Wide => /\ args.name \in due /\ ~args.retain
                            /\ pc \in {"swapState", "restoreState"} => Spare
    BY <1>1, <1>5 DEF AtRewrite
  <1>8. ~Undone /\ ~Wide => Pick' /\ (pc' \in {"swapState", "restoreState"} => Spare')
    BY <1>3, <1>4, <1>6, <1>7, RewritePicks DEF Leads, Pick
  <1>9. args.name = Untitled /\ ~Undone => Ours
    BY <1>6 DEF Openable
  <1>10. Homed'
    <2>1. ASSUME stage = "user", ~Undone, Cur' = Untitled
          PROVE  Ours
      <3>1. Cur' \in {args.name, Cur} \/ (pc = "restoreState" /\ Cur' = Bak)
        BY <1>4, <2>1 DEF Moves, Name
      <3>2. Cur = Untitled => Ours
        BY <1>1, <2>1 DEF Homed
      <3>3. pc = "restoreState" /\ Bak = Untitled => Ours
        BY <1>1, <1>5, <2>1 DEF AtRewrite
      <3> QED BY <1>9, <2>1, <3>1, <3>2, <3>3
    <2> QED BY <1>1, <1>3, <2>1 DEF Homed
  <1>11. Leads'
    BY <1>3, <1>5, <1>8 DEF Leads, Pick
  <1>12. AtRewrite'
    <2>1. stage = "user" /\ ~Undone /\ pc' \in {"swapState", "restoreState"} => (Bak' = Untitled => Ours)
      <3>1. pc' = "swapState" => Bak' = Cur
        BY <1>4 DEF Moves
      <3>2. pc' = "restoreState" => Bak' = Bak
        BY <1>4 DEF Moves
      <3> QED BY <1>1, <1>4, <1>5, <3>1, <3>2 DEF Homed, AtRewrite
    <2> QED BY <1>1, <1>3, <1>4, <1>5, <1>6, <1>7, <1>8, <2>1 DEF AtRewrite
  <1>13. AtLoad'
    BY <1>1, <1>3, <1>5, Rewrites DEF Steered, AtLoad, Creates, CommittedAt, OpenedAt, LoadingAt, BeginsAt, PurgeAt
  <1>14. AtSession'
    BY <1>1, <1>3, Rewrites DEF Steered, AtSession, Rewriting, Mark!RewriteAt
  <1>15. AtRollback'
    BY <1>1, <1>3, <1>5, Rewrites DEF Steered, AtRollback, TakesBackAt, RollbackAt
  <1>16. AtRecover' /\ AtRead'
    BY <1>1, Elsewhere, Rewrites DEF RecoverAt, Mark!LoadAt
  <1> QED BY <1>10, <1>11, <1>12, <1>13, <1>14, <1>15, <1>16 DEF Steered

LEMMA ReturnGuides ==
  ASSUME TypeOK, Flow, Stand, Sound, Homed, Leads, Steered, MarkerReturns, due \subseteq due', calm' = calm
  PROVE  Homed' /\ Leads' /\ Steered'
  <1>1. /\ Rewriting /\ ~Rewriting' /\ pc \in {"saved", "saveFailed"} /\ file' = file
        /\ UNCHANGED <<args, answer, load, begun, had, prior, back, stage, session>>
        /\ pc' = "loadFailed" => pc = "saveFailed" /\ stage # "user"
        /\ pc' = "failLoad" =>
             \/ back["marker"][1] = "commitTransaction"
             \/ back["marker"][1] = "rollbackDrop" /\ back["rollback"][1] = "rolledBack" /\ session = None
        /\ pc' = "restoreSession" => back["marker"][1] = "clearMarkers"
        /\ pc' \in {"clearMarkers", "rollbackDrop", "commitTransaction"} =>
             back["marker"][1] = pc' /\ pc = "saved"
        /\ pc' \in {"loadFailed", "purged", "failLoad", "restoreSession", "clearMarkers",
                    "rollbackDrop", "commitTransaction", "rejectedLoad"}
    BY Returning DEF Sound
  <1>2. /\ OwnFiles /\ UNCHANGED <<S, B, P, C, U, Prev, Undone, Validates("staging"), file["pending"].had>>
        /\ UNCHANGED <<Ours, Openable, OpensUntitled, Cur, Temp, Bak>>
    BY <1>1, SameFilesHold, OwnFilesKeep, OwnFilesHold DEF OpensUntitled
  <1>3. pc = "saved" => Cur = args.name
    BY DEF Sound, Marked, NameCarried
  <1>4. (Wide => Wide') /\ pc \notin PurgeAt \cup RecoverAt /\ pc # "off"
    BY <1>1, WideGrows, Rewrites
  <1>5. Homed' /\ Leads'
    BY <1>1, <1>2, <1>4, SameHomed, SameLeads
  <1>6. AtRewrite' /\ AtRead'
    BY <1>1, Elsewhere
  <1>7. args.name \in Name
    BY DEF TypeOK, LocalsType
  <1>8. Restoring => Undone
    <2>1. ~U
      BY <1>1, <1>4 DEF Flow, PurgeDueAt
    <2>2. Restoring => ~C
      BY <1>1 DEF Restoring, Stand, Recovering, At
    <2> QED BY <1>1, <2>1, <2>2 DEF Undone, Steered, AtRewrite, Restoring
  <1>9. AtLoad'
    <2>1. Creates' => Creates
      BY <1>1 DEF Creates, Restoring, Reverting, RecoverAt, RollbackAt, PurgeAt
    <2>2. pc' = "commitTransaction" => Marking /\ args.name = load.name
      BY <1>1 DEF Marking, Steered, AtRewrite
    <2>3. pc' \notin BeginsAt \cup CommittedAt \cup OpenedAt \cup {"off", "create", "preflight"} \/ pc' = "commitTransaction"
      BY <1>1 DEF BeginsAt, CommittedAt, OpenedAt
    <2> QED BY <1>1, <1>2, <1>3, <1>4, <2>1, <2>2, <2>3 DEF Steered, AtLoad, Marking, OpenedAt, CommittedAt
  <1>10. AtSession'
    <2>1. ~(stage = "user" /\ session = None)
      BY <1>1 DEF Steered, AtSession
    <2>2. ASSUME stage = "user", session = Untitled, ~Undone, ~Ours
          PROVE  pc' \in {"rejectedLoad", "rollbackDrop", "purged", "loadFailed"}
      <3>1. ~Marking /\ ~Restoring /\ session # None
        BY <1>8, <2>1, <2>2 DEF Steered, AtSession
      <3> QED BY <1>1, <3>1 DEF Marking, Restoring
    <2> QED BY <1>1, <1>2, <2>1, <2>2 DEF AtSession, Marking, LoadingAt, RecoverAt
  <1>11. AtRollback'
    <2>1. pc' = "rollbackDrop" => Reverting /\ args.name = prior /\ Cur = prior
      BY <1>1, <1>3 DEF Reverting, Steered, AtRewrite
    <2> QED BY <1>1, <1>2, <1>4, <1>7, <2>1 DEF Steered, AtRollback, TakesBackAt, Reverting, Name
  <1>12. AtRecover'
    <2>1. pc' = "clearMarkers" => Prev = args.name /\ Cur = Prev
      BY <1>1, <1>3 DEF Restoring, Steered, AtRewrite
    <2>2. pc' = "loadFailed" => Wide
      BY <1>1 DEF Sound, CalmBoot, FaultAt, Leads
    <2> QED BY <1>1, <1>2, <1>4, <1>7, <2>1, <2>2 DEF AtRecover, Name
  <1> QED BY <1>5, <1>6, <1>9, <1>10, <1>11, <1>12 DEF Steered

\* A boot that meets no fault reads the first project of its marker that it may open.
LEMMA ReadPicks ==
  ASSUME TypeOK, Mark!LoadCurrentProjectName, calm, CalmRead, pc \notin FaultAt, ~Wide,
         Loadable = Openable, UNCHANGED Openable, due \subseteq due', AtRead, Pick
  PROVE  Pick' /\ AtRead' /\ (pc' = "loadFailed" => Untitled \in due')
  <1> DEFINE Found == /\ pc' \in {"dropStale", "loaded"} => answer' \in due'
                      /\ pc' \in {"retryBackup", "retryTemp", "giveUp"} => Cur' \notin Openable
                      /\ pc' = "rereadBackup" => Bak' = None
                      /\ pc' = "rereadTemp" => Temp' = None
                      /\ pc' \in {"retryTemp", "installTemp", "rereadTemp", "giveUp", "giveUpTemp", "fallBack"} =>
                           Bak' \notin Openable
                      /\ pc' \in {"giveUp", "giveUpTemp", "fallBack"} => Temp' \notin Openable
                      /\ pc' = "loadFailed" => Untitled \in due'
  <1>0. /\ "current" \in State /\ "stateTemp" \in State /\ "stateBackup" \in State /\ FileType
        /\ None \notin Openable /\ Torn \notin Openable
    BY DEF State, TypeOK, Openable, Name
  <1>1. /\ pc \in {"dropStale", "loaded"} => answer \in due
        /\ pc \in {"retryBackup", "retryTemp", "giveUp"} => Cur \notin Openable
        /\ pc = "rereadBackup" => Bak = None
        /\ pc = "rereadTemp" => Temp = None
        /\ pc \in {"retryTemp", "installTemp", "rereadTemp", "giveUp", "giveUpTemp", "fallBack"} =>
             Bak \notin Openable
        /\ pc \in {"giveUp", "giveUpTemp", "fallBack"} => Temp \notin Openable
    BY DEF AtRead
  <1>2. Cur \notin Openable => Spare
    BY DEF Pick
  <1>3. /\ \A m : Harmless(m) => (m \in Openable' => m \in due')
        /\ Untitled \in due => Untitled \in due'
        /\ Openable \cap due \subseteq Openable' \cap due'
    BY DEF Harmless
  <1>4. ASSUME UNCHANGED <<Cur, Bak>>, Temp' \in {Temp, None}
        PROVE  Pick'
    BY <1>0, <1>3, <1>4 DEF Pick, Spare, Harmless
  <1>5. ASSUME Cur \notin Openable, Temp' \in {Temp, None},
               Cur' \in {Cur, None} /\ Bak' = Bak
        PROVE  Pick'
    BY <1>0, <1>2, <1>3, <1>5 DEF Pick, Spare, Harmless
  <1>6. ASSUME Cur \notin Openable, Cur' = Bak, Bak' = None, Temp' = Temp
        PROVE  Pick'
    BY <1>0, <1>2, <1>3, <1>6 DEF Pick, Spare, Harmless
  <1>7. ASSUME Cur \notin Openable, Cur' = Temp, Temp' = None, Bak' = Bak
        PROVE  Pick'
    BY <1>0, <1>2, <1>3, <1>7 DEF Pick, Spare, Harmless
  <1>8. Cur \in Openable => Cur \in due
    BY DEF Pick, Spare, Harmless
  <1>9. Cur \notin Openable /\ Bak \notin Openable => Untitled \in due
    BY <1>2 DEF Spare
  <1>10. SUFFICES Pick' /\ Found
    BY DEF AtRead, Wide
  <1>11. CASE Mark!LoadState
    <2>1. CASE Cur # None
      <3>1. pc' = "readCurrent" /\ UNCHANGED <<Cur, Temp, Bak>>
        BY <1>11, <2>1 DEF Mark!LoadState, Mark!Goto, Mark!Exists, Cur, Temp, Bak
      <3> QED BY <1>4, <3>1
    <2>2. CASE Cur = None /\ Temp # None
      <3> DEFINE no == IF Mark!Exists("stateBackup") THEN "recoverFromBackup" ELSE "loadFailed"
      <3>1. Mark!RenameOr("stateTemp", "current", "readCurrent", no)
        BY <1>11, <2>2 DEF Mark!LoadState, Mark!RenameOr, Mark!Exists, Cur, Temp
      <3> HIDE DEF no
      <3>2. pc' = "readCurrent" /\ Cur' = Temp /\ Temp' = None /\ Bak' = Bak
        BY <1>0, <2>2, <3>1, MarkMoved DEF Cur, Temp, Bak
      <3> QED BY <1>0, <1>7, <2>2, <3>2
    <2>3. CASE Cur = None /\ Temp = None
      <3>1. Bak # None /\ Mark!RenameOr("stateBackup", "current", "readCurrent", "loadFailed")
        BY <1>11, <2>3 DEF Mark!LoadState, Mark!RenameOr, Mark!Exists, Cur, Temp, Bak
      <3>2. pc' = "readCurrent" /\ Cur' = Bak /\ Bak' = None /\ Temp' = Temp
        BY <1>0, <2>3, <3>1, MarkMoved DEF Cur, Temp, Bak
      <3> QED BY <1>0, <1>6, <2>3, <3>2
    <2> QED BY <2>1, <2>2, <2>3
  <1>12. CASE Mark!SelectExistingUntitled
    <2>1. /\ Cur = None /\ Bak = None /\ UNCHANGED <<Cur, Temp, Bak>>
          /\ \/ pc' = "loaded" /\ answer' = Untitled
             \/ pc' = "loadFailed"
      BY <1>12 DEF Mark!SelectExistingUntitled, Mark!Marker, Mark!Exists, Mark!Goto, Cur, Bak, Temp
    <2> QED BY <1>0, <1>3, <1>4, <1>9, <2>1
  <1>13. CASE Mark!RecoverFromBackup
    BY <1>13 DEF Mark!RecoverFromBackup, FaultAt
  <1>14. CASE Mark!ReadCurrent \/ Mark!RereadBackup \/ Mark!RereadTemp
    <2>1. /\ UNCHANGED <<Cur, Temp, Bak>>
          /\ \/ Cur \in Openable /\ answer' = Cur /\ pc' \in {"dropStale", "loaded"}
             \/ /\ Cur \notin Openable /\ pc' \in {"retryBackup", "retryTemp", "giveUp"}
                /\ pc' = "retryTemp" => Bak = None \/ pc = "rereadBackup"
                /\ pc' = "giveUp" => pc = "rereadTemp"
      BY <1>14 DEF Mark!ReadCurrent, Mark!RereadBackup, Mark!RereadTemp, Mark!ReadValidState,
         Mark!Goto, Mark!Exists, Cur, Temp, Bak
    <2> QED BY <1>0, <1>1, <1>4, <1>8, <2>1
  <1>15. CASE Mark!DropStale
    <2>1. pc = "dropStale" /\ pc' = "loaded" /\ UNCHANGED <<answer, Cur, Bak>> /\ Temp' \in {Temp, None}
      BY <1>0, <1>15, MarkDeleted DEF Mark!DropStale, Cur, Temp, Bak, State
    <2> QED BY <1>1, <1>4, <2>1
  <1>16. CASE Mark!RetryBackup
    <2>1. pc = "retryBackup" /\ pc' = "installBackup" /\ Cur' = None /\ UNCHANGED <<Temp, Bak>>
      BY <1>0, <1>16, MarkDeleted DEF Mark!RetryBackup, Cur, Temp, Bak, State
    <2> QED BY <1>1, <1>5, <2>1
  <1>17. CASE Mark!InstallBackup
    <2>1. /\ Cur = None
          /\ \/ Cur' = Bak /\ Bak' = None /\ Temp' = Temp /\ pc' = "rereadBackup"
             \/ Bak = None /\ UNCHANGED <<Cur, Temp, Bak>> /\ pc' = "retryTemp"
      BY <1>0, <1>17, MarkMoved DEF Mark!InstallBackup, Cur, Temp, Bak, State, CalmRead
    <2> QED BY <1>0, <1>4, <1>6, <2>1
  <1>18. CASE Mark!RetryTemp
    <2>1. /\ pc = "retryTemp" /\ UNCHANGED <<Temp, Bak>>
          /\ \/ pc' = "giveUp" /\ Cur' = Cur /\ Temp = None
             \/ pc' = "installTemp" /\ Cur' = None
      BY <1>0, <1>18, MarkDeleted DEF Mark!RetryTemp, Mark!Goto, Mark!Exists, Cur, Temp, Bak, State
    <2> QED BY <1>0, <1>1, <1>5, <2>1
  <1>19. CASE Mark!InstallTemp
    <2>1. /\ Cur = None /\ pc = "installTemp"
          /\ \/ Cur' = Temp /\ Temp' = None /\ Bak' = Bak /\ pc' = "rereadTemp"
             \/ Temp = None /\ UNCHANGED <<Cur, Temp, Bak>> /\ pc' = "giveUp"
      BY <1>0, <1>19, MarkMoved DEF Mark!InstallTemp, Cur, Temp, Bak, State, CalmRead
    <2> QED BY <1>0, <1>1, <1>4, <1>7, <2>1
  <1>20. CASE Mark!GiveUp
    <2>1. pc = "giveUp" /\ pc' = "giveUpTemp" /\ Cur' = None /\ UNCHANGED <<Temp, Bak>>
      BY <1>0, <1>20, MarkDeleted DEF Mark!GiveUp, Cur, Temp, Bak, State
    <2> QED BY <1>1, <1>5, <2>1
  <1>21. CASE Mark!GiveUpTemp
    <2>1. pc = "giveUpTemp" /\ pc' = "fallBack" /\ UNCHANGED <<Cur, Bak>> /\ Temp' = None
      BY <1>0, <1>21, MarkDeleted DEF Mark!GiveUpTemp, Cur, Temp, Bak, State
    <2> QED BY <1>0, <1>1, <1>4, <2>1
  <1>22. CASE Mark!FallBack
    <2>1. /\ pc = "fallBack" /\ Cur = None /\ UNCHANGED <<Cur, Temp, Bak>>
          /\ pc' = "loaded" /\ answer' = Untitled
      BY <1>22 DEF Mark!FallBack, Mark!Goto, Cur, Temp, Bak, CalmRead
    <2> QED BY <1>0, <1>1, <1>4, <1>9, <2>1
  <1> QED BY <1>11, <1>12, <1>13, <1>14, <1>15, <1>16, <1>17, <1>18, <1>19, <1>20, <1>21, <1>22
          DEF Mark!LoadCurrentProjectName

LEMMA ReadGuides ==
  ASSUME TypeOK, Stand, Sound, Homed, Leads, Steered, Mark!LoadCurrentProjectName, due \subseteq due',
         UNCHANGED <<load, begun, had, prior, back, stage, session, calm>>
  PROVE  Homed' /\ Leads' /\ Steered'
  <1>1. /\ OnlyState /\ pc \in Mark!LoadAt /\ pc' \in Mark!LoadAt \cup {"loaded", "loadFailed"}
    BY ReadEffect DEF ReadAt
  <1>2. OwnFiles
    BY <1>1 DEF OnlyState, OwnFiles, State, Paths, S, B
  <1>3. UNCHANGED <<U, Undone, Prev, Ours, Openable, P, file["pending"].had>>
    BY <1>2, OwnFilesKeep, OwnFilesHold
  <1>4. ~Rewriting' /\ Settled /\ ~Undone /\ stage # "user" /\ session = None
    BY <1>1 DEF Rewriting, Mark!RewriteAt, Mark!LoadAt, Stand, Loading, Settled, Undone, Sound, Ready,
       Called, Booting, Sessions
  <1>5. Loadable = Openable
    BY <1>4 DEF Settled, Loadable, Openable, Ours, Restored, Validates, S
  <1>6. Wide => Wide'
    BY WideGrows
  <1>7. ~Wide => calm /\ ~U /\ Pick
    BY <1>4 DEF Leads, Pick
  <1>8. ~Wide => Pick' /\ AtRead' /\ (pc' = "loadFailed" => Untitled \in due')
    BY <1>3, <1>4, <1>5, <1>7, ReadPicks DEF Sound, CalmBoot, Steered
  <1>9. Homed'
    BY <1>3, <1>4 DEF Homed
  <1>10. Leads'
    BY <1>3, <1>4, <1>6, <1>7, <1>8 DEF Leads, Pick
  <1>11. AtRead' /\ AtRecover'
    BY <1>1, <1>6, <1>8 DEF AtRead, AtRecover, Mark!LoadAt
  <1>12. AtRewrite' /\ AtRollback'
    BY <1>1, <1>4, Elsewhere DEF TakesBackAt, Mark!LoadAt
  <1>13. AtLoad'
    <2>1. ~Creates' /\ ~Marking'
      BY <1>1, <1>4 DEF Creates, Restoring, Reverting, Marking, RecoverAt, RollbackAt, PurgeAt, Mark!LoadAt
    <2>2. pc' \notin OpenedAt \cup BeginsAt \cup CommittedAt
                      \cup {"off", "create", "commitBackup", "commitState", "commitMarkers", "preflight"}
      BY <1>1 DEF OpenedAt, BeginsAt, CommittedAt, Mark!LoadAt
    <2> QED BY <1>6, <2>1, <2>2 DEF Steered, AtLoad, CommittedAt, OpenedAt
  <1>14. AtSession'
    BY <1>1, <1>4 DEF AtSession, Mark!LoadAt
  <1> QED BY <1>9, <1>10, <1>11, <1>12, <1>13, <1>14 DEF Steered

LEMMA MarkerGuides ==
  ASSUME TypeOK, Flow, Stand, Sound, Homed, Leads, Steered, MarkerStep \/ MarkerReturns, due \subseteq due',
         calm' = calm
  PROVE  Homed' /\ Leads' /\ Steered'
  BY RewriteGuides, ReturnGuides, ReadGuides DEF MarkerStep, Sound, Marked

-----------------------------------------------------------------------------
(* The boot: what the recovery and the purge leave it to open. *)

\* A step that takes nothing back leaves what can be opened.
LEMMA KeptGuides ==
  ASSUME Homed, Leads, UNCHANGED <<P, U, Undone, Prev, file["pending"].had, Cur, Temp, Bak>>,
         Ours' = Ours \/ (Undone /\ Prev # Untitled), due \subseteq due',
         UNCHANGED <<stage, session, calm>>, pc # "off"
  PROVE  Homed' /\ Leads'
  <1>1. Wide => Wide'
    BY WideGrows
  <1>2. Homed'
    BY DEF Homed
  <1>3. ~Undone => Openable' = Openable
    BY DEF Openable
  <1>4. ~Undone /\ Pick => Pick'
    BY <1>3, PickGrows
  <1> QED BY <1>1, <1>2, <1>4 DEF Leads, Pick

\* Where a recovery or a purge goes on, or returns to.
LEMMA RecoverPlaces ==
  ASSUME TypeOK, Ready, Steered, due \subseteq due', UNCHANGED <<load, begun, had, prior, stage, session>>,
         back'["recover"] = back["recover"],
         \/ pc \in RecoverAt
         \/ pc \in PurgeAt /\ stage # "user"
         \/ pc = "purge" /\ stage # "user" /\ back["recover"] = <<"purged", "purged">>,
         \/ pc' \in RecoverAt \cup PurgeAt \cup {back["recover"][1], RecoverNo}
         \/ pc' = "rollbackCommitted" /\ back'["rollback"] = back["recover"],
         stage = "user" /\ session = Untitled /\ ~Undone' => Ours' \/ (~Undone /\ Ours' = Ours),
         pc' = "clearMarkers" /\ P' =>
           IF Prev' = None THEN Cur' = None /\ Temp' = None /\ Bak' = None ELSE Cur' = Prev',
         pc' = "loadFailed" => Wide \/ Untitled \in due
  PROVE  Steered'
  <1>1. /\ back["recover"][1] \in {"loadState", "purged", "begin", "restoreSession"}
        /\ RecoverNo \in {"loadFailed", "purged", "rejectedLoad", "restoreSession"}
        /\ pc \notin {"off", "rejectedLoad", "failed"}
        /\ RecoverNo = "restoreSession" <=> back["recover"][1] = "restoreSession"
        /\ pc = "purge" => back["recover"][1] # "begin" /\ stage # "user"
    BY RecoverCalled, Pairs DEF RecoverNo, RecoverAt, PurgeAt, TypeOK
  <1>2. pc' \in RecoverAt \cup PurgeAt \cup {"rollbackCommitted", "loadState", "purged", "begin",
                                           "restoreSession", "loadFailed", "rejectedLoad"}
    BY <1>1
  <1>3. ~Rewriting' /\ pc' \notin TakesBackAt \cup OpenedAt \cup BeginsAt \cup CommittedAt
                 \cup {"off", "create", "preflight", "idle", "abandon", "done", "failed", "moveAside"}
    BY <1>2 DEF RecoverAt, PurgeAt, TakesBackAt, OpenedAt, BeginsAt, CommittedAt, Rewriting, Mark!RewriteAt
  <1>4. AtRewrite' /\ AtRollback' /\ AtRead'
    BY <1>2, <1>3, Elsewhere DEF RecoverAt, PurgeAt
  <1>5. AtRecover'
    BY <1>2, WideGrows DEF AtRecover, RecoverAt, PurgeAt
  <1>6. AtLoad'
    <2>1. Creates' => Creates
      BY <1>1, <1>2, <1>3 DEF Creates, Restoring, Reverting, RecoverAt, PurgeAt, RollbackAt, RecoverNo
    <2> QED BY <1>2, <1>3, <2>1, WideGrows DEF Steered, AtLoad, Marking, OpenedAt, CommittedAt
  <1>7. AtSession'
    <2>1. ~(stage = "user" /\ session = None)
      BY <1>1 DEF Steered, AtSession
    <2>2. ASSUME stage = "user", session = Untitled, ~Undone', ~Ours'
          PROVE  pc \in RecoverAt /\ back["recover"][1] # "restoreSession"
      <3>1. ~Undone /\ ~Ours
        BY <2>2
      <3> QED BY <2>2, <3>1 DEF Steered, AtSession
    <2>3. ASSUME stage = "user", session = Untitled, ~Undone', ~Ours'
          PROVE  pc' \notin LoadingAt \cup {"preflight", "failLoad", "restoreSession"}
      BY <1>1, <1>2, <2>2, <2>3 DEF LoadingAt, RecoverAt, PurgeAt
    <2> QED BY <1>3, <2>1, <2>2, <2>3 DEF AtSession, Marking
  <1> QED BY <1>4, <1>5, <1>6, <1>7 DEF Steered

LEMMA RecoverGuides ==
  ASSUME TypeOK, Flow, Owed, Stand, Sound, Homed, Leads, Steered, RecoverStaging, due \subseteq due', calm' = calm
  PROVE  Homed' /\ Leads' /\ Steered'
  <1>1. /\ pc \in RecoverAt /\ UNCHANGED <<load, begun, had, prior, stage, session>>
        /\ pc # "off" /\ FileType /\ Ready
    BY DEF RecoverStaging, Recover, DropCandidate, AdoptBackup, RestorePointer, ClearPhase,
       SaveProjectState, Then, locals, RecoverAt, TypeOK, Sound
  <1>2. /\ back["recover"][1] \in {"loadState", "purged", "begin", "restoreSession"}
        /\ RecoverNo \in {"loadFailed", "purged", "rejectedLoad", "restoreSession"}
        /\ back["recover"][1] \in BootReturn => stage # "user"
        /\ RecoverNo \in {"loadFailed", "purged"} => stage # "user"
    BY <1>1, RecoverCalled
  <1>3. Wide => Wide'
    BY WideGrows
  <1>4. pc # "recover" => ~C /\ ~U
    BY <1>1 DEF Stand, Recovering, At, RecoverAt, Flow, PurgeDueAt, PurgeAt
  <1>5. pc' = RecoverNo /\ pc' = "loadFailed" => Wide \/ calm
    BY <1>2 DEF Leads
  <1>6. CASE Recover
    <2>1. /\ pc = "recover" /\ file' = file
          /\ UNCHANGED <<P, C, U, S, B, Prev, Undone, Ours, Cur, Temp, Bak, file["pending"].had>>
      BY <1>6, SameFilesHold, OwnFilesKeep, OwnFilesHold DEF Recover
    <2>2. Homed' /\ Leads'
      BY <1>1, <2>1, KeptGuides
    <2>3. Phase # "no"
      BY <1>1 DEF Phase, Ready, Undoable, Exists, Has, P, C, U, S, B
    <2>4. back'["recover"] = back["recover"]
      <3>1. back' = Call("rollback", back["recover"][1], back["recover"][2]) => back'["recover"] = back["recover"]
        BY BackEffect DEF TypeOK, BackType
      <3> QED BY <1>6, <3>1 DEF Recover
    <2>5. pc' = "loadFailed" => ~calm
      BY <1>2, <1>6, <2>3 DEF Recover, Returns, Goto, RecoverNo, Phase
    <2>6. /\ \/ pc' \in RecoverAt \cup PurgeAt \cup {back["recover"][1], RecoverNo}
             \/ pc' = "rollbackCommitted" /\ back'["rollback"] = back["recover"]
          /\ pc' = "clearMarkers" => ~P
      <3>1. CASE Phase \in {"yes", "no"} /\ Returns("recover", Phase = "yes")
        BY <1>2, <3>1 DEF Returns, Goto, RecoverNo
      <3>2. CASE /\ Phase = "rollback" \/ (Phase = "yes" /\ ~calm)
                 /\ Goto("rollbackCommitted")
                 /\ back' = Call("rollback", back["recover"][1], back["recover"][2])
        <4>1. back'["rollback"] = <<back["recover"][1], back["recover"][2]>>
          BY <3>2, BackEffect DEF TypeOK, BackType
        <4>2. back["recover"] = <<back["recover"][1], back["recover"][2]>>
          BY DEF TypeOK, BackType, RecoverBack
        <4> QED BY <3>2, <4>1, <4>2 DEF Goto
      <3>3. CASE Phase \notin {"yes", "no", "rollback"} /\ Goto(Phase)
        BY <3>3 DEF Phase, Goto, RecoverAt, PurgeAt, P, Has
      <3>4. CASE ~calm /\ Returns("recover", FALSE)
        BY <1>2, <3>4 DEF Returns, Goto, RecoverNo
      <3> QED BY <1>6, <3>1, <3>2, <3>3, <3>4 DEF Recover
    <2>7. pc' = "loadFailed" => Wide \/ Untitled \in due
      BY <1>2, <1>5, <2>5, <2>6 DEF RecoverAt, PurgeAt
    <2> QED BY <1>1, <2>1, <2>2, <2>4, <2>6, <2>7, RecoverPlaces
  <1>7. CASE DropCandidate
    <2>1. /\ pc = "dropCandidate" /\ UNCHANGED <<back, args>>
          /\ DeleteProject("staging", IF B # None THEN "adoptBackup" ELSE "restorePointer", RecoverNo)
      BY <1>7 DEF DropCandidate, Then, locals, Exists, B
    <2>2. /\ Others("staging") /\ S' \in {S, Gutted, Husk, None}
          /\ \/ pc' \in {pc, "adoptBackup", "restorePointer"}
             \/ pc' = RecoverNo /\ file' = file
      BY <1>1, <2>1, DropEffect DEF S
    <2>3. /\ UNCHANGED <<P, C, U, B, Prev, Cur, Temp, Bak, file["pending"].had>>
      BY <2>2 DEF Others, P, C, U, B, Prev, Cur, Temp, Bak, Has, Paths
    <2>4. Undone' = Undone /\ Undone = P
      <3>1. ~C /\ ~U /\ ~C' /\ ~U' /\ P' = P
        BY <1>4, <2>1, <2>3
      <3> QED BY <3>1 DEF Undone, P, C, U, Has
    <2>5. Ours' = Ours \/ (Undone /\ Prev # Untitled)
      <3>1. CASE B # None
        BY <2>3, <2>4, <3>1 DEF Ours, Restored
      <3>2. CASE B = None
        BY <2>1, <2>4, <3>2 DEF Flow, Stand, Recovering, Homed
      <3> QED BY <3>1, <3>2
    <2>6. Homed' /\ Leads'
      BY <1>1, <2>3, <2>4, <2>5, KeptGuides
    <2>7. pc' = "loadFailed" => Wide \/ Untitled \in due
      <3>1. calm => pc' \in {pc, "adoptBackup", "restorePointer"}
        BY <1>1, <2>1, CalmCalls DEF Paths
      <3> QED BY <1>2, <1>5, <2>1, <2>2, <3>1
    <2>8. pc' \in {"dropCandidate", "adoptBackup", "restorePointer", RecoverNo} /\ pc' # "clearMarkers"
      BY <1>2, <2>1, <2>2
    <2> QED BY <1>1, <2>1, <2>4, <2>5, <2>6, <2>7, <2>8, RecoverPlaces DEF RecoverAt
  <1>8. CASE AdoptBackup
    <2>1. /\ pc = "adoptBackup" /\ UNCHANGED <<back, args>> /\ S = None /\ B # None
          /\ MoveCall("stagingBackup", "staging", IF P THEN "restorePointer" ELSE "clearMarkers", RecoverNo)
      BY <1>1, <1>8 DEF AdoptBackup, Then, locals, P, Finding, Ready
    <2>2. /\ DOMAIN file' = Paths
          /\ \A r \in Paths \ {"stagingBackup", "staging"} : file'[r] = file[r]
          /\ \/ /\ S' = B /\ B' = None
                /\ pc' \in {IF P THEN "restorePointer" ELSE "clearMarkers", RecoverNo}
             \/ file' = file /\ pc' = RecoverNo
      BY <1>1, <2>1, MoveEffect DEF S, B
    <2>3. /\ UNCHANGED <<P, C, U, Prev, Cur, Temp, Bak, file["pending"].had>>
      BY <2>2 DEF P, C, U, Prev, Cur, Temp, Bak, Has, Paths
    <2>4. Undone' = Undone /\ Undone = P
      <3>1. ~C /\ ~U /\ ~C' /\ ~U' /\ P' = P
        BY <1>4, <2>1, <2>3
      <3> QED BY <3>1 DEF Undone, P, C, U, Has
    <2>5. Ours' = Ours
      <3>1. CASE file' = file
        BY <3>1, SameFilesHold, OwnFilesHold
      <3>2. CASE S' = B /\ B' = None
        BY <2>1, <2>3, <2>4, <3>2 DEF Ours, Restored
      <3> QED BY <2>2, <3>1, <3>2
    <2>6. Homed' /\ Leads'
      BY <1>1, <2>3, <2>4, <2>5, KeptGuides
    <2>7. pc' = "loadFailed" => Wide \/ Untitled \in due
      <3>1. calm => pc' = IF P THEN "restorePointer" ELSE "clearMarkers"
        BY <1>1, <2>1, CalmCalls DEF Paths, S, B
      <3> QED BY <1>2, <1>5, <2>1, <2>2, <3>1
    <2>8. pc' \in {"restorePointer", "clearMarkers", RecoverNo} /\ (pc' = "clearMarkers" => ~P)
      BY <1>2, <2>2
    <2> QED BY <1>1, <2>1, <2>3, <2>4, <2>5, <2>6, <2>7, <2>8, RecoverPlaces DEF RecoverAt
  <1>9. CASE RestorePointer
    <2>1. pc = "restorePointer" /\ Undone /\ P
      BY <1>4, <1>9 DEF RestorePointer, Flow, Undone
    <2>2. CASE Prev = None
      <3>1. ClearState("clearMarkers", RecoverNo) /\ UNCHANGED <<back, args>>
        BY <1>9, <2>2 DEF RestorePointer, Then, locals, Prev
      <3>2. OwnFiles /\ pc' \in {pc, "clearMarkers", RecoverNo} /\ (calm => pc' \in {pc, "clearMarkers"})
        BY <1>1, <3>1, ClearStateKeeps, ClearStateEffect, CalmCalls
      <3>3. UNCHANGED <<P, C, U, Prev, Undone, Ours, file["pending"].had>>
        BY <3>2, OwnFilesKeep, OwnFilesHold
      <3>4. pc' = "clearMarkers" => Cur' = None /\ Temp' = None /\ Bak' = None
        BY <1>2, <2>1, <3>1 DEF ClearState, DeleteEach, Delete, Branch, Goto, Exists, Cur, Temp, Bak
      <3>5. Homed' /\ Leads'
        BY <1>1, <1>3, <2>1, <3>3 DEF Homed, Leads
      <3>6. pc' = "loadFailed" => Wide \/ Untitled \in due
        BY <1>2, <1>5, <2>1, <3>2
      <3> QED BY <1>1, <2>1, <2>2, <3>1, <3>2, <3>3, <3>4, <3>5, <3>6, RecoverPlaces DEF RecoverAt
    <2>3. CASE Prev # None
      <3>1. /\ SaveProjectState(Prev, FALSE, None, "clearMarkers", RecoverNo)
            /\ pc' = "saveState" /\ file' = file
            /\ args' = [name |-> Prev, retain |-> FALSE, prev |-> None]
            /\ back' = Call("marker", "clearMarkers", RecoverNo)
        BY <1>9, <2>3 DEF RestorePointer, Prev, SaveProjectState, Goto
      <3>2. back'["marker"] = <<"clearMarkers", RecoverNo>> /\ UNCHANGED <<back["recover"], back["rollback"]>>
        BY <3>1, BackEffect DEF TypeOK, BackType
      <3>3. UNCHANGED <<P, C, U, Prev, Undone, Ours, Cur, Temp, Bak, file["pending"].had>>
        BY <3>1, SameFilesHold, OwnFilesKeep, OwnFilesHold
      <3>4. Homed' /\ Leads'
        BY <1>1, <3>3, KeptGuides
      <3>5. Rewriting' /\ Restoring' /\ ~Marking' /\ ~Reverting' /\ args'.name = Prev
        BY <3>1, <3>2 DEF Rewriting, Mark!RewriteAt, Restoring, Marking, Reverting
      <3>6. AtRewrite'
        BY <2>1, <3>1, <3>3, <3>5 DEF AtRewrite
      <3>7. AtLoad'
        BY <1>1, <1>3, <2>1, <3>1, <3>2, <3>5 DEF Steered, AtLoad, Creates, OpenedAt, CommittedAt, BeginsAt,
           RecoverAt, RollbackAt, PurgeAt
      <3>8. AtSession'
        BY <1>1, <2>1, <3>1, <3>3 DEF Steered, AtSession
      <3>9. AtRollback' /\ AtRecover' /\ AtRead'
        BY <3>1, <3>5, Elsewhere DEF AtRollback, TakesBackAt
      <3> QED BY <3>4, <3>6, <3>7, <3>8, <3>9 DEF Steered
    <2> QED BY <2>2, <2>3
  <1>10. CASE ClearPhase
    <2>1. /\ pc = "clearMarkers" /\ ClearMarkers(back["recover"][1], RecoverNo) /\ UNCHANGED <<back, args>>
          /\ ~C /\ ~U /\ B = None
      BY <1>4, <1>10 DEF ClearPhase, Then, locals, Stand, Recovering, At
    <2>2. /\ DOMAIN file' = Paths
          /\ \A q \in Paths \ {"pending", "commit"} : file'[q] = file[q]
          /\ \/ pc' = back["recover"][1] /\ file' = file /\ ~P
             \/ /\ P /\ pc' \in {pc, RecoverNo} /\ file'["commit"] = file["commit"]
                /\ file'["pending"] \in {file["pending"], None}
      BY <1>1, <2>1, ClearMarkersEffect
    <2>3. UNCHANGED <<S, B, C, U, Cur, Temp, Bak>>
      BY <2>2 DEF S, B, C, U, Cur, Temp, Bak, Has, Paths
    <2>4. Ours' = Ours
      BY <2>1, <2>3 DEF Ours, Restored
    <2>5. pc' = "loadFailed" => Wide \/ Untitled \in due
      <3>1. calm => pc' \in {back["recover"][1], pc}
        BY <1>1, <2>1, CalmCalls
      <3> QED BY <1>2, <1>5, <2>1, <2>2, <3>1
    <2>6. pc' \in {"clearMarkers", back["recover"][1], RecoverNo}
      BY <2>1, <2>2
    <2>7. CASE file'["pending"] = file["pending"]
      <3>1. UNCHANGED <<P, Prev, Undone, file["pending"].had>>
        BY <2>3, <2>7 DEF P, Prev, Undone, Has, Validates, S
      <3>2. Homed' /\ Leads'
        BY <1>1, <2>3, <2>4, <3>1, KeptGuides
      <3>3. pc' = "clearMarkers" /\ P => pc = "clearMarkers" /\ P
        BY <2>1
      <3> QED BY <1>1, <2>1, <2>3, <2>4, <2>5, <2>6, <3>1, <3>2, RecoverPlaces
              DEF Steered, AtRecover, RecoverAt
    <2>8. CASE P /\ file'["pending"] = None
      <3>1. Undone /\ ~P' /\ ~Undone'
        BY <2>1, <2>8 DEF Undone, P, Has
      <3>2. IF Prev = None THEN Cur = None /\ Temp = None /\ Bak = None ELSE Cur = Prev
        BY <2>1, <2>8 DEF Steered, AtRecover
      <3>3. Prev = Untitled => Ours
        BY <3>1 DEF Homed
      <3>4. Prev \in Name \cup {None}
        BY <2>8 DEF TypeOK, FileType, Pending, P, Has, Prev
      <3>5. Homed'
        BY <2>3, <2>4, <3>1, <3>2, <3>3, <3>4 DEF Homed, Name
      <3>6. ~Wide => Pick'
        <4>1. (IF Prev = None THEN Untitled ELSE Prev) \in due \/ Wide
          BY <3>1 DEF Leads
        <4>2. None \notin Openable'
          BY DEF Openable, Name
        <4>3. CASE Prev = None
          BY <2>3, <3>2, <4>1, <4>2, <4>3 DEF Pick, Spare, Harmless
        <4>4. CASE Prev # None
          <5>1. Prev \in Openable'
            BY <2>4, <3>3, <3>4, <4>4 DEF Openable, Name
          <5> QED BY <2>3, <3>2, <4>1, <4>4, <5>1 DEF Pick
        <4> QED BY <4>3, <4>4
      <3>7. Leads'
        BY <1>1, <1>3, <2>1, <2>3, <3>1, <3>6 DEF Leads, Pick
      <3>8. stage = "user" /\ session = Untitled => Ours
        BY <1>1, <2>1, <2>8, <3>3 DEF Ready, Sessions, Name
      <3> QED BY <1>1, <2>1, <2>4, <2>5, <2>6, <3>1, <3>5, <3>7, <3>8, RecoverPlaces DEF RecoverAt
    <2> QED BY <2>2, <2>7, <2>8
  <1> QED BY <1>6, <1>7, <1>8, <1>9, <1>10 DEF RecoverStaging

LEMMA PurgeGuides ==
  ASSUME TypeOK, Flow, Sound, Homed, Leads, Steered, Purge, due \subseteq due', calm' = calm
  PROVE  Homed' /\ Leads' /\ Steered'
  <1>1. /\ pc \in PurgeAt \/ (pc = "purge" /\ back["recover"] = <<"purged", "purged">>)
        /\ UNCHANGED <<load, begun, had, prior, back, stage, session>> /\ pc # "off" /\ FileType /\ Ready
    BY DEF Purge, BeginPurge, PurgeStaging, PurgeBackup, PurgeState, PurgeMarkers, PurgeDone,
       Then, Decide, locals, PurgeAt, TypeOK, Flow, Sound
  <1>2. stage # "user"
    BY <1>1 DEF Flow, PurgeAt
  <1>3. Wide
    BY <1>1 DEF Flow, Leads, Steered, AtRecover
  <1>4. Wide' /\ Leads'
    BY <1>3, WideGrows DEF Leads
  <1>5. CASE BeginPurge
    <2>1. pc = "purge" /\ RecoverNo = "purged" /\ UNCHANGED <<locals, session>>
      BY <1>5 DEF BeginPurge, Flow, RecoverNo
    <2>2. /\ \A q \in Paths \ {"purge"} : file'[q] = file[q]
          /\ U => U'
          /\ pc' \in {"purgeStaging", "purged"}
      <3>1. "purge" \in Paths
        BY DEF Paths
      <3>2. CASE WriteMarker("purge", TRUE, "purgeStaging", RecoverNo)
        BY <1>1, <2>1, <3>1, <3>2, WriteEffect DEF Others, U, Has
      <3>3. CASE Has("purge") /\ Goto("purgeStaging") /\ file' = file
        BY <3>3 DEF Goto, U, Has
      <3> QED BY <1>5, <3>2, <3>3 DEF BeginPurge
    <2>3. UNCHANGED <<S, B, file["pending"], P, C, Prev, Validates("staging")>>
      BY <2>2 DEF S, B, P, C, Prev, Has, Paths, Validates
    <2>4. Undone' => Undone /\ Ours' = Ours
      BY <2>2, <2>3 DEF Undone, Ours, Restored
    <2>5. Homed'
      BY <1>1, <1>2, <2>3, <2>4 DEF Homed
    <2>6. Steered'
      BY <1>1, <1>2, <1>3, <2>1, <2>2, RecoverPlaces DEF PurgeAt, RecoverNo
    <2> QED BY <1>4, <2>5, <2>6
  <1>6. CASE ~BeginPurge
    <2>1. /\ pc \in PurgeAt
          /\ pc' \in PurgeAt \cup {back["recover"][1], RecoverNo}
          /\ file'["pending"] \in {file["pending"], None}
          /\ ~P' \/ U'
      BY <1>6, PurgeEffect
    <2>2. P' => P /\ Prev' = Prev /\ file'["pending"] = file["pending"]
      BY <2>1 DEF P, Prev, Has
    <2>3. ~Undone'
      BY <2>1 DEF Undone
    <2>4. Homed'
      BY <1>1, <1>2, <2>2, <2>3 DEF Homed
    <2>5. pc' # "clearMarkers"
      BY <1>1, <2>1, RecoverCalled DEF PurgeAt
    <2> QED BY <1>1, <1>2, <1>3, <1>4, <2>1, <2>4, <2>5, RecoverPlaces
  <1> QED BY <1>5, <1>6

-----------------------------------------------------------------------------
(* The boot: what a rollback leaves it to open. *)

\* Where a rollback goes on, or returns to.
LEMMA RollbackPlaces ==
  ASSUME TypeOK, Ready, Steered, due \subseteq due', UNCHANGED <<load, begun, stage, session>>,
         back'["rollback"] = back["rollback"], pc \in RollbackAt,
         pc' \in RollbackAt \cup {back["rollback"][1], RollbackNo}, AtRollback',
         pc' = "loadFailed" => Wide \/ Untitled \in due
  PROVE  Steered'
  <1>1. /\ back["rollback"][1] \in {"loadState", "purged", "begin", "rolledBack"}
        /\ RollbackNo \in {"loadFailed", "purged", "rejectedLoad", "failLoad"}
        /\ RollbackNo = "failLoad" \/ back["rollback"][1] = "rolledBack" => session = None
        /\ pc \notin {"off", "rejectedLoad", "failed"}
    BY RollbackCalled DEF RollbackAt
  <1>2. pc' \in RollbackAt \cup {"loadState", "purged", "begin", "rolledBack", "loadFailed",
                               "rejectedLoad", "failLoad"}
    BY <1>1
  <1>3. ~Rewriting' /\ pc' \notin OpenedAt \cup BeginsAt \cup CommittedAt \cup RecoverAt \cup PurgeAt
                 \cup {"off", "create", "preflight", "idle", "abandon", "done", "failed", "moveAside"}
    BY <1>2 DEF RollbackAt, RecoverAt, PurgeAt, OpenedAt, BeginsAt, CommittedAt, Rewriting, Mark!RewriteAt
  <1>4. AtRewrite' /\ AtRead'
    BY <1>2, <1>3, Elsewhere DEF RollbackAt
  <1>5. AtRecover'
    BY <1>2, WideGrows DEF AtRecover, RollbackAt
  <1>6. AtLoad'
    <2>1. Creates' => Creates
      BY <1>1, <1>2, <1>3 DEF Creates, Restoring, Reverting, RollbackAt
    <2> QED BY <1>2, <1>3, <2>1, WideGrows DEF Steered, AtLoad, Marking, OpenedAt, CommittedAt
  <1>7. AtSession'
    <2>1. ~(stage = "user" /\ session = None)
      BY <1>1 DEF Steered, AtSession
    <2>2. session # None => pc' \notin LoadingAt \cup {"preflight", "failLoad", "restoreSession"}
      BY <1>1, <1>2, <2>1 DEF LoadingAt, RollbackAt
    <2> QED BY <1>3, <2>1, <2>2 DEF AtSession, Marking, Name
  <1> QED BY <1>4, <1>5, <1>6, <1>7 DEF Steered

LEMMA RollbackCommittedGuides ==
  ASSUME TypeOK, Flow, Sound, Homed, Leads, Steered, RollbackCommitted, due \subseteq due', calm' = calm,
         pc' # RollbackNo => IF prior' = None THEN Name \subseteq due' ELSE prior' \in due'
  PROVE  Homed' /\ Leads' /\ Steered'
  <1>1. /\ pc = "rollbackCommitted" /\ pc \in RollbackAt /\ file' = file /\ ~U /\ FileType /\ Ready
        /\ UNCHANGED <<load, begun, stage, session>>
    BY DEF RollbackCommitted, RollbackAt, TypeOK, Flow, PurgeDueAt, PurgeAt, Sound
  <1>2. /\ back["rollback"][1] \in {"loadState", "purged", "begin", "rolledBack"}
        /\ RollbackNo \in {"loadFailed", "purged", "rejectedLoad", "failLoad"}
        /\ RollbackNo \in {"loadFailed", "purged"} => stage # "user"
    BY <1>1, RollbackCalled
  <1>3. UNCHANGED <<P, C, U, S, B, Prev, Undone, Ours, Openable, Cur, Temp, Bak, file["pending"].had>>
    BY <1>1, SameFilesHold, OwnFilesKeep, OwnFilesHold
  <1>4. Homed' /\ Leads'
    BY <1>1, <1>3, KeptGuides
  <1>5. CASE pc' = RollbackNo /\ (~(Has("commit") /\ Has("pending")) \/ ~calm) /\ UNCHANGED <<prior, had, back>>
    <2>1. pc' = "loadFailed" => Wide
      BY <1>1, <1>2, <1>5, QuietWay DEF Leads, Sound, Quiet, CalmWay, P, C
    <2>2. ~Rewriting' /\ AtRollback'
      BY <1>2, <1>5, Elsewhere DEF Rewriting, Mark!RewriteAt, TakesBackAt
    <2> QED BY <1>1, <1>4, <1>5, <2>1, <2>2, RollbackPlaces
  <1>6. CASE C /\ P /\ prior' = Prev /\ had' = file["pending"].had
    <2>1. ~Undone => Ours
      BY <1>1, <1>6, OursCommitted
    <2>2. CASE /\ prior' # None /\ Goto("saveState") /\ back' = Call("marker", "rollbackDrop", RollbackNo)
               /\ args' = [name |-> prior', retain |-> FALSE, prev |-> None]
      <3>1. /\ back'["marker"] = <<"rollbackDrop", RollbackNo>>
            /\ UNCHANGED <<back["rollback"], back["recover"]>>
        BY <2>2, BackEffect DEF TypeOK, BackType
      <3>2. Rewriting' /\ Reverting' /\ ~Marking' /\ ~Restoring' /\ pc' = "saveState" /\ args'.name = prior'
        BY <2>2, <3>1 DEF Goto, Rewriting, Mark!RewriteAt, Restoring, Marking, Reverting
      <3>3. prior' \in due' /\ prior' \in Name
        BY <1>2, <1>6, <2>2, <3>2 DEF TypeOK, FileType, Pending, P, Has, Prev
      <3>4. AtRewrite'
        <4>1. ~Undone' => prior' \in Openable'
          BY <1>3, <2>1, <3>3 DEF Openable, Name
        <4>2. ~args'.retain /\ args'.name = prior'
          BY <2>2
        <4> QED BY <1>3, <3>2, <3>3, <4>1, <4>2 DEF AtRewrite
      <3>5. AtRollback'
        BY <1>3, <1>6, <2>2, <3>2, <3>3 DEF AtRollback, TakesBackAt
      <3>6. AtLoad'
        BY <1>1, <3>1, <3>2, WideGrows DEF Steered, AtLoad, Creates, OpenedAt, CommittedAt, BeginsAt,
           RecoverAt, RollbackAt, PurgeAt
      <3>7. AtSession'
        BY <1>1, <3>2 DEF Steered, AtSession, LoadingAt, RecoverAt
      <3>8. AtRecover' /\ AtRead'
        BY <3>2, Elsewhere
      <3> QED BY <1>4, <3>4, <3>5, <3>6, <3>7, <3>8 DEF Steered
    <2>3. CASE prior' = None /\ Goto("rollbackDrop") /\ back' = back
      <3>1. pc' = "rollbackDrop" /\ ~Rewriting' /\ Wide'
        BY <1>2, <2>3 DEF Goto, Rewriting, Mark!RewriteAt, Wide
      <3>2. AtRollback'
        BY <1>3, <1>6, <2>3, <3>1 DEF AtRollback, Reverting
      <3> QED BY <1>1, <1>4, <2>3, <3>1, <3>2, RollbackPlaces DEF RollbackAt
    <2> QED BY <1>2, <1>6, <2>2, <2>3, <1>5 DEF RollbackCommitted, Goto
  <1> QED BY <1>5, <1>6 DEF RollbackCommitted, Goto, C, P, Prev

LEMMA RollbackGuides ==
  ASSUME TypeOK, Flow, Stand, Sound, Homed, Leads, Steered, Rollback, ~RollbackCommitted,
         due \subseteq due', calm' = calm
  PROVE  Homed' /\ Leads' /\ Steered'
  <1>1. /\ pc \in TakesBackAt /\ pc \in RollbackAt /\ UNCHANGED <<session, locals>> /\ FileType /\ ~U
        /\ UNCHANGED <<load, begun, had, prior, back, stage>> /\ Ready
    BY DEF Rollback, RollbackDrop, RollbackRestore, RollbackState, RollbackMarkers,
       Then, Decide, locals, RollbackAt, TakesBackAt, TypeOK, Flow, PurgeDueAt, PurgeAt, Sound
  <1>2. /\ back["rollback"][1] \in {"loadState", "purged", "begin", "rolledBack"}
        /\ RollbackNo \in {"loadFailed", "purged", "rejectedLoad", "failLoad"}
        /\ RollbackNo \in {"loadFailed", "purged"} => stage # "user"
    BY <1>1, RollbackCalled
  <1>3. Wide => Wide'
    BY WideGrows
  <1>4. /\ pc \in {"rollbackDrop", "rollbackRestore", "rollbackState"} =>
             P /\ prior = Prev /\ had = file["pending"].had
        /\ prior # None => Cur = prior
        /\ pc = "rollbackMarkers" => Cur = prior
        /\ pc \in {"rollbackState", "rollbackMarkers"} /\ prior = Untitled => Validates("staging")
        /\ Wide \/ (prior # None /\ prior \in due)
    BY <1>1 DEF Steered, AtRollback
  <1>5. prior \in Name \cup {None}
    BY DEF TypeOK, LocalsType
  <1>6. ASSUME pc' = RollbackNo => ~calm, pc' \in RollbackAt \cup {back["rollback"][1], RollbackNo}
        PROVE  pc' = "loadFailed" => Wide \/ Untitled \in due
    BY <1>1, <1>2, <1>6 DEF Leads, RollbackAt
  <1>7. ASSUME Cur' = prior, prior = Untitled => Ours', ~Wide
        PROVE  Pick'
    <2>1. prior # None /\ prior \in due
      BY <1>4, <1>7
    <2>2. prior \in Openable'
      BY <1>5, <1>7, <2>1 DEF Openable, Name
    <2> QED BY <1>7, <2>1, <2>2 DEF Pick
  <1>8. UNCHANGED <<stage, session, calm>> /\ pc # "off"
    BY <1>1 DEF TakesBackAt
  <1>9. ASSUME pc' \in RollbackAt \cup {back["rollback"][1], RollbackNo}
        PROVE  ~Rewriting'
    BY <1>2, <1>9 DEF RollbackAt, Rewriting, Mark!RewriteAt
  <1>10. CASE RollbackDrop
    <2>1. pc = "rollbackDrop" /\ C /\ (had => Whole("stagingBackup")) /\ (had \/ B = None)
      BY <1>1, <1>10 DEF RollbackDrop, Ready, Finding, At, Stand, RollingBack
    <2>2. /\ Others("staging")
          /\ \/ pc' = pc
             \/ pc' = "rollbackRestore"
             \/ pc' = RollbackNo /\ ~calm
      <3>1. CASE S = None
        BY <1>1, <1>10, <3>1 DEF RollbackDrop, Decide, Goto, Exists, S, Others, FileType
      <3>2. CASE DeleteProject("staging", "rollbackRestore", RollbackNo)
        <4>1. "staging" \in Paths
          BY DEF Paths
        <4>2. Others("staging") /\ pc' \in {pc, "rollbackRestore", RollbackNo}
          BY <1>1, <3>2, DropEffect DEF S
        <4>3. calm => pc' \in {"rollbackRestore", pc}
          BY <1>1, <3>2, <4>1, CalmCalls
        <4> QED BY <1>2, <2>1, <4>2, <4>3
      <3> QED BY <1>10, <3>1, <3>2 DEF RollbackDrop, Then, Exists, S
    <2>3. UNCHANGED <<B, Cur, Temp, Bak, P, C, U, Prev, file["pending"].had>>
      BY <2>2 DEF Others, Paths, B, Cur, Temp, Bak, P, C, U, Prev, Has
    <2>4. ~Undone' => Ours'
      BY <1>1, <1>4, <2>1, <2>3 DEF Undone, Ours, Restored, Validates, S
    <2>5. Undone' /\ Prev = Untitled => Ours'
      <3>1. Prev = Untitled => B \in Generation
        BY <1>4, <2>1 DEF Homed, Whole, B
      <3> QED BY <2>3, <3>1 DEF Ours, Restored
    <2>6. Homed'
      BY <2>3, <2>4, <2>5 DEF Homed
    <2>7. ~Wide => Pick' \/ Undone'
      BY <1>4, <1>7, <2>3, <2>4
    <2>8. Leads'
      BY <1>1, <1>3, <1>4, <2>1, <2>3, <2>7 DEF Leads, Pick
    <2>9. pc' \in {"rollbackDrop", "rollbackRestore", RollbackNo} /\ ~Rewriting'
      BY <1>9, <2>1, <2>2 DEF RollbackAt
    <2>10. AtRollback'
      BY <1>1, <1>2, <1>3, <1>4, <2>1, <2>3, <2>9 DEF AtRollback, Reverting, TakesBackAt
    <2> QED BY <1>1, <1>2, <1>6, <2>1, <2>2, <2>6, <2>8, <2>9, <2>10, RollbackPlaces DEF RollbackAt
  <1>11. CASE RollbackRestore
    <2>1. /\ pc = "rollbackRestore" /\ C /\ (had => Whole("stagingBackup")) /\ (had \/ B = None) /\ S = None
      BY <1>1, <1>11 DEF RollbackRestore, Ready, Finding, At, Stand, RollingBack
    <2>2. /\ \A r \in Paths \ {"staging", "stagingBackup"} : file'[r] = file[r]
          /\ \/ pc' = "rollbackState" /\ had /\ S' = B /\ B' = None
             \/ pc' = "rollbackState" /\ ~had /\ file' = file
             \/ pc' = RollbackNo /\ ~calm /\ ((S' = B /\ B' = None /\ had) \/ file' = file)
      <3>1. CASE had
        <4>1. {"staging", "stagingBackup"} \subseteq Paths
              /\ MoveCall("stagingBackup", "staging", "rollbackState", RollbackNo)
          BY <1>11, <3>1 DEF Paths, RollbackRestore, Then
        <4>2. /\ \A r \in Paths \ {"staging", "stagingBackup"} : file'[r] = file[r]
              /\ \/ S' = B /\ B' = None /\ pc' \in {"rollbackState", RollbackNo}
                 \/ file' = file /\ pc' = RollbackNo
          BY <1>1, <4>1, MoveEffect DEF S, B
        <4>3. calm => pc' = "rollbackState"
          BY <1>1, <2>1, <3>1, <4>1, CalmCalls DEF S, B, Whole
        <4> QED BY <1>2, <3>1, <4>2, <4>3
      <3>2. CASE ~had
        BY <1>11, <2>1, <3>2 DEF RollbackRestore, Decide, Goto, Exists, B
      <3> QED BY <3>1, <3>2
    <2>3. UNCHANGED <<Cur, Temp, Bak, P, C, U, Prev, file["pending"].had>>
      BY <2>2 DEF Paths, Cur, Temp, Bak, P, C, U, Prev, Has
    <2>4. ASSUME file' = file
          PROVE  Homed' /\ Leads'
      <3>1. UNCHANGED <<Undone, Ours>>
        BY <2>4, SameFilesHold, OwnFilesKeep, OwnFilesHold
      <3> QED BY <1>8, <2>3, <3>1, KeptGuides
    <2>5. ASSUME had /\ S' = B /\ B' = None
          PROVE  Homed' /\ Leads'
      <3>1. ~Undone' /\ Ours' /\ Validates("staging")'
        BY <1>4, <2>1, <2>3, <2>5 DEF Undone, Ours, Restored, Validates, Whole, S, B
      <3>2. Homed'
        BY <2>3, <3>1 DEF Homed
      <3>3. Leads'
        <4>1. ~Wide => Pick'
          BY <1>4, <1>7, <2>3, <3>1
        <4> QED BY <1>3, <1>8, <2>3, <3>1, <4>1 DEF Leads, Pick
      <3> QED BY <3>1, <3>2, <3>3
    <2>6. Homed' /\ Leads'
      BY <2>2, <2>4, <2>5
    <2>7. pc' \in {"rollbackState", RollbackNo} /\ ~Rewriting'
      BY <1>9, <2>2 DEF RollbackAt
    <2>8. pc' = "rollbackState" /\ prior = Untitled => Validates("staging")'
      <3>1. prior = Untitled => had
        BY <1>4, <2>1 DEF Homed
      <3> QED BY <1>2, <2>1, <2>2, <3>1 DEF Validates, Whole, S, B
    <2>9. AtRollback'
      BY <1>1, <1>2, <1>3, <1>4, <2>1, <2>3, <2>7, <2>8 DEF AtRollback, Reverting, TakesBackAt
    <2> QED BY <1>1, <1>2, <1>6, <2>2, <2>6, <2>7, <2>9, RollbackPlaces DEF RollbackAt
  <1>12. CASE RollbackState
    <2>1. /\ pc = "rollbackState" /\ OwnFiles /\ pc' \in {pc, "rollbackMarkers", RollbackNo}
          /\ calm => pc' \in {"rollbackMarkers", pc}
          /\ \/ prior # None /\ file' = file
             \/ prior = None /\ Cur' \in {Cur, None} /\ (pc' = "rollbackMarkers" => Cur' = None)
      <3>1. CASE prior = None
        <4>1. ClearState("rollbackMarkers", RollbackNo)
          BY <1>12, <3>1 DEF RollbackState, Then
        <4>2. pc = "rollbackState" /\ "current" \in State
          BY <1>12 DEF RollbackState, State
        <4>3. pc' = "rollbackMarkers" => Cur' = None
          BY <1>2, <4>1, <4>2 DEF ClearState, DeleteEach, Delete, Branch, Goto, Exists, Cur
        <4> QED BY <1>1, <3>1, <4>1, <4>2, <4>3, ClearStateKeeps, ClearStateEffect, CalmCalls DEF Cur
      <3>2. CASE prior # None
        BY <1>12, <3>2, SameFilesHold DEF RollbackState, Decide, Goto
      <3> QED BY <3>1, <3>2
    <2>2. UNCHANGED <<P, C, U, Prev, Undone, Ours, S, Validates("staging"), file["pending"].had>>
      BY <2>1, OwnFilesKeep, OwnFilesHold
    <2>3. ASSUME prior # None /\ file' = file
          PROVE  Homed' /\ Leads'
      <3>1. UNCHANGED <<Cur, Temp, Bak>>
        BY <2>3, SameFilesHold
      <3> QED BY <1>8, <2>2, <3>1, KeptGuides
    <2>4. ASSUME prior = None /\ Cur' \in {Cur, None}
          PROVE  Homed' /\ Leads'
      <3>1. Homed'
        BY <1>8, <2>2, <2>4 DEF Homed, Name
      <3>2. Leads'
        BY <1>3, <1>4, <2>4 DEF Leads
      <3> QED BY <3>1, <3>2
    <2>5. Homed' /\ Leads'
      BY <2>1, <2>3, <2>4
    <2>6. ~Rewriting' /\ (prior # None => Cur' = Cur)
      BY <1>9, <2>1, SameFilesHold DEF RollbackAt
    <2>7. AtRollback'
      BY <1>1, <1>2, <1>3, <1>4, <2>1, <2>2, <2>6 DEF AtRollback, Reverting, TakesBackAt
    <2> QED BY <1>1, <1>2, <1>6, <2>1, <2>5, <2>6, <2>7, RollbackPlaces DEF RollbackAt
  <1>13. CASE RollbackMarkers
    <2>1. /\ pc = "rollbackMarkers" /\ ClearMarkers(back["rollback"][1], RollbackNo) /\ B = None
      BY <1>13 DEF RollbackMarkers, Then, Stand, RollingBack
    <2>2. /\ \A q \in Paths \ {"pending", "commit"} : file'[q] = file[q]
          /\ pc' \in {pc, back["rollback"][1], RollbackNo}
          /\ file'["pending"] \in {file["pending"], None}
          /\ P => file'["commit"] = file["commit"]
      BY <1>1, <2>1, ClearMarkersEffect
    <2>3. calm => pc' \in {back["rollback"][1], pc}
      BY <1>1, <2>1, CalmCalls
    <2>4. /\ UNCHANGED <<S, B, Cur, Temp, Bak, U, Validates("staging")>>
          /\ P' => P /\ Prev' = Prev /\ C' = C /\ file'["pending"] = file["pending"]
      BY <2>2 DEF S, B, Cur, Temp, Bak, P, C, Prev, U, Has, Paths, Validates
    <2>5. Ours' = Ours /\ (prior = Untitled => Ours)
      BY <1>4, <2>1, <2>4 DEF Ours, Restored, Validates, S
    <2>6. Undone' => Undone /\ Prev' = Prev
      BY <2>4 DEF Undone
    <2>7. Homed'
      BY <1>4, <2>1, <2>4, <2>5, <2>6 DEF Homed
    <2>8. Leads'
      BY <1>1, <1>3, <1>4, <1>7, <2>1, <2>4, <2>5, <2>6 DEF Leads, Pick
    <2>9. ~Rewriting'
      BY <1>9, <2>1, <2>2 DEF RollbackAt
    <2>10. AtRollback'
      BY <1>1, <1>2, <1>3, <1>4, <2>1, <2>2, <2>4, <2>9 DEF AtRollback, Reverting, TakesBackAt
    <2>11. pc' = RollbackNo /\ pc' = "loadFailed" => ~calm
      BY <1>2, <2>1, <2>3
    <2>12. pc' = "loadFailed" => Wide \/ Untitled \in due
      BY <1>2, <2>1, <2>2, <2>11, <1>1 DEF Leads
    <2> QED BY <1>1, <1>2, <2>2, <2>7, <2>8, <2>10, <2>12, RollbackPlaces DEF RollbackAt
  <1> QED BY <1>10, <1>11, <1>12, <1>13 DEF Rollback

-----------------------------------------------------------------------------
(* The boot: what a replacement leaves it to open. *)

\* Where a replacement goes on.
LEMMA ReplacementPlaces ==
  ASSUME Steered, due \subseteq due', UNCHANGED <<load, stage, session>>,
         pc \in {"begin", "moveAside", "abandon", "commit"} \cup CommittedAt,
         pc' \in {"moveAside", "abandon", "create", "rejectedLoad", "failLoad"} \cup CommittedAt,
         pc' = "moveAside" => load.create,
         pc' = "create" => /\ load.create /\ OpensUntitled /\ begun' /\ Undone' /\ P' /\ ~C'
                           /\ had' = file'["pending"].had,
         pc' = "abandon" /\ session # None => Cur' = session,
         pc' = "failLoad" => Undone' \/ Ours',
         pc' \in CommittedAt => /\ OpensUntitled /\ Validates("staging")' /\ Ours' /\ Cur' = load.name
                                /\ Wide' \/ load.name \in due'
  PROVE  Steered'
  <1>1. ~Rewriting' /\ (Creates' => pc' = "moveAside")
    BY DEF Rewriting, Mark!RewriteAt, CommittedAt, Creates, Restoring, Reverting, RecoverAt, PurgeAt, RollbackAt
  <1>2. ~Rewriting' /\ ~Marking' /\ (Creates' => load'.create)
    BY <1>1 DEF Marking
  <1>3. AtRewrite' /\ AtRollback' /\ AtRecover' /\ AtRead'
    BY <1>2, Elsewhere DEF CommittedAt, TakesBackAt
  <1>4. AtLoad'
    <2>1. CASE pc' = "create"
      BY <1>2, <2>1, WideGrows DEF Steered, AtLoad, OpensUntitled, OpenedAt, CommittedAt, BeginsAt
    <2>2. CASE pc' \in CommittedAt
      BY <1>2, <2>2, WideGrows DEF Steered, AtLoad, OpensUntitled, OpenedAt, CommittedAt, BeginsAt
    <2>3. CASE pc' \in {"moveAside", "abandon", "rejectedLoad", "failLoad"}
      BY <1>2, <2>3, WideGrows DEF Steered, AtLoad, OpensUntitled, OpenedAt, CommittedAt, BeginsAt
    <2> QED BY <2>1, <2>2, <2>3
  <1>5. AtSession'
    BY <1>2 DEF Steered, AtSession, CommittedAt, LoadingAt, RecoverAt
  <1> QED BY <1>3, <1>4, <1>5 DEF Steered

LEMMA ReplacementGuides ==
  ASSUME TypeOK, Flow, Owed, Stand, Sound, Homed, Leads, Steered, Replacement, ~PointerElsewhere,
         due \subseteq due', calm' = calm, C' => Untitled \in due'
  PROVE  Homed' /\ Leads' /\ Steered'
  <1>1. /\ UNCHANGED <<session, stage, load, calm>> /\ pc # "off" /\ FileType /\ ~U /\ Ready
        /\ pc \in {"begin", "moveAside", "abandon", "commit"} \cup CommittedAt
    BY DEF Replacement, Begin, MoveAside, Abandon, Commit, CommitBackup, CommitState, CommitMarkers,
       Then, Decide, locals, TypeOK, Flow, PurgeDueAt, PurgeAt, Sound, CommittedAt
  <1>2. Wide => Wide'
    BY WideGrows
  <1>3. stage = "user" => session # None \/ pc \notin {"begin", "moveAside", "abandon", "commit"}
    BY <1>1 DEF Steered, AtSession
  <1>4. stage # "user" => session = None
    BY <1>1 DEF Ready, Sessions, CommittedAt
  <1>5. ASSUME UNCHANGED <<P, C, U, S, B, Prev, file["pending"].had, Cur, Temp, Bak>>
        PROVE  UNCHANGED <<Undone, Ours>> /\ Homed' /\ Leads'
    <2>1. UNCHANGED <<Undone, Ours>>
      BY <1>5 DEF Undone, Validates, S, Ours, Restored
    <2> QED BY <1>1, <1>5, <2>1, KeptGuides
  <1>6. CASE Begin
    <2>1. /\ pc = "begin" /\ ~Undone /\ (~P => ~C /\ B = None) /\ (session # None => Cur = session)
          /\ load.create /\ OpensUntitled
      BY <1>6 DEF Begin, Stand, Loading, Settled, Undone, Owed, PointerElsewhere, Cur, Steered, AtLoad, Creates
    <2>2. CASE Exists("stagingBackup")
      <3>1. pc' = "rejectedLoad" /\ file' = file
        BY <1>6, <2>2 DEF Begin, Goto
      <3>2. UNCHANGED <<P, C, U, S, B, Prev, file["pending"].had, Cur, Temp, Bak>>
        BY <3>1, SameFilesHold, OwnFilesKeep
      <3> QED BY <1>1, <1>5, <3>1, <3>2, ReplacementPlaces DEF CommittedAt
    <2>3. CASE ~Exists("stagingBackup")
      <3> DEFINE pending == [had |-> Exists("staging"), prev |-> session]
                 next == IF pending.had THEN "moveAside" ELSE "create"
      <3>1. /\ WriteMarker("pending", pending, next, "rejectedLoad") /\ had' = pending.had
            /\ begun' = (pc' = "create")
        BY <1>6, <2>3 DEF Begin
      <3>2. /\ "pending" \in Paths /\ next \in {"moveAside", "create"}
            /\ pending.had = (S # None) /\ pending.prev = session /\ pending # None
        <4>1. pending \in Pending
          BY DEF Pending, Exists, TypeOK
        <4> QED BY <4>1 DEF Paths, Exists, S
      <3> HIDE DEF pending, next
      <3>3. /\ \A q \in Paths \ {"pending"} : file'[q] = file[q]
            /\ \/ pc' = "rejectedLoad" /\ file' = file
               \/ pc' \in {next, "rejectedLoad"} /\ ~P /\ file'["pending"] = pending
        BY <1>1, <3>1, <3>2, WriteEffect DEF Others, P
      <3>4. CASE pc' = "rejectedLoad" /\ file' = file
        <4>1. UNCHANGED <<P, C, U, S, B, Prev, file["pending"].had, Cur, Temp, Bak>>
          BY <3>4, SameFilesHold, OwnFilesKeep
        <4> QED BY <1>1, <1>5, <3>4, <4>1, ReplacementPlaces DEF CommittedAt
      <3>5. CASE pc' \in {next, "rejectedLoad"} /\ ~P /\ file'["pending"] = pending
        <4>1. UNCHANGED <<S, B, Cur, Temp, Bak, C, U>> /\ B = None /\ ~C
          BY <2>1, <2>3, <3>3, <3>5 DEF S, B, Cur, Temp, Bak, C, U, Has, Paths, Exists
        <4>2. P' /\ Prev' = session /\ file'["pending"].had = (S # None) /\ Undone'
          BY <1>1, <3>2, <3>5, <4>1 DEF P, Prev, Undone, Has
        <4>3. Ours' = Ours /\ (Ours => S # None)
          BY <2>1, <3>5, <4>1, <4>2 DEF Ours, Restored
        <4>4. session = Untitled => Ours
          BY <1>1, <1>4, <2>1 DEF Homed, Name
        <4>5. Homed'
          BY <4>2, <4>3, <4>4 DEF Homed
        <4>6. Leads'
          <5>1. ~Wide /\ session = None => Untitled \in due
            BY <1>3, <2>1 DEF Steered, AtLoad
          <5> QED BY <1>1, <1>2, <4>1, <4>2, <5>1 DEF Leads
        <4> QED BY <1>1, <2>1, <3>1, <3>2, <3>5, <4>1, <4>2, <4>5, <4>6, ReplacementPlaces DEF CommittedAt
      <3> QED BY <3>3, <3>4, <3>5
    <2> QED BY <2>2, <2>3
  <1>7. CASE MoveAside
    <2>1. /\ pc = "moveAside" /\ P /\ ~C /\ B = None /\ S # None /\ file["pending"].had /\ had
          /\ (session # None => Cur = session) /\ load.create /\ OpensUntitled
          /\ MoveCall("staging", "stagingBackup", "create", "abandon") /\ begun' = (pc' = "create")
          /\ had' = had
      BY <1>1, <1>7 DEF MoveAside, Stand, Loading, Ready, Beginning, Sound, Marked, Pointing, Steered,
         AtLoad, Creates
    <2>2. /\ \A r \in Paths \ {"staging", "stagingBackup"} : file'[r] = file[r]
          /\ pc' \in {"create", "abandon"}
          /\ B' = S \/ (B' = B /\ S' = S)
      BY <1>1, <2>1, MoveEffect DEF S, B
    <2>3. UNCHANGED <<Cur, Temp, Bak, file["pending"].had, P, C, U, Prev>>
      BY <2>2 DEF Cur, Temp, Bak, P, C, U, Prev, Has, Paths
    <2>4. Undone /\ Undone'
      BY <1>1, <2>1, <2>3 DEF Undone
    <2>5. Ours' = Ours
      BY <2>1, <2>2, <2>3, <2>4 DEF Ours, Restored
    <2>6. Homed' /\ Leads'
      BY <1>1, <2>3, <2>4, <2>5, KeptGuides
    <2> QED BY <1>1, <2>1, <2>2, <2>3, <2>4, <2>6, ReplacementPlaces DEF CommittedAt
  <1>8. CASE Abandon
    <2>1. /\ pc = "abandon" /\ ~C /\ ClearMarkers("rejectedLoad", "rejectedLoad")
          /\ session # None => Cur = session
      BY <1>8 DEF Abandon, Then, Stand, Loading, Steered, AtSession
    <2>2. /\ \A q \in Paths \ {"pending", "commit"} : file'[q] = file[q]
          /\ pc' \in {pc, "rejectedLoad"} /\ file'["commit"] = file["commit"]
          /\ \/ file'["pending"] = file["pending"]
             \/ P /\ file'["pending"] = None
      BY <1>1, <2>1, ClearMarkersEffect
    <2>3. UNCHANGED <<S, B, Cur, Temp, Bak, C, U>>
      BY <2>2 DEF S, B, Cur, Temp, Bak, C, U, Has, Paths
    <2>4. Homed' /\ Leads'
      <3>1. ASSUME file'["pending"] = file["pending"]
            PROVE  Homed' /\ Leads'
        <4>1. UNCHANGED <<P, Prev, file["pending"].had>>
          BY <3>1 DEF P, Prev, Has
        <4> QED BY <1>5, <2>3, <4>1
      <3>2. ASSUME P, file'["pending"] = None
            PROVE  Homed' /\ Leads'
        <4>1. Undone /\ ~P' /\ ~Undone' /\ Ours' = Ours
          BY <1>1, <2>1, <2>3, <3>2 DEF Undone, P, Has, Ours, Restored
        <4>2. session # None => Prev = session
          BY <1>1, <2>1, <3>2 DEF Ready, Sessions
        <4>3. session = Untitled => Ours
          BY <4>1, <4>2 DEF Homed, Name
        <4>4. Homed'
          BY <1>1, <1>3, <2>1, <2>3, <4>1, <4>3 DEF Homed
        <4>5. ~Wide => session # None
          BY <1>1, <1>3, <2>1, QuietWay DEF Leads, Quiet, Sound, FaultAt
        <4>6. ~Wide => Pick'
          <5>1. session # None => session \in Openable'
            BY <4>1, <4>3 DEF Openable, TypeOK, Name
          <5> QED BY <1>1, <2>1, <2>3, <4>5, <5>1 DEF Pick, Leads
        <4> QED BY <1>1, <1>2, <2>3, <4>1, <4>4, <4>6 DEF Leads, Pick
      <3> QED BY <2>2, <3>1, <3>2
    <2> QED BY <1>1, <2>1, <2>2, <2>3, <2>4, ReplacementPlaces DEF CommittedAt
  <1>9. CASE Commit
    <2>1. /\ pc = "commit" /\ begun' = begun /\ (begun \/ (OpensUntitled /\ C)) /\ Whole("staging")
          /\ begun /\ had => B # None
      BY <1>1, <1>9 DEF Commit, locals, Stand, Loading, At, Ready, Beginning, BeginsAt
    <2>2. /\ OpensUntitled /\ Cur = load.name /\ (P \/ B = None)
          /\ begun => P /\ ~C
      BY <2>1 DEF Steered, AtLoad, BeginsAt, CommittedAt, Stand, Loading, At, LoadingAt, OpensUntitled
    <2>3. /\ \A q \in Paths \ {"commit"} : file'[q] = file[q]
          /\ \/ pc' = "commitBackup" /\ C'
             \/ pc' = CommitNo
          /\ C => C'
      <3>1. CASE Has("commit")
        BY <1>9, <3>1 DEF Commit, Goto, C, Has
      <3>2. CASE ~Has("commit")
        <4>1. WriteMarker("commit", TRUE, "commitBackup", CommitNo) /\ "commit" \in Paths
          BY <1>9, <2>1, <3>2 DEF Commit, Exists, B, C, Paths
        <4> QED BY <1>1, <3>2, <4>1, WriteEffect DEF C, Has, Others, TypeOK, FileType
      <3> QED BY <3>1, <3>2
    <2>4. UNCHANGED <<S, B, Cur, Temp, Bak, P, U, Prev, file["pending"].had, Whole("staging"), Validates("staging")>>
      BY <2>3 DEF S, B, Cur, Temp, Bak, P, U, Prev, Has, Paths, Whole, Validates
    <2>5. C' => ~Undone' /\ Ours'
      BY <2>1, <2>2, <2>4 DEF Undone, Ours, Restored, Whole, Validates, S
    <2>6. ~C' => begun /\ Undone'
      BY <1>1, <2>1, <2>2, <2>3, <2>4 DEF Undone
    <2>7. Homed' /\ Leads'
      <3>1. ASSUME C' = C
            PROVE  Homed' /\ Leads'
        BY <1>5, <2>4, <3>1
      <3>2. ASSUME C'
            PROVE  Homed' /\ Leads'
        <4>1. Homed'
          BY <2>4, <2>5, <3>2 DEF Homed
        <4>2. Pick'
          BY <2>2, <2>4, <2>5, <3>2 DEF Pick, Openable, OpensUntitled
        <4> QED BY <1>1, <1>2, <2>4, <2>5, <3>2, <4>1, <4>2 DEF Leads, Pick
      <3> QED BY <2>3, <3>1, <3>2 DEF C, Has
    <2>8. pc' = "failLoad" \/ (pc' \in {"commitBackup", "opened"} /\ C')
      BY <2>1, <2>3 DEF CommitNo
    <2>9. Validates("staging")' /\ Cur' = load.name
      BY <2>1, <2>2, <2>4 DEF Validates, Whole
    <2>10. C' => load.name \in due'
      BY <2>2 DEF OpensUntitled
    <2> QED BY <1>1, <2>2, <2>5, <2>6, <2>7, <2>8, <2>9, <2>10, ReplacementPlaces DEF CommittedAt
  <1>10. CASE CommitBackup \/ CommitState \/ CommitMarkers
    <2>1. /\ pc \in {"commitBackup", "commitState", "commitMarkers"} /\ pc \in CommittedAt /\ pc \in OpenedAt
          /\ P => C /\ Whole("staging")
          /\ pc # "commitBackup" => B = None
      BY <1>1, <1>10 DEF CommitBackup, CommitState, CommitMarkers, Ready, Beginning, CommittedAt, OpenedAt,
         Stand, Loading
    <2>2. /\ OpensUntitled /\ Validates("staging") /\ Cur = load.name /\ (Wide \/ load.name \in due)
          /\ P \/ B = None
      BY <2>1 DEF Steered, AtLoad, Stand, Loading, At, LoadingAt, OpensUntitled
    <2>3. /\ pc' \in {"commitBackup", "commitState", "commitMarkers", "opened"}
          /\ UNCHANGED <<file["staging"], file["purge"], file["current"]>>
          /\ P' \/ B' = None
          /\ P' => P /\ file'["commit"] = file["commit"] /\ file'["pending"] = file["pending"]
      <3>1. CASE CommitBackup
        <4>1. CASE DeleteProject("stagingBackup", "commitState", "opened") /\ Exists("stagingBackup")
          <5>1. Others("stagingBackup") /\ pc' \in {pc, "commitState", "opened"}
            BY <1>1, <4>1, DropEffect
          <5>2. P
            BY <2>2, <4>1 DEF Exists, B
          <5> QED BY <2>1, <4>1, <5>1, <5>2 DEF Others, Paths, P, Has
        <4>2. CASE file' = file /\ pc' = "commitState"
          BY <2>2, <4>2 DEF B, P, Has
        <4> QED BY <3>1, <4>1, <4>2 DEF CommitBackup, Then, Decide, Goto
      <3>2. CASE CommitState
        <4>1. "stateBackup" \in Paths
          BY DEF Paths
        <4>2. Others("stateBackup") /\ pc' \in {"commitMarkers", "opened"} /\ pc = "commitState"
          BY <1>1, <3>2, <4>1, DeleteEffect DEF CommitState, Then
        <4> QED BY <2>1, <4>2 DEF Others, Paths, B, P, Has
      <3>3. CASE CommitMarkers
        <4>1. ClearMarkers("opened", "opened") /\ pc = "commitMarkers"
          BY <3>3 DEF CommitMarkers, Then
        <4>2. /\ \A q \in Paths \ {"pending", "commit"} : file'[q] = file[q]
              /\ pc' \in {pc, "opened"} /\ file'["pending"] \in {file["pending"], None}
              /\ P' => file'["commit"] = file["commit"]
          BY <1>1, <4>1, ClearMarkersEffect DEF P, Has
        <4> QED BY <2>1, <4>1, <4>2 DEF Paths, B, P, Has
      <3> QED BY <1>10, <3>1, <3>2, <3>3
    <2>4. /\ UNCHANGED <<S, U, Cur, Validates("staging")>> /\ ~U'
          /\ P' => P /\ C' = C /\ Prev' = Prev /\ file'["pending"].had = file["pending"].had
      BY <1>1, <2>3 DEF S, U, C, P, Cur, Prev, Has, Validates
    <2>5. ~Undone' /\ Ours' /\ Cur' = load.name
      BY <2>1, <2>2, <2>3, <2>4 DEF Undone, Ours, Restored, Validates, S
    <2>6. Homed'
      BY <2>4, <2>5 DEF Homed
    <2>7. ~Wide => Pick'
      BY <2>2, <2>5 DEF Pick, Openable, OpensUntitled
    <2>8. Leads'
      BY <1>1, <1>2, <2>4, <2>5, <2>7 DEF Leads, Pick
    <2> QED BY <1>1, <1>2, <2>1, <2>2, <2>3, <2>4, <2>5, <2>6, <2>8, ReplacementPlaces DEF CommittedAt
  <1> QED BY <1>6, <1>7, <1>8, <1>9, <1>10 DEF Replacement

-----------------------------------------------------------------------------
(* The boot: what a load leaves it to open. *)

LEMMA LoadGuides ==
  ASSUME TypeOK, Flow, Stand, Sound, Homed, Leads, Steered, Load, due \subseteq due', calm' = calm
  PROVE  Homed' /\ Leads' /\ Steered'
  <1>1. /\ stage' = stage /\ pc \notin {"off", "rejectedLoad", "failed"} /\ pc' # "off" /\ FileType
        /\ pc \in LoadingAt \cup {"preflight", "failLoad", "restoreSession"} /\ Ready
    <2>1. pc' # "off" /\ stage' = stage
      BY DEF Load, Preflight, Create, Restore, Rejected, RolledBack, TryPrevious, FailLoad,
         RestoreSession, CommitMarker, CommitTransaction, SaveProjectState, LoadProject, Decide,
         locals, Goto
    <2> QED BY <2>1 DEF Load, Preflight, Create, Restore, Rejected, RolledBack, TryPrevious, FailLoad,
         RestoreSession, CommitMarker, CommitTransaction, TypeOK, LoadingAt, Sound
  <1>2. Wide => Wide'
    BY WideGrows
  <1>3. /\ stage = "user" => session # None
        /\ stage # "user" => session = None
    BY <1>1 DEF Steered, AtSession, Ready, Sessions, LoadingAt
  <1>4. stage = "user" /\ session = Untitled /\ ~Undone => Ours
    BY <1>1 DEF Steered, AtSession
  <1>5. ASSUME file' = file
        PROVE  /\ UNCHANGED <<P, C, U, S, B, Prev, Undone, Ours, Openable, Cur, Temp, Bak>>
               /\ UNCHANGED <<file["pending"].had, Validates("staging")>>
               /\ session' \in {session, None} => Homed' /\ Leads'
    <2>1. OwnFiles /\ UNCHANGED <<Cur, Temp, Bak>>
      BY <1>5, SameFilesHold
    <2>2. session' \in {session, None} => Homed' /\ Leads'
      BY <1>1, <2>1, SameHomed, SameLeads
    <2> QED BY <2>1, <2>2, OwnFilesKeep, OwnFilesHold
  <1>6. ASSUME ~Rewriting', pc' \notin {"clearMarkers", "loadFailed", "loaded"} \cup TakesBackAt,
               pc' \in LoadingAt \cup {"preflight", "failLoad", "restoreSession", "recover", "rollbackCommitted",
                                       "rejectedLoad"}
        PROVE  AtRewrite' /\ AtRollback' /\ AtRecover' /\ AtRead'
    BY <1>6, Elsewhere DEF LoadingAt
  <1>7. CASE Preflight
    <2>1. /\ pc = "preflight" /\ file' = file /\ UNCHANGED <<load, begun, had, session>> /\ ~begun
          /\ load.create => load.name = Untitled
          /\ \/ load.create /\ pc' = "recover" /\ back' = Call("recover", "begin", "rejectedLoad")
             \/ ~load.create /\ pc' = "create" /\ OpensUntitled
             \/ ~load.create /\ pc' = "restore" /\ (OpensUntitled => Validates("staging"))
             \/ pc' = "rejectedLoad"
      BY <1>7 DEF Preflight, Stand, Loading, OpensUntitled, Goto
    <2>2. pc' = "recover" => back'["recover"][1] = "begin"
      BY <2>1, BackEffect DEF TypeOK, BackType
    <2>3. ~Rewriting' /\ pc' \in {"recover", "create", "restore", "rejectedLoad"}
      BY <2>1 DEF Rewriting, Mark!RewriteAt
    <2>4. AtLoad'
      <3>1. Creates' => load.create
        BY <2>1, <2>3 DEF Creates, Restoring, Reverting, RecoverAt, RollbackAt, PurgeAt
      <3>2. load.create \in BOOLEAN /\ begun \in BOOLEAN
        BY DEF TypeOK, LocalsType
      <3> QED BY <1>1, <1>2, <1>5, <2>1, <2>3, <3>1, <3>2
              DEF Steered, AtLoad, OpensUntitled, OpenedAt, CommittedAt, BeginsAt, Marking
    <2>5. AtSession'
      BY <1>1, <1>3, <1>4, <1>5, <2>1, <2>2, <2>3 DEF AtSession, Marking
    <2> QED BY <1>5, <1>6, <2>1, <2>3, <2>4, <2>5 DEF Steered, LoadingAt, TakesBackAt
  <1>8. CASE Create
    <2>1. /\ pc = "create" /\ ~C /\ ~U /\ OpensUntitled /\ UNCHANGED <<load, begun, had, session>>
      BY <1>8 DEF Create, Stand, Loading, locals, Flow, PurgeDueAt, PurgeAt, Steered, AtLoad
    <2>2. /\ \A q \in Paths \ {"staging"} : file'[q] = file[q]
          /\ pc' \in {"create", "restore", "failLoad"}
          /\ \/ S \in {None, Husk} /\ S' \in Generation
             \/ S = None /\ S' = Husk /\ pc' = "create"
             \/ S' = S /\ pc' = "failLoad"
      BY <1>1, <1>8 DEF Create, Fresh, Goto, S, FileType, Paths, Exists
    <2>3. UNCHANGED <<B, Cur, Temp, Bak, file["pending"].had, P, C, U, Prev>>
      BY <2>2 DEF B, Cur, Temp, Bak, P, C, U, Prev, Has, Paths
    <2>4. Undone' = P /\ Undone = P
      <3>1. P' = P /\ ~C' /\ ~U'
        BY <2>1, <2>3
      <3> QED BY <2>1, <3>1 DEF Undone, P, C, U, Has
    <2>5. Ours' = Ours \/ (~Ours /\ Ours' /\ B = None)
      BY <1>1, <2>2, <2>3, <2>4 DEF Ours, Restored
    <2>6. Homed' /\ Leads'
      <3>1. ASSUME Ours' = Ours
            PROVE  Homed' /\ Leads'
        BY <1>1, <2>1, <2>3, <2>4, <3>1, KeptGuides
      <3>2. ASSUME ~Ours, Ours'
            PROVE  Homed' /\ Leads'
        <4>1. Homed'
          BY <2>3, <3>2 DEF Homed
        <4>2. ~Wide /\ ~Undone => Untitled \in due
          BY <2>1, <2>4 DEF Steered, AtLoad, BeginsAt, OpensUntitled
        <4>3. ~Wide /\ ~Undone => Pick'
          <5>1. Openable \subseteq Openable' /\ Openable' \subseteq Openable \cup {Untitled}
            BY <3>2 DEF Openable
          <5> QED BY <2>3, <4>2, <5>1, PickGrows DEF Leads, Pick
        <4> QED BY <1>1, <1>2, <2>1, <2>3, <2>4, <4>1, <4>3 DEF Leads, Pick
      <3> QED BY <2>5, <3>1, <3>2
    <2>7. ~Rewriting' /\ ~Creates' /\ ~Marking'
      BY <2>2 DEF Rewriting, Mark!RewriteAt, Creates, Restoring, Reverting, Marking, RecoverAt, RollbackAt, PurgeAt
    <2>8. AtLoad'
      <3>1. pc' = "restore" => Validates("staging")'
        BY <2>2 DEF Validates, S
      <3> QED BY <1>1, <1>2, <2>1, <2>2, <2>3, <2>4, <2>7, <3>1
              DEF Steered, AtLoad, OpensUntitled, OpenedAt, CommittedAt, BeginsAt
    <2>9. AtSession'
      BY <1>1, <1>3, <1>4, <2>1, <2>2, <2>4, <2>5 DEF AtSession
    <2> QED BY <1>6, <2>2, <2>6, <2>7, <2>8, <2>9 DEF Steered, LoadingAt, TakesBackAt
  <1>9. CASE Restore
    <2>1. /\ pc = "restore" /\ file' = file /\ UNCHANGED <<load, begun, had, session, back>>
          /\ pc' \in {"commitMarker", "failLoad", "rejected"}
      BY <1>9 DEF Restore, Goto, locals
    <2>2. ~Rewriting' /\ ~Creates' /\ ~Marking'
      BY <2>1 DEF Rewriting, Mark!RewriteAt, Creates, Restoring, Reverting, Marking, RecoverAt, RollbackAt, PurgeAt
    <2>3. AtLoad'
      BY <1>1, <1>2, <1>5, <2>1, <2>2 DEF Steered, AtLoad, OpensUntitled, OpenedAt, CommittedAt, BeginsAt
    <2>4. AtSession'
      BY <1>1, <1>3, <1>4, <1>5, <2>1 DEF AtSession
    <2> QED BY <1>5, <1>6, <2>1, <2>2, <2>3, <2>4 DEF Steered, LoadingAt, TakesBackAt
  <1>10. CASE Rejected
    <2>1. /\ pc = "rejected" /\ file' = file /\ UNCHANGED <<load, begun, had, session>>
          /\ \/ pc' = "rollbackCommitted" /\ back' = Call("rollback", "rolledBack", "failLoad")
             \/ pc' = "tryPrevious"
      BY <1>10 DEF Rejected, Goto
    <2>2. pc' = "rollbackCommitted" => back'["rollback"][1] = "rolledBack"
      BY <2>1, BackEffect DEF TypeOK, BackType
    <2>3. ~Rewriting' /\ ~Creates' /\ ~Marking'
      BY <2>1, <2>2 DEF Rewriting, Mark!RewriteAt, Creates, Restoring, Reverting, Marking, RecoverAt, RollbackAt, PurgeAt
    <2>4. AtLoad'
      BY <1>1, <1>2, <1>5, <2>1, <2>3 DEF Steered, AtLoad, OpensUntitled, OpenedAt, CommittedAt, BeginsAt
    <2>5. AtSession'
      BY <1>1, <1>3, <1>4, <1>5, <2>1 DEF AtSession
    <2> QED BY <1>5, <1>6, <2>1, <2>3, <2>4, <2>5 DEF Steered, LoadingAt, TakesBackAt
  <1>11. CASE RolledBack \/ TryPrevious
    <2>1. /\ pc \in {"rolledBack", "tryPrevious"} /\ file' = file /\ UNCHANGED <<had, session>>
          /\ \/ session = None /\ pc' = "preflight" /\ ~load'.create
             \/ pc' \in {"tryPrevious", "failLoad"} /\ UNCHANGED <<load, begun>>
      BY <1>11 DEF RolledBack, TryPrevious, LoadProject, Goto
    <2>2. session = None => Wide
      BY <1>3, <2>1, QuietWay DEF Leads, Sound, Quiet, FaultAt
    <2>3. ~Rewriting' /\ ~Creates' /\ ~Marking'
      BY <2>1 DEF Rewriting, Mark!RewriteAt, Creates, Restoring, Reverting, Marking, RecoverAt, RollbackAt, PurgeAt
    <2>4. AtLoad'
      BY <1>1, <1>2, <1>5, <2>1, <2>2, <2>3 DEF Steered, AtLoad, OpensUntitled, OpenedAt, CommittedAt, BeginsAt
    <2>5. AtSession'
      BY <1>1, <1>3, <1>4, <1>5, <2>1 DEF AtSession
    <2> QED BY <1>5, <1>6, <2>1, <2>3, <2>4, <2>5 DEF Steered, LoadingAt, TakesBackAt
  <1>12. CASE FailLoad
    <2>1. /\ pc = "failLoad" /\ file' = file /\ UNCHANGED <<load, had, session>>
          /\ \/ pc' = "recover" /\ back' = Call("recover", "restoreSession", "restoreSession")
             \/ pc' = "restoreSession"
      BY <1>12 DEF FailLoad, Goto
    <2>2. pc' = "recover" => back'["recover"][1] = "restoreSession"
      BY <2>1, BackEffect DEF TypeOK, BackType
    <2>3. ~Rewriting' /\ ~Creates' /\ ~Marking'
      BY <2>1, <2>2 DEF Rewriting, Mark!RewriteAt, Creates, Restoring, Reverting, Marking, RecoverAt, RollbackAt, PurgeAt
    <2>4. AtLoad'
      BY <1>1, <1>2, <1>5, <2>1, <2>3 DEF Steered, AtLoad, OpensUntitled, OpenedAt, CommittedAt, BeginsAt
    <2>5. AtSession'
      BY <1>1, <1>3, <1>4, <1>5, <2>1 DEF AtSession
    <2> QED BY <1>5, <1>6, <2>1, <2>3, <2>4, <2>5 DEF Steered, LoadingAt, TakesBackAt
  <1>13. CASE RestoreSession
    <2>1. /\ pc = "restoreSession" /\ file' = file /\ session' \in {session, None} /\ load' = load
      BY <1>13 DEF RestoreSession, Decide, SaveProjectState, locals
    <2>2. CASE session # None /\ SaveProjectState(session, FALSE, None, "rejectedLoad", "rejectedLoad")
      <3>1. back'["marker"] = <<"rejectedLoad", "rejectedLoad">>
        BY <2>2, BackEffect DEF SaveProjectState, TypeOK, BackType
      <3>2. /\ pc' = "saveState" /\ args'.name = session /\ args'.retain = FALSE
            /\ UNCHANGED <<session, begun, had>>
        BY <2>2 DEF SaveProjectState, Goto
      <3>3. Rewriting' /\ ~Marking' /\ ~Reverting' /\ ~Restoring' /\ ~Creates'
        BY <3>1, <3>2 DEF Rewriting, Mark!RewriteAt, Creates, Restoring, Reverting, Marking, RecoverAt, RollbackAt, PurgeAt
      <3>4. AtRewrite'
        <4>1. ~Undone => session \in Openable
          BY <1>3, <1>4, <2>2 DEF Openable, TypeOK, Name
        <4>2. ~Wide => session \in due
          BY <2>2 DEF Leads
        <4> QED BY <1>2, <1>5, <2>1, <3>2, <3>3, <4>1, <4>2 DEF AtRewrite
      <3>5. AtLoad'
        BY <1>1, <1>2, <1>5, <2>1, <3>2, <3>3 DEF Steered, AtLoad, OpensUntitled, OpenedAt, CommittedAt, BeginsAt
      <3>6. AtSession'
        BY <1>1, <1>3, <1>4, <1>5, <2>1, <3>2 DEF AtSession
      <3>7. AtRollback' /\ AtRecover' /\ AtRead'
        BY <3>2, <3>3, Elsewhere DEF AtRollback, TakesBackAt
      <3> QED BY <1>5, <2>1, <3>4, <3>5, <3>6, <3>7 DEF Steered
    <2>3. CASE pc' = "rejectedLoad"
      <3>1. ~Rewriting' /\ ~Creates' /\ ~Marking'
        BY <2>3 DEF Rewriting, Mark!RewriteAt, Creates, Restoring, Reverting, Marking, RecoverAt, RollbackAt, PurgeAt
      <3>2. AtLoad'
        BY <1>1, <1>2, <1>5, <2>1, <2>3, <3>1 DEF Steered, AtLoad, OpensUntitled, OpenedAt, CommittedAt, BeginsAt
      <3>3. AtSession'
        BY <1>1, <2>3, <3>1 DEF AtSession, LoadingAt, RecoverAt
      <3> QED BY <1>5, <1>6, <2>1, <2>3, <3>1, <3>2, <3>3 DEF Steered, LoadingAt, TakesBackAt
    <2> QED BY <1>13, <2>2, <2>3 DEF RestoreSession, Decide, Goto
  <1>14. CASE CommitMarker
    <2>1. /\ pc = "commitMarker" /\ pc' = "saveState" /\ file' = file /\ ~U
          /\ UNCHANGED <<load, begun, had, session>>
          /\ args'.name = load.name /\ args'.retain = begun
          /\ back' = Call("marker", "commitTransaction", "failLoad")
      BY <1>14 DEF CommitMarker, SaveProjectState, Goto, Flow, PurgeDueAt, PurgeAt
    <2>2. back'["marker"] = <<"commitTransaction", "failLoad">>
      BY <2>1, BackEffect DEF TypeOK, BackType
    <2>3. Rewriting' /\ Marking' /\ ~Reverting' /\ ~Restoring' /\ ~Creates'
      BY <2>1, <2>2 DEF Rewriting, Mark!RewriteAt, Creates, Restoring, Reverting, Marking, RecoverAt, RollbackAt, PurgeAt
    <2>4. /\ OpensUntitled => Validates("staging") /\ (P \/ B = None)
          /\ begun => P /\ ~C
          /\ ~Wide /\ ~begun => load.name \in due
      BY <2>1 DEF Steered, AtLoad, BeginsAt, OpenedAt, Stand, Loading, At, LoadingAt, OpensUntitled
    <2>5. ~Undone => ~begun
      BY <2>1, <2>4 DEF Undone
    <2>6. ~Undone => load.name \in Openable
      <3>1. ~Undone /\ load.name = Untitled => Ours
        BY <2>4 DEF Ours, Restored, OpensUntitled, Validates, S
      <3> QED BY <3>1 DEF Openable, TypeOK, LocalsType, Name
    <2>7. AtRewrite'
      BY <1>2, <1>5, <2>1, <2>3, <2>4, <2>5, <2>6 DEF AtRewrite
    <2>8. AtLoad'
      BY <1>1, <1>2, <1>5, <2>1, <2>3 DEF Steered, AtLoad, OpensUntitled, OpenedAt, CommittedAt, BeginsAt
    <2>9. AtSession'
      BY <1>1, <1>3, <1>4, <1>5, <2>1 DEF AtSession
    <2>10. AtRollback' /\ AtRecover' /\ AtRead'
      BY <2>1, <2>3, Elsewhere DEF AtRollback, TakesBackAt
    <2> QED BY <1>5, <2>1, <2>7, <2>8, <2>9, <2>10 DEF Steered
  <1>15. CASE CommitTransaction
    <2>1. /\ pc = "commitTransaction" /\ file' = file /\ UNCHANGED <<load, begun, session>>
          /\ pc' \in {"commit", "opened"} /\ (begun => had' = had /\ pc' = "commit")
      BY <1>15 DEF CommitTransaction, Goto
    <2>2. ~Rewriting' /\ ~Creates' /\ ~Marking'
      BY <2>1 DEF Rewriting, Mark!RewriteAt, Creates, Restoring, Reverting, Marking, RecoverAt, RollbackAt, PurgeAt
    <2>3. AtLoad'
      BY <1>1, <1>2, <1>5, <2>1, <2>2 DEF Steered, AtLoad, OpensUntitled, OpenedAt, CommittedAt, BeginsAt
    <2>4. AtSession'
      BY <1>1, <1>3, <1>4, <1>5, <2>1 DEF AtSession
    <2> QED BY <1>5, <1>6, <2>1, <2>2, <2>3, <2>4 DEF Steered, LoadingAt, TakesBackAt
  <1> QED BY <1>7, <1>8, <1>9, <1>10, <1>11, <1>12, <1>13, <1>14, <1>15 DEF Load

-----------------------------------------------------------------------------
(* The boot: what the boots and the operations of the user leave to open. *)

LEMMA CallerGuides ==
  ASSUME TypeOK, Flow, Stand, Sound, Homed, Leads, Steered, ~RollbackLeftBehind, ~PointerElsewhere,
         \/ /\ DropMarker \/ Purged \/ Selected \/ RejectedLoad \/ Opened
            /\ due \subseteq due' /\ calm' = calm
         \/ Boot \/ NewProject \/ OpenProject \/ Finish \/ Crash
  PROVE  Homed' /\ Leads' /\ Steered'
  <1>1. FileType /\ Ready /\ CalmBoot
    BY DEF TypeOK, Sound
  <1>2. due \subseteq due' => (Wide => Wide')
    BY WideGrows
  <1>3. ASSUME file' = file
        PROVE  /\ UNCHANGED <<P, C, U, S, B, Prev, Undone, Ours, Openable, Cur, Temp, Bak>>
               /\ UNCHANGED <<file["pending"].had, Validates("staging")>>
               /\ due \subseteq due' => (Pick => Pick')
    <2>1. OwnFiles /\ UNCHANGED <<Cur, Temp, Bak>>
      BY <1>3, SameFilesHold
    <2>2. /\ UNCHANGED <<P, C, U, S, B, Prev, Undone, Ours, Openable>>
          /\ UNCHANGED <<file["pending"].had, Validates("staging")>>
      BY <2>1, OwnFilesKeep, OwnFilesHold
    <2>3. due \subseteq due' => (Pick => Pick')
      BY <2>1, <2>2, PickGrows
    <2> QED BY <2>1, <2>2, <2>3
  <1>4. pc # "done" /\ (pc = "off" \/ stage # "user") => session = None
    BY <1>1 DEF Ready, Sessions
  <1>5. pc \in {"dropMarker", "purged", "loaded", "loadFailed"} => stage # "user"
    BY <1>1 DEF Ready, Called, Booting
  <1>6. ASSUME pc' \in {"recover", "dropMarker", "purge", "preflight", "done", "idle", "off", "failed", "dead"},
               pc' \in {"dropMarker", "purge"} => Wide'
        PROVE  /\ ~Rewriting' /\ ~Marking'
               /\ AtRewrite' /\ AtRollback' /\ AtRecover' /\ AtRead'
    <2>1. ~Rewriting' /\ ~Marking'
      BY <1>6 DEF Rewriting, Mark!RewriteAt, Marking
    <2>2. AtRecover'
      BY <1>6 DEF AtRecover
    <2> QED BY <1>6, <2>1, <2>2, Elsewhere DEF TakesBackAt
  <1>7. CASE DropMarker /\ due \subseteq due' /\ calm' = calm
    <2>1. /\ pc = "dropMarker" /\ stage # "user" /\ UNCHANGED <<load, begun, stage, session>>
          /\ DeleteCall("current", "purge", "purge") /\ Wide /\ Wide'
      BY <1>2, <1>5, <1>7 DEF DropMarker, Then, locals, Steered, AtRecover
    <2>2. pc' = "purge" /\ Others("current")
      <3>1. "current" \in Paths
        BY DEF Paths
      <3> QED BY <1>1, <2>1, <3>1, DeleteEffect
    <2>3. OwnFiles
      BY <2>2 DEF Others, OwnFiles, Paths, S, B
    <2>4. UNCHANGED <<P, Prev, Undone, Ours, file["pending"].had>>
      BY <2>3, OwnFilesKeep, OwnFilesHold
    <2>5. Homed' /\ Leads'
      BY <2>1, <2>4 DEF Homed, Leads
    <2>6. AtLoad' /\ AtSession'
      BY <2>1, <2>2, <1>6 DEF AtLoad, AtSession, Creates, Restoring, Reverting, RecoverAt, RollbackAt, PurgeAt,
         OpenedAt, CommittedAt, BeginsAt
    <2> QED BY <1>6, <2>1, <2>2, <2>5, <2>6 DEF Steered
  <1>8. CASE Purged /\ due \subseteq due' /\ calm' = calm
    <2>1. /\ pc = "purged" /\ pc' = "recover" /\ file' = file /\ UNCHANGED <<load, begun, stage, session>>
          /\ stage # "user" /\ back' = Call("recover", "loadState", "loadFailed")
      BY <1>5, <1>8 DEF Purged, Goto
    <2>2. back'["recover"] = <<"loadState", "loadFailed">>
      BY <2>1, BackEffect DEF TypeOK, BackType
    <2>3. Homed' /\ Leads'
      BY <1>2, <1>3, <1>8, <2>1 DEF Homed, Leads, Pick
    <2>4. ~Creates'
      BY <1>6, <2>1, <2>2 DEF Creates, Restoring, Reverting, RollbackAt, PurgeAt
    <2>5. AtLoad' /\ AtSession'
      BY <1>2, <1>6, <1>8, <2>1, <2>4 DEF Steered, AtLoad, AtSession, OpenedAt, CommittedAt, BeginsAt
    <2> QED BY <1>6, <2>1, <2>3, <2>5 DEF Steered
  <1>9. CASE Selected /\ due \subseteq due' /\ calm' = calm
    <2>1. /\ pc \in {"loaded", "loadFailed"} /\ file' = file /\ UNCHANGED <<session, stage>> /\ stage # "user"
          /\ pc' = "preflight" /\ load'.name = answer' /\ begun' = FALSE
          /\ pc = "loadFailed" => load'.create /\ answer' = Untitled
          /\ pc = "loaded" => ~load'.create /\ answer' = answer
      BY <1>5, <1>9 DEF Selected, LoadProject, Goto
    <2>2. pc = "loaded" => ~Undone
      BY DEF Stand, Loading, Settled, Undone
    <2>3. /\ ~Wide /\ pc = "loadFailed" => Untitled \in due
          /\ ~Wide /\ pc = "loaded" => answer \in due
      BY DEF Steered, AtRecover, AtRead
    <2>4. Homed' /\ Leads'
      BY <1>2, <1>3, <1>9, <2>1 DEF Homed, Leads, Pick
    <2>5. ~Creates'
      BY <1>6, <2>1 DEF Creates, Restoring, Reverting, RecoverAt, RollbackAt, PurgeAt
    <2>6. AtLoad' /\ AtSession'
      BY <1>2, <1>3, <1>6, <1>9, <2>1, <2>2, <2>3, <2>5 DEF AtLoad, AtSession, OpenedAt, CommittedAt, BeginsAt
    <2> QED BY <1>6, <2>1, <2>4, <2>6 DEF Steered
  <1>10. CASE RejectedLoad /\ due \subseteq due' /\ calm' = calm
    <2>1. /\ pc = "rejectedLoad" /\ file' = file /\ session' = session
          /\ \/ pc' = "preflight" /\ load'.create /\ begun' = FALSE /\ stage = "first" /\ stage' = "last"
             \/ pc' = "failed" /\ stage' = stage /\ stage = "user" /\ load' = load
             \/ pc' = "dead" /\ stage' = stage /\ stage # "user" /\ load' = load
      BY <1>10 DEF RejectedLoad, LoadProject, Goto, locals
    <2>2. stage # "user" => Wide
      BY <1>1, <2>1, QuietWay DEF Leads, Quiet, FaultAt
    <2>3. Homed' /\ Leads'
      BY <1>2, <1>3, <1>10, <2>1, <2>2 DEF Homed, Leads, Pick
    <2>4. ~Creates'
      BY <1>6, <2>1 DEF Creates, Restoring, Reverting, RecoverAt, RollbackAt, PurgeAt
    <2>5. AtLoad'
      BY <1>2, <1>6, <1>10, <2>1, <2>2, <2>4 DEF Steered, AtLoad, OpenedAt, CommittedAt, BeginsAt
    <2>6. AtSession'
      BY <1>6, <2>1 DEF AtSession, LoadingAt, RecoverAt
    <2> QED BY <1>6, <2>1, <2>3, <2>5, <2>6 DEF Steered
  <1>11. CASE Opened /\ due \subseteq due' /\ calm' = calm
    <2>1. /\ pc = "opened" /\ pc' = "done" /\ file' = file /\ session' = load.name
          /\ UNCHANGED <<load, begun, stage>>
      BY <1>11 DEF Opened, Goto, locals
    <2>2. /\ Cur = load.name /\ (Wide \/ load.name \in due)
          /\ OpensUntitled => Validates("staging") /\ (P \/ B = None)
      BY <2>1 DEF Steered, AtLoad, CommittedAt, OpenedAt, Stand, Loading, At, LoadingAt, OpensUntitled
    <2>3. session' \in Name
      BY <2>1 DEF TypeOK, LocalsType
    <2>4. OpensUntitled /\ ~Undone => Ours
      BY <2>2 DEF Ours, Restored, Validates, S
    <2>5. Homed'
      BY <1>3, <2>1 DEF Homed
    <2>6. Leads'
      BY <1>2, <1>3, <1>11, <2>1, <2>2 DEF Leads, Pick
    <2>7. ~Creates'
      BY <1>6, <2>1 DEF Creates, Restoring, Reverting, RecoverAt, RollbackAt, PurgeAt
    <2>8. AtLoad'
      BY <1>2, <1>6, <1>11, <2>1, <2>7 DEF Steered, AtLoad, OpenedAt, CommittedAt, BeginsAt
    <2>9. AtSession'
      BY <1>3, <1>6, <2>1, <2>2, <2>3, <2>4 DEF AtSession, OpensUntitled, Name
    <2> QED BY <1>6, <2>1, <2>5, <2>6, <2>8, <2>9 DEF Steered
  <1>12. CASE Boot
    <2>1. /\ pc = "off" /\ file' = file /\ UNCHANGED <<load, begun, session>> /\ session = None /\ stage' = "first"
          /\ \/ pc' = "recover" /\ back' = Call("recover", "loadState", "loadFailed")
             \/ pc' = "dropMarker" /\ due' = Name
          /\ due' = Name \/ (due' = due /\ calm')
      BY <1>4, <1>12 DEF Boot, Goto
    <2>2. pc' = "recover" => back'["recover"] = <<"loadState", "loadFailed">>
      BY <2>1, BackEffect DEF TypeOK, BackType
    <2>3. due' = Name => Wide'
      BY DEF Wide
    <2>4. due' = due => Wide' = Wide
      BY DEF Wide
    <2>5. Homed'
      BY <1>3, <2>1 DEF Homed
    <2>6. Leads'
      BY <1>3, <2>1, <2>3, <2>4 DEF Leads, Pick
    <2>7. ~Creates'
      BY <1>6, <2>1, <2>2, <2>3 DEF Creates, Restoring, Reverting, RecoverAt, RollbackAt, PurgeAt
    <2>8. AtLoad' /\ AtSession'
      BY <1>6, <2>1, <2>3, <2>7 DEF Steered, AtLoad, AtSession, OpenedAt, CommittedAt, BeginsAt
    <2> QED BY <1>6, <2>1, <2>3, <2>5, <2>6, <2>8 DEF Steered
  <1>13. CASE NewProject \/ OpenProject
    <2>1. /\ pc = "idle" /\ file' = file /\ UNCHANGED <<session, stage>> /\ pc' = "preflight"
          /\ due \subseteq due' /\ begun' = FALSE
          /\ load'.create \/ (~load'.create /\ load'.name \in due')
      BY <1>13 DEF NewProject, OpenProject, LoadProject, Goto
    <2>2. stage = "user" /\ ~Undone /\ session # None /\ Cur = session
      BY <1>1, <1>4, <2>1 DEF Stand, Loading, Ready, Beginning, Steered, AtSession
    <2>3. Homed'
      BY <1>3, <2>1, <2>2 DEF Homed
    <2>4. Leads'
      BY <1>2, <1>3, <2>1, <2>2 DEF Leads, Pick
    <2>5. ~Creates'
      BY <1>6, <2>1 DEF Creates, Restoring, Reverting, RecoverAt, RollbackAt, PurgeAt
    <2>6. AtLoad'
      BY <1>2, <1>3, <1>6, <2>1, <2>2, <2>5 DEF AtLoad, OpenedAt, CommittedAt, BeginsAt
    <2>7. AtSession'
      BY <1>3, <1>6, <2>1, <2>2 DEF AtSession, Homed
    <2> QED BY <1>6, <2>1, <2>3, <2>4, <2>6, <2>7 DEF Steered
  <1>14. CASE Finish
    <2>1. /\ pc \in {"done", "failed"} /\ pc' = "idle" /\ file' = file /\ session' = session
          /\ stage' = "user" /\ ~load'.create
          /\ due' = IF pc = "done" THEN {session} ELSE due
      BY <1>14 DEF Finish, Park, Goto, NoLoad
    <2>2. ~U /\ ~Undone /\ session # None /\ Cur = session
      <3>1. ~U /\ file'["current"] = session
        BY <2>1 DEF Flow, PurgeDueAt, PurgeAt, PointerElsewhere
      <3>2. P => C /\ Validates("staging")
        BY <2>1 DEF RollbackLeftBehind, P, C, Has, Validates
      <3> QED BY <2>1, <3>1, <3>2 DEF Undone, PointerElsewhere, Cur
    <2>3. session = Untitled => Ours
      <3>1. CASE pc = "done"
        <4>1. session = Untitled => Validates("staging") /\ (P \/ B = None)
          BY <3>1 DEF Steered, AtSession
        <4> QED BY <2>2, <4>1 DEF Ours, Restored, Validates, S
      <3>2. CASE pc = "failed"
        BY <2>2, <3>2 DEF Steered, AtSession, Homed
      <3> QED BY <2>1, <3>1, <3>2
    <2>4. Homed'
      BY <1>3, <2>1, <2>2, <2>3 DEF Homed
    <2>5. Leads'
      <3>1. session \in due' \/ Wide'
        BY <2>1, <2>2 DEF Leads, Wide
      <3>2. session \in Openable
        BY <2>2, <2>3 DEF Openable, TypeOK, Name
      <3> QED BY <1>3, <2>1, <2>2, <3>1, <3>2 DEF Leads, Pick
    <2>6. ~Creates'
      BY <1>6, <2>1 DEF Creates, Restoring, Reverting, RecoverAt, RollbackAt, PurgeAt
    <2>7. AtLoad'
      BY <1>6, <2>1, <2>6 DEF AtLoad, OpenedAt, CommittedAt, BeginsAt
    <2>8. AtSession'
      BY <1>3, <1>6, <2>1, <2>2, <2>3 DEF AtSession
    <2> QED BY <1>6, <2>1, <2>4, <2>5, <2>7, <2>8 DEF Steered
  <1>15. CASE Crash
    <2>1. /\ pc' = "off" /\ file' = file /\ session' = None /\ stage' = "user" /\ ~load'.create /\ due' = due
      BY <1>15 DEF Crash, Park, Goto, NoLoad
    <2>2. Wide' = Wide
      BY <2>1 DEF Wide
    <2>3. Homed'
      BY <1>3, <2>1 DEF Homed
    <2>4. Leads'
      BY <1>3, <2>1, <2>2 DEF Leads, Pick
    <2>5. ~Creates'
      BY <1>6, <2>1 DEF Creates, Restoring, Reverting, RecoverAt, RollbackAt, PurgeAt
    <2>6. AtLoad'
      BY <1>6, <2>1, <2>5 DEF AtLoad, OpenedAt, CommittedAt, BeginsAt
    <2>7. AtSession'
      BY <1>6, <2>1 DEF AtSession, Name
    <2> QED BY <1>6, <2>1, <2>3, <2>4, <2>6, <2>7 DEF Steered
  <1> QED BY <1>7, <1>8, <1>9, <1>10, <1>11, <1>12, <1>13, <1>14, <1>15

\* What the boots and operations so far have left to open, after any step that does
\* not derail the phase markers.
LEMMA NextGuides ==
  ASSUME TypeOK, Flow, Owed, Stand, Sound, Homed, Leads, Steered, Next, ~Derails
  PROVE  Homed' /\ Leads' /\ Steered'
  <1>1. ~RollbackLeftBehind /\ ~PointerElsewhere
    BY DEF Derails
  <1>2. CASE Procedures
    <2>1. due \subseteq due' /\ calm' = calm /\ (C' => Untitled \in due')
      BY <1>2 DEF Procedures, C, Has
    <2>2. pc = "rollbackCommitted" /\ pc' # RollbackNo =>
            IF prior' = None THEN Name \subseteq due' ELSE prior' \in due'
      BY <1>2 DEF Procedures
    <2>3. CASE MarkerStep \/ MarkerReturns
      BY <2>1, <2>3, MarkerGuides
    <2>4. CASE RecoverStaging
      BY <2>1, <2>4, RecoverGuides
    <2>5. CASE Purge
      BY <2>1, <2>5, PurgeGuides
    <2>6. CASE RollbackCommitted
      <3>1. pc = "rollbackCommitted"
        BY <2>6 DEF RollbackCommitted
      <3> QED BY <2>1, <2>2, <2>6, <3>1, RollbackCommittedGuides
    <2>7. CASE Rollback /\ ~RollbackCommitted
      BY <2>1, <2>7, RollbackGuides
    <2>8. CASE Replacement
      BY <1>1, <2>1, <2>8, ReplacementGuides
    <2>9. CASE Load
      BY <2>1, <2>9, LoadGuides
    <2>10. CASE DropMarker \/ Purged \/ Selected \/ RejectedLoad \/ Opened
      BY <1>1, <2>1, <2>10, CallerGuides
    <2> QED BY <1>2, <2>3, <2>4, <2>5, <2>6, <2>7, <2>8, <2>9, <2>10 DEF Procedures
  <1> QED BY <1>1, <1>2, CallerGuides DEF Next

LEMMA InitGuides == Init => Homed /\ Leads /\ Steered
  <1> SUFFICES ASSUME Init PROVE Homed /\ Leads /\ Steered
    OBVIOUS
  <1>1. pc = "off" /\ session = None /\ stage = "user" /\ ~load.create /\ calm /\ due = {Untitled}
        /\ \A p \in Paths : file[p] = None
    BY DEF Init, NoLoad
  <1>2. B = None /\ ~P /\ ~U /\ ~Undone /\ Cur = None /\ Temp = None /\ Bak = None
    BY <1>1 DEF Paths, B, P, U, Undone, Has, Cur, Temp, Bak
  <1>3. Homed /\ Leads
    BY <1>1, <1>2 DEF Homed, Leads, Pick, Spare, Harmless, Openable, Name
  <1>4. ~Rewriting
    BY <1>1 DEF Rewriting, Mark!RewriteAt
  <1>5. AtRewrite /\ AtRollback /\ AtRecover /\ AtRead
    BY <1>1, <1>4 DEF AtRewrite, AtRollback, AtRecover, AtRead, Reverting, TakesBackAt
  <1>6. AtLoad /\ AtSession
    BY <1>1, <1>4 DEF AtLoad, AtSession, Creates, Restoring, Reverting, Marking, RecoverAt, RollbackAt, PurgeAt,
       OpenedAt, CommittedAt, BeginsAt, Name
  <1> QED BY <1>3, <1>5, <1>6 DEF Steered

LEMMA StutterGuides ==
  ASSUME Homed, Leads, Steered, UNCHANGED vars
  PROVE  Homed' /\ Leads' /\ Steered'
  <1>1. /\ file' = file /\ pc' = pc /\ UNCHANGED <<calm, session, due>>
        /\ UNCHANGED <<args, answer, load, begun, had, prior, back, stage>>
    BY DEF vars, locals
  <1>2. /\ UNCHANGED <<P, C, U, S, B, Prev, Undone, Ours, Openable, Cur, Temp, Bak>>
        /\ UNCHANGED <<file["pending"].had, Validates("staging")>>
    BY <1>1, SameFilesHold, OwnFilesKeep, OwnFilesHold
  <1>3. Wide' = Wide /\ Spare' = Spare
    BY <1>1, <1>2 DEF Wide, Spare, Harmless
  <1>4. Homed' /\ Leads'
    BY <1>1, <1>2, <1>3 DEF Homed, Leads, Pick
  <1>5. UNCHANGED <<Rewriting, Marking, Reverting, Restoring, Creates, OpensUntitled>>
    BY <1>1, <1>2 DEF Rewriting, Marking, Reverting, Restoring, Creates, OpensUntitled
  <1>6. AtRewrite' /\ AtLoad' /\ AtSession'
    BY <1>1, <1>2, <1>3, <1>5 DEF Steered, AtRewrite, AtLoad, AtSession
  <1>7. AtRollback' /\ AtRecover' /\ AtRead'
    BY <1>1, <1>2, <1>3, <1>5 DEF Steered, AtRollback, AtRecover, AtRead
  <1> QED BY <1>4, <1>6, <1>7 DEF Steered

-----------------------------------------------------------------------------
(* The theorems. *)

\* What holds of the phase markers, the directories and the marker at every label,
\* and is enough to carry itself through every step.
IInv == TypeOK /\ Flow /\ (tainted \/ (Owed /\ Stand /\ Sound /\ Homed /\ Leads /\ Steered))

LEMMA InitInvariant == Init => IInv
  <1> SUFFICES ASSUME Init PROVE IInv
    OBVIOUS
  <1>1. pc = "off" /\ kept = None /\ session = None /\ ~load.create
        /\ \A p \in Paths : file[p] = None
    BY DEF Init, NoLoad
  <1>2. S = None /\ B = None /\ ~P /\ ~C /\ ~U
    BY <1>1 DEF Paths, S, B, P, C, U, Has
  <1>3. Flow /\ Owed
    BY <1>1, <1>2 DEF Flow, Owed, Kept, PurgeAt, PurgeDueAt
  <1>4. Stand
    BY <1>1 DEF Stand, Loading, Recovering, RollingBack, At, Rewriting, Mark!RewriteAt,
       Mark!LoadAt, LoadingAt
  <1> QED BY <1>3, <1>4, InitTypes, InitSound, InitGuides DEF IInv

LEMMA NextInvariant ==
  ASSUME IInv, Next
  PROVE  IInv'
  <1>1. TypeOK' /\ Flow'
    BY NextTypes, NextFlow DEF IInv
  <1>2. CASE tainted \/ Derails
    <2>1. tainted'
      BY <1>2 DEF Next
    <2> QED BY <1>1, <2>1 DEF IInv
  <1>3. CASE ~tainted /\ ~Derails
    BY <1>1, <1>3, NextOwes, NextSound, NextGuides DEF IInv
  <1> QED BY <1>2, <1>3

LEMMA StutterInvariant ==
  ASSUME IInv, UNCHANGED vars
  PROVE  IInv'
  <1>1. /\ file' = file /\ pc' = pc /\ UNCHANGED locals
        /\ UNCHANGED <<args, answer, load, begun, had, prior, back, stage>>
        /\ UNCHANGED <<calm, session, kept, tainted>>
    BY DEF vars, locals
  <1>2. TypeOK'
    BY <1>1, Unmoved DEF IInv, TypeOK
  <1>3. Flow' = Flow
    BY <1>1 DEF Flow, RecoverNo, S, B, P, C, U, Has
  <1>4. Owed' = Owed
    BY <1>1 DEF Owed, Kept, S, B, P, C, U, Has
  <1>5. Stand' = Stand
    BY <1>1 DEF Stand, Loading, Recovering, RollingBack, At, Rewriting, OpensUntitled,
       Settled, Kept, Whole, Validates, S, B, P, C, U, Has
  <1>6. Sound => Sound'
    BY StutterSound
  <1>7. Homed /\ Leads /\ Steered => Homed' /\ Leads' /\ Steered'
    BY StutterGuides
  <1> QED BY <1>1, <1>2, <1>3, <1>4, <1>5, <1>6, <1>7 DEF IInv

LEMMA Invariance == Spec => []IInv
  BY InitInvariant, NextInvariant, StutterInvariant, PTL DEF Spec

\* Every path holds what the code may have put there, and every procedure
\* returns to one of its callers (StagingPersistence.cpp, LoadProject).
THEOREM TypeCorrect == Spec => []TypeOK
  <1>1. IInv => TypeOK
    BY DEF IInv
  <1> QED BY <1>1, Invariance, PTL

\* The untitled project the user works on is in place or in the backup until
\* another one is committed or it is purged, for any projects, any generations,
\* and wherever power is lost or a call is refused
\* (BeginStagingProjectReplacement_, CommitStagingProjectReplacement_,
\* RecoverStagingProjectReplacement_, RollbackCommittedStagingProjectReplacement_).
THEOREM UntitledIsKept == Spec => []UntitledSurvives
  <1>1. IInv => UntitledSurvives
    BY DEF IInv, Owed, UntitledSurvives, S, B
  <1> QED BY <1>1, Invariance, PTL

\* While PURGE is durable nothing untitled comes back, and PURGE goes last
\* (CompleteStagingProjectPurge_), also after the markers have been derailed.
THEOREM PurgeGoesLast == Spec => PurgeIsFinal
  <1>1. IInv /\ [Next]_vars =>
           [Has("purge") =>
              /\ \A p \in {"staging", "stagingBackup"} : file'[p] \in {file[p], Gutted, Husk, None}
              /\ file'["purge"] = None => {file["staging"], file["stagingBackup"]} = {None}]_vars
    BY NextFlow DEF IInv, PurgeGoesOn, U
  <1> QED BY <1>1, Invariance, PTL DEF Spec, PurgeIsFinal

\* A boot that meets no fault comes up: it never gives up over the marker files,
\* directories and phase markers that earlier boots and operations have left
\* (Ui2TrackerApplication::Initialize, PrepareProjectBoot,
\* RecoverStagingProjectReplacement_, SaveProjectState_, LoadCurrentProjectName).
THEOREM BootsAlways == Spec => []AlwaysBoots
  <1>1. IInv => AlwaysBoots
    BY DEF IInv, Sound, Ready, Called, Booting, CalmBoot, FaultAt, AlwaysBoots
  <1> QED BY <1>1, Invariance, PTL

\* A boot that meets no fault but a power loss opens the project in use, or one the
\* interrupted operation was opening, or the one a rejected replacement gave way to
\* (LoadProject, SaveProjectState_, LoadCurrentProjectName and the rollbacks of
\* StagingPersistence.cpp, which rewrite the marker and the directories together).
THEOREM BootOpensDue == Spec => []BootRestores
  <1>1. IInv => BootRestores
    <2>1. SUFFICES ASSUME IInv, calm, stage = "first", pc = "done", ~tainted
                   PROVE  session \in due
      BY DEF BootRestores
    <2>2. session # None /\ session \in Name
      BY <2>1 DEF IInv, TypeOK, Steered, AtSession
    <2> QED BY <2>1, <2>2 DEF IInv, Leads, Wide
  <1> QED BY <1>1, Invariance, PTL
==============================================================================
