------------------------- MODULE UntitledReplacement --------------------------
(***************************************************************************)
(* How the session replaces /projects/.untitled: the PENDING, COMMITTED and*)
(* PURGE phase markers of Application/Persistency/StagingPersistence.cpp,  *)
(* the load transaction of TrackerApplicationSession::LoadProject that     *)
(* drives them, the boot of Ui2TrackerApplication::Initialize that         *)
(* recovers them, and the current-project marker they all rewrite          *)
(* (ProjectMarker, called as a subroutine).                                *)
(*                                                                         *)
(* As in ProjectMarkerAlone, calm says for one operation that no call is   *)
(* refused and no read fails; power is lost in calm operations too.        *)
(***************************************************************************)
EXTENDS ProjectDirectories, Naturals

CONSTANTS Named, Untitled, Torn

VARIABLES
    args, answer,   \* of the marker procedures
    load,           \* LoadProject's arguments
    begun,          \* LoadProject: stagingTransactionStarted
    had,            \* stagingHadPrevious
    prior,          \* the previous project RollbackCommitted has read
    back,           \* where Recover, RollbackCommitted and the marker return to
    stage,          \* who called LoadProject: the boot's first or last try, or the user
    session,        \* the loaded project, None before the first load
    kept,           \* ghost: the untitled generation the user must not lose
    tainted,        \* ghost: a phase marker has outlived its transaction
    due             \* ghost: the projects the next calm boot may open

locals == <<args, answer, load, begun, had, prior, back, stage>>
vars == <<file, calm, pc, locals, session, kept, tainted, due>>

Name == Named \cup {Untitled}
\* No previous project: the empty name in PENDING:<had>:<name>.
Pending == [had : BOOLEAN, prev : Name \cup {None}]

ASSUME ReplacementAssumption ==
    /\ Untitled \notin Named
    /\ {None, Torn} \cap Name = {} /\ None # Torn
    /\ None \notin BOOLEAN \cup Pending

Loadable == Named \cup (IF Validates("staging") THEN {Untitled} ELSE {})

Mark == INSTANCE ProjectMarker WITH loadable <- Loadable

Has(marker) == file[marker] # None
Call(proc, ok, no) == [back EXCEPT ![proc] = <<ok, no>>]
Returns(proc, ok) == Goto(back[proc][IF ok THEN 1 ELSE 2])

\* An action that only decides where to go on.
Decide(label) == Goto(label) /\ UNCHANGED <<file, locals, session, kept>>
\* A file system call with its two outcomes; locals stay.
Then(effect) == effect /\ UNCHANGED <<locals, session, kept>>

\* SaveProjectState_ as a subroutine.
SaveProjectState(name, retain, prev, ok, no) ==
    /\ args' = [name |-> name, retain |-> retain, prev |-> prev]
    /\ back' = Call("marker", ok, no) /\ Goto("saveState")
    /\ UNCHANGED <<file, answer, load, begun, had, prior, stage, session, kept>>

MarkerStep ==
    /\ UNCHANGED <<load, begun, had, prior, back, stage, session, kept>>
    /\ Mark!SaveProjectState \/ Mark!LoadCurrentProjectName

MarkerReturns ==
    /\ pc \in {"saved", "saveFailed"} /\ Returns("marker", pc = "saved")
    /\ UNCHANGED <<file, locals, session, kept>>

\* Deletes the files of a list one after the other; the first refusal ends it.
DeleteEach(files, yes, no) ==
    \/ /\ \A i \in DOMAIN files : ~Exists(files[i])
       /\ file' = file /\ Goto(yes)
    \/ \E i \in DOMAIN files :
          /\ Exists(files[i]) /\ \A j \in 1 .. i - 1 : ~Exists(files[j])
          /\ \E done \in BOOLEAN :
                Delete(files[i], done) /\ Branch(done, pc, no)

ClearMarkers(yes, no) == DeleteEach(<<"pending", "commit">>, yes, no)
ClearState(yes, no) == DeleteEach(<<"current", "stateTemp", "stateBackup">>, yes, no)

\* WriteStagingTransactionMarker_: temp, sync, rename, read back; a failure
\* removes what it wrote unless that is refused too.
WriteMarker(marker, contents, yes, no) ==
    \/ ~Has(marker) /\ file' = [file EXCEPT ![marker] = contents] /\ Goto(yes)
    \/ ~Has(marker) /\ ~calm /\ file' = [file EXCEPT ![marker] = contents] /\ Goto(no)
    \/ (Has(marker) \/ ~calm) /\ file' = file /\ Goto(no)

-----------------------------------------------------------------------------
(***************************************************************************)
(* RecoverStagingProjectReplacement_, which also runs the rest of a purge. *)
(***************************************************************************)
\* Seeded fault: the replacement is looked at before the purge.
PhaseIgnoresPurge ==
    IF ~Has("commit") /\ Has("pending") /\ Exists("stagingBackup") /\ ~Exists("staging")
    THEN "adoptBackup"
    ELSE IF Has("purge") THEN "purgeStaging" ELSE "clearMarkers"

\* Seeded fault: power lost before the old directory was moved is not recognised.
PhaseRefusesUnmoved ==
    IF Has("purge") THEN "purgeStaging"
    ELSE IF Has("commit") THEN IF Validates("staging") THEN "yes" ELSE "rollback"
    ELSE IF ~Has("pending") THEN "clearMarkers"
    ELSE IF ~Exists("stagingBackup") THEN "no"
    ELSE IF Exists("staging") THEN "dropCandidate" ELSE "adoptBackup"

\* What the phase markers call for; "no" is a state recovery refuses to touch.
Phase ==
    LET old == Exists("stagingBackup")
        candidate == Exists("staging")
    IN IF Has("purge") THEN "purgeStaging"
       ELSE IF Has("commit") THEN
           IF Validates("staging") THEN "yes" ELSE "rollback"
       ELSE IF Has("pending") THEN
           IF file["pending"].had
           THEN IF old /\ candidate THEN "dropCandidate" ELSE IF old THEN "adoptBackup"
                ELSE IF candidate THEN "restorePointer" ELSE "no"
           ELSE IF old THEN "no" ELSE IF candidate THEN "dropCandidate" ELSE "restorePointer"
       ELSE IF ~old THEN "clearMarkers"
       ELSE IF candidate THEN "dropCandidate" ELSE "adoptBackup"

Recover ==
    /\ pc = "recover"
    /\ \/ Phase \in {"yes", "no"} /\ Returns("recover", Phase = "yes") /\ UNCHANGED back
       \/ /\ Phase = "rollback" \/ (Phase = "yes" /\ ~calm)
          /\ Goto("rollbackCommitted")
          /\ back' = Call("rollback", back["recover"][1], back["recover"][2])
       \/ Phase \notin {"yes", "no", "rollback"} /\ Goto(Phase) /\ UNCHANGED back
       \/ ~calm /\ Returns("recover", FALSE) /\ UNCHANGED back
    /\ UNCHANGED <<file, args, answer, load, begun, had, prior, stage, session, kept>>

RecoverNo == back["recover"][2]

DropCandidate ==
    /\ pc = "dropCandidate"
    /\ Then(DeleteProject("staging",
               IF Exists("stagingBackup") THEN "adoptBackup" ELSE "restorePointer", RecoverNo))
\* Seeded fault: the previous pointer is not restored with the directory.
AdoptWithoutPointer ==
    pc = "adoptBackup" /\ Then(MoveCall("stagingBackup", "staging", "clearMarkers", RecoverNo))
AdoptBackup ==
    /\ pc = "adoptBackup"
    /\ Then(MoveCall("stagingBackup", "staging",
               IF Has("pending") THEN "restorePointer" ELSE "clearMarkers", RecoverNo))
\* The previous pointer is restored before PENDING is deleted.
RestorePointer ==
    /\ pc = "restorePointer"
    /\ IF file["pending"].prev # None
       THEN SaveProjectState(file["pending"].prev, FALSE, None, "clearMarkers", RecoverNo)
       ELSE Then(ClearState("clearMarkers", RecoverNo))
ClearPhase == pc = "clearMarkers" /\ Then(ClearMarkers(back["recover"][1], RecoverNo))

RecoverStaging == Recover \/ DropCandidate \/ AdoptBackup \/ RestorePointer \/ ClearPhase

-----------------------------------------------------------------------------
(***************************************************************************)
(* PurgeUnnamedProject and CompleteStagingProjectPurge_.                   *)
(***************************************************************************)
BeginPurge ==
    /\ pc = "purge"
    /\ WriteMarker("purge", TRUE, "purgeStaging", RecoverNo) \/ (Has("purge") /\ Goto("purgeStaging") /\ file' = file)
    /\ kept' = IF file'["purge"] # None THEN None ELSE kept
    /\ UNCHANGED <<locals, session>>
PurgeStaging ==
    /\ pc = "purgeStaging"
    /\ IF Exists("staging") THEN Then(DeleteProject("staging", "purgeBackup", RecoverNo))
       ELSE Decide("purgeBackup")
PurgeBackup ==
    /\ pc = "purgeBackup"
    /\ IF Exists("stagingBackup") THEN Then(DeleteProject("stagingBackup", "purgeState", RecoverNo))
       ELSE Decide("purgeState")
PurgeState == pc = "purgeState" /\ Then(ClearState("purgeMarkers", RecoverNo))
PurgeMarkers == pc = "purgeMarkers" /\ Then(ClearMarkers("purgeDone", RecoverNo))
PurgeDone == pc = "purgeDone" /\ Then(DeleteCall("purge", back["recover"][1], RecoverNo))

Purge == BeginPurge \/ PurgeStaging \/ PurgeBackup \/ PurgeState \/ PurgeMarkers \/ PurgeDone

-----------------------------------------------------------------------------
(***************************************************************************)
(* RollbackCommittedStagingProjectReplacement_.                            *)
(***************************************************************************)
RollbackNo == back["rollback"][2]

\* A rejected replacement is no longer what the user must keep.
RollbackCommitted ==
    /\ pc = "rollbackCommitted"
    /\ \/ /\ Has("commit") /\ Has("pending")
          /\ prior' = file["pending"].prev /\ had' = file["pending"].had
          /\ kept' = IF Whole("stagingBackup") THEN file["stagingBackup"] ELSE None
          /\ IF prior' # None
             THEN /\ Goto("saveState") /\ back' = Call("marker", "rollbackDrop", RollbackNo)
                  /\ args' = [name |-> prior', retain |-> FALSE, prev |-> None]
             ELSE Goto("rollbackDrop") /\ UNCHANGED <<args, back>>
       \/ /\ ~(Has("commit") /\ Has("pending")) \/ ~calm
          /\ Goto(RollbackNo) /\ UNCHANGED <<prior, had, kept, args, back>>
    /\ UNCHANGED <<file, answer, load, begun, stage, session>>
RollbackDrop ==
    /\ pc = "rollbackDrop"
    /\ IF Exists("staging") THEN Then(DeleteProject("staging", "rollbackRestore", RollbackNo))
       ELSE Decide("rollbackRestore")
RollbackRestore ==
    /\ pc = "rollbackRestore"
    /\ IF had THEN Then(MoveCall("stagingBackup", "staging", "rollbackState", RollbackNo))
       ELSE Decide(IF Exists("stagingBackup") THEN RollbackNo ELSE "rollbackState")
RollbackState ==
    /\ pc = "rollbackState"
    /\ IF prior = None THEN Then(ClearState("rollbackMarkers", RollbackNo))
       ELSE Decide("rollbackMarkers")
RollbackMarkers ==
    pc = "rollbackMarkers" /\ Then(ClearMarkers(back["rollback"][1], RollbackNo))

Rollback == RollbackCommitted \/ RollbackDrop \/ RollbackRestore \/ RollbackState \/ RollbackMarkers

-----------------------------------------------------------------------------
(***************************************************************************)
(* BeginStagingProjectReplacement_, after its recovery, and                *)
(* CommitStagingProjectReplacement_.                                       *)
(***************************************************************************)
Begin ==
    /\ pc = "begin"
    /\ IF Exists("stagingBackup")
       THEN Goto("rejectedLoad") /\ UNCHANGED <<file, had, begun>>
       ELSE LET pending == [had |-> Exists("staging"), prev |-> session]
            IN /\ had' = pending.had
               /\ WriteMarker("pending", pending,
                              IF pending.had THEN "moveAside" ELSE "create", "rejectedLoad")
               /\ begun' = (pc' = "create")
    /\ UNCHANGED <<args, answer, load, prior, back, stage, session, kept>>
MoveAside ==
    /\ pc = "moveAside" /\ MoveCall("staging", "stagingBackup", "create", "abandon")
    /\ begun' = (pc' = "create")
    /\ UNCHANGED <<args, answer, load, had, prior, back, stage, session, kept>>
Abandon == pc = "abandon" /\ Then(ClearMarkers("rejectedLoad", "rejectedLoad"))

CommitNo == IF begun THEN "failLoad" ELSE "opened"

\* From here on the new directory is the one to keep.
Commit ==
    /\ pc = "commit"
    /\ IF Has("commit") THEN file' = file /\ (Goto("commitBackup") \/ (~calm /\ Goto(CommitNo)))
       ELSE IF had /\ ~Exists("stagingBackup") THEN file' = file /\ Goto(CommitNo)
       ELSE WriteMarker("commit", TRUE, "commitBackup", CommitNo)
    /\ kept' = IF file'["commit"] # None /\ Whole("staging") THEN file["staging"] ELSE kept
    /\ UNCHANGED <<locals, session>>
CommitBackup ==
    /\ pc = "commitBackup"
    /\ IF Exists("stagingBackup") THEN Then(DeleteProject("stagingBackup", "commitState", "opened"))
       ELSE Decide("commitState")
CommitState == pc = "commitState" /\ Then(DeleteCall("stateBackup", "commitMarkers", "opened"))
CommitMarkers == pc = "commitMarkers" /\ Then(ClearMarkers("opened", "opened"))

Replacement == Begin \/ MoveAside \/ Abandon \/ Commit \/ CommitBackup \/ CommitState
               \/ CommitMarkers

-----------------------------------------------------------------------------
(***************************************************************************)
(* TrackerApplicationSession::LoadProject.                                 *)
(***************************************************************************)
LoadProject(name, create, retry) ==
    /\ load' = [name |-> name, create |-> create, retry |-> retry]
    /\ begun' = FALSE /\ Goto("preflight")

\* A missing or corrupt selection is refused before the live model is reset; an
\* untitled project without a project file is created in place.
Preflight ==
    LET missing == load.name = Untitled /\ ~Validates("staging")
        createsNew == load.create /\ load.name = Untitled
    IN /\ pc = "preflight"
       /\ \/ createsNew /\ Goto("recover") /\ back' = Call("recover", "begin", "rejectedLoad")
          \/ ~createsNew /\ missing /\ Goto("create") /\ back' = back
          \/ ~createsNew /\ ~missing /\ Goto("restore") /\ back' = back
          \/ ~calm /\ Goto("rejectedLoad") /\ back' = back
       /\ UNCHANGED <<file, args, answer, load, begun, had, prior, stage, session, kept>>

Fresh == Generation \ {file["staging"], file["stagingBackup"], kept}

\* CreateProject: the directories, then the manual save.
Create ==
    /\ pc = "create"
    /\ \/ ~Exists("staging") /\ file' = [file EXCEPT !["staging"] = Husk] /\ pc' = pc
       \/ /\ file["staging"] = Husk
          /\ \E g \in Fresh : file' = [file EXCEPT !["staging"] = g]
          /\ Goto("restore") \/ (~calm /\ Goto("failLoad"))
       \/ ~calm /\ file' = file /\ Goto("failLoad")
    /\ UNCHANGED <<locals, session, kept>>

\* The sample pool and the semantic restore of the manual save or its backup.
Restore ==
    /\ pc = "restore"
    /\ \/ Goto("commitMarker")
       \/ ~calm /\ Goto("failLoad")
       \/ ~calm /\ Goto("rejected")
    /\ UNCHANGED <<file, locals, session, kept>>

\* A rejected COMMITTED replacement gives way to the previous directory.
Rejected ==
    /\ pc = "rejected"
    /\ IF load.name = Untitled /\ Has("commit")
       THEN Goto("rollbackCommitted") /\ back' = Call("rollback", "rolledBack", "failLoad")
       ELSE Goto("tryPrevious") /\ back' = back
    /\ UNCHANGED <<file, args, answer, load, begun, had, prior, stage, session, kept>>
RolledBack ==
    /\ pc = "rolledBack"
    /\ IF session = None /\ load.retry /\ prior # None
       THEN LoadProject(prior, FALSE, FALSE)
       ELSE Goto("tryPrevious") /\ UNCHANGED <<load, begun>>
    /\ UNCHANGED <<file, args, answer, had, prior, back, stage, session, kept>>
TryPrevious ==
    LET previous == file["stateBackup"]
    IN /\ pc = "tryPrevious"
       /\ \/ /\ session = None /\ load.retry /\ previous \in Loadable
             /\ LoadProject(previous, FALSE, FALSE)
          \/ /\ ~(session = None /\ load.retry /\ previous \in Loadable) \/ ~calm
             /\ Goto("failLoad") /\ UNCHANGED <<load, begun>>
       /\ UNCHANGED <<file, args, answer, had, prior, back, stage, session, kept>>

\* failAndRollback; a durable COMMITTED is never rolled back here.
FailLoad ==
    /\ pc = "failLoad" /\ begun' = FALSE
    /\ IF begun /\ ~Has("commit")
       THEN Goto("recover") /\ back' = Call("recover", "restoreSession", "restoreSession")
       ELSE Goto("restoreSession") /\ back' = back
    /\ UNCHANGED <<file, args, answer, load, had, prior, stage, session, kept>>
RestoreSession ==
    /\ pc = "restoreSession"
    /\ \/ session = None /\ Decide("rejectedLoad")
       \/ session # None /\ SaveProjectState(session, FALSE, None, "rejectedLoad", "rejectedLoad")
       \/ /\ session # None /\ ~calm /\ session' = None /\ Goto("rejectedLoad")
          /\ UNCHANGED <<file, locals, kept>>

\* The marker is the commit point of the load.
CommitMarker ==
    /\ pc = "commitMarker"
    /\ SaveProjectState(load.name, begun, IF begun THEN session ELSE None,
                        "commitTransaction", "failLoad")
\* Seeded fault: the backup is deleted without a durable COMMITTED.
CommitUnrecorded ==
    /\ pc = "commitTransaction" /\ Goto(IF begun THEN "commitBackup" ELSE "opened")
    /\ UNCHANGED <<file, locals, session, kept>>
CommitTransaction ==
    /\ pc = "commitTransaction"
    /\ had' = IF begun THEN had ELSE IF Has("pending") THEN file["pending"].had
              ELSE Exists("stagingBackup")
    /\ \/ Goto(IF begun \/ (load.name = Untitled /\ Has("commit")) THEN "commit" ELSE "opened")
       \/ ~begun /\ ~calm /\ Goto("opened")
    /\ UNCHANGED <<file, args, answer, load, begun, prior, back, stage, session, kept>>

Load == Preflight \/ Create \/ Restore \/ Rejected \/ RolledBack \/ TryPrevious \/ FailLoad
        \/ RestoreSession \/ CommitMarker \/ CommitTransaction

-----------------------------------------------------------------------------
(***************************************************************************)
(* Boot and the operations of the user.                                    *)
(***************************************************************************)
Paths == {"current", "stateTemp", "stateBackup", "pending", "commit", "purge",
          "staging", "stagingBackup"}
NoArgs == [name |-> Untitled, retain |-> FALSE, prev |-> None]
NoLoad == [name |-> Untitled, create |-> FALSE, retry |-> FALSE]
NoBack == [proc \in {"marker", "recover", "rollback"} |-> <<"off", "off">>]

\* The procedures' locals are gone.
Park ==
    /\ args' = NoArgs /\ answer' = Untitled /\ load' = NoLoad
    /\ begun' = FALSE /\ had' = FALSE /\ prior' = None /\ back' = NoBack /\ stage' = "user"

Init ==
    /\ file = [p \in Paths |-> None]
    /\ pc = "off" /\ calm = TRUE
    /\ args = NoArgs /\ answer = Untitled /\ load = NoLoad
    /\ begun = FALSE /\ had = FALSE /\ prior = None /\ back = NoBack /\ stage = "user"
    /\ session = None /\ kept = None /\ tainted = FALSE /\ due = {Untitled}

\* PrepareProjectBoot(forceUntitled) purges before the ordinary recovery.
Boot ==
    /\ pc = "off" /\ calm' \in BOOLEAN /\ stage' = "first"
    /\ \/ Goto("recover") /\ back' = Call("recover", "loadState", "loadFailed")
       \/ Goto("dropMarker") /\ back' = Call("recover", "purged", "purged")
    /\ due' = IF calm' /\ pc' = "recover" THEN due ELSE Name
    /\ UNCHANGED <<file, args, answer, load, begun, had, prior, session, kept>>
DropMarker == pc = "dropMarker" /\ Then(DeleteCall("current", "purge", "purge"))
Purged ==
    /\ pc = "purged" /\ Goto("recover")
    /\ back' = Call("recover", "loadState", "loadFailed")
    /\ UNCHANGED <<file, args, answer, load, begun, had, prior, stage, session, kept>>

\* Without a selection the boot creates the untitled project.
Selected ==
    /\ pc \in {"loaded", "loadFailed"}
    /\ answer' = IF pc = "loaded" THEN answer ELSE Untitled
    /\ LoadProject(answer', pc = "loadFailed", TRUE)
    /\ UNCHANGED <<file, args, had, prior, back, stage, session, kept>>

\* A failed boot load falls back to a new untitled project once.
RejectedLoad ==
    /\ pc = "rejectedLoad"
    /\ IF stage = "first" /\ answer # Untitled
       THEN stage' = "last" /\ LoadProject(Untitled, TRUE, TRUE) /\ UNCHANGED <<answer, args, had, prior, back>>
       ELSE Goto(IF stage = "user" THEN "failed" ELSE "dead") /\ UNCHANGED locals
    /\ UNCHANGED <<file, session, kept>>

Opened ==
    /\ pc = "opened" /\ Goto("done") /\ session' = load.name
    /\ kept' = IF load.name = Untitled /\ Whole("staging") /\ (Has("pending") => Has("commit"))
               THEN file["staging"] ELSE kept
    /\ UNCHANGED <<file, locals>>

NewProject ==
    /\ pc = "idle" /\ calm' \in BOOLEAN
    /\ LoadProject(Untitled, TRUE, TRUE)
    /\ UNCHANGED <<file, args, answer, had, prior, back, stage, session, kept, due>>
OpenProject ==
    /\ pc = "idle" /\ calm' \in BOOLEAN
    /\ \E n \in Named : LoadProject(n, FALSE, TRUE) /\ due' = due \cup {n}
    /\ UNCHANGED <<file, args, answer, had, prior, back, stage, session, kept>>

Finish ==
    /\ pc \in {"done", "failed"} /\ Goto("idle") /\ Park
    /\ due' = IF pc = "done" THEN {session} ELSE due
    /\ UNCHANGED <<file, calm, session, kept>>
Crash ==
    /\ pc # "off" /\ Goto("off") /\ Park /\ session' = None
    /\ UNCHANGED <<file, calm, kept, due>>

\* A new project counts once it is committed.  Another one may be opened in the
\* place of the one asked for, and a rollback of a rejected replacement returns
\* to the one before it.
Procedures ==
    /\ \/ MarkerStep \/ MarkerReturns \/ RecoverStaging \/ Purge \/ Rollback \/ Replacement
       \/ Load \/ DropMarker \/ Purged \/ Selected \/ RejectedLoad \/ Opened
    /\ due' = due \cup (IF stage = "user" /\ ~load'.create THEN {load'.name} ELSE {})
                   \cup (IF file'["commit"] # None THEN {Untitled} ELSE {})
                   \cup (IF pc # "rollbackCommitted" \/ pc' = RollbackNo THEN {}
                         ELSE IF prior' = None THEN Name ELSE {prior'})
    /\ UNCHANGED calm

-----------------------------------------------------------------------------
(***************************************************************************)
(* Where the phase markers stop describing the directories.  The recovery  *)
(* reads them all the same, and can then commit, roll back or reject what  *)
(* it should not; the properties claim nothing once that has happened.     *)
(***************************************************************************)
\* ClearStagingTransactionMarkers_ ends between PENDING and COMMITTED.
CommitOrphaned ==
    /\ file'["commit"] # None /\ file'["pending"] = None
    /\ pc' \notin {"clearMarkers", "commitMarkers", "rollbackMarkers", "purgeMarkers"}
\* A failed load leaves a rollback to be done and the session goes on.
RollbackLeftBehind ==
    pc' = "idle" /\ file'["pending"] # None /\ ~(file'["commit"] # None /\ Validates("staging")')
\* A replacement is rejected after Commit has begun to delete what it replaced.
NothingToRollBackTo ==
    pc = "rollbackCommitted" /\ pc' # RollbackNo /\ had' /\ ~Whole("stagingBackup")
\* The deletion of a rejected replacement stops while its project file is there.
HalfRolledBack == pc = "rollbackDrop" /\ pc' # pc /\ file'["staging"] = Gutted
\* A failed operation could not put the project in use or its marker back, or a
\* replacement begins over the marker of another project.
PointerElsewhere ==
    \/ pc' = "idle" /\ (session = None \/ file'["current"] # session)
    \/ pc = "begin" /\ session \notin {None, file["current"]}

Derails == CommitOrphaned \/ RollbackLeftBehind \/ NothingToRollBackTo \/ HalfRolledBack
           \/ PointerElsewhere

Next ==
    /\ Procedures \/ Boot \/ NewProject \/ OpenProject \/ Finish \/ Crash
    /\ tainted' = (tainted \/ Derails)

Spec == Init /\ [][Next]_vars

-----------------------------------------------------------------------------
\* The untitled project the user works on stays whole, in place or in the backup,
\* until another one is committed in its place or it is purged: wherever power is
\* lost and whatever is refused in Begin, Commit, recovery and both rollbacks.
UntitledSurvives ==
    ~tainted /\ kept # None => kept \in {file["staging"], file["stagingBackup"]}

\* A boot that meets no fault but a power loss opens the project in use, or one
\* the interrupted operation was opening: the marker and the untitled directory
\* go back together (RecoverStagingProjectReplacement_, LoadCurrentProjectName).
BootRestores == calm /\ stage = "first" /\ pc = "done" => session \in due \/ tainted

\* A boot that meets no fault comes up, whatever the boots and operations before
\* it left (Ui2TrackerApplication gives up after one retry with a new project).
AlwaysBoots == pc = "dead" /\ calm => tainted

\* While PURGE is durable no untitled contents come back, and it goes last
\* (CompleteStagingProjectPurge_).
PurgeIsFinal ==
    [][Has("purge") =>
          /\ \A p \in {"staging", "stagingBackup"} : file'[p] \in {file[p], Gutted, Husk, None}
          /\ file'["purge"] = None => {file["staging"], file["stagingBackup"]} = {None}]_vars

=============================================================================
