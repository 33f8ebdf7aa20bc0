-------------------------- MODULE SaveAsTransaction --------------------------
(***************************************************************************)
(* Save As: the copy is built in a stage directory, the directory that had *)
(* the name is set aside as a backup, the stage is renamed into its place  *)
(* and the backup deleted (PersistencyService::SaveAsProject_).  Recovery  *)
(* (RecoverSaveAsTransactions_) runs at the boot and at the start of the   *)
(* next Save As, for every name that left a stage or a backup behind.      *)
(* The user may delete a project in between.                               *)
(*                                                                         *)
(* Every call may be refused, or fail although it took effect, and power   *)
(* may go between any two of them, unless the operation is calm.  The      *)
(* directory listing is shorter than MAX_FILE_INDEX_SIZE.                  *)
(***************************************************************************)
EXTENDS ProjectDirectories

CONSTANT Target   \* project names

VARIABLES
    target,     \* the name the running operation, or its recovery pass, is about
    saving,     \* the name SaveAs was called with, None if none is running
    existed,    \* targetExisted
    after,      \* the label after the stage is dropped or discarded
    kept,       \* ghost: by name, the directory its user must find there
    tainted     \* ghost: names whose promise the code is known not to keep

locals == <<target, saving, existed, after>>
ghosts == <<kept, tainted>>
vars == <<file, calm, pc, locals, ghosts>>

Stage(t) == <<"stage", t>>
Backup(t) == <<"backup", t>>
Home(t) == <<"home", t>>
Path == {"stage", "backup", "home"} \X Target

\* The locals between two operations.
Rest(t, s, e, a) == t = None /\ s = None /\ e = FALSE /\ a = "idle"
Forget == Rest(target', saving', existed', after')

Init ==
    /\ file = [p \in Path |-> None]
    /\ calm = TRUE /\ pc = "idle"
    /\ Rest(target, saving, existed, after)
    /\ kept = [t \in Target |-> None] /\ tainted = {}

\* An existing directory is never renamed over: the file systems refuse it.
MoveDirectory(p, q, yes, no) ==
    \/ ~Exists(q) /\ MoveCall(p, q, yes, no)
    \/ Exists(q) /\ file' = file /\ Goto(no)

\* Deletes the directory if it is there; on a refusal it goes on at "no".
DropDirectory(p, yes, no) ==
    \/ ~Exists(p) /\ file' = file /\ Goto(yes)
    \/ DeleteProject(p, yes, no)

-----------------------------------------------------------------------------
(* RecoverSaveAsTransactions_: one name per pass of the loop. *)

\* Where recovery returns to: the boot, or the SaveAs that ran it first.
Ended(yes) ==
    IF saving = None THEN IF yes THEN "ready" ELSE "bootFailed"
    ELSE IF yes THEN "recovered" ELSE "failed"

\* Seeded fault: a name with only a backup is not seen.
InJournalByStage(t) == Exists(Stage(t))

InJournal(t) == Exists(Stage(t)) \/ Exists(Backup(t))

\* What to do about a name, depending on whether its directory validates.
Judgement(t, valid) ==
    IF ~Exists(Backup(t)) THEN "dropLoneStage"
    ELSE IF ~Exists(Home(t)) THEN "restore"
    ELSE IF valid THEN "dropBackup" ELSE "dropHome"

\* A directory that is read wrongly is one that does not validate.
Scan ==
    /\ pc = "scan"
    /\ \/ ~calm /\ Goto(Ended(FALSE)) /\ UNCHANGED <<file, locals, ghosts>>
       \/ /\ \A t \in Target : ~InJournal(t)
          /\ Goto(Ended(TRUE)) /\ UNCHANGED <<file, locals, ghosts>>
       \/ \E t \in Target, misread \in BOOLEAN :
             /\ InJournal(t) /\ (misread => ~calm)
             /\ target' = t
             /\ after' = Judgement(t, Validates(Home(t)) /\ ~misread)
             /\ Goto(IF Exists(Backup(t)) THEN "dropStage" ELSE after')
             /\ UNCHANGED <<file, saving, existed, ghosts>>

\* A stage that cannot be deleted is left to a later pass.
DropStage ==
    /\ pc = "dropStage" /\ DropDirectory(Stage(target), after, after)
    /\ UNCHANGED <<locals, ghosts>>

\* Seeded fault: a cleanup that is refused is retried in the next pass.
DropBackupForEver ==
    /\ pc = "dropBackup" /\ DropDirectory(Backup(target), "scan", "scan")
    /\ UNCHANGED <<locals, ghosts>>

\* A refused cleanup does not block the boot; it ends all the passes, though.
DropBackup ==
    /\ pc = "dropBackup" /\ DropDirectory(Backup(target), "scan", Ended(TRUE))
    /\ UNCHANGED <<locals, ghosts>>

\* The directory does not validate: its name goes back to the backup.  That is
\* the loss of a good directory if it was misread, and of both if the backup is
\* no longer whole, or if the deletion stops while the directory validates.
DropHome ==
    LET t == target IN
    /\ pc = "dropHome" /\ DropDirectory(Home(t), "restore", Ended(FALSE))
    /\ LET begun == Whole(Home(t)) /\ file' # file
           stopped == file[Home(t)] = Gutted /\ file' = file
       IN /\ kept' = IF begun /\ Whole(Backup(t))
                     THEN [kept EXCEPT ![t] = file[Backup(t)]] ELSE kept
          /\ tainted' = IF stopped \/ (begun /\ ~Whole(Backup(t)))
                        THEN tainted \cup {t} ELSE tainted
    /\ UNCHANGED locals

Restore ==
    /\ pc = "restore"
    /\ MoveDirectory(Backup(target), Home(target), "scan", Ended(FALSE))
    /\ UNCHANGED <<locals, ghosts>>

\* Seeded fault: a stage that has no backup is installed.
PromoteLoneStage ==
    /\ pc = "dropLoneStage"
    /\ MoveDirectory(Stage(target), Home(target), "scan", Ended(TRUE))
    /\ UNCHANGED <<locals, ghosts>>

DropLoneStage ==
    /\ pc = "dropLoneStage" /\ DropDirectory(Stage(target), "scan", Ended(TRUE))
    /\ UNCHANGED <<locals, ghosts>>

RecoveryStep ==
    Scan \/ DropStage \/ DropBackup \/ DropHome \/ Restore \/ DropLoneStage

-----------------------------------------------------------------------------
(* SaveAsProject_. *)

SaveAs(t) ==
    /\ pc = "idle" /\ Goto("scan") /\ calm' \in BOOLEAN
    /\ saving' = t
    /\ UNCHANGED <<file, target, existed, after, ghosts>>

\* The journal of the name must be gone; then CreateProjectDirs_.
Create ==
    LET t == saving
    IN /\ pc = "recovered"
       /\ target' = t /\ after' = "failed"
       /\ \/ InJournal(t) /\ file' = file /\ Goto("failed")
          \/ /\ ~InJournal(t)
             /\ \/ file' = [file EXCEPT ![Stage(t)] = Husk] /\ Goto("fill")
                \/ ~calm /\ file' = [file EXCEPT ![Stage(t)] = Husk] /\ Goto("discard")
                \/ ~calm /\ file' = file /\ Goto("discard")
       /\ UNCHANGED <<saving, existed, ghosts>>

\* CopyProjectSamples_, SaveProjectFile_ and ValidateProjectFile_; the song and its
\* samples differ from what the name stands for.
Fill ==
    /\ pc = "fill"
    /\ \E contents \in Generation \ {kept[target], file[Home(target)]} :
          \/ /\ file' = [file EXCEPT ![Stage(target)] = contents]
             /\ Goto("displace")
          \/ \E rest \in {Husk, contents} :
                /\ ~calm /\ file' = [file EXCEPT ![Stage(target)] = rest]
                /\ Goto("discard")
    /\ UNCHANGED <<locals, ghosts>>

\* Seeded fault: the directory in the way is deleted, not set aside.
DisplaceByDeletion ==
    /\ pc = "displace"
    /\ existed' = Exists(Home(target))
    /\ DropDirectory(Home(target), "install", "discard")
    /\ UNCHANGED <<target, saving, after, ghosts>>

Displace ==
    /\ pc = "displace"
    /\ existed' = Exists(Home(target))
    /\ \/ ~Exists(Home(target)) /\ file' = file /\ Goto("install")
       \/ /\ Exists(Home(target))
          /\ MoveDirectory(Home(target), Backup(target), "install", "discard")
    /\ UNCHANGED <<target, saving, after, ghosts>>

\* From the moment the rename takes effect the new contents are the project's.
Install ==
    /\ pc = "install"
    /\ MoveDirectory(Stage(target), Home(target), "cleanup", "discard")
    /\ after' = IF existed THEN "putBack" ELSE "failed"
    /\ IF file' # file
       THEN /\ kept' = [kept EXCEPT ![target] = file[Stage(target)]]
            /\ tainted' = tainted \ {target}
       ELSE UNCHANGED ghosts
    /\ UNCHANGED <<target, saving, existed>>

\* discardStage, which only logs a failure.
Discard ==
    /\ pc = "discard" /\ DropDirectory(Stage(target), after, after)
    /\ UNCHANGED <<locals, ghosts>>

PutBack ==
    /\ pc = "putBack"
    /\ MoveDirectory(Backup(target), Home(target), "failed", "failed")
    /\ UNCHANGED <<locals, ghosts>>

\* The new project stays even if the old one cannot be deleted.
Cleanup ==
    /\ pc = "cleanup"
    /\ \/ ~existed /\ file' = file /\ Goto("saved")
       \/ existed /\ DropDirectory(Backup(target), "saved", "failed")
    /\ UNCHANGED <<locals, ghosts>>

Return ==
    /\ pc \in {"saved", "failed"} /\ Goto("idle")
    /\ Forget
    /\ UNCHANGED <<file, ghosts>>

SaveStep ==
    \/ Create \/ Fill \/ Displace \/ Install
    \/ Discard \/ PutBack \/ Cleanup \/ Return

-----------------------------------------------------------------------------
(* The user deletes a project (TrackerApplicationSession::DeleteProject); a *)
(* backup that a deferred cleanup left behind will come back in its place.  *)

DeleteProjectOf(t) ==
    /\ pc = "idle" /\ Exists(Home(t)) /\ Goto("deleting") /\ calm' \in BOOLEAN
    /\ target' = t
    /\ UNCHANGED <<file, saving, existed, after, ghosts>>

Deleting ==
    /\ pc = "deleting" /\ DropDirectory(Home(target), "idle", "idle")
    /\ IF file' # file
       THEN /\ kept' = [kept EXCEPT ![target] = None]
            /\ tainted' = IF Exists(Backup(target)) THEN tainted \cup {target} ELSE tainted
       ELSE UNCHANGED ghosts
    /\ IF pc' = "idle" THEN Forget ELSE UNCHANGED locals

-----------------------------------------------------------------------------
(* Power loss and boot. *)

PowerLoss ==
    /\ pc # "off" /\ Goto("off") /\ Forget
    /\ tainted' = IF pc = "dropHome" /\ file[Home(target)] = Gutted
                  THEN tainted \cup {target} ELSE tainted
    /\ UNCHANGED <<file, calm, kept>>

Boot ==
    /\ pc = "off" /\ Goto("scan") /\ calm' \in BOOLEAN
    /\ UNCHANGED <<file, locals, ghosts>>

\* After a failed recovery the session comes up with a new untitled project, if
\* that can be created.
Booted ==
    /\ \/ pc \in {"ready", "bootFailed"} /\ Goto("idle")
       \/ pc = "bootFailed" /\ Goto("off")
    /\ Forget
    /\ UNCHANGED <<file, calm, ghosts>>

-----------------------------------------------------------------------------
Next ==
    \/ (RecoveryStep \/ SaveStep \/ Deleting) /\ UNCHANGED calm
    \/ \E t \in Target : SaveAs(t) \/ DeleteProjectOf(t)
    \/ PowerLoss \/ Boot \/ Booted

\* The code runs on as long as there is power.
Fairness == WF_vars(RecoveryStep /\ UNCHANGED calm)

Spec == Init /\ [][Next]_vars /\ Fairness

-----------------------------------------------------------------------------
(* Properties. *)

\* The project a name stands for is never gone from the disk: wherever a Save As
\* or its recovery stops, the directory owed is under its name or is the backup.
TargetSurvives ==
    \A t \in Target \ tainted :
        kept[t] # None => kept[t] \in {file[Home(t)], file[Backup(t)]}

\* No complete directory comes to stand under a name except by the rename that
\* commits a Save As: recovery never promotes a stage and never brings back a
\* generation that was replaced.
OnlyCommittedProjectsAppear ==
    \A t \in Target \ tainted : Whole(Home(t)) => file[Home(t)] = kept[t]

\* A boot that meets no fault succeeds, leaves no stage and no backup of any name,
\* and every project is where it belongs, whatever happened before.
BootSettles ==
    calm =>
      /\ pc # "bootFailed"
      /\ pc = "ready" => \A t \in Target :
            /\ ~InJournal(t)
            /\ t \notin tainted /\ kept[t] # None => file[Home(t)] = kept[t]

\* Recovery ends: it makes no more passes over directories that it is refused
\* to clean up.
RecoveryTerminates ==
    pc = "scan" ~> pc \in {"ready", "bootFailed", "recovered", "failed", "off"}
=============================================================================
