--------------------------- MODULE ProjectSaving ---------------------------
(***************************************************************************)
(* When the tracker saves.  Ui2TrackerApplication queues one save at a     *)
(* time, waits until a frame with the saving indicator has been shown, and *)
(* only then calls the session; AutoSaveCoordinator decides from revision  *)
(* numbers whether there is anything to save; project commands (new, load, *)
(* delete, overwrite) run from dialogs in between.  Key presses, frames,   *)
(* ticks, transport starts and power cuts interleave freely.               *)
(*                                                                         *)
(* Storage is the interface TrackerApplicationSession offers: one step per *)
(* call with every result the call can have.  How a call survives a cut in *)
(* its middle is the business of ProjectFileJournal, ProjectMarker and     *)
(* UntitledReplacement.  A project is its manual save and its autosave; a  *)
(* directory with a name the user gave is there while it has a manual save.*)
(***************************************************************************)
EXTENDS Naturals

CONSTANTS
    Untitled,       \* UNNAMED_PROJECT_NAME
    Named,          \* names a user can give a project
    Content,        \* what a project may hold
    Blank,          \* what CreateProject writes
    None,
    MaxRevision     \* bound: edits counted between two project boundaries

ASSUME SavingAssumption ==
    /\ Untitled \notin Named
    /\ Blank \in Content
    /\ None \notin Named \cup Content \cup {Untitled}
    /\ None \notin [base : Content \cup {None}, auto : Content \cup {None}]
    /\ MaxRevision \in Nat \ {0}

VARIABLES
    autoSave,       \* AutoSaveCoordinator's fields
    phase,          \* Ui2PersistenceStatus::phase_
    pending,        \* pendingSave_
    overwrite,      \* pendingSaveOverwrite_
    page,           \* activePage_; "Off" while the application is not up
    dialog,         \* Ui2ProjectLifecycleController: purpose_ and project_
    rename,         \* rename_ on the project name, and deferredSave
    session,        \* TrackerApplicationSession: loaded_, projectName_, model
    savedName,      \* savedProjectName_
    saveAsPending,  \* projects_.saveAsPending
    disk,           \* manual saves, autosaves, the untitled directory set aside
    agreed,         \* history: the project the user last agreed to overwrite
    renamed,        \* history: a rename has come between an agreement and its save
    place           \* history: where the saved copy of the open project is

vars == <<autoSave, phase, pending, overwrite, page, dialog, rename,
          session, savedName, saveAsPending, disk, agreed, renamed, place>>

Name == Named \cup {Untitled}
Stored(p) == disk.base[p] # None
Quiet == dialog.purpose = "None" /\ rename = "Closed"
NoDialog == [purpose |-> "None", project |-> None]
Info == [purpose |-> "Info", project |-> None]

-----------------------------------------------------------------------------
(* AutoSaveCoordinator.  The clock is not modelled: any tick may find that  *)
(* the autosave interval has passed.  Whether the player runs is likewise  *)
(* an input of whatever asks, since transport starts and stops at any      *)
(* time, MIDI included.                                                    *)
ResetProjectState ==
    [revision |-> 0, persisted |-> 0, saving |-> 0,
     busy |-> FALSE, saveAs |-> FALSE, inFlight |-> FALSE]

MarkDirty == [autoSave EXCEPT !.revision = @ + 1]

SetPersistBusy(a, busy) ==
    [a EXCEPT !.busy = busy, !.inFlight = busy /\ @]

\* Seeded fault in OnProjectSaved: the coordinator is not told that the new name is
\* now the saved one.
ForgetsNewName == [ResetProjectState EXCEPT !.saveAs = autoSave.saveAs]

OnProjectSaved == ResetProjectState

Dirty == autoSave.revision # autoSave.persisted

\* Seeded fault in HasUnsavedChanges: an autosave counts as a save.
CountsOnlyUncheckpointed == Dirty

HasUnsavedChanges == autoSave.revision # 0

\* Seeded fault in CompleteAutoSave: a failed write counts; a failed write leaves the
\* coordinator busy.
CompleteFailedToo(succeeded) ==
    IF autoSave.inFlight
    THEN [autoSave EXCEPT !.persisted = autoSave.saving, !.busy = FALSE, !.inFlight = FALSE]
    ELSE autoSave
CompleteOnlySuccess(succeeded) ==
    IF autoSave.inFlight /\ succeeded
    THEN [autoSave EXCEPT !.persisted = autoSave.saving, !.busy = FALSE, !.inFlight = FALSE]
    ELSE autoSave

CompleteAutoSave(succeeded) ==
    IF autoSave.inFlight
    THEN [autoSave EXCEPT !.persisted = IF succeeded THEN autoSave.saving ELSE @,
                          !.busy = FALSE, !.inFlight = FALSE]
    ELSE autoSave

AutosaveSafePage == page = "Song" /\ rename = "Closed"

MayAutoSave(running) ==
    session.loaded /\ ~running /\ AutosaveSafePage /\ dialog.purpose = "None"

-----------------------------------------------------------------------------
(* What the storage calls of the session may do.                           *)
Outcome == {"Saved", "Exists", "Failed"}

Put(d, p, c) == [d EXCEPT !.base[p] = c]
ForgetAuto(d, p) == [d EXCEPT !.auto[p] = None]

(* SaveProject on the project's own files: the manual save, then the       *)
(* autosave's removal, then the current-project marker.  Each later part   *)
(* may fail after the earlier ones took effect.                            *)
SavePlainly(result, after) ==
    LET wrote == Put(disk, session.name, session.model)
        tidy  == ForgetAuto(wrote, session.name) IN
    \/ result = "Saved"  /\ after = tidy
    \/ result = "Failed" /\ after \in {disk, wrote, tidy}

\* A directory .untitled may be there without a manual save.
MayBeThere(p) == Stored(p) \/ p = Untitled

(* Save As builds a whole new directory and swaps it in.  It copies the    *)
(* samples of the saved project, so that directory has to exist.           *)
SaveUnderNewName(result, after) ==
    LET swapped == ForgetAuto(Put(disk, session.name, session.model), session.name) IN
    \/ /\ MayBeThere(savedName) /\ session.name # Untitled
       /\ result \in {"Saved", "Failed"} /\ after = swapped
    \/ result = "Failed" /\ after = disk

\* Seeded fault in SaveProject: Save As does not look whether the name is taken.
SaveWithoutLooking(saveAs, mayOverwrite, result, after) ==
    IF ~session.loaded THEN result = "Failed" /\ after = disk
    ELSE IF saveAs THEN SaveUnderNewName(result, after)
    ELSE SavePlainly(result, after)

SaveProject(saveAs, mayOverwrite, result, after) ==
    IF ~session.loaded THEN result = "Failed" /\ after = disk
    ELSE IF saveAs /\ ~mayOverwrite /\ session.name # Untitled /\ Stored(session.name)
    THEN result = "Exists" /\ after = disk
    ELSE IF saveAs THEN SaveUnderNewName(result, after)
    ELSE SavePlainly(result, after)

SessionAutoSave(succeeded, after) ==
    LET wrote == [disk EXCEPT !.auto[session.name] = session.model] IN
    \/ MayBeThere(session.name) /\ after = wrote
    \/ ~succeeded /\ after = disk

-----------------------------------------------------------------------------
(* Replacing the untitled project.  Its directory is set aside before the  *)
(* new one is made.  Begin, commit and rollback are sequences of file      *)
(* operations of which any may fail, with or without effect, and a refused *)
(* rollback is kept for the next recovery: disk.aside is None when no      *)
(* replacement is on record, and otherwise what is left of the directory   *)
(* set aside.  Which of its markers are durable is UntitledReplacement's   *)
(* business; here recovery may act or not, completely or in part.          *)
NoDirectory == [base |-> None, auto |-> None]
Dir(d, p) == [base |-> d.base[p], auto |-> d.auto[p]]
Remnants(dir) == [base : {dir.base, None}, auto : {dir.auto, None}]
Place(d, dir) == [d EXCEPT !.base[Untitled] = dir.base, !.auto[Untitled] = dir.auto]

\* Seeded fault in SetAside: the old directory is deleted.
ClearAway(d) == Place(d, NoDirectory)

SetAside(d) == [Place(d, NoDirectory) EXCEPT !.aside = Dir(d, Untitled)]

BringBack(d) == [Place(d, d.aside) EXCEPT !.aside = None]

\* RecoverStagingProjectReplacement_ and the rollbacks that call it: nothing, part of
\* the new directory deleted, or the old one back.
Recoveries(d) ==
    {d} \cup IF d.aside = None THEN {}
             ELSE {BringBack(d)} \cup {Place(d, dir) : dir \in Remnants(Dir(d, Untitled))}

\* Begin recovers first, and is refused while a directory is still set aside.
Begun(d) == {SetAside(e) : e \in {f \in Recoveries(d) : f.aside \in {None, NoDirectory}}}

\* The new project, without its manual save at first.
Replacing(d) == {Put(e, Untitled, c) : e \in Begun(d), c \in {None, Blank}}

\* A replacement that has failed, whatever became of its rollback.
GivenUp(d) == UNION {Recoveries(e) : e \in Replacing(d)}

\* The cleanup once the new project is committed, at once or when it is next opened.
Tidied(d) ==
    {d} \cup IF d.aside = None THEN {}
             ELSE {[d EXCEPT !.aside = dir] : dir \in {None} \cup Remnants(d.aside)}

\* PurgeUnnamedProject, which a held key asks the boot for, done or cut off.
Purged(d) == UNION {Tidied(Place(d, dir)) : dir \in Remnants(Dir(d, Untitled))}

\* Opening the untitled project creates it where it has no manual save.
InPlace(d, p) == IF p = Untitled /\ d.base[p] = None THEN Put(d, p, Blank) ELSE d

-----------------------------------------------------------------------------
(* Queueing a save and carrying it out.                                    *)
\* Seeded fault in SaveCurrentProject: the indicator is not started.
QueueWithoutIndicator(a, mayOverwrite) ==
    /\ UNCHANGED phase
    /\ IF pending # "None" THEN autoSave' = a /\ UNCHANGED <<pending, overwrite>>
       ELSE /\ autoSave' = SetPersistBusy(a, TRUE)
            /\ pending' = "Project"
            /\ overwrite' = mayOverwrite

SaveCurrentProject(a, mayOverwrite) ==
    IF pending # "None"
    THEN autoSave' = a /\ UNCHANGED <<pending, overwrite, phase>>
    ELSE /\ autoSave' = SetPersistBusy(a, TRUE)
         /\ pending' = "Project"
         /\ overwrite' = mayOverwrite
         /\ phase' = "AwaitingPresentation"

ExecuteAutoSave ==
    /\ pending = "AutoSave"
    /\ \E running \in BOOLEAN :
        IF MayAutoSave(running)
        THEN \E succeeded \in BOOLEAN :
                /\ SessionAutoSave(succeeded, disk')
                /\ autoSave' = CompleteAutoSave(succeeded)
                /\ dialog' = IF succeeded THEN dialog ELSE Info
        ELSE autoSave' = CompleteAutoSave(FALSE) /\ UNCHANGED <<disk, dialog>>
    /\ UNCHANGED <<savedName, saveAsPending, agreed, renamed, place>>

ExecuteProjectSave ==
    /\ pending = "Project"
    /\ \E result \in Outcome :
        /\ SaveProject(saveAsPending, overwrite, result, disk')
        /\ CASE result = "Exists" ->
                /\ dialog' = [purpose |-> "ConfirmOverwrite", project |-> session.name]
                /\ autoSave' = SetPersistBusy(autoSave, FALSE)
                /\ UNCHANGED <<savedName, saveAsPending, place>>
             [] result = "Failed" ->
                /\ dialog' = Info
                /\ autoSave' = SetPersistBusy(autoSave, FALSE)
                /\ UNCHANGED <<savedName, saveAsPending, place>>
             [] result = "Saved" ->
                /\ savedName' = session.name
                /\ saveAsPending' = FALSE
                /\ autoSave' = OnProjectSaved
                /\ place' = "home"
                /\ UNCHANGED dialog
    /\ agreed' = None
    /\ renamed' = FALSE

ExecutePendingSave ==
    /\ ExecuteAutoSave \/ ExecuteProjectSave
    /\ pending' = "None"
    /\ overwrite' = FALSE

-----------------------------------------------------------------------------
(* The platform's frame loop.                                              *)

\* A frame that shows the indicator has reached the screen.
Present ==
    /\ phase = "AwaitingPresentation"
    /\ phase' = "ReadyToPersist"
    /\ UNCHANGED <<autoSave, pending, overwrite, page, dialog, rename,
                   session, savedName, saveAsPending, disk, agreed, renamed, place>>

\* The indicator stays up for a while after the save; that is display only.
PersistTick ==
    /\ phase = "ReadyToPersist"
    /\ ExecutePendingSave
    /\ phase' = "Idle"
    /\ UNCHANGED <<page, rename, session>>

\* AutoSaveCoordinator::Tick, once the interval has passed.
AutoSaveTick(running) ==
    /\ pending = "None"
    /\ Dirty /\ MayAutoSave(running) /\ ~autoSave.busy /\ ~autoSave.saveAs
    /\ autoSave' = [autoSave EXCEPT !.busy = TRUE, !.inFlight = TRUE,
                                     !.saving = autoSave.revision]
    /\ pending' = "AutoSave"
    /\ phase' = "AwaitingPresentation"
    /\ UNCHANGED <<overwrite, page, dialog, rename, session, savedName,
                   saveAsPending, disk, agreed, renamed, place>>

Tick == page # "Off" /\ (PersistTick \/ \E running \in BOOLEAN : AutoSaveTick(running))

-----------------------------------------------------------------------------
(* What the player and the user do.                                        *)

\* What is in a model without a project is never stored.
Edit ==
    /\ page \in {"Song", "Project"} /\ Quiet
    /\ autoSave.revision < MaxRevision
    /\ session' \in IF session.loaded
                   THEN {[session EXCEPT !.model = c] : c \in Content}
                   ELSE {session}
    /\ autoSave' = MarkDirty
    /\ UNCHANGED <<phase, pending, overwrite, page, dialog, rename,
                   savedName, saveAsPending, disk, agreed, renamed, place>>

\* Seeded fault in Turn: a renamed project does not hold the page.
TurnUnlocked(to) ==
    /\ page # "Off" /\ Quiet
    /\ <<page, to>> \in {<<"Song", "Project">>, <<"Project", "Song">>,
                         <<"Project", "Browser">>, <<"Browser", "Project">>}
    /\ page' = to
    /\ UNCHANGED <<autoSave, phase, pending, overwrite, dialog, rename, session,
                   savedName, saveAsPending, disk, agreed, renamed, place>>

\* TryNavigate and ActivatePage, and the browser opened from the project page.
Turn(to) ==
    /\ page # "Off" /\ Quiet
    /\ <<page, to>> \in {<<"Song", "Project">>, <<"Project", "Song">>,
                         <<"Project", "Browser">>, <<"Browser", "Project">>}
    /\ IF page = "Project" /\ saveAsPending
       THEN dialog' = Info /\ UNCHANGED page
       ELSE page' = to /\ UNCHANGED dialog
    /\ UNCHANGED <<autoSave, phase, pending, overwrite, rename, session,
                   savedName, saveAsPending, disk, agreed, renamed, place>>

\* The untitled project has to be named before it can be saved.
PressSave ==
    /\ page = "Project" /\ Quiet
    /\ IF session.name = Untitled
       THEN rename' = "ThenSave" /\ UNCHANGED <<autoSave, pending, overwrite, phase>>
       ELSE SaveCurrentProject(autoSave, FALSE) /\ UNCHANGED rename
    /\ UNCHANGED <<page, dialog, session, savedName, saveAsPending,
                   disk, agreed, renamed, place>>

PressRename ==
    /\ page = "Project" /\ Quiet
    /\ rename' = "Open"
    /\ UNCHANGED <<autoSave, phase, pending, overwrite, page, dialog,
                   session, savedName, saveAsPending, disk, agreed, renamed, place>>

CancelRename ==
    /\ rename # "Closed" /\ dialog.purpose = "None"
    /\ rename' = "Closed"
    /\ UNCHANGED <<autoSave, phase, pending, overwrite, page, dialog,
                   session, savedName, saveAsPending, disk, agreed, renamed, place>>

FinishRename(n) ==
    /\ rename # "Closed" /\ dialog.purpose = "None"
    /\ autoSave.revision < MaxRevision
    /\ rename' = "Closed"
    /\ session' = [session EXCEPT !.name = n]
    /\ saveAsPending' = (savedName # n)
    /\ LET marked == [MarkDirty EXCEPT !.saveAs = (savedName # n)] IN
       IF rename = "ThenSave" THEN SaveCurrentProject(marked, FALSE)
       ELSE autoSave' = marked /\ UNCHANGED <<pending, overwrite, phase>>
    /\ renamed' = (renamed \/ overwrite)
    /\ UNCHANGED <<page, dialog, savedName, disk, agreed, place>>

-----------------------------------------------------------------------------
(* Project commands.                                                       *)

\* The new session as every controller sees it after the boundary.
Entered(p, c) ==
    /\ session' = [loaded |-> TRUE, name |-> p, model |-> c]
    /\ savedName' = p
    /\ saveAsPending' = FALSE
    /\ autoSave' = ResetProjectState
    /\ page' = "Song"
    /\ dialog' = NoDialog
    /\ rename' = "Closed"
    /\ renamed' = FALSE
    /\ place' = "home"

\* History: what the application counts as saved when a switch has failed.  A failed
\* New may leave the open untitled project's directory aside; where it acts on an
\* earlier replacement's leftovers, or where the session was lost, nothing is claimed.
Whereabouts ==
    place' = IF ~session.loaded \/ ~session'.loaded THEN "nowhere"
             ELSE IF savedName # Untitled \/ disk' = disk THEN place
             ELSE IF place = "home" /\ disk'.aside = Dir(disk, Untitled) THEN "aside"
             ELSE "nowhere"

Unentered ==
    /\ autoSave' = SetPersistBusy(autoSave, FALSE)
    /\ dialog' = Info
    /\ Whereabouts
    /\ UNCHANGED <<page, rename, savedName, saveAsPending>>

\* Refused before the live model is touched: the project does not validate,
\* the rollback file cannot be written or the replacement cannot begin.  The
\* rollback file itself is left out: only the call that wrote it reads it.
SwitchRefused(create) ==
    /\ disk' \in IF create THEN Recoveries(disk) \cup Begun(disk) ELSE {disk}
    /\ UNCHANGED <<session, renamed>>
    /\ Unentered

\* The disks with which a switch comes to have project q ready to be opened.  A
\* session that has lost its project falls back to an earlier one when the one it was
\* asked for cannot be restored.
Reached(q, p, create) ==
    LET asked    == IF create THEN Replacing(disk) ELSE {disk}
        undone   == IF create THEN GivenUp(disk) ELSE Recoveries(disk)
        fallback == {InPlace(d, q) : d \in undone} IN
    {d \in (IF q = p THEN asked ELSE {}) \cup (IF session.loaded THEN {} ELSE fallback) :
        d.base[q] # None}

SwitchOpens(p, create) ==
    \E q \in Name : \E d \in Reached(q, p, create) :
        /\ \E e \in IF q = Untitled THEN Tidied(d) ELSE {d} :
              disk' \in {e, IF session.loaded THEN ForgetAuto(e, session.name) ELSE e}
        /\ Entered(q, d.base[q])

\* The live model is already gone: the rollback file has to bring it back.  It does so
\* whether or not the directories could be rolled back.
SwitchRollsBack(p, create) ==
    /\ session.loaded
    /\ disk' \in IF create THEN GivenUp(disk) ELSE {disk}
    /\ \/ MayBeThere(session.name) /\ UNCHANGED session
       \/ session' = [session EXCEPT !.loaded = FALSE, !.model = Blank]
    /\ Unentered
    /\ UNCHANGED renamed

\* Without a live model nothing is brought back; if only the marker or the commit
\* failed, the session stays over the project whose opening is reported as failed.
SwitchFails(p, create) ==
    /\ ~session.loaded
    /\ \E q \in Name :
        \/ /\ disk' \in IF create THEN GivenUp(disk) ELSE Recoveries(disk)
           /\ session' = [session EXCEPT !.name = q, !.model = Blank]
        \/ \E d \in Reached(q, p, create) :
              /\ disk' \in IF create /\ q = Untitled THEN Recoveries(d) ELSE {d}
              /\ session' = [loaded |-> TRUE, name |-> q, model |-> d.base[q]]
    /\ Unentered
    /\ UNCHANGED renamed

Switch(p, create) ==
    /\ \/ SwitchRefused(create) \/ SwitchOpens(p, create)
       \/ SwitchRollsBack(p, create) \/ SwitchFails(p, create)
    /\ UNCHANGED <<phase, pending, overwrite, agreed>>

Ask(purpose, p) ==
    /\ dialog' = [purpose |-> purpose, project |-> p]
    /\ UNCHANGED <<autoSave, phase, pending, overwrite, page, rename,
                   session, savedName, saveAsPending, disk, agreed, renamed, place>>

RequestNew ==
    /\ page = "Project" /\ Quiet
    /\ \/ Ask("Info", None)     \* the player runs
       \/ IF HasUnsavedChanges THEN Ask("ConfirmNew", None) ELSE Switch(Untitled, TRUE)

RequestLoad(p) ==
    /\ page = "Browser" /\ Quiet /\ Stored(p)
    /\ \/ Ask("Info", None)     \* the player runs
       \/ IF HasUnsavedChanges THEN Ask("ConfirmLoad", p) ELSE Switch(p, FALSE)

RequestDelete(p) ==
    /\ page = "Browser" /\ Quiet /\ Stored(p)
    /\ \/ Ask("Info", None)     \* the player runs, or p is the open project
       \/ p # session.name /\ Ask("ConfirmDelete", p)

\* A delete that fails may already have emptied part of the directory.
DeleteProject(p) ==
    /\ LET bare == Put(disk, p, None)
           gone == ForgetAuto(bare, p) IN
       \/ p # session.name /\ disk' = gone /\ dialog' = NoDialog
       \/ p # session.name /\ disk' \in {bare, gone} /\ dialog' = Info
       \/ disk' = disk /\ dialog' = Info
    /\ autoSave' = SetPersistBusy(autoSave, FALSE)
    /\ UNCHANGED <<phase, pending, overwrite, page, rename, session,
                   savedName, saveAsPending, agreed, renamed, place>>

OverwriteProject(p) ==
    /\ SaveCurrentProject(autoSave, TRUE)
    /\ agreed' = IF pending = "None" THEN p ELSE agreed
    /\ dialog' = NoDialog
    /\ UNCHANGED <<page, rename, session, savedName, saveAsPending,
                   disk, renamed, place>>

Dismiss == dialog.purpose # "None" /\ Ask("None", None)

Confirm ==
    \/ dialog.purpose = "ConfirmNew" /\ Switch(Untitled, TRUE)
    \/ dialog.purpose = "ConfirmLoad" /\ Switch(dialog.project, FALSE)
    \/ dialog.purpose = "ConfirmDelete" /\ DeleteProject(dialog.project)
    \/ dialog.purpose = "ConfirmOverwrite" /\ OverwriteProject(dialog.project)

-----------------------------------------------------------------------------
(* Power.                                                                  *)

\* Nothing but the disk outlives the process.
Off ==
    /\ page' = "Off"
    /\ autoSave' = ResetProjectState
    /\ phase' = "Idle" /\ pending' = "None" /\ overwrite' = FALSE
    /\ dialog' = NoDialog /\ rename' = "Closed"
    /\ session' = [loaded |-> FALSE, name |-> Untitled, model |-> Blank]
    /\ savedName' = Untitled /\ saveAsPending' = FALSE
    /\ agreed' = None /\ renamed' = FALSE /\ place' = "nowhere"

\* The last chance: a queued save is carried out without waiting for a frame.
Shutdown ==
    /\ page # "Off"
    /\ \/ pending # "Project" /\ UNCHANGED disk
       \/ /\ pending = "AutoSave" /\ MayAutoSave(FALSE)
          /\ \E succeeded \in BOOLEAN : SessionAutoSave(succeeded, disk')
       \/ /\ pending = "Project"
          /\ \E result \in Outcome : SaveProject(saveAsPending, overwrite, result, disk')
    /\ Off

PowerCut == page # "Off" /\ Off /\ UNCHANGED disk

\* Recovery comes first, and before it the purge if the user asks for it.  Which
\* project the markers lead to is ProjectMarker's business; if none can be opened, a
\* new one is made, and if that fails the application does not come up.  A boot that
\* purges and comes up is one that failed after the purge and another one.
Boot ==
    /\ page = "Off"
    /\ UNCHANGED <<phase, pending, overwrite, agreed>>
    /\ \/ SwitchOpens(Untitled, FALSE) \/ SwitchOpens(Untitled, TRUE)
       \/ /\ disk' \in GivenUp(disk) \cup {InPlace(d, Untitled) : d \in Recoveries(disk)}
                       \cup Purged(disk)
          /\ UNCHANGED <<autoSave, page, dialog, rename, session, savedName,
                         saveAsPending, renamed, place>>

-----------------------------------------------------------------------------
Init ==
    /\ autoSave = ResetProjectState
    /\ phase = "Idle" /\ pending = "None" /\ overwrite = FALSE
    /\ page = "Off" /\ dialog = NoDialog /\ rename = "Closed"
    /\ session = [loaded |-> FALSE, name |-> Untitled, model |-> Blank]
    /\ savedName = Untitled /\ saveAsPending = FALSE
    /\ disk = [base |-> [p \in Name |-> None], auto |-> [p \in Name |-> None],
               aside |-> None]
    /\ agreed = None /\ renamed = FALSE /\ place = "nowhere"

Next ==
    \/ Present \/ Tick \/ Edit
    \/ \E to \in {"Song", "Project", "Browser"} : Turn(to)
    \/ PressSave \/ PressRename \/ CancelRename
    \/ \E n \in Named : FinishRename(n) \/ RequestLoad(n) \/ RequestDelete(n)
    \/ RequestNew \/ Dismiss \/ Confirm
    \/ Shutdown \/ PowerCut \/ Boot

\* Every platform runs Tick and Present in an endless loop, and the saving
\* indicator changes while it is shown, so a frame does reach the screen.
Spec == Init /\ [][Next]_vars /\ WF_vars(Present) /\ WF_vars(Tick)

-----------------------------------------------------------------------------
(* Properties *)

\* What is stored of the open project, as far as the application can know.
Held == IF place = "aside" THEN disk.aside ELSE Dir(disk, savedName)

\* When the coordinator says nothing has changed, the model is the project's
\* manual save: new and load may then go ahead without asking.  After a failed New
\* that could not be rolled back, that save is in the directory set aside.
CleanMeansSaved ==
    session.loaded /\ place # "nowhere" /\ ~HasUnsavedChanges => session.model = Held.base

\* When no revision is left to persist, the model is on disk, as the manual
\* save or as the recovery file.
CheckpointedMeansStored ==
    session.loaded /\ place # "nowhere" /\ ~Dirty =>
        session.model \in {Held.base, Held.auto, disk.base[savedName], disk.auto[savedName]}

\* A failed New never takes the open project's saved copy out of reach, unless it
\* meets what an earlier replacement left behind.
FailedNewKeepsProject ==
    [][session.loaded /\ session'.loaded /\ place' = "nowhere"
            => place = "nowhere" \/ disk.aside # None]_vars

\* The recovery file is only ever written into the directory of the project
\* the model came from, also while the model carries a name it is not yet
\* saved under; a recovery may bring one back with the untitled directory.
AutosaveStaysHome ==
    [][\A p \in Name : disk.auto'[p] \notin {disk.auto[p], None} =>
            \/ p = savedName \/ place = "nowhere"
            \/ p = Untitled /\ disk.aside # None /\ disk.auto'[p] = disk.aside.auto]_vars

\* A pending Save As is known to the save path and to the autosave policy
\* exactly while the model's name is not the one it is saved under.
RenameIsTracked ==
    session.loaded /\ place # "nowhere" =>
        /\ saveAsPending <=> session.name # savedName
        /\ autoSave.saveAs <=> saveAsPending

\* A stored project other than the open one is overwritten only if the user
\* agreed to lose that very project - unless the model was renamed again
\* between the answer and the frame the save waits for.
OverwriteWasAsked ==
    [][\A p \in Named : Stored(p) /\ p # savedName /\ disk.base'[p] \notin {disk.base[p], None}
            => agreed = p \/ renamed \/ place = "nowhere"]_vars

\* Persistence is never left marked busy with nothing queued, which would
\* silence the autosave for the rest of the session.
BusyOnlyWhileQueued ==
    page # "Off" => (autoSave.busy => pending # "None")

\* TLC's view.  Of the persisted revision only whether it is the last one is read, and
\* the revision an autosave writes only while it is in flight.  Nothing reads recovery
\* files: the properties are about the open project's, and Begin looks whether an
\* untitled directory is empty.
Sketch(dir) == [dir EXCEPT !.auto = @ # None]
View ==
    [vars EXCEPT
        ![1].persisted = IF Dirty THEN 0 ELSE @,
        ![1].saving = IF autoSave.inFlight THEN @ ELSE 0,
        ![11].auto = [p \in Name |-> IF p = savedName /\ place # "nowhere" THEN @[p]
                                    ELSE p = Untitled /\ @[p] # None],
        ![11].aside = IF place = "aside" \/ @ = None THEN @ ELSE Sketch(@)]

\* A queued save is carried out, whatever the user does meanwhile.
QueuedSaveSettles == pending # "None" ~> (pending = "None" \/ page = "Off")
=============================================================================
