-------------------------- MODULE ProjectSavingProofs --------------------------
(***************************************************************************)
(* The safety and action properties of ProjectSaving, for every set of     *)
(* names and contents.  What a save, an autosave or a switch does to the   *)
(* disk is said once, by a lemma each; the invariant then relates the      *)
(* places in which the application remembers what it is about to do.       *)
(***************************************************************************)
EXTENDS ProjectSaving, TLAPS

Maybe(S) == S \cup {None}

Directory == [base : Maybe(Content), auto : Maybe(Content)]
Disk == [base : [Name -> Maybe(Content)], auto : [Name -> Maybe(Content)],
         aside : Maybe(Directory)]
Coordinator == [revision : Nat, persisted : Nat, saving : Nat,
                busy : BOOLEAN, saveAs : BOOLEAN, inFlight : BOOLEAN]
Session == [loaded : BOOLEAN, name : Name, model : Content]
Purpose == {"None", "Info", "ConfirmNew", "ConfirmLoad", "ConfirmDelete",
            "ConfirmOverwrite"}
Dialog == [purpose : Purpose, project : Maybe(Name)]

TypeOK ==
  /\ autoSave \in Coordinator
  /\ phase \in {"Idle", "AwaitingPresentation", "ReadyToPersist"}
  /\ pending \in {"None", "AutoSave", "Project"}
  /\ overwrite \in BOOLEAN /\ saveAsPending \in BOOLEAN /\ renamed \in BOOLEAN
  /\ page \in {"Off", "Song", "Project", "Browser"}
  /\ dialog \in Dialog
  /\ rename \in {"Closed", "Open", "ThenSave"}
  /\ session \in Session /\ savedName \in Name
  /\ disk \in Disk /\ agreed \in Maybe(Name)
  /\ place \in {"home", "aside", "nowhere"}

\* No revision is recorded before it was made, so an edit is never taken for
\* one that is already stored.
RevisionsCount ==
  autoSave.persisted <= autoSave.revision /\ autoSave.saving <= autoSave.revision

\* Busy ends with the queued save, because a queued autosave that is still busy
\* is the one in flight.
QueueIsBusy ==
  /\ autoSave.busy => pending # "None"
  /\ autoSave.busy /\ pending = "AutoSave" => autoSave.inFlight

\* A rename and what it leaves to do keep the user on the project page.
RenameHoldsPage == saveAsPending \/ rename # "Closed" => page = "Project"

\* What a dialog asks about is still so when it is answered.
DialogsHold ==
  /\ dialog.purpose = "ConfirmDelete" => page = "Browser" /\ dialog.project \in Name
  /\ dialog.purpose = "ConfirmLoad" => dialog.project \in Name
  /\ dialog.purpose = "ConfirmOverwrite" => dialog.project = session.name

\* A queued overwrite under a new name was agreed to, for that name.
AgreedToThis ==
  place # "nowhere" /\ overwrite /\ saveAsPending => agreed = session.name \/ renamed

\* Only a loaded project has a saved copy, and only the untitled one is set aside.
PlaceIsKnown ==
  /\ place # "nowhere" => session.loaded /\ page # "Off"
  /\ place = "aside" => savedName = Untitled /\ disk.aside # None

IInv ==
  /\ TypeOK /\ RevisionsCount /\ QueueIsBusy /\ RenameHoldsPage /\ RenameIsTracked
  /\ DialogsHold /\ AgreedToThis /\ PlaceIsKnown /\ CleanMeansSaved
  /\ CheckpointedMeansStored
USE SavingAssumption

-----------------------------------------------------------------------------
(* What the storage calls of the session do to the disk.                   *)

\* The model is now the manual save under its name; the recovery file of that
\* name may be gone.
Wrote(after) ==
  /\ after.base = [disk.base EXCEPT ![session.name] = session.model]
  /\ after.auto \in {disk.auto, [disk.auto EXCEPT ![session.name] = None]}
  /\ after.aside = disk.aside

\* A dialog that asks, one that only tells, and none.
LEMMA DialogTypes ==
  /\ Info \in Dialog /\ Info.purpose = "Info"
  /\ NoDialog \in Dialog /\ NoDialog.purpose = "None"
  /\ \A q \in Purpose, p \in Maybe(Name) : [purpose |-> q, project |-> p] \in Dialog
  BY DEF Info, NoDialog, Dialog, Purpose, Maybe

\* What writing one project does to the disk.
LEMMA PutEffect ==
  ASSUME NEW d \in Disk, NEW p \in Name, NEW c \in Maybe(Content)
  PROVE  /\ Put(d, p, c) \in Disk
         /\ Put(d, p, c).base = [d.base EXCEPT ![p] = c]
         /\ Put(d, p, c).auto = d.auto
         /\ Put(d, p, c).aside = d.aside
  BY DEF Disk, Put

\* What clearing one autosave does to the disk.
LEMMA ForgetAutoEffect ==
  ASSUME NEW d \in Disk, NEW p \in Name
  PROVE  /\ ForgetAuto(d, p) \in Disk
         /\ ForgetAuto(d, p).base = d.base
         /\ ForgetAuto(d, p).auto = [d.auto EXCEPT ![p] = None]
         /\ ForgetAuto(d, p).aside = d.aside
  BY DEF Disk, Maybe, ForgetAuto

\* A save writes the model under its name or leaves the disk alone; it overwrites
\* another project only if it may.
LEMMA SaveEffect ==
  ASSUME TypeOK, NEW saveAs \in BOOLEAN, NEW mayOverwrite \in BOOLEAN,
         NEW result \in Outcome, NEW after,
         SaveProject(saveAs, mayOverwrite, result, after)
  PROVE  /\ after \in Disk
         /\ after = disk \/ Wrote(after)
         /\ result = "Saved" => session.loaded /\ Wrote(after)
         /\ after # disk =>
              /\ session.loaded
              /\ saveAs => session.name # Untitled
                             /\ (mayOverwrite \/ ~Stored(session.name))
  <1> DEFINE wrote == Put(disk, session.name, session.model)
             tidy == ForgetAuto(wrote, session.name)
  <1>1. disk \in Disk /\ session.name \in Name /\ session.model \in Maybe(Content)
    BY DEF TypeOK, Session, Maybe
  <1>2. wrote \in Disk /\ Wrote(wrote)
    BY <1>1, PutEffect DEF Wrote
  <1>3. tidy \in Disk /\ Wrote(tidy)
    <2> HIDE DEF wrote
    <2>1. tidy \in Disk /\ tidy.base = wrote.base /\ tidy.aside = wrote.aside
            /\ tidy.auto = [wrote.auto EXCEPT ![session.name] = None]
      BY <1>1, <1>2, ForgetAutoEffect
    <2>2. wrote.base = [disk.base EXCEPT ![session.name] = session.model]
            /\ wrote.auto = disk.auto /\ wrote.aside = disk.aside
      BY <1>1, PutEffect DEF wrote
    <2> QED BY <2>1, <2>2 DEF Wrote
  <1>4. after \in {disk, wrote, tidy} /\ (result = "Saved" => after = tidy)
          /\ (result = "Saved" \/ after # disk => session.loaded)
    BY DEF SaveProject, SavePlainly, SaveUnderNewName
  <1>5. after # disk /\ saveAs => session.name # Untitled
                                   /\ (mayOverwrite \/ ~Stored(session.name))
    BY DEF SaveProject, SaveUnderNewName
  <1> HIDE DEF wrote, tidy
  <1> QED BY <1>1, <1>2, <1>3, <1>4, <1>5

\* An autosave writes nothing but the recovery file of the model's own name.
LEMMA AutoSaveEffect ==
  ASSUME TypeOK, NEW succeeded \in BOOLEAN, NEW after, SessionAutoSave(succeeded, after)
  PROVE  /\ after \in Disk /\ after.base = disk.base /\ after.aside = disk.aside
         /\ after.auto \in {disk.auto, [disk.auto EXCEPT ![session.name] = session.model]}
         /\ succeeded => after.auto[session.name] = session.model
  BY DEF TypeOK, Session, Disk, Maybe, SessionAutoSave
\* Where a save wrote, the model is stored under its name, and no other project
\* is different.
LEMMA WroteEffect ==
  ASSUME TypeOK, NEW after \in Disk, Wrote(after)
  PROVE  /\ after.base[session.name] = session.model
         /\ \A p \in Name \ {session.name} :
              after.base[p] = disk.base[p] /\ after.auto[p] = disk.auto[p]
  BY DEF TypeOK, Session, Disk, Wrote

-----------------------------------------------------------------------------
(* The invariant. *)

\* What is stored of the open project changes with the disk or the saved name only.
LEMMA HeldKept ==
  ASSUME UNCHANGED <<place, disk, savedName>>
  PROVE  UNCHANGED Held
  BY DEF Held, Dir

\* A part of it is kept where the disk keeps it.
LEMMA HeldParts ==
  ASSUME UNCHANGED <<place, savedName>>, place = "aside" => disk'.aside = disk.aside
  PROVE  /\ place = "aside" \/ disk'.base[savedName] = disk.base[savedName]
              => Held'.base = Held.base
         /\ place = "aside" \/ disk'.auto[savedName] = disk.auto[savedName]
              => Held'.auto = Held.auto
         /\ place # "aside" => /\ Held'.base = disk'.base[savedName]
                               /\ Held'.auto = disk'.auto[savedName]
  BY DEF Held, Dir

\* Nothing is loaded and nothing was asked for at first.
LEMMA InitSaving == Init => IInv
  <1> SUFFICES ASSUME Init PROVE IInv
    OBVIOUS
  <1> USE DEF Init
  <1>1. autoSave \in Coordinator /\ disk \in Disk /\ session \in Session
    BY DEF Coordinator, ResetProjectState, Disk, Session, Maybe, Name
  <1>2. TypeOK
    BY <1>1 DEF TypeOK, Maybe, Name, Dialog, Purpose, NoDialog
  <1>3. RevisionsCount /\ QueueIsBusy
    BY DEF ResetProjectState, RevisionsCount, QueueIsBusy
  <1>4. RenameHoldsPage /\ RenameIsTracked /\ DialogsHold /\ AgreedToThis /\ PlaceIsKnown
    BY DEF RenameHoldsPage, RenameIsTracked, DialogsHold, AgreedToThis, PlaceIsKnown,
           NoDialog
  <1>5. CleanMeansSaved /\ CheckpointedMeansStored
    BY DEF CleanMeansSaved, CheckpointedMeansStored
  <1> QED BY <1>2, <1>3, <1>4, <1>5 DEF IInv

\* Steps that leave the coordinator, the session and the disk alone.
LEMMA QuietSteps ==
  ASSUME IInv, NEW to \in {"Song", "Project", "Browser"},
         Present \/ Turn(to) \/ PressRename \/ CancelRename \/ Dismiss
  PROVE  IInv'
  <1> USE DEF IInv, TypeOK, RevisionsCount, QueueIsBusy, RenameHoldsPage, RenameIsTracked,
              DialogsHold, AgreedToThis, PlaceIsKnown, CleanMeansSaved,
             CheckpointedMeansStored,
              HasUnsavedChanges, Dirty, Quiet, Stored, Info, Purpose, Maybe
  <1>1. CASE Present
    BY <1>1, HeldKept DEF Present
  <1>2. CASE Turn(to)
    BY <1>2, DialogTypes, HeldKept DEF Turn
  <1>3. CASE PressRename
    BY <1>3, HeldKept DEF PressRename
  <1>4. CASE CancelRename
    BY <1>4, HeldKept DEF CancelRename
  <1>5. CASE Dismiss
    BY <1>5, DialogTypes, HeldKept DEF Dismiss, Ask
  <1> QED BY <1>1, <1>2, <1>3, <1>4, <1>5
\* ResetProjectState starts counting again.
LEMMA ResetEffect ==
  /\ ResetProjectState \in Coordinator
  /\ ResetProjectState.revision = 0 /\ ResetProjectState.persisted = 0
  /\ ResetProjectState.saving = 0
  /\ ~ResetProjectState.busy /\ ~ResetProjectState.saveAs
  BY DEF ResetProjectState, Coordinator

\* SetPersistBusy leaves the revisions alone.
LEMMA BusyEffect ==
  ASSUME NEW a \in Coordinator, NEW busy \in BOOLEAN
  PROVE  LET b == SetPersistBusy(a, busy) IN
         /\ b \in Coordinator
         /\ b.revision = a.revision /\ b.persisted = a.persisted
         /\ b.saving = a.saving /\ b.saveAs = a.saveAs
         /\ b.busy = busy /\ b.inFlight = (busy /\ a.inFlight)
  BY DEF Coordinator, SetPersistBusy

\* MarkDirty counts one revision.
LEMMA MarkEffect ==
  ASSUME TypeOK, NEW saveAs \in BOOLEAN
  PROVE  LET m == [MarkDirty EXCEPT !.saveAs = saveAs] IN
         /\ m \in Coordinator
         /\ m.revision = autoSave.revision + 1 /\ m.persisted = autoSave.persisted
         /\ m.saving = autoSave.saving /\ m.saveAs = saveAs
         /\ m.busy = autoSave.busy /\ m.inFlight = autoSave.inFlight
  <1>1. /\ MarkDirty \in Coordinator
        /\ MarkDirty.revision = autoSave.revision + 1
        /\ MarkDirty.persisted = autoSave.persisted /\ MarkDirty.saving = autoSave.saving
        /\ MarkDirty.busy = autoSave.busy /\ MarkDirty.inFlight = autoSave.inFlight
    BY DEF TypeOK, Coordinator, MarkDirty
  <1> QED BY <1>1 DEF Coordinator

\* A save is queued, and the coordinator told, unless one is queued already.
LEMMA QueueEffect ==
  ASSUME TypeOK, NEW a \in Coordinator, NEW mayOverwrite \in BOOLEAN,
         SaveCurrentProject(a, mayOverwrite),
         a.busy => pending # "None",
         a.busy /\ pending = "AutoSave" => a.inFlight
  PROVE  /\ autoSave' \in Coordinator
         /\ pending' \in {"AutoSave", "Project"}
         /\ phase' \in {"Idle", "AwaitingPresentation", "ReadyToPersist"}
         /\ overwrite' = IF pending = "None" THEN mayOverwrite ELSE overwrite
         /\ overwrite' \in BOOLEAN
         /\ autoSave'.revision = a.revision /\ autoSave'.persisted = a.persisted
         /\ autoSave'.saving = a.saving /\ autoSave'.saveAs = a.saveAs
         /\ QueueIsBusy'
  <1>1. CASE pending = "None"
    <2>1. autoSave' = SetPersistBusy(a, TRUE) /\ pending' = "Project"
            /\ phase' = "AwaitingPresentation" /\ overwrite' = mayOverwrite
      BY <1>1 DEF SaveCurrentProject
    <2> QED BY <1>1, <2>1, BusyEffect DEF QueueIsBusy
  <1>2. CASE pending # "None"
    BY <1>2 DEF SaveCurrentProject, TypeOK, QueueIsBusy
  <1> QED BY <1>1, <1>2

\* Steps that count an edit or queue a save.
LEMMA EditKeeps ==
  ASSUME IInv, Edit
  PROVE  IInv'
  <1> USE DEF Edit, MarkDirty, IInv, TypeOK, RevisionsCount, QueueIsBusy, RenameHoldsPage, RenameIsTracked,
             DialogsHold, AgreedToThis, PlaceIsKnown, CleanMeansSaved,
             CheckpointedMeansStored,
             HasUnsavedChanges, Dirty, Stored, Info, NoDialog, Dialog, Purpose, Maybe,
             Coordinator, Session
  <1>1. TypeOK'
    OBVIOUS
  <1>2. RevisionsCount' /\ QueueIsBusy'
    OBVIOUS
  <1>3. /\ RenameHoldsPage' /\ RenameIsTracked' /\ DialogsHold' /\ AgreedToThis'
        /\ PlaceIsKnown'
    OBVIOUS
  <1>4. CleanMeansSaved' /\ CheckpointedMeansStored'
    BY HeldKept
  <1> QED BY <1>1, <1>2, <1>3, <1>4

\* The timer queues an autosave only when nothing else is busy.
LEMMA AutoSaveTickKeeps ==
  ASSUME IInv, NEW running \in BOOLEAN, AutoSaveTick(running)
  PROVE  IInv'
  <1>1. /\ autoSave' \in Coordinator
        /\ autoSave'.revision = autoSave.revision /\ autoSave'.persisted = autoSave.persisted
        /\ autoSave'.saving = autoSave.revision /\ autoSave'.saveAs = autoSave.saveAs
        /\ autoSave'.busy /\ autoSave'.inFlight
    BY DEF AutoSaveTick, IInv, TypeOK, Coordinator
  <1>2. /\ pending' = "AutoSave" /\ phase' = "AwaitingPresentation"
        /\ UNCHANGED <<overwrite, page, dialog, rename, session, savedName,
                       saveAsPending, disk, agreed, renamed, place>>
    BY DEF AutoSaveTick
  <1> USE DEF IInv
  <1>3. TypeOK'
    BY <1>1, <1>2 DEF TypeOK
  <1>4. RevisionsCount' /\ QueueIsBusy'
    BY <1>1, <1>2 DEF RevisionsCount, QueueIsBusy, TypeOK, Coordinator
  <1>5. /\ RenameHoldsPage' /\ RenameIsTracked' /\ DialogsHold' /\ AgreedToThis'
        /\ PlaceIsKnown'
    BY <1>1, <1>2 DEF RenameHoldsPage, RenameIsTracked, DialogsHold, AgreedToThis,
           PlaceIsKnown
  <1>6. CleanMeansSaved' /\ CheckpointedMeansStored'
    BY <1>1, <1>2, HeldKept DEF CleanMeansSaved, CheckpointedMeansStored,
           HasUnsavedChanges, Dirty
  <1> QED BY <1>3, <1>4, <1>5, <1>6

\* The Save button queues the save, asks first, or opens the rename.
LEMMA PressSaveKeeps ==
  ASSUME IInv, PressSave
  PROVE  IInv'
  <1> USE DEF PressSave, IInv, TypeOK, RevisionsCount, QueueIsBusy, RenameHoldsPage, RenameIsTracked,
             DialogsHold, AgreedToThis, PlaceIsKnown, CleanMeansSaved,
             CheckpointedMeansStored,
             HasUnsavedChanges, Dirty, Stored, Info, NoDialog, Dialog, Purpose, Maybe,
             Session
  <1>1. CASE session.name = Untitled
    BY <1>1, HeldKept
  <1>2. CASE session.name # Untitled
    <2>1. SaveCurrentProject(autoSave, FALSE) /\ UNCHANGED rename
      BY <1>2
    <2>2. /\ autoSave' \in Coordinator
          /\ pending' \in {"AutoSave", "Project"}
          /\ phase' \in {"Idle", "AwaitingPresentation", "ReadyToPersist"}
          /\ overwrite' \in BOOLEAN /\ (overwrite' => overwrite)
          /\ autoSave'.revision = autoSave.revision /\ autoSave'.persisted = autoSave.persisted
          /\ autoSave'.saving = autoSave.saving /\ autoSave'.saveAs = autoSave.saveAs
          /\ QueueIsBusy'
      BY <2>1, QueueEffect
    <2> QED BY <2>1, <2>2, HeldKept
  <1> QED BY <1>1, <1>2

\* A finished rename marks the project dirty and renames the loaded one.
LEMMA FinishRenameKeeps ==
  ASSUME IInv, NEW n \in Named, FinishRename(n)
  PROVE  IInv'
  <1> DEFINE marked == [MarkDirty EXCEPT !.saveAs = (savedName # n)]
  <1>1. /\ marked \in Coordinator
        /\ marked.revision = autoSave.revision + 1 /\ marked.saving = autoSave.saving
        /\ marked.persisted = autoSave.persisted /\ marked.saveAs = (savedName # n)
        /\ marked.busy = autoSave.busy /\ marked.inFlight = autoSave.inFlight
    BY MarkEffect DEF IInv
  <1>2. /\ autoSave' \in Coordinator
        /\ pending' \in {"None", "AutoSave", "Project"}
        /\ phase' \in {"Idle", "AwaitingPresentation", "ReadyToPersist"}
        /\ overwrite' \in BOOLEAN /\ (overwrite' => overwrite)
        /\ autoSave'.revision = marked.revision /\ autoSave'.persisted = marked.persisted
        /\ autoSave'.saving = marked.saving /\ autoSave'.saveAs = marked.saveAs
        /\ QueueIsBusy'
    <2>1. CASE rename = "ThenSave"
      <3>1. SaveCurrentProject(marked, FALSE)
        BY <2>1 DEF FinishRename
      <3>2. (marked.busy => pending # "None")
              /\ (marked.busy /\ pending = "AutoSave" => marked.inFlight)
        BY <1>1 DEF IInv, QueueIsBusy
      <3> HIDE DEF marked
      <3> QED BY <1>1, <3>1, <3>2, QueueEffect DEF IInv
    <2>2. CASE rename # "ThenSave"
      BY <1>1, <2>2 DEF FinishRename, IInv, TypeOK, QueueIsBusy
    <2> QED BY <2>1, <2>2
  <1>3. /\ rename' = "Closed" /\ session' = [session EXCEPT !.name = n]
        /\ saveAsPending' = (savedName # n) /\ renamed' = (renamed \/ overwrite)
        /\ UNCHANGED <<page, dialog, savedName, disk, agreed, place>>
        /\ rename # "Closed" /\ dialog.purpose = "None"
    BY DEF FinishRename
  <1> HIDE DEF marked
  <1> USE DEF IInv, Name
  <1>4. session' \in Session /\ session'.name = n /\ session'.loaded = session.loaded
    BY <1>3 DEF TypeOK, Session
  <1>5. TypeOK'
    BY <1>2, <1>3, <1>4 DEF TypeOK
  <1>6. RevisionsCount' /\ QueueIsBusy'
    BY <1>1, <1>2 DEF RevisionsCount, TypeOK, Coordinator
  <1>7. RenameHoldsPage' /\ DialogsHold' /\ PlaceIsKnown'
    BY <1>3, <1>4 DEF RenameHoldsPage, DialogsHold, PlaceIsKnown
  <1>8. RenameIsTracked'
    BY <1>1, <1>2, <1>3, <1>4 DEF RenameIsTracked
  <1>9. AgreedToThis'
    BY <1>2, <1>3, <1>4 DEF AgreedToThis, TypeOK
  <1>10. CleanMeansSaved' /\ CheckpointedMeansStored'
    BY <1>1, <1>2 DEF CleanMeansSaved, CheckpointedMeansStored, HasUnsavedChanges,
           Dirty, RevisionsCount, TypeOK, Coordinator
  <1> QED BY <1>5, <1>6, <1>7, <1>8, <1>9, <1>10

\* Agreeing to overwrite queues the save for the name that was asked about.
LEMMA OverwriteKeeps ==
  ASSUME IInv, dialog.purpose = "ConfirmOverwrite", OverwriteProject(dialog.project)
  PROVE  IInv'
  <1>1. /\ autoSave' \in Coordinator
        /\ pending' \in {"AutoSave", "Project"}
        /\ phase' \in {"Idle", "AwaitingPresentation", "ReadyToPersist"}
        /\ overwrite' \in BOOLEAN
        /\ overwrite' = IF pending = "None" THEN TRUE ELSE overwrite
        /\ autoSave'.revision = autoSave.revision /\ autoSave'.persisted = autoSave.persisted
        /\ autoSave'.saving = autoSave.saving /\ autoSave'.saveAs = autoSave.saveAs
        /\ QueueIsBusy'
    BY QueueEffect DEF OverwriteProject, IInv, TypeOK, QueueIsBusy
  <1>2. /\ agreed' = IF pending = "None" THEN dialog.project ELSE agreed
        /\ dialog' = NoDialog /\ dialog.project = session.name
        /\ UNCHANGED <<page, rename, session, savedName, saveAsPending, disk,
                       renamed, place>>
    BY DEF OverwriteProject, IInv, DialogsHold
  <1> USE DEF IInv
  <1>3. TypeOK'
    BY <1>1, <1>2, DialogTypes DEF TypeOK, Session, Maybe
  <1>4. RevisionsCount' /\ RenameHoldsPage' /\ RenameIsTracked'
    BY <1>1, <1>2 DEF RevisionsCount, RenameHoldsPage, RenameIsTracked
  <1>5. DialogsHold' /\ AgreedToThis' /\ PlaceIsKnown'
    BY <1>1, <1>2, DialogTypes DEF DialogsHold, AgreedToThis, PlaceIsKnown
  <1>6. CleanMeansSaved' /\ CheckpointedMeansStored'
    BY <1>1, <1>2, HeldKept DEF CleanMeansSaved, CheckpointedMeansStored,
           HasUnsavedChanges, Dirty
  <1> QED BY <1>1, <1>3, <1>4, <1>5, <1>6

-----------------------------------------------------------------------------
(* A queued save is carried out. *)

\* An autosave comes to its end only where the model has the name it is saved
\* under, if the application knows that name.
LEMMA SongIsSaved ==
  ASSUME IInv, NEW running \in BOOLEAN, MayAutoSave(running)
  PROVE  /\ session.loaded /\ dialog.purpose = "None"
         /\ place # "nowhere" => session.name = savedName
  <1>1. /\ session.loaded /\ dialog.purpose = "None"
        /\ page = "Song" /\ rename = "Closed"
    BY DEF MayAutoSave, AutosaveSafePage
  <1>2. ~saveAsPending
    BY <1>1 DEF IInv, RenameHoldsPage
  <1>3. place # "nowhere" => (saveAsPending <=> session.name # savedName)
    BY <1>1 DEF IInv, RenameIsTracked
  <1> QED BY <1>1, <1>2, <1>3

\* A finished autosave counts the revision it began with, never a later one.
LEMMA CompleteEffect ==
  ASSUME autoSave \in Coordinator, NEW succeeded \in BOOLEAN,
         NEW c, c = CompleteAutoSave(succeeded)
  PROVE  /\ c \in Coordinator
         /\ c.revision = autoSave.revision /\ c.saving = autoSave.saving
         /\ c.saveAs = autoSave.saveAs
         /\ \/ c.persisted = autoSave.persisted
            \/ succeeded /\ c.persisted = autoSave.saving
         /\ c.busy => autoSave.busy /\ ~autoSave.inFlight
  <1>1. CASE autoSave.inFlight
    BY <1>1 DEF Coordinator, CompleteAutoSave
  <1>2. CASE ~autoSave.inFlight
    BY <1>2 DEF Coordinator, CompleteAutoSave
  <1> QED BY <1>1, <1>2

\* The queued autosave runs: it succeeds or fails, and the queue empties.
LEMMA ExecuteAutoSaveKeeps ==
  ASSUME IInv, ExecuteAutoSave, pending' = "None", overwrite' = FALSE,
         phase' = "Idle", UNCHANGED <<page, rename, session>>
  PROVE  IInv'
  <1>1. PICK succeeded \in BOOLEAN :
          /\ autoSave' = CompleteAutoSave(succeeded)
          /\ dialog' \in {dialog, Info}
          /\ \/ /\ place # "nowhere" => session.name = savedName
                /\ SessionAutoSave(succeeded, disk')
             \/ ~succeeded /\ disk' = disk
    BY SongIsSaved DEF ExecuteAutoSave
  <1>2. /\ autoSave' \in Coordinator
        /\ autoSave'.revision = autoSave.revision /\ autoSave'.saving = autoSave.saving
        /\ autoSave'.saveAs = autoSave.saveAs
        /\ \/ autoSave'.persisted = autoSave.persisted
           \/ succeeded /\ autoSave'.persisted = autoSave.saving
        /\ ~autoSave'.busy
    <2>1. pending = "AutoSave" /\ autoSave \in Coordinator
      BY DEF ExecuteAutoSave, IInv, TypeOK
    <2> QED BY <1>1, <2>1, CompleteEffect DEF IInv, QueueIsBusy
  <1>3. /\ disk' \in Disk /\ disk'.base = disk.base /\ disk'.aside = disk.aside
        /\ place # "nowhere" =>
             /\ disk'.auto[savedName] \in {disk.auto[savedName], session.model}
             /\ succeeded => disk'.auto[savedName] = session.model
    BY <1>1, AutoSaveEffect DEF IInv, TypeOK, Disk
  <1>4. UNCHANGED <<savedName, saveAsPending, agreed, renamed, place>>
    BY DEF ExecuteAutoSave
  <1> USE DEF IInv
  <1>5. TypeOK'
    BY <1>1, <1>2, <1>3, <1>4, DialogTypes DEF TypeOK
  <1>6. RevisionsCount' /\ QueueIsBusy'
    BY <1>2 DEF RevisionsCount, QueueIsBusy
  <1>7. /\ RenameHoldsPage' /\ RenameIsTracked' /\ DialogsHold' /\ AgreedToThis'
        /\ PlaceIsKnown'
    BY <1>1, <1>2, <1>3, <1>4 DEF RenameHoldsPage, RenameIsTracked, DialogsHold,
           AgreedToThis, PlaceIsKnown, Info
  <1>8. /\ Held'.base = Held.base
        /\ disk'.auto[savedName] = disk.auto[savedName] => Held'.auto = Held.auto
    BY <1>3, <1>4, HeldParts
  <1>9. CleanMeansSaved'
    BY <1>2, <1>4, <1>8 DEF CleanMeansSaved, HasUnsavedChanges
  <1>10. CheckpointedMeansStored'
    <2> SUFFICES ASSUME session.loaded, place # "nowhere", ~Dirty'
                 PROVE  session.model \in {Held'.base, Held'.auto, disk'.base[savedName],
                                           disk'.auto[savedName]}
      BY <1>4 DEF CheckpointedMeansStored
    <2>1. CASE disk'.auto[savedName] = session.model
      BY <2>1
    <2>2. CASE disk'.auto[savedName] # session.model
      <3>1. ~succeeded /\ disk'.auto[savedName] = disk.auto[savedName]
        BY <1>3, <2>2
      <3>2. ~Dirty
        BY <1>2, <3>1 DEF Dirty
      <3> QED BY <1>3, <1>8, <3>1, <3>2 DEF CheckpointedMeansStored
    <2> QED BY <2>1, <2>2
  <1> QED BY <1>5, <1>6, <1>7, <1>9, <1>10

\* A save that fails may have written all the same; one that succeeds makes the
\* model's name the saved one.
LEMMA ExecuteProjectSaveKeeps ==
  ASSUME IInv, ExecuteProjectSave, pending' = "None", overwrite' = FALSE,
         phase' = "Idle", UNCHANGED <<page, rename, session>>, page # "Off"
  PROVE  IInv'
  <1>1. PICK result \in Outcome :
          /\ SaveProject(saveAsPending, overwrite, result, disk')
          /\ \/ /\ result # "Saved"
                /\ dialog' \in {Info, [purpose |-> "ConfirmOverwrite",
                                       project |-> session.name]}
                /\ autoSave' = SetPersistBusy(autoSave, FALSE)
                /\ UNCHANGED <<savedName, saveAsPending, place>>
             \/ /\ result = "Saved"
                /\ savedName' = session.name /\ saveAsPending' = FALSE
                /\ autoSave' = OnProjectSaved /\ place' = "home"
                /\ UNCHANGED dialog
    BY DEF ExecuteProjectSave, Outcome
  <1>2. /\ disk' \in Disk /\ (disk' = disk \/ Wrote(disk'))
        /\ result = "Saved" => session.loaded /\ Wrote(disk')
    BY <1>1, SaveEffect DEF IInv, TypeOK
  <1>3. /\ disk'.aside = disk.aside
        /\ \/ disk' = disk
           \/ /\ disk'.base[session.name] = session.model
              /\ \A p \in Name \ {session.name} :
                   disk'.base[p] = disk.base[p] /\ disk'.auto[p] = disk.auto[p]
        /\ result = "Saved" => disk'.base[session.name] = session.model
    BY <1>2, WroteEffect DEF IInv, Wrote
  <1>4. agreed' = None /\ renamed' = FALSE
    BY DEF ExecuteProjectSave
  <1>5. CASE result # "Saved"
    <2>1. /\ autoSave' \in Coordinator
          /\ autoSave'.revision = autoSave.revision /\ autoSave'.persisted = autoSave.persisted
          /\ autoSave'.saving = autoSave.saving /\ autoSave'.saveAs = autoSave.saveAs
          /\ ~autoSave'.busy
      BY <1>1, <1>5, BusyEffect DEF IInv, TypeOK
    <2>2. /\ dialog' \in Dialog /\ dialog'.purpose \in {"Info", "ConfirmOverwrite"}
          /\ dialog'.purpose = "ConfirmOverwrite" => dialog'.project = session.name
      <3>1. CASE dialog' = Info
        BY <3>1, DialogTypes
      <3>2. CASE dialog' = [purpose |-> "ConfirmOverwrite", project |-> session.name]
        <4>1. session.name \in Maybe(Name) /\ "ConfirmOverwrite" \in Purpose
          BY DEF IInv, TypeOK, Session, Maybe, Purpose
        <4> QED BY <3>2, <4>1, DialogTypes
      <3> QED BY <1>1, <1>5, <3>1, <3>2
    <2>3. UNCHANGED <<savedName, saveAsPending, place>>
      BY <1>1, <1>5
    <2> USE DEF IInv
    <2>4. TypeOK'
      BY <1>2, <1>4, <2>1, <2>2, <2>3 DEF TypeOK, Maybe
    <2>5. RevisionsCount' /\ QueueIsBusy'
      BY <2>1 DEF RevisionsCount, QueueIsBusy
    <2>6. RenameHoldsPage' /\ RenameIsTracked'
      BY <2>1, <2>3 DEF RenameHoldsPage, RenameIsTracked
    <2>7. DialogsHold' /\ AgreedToThis' /\ PlaceIsKnown'
      BY <1>3, <2>2, <2>3 DEF DialogsHold, AgreedToThis, PlaceIsKnown
    <2>8. CleanMeansSaved' /\ CheckpointedMeansStored'
      <3>1. CASE disk'.base[savedName] = session.model
        BY <1>3, <2>1, <2>3, <3>1, HeldParts DEF CleanMeansSaved, CheckpointedMeansStored,
               HasUnsavedChanges
      <3>2. CASE disk'.base[savedName] # session.model
        <4>1. /\ disk'.base[savedName] = disk.base[savedName]
              /\ disk'.auto[savedName] = disk.auto[savedName]
          BY <1>3, <3>2 DEF TypeOK
        <4> QED BY <1>3, <2>1, <2>3, <4>1, HeldParts DEF CleanMeansSaved,
                   CheckpointedMeansStored, HasUnsavedChanges, Dirty
      <3> QED BY <3>1, <3>2
    <2> QED BY <2>4, <2>5, <2>6, <2>7, <2>8
  <1>6. CASE result = "Saved"
    <2>1. /\ savedName' = session.name /\ saveAsPending' = FALSE
          /\ autoSave' = ResetProjectState /\ UNCHANGED dialog
          /\ place' = "home" /\ session.loaded
      BY <1>1, <1>2, <1>6 DEF OnProjectSaved
    <2>2. disk'.base[session.name] = session.model
      BY <1>3, <1>6
    <2> USE DEF IInv
    <2>3. TypeOK'
      <3>1. savedName' \in Name
        BY <2>1 DEF TypeOK, Session
      <3> QED BY <1>2, <1>4, <2>1, <3>1, ResetEffect DEF TypeOK, Maybe
    <2>4. RevisionsCount' /\ QueueIsBusy'
      BY <2>1, ResetEffect DEF RevisionsCount, QueueIsBusy
    <2>5. RenameHoldsPage' /\ RenameIsTracked'
      BY <2>1, ResetEffect DEF RenameHoldsPage, RenameIsTracked
    <2>6. DialogsHold' /\ AgreedToThis' /\ PlaceIsKnown'
      BY <2>1 DEF DialogsHold, AgreedToThis, PlaceIsKnown
    <2>7. CleanMeansSaved' /\ CheckpointedMeansStored'
      BY <2>1, <2>2 DEF CleanMeansSaved, CheckpointedMeansStored, Held, Dir
    <2> QED BY <2>3, <2>4, <2>5, <2>6, <2>7
  <1> QED BY <1>5, <1>6
-----------------------------------------------------------------------------
(* Replacing the untitled project. *)

\* Two disks are the same if their parts are.
LEMMA SameDisk ==
  ASSUME NEW d \in Disk, NEW e \in Disk,
         d.base = e.base, d.auto = e.auto, d.aside = e.aside
  PROVE  d = e
  BY DEF Disk

\* A project's directory, and what is left of one.
LEMMA DirectoryTypes ==
  ASSUME NEW d \in Disk
  PROVE  /\ Dir(d, Untitled) \in Directory /\ NoDirectory \in Directory
         /\ Dir(d, Untitled).base = d.base[Untitled]
         /\ Dir(d, Untitled).auto = d.auto[Untitled]
         /\ NoDirectory.auto = None
         /\ \A dir \in Directory : \A rest \in Remnants(dir) :
              rest \in Directory /\ rest.auto \in {dir.auto, None}
  BY DEF Directory, Disk, Dir, NoDirectory, Remnants, Maybe, Name

\* Putting a directory in the place of the untitled one.
LEMMA PlaceEffect ==
  ASSUME NEW d \in Disk, NEW dir \in Directory
  PROVE  /\ Place(d, dir) \in Disk
         /\ Place(d, dir).base = [d.base EXCEPT ![Untitled] = dir.base]
         /\ Place(d, dir).auto = [d.auto EXCEPT ![Untitled] = dir.auto]
         /\ Place(d, dir).aside = d.aside
  BY DEF Disk, Directory, Place

\* Recording, or forgetting, what is set aside.
LEMMA AsideEffect ==
  ASSUME NEW d \in Disk, NEW dir \in Maybe(Directory)
  PROVE  /\ [d EXCEPT !.aside = dir] \in Disk
         /\ [d EXCEPT !.aside = dir].base = d.base
         /\ [d EXCEPT !.aside = dir].auto = d.auto
         /\ [d EXCEPT !.aside = dir].aside = dir
  BY DEF Disk

\* Setting the untitled directory aside.
LEMMA SetAsideEffect ==
  ASSUME NEW d \in Disk
  PROVE  /\ SetAside(d) \in Disk
         /\ SetAside(d).base = [d.base EXCEPT ![Untitled] = None]
         /\ SetAside(d).auto = [d.auto EXCEPT ![Untitled] = None]
         /\ SetAside(d).aside = Dir(d, Untitled)
  <1>1. /\ Dir(d, Untitled) \in Maybe(Directory)
        /\ NoDirectory \in Directory /\ NoDirectory.base = None /\ NoDirectory.auto = None
    BY DirectoryTypes DEF Maybe, NoDirectory
  <1> DEFINE e == Place(d, NoDirectory)
  <1>2. /\ e \in Disk
        /\ e.base = [d.base EXCEPT ![Untitled] = None]
        /\ e.auto = [d.auto EXCEPT ![Untitled] = None]
    <2>1. /\ e \in Disk
          /\ e.base = [d.base EXCEPT ![Untitled] = NoDirectory.base]
          /\ e.auto = [d.auto EXCEPT ![Untitled] = NoDirectory.auto]
      BY <1>1, PlaceEffect
    <2> QED BY <1>1, <2>1
  <1>3. SetAside(d) = [e EXCEPT !.aside = Dir(d, Untitled)]
    BY DEF SetAside
  <1> HIDE DEF e
  <1> QED BY <1>1, <1>2, <1>3, AsideEffect

\* Bringing back what was set aside.
LEMMA BringBackEffect ==
  ASSUME NEW d \in Disk, d.aside # None
  PROVE  /\ BringBack(d) \in Disk
         /\ BringBack(d).base = [d.base EXCEPT ![Untitled] = d.aside.base]
         /\ BringBack(d).auto = [d.auto EXCEPT ![Untitled] = d.aside.auto]
         /\ BringBack(d).aside = None
  <1>1. d.aside \in Directory /\ None \in Maybe(Directory)
    BY DEF Disk, Maybe
  <1> DEFINE e == Place(d, d.aside)
  <1>2. /\ e \in Disk
        /\ e.base = [d.base EXCEPT ![Untitled] = d.aside.base]
        /\ e.auto = [d.auto EXCEPT ![Untitled] = d.aside.auto]
    BY <1>1, PlaceEffect
  <1>3. BringBack(d) = [e EXCEPT !.aside = None]
    BY DEF BringBack
  <1> HIDE DEF e
  <1> QED BY <1>1, <1>2, <1>3, AsideEffect

\* The recovery files that can come to lie in the untitled directory.
Recoverable ==
  {disk.auto[Untitled], None} \cup IF disk.aside = None THEN {} ELSE {disk.aside.auto}

\* A disk on which only the untitled project differs, and no recovery file is new.
OnlyUntitled(d) ==
  /\ d \in Disk
  /\ \A n \in Named : d.base[n] = disk.base[n] /\ d.auto[n] = disk.auto[n]
  /\ d.auto[Untitled] \in Recoverable
  /\ d.aside # None => d.aside.auto \in Recoverable

\* So it is at first.
LEMMA UntouchedDisk == disk \in Disk => OnlyUntitled(disk)
  BY DEF OnlyUntitled, Recoverable

\* What is written to the untitled project does not matter.
LEMMA PutKeeps ==
  ASSUME NEW d, OnlyUntitled(d), NEW c \in Maybe(Content)
  PROVE  OnlyUntitled(Put(d, Untitled, c))
  <1>1. d \in Disk /\ Untitled \in Name /\ Untitled \notin Named /\ Named \subseteq Name
    BY DEF OnlyUntitled, Name
  <1>2. /\ Put(d, Untitled, c) \in Disk
        /\ Put(d, Untitled, c).base = [d.base EXCEPT ![Untitled] = c]
        /\ Put(d, Untitled, c).auto = d.auto
        /\ Put(d, Untitled, c).aside = d.aside
    BY <1>1, PutEffect
  <1> QED BY <1>1, <1>2 DEF OnlyUntitled, Disk

\* Nor what is deleted of it.
LEMMA RemnantsKeep ==
  ASSUME NEW d, OnlyUntitled(d), NEW dir \in Remnants(Dir(d, Untitled))
  PROVE  OnlyUntitled(Place(d, dir))
  <1>1. d \in Disk /\ Untitled \in Name /\ Untitled \notin Named /\ Named \subseteq Name
    BY DEF OnlyUntitled, Name
  <1>2. dir \in Directory /\ dir.auto \in {d.auto[Untitled], None}
    BY <1>1, DirectoryTypes
  <1>3. /\ Place(d, dir) \in Disk
        /\ Place(d, dir).base = [d.base EXCEPT ![Untitled] = dir.base]
        /\ Place(d, dir).auto = [d.auto EXCEPT ![Untitled] = dir.auto]
        /\ Place(d, dir).aside = d.aside
    BY <1>1, <1>2, PlaceEffect
  <1> QED BY <1>1, <1>2, <1>3 DEF OnlyUntitled, Recoverable, Disk

\* Nor does what a recovery or a rollback does, wherever it stops.
LEMMA RecoveriesKeep ==
  ASSUME NEW d, OnlyUntitled(d), NEW e \in Recoveries(d)
  PROVE  OnlyUntitled(e)
  <1>1. d \in Disk /\ Untitled \in Name /\ Untitled \notin Named /\ Named \subseteq Name
    BY DEF OnlyUntitled, Name
  <1>2. CASE e = d
    BY <1>2
  <1>3. CASE d.aside # None /\ e = BringBack(d)
    <2>1. /\ e \in Disk
          /\ e.base = [d.base EXCEPT ![Untitled] = d.aside.base]
          /\ e.auto = [d.auto EXCEPT ![Untitled] = d.aside.auto]
          /\ e.aside = None
      BY <1>1, <1>3, BringBackEffect
    <2> QED BY <1>1, <1>3, <2>1 DEF OnlyUntitled, Disk
  <1>4. ASSUME NEW dir \in Remnants(Dir(d, Untitled)), e = Place(d, dir)
        PROVE  OnlyUntitled(e)
    BY <1>4, RemnantsKeep
  <1> QED BY <1>2, <1>3, <1>4 DEF Recoveries

\* A replacement sets the untitled directory aside and writes a new one.
LEMMA ReplacingKeeps ==
  ASSUME NEW d, OnlyUntitled(d)
  PROVE  /\ \A e \in Begun(d) : OnlyUntitled(e)
         /\ \A e \in Replacing(d) : OnlyUntitled(e)
         /\ \A e \in GivenUp(d) : OnlyUntitled(e)
  <1>1. ASSUME NEW e \in Begun(d) PROVE OnlyUntitled(e)
    <2>1. PICK f \in Recoveries(d) : e = SetAside(f)
      BY DEF Begun
    <2>2. OnlyUntitled(f) /\ f \in Disk
      BY RecoveriesKeep DEF OnlyUntitled
    <2>3. /\ e \in Disk
          /\ e.base = [f.base EXCEPT ![Untitled] = None]
          /\ e.auto = [f.auto EXCEPT ![Untitled] = None]
          /\ e.aside.auto = f.auto[Untitled]
      BY <2>1, <2>2, SetAsideEffect, DirectoryTypes
    <2>4. Untitled \in Name /\ Untitled \notin Named /\ Named \subseteq Name
      BY DEF Name
    <2> QED BY <2>2, <2>3, <2>4 DEF OnlyUntitled, Recoverable, Disk
  <1>2. ASSUME NEW e \in Replacing(d) PROVE OnlyUntitled(e)
    <2>1. PICK f \in Begun(d), c \in {None, Blank} : e = Put(f, Untitled, c)
      BY DEF Replacing
    <2>2. c \in Maybe(Content)
      BY DEF Maybe
    <2> QED BY <1>1, <2>1, <2>2, PutKeeps
  <1>3. ASSUME NEW e \in GivenUp(d) PROVE OnlyUntitled(e)
    <2>1. PICK f \in Replacing(d) : e \in Recoveries(f)
      BY DEF GivenUp
    <2> QED BY <1>2, <2>1, RecoveriesKeep
  <1> QED BY <1>1, <1>2, <1>3

\* The cleanup of a committed replacement leaves the new project alone.
LEMMA TidiedKeeps ==
  ASSUME NEW d, OnlyUntitled(d), NEW e \in Tidied(d)
  PROVE  OnlyUntitled(e) /\ e.base = d.base
  <1>1. CASE e = d
    BY <1>1
  <1>2. CASE e # d
    <2>1. PICK dir \in {None} \cup Remnants(d.aside) : e = [d EXCEPT !.aside = dir]
      BY <1>2 DEF Tidied
    <2>2. d \in Disk /\ d.aside \in Directory /\ d.aside # None
      BY <1>2 DEF Tidied, OnlyUntitled, Disk, Maybe
    <2>3. dir \in Maybe(Directory) /\ (dir # None => dir.auto \in {d.aside.auto, None})
      BY <2>1, <2>2, DirectoryTypes DEF Maybe
    <2>4. e \in Disk /\ e.base = d.base /\ e.auto = d.auto /\ e.aside = dir
      BY <2>1, <2>2, <2>3, AsideEffect
    <2> QED BY <2>2, <2>3, <2>4 DEF OnlyUntitled, Recoverable
  <1> QED BY <1>1, <1>2

\* A purge deletes both copies of the untitled project, or parts of them.
LEMMA PurgedKeeps ==
  ASSUME NEW d, OnlyUntitled(d), NEW e \in Purged(d)
  PROVE  OnlyUntitled(e)
  BY RemnantsKeep, TidiedKeeps DEF Purged

\* Opening creates at most the untitled project.
LEMMA InPlaceKeeps ==
  ASSUME NEW d, OnlyUntitled(d), NEW q \in Name
  PROVE  OnlyUntitled(InPlace(d, q))
  BY PutKeeps DEF InPlace, Maybe

\* What is ready to be opened is a project, and the others are as they were.
LEMMA ReachedKeeps ==
  ASSUME disk \in Disk, NEW q \in Name, NEW p \in Name, NEW create \in BOOLEAN,
         NEW d \in Reached(q, p, create)
  PROVE  OnlyUntitled(d) /\ d.base[q] \in Content
  <1>1. OnlyUntitled(disk)
    BY UntouchedDisk
  <1>2. /\ \A e \in Recoveries(disk) : OnlyUntitled(e)
        /\ \A e \in Replacing(disk) \cup GivenUp(disk) : OnlyUntitled(e)
    BY <1>1, RecoveriesKeep, ReplacingKeeps
  <1>3. /\ \/ d \in Replacing(disk) \cup {disk}
           \/ \E e \in GivenUp(disk) \cup Recoveries(disk) : d = InPlace(e, q)
        /\ d.base[q] # None
    BY DEF Reached
  <1>4. OnlyUntitled(d)
    BY <1>1, <1>2, <1>3, InPlaceKeeps
  <1> QED BY <1>3, <1>4 DEF OnlyUntitled, Disk, Maybe

\* Where nothing was aside, a New that fails leaves the untitled directory where it
\* was, or aside.
LEMMA NewIsUndone ==
  ASSUME disk \in Disk, disk.aside = None,
         NEW d \in {disk} \cup Recoveries(disk) \cup Begun(disk) \cup GivenUp(disk)
  PROVE  d = disk \/ d.aside = Dir(disk, Untitled)
  <1>1. Recoveries(disk) = {disk} /\ Begun(disk) = {SetAside(disk)}
    BY DEF Recoveries, Begun
  <1>2. CASE d \in {disk, SetAside(disk)}
    BY <1>2, SetAsideEffect
  <1>3. CASE d \in GivenUp(disk)
    <2>1. PICK c \in {None, Blank} : d \in Recoveries(Put(SetAside(disk), Untitled, c))
      BY <1>1, <1>3 DEF GivenUp, Replacing
    <2> DEFINE e == Put(SetAside(disk), Untitled, c)
    <2>2. /\ e \in Disk
          /\ e.base = [[disk.base EXCEPT ![Untitled] = None] EXCEPT ![Untitled] = c]
          /\ e.auto = [disk.auto EXCEPT ![Untitled] = None]
          /\ e.aside = Dir(disk, Untitled)
      <3> DEFINE f == SetAside(disk)
      <3>1. /\ f \in Disk
            /\ f.base = [disk.base EXCEPT ![Untitled] = None]
            /\ f.auto = [disk.auto EXCEPT ![Untitled] = None]
            /\ f.aside = Dir(disk, Untitled)
        BY SetAsideEffect
      <3>2. c \in Maybe(Content) /\ Untitled \in Name
        BY DEF Maybe, Name
      <3>3. e = Put(f, Untitled, c)
        OBVIOUS
      <3> HIDE DEF e, f
      <3> QED BY <3>1, <3>2, <3>3, PutEffect
    <2>3. \/ d = e
          \/ e.aside # None /\ d = BringBack(e)
          \/ \E dir \in Remnants(Dir(e, Untitled)) : d = Place(e, dir)
      BY <2>1 DEF Recoveries
    <2> HIDE DEF e
    <2>4. CASE e.aside # None /\ d = BringBack(e)
      <3>1. /\ d \in Disk
            /\ d.base = [e.base EXCEPT ![Untitled] = disk.base[Untitled]]
            /\ d.auto = [e.auto EXCEPT ![Untitled] = disk.auto[Untitled]]
            /\ d.aside = None
        <4>1. /\ d \in Disk
              /\ d.base = [e.base EXCEPT ![Untitled] = e.aside.base]
              /\ d.auto = [e.auto EXCEPT ![Untitled] = e.aside.auto]
              /\ d.aside = None
          BY <2>2, <2>4, BringBackEffect
        <4>2. /\ Dir(disk, Untitled).base = disk.base[Untitled]
              /\ Dir(disk, Untitled).auto = disk.auto[Untitled]
          BY DirectoryTypes
        <4> QED BY <2>2, <4>1, <4>2
      <3>2. d.base = disk.base /\ d.auto = disk.auto
        BY <2>2, <3>1 DEF Disk
      <3> QED BY <3>1, <3>2, SameDisk
    <2>5. ASSUME NEW dir \in Remnants(Dir(e, Untitled)), d = Place(e, dir)
          PROVE  d.aside = Dir(disk, Untitled)
      BY <2>2, <2>5, DirectoryTypes, PlaceEffect
    <2> QED BY <2>2, <2>3, <2>4, <2>5
  <1> QED BY <1>1, <1>2, <1>3

-----------------------------------------------------------------------------
(* Project boundaries. *)

\* A switch that does not enter a project changes no project but the untitled one.
\* It keeps the session, loses it, or finds none.
LEMMA UnenteredKeeps ==
  ASSUME IInv, Unentered, UNCHANGED <<phase, pending, overwrite, agreed, renamed>>,
         OnlyUntitled(disk'), session' \in Session,
         session' = session \/ ~session'.loaded \/ ~session.loaded
  PROVE  IInv'
  <1>1. /\ autoSave' \in Coordinator
        /\ autoSave'.revision = autoSave.revision /\ autoSave'.persisted = autoSave.persisted
        /\ autoSave'.saving = autoSave.saving /\ autoSave'.saveAs = autoSave.saveAs
        /\ ~autoSave'.busy
    BY BusyEffect DEF Unentered, IInv, TypeOK
  <1>2. dialog' \in Dialog /\ dialog'.purpose = "Info"
    BY DialogTypes DEF Unentered
  <1>3. UNCHANGED <<page, rename, savedName, saveAsPending>>
    BY DEF Unentered
  <1> USE DEF IInv
  <1>4. /\ place' \in {"home", "aside", "nowhere"}
        /\ place' # "nowhere" =>
             /\ session.loaded /\ place # "nowhere" /\ UNCHANGED session
             /\ \/ (savedName # Untitled \/ UNCHANGED disk) /\ UNCHANGED place
                \/ /\ savedName = Untitled /\ place = "home" /\ place' = "aside"
                   /\ disk'.aside = Dir(disk, Untitled)
    BY DEF Unentered, Whereabouts, TypeOK
  <1>5. disk \in Disk /\ disk' \in Disk /\ savedName \in Name
    BY DEF TypeOK, OnlyUntitled
  <1>6. place' # "nowhere" =>
          /\ Held'.base = Held.base
          /\ Held.auto = Held'.auto
          /\ place' = "home" => /\ disk'.base[savedName] = Held.base
                                /\ disk'.auto[savedName] = Held.auto
          /\ place = "home" => /\ disk.base[savedName] = Held.base
                               /\ disk.auto[savedName] = Held.auto
          /\ place' = "aside" => disk'.aside # None
    <2>1. CASE savedName = Untitled /\ place = "home" /\ place' = "aside"
                 /\ disk'.aside = Dir(disk, Untitled)
      <3>1. Held' = Dir(disk, Untitled) /\ Held = Dir(disk, Untitled)
        BY <1>3, <2>1 DEF Held
      <3>2. Dir(disk, Untitled) \in Directory /\ None \notin Directory
        BY <1>5, DirectoryTypes DEF Directory, Maybe
      <3> QED BY <1>5, <2>1, <3>1, <3>2, DirectoryTypes
    <2>2. CASE UNCHANGED disk /\ UNCHANGED place /\ place # "nowhere"
      BY <1>3, <2>2 DEF Held, Dir, PlaceIsKnown, TypeOK
    <2>3. CASE savedName # Untitled /\ UNCHANGED place /\ place # "nowhere"
      <3>1. /\ disk'.base[savedName] = disk.base[savedName]
            /\ disk'.auto[savedName] = disk.auto[savedName]
        BY <1>5, <2>3 DEF OnlyUntitled, Name
      <3>2. place # "aside"
        BY <2>3 DEF PlaceIsKnown
      <3> QED BY <1>3, <2>3, <3>1, <3>2 DEF Held, Dir
    <2> QED BY <1>4, <2>1, <2>2, <2>3
  <1>7. TypeOK'
    BY <1>1, <1>2, <1>3, <1>4, <1>5 DEF TypeOK
  <1>8. RevisionsCount' /\ QueueIsBusy' /\ RenameHoldsPage'
    BY <1>1, <1>3 DEF RevisionsCount, QueueIsBusy, RenameHoldsPage
  <1>9. RenameIsTracked' /\ DialogsHold' /\ AgreedToThis'
    BY <1>1, <1>2, <1>3, <1>4 DEF RenameIsTracked, DialogsHold, AgreedToThis
  <1>10. PlaceIsKnown'
    BY <1>3, <1>4, <1>6 DEF PlaceIsKnown
  <1>11. CleanMeansSaved' /\ CheckpointedMeansStored'
    <2>1. CASE place' = "nowhere"
      BY <2>1 DEF CleanMeansSaved, CheckpointedMeansStored
    <2>2. CASE place = "home" /\ place' # "nowhere"
      BY <1>1, <1>3, <1>4, <1>6, <2>2 DEF CleanMeansSaved, CheckpointedMeansStored,
             HasUnsavedChanges, Dirty
    <2>3. CASE place = "aside" /\ place' # "nowhere"
      <3>1. UNCHANGED <<place, disk, savedName>>
        BY <1>3, <1>4, <2>3 DEF PlaceIsKnown
      <3> QED BY <1>1, <1>4, <2>3, <3>1, HeldKept DEF CleanMeansSaved,
                 CheckpointedMeansStored, HasUnsavedChanges, Dirty
    <2> QED BY <1>4, <2>1, <2>2, <2>3 DEF TypeOK
  <1> QED BY <1>7, <1>8, <1>9, <1>10, <1>11

\* Where a project is entered, its manual save is the model and nothing is pending.
LEMMA EnteredKeeps ==
  ASSUME IInv, NEW q \in Name, NEW c \in Content, Entered(q, c),
         disk' \in Disk, disk'.base[q] = c,
         UNCHANGED <<phase, pending, overwrite, agreed>>
  PROVE  IInv'
  <1>1. /\ session' \in Session /\ session'.name = q /\ session'.model = c
        /\ session'.loaded /\ place' = "home"
        /\ savedName' = q /\ saveAsPending' = FALSE /\ autoSave' = ResetProjectState
        /\ page' = "Song" /\ dialog' = NoDialog /\ rename' = "Closed" /\ renamed' = FALSE
    BY DEF Entered, Session
  <1>2. TypeOK'
    BY <1>1, ResetEffect, DialogTypes DEF IInv, TypeOK
  <1>3. RevisionsCount' /\ QueueIsBusy'
    BY <1>1, ResetEffect DEF RevisionsCount, QueueIsBusy
  <1>4. RenameHoldsPage' /\ RenameIsTracked'
    BY <1>1, ResetEffect DEF RenameHoldsPage, RenameIsTracked
  <1>5. DialogsHold' /\ AgreedToThis' /\ PlaceIsKnown'
    BY <1>1, DialogTypes DEF DialogsHold, AgreedToThis, PlaceIsKnown
  <1>6. CleanMeansSaved' /\ CheckpointedMeansStored'
    BY <1>1 DEF CleanMeansSaved, CheckpointedMeansStored, Held, Dir
  <1> QED BY <1>2, <1>3, <1>4, <1>5, <1>6 DEF IInv

\* Switching off leaves the disk alone, and nothing else is left.
LEMMA OffKeeps ==
  ASSUME Off, disk' \in Disk
  PROVE  IInv'
  <1>1. /\ session' \in Session /\ ~session'.loaded /\ savedName' \in Name
        /\ saveAsPending' = FALSE /\ autoSave' = ResetProjectState
        /\ page' = "Off" /\ dialog' = NoDialog /\ rename' = "Closed" /\ renamed' = FALSE
        /\ phase' = "Idle" /\ pending' = "None" /\ overwrite' = FALSE /\ agreed' = None
        /\ place' = "nowhere"
    BY DEF Off, Session, Name
  <1>2. TypeOK'
    BY <1>1, ResetEffect, DialogTypes DEF TypeOK, Maybe
  <1>3. RevisionsCount' /\ QueueIsBusy'
    BY <1>1, ResetEffect DEF RevisionsCount, QueueIsBusy
  <1>4. /\ RenameHoldsPage' /\ RenameIsTracked' /\ DialogsHold' /\ AgreedToThis'
        /\ PlaceIsKnown'
    BY <1>1, DialogTypes DEF RenameHoldsPage, RenameIsTracked, DialogsHold, AgreedToThis,
           PlaceIsKnown
  <1>5. CleanMeansSaved' /\ CheckpointedMeansStored'
    BY <1>1 DEF CleanMeansSaved, CheckpointedMeansStored
  <1> QED BY <1>2, <1>3, <1>4, <1>5 DEF IInv

\* What the disk is like once a project was opened.
LEMMA OpenedDisk ==
  ASSUME IInv, NEW p \in Name, NEW create \in BOOLEAN, NEW q \in Name,
         NEW d \in Reached(q, p, create), NEW e \in IF q = Untitled THEN Tidied(d) ELSE {d},
         disk' \in {e, IF session.loaded THEN ForgetAuto(e, session.name) ELSE e}
  PROVE  /\ OnlyUntitled(e) /\ d.base[q] \in Content
         /\ disk' \in Disk /\ disk'.base = d.base
         /\ disk'.auto \in {e.auto, [e.auto EXCEPT ![session.name] = None]}
  <1>1. session.name \in Name /\ disk \in Disk
    BY DEF IInv, TypeOK, Session
  <1>2. OnlyUntitled(d) /\ d.base[q] \in Content
    BY <1>1, ReachedKeeps
  <1>3. OnlyUntitled(e) /\ e.base = d.base
    BY <1>2, TidiedKeeps
  <1>4. e \in Disk
    BY <1>3 DEF OnlyUntitled
  <1>5. CASE disk' = e
    BY <1>2, <1>3, <1>4, <1>5
  <1>6. CASE disk' = ForgetAuto(e, session.name)
    BY <1>1, <1>2, <1>3, <1>4, <1>6, ForgetAutoEffect
  <1> QED BY <1>5, <1>6

\* A project that was reached is entered.
LEMMA OpensKeeps ==
  ASSUME IInv, NEW p \in Name, NEW create \in BOOLEAN, SwitchOpens(p, create),
         UNCHANGED <<phase, pending, overwrite, agreed>>
  PROVE  IInv'
  <1>1. PICK q \in Name : \E d \in Reached(q, p, create) :
          /\ \E e \in IF q = Untitled THEN Tidied(d) ELSE {d} :
               disk' \in {e, IF session.loaded THEN ForgetAuto(e, session.name) ELSE e}
          /\ Entered(q, d.base[q])
    BY DEF SwitchOpens
  <1>2. PICK d \in Reached(q, p, create) :
          /\ \E e \in IF q = Untitled THEN Tidied(d) ELSE {d} :
               disk' \in {e, IF session.loaded THEN ForgetAuto(e, session.name) ELSE e}
          /\ Entered(q, d.base[q])
    BY <1>1
  <1>3. d.base[q] \in Content /\ disk' \in Disk /\ disk'.base = d.base
    BY <1>2, OpenedDisk
  <1> QED BY <1>2, <1>3, EnteredKeeps

\* The disks of a switch that does not enter a project.
LEMMA UnenteredDisk ==
  ASSUME IInv, NEW p \in Name, NEW create \in BOOLEAN,
         \/ SwitchRefused(create) \/ SwitchRollsBack(p, create) \/ SwitchFails(p, create)
  PROVE  OnlyUntitled(disk')
  <1>1. disk \in Disk /\ OnlyUntitled(disk)
    BY UntouchedDisk DEF IInv, TypeOK
  <1>2. \A d \in Recoveries(disk) \cup Begun(disk) \cup GivenUp(disk) : OnlyUntitled(d)
    BY <1>1, RecoveriesKeep, ReplacingKeeps
  <1>3. ASSUME NEW q \in Name, NEW d \in Reached(q, p, create),
               disk' \in IF create /\ q = Untitled THEN Recoveries(d) ELSE {d}
        PROVE  OnlyUntitled(disk')
    BY <1>1, <1>3, ReachedKeeps, RecoveriesKeep
  <1>4. CASE SwitchRefused(create)
    BY <1>1, <1>2, <1>4 DEF SwitchRefused
  <1>5. CASE SwitchRollsBack(p, create)
    BY <1>1, <1>2, <1>5 DEF SwitchRollsBack
  <1>6. CASE SwitchFails(p, create)
    BY <1>2, <1>3, <1>6 DEF SwitchFails
  <1> QED BY <1>4, <1>5, <1>6

\* What a switch does, whichever way it ends.
LEMMA SwitchKeeps ==
  ASSUME IInv, NEW p \in Name, NEW create \in BOOLEAN, Switch(p, create)
  PROVE  IInv'
  <1>1. /\ UNCHANGED <<phase, pending, overwrite, agreed>>
        /\ disk \in Disk /\ session \in Session /\ Blank \in Content
    BY DEF Switch, IInv, TypeOK
  <1>2. CASE SwitchRefused(create)
    BY <1>1, <1>2, UnenteredDisk, UnenteredKeeps DEF SwitchRefused
  <1>3. CASE SwitchOpens(p, create)
    BY <1>1, <1>3, OpensKeeps
  <1>4. CASE SwitchRollsBack(p, create)
    <2>1. session' \in Session /\ (session' = session \/ ~session'.loaded)
      BY <1>1, <1>4 DEF SwitchRollsBack, Session
    <2> QED BY <1>1, <1>4, <2>1, UnenteredDisk, UnenteredKeeps DEF SwitchRollsBack
  <1>5. CASE SwitchFails(p, create)
    <2>1. session' \in Session
      <3>1. ASSUME NEW q \in Name, session' = [session EXCEPT !.name = q, !.model = Blank]
            PROVE  session' \in Session
        BY <1>1, <3>1 DEF Session
      <3>2. ASSUME NEW q \in Name, NEW d \in Reached(q, p, create),
                   session' = [loaded |-> TRUE, name |-> q, model |-> d.base[q]]
            PROVE  session' \in Session
        <4>1. d.base[q] \in Content
          BY <1>1, ReachedKeeps
        <4> QED BY <3>2, <4>1 DEF Session
      <3> QED BY <1>5, <3>1, <3>2 DEF SwitchFails
    <2> QED BY <1>1, <1>5, <2>1, UnenteredDisk, UnenteredKeeps DEF SwitchFails
  <1> QED BY <1>2, <1>3, <1>4, <1>5 DEF Switch

\* A question changes nothing but the dialog.
LEMMA AskKeeps ==
  ASSUME IInv, NEW purpose \in Purpose, NEW p \in Maybe(Name), Ask(purpose, p),
         purpose = "ConfirmDelete" => page = "Browser" /\ p \in Name,
         purpose = "ConfirmLoad" => p \in Name,
         purpose # "ConfirmOverwrite"
  PROVE  IInv'
  <1>1. /\ dialog' \in Dialog /\ dialog'.purpose = purpose /\ dialog'.project = p
        /\ UNCHANGED <<autoSave, phase, pending, overwrite, page, rename,
                       session, savedName, saveAsPending, disk, agreed, renamed, place>>
    BY DialogTypes DEF Ask
  <1> QED
    BY <1>1, HeldKept DEF IInv, TypeOK, RevisionsCount, QueueIsBusy, RenameHoldsPage,
       RenameIsTracked, DialogsHold, AgreedToThis, PlaceIsKnown, CleanMeansSaved,
       CheckpointedMeansStored, HasUnsavedChanges, Dirty

\* The project page and the browser ask, or switch at once if nothing is unsaved.
LEMMA RequestNewKeeps ==
  ASSUME IInv, RequestNew
  PROVE  IInv'
  <1>1. Untitled \in Name /\ None \in Maybe(Name)
    BY DEF Name, Maybe
  <1> QED BY <1>1, AskKeeps, SwitchKeeps DEF RequestNew, Purpose

\* Asking for another project, or to delete one, switches or opens a dialog.
LEMMA RequestsKeep ==
  ASSUME IInv, NEW n \in Named, RequestLoad(n) \/ RequestDelete(n)
  PROVE  IInv'
  <1>1. n \in Name /\ n \in Maybe(Name) /\ None \in Maybe(Name)
    BY DEF Name, Maybe
  <1>2. CASE RequestLoad(n)
    BY <1>1, <1>2, AskKeeps, SwitchKeeps DEF RequestLoad, Purpose
  <1>3. CASE RequestDelete(n)
    BY <1>1, <1>3, AskKeeps DEF RequestDelete, Purpose
  <1> QED BY <1>2, <1>3

\* A project is deleted from the browser, where the open project is under the name
\* it is saved under.
LEMMA DeleteKeeps ==
  ASSUME IInv, dialog.purpose = "ConfirmDelete", DeleteProject(dialog.project)
  PROVE  IInv'
  <1> DEFINE p == dialog.project
             bare == Put(disk, p, None)
             gone == ForgetAuto(bare, p)
  <1>1. /\ p \in Name /\ disk \in Disk /\ savedName \in Name
        /\ place # "nowhere" => session.name = savedName
    BY DEF IInv, DialogsHold, RenameHoldsPage, RenameIsTracked, TypeOK, PlaceIsKnown
  <1>2. /\ bare \in Disk /\ bare.base = [disk.base EXCEPT ![p] = None]
        /\ bare.auto = disk.auto /\ bare.aside = disk.aside
    BY <1>1, PutEffect DEF Maybe
  <1>3. /\ gone \in Disk /\ gone.base = bare.base /\ gone.aside = bare.aside
        /\ gone.auto = [bare.auto EXCEPT ![p] = None]
    <2> HIDE DEF bare, p
    <2> QED BY <1>1, <1>2, ForgetAutoEffect
  <1>4. /\ disk' = disk \/ (p # session.name /\ disk' \in {bare, gone})
        /\ dialog' \in {NoDialog, Info}
        /\ autoSave' = SetPersistBusy(autoSave, FALSE)
        /\ UNCHANGED <<phase, pending, overwrite, page, rename, session,
                       savedName, saveAsPending, agreed, renamed, place>>
    BY DEF DeleteProject
  <1> HIDE DEF p, bare, gone
  <1>5. /\ disk' \in Disk /\ disk'.aside = disk.aside
        /\ place # "nowhere" => /\ disk'.base[savedName] = disk.base[savedName]
                                /\ disk'.auto[savedName] = disk.auto[savedName]
    BY <1>1, <1>2, <1>3, <1>4 DEF Disk
  <1>6. /\ autoSave' \in Coordinator
        /\ autoSave'.revision = autoSave.revision /\ autoSave'.persisted = autoSave.persisted
        /\ autoSave'.saving = autoSave.saving /\ autoSave'.saveAs = autoSave.saveAs
        /\ ~autoSave'.busy
    BY <1>4, BusyEffect DEF IInv, TypeOK
  <1>7. dialog' \in Dialog /\ dialog'.purpose \in {"None", "Info"}
    BY <1>4, DialogTypes
  <1> USE DEF IInv
  <1>8. TypeOK'
    BY <1>4, <1>5, <1>6, <1>7 DEF TypeOK
  <1>9. RevisionsCount' /\ QueueIsBusy' /\ RenameHoldsPage' /\ RenameIsTracked'
    BY <1>4, <1>6 DEF RevisionsCount, QueueIsBusy, RenameHoldsPage, RenameIsTracked
  <1>10. DialogsHold' /\ AgreedToThis' /\ PlaceIsKnown'
    BY <1>4, <1>5, <1>7 DEF DialogsHold, AgreedToThis, PlaceIsKnown
  <1>11. CleanMeansSaved' /\ CheckpointedMeansStored'
    BY <1>4, <1>5, <1>6, HeldParts DEF CleanMeansSaved, CheckpointedMeansStored,
           HasUnsavedChanges, Dirty
  <1> QED BY <1>8, <1>9, <1>10, <1>11

\* Confirming does what the dialog named.
LEMMA ConfirmKeeps ==
  ASSUME IInv, Confirm
  PROVE  IInv'
  <1>1. CASE dialog.purpose = "ConfirmNew" /\ Switch(Untitled, TRUE)
    BY <1>1, SwitchKeeps DEF Name
  <1>2. CASE dialog.purpose = "ConfirmLoad" /\ Switch(dialog.project, FALSE)
    BY <1>2, SwitchKeeps DEF IInv, DialogsHold
  <1>3. CASE dialog.purpose = "ConfirmDelete" /\ DeleteProject(dialog.project)
    BY <1>3, DeleteKeeps
  <1>4. CASE dialog.purpose = "ConfirmOverwrite" /\ OverwriteProject(dialog.project)
    BY <1>4, OverwriteKeeps
  <1> QED BY <1>1, <1>2, <1>3, <1>4 DEF Confirm

\* Nothing but the disk outlives the process, and a boot enters a project.
LEMMA PowerKeeps ==
  ASSUME IInv, Shutdown \/ PowerCut \/ Boot
  PROVE  IInv'
  <1>1. disk \in Disk /\ overwrite \in BOOLEAN /\ saveAsPending \in BOOLEAN
    BY DEF IInv, TypeOK
  <1>2. CASE Shutdown
    <2>1. Off
      BY <1>2 DEF Shutdown
    <2>2. CASE pending # "Project" /\ UNCHANGED disk
      BY <1>1, <2>1, <2>2, OffKeeps
    <2>3. CASE \E succeeded \in BOOLEAN : SessionAutoSave(succeeded, disk')
      BY <2>1, <2>3, AutoSaveEffect, OffKeeps DEF IInv
    <2>4. CASE \E result \in Outcome : SaveProject(saveAsPending, overwrite, result, disk')
      BY <1>1, <2>1, <2>4, SaveEffect, OffKeeps DEF IInv
    <2> QED BY <1>2, <2>2, <2>3, <2>4 DEF Shutdown
  <1>3. CASE PowerCut
    BY <1>1, <1>3, OffKeeps DEF PowerCut
  <1>4. CASE Boot
    <2>1. CASE SwitchOpens(Untitled, FALSE) \/ SwitchOpens(Untitled, TRUE)
      BY <1>4, <2>1, OpensKeeps DEF Boot, Name
    <2>2. CASE /\ disk' \in GivenUp(disk) \cup {InPlace(d, Untitled) : d \in Recoveries(disk)}
                               \cup Purged(disk)
               /\ UNCHANGED <<autoSave, page, dialog, rename, session, savedName,
                              saveAsPending, renamed, place>>
      <3>1. disk' \in Disk
        BY <1>1, <2>2, UntouchedDisk, RecoveriesKeep, ReplacingKeeps, InPlaceKeeps,
           PurgedKeeps DEF Name, OnlyUntitled
      <3>2. place = "nowhere" /\ UNCHANGED <<phase, pending, overwrite, agreed>>
        BY <1>4 DEF Boot, IInv, PlaceIsKnown
      <3> QED
        BY <2>2, <3>1, <3>2 DEF IInv, TypeOK, RevisionsCount, QueueIsBusy,
           RenameHoldsPage, RenameIsTracked, DialogsHold, AgreedToThis, PlaceIsKnown,
           CleanMeansSaved, CheckpointedMeansStored
    <2> QED BY <1>4, <2>1, <2>2 DEF Boot
  <1> QED BY <1>2, <1>3, <1>4

-----------------------------------------------------------------------------
(* The theorems. *)

\* A tick of the page or of the timer keeps the invariant.
LEMMA TickKeeps ==
  ASSUME IInv, Tick
  PROVE  IInv'
  <1>1. CASE PersistTick
    <2>1. /\ pending' = "None" /\ overwrite' = FALSE /\ phase' = "Idle"
          /\ UNCHANGED <<page, rename, session>> /\ page # "Off"
      BY <1>1 DEF Tick, PersistTick, ExecutePendingSave
    <2> QED BY <1>1, <2>1, ExecuteAutoSaveKeeps, ExecuteProjectSaveKeeps
            DEF PersistTick, ExecutePendingSave
  <1>2. ASSUME NEW running \in BOOLEAN, AutoSaveTick(running) PROVE IInv'
    BY <1>2, AutoSaveTickKeeps
  <1> QED BY <1>1, <1>2 DEF Tick

\* Every step keeps what the application remembers about the save to come.
THEOREM SavingInvariant == Spec => []IInv
  <1>1. IInv /\ [Next]_vars => IInv'
    <2> SUFFICES ASSUME IInv, [Next]_vars PROVE IInv'
      OBVIOUS
    <2>1. CASE UNCHANGED vars
      <3>1. UNCHANGED <<place, disk, savedName>>
        BY <2>1 DEF vars
      <3> QED
        BY <2>1, <3>1, HeldKept DEF vars, IInv, TypeOK, RevisionsCount, QueueIsBusy,
           RenameHoldsPage, RenameIsTracked, DialogsHold, AgreedToThis, PlaceIsKnown,
           CleanMeansSaved, CheckpointedMeansStored, HasUnsavedChanges, Dirty
    <2>2. CASE Next
      <3>1. CASE \/ Present \/ PressRename \/ CancelRename \/ Dismiss
                 \/ \E to \in {"Song", "Project", "Browser"} : Turn(to)
        BY <3>1, QuietSteps
      <3>2. CASE Tick \/ Edit \/ PressSave \/ Confirm
        BY <3>2, TickKeeps, EditKeeps, PressSaveKeeps, ConfirmKeeps
      <3>3. CASE \E n \in Named : FinishRename(n) \/ RequestLoad(n) \/ RequestDelete(n)
        BY <3>3, FinishRenameKeeps, RequestsKeep
      <3>4. CASE RequestNew
        BY <3>4, RequestNewKeeps
      <3>5. CASE Shutdown \/ PowerCut \/ Boot
        BY <3>5, PowerKeeps
      <3> QED BY <2>2, <3>1, <3>2, <3>3, <3>4, <3>5 DEF Next
    <2> QED BY <2>1, <2>2
  <1> QED BY <1>1, InitSaving, PTL DEF Spec

\* AutoSaveCoordinator says "nothing to save" only of a model that is the manual
\* save of the project it came from.
THEOREM CleanIsSaved == Spec => []CleanMeansSaved
  <1>1. IInv => CleanMeansSaved
    BY DEF IInv
  <1> QED BY <1>1, SavingInvariant, PTL

\* A checkpoint that is up to date holds the model.
THEOREM CheckpointIsStored == Spec => []CheckpointedMeansStored
  <1>1. IInv => CheckpointedMeansStored
    BY DEF IInv
  <1> QED BY <1>1, SavingInvariant, PTL

\* Save path and autosave policy agree on whether a rename is pending.
THEOREM RenameTracked == Spec => []RenameIsTracked
  <1>1. IInv => RenameIsTracked
    BY DEF IInv
  <1> QED BY <1>1, SavingInvariant, PTL

\* The autosave is not silenced for good.
THEOREM BusyEnds == Spec => []BusyOnlyWhileQueued
  <1>1. IInv => BusyOnlyWhileQueued
    BY DEF IInv, QueueIsBusy, BusyOnlyWhileQueued
  <1> QED BY <1>1, SavingInvariant, PTL

-----------------------------------------------------------------------------
(* What a step may do to the disk.                                         *)

AutosAtHome ==
  \A p \in Name : disk'.auto[p] \notin {disk.auto[p], None} =>
    \/ p = savedName \/ place = "nowhere"
    \/ p = Untitled /\ disk.aside # None /\ disk'.auto[p] = disk.aside.auto

OverwrittenWhenAsked ==
  \A p \in Named : Stored(p) /\ p # savedName /\ disk'.base[p] \notin {disk.base[p], None}
      => agreed = p \/ renamed \/ place = "nowhere"

NewIsHarmless ==
  session.loaded /\ session'.loaded /\ place' = "nowhere"
    => place = "nowhere" \/ disk.aside # None

\* A save writes no recovery file, and a project other than the open one only if
\* that was agreed.
LEMMA SaveDisk ==
  ASSUME IInv, NEW result \in Outcome,
         SaveProject(saveAsPending, overwrite, result, disk')
  PROVE  AutosAtHome /\ OverwrittenWhenAsked
  <1>1. /\ disk' = disk \/ Wrote(disk')
        /\ disk' # disk /\ saveAsPending => overwrite \/ ~Stored(session.name)
    BY SaveEffect DEF IInv, TypeOK
  <1>2. disk \in Disk /\ Named \subseteq Name
    BY DEF IInv, TypeOK, Name
  <1>3. CASE disk' = disk
    BY <1>3 DEF AutosAtHome, OverwrittenWhenAsked
  <1>4. CASE disk' # disk
    <2>1. AutosAtHome
      BY <1>1, <1>2, <1>4 DEF Wrote, AutosAtHome, Disk
    <2>2. ASSUME NEW p \in Named, Stored(p), p # savedName, place # "nowhere",
                 disk'.base[p] \notin {disk.base[p], None}
          PROVE  agreed = p \/ renamed
      <3>1. p = session.name
        BY <1>1, <1>2, <1>4, <2>2 DEF Wrote, Disk
      <3>2. session.loaded /\ (saveAsPending <=> session.name # savedName)
        BY <2>2 DEF IInv, PlaceIsKnown, RenameIsTracked
      <3> QED BY <1>1, <1>4, <2>2, <3>1, <3>2 DEF IInv, AgreedToThis
    <2> QED BY <2>1, <2>2 DEF OverwrittenWhenAsked
  <1> QED BY <1>3, <1>4

\* An autosave writes the recovery file of the open project.
LEMMA AutoSaveDisk ==
  ASSUME IInv, NEW running \in BOOLEAN, MayAutoSave(running),
         NEW succeeded \in BOOLEAN, SessionAutoSave(succeeded, disk')
  PROVE  AutosAtHome /\ OverwrittenWhenAsked
  <1>1. place # "nowhere" => session.name = savedName
    BY SongIsSaved
  <1>2. /\ disk'.base = disk.base
        /\ disk'.auto \in {disk.auto, [disk.auto EXCEPT ![session.name] = session.model]}
    BY AutoSaveEffect DEF IInv
  <1> QED BY <1>1, <1>2 DEF AutosAtHome, OverwrittenWhenAsked, IInv, TypeOK, Disk

\* What touches only the untitled project writes no recovery file anew and no
\* named project; removing a recovery file besides changes nothing about that.
LEMMA OnlyUntitledDisk ==
  ASSUME IInv, NEW e, OnlyUntitled(e), disk' \in Disk, disk'.base = e.base, NEW n,
         disk'.auto \in {e.auto, [e.auto EXCEPT ![n] = None]}
  PROVE  AutosAtHome /\ OverwrittenWhenAsked
  <1>1. \A p \in Name : disk'.auto[p] \in {e.auto[p], None}
    BY DEF OnlyUntitled, Disk
  <1>2. AutosAtHome
    BY <1>1 DEF OnlyUntitled, Recoverable, AutosAtHome, Name
  <1> QED BY <1>2 DEF OnlyUntitled, OverwrittenWhenAsked

\* A switch writes no recovery file and no named project.
LEMMA SwitchDisk ==
  ASSUME IInv, NEW p \in Name, NEW create \in BOOLEAN, Switch(p, create)
  PROVE  AutosAtHome /\ OverwrittenWhenAsked
  <1>1. CASE SwitchOpens(p, create)
    <2>1. PICK q \in Name : \E d \in Reached(q, p, create) :
            \E e \in IF q = Untitled THEN Tidied(d) ELSE {d} :
              disk' \in {e, IF session.loaded THEN ForgetAuto(e, session.name) ELSE e}
      BY <1>1 DEF SwitchOpens
    <2>2. PICK d \in Reached(q, p, create) :
            \E e \in IF q = Untitled THEN Tidied(d) ELSE {d} :
              disk' \in {e, IF session.loaded THEN ForgetAuto(e, session.name) ELSE e}
      BY <2>1
    <2>3. PICK e \in IF q = Untitled THEN Tidied(d) ELSE {d} :
            disk' \in {e, IF session.loaded THEN ForgetAuto(e, session.name) ELSE e}
      BY <2>2
    <2>4. /\ OnlyUntitled(e) /\ disk' \in Disk /\ disk'.base = d.base
          /\ disk'.auto \in {e.auto, [e.auto EXCEPT ![session.name] = None]}
      BY <2>3, OpenedDisk
    <2>5. e.base = d.base
      <3>1. OnlyUntitled(d)
        BY ReachedKeeps DEF IInv, TypeOK
      <3> QED BY <3>1, TidiedKeeps
    <2> QED BY <2>4, <2>5, OnlyUntitledDisk
  <1>2. CASE \/ SwitchRefused(create) \/ SwitchRollsBack(p, create)
             \/ SwitchFails(p, create)
    <2>1. OnlyUntitled(disk')
      BY <1>2, UnenteredDisk
    <2> QED BY <2>1, OnlyUntitledDisk DEF OnlyUntitled
  <1> QED BY <1>1, <1>2 DEF Switch

\* A New that fails leaves the saved copy where the application finds it, or aside.
LEMMA SwitchPlace ==
  ASSUME IInv, NEW p \in Name, NEW create \in BOOLEAN, Switch(p, create)
  PROVE  NewIsHarmless
  <1>1. CASE SwitchOpens(p, create)
    BY <1>1 DEF SwitchOpens, Entered, NewIsHarmless
  <1>2. CASE SwitchFails(p, create)
    BY <1>2 DEF SwitchFails, NewIsHarmless
  <1>3. CASE SwitchRefused(create) \/ SwitchRollsBack(p, create)
    <2> SUFFICES ASSUME session.loaded, session'.loaded, disk.aside = None,
                        place # "nowhere"
                 PROVE  place' # "nowhere"
      BY DEF NewIsHarmless
    <2>1. disk \in Disk /\ place = "home"
      BY DEF IInv, TypeOK, PlaceIsKnown
    <2>2. disk' \in {disk} \cup Recoveries(disk) \cup Begun(disk) \cup GivenUp(disk)
      BY <1>3 DEF SwitchRefused, SwitchRollsBack
    <2>3. disk' = disk \/ disk'.aside = Dir(disk, Untitled)
      BY <2>1, <2>2, NewIsUndone
    <2>4. Whereabouts
      BY <1>3 DEF SwitchRefused, SwitchRollsBack, Unentered
    <2> QED BY <2>1, <2>3, <2>4 DEF Whereabouts
  <1> QED BY <1>1, <1>2, <1>3 DEF Switch

\* A delete removes the autosave along with the project.
LEMMA DeleteDisk ==
  ASSUME IInv, dialog.purpose = "ConfirmDelete", DeleteProject(dialog.project)
  PROVE  AutosAtHome /\ OverwrittenWhenAsked
  <1> DEFINE p == dialog.project
             bare == Put(disk, p, None)
             gone == ForgetAuto(bare, p)
  <1>1. p \in Name /\ disk \in Disk /\ Named \subseteq Name
    BY DEF IInv, DialogsHold, TypeOK, Name
  <1>2. /\ bare \in Disk /\ bare.base = [disk.base EXCEPT ![p] = None]
        /\ bare.auto = disk.auto
    BY <1>1, PutEffect DEF Maybe
  <1>3. disk' \in {disk, bare, gone}
    BY DEF DeleteProject
  <1>4. gone.base = bare.base /\ gone.auto = [bare.auto EXCEPT ![p] = None]
    <2> HIDE DEF bare, p
    <2> QED BY <1>1, <1>2, ForgetAutoEffect
  <1> HIDE DEF p, bare, gone
  <1> QED BY <1>1, <1>2, <1>3, <1>4 DEF AutosAtHome, OverwrittenWhenAsked, Disk

\* Every step of the application.
LEMMA DiskSteps == IInv /\ [Next]_vars => AutosAtHome /\ OverwrittenWhenAsked
  <1> SUFFICES ASSUME IInv, [Next]_vars
               PROVE  AutosAtHome /\ OverwrittenWhenAsked
    OBVIOUS
  <1>1. CASE UNCHANGED disk
    BY <1>1 DEF AutosAtHome, OverwrittenWhenAsked
  <1>2. CASE Tick
    <2>1. CASE ExecuteAutoSave
      BY <1>1, <2>1, AutoSaveDisk DEF ExecuteAutoSave
    <2>2. CASE ExecuteProjectSave
      BY <2>2, SaveDisk DEF ExecuteProjectSave
    <2> QED BY <1>1, <1>2, <2>1, <2>2 DEF Tick, PersistTick, ExecutePendingSave, AutoSaveTick
  <1>3. CASE RequestNew \/ \E n \in Named : RequestLoad(n) \/ RequestDelete(n)
    BY <1>1, <1>3, SwitchDisk DEF RequestNew, RequestLoad, RequestDelete, Ask, Name
  <1>4. CASE Confirm
    <2>1. CASE dialog.purpose = "ConfirmNew" /\ Switch(Untitled, TRUE)
      BY <2>1, SwitchDisk DEF Name
    <2>2. CASE dialog.purpose = "ConfirmLoad" /\ Switch(dialog.project, FALSE)
      BY <2>2, SwitchDisk DEF IInv, DialogsHold
    <2>3. CASE dialog.purpose = "ConfirmDelete" /\ DeleteProject(dialog.project)
      BY <2>3, DeleteDisk
    <2>4. CASE dialog.purpose = "ConfirmOverwrite" /\ OverwriteProject(dialog.project)
      BY <1>1, <2>4 DEF OverwriteProject
    <2> QED BY <1>4, <2>1, <2>2, <2>3, <2>4 DEF Confirm
  <1>5. CASE Shutdown
    BY <1>1, <1>5, SaveDisk, AutoSaveDisk DEF Shutdown
  <1>6. CASE Boot
    BY <1>6 DEF Boot, IInv, PlaceIsKnown, AutosAtHome, OverwrittenWhenAsked
  <1> QED
    BY <1>1, <1>2, <1>3, <1>4, <1>5, <1>6
    DEF Next, Present, Edit, Turn, PressSave, PressRename, CancelRename, FinishRename,
        Dismiss, Ask, PowerCut, vars

\* No step but a switch changes where the saved copy is, unless a project is left.
LEMMA PlaceSteps == IInv /\ [Next]_vars => NewIsHarmless
  <1> SUFFICES ASSUME IInv, [Next]_vars PROVE NewIsHarmless
    OBVIOUS
  <1>1. CASE UNCHANGED place \/ place' = "home" \/ ~session'.loaded
    BY <1>1 DEF NewIsHarmless
  <1>2. CASE Tick
    <2>1. UNCHANGED place \/ place' = "home"
      BY <1>2 DEF Tick, PersistTick, AutoSaveTick, ExecutePendingSave, ExecuteAutoSave,
             ExecuteProjectSave, Outcome
    <2> QED BY <1>1, <2>1
  <1>3. CASE RequestNew \/ \E n \in Named : RequestLoad(n) \/ RequestDelete(n)
    BY <1>1, <1>3, SwitchPlace DEF RequestNew, RequestLoad, RequestDelete, Ask, Name
  <1>4. CASE Confirm
    <2>1. CASE dialog.purpose = "ConfirmNew" /\ Switch(Untitled, TRUE)
      BY <2>1, SwitchPlace DEF Name
    <2>2. CASE dialog.purpose = "ConfirmLoad" /\ Switch(dialog.project, FALSE)
      BY <2>2, SwitchPlace DEF IInv, DialogsHold
    <2>3. CASE DeleteProject(dialog.project) \/ OverwriteProject(dialog.project)
      BY <1>1, <2>3 DEF DeleteProject, OverwriteProject
    <2> QED BY <1>4, <2>1, <2>2, <2>3 DEF Confirm
  <1>5. CASE Shutdown \/ PowerCut
    <2>1. Off
      BY <1>5 DEF Shutdown, PowerCut
    <2>2. ~session'.loaded
      BY <2>1 DEF Off
    <2> QED BY <1>1, <2>2
  <1>6. CASE Boot
    BY <1>6 DEF Boot, IInv, PlaceIsKnown, NewIsHarmless
  <1> QED
    BY <1>1, <1>2, <1>3, <1>4, <1>5, <1>6
    DEF Next, Present, Edit, Turn, PressSave, PressRename, CancelRename, FinishRename,
        Dismiss, Ask, vars

\* ExecutePendingSave and Shutdown write a recovery file only into the directory of
\* the project the model came from; a recovery may bring back the one set aside.
THEOREM AutosavesAtHome == Spec => AutosaveStaysHome
  <1>1. IInv /\ [Next]_vars =>
          [\A p \in Name : disk.auto'[p] \notin {disk.auto[p], None} =>
             \/ p = savedName \/ place = "nowhere"
             \/ p = Untitled /\ disk.aside # None /\ disk.auto'[p] = disk.aside.auto]_vars
    BY DiskSteps DEF AutosAtHome
  <1> QED BY <1>1, SavingInvariant, PTL DEF Spec, AutosaveStaysHome

\* SaveProject overwrites a project other than the open one only if the user agreed,
\* unless a rename came in between or the application does not know what is open.
THEOREM OverwritesAsked == Spec => OverwriteWasAsked
  <1>1. IInv /\ [Next]_vars =>
          [\A p \in Named : Stored(p) /\ p # savedName
               /\ disk.base'[p] \notin {disk.base[p], None}
             => agreed = p \/ renamed \/ place = "nowhere"]_vars
    BY DiskSteps DEF OverwrittenWhenAsked
  <1> QED BY <1>1, SavingInvariant, PTL DEF Spec, OverwriteWasAsked

\* A New that fails keeps the open project's saved copy within reach, whether its
\* own rollback succeeds or not, unless it met an earlier replacement's leftovers.
THEOREM FailedNewIsHarmless == Spec => FailedNewKeepsProject
  <1>1. IInv /\ [Next]_vars =>
          [session.loaded /\ session'.loaded /\ place' = "nowhere"
             => place = "nowhere" \/ disk.aside # None]_vars
    BY PlaceSteps DEF NewIsHarmless
  <1> QED BY <1>1, SavingInvariant, PTL DEF Spec, FailedNewKeepsProject
=============================================================================
