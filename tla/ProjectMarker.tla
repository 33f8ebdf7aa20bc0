---------------------------- MODULE ProjectMarker -----------------------------
(***************************************************************************)
(* The current-project marker: /.current, /.current.tmp and /.current.bak. *)
(* SaveProjectState_ rewrites it, LoadCurrentProjectName reads it at boot  *)
(* (Application/Persistency/PersistencyService.cpp).  Both are sequences   *)
(* of file system calls that may be refused or cut off by a power loss.    *)
(*                                                                         *)
(* The module has the two procedures only; who calls them, and when power  *)
(* is lost, is left to the modules that instantiate it.  A procedure       *)
(* starts at "saveState" or "loadState" and ends at one of Returned.       *)
(***************************************************************************)
EXTENDS FaultyFiles

CONSTANTS
    Named,      \* projects the user has named
    Untitled,   \* the project .untitled
    Torn        \* a marker file that was being written when power was lost

ASSUME NameAssumption ==
    /\ Untitled \notin Named
    /\ {None, Torn} \cap (Named \cup {Untitled}) = {}
    /\ None # Torn

VARIABLES
    args,       \* SaveProjectState_: project name, retainPreviousBackup, previous name
    loadable,   \* the projects that exist and validate
    answer      \* LoadCurrentProjectName: the project it selected

Name == Named \cup {Untitled}
Marker == {"current", "stateTemp", "stateBackup"}
Returned == {"saved", "saveFailed", "loaded", "loadFailed"}
RewriteAt == {"saveState", "clearStateTemp", "writeState", "sealState", "dropStateTemp",
           "replaceState", "cleanStateBackup", "removeCurrent", "installState",
           "compareMarkers", "sameDropTemp", "sameDropBackup", "sameDropBackupAnyway",
           "fallbackRemove", "fallbackInstall", "fallbackDropTemp", "keepCurrent",
           "swapState", "restoreState", "dropKept"}
LoadAt == {"loadState", "recoverFromBackup", "readCurrent", "dropStale", "retryBackup",
           "installBackup", "rereadBackup", "retryTemp", "installTemp", "rereadTemp",
           "giveUp", "giveUpTemp", "fallBack"}
SaveArgs == [name : Name, retain : BOOLEAN, prev : Name \cup {None}]

\* The first of the marker files that names a loadable project, in the order
\* in which a boot that meets no fault tries them.
Selected ==
    LET order == IF Exists("current") THEN <<"current", "stateBackup", "stateTemp">>
                 ELSE <<"stateTemp", "stateBackup", "current">>
        good(i) == file[order[i]] \in loadable
    IN IF good(1) THEN file[order[1]] ELSE IF good(2) THEN file[order[2]]
       ELSE IF good(3) THEN file[order[3]] ELSE Untitled

markerFrame == <<args, answer, loadable, calm>>
DropIfPresent(p, yes, no) == DeleteCall(p, yes, no) /\ UNCHANGED markerFrame
RenameOr(p, q, yes, no) == MoveCall(p, q, yes, no) /\ UNCHANGED markerFrame
\* if (DeleteFile(p)) goto yes; goto no;  deleting a missing file fails
DeleteOr(p, yes, no) ==
    (\E done \in BOOLEAN : Delete(p, done) /\ Branch(done, yes, no)) /\ UNCHANGED markerFrame

-----------------------------------------------------------------------------
(***************************************************************************)
(* SaveProjectState_(name, retain, prev)                                   *)
(***************************************************************************)
\* Seeded fault: the previous marker is never written to .current.bak.
RetainNothing ==
    pc = "saveState" /\ Goto("clearStateTemp") /\ file' = file /\ UNCHANGED markerFrame

\* A new untitled project keeps the marker it replaces in .current.bak until it
\* has been restored once; a backup of some other project is a conflict.
RetainPrevious ==
    /\ pc = "saveState"
    /\ \/ ~(args.retain /\ args.prev # None) /\ Goto("clearStateTemp") /\ file' = file
       \/ args.retain /\ args.prev # None /\ file["stateBackup"] = args.prev
          /\ Goto("clearStateTemp") /\ file' = file
       \/ args.retain /\ args.prev # None /\ file["stateBackup"] \notin {None, args.prev}
          /\ Goto("saveFailed") /\ file' = file
       \/ args.retain /\ args.prev # None /\ ~Exists("stateBackup")
          /\ file' = [file EXCEPT !["stateBackup"] = args.prev]
          /\ \/ Goto("clearStateTemp")
             \/ ~calm /\ Goto("saveFailed")
       \/ ~calm /\ Goto("saveFailed") /\ file' = file
    /\ UNCHANGED markerFrame

ClearStateTemp ==
    pc = "clearStateTemp" /\ DropIfPresent("stateTemp", "writeState", "saveFailed")

WriteState ==
    /\ pc = "writeState"
    /\ \/ file' = [file EXCEPT !["stateTemp"] = Torn] /\ Goto("sealState")
       \/ ~calm /\ file' = file /\ Goto("saveFailed")
    /\ UNCHANGED markerFrame

SealState ==
    /\ pc = "sealState"
    /\ \/ file' = [file EXCEPT !["stateTemp"] = args.name] /\ Goto("replaceState")
       \/ ~calm /\ file' = file /\ Goto("dropStateTemp")
    /\ UNCHANGED markerFrame

DropStateTemp ==
    pc = "dropStateTemp" /\ DropIfPresent("stateTemp", "saveFailed", "saveFailed")

ReplaceState ==
    /\ pc = "replaceState"
    /\ \E done \in BOOLEAN :
          /\ Move("stateTemp", "current", done)
          /\ Goto(IF done THEN (IF args.retain THEN "saved" ELSE "cleanStateBackup")
                  ELSE IF file'["current"] = None THEN "dropStateTemp"
                  ELSE IF args.retain THEN "removeCurrent"
                  ELSE IF file'["stateBackup"] # None THEN "compareMarkers"
                  ELSE "keepCurrent")
    /\ UNCHANGED markerFrame

CleanStateBackup ==
    pc = "cleanStateBackup" /\ DropIfPresent("stateBackup", "saved", "saved")

\* FAT, previous marker retained: the old current marker gives way.
RemoveCurrent == pc = "removeCurrent" /\ DeleteOr("current", "installState", "saveFailed")
InstallState ==
    pc = "installState" /\ RenameOr("stateTemp", "current", "saved", "saveFailed")

\* FAT, a backup exists already: which marker has the requested name decides.
CompareMarkers ==
    /\ pc = "compareMarkers" /\ file' = file
    /\ \/ file["current"] = args.name /\ Goto("sameDropTemp")
       \/ /\ file["current"] # args.name \/ ~calm
          /\ \/ file["stateBackup"] = args.name /\ Goto("fallbackRemove")
             \/ (file["stateBackup"] # args.name \/ ~calm) /\ Goto("dropStateTemp")
    /\ UNCHANGED markerFrame

SameDropTemp ==
    pc = "sameDropTemp" /\ DeleteOr("stateTemp", "sameDropBackup", "sameDropBackupAnyway")
SameDropBackup == pc = "sameDropBackup" /\ DeleteOr("stateBackup", "saved", "saveFailed")
SameDropBackupAnyway ==
    pc = "sameDropBackupAnyway" /\ DeleteOr("stateBackup", "saveFailed", "saveFailed")

FallbackRemove ==
    pc = "fallbackRemove" /\ DeleteOr("current", "fallbackInstall", "saveFailed")
FallbackInstall ==
    pc = "fallbackInstall" /\ RenameOr("stateBackup", "current", "fallbackDropTemp", "saveFailed")
FallbackDropTemp ==
    pc = "fallbackDropTemp" /\ DropIfPresent("stateTemp", "saved", "saveFailed")

\* Seeded fault: the old marker is deleted instead of kept.
RemoveInsteadOfKeep == pc = "keepCurrent" /\ DeleteOr("current", "swapState", "dropStateTemp")
\* FAT, no backup: keep the old marker aside for the two renames.
KeepCurrent ==
    pc = "keepCurrent" /\ RenameOr("current", "stateBackup", "swapState", "dropStateTemp")
SwapState == pc = "swapState" /\ RenameOr("stateTemp", "current", "dropKept", "restoreState")
\* Seeded fault: a save that had to restore the old marker reports success.
RestoreReportsSaved ==
    pc = "restoreState" /\ RenameOr("stateBackup", "current", "saved", "dropStateTemp")
RestoreState ==
    pc = "restoreState" /\ RenameOr("stateBackup", "current", "dropStateTemp", "dropStateTemp")
DropKept == pc = "dropKept" /\ DeleteOr("stateBackup", "saved", "saveFailed")

SaveProjectState ==
    \/ RetainPrevious \/ ClearStateTemp \/ WriteState \/ SealState \/ DropStateTemp
    \/ ReplaceState \/ CleanStateBackup \/ RemoveCurrent \/ InstallState \/ CompareMarkers
    \/ SameDropTemp \/ SameDropBackup \/ SameDropBackupAnyway \/ FallbackRemove
    \/ FallbackInstall \/ FallbackDropTemp \/ KeepCurrent \/ SwapState \/ RestoreState
    \/ DropKept

-----------------------------------------------------------------------------
(***************************************************************************)
(* LoadCurrentProjectName, after its transaction recovery.                 *)
(***************************************************************************)
\* A missing marker is first recovered from the temporary, then from the backup.
LoadState ==
    /\ pc = "loadState"
    /\ \/ Exists("current") /\ file' = file /\ Goto("readCurrent")
       \/ ~Exists("current") /\ Exists("stateTemp")
          /\ MoveCall("stateTemp", "current", "readCurrent",
                      IF Exists("stateBackup") THEN "recoverFromBackup" ELSE "loadFailed")
       \/ ~Exists("current") /\ ~Exists("stateTemp") /\ Exists("stateBackup")
          /\ MoveCall("stateBackup", "current", "readCurrent", "loadFailed")
    /\ UNCHANGED markerFrame

\* Without any marker an existing untitled project is selected; an autosave
\* alone selects it too, and with neither the boot has to create a project.
SelectExistingUntitled ==
    /\ pc = "loadState" /\ \A p \in Marker : ~Exists(p)
    /\ \/ answer' = Untitled /\ Goto("loaded")
       \/ (Untitled \notin loadable \/ ~calm) /\ answer' = answer /\ Goto("loadFailed")
    /\ UNCHANGED <<file, args, loadable, calm>>

RecoverFromBackup ==
    pc = "recoverFromBackup" /\ RenameOr("stateBackup", "current", "readCurrent", "loadFailed")

\* readValidState: accepted goes to yes with the answer, anything else to no.
ReadValidState(yes, no) ==
    /\ \/ file["current"] \in loadable /\ answer' = file["current"] /\ Goto(yes)
       \/ (file["current"] \notin loadable \/ ~calm) /\ Goto(no) /\ answer' = answer
    /\ UNCHANGED <<file, args, loadable, calm>>

\* Seeded fault: an invalid marker is not replaced by the synced backup.
ReadCurrentIgnoresBackup == pc = "readCurrent" /\ ReadValidState("dropStale", "retryTemp")
ReadCurrent ==
    /\ pc = "readCurrent"
    /\ ReadValidState("dropStale", IF Exists("stateBackup") THEN "retryBackup" ELSE "retryTemp")
DropStale == pc = "dropStale" /\ DropIfPresent("stateTemp", "loaded", "loaded")

RetryBackup == pc = "retryBackup" /\ DropIfPresent("current", "installBackup", "retryTemp")
InstallBackup ==
    pc = "installBackup" /\ RenameOr("stateBackup", "current", "rereadBackup", "retryTemp")
RereadBackup == pc = "rereadBackup" /\ ReadValidState("dropStale", "retryTemp")

RetryTemp ==
    /\ pc = "retryTemp"
    /\ \/ ~Exists("stateTemp") /\ file' = file /\ Goto("giveUp") /\ UNCHANGED markerFrame
       \/ Exists("stateTemp") /\ DropIfPresent("current", "installTemp", "giveUp")
InstallTemp == pc = "installTemp" /\ RenameOr("stateTemp", "current", "rereadTemp", "giveUp")
RereadTemp == pc = "rereadTemp" /\ ReadValidState("loaded", "giveUp")

GiveUp == pc = "giveUp" /\ DropIfPresent("current", "giveUpTemp", "giveUpTemp")
GiveUpTemp == pc = "giveUpTemp" /\ DropIfPresent("stateTemp", "fallBack", "fallBack")
FallBack ==
    /\ pc = "fallBack"
    /\ \/ answer' = Untitled /\ Goto("loaded")
       \/ ~calm /\ answer' = answer /\ Goto("loadFailed")
    /\ UNCHANGED <<file, args, loadable, calm>>

LoadCurrentProjectName ==
    \/ LoadState \/ SelectExistingUntitled \/ RecoverFromBackup \/ ReadCurrent \/ DropStale
    \/ RetryBackup \/ InstallBackup \/ RereadBackup \/ RetryTemp \/ InstallTemp
    \/ RereadTemp \/ GiveUp \/ GiveUpTemp \/ FallBack
=============================================================================
