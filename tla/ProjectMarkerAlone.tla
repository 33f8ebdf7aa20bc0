-------------------------- MODULE ProjectMarkerAlone --------------------------
(***************************************************************************)
(* The marker procedures under the callers the session has: a boot selects *)
(* a project, later ones are opened (a plain rewrite) or replaced by a new *)
(* untitled project (a rewrite that retains the previous marker), projects *)
(* come and go, and power is lost anywhere.                                *)
(*                                                                         *)
(* Here calm is chosen for each operation: whether its calls may be        *)
(* refused and its reads may fail.  Power is lost in calm ones as well.    *)
(***************************************************************************)
EXTENDS ProjectMarker

VARIABLES
    session,    \* the project the session works on
    expected,   \* ghost: what the running boot has to select
    allowed     \* ghost: the projects a boot may select now

markerVars == <<file, calm, pc, args, loadable, answer, session, expected, allowed>>

\* With a good current marker the others do not count.  Without it, a boot that
\* is cut off after it has removed a bad current marker leaves the next one to
\* choose between the others in the opposite order.
Candidates ==
    {Selected} \cup (IF file["current"] \in loadable THEN {}
                    ELSE {file["stateTemp"], file["stateBackup"]} \cap loadable)

MarkerInit ==
    /\ file = [p \in Marker |-> None]
    /\ pc = "off" /\ calm \in BOOLEAN
    /\ args = [name |-> Untitled, retain |-> FALSE, prev |-> None]
    /\ loadable = {} /\ answer = Untitled
    /\ session = Untitled /\ expected = Untitled /\ allowed = {Untitled}

Boot ==
    /\ pc = "off" /\ Goto("loadState") /\ calm' \in BOOLEAN
    /\ expected' = Selected
    /\ UNCHANGED <<file, args, loadable, answer, session, allowed>>

\* Without a selection the session creates the untitled project.
Booted ==
    /\ pc \in {"loaded", "loadFailed"} /\ Goto("idle")
    /\ session' = IF pc = "loaded" THEN answer ELSE Untitled
    /\ loadable' = loadable \cup {session'}
    /\ UNCHANGED <<file, calm, args, answer, expected, allowed>>

\* A save that keeps the previous marker may fail back to it.  Nothing is claimed
\* of a save that starts without a good current marker: earlier operations were
\* refused and have reported failure.
Retained == {file["stateBackup"]} \cap loadable

\* Only a new untitled project retains the marker of the project it replaces.
BeginRewrite ==
    /\ pc = "idle" /\ Goto("saveState") /\ calm' \in BOOLEAN
    /\ \E a \in SaveArgs :
          /\ a.name \in loadable
          /\ a.retain => a.name = Untitled
          /\ a.prev \in (IF a.retain THEN {None, session} ELSE {None})
          /\ args' = a
          /\ allowed' = IF file["current"] \notin loadable THEN Name
                         ELSE {file["current"], session, a.name} \cup (IF a.retain THEN Retained ELSE {})
    /\ UNCHANGED <<file, loadable, answer, session, expected>>

Saved ==
    /\ pc \in {"saved", "saveFailed"} /\ Goto("idle")
    /\ session' = IF pc = "saved" THEN args.name ELSE session
    /\ UNCHANGED <<file, calm, args, loadable, answer, expected, allowed>>

\* The next boot is held to what the markers now name.
PowerLoss ==
    /\ pc # "off" /\ Goto("off") /\ allowed' = Candidates
    /\ UNCHANGED <<file, calm, args, loadable, answer, session, expected>>

\* The browser deletes projects other than the one in use.
CreateOrDelete ==
    /\ pc = "idle" /\ UNCHANGED <<file, calm, pc, args, answer, session, expected>>
    /\ \E n \in Name \ {session} :
          loadable' = IF n \in loadable THEN loadable \ {n} ELSE loadable \cup {n}
    /\ allowed' = Candidates'

Run == (SaveProjectState \/ LoadCurrentProjectName) /\ UNCHANGED <<session, expected, allowed>>

MarkerNext == Boot \/ Run \/ Booted \/ BeginRewrite \/ Saved \/ PowerLoss \/ CreateOrDelete
MarkerSpec == MarkerInit /\ [][MarkerNext]_markerVars

-----------------------------------------------------------------------------
\* Wherever power is lost in a save, refused calls or not, or in a boot that
\* meets no other fault, the next boot selects what the markers selected when
\* the operation began, the project in use, or the one being saved: never a
\* project none of them names, and never none.
PointerSurvives ==
    (\/ pc \in RewriteAt \cup {"saved", "saveFailed"}
     \/ pc \in LoadAt \cup {"loaded", "loadFailed"} /\ calm)
    => Selected \in allowed

\* A save that reports success is what the next boot reads, even when cleaning
\* up the backup failed.
SavedIsCurrent == pc = "saved" => file["current"] = args.name

\* A boot that meets no fault selects the project the markers held when power
\* was lost, and only finds none when they name none.
BootHonoursMarkers ==
    /\ pc = "loaded" /\ calm => answer = expected
    /\ pc = "loadFailed" /\ calm => expected = Untitled

\* The old marker only gives way once the retained one is on the medium.
RetainedBeforeReplaced ==
    [][(pc \in RewriteAt /\ args.retain /\ args.prev # None /\ file'["current"] # file["current"])
          => (args.prev = file["stateBackup"])]_markerVars
=============================================================================
