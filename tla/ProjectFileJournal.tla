-------------------------- MODULE ProjectFileJournal --------------------------
(***************************************************************************)
(* The three-file journal behind every project save: a destination, a      *)
(* temporary and a backup path on a file system that may refuse any call   *)
(* and may lose power between any two of them                              *)
(* (Application/Persistency/ProjectFileJournal.h).  One action is one file *)
(* system call together with the decision the code takes on its result.    *)
(*                                                                         *)
(* A payload is an opaque generation; Invalid is a file whose XML does not *)
(* parse.  The session saves and opens the journal of a project and saves  *)
(* and discards that of its recovery sidecar; here one journal meets all   *)
(* three operations, in any order.                                         *)
(***************************************************************************)
EXTENDS FaultyFiles

CONSTANTS
    Generation,   \* payloads a save may write
    Invalid       \* a file that does not validate

ASSUME ContentAssumption ==
    /\ None \notin Generation
    /\ Invalid \notin Generation
    /\ None # Invalid

VARIABLES
    op,        \* the running operation
    source,    \* Recover: the path it decided to install
    owed,      \* ghost: the generation the last finished operation left the user
    attempt,   \* ghost: the other generation a power loss may leave now
    misread    \* ghost: Recover took a valid file for a corrupt one

vars == <<file, pc, op, source, owed, attempt, misread, calm>>
ghosts == <<owed, attempt, misread>>

Path == {"destination", "temporary", "backup"}
Content == Generation \cup {None, Invalid}

RecoverAt == {"recover", "dropStaleTemp", "clearDestination", "install",
              "dropOther", "recovered", "unrecovered"}
SaveAt == {"clearTemp", "write", "seal", "dropTemp", "replace", "clearBackup",
           "keep", "swap", "restore", "cleanup"}
OpenAt == {"load", "rejected", "promoteClearTemp", "promoteClearDestination",
           "promote", "finalizeTemp", "finalizeBackup"}
DiscardAt == {"discardTemp", "discardBackup", "discardDestination"}
Label == {"idle", "ok", "failed"} \cup RecoverAt \cup SaveAt \cup OpenAt \cup DiscardAt

TypeOK ==
    /\ file \in [Path -> Content]
    /\ pc \in Label
    /\ op \in {"none", "save", "open", "discard"}
    /\ source \in {"temporary", "backup"}
    /\ owed \in Generation \cup {None}
    /\ attempt \in Generation \cup {None}
    /\ misread \in BOOLEAN
    /\ calm \in BOOLEAN

-----------------------------------------------------------------------------
Intact(p) == file[p] \in Generation

\* What a recovery that meets no fault makes of the files it finds.
Outcome == IF Intact("destination") THEN file["destination"]
           ELSE IF Intact("backup") THEN file["backup"]
           ELSE IF Intact("temporary") THEN file["temporary"]
           ELSE None

\* The validator never accepts an invalid file; a read error makes it refuse a good one.
Verdict(p) == {v \in BOOLEAN : (v => Intact(p)) /\ (calm => (Intact(p) => v))}

frame == <<op, source, ghosts, calm>>

DeleteIfPresent(p, yes, no) == DeleteCall(p, yes, no) /\ UNCHANGED frame
MoveOr(p, q, yes, no) == MoveCall(p, q, yes, no) /\ UNCHANGED frame

Init ==
    /\ file = [p \in Path |-> None]
    /\ pc = "idle" /\ op = "none" /\ source = "backup"
    /\ owed = None /\ attempt = None
    /\ misread = FALSE /\ calm = FALSE

-----------------------------------------------------------------------------
(***************************************************************************)
(* Recover.                                                                *)
(***************************************************************************)
Classify ==
    /\ pc = "recover"
    /\ \E d \in Verdict("destination"), b \in Verdict("backup"), t \in Verdict("temporary") :
          /\ misread' = (\/ misread
                         \/ d # Intact("destination")
                         \/ ~d /\ (b # Intact("backup") \/ t # Intact("temporary")))
          /\ source' = IF b THEN "backup" ELSE "temporary"
          /\ Goto(IF d THEN "dropStaleTemp"
                  ELSE IF b \/ t THEN "clearDestination" ELSE "recovered")
    /\ UNCHANGED <<file, op, owed, attempt, calm>>

\* Seeded fault: the uncommitted temporary is left beside a valid destination.
KeepStaleTemp ==
    /\ pc = "dropStaleTemp" /\ Goto("recovered")
    /\ UNCHANGED <<file, op, source, ghosts, calm>>

DropStaleTemp ==
    pc = "dropStaleTemp" /\ DeleteIfPresent("temporary", "recovered", "recovered")
ClearDestination ==
    pc = "clearDestination" /\ DeleteIfPresent("destination", "install", "unrecovered")
Install ==
    pc = "install" /\ MoveOr(source, "destination", "dropOther", "unrecovered")
DropOther ==
    /\ pc = "dropOther"
    /\ DeleteIfPresent(IF source = "backup" THEN "temporary" ELSE "backup",
                       "recovered", "recovered")

\* Recover returns to the save or to the load that called it.  A load whose
\* second Recover fails still tries the backup.
RecoverReturns ==
    /\ \/ pc = "recovered" /\ Goto(IF op = "save" THEN "clearTemp" ELSE "load")
       \/ pc = "unrecovered" /\ Goto("failed")
       \/ pc = "unrecovered" /\ op = "open" /\ Goto("rejected")
    /\ UNCHANGED <<file, op, source, ghosts, calm>>

Recover == Classify \/ DropStaleTemp \/ ClearDestination \/ Install \/ DropOther
           \/ RecoverReturns

-----------------------------------------------------------------------------
(***************************************************************************)
(* SaveAtomically.                                                         *)
(***************************************************************************)
Fresh == Generation \ ({file[p] : p \in Path} \cup {owed})

BeginSave ==
    /\ pc = "idle"
    /\ \E g \in Fresh : attempt' = g
    /\ op' = "save" /\ Goto("recover")
    /\ UNCHANGED <<file, source, owed, misread, calm>>

ClearTemp == pc = "clearTemp" /\ DeleteIfPresent("temporary", "write", "failed")

\* Opening for writing truncates, so the temporary is invalid until it is synced.
Write ==
    /\ pc = "write"
    /\ \/ file' = [file EXCEPT !["temporary"] = Invalid] /\ Goto("seal")
       \/ ~calm /\ file' = file /\ Goto("dropTemp")
    /\ UNCHANGED frame

Seal ==
    /\ pc = "seal"
    /\ \/ file' = [file EXCEPT !["temporary"] = attempt] /\ Goto("replace")
       \/ ~calm /\ file' = [file EXCEPT !["temporary"] = attempt] /\ Goto("dropTemp")
       \/ ~calm /\ file' = file /\ Goto("dropTemp")
    /\ UNCHANGED frame

DropTemp == pc = "dropTemp" /\ DeleteIfPresent("temporary", "failed", "failed")

Replace ==
    /\ pc = "replace"
    /\ \E done \in BOOLEAN :
          /\ Move("temporary", "destination", done)
          /\ Goto(IF done THEN "cleanup"
                  ELSE IF file'["destination"] = None THEN "dropTemp" ELSE "clearBackup")
    /\ UNCHANGED frame

ClearBackup == pc = "clearBackup" /\ DeleteIfPresent("backup", "keep", "dropTemp")
\* Seeded fault: the old destination is deleted instead of kept as the backup.
DeleteInsteadOfKeep == pc = "keep" /\ DeleteIfPresent("destination", "swap", "dropTemp")
Keep == pc = "keep" /\ MoveOr("destination", "backup", "swap", "dropTemp")
Swap == pc = "swap" /\ MoveOr("temporary", "destination", "cleanup", "restore")
\* Seeded fault: a save that had to restore the old file reports success.
RestoreReportsSuccess == pc = "restore" /\ MoveOr("backup", "destination", "ok", "dropTemp")
Restore == pc = "restore" /\ MoveOr("backup", "destination", "dropTemp", "dropTemp")
Cleanup == pc = "cleanup" /\ DeleteIfPresent("backup", "ok", "ok")

SaveAtomically == BeginSave \/ ClearTemp \/ Write \/ Seal \/ DropTemp \/ Replace
                  \/ ClearBackup \/ Keep \/ Swap \/ Restore \/ Cleanup

-----------------------------------------------------------------------------
(***************************************************************************)
(* The load transaction around Recover: semantic restore of the            *)
(* destination, else of the backup, which is then promoted, and Finalize.  *)
(***************************************************************************)
BeginOpen ==
    /\ pc = "idle"
    /\ op' = "open" /\ Goto("recover")
    /\ UNCHANGED <<file, source, ghosts, calm>>

\* Seeded fault: the journal is finalized without looking at the destination.
LoadTrustsRecover ==
    /\ pc = "load" /\ Goto("finalizeTemp")
    /\ UNCHANGED <<file, op, source, ghosts, calm>>

\* Restoring a valid file may still be rejected by the model.
Load ==
    /\ pc = "load"
    /\ \/ Intact("destination") /\ Goto("finalizeTemp")
       \/ Goto("rejected")
    /\ UNCHANGED <<file, op, source, ghosts, calm>>

\* The backup must validate and restore before it may replace the destination;
\* once it has, it is the generation the user is working on.
Rejected ==
    /\ pc = "rejected"
    /\ \/ /\ Intact("backup") /\ Goto("promoteClearTemp")
          /\ owed' = file["backup"] /\ attempt' = Outcome
       \/ Goto("failed") /\ UNCHANGED <<owed, attempt>>
    /\ UNCHANGED <<file, op, source, misread, calm>>

PromoteClearTemp ==
    /\ pc = "promoteClearTemp"
    /\ DeleteIfPresent("temporary", "promoteClearDestination", "failed")
PromoteClearDestination ==
    /\ pc = "promoteClearDestination"
    /\ DeleteIfPresent("destination", "promote", "failed")

\* The promoted file is validated once more; a read error reports failure.
Promote ==
    /\ pc = "promote"
    /\ \/ MoveOr("backup", "destination", "finalizeTemp", "failed")
       \/ ~calm /\ MoveOr("backup", "destination", "failed", "failed")

FinalizeTemp == pc = "finalizeTemp" /\ DeleteIfPresent("temporary", "finalizeBackup", "failed")
FinalizeBackup == pc = "finalizeBackup" /\ DeleteIfPresent("backup", "ok", "failed")

OpenProject == BeginOpen \/ Load \/ Rejected \/ PromoteClearTemp
               \/ PromoteClearDestination \/ Promote \/ FinalizeTemp \/ FinalizeBackup

-----------------------------------------------------------------------------
(***************************************************************************)
(* Discard, and what surrounds an operation.                               *)
(***************************************************************************)
BeginDiscard ==
    /\ pc = "idle"
    /\ op' = "discard" /\ attempt' = None /\ Goto("discardTemp")
    /\ UNCHANGED <<file, source, owed, misread, calm>>

\* Seeded fault: the authoritative destination is discarded before the backup.
DiscardDestinationFirst ==
    pc = "discardTemp" /\ DeleteIfPresent("temporary", "discardDestination", "failed")
DiscardTemp == pc = "discardTemp" /\ DeleteIfPresent("temporary", "discardBackup", "failed")
DiscardBackup ==
    pc = "discardBackup" /\ DeleteIfPresent("backup", "discardDestination", "failed")
DiscardDestination ==
    pc = "discardDestination" /\ DeleteIfPresent("destination", "ok", "failed")

Discard == BeginDiscard \/ DiscardTemp \/ DiscardBackup \/ DiscardDestination

\* From here on the user is owed what the files now yield.
Settle ==
    /\ owed' = Outcome /\ attempt' = Outcome /\ misread' = FALSE
    /\ op' = "none" /\ Goto("idle")
    /\ UNCHANGED <<file, source, calm>>

Return == pc \in {"ok", "failed"} /\ Settle
Crash == pc # "idle" /\ ~calm /\ Settle

\* The medium corrupts an installed file while no operation runs.
Decay ==
    /\ pc = "idle" /\ ~calm /\ Intact("destination")
    /\ file' = [file EXCEPT !["destination"] = Invalid]
    /\ owed' = Outcome' /\ attempt' = Outcome'
    /\ UNCHANGED <<pc, op, source, misread, calm>>

BecomeCalm ==
    /\ ~calm /\ calm' = TRUE
    /\ UNCHANGED <<file, pc, op, source, ghosts>>

Next == Recover \/ SaveAtomically \/ OpenProject \/ Discard \/ Return \/ Crash
        \/ Decay \/ BecomeCalm

\* A started operation keeps executing; the environment owes nothing.
Spec == Init /\ [][Next]_vars /\ WF_vars(pc # "idle" /\ Next)

-----------------------------------------------------------------------------
(***************************************************************************)
(* Properties.                                                             *)
(***************************************************************************)
\* Whatever call is refused and wherever power is lost, the next recovery
\* yields what the last finished operation left, or what the running one is
\* installing: never an older backup, never nothing.
CommittedGenerationSurvives == ~misread => Outcome \in {owed, attempt}

\* A save that reports success has its own payload at the destination, so the
\* next load shows it whatever siblings were left behind.
ReportedSaveIsInstalled ==
    op = "save" /\ pc = "ok" => file["destination"] = attempt

\* Even when read errors mislead Recover, a valid backup is only removed while
\* another valid generation stands in for it, also when the medium has corrupted
\* a destination, unless the user asked for the discard.
BackupOutlivesDoubt ==
    [][Intact("backup") /\ file'["backup"] # file["backup"] /\ op # "discard"
          => Outcome' # None]_vars

\* Once faults stop, an open that finds any valid generation ends with it
\* installed and with no temporary left.
OpenSettles ==
    (calm /\ op = "open" /\ pc = "recover" /\ Outcome # None)
        ~> (pc = "idle" /\ Intact("destination") /\ ~Exists("temporary"))
=============================================================================
