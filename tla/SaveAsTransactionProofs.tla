----------------------- MODULE SaveAsTransactionProofs -----------------------
(***************************************************************************)
(* Save As keeps its promises for every set of names and of contents.      *)
(* For a name whose promise counts (it is not tainted), what its user must *)
(* find is in its directory or in its backup (Kept); a backup is the only  *)
(* copy exactly when the directory is not whole (BackupIsOwed); and a      *)
(* half deleted directory, which still validates, stands beside a backup   *)
(* only while recovery is deleting it (NoFalseHome), so that recovery      *)
(* never takes one for the project and deletes the backup.                 *)
(***************************************************************************)
EXTENDS SaveAsTransaction, TLAPS

Directory == Generation \cup {Gutted, Husk, None}

RecoveryAt == {"dropStage", "dropBackup", "dropHome", "restore", "dropLoneStage"}
SaveAt == {"fill", "displace", "install", "discard", "putBack", "cleanup"}
AfterStage == {"idle", "dropBackup", "dropHome", "restore", "dropLoneStage",
               "putBack", "failed"}

TypeOK ==
  /\ file \in [Path -> Directory]
  /\ calm \in BOOLEAN
  /\ target \in Target \cup {None} /\ saving \in Target \cup {None}
  /\ existed \in BOOLEAN
  /\ after \in AfterStage
  /\ kept \in [Target -> Generation \cup {None}]
  /\ tainted \subseteq Target

\* Who works on a name knows which; the stage is complete when it is moved.
Working ==
  /\ pc \in RecoveryAt \cup SaveAt \cup {"deleting"} => target \in Target
  /\ pc = "recovered" => saving \in Target
  /\ pc = "dropStage" => after \in RecoveryAt \ {"dropStage"}
  /\ pc \in {"fill", "displace"} => after = "failed"
  /\ pc = "discard" => after \in {"putBack", "failed"}
  /\ pc \in {"displace", "install"} => Whole(Stage(target))

\* Where recovery stands once it has judged a name, stage dropped or not.
Doing(label) == pc = label \/ (pc = "dropStage" /\ after = label)

\* What recovery found when it judged holds until it acts.
Judged ==
  /\ Doing("restore") => Exists(Backup(target)) /\ ~Exists(Home(target))
  /\ Doing("dropHome") => Exists(Backup(target))

\* What recovery or a Save As replaces by a directory is not needed any more.
Replaced ==
  Doing("dropBackup") \/ pc = "cleanup"
    => target \in tainted \/ file[Home(target)] = kept[target]

Kept(t) == kept[t] # None => kept[t] \in {file[Home(t)], file[Backup(t)]}
Committed(t) == Whole(Home(t)) => file[Home(t)] = kept[t]
BackupIsOwed(t) == ~Whole(Home(t)) /\ Whole(Backup(t)) => file[Backup(t)] = kept[t]
NoFalseHome(t) ==
  Exists(Backup(t)) /\ file[Home(t)] = Gutted => pc = "dropHome" /\ target = t

Owed(t) == Kept(t) /\ Committed(t) /\ BackupIsOwed(t) /\ NoFalseHome(t)

\* A calm boot does not fail, and is ready only when it left nothing.
CalmBoot ==
  calm => /\ pc # "bootFailed"
          /\ pc = "ready" => \A t \in Target : ~InJournal(t)

IInv ==
  /\ TypeOK
  /\ Working
  /\ Judged
  /\ Replaced
  /\ CalmBoot
  /\ \A t \in Target \ tainted : Owed(t)

USE DirectoryAssumption

-----------------------------------------------------------------------------
(* What the file system calls do. *)

\* No two names, and no two uses of one name, share a path.
LEMMA Paths ==
  /\ \A t \in Target : Home(t) \in Path /\ Backup(t) \in Path /\ Stage(t) \in Path
  /\ \A t, u \in Target : /\ Home(t) # Backup(u) /\ Home(t) # Stage(u)
                          /\ Backup(t) # Stage(u)
                          /\ t # u => /\ Home(t) # Home(u) /\ Backup(t) # Backup(u)
                                      /\ Stage(t) # Stage(u)
  BY DEF Home, Backup, Stage, Path

\* A deletion stops anywhere: nothing done, half done, or the directory gone.
LEMMA DropEffect ==
  ASSUME file \in [Path -> Directory], NEW p \in Path, NEW yes, NEW no,
         DropDirectory(p, yes, no)
  PROVE  /\ file' \in [Path -> Directory]
         /\ \A q \in Path \ {p} : file'[q] = file[q]
         /\ \/ file' = file /\ pc' = yes /\ ~Exists(p)
            \/ file' = file /\ pc' = no /\ ~calm
            \/ /\ file[p] \in Generation \cup {Gutted} /\ file'[p] \in {Gutted, Husk}
               /\ file' # file /\ pc' = pc
            \/ file[p] = Husk /\ file'[p] = None /\ pc' = yes /\ file' # file
  <1>1. CASE ~Exists(p) /\ file' = file /\ Goto(yes)
    BY <1>1 DEF Goto
  <1>2. CASE DeleteProject(p, yes, no)
    <2>1. CASE \E rest \in {Gutted, Husk} :
                 /\ file[p] \in Generation \/ (file[p] = Gutted /\ rest = Husk)
                 /\ file' = [file EXCEPT ![p] = rest] /\ pc' = pc
      BY <2>1 DEF Directory
    <2>2. CASE file[p] = Husk /\ file' = Without(p) /\ Goto(yes)
      BY <2>2 DEF Without, Goto, Directory
    <2>3. CASE ~calm /\ file' = file /\ Goto(no)
      BY <2>3 DEF Goto
    <2> QED BY <1>2, <2>1, <2>2, <2>3 DEF DeleteProject
  <1> QED BY <1>1, <1>2 DEF DropDirectory

\* A directory is moved as a whole, to where none is, or stays.
LEMMA MoveEffect ==
  ASSUME file \in [Path -> Directory], NEW p \in Path, NEW q \in Path, p # q,
         NEW yes, NEW no, MoveDirectory(p, q, yes, no)
  PROVE  /\ file' \in [Path -> Directory]
         /\ \A r \in Path \ {p, q} : file'[r] = file[r]
         /\ \/ /\ Exists(p) /\ ~Exists(q) /\ file'[q] = file[p] /\ file'[p] = None
               /\ file' # file /\ (pc' = yes \/ (~calm /\ pc' = no))
            \/ /\ file' = file /\ pc' = no
               /\ calm => ~Exists(p) \/ Exists(q)
  <1>1. CASE Exists(q) /\ file' = file /\ Goto(no)
    BY <1>1 DEF Goto
  <1>2. CASE ~Exists(q) /\ MoveCall(p, q, yes, no)
    <2>1. PICK done \in BOOLEAN : Move(p, q, done) /\ Branch(done, yes, no)
      BY <1>2 DEF MoveCall
    <2>2. pc' = IF done THEN yes ELSE no
      BY <2>1 DEF Branch, Goto
    <2>3. CASE file' = file
      <3>1. ~done
        BY <1>2, <2>1, <2>3 DEF Move, Moved, Exists
      <3> QED BY <2>1, <2>2, <2>3, <3>1 DEF Move, MayRefuse
    <2>4. CASE file' # file
      <3>1. Exists(p) /\ file' = Moved(p, q) /\ (done \/ ~calm)
        BY <2>1, <2>4 DEF Move
      <3> QED BY <1>2, <2>2, <2>4, <3>1 DEF Moved, Directory
    <2> QED BY <2>3, <2>4
  <1> QED BY <1>1, <1>2 DEF MoveDirectory

-----------------------------------------------------------------------------
(* Frames. *)

\* What is owed of a name does not change while its files and ghosts do not.
LEMMA OwedKept ==
  ASSUME NEW u \in Target, Owed(u),
         file'[Home(u)] = file[Home(u)], file'[Backup(u)] = file[Backup(u)],
         kept'[u] = kept[u],
         pc = "dropHome" /\ target = u =>
           \/ pc' = "dropHome" /\ target' = u
           \/ file[Home(u)] # Gutted
  PROVE  Owed(u)'
  BY DEF Owed, Kept, Committed, BackupIsOwed, NoFalseHome, Whole, Exists, Home, Backup

\* Steps that move no project and no backup.
Elsewhere ==
  /\ \A u \in Target : /\ file'[Home(u)] = file[Home(u)]
                       /\ file'[Backup(u)] = file[Backup(u)]
  /\ UNCHANGED ghosts

\* They owe what was owed.
LEMMA ElsewhereOwes ==
  ASSUME \A t \in Target \ tainted : Owed(t), Elsewhere, pc # "dropHome"
  PROVE  \A t \in (Target \ tainted)' : Owed(t)'
  BY OwedKept DEF Elsewhere, ghosts

\* Steps that only one name's project or backup feels.
OnlyAt(t) ==
  \A u \in Target \ {t} : /\ file'[Home(u)] = file[Home(u)]
                          /\ file'[Backup(u)] = file[Backup(u)]
                          /\ kept'[u] = kept[u]
                          /\ u \in tainted' <=> u \in tainted

\* They owe the others what was owed.
LEMMA OthersOwed ==
  ASSUME \A t \in Target \ tainted : Owed(t), NEW t \in Target, OnlyAt(t),
         pc = "dropHome" => target = t,
         t \notin tainted' => Owed(t)'
  PROVE  \A u \in (Target \ tainted)' : Owed(u)'
  BY OwedKept DEF OnlyAt

-----------------------------------------------------------------------------
(* Recovery. *)

\* What recovery decides about a name it decides from what is there.
LEMMA ScanKeeps ==
  ASSUME IInv, Scan, UNCHANGED calm
  PROVE  IInv'
  <1>1. pc = "scan" /\ UNCHANGED <<file, saving, existed, ghosts>>
    BY DEF Scan, locals
  <1>2. Elsewhere
    BY <1>1 DEF Elsewhere
  <1>3. \A t \in (Target \ tainted)' : Owed(t)'
    BY <1>1, <1>2, ElsewhereOwes DEF IInv
  <1>4. CASE ~calm /\ Goto(Ended(FALSE)) /\ UNCHANGED locals
    <2>1. pc' \in {"bootFailed", "failed"}
      BY <1>4 DEF Goto, Ended
    <2>2. TypeOK' /\ Working' /\ Judged' /\ Replaced' /\ CalmBoot'
      BY <1>1, <1>4, <2>1
      DEF IInv, TypeOK, Working, Judged, Replaced, CalmBoot, Doing, locals, ghosts,
          RecoveryAt, SaveAt
    <2> QED BY <1>3, <2>2 DEF IInv
  <1>5. CASE (\A t \in Target : ~InJournal(t)) /\ Goto(Ended(TRUE)) /\ UNCHANGED locals
    <2>1. pc' = IF saving = None THEN "ready" ELSE "recovered"
      BY <1>5 DEF Goto, Ended
    <2>2. \A t \in Target : ~InJournal(t)'
      BY <1>1, <1>5 DEF InJournal, Exists
    <2>3. TypeOK' /\ Working' /\ Judged' /\ Replaced' /\ CalmBoot'
      BY <1>1, <1>5, <2>1, <2>2
      DEF IInv, TypeOK, Working, Judged, Replaced, CalmBoot, Doing, locals, ghosts,
          RecoveryAt, SaveAt
    <2> QED BY <1>3, <2>3 DEF IInv
  <1>6. CASE \E t \in Target, misread \in BOOLEAN :
               /\ InJournal(t) /\ (misread => ~calm)
               /\ target' = t
               /\ after' = Judgement(t, Validates(Home(t)) /\ ~misread)
               /\ Goto(IF Exists(Backup(t)) THEN "dropStage" ELSE after')
    <2>1. PICK t \in Target, valid \in BOOLEAN :
            /\ valid => Validates(Home(t))
            /\ target' = t
            /\ after' = Judgement(t, valid)
            /\ pc' = IF Exists(Backup(t)) THEN "dropStage" ELSE after'
      BY <1>6 DEF Goto
    <2>2. /\ after' \in {"dropLoneStage", "restore", "dropBackup", "dropHome"}
          /\ pc' \in {"dropStage", after'}
          /\ after' # "dropLoneStage" => Exists(Backup(t))
          /\ after' = "restore" => ~Exists(Home(t))
          /\ after' = "dropBackup" => Validates(Home(t))
      BY <2>1 DEF Judgement
    <2>3. Exists(Backup(t))' = Exists(Backup(t)) /\ Exists(Home(t))' = Exists(Home(t))
      BY <1>1 DEF Exists
    <2>4. ASSUME after' = "dropBackup", t \notin tainted
          PROVE  file[Home(t)] = kept[t]
      <3>1. file[Home(t)] # Gutted
        BY <1>1, <2>2, <2>4 DEF IInv, Owed, NoFalseHome
      <3> QED BY <2>2, <2>4, <3>1 DEF IInv, Owed, Committed, Validates, Whole
    <2>5. TypeOK' /\ Working' /\ CalmBoot'
      BY <1>1, <2>1, <2>2
      DEF IInv, TypeOK, Working, CalmBoot, locals, ghosts, RecoveryAt, SaveAt, AfterStage
    <2>6. Judged'
      BY <2>1, <2>2, <2>3 DEF Judged, Doing
    <2>7. Replaced'
      BY <1>1, <2>1, <2>2, <2>4 DEF Replaced, Doing, ghosts
    <2> QED BY <1>3, <2>5, <2>6, <2>7 DEF IInv
  <1> QED BY <1>4, <1>5, <1>6 DEF Scan

\* Dropping a stage moves no project and no backup.
LEMMA StageElsewhere ==
  ASSUME IInv, target \in Target, NEW yes, NEW no,
         DropDirectory(Stage(target), yes, no), UNCHANGED ghosts
  PROVE  /\ file' \in [Path -> Directory]
         /\ Elsewhere
         /\ pc' \in {yes, no, pc}
         /\ calm => pc' \in {yes, pc}
         /\ \A t \in Target : /\ Exists(Home(t))' = Exists(Home(t))
                              /\ Exists(Backup(t))' = Exists(Backup(t))
  <1>1. Stage(target) \in Path
    BY Paths
  <1>2. file \in [Path -> Directory]
    BY DEF IInv, TypeOK
  <1>3. /\ file' \in [Path -> Directory]
        /\ \A q \in Path \ {Stage(target)} : file'[q] = file[q]
        /\ pc' \in {yes, no, pc}
        /\ calm => pc' \in {yes, pc}
    BY <1>1, <1>2, DropEffect
  <1>4. \A t \in Target : /\ file'[Home(t)] = file[Home(t)]
                          /\ file'[Backup(t)] = file[Backup(t)]
    BY <1>3, Paths
  <1> QED BY <1>3, <1>4 DEF Elsewhere, Exists

\* A stage is dropped before what was judged is done.
LEMMA DropStageKeeps ==
  ASSUME IInv, DropStage, UNCHANGED calm
  PROVE  IInv'
  <1>1. /\ pc = "dropStage" /\ DropDirectory(Stage(target), after, after)
        /\ UNCHANGED <<locals, ghosts>> /\ target \in Target
        /\ after \in RecoveryAt \ {"dropStage"}
    BY DEF DropStage, IInv, Working, RecoveryAt
  <1>2. /\ file' \in [Path -> Directory] /\ Elsewhere /\ pc' \in {"dropStage", after}
        /\ Exists(Home(target))' = Exists(Home(target))
        /\ Exists(Backup(target))' = Exists(Backup(target))
    <2>1. target' = target
      BY <1>1 DEF locals
    <2> QED BY <1>1, <2>1, StageElsewhere
  <1>3. \A t \in (Target \ tainted)' : Owed(t)'
    BY <1>1, <1>2, ElsewhereOwes DEF IInv
  <1>4. TypeOK' /\ Working' /\ CalmBoot'
    BY <1>1, <1>2
    DEF IInv, TypeOK, Working, CalmBoot, locals, ghosts, RecoveryAt, SaveAt
  <1>5. Judged' /\ Replaced'
    BY <1>1, <1>2 DEF IInv, Judged, Replaced, Doing, locals, ghosts, Elsewhere, RecoveryAt
  <1> QED BY <1>3, <1>4, <1>5 DEF IInv

\* A stage without a backup is never a project.
LEMMA DropLoneStageKeeps ==
  ASSUME IInv, DropLoneStage, UNCHANGED calm
  PROVE  IInv'
  <1>1. /\ pc = "dropLoneStage" /\ DropDirectory(Stage(target), "scan", Ended(TRUE))
        /\ UNCHANGED <<locals, ghosts>> /\ target \in Target
    BY DEF DropLoneStage, IInv, Working, RecoveryAt
  <1>2. /\ file' \in [Path -> Directory] /\ Elsewhere
        /\ pc' \in {"dropLoneStage", "scan", Ended(TRUE)}
        /\ calm => pc' \in {"dropLoneStage", "scan"}
    BY <1>1, StageElsewhere
  <1>3. Ended(TRUE) = IF saving = None THEN "ready" ELSE "recovered"
    BY DEF Ended
  <1>4. \A t \in (Target \ tainted)' : Owed(t)'
    BY <1>1, <1>2, ElsewhereOwes DEF IInv
  <1>5. TypeOK' /\ Working' /\ Judged' /\ Replaced' /\ CalmBoot'
    BY <1>1, <1>2, <1>3
    DEF IInv, TypeOK, Working, Judged, Replaced, CalmBoot, Doing, locals, ghosts,
        RecoveryAt, SaveAt
  <1> QED BY <1>4, <1>5 DEF IInv

\* A backup may go once the directory holds what its user must find.
LEMMA BackupGoes ==
  ASSUME IInv, NEW t \in Target, target = t, pc # "dropHome",
         t \in tainted \/ file[Home(t)] = kept[t],
         NEW yes, NEW no, DropDirectory(Backup(t), yes, no), UNCHANGED ghosts
  PROVE  /\ file' \in [Path -> Directory]
         /\ file'[Home(t)] = file[Home(t)]
         /\ pc' \in {yes, no, pc}
         /\ calm => pc' \in {yes, pc}
         /\ \A u \in (Target \ tainted)' : Owed(u)'
  <1>1. Backup(t) \in Path /\ Home(t) \in Path /\ Home(t) # Backup(t)
    BY Paths
  <1>2. file \in [Path -> Directory] /\ kept[t] \in Generation \cup {None}
    BY DEF IInv, TypeOK
  <1>3. /\ file' \in [Path -> Directory]
        /\ \A q \in Path \ {Backup(t)} : file'[q] = file[q]
        /\ file'[Backup(t)] = file[Backup(t)] \/ file'[Backup(t)] \in {Gutted, Husk, None}
        /\ pc' \in {yes, no, pc}
        /\ calm => pc' \in {yes, pc}
    BY <1>1, <1>2, DropEffect
  <1>4. file'[Home(t)] = file[Home(t)]
    BY <1>1, <1>3
  <1>5. OnlyAt(t)
    BY <1>3, Paths DEF OnlyAt, ghosts
  <1>6. ASSUME t \notin tainted'
        PROVE  Kept(t)' /\ Committed(t)' /\ BackupIsOwed(t)' /\ NoFalseHome(t)'
    <2>1. file[Home(t)] = kept[t] /\ kept'[t] = kept[t] /\ Owed(t)
      BY <1>6 DEF IInv, ghosts
    <2>2. file[Home(t)] # Gutted
      BY <1>2, <2>1
    <2>3. kept[t] # None => kept'[t] = file'[Home(t)]
      BY <1>4, <2>1
    <2>4. BackupIsOwed(t)'
      BY <1>3, <1>4, <2>1 DEF Owed, BackupIsOwed, Whole, Home, Backup
    <2> QED BY <1>4, <2>1, <2>2, <2>3, <2>4 DEF Kept, Committed, NoFalseHome, Home, Backup
  <1>7. t \notin tainted' => Owed(t)'
    BY <1>6 DEF Owed
  <1>8. \A u \in (Target \ tainted)' : Owed(u)'
    BY <1>5, <1>7, OthersOwed DEF IInv
  <1> QED BY <1>3, <1>4, <1>8

\* A backup is dropped only beside the directory that is owed.
LEMMA DropBackupKeeps ==
  ASSUME IInv, DropBackup, UNCHANGED calm
  PROVE  IInv'
  <1>1. /\ pc = "dropBackup" /\ DropDirectory(Backup(target), "scan", Ended(TRUE))
        /\ UNCHANGED <<locals, ghosts>> /\ target \in Target
        /\ target \in tainted \/ file[Home(target)] = kept[target]
    BY DEF DropBackup, IInv, Working, Replaced, Doing, RecoveryAt
  <1>2. /\ file' \in [Path -> Directory]
        /\ file'[Home(target)] = file[Home(target)]
        /\ pc' \in {"dropBackup", "scan", Ended(TRUE)}
        /\ calm => pc' \in {"dropBackup", "scan"}
        /\ \A t \in (Target \ tainted)' : Owed(t)'
    BY <1>1, BackupGoes
  <1>3. Ended(TRUE) = IF saving = None THEN "ready" ELSE "recovered"
    BY DEF Ended
  <1>4. TypeOK' /\ Working' /\ Judged' /\ CalmBoot'
    BY <1>1, <1>2, <1>3
    DEF IInv, TypeOK, Working, Judged, CalmBoot, Doing, locals, ghosts, RecoveryAt, SaveAt
  <1>5. Replaced'
    BY <1>1, <1>2, <1>3 DEF Replaced, Doing, locals, ghosts
  <1> QED BY <1>2, <1>4, <1>5 DEF IInv

\* A directory is deleted only beside a backup, which is what is owed from then
\* on, unless the code is known to break the promise.
LEMMA DropHomeKeeps ==
  ASSUME IInv, DropHome, UNCHANGED calm
  PROVE  IInv'
  <1>0. PICK t \in Target : target = t
    BY DEF DropHome, IInv, Working, RecoveryAt
  <1> DEFINE begun == Whole(Home(t)) /\ file' # file
             stopped == file[Home(t)] = Gutted /\ file' = file
  <1>1. /\ pc = "dropHome" /\ DropDirectory(Home(t), "restore", Ended(FALSE))
        /\ UNCHANGED locals /\ t \in Target /\ Exists(Backup(t))
        /\ kept' = IF begun /\ Whole(Backup(t))
                   THEN [kept EXCEPT ![t] = file[Backup(t)]] ELSE kept
        /\ tainted' = IF stopped \/ (begun /\ ~Whole(Backup(t)))
                      THEN tainted \cup {t} ELSE tainted
    BY <1>0 DEF DropHome, IInv, Judged, Doing
  <1>2. Backup(t) \in Path /\ Home(t) \in Path /\ Home(t) # Backup(t)
    BY <1>1, Paths
  <1>3. /\ file \in [Path -> Directory] /\ kept \in [Target -> Generation \cup {None}]
        /\ tainted \subseteq Target
    BY DEF IInv, TypeOK
  <1>4. /\ file' \in [Path -> Directory]
        /\ \A q \in Path \ {Home(t)} : file'[q] = file[q]
        /\ \/ file' = file /\ pc' = "restore" /\ ~Exists(Home(t))
           \/ file' = file /\ pc' = Ended(FALSE) /\ ~calm
           \/ /\ file[Home(t)] \in Generation \cup {Gutted}
              /\ file'[Home(t)] \in {Gutted, Husk}
              /\ file' # file /\ pc' = pc
           \/ /\ file[Home(t)] = Husk /\ file'[Home(t)] = None /\ pc' = "restore"
              /\ file' # file
    BY <1>1, <1>2, <1>3, DropEffect
  <1>5. Ended(FALSE) \in {"bootFailed", "failed"}
    BY DEF Ended
  <1>6. file'[Backup(t)] = file[Backup(t)] /\ target' = t
    BY <1>0, <1>1, <1>2, <1>4 DEF locals
  <1>7. kept' \in [Target -> Generation \cup {None}] /\ tainted' \subseteq Target
    BY <1>1, <1>3 DEF Whole
  <1>8. OnlyAt(t)
    BY <1>1, <1>3, <1>4, Paths DEF OnlyAt
  <1>9. ASSUME t \notin tainted'
        PROVE  Kept(t)' /\ Committed(t)' /\ BackupIsOwed(t)' /\ NoFalseHome(t)'
    <2>1. t \notin tainted /\ ~stopped /\ (begun => Whole(Backup(t)))
      BY <1>1, <1>9
    <2>2. Owed(t)
      BY <1>1, <2>1 DEF IInv
    <2>3. CASE begun
      <3>1. kept'[t] = file[Backup(t)] /\ ~(file'[Home(t)] \in Generation)
            /\ pc' = "dropHome"
        BY <1>1, <1>3, <1>4, <2>1, <2>3 DEF Whole
      <3> QED BY <1>0, <1>6, <3>1
              DEF Kept, Committed, BackupIsOwed, NoFalseHome, Whole, Home, Backup
    <2>4. CASE ~begun
      <3>1. kept' = kept /\ (file' # file => ~Whole(Home(t)))
        BY <1>1, <2>4
      <3>2. CASE file' = file
        <4>1. file[Home(t)] # Gutted
          BY <2>1, <3>2
        <4> QED BY <2>2, <3>1, <3>2, <4>1
                DEF Owed, Kept, Committed, BackupIsOwed, NoFalseHome, Whole, Home, Backup
      <3>3. CASE file' # file
        <4>1. file[Home(t)] \in {Gutted, Husk} /\ ~Whole(Home(t))
              /\ file'[Home(t)] \in {Gutted, Husk, None}
          BY <1>4, <3>1, <3>3 DEF Whole
        <4>2. file'[Home(t)] = Gutted => pc' = "dropHome"
          BY <1>1, <1>4, <3>3
        <4>3. kept[t] # None => kept[t] = file[Backup(t)]
          BY <1>1, <1>3, <2>2, <4>1 DEF Owed, Kept
        <4> QED BY <1>6, <2>2, <3>1, <4>1, <4>2, <4>3
                DEF Owed, Kept, Committed, BackupIsOwed, NoFalseHome, Whole, Home, Backup
      <3> QED BY <3>2, <3>3
    <2> QED BY <2>3, <2>4
  <1>10. \A u \in (Target \ tainted)' : Owed(u)'
    <2>1. t \notin tainted' => Owed(t)'
      BY <1>9 DEF Owed
    <2> QED BY <1>0, <1>1, <1>8, <2>1, OthersOwed DEF IInv
  <1>11. TypeOK' /\ Working' /\ CalmBoot'
    BY <1>0, <1>1, <1>4, <1>5, <1>7
    DEF IInv, TypeOK, Working, CalmBoot, locals, RecoveryAt, SaveAt
  <1>12. Judged' /\ Replaced'
    <2>1. Exists(Backup(t))'
      BY <1>1, <1>6 DEF Exists, Backup
    <2>2. pc' = "restore" => file'[Home(t)] = None
      BY <1>1, <1>4, <1>5 DEF Exists
    <2>3. pc' \in {"restore", "dropHome", "bootFailed", "failed"}
      BY <1>1, <1>4, <1>5
    <2> QED BY <1>6, <2>1, <2>2, <2>3 DEF Judged, Replaced, Doing, Exists, Home
  <1> QED BY <1>10, <1>11, <1>12 DEF IInv

\* A move from backup to directory: what comes back is what is owed.
LEMMA ComesBack ==
  ASSUME IInv, NEW t \in Target, target = t, pc # "dropHome", NEW yes, NEW no,
         MoveDirectory(Backup(t), Home(t), yes, no), UNCHANGED ghosts
  PROVE  /\ file' \in [Path -> Directory]
         /\ pc' \in {yes, no}
         /\ calm /\ Exists(Backup(t)) /\ ~Exists(Home(t)) => pc' = yes
         /\ \A u \in (Target \ tainted)' : Owed(u)'
  <1>1. Backup(t) \in Path /\ Home(t) \in Path /\ Home(t) # Backup(t)
    BY Paths
  <1>2. file \in [Path -> Directory] /\ kept[t] \in Generation \cup {None}
    BY DEF IInv, TypeOK
  <1>3. /\ file' \in [Path -> Directory]
        /\ \A r \in Path \ {Backup(t), Home(t)} : file'[r] = file[r]
        /\ \/ /\ Exists(Backup(t)) /\ ~Exists(Home(t))
              /\ file'[Home(t)] = file[Backup(t)] /\ file'[Backup(t)] = None
              /\ file' # file /\ (pc' = yes \/ (~calm /\ pc' = no))
           \/ /\ file' = file /\ pc' = no
              /\ calm => ~Exists(Backup(t)) \/ Exists(Home(t))
    BY <1>1, <1>2, MoveEffect
  <1>4. OnlyAt(t)
    BY <1>3, Paths DEF OnlyAt, ghosts
  <1>5. ASSUME t \notin tainted'
        PROVE  Kept(t)' /\ Committed(t)' /\ BackupIsOwed(t)' /\ NoFalseHome(t)'
    <2>1. kept'[t] = kept[t] /\ Owed(t)
      BY <1>5 DEF IInv, ghosts
    <2>2. CASE file' = file
      BY <2>1, <2>2 DEF Owed, Kept, Committed, BackupIsOwed, NoFalseHome, Whole, Exists,
                        Home, Backup
    <2>3. CASE file' # file
      <3>1. /\ file[Home(t)] = None /\ file'[Home(t)] = file[Backup(t)]
            /\ file'[Backup(t)] = None
        BY <1>3, <2>3 DEF Exists
      <3>2. kept[t] # None => kept[t] = file[Backup(t)]
        BY <2>1, <3>1 DEF Owed, Kept
      <3>3. file[Backup(t)] \in Generation => kept[t] = file[Backup(t)]
        BY <2>1, <3>1 DEF Owed, BackupIsOwed, Whole
      <3> QED BY <2>1, <3>1, <3>2, <3>3
              DEF Kept, Committed, BackupIsOwed, NoFalseHome, Whole, Exists, Home, Backup
    <2> QED BY <2>2, <2>3
  <1>6. \A u \in (Target \ tainted)' : Owed(u)'
    <2>1. t \notin tainted' => Owed(t)'
      BY <1>5 DEF Owed
    <2> QED BY <1>4, <2>1, OthersOwed DEF IInv
  <1> QED BY <1>3, <1>6

\* Recovery brings the backup back where no directory is.
LEMMA RestoreKeeps ==
  ASSUME IInv, Restore, UNCHANGED calm
  PROVE  IInv'
  <1>1. /\ pc = "restore" /\ MoveDirectory(Backup(target), Home(target), "scan", Ended(FALSE))
        /\ UNCHANGED <<locals, ghosts>> /\ target \in Target
        /\ Exists(Backup(target)) /\ ~Exists(Home(target))
    BY DEF Restore, IInv, Working, Judged, Doing, RecoveryAt
  <1>2. /\ file' \in [Path -> Directory]
        /\ pc' \in {"scan", Ended(FALSE)} /\ (calm => pc' = "scan")
        /\ \A t \in (Target \ tainted)' : Owed(t)'
    BY <1>1, ComesBack
  <1>3. Ended(FALSE) \in {"bootFailed", "failed"}
    BY DEF Ended
  <1>4. TypeOK' /\ Working' /\ Judged' /\ Replaced' /\ CalmBoot'
    BY <1>1, <1>2, <1>3
    DEF IInv, TypeOK, Working, Judged, Replaced, CalmBoot, Doing, locals, ghosts,
        RecoveryAt, SaveAt
  <1> QED BY <1>2, <1>4 DEF IInv

\* A Save As that could not install puts the old directory back.
LEMMA PutBackKeeps ==
  ASSUME IInv, PutBack, UNCHANGED calm
  PROVE  IInv'
  <1>1. /\ pc = "putBack" /\ MoveDirectory(Backup(target), Home(target), "failed", "failed")
        /\ UNCHANGED <<locals, ghosts>> /\ target \in Target
    BY DEF PutBack, IInv, Working, SaveAt
  <1>2. /\ file' \in [Path -> Directory] /\ pc' = "failed"
        /\ \A t \in (Target \ tainted)' : Owed(t)'
    BY <1>1, ComesBack
  <1>3. TypeOK' /\ Working' /\ Judged' /\ Replaced' /\ CalmBoot'
    BY <1>1, <1>2
    DEF IInv, TypeOK, Working, Judged, Replaced, CalmBoot, Doing, locals, ghosts,
        RecoveryAt, SaveAt
  <1> QED BY <1>2, <1>3 DEF IInv

-----------------------------------------------------------------------------
(* Save As. *)

\* Building the copy touches the stage alone.
LEMMA BuildKeeps ==
  ASSUME IInv, Create \/ Fill, UNCHANGED calm
  PROVE  IInv'
  <1> USE DEF TypeOK
  <1>1. PICK t \in Target, d \in Directory :
          /\ target' = t
          /\ file' \in {file, [file EXCEPT ![Stage(t)] = d]}
          /\ pc' \in {"failed", "fill", "discard", "displace"}
          /\ pc' = "displace" => file' = [file EXCEPT ![Stage(t)] = d] /\ d \in Generation
          /\ after' = "failed" \/ (after' = after /\ pc = "fill")
          /\ UNCHANGED <<saving, existed, ghosts>> /\ pc \in {"recovered", "fill"}
    <2>1. CASE Create
      <3>1. saving \in Target /\ Husk \in Directory
        BY <2>1 DEF Create, IInv, Working, Directory
      <3> QED BY <2>1, <3>1 DEF Create, Goto
    <2>2. CASE Fill
      <3>1. target \in Target /\ Generation \cup {Husk} \subseteq Directory
        BY <2>2 DEF Fill, IInv, Working, SaveAt, Directory
      <3> QED BY <2>2, <3>1 DEF Fill, Goto, locals
    <2> QED BY <2>1, <2>2
  <1>2. Stage(t) \in Path /\ file \in [Path -> Directory]
    BY Paths DEF IInv
  <1>3. file' \in [Path -> Directory]
    BY <1>1, <1>2
  <1>4. Elsewhere
    BY <1>1, <1>2, Paths DEF Elsewhere
  <1>5. \A u \in (Target \ tainted)' : Owed(u)'
    BY <1>1, <1>4, ElsewhereOwes DEF IInv
  <1>6. after' = "failed"
    BY <1>1 DEF IInv, Working
  <1>7. Working'
    <2>1. pc' = "displace" => file'[Stage(t)] \in Generation
      BY <1>1, <1>2
    <2> QED BY <1>1, <1>6, <2>1 DEF Working, Whole, Stage, RecoveryAt, SaveAt
  <1>8. TypeOK' /\ Judged' /\ Replaced' /\ CalmBoot'
    BY <1>1, <1>3, <1>6 DEF IInv, Judged, Replaced, CalmBoot, Doing, ghosts, AfterStage
  <1> QED BY <1>5, <1>7, <1>8 DEF IInv

\* The directory in the way becomes the backup.
LEMMA DisplaceKeeps ==
  ASSUME IInv, Displace, UNCHANGED calm
  PROVE  IInv'
  <1>0. PICK t \in Target : target = t
    BY DEF Displace, IInv, Working, SaveAt
  <1>1. /\ pc = "displace" /\ existed' = Exists(Home(t))
        /\ UNCHANGED <<target, saving, after, ghosts>>
        /\ Whole(Stage(t)) /\ after = "failed"
    BY <1>0 DEF Displace, IInv, Working
  <1>2. /\ Home(t) \in Path /\ Backup(t) \in Path /\ Stage(t) \in Path
        /\ Home(t) # Backup(t) /\ Home(t) # Stage(t) /\ Backup(t) # Stage(t)
    BY Paths
  <1>3. file \in [Path -> Directory]
    BY DEF IInv, TypeOK
  <1>4. /\ file' \in [Path -> Directory]
        /\ \A r \in Path \ {Home(t), Backup(t)} : file'[r] = file[r]
        /\ \/ /\ file[Backup(t)] = None /\ file'[Backup(t)] = file[Home(t)]
              /\ file[Home(t)] # None /\ file'[Home(t)] = None
           \/ file' = file
        /\ pc' \in {"install", "discard"}
    <2>1. CASE ~Exists(Home(t)) /\ file' = file /\ Goto("install")
      BY <1>3, <2>1 DEF Goto
    <2>2. CASE MoveDirectory(Home(t), Backup(t), "install", "discard")
      BY <1>2, <1>3, <2>2, MoveEffect DEF Exists
    <2> QED BY <1>0, <2>1, <2>2 DEF Displace
  <1>5. OnlyAt(t)
    BY <1>1, <1>4, Paths DEF OnlyAt, ghosts
  <1>6. ASSUME t \notin tainted'
        PROVE  Kept(t)' /\ Committed(t)' /\ BackupIsOwed(t)' /\ NoFalseHome(t)'
    <2>1. Owed(t) /\ kept'[t] = kept[t] /\ pc # "dropHome"
      BY <1>1, <1>6 DEF IInv, ghosts
    <2>2. CASE file' = file
      BY <2>1, <2>2 DEF Owed, Kept, Committed, BackupIsOwed, NoFalseHome, Whole, Exists,
                        Home, Backup
    <2>3. CASE /\ file[Backup(t)] = None /\ file'[Backup(t)] = file[Home(t)]
               /\ file'[Home(t)] = None
      <3>1. kept[t] # None => kept[t] = file[Home(t)]
        BY <2>1, <2>3 DEF Owed, Kept
      <3>2. file[Home(t)] \in Generation => file[Home(t)] = kept[t]
        BY <2>1 DEF Owed, Committed, Whole
      <3> QED BY <2>1, <2>3, <3>1, <3>2
              DEF Kept, Committed, BackupIsOwed, NoFalseHome, Whole, Exists, Home, Backup
    <2> QED BY <1>4, <2>2, <2>3
  <1>7. \A u \in (Target \ tainted)' : Owed(u)'
    <2>1. t \notin tainted' => Owed(t)'
      BY <1>6 DEF Owed
    <2> QED BY <1>0, <1>5, <2>1, OthersOwed DEF IInv
  <1>8. Working'
    <2>1. file'[Stage(t)] = file[Stage(t)]
      BY <1>2, <1>4
    <2> QED BY <1>0, <1>1, <1>4, <2>1 DEF Working, Whole, Stage, RecoveryAt, SaveAt
  <1>9. TypeOK'
    BY <1>1, <1>4 DEF IInv, TypeOK, ghosts, Exists
  <1>10. Judged' /\ Replaced' /\ CalmBoot'
    BY <1>1, <1>4 DEF Judged, Replaced, CalmBoot, Doing
  <1> QED BY <1>7, <1>8, <1>9, <1>10 DEF IInv

\* The rename of the stage is the commit: what it installs is owed from then on.
LEMMA InstallKeeps ==
  ASSUME IInv, Install, UNCHANGED calm
  PROVE  IInv'
  <1>0. PICK t \in Target : target = t
    BY DEF Install, IInv, Working, SaveAt
  <1>1. /\ pc = "install" /\ MoveDirectory(Stage(t), Home(t), "cleanup", "discard")
        /\ after' = (IF existed THEN "putBack" ELSE "failed")
        /\ IF file' # file
           THEN /\ kept' = [kept EXCEPT ![t] = file[Stage(t)]]
                /\ tainted' = tainted \ {t}
           ELSE UNCHANGED ghosts
        /\ UNCHANGED <<target, saving, existed>> /\ Whole(Stage(t))
    BY <1>0 DEF Install, IInv, Working
  <1>2. Home(t) \in Path /\ Stage(t) \in Path /\ Backup(t) \in Path
        /\ Home(t) # Stage(t) /\ Home(t) # Backup(t) /\ Backup(t) # Stage(t)
    BY Paths
  <1>3. /\ file \in [Path -> Directory] /\ kept \in [Target -> Generation \cup {None}]
        /\ tainted \subseteq Target
    BY DEF IInv, TypeOK
  <1>4. /\ file' \in [Path -> Directory]
        /\ \A r \in Path \ {Stage(t), Home(t)} : file'[r] = file[r]
        /\ \/ file'[Home(t)] = file[Stage(t)] /\ file' # file /\ pc' \in {"cleanup", "discard"}
           \/ file' = file /\ pc' = "discard"
    BY <1>1, <1>2, <1>3, MoveEffect
  <1>5. /\ kept' \in [Target -> Generation \cup {None}] /\ tainted' \subseteq Target
        /\ file' # file => kept'[t] = file'[Home(t)] /\ kept'[t] \in Generation
    BY <1>1, <1>3, <1>4 DEF ghosts, Whole
  <1>6. OnlyAt(t)
    BY <1>1, <1>3, <1>4, Paths DEF OnlyAt, ghosts
  <1>7. ASSUME t \notin tainted' PROVE Owed(t)'
    <2>1. CASE file' = file
      <3>1. Owed(t) /\ kept'[t] = kept[t]
        BY <1>1, <1>7, <2>1 DEF IInv, ghosts
      <3> QED BY <1>1, <2>1, <3>1, OwedKept
    <2>2. CASE file' # file
      <3>1. kept'[t] = file'[Home(t)] /\ kept'[t] \in Generation
        BY <1>5, <2>2
      <3>2. Kept(t)' /\ Committed(t)' /\ BackupIsOwed(t)' /\ NoFalseHome(t)'
        BY <3>1 DEF Kept, Committed, BackupIsOwed, NoFalseHome, Whole, Home, Backup
      <3> QED BY <3>2 DEF Owed
    <2> QED BY <2>1, <2>2
  <1>8. \A u \in (Target \ tainted)' : Owed(u)'
    BY <1>0, <1>1, <1>6, <1>7, OthersOwed DEF IInv
  <1>9. TypeOK' /\ Working' /\ Judged' /\ CalmBoot'
    BY <1>0, <1>1, <1>4, <1>5
    DEF IInv, TypeOK, Working, Judged, CalmBoot, Doing, AfterStage, RecoveryAt, SaveAt
  <1>10. Replaced'
    <2>1. pc' = "cleanup" => kept'[t] = file'[Home(t)]
      BY <1>4, <1>5
    <2>2. target' = t /\ pc' \in {"cleanup", "discard"}
      BY <1>0, <1>1, <1>4
    <2>3. after' # "dropBackup"
      BY <1>1
    <2> QED BY <2>1, <2>2, <2>3 DEF Replaced, Doing, Home
  <1> QED BY <1>8, <1>9, <1>10 DEF IInv

\* The stage of a Save As that failed is dropped, or left to recovery.
LEMMA DiscardKeeps ==
  ASSUME IInv, Discard, UNCHANGED calm
  PROVE  IInv'
  <1>1. /\ pc = "discard" /\ DropDirectory(Stage(target), after, after)
        /\ UNCHANGED <<locals, ghosts>> /\ target \in Target
        /\ after \in {"putBack", "failed"}
    BY DEF Discard, IInv, Working, SaveAt
  <1>2. file' \in [Path -> Directory] /\ Elsewhere /\ pc' \in {"discard", after}
    BY <1>1, StageElsewhere
  <1>3. \A t \in (Target \ tainted)' : Owed(t)'
    BY <1>1, <1>2, ElsewhereOwes DEF IInv
  <1>4. TypeOK' /\ Working' /\ Judged' /\ Replaced' /\ CalmBoot'
    BY <1>1, <1>2
    DEF IInv, TypeOK, Working, Judged, Replaced, CalmBoot, Doing, locals, ghosts,
        RecoveryAt, SaveAt
  <1> QED BY <1>3, <1>4 DEF IInv

\* The old directory goes once the new one is in its place.
LEMMA CleanupKeeps ==
  ASSUME IInv, Cleanup, UNCHANGED calm
  PROVE  IInv'
  <1>1. /\ pc = "cleanup" /\ UNCHANGED <<locals, ghosts>> /\ target \in Target
        /\ target \in tainted \/ file[Home(target)] = kept[target]
    BY DEF Cleanup, IInv, Working, Replaced, SaveAt
  <1>2. /\ file' \in [Path -> Directory]
        /\ file'[Home(target)] = file[Home(target)]
        /\ pc' \in {"saved", "failed", "cleanup"}
        /\ \A t \in (Target \ tainted)' : Owed(t)'
    <2>1. CASE file' = file /\ Goto("saved")
      <3>1. Elsewhere
        BY <1>1, <2>1 DEF Elsewhere
      <3>2. file \in [Path -> Directory] /\ \A t \in Target \ tainted : Owed(t)
        BY DEF IInv, TypeOK
      <3> QED BY <1>1, <2>1, <3>1, <3>2, ElsewhereOwes DEF Goto
    <2>2. CASE DropDirectory(Backup(target), "saved", "failed")
      BY <1>1, <2>2, BackupGoes
    <2> QED BY <2>1, <2>2 DEF Cleanup
  <1>3. TypeOK' /\ Working' /\ Judged' /\ CalmBoot'
    BY <1>1, <1>2
    DEF IInv, TypeOK, Working, Judged, CalmBoot, Doing, locals, ghosts, RecoveryAt, SaveAt
  <1>4. Replaced'
    BY <1>1, <1>2 DEF Replaced, Doing, locals, ghosts
  <1> QED BY <1>2, <1>3, <1>4 DEF IInv

-----------------------------------------------------------------------------
(* The user, and power. *)

\* Calls, returns and boots move nothing.
LEMMA QuietKeeps ==
  ASSUME IInv,
         \/ Return /\ UNCHANGED calm
         \/ \E t \in Target : SaveAs(t) \/ DeleteProjectOf(t)
         \/ Boot \/ Booted
  PROVE  IInv'
  <1>1. /\ UNCHANGED <<file, ghosts>> /\ calm' \in BOOLEAN
        /\ pc \in {"saved", "failed", "idle", "off", "ready", "bootFailed"}
        /\ pc' \in {"idle", "scan", "deleting", "off"}
        /\ target' \in Target \cup {None} /\ saving' \in Target \cup {None}
        /\ existed' \in BOOLEAN /\ after' \in AfterStage
        /\ pc' = "deleting" => target' \in Target
    BY DEF IInv, TypeOK, Return, SaveAs, DeleteProjectOf, Boot, Booted, Forget, Rest,
           Goto, locals, AfterStage
  <1>2. Elsewhere
    BY <1>1 DEF Elsewhere
  <1>3. \A t \in (Target \ tainted)' : Owed(t)'
    BY <1>1, <1>2, ElsewhereOwes DEF IInv
  <1>4. TypeOK' /\ Working' /\ Judged' /\ Replaced' /\ CalmBoot'
    BY <1>1
    DEF IInv, TypeOK, Working, Judged, Replaced, CalmBoot, Doing, ghosts, RecoveryAt,
        SaveAt
  <1> QED BY <1>3, <1>4 DEF IInv

\* A project the user deletes is owed no more; a backup beside it would return.
LEMMA DeletingKeeps ==
  ASSUME IInv, Deleting, UNCHANGED calm
  PROVE  IInv'
  <1>0. PICK t \in Target : target = t
    BY DEF Deleting, IInv, Working
  <1>1. /\ pc = "deleting" /\ DropDirectory(Home(t), "idle", "idle")
        /\ IF file' # file
           THEN /\ kept' = [kept EXCEPT ![t] = None]
                /\ tainted' = IF Exists(Backup(t)) THEN tainted \cup {t} ELSE tainted
           ELSE UNCHANGED ghosts
        /\ IF pc' = "idle" THEN Forget ELSE UNCHANGED locals
    BY <1>0 DEF Deleting
  <1>2. Home(t) \in Path /\ Backup(t) \in Path /\ Home(t) # Backup(t)
    BY Paths
  <1>3. /\ file \in [Path -> Directory] /\ kept \in [Target -> Generation \cup {None}]
        /\ tainted \subseteq Target
    BY DEF IInv, TypeOK
  <1>4. /\ file' \in [Path -> Directory]
        /\ \A q \in Path \ {Home(t)} : file'[q] = file[q]
        /\ pc' \in {"idle", "deleting"}
        /\ file' # file => file'[Home(t)] \in {Gutted, Husk, None}
    BY <1>1, <1>2, <1>3, DropEffect
  <1>5. kept' \in [Target -> Generation \cup {None}] /\ tainted' \subseteq Target
    BY <1>1, <1>3 DEF ghosts
  <1>6. OnlyAt(t)
    BY <1>1, <1>3, <1>4, Paths DEF OnlyAt, ghosts
  <1>7. ASSUME t \notin tainted' PROVE Owed(t)'
    <2>1. CASE file' = file
      <3>1. Owed(t) /\ kept'[t] = kept[t]
        BY <1>1, <1>7, <2>1 DEF IInv, ghosts
      <3> QED BY <1>1, <2>1, <3>1, OwedKept
    <2>2. CASE file' # file
      <3>1. kept'[t] = None /\ file[Backup(t)] = None /\ file'[Backup(t)] = None
        BY <1>1, <1>2, <1>3, <1>4, <1>7, <2>2 DEF Exists
      <3>2. Kept(t)' /\ Committed(t)' /\ BackupIsOwed(t)' /\ NoFalseHome(t)'
        BY <1>4, <2>2, <3>1
        DEF Kept, Committed, BackupIsOwed, NoFalseHome, Whole, Exists, Home, Backup
      <3> QED BY <3>2 DEF Owed
    <2> QED BY <2>1, <2>2
  <1>8. \A u \in (Target \ tainted)' : Owed(u)'
    BY <1>0, <1>1, <1>6, <1>7, OthersOwed DEF IInv
  <1>9. /\ target' \in Target \cup {None} /\ saving' \in Target \cup {None}
        /\ existed' \in BOOLEAN /\ after' \in AfterStage
        /\ pc' = "deleting" => target' \in Target
    BY <1>0, <1>1, <1>4 DEF IInv, TypeOK, Forget, Rest, locals, AfterStage
  <1>10. TypeOK' /\ Working' /\ Judged' /\ Replaced' /\ CalmBoot'
    BY <1>1, <1>4, <1>5, <1>9
    DEF IInv, TypeOK, Working, Judged, Replaced, CalmBoot, Doing, RecoveryAt, SaveAt
  <1> QED BY <1>8, <1>10 DEF IInv

\* Power goes in the middle of anything; the one place where that can break the
\* promise is while recovery deletes a directory that still validates.
LEMMA PowerLossKeeps ==
  ASSUME IInv, PowerLoss
  PROVE  IInv'
  <1>1. /\ pc' = "off" /\ UNCHANGED <<file, calm, kept>>
        /\ target' = None /\ saving' = None /\ existed' = FALSE /\ after' = "idle"
        /\ tainted \subseteq tainted'
        /\ pc = "dropHome" /\ file[Home(target)] = Gutted => target \in tainted'
        /\ tainted' \subseteq tainted \cup {target}
        /\ pc # "dropHome" => tainted' = tainted
    BY DEF PowerLoss, Goto, Forget, Rest
  <1>2. ASSUME NEW u \in Target, u \notin tainted' PROVE Owed(u)'
    <2>1. Owed(u)
      BY <1>1, <1>2 DEF IInv
    <2>2. pc = "dropHome" /\ target = u => file[Home(u)] # Gutted
      BY <1>1, <1>2
    <2> QED BY <1>1, <2>1, <2>2, OwedKept
  <1>3. tainted' \subseteq Target
    BY <1>1 DEF IInv, TypeOK, Working, RecoveryAt
  <1>4. TypeOK' /\ Working' /\ Judged' /\ Replaced' /\ CalmBoot'
    BY <1>1, <1>3
    DEF IInv, TypeOK, Working, Judged, Replaced, CalmBoot, Doing, RecoveryAt, SaveAt,
        AfterStage
  <1> QED BY <1>2, <1>4 DEF IInv

-----------------------------------------------------------------------------
(* The theorems. *)

\* The inductive invariant holds of every behaviour, for every set of names and
\* of contents.
THEOREM SaveAsInvariant == Spec => []IInv
  <1>1. Init => IInv
    BY DEF Init, Rest, IInv, TypeOK, Working, Judged, Replaced, CalmBoot, Doing, Owed, Kept,
           Committed, BackupIsOwed, NoFalseHome, Whole, Exists, Path, Home, Backup,
           Directory, AfterStage, RecoveryAt, SaveAt
  <1>2. IInv /\ [Next]_vars => IInv'
    <2> SUFFICES ASSUME IInv, [Next]_vars PROVE IInv'
      OBVIOUS
    <2>1. CASE RecoveryStep /\ UNCHANGED calm
      BY <2>1, ScanKeeps, DropStageKeeps, DropBackupKeeps, DropHomeKeeps, RestoreKeeps,
         DropLoneStageKeeps DEF RecoveryStep
    <2>2. CASE SaveStep /\ UNCHANGED calm
      BY <2>2, BuildKeeps, DisplaceKeeps, InstallKeeps, DiscardKeeps, PutBackKeeps,
         CleanupKeeps, QuietKeeps DEF SaveStep
    <2>3. CASE Deleting /\ UNCHANGED calm
      BY <2>3, DeletingKeeps
    <2>4. CASE PowerLoss
      BY <2>4, PowerLossKeeps
    <2>5. CASE (\E t \in Target : SaveAs(t) \/ DeleteProjectOf(t)) \/ Boot \/ Booted
      BY <2>5, QuietKeeps
    <2>6. CASE UNCHANGED vars
      BY <2>6
      DEF vars, locals, ghosts, IInv, TypeOK, Working, Judged, Replaced, CalmBoot, Doing,
          Owed, Kept, Committed, BackupIsOwed, NoFalseHome, Whole, Exists, InJournal,
          Home, Backup, Stage
    <2> QED BY <2>1, <2>2, <2>3, <2>4, <2>5, <2>6 DEF Next
  <1> QED BY <1>1, <1>2, PTL DEF Spec

\* Wherever a Save As, its recovery or the power stops, what a name stands for is
\* under the name or in its backup.
THEOREM ProjectsSurvive == Spec => []TargetSurvives
  <1>1. IInv => TargetSurvives
    BY DEF IInv, Owed, Kept, TargetSurvives
  <1> QED BY <1>1, SaveAsInvariant, PTL

\* What stands complete under a name was committed by a Save As and not replaced
\* since: recovery promotes no stage and brings back no replaced generation.
THEOREM OnlyCommitted == Spec => []OnlyCommittedProjectsAppear
  <1>1. IInv => OnlyCommittedProjectsAppear
    BY DEF IInv, Owed, Committed, OnlyCommittedProjectsAppear
  <1> QED BY <1>1, SaveAsInvariant, PTL

\* A boot that meets no fault succeeds, with nothing left over and every project
\* in its place, whatever happened before.
THEOREM CalmBootSettles == Spec => []BootSettles
  <1>1. IInv => BootSettles
    <2> SUFFICES ASSUME IInv, calm
                 PROVE  /\ pc # "bootFailed"
                        /\ pc = "ready" => \A t \in Target :
                             /\ ~InJournal(t)
                             /\ t \notin tainted /\ kept[t] # None
                                  => file[Home(t)] = kept[t]
      BY DEF BootSettles
    <2>1. pc = "ready" => \A t \in Target : ~InJournal(t) /\ file[Backup(t)] = None
      BY DEF IInv, CalmBoot, InJournal, Exists
    <2> QED BY <2>1 DEF IInv, CalmBoot, Owed, Kept
  <1> QED BY <1>1, SaveAsInvariant, PTL
=============================================================================
