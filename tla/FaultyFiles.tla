----------------------------- MODULE FaultyFiles ------------------------------
(***************************************************************************)
(* The file system as the persistence code sees it: a call may be refused, *)
(* and it may also take effect and still report failure, because the       *)
(* directory cannot be synced afterwards (PosixFileSystem.cpp,             *)
(* Adapters/node/filesystem/FileSystem.cpp).  A rename over an existing    *)
(* file replaces it on POSIX and is refused on FAT; the code is written    *)
(* for both, so here every such rename may do either.  Modules that use    *)
(* these calls add power loss between any two of them.                     *)
(***************************************************************************)
CONSTANT None   \* no such file

VARIABLES
    file,       \* what each path holds
    calm,       \* the environment has stopped injecting faults
    pc          \* where the running operation stands

Exists(p) == file[p] # None
Without(p) == [file EXCEPT ![p] = None]
Moved(p, q) == [file EXCEPT ![q] = file[p], ![p] = None]

Delete(p, done) ==
    \/ done /\ Exists(p) /\ file' = Without(p)
    \/ ~done /\ (Exists(p) => ~calm) /\ file' = file
    \/ ~done /\ ~calm /\ Exists(p) /\ file' = Without(p)

\* What a file system that meets no fault may still refuse.
MayRefuse(p, q) == ~Exists(p) \/ Exists(q)

Move(p, q, done) ==
    \/ done /\ Exists(p) /\ file' = Moved(p, q)
    \/ ~done /\ (MayRefuse(p, q) \/ ~calm) /\ file' = file
    \/ ~done /\ ~calm /\ Exists(p) /\ file' = Moved(p, q)

Goto(label) == pc' = label
Branch(done, yes, no) == Goto(IF done THEN yes ELSE no)

\* if (exists(p) && !DeleteFile(p)) goto no; goto yes;
DeleteCall(p, yes, no) ==
    \/ ~Exists(p) /\ file' = file /\ Goto(yes)
    \/ Exists(p) /\ \E done \in BOOLEAN : Delete(p, done) /\ Branch(done, yes, no)

\* if (MoveFile(p, q)) goto yes; goto no;
MoveCall(p, q, yes, no) ==
    \E done \in BOOLEAN : Move(p, q, done) /\ Branch(done, yes, no)
=============================================================================
