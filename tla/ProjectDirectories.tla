-------------------------- MODULE ProjectDirectories --------------------------
(***************************************************************************)
(* Project directories on the faulty file system.  They are renamed as a   *)
(* whole and deleted one entry at a time, so a deletion that is refused or *)
(* cut off leaves a directory whose project file still validates without   *)
(* its samples, or one without a project file                              *)
(* (PersistencyService::DeleteProject_, DeleteDirectoryContents_).         *)
(***************************************************************************)
EXTENDS FaultyFiles

CONSTANTS
    Generation,   \* complete project directories, told apart by their contents
    Gutted,       \* the project file is there, samples are missing
    Husk          \* a directory without a project file

ASSUME DirectoryAssumption ==
    /\ {None, Gutted, Husk} \cap Generation = {}
    /\ None \notin {Gutted, Husk} /\ Gutted # Husk

\* Whether the project file of a directory validates: samples are not looked at.
Validates(p) == file[p] \in Generation \cup {Gutted}
Whole(p) == file[p] \in Generation

\* DeleteProject_(p): pc stays while entries go.
DeleteProject(p, yes, no) ==
    \/ \E rest \in {Gutted, Husk} :
          /\ file[p] \in Generation \/ (file[p] = Gutted /\ rest = Husk)
          /\ file' = [file EXCEPT ![p] = rest] /\ pc' = pc
    \/ file[p] = Husk /\ file' = Without(p) /\ Goto(yes)
    \/ ~calm /\ file' = file /\ Goto(no)
=============================================================================
