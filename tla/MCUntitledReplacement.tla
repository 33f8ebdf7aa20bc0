------------------------ MODULE MCUntitledReplacement -------------------------
(***************************************************************************)
(* UntitledReplacement on three directory contents: the one in use, the one*)
(* kept aside and a fresh one.  They are interchangeable, and the checked  *)
(* properties are safety properties, so TLC may permute them.              *)
(***************************************************************************)
EXTENDS UntitledReplacement, TLC

Interchangeable == Permutations(Generation)
=============================================================================
