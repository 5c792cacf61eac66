----------------------------- MODULE MCFileSystem -----------------------------
(***************************************************************************)
(* Instances of FileSystem for TLC. File and job uuids are drawn fresh and *)
(* requests are served in any order, so each of the three sets may be      *)
(* permuted where only safety is checked.                                  *)
(***************************************************************************)
EXTENDS FileSystem, TLC

FileSymmetry == Permutations(Requests) \cup Permutations(Ids) \cup Permutations(JobIds)
=============================================================================
