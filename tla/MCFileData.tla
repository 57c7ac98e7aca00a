----------------------------- MODULE MCFileData -----------------------------
(***************************************************************************)
(* FileData with a hash that keeps blocks apart.                           *)
(***************************************************************************)
EXTENDS FileData

MCHash(suuid, block) == suuid + MaxFiles * block

\* Clients differ in nothing but their names, and so do files.
Symmetry == Permutations(Clients) \cup Permutations(FileNames)
=============================================================================
