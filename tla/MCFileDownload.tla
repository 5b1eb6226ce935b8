--------------------------- MODULE MCFileDownload ---------------------------
(***************************************************************************)
(* Instances of FileDownload for TLC.                                      *)
(***************************************************************************)
EXTENDS FileDownload, TLC

\* One download is like another, and so is one directory.
Alike == Permutations(Transfers) \cup Permutations(Dirs)

=============================================================================
