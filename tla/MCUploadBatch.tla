--------------------------- MODULE MCUploadBatch ---------------------------
(***************************************************************************)
(* Instances of UploadBatch for TLC.                                       *)
(***************************************************************************)
EXTENDS UploadBatch

=============================================================================
