---------------------------- MODULE MCFileUpload ----------------------------
(***************************************************************************)
(* Instances of FileUpload for TLC.                                        *)
(***************************************************************************)
EXTENDS FileUpload, TLC

\* The goroutines are interchangeable.
CallSymmetry == Permutations(Calls)

=============================================================================
