---------------------------- MODULE MCClipChunks ----------------------------
(* Instances of ClipChunks for TLC. *)
EXTENDS ClipChunks, TLC

\* Transfers are interchangeable.
TransferSymmetry == Permutations(Transfers)

=============================================================================
