--------------------------- MODULE MCSettingsSync ---------------------------
(* Instances of SettingsSync for TLC. *)
EXTENDS SettingsSync, TLC

Symmetry == Permutations(Callers) \cup Permutations(Readers)

=============================================================================
