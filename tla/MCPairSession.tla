--------------------------- MODULE MCPairSession ---------------------------
(* PairSession on small instances.  The sets are small enough without      *)
(* symmetry, which the temporal properties would not allow.                *)
EXTENDS PairSession
=============================================================================
