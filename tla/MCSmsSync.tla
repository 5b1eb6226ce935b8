------------------------------ MODULE MCSmsSync ------------------------------
(* SmsSync on small instances.                                             *)
EXTENDS SmsSync
=============================================================================
