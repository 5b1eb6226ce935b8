------------------------------ MODULE MCMirror ------------------------------
(* Instances of Mirror for TLC. *)
EXTENDS Mirror, TLC

CONSTANTS n1, n2

Base == DefaultAppSettings

\* Everything on; the notifications off; one app muted and the player off; one
\* app allowed and the player shown without commands.
MCSettings ==
  {Base, [Base EXCEPT !.on = FALSE, !.play = "mac_to_android"], [Base EXCEPT !.list = {n2}, !.play = "disabled"],
   [Base EXCEPT !.filter = "only_allowed", !.list = {n1}, !.play = "android_to_mac"]}

=============================================================================
