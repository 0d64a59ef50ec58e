--------------------------- MODULE MCLaunchGuard ---------------------------
(* Instances of LaunchGuard for TLC. *)
EXTENDS LaunchGuard
==============================
