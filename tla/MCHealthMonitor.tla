-------------------------- MODULE MCHealthMonitor --------------------------
(* Health checks for TLC: the ui's dependencies. *)
EXTENDS HealthMonitor

UiDeps == <<"post", "comment">>
=============================================================================
