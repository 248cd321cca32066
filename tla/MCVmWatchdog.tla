----------------------------- MODULE MCVmWatchdog -----------------------------
(* Two watchdogs, one benchmark session, and process ids that are reused. *)
EXTENDS VmWatchdog

CONSTANTS d1, d2, p1, p2
=============================================================================
