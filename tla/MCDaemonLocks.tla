--------------------------- MODULE MCDaemonLocks ----------------------------
(* Instances of DaemonLocks for TLC. *)
EXTENDS DaemonLocks, TLC
=============================================================================
