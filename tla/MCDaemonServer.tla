--------------------------- MODULE MCDaemonServer ---------------------------
(* Instances of DaemonServer for TLC. *)
EXTENDS DaemonServer, TLC
=============================================================================
