-------------------------- MODULE MCDaemonCycle --------------------------
(* Small instances of DaemonCycle; the values are in the .cfg files. *)
EXTENDS DaemonCycle
=============================================================================
