---------------------------- MODULE MCPipeline ----------------------------
(* Small instances of Pipeline; the values are in the .cfg files. *)
EXTENDS Pipeline

CONSTANTS d1, d2, d3
=============================================================================
