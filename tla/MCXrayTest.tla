---------------------------- MODULE MCXrayTest ----------------------------
(* Small instances of XrayTest; the values are in the .cfg file. *)
EXTENDS XrayTest
=============================================================================
