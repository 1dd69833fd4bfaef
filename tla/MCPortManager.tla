--------------------------- MODULE MCPortManager ---------------------------
(* Small instances of PortManager. *)
EXTENDS PortManager

CONSTANTS c1, c2, c3
=============================================================================
