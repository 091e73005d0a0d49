--------------------------- MODULE MCPiholePoller ---------------------------
(* An instance of PiholePoller for TLC. *)
EXTENDS PiholePoller, TLC

CONSTANTS none, s1, s2, s3, s4
=============================================================================
