--------------------------- MODULE MCDurableFiles ---------------------------
(* An instance of DurableFiles for TLC. *)
EXTENDS DurableFiles, TLC

CONSTANTS none, absent, torn, p1, p2, p3, p4, p5, p6
=============================================================================
