---------------------------- MODULE MCIPLimiter ----------------------------
(* An instance of IPLimiter for TLC. *)
EXTENDS IPLimiter, TLC

CONSTANTS h1, h2

=============================================================================
