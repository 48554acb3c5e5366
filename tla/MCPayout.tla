------------------------------ MODULE MCPayout ------------------------------
(* Small instances of Payout for TLC. *)
EXTENDS Payout

CONSTANTS k1, r1, r2
=============================================================================
