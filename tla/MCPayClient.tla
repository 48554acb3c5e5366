---------------------------- MODULE MCPayClient ----------------------------
(* One payment from the dashboard's form, for TLC. *)
EXTENDS PayClient

CONSTANTS x, r1, r2
=============================================================================
