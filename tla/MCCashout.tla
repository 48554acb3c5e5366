----------------------------- MODULE MCCashout ------------------------------
(* Small instances of Cashout for TLC. *)
EXTENDS Cashout, TLC

CONSTANTS t1, t2, r1, r2

Symmetric == Permutations(Requests) \cup Permutations(Txs)
=============================================================================
