---------------------------- MODULE MCScreening -----------------------------
(* A small instance of Screening for TLC. *)
EXTENDS Screening

CONSTANTS i1, i2, n1, n2
=============================================================================
