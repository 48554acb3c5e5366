------------------------------- MODULE MCJobs -------------------------------
(* Small instances of Batch, Cashout, AccountLock and Screening for TLC.     *)
(* They share no state: a behaviour is one of the part in focus, the others  *)
(* stay in their initial state, where nothing that is fair can happen.       *)
EXTENDS Batch, Cashout, AccountLock, Screening, TLC

CONSTANTS t1, r1, r2, p1, p2, j1, i1, i2, n1, n2

VARIABLE focus

MCHome == (p1 :> i1) @@ (j1 :> i1) @@ (p2 :> i2)

Parts == {"batch", "cashout", "lock", "screening"}
vars  == <<focus, batchVars, cashoutVars, lockVars, screeningVars>>

Init ==
  /\ focus \in Parts
  /\ BatchInit /\ CashoutInit /\ LockInit /\ ScreeningInit
  /\ published = {n1} /\ meta = <<i1, 0>> /\ index = (i1 :> {n1}) @@ (i2 :> {n2})

Next ==
  /\ UNCHANGED focus
  /\ \/ focus = "batch" /\ BatchNext /\ UNCHANGED <<cashoutVars, lockVars, screeningVars>>
     \/ focus = "cashout" /\ CashoutNext /\ UNCHANGED <<batchVars, lockVars, screeningVars>>
     \/ focus = "lock" /\ LockNext /\ UNCHANGED <<batchVars, cashoutVars, screeningVars>>
     \/ focus = "screening" /\ ScreeningNext /\ UNCHANGED <<batchVars, cashoutVars, lockVars>>

Spec ==
  /\ Init /\ [][Next]_vars
  /\ BatchFairness /\ CashoutFairness /\ LockFairness /\ ScreeningFairness

\* Every part's state keeps its type.
TypeOK == BatchTypeOK /\ CashoutTypeOK /\ LockTypeOK /\ ScreeningTypeOK
=============================================================================
