---------------------------- MODULE TrancheLedger ----------------------------
(***************************************************************************)
(* What the escrow promises about one tranche, without amounts, tokens,    *)
(* clocks or clearances: a funded tranche is settled once, with the worker *)
(* only after it was earned, and an earned one is taken back only from     *)
(* under a hold.  While a hold is on nothing else moves.  (The module      *)
(* comment and THREAT_MODEL.md of contracts/escrow.)                       *)
(***************************************************************************)
CONSTANTS Ids, Slots      \* escrow ids, and tranche positions within one

VARIABLES tranche, held   \* state of every tranche; escrows under a hold

ledger == <<tranche, held>>

Init ==
  /\ tranche = [s \in Ids \X Slots |-> "none"]
  /\ held = [id \in Ids |-> FALSE]

\* A deposit funds some of the positions of an unused id.
Fund(id) ==
  /\ \A i \in Slots : tranche[<<id, i>>] = "none"
  /\ \E used \in SUBSET Slots :
        /\ used # {}
        /\ tranche' = [s \in Ids \X Slots |->
             IF s[1] = id /\ s[2] \in used THEN "locked" ELSE tranche[s]]
  /\ UNCHANGED held

Earn(id, i) ==
  /\ ~held[id] /\ tranche[<<id, i>>] = "locked"
  /\ tranche' = [tranche EXCEPT ![<<id, i>>] = "earned"]
  /\ UNCHANGED held

Pay(id, i) ==
  /\ ~held[id] /\ tranche[<<id, i>>] = "earned"
  /\ tranche' = [tranche EXCEPT ![<<id, i>>] = "paid"]
  /\ UNCHANGED held

\* All the tranches of an escrow that are in the given states go back.
GiveBack(id, states) ==
  /\ \E i \in Slots : tranche[<<id, i>>] \in states
  /\ tranche' = [s \in Ids \X Slots |->
       IF s[1] = id /\ tranche[s] \in states THEN "returned" ELSE tranche[s]]
  /\ UNCHANGED held

Expire(id)  == ~held[id] /\ GiveBack(id, {"locked"})
Uphold(id)  == held[id] /\ GiveBack(id, {"locked", "earned"})

Hold(id) ==
  /\ \E h \in BOOLEAN : held' = [held EXCEPT ![id] = h]
  /\ UNCHANGED tranche

Next ==
  \E id \in Ids :
    \/ Hold(id) \/ Fund(id) \/ Expire(id) \/ Uphold(id)
    \/ \E i \in Slots : Earn(id, i) \/ Pay(id, i)

Spec == Init /\ [][Next]_ledger
=============================================================================
