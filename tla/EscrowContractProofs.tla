------------------------ MODULE EscrowContractProofs ------------------------
(***************************************************************************)
(* Proofs about EscrowContract for every set of parties and tokens, every  *)
(* list of amounts and every bound.                                        *)
(***************************************************************************)
EXTENDS EscrowContract, SequenceTheorems, FiniteSetTheorems,
        WellFoundedInduction, TLAPS

USE DEF Milestone, Open, I128, Times

-----------------------------------------------------------------------------
(* Type correctness. *)

\* Rewriting the milestones of an escrow pointwise leaves a sequence of
\* milestones of the same length.
LEMMA RewriteType ==
  ASSUME NEW S, NEW s \in Seq(S), NEW T, NEW t,
         t = [i \in DOMAIN s |-> t[i]], \A i \in DOMAIN s : t[i] \in T
  PROVE  t \in Seq(T) /\ DOMAIN t = DOMAIN s
<1>1. Len(s) \in Nat /\ DOMAIN s = 1..Len(s)
  OBVIOUS
<1>2. t \in [1..Len(s) -> T]
  BY <1>1
<1> QED
  BY <1>1, <1>2, SeqDef

\* A transfer between two addresses of the system leaves a balance that is a
\* natural number everywhere.
LEMMA TransferType ==
  ASSUME TypeOK, NEW from \in Addresses, NEW to \in Addresses,
         NEW token \in Tokens, NEW amount \in Int,
         Transfer(from, to, token, amount)
  PROVE  balance' \in [Addresses \X Tokens -> Nat]
<1>1. balance \in [Addresses \X Tokens -> Nat] /\ amount \in Nat
  BY DEF TypeOK, Transfer
<1>2. \A h \in Addresses \X Tokens : balance'[h] \in Nat
  BY <1>1 DEF Transfer
<1> QED
  BY <1>1, <1>2 DEF Transfer

\* FinalizeStatus yields one of the three escrow statuses.
LEMMA FinalizeType ==
  ASSUME NEW ms
  PROVE  FinalizeStatus(ms) \in {"Active", "Completed", "Refunded"}
  BY DEF FinalizeStatus

\* Settling an escrow keeps every part of the state well typed.
LEMMA SettleType ==
  ASSUME ContractAssumption, TypeOK, NEW id \in DOMAIN escrows,
         NEW ms \in Seq(Milestone),
         DOMAIN ms = DOMAIN escrows[id].milestones,
         NEW payee \in Addresses, NEW amount \in Int,
         Settle(id, ms, payee, amount),
         UNCHANGED <<now, nextId, clearance>>
  PROVE  TypeOK'
<1>1. escrows[id] \in Escrow
  BY DEF TypeOK
<1>2. Vault \in Addresses /\ escrows[id].token \in Tokens
  BY <1>1 DEF Addresses, Escrow
<1>3. balance' \in [Addresses \X Tokens -> Nat]
  BY <1>2, TransferType DEF Settle
<1>4. [escrows[id] EXCEPT !.milestones = ms, !.status = FinalizeStatus(ms)] \in Escrow
  BY <1>1, FinalizeType DEF Escrow
<1>5. escrows' = [escrows EXCEPT
        ![id] = [escrows[id] EXCEPT !.milestones = ms, !.status = FinalizeStatus(ms)]]
  BY <1>1 DEF Settle, TypeOK, Escrow
<1>6. escrows' \in [0..(nextId - 1) -> Escrow]
  BY <1>4, <1>5 DEF TypeOK
<1>7. \A j \in DOMAIN escrows' :
        DOMAIN escrows'[j].milestones = DOMAIN escrows'[j].amounts
  BY <1>1, <1>5 DEF TypeOK, Escrow
<1> QED
  BY <1>3, <1>6, <1>7 DEF TypeOK

\* Giving tranches back keeps every part of the state well typed.
LEMMA PayBackType ==
  ASSUME ContractAssumption, TypeOK, NEW id \in DOMAIN escrows, NEW states,
         PayBack(id, states), UNCHANGED <<now, nextId, clearance>>
  PROVE  TypeOK'
<1> DEFINE e     == escrows[id]
           back  == {i \in DOMAIN e.milestones : e.milestones[i] \in states}
           left  == [i \in DOMAIN e.milestones |->
                       IF i \in back THEN "Refunded" ELSE e.milestones[i]]
           total == Sum(e.amounts, back)
<1>1. e \in Escrow
  BY DEF TypeOK
<1>2. e.milestones \in Seq(Milestone) /\ e.enterprise \in Addresses
  BY <1>1 DEF Escrow, Addresses
<1>3. \A i \in DOMAIN e.milestones : left[i] \in Milestone
  BY <1>2
<1>4. left \in Seq(Milestone) /\ DOMAIN left = DOMAIN e.milestones
  <2> HIDE DEF back
  <2>1. left = [i \in DOMAIN e.milestones |-> left[i]]
    OBVIOUS
  <2> HIDE DEF left
  <2> QED
    BY <1>2, <1>3, <2>1, RewriteType
<1>5. total \in Int /\ Settle(id, left, e.enterprise, total)
  BY DEF PayBack
<1> HIDE DEF total, left
<1> QED
  BY <1>2, <1>4, <1>5, SettleType

\* Storing a new escrow keeps every part of the state well typed.
LEMMA CreateType ==
  ASSUME ContractAssumption, TypeOK,
         NEW ent \in Enterprises, NEW w \in Workers, NEW token \in Tokens,
         NEW amounts \in AmountLists, NEW expiry \in 0..(MaxTime - 1),
         Create(ent, w, token, amounts, expiry)
  PROVE  TypeOK'
<1> DEFINE e == [enterprise |-> ent, worker |-> w, token |-> token,
                 amounts |-> amounts,
                 milestones |-> [i \in 1..Len(amounts) |-> "Pending"],
                 expiry |-> expiry, status |-> "Active", frozen |-> FALSE]
<1>1. amounts \in Seq(Int) /\ Len(amounts) \in Nat /\ DOMAIN amounts = 1..Len(amounts)
  BY DEF ContractAssumption
<1>2. amounts \in Seq(1..MaxI128)
  <2>1. amounts = [i \in DOMAIN amounts |-> amounts[i]]
    BY <1>1
  <2>2. \A i \in DOMAIN amounts : amounts[i] \in 1..MaxI128
    BY DEF Create, AmountsValid
  <2> QED
    BY <1>1, <2>1, <2>2, RewriteType
<1>3. e.milestones \in Seq(Milestone) /\ DOMAIN e.milestones = DOMAIN amounts
  BY <1>1
<1>4. expiry \in Times
  BY DEF ContractAssumption
<1>5. e \in Escrow
  BY <1>2, <1>3, <1>4 DEF Escrow
<1>6. /\ nextId' \in 0..MaxIds /\ nextId' = nextId + 1
      /\ escrows' = [id \in 0..nextId |-> IF id = nextId THEN e ELSE escrows[id]]
  BY DEF Create, Store, TypeOK, ContractAssumption
<1>7. escrows' \in [0..(nextId' - 1) -> Escrow]
  <2> HIDE DEF e
  <2> QED
    BY <1>5, <1>6 DEF TypeOK
<1>8. \A id \in DOMAIN escrows' :
        DOMAIN escrows'[id].milestones = DOMAIN escrows'[id].amounts
  <2>1. DOMAIN e.milestones = DOMAIN e.amounts
    BY <1>3
  <2> HIDE DEF e
  <2> QED
    BY <1>6, <2>1 DEF TypeOK
<1>9. Sum(amounts, DOMAIN amounts) \in Int
  BY DEF Create, AmountsValid, ContractAssumption
<1>10. balance' \in [Addresses \X Tokens -> Nat]
  BY <1>9, TransferType DEF Create, Addresses
<1> QED
  BY <1>6, <1>7, <1>8, <1>10 DEF TypeOK, Create

\* Writing one milestone of one escrow keeps the state well typed.
LEMMA ApproveType ==
  ASSUME ContractAssumption, TypeOK, NEW id \in DOMAIN escrows, NEW idx,
         Approve(id, idx)
  PROVE  TypeOK'
<1> DEFINE ms == [escrows[id].milestones EXCEPT ![idx] = "Approved"]
<1>1. escrows[id] \in Escrow /\ idx \in DOMAIN escrows[id].milestones
  BY DEF TypeOK, Approve, Workable
<1>2. ms \in Seq(Milestone) /\ DOMAIN ms = DOMAIN escrows[id].milestones
  BY <1>1 DEF Escrow
<1>3. [escrows[id] EXCEPT !.milestones = ms] \in Escrow
  BY <1>1, <1>2 DEF Escrow
<1>4. escrows' = [escrows EXCEPT ![id] = [escrows[id] EXCEPT !.milestones = ms]]
  BY DEF Approve
<1>5. escrows' \in [0..(nextId - 1) -> Escrow]
  BY <1>3, <1>4 DEF TypeOK
<1>6. \A j \in DOMAIN escrows' :
        DOMAIN escrows'[j].milestones = DOMAIN escrows'[j].amounts
  BY <1>1, <1>2, <1>4 DEF TypeOK, Escrow
<1> QED
  BY <1>5, <1>6 DEF TypeOK, Approve

\* Every variable keeps its type in every step of the contract.
LEMMA TypeStep ==
  ASSUME ContractAssumption, TypeOK, [Next]_vars
  PROVE  TypeOK'
<1>1. ASSUME NEW w \in Workers, RevokeClearance(w)
      PROVE  TypeOK'
  BY <1>1 DEF TypeOK, RevokeClearance, NoClearance, ContractAssumption
<1>2. ASSUME NEW w \in Workers, NEW t \in Times, SetClearance(w, t)
      PROVE  TypeOK'
  BY <1>2 DEF TypeOK, SetClearance
<1>3. ASSUME NEW id \in DOMAIN escrows, ReturnFrozen(id)
      PROVE  TypeOK'
  BY <1>3, PayBackType DEF ReturnFrozen
<1>4. ASSUME NEW id \in DOMAIN escrows, NEW frozen \in BOOLEAN, SetFrozen(id, frozen)
      PROVE  TypeOK'
  <2>1. escrows[id] \in Escrow
    BY DEF TypeOK
  <2>2. [escrows[id] EXCEPT !.frozen = frozen] \in Escrow
    BY <2>1 DEF Escrow
  <2> QED
    BY <1>4, <2>1, <2>2 DEF TypeOK, SetFrozen, Escrow
<1>5. ASSUME NEW ent \in Enterprises, NEW w \in Workers, NEW token \in Tokens,
             NEW amounts \in AmountLists, NEW expiry \in 0..(MaxTime - 1),
             Create(ent, w, token, amounts, expiry)
      PROVE  TypeOK'
  BY <1>5, CreateType
<1>6. ASSUME NEW id \in DOMAIN escrows, Refund(id)
      PROVE  TypeOK'
  BY <1>6, PayBackType DEF Refund
<1>7. ASSUME NEW id \in DOMAIN escrows,
             NEW idx \in DOMAIN escrows[id].milestones, Approve(id, idx)
      PROVE  TypeOK'
  BY <1>7, ApproveType
<1>8. ASSUME NEW id \in DOMAIN escrows,
             NEW idx \in DOMAIN escrows[id].milestones, Claim(id, idx)
      PROVE  TypeOK'
  <2> DEFINE ms == [escrows[id].milestones EXCEPT ![idx] = "Claimed"]
  <2>1. escrows[id] \in Escrow
    BY DEF TypeOK
  <2>2. ms \in Seq(Milestone) /\ DOMAIN ms = DOMAIN escrows[id].milestones
    BY <2>1 DEF Escrow
  <2>3. escrows[id].worker \in Addresses
    BY <2>1 DEF Escrow, Addresses
  <2>4. escrows[id].amounts[idx] \in Int
    <3>1. escrows[id].amounts \in Seq(1..MaxI128) /\ idx \in DOMAIN escrows[id].amounts
      BY <2>1 DEF TypeOK, Escrow
    <3> QED
      BY <3>1, ElementOfSeq DEF ContractAssumption
  <2>5. Settle(id, ms, escrows[id].worker, escrows[id].amounts[idx])
    BY <1>8 DEF Claim
  <2>6. UNCHANGED <<now, nextId, clearance>>
    BY <1>8 DEF Claim
  <2> HIDE DEF ms
  <2> QED
    BY <2>2, <2>3, <2>4, <2>5, <2>6, SettleType
<1>9. CASE CloseLedger
  BY <1>9 DEF TypeOK, CloseLedger
<1>10. CASE UNCHANGED vars
  BY <1>10 DEF TypeOK, vars
<1> QED
  BY <1>1, <1>2, <1>3, <1>4, <1>5, <1>6, <1>7, <1>8, <1>9, <1>10
     DEF Next, ComplianceNext, PartyNext

\* Type correctness: the state the contract stores and the tokens' balances
\* always have their types; in particular no balance becomes negative.
THEOREM TypeCorrect == Spec => []TypeOK
<1>1. Init => TypeOK
  BY ContractAssumption DEF Init, TypeOK, NoClearance, Addresses, ContractAssumption
<1>2. TypeOK /\ [Next]_vars => TypeOK'
  BY ContractAssumption, TypeStep
<1> QED
  BY <1>1, <1>2, PTL DEF Spec

-----------------------------------------------------------------------------
(* Status and milestones. *)

\* The inductive invariant: the status of an escrow is that of its milestones,
\* and an escrow has a bounded number of them, at least one.
Bounded(e) == Len(e.milestones) \in 1..MaxMilestones

IInv == /\ TypeOK
        /\ StatusMatchesTranches
        /\ \A id \in DOMAIN escrows : Bounded(escrows[id])

\* What Settle leaves behind, part by part.
LEMMA Settled ==
  ASSUME TypeOK, NEW id \in DOMAIN escrows, NEW ms, NEW payee, NEW amount,
         Settle(id, ms, payee, amount)
  PROVE  /\ DOMAIN escrows' = DOMAIN escrows
         /\ escrows'[id].milestones = ms
         /\ escrows'[id].status = FinalizeStatus(ms)
         /\ escrows'[id].frozen = escrows[id].frozen
         /\ \A j \in DOMAIN escrows : j # id => escrows'[j] = escrows[j]
<1>1. escrows[id] \in Escrow
  BY DEF TypeOK
<1> QED
  BY <1>1 DEF Settle, TypeOK, Escrow

\* What FinalizeStatus computes is what StatusMatches asks for.
LEMMA FinalizeMatches ==
  ASSUME NEW e, e.status = FinalizeStatus(e.milestones)
  PROVE  StatusMatches(e)
  BY DEF StatusMatches, HasTranche, FinalizeStatus

\* Settling an escrow preserves the invariant.
LEMMA SettleInv ==
  ASSUME ContractAssumption, IInv, TypeOK', NEW id \in DOMAIN escrows,
         NEW ms, NEW payee, NEW amount, Settle(id, ms, payee, amount),
         DOMAIN ms = DOMAIN escrows[id].milestones
  PROVE  IInv'
<1>1. StatusMatches(escrows'[id])
  BY Settled, FinalizeMatches DEF IInv
<1>2. StatusMatchesTranches'
  BY <1>1, Settled DEF IInv, StatusMatchesTranches
<1>3. escrows[id].milestones \in Seq(Milestone) /\ escrows'[id].milestones \in Seq(Milestone)
  BY Settled DEF IInv, TypeOK, Escrow
<1>4. Len(escrows'[id].milestones) = Len(escrows[id].milestones)
  BY <1>3, Settled, LenProperties DEF IInv
<1>5. \A j \in DOMAIN escrows' : Bounded(escrows'[j])
  BY <1>4, Settled DEF IInv, Bounded
<1> QED
  BY <1>2, <1>5 DEF IInv, Bounded

\* A step that keeps milestones and status of every escrow preserves the
\* invariant.
LEMMA IdleInv ==
  ASSUME IInv, TypeOK', DOMAIN escrows' = DOMAIN escrows,
         \A id \in DOMAIN escrows :
           /\ escrows'[id].milestones = escrows[id].milestones
           /\ escrows'[id].status = escrows[id].status
  PROVE  IInv'
  BY DEF IInv, StatusMatchesTranches, StatusMatches, HasTranche, Bounded

\* Paying tranches back to the enterprise (refund, return_frozen) preserves the
\* invariant.
LEMMA PayBackInv ==
  ASSUME ContractAssumption, IInv, TypeOK', NEW id \in DOMAIN escrows,
         NEW states, PayBack(id, states)
  PROVE  IInv'
<1> DEFINE e    == escrows[id]
           back == {i \in DOMAIN e.milestones : e.milestones[i] \in states}
           left == [i \in DOMAIN e.milestones |->
                      IF i \in back THEN "Refunded" ELSE e.milestones[i]]
<1>1. Settle(id, left, e.enterprise, Sum(e.amounts, back))
  BY DEF PayBack
<1>2. DOMAIN left = DOMAIN e.milestones
  OBVIOUS
<1> HIDE DEF left, back
<1> QED
  BY <1>1, <1>2, SettleInv

\* Every call and every closing ledger preserves the invariant.
LEMMA InvStep ==
  ASSUME ContractAssumption, IInv, [Next]_vars
  PROVE  IInv'
<1> USE DEF IInv
<1>0. TypeOK'
  BY TypeStep
<1>1. ASSUME NEW w \in Workers, RevokeClearance(w)
      PROVE  IInv'
  BY <1>0, <1>1, IdleInv DEF RevokeClearance
<1>2. ASSUME NEW w \in Workers, NEW t \in Times, SetClearance(w, t)
      PROVE  IInv'
  BY <1>0, <1>2, IdleInv DEF SetClearance
<1>3. ASSUME NEW id \in DOMAIN escrows, ReturnFrozen(id)
      PROVE  IInv'
  BY <1>0, <1>3, PayBackInv DEF ReturnFrozen
<1>4. ASSUME NEW id \in DOMAIN escrows, NEW frozen \in BOOLEAN, SetFrozen(id, frozen)
      PROVE  IInv'
  <2>1. escrows[id] \in Escrow
    BY DEF TypeOK
  <2> QED
    BY <1>0, <1>4, <2>1, IdleInv DEF SetFrozen, TypeOK, Escrow
<1>5. ASSUME NEW ent \in Enterprises, NEW w \in Workers, NEW token \in Tokens,
             NEW amounts \in AmountLists, NEW expiry \in 0..(MaxTime - 1),
             Create(ent, w, token, amounts, expiry)
      PROVE  IInv'
  <2> DEFINE e == [enterprise |-> ent, worker |-> w, token |-> token,
                   amounts |-> amounts,
                   milestones |-> [i \in 1..Len(amounts) |-> "Pending"],
                   expiry |-> expiry, status |-> "Active", frozen |-> FALSE]
  <2>1. escrows' = [id \in 0..nextId |-> IF id = nextId THEN e ELSE escrows[id]]
    BY <1>5 DEF Create, Store
  <2>2. Len(amounts) \in 1..MaxMilestones
    BY <1>5 DEF Create, AmountsValid
  <2>3. Bounded(e)
    <3>1. e.milestones \in Seq(Milestone) /\ DOMAIN e.milestones = 1..Len(amounts)
      BY <2>2 DEF ContractAssumption
    <3> QED
      BY <2>2, <3>1, LenProperties DEF Bounded
  <2>4. StatusMatches(e)
    <3>1. 1 \in DOMAIN e.milestones /\ e.milestones[1] = "Pending"
      BY <2>2 DEF ContractAssumption
    <3>2. e.status = "Active"
      OBVIOUS
    <3> HIDE DEF e
    <3> QED
      BY <3>1, <3>2 DEF StatusMatches, HasTranche
  <2> HIDE DEF e
  <2>5. \A id \in 0..nextId : id # nextId => id \in DOMAIN escrows
    BY DEF TypeOK
  <2> QED
    BY <1>0, <2>1, <2>3, <2>4, <2>5 DEF StatusMatchesTranches
<1>6. ASSUME NEW id \in DOMAIN escrows, Refund(id)
      PROVE  IInv'
  BY <1>0, <1>6, PayBackInv DEF Refund
<1>7. ASSUME NEW id \in DOMAIN escrows,
             NEW idx \in DOMAIN escrows[id].milestones, Approve(id, idx)
      PROVE  IInv'
  <2> DEFINE ms == [escrows[id].milestones EXCEPT ![idx] = "Approved"]
             e  == [escrows[id] EXCEPT !.milestones = ms]
  <2>1. escrows[id] \in Escrow
    BY DEF TypeOK
  <2>2. escrows' = [escrows EXCEPT ![id] = e]
    BY <1>7 DEF Approve
  <2>3. e.milestones = ms /\ e.status = "Active"
    BY <1>7, <2>1 DEF Approve, Workable, Escrow
  <2>4. ms \in Seq(Milestone) /\ DOMAIN ms = DOMAIN escrows[id].milestones
        /\ ms[idx] = "Approved"
    BY <2>1 DEF Escrow
  <2>5. Bounded(e)
    BY <2>1, <2>3, <2>4, LenProperties DEF Bounded, Escrow
  <2>6. StatusMatches(e)
    BY <2>3, <2>4 DEF StatusMatches, HasTranche
  <2> HIDE DEF e
  <2> QED
    BY <1>0, <2>2, <2>5, <2>6 DEF StatusMatchesTranches
<1>8. ASSUME NEW id \in DOMAIN escrows,
             NEW idx \in DOMAIN escrows[id].milestones, Claim(id, idx)
      PROVE  IInv'
  <2> DEFINE ms == [escrows[id].milestones EXCEPT ![idx] = "Claimed"]
  <2>1. Settle(id, ms, escrows[id].worker, escrows[id].amounts[idx])
    BY <1>8 DEF Claim
  <2>2. DOMAIN ms = DOMAIN escrows[id].milestones
    OBVIOUS
  <2> HIDE DEF ms
  <2> QED
    BY <1>0, <2>1, <2>2, SettleInv
<1>9. CASE CloseLedger
  BY <1>0, <1>9, IdleInv DEF CloseLedger
<1>10. CASE UNCHANGED vars
  BY <1>0, <1>10, IdleInv DEF vars
<1> QED
  BY <1>1, <1>2, <1>3, <1>4, <1>5, <1>6, <1>7, <1>8, <1>9, <1>10
     DEF Next, ComplianceNext, PartyNext

\* The invariant holds before the first call.
LEMMA InvInit ==
  ASSUME Init
  PROVE  IInv
<1>1. TypeOK
  BY ContractAssumption DEF Init, TypeOK, NoClearance, Addresses, ContractAssumption
<1>2. DOMAIN escrows = {}
  BY DEF Init
<1> QED
  BY <1>1, <1>2 DEF IInv, StatusMatchesTranches

\* The inductive invariant holds in every reachable state: types, statuses and
\* the milestones' number go together after every sequence of calls.
THEOREM InvCorrect == Spec => []IInv
<1>1. Init => IInv
  BY InvInit
<1>2. IInv /\ [Next]_vars => IInv'
  BY ContractAssumption, InvStep
<1> QED
  BY <1>1, <1>2, PTL DEF Spec

\* The status of every escrow is the one its milestones call for, after every
\* sequence of calls (lib.rs finalize_status).
THEOREM StatusCorrect == Spec => []StatusMatchesTranches
<1>1. IInv => StatusMatchesTranches
  BY DEF IInv
<1> QED
  BY <1>1, InvCorrect, PTL

-----------------------------------------------------------------------------
(* The tranche ledger. *)

\* A milestone tells its stage in the ledger, and a stage its milestone.
LEMMA StageFacts ==
  /\ Stage("Pending") = "locked" /\ Stage("Approved") = "earned"
  /\ Stage("Claimed") = "paid" /\ Stage("Refunded") = "returned"
  /\ \A m \in Milestone : (Stage(m) = "locked") => (m = "Pending")
  /\ \A m \in Milestone : (Stage(m) = "earned") => (m = "Approved")
  BY DEF Stage

\* In a reachable state every id and every position lies within the ledger's.
LEMMA WithinLedger ==
  ASSUME ContractAssumption, IInv
  PROVE  /\ DOMAIN escrows \subseteq Ids
         /\ \A id \in DOMAIN escrows :
              /\ escrows[id] \in Escrow
              /\ DOMAIN escrows[id].milestones \subseteq Slots
              /\ DOMAIN escrows[id].milestones # {}
              /\ \A i \in DOMAIN escrows[id].milestones :
                    escrows[id].milestones[i] \in Milestone
<1>1. DOMAIN escrows \subseteq Ids
  BY DEF IInv, TypeOK, Ids, ContractAssumption
<1>2. ASSUME NEW id \in DOMAIN escrows
      PROVE  /\ escrows[id] \in Escrow
             /\ DOMAIN escrows[id].milestones \subseteq Slots
             /\ DOMAIN escrows[id].milestones # {}
             /\ \A i \in DOMAIN escrows[id].milestones :
                   escrows[id].milestones[i] \in Milestone
  <2>1. escrows[id] \in Escrow
    BY DEF IInv, TypeOK
  <2>2. escrows[id].milestones \in Seq(Milestone)
    BY <2>1 DEF Escrow
  <2>3. DOMAIN escrows[id].milestones = 1..Len(escrows[id].milestones)
    BY <2>2
  <2>4. Len(escrows[id].milestones) \in 1..MaxMilestones
    BY DEF IInv, Bounded
  <2> QED
    BY <2>1, <2>2, <2>3, <2>4, ElementOfSeq DEF Slots, ContractAssumption
<1> QED
  BY <1>1, <1>2

\* A step that writes the milestones of one escrow changes the ledger in the
\* positions of that escrow, and no hold.
LEMMA LedgerUpdate ==
  ASSUME NEW id \in DOMAIN escrows,
         DOMAIN escrows' = DOMAIN escrows,
         DOMAIN escrows'[id].milestones = DOMAIN escrows[id].milestones,
         escrows'[id].frozen = escrows[id].frozen,
         \A j \in DOMAIN escrows : j # id => escrows'[j] = escrows[j]
  PROVE  /\ Held' = Held
         /\ Tranche' = [s \in Ids \X Slots |->
               IF s[1] = id /\ s[2] \in DOMAIN escrows[id].milestones
               THEN Stage(escrows'[id].milestones[s[2]]) ELSE Tranche[s]]
<1>1. Held' = Held
  BY DEF Held
<1>2. \A s \in Ids \X Slots : Tranche'[s] =
         IF s[1] = id /\ s[2] \in DOMAIN escrows[id].milestones
         THEN Stage(escrows'[id].milestones[s[2]]) ELSE Tranche[s]
  BY DEF Tranche
<1> QED
  BY <1>1, <1>2 DEF Tranche

\* Giving tranches back is the ledger's GiveBack, or nothing if there is none.
LEMMA PayBackLedger ==
  ASSUME ContractAssumption, IInv, NEW id \in DOMAIN escrows, NEW states,
         NEW stages, PayBack(id, states),
         \A m \in Milestone : m \in states <=> Stage(m) \in stages,
         "none" \notin stages
  PROVE  Ledger!GiveBack(id, stages) \/ UNCHANGED <<Tranche, Held>>
<1> DEFINE e    == escrows[id]
           back == {i \in DOMAIN e.milestones : e.milestones[i] \in states}
           left == [i \in DOMAIN e.milestones |->
                      IF i \in back THEN "Refunded" ELSE e.milestones[i]]
           new  == [s \in Ids \X Slots |->
                      IF s[1] = id /\ s[2] \in DOMAIN e.milestones
                      THEN Stage(left[s[2]]) ELSE Tranche[s]]
<1>1. Settle(id, left, e.enterprise, Sum(e.amounts, back))
  BY DEF PayBack
<1>2. Held' = Held /\ Tranche' = new
  <2>1. DOMAIN left = DOMAIN e.milestones
    OBVIOUS
  <2> HIDE DEF left, back
  <2>2. /\ DOMAIN escrows' = DOMAIN escrows
        /\ escrows'[id].milestones = left
        /\ escrows'[id].frozen = escrows[id].frozen
        /\ \A j \in DOMAIN escrows : j # id => escrows'[j] = escrows[j]
    BY <1>1, Settled DEF IInv
  <2> QED
    BY <2>1, <2>2, LedgerUpdate
<1>3. id \in Ids /\ \A i \in DOMAIN e.milestones :
        i \in Slots /\ e.milestones[i] \in Milestone
  BY WithinLedger
<1>4. \A i \in Slots : Tranche[<<id, i>>] =
        IF i \in DOMAIN e.milestones THEN Stage(e.milestones[i]) ELSE "none"
  BY <1>3 DEF Tranche
<1>5. \A i \in Slots : i \in back <=> Tranche[<<id, i>>] \in stages
  BY <1>3, <1>4
<1>6. \A s \in Ids \X Slots : new[s] =
        IF s[1] = id /\ Tranche[s] \in stages THEN "returned" ELSE Tranche[s]
  <2> TAKE s \in Ids \X Slots
  <2>1. CASE s[1] # id
    BY <2>1
  <2>2. CASE s[1] = id
    <3>1. s = <<id, s[2]>> /\ s[2] \in Slots
      BY <2>2
    <3>2. CASE s[2] \in back
      BY <3>1, <3>2, <1>5, <2>2, StageFacts
    <3>3. CASE s[2] \notin back /\ s[2] \in DOMAIN e.milestones
      BY <3>1, <3>3, <1>4, <1>5, <2>2
    <3>4. CASE s[2] \notin DOMAIN e.milestones
      BY <3>1, <3>4, <1>4, <1>5, <2>2
    <3> QED
      BY <3>2, <3>3, <3>4
  <2> QED
    BY <2>1, <2>2
<1>7. Tranche' = [s \in Ids \X Slots |->
        IF s[1] = id /\ Tranche[s] \in stages THEN "returned" ELSE Tranche[s]]
  BY <1>2, <1>6
<1> HIDE DEF new, left, back
<1>8. CASE \E i \in Slots : Tranche[<<id, i>>] \in stages
  BY <1>2, <1>7, <1>8 DEF Ledger!GiveBack
<1>9. CASE ~ \E i \in Slots : Tranche[<<id, i>>] \in stages
  <2>1. \A s \in Ids \X Slots : Tranche'[s] = Tranche[s]
    BY <1>7, <1>9
  <2> QED
    BY <1>2, <1>7, <2>1 DEF Tranche
<1> QED
  BY <1>8, <1>9

\* Writing one open milestone is one step of one tranche in the ledger.
LEMMA OneTranche ==
  ASSUME ContractAssumption, IInv, NEW id \in DOMAIN escrows,
         NEW idx \in DOMAIN escrows[id].milestones, NEW m \in Milestone,
         escrows'[id].milestones = [escrows[id].milestones EXCEPT ![idx] = m],
         DOMAIN escrows' = DOMAIN escrows,
         escrows'[id].frozen = escrows[id].frozen,
         \A j \in DOMAIN escrows : j # id => escrows'[j] = escrows[j]
  PROVE  /\ id \in Ids /\ idx \in Slots
         /\ Held' = Held
         /\ Tranche[<<id, idx>>] = Stage(escrows[id].milestones[idx])
         /\ Tranche' = [Tranche EXCEPT ![<<id, idx>>] = Stage(m)]
<1> DEFINE ms  == [escrows[id].milestones EXCEPT ![idx] = m]
           new == [s \in Ids \X Slots |->
                     IF s[1] = id /\ s[2] \in DOMAIN escrows[id].milestones
                     THEN Stage(ms[s[2]]) ELSE Tranche[s]]
<1>1. id \in Ids /\ \A i \in DOMAIN escrows[id].milestones : i \in Slots
  BY WithinLedger
<1>2. Held' = Held /\ Tranche' = new
  <2>1. DOMAIN ms = DOMAIN escrows[id].milestones
    OBVIOUS
  <2>2. escrows'[id].milestones = ms
    OBVIOUS
  <2> HIDE DEF ms
  <2> QED
    BY <2>1, <2>2, LedgerUpdate
<1>3. \A s \in Ids \X Slots : s[1] = id /\ s[2] \in DOMAIN escrows[id].milestones =>
        Tranche[s] = Stage(escrows[id].milestones[s[2]])
  BY DEF Tranche
<1>4. \A s \in Ids \X Slots : new[s] = IF s = <<id, idx>> THEN Stage(m) ELSE Tranche[s]
  BY <1>3
<1>5. Tranche = [s \in Ids \X Slots |-> Tranche[s]]
  BY DEF Tranche
<1>6. new = [Tranche EXCEPT ![<<id, idx>>] = Stage(m)]
  <2> HIDE DEF new
  <2>1. new = [s \in Ids \X Slots |-> new[s]]
    BY DEF new
  <2> QED
    BY <1>4, <1>5, <2>1
<1> QED
  BY <1>1, <1>2, <1>3, <1>6

\* Every step of the contract is a step of the ledger or leaves it alone.
LEMMA LedgerStep ==
  ASSUME ContractAssumption, IInv, [Next]_vars
  PROVE  [Ledger!Next]_<<Tranche, Held>>
<1> USE DEF IInv
<1>1. ASSUME UNCHANGED escrows
      PROVE  UNCHANGED <<Tranche, Held>>
  BY <1>1 DEF Tranche, Held
<1>2. ASSUME NEW id \in DOMAIN escrows, ReturnFrozen(id)
      PROVE  [Ledger!Next]_<<Tranche, Held>>
  <2>1. id \in Ids /\ Held[id]
    BY <1>2, WithinLedger DEF ReturnFrozen, Held
  <2>2. PayBack(id, Open)
    BY <1>2 DEF ReturnFrozen
  <2>3. \A m \in Milestone : m \in Open <=> Stage(m) \in {"locked", "earned"}
    BY DEF Stage
  <2>4. Ledger!GiveBack(id, {"locked", "earned"}) \/ UNCHANGED <<Tranche, Held>>
    BY <2>2, <2>3, PayBackLedger
  <2> QED
    BY <2>1, <2>4 DEF Ledger!Next, Ledger!Uphold
<1>3. ASSUME NEW id \in DOMAIN escrows, NEW frozen \in BOOLEAN, SetFrozen(id, frozen)
      PROVE  [Ledger!Next]_<<Tranche, Held>>
  <2>1. escrows[id] \in Escrow /\ id \in Ids
    BY WithinLedger
  <2>2. /\ DOMAIN escrows' = DOMAIN escrows
        /\ escrows'[id].milestones = escrows[id].milestones
        /\ escrows'[id].frozen = frozen
        /\ \A j \in DOMAIN escrows : j # id => escrows'[j] = escrows[j]
    BY <1>3, <2>1 DEF SetFrozen, TypeOK, Escrow
  <2>3. Tranche' = Tranche
    BY <2>2 DEF Tranche
  <2>4. Held' = [Held EXCEPT ![id] = frozen]
    BY <2>1, <2>2 DEF Held
  <2> QED
    BY <2>1, <2>3, <2>4 DEF Ledger!Next, Ledger!Hold
<1>4. ASSUME NEW ent \in Enterprises, NEW w \in Workers, NEW token \in Tokens,
             NEW amounts \in AmountLists, NEW expiry \in 0..(MaxTime - 1),
             Create(ent, w, token, amounts, expiry)
      PROVE  [Ledger!Next]_<<Tranche, Held>>
  <2> DEFINE e == [enterprise |-> ent, worker |-> w, token |-> token,
                   amounts |-> amounts,
                   milestones |-> [i \in 1..Len(amounts) |-> "Pending"],
                   expiry |-> expiry, status |-> "Active", frozen |-> FALSE]
             used == 1..Len(amounts)
  <2>1. /\ escrows' = [id \in 0..nextId |-> IF id = nextId THEN e ELSE escrows[id]]
        /\ nextId + 1 <= MaxIds
    BY <1>4 DEF Create, Store
  <2>2. Len(amounts) \in 1..MaxMilestones
    BY <1>4 DEF Create, AmountsValid
  <2>3. used \in SUBSET Slots /\ used # {}
    BY <2>2 DEF Slots, ContractAssumption
  <2>4. DOMAIN e.milestones = used /\ (\A i \in used : e.milestones[i] = "Pending")
        /\ e.frozen = FALSE
    OBVIOUS
  <2> HIDE DEF e, used
  <2>5. nextId \in Ids /\ nextId \notin DOMAIN escrows
        /\ DOMAIN escrows' = DOMAIN escrows \cup {nextId}
        /\ escrows'[nextId] = e
        /\ \A j \in DOMAIN escrows : escrows'[j] = escrows[j]
    BY <2>1 DEF TypeOK, Ids, ContractAssumption
  <2>6. \A i \in Slots : Tranche[<<nextId, i>>] = "none"
    BY <2>5 DEF Tranche
  <2>7. Tranche' = [s \in Ids \X Slots |->
          IF s[1] = nextId /\ s[2] \in used THEN "locked" ELSE Tranche[s]]
    BY <2>4, <2>5, StageFacts DEF Tranche
  <2>8. Held' = Held
    BY <2>4, <2>5 DEF Held
  <2> QED
    BY <2>3, <2>5, <2>6, <2>7, <2>8 DEF Ledger!Next, Ledger!Fund
<1>5. ASSUME NEW id \in DOMAIN escrows, Refund(id)
      PROVE  [Ledger!Next]_<<Tranche, Held>>
  <2>1. id \in Ids /\ ~Held[id]
    BY <1>5, WithinLedger DEF Refund, Held
  <2>2. PayBack(id, {"Pending"})
    BY <1>5 DEF Refund
  <2>3. \A m \in Milestone : m \in {"Pending"} <=> Stage(m) \in {"locked"}
    BY DEF Stage
  <2>4. Ledger!GiveBack(id, {"locked"}) \/ UNCHANGED <<Tranche, Held>>
    BY <2>2, <2>3, PayBackLedger
  <2> QED
    BY <2>1, <2>4 DEF Ledger!Next, Ledger!Expire
<1>6. ASSUME NEW id \in DOMAIN escrows,
             NEW idx \in DOMAIN escrows[id].milestones, Approve(id, idx)
      PROVE  [Ledger!Next]_<<Tranche, Held>>
  <2>1. escrows[id] \in Escrow
    BY WithinLedger
  <2>2. /\ DOMAIN escrows' = DOMAIN escrows
        /\ escrows'[id].milestones = [escrows[id].milestones EXCEPT ![idx] = "Approved"]
        /\ escrows'[id].frozen = escrows[id].frozen
        /\ \A j \in DOMAIN escrows : j # id => escrows'[j] = escrows[j]
    BY <1>6, <2>1 DEF Approve, TypeOK, Escrow
  <2>3. escrows[id].milestones[idx] = "Pending" /\ ~escrows[id].frozen
    BY <1>6 DEF Approve, Workable
  <2>4. /\ id \in Ids /\ idx \in Slots /\ Held' = Held
        /\ Tranche[<<id, idx>>] = "locked"
        /\ Tranche' = [Tranche EXCEPT ![<<id, idx>>] = "earned"]
    <3>1. "Approved" \in Milestone /\ "Claimed" \in Milestone
      OBVIOUS
    <3> HIDE DEF Milestone
    <3> QED
      BY <2>2, <2>3, <3>1, OneTranche, StageFacts
  <2>5. ~Held[id]
    BY <2>3, <2>4 DEF Held
  <2> QED
    BY <2>4, <2>5 DEF Ledger!Next, Ledger!Earn
<1>7. ASSUME NEW id \in DOMAIN escrows,
             NEW idx \in DOMAIN escrows[id].milestones, Claim(id, idx)
      PROVE  [Ledger!Next]_<<Tranche, Held>>
  <2> DEFINE ms == [escrows[id].milestones EXCEPT ![idx] = "Claimed"]
  <2>1. Settle(id, ms, escrows[id].worker, escrows[id].amounts[idx])
    BY <1>7 DEF Claim
  <2>2. /\ DOMAIN escrows' = DOMAIN escrows
        /\ escrows'[id].milestones = ms
        /\ escrows'[id].frozen = escrows[id].frozen
        /\ \A j \in DOMAIN escrows : j # id => escrows'[j] = escrows[j]
    BY <2>1, Settled
  <2>3. escrows[id].milestones[idx] = "Approved" /\ ~escrows[id].frozen
    BY <1>7 DEF Claim, Workable
  <2>4. /\ id \in Ids /\ idx \in Slots /\ Held' = Held
        /\ Tranche[<<id, idx>>] = "earned"
        /\ Tranche' = [Tranche EXCEPT ![<<id, idx>>] = "paid"]
    <3>1. "Approved" \in Milestone /\ "Claimed" \in Milestone
      OBVIOUS
    <3> HIDE DEF Milestone
    <3> QED
      BY <2>2, <2>3, <3>1, OneTranche, StageFacts
  <2>5. ~Held[id]
    BY <2>3, <2>4 DEF Held
  <2> QED
    BY <2>4, <2>5 DEF Ledger!Next, Ledger!Pay
<1> QED
  BY <1>1, <1>2, <1>3, <1>4, <1>5, <1>6, <1>7
     DEF Next, ComplianceNext, PartyNext, RevokeClearance, SetClearance,
         CloseLedger, vars

\* The escrow contract implements TrancheLedger: a tranche is settled once, with
\* the worker only after an approval, and an approved tranche goes back only
\* from a frozen escrow (approve, claim, refund, return_frozen in lib.rs).
THEOREM LedgerImplemented == Spec => ImplementsTrancheLedger
<1>1. Init => Ledger!Init
  <2>1. Init => DOMAIN escrows = {}
    BY DEF Init
  <2>2. DOMAIN escrows = {} => Ledger!Init
    BY DEF Ledger!Init, Tranche, Held
  <2> QED
    BY <2>1, <2>2
<1>2. IInv /\ [Next]_vars => [Ledger!Next]_Ledger!ledger
  BY ContractAssumption, LedgerStep DEF Ledger!ledger
<1> QED
  BY <1>1, <1>2, InvCorrect, PTL DEF Spec, ImplementsTrancheLedger, Ledger!Spec

-----------------------------------------------------------------------------
(* Sums. *)

\* A non-empty collection of subsets of a finite set has a minimal member: what
\* holds of no minimal counterexample holds of every subset.
LEMMA FiniteMinimal ==
  ASSUME NEW S, IsFiniteSet(S), NEW T \in SUBSET (SUBSET S), T # {}
  PROVE  \E X \in T : \A Y \in T : Y \subseteq X => Y = X
<1>1. IsWellFoundedOn(StrictSubsetOrdering(S), SUBSET S)
  BY FS_StrictSubsetOrderingWellFounded, FS_FiniteSubsetsOfFinite
<1>2. PICK X \in T : \A Y \in T : ~(<<Y, X>> \in StrictSubsetOrdering(S))
  BY <1>1, WFMin
<1> QED
  BY <1>2 DEF StrictSubsetOrdering

\* The recursion that SumFunctionOnSet unfolds to: g sums f over every subset of
\* S, taking out an element chosen from it.
Picked(s) == CHOOSE x \in s : TRUE
Adds(f, S, g) ==
  g = [s \in SUBSET S |-> IF s = {} THEN 0 ELSE f[Picked(s)] + g[s \ {Picked(s)}]]

\* Sum is the value at S of the function that adds over the subsets of S.
LEMMA SumUnfold ==
  ASSUME NEW f, NEW S
  PROVE  Sum(f, S) = (CHOOSE g : Adds(f, S, g))[S]
  BY DEF Sum, SumFunctionOnSet, FoldFunctionOnSet, MapThenFoldSet, Adds, Picked

\* The element picked from a set is in it.
LEMMA PickedIn == \A s : s # {} => Picked(s) \in s
  BY DEF Picked

\* What the recursion says of one subset.
LEMMA AddsAt ==
  ASSUME NEW f, NEW S, NEW g, Adds(f, S, g), NEW s \in SUBSET S
  PROVE  /\ s = {} => g[s] = 0
         /\ s # {} => /\ g[s] = f[Picked(s)] + g[s \ {Picked(s)}]
                      /\ s \ {Picked(s)} \in SUBSET S
                      /\ Picked(s) \in s
<1>1. g[s] = IF s = {} THEN 0 ELSE f[Picked(s)] + g[s \ {Picked(s)}]
  BY DEF Adds
<1> QED
  BY <1>1, PickedIn

\* The recursion has at most one solution, whatever the set it is stated for.
LEMMA AddsUnique ==
  ASSUME NEW f, NEW S, IsFiniteSet(S), NEW T \in SUBSET S,
         NEW g, Adds(f, S, g), NEW h, Adds(f, T, h), NEW U \in SUBSET T
  PROVE  g[U] = h[U]
<1> DEFINE Bad == {s \in SUBSET T : g[s] # h[s]}
<1> SUFFICES ASSUME Bad # {}
             PROVE  FALSE
  OBVIOUS
<1>1. Bad \in SUBSET (SUBSET S)
  OBVIOUS
<1>2. PICK X \in Bad : \A Y \in Bad : Y \subseteq X => Y = X
  <2> HIDE DEF Bad
  <2> QED
    BY <1>1, FiniteMinimal
<1>3. X \in SUBSET T /\ X \in SUBSET S /\ g[X] # h[X]
  OBVIOUS
<1>4. X # {}
  BY <1>3, AddsAt
<1> DEFINE x == Picked(X)
<1>5. g[X] = f[x] + g[X \ {x}] /\ h[X] = f[x] + h[X \ {x}] /\ x \in X
  BY <1>3, <1>4, AddsAt
<1>6. X \ {x} \in SUBSET T /\ X \ {x} # X /\ X \ {x} \subseteq X
  BY <1>3, <1>5
<1>7. g[X \ {x}] = h[X \ {x}]
  BY <1>2, <1>6
<1> QED
  BY <1>3, <1>5, <1>7

\* And at least one, for a finite set.
LEMMA AddsExists ==
  ASSUME NEW f, NEW S, IsFiniteSet(S)
  PROVE  \E g : Adds(f, S, g)
<1> DEFINE Bad == {s \in SUBSET S : ~ \E g : Adds(f, s, g)}
           H(s) == (CHOOSE g : Adds(f, s, g))[s]
<1> SUFFICES ASSUME Bad # {}
             PROVE  FALSE
  OBVIOUS
<1>1. PICK X \in Bad : \A Y \in Bad : Y \subseteq X => Y = X
  <2>1. Bad \in SUBSET (SUBSET S)
    OBVIOUS
  <2> HIDE DEF Bad
  <2> QED
    BY <2>1, FiniteMinimal
<1>2. X \in SUBSET S /\ ~ \E g : Adds(f, X, g)
  OBVIOUS
<1>3. \A s \in SUBSET X : s # X => \E g : Adds(f, s, g)
  BY <1>1, <1>2
<1> HIDE DEF Bad
<1> DEFINE G == [s \in SUBSET X |->
                   IF s = {} THEN 0 ELSE f[Picked(s)] + H(s \ {Picked(s)})]
<1>4. ASSUME NEW s \in SUBSET X, s # X
      PROVE  H(s) = G[s]
  <2> DEFINE h == CHOOSE g : Adds(f, s, g)
             t == s \ {Picked(s)}
             k == CHOOSE g : Adds(f, t, g)
  <2>1. Adds(f, s, h)
    BY <1>3, <1>4
  <2>2. s \in SUBSET s /\ H(s) = h[s] /\ IsFiniteSet(s)
    BY <1>2, FS_Subset
  <2>3. CASE s = {}
    BY <2>1, <2>2, <2>3, AddsAt
  <2>4. CASE s # {}
    <3>1. h[s] = f[Picked(s)] + h[t] /\ t \in SUBSET s /\ Picked(s) \in s
      <4> HIDE DEF h
      <4> QED
        BY <2>1, <2>2, <2>4, AddsAt
    <3>2. t \in SUBSET X /\ t # X
      BY <3>1
    <3>3. Adds(f, t, k)
      BY <1>3, <3>2
    <3>4. t \in SUBSET t /\ H(t) = k[t]
      OBVIOUS
    <3>5. h[t] = k[t]
      <4> HIDE DEF h, k, t
      <4> QED
        BY <2>1, <2>2, <3>1, <3>3, <3>4, AddsUnique
    <3>6. G[s] = f[Picked(s)] + H(t)
      BY <2>4
    <3> HIDE DEF h, k, t, G, H
    <3> QED
      BY <2>2, <3>1, <3>4, <3>5, <3>6
  <2> QED
    BY <2>3, <2>4
<1>5. \A s \in SUBSET X : s # {} => H(s \ {Picked(s)}) = G[s \ {Picked(s)}]
  <2> SUFFICES ASSUME NEW s \in SUBSET X, s # {}
               PROVE  H(s \ {Picked(s)}) = G[s \ {Picked(s)}]
    OBVIOUS
  <2>1. Picked(s) \in s
    BY PickedIn
  <2>2. s \ {Picked(s)} \in SUBSET X /\ s \ {Picked(s)} # X
    BY <2>1
  <2> HIDE DEF H, G
  <2> QED
    BY <1>4, <2>2
<1>6. Adds(f, X, G)
  <2>1. G = [s \in SUBSET X |->
               IF s = {} THEN 0 ELSE f[Picked(s)] + G[s \ {Picked(s)}]]
    <3> HIDE DEF H
    <3>1. \A s \in SUBSET X :
            G[s] = IF s = {} THEN 0 ELSE f[Picked(s)] + G[s \ {Picked(s)}]
      BY <1>5
    <3>2. G = [s \in SUBSET X |-> G[s]]
      OBVIOUS
    <3> HIDE DEF G
    <3> QED
      BY <3>1, <3>2
  <2> HIDE DEF G
  <2> QED
    BY <2>1 DEF Adds
<1> QED
  BY <1>2, <1>6

\* What Sum computes: nothing over the empty set, and otherwise an element and
\* the sum of the rest.
LEMMA SumEmpty ==
  ASSUME NEW f
  PROVE  Sum(f, {}) = 0
<1> DEFINE g == CHOOSE h : Adds(f, {}, h)
<1>1. Adds(f, {}, g)
  BY AddsExists, FS_EmptySet
<1>2. Sum(f, {}) = g[{}]
  BY SumUnfold
<1> HIDE DEF g
<1> QED
  BY <1>1, <1>2, AddsAt

\* A sum is that of one element and of the rest.
LEMMA SumPicked ==
  ASSUME NEW f, NEW S, IsFiniteSet(S), S # {}
  PROVE  Picked(S) \in S /\ Sum(f, S) = f[Picked(S)] + Sum(f, S \ {Picked(S)})
<1> DEFINE T == S \ {Picked(S)}
           g == CHOOSE k : Adds(f, S, k)
           h == CHOOSE k : Adds(f, T, k)
<1>1. IsFiniteSet(T) /\ T \in SUBSET S /\ S \in SUBSET S /\ T \in SUBSET T
  BY FS_RemoveElement
<1>2. Adds(f, S, g)
  BY AddsExists
<1>3. Adds(f, T, h)
  <2> HIDE DEF T
  <2> QED
    BY <1>1, AddsExists
<1>4. Sum(f, S) = g[S] /\ Sum(f, T) = h[T]
  BY SumUnfold
<1> HIDE DEF g, h
<1>5. g[S] = f[Picked(S)] + g[T] /\ Picked(S) \in S
  BY <1>1, <1>2, AddsAt
<1>6. g[T] = h[T]
  <2> HIDE DEF T
  <2> QED
    BY <1>1, <1>2, <1>3, AddsUnique
<1> QED
  BY <1>4, <1>5, <1>6

\* A sum of integers is an integer.
LEMMA SumInt ==
  ASSUME NEW f, NEW S, IsFiniteSet(S), \A x \in S : f[x] \in Int
  PROVE  Sum(f, S) \in Int
<1> DEFINE Bad == {s \in SUBSET S : Sum(f, s) \notin Int}
<1> SUFFICES ASSUME Bad # {}
             PROVE  FALSE
  OBVIOUS
<1>1. PICK X \in Bad : \A Y \in Bad : Y \subseteq X => Y = X
  <2>1. Bad \in SUBSET (SUBSET S)
    OBVIOUS
  <2> HIDE DEF Bad
  <2> QED
    BY <2>1, FiniteMinimal
<1>2. X \in SUBSET S /\ Sum(f, X) \notin Int /\ IsFiniteSet(X)
  BY FS_Subset
<1>3. X # {}
  BY <1>2, SumEmpty
<1>4. Picked(X) \in X /\ Sum(f, X) = f[Picked(X)] + Sum(f, X \ {Picked(X)})
  BY <1>2, <1>3, SumPicked
<1>5. Sum(f, X \ {Picked(X)}) \in Int
  BY <1>1, <1>2, <1>4
<1> QED
  BY <1>2, <1>4, <1>5

\* The order in which the elements are taken does not matter.
LEMMA SumRemove ==
  ASSUME NEW f, NEW S, IsFiniteSet(S), \A x \in S : f[x] \in Int, NEW y \in S
  PROVE  Sum(f, S) = f[y] + Sum(f, S \ {y})
<1> DEFINE Bad == {s \in SUBSET S : \E z \in s : Sum(f, s) # f[z] + Sum(f, s \ {z})}
<1> SUFFICES ASSUME Bad # {}
             PROVE  FALSE
  OBVIOUS
<1>1. PICK X \in Bad : \A Y \in Bad : Y \subseteq X => Y = X
  <2>1. Bad \in SUBSET (SUBSET S)
    OBVIOUS
  <2> HIDE DEF Bad
  <2> QED
    BY <2>1, FiniteMinimal
<1>2. PICK z \in X : Sum(f, X) # f[z] + Sum(f, X \ {z})
  OBVIOUS
<1>3. X \in SUBSET S /\ X # {} /\ IsFiniteSet(X)
  BY <1>2, FS_Subset
<1> DEFINE p == Picked(X)
<1>4. p \in X /\ Sum(f, X) = f[p] + Sum(f, X \ {p})
  BY <1>3, SumPicked
<1>5. p # z
  BY <1>2, <1>4
<1>6. \A s \in SUBSET X : s # X =>
        \A v \in s : Sum(f, s) = f[v] + Sum(f, s \ {v})
  BY <1>1, <1>3
<1> HIDE DEF Bad, p
<1>7. Sum(f, X \ {p}) = f[z] + Sum(f, (X \ {p}) \ {z})
  BY <1>4, <1>5, <1>6
<1>8. Sum(f, X \ {z}) = f[p] + Sum(f, (X \ {z}) \ {p})
  BY <1>4, <1>5, <1>6
<1>9. Sum(f, (X \ {p}) \ {z}) = Sum(f, (X \ {z}) \ {p})
  <2>1. (X \ {p}) \ {z} = (X \ {z}) \ {p}
    OBVIOUS
  <2> QED
    BY <2>1, Zenon
<1>10. Sum(f, (X \ {z}) \ {p}) \in Int /\ f[p] \in Int /\ f[z] \in Int
  <2>1. IsFiniteSet((X \ {z}) \ {p})
    BY <1>3, FS_RemoveElement
  <2> QED
    BY <1>3, <1>4, <2>1, SumInt
<1> QED
  BY <1>2, <1>4, <1>7, <1>8, <1>9, <1>10

\* Functions that agree on a set have the same sum over it.
LEMMA SumAgree ==
  ASSUME NEW f, NEW g, NEW S, IsFiniteSet(S), \A x \in S : f[x] = g[x]
  PROVE  Sum(f, S) = Sum(g, S)
<1> DEFINE Bad == {s \in SUBSET S : Sum(f, s) # Sum(g, s)}
<1> SUFFICES ASSUME Bad # {}
             PROVE  FALSE
  OBVIOUS
<1>1. PICK X \in Bad : \A Y \in Bad : Y \subseteq X => Y = X
  <2>1. Bad \in SUBSET (SUBSET S)
    OBVIOUS
  <2> HIDE DEF Bad
  <2> QED
    BY <2>1, FiniteMinimal
<1>2. X \in SUBSET S /\ Sum(f, X) # Sum(g, X) /\ IsFiniteSet(X)
  BY FS_Subset
<1>3. X # {}
  BY <1>2, SumEmpty
<1>4. Picked(X) \in X /\ Sum(f, X) = f[Picked(X)] + Sum(f, X \ {Picked(X)})
      /\ Sum(g, X) = g[Picked(X)] + Sum(g, X \ {Picked(X)})
  BY <1>2, <1>3, SumPicked
<1>5. Sum(f, X \ {Picked(X)}) = Sum(g, X \ {Picked(X)})
  BY <1>1, <1>2, <1>4
<1>6. f[Picked(X)] = g[Picked(X)]
  BY <1>2, <1>4
<1> QED
  BY <1>2, <1>4, <1>5, <1>6

\* A sum over a set is the sum over a part of it and the sum over the rest.
LEMMA SumSplit ==
  ASSUME NEW f, NEW S, IsFiniteSet(S), \A x \in S : f[x] \in Int, NEW A \in SUBSET S
  PROVE  Sum(f, S) = Sum(f, A) + Sum(f, S \ A)
<1> DEFINE Bad == {s \in SUBSET A : Sum(f, S) # Sum(f, s) + Sum(f, S \ s)}
<1> SUFFICES ASSUME Bad # {}
             PROVE  FALSE
  OBVIOUS
<1>0. IsFiniteSet(A) /\ \A s \in SUBSET A : IsFiniteSet(s) /\ IsFiniteSet(S \ s)
  BY FS_Subset
<1>1. PICK X \in Bad : \A Y \in Bad : Y \subseteq X => Y = X
  <2>1. Bad \in SUBSET (SUBSET A)
    OBVIOUS
  <2> HIDE DEF Bad
  <2> QED
    BY <1>0, <2>1, FiniteMinimal
<1>2. X \in SUBSET A /\ Sum(f, S) # Sum(f, X) + Sum(f, S \ X)
  OBVIOUS
<1>3. X # {}
  <2>1. Sum(f, S) \in Int
    BY SumInt
  <2>2. X = {} => Sum(f, X) = 0
    BY SumEmpty
  <2>3. X = {} => Sum(f, S \ X) = Sum(f, S)
    <3>1. X = {} => S \ X = S
      OBVIOUS
    <3> QED
      BY <3>1, Zenon
  <2> QED
    BY <1>2, <2>1, <2>2, <2>3
<1> DEFINE p == Picked(X)
           Y == X \ {p}
<1>4. p \in X /\ Sum(f, X) = f[p] + Sum(f, Y)
  BY <1>0, <1>2, <1>3, SumPicked
<1>5. Sum(f, S) = Sum(f, Y) + Sum(f, S \ Y)
  BY <1>1, <1>2, <1>4
<1>6. Sum(f, S \ Y) = f[p] + Sum(f, S \ X)
  <2>1. p \in S \ Y /\ (S \ Y) \ {p} = S \ X /\ IsFiniteSet(S \ Y)
    BY <1>0, <1>2, <1>4
  <2> HIDE DEF p, Y
  <2> QED
    BY <2>1, SumRemove
<1>7. Sum(f, Y) \in Int /\ Sum(f, S \ X) \in Int /\ f[p] \in Int
  <2>1. Y \in SUBSET A /\ S \ X \in SUBSET S
    BY <1>2
  <2>2. IsFiniteSet(Y) /\ IsFiniteSet(S \ X)
    BY <1>0, <1>2, <2>1
  <2> QED
    BY <1>2, <1>4, <2>1, <2>2, SumInt
<1> HIDE DEF p, Y
<1> QED
  BY <1>2, <1>4, <1>5, <1>6, <1>7

-----------------------------------------------------------------------------
(* The books: what the escrows hold and have paid, in sums. *)

\* The value of the tranches of one escrow that are in the given states, and of
\* those of a set of escrows.
Vals(e, states) ==
  Sum(e.amounts, {i \in DOMAIN e.milestones : e.milestones[i] \in states})
Total(es, ids, states) == Sum([id \in ids |-> Vals(es[id], states)], ids)

\* The escrows of a token, those an enterprise pays and those a worker is paid from.
Denominated(es, token) == {id \in DOMAIN es : es[id].token = token}
PaidBy(es, a, token) ==
  {id \in DOMAIN es : es[id].enterprise = a /\ es[id].token = token}
PaidTo(es, a, token) ==
  {id \in DOMAIN es : es[id].worker = a /\ es[id].token = token}

Opening(a) == IF a \in Enterprises THEN InitialBalance ELSE 0

Balanced(es, b, token) ==
  /\ b[<<Vault, token>>] = Total(es, Denominated(es, token), Open)
  /\ \A a \in Addresses \ {Vault} :
       b[<<a, token>>] = Opening(a)
                     - Total(es, PaidBy(es, a, token), Milestone)
                     + Total(es, PaidBy(es, a, token), {"Refunded"})
                     + Total(es, PaidTo(es, a, token), {"Claimed"})

\* Accounting in these terms.
LEMMA AccountingTerms ==
  Accounting <=> \A token \in Tokens : Balanced(escrows, balance, token)
  BY DEF Accounting, Balanced, Opening, Tally, SumFunction, Sum, Total, Vals,
         Denominated, PaidBy, PaidTo

\* An escrow has finitely many tranches, each of an integer amount: the value of
\* some of them is an integer.
LEMMA Values ==
  ASSUME ContractAssumption, NEW e \in Escrow, DOMAIN e.milestones = DOMAIN e.amounts
  PROVE  /\ IsFiniteSet(DOMAIN e.milestones)
         /\ \A i \in DOMAIN e.milestones : e.amounts[i] \in Int
         /\ \A states : Vals(e, states) \in Int
<1>1. e.amounts \in Seq(1..MaxI128)
  BY DEF Escrow
<1>2. \A i \in DOMAIN e.amounts : e.amounts[i] \in Int
  BY <1>1, ElementOfSeq DEF ContractAssumption
<1>3. IsFiniteSet(DOMAIN e.amounts)
  <2>1. DOMAIN e.amounts = 1..Len(e.amounts) /\ Len(e.amounts) \in Int
    BY <1>1
  <2> QED
    BY <2>1, FS_Interval
<1>4. ASSUME NEW states
      PROVE  Vals(e, states) \in Int
  <2> DEFINE S == {i \in DOMAIN e.milestones : e.milestones[i] \in states}
  <2>1. S \in SUBSET DOMAIN e.amounts
    OBVIOUS
  <2>2. IsFiniteSet(S) /\ \A i \in S : e.amounts[i] \in Int
    BY <1>2, <1>3, <2>1, FS_Subset
  <2> HIDE DEF S
  <2>3. Sum(e.amounts, S) \in Int
    BY <2>2, SumInt
  <2> QED
    BY <2>3 DEF Vals, S
<1> QED
  BY <1>2, <1>3, <1>4

\* The same in the next state.
LEMMA AccountingTermsNext ==
  Accounting' <=> \A token \in Tokens : Balanced(escrows', balance', token)
<1>1. (Accounting <=> \A token \in Tokens : Balanced(escrows, balance, token))'
  BY DEF Accounting, Balanced, Opening, Tally, SumFunction, Sum, Total, Vals,
         Denominated, PaidBy, PaidTo
<1> QED
  BY <1>1

\* A total changes by what changes in one escrow.
LEMMA TotalChange ==
  ASSUME NEW es, NEW fs, NEW ids, IsFiniteSet(ids), NEW states, NEW id,
         \A j \in ids : Vals(es[j], states) \in Int /\ Vals(fs[j], states) \in Int,
         \A j \in ids : j # id => fs[j] = es[j]
  PROVE  /\ Total(es, ids, states) \in Int
         /\ Total(fs, ids, states) =
              IF id \in ids
              THEN Total(es, ids, states) + (Vals(fs[id], states) - Vals(es[id], states))
              ELSE Total(es, ids, states)
<1> DEFINE f == [j \in ids |-> Vals(es[j], states)]
           g == [j \in ids |-> Vals(fs[j], states)]
           S == ids \ {id}
<1>1. /\ \A j \in ids : f[j] \in Int /\ g[j] \in Int
      /\ \A j \in S : f[j] = g[j]
      /\ id \in ids => f[id] = Vals(es[id], states) /\ g[id] = Vals(fs[id], states)
  OBVIOUS
<1>2. Total(es, ids, states) = Sum(f, ids) /\ Total(fs, ids, states) = Sum(g, ids)
  BY DEF Total
<1>3. IsFiniteSet(S) /\ (id \notin ids => S = ids)
  BY FS_RemoveElement
<1> HIDE DEF f, g
<1>4. Sum(f, ids) \in Int /\ Sum(f, S) \in Int
  BY <1>1, <1>3, SumInt
<1>5. Sum(f, S) = Sum(g, S)
  <2> HIDE DEF S
  <2> QED
    BY <1>1, <1>3, SumAgree
<1>6. CASE id \in ids
  <2>1. Sum(f, ids) = f[id] + Sum(f, S) /\ Sum(g, ids) = g[id] + Sum(g, S)
    BY <1>1, <1>6, SumRemove
  <2> HIDE DEF S
  <2>2. f[id] \in Int /\ g[id] \in Int
    BY <1>1, <1>6
  <2>3. Sum(g, ids) = Sum(f, ids) + (g[id] - f[id])
    BY <1>4, <1>5, <2>1, <2>2
  <2> QED
    BY <1>1, <1>2, <1>4, <1>6, <2>3
<1>7. CASE id \notin ids
  <2>1. \A j \in ids : f[j] = g[j]
    BY <1>1, <1>7
  <2>2. Sum(f, ids) = Sum(g, ids)
    BY <2>1, SumAgree
  <2> QED
    BY <1>2, <1>4, <1>7, <2>2
<1> QED
  BY <1>6, <1>7

\* A total over one escrow more.
LEMMA TotalMore ==
  ASSUME NEW es, NEW fs, NEW ids, IsFiniteSet(ids), NEW states, NEW id, id \notin ids,
         \A j \in ids : Vals(es[j], states) \in Int /\ fs[j] = es[j],
         Vals(fs[id], states) \in Int
  PROVE  /\ Total(es, ids, states) \in Int
         /\ Total(fs, ids \cup {id}, states) = Total(es, ids, states) + Vals(fs[id], states)
<1> DEFINE T == ids \cup {id}
           f == [j \in ids |-> Vals(es[j], states)]
           g == [j \in T |-> Vals(fs[j], states)]
<1>1. /\ \A j \in ids : f[j] = g[j] /\ f[j] \in Int
      /\ \A j \in T : g[j] \in Int
      /\ g[id] = Vals(fs[id], states) /\ id \in T
  OBVIOUS
<1>2. Total(es, ids, states) = Sum(f, ids) /\ Total(fs, T, states) = Sum(g, T)
  BY DEF Total
<1>3. IsFiniteSet(T) /\ T \ {id} = ids
  BY FS_AddElement
<1> HIDE DEF f, g
<1>4. Sum(f, ids) \in Int
  BY <1>1, SumInt
<1>5. Sum(f, ids) = Sum(g, ids)
  BY <1>1, SumAgree
<1>6. Sum(g, T) = g[id] + Sum(g, T \ {id})
  <2> HIDE DEF T
  <2> QED
    BY <1>1, <1>3, SumRemove
<1>7. Sum(g, T \ {id}) = Sum(g, ids)
  BY <1>3, Zenon
<1> QED
  BY <1>1, <1>2, <1>4, <1>5, <1>6, <1>7

\* The escrows of a reachable state: finitely many, each of integer value.
LEMMA EscrowValues ==
  ASSUME ContractAssumption, TypeOK
  PROVE  /\ \A ids \in SUBSET DOMAIN escrows : IsFiniteSet(ids)
         /\ \A id \in DOMAIN escrows : \A states : Vals(escrows[id], states) \in Int
         /\ \A ids \in SUBSET DOMAIN escrows : \A states : Total(escrows, ids, states) \in Int
<1>1. IsFiniteSet(DOMAIN escrows)
  <2>1. DOMAIN escrows = 0..(nextId - 1) /\ nextId - 1 \in Int
    BY DEF TypeOK, ContractAssumption
  <2> QED
    BY <2>1, FS_Interval
<1>2. \A ids \in SUBSET DOMAIN escrows : IsFiniteSet(ids)
  BY <1>1, FS_Subset
<1>3. \A id \in DOMAIN escrows : \A states : Vals(escrows[id], states) \in Int
  BY Values DEF TypeOK
<1>4. ASSUME NEW ids \in SUBSET DOMAIN escrows, NEW states
      PROVE  Total(escrows, ids, states) \in Int
  BY <1>2, <1>3, TotalChange
<1> QED
  BY <1>2, <1>3, <1>4

\* A step that rewrites one escrow and leaves its token and its parties alone.
Rewritten(id) ==
  /\ id \in DOMAIN escrows /\ DOMAIN escrows' = DOMAIN escrows
  /\ \A j \in DOMAIN escrows : j # id => escrows'[j] = escrows[j]
  /\ escrows'[id].enterprise = escrows[id].enterprise
  /\ escrows'[id].worker = escrows[id].worker
  /\ escrows'[id].token = escrows[id].token

\* Such a step changes every total by what changes in that escrow, in its token
\* and with its parties, and no other.
LEMMA RewrittenTotals ==
  ASSUME ContractAssumption, TypeOK, TypeOK', NEW id, Rewritten(id), NEW states,
         NEW d, d = Vals(escrows'[id], states) - Vals(escrows[id], states)
  PROVE  /\ d \in Int
         /\ \A ids \in SUBSET DOMAIN escrows :
              Total(escrows', ids, states) =
                IF id \in ids THEN Total(escrows, ids, states) + d
                ELSE Total(escrows, ids, states)
<1>1. \A ids \in SUBSET DOMAIN escrows : IsFiniteSet(ids)
  BY EscrowValues
<1>2. \A j \in DOMAIN escrows :
        Vals(escrows[j], states) \in Int /\ Vals(escrows'[j], states) \in Int
  <2>1. \A j \in DOMAIN escrows : Vals(escrows[j], states) \in Int
    BY EscrowValues
  <2>2. \A j \in DOMAIN escrows' : Vals(escrows'[j], states) \in Int
    BY Values DEF TypeOK
  <2> QED
    BY <2>1, <2>2 DEF Rewritten
<1>3. \A ids \in SUBSET DOMAIN escrows :
        Total(escrows', ids, states) =
          IF id \in ids THEN Total(escrows, ids, states) + d
          ELSE Total(escrows, ids, states)
  BY <1>1, <1>2, TotalChange DEF Rewritten
<1> QED
  BY <1>2, <1>3 DEF Rewritten

\* The same for the escrows of one token, and for those of one enterprise or worker.
LEMMA RewrittenDenominated ==
  ASSUME ContractAssumption, TypeOK, TypeOK', NEW id, Rewritten(id), NEW states,
         NEW d, d = Vals(escrows'[id], states) - Vals(escrows[id], states),
         NEW token
  PROVE  Total(escrows', Denominated(escrows', token), states) =
           IF escrows[id].token = token
           THEN Total(escrows, Denominated(escrows, token), states) + d
           ELSE Total(escrows, Denominated(escrows, token), states)
<1> DEFINE S == Denominated(escrows, token)
<1>1. S \in SUBSET DOMAIN escrows /\ Denominated(escrows', token) = S
      /\ (id \in S <=> escrows[id].token = token)
  BY DEF Denominated, Rewritten
<1> HIDE DEF S
<1>2. Total(escrows', Denominated(escrows', token), states) = Total(escrows', S, states)
  BY <1>1, Zenon
<1>3. Total(escrows', S, states) = IF id \in S THEN Total(escrows, S, states) + d
                                   ELSE Total(escrows, S, states)
  BY <1>1, RewrittenTotals
<1> QED
  BY <1>1, <1>2, <1>3 DEF S

\* What an escrow that is rewritten adds to the total its enterprise has paid.
LEMMA RewrittenBy ==
  ASSUME ContractAssumption, TypeOK, TypeOK', NEW id, Rewritten(id), NEW states,
         NEW d, d = Vals(escrows'[id], states) - Vals(escrows[id], states),
         NEW a, NEW token
  PROVE  Total(escrows', PaidBy(escrows', a, token), states) =
           IF escrows[id].token = token /\ escrows[id].enterprise = a
           THEN Total(escrows, PaidBy(escrows, a, token), states) + d
           ELSE Total(escrows, PaidBy(escrows, a, token), states)
<1> DEFINE S == PaidBy(escrows, a, token)
<1>1. S \in SUBSET DOMAIN escrows /\ PaidBy(escrows', a, token) = S
      /\ (id \in S <=> escrows[id].token = token /\ escrows[id].enterprise = a)
  BY DEF PaidBy, Rewritten
<1> HIDE DEF S
<1>2. Total(escrows', PaidBy(escrows', a, token), states) = Total(escrows', S, states)
  BY <1>1, Zenon
<1>3. Total(escrows', S, states) = IF id \in S THEN Total(escrows, S, states) + d
                                   ELSE Total(escrows, S, states)
  BY <1>1, RewrittenTotals
<1> QED
  BY <1>1, <1>2, <1>3 DEF S

\* What an escrow that is rewritten adds to the total its worker is paid.
LEMMA RewrittenTo ==
  ASSUME ContractAssumption, TypeOK, TypeOK', NEW id, Rewritten(id), NEW states,
         NEW d, d = Vals(escrows'[id], states) - Vals(escrows[id], states),
         NEW a, NEW token
  PROVE  Total(escrows', PaidTo(escrows', a, token), states) =
           IF escrows[id].token = token /\ escrows[id].worker = a
           THEN Total(escrows, PaidTo(escrows, a, token), states) + d
           ELSE Total(escrows, PaidTo(escrows, a, token), states)
<1> DEFINE S == PaidTo(escrows, a, token)
<1>1. S \in SUBSET DOMAIN escrows /\ PaidTo(escrows', a, token) = S
      /\ (id \in S <=> escrows[id].token = token /\ escrows[id].worker = a)
  BY DEF PaidTo, Rewritten
<1> HIDE DEF S
<1>2. Total(escrows', PaidTo(escrows', a, token), states) = Total(escrows', S, states)
  BY <1>1, Zenon
<1>3. Total(escrows', S, states) = IF id \in S THEN Total(escrows, S, states) + d
                                   ELSE Total(escrows, S, states)
  BY <1>1, RewrittenTotals
<1> QED
  BY <1>1, <1>2, <1>3 DEF S

\* A payment out of an escrow: what it pays is no longer open, and is now claimed
\* by the worker it went to or refunded to the enterprise it went to.
Pays(id, to, payee, amount) ==
  /\ Rewritten(id)
  /\ to \in {"Claimed", "Refunded"} /\ amount \in Int
  /\ payee = IF to = "Claimed" THEN escrows[id].worker ELSE escrows[id].enterprise
  /\ Transfer(Vault, payee, escrows[id].token, amount)
  /\ Vals(escrows'[id], Open) = Vals(escrows[id], Open) - amount
  /\ Vals(escrows'[id], Milestone) = Vals(escrows[id], Milestone)
  /\ \A states \in {{"Claimed"}, {"Refunded"}} :
       Vals(escrows'[id], states) =
         IF to \in states THEN Vals(escrows[id], states) + amount
         ELSE Vals(escrows[id], states)

\* Such a payment keeps the books balanced.
LEMMA PaymentBalances ==
  ASSUME ContractAssumption, TypeOK, TypeOK',
         NEW id, NEW to, NEW payee, NEW amount, Pays(id, to, payee, amount),
         NEW token \in Tokens, Balanced(escrows, balance, token)
  PROVE  Balanced(escrows', balance', token)
<1>0. /\ Rewritten(id) /\ amount \in Int
      /\ Transfer(Vault, payee, escrows[id].token, amount)
      /\ Vals(escrows'[id], Open) = Vals(escrows[id], Open) - amount
      /\ Vals(escrows'[id], Milestone) = Vals(escrows[id], Milestone)
  BY DEF Pays
<1>a. \/ /\ payee = escrows[id].worker
         /\ Vals(escrows'[id], {"Claimed"}) = Vals(escrows[id], {"Claimed"}) + amount
         /\ Vals(escrows'[id], {"Refunded"}) = Vals(escrows[id], {"Refunded"})
      \/ /\ payee = escrows[id].enterprise
         /\ Vals(escrows'[id], {"Refunded"}) = Vals(escrows[id], {"Refunded"}) + amount
         /\ Vals(escrows'[id], {"Claimed"}) = Vals(escrows[id], {"Claimed"})
  BY DEF Pays
<1> DEFINE e == escrows[id]
<1> HIDE DEF Milestone, Open
<1>1. e \in Escrow /\ e.token \in Tokens /\ payee # Vault
  <2>1. e \in Escrow
    BY <1>0 DEF TypeOK, Rewritten
  <2>2. e.token \in Tokens /\ e.enterprise \in Enterprises /\ e.worker \in Workers
    BY <2>1 DEF Escrow
  <2>3. payee \in {e.worker, e.enterprise}
    BY <1>a
  <2> QED
    BY <2>1, <2>2, <2>3 DEF ContractAssumption
<1>2. \A h \in Addresses \X Tokens : balance[h] \in Int
  BY DEF TypeOK
<1>3. \A h \in Addresses \X Tokens :
        balance'[h] = IF h = <<Vault, e.token>> THEN balance[h] - amount
                      ELSE IF h = <<payee, e.token>> THEN balance[h] + amount
                      ELSE balance[h]
  BY <1>0 DEF Transfer, TypeOK
<1>4. \A states : Vals(e, states) \in Int
  BY <1>0, EscrowValues DEF Rewritten
<1>5. balance'[<<Vault, token>>] = Total(escrows', Denominated(escrows', token), Open)
  <2> DEFINE d == Vals(escrows'[id], Open) - Vals(e, Open)
  <2>1. Total(escrows', Denominated(escrows', token), Open) =
          IF e.token = token
          THEN Total(escrows, Denominated(escrows, token), Open) + d
          ELSE Total(escrows, Denominated(escrows, token), Open)
    <3>1. d = Vals(escrows'[id], Open) - Vals(escrows[id], Open)
      OBVIOUS
    <3> HIDE DEF d
    <3> QED
      BY <1>0, <3>1, RewrittenDenominated
  <2>2. Total(escrows, Denominated(escrows, token), Open) = balance[<<Vault, token>>]
        /\ d = -amount
    BY <1>0, <1>4 DEF Balanced
  <2>3. <<Vault, token>> \in Addresses \X Tokens
    BY DEF Addresses
  <2>4. balance[<<Vault, token>>] \in Int /\ Vals(e, Open) \in Int
        /\ balance'[<<Vault, token>>] =
             IF e.token = token THEN balance[<<Vault, token>>] - amount ELSE balance[<<Vault, token>>]
    BY <1>0, <1>1, <1>2, <1>3, <1>4, <2>3
  <2> HIDE DEF d
  <2> QED
    BY <1>0, <2>1, <2>2, <2>4
<1>6. ASSUME NEW a \in Addresses \ {Vault}
      PROVE  balance'[<<a, token>>] =
               Opening(a) - Total(escrows', PaidBy(escrows', a, token), Milestone)
                        + Total(escrows', PaidBy(escrows', a, token), {"Refunded"})
                        + Total(escrows', PaidTo(escrows', a, token), {"Claimed"})
  <2> DEFINE by  == Total(escrows, PaidBy(escrows, a, token), Milestone)
             bk  == Total(escrows, PaidBy(escrows, a, token), {"Refunded"})
             got  == Total(escrows, PaidTo(escrows, a, token), {"Claimed"})
             dBk == Vals(escrows'[id], {"Refunded"}) - Vals(e, {"Refunded"})
             dTo == Vals(escrows'[id], {"Claimed"}) - Vals(e, {"Claimed"})
  <2>1. balance[<<a, token>>] = Opening(a) - by + bk + got
    BY DEF Balanced
  <2>2. by \in Int /\ bk \in Int /\ got \in Int
    <3>1. PaidBy(escrows, a, token) \in SUBSET DOMAIN escrows
          /\ PaidTo(escrows, a, token) \in SUBSET DOMAIN escrows
      BY DEF PaidBy, PaidTo
    <3> QED
      BY <3>1, EscrowValues
  <2>3. <<a, token>> \in Addresses \X Tokens /\ Opening(a) \in Int
    BY DEF Opening, ContractAssumption
  <2>4. balance'[<<a, token>>] = IF a = payee /\ e.token = token
                             THEN balance[<<a, token>>] + amount ELSE balance[<<a, token>>]
    BY <1>3, <2>3
  <2>5. Total(escrows', PaidBy(escrows', a, token), Milestone) = by
    <3> DEFINE d == Vals(escrows'[id], Milestone) - Vals(escrows[id], Milestone)
    <3>1. d = Vals(escrows'[id], Milestone) - Vals(escrows[id], Milestone) /\ d = 0
      BY <1>0, <1>4
    <3> HIDE DEF d
    <3>2. Total(escrows', PaidBy(escrows', a, token), Milestone) =
            IF escrows[id].token = token /\ escrows[id].enterprise = a THEN by + d ELSE by
      BY <1>0, <3>1, RewrittenBy
    <3> HIDE DEF by
    <3> QED
      BY <2>2, <3>1, <3>2
  <2>6. Total(escrows', PaidBy(escrows', a, token), {"Refunded"}) =
          IF e.token = token /\ e.enterprise = a THEN bk + dBk ELSE bk
    <3>1. dBk = Vals(escrows'[id], {"Refunded"}) - Vals(escrows[id], {"Refunded"})
      OBVIOUS
    <3> HIDE DEF dBk
    <3> QED
      BY <1>0, <3>1, RewrittenBy
  <2>7. Total(escrows', PaidTo(escrows', a, token), {"Claimed"}) =
          IF e.token = token /\ e.worker = a THEN got + dTo ELSE got
    <3>1. dTo = Vals(escrows'[id], {"Claimed"}) - Vals(escrows[id], {"Claimed"})
      OBVIOUS
    <3> HIDE DEF dTo
    <3> QED
      BY <1>0, <3>1, RewrittenTo
  <2>8. \/ payee = e.worker /\ dTo = amount /\ dBk = 0
        \/ payee = e.enterprise /\ dBk = amount /\ dTo = 0
    BY <1>a, <1>0, <1>4
  <2> HIDE DEF by, bk, got, dBk, dTo, e
  <2> QED
    BY <1>0, <2>1, <2>2, <2>3, <2>4, <2>5, <2>6, <2>7, <2>8
<1> QED
  BY <1>5, <1>6 DEF Balanced

\* The tranches back of the escrow e are rewritten to one state, which makes it g.
Moved(e, g, back, to) ==
  /\ IsFiniteSet(DOMAIN e.milestones)
  /\ \A i \in DOMAIN e.milestones : e.amounts[i] \in Int
  /\ g.amounts = e.amounts /\ DOMAIN g.milestones = DOMAIN e.milestones
  /\ back \subseteq DOMAIN e.milestones
  /\ \A i \in DOMAIN e.milestones :
       g.milestones[i] = IF i \in back THEN to ELSE e.milestones[i]

\* That moves their value: out of the states they leave, into the one they enter.
LEMMA MovedVals ==
  ASSUME NEW e, NEW g, NEW back, NEW to, Moved(e, g, back, to), NEW states
  PROVE  /\ Sum(e.amounts, back) \in Int
         /\ (\A i \in back : e.milestones[i] \in states) /\ to \notin states =>
              Vals(g, states) = Vals(e, states) - Sum(e.amounts, back)
         /\ (\A i \in back : e.milestones[i] \notin states) /\ to \in states =>
              Vals(g, states) = Vals(e, states) + Sum(e.amounts, back)
         /\ (\A i \in back : e.milestones[i] \in states) /\ to \in states =>
              Vals(g, states) = Vals(e, states)
         /\ (\A i \in back : e.milestones[i] \notin states) /\ to \notin states =>
              Vals(g, states) = Vals(e, states)
<1> USE DEF Moved
<1> DEFINE D == DOMAIN e.milestones
           E == {i \in DOMAIN e.milestones : e.milestones[i] \in states}
           G == {i \in DOMAIN g.milestones : g.milestones[i] \in states}
           f == e.amounts
<1>1. E \in SUBSET D /\ G \in SUBSET D /\ back \in SUBSET D
  OBVIOUS
<1>2. Vals(e, states) = Sum(f, E) /\ Vals(g, states) = Sum(f, G)
  BY DEF Vals
<1>3. IsFiniteSet(E) /\ IsFiniteSet(G) /\ IsFiniteSet(back) /\ \A i \in D : f[i] \in Int
  BY <1>1, FS_Subset
<1>4. /\ (\A i \in back : e.milestones[i] \in states) /\ to \notin states =>
           back \in SUBSET E /\ G = E \ back
      /\ (\A i \in back : e.milestones[i] \notin states) /\ to \in states =>
           back \in SUBSET G /\ E = G \ back
      /\ (\A i \in back : e.milestones[i] \in states) /\ to \in states => G = E
      /\ (\A i \in back : e.milestones[i] \notin states) /\ to \notin states => G = E
  OBVIOUS
<1> HIDE DEF D, E, G, f
<1>5. Sum(f, E) \in Int /\ Sum(f, G) \in Int /\ Sum(f, back) \in Int
  BY <1>1, <1>3, SumInt
<1>6. ASSUME \A i \in back : e.milestones[i] \in states, to \notin states
      PROVE  Sum(f, G) = Sum(f, E) - Sum(f, back)
  <2>1. back \in SUBSET E /\ G = E \ back
    BY <1>4, <1>6
  <2>2. Sum(f, E) = Sum(f, back) + Sum(f, E \ back)
    BY <1>1, <1>3, <2>1, SumSplit
  <2>3. Sum(f, E \ back) = Sum(f, G)
    BY <2>1, Zenon
  <2> QED
    BY <1>5, <2>2, <2>3
<1>7. ASSUME \A i \in back : e.milestones[i] \notin states, to \in states
      PROVE  Sum(f, G) = Sum(f, E) + Sum(f, back)
  <2>1. back \in SUBSET G /\ E = G \ back
    BY <1>4, <1>7
  <2>2. Sum(f, G) = Sum(f, back) + Sum(f, G \ back)
    BY <1>1, <1>3, <2>1, SumSplit
  <2>3. Sum(f, G \ back) = Sum(f, E)
    BY <2>1, Zenon
  <2> QED
    BY <1>5, <2>2, <2>3
<1>8. G = E => Sum(f, G) = Sum(f, E)
  BY Zenon
<1> QED
  BY <1>2, <1>4, <1>5, <1>6, <1>7, <1>8 DEF f

\* What a settlement pays is the value of the tranches it settles: it is no
\* longer open and is now claimed, or refunded.
LEMMA SettlementMoves ==
  ASSUME ContractAssumption, TypeOK, TypeOK', NEW id \in DOMAIN escrows,
         NEW back \in SUBSET DOMAIN escrows[id].milestones,
         \A i \in back : escrows[id].milestones[i] \in Open,
         NEW to \in {"Claimed", "Refunded"}, NEW payee, NEW amount,
         payee = IF to = "Claimed" THEN escrows[id].worker ELSE escrows[id].enterprise,
         amount = Sum(escrows[id].amounts, back),
         Settle(id, [i \in DOMAIN escrows[id].milestones |->
                       IF i \in back THEN to ELSE escrows[id].milestones[i]],
                payee, amount)
  PROVE  Pays(id, to, payee, amount)
<1> DEFINE e == escrows[id]
           g == escrows'[id]
           ms == [i \in DOMAIN e.milestones |-> IF i \in back THEN to ELSE e.milestones[i]]
<1>1. e \in Escrow /\ DOMAIN e.milestones = DOMAIN e.amounts
  BY DEF TypeOK
<1>2. /\ g = [e EXCEPT !.milestones = ms, !.status = FinalizeStatus(ms)]
      /\ DOMAIN escrows' = DOMAIN escrows
      /\ \A j \in DOMAIN escrows : j # id => escrows'[j] = escrows[j]
  BY <1>1 DEF Settle, TypeOK, Escrow
<1>3. g.amounts = e.amounts /\ g.milestones = ms /\ Rewritten(id)
  BY <1>1, <1>2 DEF Escrow, Rewritten
<1>4. Moved(e, g, back, to)
  <2>1. IsFiniteSet(DOMAIN e.milestones) /\ \A i \in DOMAIN e.milestones : e.amounts[i] \in Int
    BY <1>1, Values
  <2> QED
    BY <1>3, <2>1 DEF Moved
<1>5. /\ amount = Sum(e.amounts, back) /\ Vals(e, Open) \in Int
      /\ \A i \in back : e.milestones[i] \in Open
  BY <1>1, Values
<1> HIDE DEF e, g, ms
<1>6. amount \in Int
  BY <1>4, <1>5, MovedVals
<1>7. Transfer(Vault, payee, e.token, amount)
  BY DEF Settle, e
<1>8. Vals(g, Open) = Vals(e, Open) - amount
  <2>1. to \notin Open
    OBVIOUS
  <2> HIDE DEF Open
  <2> QED
    BY <1>4, <1>5, <2>1, MovedVals
<1>9. Vals(g, Milestone) = Vals(e, Milestone)
  <2>1. to \in Milestone /\ \A i \in back : e.milestones[i] \in Milestone
    BY <1>5
  <2> HIDE DEF Open, Milestone
  <2> QED
    BY <1>4, <1>5, <2>1, MovedVals
<1>10. ASSUME NEW states \in {{"Claimed"}, {"Refunded"}}
       PROVE  Vals(g, states) = IF to \in states THEN Vals(e, states) + amount
                                ELSE Vals(e, states)
  <2>1. \A m \in Open : m \notin states
    OBVIOUS
  <2> HIDE DEF Open
  <2> QED
    BY <1>4, <1>5, <2>1, MovedVals
<1> QED
  BY <1>3, <1>6, <1>7, <1>8, <1>9, <1>10 DEF Pays, e, g

\* claim pays one approved tranche to the worker.
LEMMA ClaimPays ==
  ASSUME ContractAssumption, TypeOK, TypeOK', NEW id \in DOMAIN escrows,
         NEW idx \in DOMAIN escrows[id].milestones, Claim(id, idx)
  PROVE  Pays(id, "Claimed", escrows[id].worker, escrows[id].amounts[idx])
<1> DEFINE e == escrows[id]
<1>1. e \in Escrow /\ DOMAIN e.milestones = DOMAIN e.amounts
  BY DEF TypeOK
<1>2. e.milestones[idx] \in Open
  BY DEF Claim
<1>3. e.amounts[idx] = Sum(e.amounts, {idx})
  <2>1. e.amounts[idx] \in Int
    BY <1>1, Values
  <2>2. Sum(e.amounts, {idx}) = e.amounts[idx] + Sum(e.amounts, {idx} \ {idx})
    <3> HIDE DEF e
    <3>1. IsFiniteSet({idx}) /\ idx \in {idx} /\ \A i \in {idx} : e.amounts[i] \in Int
      BY <2>1, FS_Singleton
    <3> QED
      BY <3>1, SumRemove
  <2>3. {idx} \ {idx} = {}
    OBVIOUS
  <2>4. Sum(e.amounts, {idx} \ {idx}) = 0
    BY <2>3, SumEmpty, Zenon
  <2> QED
    BY <2>1, <2>2, <2>4
<1>4. Settle(id, [i \in DOMAIN e.milestones |->
                    IF i \in {idx} THEN "Claimed" ELSE e.milestones[i]],
             e.worker, e.amounts[idx])
  <2>1. [e.milestones EXCEPT ![idx] = "Claimed"] =
          [i \in DOMAIN e.milestones |-> IF i \in {idx} THEN "Claimed" ELSE e.milestones[i]]
    BY <1>1 DEF Escrow
  <2>2. Settle(id, [e.milestones EXCEPT ![idx] = "Claimed"], e.worker, e.amounts[idx])
    BY DEF Claim
  <2> QED
    BY <2>1, <2>2, Zenon
<1>5. {idx} \in SUBSET DOMAIN e.milestones /\ \A i \in {idx} : e.milestones[i] \in Open
  BY <1>2
<1> HIDE DEF Open
<1> QED
  BY <1>3, <1>4, <1>5, SettlementMoves

\* refund and return_frozen pay open tranches back to the enterprise.
LEMMA PayBackPays ==
  ASSUME ContractAssumption, TypeOK, TypeOK', NEW id \in DOMAIN escrows,
         NEW states \in SUBSET Open, PayBack(id, states)
  PROVE  \E amount : Pays(id, "Refunded", escrows[id].enterprise, amount)
<1> DEFINE e    == escrows[id]
           back == {i \in DOMAIN e.milestones : e.milestones[i] \in states}
<1>1. Settle(id, [i \in DOMAIN e.milestones |->
                    IF i \in back THEN "Refunded" ELSE e.milestones[i]],
             e.enterprise, Sum(e.amounts, back))
  BY DEF PayBack
<1>2. back \in SUBSET DOMAIN e.milestones /\ \A i \in back : e.milestones[i] \in Open
  OBVIOUS
<1> HIDE DEF back, Open
<1>3. Pays(id, "Refunded", e.enterprise, Sum(e.amounts, back))
  BY <1>1, <1>2, SettlementMoves
<1> QED
  BY <1>3

\* A new escrow holds the sum of its amounts, all of it open.
LEMMA FreshVals ==
  ASSUME NEW e, e.milestones = [i \in DOMAIN e.amounts |-> "Pending"]
  PROVE  /\ Vals(e, Open) = Sum(e.amounts, DOMAIN e.amounts)
         /\ Vals(e, Milestone) = Sum(e.amounts, DOMAIN e.amounts)
         /\ Vals(e, {"Claimed"}) = 0 /\ Vals(e, {"Refunded"}) = 0
<1> DEFINE At(states) == {i \in DOMAIN e.milestones : e.milestones[i] \in states}
<1>1. At(Open) = DOMAIN e.amounts /\ At(Milestone) = DOMAIN e.amounts
  OBVIOUS
<1>2. At({"Claimed"}) = {} /\ At({"Refunded"}) = {}
  OBVIOUS
<1>3. \A states : Vals(e, states) = Sum(e.amounts, At(states))
  BY DEF Vals
<1> HIDE DEF At, Open, Milestone
<1>4. Sum(e.amounts, {}) = 0
  BY SumEmpty
<1>5. Vals(e, Open) = Sum(e.amounts, At(Open)) /\ Vals(e, Milestone) = Sum(e.amounts, At(Milestone))
  BY <1>3
<1>6. Vals(e, {"Claimed"}) = Sum(e.amounts, At({"Claimed"}))
      /\ Vals(e, {"Refunded"}) = Sum(e.amounts, At({"Refunded"}))
  BY <1>3
<1> QED
  BY <1>1, <1>2, <1>4, <1>5, <1>6, Zenon

\* A step that stores one escrow more, under an id that was free.
Stored(n) ==
  /\ n \notin DOMAIN escrows /\ DOMAIN escrows' = DOMAIN escrows \cup {n}
  /\ \A j \in DOMAIN escrows : escrows'[j] = escrows[j]

\* Such a step adds the escrow to the totals it belongs to.
LEMMA StoredTotals ==
  ASSUME ContractAssumption, TypeOK, TypeOK', NEW n, Stored(n), NEW states,
         NEW S \in SUBSET DOMAIN escrows
  PROVE  /\ Total(escrows, S, states) \in Int /\ Vals(escrows'[n], states) \in Int
         /\ Total(escrows', S, states) = Total(escrows, S, states)
         /\ Total(escrows', S \cup {n}, states) =
              Total(escrows, S, states) + Vals(escrows'[n], states)
<1>1. IsFiniteSet(S)
  BY EscrowValues
<1>2. \A j \in S : /\ Vals(escrows[j], states) \in Int /\ escrows'[j] = escrows[j]
                   /\ Vals(escrows'[j], states) \in Int
  <2>1. \A j \in DOMAIN escrows : Vals(escrows[j], states) \in Int
    BY EscrowValues
  <2> QED
    BY <2>1 DEF Stored
<1>3. n \notin S
  BY DEF Stored
<1>4. Vals(escrows'[n], states) \in Int
  <2>1. escrows'[n] \in Escrow /\ DOMAIN escrows'[n].milestones = DOMAIN escrows'[n].amounts
    BY DEF TypeOK, Stored
  <2> QED
    BY <2>1, Values
<1>5. Total(escrows', S, states) = Total(escrows, S, states)
  <2>1. [j \in S |-> Vals(escrows'[j], states)] = [j \in S |-> Vals(escrows[j], states)]
    BY <1>2
  <2> QED
    BY <2>1, Zenon DEF Total
<1> QED
  BY <1>1, <1>2, <1>3, <1>4, <1>5, TotalMore

\* The same for the escrows of one token, and for those of one enterprise or worker.
LEMMA StoredDenominated ==
  ASSUME ContractAssumption, TypeOK, TypeOK', NEW n, Stored(n), NEW states, NEW token
  PROVE  Total(escrows', Denominated(escrows', token), states) =
           IF escrows'[n].token = token
           THEN Total(escrows, Denominated(escrows, token), states) + Vals(escrows'[n], states)
           ELSE Total(escrows, Denominated(escrows, token), states)
<1> DEFINE S == Denominated(escrows, token)
<1>1. S \in SUBSET DOMAIN escrows
      /\ Denominated(escrows', token) =
           (IF escrows'[n].token = token THEN S \cup {n} ELSE S)
  BY DEF Denominated, Stored
<1> HIDE DEF S
<1>2. Total(escrows', Denominated(escrows', token), states) =
        Total(escrows', IF escrows'[n].token = token THEN S \cup {n} ELSE S, states)
  BY <1>1, Zenon
<1> QED
  BY <1>1, <1>2, StoredTotals DEF S

\* What a new escrow adds to the total its enterprise has paid.
LEMMA StoredBy ==
  ASSUME ContractAssumption, TypeOK, TypeOK', NEW n, Stored(n), NEW states, NEW a, NEW token
  PROVE  Total(escrows', PaidBy(escrows', a, token), states) =
           IF escrows'[n].token = token /\ escrows'[n].enterprise = a
           THEN Total(escrows, PaidBy(escrows, a, token), states) + Vals(escrows'[n], states)
           ELSE Total(escrows, PaidBy(escrows, a, token), states)
<1> DEFINE S == PaidBy(escrows, a, token)
           P == escrows'[n].token = token /\ escrows'[n].enterprise = a
<1>1. S \in SUBSET DOMAIN escrows
      /\ PaidBy(escrows', a, token) = (IF P THEN S \cup {n} ELSE S)
  BY DEF PaidBy, Stored
<1> HIDE DEF S
<1>2. Total(escrows', PaidBy(escrows', a, token), states) =
        Total(escrows', IF P THEN S \cup {n} ELSE S, states)
  BY <1>1, Zenon
<1> QED
  BY <1>1, <1>2, StoredTotals DEF S

\* What a new escrow adds to the total its worker is paid.
LEMMA StoredTo ==
  ASSUME ContractAssumption, TypeOK, TypeOK', NEW n, Stored(n), NEW states, NEW a, NEW token
  PROVE  Total(escrows', PaidTo(escrows', a, token), states) =
           IF escrows'[n].token = token /\ escrows'[n].worker = a
           THEN Total(escrows, PaidTo(escrows, a, token), states) + Vals(escrows'[n], states)
           ELSE Total(escrows, PaidTo(escrows, a, token), states)
<1> DEFINE S == PaidTo(escrows, a, token)
           P == escrows'[n].token = token /\ escrows'[n].worker = a
<1>1. S \in SUBSET DOMAIN escrows
      /\ PaidTo(escrows', a, token) = (IF P THEN S \cup {n} ELSE S)
  BY DEF PaidTo, Stored
<1> HIDE DEF S
<1>2. Total(escrows', PaidTo(escrows', a, token), states) =
        Total(escrows', IF P THEN S \cup {n} ELSE S, states)
  BY <1>1, Zenon
<1> QED
  BY <1>1, <1>2, StoredTotals DEF S

\* create moves the sum of the amounts from the enterprise to the contract and
\* stores it as open: the books stay balanced.
LEMMA CreateBalances ==
  ASSUME ContractAssumption, TypeOK, TypeOK',
         NEW ent \in Enterprises, NEW w \in Workers, NEW tok \in Tokens,
         NEW amounts \in AmountLists, NEW expiry \in 0..(MaxTime - 1),
         Create(ent, w, tok, amounts, expiry),
         NEW token \in Tokens, Balanced(escrows, balance, token)
  PROVE  Balanced(escrows', balance', token)
<1> DEFINE n == nextId
           g == escrows'[n]
           deposit == Sum(amounts, DOMAIN amounts)
<1> HIDE DEF Milestone, Open
<1>1. /\ escrows' = [id \in 0..nextId |->
                       IF id = nextId
                       THEN [enterprise |-> ent, worker |-> w, token |-> tok,
                             amounts |-> amounts,
                             milestones |-> [i \in 1..Len(amounts) |-> "Pending"],
                             expiry |-> expiry, status |-> "Active", frozen |-> FALSE]
                       ELSE escrows[id]]
      /\ DOMAIN escrows = 0..(nextId - 1) /\ nextId \in Nat
  BY DEF Create, Store, TypeOK, ContractAssumption
<1>2. Stored(n)
  BY <1>1 DEF Stored
<1>3. /\ g.enterprise = ent /\ g.worker = w /\ g.token = tok /\ g.amounts = amounts
      /\ g.milestones = [i \in DOMAIN g.amounts |-> "Pending"]
  <2>1. amounts \in Seq(Int) /\ DOMAIN amounts = 1..Len(amounts)
    BY DEF ContractAssumption
  <2> QED
    BY <1>1, <2>1
<1>4. /\ Vals(g, Open) = deposit /\ Vals(g, Milestone) = deposit
      /\ Vals(g, {"Claimed"}) = 0 /\ Vals(g, {"Refunded"}) = 0
  <2> HIDE DEF g
  <2>1. /\ Vals(g, Open) = Sum(g.amounts, DOMAIN g.amounts)
        /\ Vals(g, Milestone) = Sum(g.amounts, DOMAIN g.amounts)
        /\ Vals(g, {"Claimed"}) = 0 /\ Vals(g, {"Refunded"}) = 0
    BY <1>3, FreshVals
  <2> QED
    BY <1>3, <2>1, Zenon
<1>5. deposit \in Int
  BY DEF Create, AmountsValid, ContractAssumption
<1>6. \A h \in Addresses \X Tokens :
        /\ balance[h] \in Int
        /\ balance'[h] = IF h = <<ent, tok>> THEN balance[h] - deposit
                         ELSE IF h = <<Vault, tok>> THEN balance[h] + deposit
                         ELSE balance[h]
  BY DEF Create, Transfer, TypeOK
<1>7. ent # Vault /\ ent \in Addresses
  BY DEF ContractAssumption, Addresses
<1> HIDE DEF g, n, deposit
<1>8. balance'[<<Vault, token>>] = Total(escrows', Denominated(escrows', token), Open)
  <2>1. Total(escrows', Denominated(escrows', token), Open) =
          IF tok = token THEN Total(escrows, Denominated(escrows, token), Open) + deposit
          ELSE Total(escrows, Denominated(escrows, token), Open)
    BY <1>2, <1>3, <1>4, StoredDenominated DEF g
  <2>2. balance[<<Vault, token>>] = Total(escrows, Denominated(escrows, token), Open)
    BY DEF Balanced
  <2>3. <<Vault, token>> \in Addresses \X Tokens
    BY DEF Addresses
  <2> QED
    BY <1>6, <1>7, <2>1, <2>2, <2>3
<1>9. ASSUME NEW a \in Addresses \ {Vault}
      PROVE  balance'[<<a, token>>] =
               Opening(a) - Total(escrows', PaidBy(escrows', a, token), Milestone)
                          + Total(escrows', PaidBy(escrows', a, token), {"Refunded"})
                          + Total(escrows', PaidTo(escrows', a, token), {"Claimed"})
  <2> DEFINE by == Total(escrows, PaidBy(escrows, a, token), Milestone)
             bk == Total(escrows, PaidBy(escrows, a, token), {"Refunded"})
             to == Total(escrows, PaidTo(escrows, a, token), {"Claimed"})
  <2>1. balance[<<a, token>>] = Opening(a) - by + bk + to
    BY DEF Balanced
  <2>2. by \in Int /\ bk \in Int /\ to \in Int
    <3>1. PaidBy(escrows, a, token) \in SUBSET DOMAIN escrows
          /\ PaidTo(escrows, a, token) \in SUBSET DOMAIN escrows
      BY DEF PaidBy, PaidTo
    <3> QED
      BY <3>1, EscrowValues
  <2>3. <<a, token>> \in Addresses \X Tokens /\ Opening(a) \in Int
    BY DEF Opening, ContractAssumption
  <2>4. balance'[<<a, token>>] = IF a = ent /\ tok = token
                                 THEN balance[<<a, token>>] - deposit ELSE balance[<<a, token>>]
    BY <1>6, <2>3
  <2>5. Total(escrows', PaidBy(escrows', a, token), Milestone) =
          IF tok = token /\ ent = a THEN by + deposit ELSE by
    BY <1>2, <1>3, <1>4, StoredBy DEF g
  <2>6. Total(escrows', PaidBy(escrows', a, token), {"Refunded"}) = bk
    <3>1. Total(escrows', PaidBy(escrows', a, token), {"Refunded"}) =
            IF tok = token /\ ent = a THEN bk + Vals(g, {"Refunded"}) ELSE bk
      BY <1>2, <1>3, StoredBy DEF g
    <3> HIDE DEF bk
    <3> QED
      BY <1>4, <2>2, <3>1
  <2>7. Total(escrows', PaidTo(escrows', a, token), {"Claimed"}) = to
    <3>1. Total(escrows', PaidTo(escrows', a, token), {"Claimed"}) =
            IF tok = token /\ w = a THEN to + Vals(g, {"Claimed"}) ELSE to
      BY <1>2, <1>3, StoredTo DEF g
    <3> HIDE DEF to
    <3> QED
      BY <1>4, <2>2, <3>1
  <2> HIDE DEF by, bk, to
  <2> QED
    BY <1>5, <2>1, <2>2, <2>3, <2>4, <2>5, <2>6, <2>7
<1> QED
  BY <1>8, <1>9 DEF Balanced

\* A step that rewrites one escrow and leaves its open, claimed and refunded
\* amounts as they were keeps the books balanced.
Keeps(id) ==
  /\ Rewritten(id) /\ UNCHANGED balance
  /\ \A states \in {Open, Milestone, {"Claimed"}, {"Refunded"}} :
       Vals(escrows'[id], states) = Vals(escrows[id], states)

\* A step that moves nothing keeps the accounts.
LEMMA KeptBalances ==
  ASSUME ContractAssumption, TypeOK, TypeOK', NEW id, Keeps(id), NEW token \in Tokens, Balanced(escrows, balance, token)
  PROVE  Balanced(escrows', balance', token)
<1> HIDE DEF Milestone, Open
<1>0. /\ Rewritten(id) /\ UNCHANGED balance
      /\ \A states \in {Open, Milestone, {"Claimed"}, {"Refunded"}} :
           Vals(escrows'[id], states) = Vals(escrows[id], states)
  BY DEF Keeps
<1>1. ASSUME NEW states \in {Open, Milestone, {"Claimed"}, {"Refunded"}}, NEW a
      PROVE  /\ Total(escrows', Denominated(escrows', token), states) =
                  Total(escrows, Denominated(escrows, token), states)
             /\ Total(escrows', PaidBy(escrows', a, token), states) =
                  Total(escrows, PaidBy(escrows, a, token), states)
             /\ Total(escrows', PaidTo(escrows', a, token), states) =
                  Total(escrows, PaidTo(escrows, a, token), states)
  <2> DEFINE d == Vals(escrows'[id], states) - Vals(escrows[id], states)
  <2>1. d = 0
    <3>1. Vals(escrows[id], states) \in Int
      BY <1>0, EscrowValues DEF Rewritten
    <3>2. Vals(escrows'[id], states) = Vals(escrows[id], states)
      BY <1>0, Zenon
    <3> QED
      BY <3>1, <3>2
  <2>2. d = Vals(escrows'[id], states) - Vals(escrows[id], states)
    OBVIOUS
  <2>3. /\ Total(escrows, Denominated(escrows, token), states) \in Int
        /\ Total(escrows, PaidBy(escrows, a, token), states) \in Int
        /\ Total(escrows, PaidTo(escrows, a, token), states) \in Int
    <3>1. /\ Denominated(escrows, token) \in SUBSET DOMAIN escrows
          /\ PaidBy(escrows, a, token) \in SUBSET DOMAIN escrows
          /\ PaidTo(escrows, a, token) \in SUBSET DOMAIN escrows
      BY DEF Denominated, PaidBy, PaidTo
    <3> QED
      BY <3>1, EscrowValues
  <2> HIDE DEF d
  <2>4. Total(escrows', Denominated(escrows', token), states) =
          Total(escrows, Denominated(escrows, token), states)
    BY <1>0, <2>1, <2>2, <2>3, RewrittenDenominated
  <2>5. Total(escrows', PaidBy(escrows', a, token), states) =
          Total(escrows, PaidBy(escrows, a, token), states)
    BY <1>0, <2>1, <2>2, <2>3, RewrittenBy
  <2>6. Total(escrows', PaidTo(escrows', a, token), states) =
          Total(escrows, PaidTo(escrows, a, token), states)
    BY <1>0, <2>1, <2>2, <2>3, RewrittenTo
  <2> QED
    BY <2>4, <2>5, <2>6
<1>2. Total(escrows', Denominated(escrows', token), Open) =
        Total(escrows, Denominated(escrows, token), Open)
  BY <1>1
<1>3. \A a : /\ Total(escrows', PaidBy(escrows', a, token), Milestone) =
                  Total(escrows, PaidBy(escrows, a, token), Milestone)
             /\ Total(escrows', PaidBy(escrows', a, token), {"Refunded"}) =
                  Total(escrows, PaidBy(escrows, a, token), {"Refunded"})
             /\ Total(escrows', PaidTo(escrows', a, token), {"Claimed"}) =
                  Total(escrows, PaidTo(escrows, a, token), {"Claimed"})
  BY <1>1
<1> QED
  BY <1>0, <1>2, <1>3 DEF Balanced

\* A step that leaves the escrows and the balances alone.
LEMMA IdleBalances ==
  ASSUME UNCHANGED <<escrows, balance>>, NEW token, Balanced(escrows, balance, token)
  PROVE  Balanced(escrows', balance', token)
<1>1. escrows' = escrows /\ balance' = balance
  OBVIOUS
<1> QED
  BY <1>1, Zenon

\* Approving and freezing move no money: every open tranche stays open.
LEMMA ApproveSame ==
  ASSUME ContractAssumption, TypeOK, TypeOK', NEW id \in DOMAIN escrows,
         NEW idx \in DOMAIN escrows[id].milestones, Approve(id, idx)
  PROVE  Keeps(id)
<1> DEFINE e == escrows[id]
           g == escrows'[id]
<1>1. e \in Escrow /\ DOMAIN e.milestones = DOMAIN e.amounts
  BY DEF TypeOK
<1>2. /\ g = [e EXCEPT !.milestones = [e.milestones EXCEPT ![idx] = "Approved"]]
      /\ DOMAIN escrows' = DOMAIN escrows
      /\ \A j \in DOMAIN escrows : j # id => escrows'[j] = escrows[j]
      /\ e.milestones[idx] = "Pending"
  BY DEF Approve, TypeOK
<1>3. /\ Rewritten(id) /\ g.amounts = e.amounts
      /\ g.milestones = [e.milestones EXCEPT ![idx] = "Approved"]
  BY <1>1, <1>2 DEF Rewritten, Escrow
<1>4. Moved(e, g, {idx}, "Approved")
  <2>1. IsFiniteSet(DOMAIN e.milestones) /\ \A i \in DOMAIN e.milestones : e.amounts[i] \in Int
    BY <1>1, Values
  <2> QED
    BY <1>3, <2>1 DEF Moved
<1>5. UNCHANGED balance
  BY DEF Approve
<1> HIDE DEF e, g
<1>6. ASSUME NEW states, "Pending" \in states <=> "Approved" \in states
      PROVE  Vals(g, states) = Vals(e, states)
  BY <1>2, <1>4, <1>6, MovedVals
<1>7. Vals(g, Open) = Vals(e, Open) /\ Vals(g, Milestone) = Vals(e, Milestone)
  <2>1. /\ "Pending" \in Open <=> "Approved" \in Open
        /\ "Pending" \in Milestone <=> "Approved" \in Milestone
    OBVIOUS
  <2> HIDE DEF Open, Milestone
  <2> QED
    BY <1>6, <2>1
<1>8. Vals(g, {"Claimed"}) = Vals(e, {"Claimed"})
  BY <1>6
<1>9. Vals(g, {"Refunded"}) = Vals(e, {"Refunded"})
  BY <1>6
<1> HIDE DEF Open, Milestone
<1>10. \A states \in {Open, Milestone, {"Claimed"}, {"Refunded"}} :
         Vals(g, states) = Vals(e, states)
  BY <1>7, <1>8, <1>9, Zenon
<1> QED
  BY <1>3, <1>5, <1>10 DEF Keeps, e, g

\* Freezing and unfreezing move nothing.
LEMMA FrozenSame ==
  ASSUME ContractAssumption, TypeOK, TypeOK', NEW id \in DOMAIN escrows,
         NEW frozen \in BOOLEAN, SetFrozen(id, frozen)
  PROVE  Keeps(id)
<1> DEFINE e == escrows[id]
           g == escrows'[id]
<1>1. e \in Escrow
  BY DEF TypeOK
<1>2. /\ g = [e EXCEPT !.frozen = frozen]
      /\ DOMAIN escrows' = DOMAIN escrows
      /\ \A j \in DOMAIN escrows : j # id => escrows'[j] = escrows[j]
      /\ UNCHANGED balance
  BY DEF SetFrozen, TypeOK
<1>3. Rewritten(id) /\ g.amounts = e.amounts /\ g.milestones = e.milestones
  BY <1>1, <1>2 DEF Rewritten, Escrow
<1> HIDE DEF e, g
<1>4. \A states : Vals(g, states) = Vals(e, states)
  BY <1>3, Zenon DEF Vals
<1> QED
  BY <1>2, <1>3, <1>4 DEF Keeps, e, g

\* What a step does to the escrows and the balances, one case per kind of call.
LEMMA StepMoves ==
  ASSUME ContractAssumption, TypeOK, TypeOK', [Next]_vars
  PROVE  \/ UNCHANGED <<escrows, balance>>
         \/ \E ent \in Enterprises, w \in Workers, tok \in Tokens,
               amounts \in AmountLists, expiry \in 0..(MaxTime - 1) :
              Create(ent, w, tok, amounts, expiry)
         \/ \E id \in DOMAIN escrows : Keeps(id)
         \/ \E id \in DOMAIN escrows : \E idx :
              /\ Claim(id, idx)
              /\ Pays(id, "Claimed", escrows[id].worker, escrows[id].amounts[idx])
         \/ \E id \in DOMAIN escrows : \E amount :
              /\ Refund(id) \/ ReturnFrozen(id)
              /\ Pays(id, "Refunded", escrows[id].enterprise, amount)
<1>1. ASSUME NEW w \in Workers, NEW t \in Times, RevokeClearance(w) \/ SetClearance(w, t)
      PROVE  UNCHANGED <<escrows, balance>>
  BY <1>1 DEF RevokeClearance, SetClearance
<1>2. ASSUME CloseLedger \/ UNCHANGED vars
      PROVE  UNCHANGED <<escrows, balance>>
  BY <1>2 DEF CloseLedger, vars
<1>3. ASSUME NEW id \in DOMAIN escrows, Refund(id) \/ ReturnFrozen(id)
      PROVE  \E amount : Pays(id, "Refunded", escrows[id].enterprise, amount)
  <2>1. \E states \in SUBSET Open : PayBack(id, states)
    BY <1>3 DEF Refund, ReturnFrozen
  <2> HIDE DEF Open
  <2> QED
    BY <2>1, PayBackPays
<1>4. ASSUME NEW id \in DOMAIN escrows, NEW idx \in DOMAIN escrows[id].milestones, Claim(id, idx)
      PROVE  Pays(id, "Claimed", escrows[id].worker, escrows[id].amounts[idx])
  BY <1>4, ClaimPays
<1>5. ASSUME NEW id \in DOMAIN escrows, NEW idx \in DOMAIN escrows[id].milestones,
             Approve(id, idx)
      PROVE  Keeps(id)
  BY <1>5, ApproveSame
<1>6. ASSUME NEW id \in DOMAIN escrows, NEW frozen \in BOOLEAN, SetFrozen(id, frozen)
      PROVE  Keeps(id)
  BY <1>6, FrozenSame
<1>7. ASSUME ComplianceNext
      PROVE  \/ UNCHANGED <<escrows, balance>>
             \/ \E id \in DOMAIN escrows : Keeps(id)
             \/ \E id \in DOMAIN escrows : \E amount :
                  /\ Refund(id) \/ ReturnFrozen(id)
                  /\ Pays(id, "Refunded", escrows[id].enterprise, amount)
  <2>1. CASE \E w \in Workers : RevokeClearance(w) \/ \E t \in Times : SetClearance(w, t)
    BY <1>1, <2>1
  <2>2. ASSUME NEW id \in DOMAIN escrows, ReturnFrozen(id)
        PROVE  \E amount : Pays(id, "Refunded", escrows[id].enterprise, amount)
    BY <1>3, <2>2
  <2> QED
    BY <1>6, <1>7, <2>1, <2>2, Zenon DEF ComplianceNext
<1>8. ASSUME PartyNext
      PROVE  \/ \E ent \in Enterprises, w \in Workers, tok \in Tokens,
                   amounts \in AmountLists, expiry \in 0..(MaxTime - 1) :
                  Create(ent, w, tok, amounts, expiry)
             \/ \E id \in DOMAIN escrows : Keeps(id)
             \/ \E id \in DOMAIN escrows : \E idx :
                  /\ Claim(id, idx)
                  /\ Pays(id, "Claimed", escrows[id].worker, escrows[id].amounts[idx])
             \/ \E id \in DOMAIN escrows : \E amount :
                  /\ Refund(id) \/ ReturnFrozen(id)
                  /\ Pays(id, "Refunded", escrows[id].enterprise, amount)
  <2>1. ASSUME NEW id \in DOMAIN escrows, Refund(id)
        PROVE  \E amount : Pays(id, "Refunded", escrows[id].enterprise, amount)
    BY <1>3, <2>1
  <2> QED
    BY <1>4, <1>5, <1>8, <2>1, Zenon DEF PartyNext
<1> QED
  BY <1>2, <1>7, <1>8, Zenon DEF Next

\* Every step keeps the books balanced.
LEMMA BooksStep ==
  ASSUME ContractAssumption, TypeOK, TypeOK', [Next]_vars, Accounting
  PROVE  Accounting'
<1> SUFFICES ASSUME NEW token \in Tokens
             PROVE  Balanced(escrows', balance', token)
  BY AccountingTermsNext
<1>0. Balanced(escrows, balance, token)
  BY AccountingTerms
<1>1. CASE UNCHANGED <<escrows, balance>>
  BY <1>0, <1>1, IdleBalances
<1>2. ASSUME NEW ent \in Enterprises, NEW w \in Workers, NEW tok \in Tokens,
             NEW amounts \in AmountLists, NEW expiry \in 0..(MaxTime - 1),
             Create(ent, w, tok, amounts, expiry)
      PROVE  Balanced(escrows', balance', token)
  BY <1>0, <1>2, CreateBalances
<1>3. ASSUME NEW id \in DOMAIN escrows, Keeps(id)
      PROVE  Balanced(escrows', balance', token)
  BY <1>0, <1>3, KeptBalances
<1>4. ASSUME NEW id, NEW to, NEW payee, NEW amount, Pays(id, to, payee, amount)
      PROVE  Balanced(escrows', balance', token)
  BY <1>0, <1>4, PaymentBalances
<1> HIDE DEF Open, Milestone
<1> QED
  BY <1>1, <1>2, <1>3, <1>4, StepMoves

\* At the start nothing is held and every enterprise has its endowment.
LEMMA BooksInit ==
  ASSUME ContractAssumption, Init
  PROVE  Accounting
<1> HIDE DEF Open, Milestone
<1>1. DOMAIN escrows = {}
  BY DEF Init
<1>2. ASSUME NEW es, NEW states
      PROVE  Total(es, {}, states) = 0
  BY SumEmpty DEF Total
<1>3. ASSUME NEW token, NEW a
      PROVE  /\ Denominated(escrows, token) = {}
             /\ PaidBy(escrows, a, token) = {} /\ PaidTo(escrows, a, token) = {}
  BY <1>1 DEF Denominated, PaidBy, PaidTo
<1>4. ASSUME NEW token, NEW a, NEW states
      PROVE  /\ Total(escrows, Denominated(escrows, token), states) = 0
             /\ Total(escrows, PaidBy(escrows, a, token), states) = 0
             /\ Total(escrows, PaidTo(escrows, a, token), states) = 0
  BY <1>2, <1>3, Zenon
<1>5. ASSUME NEW token \in Tokens
      PROVE  Balanced(escrows, balance, token)
  <2>1. \A h \in Addresses \X Tokens :
          balance[h] = IF h[1] \in Enterprises THEN InitialBalance ELSE 0
    BY DEF Init
  <2>2. balance[<<Vault, token>>] = 0
    BY <2>1 DEF Addresses, ContractAssumption
  <2>3. \A a \in Addresses : balance[<<a, token>>] = Opening(a) /\ Opening(a) \in Int
    BY <2>1 DEF Addresses, Opening, ContractAssumption
  <2>4. Total(escrows, Denominated(escrows, token), Open) = 0
    BY <1>4
  <2>5. \A a : /\ Total(escrows, PaidBy(escrows, a, token), Milestone) = 0
               /\ Total(escrows, PaidBy(escrows, a, token), {"Refunded"}) = 0
               /\ Total(escrows, PaidTo(escrows, a, token), {"Claimed"}) = 0
    BY <1>4
  <2> QED
    BY <2>2, <2>3, <2>4, <2>5 DEF Balanced
<1> QED
  BY <1>5, AccountingTerms

\* Double-entry bookkeeping over the whole history (Transfer, and the callers that
\* write tranche states: create, claim, refund, return_frozen): the contract holds
\* exactly what is open, and every address has what it started with, less its
\* deposits, plus what was claimed by it and refunded to it.
THEOREM AccountingHolds == Spec => []Accounting
<1>1. Init => TypeOK /\ Accounting
  BY ContractAssumption, InvInit, BooksInit DEF IInv
<1>2. TypeOK /\ Accounting /\ [Next]_vars => (TypeOK /\ Accounting)'
  BY ContractAssumption, TypeStep, BooksStep
<1> QED
  BY <1>1, <1>2, PTL DEF Spec

\* The compliance gate for one escrow, in one step.
Gated(id) ==
  LET e    == escrows[id]
      out  == OpenValue(e) - OpenValue(escrows'[id])
      paid == balance'[<<e.worker, e.token>>] - balance[<<e.worker, e.token>>]
      back == balance'[<<e.enterprise, e.token>>] - balance[<<e.enterprise, e.token>>]
  IN  out # 0 =>
        \/ paid = out /\ ~e.frozen /\ IsCleared(e.worker)
        \/ back = out /\ ~e.frozen /\ e.expiry < now
        \/ back = out /\ e.frozen /\ e.status = "Active"

\* A payment moves what left the escrow to the party it is for.
LEMMA PaysMoves ==
  ASSUME ContractAssumption, TypeOK, TypeOK',
         NEW id, NEW to, NEW payee, NEW amount, Pays(id, to, payee, amount)
  PROVE  /\ Vals(escrows[id], Open) - Vals(escrows'[id], Open) = amount
         /\ balance'[<<payee, escrows[id].token>>] - balance[<<payee, escrows[id].token>>] = amount
<1> HIDE DEF Open, Milestone
<1>1. /\ id \in DOMAIN escrows /\ amount \in Int
      /\ Transfer(Vault, payee, escrows[id].token, amount)
      /\ Vals(escrows'[id], Open) = Vals(escrows[id], Open) - amount
      /\ payee \in {escrows[id].worker, escrows[id].enterprise}
  BY DEF Pays, Rewritten
<1>2. Vals(escrows[id], Open) \in Int
  BY <1>1, EscrowValues
<1>3. escrows[id].token \in Tokens /\ payee \in Addresses /\ payee # Vault
  <2>1. escrows[id] \in Escrow
    BY <1>1 DEF TypeOK
  <2>2. /\ escrows[id].token \in Tokens
        /\ escrows[id].enterprise \in Enterprises /\ escrows[id].worker \in Workers
    BY <2>1 DEF Escrow
  <2> QED
    BY <1>1, <2>2 DEF Addresses, ContractAssumption
<1>4. <<payee, escrows[id].token>> \in Addresses \X Tokens
  BY <1>3
<1>5. /\ balance[<<payee, escrows[id].token>>] \in Int
      /\ balance'[<<payee, escrows[id].token>>] = balance[<<payee, escrows[id].token>>] + amount
  BY <1>1, <1>3, <1>4 DEF Transfer, TypeOK
<1> QED
  BY <1>1, <1>2, <1>5

\* Every step respects the gate, at every escrow.
LEMMA GatedStep ==
  ASSUME ContractAssumption, TypeOK, TypeOK', [Next]_vars, NEW id \in DOMAIN escrows
  PROVE  Gated(id)
<1> DEFINE out == Vals(escrows[id], Open) - Vals(escrows'[id], Open)
<1> HIDE DEF Open, Milestone
<1>0. /\ OpenValue(escrows[id]) - OpenValue(escrows'[id]) = out
      /\ Vals(escrows[id], Open) \in Int
  BY EscrowValues DEF OpenValue, Vals
<1>1. Vals(escrows'[id], Open) = Vals(escrows[id], Open) => Gated(id)
  BY <1>0 DEF Gated
<1>2. escrows'[id] = escrows[id] => Vals(escrows'[id], Open) = Vals(escrows[id], Open)
  BY Zenon
<1>3. CASE UNCHANGED <<escrows, balance>>
  BY <1>1, <1>2, <1>3
<1>4. ASSUME NEW ent \in Enterprises, NEW w \in Workers, NEW tok \in Tokens,
             NEW amounts \in AmountLists, NEW expiry \in 0..(MaxTime - 1),
             Create(ent, w, tok, amounts, expiry)
      PROVE  Gated(id)
  <2>1. escrows'[id] = escrows[id]
    BY <1>4 DEF Create, Store, TypeOK, ContractAssumption
  <2> QED
    BY <1>1, <1>2, <2>1
<1>5. ASSUME NEW j \in DOMAIN escrows, Keeps(j)
      PROVE  Gated(id)
  <2>1. Vals(escrows'[j], Open) = Vals(escrows[j], Open)
        /\ (id # j => escrows'[id] = escrows[id])
    BY <1>5 DEF Keeps, Rewritten
  <2> QED
    BY <1>1, <1>2, <2>1
<1>6. ASSUME NEW j \in DOMAIN escrows, NEW idx, Claim(j, idx),
             Pays(j, "Claimed", escrows[j].worker, escrows[j].amounts[idx])
      PROVE  Gated(id)
  <2>1. CASE id # j
    BY <1>1, <1>2, <1>6, <2>1 DEF Pays, Rewritten
  <2>2. CASE id = j
    <3>1. ~escrows[id].frozen /\ IsCleared(escrows[id].worker)
      BY <1>6, <2>2 DEF Claim, Workable
    <3>2. out = escrows[id].amounts[idx]
          /\ balance'[<<escrows[id].worker, escrows[id].token>>]
               - balance[<<escrows[id].worker, escrows[id].token>>] = escrows[id].amounts[idx]
      BY <1>6, <2>2, PaysMoves
    <3> QED
      BY <1>0, <3>1, <3>2 DEF Gated
  <2> QED
    BY <2>1, <2>2
<1>7. ASSUME NEW j \in DOMAIN escrows, NEW amount, Refund(j) \/ ReturnFrozen(j),
             Pays(j, "Refunded", escrows[j].enterprise, amount)
      PROVE  Gated(id)
  <2>1. CASE id # j
    BY <1>1, <1>2, <1>7, <2>1 DEF Pays, Rewritten
  <2>2. CASE id = j
    <3>1. \/ ~escrows[id].frozen /\ escrows[id].expiry < now
          \/ escrows[id].frozen /\ escrows[id].status = "Active"
      <4>1. escrows[id].expiry \in Int /\ now \in Int
        BY DEF TypeOK, Escrow, ContractAssumption
      <4> QED
        BY <1>7, <2>2, <4>1 DEF Refund, ReturnFrozen
    <3>2. out = amount
          /\ balance'[<<escrows[id].enterprise, escrows[id].token>>]
               - balance[<<escrows[id].enterprise, escrows[id].token>>] = amount
      BY <1>7, <2>2, PaysMoves
    <3> QED
      BY <1>0, <3>1, <3>2 DEF Gated
  <2> QED
    BY <2>1, <2>2
<1> QED
  BY <1>3, <1>4, <1>5, <1>6, <1>7, StepMoves

\* The compliance gate over whole behaviours (the checks that claim, refund and
\* return_frozen make before settle): value leaves an escrow only to a cleared
\* worker while it is free, or back to the enterprise, free and expired or held.
THEOREM GateHolds == Spec => GatedMovement
<1>1. TypeOK /\ TypeOK' /\ [Next]_vars => [\A id \in DOMAIN escrows : Gated(id)]_vars
  BY ContractAssumption, GatedStep
<1>2. Spec => []TypeOK
  BY TypeCorrect
<1> QED
  BY <1>1, <1>2, PTL DEF Spec, GatedMovement, Gated

=============================================================================
