--------------------------- MODULE EscrowContract ---------------------------
(***************************************************************************)
(* The Soroban milestone escrow, contracts/escrow/src/lib.rs: an           *)
(* enterprise deposits the sum of N tranches for a worker, approves them   *)
(* one by one, the worker claims what was approved, and what was never     *)
(* approved goes back after expiry.  A compliance authority clears workers *)
(* for a time and may freeze one escrow.                                   *)
(*                                                                         *)
(* A contract call is one transaction: it takes effect entirely or not at  *)
(* all, so every entry point is one action and an error return is a guard. *)
(* require_auth is modelled by who performs the action.  The admin's side  *)
(* of the contract (set_compliance, propose_admin, accept_admin) is in     *)
(* EscrowAdmin.                                                            *)
(***************************************************************************)
EXTENDS Integers, Sequences, Functions

CONSTANTS
  Enterprises,    \* addresses that create escrows
  Workers,        \* addresses that are paid (may overlap with Enterprises)
  Tokens,         \* token contracts an escrow can be denominated in
  Vault,          \* the escrow contract's own address
  AmountLists,    \* the tranche lists that enterprises pass to create
  InitialBalance, \* what every enterprise holds of every token at the start
  MaxMilestones,  \* MAX_MILESTONES
  MaxI128,        \* the largest amount the contract's i128 can hold
  MaxIds,         \* NextId is a u64 and stops at its largest value
  MaxTime         \* the last ledger timestamp of a behaviour

ASSUME ContractAssumption ==
  /\ MaxMilestones \in Nat /\ MaxI128 \in Nat /\ MaxIds \in Nat
  /\ MaxTime \in Nat /\ InitialBalance \in Nat
  /\ AmountLists \subseteq Seq(Int)
  /\ Vault \notin Enterprises \cup Workers

VARIABLES
  now,        \* env.ledger().timestamp()
  nextId,     \* DataKey::NextId, 0 when absent
  escrows,    \* DataKey::Escrow(id), for every id below nextId
  clearance,  \* DataKey::Clearance(worker): its expiry, NoClearance if absent
  balance     \* the token contracts' balances

vars == <<now, nextId, escrows, clearance, balance>>

Addresses == Enterprises \cup Workers \cup {Vault}
Milestone == {"Pending", "Approved", "Claimed", "Refunded"}
Open      == {"Pending", "Approved"}
I128      == (-MaxI128)..MaxI128
Times     == 0..(MaxTime + 1)
NoClearance == 0

Escrow == [enterprise : Enterprises, worker : Workers, token : Tokens,
           amounts : Seq(1..MaxI128), milestones : Seq(Milestone),
           expiry : Times, status : {"Active", "Completed", "Refunded"},
           frozen : BOOLEAN]

TypeOK ==
  /\ now \in 0..MaxTime
  /\ nextId \in 0..MaxIds
  /\ escrows \in [0..(nextId - 1) -> Escrow]
  /\ \A id \in DOMAIN escrows :
        DOMAIN escrows[id].milestones = DOMAIN escrows[id].amounts
  /\ clearance \in [Workers -> Times]
  /\ balance \in [Addresses \X Tokens -> Nat]

Init ==
  /\ now = 0
  /\ nextId = 0
  /\ escrows = <<>>
  /\ clearance = [w \in Workers |-> NoClearance]
  /\ balance = [h \in Addresses \X Tokens |->
                  IF h[1] \in Enterprises THEN InitialBalance ELSE 0]

-----------------------------------------------------------------------------

IsCleared(w) == clearance[w] > now

\* A sum of amounts, added up with checked_add: the call fails when the sum is
\* not in I128.
Sum(amounts, indices) == SumFunctionOnSet(amounts, indices)

\* Faulty: the sign and the sum of the amounts are not looked at.
AmountsUnchecked(amounts) == Len(amounts) \in 1..MaxMilestones

\* What create accepts as a list of amounts.
AmountsValid(amounts) ==
  /\ Len(amounts) \in 1..MaxMilestones
  /\ \A i \in DOMAIN amounts : amounts[i] \in 1..MaxI128
  /\ Sum(amounts, DOMAIN amounts) \in I128

\* Faulty: an approved tranche does not keep the escrow open.
FinalizeForgetsApproved(milestones) ==
  IF \E i \in DOMAIN milestones : milestones[i] = "Pending" THEN "Active"
  ELSE IF \E i \in DOMAIN milestones : milestones[i] = "Claimed"
       THEN "Completed" ELSE "Refunded"

\* finalize_status, applied to the milestones a call has just written.
FinalizeStatus(milestones) ==
  IF \E i \in DOMAIN milestones : milestones[i] \in Open THEN "Active"
  ELSE IF \E i \in DOMAIN milestones : milestones[i] = "Claimed"
       THEN "Completed" ELSE "Refunded"

\* The token contract's transfer: it traps on a negative amount and when the
\* sender cannot pay.  The two ends are always different addresses here.
Transfer(from, to, token, amount) ==
  /\ amount >= 0
  /\ balance[<<from, token>>] >= amount
  /\ balance' = [h \in DOMAIN balance |->
       IF h = <<from, token>> THEN balance[h] - amount
       ELSE IF h = <<to, token>> THEN balance[h] + amount ELSE balance[h]]

\* The common end of claim, refund and return_frozen: the escrow is saved with
\* its new milestones and status, then its tokens move.
Settle(id, milestones, payee, amount) ==
  /\ escrows' = [escrows EXCEPT ![id].milestones = milestones,
                                ![id].status = FinalizeStatus(milestones)]
  /\ Transfer(Vault, payee, escrows[id].token, amount)

-----------------------------------------------------------------------------
(* The compliance authority. *)

SetClearance(w, expiry) ==
  /\ expiry > now
  /\ clearance' = [clearance EXCEPT ![w] = expiry]
  /\ UNCHANGED <<now, nextId, escrows, balance>>

RevokeClearance(w) ==
  /\ clearance' = [clearance EXCEPT ![w] = NoClearance]
  /\ UNCHANGED <<now, nextId, escrows, balance>>

SetFrozen(id, frozen) ==
  /\ id \in DOMAIN escrows
  /\ escrows' = [escrows EXCEPT ![id].frozen = frozen]
  /\ UNCHANGED <<now, nextId, clearance, balance>>

\* All the tranches in the given states go back to the enterprise.
PayBack(id, states) ==
  LET e     == escrows[id]
      back  == {i \in DOMAIN e.milestones : e.milestones[i] \in states}
      left  == [i \in DOMAIN e.milestones |->
                  IF i \in back THEN "Refunded" ELSE e.milestones[i]]
      total == Sum(e.amounts, back)
  IN  /\ total \in I128
      /\ total # 0
      /\ Settle(id, left, e.enterprise, total)

ReturnFrozen(id) ==
  /\ id \in DOMAIN escrows
  /\ escrows[id].status = "Active"
  /\ escrows[id].frozen
  /\ PayBack(id, Open)
  /\ UNCHANGED <<now, nextId, clearance>>

-----------------------------------------------------------------------------
(* The enterprise and the worker. *)

\* The new escrow is stored under NextId, which moves on.
Store(e) ==
  /\ nextId + 1 <= MaxIds
  /\ nextId' = nextId + 1
  /\ escrows' = [id \in 0..nextId |-> IF id = nextId THEN e ELSE escrows[id]]

Create(ent, w, token, amounts, expiry) ==
  /\ IsCleared(w)
  /\ AmountsValid(amounts)
  /\ expiry > now
  /\ Transfer(ent, Vault, token, Sum(amounts, DOMAIN amounts))
  /\ Store([enterprise |-> ent, worker |-> w, token |-> token,
            amounts |-> amounts,
            milestones |-> [i \in 1..Len(amounts) |-> "Pending"],
            expiry |-> expiry, status |-> "Active", frozen |-> FALSE])
  /\ UNCHANGED <<now, clearance>>

\* Faulty: a hold is not looked at.
WorkableWhileFrozen(id, idx) ==
  /\ id \in DOMAIN escrows
  /\ escrows[id].status = "Active"
  /\ IsCleared(escrows[id].worker)
  /\ idx \in DOMAIN escrows[id].milestones

\* The checks that approve and claim share.
Workable(id, idx) ==
  /\ id \in DOMAIN escrows
  /\ escrows[id].status = "Active"
  /\ ~escrows[id].frozen
  /\ IsCleared(escrows[id].worker)
  /\ idx \in DOMAIN escrows[id].milestones

Approve(id, idx) ==
  /\ Workable(id, idx)
  /\ escrows[id].milestones[idx] = "Pending"
  /\ escrows' = [escrows EXCEPT ![id].milestones[idx] = "Approved"]
  /\ UNCHANGED <<now, nextId, clearance, balance>>

\* Faulty: the tokens move and the milestone stays as it was.
ClaimWithoutSaving(id, idx) ==
  /\ Workable(id, idx)
  /\ escrows[id].milestones[idx] = "Approved"
  /\ Transfer(Vault, escrows[id].worker, escrows[id].token, escrows[id].amounts[idx])
  /\ UNCHANGED <<now, nextId, escrows, clearance>>

\* Faulty: an earned tranche lapses with the escrow.
ClaimBeforeExpiry(id, idx) ==
  /\ Workable(id, idx)
  /\ escrows[id].milestones[idx] = "Approved"
  /\ now <= escrows[id].expiry
  /\ Settle(id, [escrows[id].milestones EXCEPT ![idx] = "Claimed"],
            escrows[id].worker, escrows[id].amounts[idx])
  /\ UNCHANGED <<now, nextId, clearance>>

\* Not gated on expiry: an approved tranche is earned.
Claim(id, idx) ==
  /\ Workable(id, idx)
  /\ escrows[id].milestones[idx] = "Approved"
  /\ Settle(id, [escrows[id].milestones EXCEPT ![idx] = "Claimed"],
            escrows[id].worker, escrows[id].amounts[idx])
  /\ UNCHANGED <<now, nextId, clearance>>

\* Faulty: approved tranches go back too.
RefundTakesApproved(id) ==
  /\ id \in DOMAIN escrows
  /\ escrows[id].status = "Active"
  /\ ~escrows[id].frozen
  /\ now > escrows[id].expiry
  /\ PayBack(id, Open)
  /\ UNCHANGED <<now, nextId, clearance>>

\* No clearance is asked for here: the money goes back where it came from.
Refund(id) ==
  /\ id \in DOMAIN escrows
  /\ escrows[id].status = "Active"
  /\ ~escrows[id].frozen
  /\ now > escrows[id].expiry
  /\ PayBack(id, {"Pending"})
  /\ UNCHANGED <<now, nextId, clearance>>

\* A ledger closes: its timestamp is later than the one before it.
CloseLedger ==
  /\ \E t \in (now + 1)..MaxTime : now' = t
  /\ UNCHANGED <<nextId, escrows, clearance, balance>>

-----------------------------------------------------------------------------

ComplianceNext ==
  \/ \E w \in Workers : RevokeClearance(w) \/ \E t \in Times : SetClearance(w, t)
  \/ \E id \in DOMAIN escrows :
        ReturnFrozen(id) \/ \E frozen \in BOOLEAN : SetFrozen(id, frozen)

\* The expiries that enterprises choose lie before the last ledger of the
\* behaviour: every escrow can be seen expired.
PartyNext ==
  \/ \E ent \in Enterprises, w \in Workers, token \in Tokens,
        amounts \in AmountLists, expiry \in 0..(MaxTime - 1) :
          Create(ent, w, token, amounts, expiry)
  \/ \E id \in DOMAIN escrows :
        \/ Refund(id)
        \/ \E idx \in DOMAIN escrows[id].milestones :
              Approve(id, idx) \/ Claim(id, idx)

Next == ComplianceNext \/ PartyNext \/ CloseLedger

Spec == Init /\ [][Next]_vars

(***************************************************************************)
(* The assumption under which money cannot stay in the contract: ledgers   *)
(* close, the enterprise asks for its refund and the worker for its        *)
(* approved tranches again and again, the authority keeps clearing the     *)
(* worker, lifts or resolves every hold, and its revocations and freezes   *)
(* come to an end.                                                         *)
(***************************************************************************)
ResolveHold(id) == SetFrozen(id, FALSE) \/ ReturnFrozen(id)

Cooperation ==
  /\ WF_vars(CloseLedger)
  /\ \A id \in 0..(MaxIds - 1) :
        /\ SF_vars(Refund(id))
        /\ WF_vars(ResolveHold(id))
        /\ \A idx \in 1..MaxMilestones : SF_vars(Claim(id, idx))
  /\ \A w \in Workers :
        /\ WF_vars(~IsCleared(w) /\ \E t \in Times : SetClearance(w, t))
        /\ <>[][~RevokeClearance(w)]_vars
  /\ <>[][\A id \in DOMAIN escrows : ~SetFrozen(id, TRUE)]_vars

-----------------------------------------------------------------------------
(* Properties. *)

\* An escrow is Active exactly while a tranche is open; once none is, it is
\* Completed if the worker was paid anything and Refunded if not
\* (finalize_status and its callers: approve does not call it, claim, refund
\* and return_frozen do).
HasTranche(e, states) == \E i \in DOMAIN e.milestones : e.milestones[i] \in states

StatusMatches(e) ==
  /\ e.status = "Active" <=> HasTranche(e, Open)
  /\ e.status = "Completed" => HasTranche(e, {"Claimed"})
  /\ e.status = "Refunded"  => ~HasTranche(e, {"Claimed"})

StatusMatchesTranches == \A id \in DOMAIN escrows : StatusMatches(escrows[id])

\* Amounts of the escrows of one token that satisfy a test, over the tranches
\* in the given states.
Tally(Test(_), token, states) ==
  LET ids == {id \in DOMAIN escrows : Test(escrows[id]) /\ escrows[id].token = token}
      of  == [id \in ids |->
                Sum(escrows[id].amounts,
                    {i \in DOMAIN escrows[id].milestones :
                        escrows[id].milestones[i] \in states})]
  IN  SumFunction(of)

\* Double-entry bookkeeping over the whole history: the contract holds, of
\* every token, exactly the open tranches of all its escrows, and every address
\* has exactly what it started with, less what it deposited, plus the tranches
\* claimed by it as a worker and refunded to it as an enterprise.  No tranche is
\* paid twice, to the wrong party, in the wrong token or out of another escrow's
\* deposit.
Accounting ==
  \A token \in Tokens :
    /\ balance[<<Vault, token>>] = Tally(LAMBDA e : TRUE, token, Open)
    /\ \A a \in Addresses \ {Vault} :
         balance[<<a, token>>] =
             (IF a \in Enterprises THEN InitialBalance ELSE 0)
           - Tally(LAMBDA e : e.enterprise = a, token, Milestone)
           + Tally(LAMBDA e : e.enterprise = a, token, {"Refunded"})
           + Tally(LAMBDA e : e.worker = a, token, {"Claimed"})

\* The compliance gate as the README of the contract promises it: the value held
\* for an escrow falls only in a step in which the escrow was either free and
\* the payee a cleared worker, or free and expired with everything going to the
\* enterprise, or held with everything going to the enterprise.
OpenValue(e) ==
  Sum(e.amounts, {i \in DOMAIN e.milestones : e.milestones[i] \in Open})

GatedMovement ==
  [][\A id \in DOMAIN escrows :
       LET e    == escrows[id]
           out  == OpenValue(e) - OpenValue(escrows'[id])
           paid == balance'[<<e.worker, e.token>>] - balance[<<e.worker, e.token>>]
           back == balance'[<<e.enterprise, e.token>>] - balance[<<e.enterprise, e.token>>]
       IN  out # 0 =>
             \/ paid = out /\ ~e.frozen /\ IsCleared(e.worker)
             \/ back = out /\ ~e.frozen /\ e.expiry < now
             \/ back = out /\ e.frozen /\ e.status = "Active"]_vars

\* Nothing stays locked: with the cooperation above every tranche of every
\* escrow ends with the worker or back at the enterprise.  In particular no
\* order of approvals, expiry, freezes and lapsed clearances leaves money that
\* none of claim, refund and return_frozen can move.
EveryEscrowSettles ==
  \A id \in 0..(MaxIds - 1) :
    (id \in DOMAIN escrows) ~>
      (id \in DOMAIN escrows /\ escrows[id].status # "Active")

\* The state of one tranche in the terms of TrancheLedger.
Stage(m) ==
  IF m = "Pending" THEN "locked" ELSE IF m = "Approved" THEN "earned"
  ELSE IF m = "Claimed" THEN "paid" ELSE "returned"

Ids   == 0..(MaxIds - 1)
Slots == 1..MaxMilestones

Tranche ==
  [s \in Ids \X Slots |->
     IF s[1] \in DOMAIN escrows /\ s[2] \in DOMAIN escrows[s[1]].milestones
     THEN Stage(escrows[s[1]].milestones[s[2]]) ELSE "none"]

Held == [id \in Ids |-> id \in DOMAIN escrows /\ escrows[id].frozen]

Ledger == INSTANCE TrancheLedger WITH tranche <- Tranche, held <- Held

\* The contract implements the tranche ledger: every call settles tranches the
\* way TrancheLedger allows or leaves them alone.
ImplementsTrancheLedger == Ledger!Spec

=============================================================================
