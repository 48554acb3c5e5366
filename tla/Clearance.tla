------------------------------ MODULE Clearance ------------------------------
(***************************************************************************)
(* From a verdict of the compliance service to money that moves            *)
(* (payment-service lib/clearance.ts, requireCompliance in app.ts): an     *)
(* escrow call or a cash-out asks for the verdict, then asks the escrow    *)
(* contract for the worker's clearance, then sets or revokes it; a payout  *)
(* asks for the verdict alone.  In between reviewers decide and approvals  *)
(* and clearances lapse.  One worker is followed.                          *)
(***************************************************************************)
EXTENDS Integers, FiniteSets

CONSTANTS
  Requests,    \* places for requests that move this worker's money
  AutoApprove, \* the compliance service's KYC_AUTO_APPROVE
  Ttl,         \* CLEARANCE_TTL_SECONDS
  Validity,    \* validityDays of an approval
  Patience,    \* how long the read of the contract can take
  Horizon,     \* bound on time
  MaxInFlight, \* bound on the calls without an answer at a time
  MaxReviews   \* bound on the changes of the record

ASSUME ClearanceAssumption ==
  /\ AutoApprove \in BOOLEAN
  /\ Ttl \in Nat \ {0} /\ Validity \in Nat \ {0} /\ Patience \in Nat
  /\ Horizon \in Nat /\ MaxInFlight \in Nat /\ MaxReviews \in Nat

VARIABLES
  now,          \* the time, of every clock
  kyc,          \* the worker's row in kyc_records
  cleared,      \* the contract's Clearance: its expiry, 0 when there is none
  inFlight,     \* calls without an answer: the expiry to set, 0 to revoke
  gate,         \* gate[r]: how far the request in place r is
  lastEligible, \* history: when the worker was last eligible, -1 for never
  blocked,      \* history: requests all of whose life the worker was not
  reviews       \* how often the record has changed

clearanceVars ==
  <<now, kyc, cleared, inFlight, gate, lastEligible, blocked, reviews>>

Expiries == 0..(Horizon + Ttl)
Kinds    == {"escrow", "cashout", "payout"}

ClearanceTypeOK ==
  /\ now \in 0..Horizon
  /\ kyc \in [status : {"none", "pending", "approved", "rejected"},
              flag : {"clear", "flagged"}, until : 0..(Horizon + Validity)]
  /\ cleared \in Expiries /\ inFlight \subseteq Expiries
  /\ gate \in [Requests -> [kind : Kinds, pc : {"idle", "verdict", "chain", "set", "revoke", "move"},
                            eligible : BOOLEAN, asked : 0..Horizon, until : Expiries]]
  /\ lastEligible \in -1..Horizon /\ lastEligible <= now
  /\ blocked \subseteq Requests /\ reviews \in 0..MaxReviews

\* Faulty: the status as it is stored.
StoredStatus(row, t) ==
  row.status = "approved" \/ (row.status = "none" /\ AutoApprove)

\* GET /:userId/status answers 'verified': an approval lapses.
Verified(row, t) ==
  \/ (row.status = "approved" /\ row.until >= t)
  \/ (row.status = "none" /\ AutoApprove)

\* Who may be paid: the reference for the properties.
Eligible(row, t) ==
  /\ row.flag = "clear"
  /\ row.status = "approved" => row.until >= t
  /\ row.status \in {"approved"} \cup (IF AutoApprove THEN {"none"} ELSE {})

Outside == [kind |-> "payout", pc |-> "idle", eligible |-> FALSE, asked |-> 0, until |-> 0]

ClearanceInit ==
  /\ now = 0
  /\ kyc \in {[status |-> "none", flag |-> "clear", until |-> 0],
             [status |-> "approved", flag |-> "clear", until |-> Validity],
             [status |-> "rejected", flag |-> "flagged", until |-> 0]}
  /\ cleared = 0 /\ inFlight = {}
  /\ gate = [r \in Requests |-> Outside]
  /\ lastEligible = (IF Eligible(kyc, 0) THEN 0 ELSE -1)
  /\ blocked = {} /\ reviews = 0

-----------------------------------------------------------------------------
(* The record and the clock. *)

\* Faulty: the daily screening flags a record and leaves it approved.
ReviewedNotRejected(row) ==
  {[row EXCEPT !.status = "approved", !.flag = "clear", !.until = now + Validity],
   [row EXCEPT !.flag = "flagged"]}

\* A decision, a submission, the daily screening: approvals clear the flag, a
\* flag rejects.
Reviewed(row) ==
  {[row EXCEPT !.status = "approved", !.flag = "clear", !.until = now + Validity],
   [row EXCEPT !.status = "pending", !.flag = "clear"],
   [row EXCEPT !.status = "rejected", !.flag = "flagged"]}
  \cup IF row.status = "none" THEN {} ELSE {[row EXCEPT !.status = "rejected"]}

Review ==
  /\ reviews < MaxReviews /\ reviews' = reviews + 1
  /\ kyc' \in Reviewed(kyc)
  /\ lastEligible' = IF Eligible(kyc', now) THEN now ELSE lastEligible
  /\ blocked' = IF Eligible(kyc', now) THEN {} ELSE blocked
  /\ UNCHANGED <<now, cleared, inFlight, gate>>

Tick ==
  /\ now < Horizon /\ now' = now + 1
  /\ \A r \in Requests : gate[r].pc = "chain" => now < gate[r].asked + Patience
  /\ lastEligible' = IF Eligible(kyc, now + 1) THEN now + 1 ELSE lastEligible
  /\ UNCHANGED <<kyc, cleared, inFlight, gate, blocked, reviews>>

-----------------------------------------------------------------------------
(* A request. *)

At(r, pc) == gate[r].pc = pc
To(r, pc) == gate' = [gate EXCEPT ![r] = [Outside EXCEPT !.pc = pc, !.kind = gate[r].kind]]
Over(r)   == gate' = [gate EXCEPT ![r] = Outside]

Ask(r, kind) ==
  /\ At(r, "idle")
  /\ gate' = [gate EXCEPT ![r].pc = "verdict", ![r].kind = kind]
  /\ blocked' = IF Eligible(kyc, now) THEN blocked \ {r} ELSE blocked \cup {r}
  /\ UNCHANGED <<now, kyc, cleared, inFlight, lastEligible, reviews>>

\* fetchVerdict for ensureCleared; requireCompliance looks at the status only.
Verdict(r) ==
  /\ At(r, "verdict")
  /\ IF gate[r].kind = "payout"
     THEN IF Verified(kyc, now) THEN To(r, "move") ELSE Over(r)
     ELSE gate' = [gate EXCEPT ![r].pc = "chain", ![r].asked = now,
                     ![r].eligible = Verified(kyc, now) /\ kyc.flag = "clear"]
  /\ UNCHANGED <<now, kyc, cleared, inFlight, lastEligible, blocked, reviews>>

Live == cleared > now

\* isCleared, and what follows from both answers.
ReadClearance(r) ==
  /\ At(r, "chain")
  /\ CASE gate[r].eligible /\ Live  -> To(r, "move")
       [] gate[r].eligible /\ ~Live ->
            gate' = [gate EXCEPT ![r].pc = "set", ![r].until = now + Ttl,
                               ![r].asked = 0]
       [] ~gate[r].eligible /\ Live  -> To(r, "revoke")
       [] OTHER                      -> Over(r)
  /\ UNCHANGED <<now, kyc, cleared, inFlight, lastEligible, blocked, reviews>>

\* set_clearance refuses an expiry that is over.
SetClearance(r) ==
  /\ At(r, "set")
  /\ IF gate[r].until > now THEN cleared' = gate[r].until /\ To(r, "move")
     ELSE Over(r) /\ UNCHANGED cleared
  /\ UNCHANGED <<now, kyc, inFlight, lastEligible, blocked, reviews>>

RevokeClearance(r) ==
  /\ At(r, "revoke") /\ Over(r)
  /\ cleared' = 0
  /\ UNCHANGED <<now, kyc, inFlight, lastEligible, blocked, reviews>>

\* The call's outcome is unknown: the request fails, the call may land.
Unanswered(r) ==
  /\ gate[r].pc \in {"set", "revoke"} /\ Over(r)
  /\ Cardinality(inFlight) < MaxInFlight
  /\ inFlight' = inFlight \cup {gate[r].until}
  /\ UNCHANGED <<now, kyc, cleared, lastEligible, blocked, reviews>>

Land(expiry) ==
  /\ inFlight' = inFlight \ {expiry}
  /\ cleared' \in {cleared} \cup (IF expiry = 0 \/ expiry > now THEN {expiry} ELSE {})
  /\ UNCHANGED <<now, kyc, gate, lastEligible, blocked, reviews>>

\* The payment, the escrow call: the contract asks for a live clearance itself.
Move(r) ==
  /\ At(r, "move") /\ Over(r)
  /\ UNCHANGED <<now, kyc, cleared, inFlight, lastEligible, blocked, reviews>>

MovesMoney(r) == Move(r) /\ (gate[r].kind = "escrow" => Live)

\* Any call of the request can fail, which blocks it.
Refuse(r) ==
  /\ ~At(r, "idle") /\ Over(r)
  /\ UNCHANGED <<now, kyc, cleared, inFlight, lastEligible, blocked, reviews>>

Advance(r) ==
  \/ (\E kind \in Kinds : Ask(r, kind)) \/ Verdict(r) \/ ReadClearance(r) \/ SetClearance(r) \/ RevokeClearance(r)
  \/ Unanswered(r) \/ Move(r) \/ Refuse(r)

ClearanceNext ==
  \/ Review \/ Tick
  \/ \E r \in Requests : Advance(r)
  \/ \E expiry \in inFlight : Land(expiry)

ClearanceSpec == ClearanceInit /\ [][ClearanceNext]_clearanceVars

-----------------------------------------------------------------------------
(* Properties. *)

\* No request moves money if the worker was at no moment of it eligible,
\* whatever clearance other requests have left on chain, and although a payout
\* never looks at the sanctions flag: an approved record carries none.
BlockedMovesNothing ==
  [][\A r \in Requests : MovesMoney(r) => r \notin blocked]_clearanceVars

\* "Short, so a stale one self-expires" (clearance.ts:26): whatever was read
\* before, set late or lost, a clearance is over Ttl after the worker was last
\* eligible, or later by as much as the contract takes to answer.
StaleClearanceExpires ==
  cleared > 0 => lastEligible >= 0 /\ cleared <= lastEligible + Patience + Ttl
=============================================================================
