------------------------------ MODULE Cashout -------------------------------
(***************************************************************************)
(* Cashing out through MoneyGram: the deposit request of                   *)
(* routes/cashouts.ts, which pays MoneyGram from the worker's wallet, and  *)
(* lib/rampsSync.ts, which copies MoneyGram's record of the transaction    *)
(* onto the cashouts row, both right after a payment (a poller in the      *)
(* background) and every minute (a sweep).                                 *)
(*                                                                         *)
(* A browser may send the same deposit again and again.  MoneyGram's       *)
(* record moves by itself: it notices a payment some time after it landed, *)
(* may give the transaction up before or after, and what a request has     *)
(* read of it may be old when it is used.                                  *)
(***************************************************************************)
EXTENDS Integers, Sequences, FiniteSets

CONSTANTS
  Txs,         \* MoneyGram transactions (mg_tx_id), each opened by one worker
  Requests,    \* the deposit requests that can be at work at one time
  Silent,      \* whether Horizon may leave a submission without a verdict
  MaxPayments  \* bound on the payments submitted for one transaction

ASSUME CashoutAssumption == Silent \in BOOLEAN /\ MaxPayments \in Nat

VARIABLES
  record,    \* MoneyGram's record of a transaction
  rows,      \* the cashouts table
  payments,  \* the Stellar payments submitted for a transaction
  requests,  \* what every deposit request is doing
  polls,     \* awaitRampsAcknowledgement of a transaction
  sweep      \* syncPendingRamps

cashoutVars == <<record, rows, payments, requests, polls, sweep>>

\* One word of MoneyGram's for each answer of rampsOutcome.
Records == {"awaiting_funds", "processing", "refunded"}
Fates   == {"flying", "landed", "dead"}

NoRow  == [status |-> "none", paid |-> FALSE]
NoRequest   == [pc |-> "idle"]
Asleep == [pc |-> "asleep"]

CashoutTypeOK ==
  /\ record \in [Txs -> Records]
  /\ rows \in [Txs -> [status : {"none", "pending", "completed", "failed"}, paid : BOOLEAN]]
  /\ \A t \in Txs : payments[t] \in Seq(Fates) /\ Len(payments[t]) <= MaxPayments
  /\ DOMAIN payments = Txs
  /\ requests \in [Requests ->
       [pc : {"take", "pay", "wait", "persist", "fail"}, tx : Txs] \cup {NoRequest}]
  /\ polls \in [Txs -> {"off", "on"} \cup Records]
  /\ sweep \in {Asleep} \cup [pc : {"list"}, todo : SUBSET Txs]
               \cup [pc : {"apply"}, todo : SUBSET Txs, seen : [Txs -> Records]]

CashoutInit ==
  /\ record = [t \in Txs |-> "awaiting_funds"]
  /\ rows = [t \in Txs |-> NoRow]
  /\ payments = [t \in Txs |-> <<>>]
  /\ requests = [r \in Requests |-> NoRequest]
  /\ polls = [t \in Txs |-> "off"]
  /\ sweep = Asleep

-----------------------------------------------------------------------------
(* The deposit request. *)

At(r, pc)     == requests[r] # NoRequest /\ requests[r].pc = pc
Become(r, pc) == requests' = [requests EXCEPT ![r].pc = pc]
End(r)        == requests' = [requests EXCEPT ![r] = NoRequest]

\* checkDeposit: MoneyGram's record must be the caller's own and await its funds.
Check(r, t) ==
  /\ requests[r] = NoRequest
  /\ record[t] = "awaiting_funds"
  /\ requests' = [requests EXCEPT ![r] = [pc |-> "take", tx |-> t]]
  /\ UNCHANGED <<record, rows, payments, polls, sweep>>

\* Faulty: an attempt that is still pending can be taken over.
TakeableIfUnpaid(row) == ~row.paid

\* A row of our own that failed and was never paid can be tried again.
Takeable(row) == row.status = "none" \/ (row.status = "failed" /\ ~row.paid)

\* INSERT ... ON CONFLICT (mg_tx_id) DO UPDATE ... WHERE.
Take(r) ==
  /\ At(r, "take")
  /\ LET t == requests[r].tx
     IN  IF Takeable(rows[t])
         THEN rows' = [rows EXCEPT ![t].status = "pending"] /\ Become(r, "pay")
         ELSE End(r) /\ UNCHANGED rows
  /\ UNCHANGED <<record, payments, polls, sweep>>

\* payExactWithXlm submits a payment.  Whether it had to wait for the wallet's
\* lock makes no difference here.
Pay(r) ==
  /\ At(r, "pay")
  /\ LET t == requests[r].tx
     IN  /\ Len(payments[t]) < MaxPayments
         /\ payments' = [payments EXCEPT ![t] = Append(@, "flying")]
  /\ Become(r, "wait")
  /\ UNCHANGED <<record, rows, polls, sweep>>

\* No secret, no path within the wallet's means, Horizon down: nothing was sent.
CannotPay(r) ==
  /\ At(r, "pay")
  /\ Become(r, "fail")
  /\ UNCHANGED <<record, rows, payments, polls, sweep>>

Decide(t, fate) ==
  /\ \E i \in DOMAIN payments[t] :
       /\ payments[t][i] = "flying"
       /\ payments' = [payments EXCEPT ![t][i] = fate]
  /\ UNCHANGED <<record, rows, requests, polls, sweep>>

Sent(r) == LET p == payments[requests[r].tx] IN p[Len(p)]

\* The verdict, or none: every error of the payment is handled as its failure.
Answered(r) ==
  /\ At(r, "wait")
  /\ \/ Sent(r) = "landed" /\ Become(r, "persist")
     \/ (Sent(r) = "dead" \/ Silent) /\ Become(r, "fail")
  /\ UNCHANGED <<record, rows, payments, polls, sweep>>

\* settlement_hash is written, and the poller starts.
Persist(r) ==
  /\ At(r, "persist")
  /\ rows' = [rows EXCEPT ![requests[r].tx].paid = TRUE]
  /\ polls' = [polls EXCEPT ![requests[r].tx] = "on"]
  /\ End(r)
  /\ UNCHANGED <<record, payments, sweep>>

RecordFailure(r) ==
  /\ At(r, "fail")
  /\ rows' = [rows EXCEPT ![requests[r].tx].status = "failed"]
  /\ End(r)
  /\ UNCHANGED <<record, payments, polls, sweep>>

\* Faulty: whatever ends a request before its verdict counts as a failure.
AbandonIsFailure(r) ==
  /\ requests[r] # NoRequest
  /\ rows' = IF At(r, "wait") THEN [rows EXCEPT ![requests[r].tx].status = "failed"] ELSE rows
  /\ End(r)
  /\ UNCHANGED <<record, payments, polls, sweep>>

\* A statement fails or the service stops: the row stays as it is.
Abandon(r) ==
  /\ requests[r] # NoRequest
  /\ End(r)
  /\ UNCHANGED <<record, rows, payments, polls, sweep>>

-----------------------------------------------------------------------------
(* MoneyGram. *)

\* It notices a payment that landed; it gives up on one it waits for or had.
Move(t) ==
  /\ \/ /\ record[t] = "awaiting_funds"
        /\ \E i \in DOMAIN payments[t] : payments[t][i] = "landed"
        /\ record' = [record EXCEPT ![t] = "processing"]
     \/ /\ record[t] # "refunded"
        /\ record' = [record EXCEPT ![t] = "refunded"]
  /\ UNCHANGED <<rows, payments, requests, polls, sweep>>

-----------------------------------------------------------------------------
(* lib/rampsSync.ts *)

\* Faulty: the words for "given up" are not known.
OutcomeNeverFailed(status, rec) == IF rec = "processing" THEN "completed" ELSE status

\* The CASE of applyRampsRecord over rampsOutcome: what the row's status becomes.
Outcome(status, rec) ==
  IF rec = "processing" THEN "completed"
  ELSE IF rec = "refunded" THEN "failed" ELSE status

Apply(t, rec) == rows' = [rows EXCEPT ![t].status = Outcome(@, rec)]

PollRead(t) ==
  /\ polls[t] = "on"
  /\ polls' = [polls EXCEPT ![t] = record[t]]
  /\ UNCHANGED <<record, rows, payments, requests, sweep>>

\* Another try follows while MoneyGram waits for its funds.
PollApply(t) ==
  /\ polls[t] \in Records
  /\ Apply(t, polls[t])
  /\ polls' = [polls EXCEPT ![t] = IF @ = "awaiting_funds" THEN "on" ELSE "off"]
  /\ UNCHANGED <<record, payments, requests, sweep>>

\* After six tries, a failed statement or a stop of the service.
PollEnd(t) ==
  /\ polls[t] # "off"
  /\ polls' = [polls EXCEPT ![t] = "off"]
  /\ UNCHANGED <<record, rows, payments, requests, sweep>>

\* Faulty: rows that were never paid are swept too.
UnsettledAll(row) == row.status = "pending"

\* status = 'pending' AND settlement_hash IS NOT NULL
Unsettled(row) == row.status = "pending" /\ row.paid

SweepSelect ==
  /\ sweep = Asleep
  /\ \E t \in Txs : Unsettled(rows[t])
  /\ sweep' = [pc |-> "list", todo |-> {t \in Txs : Unsettled(rows[t])}]
  /\ UNCHANGED <<record, rows, payments, requests, polls>>

SweepList ==
  /\ sweep.pc = "list"
  /\ sweep' = [pc |-> "apply", todo |-> sweep.todo, seen |-> record]
  /\ UNCHANGED <<record, rows, payments, requests, polls>>

SweepApply(t) ==
  /\ sweep.pc = "apply" /\ t \in sweep.todo
  /\ Apply(t, sweep.seen[t])
  /\ sweep' = [sweep EXCEPT !.todo = @ \ {t}]
  /\ UNCHANGED <<record, payments, requests, polls>>

\* MoneyGram's list does not have it: the row waits for another sweep.
SweepSkip(t) ==
  /\ sweep.pc = "apply" /\ t \in sweep.todo
  /\ sweep' = [sweep EXCEPT !.todo = @ \ {t}]
  /\ UNCHANGED <<record, rows, payments, requests, polls>>

SweepEnd(done) ==
  /\ IF done THEN sweep.pc = "apply" /\ sweep.todo = {} ELSE sweep # Asleep
  /\ sweep' = Asleep
  /\ UNCHANGED <<record, rows, payments, requests, polls>>

-----------------------------------------------------------------------------

RequestStep(r) ==
  \/ Take(r) \/ Pay(r) \/ CannotPay(r) \/ Answered(r)
  \/ Persist(r) \/ RecordFailure(r) \/ Abandon(r)

SyncStep ==
  \/ SweepSelect \/ SweepList
  \/ \E t \in Txs :
       PollRead(t) \/ PollApply(t) \/ PollEnd(t) \/ SweepApply(t) \/ SweepSkip(t)
  \/ \E done \in BOOLEAN : SweepEnd(done)

CashoutNext ==
  \/ \E r \in Requests, t \in Txs : Check(r, t)
  \/ \E r \in Requests : RequestStep(r)
  \/ \E t \in Txs : Move(t) \/ \E fate \in {"landed", "dead"} : Decide(t, fate)
  \/ SyncStep

CashoutSpec == CashoutInit /\ [][CashoutNext]_cashoutVars

(***************************************************************************)
(* Requests come to an end.  The sweep runs every minute; it can read      *)
(* MoneyGram's records again and again, and for every row there are sweeps *)
(* that find it listed and come to apply what they have read.  The poller  *)
(* need never succeed.                                                     *)
(***************************************************************************)
CashoutFairness ==
  /\ \A r \in Requests : WF_cashoutVars(RequestStep(r))
  /\ WF_cashoutVars(SweepSelect) /\ WF_cashoutVars(SweepEnd(TRUE))
  /\ SF_cashoutVars(SweepList)
  /\ \A t \in Txs : SF_cashoutVars(SweepApply(t))

-----------------------------------------------------------------------------
(* Properties. *)

Landed(t) == {i \in DOMAIN payments[t] : payments[t][i] = "landed"}

\* "a forged or replayed request can never pay one transaction twice"
\* (routes/cashouts.ts:112-113).
PaidOnce == \A t \in Txs : Cardinality(Landed(t)) <= 1

\* A cash-out is completed only when our payment is on chain, we know of it, and
\* MoneyGram had it, whichever reader wrote the row and however old its reading.
CompletedWasPaid ==
  \A t \in Txs : rows[t].status = "completed" =>
    rows[t].paid /\ Landed(t) # {} /\ record[t] # "awaiting_funds"

\* To a worker who asks again and again a cash-out keeps what PaymentPromise says of a
\* payout, with the transaction for its key: the row tells that it was paid by its
\* settlement hash, never twice, and after "failed" without one nothing of an earlier
\* attempt arrives any more (routes/cashouts.ts:112-117).
Told ==
  [t \in Txs |->
    IF rows[t].paid THEN "completed"
    ELSE IF rows[t].status \in {"none", "failed"} THEN rows[t].status ELSE "open"]
Settled ==
  [t \in Txs |->
    IF Landed(t) = {} THEN "none"
    ELSE IF Cardinality(Landed(t)) <= 1 THEN "completed" ELSE "twice"]

Promise == INSTANCE PaymentPromise WITH Keys <- Txs, verdict <- Told, moved <- Settled

CashoutKeepsPromise == Promise!Spec

\* A payment we know of does not stay pending once MoneyGram has taken it or
\* given it up (scheduler.ts:337-338).
AcknowledgedSettles ==
  \A t \in Txs :
    (Unsettled(rows[t]) /\ record[t] # "awaiting_funds") ~> (rows[t].status # "pending")

=============================================================================
