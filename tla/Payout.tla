------------------------------- MODULE Payout -------------------------------
(***************************************************************************)
(* One payout under an idempotency key: executePayoutInner in app.ts, the  *)
(* submission in lib/stellar.ts, and the watchdog of scheduler.ts that     *)
(* settles what a dead request or a silent Horizon left open.              *)
(*                                                                         *)
(* Clients send the same key again at any moment, to any instance.  A      *)
(* request ends at any point (a crash); a transaction lands, is refused or *)
(* expires whatever its request has become.  Time is counted in minutes:   *)
(* a transaction lives for one (its time bound), a row is stale after      *)
(* StaleAfter of them.                                                     *)
(***************************************************************************)
EXTENDS Integers, Sequences, FiniteSets

CONSTANTS
  Keys,         \* idempotency keys, each used with one payload
  Requests,     \* the requests that can be at work at one time
  StaleAfter,   \* STALE_INITIATED_MINUTES
  MaxTx         \* bound on the transactions built for one key

ASSUME PayoutAssumption ==
  /\ StaleAfter \in Nat /\ MaxTx \in Nat
  /\ StaleAfter >= 2  \* a transaction lives through two minutes at most

VARIABLES
  payments,  \* the payments row of a key: its status and its age in minutes
  txs,       \* the transactions built for a key, in order
  requests,  \* what every request is doing
  watchdog,  \* the watchdog's sweep
  late       \* history: keys with a request still at work two minutes before its row
             \* was stale

vars == <<payments, txs, requests, watchdog, late>>

Open     == {"initiated", "submitted"}
Paid     == {"completed", "pending_claim"}
Statuses == Open \cup Paid \cup {"failed"}
Kinds    == {"payment", "claimable"}

\* A transaction in its first and its second minute, and its end.
Flying == {"new", "old"}
Tx     == [kind : Kinds, fate : Flying \cup {"landed", "dead"}]

Idle == [pc |-> "idle"]
Busy == {"insert", "gate", "send", "wait", "fallback", "settle", "unknown", "fail"}
Request == [pc : Busy, key : Keys, kind : Kinds]

Asleep == [pc |-> "asleep"]
Sweep  == [pc : {"sweep"}, todo : SUBSET Keys]
     \cup [pc : {"write"}, todo : SUBSET Keys, key : Keys, found : Kinds \cup {"none"}]

TypeOK ==
  /\ payments \in [Keys -> [status : Statuses \cup {"none"}, age : 0..StaleAfter]]
  /\ \A k \in Keys : txs[k] \in Seq(Tx) /\ Len(txs[k]) <= MaxTx
  /\ DOMAIN txs = Keys
  /\ requests \in [Requests -> Request \cup {Idle}]
  /\ watchdog \in Sweep \cup {Asleep}
  /\ late \subseteq Keys

Init ==
  /\ payments = [k \in Keys |-> [status |-> "none", age |-> 0]]
  /\ txs = [k \in Keys |-> <<>>]
  /\ requests = [r \in Requests |-> Idle]
  /\ watchdog = Asleep
  /\ late = {}

-----------------------------------------------------------------------------

\* Every write of a row sets updated_at = NOW().
Write(k, status) ==
  payments' = [payments EXCEPT ![k] = [status |-> status, age |-> 0]]

Become(r, pc) == requests' = [requests EXCEPT ![r].pc = pc]
End(r)        == requests' = [requests EXCEPT ![r] = Idle]
At(r, pc)     == requests[r] # Idle /\ requests[r].pc = pc
Begin(r, k, pc) ==
  requests' = [requests EXCEPT ![r] = [pc |-> pc, key |-> k, kind |-> "payment"]]

MayBuild(k) == Len(txs[k]) < MaxTx

(* The idempotency lookup.  A key that is paid is replayed and one that is    *)
(* open is refused; neither changes anything.                                 *)

\* The key is new: the checks follow, then the INSERT.
Arrive(r, k) ==
  /\ requests[r] = Idle
  /\ payments[k].status = "none"
  /\ MayBuild(k)
  /\ Begin(r, k, "insert")
  /\ UNCHANGED <<payments, txs, watchdog, late>>

\* Faulty: the retry reads the status and writes it without comparing again.
ResumeOpen(r, k) ==
  /\ requests[r] = Idle
  /\ payments[k].status \in {"failed", "submitted"}
  /\ MayBuild(k)
  /\ Write(k, "initiated")
  /\ Begin(r, k, "gate")
  /\ UNCHANGED <<txs, watchdog, late>>

\* The last attempt failed: UPDATE ... WHERE status = 'failed', then the checks.
Resume(r, k) ==
  /\ requests[r] = Idle
  /\ payments[k].status = "failed"
  /\ MayBuild(k)
  /\ Write(k, "initiated")
  /\ Begin(r, k, "gate")
  /\ UNCHANGED <<txs, watchdog, late>>

\* The compliance check or the worker lookup ends the request; a row that was
\* resumed stays 'initiated'.  So does one whose request dies, at any point.
Abandon(r) ==
  /\ requests[r] # Idle
  /\ End(r)
  /\ UNCHANGED <<payments, txs, watchdog, late>>

PassGate(r) ==
  /\ At(r, "gate")
  /\ Become(r, "send")
  /\ UNCHANGED <<payments, txs, watchdog, late>>

\* The unique index on (enterprise, key) turns the loser of a race away.
Insert(r) ==
  /\ At(r, "insert")
  /\ LET k == requests[r].key
     IN  IF payments[k].status = "none"
         THEN Write(k, "initiated") /\ Begin(r, k, "send")
         ELSE End(r) /\ UNCHANGED payments
  /\ UNCHANGED <<txs, watchdog, late>>

-----------------------------------------------------------------------------
(* The submission.  Only one request at a time builds and submits a          *)
(* transaction of the enterprise's account (accountLock).                    *)

LockFree == \A r \in Requests : ~At(r, "wait")

Submit(r) ==
  /\ At(r, "send")
  /\ LockFree
  /\ LET k == requests[r].key
     IN  /\ MayBuild(k)
         /\ txs' = [txs EXCEPT ![k] = Append(@, [kind |-> requests[r].kind, fate |-> "new"])]
  /\ Become(r, "wait")
  /\ UNCHANGED <<payments, watchdog, late>>

\* The lock is not had within a minute, Horizon cannot be read, no path or price
\* is found: nothing was sent.
CannotSubmit(r) ==
  /\ At(r, "send") \/ At(r, "fallback")
  /\ Become(r, "fail")
  /\ UNCHANGED <<payments, txs, watchdog, late>>

\* The network: a transaction in the air lands or is refused.
Decide(k, fate) ==
  /\ \E i \in DOMAIN txs[k] :
       /\ txs[k][i].fate \in Flying
       /\ txs' = [txs EXCEPT ![k][i].fate = fate]
  /\ UNCHANGED <<payments, requests, watchdog, late>>

Land(k)   == Decide(k, "landed")
Refuse(k) == Decide(k, "dead")

\* The transaction a waiting request has sent is the last one of its key.
Sent(r) == LET s == txs[requests[r].key] IN s[Len(s)].fate

Answered(r) ==
  /\ At(r, "wait")
  /\ \/ Sent(r) = "landed" /\ Become(r, "settle")
     \/ Sent(r) = "dead"   /\ Become(r, "fail")
     \/ Sent(r) = "dead"   /\ requests[r].kind = "payment" /\ Become(r, "fallback")
  /\ UNCHANGED <<payments, txs, watchdog, late>>

\* Faulty: no verdict counts as a failure.
UnansweredIsFailure(r) ==
  /\ At(r, "wait")
  /\ Become(r, "fail")
  /\ UNCHANGED <<payments, txs, watchdog, late>>

\* A timeout, a dropped connection or a 5xx: SubmitOutcomeUnknownError.  It may
\* also be the worker's trustline whose fate is unknown: then nothing was sent.
Unanswered(r) ==
  /\ At(r, "wait") \/ (At(r, "send") /\ requests[r].kind = "payment")
  /\ Become(r, "unknown")
  /\ UNCHANGED <<payments, txs, watchdog, late>>

\* No trustline: an XLM claimable balance instead.
FallBack(r) ==
  /\ At(r, "fallback")
  /\ requests' = [requests EXCEPT ![r].kind = "claimable", ![r].pc = "send"]
  /\ UNCHANGED <<payments, txs, watchdog, late>>

(* The UPDATE that ends a request.  None of them looks at the row's status.  *)

Settle(r) ==
  /\ At(r, "settle")
  /\ Write(requests[r].key,
           IF requests[r].kind = "payment" THEN "completed" ELSE "pending_claim")
  /\ End(r)
  /\ UNCHANGED <<txs, watchdog, late>>

\* It fails inside the try block, and its error is handled as a failed payment
\* (a step of SpecWithLostWrites only).
SettleFails(r) ==
  /\ At(r, "settle")
  /\ Become(r, "fail")
  /\ UNCHANGED <<payments, txs, watchdog, late>>

RecordUnknown(r) ==
  /\ At(r, "unknown")
  /\ Write(requests[r].key, "submitted")
  /\ End(r)
  /\ UNCHANGED <<txs, watchdog, late>>

RecordFailure(r) ==
  /\ At(r, "fail")
  /\ Write(requests[r].key, "failed")
  /\ End(r)
  /\ UNCHANGED <<txs, watchdog, late>>

-----------------------------------------------------------------------------
(* The watchdog, every two minutes, on one instance. *)

\* Faulty: 'submitted' is not looked for.
StaleInitiated(k) == payments[k].status = "initiated" /\ payments[k].age >= StaleAfter

Stale(k) == payments[k].status \in Open /\ payments[k].age >= StaleAfter

Select ==
  /\ watchdog = Asleep
  /\ \E k \in Keys : Stale(k)
  /\ watchdog' = [pc |-> "sweep", todo |-> {k \in Keys : Stale(k)}]
  /\ UNCHANGED <<payments, txs, requests, late>>

LandedKinds(k) == {txs[k][i].kind : i \in {j \in DOMAIN txs[k] : txs[k][j].fate = "landed"}}

\* findTransactionByMemoHash: any transaction of this payment that has landed.
LookUp(k) ==
  /\ watchdog.pc = "sweep" /\ k \in watchdog.todo
  /\ \E found \in IF LandedKinds(k) = {} THEN {"none"} ELSE LandedKinds(k) :
       watchdog' = [pc |-> "write", todo |-> watchdog.todo \ {k}, key |-> k, found |-> found]
  /\ UNCHANGED <<payments, txs, requests, late>>

\* Horizon cannot be read: the row is left for the next sweep.
Unreadable(k) ==
  /\ watchdog.pc = "sweep" /\ k \in watchdog.todo
  /\ watchdog' = [watchdog EXCEPT !.todo = @ \ {k}]
  /\ UNCHANGED <<payments, txs, requests, late>>

\* Faulty: the kind of the transaction is written as it is.
VerdictRaw(found) == IF found = "none" THEN "failed" ELSE found

Verdict(found) ==
  IF found = "payment" THEN "completed"
  ELSE IF found = "claimable" THEN "pending_claim" ELSE "failed"

\* UPDATE ... WHERE status IN ('initiated', 'submitted')
Rule ==
  /\ watchdog.pc = "write"
  /\ IF payments[watchdog.key].status \in Open
     THEN Write(watchdog.key, Verdict(watchdog.found)) ELSE UNCHANGED payments
  /\ watchdog' = [pc |-> "sweep", todo |-> watchdog.todo]
  /\ UNCHANGED <<txs, requests, late>>

\* The sweep is over, or it ends early with its process.
GoToSleep(done) ==
  /\ IF done THEN watchdog.pc = "sweep" /\ watchdog.todo = {} ELSE watchdog # Asleep
  /\ watchdog' = Asleep
  /\ UNCHANGED <<payments, txs, requests, late>>

-----------------------------------------------------------------------------

Working(r) == requests[r] # Idle /\ requests[r].pc # "insert"

\* A minute passes, for rows and transactions.  Nothing bounds the time a request
\* takes: its row may become stale under it.
Minute ==
  /\ payments' = [k \in Keys |->
       [payments[k] EXCEPT !.age = IF @ < StaleAfter /\ payments[k].status \in Open
                                   THEN @ + 1 ELSE @]]
  /\ txs' = [k \in Keys |-> [i \in DOMAIN txs[k] |->
       [txs[k][i] EXCEPT !.fate = IF @ = "new" THEN "old" ELSE IF @ = "old" THEN "dead" ELSE @]]]
  /\ late' = late \cup {k \in Keys : /\ payments[k].age + 2 >= StaleAfter
                                    /\ \E r \in Requests : Working(r) /\ requests[r].key = k}
  /\ UNCHANGED <<requests, watchdog>>

RequestStep(r) ==
  \/ PassGate(r) \/ Insert(r) \/ Submit(r) \/ CannotSubmit(r) \/ Answered(r)
  \/ Unanswered(r) \/ FallBack(r) \/ Settle(r)
  \/ RecordUnknown(r) \/ RecordFailure(r) \/ Abandon(r)

WatchdogStep ==
  \/ Select \/ Rule
  \/ \E k \in Keys : LookUp(k) \/ Unreadable(k)
  \/ \E done \in BOOLEAN : GoToSleep(done)

Next ==
  \/ \E r \in Requests, k \in Keys : Arrive(r, k) \/ Resume(r, k)
  \/ \E r \in Requests : RequestStep(r)
  \/ \E k \in Keys : Land(k) \/ Refuse(k)
  \/ WatchdogStep
  \/ Minute

Spec == Init /\ [][Next]_vars

\* The same when the database may refuse the statement that records a success.
SpecWithLostWrites == Init /\ [][Next \/ \E r \in Requests : SettleFails(r)]_vars

(***************************************************************************)
(* Time passes and requests come to an end.  The watchdog's job is run     *)
(* again and again (node-cron), and for every row there are sweeps that    *)
(* read Horizon and come to write their verdict.                           *)
(***************************************************************************)
RuleOn(k) == watchdog.pc = "write" /\ watchdog.key = k /\ Rule

PayoutFairness ==
  /\ WF_vars(Minute)
  /\ \A r \in Requests : WF_vars(RequestStep(r))
  /\ WF_vars(WatchdogStep)
  /\ \A k \in Keys : SF_vars(LookUp(k)) /\ SF_vars(RuleOn(k))

-----------------------------------------------------------------------------
(* Properties. *)

Landed(k) == {i \in DOMAIN txs[k] : txs[k][i].fate = "landed"}

\* How the money of a key has moved.
Moved(k) ==
  IF Cardinality(Landed(k)) > 1 THEN "twice"
  ELSE IF LandedKinds(k) = {} THEN "none"
  ELSE IF "payment" \in LandedKinds(k) THEN "completed" ELSE "pending_claim"

\* "a 'failed' row would let a same-key retry pay twice" (app.ts:415), "only then
\* may a same-key retry pay again" (scheduler.ts:175): whatever is sent again, lost,
\* slow or settled by the watchdog, a worker is paid once.
PaidOnce == \A k \in Keys : Cardinality(Landed(k)) <= 1

\* The same for a key whose requests end in time.
PaidOnceInTime == \A k \in Keys \ late : Cardinality(Landed(k)) <= 1

\* What a retry relies on: of a payment that is 'failed' nothing has landed, and
\* nothing can land any more, unless one of its requests was so slow that the
\* watchdog could rule on the row while it was still to submit.
FailedIsOver ==
  \A k \in Keys \ late : payments[k].status = "failed" =>
    \A i \in DOMAIN txs[k] : txs[k][i].fate = "dead"

\* The payout keeps PaymentPromise: paid once, reported as paid, over when failed.
\* A key one of whose requests was too slow is void; a payment made twice is a step
\* the promise does not know.
Told    == [k \in Keys |-> IF k \in late THEN "void"
                          ELSE IF payments[k].status \in Open THEN "open"
                          ELSE payments[k].status]
HowPaid == [k \in Keys |-> IF k \in late THEN "void" ELSE Moved(k)]
Promise == INSTANCE PaymentPromise WITH verdict <- Told, moved <- HowPaid

KeepsPromise == Promise!Spec

\* No key is blocked for good: a row that is open, whoever left it so, gets its
\* verdict (scheduler.ts:163-165).
EveryRowSettles ==
  \A k \in Keys : (payments[k].status \in Open) ~> (payments[k].status \notin Open)

=============================================================================
