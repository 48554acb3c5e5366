------------------------------- MODULE Batch --------------------------------
(***************************************************************************)
(* A batch payout: POST /payouts/batch in app.ts pays the items one after  *)
(* the other and writes the batch's status at the end; the watchdog of     *)
(* scheduler.ts writes it for a batch whose request has died, which it     *)
(* knows by the heartbeat the request leaves after every item.             *)
(*                                                                         *)
(* A single payout is what PaymentPromise promises of it: open until its   *)
(* verdict, which the watchdog brings when the request did not.            *)
(***************************************************************************)
EXTENDS Integers, FiniteSets

CONSTANTS
  Items,      \* the number of payments in the batch
  StaleBeat   \* STALE_BATCH_HEARTBEAT_MINUTES

ASSUME BatchAssumption == Items \in Nat \ {0} /\ StaleBeat \in Nat \ {0}

VARIABLES
  batch,    \* payment_batches: its status and the minutes since its heartbeat
  pay,      \* payments: the status of every item's row
  runner,   \* the request: where it is, and the results it has collected
  watchdog  \* the batch part of the watchdog's sweep

batchVars == <<batch, pay, runner, watchdog>>

Paid     == {"completed", "pending_claim"}
Verdicts == Paid \cup {"failed"}
Results  == Verdicts \cup {"submitted"}
Final    == {"completed", "partial", "failed"}
Slots    == 1..Items

NoSweep    == [pc |-> "asleep"]
NoResults == [i \in Slots |-> "none"]
Gone      == [pc |-> "idle", next |-> 1, results |-> NoResults]

BatchTypeOK ==
  /\ batch \in [status : Final \cup {"none", "processing"}, beat : 0..StaleBeat]
  /\ pay \in [Slots -> Verdicts \cup {"none", "open"}]
  /\ runner \in [pc : {"idle", "item", "paying", "beat", "finish"},
                 next : 1..(Items + 1), results : [Slots -> Results \cup {"none"}]]
  /\ watchdog \in {NoSweep} \cup [pc : {"count"}, dead : BOOLEAN]
        \cup [pc : {"write"}, dead : BOOLEAN, status : Final]

BatchInit ==
  /\ batch = [status |-> "none", beat |-> 0]
  /\ pay = [i \in Slots |-> "none"]
  /\ runner = Gone
  /\ watchdog = NoSweep

-----------------------------------------------------------------------------
(* The request. *)

\* Under a key that has been used nothing changes: a batch at work is refused, a
\* finished one is read back from its payments.
Create ==
  /\ batch.status = "none"
  /\ batch' = [status |-> "processing", beat |-> 0]
  /\ runner' = [Gone EXCEPT !.pc = "item"]
  /\ UNCHANGED <<pay, watchdog>>

Result(r) ==
  runner' = [runner EXCEPT !.pc = "beat", !.results[runner.next] = r]

\* INSERT INTO payments ... 'initiated'.
StartPayout ==
  /\ runner.pc = "item"
  /\ pay' = [pay EXCEPT ![runner.next] = "open"]
  /\ runner' = [runner EXCEPT !.pc = "paying"]
  /\ UNCHANGED <<batch, watchdog>>

\* Not verified, no account, no rate: the item fails and leaves no row.
SkipItem ==
  /\ runner.pc = "item"
  /\ Result("failed")
  /\ UNCHANGED <<batch, pay, watchdog>>

EndPayout(verdict) ==
  /\ runner.pc = "paying"
  /\ pay' = [pay EXCEPT ![runner.next] = verdict]
  /\ Result(verdict)
  /\ UNCHANGED <<batch, watchdog>>

\* No verdict: the row is 'submitted', and the result says so.
LeaveOpen ==
  /\ runner.pc = "paying"
  /\ Result("submitted")
  /\ UNCHANGED <<batch, pay, watchdog>>

\* executePayout throws (a failed query): the row stays as it is and the item
\* counts as failed.
Throws ==
  /\ runner.pc = "paying"
  /\ Result("failed")
  /\ UNCHANGED <<batch, pay, watchdog>>

\* Faulty: one item too many.
HeartbeatTooFar ==
  /\ runner.pc = "beat"
  /\ batch' = [batch EXCEPT !.beat = 0]
  /\ runner' = [runner EXCEPT !.pc = IF runner.next > Items THEN "finish" ELSE "item",
                              !.next = @ + 1]
  /\ UNCHANGED <<pay, watchdog>>

Heartbeat ==
  /\ runner.pc = "beat"
  /\ batch' = [batch EXCEPT !.beat = 0]
  /\ runner' = [runner EXCEPT !.pc = IF runner.next = Items THEN "finish" ELSE "item",
                              !.next = @ + 1]
  /\ UNCHANGED <<pay, watchdog>>

Has(results, words) == \E i \in Slots : results[i] \in words

\* Faulty: a payment without a verdict is not waited for.
FinalStatusAtOnce(results) ==
  IF ~Has(results, {"failed"}) THEN "completed"
  ELSE IF ~Has(results, {"completed"}) THEN "failed" ELSE "partial"

FinalStatus(results) ==
  IF Has(results, {"submitted"}) THEN "processing"
  ELSE IF ~Has(results, {"failed"}) THEN "completed"
  ELSE IF ~Has(results, {"completed"}) THEN "failed" ELSE "partial"

\* The status is written whatever the watchdog may have written before.
Finish ==
  /\ runner.pc = "finish"
  /\ batch' = [batch EXCEPT !.status = FinalStatus(runner.results)]
  /\ runner' = Gone
  /\ UNCHANGED <<pay, watchdog>>

RunnerCrash ==
  /\ runner.pc # "idle"
  /\ runner' = Gone
  /\ UNCHANGED <<batch, pay, watchdog>>

-----------------------------------------------------------------------------
(* The watchdog. *)

\* A payment whose request has left it gets its verdict (reconcileStalePayments):
\* the part of the sweep that comes before the batches.
SettlePayment(i) ==
  /\ watchdog = NoSweep
  /\ pay[i] = "open"
  /\ ~(runner.pc = "paying" /\ runner.next = i)
  /\ \E verdict \in Verdicts : pay' = [pay EXCEPT ![i] = verdict]
  /\ UNCHANGED <<batch, runner, watchdog>>

\* Faulty: the payments are joined, and a batch without any is not found.
StaleIfStarted ==
  /\ batch.status = "processing" /\ batch.beat >= StaleBeat
  /\ \E i \in Slots : pay[i] # "none"
  /\ \A i \in Slots : pay[i] # "open"

Stale ==
  /\ batch.status = "processing" /\ batch.beat >= StaleBeat
  /\ \A i \in Slots : pay[i] # "open"

\* Whether the request was dead by then is history, for the properties.
SelectBatch ==
  /\ watchdog = NoSweep
  /\ Stale
  /\ watchdog' = [pc |-> "count", dead |-> runner.pc = "idle"]
  /\ UNCHANGED <<batch, pay, runner>>

\* Faulty: a claimable balance does not count as paid.
TrueStatusDirect ==
  LET completed == Cardinality({i \in Slots : pay[i] = "completed"})
  IN  IF completed = Items THEN "completed"
      ELSE IF completed = 0 THEN "failed" ELSE "partial"

\* What the payments rows say of the batch.
TrueStatus ==
  LET completed == Cardinality({i \in Slots : pay[i] \in Paid})
  IN  IF completed = Items THEN "completed"
      ELSE IF completed = 0 THEN "failed" ELSE "partial"

Count ==
  /\ watchdog.pc = "count"
  /\ watchdog' = [pc |-> "write", dead |-> watchdog.dead, status |-> TrueStatus]
  /\ UNCHANGED <<batch, pay, runner>>

\* UPDATE ... WHERE status = 'processing'.
Rule ==
  /\ watchdog.pc = "write"
  /\ IF batch.status = "processing"
     THEN batch' = [batch EXCEPT !.status = watchdog.status] ELSE UNCHANGED batch
  /\ watchdog' = NoSweep
  /\ UNCHANGED <<pay, runner>>

\* A query fails or the service stops.
SweepAbort ==
  /\ watchdog # NoSweep
  /\ watchdog' = NoSweep
  /\ UNCHANGED <<batch, pay, runner>>

\* Between two payouts the request does not take minutes (rate and heartbeat,
\* ten seconds each at most); a payout may.
Minute ==
  /\ batch.status = "processing" /\ batch.beat < StaleBeat
  /\ runner.pc \in {"item", "beat", "finish"} => batch.beat + 1 < StaleBeat
  /\ batch' = [batch EXCEPT !.beat = @ + 1]
  /\ UNCHANGED <<pay, runner, watchdog>>

RunnerStep ==
  \/ StartPayout \/ SkipItem \/ LeaveOpen \/ Throws \/ Heartbeat \/ Finish \/ RunnerCrash
  \/ \E verdict \in Verdicts : EndPayout(verdict)

BatchNext ==
  \/ Create \/ RunnerStep
  \/ \E i \in Slots : SettlePayment(i)
  \/ SelectBatch \/ Count \/ Rule \/ SweepAbort
  \/ Minute

BatchSpec == BatchInit /\ [][BatchNext]_batchVars

\* Time passes, the request comes to an end, open payments get their verdict
\* (Payout!EveryRowSettles), and some sweep of the watchdog runs through.
BatchFairness ==
  /\ WF_batchVars(RunnerStep) /\ WF_batchVars(Minute)
  /\ \A i \in Slots : WF_batchVars(SettlePayment(i))
  /\ WF_batchVars(SelectBatch) /\ SF_batchVars(Count) /\ SF_batchVars(Rule)

-----------------------------------------------------------------------------
(* Properties. *)

\* A batch reported as completed has paid every worker: none was skipped, none
\* failed and none is still in doubt, whether the request or the watchdog wrote
\* the status.
CompletedIsPaid ==
  batch.status = "completed" => \A i \in Slots : pay[i] \in Paid

\* What the watchdog writes of a batch whose request had died is what the payments
\* say when it is written, although they were counted before.
RuledByTruth ==
  [][Rule /\ watchdog.dead /\ batch' # batch =>
       /\ batch'.status = "completed" <=> \A i \in Slots : pay[i] \in Paid
       /\ batch'.status = "failed" <=> \A i \in Slots : pay[i] \notin Paid]_batchVars

\* No batch is 'processing' for ever: a client that sends it again gets an answer
\* other than 409 (scheduler.ts:163-165, app.ts:697-699).
BatchSettles == (batch.status = "processing") ~> (batch.status # "processing")

=============================================================================
