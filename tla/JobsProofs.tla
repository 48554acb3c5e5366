----------------------------- MODULE JobsProofs -----------------------------
(***************************************************************************)
(* Proofs about Batch, for any number of items: what its status says is    *)
(* what happened to its payments, whether the request or the watchdog      *)
(* wrote it; about Cashout, for any number of transactions and requests:   *)
(* when Horizon answers every submission (~Silent), a MoneyGram            *)
(* transaction is paid once, a cash-out is completed only when it was      *)
(* paid, and to a worker who asks again it keeps PaymentPromise; about     *)
(* AccountLock, for any number of calls, instances and faults and any      *)
(* size of the pool: no sequence number is used twice without one of the   *)
(* faults that are named, and not everybody waits for everybody when the   *)
(* pool has more than one connection; about Screening, for any number of   *)
(* instances and names: no employer's decision takes a flag away, and a    *)
(* refresh that runs under its lock leaves the list whole; and about the   *)
(* four parts of MCJobs together: their types.                             *)
(***************************************************************************)
EXTENDS MCJobs, SequenceTheorems, FiniteSetTheorems, TLAPS

-----------------------------------------------------------------------------
(* Batch. *)

(* The inductive invariant. *)

\* Before the batch is created nothing is paid and nobody is at work.
NotBegun ==
  batch.status = "none" =>
    /\ \A i \in Slots : pay[i] = "none"
    /\ runner = Gone /\ watchdog = NoSweep

\* The request goes through the items in order: those behind it have a result,
\* which is the payment's verdict when it says "paid", and those before it have no
\* payment yet.
Passed(i) == i < runner.next \/ (i = runner.next /\ runner.pc = "beat")

InOrder ==
  runner.pc # "idle" =>
    /\ runner.pc # "finish" => runner.next \in Slots
    /\ runner.pc = "finish" => runner.next = Items + 1
    /\ \A i \in Slots :
         /\ Passed(i) => runner.results[i] # "none"
         /\ runner.results[i] \in Paid => pay[i] \in Paid
         /\ i > runner.next \/ (i = runner.next /\ runner.pc = "item") => pay[i] = "none"
    /\ runner.pc = "paying" => pay[runner.next] = "open"

\* What the watchdog has counted still holds when it writes: all were paid; and,
\* when the request was dead, no payment has changed since.
CountHolds ==
  /\ watchdog.pc = "write" /\ watchdog.status = "completed" => \A i \in Slots : pay[i] \in Paid
  /\ watchdog.pc # "asleep" /\ watchdog.dead =>
       /\ batch.status # "none" /\ runner = Gone
       /\ \A i \in Slots : pay[i] # "open"
       /\ watchdog.pc = "write" => watchdog.status = TrueStatus

\* A request that has ended leaves nothing behind.
IdleIsGone == runner.pc = "idle" => runner = Gone

BatchIInv ==
  BatchTypeOK /\ NotBegun /\ IdleIsGone /\ InOrder /\ CountHolds /\ CompletedIsPaid

-----------------------------------------------------------------------------

\* The status that the payments call for, and what it says of them.
LEMMA TrueStatusSays ==
  ASSUME BatchAssumption
  PROVE  /\ TrueStatus \in Final
         /\ TrueStatus = "completed" <=> \A i \in Slots : pay[i] \in Paid
         /\ TrueStatus = "failed" <=> \A i \in Slots : pay[i] \notin Paid
<1> DEFINE S == {i \in Slots : pay[i] \in Paid}
           c == Cardinality(S)
<1>1. IsFiniteSet(Slots) /\ Cardinality(Slots) = Items
  BY FS_Interval DEF Slots, BatchAssumption
<1>2. /\ S \subseteq Slots /\ IsFiniteSet(S)
      /\ c \in Nat /\ (c = Items <=> S = Slots)
  BY <1>1, FS_Subset, FS_CardinalityType
<1>3. c = 0 <=> S = {}
  BY <1>2, FS_EmptySet
<1>4. /\ S = Slots <=> \A i \in Slots : pay[i] \in Paid
      /\ S = {} <=> \A i \in Slots : pay[i] \notin Paid
  OBVIOUS
<1>5. TrueStatus = IF c = Items THEN "completed" ELSE IF c = 0 THEN "failed" ELSE "partial"
  BY DEF TrueStatus
<1>6. Items # 0
  BY DEF BatchAssumption
<1> HIDE DEF c, S
<1> QED
  BY <1>2, <1>3, <1>4, <1>5, <1>6 DEF Final

\* The initial states of a batch.
LEMMA BatchStarts ==
  ASSUME BatchAssumption, BatchInit
  PROVE  BatchIInv
<1>1. 0 \in 0..StaleBeat /\ 1 \in 1..(Items + 1)
  BY DEF BatchAssumption
<1>2. BatchTypeOK
  BY <1>1 DEF BatchInit, BatchTypeOK, Gone, NoResults, NoSweep
<1> QED
  BY <1>2 DEF BatchInit, BatchIInv, NotBegun, IdleIsGone, InOrder, CountHolds, CompletedIsPaid, Gone, NoSweep

-----------------------------------------------------------------------------
(* The steps of the request. *)

\* A step of a request that leaves the payments alone.
LEMMA RunnerMoves ==
  ASSUME BatchAssumption, BatchIInv, runner.pc # "idle",
         UNCHANGED <<pay, watchdog>>,
         BatchTypeOK', InOrder', IdleIsGone',
         batch'.status # "none", batch'.status = "completed" => CompletedIsPaid'
  PROVE  BatchIInv'
<1>1. ~(watchdog.pc # "asleep" /\ watchdog.dead)
  BY DEF BatchIInv, CountHolds, Gone
<1>2. CountHolds'
  BY <1>1 DEF BatchIInv, CountHolds
<1> QED
  BY <1>2 DEF BatchIInv, NotBegun, CompletedIsPaid

\* The runner begins a payout.
LEMMA StartKeeps ==
  ASSUME BatchAssumption, BatchIInv, StartPayout
  PROVE  BatchIInv'
<1> USE DEF BatchIInv
<1>1. /\ runner.pc = "item" /\ pay' = [pay EXCEPT ![runner.next] = "open"]
      /\ runner' = [runner EXCEPT !.pc = "paying"] /\ UNCHANGED <<batch, watchdog>>
      /\ runner.next \in Slots /\ pay[runner.next] = "none"
  BY DEF StartPayout, InOrder
<1>2. BatchTypeOK'
  BY <1>1 DEF BatchTypeOK
<1>3. /\ runner'.pc = "paying" /\ runner'.next = runner.next /\ runner'.results = runner.results
      /\ pay'[runner.next] = "open" /\ \A i \in Slots : i # runner.next => pay'[i] = pay[i]
  BY <1>1 DEF BatchTypeOK
<1>4. InOrder'
  <2>1. ASSUME NEW i \in Slots
        PROVE  /\ (Passed(i))' => runner'.results[i] # "none"
               /\ runner'.results[i] \in Paid => pay'[i] \in Paid
               /\ i > runner'.next => pay'[i] = "none"
    <3>1. i # runner.next => Passed(i)' = Passed(i)
      BY <1>1, <1>3 DEF Passed
    <3>2. i = runner.next => ~Passed(i)' /\ ~(i > runner'.next)
      BY <1>1, <1>3 DEF Passed, Slots, BatchAssumption
    <3> QED
      BY <1>1, <1>3, <3>1, <3>2 DEF InOrder, Paid
  <2> QED
    BY <1>1, <1>3, <2>1 DEF InOrder
<1>5. ~(\A i \in Slots : pay[i] \in Paid) /\ runner # Gone /\ batch.status # "none"
  BY <1>1 DEF Paid, Gone, NotBegun
<1>6. CountHolds'
  BY <1>1, <1>5 DEF CountHolds
<1> QED
  BY <1>1, <1>2, <1>3, <1>4, <1>5, <1>6 DEF NotBegun, CompletedIsPaid, IdleIsGone

\* The result of an item, with what it does to the item's payment.
LEMMA ResultKeeps ==
  ASSUME BatchAssumption, BatchIInv, NEW r \in Results, NEW verdict \in Verdicts \cup {"none", "open"},
         runner.pc \in {"item", "paying"}, Result(r), UNCHANGED <<batch, watchdog>>,
         pay' = [pay EXCEPT ![runner.next] = verdict],
         r \in Paid => verdict \in Paid
  PROVE  BatchIInv'
<1> USE DEF BatchIInv
<1>1. /\ runner.next \in Slots /\ pay[runner.next] \notin Paid
      /\ runner' = [runner EXCEPT !.pc = "beat", !.results[runner.next] = r]
  BY DEF InOrder, Paid, Result
<1>2. BatchTypeOK'
  BY <1>1 DEF BatchTypeOK
<1>3. /\ runner'.pc = "beat" /\ runner'.next = runner.next
      /\ runner'.results[runner.next] = r
      /\ \A i \in Slots : i # runner.next => runner'.results[i] = runner.results[i]
      /\ pay'[runner.next] = verdict /\ \A i \in Slots : i # runner.next => pay'[i] = pay[i]
  BY <1>1 DEF BatchTypeOK
<1>4. InOrder'
  <2>1. ASSUME NEW i \in Slots
        PROVE  /\ (Passed(i))' => runner'.results[i] # "none"
               /\ runner'.results[i] \in Paid => pay'[i] \in Paid
               /\ i > runner'.next => pay'[i] = "none"
    <3>1. i # runner.next => Passed(i)' = Passed(i)
      BY <1>1, <1>3 DEF Passed
    <3>2. i = runner.next => ~(i > runner'.next)
      BY <1>1, <1>3 DEF Slots, BatchAssumption
    <3>3. r # "none"
      BY DEF Results, Verdicts, Paid
    <3> QED
      BY <1>1, <1>3, <3>1, <3>2, <3>3 DEF InOrder
  <2> QED
    BY <1>1, <1>3, <2>1 DEF InOrder
<1>5. ~(\A i \in Slots : pay[i] \in Paid) /\ runner # Gone /\ batch.status # "none"
  BY <1>1 DEF Gone, NotBegun
<1>6. CountHolds'
  BY <1>1, <1>5 DEF CountHolds
<1> QED
  BY <1>1, <1>2, <1>3, <1>4, <1>5, <1>6 DEF NotBegun, CompletedIsPaid, IdleIsGone

\* The other steps of the runner.
LEMMA RunnerKeeps ==
  ASSUME BatchAssumption, BatchIInv, RunnerStep
  PROVE  BatchIInv'
<1> USE DEF BatchIInv
<1>1. /\ runner \in [pc : {"idle", "item", "paying", "beat", "finish"},
                     next : 1..(Items + 1), results : [Slots -> Results \cup {"none"}]]
      /\ pay \in [Slots -> Verdicts \cup {"none", "open"}]
      /\ batch \in [status : Final \cup {"none", "processing"}, beat : 0..StaleBeat]
  BY DEF BatchTypeOK
<1>2. runner.pc # "idle" => batch.status # "none"
  BY DEF NotBegun, Gone
<1>3. pay = [pay EXCEPT ![runner.next] = pay[runner.next]]
  BY <1>1
<1>4. CASE StartPayout
  BY <1>4, StartKeeps
<1>5. CASE SkipItem \/ LeaveOpen \/ Throws
  <2>1. PICK r \in {"failed", "submitted"} : Result(r)
    BY <1>5 DEF SkipItem, LeaveOpen, Throws
  <2>2. /\ runner.pc \in {"item", "paying"} /\ UNCHANGED <<batch, pay, watchdog>>
        /\ r \in Results /\ r \notin Paid
    BY <1>5 DEF SkipItem, LeaveOpen, Throws, Results, Verdicts, Paid
  <2>3. pay[runner.next] \in Verdicts \cup {"none", "open"} /\ runner.next \in Slots
    BY <1>1, <2>2 DEF InOrder
  <2> QED
    BY <1>3, <2>1, <2>2, <2>3, ResultKeeps
<1>6. ASSUME NEW verdict \in Verdicts, EndPayout(verdict) PROVE BatchIInv'
  BY <1>6, ResultKeeps DEF EndPayout, Results
<1>7. CASE Heartbeat
  <2>1. /\ runner.pc = "beat" /\ batch' = [batch EXCEPT !.beat = 0]
        /\ runner' = [runner EXCEPT !.pc = IF runner.next = Items THEN "finish" ELSE "item",
                                    !.next = runner.next + 1]
        /\ UNCHANGED <<pay, watchdog>> /\ runner.next \in Slots
    BY <1>7 DEF Heartbeat, InOrder
  <2>2. /\ runner'.next = runner.next + 1 /\ runner'.results = runner.results
        /\ runner'.pc = IF runner.next = Items THEN "finish" ELSE "item"
        /\ batch'.status = batch.status
    BY <1>1, <2>1
  <2>3. BatchTypeOK'
    <3>1. runner.next + 1 \in 1..(Items + 1) /\ 0 \in 0..StaleBeat
      BY <2>1 DEF Slots, BatchAssumption
    <3>2. /\ batch' \in [status : Final \cup {"none", "processing"}, beat : 0..StaleBeat]
          /\ runner' \in [pc : {"idle", "item", "paying", "beat", "finish"},
                         next : 1..(Items + 1), results : [Slots -> Results \cup {"none"}]]
      BY <1>1, <2>1, <3>1
    <3> QED
      BY <2>1, <3>2 DEF BatchTypeOK
  <2>4. /\ runner'.pc = "finish" => runner'.next = Items + 1
        /\ runner'.pc # "finish" => runner'.next \in Slots
    BY <2>1, <2>2 DEF Slots, BatchAssumption
  <2>5. ASSUME NEW i \in Slots
        PROVE  /\ (Passed(i))' => Passed(i)
               /\ i > runner'.next \/ i = runner'.next => i > runner.next
    BY <2>1, <2>2 DEF Passed, Slots, BatchAssumption
  <2>6. InOrder'
    BY <2>1, <2>2, <2>4, <2>5 DEF InOrder
  <2> QED
    BY <1>2, <2>1, <2>2, <2>3, <2>6, RunnerMoves DEF CompletedIsPaid, IdleIsGone
<1>8. CASE Finish
  <2>1. /\ runner.pc = "finish" /\ batch' = [batch EXCEPT !.status = FinalStatus(runner.results)]
        /\ runner' = Gone /\ UNCHANGED <<pay, watchdog>>
    BY <1>8 DEF Finish
  <2>2. /\ batch'.status = FinalStatus(runner.results) /\ batch'.status # "none"
        /\ batch'.status \in Final \cup {"processing"}
    BY <1>1, <2>1 DEF FinalStatus, Final
  <2>3. BatchTypeOK'
    BY <1>1, <2>1, <2>2 DEF BatchTypeOK, Gone, NoResults, BatchAssumption
  <2>4. InOrder'
    BY <2>1 DEF InOrder, Gone
  <2>5. ASSUME batch'.status = "completed", NEW i \in Slots PROVE pay'[i] \in Paid
    <3>1. runner.results[i] \notin {"submitted", "failed"}
      BY <2>2, <2>5 DEF FinalStatus, Has
    <3>2. Passed(i)
      BY <2>1 DEF InOrder, Passed, Slots, BatchAssumption
    <3>3. runner.results[i] \in Paid
      BY <1>1, <2>1, <3>1, <3>2 DEF InOrder, Results, Verdicts
    <3> QED
      BY <2>1, <3>3 DEF InOrder
  <2>6. batch'.status = "completed" => CompletedIsPaid'
    BY <2>5 DEF CompletedIsPaid
  <2> QED
    BY <2>1, <2>2, <2>3, <2>4, <2>6, RunnerMoves DEF IdleIsGone
<1>9. CASE RunnerCrash
  <2>1. /\ runner.pc # "idle" /\ runner' = Gone /\ UNCHANGED <<batch, pay, watchdog>>
    BY <1>9 DEF RunnerCrash
  <2>2. BatchTypeOK' /\ InOrder'
    BY <2>1 DEF BatchTypeOK, Gone, NoResults, BatchAssumption, InOrder
  <2> QED
    BY <1>2, <2>1, <2>2, RunnerMoves DEF CompletedIsPaid, IdleIsGone
<1> QED
  BY <1>4, <1>5, <1>6, <1>7, <1>8, <1>9 DEF RunnerStep

-----------------------------------------------------------------------------
(* The other steps. *)

\* A batch is created.
LEMMA CreateKeeps ==
  ASSUME BatchAssumption, BatchIInv, Create
  PROVE  BatchIInv'
<1> USE DEF BatchIInv
<1>1. /\ batch.status = "none" /\ batch' = [status |-> "processing", beat |-> 0]
      /\ runner' = [pc |-> "item", next |-> 1, results |-> NoResults]
      /\ UNCHANGED <<pay, watchdog>> /\ watchdog = NoSweep
      /\ \A i \in Slots : pay[i] = "none"
  BY DEF Create, Gone, NotBegun
<1>2. 0 \in 0..StaleBeat /\ 1 \in 1..(Items + 1) /\ 1 \in Slots
  BY DEF BatchAssumption, Slots
<1>3. BatchTypeOK'
  BY <1>1, <1>2 DEF BatchTypeOK, NoResults
<1>4. \A i \in Slots : ~Passed(i)'
  BY <1>1 DEF Passed, Slots
<1>5. \A i \in Slots : runner'.results[i] \notin Paid
  BY <1>1 DEF NoResults, Paid
<1>6. InOrder'
  BY <1>1, <1>2, <1>4, <1>5 DEF InOrder
<1>7. NotBegun' /\ CountHolds' /\ CompletedIsPaid' /\ IdleIsGone'
  BY <1>1 DEF NotBegun, CountHolds, CompletedIsPaid, IdleIsGone, NoSweep
<1> QED
  BY <1>3, <1>6, <1>7

\* The watchdog settles a payment that no request is at.
LEMMA SettleKeeps ==
  ASSUME BatchAssumption, BatchIInv, NEW n \in Slots, SettlePayment(n)
  PROVE  BatchIInv'
<1> USE DEF BatchIInv
<1>1. PICK verdict \in Verdicts : pay' = [pay EXCEPT ![n] = verdict]
  BY DEF SettlePayment
<1>2. /\ pay[n] = "open" /\ watchdog = NoSweep
      /\ batch' = batch /\ runner' = runner /\ watchdog' = watchdog
      /\ ~(runner.pc = "paying" /\ runner.next = n)
  BY DEF SettlePayment
<1>3. BatchTypeOK'
  BY <1>1, <1>2 DEF BatchTypeOK
<1>4. /\ pay'[n] = verdict /\ \A j \in Slots : j # n => pay'[j] = pay[j]
  BY <1>1 DEF BatchTypeOK
<1>5. \A j \in Slots : /\ pay[j] \in Paid => pay'[j] \in Paid
                       /\ pay[j] = "none" => pay'[j] = "none"
  BY <1>2, <1>4 DEF Paid
<1>6. InOrder'
  <2>1. runner.pc = "paying" => runner.next \in Slots /\ pay[runner.next] = "open"
    BY DEF InOrder
  <2>2. runner.pc = "paying" => pay'[runner.next] = "open"
    BY <1>2, <1>4, <2>1
  <2>3. ASSUME runner.pc # "idle", NEW j \in Slots
        PROVE  /\ Passed(j)' => runner'.results[j] # "none"
               /\ runner'.results[j] \in Paid => pay'[j] \in Paid
               /\ j > runner'.next \/ (j = runner'.next /\ runner'.pc = "item") => pay'[j] = "none"
    BY <1>2, <1>5, <2>3 DEF InOrder, Passed
  <2>4. runner.pc # "idle" => /\ runner.pc # "finish" => runner.next \in Slots
                              /\ runner.pc = "finish" => runner.next = Items + 1
    BY DEF InOrder
  <2> HIDE DEF BatchIInv
  <2> QED
    BY <1>2, <2>2, <2>3, <2>4 DEF InOrder, Passed
<1>7. batch.status # "none" /\ watchdog'.pc = "asleep"
  <2>1. ~(\A j \in Slots : pay[j] = "none")
    BY <1>2
  <2> QED
    BY <1>2, <2>1 DEF NotBegun, NoSweep
<1>8. NotBegun' /\ CountHolds' /\ CompletedIsPaid' /\ IdleIsGone'
  BY <1>2, <1>5, <1>7 DEF NotBegun, CountHolds, CompletedIsPaid, IdleIsGone
<1> QED
  BY <1>3, <1>6, <1>8

\* The watchdog's steps.
LEMMA WatchdogKeeps ==
  ASSUME BatchAssumption, BatchIInv, SelectBatch \/ Count \/ Rule \/ SweepAbort
  PROVE  BatchIInv'
<1> USE DEF BatchIInv
<1>1. /\ UNCHANGED <<pay, runner>>
      /\ watchdog \in {NoSweep} \cup [pc : {"count"}, dead : BOOLEAN]
                       \cup [pc : {"write"}, dead : BOOLEAN, status : Final]
  BY DEF SelectBatch, Count, Rule, SweepAbort, BatchTypeOK
<1>2. CASE SelectBatch
  <2>1. /\ watchdog' = [pc |-> "count", dead |-> runner.pc = "idle"] /\ UNCHANGED batch
        /\ batch.status = "processing" /\ \A i \in Slots : pay[i] # "open"
    BY <1>2 DEF SelectBatch, Stale
  <2>2. watchdog'.pc = "count" /\ (watchdog'.dead <=> runner.pc = "idle")
    BY <2>1
  <2>3. runner.pc = "idle" => runner = Gone
    BY DEF IdleIsGone
  <2>4. BatchTypeOK'
    BY <1>1, <2>1 DEF BatchTypeOK
  <2>5. NotBegun' /\ CountHolds' /\ CompletedIsPaid' /\ InOrder' /\ IdleIsGone'
    BY <1>1, <2>1, <2>2, <2>3
    DEF NotBegun, CountHolds, CompletedIsPaid, InOrder, Passed, IdleIsGone
  <2> QED
    BY <2>4, <2>5
<1>3. CASE Count
  <2>1. /\ watchdog' = [pc |-> "write", dead |-> watchdog.dead, status |-> TrueStatus]
        /\ UNCHANGED batch /\ watchdog.pc = "count" /\ watchdog.dead \in BOOLEAN
    BY <1>1, <1>3 DEF Count, NoSweep
  <2>2. /\ watchdog'.pc = "write" /\ watchdog'.status = TrueStatus
        /\ watchdog'.dead = watchdog.dead
    BY <2>1
  <2>3. TrueStatus' = TrueStatus
    BY <1>1 DEF TrueStatus
  <2>4. BatchTypeOK'
    BY <1>1, <2>1, TrueStatusSays DEF BatchTypeOK
  <2>5. watchdog # NoSweep
    BY <2>1 DEF NoSweep
  <2>6. NotBegun' /\ CompletedIsPaid' /\ InOrder' /\ IdleIsGone'
    BY <1>1, <2>1, <2>5 DEF NotBegun, CompletedIsPaid, InOrder, Passed, IdleIsGone
  <2>7. CountHolds'
    BY <1>1, <2>1, <2>2, <2>3, TrueStatusSays DEF CountHolds
  <2> QED
    BY <2>4, <2>6, <2>7
<1>4. CASE Rule
  <2>1. /\ watchdog.pc = "write" /\ watchdog' = NoSweep
        /\ \/ batch.status = "processing" /\ batch' = [batch EXCEPT !.status = watchdog.status]
           \/ UNCHANGED batch
    BY <1>4 DEF Rule
  <2>2. watchdog.status \in Final /\ watchdog # NoSweep
    BY <1>1, <2>1 DEF NoSweep
  <2>3. BatchTypeOK'
    BY <1>1, <2>1, <2>2 DEF BatchTypeOK
  <2>4. /\ batch'.status \in {batch.status, watchdog.status} /\ batch'.status # "none"
        /\ batch'.status = "completed" => batch.status = "completed" \/ watchdog.status = "completed"
    BY <2>1, <2>2 DEF BatchTypeOK, Final, NotBegun
  <2>5. CompletedIsPaid'
    BY <1>1, <2>1, <2>4 DEF CompletedIsPaid, CountHolds
  <2>6. NotBegun' /\ CountHolds' /\ InOrder' /\ IdleIsGone'
    BY <1>1, <2>1, <2>4 DEF NotBegun, CountHolds, InOrder, Passed, IdleIsGone, NoSweep
  <2> QED
    BY <2>3, <2>5, <2>6
<1>5. CASE SweepAbort
  <2>1. watchdog' = NoSweep /\ UNCHANGED batch
    BY <1>5 DEF SweepAbort
  <2> QED
    BY <1>1, <2>1 DEF BatchTypeOK, NotBegun, CountHolds, CompletedIsPaid, InOrder, Passed,
                      IdleIsGone, NoSweep
<1> QED
  BY <1>2, <1>3, <1>4, <1>5

\* A minute passes.
LEMMA MinuteKeeps ==
  ASSUME BatchAssumption, BatchIInv, Minute
  PROVE  BatchIInv'
<1> USE DEF BatchIInv
<1>1. /\ batch.beat < StaleBeat /\ batch' = [batch EXCEPT !.beat = batch.beat + 1]
      /\ UNCHANGED <<pay, runner, watchdog>>
  BY DEF Minute
<1>2. batch.beat + 1 \in 0..StaleBeat /\ batch'.status = batch.status
  BY <1>1 DEF BatchTypeOK, BatchAssumption
<1>3. BatchTypeOK'
  BY <1>1, <1>2 DEF BatchTypeOK
<1>4. TrueStatus' = TrueStatus
  BY <1>1 DEF TrueStatus
<1> QED
  BY <1>1, <1>2, <1>3, <1>4 DEF NotBegun, CountHolds, CompletedIsPaid, InOrder, Passed, IdleIsGone

-----------------------------------------------------------------------------

\* Every step.
LEMMA BatchStep ==
  ASSUME BatchIInv, [BatchNext]_batchVars
  PROVE  BatchIInv'
<1>1. CASE UNCHANGED batchVars
  <2>1. TrueStatus' = TrueStatus
    BY <1>1 DEF batchVars, TrueStatus
  <2> QED
    BY <1>1, <2>1 DEF batchVars, BatchIInv, BatchTypeOK, NotBegun, CountHolds, CompletedIsPaid, InOrder,
                      Passed, IdleIsGone
<1>2. CASE BatchNext
  BY <1>2, BatchAssumption, CreateKeeps, RunnerKeeps, SettleKeeps, WatchdogKeeps, MinuteKeeps
  DEF BatchNext
<1> QED
  BY <1>1, <1>2

\* The inductive invariant of Batch holds in every behaviour.
LEMMA BatchInvariant == BatchSpec => []BatchIInv
BY BatchAssumption, BatchStarts, BatchStep, PTL DEF BatchSpec

\* The stored state keeps its types, for any number of items: no heartbeat runs past
\* the limit and the request never comes to an item that the batch does not have.
THEOREM TypeCorrect == BatchSpec => []BatchTypeOK
<1>1. BatchIInv => BatchTypeOK
  BY DEF BatchIInv
<1> QED
  BY <1>1, BatchInvariant, PTL

\* Whoever wrote "completed", the request from its results (app.ts:700-702) or the
\* watchdog from the payments' rows (scheduler.ts:259): every worker was paid.
THEOREM CompletedMeansPaid == BatchSpec => []CompletedIsPaid
<1>1. BatchIInv => CompletedIsPaid
  BY DEF BatchIInv
<1> QED
  BY <1>1, BatchInvariant, PTL

\* Once the request of a stale batch is dead nothing moves any more: what the
\* watchdog counted is true when it writes it.
THEOREM DeadAreRuledByTruth == BatchSpec => RuledByTruth
<1> DEFINE A == Rule /\ watchdog.dead /\ batch' # batch =>
                  /\ batch'.status = "completed" <=> \A i \in Slots : pay[i] \in Paid
                  /\ batch'.status = "failed" <=> \A i \in Slots : pay[i] \notin Paid
<1>1. BatchIInv /\ [BatchNext]_batchVars => [A]_batchVars
  <2>1. ASSUME BatchIInv, Rule, watchdog.dead, batch' # batch
        PROVE  /\ batch'.status = "completed" <=> \A i \in Slots : pay[i] \in Paid
               /\ batch'.status = "failed" <=> \A i \in Slots : pay[i] \notin Paid
    <3>1. watchdog.pc = "write" /\ watchdog.status = TrueStatus
      BY <2>1 DEF Rule, BatchIInv, CountHolds
    <3>2. batch'.status = TrueStatus
      BY <2>1, <3>1 DEF Rule, BatchIInv, BatchTypeOK
    <3> QED
      BY <3>2, BatchAssumption, TrueStatusSays
  <2> QED
    BY <2>1
<1> QED
  BY <1>1, BatchInvariant, PTL DEF BatchSpec, RuledByTruth

-----------------------------------------------------------------------------
(* Cashout. *)

(* The inductive invariant. *)

Last(t)    == payments[t][Len(payments[t])]
AllDead(t) == \A i \in DOMAIN payments[t] : payments[t][i] = "dead"
Arrived(t) == payments[t] # <<>> /\ Last(t) = "landed"

Types ==
  /\ record \in [Txs -> Records]
  /\ rows \in [Txs -> [status : {"none", "pending", "completed", "failed"}, paid : BOOLEAN]]
  /\ payments \in [Txs -> Seq(Fates)]
  /\ requests \in [Requests ->
       [pc : {"take", "pay", "wait", "persist", "fail"}, tx : Txs] \cup {NoRequest}]
  /\ polls \in [Txs -> {"off", "on"} \cup Records]
  /\ sweep \in {Asleep} \cup [pc : {"list"}, todo : SUBSET Txs]
               \cup [pc : {"apply"}, todo : SUBSET Txs, seen : [Txs -> Records]]

\* Only the last payment of a transaction can be alive.  It has landed when the row
\* knows it, and none is alive when the row is free for another attempt.
RowMatches(t) ==
  /\ \A i \in DOMAIN payments[t] : i < Len(payments[t]) => payments[t][i] = "dead"
  /\ IF rows[t].paid
     THEN Arrived(t) /\ rows[t].status # "none"
     ELSE rows[t].status # "pending" => AllDead(t) /\ rows[t].status # "completed"
  /\ rows[t].status = "completed" => record[t] # "awaiting_funds"

\* A request that has taken a row has it to itself, until it records how it ended.
Working(r) == requests[r] # NoRequest /\ requests[r].pc # "take"

RequestMatches(r) ==
  LET t == requests[r].tx
  IN  /\ rows[t].status = "pending" /\ ~rows[t].paid
      /\ \A s \in Requests : Working(s) /\ requests[s].tx = t => s = r
      /\ requests[r].pc \in {"pay", "fail"} => AllDead(t)
      /\ requests[r].pc = "wait" => payments[t] # <<>>
      /\ requests[r].pc = "persist" => Arrived(t)

\* The poller and the sweep are only at rows that are paid; MoneyGram goes on from
\* what they have read of it, never back.
Acknowledged(t, rec) == rec = "processing" => record[t] # "awaiting_funds"

PollMatches(t) == polls[t] # "off" => rows[t].paid /\ Acknowledged(t, polls[t])

SweepMatches ==
  sweep # Asleep => \A t \in sweep.todo :
    rows[t].paid /\ (sweep.pc = "apply" => Acknowledged(t, sweep.seen[t]))

CashoutIInv ==
  /\ Types
  /\ \A t \in Txs : RowMatches(t)
  /\ \A r \in Requests : Working(r) => RequestMatches(r)
  /\ \A t \in Txs : PollMatches(t)
  /\ SweepMatches

-----------------------------------------------------------------------------
(* Facts about the payments, and what a step leaves alone. *)

\* What the provers need to know of a sequence of payments.
LEMMA SeqFacts ==
  ASSUME NEW s \in Seq(Fates)
  PROVE  /\ Len(s) \in Nat /\ DOMAIN s = 1..Len(s)
         /\ \A i \in DOMAIN s : s[i] \in Fates
         /\ s # <<>> => Len(s) \in DOMAIN s
  OBVIOUS

\* A transaction whose payments a step leaves alone is as dead, or as paid, as before.
LEMMA SamePayments ==
  ASSUME NEW t, payments'[t] = payments[t]
  PROVE  AllDead(t)' = AllDead(t) /\ Arrived(t)' = Arrived(t)
BY DEF AllDead, Arrived, Last

\* A row that a step leaves alone.
LEMMA RowStays ==
  ASSUME NEW t, RowMatches(t), rows'[t] = rows[t], payments'[t] = payments[t],
         record[t] # "awaiting_funds" => record'[t] # "awaiting_funds"
  PROVE  RowMatches(t)'
<1>1. AllDead(t)' = AllDead(t) /\ Arrived(t)' = Arrived(t)
  BY SamePayments
<1> QED
  BY <1>1 DEF RowMatches

\* A request that a step leaves alone.
LEMMA RequestStays ==
  ASSUME NEW s \in Requests, RequestMatches(s), requests'[s] = requests[s],
         NEW t, t = requests[s].tx, rows'[t] = rows[t], payments'[t] = payments[t],
         \A q \in Requests : Working(q)' /\ requests'[q].tx = t => q = s
  PROVE  RequestMatches(s)'
<1>1. AllDead(t)' = AllDead(t) /\ Arrived(t)' = Arrived(t)
  BY SamePayments
<1>2. /\ rows[t].status = "pending" /\ ~rows[t].paid
      /\ requests[s].pc \in {"pay", "fail"} => AllDead(t)
      /\ requests[s].pc = "wait" => payments[t] # <<>>
      /\ requests[s].pc = "persist" => Arrived(t)
  BY DEF RequestMatches
<1>3. /\ rows'[t].status = "pending" /\ ~rows'[t].paid
      /\ requests'[s].pc \in {"pay", "fail"} => AllDead(t)'
      /\ requests'[s].pc = "wait" => payments'[t] # <<>>
      /\ requests'[s].pc = "persist" => Arrived(t)'
  BY <1>1, <1>2
<1>4. requests'[s].tx = t
  OBVIOUS
<1> QED
  BY <1>3, <1>4 DEF RequestMatches, AllDead, Arrived, Last

\* The poller and the sweep, when no paid row is unpaid and no record goes back.
LEMMA SyncStays ==
  ASSUME CashoutIInv, UNCHANGED <<polls, sweep>>,
         \A t \in Txs : rows[t].paid => rows'[t].paid,
         \A t \in Txs : record[t] # "awaiting_funds" => record'[t] # "awaiting_funds"
  PROVE  (\A t \in Txs : PollMatches(t)') /\ SweepMatches'
<1>1. \A t \in Txs : PollMatches(t)'
  BY DEF CashoutIInv, PollMatches, Acknowledged
<1>2. sweep # Asleep => sweep.todo \subseteq Txs
  BY DEF CashoutIInv, Types
<1>3. SweepMatches'
  BY <1>2 DEF CashoutIInv, SweepMatches, Acknowledged
<1> QED
  BY <1>1, <1>3

\* What is known of a request at work.
LEMMA WorkingAt ==
  ASSUME CashoutIInv, NEW r \in Requests, Working(r)
  PROVE  /\ requests[r].tx \in Txs /\ RequestMatches(r)
         /\ requests[r] \in [pc : {"take", "pay", "wait", "persist", "fail"}, tx : Txs]
BY DEF CashoutIInv, Types, Working

-----------------------------------------------------------------------------
(* The steps of a request. *)

\* It goes on, to a place that fits what has become of its payments, or ends.
LEMMA RequestMoves ==
  ASSUME CashoutIInv, NEW r \in Requests,
         NEW next \in [pc : {"take", "pay", "wait", "persist", "fail"}, tx : Txs] \cup {NoRequest},
         requests' = [requests EXCEPT ![r] = next],
         UNCHANGED <<record, rows, payments, polls, sweep>>,
         next # NoRequest /\ next.pc # "take" =>
           /\ Working(r) /\ next.tx = requests[r].tx
           /\ next.pc \in {"pay", "fail"} => AllDead(next.tx)
           /\ next.pc = "wait" => payments[next.tx] # <<>>
           /\ next.pc = "persist" => Arrived(next.tx)
  PROVE  CashoutIInv'
<1>1. Types'
  BY DEF CashoutIInv, Types
<1>2. \A t \in Txs : RowMatches(t)'
  BY RowStays DEF CashoutIInv
<1>3. /\ requests'[r] = next
      /\ \A s \in Requests : s # r => requests'[s] = requests[s]
  BY DEF CashoutIInv, Types
<1>4. \A s \in Requests : Working(s)' => Working(s) /\ requests'[s].tx = requests[s].tx
  BY <1>3 DEF Working
<1>5. ASSUME NEW s \in Requests, Working(s)' PROVE RequestMatches(s)'
  <2>1. Working(s) /\ RequestMatches(s) /\ requests[s].tx \in Txs
    BY <1>4, <1>5, WorkingAt
  <2>2. \A q \in Requests : Working(q)' /\ requests'[q].tx = requests[s].tx => q = s
    BY <1>4, <2>1 DEF RequestMatches
  <2>3. CASE s # r
    BY <1>3, <2>1, <2>2, <2>3, RequestStays
  <2>4. CASE s = r
    <3>1. next # NoRequest /\ next.pc # "take"
      BY <1>3, <1>5, <2>4 DEF Working
    <3> QED
      BY <1>3, <2>1, <2>2, <2>4, <3>1 DEF RequestMatches, AllDead, Arrived, Last
  <2> QED
    BY <2>3, <2>4
<1>6. (\A t \in Txs : PollMatches(t)') /\ SweepMatches'
  BY SyncStays
<1> QED
  BY <1>1, <1>2, <1>5, <1>6 DEF CashoutIInv

\* It writes a row that is not paid: it takes it, or records how its payment ended.
LEMMA RowWritten ==
  ASSUME CashoutIInv, Types', NEW r \in Requests, NEW t \in Txs,
         \A u \in Txs : u # t => rows'[u] = rows[u] /\ polls'[u] = polls[u],
         \A s \in Requests : s # r => requests'[s] = requests[s],
         UNCHANGED <<record, payments, sweep>>,
         polls'[t] = polls[t] \/ (rows'[t].paid /\ polls'[t] = "on"),
         ~rows[t].paid, rows'[t].status \in {"pending", "failed"},
         rows'[t].paid => Arrived(t),
         ~rows'[t].paid /\ rows'[t].status = "failed" => AllDead(t),
         Working(r) => requests[r].tx = t,
         \A s \in Requests : Working(s) /\ requests[s].tx = t => s = r,
         requests'[r] # NoRequest =>
           /\ requests'[r].tx = t /\ requests'[r].pc = "pay"
           /\ rows'[t].status = "pending" /\ ~rows'[t].paid /\ AllDead(t)
  PROVE  CashoutIInv'
<1>2. polls[t] = "off"
  BY DEF CashoutIInv, PollMatches
<1>3. ASSUME NEW u \in Txs PROVE RowMatches(u)'
  <2>1. RowMatches(u)
    BY DEF CashoutIInv
  <2>2. CASE u # t
    BY <1>2, <2>1, <2>2, RowStays
  <2>3. CASE u = t
    <3>1. AllDead(t)' = AllDead(t) /\ Arrived(t)' = Arrived(t)
      BY SamePayments
    <3> QED
      BY <2>1, <2>3, <3>1 DEF RowMatches
  <2> QED
    BY <2>2, <2>3
<1>4. ASSUME NEW s \in Requests, Working(s)' PROVE RequestMatches(s)'
  <2>1. CASE s = r
    <3>1. requests'[r] # NoRequest
      BY <1>2, <1>4, <2>1 DEF Working
    <3>2. \A q \in Requests : Working(q)' /\ requests'[q].tx = t => q = r
      BY <1>2 DEF Working
    <3> QED
      BY <1>2, <2>1, <3>1, <3>2 DEF RequestMatches, AllDead
  <2>2. CASE s # r
    <3>1. requests'[s] = requests[s] /\ Working(s)
      BY <1>2, <1>4, <2>2 DEF Working
    <3>2. RequestMatches(s) /\ requests[s].tx \in Txs /\ requests[s].tx # t
      BY <2>2, <3>1, WorkingAt
    <3>3. ASSUME NEW q \in Requests, Working(q)', requests'[q].tx = requests[s].tx
          PROVE  q = s
      <4>1. CASE q = r
        BY <1>2, <3>2, <3>3, <4>1 DEF Working
      <4>2. CASE q # r
        BY <1>2, <3>2, <3>3, <4>2 DEF Working, RequestMatches
      <4> QED
        BY <4>1, <4>2
    <3> QED
      BY <1>2, <3>1, <3>2, <3>3, RequestStays
  <2> QED
    BY <2>1, <2>2
<1>5. \A u \in Txs : PollMatches(u)'
  BY <1>2 DEF CashoutIInv, PollMatches, Acknowledged
<1>6. SweepMatches'
  <2>1. sweep # Asleep => sweep.todo \subseteq Txs
    BY DEF CashoutIInv, Types
  <2> QED
    BY <1>2, <2>1 DEF CashoutIInv, SweepMatches, Acknowledged
<1> QED
  BY <1>3, <1>4, <1>5, <1>6 DEF CashoutIInv

\* One more payment is submitted.
LEMMA PayKeeps ==
  ASSUME CashoutIInv, NEW r \in Requests, Pay(r)
  PROVE  CashoutIInv'
<1>1. Working(r)
  BY DEF Pay, At, Working
<1>2. PICK t \in Txs : t = requests[r].tx
  BY <1>1, WorkingAt
<1>3. /\ RequestMatches(r) /\ AllDead(t) /\ rows[t].status = "pending" /\ ~rows[t].paid
      /\ requests[r] \in [pc : {"take", "pay", "wait", "persist", "fail"}, tx : Txs]
  BY <1>1, <1>2, WorkingAt DEF RequestMatches, Pay, At
<1>4. /\ payments' = [payments EXCEPT ![t] = Append(payments[t], "flying")]
      /\ requests' = [requests EXCEPT ![r].pc = "wait"]
      /\ UNCHANGED <<record, rows, polls, sweep>>
  BY <1>2 DEF Pay, Become
<1>5. /\ payments \in [Txs -> Seq(Fates)] /\ payments[t] \in Seq(Fates)
      /\ requests \in [Requests ->
            [pc : {"take", "pay", "wait", "persist", "fail"}, tx : Txs] \cup {NoRequest}]
  BY DEF CashoutIInv, Types
<1>6. /\ payments'[t] = Append(payments[t], "flying")
      /\ \A u \in Txs : u # t => payments'[u] = payments[u]
      /\ requests'[r] = [requests[r] EXCEPT !.pc = "wait"]
      /\ requests'[r].pc = "wait" /\ requests'[r].tx = t
      /\ \A s \in Requests : s # r => requests'[s] = requests[s]
  BY <1>2, <1>3, <1>4, <1>5
<1>7. /\ payments'[t] \in Seq(Fates) /\ payments'[t] # <<>>
      /\ Len(payments'[t]) = Len(payments[t]) + 1
      /\ \A i \in DOMAIN payments'[t] :
           i < Len(payments'[t]) => payments'[t][i] = "dead"
  <2>1. /\ Append(payments[t], "flying") \in Seq(Fates)
        /\ Append(payments[t], "flying") # <<>>
        /\ Len(Append(payments[t], "flying")) = Len(payments[t]) + 1
        /\ DOMAIN Append(payments[t], "flying") = 1..(Len(payments[t]) + 1)
        /\ \A i \in 1..Len(payments[t]) : Append(payments[t], "flying")[i] = payments[t][i]
    BY <1>5 DEF Fates
  <2>2. Len(payments[t]) \in Nat /\ DOMAIN payments[t] = 1..Len(payments[t])
    BY <1>5, SeqFacts
  <2>3. \A i \in 1..Len(payments[t]) : Append(payments[t], "flying")[i] = "dead"
    BY <1>3, <2>1, <2>2 DEF AllDead
  <2>4. \A i \in 1..(Len(payments[t]) + 1) : i < Len(payments[t]) + 1 => i \in 1..Len(payments[t])
    BY <2>2
  <2> QED
    BY <1>6, <2>1, <2>3, <2>4
<1>8. Types'
  <2>1. requests'[r] \in [pc : {"take", "pay", "wait", "persist", "fail"}, tx : Txs]
    BY <1>3, <1>6
  <2>2. payments' \in [Txs -> Seq(Fates)]
    BY <1>4, <1>5, <1>6, <1>7
  <2>3. requests' \in [Requests ->
          [pc : {"take", "pay", "wait", "persist", "fail"}, tx : Txs] \cup {NoRequest}]
    BY <1>4, <1>5, <1>6, <2>1
  <2> QED
    BY <1>4, <2>2, <2>3 DEF CashoutIInv, Types
<1>9. ASSUME NEW u \in Txs PROVE RowMatches(u)'
  <2>1. CASE u # t
    BY <1>4, <1>6, <2>1, RowStays DEF CashoutIInv
  <2>2. CASE u = t
    BY <1>3, <1>4, <1>7, <2>2 DEF RowMatches
  <2> QED
    BY <2>1, <2>2
<1>10. ASSUME NEW s \in Requests, Working(s)' PROVE RequestMatches(s)'
  <2>1. \A q \in Requests : Working(q)' => Working(q) /\ requests'[q].tx = requests[q].tx
    BY <1>1, <1>2, <1>6 DEF Working
  <2>2. Working(s) /\ RequestMatches(s) /\ requests[s].tx \in Txs
    BY <1>10, <2>1, WorkingAt
  <2>3. \A q \in Requests : Working(q)' /\ requests'[q].tx = requests[s].tx => q = s
    BY <2>1, <2>2 DEF RequestMatches
  <2>4. CASE s = r
    BY <1>2, <1>3, <1>4, <1>6, <1>7, <2>3, <2>4 DEF RequestMatches
  <2>5. CASE s # r
    <3>1. requests[s].tx # t
      BY <1>1, <1>2, <2>2, <2>5 DEF RequestMatches
    <3> QED
      BY <1>4, <1>6, <2>2, <2>3, <2>5, <3>1, RequestStays
  <2> QED
    BY <2>4, <2>5
<1>11. (\A u \in Txs : PollMatches(u)') /\ SweepMatches'
  BY <1>4, SyncStays
<1> QED
  BY <1>8, <1>9, <1>10, <1>11 DEF CashoutIInv

\* Horizon's answer is the fate of the one payment that the request has sent.
LEMMA AnsweredKeeps ==
  ASSUME ~Silent, CashoutIInv, NEW r \in Requests, Answered(r)
  PROVE  CashoutIInv'
<1>1. Working(r)
  BY DEF Answered, At, Working
<1>2. PICK t \in Txs : t = requests[r].tx
  BY <1>1, WorkingAt
<1>3. /\ RequestMatches(r) /\ RowMatches(t) /\ payments[t] \in Seq(Fates)
      /\ requests[r] \in [pc : {"take", "pay", "wait", "persist", "fail"}, tx : Txs]
      /\ payments[t] # <<>>
  BY <1>1, <1>2, WorkingAt DEF CashoutIInv, Types, Answered, At, RequestMatches
<1>4. Len(payments[t]) \in Nat /\ DOMAIN payments[t] = 1..Len(payments[t])
  BY <1>3, SeqFacts
<1>5. Sent(r) = Last(t)
  BY <1>2 DEF Sent, Last
<1>6. ASSUME Sent(r) = "dead" PROVE AllDead(t)
  <2>1. \A i \in DOMAIN payments[t] : i < Len(payments[t]) => payments[t][i] = "dead"
    BY <1>3 DEF RowMatches
  <2>2. \A i \in DOMAIN payments[t] : i < Len(payments[t]) \/ i = Len(payments[t])
    BY <1>4
  <2> QED
    BY <1>5, <1>6, <2>1, <2>2 DEF AllDead, Last
<1>7. Sent(r) = "landed" => Arrived(t)
  BY <1>3, <1>5 DEF Arrived
<1>8. PICK pc \in {"persist", "fail"} :
        /\ Become(r, pc) /\ UNCHANGED <<record, rows, payments, polls, sweep>>
        /\ pc = "persist" => Sent(r) = "landed"
        /\ pc = "fail" => Sent(r) = "dead"
  BY DEF Answered
<1> DEFINE next == [requests[r] EXCEPT !.pc = pc]
<1>9. /\ next \in [pc : {"take", "pay", "wait", "persist", "fail"}, tx : Txs]
      /\ next.pc = pc /\ next.tx = t
  BY <1>2, <1>3
<1>10. requests' = [requests EXCEPT ![r] = next]
  BY <1>8 DEF Become
<1> HIDE DEF next
<1> QED
  BY <1>1, <1>2, <1>6, <1>7, <1>8, <1>9, <1>10, RequestMoves

\* Every step of a request keeps the invariant.
LEMMA RequestKeeps ==
  ASSUME ~Silent, CashoutIInv, NEW r \in Requests, RequestStep(r)
  PROVE  CashoutIInv'
<1>1. /\ requests \in [Requests ->
            [pc : {"take", "pay", "wait", "persist", "fail"}, tx : Txs] \cup {NoRequest}]
      /\ rows \in [Txs -> [status : {"none", "pending", "completed", "failed"}, paid : BOOLEAN]]
  BY DEF CashoutIInv, Types
<1>2. requests[r] # NoRequest
  BY DEF RequestStep, Take, Pay, CannotPay, Answered, Persist, RecordFailure, Abandon, At
<1>3. PICK t \in Txs : t = requests[r].tx
  BY <1>1, <1>2
<1>4. requests[r] \in [pc : {"take", "pay", "wait", "persist", "fail"}, tx : Txs]
  BY <1>1, <1>2
<1>5. ASSUME requests[r].pc # "take"
      PROVE  /\ Working(r) /\ RequestMatches(r) /\ rows[t].status = "pending" /\ ~rows[t].paid
             /\ \A s \in Requests : Working(s) /\ requests[s].tx = t => s = r
  BY <1>2, <1>3, <1>5, WorkingAt DEF Working, RequestMatches
<1>6. CASE Take(r)
  <2>1. /\ requests[r].pc = "take" /\ ~Working(r)
        /\ UNCHANGED <<record, payments, polls, sweep>>
    BY <1>6 DEF Take, At, Working
  <2>2. CASE Takeable(rows[t])
    <3> DEFINE row  == [rows[t] EXCEPT !.status = "pending"]
               next == [requests[r] EXCEPT !.pc = "pay"]
    <3>1. rows' = [rows EXCEPT ![t] = row] /\ requests' = [requests EXCEPT ![r] = next]
      BY <1>3, <1>6, <2>2 DEF Take, Become
    <3>2. /\ ~rows[t].paid /\ rows[t].status \in {"none", "failed"} /\ AllDead(t)
      BY <2>2 DEF Takeable, CashoutIInv, RowMatches
    <3>3. /\ row \in [status : {"none", "pending", "completed", "failed"}, paid : BOOLEAN]
          /\ row.status = "pending" /\ ~row.paid
      BY <1>1, <3>2
    <3>4. /\ next \in [pc : {"take", "pay", "wait", "persist", "fail"}, tx : Txs]
          /\ next.pc = "pay" /\ next.tx = t
      BY <1>3, <1>4
    <3>5. \A s \in Requests : Working(s) /\ requests[s].tx = t => s = r
      BY <3>2, WorkingAt DEF RequestMatches
    <3> HIDE DEF row, next
    <3>6. rows'[t] = row /\ requests'[r] = next
      BY <1>1, <3>1
    <3>7. Types'
      BY <2>1, <3>1, <3>3, <3>4 DEF CashoutIInv, Types
    <3>8. /\ \A u \in Txs : u # t => rows'[u] = rows[u] /\ polls'[u] = polls[u]
          /\ \A s \in Requests : s # r => requests'[s] = requests[s]
      BY <1>1, <2>1, <3>1
    <3> QED
      BY <2>1, <3>2, <3>3, <3>4, <3>5, <3>6, <3>7, <3>8, RowWritten
  <2>3. CASE ~Takeable(rows[t])
    <3>1. requests' = [requests EXCEPT ![r] = NoRequest] /\ UNCHANGED rows
      BY <1>3, <1>6, <2>3 DEF Take, End
    <3> QED
      BY <2>1, <3>1, RequestMoves
  <2> QED
    BY <2>2, <2>3
<1>7. CASE Pay(r)
  BY <1>7, PayKeeps
<1>8. CASE CannotPay(r)
  <2> DEFINE next == [requests[r] EXCEPT !.pc = "fail"]
  <2>1. /\ next \in [pc : {"take", "pay", "wait", "persist", "fail"}, tx : Txs]
        /\ next.pc = "fail" /\ next.tx = t
    BY <1>3, <1>4
  <2>2. /\ requests[r].pc = "pay" /\ requests' = [requests EXCEPT ![r] = next]
        /\ UNCHANGED <<record, rows, payments, polls, sweep>>
    BY <1>8 DEF CannotPay, At, Become
  <2>3. Working(r) /\ AllDead(t)
    BY <1>3, <1>5, <2>2 DEF RequestMatches
  <2> HIDE DEF next
  <2> QED
    BY <1>3, <2>1, <2>2, <2>3, RequestMoves
<1>9. CASE Answered(r)
  BY <1>9, AnsweredKeeps
<1>10. CASE Persist(r)
  <2> DEFINE row == [rows[t] EXCEPT !.paid = TRUE]
  <2>1. /\ requests[r].pc = "persist" /\ rows' = [rows EXCEPT ![t] = row]
        /\ polls' = [polls EXCEPT ![t] = "on"] /\ requests' = [requests EXCEPT ![r] = NoRequest]
        /\ UNCHANGED <<record, payments, sweep>>
    BY <1>3, <1>10 DEF Persist, At, End
  <2>2. /\ row \in [status : {"none", "pending", "completed", "failed"}, paid : BOOLEAN]
        /\ row.paid /\ row.status = "pending"
    BY <1>1, <1>5, <2>1
  <2>3. /\ Arrived(t) /\ ~rows[t].paid /\ Working(r) /\ requests[r].tx = t
        /\ \A s \in Requests : Working(s) /\ requests[s].tx = t => s = r
    BY <1>3, <1>5, <2>1 DEF RequestMatches
  <2> HIDE DEF row
  <2>4. rows'[t] = row /\ requests'[r] = NoRequest
    BY <1>1, <2>1
  <2>5. Types'
    BY <2>1, <2>2 DEF CashoutIInv, Types
  <2>6. /\ \A u \in Txs : u # t => rows'[u] = rows[u] /\ polls'[u] = polls[u]
        /\ \A s \in Requests : s # r => requests'[s] = requests[s]
    BY <1>1, <2>1 DEF CashoutIInv, Types
  <2>7. polls'[t] = polls[t] \/ (rows'[t].paid /\ polls'[t] = "on")
    BY <2>1, <2>2, <2>4 DEF CashoutIInv, Types
  <2> QED
    BY <2>1, <2>2, <2>3, <2>4, <2>5, <2>6, <2>7, RowWritten
<1>11. CASE RecordFailure(r)
  <2> DEFINE row == [rows[t] EXCEPT !.status = "failed"]
  <2>1. /\ requests[r].pc = "fail" /\ rows' = [rows EXCEPT ![t] = row]
        /\ requests' = [requests EXCEPT ![r] = NoRequest]
        /\ UNCHANGED <<record, payments, polls, sweep>>
    BY <1>3, <1>11 DEF RecordFailure, At, End
  <2>2. /\ row \in [status : {"none", "pending", "completed", "failed"}, paid : BOOLEAN]
        /\ row.status = "failed" /\ ~row.paid
    BY <1>1, <1>5, <2>1
  <2>3. /\ AllDead(t) /\ ~rows[t].paid /\ Working(r) /\ requests[r].tx = t
        /\ \A s \in Requests : Working(s) /\ requests[s].tx = t => s = r
    BY <1>3, <1>5, <2>1 DEF RequestMatches
  <2> HIDE DEF row
  <2>4. rows'[t] = row /\ requests'[r] = NoRequest
    BY <1>1, <2>1
  <2>5. Types'
    BY <2>1, <2>2 DEF CashoutIInv, Types
  <2>6. /\ \A u \in Txs : u # t => rows'[u] = rows[u] /\ polls'[u] = polls[u]
        /\ \A s \in Requests : s # r => requests'[s] = requests[s]
    BY <1>1, <2>1 DEF CashoutIInv, Types
  <2>7. polls'[t] = polls[t] \/ (rows'[t].paid /\ polls'[t] = "on")
    BY <2>1, <2>2, <2>4 DEF CashoutIInv, Types
  <2> QED
    BY <2>1, <2>2, <2>3, <2>4, <2>5, <2>6, <2>7, RowWritten
<1>12. CASE Abandon(r)
  BY <1>12, RequestMoves DEF Abandon, End
<1> QED
  BY <1>6, <1>7, <1>8, <1>9, <1>10, <1>11, <1>12 DEF RequestStep

-----------------------------------------------------------------------------
(* The network, MoneyGram, and the two readers of its records. *)

\* A submission whose fate is decided is the last one, and its request waits for it.
LEMMA DecideKeeps ==
  ASSUME CashoutIInv, NEW t \in Txs, NEW fate \in {"landed", "dead"}, Decide(t, fate)
  PROVE  CashoutIInv'
<1>1. PICK i \in DOMAIN payments[t] :
        /\ payments[t][i] = "flying"
        /\ payments' = [payments EXCEPT ![t] = [payments[t] EXCEPT ![i] = fate]]
        /\ UNCHANGED <<record, rows, requests, polls, sweep>>
  BY DEF Decide
<1>2. /\ payments \in [Txs -> Seq(Fates)] /\ payments[t] \in Seq(Fates) /\ RowMatches(t)
  BY DEF CashoutIInv, Types
<1>3. Len(payments[t]) \in Nat /\ DOMAIN payments[t] = 1..Len(payments[t])
  BY <1>2, SeqFacts
<1>4. i = Len(payments[t])
  <2>1. ~ i < Len(payments[t])
    BY <1>1, <1>2 DEF RowMatches
  <2> QED
    BY <1>1, <1>3, <2>1
<1>5. ~AllDead(t) /\ ~Arrived(t)
  BY <1>1, <1>4 DEF AllDead, Arrived, Last
<1>6. /\ payments'[t] = [payments[t] EXCEPT ![i] = fate]
      /\ \A u \in Txs : u # t => payments'[u] = payments[u]
  BY <1>1, <1>2
<1>7. /\ payments'[t] \in Seq(Fates) /\ payments'[t] # <<>>
      /\ Len(payments'[t]) = Len(payments[t]) /\ DOMAIN payments'[t] = DOMAIN payments[t]
      /\ \A j \in DOMAIN payments[t] : j # i => payments'[t][j] = payments[t][j]
  <2>1. fate \in Fates
    BY DEF Fates
  <2>2. [payments[t] EXCEPT ![i] = fate] \in Seq(Fates)
    BY <1>1, <1>2, <2>1, ExceptSeq
  <2>3. Len([payments[t] EXCEPT ![i] = fate]) = Len(payments[t])
    BY <1>1, <1>2, <2>1, ExceptSeq
  <2>4. DOMAIN payments'[t] = DOMAIN payments[t]
    BY <1>6
  <2>5. payments'[t] # <<>>
    BY <1>1, <1>3, <1>4, <1>6, <2>3
  <2> QED
    BY <1>6, <2>2, <2>3, <2>4, <2>5
<1>8. Types'
  <2>1. payments' \in [Txs -> Seq(Fates)]
    BY <1>1, <1>2, <1>6, <1>7
  <2> QED
    BY <1>1, <2>1 DEF CashoutIInv, Types
<1>9. rows[t].status = "pending" /\ ~rows[t].paid
  BY <1>2, <1>5 DEF RowMatches
<1>10. ASSUME NEW u \in Txs PROVE RowMatches(u)'
  <2>1. CASE u # t
    BY <1>1, <1>6, <2>1, RowStays DEF CashoutIInv
  <2>2. CASE u = t
    <3>1. \A j \in DOMAIN payments'[t] : j < Len(payments'[t]) => payments'[t][j] = "dead"
      BY <1>2, <1>3, <1>4, <1>7 DEF RowMatches
    <3> QED
      BY <1>1, <1>9, <2>2, <3>1 DEF RowMatches
  <2> QED
    BY <2>1, <2>2
<1>11. ASSUME NEW s \in Requests, Working(s)' PROVE RequestMatches(s)'
  <2>1. Working(s) /\ RequestMatches(s) /\ requests[s].tx \in Txs
    BY <1>1, <1>11, WorkingAt DEF Working
  <2>2. \A q \in Requests : Working(q)' /\ requests'[q].tx = requests[s].tx => q = s
    BY <1>1, <2>1 DEF RequestMatches, Working
  <2>3. CASE requests[s].tx = t
    <3>1. requests[s].pc \notin {"pay", "fail", "persist"}
      BY <1>5, <2>1, <2>3 DEF RequestMatches
    <3> QED
      BY <1>1, <1>7, <1>9, <2>2, <2>3, <3>1 DEF RequestMatches
  <2>4. CASE requests[s].tx # t
    BY <1>1, <1>6, <2>1, <2>2, <2>4, RequestStays
  <2> QED
    BY <2>3, <2>4
<1>12. (\A u \in Txs : PollMatches(u)') /\ SweepMatches'
  BY <1>1, SyncStays
<1> QED
  BY <1>8, <1>10, <1>11, <1>12 DEF CashoutIInv

\* MoneyGram goes on from a record, never back to waiting.
LEMMA MoveKeeps ==
  ASSUME CashoutIInv, NEW t \in Txs, Move(t)
  PROVE  CashoutIInv'
<1>1. /\ UNCHANGED <<rows, payments, requests, polls, sweep>>
      /\ record' \in [Txs -> Records]
      /\ \A u \in Txs : record[u] # "awaiting_funds" => record'[u] # "awaiting_funds"
  BY DEF Move, CashoutIInv, Types, Records
<1>2. Types'
  BY <1>1 DEF CashoutIInv, Types
<1>3. \A u \in Txs : RowMatches(u)'
  BY <1>1, RowStays DEF CashoutIInv
<1>4. \A s \in Requests : Working(s)' => RequestMatches(s)'
  BY <1>1 DEF CashoutIInv, Working, RequestMatches, AllDead, Arrived, Last
<1>5. (\A u \in Txs : PollMatches(u)') /\ SweepMatches'
  BY <1>1, SyncStays
<1> QED
  BY <1>2, <1>3, <1>4, <1>5 DEF CashoutIInv

\* A reader writes a row only when it is paid, and completes it only when MoneyGram
\* has its funds.
LEMMA ReaderKeeps ==
  ASSUME CashoutIInv, Types', UNCHANGED <<record, payments, requests>>,
         \A t \in Txs : rows'[t] # rows[t] =>
           /\ rows[t].paid /\ rows'[t].paid /\ rows'[t].status # "none"
           /\ rows'[t].status = "completed" => record[t] # "awaiting_funds",
         \A t \in Txs : PollMatches(t)',
         SweepMatches'
  PROVE  CashoutIInv'
<1>1. ASSUME NEW t \in Txs PROVE RowMatches(t)'
  <2>1. RowMatches(t)
    BY DEF CashoutIInv
  <2>2. CASE rows'[t] = rows[t]
    BY <2>1, <2>2, RowStays
  <2>3. CASE rows'[t] # rows[t]
    <3>1. AllDead(t)' = AllDead(t) /\ Arrived(t)' = Arrived(t)
      BY SamePayments
    <3> QED
      BY <2>1, <2>3, <3>1 DEF RowMatches
  <2> QED
    BY <2>2, <2>3
<1>2. ASSUME NEW s \in Requests, Working(s)' PROVE RequestMatches(s)'
  <2>1. Working(s) /\ RequestMatches(s) /\ requests[s].tx \in Txs
    BY <1>2, WorkingAt DEF Working
  <2>2. rows'[requests[s].tx] = rows[requests[s].tx]
    BY <2>1 DEF RequestMatches
  <2>3. \A q \in Requests : Working(q)' /\ requests'[q].tx = requests[s].tx => q = s
    BY <2>1 DEF RequestMatches, Working
  <2> QED
    BY <2>1, <2>2, <2>3, RequestStays
<1> QED
  BY <1>1, <1>2 DEF CashoutIInv

\* What applying a record makes of a paid row.
LEMMA Applied ==
  ASSUME CashoutIInv, NEW t \in Txs, NEW rec \in Records, rows[t].paid, Acknowledged(t, rec),
         Apply(t, rec)
  PROVE  /\ rows' \in [Txs -> [status : {"none", "pending", "completed", "failed"},
                               paid : BOOLEAN]]
         /\ \A u \in Txs : rows[u].paid = rows'[u].paid
         /\ \A u \in Txs : rows'[u] # rows[u] =>
              /\ rows[u].paid /\ rows'[u].paid /\ rows'[u].status # "none"
              /\ rows'[u].status = "completed" => record[u] # "awaiting_funds"
<1> DEFINE row == [rows[t] EXCEPT !.status = Outcome(rows[t].status, rec)]
<1>1. /\ rows' = [rows EXCEPT ![t] = row]
      /\ rows \in [Txs -> [status : {"none", "pending", "completed", "failed"}, paid : BOOLEAN]]
      /\ rows[t] \in [status : {"none", "pending", "completed", "failed"}, paid : BOOLEAN]
  BY DEF Apply, CashoutIInv, Types
<1>2. /\ rows[t].status # "none"
      /\ rows[t].status = "completed" => record[t] # "awaiting_funds"
  BY DEF CashoutIInv, RowMatches
<1>3. /\ Outcome(rows[t].status, rec) \in {"pending", "completed", "failed"}
      /\ Outcome(rows[t].status, rec) = "completed" => record[t] # "awaiting_funds"
  BY <1>1, <1>2 DEF Outcome, Acknowledged, Records
<1>4. /\ row \in [status : {"none", "pending", "completed", "failed"}, paid : BOOLEAN]
      /\ row.status = Outcome(rows[t].status, rec) /\ row.paid = rows[t].paid
  BY <1>1, <1>3
<1> HIDE DEF row
<1>5. rows'[t] = row /\ \A u \in Txs : u # t => rows'[u] = rows[u]
  BY <1>1
<1>6. rows' \in [Txs -> [status : {"none", "pending", "completed", "failed"}, paid : BOOLEAN]]
  BY <1>1, <1>4
<1> QED
  BY <1>3, <1>4, <1>5, <1>6

\* Every step of the poller and of the sweep keeps the invariant.
LEMMA SyncKeeps ==
  ASSUME CashoutIInv, SyncStep
  PROVE  CashoutIInv'
<1>1. /\ \A t \in Txs : PollMatches(t)
      /\ SweepMatches
      /\ polls \in [Txs -> {"off", "on"} \cup Records]
      /\ record \in [Txs -> Records]
      /\ sweep # Asleep => sweep.todo \subseteq Txs
  BY DEF CashoutIInv, Types
<1>2. CASE SweepSelect
  <2>1. /\ UNCHANGED <<record, rows, payments, requests, polls>>
        /\ sweep' = [pc |-> "list", todo |-> {t \in Txs : Unsettled(rows[t])}]
    BY <1>2 DEF SweepSelect
  <2>2. Types'
    BY <2>1 DEF CashoutIInv, Types
  <2>3. SweepMatches'
    BY <2>1 DEF SweepMatches, Unsettled
  <2>4. \A t \in Txs : PollMatches(t)'
    BY <1>1, <2>1 DEF PollMatches, Acknowledged
  <2> QED
    BY <2>1, <2>2, <2>3, <2>4, ReaderKeeps
<1>3. CASE SweepList
  <2>1. /\ UNCHANGED <<record, rows, payments, requests, polls>>
        /\ sweep' = [pc |-> "apply", todo |-> sweep.todo, seen |-> record]
        /\ sweep # Asleep
    BY <1>3 DEF SweepList, Asleep
  <2>2. Types'
    BY <1>1, <2>1 DEF CashoutIInv, Types
  <2>3. SweepMatches'
    BY <1>1, <2>1 DEF SweepMatches, Acknowledged
  <2>4. \A t \in Txs : PollMatches(t)'
    BY <1>1, <2>1 DEF PollMatches, Acknowledged
  <2> QED
    BY <2>1, <2>2, <2>3, <2>4, ReaderKeeps
<1>4. CASE \E t \in Txs : PollRead(t) \/ PollApply(t) \/ PollEnd(t) \/ SweepApply(t) \/ SweepSkip(t)
  <2> PICK t \in Txs : PollRead(t) \/ PollApply(t) \/ PollEnd(t) \/ SweepApply(t) \/ SweepSkip(t)
    BY <1>4
  <2>1. CASE PollRead(t)
    <3>1. /\ UNCHANGED <<record, rows, payments, requests, sweep>>
          /\ polls[t] = "on" /\ polls' = [polls EXCEPT ![t] = record[t]]
      BY <2>1 DEF PollRead
    <3>2. Types'
      BY <1>1, <3>1 DEF CashoutIInv, Types
    <3>3. \A u \in Txs : PollMatches(u)'
      BY <1>1, <3>1 DEF PollMatches, Acknowledged
    <3>4. SweepMatches'
      BY <1>1, <3>1 DEF SweepMatches, Acknowledged
    <3> QED
      BY <3>1, <3>2, <3>3, <3>4, ReaderKeeps
  <2>2. CASE PollApply(t)
    <3>1. /\ UNCHANGED <<record, payments, requests, sweep>>
          /\ polls[t] \in Records /\ Apply(t, polls[t])
          /\ polls' = [polls EXCEPT ![t] = IF polls[t] = "awaiting_funds" THEN "on" ELSE "off"]
      BY <2>2 DEF PollApply
    <3>2. rows[t].paid /\ Acknowledged(t, polls[t])
      BY <1>1, <3>1 DEF PollMatches, Records
    <3>3. /\ rows' \in [Txs -> [status : {"none", "pending", "completed", "failed"},
                                paid : BOOLEAN]]
          /\ \A u \in Txs : rows[u].paid = rows'[u].paid
          /\ \A u \in Txs : rows'[u] # rows[u] =>
               /\ rows[u].paid /\ rows'[u].paid /\ rows'[u].status # "none"
               /\ rows'[u].status = "completed" => record[u] # "awaiting_funds"
      BY <3>1, <3>2, Applied
    <3>4. Types'
      BY <1>1, <3>1, <3>3 DEF CashoutIInv, Types
    <3>5. \A u \in Txs : PollMatches(u)'
      BY <1>1, <3>1, <3>2, <3>3 DEF PollMatches, Acknowledged
    <3>6. SweepMatches'
      BY <1>1, <3>1, <3>3 DEF SweepMatches, Acknowledged
    <3> QED
      BY <3>1, <3>3, <3>4, <3>5, <3>6, ReaderKeeps
  <2>3. CASE PollEnd(t)
    <3>1. /\ UNCHANGED <<record, rows, payments, requests, sweep>>
          /\ polls' = [polls EXCEPT ![t] = "off"]
      BY <2>3 DEF PollEnd
    <3>2. Types'
      BY <1>1, <3>1 DEF CashoutIInv, Types
    <3>3. \A u \in Txs : PollMatches(u)'
      BY <1>1, <3>1 DEF PollMatches, Acknowledged
    <3>4. SweepMatches'
      BY <1>1, <3>1 DEF SweepMatches, Acknowledged
    <3> QED
      BY <3>1, <3>2, <3>3, <3>4, ReaderKeeps
  <2>4. CASE SweepApply(t)
    <3>1. /\ UNCHANGED <<record, payments, requests, polls>>
          /\ sweep.pc = "apply" /\ t \in sweep.todo /\ Apply(t, sweep.seen[t])
          /\ sweep' = [sweep EXCEPT !.todo = sweep.todo \ {t}]
      BY <2>4 DEF SweepApply
    <3>2. sweep # Asleep /\ sweep \in [pc : {"apply"}, todo : SUBSET Txs, seen : [Txs -> Records]]
      BY <3>1 DEF CashoutIInv, Types, Asleep
    <3>3. rows[t].paid /\ Acknowledged(t, sweep.seen[t]) /\ sweep.seen[t] \in Records
      BY <1>1, <3>1, <3>2 DEF SweepMatches
    <3>4. /\ rows' \in [Txs -> [status : {"none", "pending", "completed", "failed"},
                                paid : BOOLEAN]]
          /\ \A u \in Txs : rows[u].paid = rows'[u].paid
          /\ \A u \in Txs : rows'[u] # rows[u] =>
               /\ rows[u].paid /\ rows'[u].paid /\ rows'[u].status # "none"
               /\ rows'[u].status = "completed" => record[u] # "awaiting_funds"
      BY <3>1, <3>3, Applied
    <3>5. /\ sweep' \in [pc : {"apply"}, todo : SUBSET Txs, seen : [Txs -> Records]]
          /\ sweep'.todo \subseteq sweep.todo /\ sweep'.seen = sweep.seen
      BY <3>1, <3>2
    <3>6. Types'
      BY <3>1, <3>4, <3>5 DEF CashoutIInv, Types
    <3>7. \A u \in Txs : PollMatches(u)'
      BY <1>1, <3>1, <3>4 DEF PollMatches, Acknowledged
    <3>8. SweepMatches'
      BY <1>1, <3>1, <3>2, <3>4, <3>5 DEF SweepMatches, Acknowledged
    <3> QED
      BY <3>1, <3>4, <3>6, <3>7, <3>8, ReaderKeeps
  <2>5. CASE SweepSkip(t)
    <3>1. /\ UNCHANGED <<record, rows, payments, requests, polls>>
          /\ sweep.pc = "apply" /\ sweep' = [sweep EXCEPT !.todo = sweep.todo \ {t}]
      BY <2>5 DEF SweepSkip
    <3>2. sweep # Asleep /\ sweep \in [pc : {"apply"}, todo : SUBSET Txs, seen : [Txs -> Records]]
      BY <3>1 DEF CashoutIInv, Types, Asleep
    <3>3. /\ sweep' \in [pc : {"apply"}, todo : SUBSET Txs, seen : [Txs -> Records]]
          /\ sweep'.todo \subseteq sweep.todo /\ sweep'.seen = sweep.seen
      BY <3>1, <3>2
    <3>4. Types'
      BY <3>1, <3>3 DEF CashoutIInv, Types
    <3>5. \A u \in Txs : PollMatches(u)'
      BY <1>1, <3>1 DEF PollMatches, Acknowledged
    <3>6. SweepMatches'
      BY <1>1, <3>1, <3>2, <3>3 DEF SweepMatches, Acknowledged
    <3> QED
      BY <3>1, <3>4, <3>5, <3>6, ReaderKeeps
  <2> QED
    BY <2>1, <2>2, <2>3, <2>4, <2>5
<1>5. CASE \E done \in BOOLEAN : SweepEnd(done)
  <2>1. UNCHANGED <<record, rows, payments, requests, polls>> /\ sweep' = Asleep
    BY <1>5 DEF SweepEnd
  <2>2. Types'
    BY <2>1 DEF CashoutIInv, Types
  <2>3. SweepMatches' /\ \A t \in Txs : PollMatches(t)'
    BY <1>1, <2>1 DEF SweepMatches, PollMatches, Acknowledged
  <2> QED
    BY <2>1, <2>2, <2>3, ReaderKeeps
<1> QED
  BY <1>2, <1>3, <1>4, <1>5 DEF SyncStep

-----------------------------------------------------------------------------
(* The theorems. *)

\* The initial states of the cash-outs.
LEMMA CashoutStarts == CashoutInit => CashoutIInv
<1> SUFFICES ASSUME CashoutInit PROVE CashoutIInv
  OBVIOUS
<1>1. Types
  BY DEF CashoutInit, Types, NoRow, NoRequest, Asleep, Records, Fates
<1>2. \A t \in Txs : RowMatches(t) /\ PollMatches(t)
  BY DEF CashoutInit, RowMatches, PollMatches, AllDead, NoRow
<1>3. SweepMatches /\ \A r \in Requests : ~Working(r)
  BY DEF CashoutInit, SweepMatches, Working
<1> QED
  BY <1>1, <1>2, <1>3 DEF CashoutIInv

\* Every step of the cash-outs.
LEMMA StepKeeps ==
  ASSUME ~Silent, CashoutIInv, [CashoutNext]_cashoutVars
  PROVE  CashoutIInv'
<1>1. ASSUME NEW r \in Requests, NEW t \in Txs, Check(r, t) PROVE CashoutIInv'
  <2> DEFINE next == [pc |-> "take", tx |-> t]
  <2>1. /\ requests' = [requests EXCEPT ![r] = next]
        /\ UNCHANGED <<record, rows, payments, polls, sweep>>
    BY <1>1 DEF Check
  <2>2. next \in [pc : {"take", "pay", "wait", "persist", "fail"}, tx : Txs] /\ next.pc = "take"
    OBVIOUS
  <2> HIDE DEF next
  <2> QED
    BY <2>1, <2>2, RequestMoves
<1>2. CASE UNCHANGED cashoutVars
  <2>1. UNCHANGED <<record, rows, payments, requests, polls, sweep>>
    BY <1>2 DEF cashoutVars
  <2> QED
    BY <2>1 DEF CashoutIInv, Types, RowMatches, Working, RequestMatches, PollMatches, SweepMatches,
         Acknowledged, AllDead, Arrived, Last
<1>3. CASE CashoutNext
  BY <1>1, <1>3, RequestKeeps, MoveKeeps, DecideKeeps, SyncKeeps DEF CashoutNext
<1> QED
  BY <1>2, <1>3

\* The invariant of the cash-outs, when Horizon answers every submission.
THEOREM CashoutInvariant ==
  ASSUME ~Silent
  PROVE  CashoutSpec => []CashoutIInv
BY CashoutStarts, StepKeeps, PTL DEF CashoutSpec

\* One MoneyGram transaction is paid at most once, however many requests ask for it
\* and whatever the poller and the sweep do (routes/cashouts.ts).
THEOREM TransactionPaidOnce ==
  ASSUME ~Silent
  PROVE  CashoutSpec => []PaidOnce
<1>1. ASSUME CashoutIInv PROVE PaidOnce
  <2> SUFFICES ASSUME NEW t \in Txs PROVE Cardinality(Landed(t)) <= 1
    BY DEF PaidOnce
  <2>1. payments[t] \in Seq(Fates) /\ RowMatches(t)
    BY <1>1 DEF CashoutIInv, Types
  <2>2. Len(payments[t]) \in Nat /\ DOMAIN payments[t] = 1..Len(payments[t])
    BY <2>1, SeqFacts
  <2>3. Landed(t) \subseteq {Len(payments[t])}
    BY <2>1, <2>2 DEF Landed, RowMatches
  <2>4. /\ IsFiniteSet({Len(payments[t])}) /\ Cardinality({Len(payments[t])}) = 1
    BY FS_Singleton
  <2>5. /\ IsFiniteSet(Landed(t)) /\ Cardinality(Landed(t)) <= Cardinality({Len(payments[t])})
    BY <2>3, <2>4, FS_Subset
  <2> QED
    BY <2>4, <2>5
<1> QED
  BY <1>1, CashoutInvariant, PTL

\* A cash-out is completed only when its payment has landed, the row knows it and
\* MoneyGram had the funds, however old the reading that completed it (rampsSync.ts).
THEOREM CompletedIsSettled ==
  ASSUME ~Silent
  PROVE  CashoutSpec => []CompletedWasPaid
<1>1. ASSUME CashoutIInv PROVE CompletedWasPaid
  <2> SUFFICES ASSUME NEW t \in Txs, rows[t].status = "completed"
               PROVE  rows[t].paid /\ Landed(t) # {} /\ record[t] # "awaiting_funds"
    BY DEF CompletedWasPaid
  <2>1. payments[t] \in Seq(Fates) /\ RowMatches(t)
    BY <1>1 DEF CashoutIInv, Types
  <2>2. Len(payments[t]) \in Nat /\ payments[t] # <<>> => Len(payments[t]) \in DOMAIN payments[t]
    BY <2>1, SeqFacts
  <2>3. rows[t].paid /\ Arrived(t) /\ record[t] # "awaiting_funds"
    BY <2>1 DEF RowMatches
  <2> QED
    BY <2>2, <2>3 DEF Landed, Arrived, Last
<1> QED
  BY <1>1, CashoutInvariant, PTL

-----------------------------------------------------------------------------
(* A cash-out keeps PaymentPromise. *)

\* What a row tells the worker.
Word(row) ==
  IF row.paid THEN "completed"
  ELSE IF row.status \in {"none", "failed"} THEN row.status ELSE "open"

\* What is told and what has settled, of every transaction that is paid once.
LEMMA ToldIs ==
  ASSUME PaidOnce, PaidOnce'
  PROVE  /\ Told = [t \in Txs |-> Word(rows[t])] /\ Told' = [t \in Txs |-> Word(rows'[t])]
         /\ Settled = [t \in Txs |-> IF Landed(t) = {} THEN "none" ELSE "completed"]
         /\ Settled' = [t \in Txs |-> IF Landed(t)' = {} THEN "none" ELSE "completed"]
BY DEF Told, Settled, Word, PaidOnce

\* What a row that matches says of the payments.
LEMMA LandedMatches ==
  ASSUME CashoutIInv, NEW t \in Txs
  PROVE  /\ Arrived(t) => Landed(t) # {}
         /\ AllDead(t) => Landed(t) = {}
         /\ \A i \in DOMAIN payments[t] : payments[t][i] = "flying" =>
              Landed(t) = {} /\ rows[t].status = "pending" /\ ~rows[t].paid
<1>1. payments[t] \in Seq(Fates) /\ RowMatches(t)
  BY DEF CashoutIInv, Types
<1>2. /\ Len(payments[t]) \in Nat /\ DOMAIN payments[t] = 1..Len(payments[t])
      /\ payments[t] # <<>> => Len(payments[t]) \in DOMAIN payments[t]
  BY <1>1, SeqFacts
<1>3. Arrived(t) => Landed(t) # {}
  BY <1>2 DEF Arrived, Last, Landed
<1>4. AllDead(t) => Landed(t) = {}
  BY DEF AllDead, Landed
<1>5. ASSUME NEW i \in DOMAIN payments[t], payments[t][i] = "flying"
      PROVE  Landed(t) = {} /\ rows[t].status = "pending" /\ ~rows[t].paid
  <2>1. i = Len(payments[t])
    BY <1>1, <1>2, <1>5 DEF RowMatches
  <2>2. ~AllDead(t) /\ ~Arrived(t)
    BY <1>5, <2>1 DEF AllDead, Arrived, Last
  <2>3. rows[t].status = "pending" /\ ~rows[t].paid
    BY <1>1, <2>2 DEF RowMatches
  <2>4. \A j \in DOMAIN payments[t] : payments[t][j] # "landed"
    BY <1>1, <1>2, <1>5, <2>1 DEF RowMatches
  <2> QED
    BY <2>3, <2>4 DEF Landed
<1> QED
  BY <1>3, <1>4, <1>5

\* A step that tells nothing and settles nothing.
LEMMA NothingTold ==
  ASSUME PaidOnce, PaidOnce',
         \A t \in Txs : Word(rows'[t]) = Word(rows[t]),
         \A t \in Txs : (Landed(t)' = {}) <=> (Landed(t) = {})
  PROVE  UNCHANGED <<Told, Settled>>
<1>1. Told' = Told
  BY ToldIs
<1>2. Settled' = Settled
  BY ToldIs
<1> QED
  BY <1>1, <1>2

\* A step that writes the row of an open or a free transaction.
LEMMA RowIsPromised ==
  ASSUME CashoutIInv, PaidOnce, PaidOnce', NEW t \in Txs, NEW row, UNCHANGED payments,
         rows' = [rows EXCEPT ![t] = row],
         \/ Word(rows[t]) \in {"none", "failed"} /\ Word(row) = "open"
         \/ Word(rows[t]) = "open" /\ Word(row) = "failed" /\ Landed(t) = {}
         \/ Word(rows[t]) = "open" /\ Word(row) = "completed" /\ Landed(t) # {}
  PROVE  [Promise!Next]_<<Told, Settled>>
<1>1. \A u \in Txs : Landed(u)' = Landed(u)
  BY DEF Landed
<1>2. Settled' = Settled
  BY <1>1, ToldIs
<1>3. rows'[t] = row /\ \A u \in Txs : u # t => rows'[u] = rows[u]
  BY DEF CashoutIInv, Types
<1>4. Told' = [Told EXCEPT ![t] = Word(row)]
  BY <1>3, ToldIs
<1>5. Told[t] = Word(rows[t]) /\ Settled[t] = IF Landed(t) = {} THEN "none" ELSE "completed"
  BY ToldIs
<1>6. CASE Word(rows[t]) \in {"none", "failed"} /\ Word(row) = "open"
  BY <1>2, <1>4, <1>5, <1>6 DEF Promise!Attempt, Promise!Next
<1>7. CASE Word(rows[t]) = "open" /\ Word(row) = "failed" /\ Landed(t) = {}
  <2>1. Promise!Report(t)
    BY <1>2, <1>4, <1>5, <1>7 DEF Promise!Report
  <2> QED
    BY <2>1 DEF Promise!Next
<1>8. CASE Word(rows[t]) = "open" /\ Word(row) = "completed" /\ Landed(t) # {}
  <2>1. Promise!Report(t)
    BY <1>2, <1>4, <1>5, <1>8 DEF Promise!Report
  <2> QED
    BY <2>1 DEF Promise!Next
<1> QED
  BY <1>6, <1>7, <1>8

\* The steps of a request: taking the row is an attempt, what it records of its
\* payment is a report, and submitting one is not seen.
LEMMA RequestIsPromised ==
  ASSUME CashoutIInv, PaidOnce, PaidOnce', NEW r \in Requests, RequestStep(r)
  PROVE  [Promise!Next]_<<Told, Settled>>
<1>1. ASSUME UNCHANGED <<rows, payments>> PROVE [Promise!Next]_<<Told, Settled>>
  BY <1>1, NothingTold DEF Landed
<1>2. /\ requests \in [Requests ->
            [pc : {"take", "pay", "wait", "persist", "fail"}, tx : Txs] \cup {NoRequest}]
      /\ rows \in [Txs -> [status : {"none", "pending", "completed", "failed"}, paid : BOOLEAN]]
      /\ payments \in [Txs -> Seq(Fates)]
  BY DEF CashoutIInv, Types
<1>3. requests[r] # NoRequest
  BY DEF RequestStep, Take, Pay, CannotPay, Answered, Persist, RecordFailure, Abandon, At
<1>4. PICK t \in Txs : t = requests[r].tx
  BY <1>2, <1>3
<1>5. ASSUME requests[r].pc \in {"persist", "fail"}
      PROVE  /\ rows[t].status = "pending" /\ ~rows[t].paid
             /\ requests[r].pc = "persist" => Landed(t) # {}
             /\ requests[r].pc = "fail" => Landed(t) = {}
  <2>1. RequestMatches(r)
    BY <1>3, <1>5, WorkingAt DEF Working
  <2> QED
    BY <1>4, <2>1, LandedMatches DEF RequestMatches
<1>6. CASE Take(r)
  <2>1. CASE Takeable(rows[t])
    <3> DEFINE row == [rows[t] EXCEPT !.status = "pending"]
    <3>1. rows' = [rows EXCEPT ![t] = row] /\ UNCHANGED payments
      BY <1>4, <1>6, <2>1 DEF Take
    <3>2. /\ RowMatches(t) /\ (rows[t].status = "none" => ~rows[t].paid)
      BY DEF CashoutIInv, RowMatches
    <3>3. Word(rows[t]) \in {"none", "failed"} /\ Word(row) = "open"
      BY <1>2, <2>1, <3>2 DEF Takeable, Word
    <3> HIDE DEF row
    <3> QED
      BY <3>1, <3>3, RowIsPromised
  <2>2. CASE ~Takeable(rows[t])
    BY <1>1, <1>4, <1>6, <2>2 DEF Take
  <2> QED
    BY <2>1, <2>2
<1>7. CASE Pay(r)
  <2>1. payments' = [payments EXCEPT ![t] = Append(payments[t], "flying")] /\ rows' = rows
    BY <1>4, <1>7 DEF Pay
  <2>2. /\ payments'[t] = Append(payments[t], "flying")
        /\ \A u \in Txs : u # t => payments'[u] = payments[u]
    BY <1>2, <2>1
  <2>3. /\ DOMAIN payments[t] = 1..Len(payments[t]) /\ Len(payments[t]) \in Nat
        /\ DOMAIN payments'[t] = 1..(Len(payments[t]) + 1)
        /\ payments'[t][Len(payments[t]) + 1] = "flying"
        /\ \A i \in 1..Len(payments[t]) : payments'[t][i] = payments[t][i]
    BY <1>2, <2>2
  <2>4. Landed(t)' = Landed(t)
    BY <2>3 DEF Landed
  <2>5. \A u \in Txs : Landed(u)' = Landed(u)
    BY <2>2, <2>4 DEF Landed
  <2> QED
    BY <2>1, <2>5, NothingTold
<1>8. CASE Persist(r)
  <2> DEFINE row == [rows[t] EXCEPT !.paid = TRUE]
  <2>1. requests[r].pc = "persist" /\ rows' = [rows EXCEPT ![t] = row] /\ UNCHANGED payments
    BY <1>4, <1>8 DEF Persist, At
  <2>2. Word(rows[t]) = "open" /\ Word(row) = "completed" /\ Landed(t) # {}
    BY <1>2, <1>5, <2>1 DEF Word
  <2> HIDE DEF row
  <2> QED
    BY <2>1, <2>2, RowIsPromised
<1>9. CASE RecordFailure(r)
  <2> DEFINE row == [rows[t] EXCEPT !.status = "failed"]
  <2>1. requests[r].pc = "fail" /\ rows' = [rows EXCEPT ![t] = row] /\ UNCHANGED payments
    BY <1>4, <1>9 DEF RecordFailure, At
  <2>2. Word(rows[t]) = "open" /\ Word(row) = "failed" /\ Landed(t) = {}
    BY <1>2, <1>5, <2>1 DEF Word
  <2> HIDE DEF row
  <2> QED
    BY <2>1, <2>2, RowIsPromised
<1>10. CASE CannotPay(r) \/ Answered(r) \/ Abandon(r)
  BY <1>1, <1>10 DEF CannotPay, Answered, Abandon
<1> QED
  BY <1>6, <1>7, <1>8, <1>9, <1>10 DEF RequestStep

\* The network lets a payment arrive while the row is open and none has, or drops it.
LEMMA DecideIsPromised ==
  ASSUME CashoutIInv, PaidOnce, PaidOnce', NEW t \in Txs, NEW fate \in {"landed", "dead"}, Decide(t, fate)
  PROVE  [Promise!Next]_<<Told, Settled>>
<1>1. PICK i \in DOMAIN payments[t] :
        /\ payments[t][i] = "flying"
        /\ payments' = [payments EXCEPT ![t] = [payments[t] EXCEPT ![i] = fate]]
        /\ UNCHANGED <<record, rows, requests, polls, sweep>>
  BY DEF Decide
<1>2. payments \in [Txs -> Seq(Fates)] /\ rows[t].status = "pending" /\ ~rows[t].paid /\ Landed(t) = {}
  BY <1>1, LandedMatches DEF CashoutIInv, Types
<1>3. /\ payments'[t] = [payments[t] EXCEPT ![i] = fate]
      /\ \A u \in Txs : u # t => payments'[u] = payments[u]
  BY <1>1, <1>2
<1>4. \A u \in Txs : u # t => Landed(u)' = Landed(u)
  BY <1>3 DEF Landed
<1>5. /\ DOMAIN payments'[t] = DOMAIN payments[t] /\ payments'[t][i] = fate
      /\ \A j \in DOMAIN payments[t] : j # i => payments'[t][j] = payments[t][j]
  BY <1>1, <1>3
<1>6. Told' = Told /\ Told[t] = "open" /\ Settled[t] = "none"
  BY <1>1, <1>2, ToldIs DEF Word
<1>7. CASE fate = "landed"
  <2>1. i \in Landed(t)'
    BY <1>1, <1>5, <1>7 DEF Landed
  <2>2. Settled' = [Settled EXCEPT ![t] = "completed"]
    BY <1>4, <2>1, ToldIs
  <2>3. Promise!Move(t)
    BY <1>6, <2>2 DEF Promise!Move, Promise!Moves
  <2> QED
    BY <2>3 DEF Promise!Next
<1>8. CASE fate = "dead"
  <2>1. Landed(t)' = {}
    BY <1>2, <1>5, <1>8 DEF Landed
  <2> QED
    BY <1>1, <1>2, <1>4, <2>1, NothingTold
<1> QED
  BY <1>7, <1>8

\* The poller and the sweep write only rows that are paid, and those stay paid.
LEMMA SyncTellsNothing ==
  ASSUME CashoutIInv, PaidOnce, PaidOnce', SyncStep
  PROVE  UNCHANGED <<Told, Settled>>
<1>1. UNCHANGED payments
  BY DEF SyncStep, SweepSelect, SweepList, PollRead, PollApply, PollEnd, SweepApply,
         SweepSkip, SweepEnd
<1>2. ASSUME NEW t \in Txs, NEW rec, rows[t].paid, Apply(t, rec)
      PROVE  \A u \in Txs : Word(rows'[u]) = Word(rows[u])
  <2>1. rows \in [Txs -> [status : {"none", "pending", "completed", "failed"}, paid : BOOLEAN]]
    BY DEF CashoutIInv, Types
  <2>2. rows'[t].paid /\ \A u \in Txs : u # t => rows'[u] = rows[u]
    BY <1>2, <2>1 DEF Apply
  <2> QED
    BY <1>2, <2>2 DEF Word
<1>3. ASSUME NEW t \in Txs, PollApply(t) \/ SweepApply(t) PROVE \E rec : rows[t].paid /\ Apply(t, rec)
  <2>1. CASE PollApply(t)
    BY <2>1 DEF PollApply, CashoutIInv, PollMatches, Records
  <2>2. CASE SweepApply(t)
    BY <2>2 DEF SweepApply, CashoutIInv, SweepMatches, Asleep
  <2> QED
    BY <1>3, <2>1, <2>2
<1>4. UNCHANGED rows \/ \E t \in Txs : PollApply(t) \/ SweepApply(t)
  BY DEF SyncStep, SweepSelect, SweepList, PollRead, PollEnd, SweepSkip, SweepEnd
<1>5. \A u \in Txs : Word(rows'[u]) = Word(rows[u])
  BY <1>2, <1>3, <1>4
<1> QED
  BY <1>1, <1>5, NothingTold DEF Landed

\* A worker who asks again and again is served as PaymentPromise says: a transaction is
\* paid once, what its row tells is what has happened, and after "failed" nothing of an
\* earlier attempt arrives (routes/cashouts.ts:112-117), whatever the poller, the sweep
\* and MoneyGram do meanwhile, as long as Horizon answers every submission.
THEOREM CashoutIsPromised ==
  ASSUME ~Silent
  PROVE  CashoutSpec => CashoutKeepsPromise
<1>1. CashoutInit => Promise!Init
  BY DEF CashoutInit, Promise!Init, Told, Settled, Landed, NoRow
<1>2. ASSUME CashoutIInv, PaidOnce, PaidOnce', [CashoutNext]_cashoutVars
      PROVE  [Promise!Next]_<<Told, Settled>>
  <2>1. ASSUME UNCHANGED <<rows, payments>> PROVE [Promise!Next]_<<Told, Settled>>
    BY <1>2, <2>1, NothingTold DEF Landed
  <2>2. ASSUME NEW r \in Requests, NEW t \in Txs, Check(r, t) PROVE [Promise!Next]_<<Told, Settled>>
    BY <2>1, <2>2 DEF Check
  <2>3. ASSUME NEW t \in Txs, Move(t) PROVE [Promise!Next]_<<Told, Settled>>
    BY <2>1, <2>3 DEF Move
  <2>4. ASSUME CashoutNext PROVE [Promise!Next]_<<Told, Settled>>
    BY <1>2, <2>2, <2>3, <2>4, RequestIsPromised, DecideIsPromised, SyncTellsNothing DEF CashoutNext
  <2>5. UNCHANGED cashoutVars => UNCHANGED <<rows, payments>>
    BY DEF cashoutVars
  <2> QED
    BY <1>2, <2>1, <2>4, <2>5
<1> QED
  BY <1>1, <1>2, CashoutInvariant, TransactionPaidOnce, PTL DEF CashoutSpec, CashoutKeepsPromise, Promise!Spec

-----------------------------------------------------------------------------
(* Cash-outs whose payments may have no verdict. *)

\* The types alone, whether Horizon answers or not.
CashoutBound ==
  Types /\ \A t \in Txs : Len(payments[t]) <= MaxPayments

\* A step that leaves the payments alone.
LEMMA BoundUntouched ==
  ASSUME CashoutBound, Types', UNCHANGED payments
  PROVE  CashoutBound'
BY DEF CashoutBound

\* The types of what a request writes, and of one more payment.
LEMMA RequestBound ==
  ASSUME CashoutBound, NEW r \in Requests, RequestStep(r)
  PROVE  CashoutBound'
<1>1. /\ requests \in [Requests ->
            [pc : {"take", "pay", "wait", "persist", "fail"}, tx : Txs] \cup {NoRequest}]
      /\ rows \in [Txs -> [status : {"none", "pending", "completed", "failed"}, paid : BOOLEAN]]
      /\ payments \in [Txs -> Seq(Fates)] /\ polls \in [Txs -> {"off", "on"} \cup Records]
  BY DEF CashoutBound, Types
<1>2. requests[r] # NoRequest
  BY DEF RequestStep, Take, Pay, CannotPay, Answered, Persist, RecordFailure, Abandon, At
<1>3. PICK t \in Txs : t = requests[r].tx
  BY <1>1, <1>2
<1>4. requests[r] \in [pc : {"take", "pay", "wait", "persist", "fail"}, tx : Txs]
  BY <1>1, <1>2
<1>5. ASSUME NEW pc \in {"take", "pay", "wait", "persist", "fail"}, Become(r, pc)
      PROVE  requests' \in [Requests ->
               [pc : {"take", "pay", "wait", "persist", "fail"}, tx : Txs] \cup {NoRequest}]
  <2> DEFINE next == [requests[r] EXCEPT !.pc = pc]
  <2>1. next \in [pc : {"take", "pay", "wait", "persist", "fail"}, tx : Txs]
    BY <1>4
  <2>2. requests' = [requests EXCEPT ![r] = next]
    BY <1>5 DEF Become
  <2> HIDE DEF next
  <2> QED
    BY <1>1, <2>1, <2>2
<1>6. ASSUME End(r)
      PROVE  requests' \in [Requests ->
               [pc : {"take", "pay", "wait", "persist", "fail"}, tx : Txs] \cup {NoRequest}]
  BY <1>1, <1>6 DEF End
<1>7. ASSUME NEW row \in [status : {"none", "pending", "completed", "failed"}, paid : BOOLEAN],
             rows' = [rows EXCEPT ![t] = row]
      PROVE  rows' \in [Txs -> [status : {"none", "pending", "completed", "failed"}, paid : BOOLEAN]]
  BY <1>1, <1>7
<1>8. rows[t] \in [status : {"none", "pending", "completed", "failed"}, paid : BOOLEAN]
  BY <1>1
<1>9. CASE Take(r)
  <2>1. UNCHANGED <<record, payments, polls, sweep>>
    BY <1>9 DEF Take
  <2>2. CASE Takeable(rows[t])
    <3> DEFINE row == [rows[t] EXCEPT !.status = "pending"]
    <3>1. row \in [status : {"none", "pending", "completed", "failed"}, paid : BOOLEAN]
      BY <1>8
    <3>2. rows' = [rows EXCEPT ![t] = row] /\ Become(r, "pay")
      BY <1>3, <1>9, <2>2 DEF Take
    <3> HIDE DEF row
    <3> QED
      BY <1>5, <1>7, <2>1, <3>1, <3>2, BoundUntouched DEF CashoutBound, Types
  <2>3. CASE ~Takeable(rows[t])
    <3>1. End(r) /\ UNCHANGED rows
      BY <1>3, <1>9, <2>3 DEF Take
    <3> QED
      BY <1>6, <2>1, <3>1, BoundUntouched DEF CashoutBound, Types
  <2> QED
    BY <2>2, <2>3
<1>10. CASE Pay(r)
  <2>1. /\ Len(payments[t]) < MaxPayments
        /\ payments' = [payments EXCEPT ![t] = Append(payments[t], "flying")]
        /\ Become(r, "wait") /\ UNCHANGED <<record, rows, polls, sweep>>
    BY <1>3, <1>10 DEF Pay
  <2>2. /\ payments[t] \in Seq(Fates) /\ Append(payments[t], "flying") \in Seq(Fates)
        /\ Len(Append(payments[t], "flying")) = Len(payments[t]) + 1 /\ Len(payments[t]) \in Nat
    BY <1>1 DEF Fates
  <2>3. payments' \in [Txs -> Seq(Fates)]
    BY <1>1, <2>1, <2>2
  <2>4. ASSUME NEW u \in Txs PROVE Len(payments'[u]) <= MaxPayments
    <3>1. CASE u = t
      <4>1. payments'[u] = Append(payments[t], "flying")
        BY <1>1, <2>1, <3>1
      <4> QED
        BY <2>1, <2>2, <4>1, CashoutAssumption DEF CashoutAssumption
    <3>2. CASE u # t
      BY <1>1, <2>1, <3>2 DEF CashoutBound
    <3> QED
      BY <3>1, <3>2
  <2> QED
    BY <1>5, <2>1, <2>3, <2>4 DEF CashoutBound, Types
<1>11. CASE CannotPay(r)
  BY <1>5, <1>11, BoundUntouched DEF CannotPay, CashoutBound, Types
<1>12. CASE Answered(r)
  BY <1>5, <1>12, BoundUntouched DEF Answered, CashoutBound, Types
<1>13. CASE Persist(r)
  <2> DEFINE row == [rows[t] EXCEPT !.paid = TRUE]
  <2>1. row \in [status : {"none", "pending", "completed", "failed"}, paid : BOOLEAN]
    BY <1>8
  <2>2. /\ rows' = [rows EXCEPT ![t] = row] /\ polls' = [polls EXCEPT ![t] = "on"] /\ End(r)
        /\ UNCHANGED <<record, payments, sweep>>
    BY <1>3, <1>13 DEF Persist
  <2> HIDE DEF row
  <2> QED
    BY <1>6, <1>7, <2>1, <2>2, BoundUntouched DEF CashoutBound, Types
<1>14. CASE RecordFailure(r)
  <2> DEFINE row == [rows[t] EXCEPT !.status = "failed"]
  <2>1. row \in [status : {"none", "pending", "completed", "failed"}, paid : BOOLEAN]
    BY <1>8
  <2>2. /\ rows' = [rows EXCEPT ![t] = row] /\ End(r)
        /\ UNCHANGED <<record, payments, polls, sweep>>
    BY <1>3, <1>14 DEF RecordFailure
  <2> HIDE DEF row
  <2> QED
    BY <1>6, <1>7, <2>1, <2>2, BoundUntouched DEF CashoutBound, Types
<1>15. CASE Abandon(r)
  BY <1>6, <1>15, BoundUntouched DEF Abandon, CashoutBound, Types
<1> QED
  BY <1>9, <1>10, <1>11, <1>12, <1>13, <1>14, <1>15 DEF RequestStep

\* A record that is applied leaves a row a row.
LEMMA ApplyTypes ==
  ASSUME Types, NEW t \in Txs, NEW rec \in Records, Apply(t, rec)
  PROVE  rows' \in [Txs -> [status : {"none", "pending", "completed", "failed"}, paid : BOOLEAN]]
<1> DEFINE row == [rows[t] EXCEPT !.status = Outcome(rows[t].status, rec)]
<1>1. rows \in [Txs -> [status : {"none", "pending", "completed", "failed"}, paid : BOOLEAN]]
  BY DEF Types
<1>2. row \in [status : {"none", "pending", "completed", "failed"}, paid : BOOLEAN]
  BY <1>1 DEF Outcome
<1>3. rows' = [rows EXCEPT ![t] = row]
  BY DEF Apply
<1> HIDE DEF row
<1> QED
  BY <1>1, <1>2, <1>3

\* The types of what the readers of MoneyGram's records write.
LEMMA SyncBound ==
  ASSUME CashoutBound, SyncStep
  PROVE  CashoutBound'
<1>1. /\ polls \in [Txs -> {"off", "on"} \cup Records] /\ record \in [Txs -> Records]
      /\ sweep \in {Asleep} \cup [pc : {"list"}, todo : SUBSET Txs]
                   \cup [pc : {"apply"}, todo : SUBSET Txs, seen : [Txs -> Records]]
  BY DEF CashoutBound, Types
<1>2. CASE SweepSelect
  BY <1>2, BoundUntouched DEF SweepSelect, CashoutBound, Types
<1>3. CASE SweepList
  <2>1. sweep.todo \subseteq Txs
    BY <1>1, <1>3 DEF SweepList, Asleep
  <2> QED
    BY <1>1, <1>3, <2>1, BoundUntouched DEF SweepList, CashoutBound, Types
<1>4. ASSUME NEW t \in Txs, PollRead(t) \/ PollEnd(t) PROVE CashoutBound'
  BY <1>1, <1>4, BoundUntouched DEF PollRead, PollEnd, CashoutBound, Types
<1>5. ASSUME NEW t \in Txs, PollApply(t) PROVE CashoutBound'
  <2>1. /\ UNCHANGED <<record, payments, requests, sweep>>
        /\ polls[t] \in Records /\ Apply(t, polls[t])
        /\ polls' = [polls EXCEPT ![t] = IF polls[t] = "awaiting_funds" THEN "on" ELSE "off"]
    BY <1>5 DEF PollApply
  <2> QED
    BY <1>1, <2>1, ApplyTypes, BoundUntouched DEF CashoutBound, Types
<1>6. ASSUME NEW t \in Txs, SweepApply(t) PROVE CashoutBound'
  <2>1. /\ UNCHANGED <<record, payments, requests, polls>>
        /\ sweep.pc = "apply" /\ Apply(t, sweep.seen[t])
        /\ sweep' = [sweep EXCEPT !.todo = sweep.todo \ {t}]
    BY <1>6 DEF SweepApply
  <2>2. sweep \in [pc : {"apply"}, todo : SUBSET Txs, seen : [Txs -> Records]]
    BY <1>1, <2>1 DEF Asleep
  <2>3. sweep.seen[t] \in Records
    BY <2>2
  <2>4. sweep' \in [pc : {"apply"}, todo : SUBSET Txs, seen : [Txs -> Records]]
    BY <2>1, <2>2
  <2> QED
    BY <2>1, <2>3, <2>4, ApplyTypes, BoundUntouched DEF CashoutBound, Types
<1>7. ASSUME NEW done \in BOOLEAN, SweepEnd(done) PROVE CashoutBound'
  BY <1>7, BoundUntouched DEF SweepEnd, CashoutBound, Types
<1>8. ASSUME NEW t \in Txs, SweepSkip(t) PROVE CashoutBound'
  <2>1. /\ UNCHANGED <<record, rows, payments, requests, polls>>
        /\ sweep.pc = "apply" /\ sweep' = [sweep EXCEPT !.todo = sweep.todo \ {t}]
    BY <1>8 DEF SweepSkip
  <2>2. sweep' \in [pc : {"apply"}, todo : SUBSET Txs, seen : [Txs -> Records]]
    BY <1>1, <2>1 DEF Asleep
  <2> QED
    BY <2>1, <2>2, BoundUntouched DEF CashoutBound, Types
<1> QED
  BY <1>2, <1>3, <1>4, <1>5, <1>6, <1>7, <1>8 DEF SyncStep

\* Every step, whether Horizon answers or not.
LEMMA CashoutBoundStep ==
  ASSUME CashoutBound, [CashoutNext]_cashoutVars
  PROVE  CashoutBound'
<1>1. /\ requests \in [Requests ->
            [pc : {"take", "pay", "wait", "persist", "fail"}, tx : Txs] \cup {NoRequest}]
      /\ payments \in [Txs -> Seq(Fates)] /\ record \in [Txs -> Records]
  BY DEF CashoutBound, Types
<1>2. CASE UNCHANGED cashoutVars
  BY <1>2 DEF cashoutVars, CashoutBound, Types
<1>3. ASSUME NEW r \in Requests, NEW t \in Txs, Check(r, t) PROVE CashoutBound'
  BY <1>1, <1>3, BoundUntouched DEF Check, CashoutBound, Types
<1>4. ASSUME NEW t \in Txs, Move(t) PROVE CashoutBound'
  BY <1>1, <1>4, BoundUntouched DEF Move, Records, CashoutBound, Types
<1>5. ASSUME NEW t \in Txs, NEW fate \in {"landed", "dead"}, Decide(t, fate) PROVE CashoutBound'
  <2>1. PICK i \in DOMAIN payments[t] :
          /\ payments' = [payments EXCEPT ![t] = [payments[t] EXCEPT ![i] = fate]]
          /\ UNCHANGED <<record, rows, requests, polls, sweep>>
    BY <1>5 DEF Decide
  <2>2. fate \in Fates /\ payments[t] \in Seq(Fates)
    BY <1>1 DEF Fates
  <2>3. [payments[t] EXCEPT ![i] = fate] \in Seq(Fates)
    BY <2>1, <2>2, ExceptSeq
  <2>4. Len([payments[t] EXCEPT ![i] = fate]) = Len(payments[t])
    BY <2>1, <2>2, ExceptSeq
  <2>5. payments' \in [Txs -> Seq(Fates)]
    BY <1>1, <2>1, <2>3
  <2>6. \A u \in Txs : Len(payments'[u]) = Len(payments[u])
    BY <1>1, <2>1, <2>4
  <2> QED
    BY <2>1, <2>5, <2>6 DEF CashoutBound, Types
<1> QED
  BY <1>2, <1>3, <1>4, <1>5, RequestBound, SyncBound DEF CashoutNext

\* The initial states are within the bound.
LEMMA CashoutBoundStarts == CashoutInit => CashoutBound
<1> SUFFICES ASSUME CashoutInit PROVE CashoutBound
  OBVIOUS
<1>1. Types
  BY DEF CashoutInit, Types, NoRow, NoRequest, Asleep, Records, Fates
<1>2. \A t \in Txs : Len(payments[t]) <= MaxPayments
  BY CashoutAssumption DEF CashoutInit, CashoutAssumption
<1> QED
  BY <1>1, <1>2 DEF CashoutBound

\* Cash-outs keep their types, also when a submission may have no verdict.
THEOREM CashoutTypeCorrect == CashoutSpec => []CashoutTypeOK
<1>1. CashoutBound => CashoutTypeOK
  BY DEF CashoutBound, Types, CashoutTypeOK
<1> QED
  BY <1>1, CashoutBoundStarts, CashoutBoundStep, PTL DEF CashoutSpec

-----------------------------------------------------------------------------
(* AccountLock. *)

(* The inductive invariant. *)

Call == [pc : Stages, session : Sessions \cup {NoSession}, at : Nat]

LockData ==
  /\ call \in [Calls -> Call]
  /\ held \in [Sessions -> [Locks -> Nat]]
  /\ sequence \in Nat

Holding == {"load", "submit", "query", "unlock"}

\* A call has a session of its instance from its connect to its end, and the lock in
\* that session from then on, unless the session is dead.
CallFits(c) ==
  /\ call[c].session = NoSession <=> call[c].pc \in {"idle", "connect", "ended"}
  /\ call[c].session # NoSession => call[c].session[1] = Home[c]
  /\ call[c].pc \in {"load", "submit"} => c \notin Jobs
  /\ call[c].pc = "query" => c \in Jobs
  /\ call[c].pc \in Holding /\ call[c].session \notin dead =>
       held[call[c].session][LockOf(c)] # 0

OwnSessions ==
  \A c, d \in Calls : call[c].session = call[d].session /\ call[c].session # NoSession => c = d

OneHolder ==
  \A l \in Locks, s, t \in Sessions : held[s][l] # 0 /\ held[t][l] # 0 => s = t

DeadHoldNothing == \A s \in Sessions, l \in Locks : s \in dead => held[s][l] = 0

\* Without the faults that can cause a collision, whoever submits has the account's
\* last sequence number.
Quiet == faults.kinds \cap {"session", "verdict", "crash"} = {}

Orderly ==
  Quiet => /\ dead = {} /\ floating = {} /\ ~refused
           /\ \A c \in Calls : call[c].pc = "submit" => call[c].at = sequence

\* Without a failed unlock, every lock that is held is the lock of a call.
HeldBy(c, s, l) == call[c].session = s /\ call[c].pc \in Holding /\ LockOf(c) = l

Counted ==
  "unlock" \notin faults.kinds => \A s \in Sessions, l \in Locks :
    /\ held[s][l] \in {0, 1}
    /\ held[s][l] = 1 => \E c \in Calls : HeldBy(c, s, l)

LockIInv ==
  /\ LockData
  /\ \A c \in Calls : CallFits(c)
  /\ OwnSessions /\ OneHolder /\ DeadHoldNothing
  /\ Orderly /\ Counted

-----------------------------------------------------------------------------

\* The sign of no session is no session.
LEMMA NoSessionIsNone == NoSession \notin Sessions
<1>1. ASSUME NEW s \in Sessions PROVE s # NoSession
  <2>1. PICK i \in Instances, n \in 1..PoolSize : s = <<i, n>>
    BY DEF Sessions
  <2> QED
    BY <2>1 DEF NoSession
<1> QED
  BY <1>1

\* What an account is locked by is a lock.
LEMMA LockIs == \A c : LockOf(c) \in Locks
BY DEF LockOf, Locks

\* What is known of a call.
LEMMA CallIs ==
  ASSUME LockIInv, NEW c \in Calls
  PROVE  /\ call[c] \in Call /\ CallFits(c)
         /\ call[c].session # NoSession => call[c].session \in Sessions
BY DEF LockIInv, LockData, Call

\* The initial states.
LEMMA LockStarts == LockInit => LockIInv
<1> SUFFICES ASSUME LockInit PROVE LockIInv
  OBVIOUS
<1>1. LockData
  BY DEF LockInit, LockData, Call, Stages
<1>2. \A c \in Calls : CallFits(c)
  BY DEF LockInit, CallFits, Holding
<1>3. OwnSessions /\ OneHolder /\ DeadHoldNothing
  BY DEF LockInit, OwnSessions, OneHolder, DeadHoldNothing
<1>4. Orderly /\ Counted
  BY DEF LockInit, Orderly, Counted
<1> QED
  BY <1>1, <1>2, <1>3, <1>4 DEF LockIInv

\* A call goes on in the session it has, or in an idle one, or drops it; the locks
\* stay as they are.
LEMMA CallMoves ==
  ASSUME LockIInv, NEW c \in Calls, NEW next \in Call, call' = [call EXCEPT ![c] = next],
         UNCHANGED held, dead' \subseteq dead, sequence' \in Nat,
         next.session = NoSession <=> next.pc \in {"idle", "connect", "ended"},
         next.session # NoSession => next.session[1] = Home[c],
         next.pc \in {"load", "submit"} => c \notin Jobs,
         next.pc = "query" => c \in Jobs,
         \/ next.session = call[c].session
         \/ next.session # NoSession /\ \A d \in Calls : call[d].session # next.session
         \/ next.session = NoSession,
         next.pc \in Holding => call[c].pc \in Holding /\ next.session = call[c].session,
         \A s \in dead \ dead' : s = call[c].session /\ next.session = NoSession,
         Orderly',
         "unlock" \notin faults'.kinds => "unlock" \notin faults.kinds
           /\ (call[c].pc \in Holding => \/ next.pc \in Holding
                                         \/ call[c].session \in dead)
  PROVE  LockIInv'
<1>1. /\ call \in [Calls -> Call] /\ call'[c] = next
      /\ \A d \in Calls : d # c => call'[d] = call[d]
  BY DEF LockIInv, LockData
<1>2. LockData'
  BY DEF LockIInv, LockData
<1>3. ASSUME NEW d \in Calls PROVE CallFits(d)'
  <2>1. CallFits(d) /\ CallFits(c)
    BY CallIs
  <2>2. CASE d = c
    BY <1>1, <2>1, <2>2 DEF CallFits, Holding
  <2>3. CASE d # c
    <3>1. call[d].session \in dead => call[d].session \in dead' \/ call[d].session = NoSession
      BY <2>3 DEF LockIInv, OwnSessions
    <3> QED
      BY <1>1, <2>1, <2>3, <3>1 DEF CallFits, Holding
  <2> QED
    BY <2>2, <2>3
<1>4. OwnSessions'
  BY <1>1 DEF LockIInv, OwnSessions
<1>5. OneHolder' /\ DeadHoldNothing'
  BY DEF LockIInv, OneHolder, DeadHoldNothing
<1>6. Counted'
  <2> SUFFICES ASSUME "unlock" \notin faults'.kinds, NEW s \in Sessions, NEW l \in Locks
               PROVE  /\ held[s][l] \in {0, 1}
                      /\ held[s][l] = 1 => \E d \in Calls : HeldBy(d, s, l)'
    BY DEF Counted
  <2>1. /\ held[s][l] \in {0, 1}
        /\ held[s][l] = 1 => \E d \in Calls : HeldBy(d, s, l)
    BY DEF LockIInv, Counted
  <2>2. ASSUME NEW d \in Calls, HeldBy(d, s, l), held[s][l] = 1 PROVE HeldBy(d, s, l)'
    <3>1. s \notin dead
      BY <2>2 DEF LockIInv, DeadHoldNothing
    <3>2. CASE d # c
      BY <1>1, <2>2, <3>2 DEF HeldBy, LockOf
    <3>3. CASE d = c
      BY <1>1, <2>2, <3>1, <3>3 DEF HeldBy, LockOf
    <3> QED
      BY <3>2, <3>3
  <2> QED
    BY <2>1, <2>2
<1> QED
  BY <1>2, <1>3, <1>4, <1>5, <1>6 DEF LockIInv

-----------------------------------------------------------------------------
(* One lemma per step. *)

\* The pool and the waits.
LEMMA WaitKeeps ==
  ASSUME LockIInv, NEW c \in Calls, Begin(c) \/ Connect(c) \/ ConnectTimeout(c)
  PROVE  LockIInv'
<1>1. call[c] \in Call /\ CallFits(c) /\ sequence \in Nat
  BY CallIs DEF LockIInv, LockData
<1>2. UNCHANGED <<held, dead, sequence, floating, refused, faults>>
  BY DEF Begin, Connect, ConnectTimeout
<1>3. ASSUME NEW next \in Call, call' = [call EXCEPT ![c] = next], next.pc # "submit"
      PROVE  Orderly'
  BY <1>2, <1>3 DEF LockIInv, LockData, Orderly, Quiet
<1>4. CASE Begin(c) \/ ConnectTimeout(c)
  <2>1. PICK pc \in {"connect", "ended"} : Enter(c, pc) /\ call[c].pc \in {"idle", "connect"}
    BY <1>4 DEF Begin, ConnectTimeout
  <2> DEFINE next == [call[c] EXCEPT !.pc = pc]
  <2>2. call' = [call EXCEPT ![c] = next]
    BY <2>1 DEF Enter
  <2>3. /\ next \in Call /\ next.pc = pc /\ next.session = call[c].session
        /\ call[c].session = NoSession
    BY <1>1, <2>1 DEF Call, Stages, CallFits
  <2> HIDE DEF next
  <2> QED
    BY <1>1, <1>2, <1>3, <2>1, <2>2, <2>3, CallMoves DEF Holding
<1>5. CASE Connect(c)
  <2>1. PICK s \in Idle(Home[c]) : call' = [call EXCEPT ![c].pc = "lock", ![c].session = s]
    BY <1>5 DEF Connect
  <2>2. /\ s \in Sessions /\ s[1] = Home[c] /\ s # NoSession
        /\ \A d \in Calls : call[d].session # s
    <3>1. Home[c] \in Instances
      BY DEF Instances
    <3>2. s \in {Home[c]} \X (1..PoolSize)
      BY <2>1 DEF Idle
    <3>3. s \in Sessions /\ s[1] = Home[c]
      BY <3>1, <3>2 DEF Sessions
    <3> QED
      BY <2>1, <3>3, NoSessionIsNone DEF Idle, InUse
  <2> DEFINE next == [call[c] EXCEPT !.pc = "lock", !.session = s]
  <2>3. call' = [call EXCEPT ![c] = next]
    BY <2>1
  <2>4. next \in Call /\ next.pc = "lock" /\ next.session = s
    BY <1>1, <2>2 DEF Call, Stages
  <2>5. call[c].pc = "connect"
    BY <1>5 DEF Connect
  <2> HIDE DEF next
  <2> QED
    BY <1>1, <1>2, <1>3, <2>2, <2>3, <2>4, <2>5, CallMoves DEF Holding
<1> QED
  BY <1>4, <1>5

\* What runs under the lock, but for the submission.
LEMMA WorkKeeps ==
  ASSUME LockIInv, NEW c \in Calls,
         Load(c) \/ GiveUp(c) \/ NoVerdict(c) \/ Query(c) \/ QueryTimeout(c)
  PROVE  LockIInv'
<1>1. call[c] \in Call /\ CallFits(c) /\ sequence \in Nat /\ call \in [Calls -> Call]
  BY CallIs DEF LockIInv, LockData
<1>2. UNCHANGED <<held, dead, sequence, refused>>
  BY DEF Load, GiveUp, NoVerdict, Query, QueryTimeout
<1>3. faults.kinds \subseteq faults'.kinds
  BY DEF Load, GiveUp, NoVerdict, Query, QueryTimeout, Fault
<1>4. CASE Load(c)
  <2> DEFINE next == [call[c] EXCEPT !.pc = "submit", !.at = sequence]
  <2>1. /\ call' = [call EXCEPT ![c] = next] /\ call[c].pc = "load"
        /\ UNCHANGED <<floating, faults>>
    BY <1>4 DEF Load
  <2>2. /\ next \in Call /\ next.pc = "submit" /\ next.session = call[c].session
        /\ next.at = sequence
    BY <1>1 DEF Call, Stages
  <2> HIDE DEF next
  <2>3. Orderly'
    BY <1>1, <1>2, <2>1, <2>2 DEF LockIInv, Orderly, Quiet
  <2> QED
    BY <1>1, <1>2, <2>1, <2>2, <2>3, CallMoves DEF Holding, CallFits
<1>5. CASE GiveUp(c) \/ NoVerdict(c) \/ Query(c) \/ QueryTimeout(c)
  <2> DEFINE next == [call[c] EXCEPT !.pc = "unlock"]
  <2>1. /\ call' = [call EXCEPT ![c] = next] /\ call[c].pc \in {"load", "submit", "query"}
        /\ UNCHANGED <<floating, faults>> \/ "verdict" \in faults'.kinds
    BY <1>5 DEF GiveUp, NoVerdict, Query, QueryTimeout, Enter, Fault
  <2>2. next \in Call /\ next.pc = "unlock" /\ next.session = call[c].session
    BY <1>1 DEF Call, Stages
  <2> HIDE DEF next
  <2>3. Orderly'
    BY <1>1, <1>2, <2>1, <2>2 DEF LockIInv, Orderly, Quiet
  <2> QED
    BY <1>1, <1>2, <1>3, <2>1, <2>2, <2>3, CallMoves DEF Holding, CallFits
<1> QED
  BY <1>4, <1>5

\* Two calls that submit at a time would hold the account's lock in two sessions.
LEMMA SubmitAlone ==
  ASSUME LockIInv, Quiet, NEW c \in Calls, NEW d \in Calls,
         call[c].pc = "submit", call[d].pc = "submit"
  PROVE  c = d
<1>1. CallFits(c) /\ CallFits(d) /\ dead = {}
  BY CallIs DEF LockIInv, Orderly
<1>2. /\ call[c].session # NoSession /\ call[d].session # NoSession
      /\ LockOf(c) = "account" /\ LockOf(d) = "account"
  BY <1>1 DEF CallFits, LockOf
<1>3. held[call[c].session]["account"] # 0 /\ held[call[d].session]["account"] # 0
  BY <1>1, <1>2 DEF CallFits, Holding
<1>4. call[c].session = call[d].session
  BY <1>2, <1>3, CallIs DEF LockIInv, OneHolder, Locks
<1> QED
  BY <1>2, <1>4 DEF LockIInv, OwnSessions

\* A transaction is submitted with the number that was read.
LEMMA SubmitKeeps ==
  ASSUME LockIInv, NEW c \in Calls, Submit(c)
  PROVE  LockIInv'
<1>1. call[c] \in Call /\ CallFits(c) /\ sequence \in Nat /\ call \in [Calls -> Call]
  BY CallIs DEF LockIInv, LockData
<1> DEFINE next == [call[c] EXCEPT !.pc = "unlock"]
<1>2. /\ call' = [call EXCEPT ![c] = next] /\ call[c].pc = "submit"
      /\ UNCHANGED <<held, dead, floating, faults>>
      /\ sequence' \in {sequence, sequence + 1}
      /\ call[c].at = sequence => refused' = refused
  BY DEF Submit, Enter, AfterSubmit
<1>3. next \in Call /\ next.pc = "unlock" /\ next.session = call[c].session
  BY <1>1 DEF Call, Stages
<1> HIDE DEF next
<1>4. ASSUME Quiet PROVE \A d \in Calls : call'[d].pc # "submit"
  BY <1>1, <1>2, <1>3, <1>4, SubmitAlone
<1>5. Orderly'
  BY <1>2, <1>4 DEF LockIInv, Orderly, Quiet
<1>6. sequence' \in Nat
  BY <1>1, <1>2
<1> QED
  BY <1>1, <1>2, <1>3, <1>5, <1>6, CallMoves DEF Holding, CallFits

\* A call without the lock, or whose unlock has failed, drops its session.
LEMMA DropKeeps ==
  ASSUME LockIInv, NEW c \in Calls, NotLocked(c) \/ UnlockFails(c)
  PROVE  LockIInv'
<1>1. call[c] \in Call /\ CallFits(c) /\ sequence \in Nat /\ call \in [Calls -> Call]
  BY CallIs DEF LockIInv, LockData
<1> DEFINE next == [call[c] EXCEPT !.pc = "ended", !.session = NoSession]
<1>2. /\ call' = [call EXCEPT ![c] = next] /\ dead' = dead \ {call[c].session}
      /\ UNCHANGED <<held, sequence, floating, refused>>
      /\ faults.kinds \subseteq faults'.kinds
      /\ call[c].pc = "lock" \/ "unlock" \in faults'.kinds
  <2>1. Release(c) /\ UNCHANGED <<held, sequence, floating, refused>>
    BY DEF NotLocked, UnlockFails
  <2>2. CASE NotLocked(c)
    BY <2>1, <2>2 DEF NotLocked, Release
  <2>3. CASE UnlockFails(c)
    <3>1. faults' = [count |-> faults.count + 1, kinds |-> faults.kinds \cup {"unlock"}]
      BY <2>3 DEF UnlockFails, Fault
    <3> QED
      BY <2>1, <3>1 DEF Release
  <2> QED
    BY <2>2, <2>3
<1>3. next \in Call /\ next.pc = "ended" /\ next.session = NoSession
  BY <1>1 DEF Call, Stages
<1> HIDE DEF next
<1>4. Orderly'
  BY <1>1, <1>2, <1>3 DEF LockIInv, Orderly, Quiet
<1> QED
  BY <1>1, <1>2, <1>3, <1>4, CallMoves DEF Holding

\* The lock is given only when no other session has it.
LEMMA LockKeeps ==
  ASSUME LockIInv, NEW c \in Calls, Lock(c)
  PROVE  LockIInv'
<1>1. /\ call[c] \in Call /\ CallFits(c) /\ call \in [Calls -> Call]
      /\ held \in [Sessions -> [Locks -> Nat]] /\ LockOf(c) \in Locks
  BY CallIs, LockIs DEF LockIInv, LockData
<1>2. PICK s \in Sessions : s = call[c].session
  BY <1>1, CallIs DEF Lock, CallFits
<1> DEFINE next == [call[c] EXCEPT !.pc = IF c \in Jobs THEN "query" ELSE "load"]
<1>3. /\ call[c].pc = "lock" /\ s \notin dead
      /\ \A t \in Sessions : t # s => held[t][LockOf(c)] = 0
      /\ held' = [held EXCEPT ![s][LockOf(c)] = held[s][LockOf(c)] + 1]
      /\ call' = [call EXCEPT ![c] = next]
      /\ UNCHANGED <<dead, sequence, floating, refused, faults>>
  BY <1>2 DEF Lock, Enter, Free
<1>4. /\ next \in Call /\ next.pc \in {"load", "query"} /\ next.session = s
      /\ next.pc = "load" => c \notin Jobs
      /\ next.pc = "query" => c \in Jobs
  BY <1>1, <1>2 DEF Call, Stages
<1> HIDE DEF next
<1>5. /\ call'[c] = next /\ \A d \in Calls : d # c => call'[d] = call[d]
      /\ held' \in [Sessions -> [Locks -> Nat]]
      /\ held'[s][LockOf(c)] = held[s][LockOf(c)] + 1
      /\ \A t \in Sessions, l \in Locks :
           t # s \/ l # LockOf(c) => held'[t][l] = held[t][l]
  BY <1>1, <1>3
<1>6. LockData'
  BY <1>1, <1>3, <1>4, <1>5 DEF LockIInv, LockData
<1>7. held[s][LockOf(c)] \in Nat
  BY <1>1
<1>8. ASSUME NEW d \in Calls PROVE CallFits(d)'
  <2>1. CallFits(d) /\ (call[d].session # NoSession => call[d].session \in Sessions)
    BY CallIs
  <2>2. CASE d = c
    BY <1>1, <1>2, <1>4, <1>5, <1>7, <2>2, NoSessionIsNone DEF CallFits
  <2>3. CASE d # c
    <3>1. call[d].session # s
      BY <1>2, <2>3, NoSessionIsNone DEF LockIInv, OwnSessions
    <3> QED
      BY <1>3, <1>5, <2>1, <2>3, <3>1, LockIs DEF CallFits, Holding
  <2> QED
    BY <2>2, <2>3
<1>9. OwnSessions'
  BY <1>2, <1>4, <1>5 DEF LockIInv, OwnSessions
<1>10. OneHolder' /\ DeadHoldNothing'
  BY <1>3, <1>5 DEF LockIInv, OneHolder, DeadHoldNothing
<1>11. Orderly'
  BY <1>3, <1>4, <1>5 DEF LockIInv, Orderly, Quiet
<1>12. Counted'
  <2> SUFFICES ASSUME "unlock" \notin faults.kinds, NEW t \in Sessions, NEW l \in Locks
               PROVE  /\ held'[t][l] \in {0, 1}
                      /\ held'[t][l] = 1 => \E d \in Calls : HeldBy(d, t, l)'
    BY <1>3 DEF Counted
  <2>1. /\ held[t][l] \in {0, 1}
        /\ held[t][l] = 1 => \E d \in Calls : HeldBy(d, t, l)
    BY DEF LockIInv, Counted
  <2>2. \A d \in Calls : HeldBy(d, t, l) => d # c
    BY <1>3 DEF HeldBy, Holding
  <2>3. \A d \in Calls : HeldBy(d, t, l) => HeldBy(d, t, l)'
    BY <1>5, <2>2 DEF HeldBy, LockOf
  <2>4. CASE t # s \/ l # LockOf(c)
    BY <1>5, <2>1, <2>3, <2>4
  <2>5. CASE t = s /\ l = LockOf(c)
    <3>1. ~ \E d \in Calls : HeldBy(d, t, l)
      BY <1>2, <2>2, <2>5, NoSessionIsNone DEF HeldBy, LockIInv, OwnSessions
    <3>2. held'[t][l] = 1
      BY <1>5, <2>1, <2>5, <3>1
    <3>3. HeldBy(c, t, l)'
      BY <1>4, <1>5, <2>5 DEF HeldBy, Holding, LockOf
    <3> QED
      BY <3>2, <3>3
  <2> QED
    BY <2>4, <2>5
<1> QED
  BY <1>6, <1>8, <1>9, <1>10, <1>11, <1>12 DEF LockIInv

\* The lock is given back, unless it went with its session.
LEMMA UnlockKeeps ==
  ASSUME LockIInv, NEW c \in Calls, Unlock(c)
  PROVE  LockIInv'
<1>1. /\ call[c] \in Call /\ CallFits(c) /\ call \in [Calls -> Call]
      /\ held \in [Sessions -> [Locks -> Nat]] /\ LockOf(c) \in Locks
  BY CallIs, LockIs DEF LockIInv, LockData
<1>2. PICK s \in Sessions : s = call[c].session
  BY <1>1, CallIs DEF Unlock, CallFits
<1> DEFINE next == [call[c] EXCEPT !.pc = "ended", !.session = NoSession]
<1>3. /\ call[c].pc = "unlock" /\ call' = [call EXCEPT ![c] = next] /\ dead' = dead \ {s}
      /\ UNCHANGED <<sequence, floating, refused, faults>>
  BY <1>2 DEF Unlock, Release
<1>4. next \in Call /\ next.pc = "ended" /\ next.session = NoSession
  BY <1>1 DEF Call, Stages
<1> HIDE DEF next
<1>5. call'[c] = next /\ \A d \in Calls : d # c => call'[d] = call[d]
  BY <1>1, <1>3
<1>6. /\ held' \in [Sessions -> [Locks -> Nat]]
      /\ \A t \in Sessions, l \in Locks :
           t # s \/ l # LockOf(c) => held'[t][l] = held[t][l]
      /\ \A t \in Sessions, l \in Locks : held[t][l] = 0 => held'[t][l] = 0
      /\ s \notin dead => held'[s][LockOf(c)] = IF held[s][LockOf(c)] > 0
                                                THEN held[s][LockOf(c)] - 1 ELSE 0
  <2>1. CASE s \in dead
    BY <1>1, <1>2, <2>1 DEF Unlock
  <2>2. CASE s \notin dead
    <3> DEFINE n == IF held[s][LockOf(c)] > 0 THEN held[s][LockOf(c)] - 1 ELSE 0
    <3>1. held' = [held EXCEPT ![s][LockOf(c)] = n]
      BY <1>2, <2>2 DEF Unlock
    <3>2. n \in Nat /\ (held[s][LockOf(c)] = 0 => n = 0)
      BY <1>1
    <3> HIDE DEF n
    <3>3. /\ held' \in [Sessions -> [Locks -> Nat]] /\ held'[s][LockOf(c)] = n
          /\ \A t \in Sessions, l \in Locks :
               t # s \/ l # LockOf(c) => held'[t][l] = held[t][l]
      BY <1>1, <3>1, <3>2
    <3> QED
      BY <2>2, <3>2, <3>3 DEF n
  <2> QED
    BY <2>1, <2>2
<1>7. LockData'
  BY <1>1, <1>3, <1>4, <1>6 DEF LockIInv, LockData
<1>8. ASSUME NEW d \in Calls PROVE CallFits(d)'
  <2>1. CallFits(d) /\ (call[d].session # NoSession => call[d].session \in Sessions)
    BY CallIs
  <2>2. CASE d = c
    BY <1>4, <1>5, <2>2 DEF CallFits, Holding
  <2>3. CASE d # c
    <3>1. call[d].session # s
      BY <1>2, <2>3, NoSessionIsNone DEF LockIInv, OwnSessions
    <3> QED
      BY <1>3, <1>5, <1>6, <2>1, <2>3, <3>1, LockIs DEF CallFits, Holding
  <2> QED
    BY <2>2, <2>3
<1>9. OwnSessions'
  BY <1>4, <1>5 DEF LockIInv, OwnSessions
<1>10. OneHolder' /\ DeadHoldNothing'
  BY <1>3, <1>6 DEF LockIInv, OneHolder, DeadHoldNothing
<1>11. Orderly'
  BY <1>3, <1>4, <1>5 DEF LockIInv, Orderly, Quiet
<1>12. Counted'
  <2> SUFFICES ASSUME "unlock" \notin faults.kinds, NEW t \in Sessions, NEW l \in Locks
               PROVE  /\ held'[t][l] \in {0, 1}
                      /\ held'[t][l] = 1 => \E d \in Calls : HeldBy(d, t, l)'
    BY <1>3 DEF Counted
  <2>1. /\ held[t][l] \in {0, 1}
        /\ held[t][l] = 1 => \E d \in Calls : HeldBy(d, t, l)
    BY DEF LockIInv, Counted
  <2>2. CASE t # s \/ l # LockOf(c)
    <3>1. ASSUME NEW d \in Calls, HeldBy(d, t, l) PROVE HeldBy(d, t, l)'
      <4>1. d # c
        BY <1>2, <2>2, <3>1 DEF HeldBy
      <4> QED
        BY <1>5, <3>1, <4>1 DEF HeldBy, LockOf
    <3> QED
      BY <1>6, <2>1, <2>2, <3>1
  <2>3. CASE t = s /\ l = LockOf(c)
    <3>1. held'[s][LockOf(c)] = 0
      BY <1>1, <1>6, <2>1, <2>3 DEF LockIInv, DeadHoldNothing
    <3> QED
      BY <2>3, <3>1
  <2> QED
    BY <2>2, <2>3
<1> QED
  BY <1>7, <1>8, <1>9, <1>10, <1>11, <1>12 DEF LockIInv

\* A session goes, for one of three reasons: it was idle, the database ended it, or its
\* instance has stopped, and the calls of it.
LEMMA IdleOutKeeps ==
  ASSUME LockIInv, NEW s \in Sessions, IdleOut(s)
  PROVE  LockIInv'
<1>1. held \in [Sessions -> [Locks -> Nat]]
  BY DEF LockIInv, LockData
<1>2. /\ held' = [held EXCEPT ![s] = NoLocks] /\ ~InUse(s)
      /\ UNCHANGED <<call, dead, sequence, floating, refused, faults>>
  BY DEF IdleOut
<1>3. /\ held' \in [Sessions -> [Locks -> Nat]]
      /\ \A l \in Locks : held'[s][l] = 0
      /\ \A t \in Sessions : t # s => held'[t] = held[t]
  BY <1>1, <1>2 DEF NoLocks
<1>4. LockData' /\ OwnSessions' /\ Orderly'
  BY <1>2, <1>3 DEF LockIInv, LockData, OwnSessions, Orderly, Quiet
<1>5. ASSUME NEW d \in Calls PROVE CallFits(d)'
  <2>1. CallFits(d) /\ (call[d].session # NoSession => call[d].session \in Sessions)
    BY CallIs
  <2>2. call[d].session # s
    BY <1>2 DEF InUse
  <2> QED
    BY <1>2, <1>3, <2>1, <2>2 DEF CallFits, Holding
<1>6. OneHolder' /\ DeadHoldNothing'
  BY <1>2, <1>3 DEF LockIInv, OneHolder, DeadHoldNothing
<1>7. Counted'
  <2>1. ASSUME NEW t \in Sessions, NEW l \in Locks, NEW d \in Calls, HeldBy(d, t, l)
        PROVE  HeldBy(d, t, l)' /\ t # s
    BY <1>2, <2>1 DEF HeldBy, InUse, LockOf
  <2> QED
    BY <1>2, <1>3, <2>1 DEF LockIInv, Counted
<1> QED
  BY <1>4, <1>5, <1>6, <1>7 DEF LockIInv

\* A session is lost, and its locks with it.
LEMMA LoseKeeps ==
  ASSUME LockIInv, NEW s \in Sessions, LoseSession(s)
  PROVE  LockIInv'
<1>1. held \in [Sessions -> [Locks -> Nat]]
  BY DEF LockIInv, LockData
<1>2. /\ held' = [held EXCEPT ![s] = NoLocks] /\ dead' = dead \cup {s}
      /\ UNCHANGED <<call, sequence, floating, refused>>
      /\ faults'.kinds = faults.kinds \cup {"session"}
  BY DEF LoseSession, Fault
<1>3. /\ held' \in [Sessions -> [Locks -> Nat]]
      /\ \A l \in Locks : held'[s][l] = 0
      /\ \A t \in Sessions : t # s => held'[t] = held[t]
  BY <1>1, <1>2 DEF NoLocks
<1>4. LockData' /\ OwnSessions' /\ Orderly'
  BY <1>2, <1>3 DEF LockIInv, LockData, OwnSessions, Orderly, Quiet
<1>5. ASSUME NEW d \in Calls PROVE CallFits(d)'
  <2>1. CallFits(d) /\ (call[d].session # NoSession => call[d].session \in Sessions)
    BY CallIs
  <2> QED
    BY <1>2, <1>3, <2>1 DEF CallFits, Holding, LockOf
<1>6. OneHolder' /\ DeadHoldNothing'
  BY <1>2, <1>3 DEF LockIInv, OneHolder, DeadHoldNothing
<1>7. Counted'
  <2>1. ASSUME NEW t \in Sessions, NEW l \in Locks, NEW d \in Calls, HeldBy(d, t, l)
        PROVE  HeldBy(d, t, l)'
    BY <1>2, <2>1 DEF HeldBy, LockOf
  <2> QED
    BY <1>2, <1>3, <2>1 DEF LockIInv, Counted
<1> QED
  BY <1>4, <1>5, <1>6, <1>7 DEF LockIInv

\* An instance stops.
LEMMA CrashKeeps ==
  ASSUME LockIInv, NEW i \in Instances, Crash(i)
  PROVE  LockIInv'
<1>1. call \in [Calls -> Call] /\ held \in [Sessions -> [Locks -> Nat]] /\ sequence \in Nat
  BY DEF LockIInv, LockData
<1> DEFINE ended == [pc |-> "ended", session |-> NoSession, at |-> 0]
<1>2. /\ call' = [c \in Calls |-> IF Home[c] = i /\ call[c].pc # "idle" THEN ended ELSE call[c]]
      /\ held' = [s \in Sessions |-> IF s[1] = i THEN NoLocks ELSE held[s]]
      /\ dead' = {s \in dead : s[1] # i}
      /\ sequence' = sequence
      /\ faults'.kinds = faults.kinds \cup {"crash"}
  BY DEF Crash, Fault
<1>3. ended \in Call /\ ended.pc = "ended" /\ ended.session = NoSession
  BY DEF Call, Stages
<1> HIDE DEF ended
<1>4. /\ \A c \in Calls : Home[c] = i => call'[c] = ended \/ (call'[c] = call[c] /\ call[c].pc = "idle")
      /\ \A c \in Calls : Home[c] # i => call'[c] = call[c]
      /\ \A s \in Sessions, l \in Locks : s[1] = i => held'[s][l] = 0
      /\ \A s \in Sessions : s[1] # i => held'[s] = held[s]
  BY <1>2 DEF NoLocks
<1>5. LockData'
  <2>1. call' \in [Calls -> Call]
    BY <1>1, <1>2, <1>3
  <2>2. held' \in [Sessions -> [Locks -> Nat]]
    BY <1>1, <1>2 DEF NoLocks
  <2> QED
    BY <1>1, <1>2, <2>1, <2>2 DEF LockData
<1>6. ASSUME NEW d \in Calls PROVE CallFits(d)'
  <2>1. CallFits(d) /\ (call[d].session # NoSession => call[d].session \in Sessions)
    BY CallIs
  <2>2. CASE Home[d] = i
    BY <1>3, <1>4, <2>1, <2>2 DEF CallFits, Holding
  <2>3. CASE Home[d] # i
    BY <1>2, <1>4, <2>1, <2>3 DEF CallFits, Holding
  <2> QED
    BY <2>2, <2>3
<1>7. OwnSessions'
  <2>1. \A d \in Calls : call'[d].session # NoSession => call'[d].session = call[d].session
    BY <1>3, <1>4
  <2> QED
    BY <2>1 DEF LockIInv, OwnSessions
<1>8. OneHolder' /\ DeadHoldNothing'
  BY <1>2, <1>4 DEF LockIInv, OneHolder, DeadHoldNothing
<1>9. Orderly'
  BY <1>2 DEF Orderly, Quiet
<1>10. Counted'
  <2> SUFFICES ASSUME "unlock" \notin faults.kinds, NEW s \in Sessions, NEW l \in Locks
               PROVE  /\ held'[s][l] \in {0, 1}
                      /\ held'[s][l] = 1 => \E d \in Calls : HeldBy(d, s, l)'
    BY <1>2 DEF Counted
  <2>1. /\ held[s][l] \in {0, 1}
        /\ held[s][l] = 1 => \E d \in Calls : HeldBy(d, s, l)
    BY DEF LockIInv, Counted
  <2>2. ASSUME s[1] # i, NEW d \in Calls, HeldBy(d, s, l) PROVE HeldBy(d, s, l)'
    <3>1. Home[d] # i
      BY <2>2, CallIs, NoSessionIsNone DEF HeldBy, CallFits
    <3> QED
      BY <1>4, <2>2, <3>1 DEF HeldBy, LockOf
  <2> QED
    BY <1>4, <2>1, <2>2
<1> QED
  BY <1>5, <1>6, <1>7, <1>8, <1>9, <1>10 DEF LockIInv

\* A transaction that was left without a verdict lands or dies.
LEMMA LandKeeps ==
  ASSUME LockIInv, NEW n \in floating, Settle(n)
  PROVE  LockIInv'
<1>1. /\ UNCHANGED <<call, held, dead, refused, faults>> /\ sequence' \in Nat /\ ~Quiet
  BY DEF Settle, LockIInv, LockData, Orderly
<1>2. LockData' /\ OwnSessions' /\ OneHolder' /\ DeadHoldNothing' /\ Counted'
  BY <1>1 DEF LockIInv, LockData, OwnSessions, OneHolder, DeadHoldNothing, Counted, HeldBy, LockOf
<1>3. Orderly'
  BY <1>1 DEF Orderly, Quiet
<1>4. \A c \in Calls : CallFits(c)'
  BY <1>1 DEF LockIInv, CallFits, Holding, LockOf
<1> QED
  BY <1>2, <1>3, <1>4 DEF LockIInv

-----------------------------------------------------------------------------
(* The theorems. *)

\* Every step.
LEMMA LockStep ==
  ASSUME LockIInv, [LockNext]_lockVars
  PROVE  LockIInv'
<1>1. CASE UNCHANGED lockVars
  <2>1. UNCHANGED <<call, held, dead, sequence, floating, refused, faults>>
    BY <1>1 DEF lockVars
  <2> QED
    BY <2>1 DEF LockIInv, LockData, OwnSessions, OneHolder, DeadHoldNothing, Counted, HeldBy, Orderly,
       Quiet, CallFits, LockOf
<1>2. ASSUME NEW c \in Calls,
             Begin(c) \/ Moves(c) \/ GiveUp(c) \/ NoVerdict(c) \/ UnlockFails(c)
      PROVE  LockIInv'
  BY <1>2, WaitKeeps, WorkKeeps, SubmitKeeps, DropKeeps, LockKeeps, UnlockKeeps DEF Moves
<1>3. CASE LockNext
  BY <1>2, <1>3, IdleOutKeeps, LoseKeeps, CrashKeeps, LandKeeps DEF LockNext
<1> QED
  BY <1>1, <1>3

\* The inductive invariant holds in every behaviour.
LEMMA LockInvariant == LockSpec => []LockIInv
BY LockStarts, LockStep, PTL DEF LockSpec

\* No transaction of an account is refused for its sequence number without a lost
\* session, a crash or a missing verdict (lib/stellar.ts under packages/database locks).
THEOREM SequenceNumbersDoNotCollide == LockSpec => []NoCollision
<1>1. LockIInv => NoCollision
  BY DEF LockIInv, Orderly, Quiet, NoCollision
<1> QED
  BY <1>1, LockInvariant, PTL

\* When the pool has more than one connection, not everybody who is under way waits,
\* unless an unlock has failed or one goes on with a lost session.
THEOREM SomebodyGetsOn ==
  ASSUME PoolSize # 1
  PROVE  LockSpec => []NotEveryoneWaits
<1>1. ASSUME LockIInv PROVE NotEveryoneWaits
  <2> DEFINE active == {c \in Calls : call[c].pc \notin {"idle", "ended"}}
  <2> SUFFICES ASSUME NEW c \in active, \A d \in active : Waits(d),
                      "unlock" \notin faults.kinds, dead = {}
               PROVE  FALSE
    BY DEF NotEveryoneWaits
  \* Nobody waits for a lock: the holder of the account's lock would not wait.
  <2>1. ASSUME NEW d \in Calls, call[d].pc = "lock" PROVE FALSE
    <3>1. d \in active /\ d \notin Jobs /\ ~Free(d) /\ LockOf(d) = "account"
      BY <2>1 DEF Waits, LockOf
    <3>2. PICK s \in Sessions : held[s]["account"] # 0
      BY <3>1 DEF Free
    <3>3. PICK h \in Calls : HeldBy(h, s, "account")
      BY <1>1, <3>2 DEF LockIInv, Counted, Locks
    <3>4. h \in active /\ h \notin Jobs /\ call[h].pc # "query"
      BY <1>1, <3>3, CallIs DEF HeldBy, Holding, LockOf, CallFits
    <3> QED
      BY <3>3, <3>4 DEF Waits, HeldBy, Holding
  \* So everybody waits for a connection, and who has one is a run of the job.
  <2>2. \A d \in active : call[d].pc \in {"connect", "query"} /\ Idle(Home[d]) = {}
    BY <2>1 DEF Waits
  <2>3. ASSUME NEW s \in Sessions, InUse(s)
        PROVE  \E d \in Calls : call[d].session = s /\ held[s]["job"] # 0
    <3>1. PICK d \in Calls : call[d].session = s
      BY <2>3 DEF InUse
    <3>2. CallFits(d) /\ s # NoSession
      BY <1>1, CallIs, NoSessionIsNone
    <3>3. d \in active /\ call[d].pc = "query"
      BY <2>2, <3>1, <3>2 DEF CallFits
    <3>4. LockOf(d) = "job"
      BY <3>2, <3>3 DEF CallFits, LockOf
    <3> QED
      BY <3>1, <3>2, <3>3, <3>4 DEF CallFits, Holding
  \* The first two connections of an instance are two, and have one holder.
  <2> DEFINE first == <<Home[c], 1>>  second == <<Home[c], 2>>
  <2>4. first \in Sessions /\ second \in Sessions /\ first # second
    BY LockAssumption DEF LockAssumption, Sessions, Instances
  <2>5. InUse(first) /\ InUse(second)
    <3>1. Idle(Home[c]) = {} /\ first \in {Home[c]} \X (1..PoolSize)
          /\ second \in {Home[c]} \X (1..PoolSize)
      BY <2>2, LockAssumption DEF LockAssumption
    <3> HIDE DEF first, second
    <3> QED
      BY <3>1 DEF Idle
  <2> HIDE DEF first, second
  <2>6. held[first]["job"] # 0 /\ held[second]["job"] # 0
    BY <2>3, <2>4, <2>5
  <2> QED
    BY <1>1, <2>4, <2>6 DEF LockIInv, OneHolder, Locks
<1> QED
  BY <1>1, LockInvariant, PTL

-----------------------------------------------------------------------------
(* What is counted stays within the number of calls. *)

\* Calls that have not sent their transaction, and calls that have come as far as
\* the lock.
Unsent == {c \in Calls : call[c].pc \in {"idle", "connect", "lock", "load", "submit"}}
Tried  == {c \in Calls : call[c].pc \in Holding \cup {"ended"}}

\* A call locks once, and moves the account's sequence number once: at its
\* submission, or when one without a verdict lands.
CallsBound ==
  /\ \A s \in Sessions, l \in Locks : held[s][l] <= Cardinality(Tried)
  /\ IsFiniteSet(floating) /\ floating \subseteq Numbers
  /\ sequence + Cardinality(floating) + Cardinality(Unsent) <= Cardinality(Calls)
  /\ \A c \in Calls : call[c].at <= sequence
  /\ dead \subseteq Sessions /\ refused \in BOOLEAN
  /\ faults \in [count : 0..MaxFaults, kinds : SUBSET Faults]

\* Sets of calls have no more members than there are calls.
LEMMA CallsAreCounted ==
  /\ IsFiniteSet(Calls) /\ Cardinality(Calls) \in Nat
  /\ \A S \in SUBSET Calls :
       /\ IsFiniteSet(S) /\ Cardinality(S) \in Nat /\ Cardinality(S) <= Cardinality(Calls)
       /\ \A T \in SUBSET S : Cardinality(T) <= Cardinality(S)
       /\ \A c \in S : Cardinality(S \ {c}) = Cardinality(S) - 1
<1>1. IsFiniteSet(Calls) /\ Cardinality(Calls) \in Nat
  BY LockAssumption, FS_CardinalityType DEF LockAssumption
<1>2. ASSUME NEW S \in SUBSET Calls
      PROVE  /\ IsFiniteSet(S) /\ Cardinality(S) \in Nat /\ Cardinality(S) <= Cardinality(Calls)
             /\ \A T \in SUBSET S : Cardinality(T) <= Cardinality(S)
             /\ \A c \in S : Cardinality(S \ {c}) = Cardinality(S) - 1
  <2>1. IsFiniteSet(S) /\ Cardinality(S) <= Cardinality(Calls)
    BY <1>1, FS_Subset
  <2>2. Cardinality(S) \in Nat
    BY <2>1, FS_CardinalityType
  <2>3. \A T \in SUBSET S : Cardinality(T) <= Cardinality(S)
    BY <2>1, FS_Subset
  <2>4. \A c \in S : Cardinality(S \ {c}) = Cardinality(S) - 1
    BY <2>1, FS_RemoveElement
  <2> QED
    BY <2>1, <2>2, <2>3, <2>4
<1> QED
  BY <1>1, <1>2

\* What the bound says in numbers.
LEMMA BoundIs ==
  ASSUME LockIInv, CallsBound
  PROVE  /\ sequence \in Nat /\ Cardinality(floating) \in Nat
         /\ Cardinality(Unsent) \in Nat /\ Cardinality(Tried) \in Nat
         /\ Cardinality(Calls) \in Nat /\ Cardinality(Tried) <= Cardinality(Calls)
         /\ Unsent \subseteq Calls /\ Tried \subseteq Calls
         /\ faults.count \in 0..MaxFaults /\ MaxFaults \in Nat
<1>1. Unsent \subseteq Calls /\ Tried \subseteq Calls
  BY DEF Unsent, Tried
<1> QED
  BY <1>1, CallsAreCounted, FS_CardinalityType, LockAssumption
  DEF LockIInv, LockData, CallsBound, LockAssumption

\* A fault is counted.
LEMMA FaultCounts ==
  ASSUME CallsBound, NEW kind \in Faults, Fault(kind)
  PROVE  faults' \in [count : 0..MaxFaults, kinds : SUBSET Faults]
BY LockAssumption DEF CallsBound, Fault, LockAssumption

\* A step that sends nothing and locks nothing: calls only come nearer to their end.
LEMMA BoundStays ==
  ASSUME LockIInv, CallsBound, LockIInv',
         \A c \in Calls : /\ call[c].pc \in Holding \cup {"ended"}
                               => call'[c].pc \in Holding \cup {"ended"}
                          /\ call'[c].pc \in {"idle", "connect", "lock", "load", "submit"}
                               => call[c].pc \in {"idle", "connect", "lock", "load", "submit"}
                          /\ call'[c].at <= sequence,
         \A s \in Sessions, l \in Locks : held'[s][l] <= held[s][l],
         dead' \subseteq Sessions, UNCHANGED <<sequence, floating, refused>>,
         faults' \in [count : 0..MaxFaults, kinds : SUBSET Faults]
  PROVE  CallsBound'
<1>1. Tried \subseteq Tried' /\ Unsent' \subseteq Unsent /\ Tried' \subseteq Calls /\ Unsent \subseteq Calls
  BY DEF Tried, Unsent
<1>2. /\ Cardinality(Tried) <= Cardinality(Tried') /\ Cardinality(Unsent') <= Cardinality(Unsent)
      /\ Cardinality(Tried') \in Nat /\ Cardinality(Unsent') \in Nat
  BY <1>1, CallsAreCounted
<1>3. \A s \in Sessions, l \in Locks : held[s][l] \in Nat /\ held'[s][l] \in Nat
  BY DEF LockIInv, LockData
<1>4. \A s \in Sessions, l \in Locks : held'[s][l] <= Cardinality(Tried')
  BY <1>2, <1>3, BoundIs DEF CallsBound
<1>5. sequence' + Cardinality(floating') + Cardinality(Unsent') <= Cardinality(Calls)
  BY <1>2, BoundIs DEF CallsBound
<1>6. IsFiniteSet(floating') /\ floating' \subseteq Numbers /\ refused' \in BOOLEAN
  BY DEF CallsBound
<1>7. \A c \in Calls : call'[c].at <= sequence'
  OBVIOUS
<1> QED
  BY <1>4, <1>5, <1>6, <1>7 DEF CallsBound

\* One call goes on and sends nothing.
LEMMA CallGoesOn ==
  ASSUME LockIInv, CallsBound, LockIInv', NEW c \in Calls, NEW next \in Call,
         call' = [call EXCEPT ![c] = next],
         call[c].pc \in Holding \cup {"ended"} => next.pc \in Holding \cup {"ended"},
         next.pc \in {"idle", "connect", "lock", "load", "submit"}
           => call[c].pc \in {"idle", "connect", "lock", "load", "submit"},
         next.at \in {call[c].at, sequence},
         \A s \in Sessions, l \in Locks : held'[s][l] <= held[s][l],
         dead' \subseteq Sessions, UNCHANGED <<sequence, floating, refused>>,
         faults' \in [count : 0..MaxFaults, kinds : SUBSET Faults]
  PROVE  CallsBound'
<1>1. call'[c] = next /\ \A d \in Calls : d # c => call'[d] = call[d]
  BY DEF LockIInv, LockData
<1>2. sequence \in Nat /\ \A d \in Calls : call[d].at <= sequence
  BY DEF CallsBound, LockIInv, LockData
<1>3. \A d \in Calls : call'[d].at <= sequence
  BY <1>1, <1>2
<1> QED
  BY <1>1, <1>3, BoundStays

\* The steps of a call that sends nothing and locks nothing.
LEMMA QuietCallBound ==
  ASSUME LockIInv, CallsBound, LockIInv', NEW c \in Calls,
         \/ Begin(c) \/ Connect(c) \/ ConnectTimeout(c) \/ NotLocked(c) \/ Load(c)
         \/ Query(c) \/ QueryTimeout(c) \/ Unlock(c) \/ GiveUp(c) \/ UnlockFails(c)
  PROVE  CallsBound'
<1>1. call[c] \in Call /\ held \in [Sessions -> [Locks -> Nat]] /\ sequence \in Nat
  BY DEF LockIInv, LockData
<1>2. dead \subseteq Sessions /\ faults \in [count : 0..MaxFaults, kinds : SUBSET Faults]
  BY DEF CallsBound
<1>3. \A s \in Sessions, l \in Locks : held[s][l] <= held[s][l]
  BY <1>1
<1>4. CASE Begin(c) \/ ConnectTimeout(c) \/ Query(c) \/ QueryTimeout(c) \/ GiveUp(c)
  <2>1. PICK pc \in {"connect", "ended", "unlock"} :
          /\ call' = [call EXCEPT ![c].pc = pc]
          /\ call[c].pc \in {"idle", "connect", "query", "load", "submit"}
          /\ pc = "connect" => call[c].pc = "idle"
          /\ UNCHANGED <<held, dead, sequence, floating, refused, faults>>
    BY <1>4 DEF Begin, ConnectTimeout, Query, QueryTimeout, GiveUp, Enter
  <2>2. call[c].pc \in Holding \cup {"ended"} => pc \in Holding \cup {"ended"}
    BY <2>1 DEF Holding
  <2> DEFINE next == [call[c] EXCEPT !.pc = pc]
  <2>3. next \in Call /\ next.pc = pc /\ next.at = call[c].at
    BY <1>1 DEF Call, Stages
  <2>4. call' = [call EXCEPT ![c] = next]
    BY <2>1
  <2> HIDE DEF next
  <2> QED
    BY <1>2, <1>3, <2>1, <2>2, <2>3, <2>4, CallGoesOn
<1>5. CASE Connect(c)
  <2>1. PICK s \in Idle(Home[c]) :
          call' = [call EXCEPT ![c].pc = "lock", ![c].session = s]
    BY <1>5 DEF Connect
  <2>2. s \in Sessions
    BY DEF Idle, Sessions, Instances
  <2>3. /\ call[c].pc = "connect" /\ UNCHANGED <<held, dead, sequence, floating, refused, faults>>
    BY <1>5 DEF Connect
  <2> DEFINE next == [call[c] EXCEPT !.pc = "lock", !.session = s]
  <2>4. next \in Call /\ next.pc = "lock" /\ next.at = call[c].at
    BY <1>1, <2>2 DEF Call, Stages
  <2>5. call' = [call EXCEPT ![c] = next]
    BY <2>1
  <2> HIDE DEF next
  <2>6. call[c].pc \notin Holding \cup {"ended"}
    BY <2>3 DEF Holding
  <2> QED
    BY <1>2, <1>3, <2>3, <2>4, <2>5, <2>6, CallGoesOn
<1>6. ASSUME call[c].pc \in {"lock", "unlock"}, Release(c),
              \A s \in Sessions, l \in Locks : held'[s][l] <= held[s][l],
              UNCHANGED <<sequence, floating, refused>>,
              faults' \in [count : 0..MaxFaults, kinds : SUBSET Faults]
       PROVE  CallsBound'
  <2> DEFINE next == [call[c] EXCEPT !.pc = "ended", !.session = NoSession]
  <2>1. next \in Call /\ next.pc = "ended" /\ next.at = call[c].at
    BY <1>1 DEF Call, Stages
  <2>2. call' = [call EXCEPT ![c] = next] /\ dead' \subseteq Sessions
    BY <1>2, <1>6 DEF Release
  <2> HIDE DEF next
  <2> QED
    BY <1>6, <2>1, <2>2, CallGoesOn
<1>7. CASE NotLocked(c)
  BY <1>2, <1>3, <1>6, <1>7 DEF NotLocked
<1>8. CASE UnlockFails(c)
  BY <1>3, <1>6, <1>8, FaultCounts DEF UnlockFails, Faults
<1>9. CASE Unlock(c)
  <2>1. \A s \in Sessions, l \in Locks : held'[s][l] <= held[s][l]
    <3> SUFFICES ASSUME NEW s \in Sessions, NEW l \in Locks PROVE held'[s][l] <= held[s][l]
      OBVIOUS
    <3>1. CASE call[c].session \in dead
      BY <1>1, <1>9, <3>1 DEF Unlock
    <3>2. CASE call[c].session \notin dead
      <4> DEFINE o == call[c].session  k == LockOf(c)
                 n == IF held[o][k] > 0 THEN held[o][k] - 1 ELSE 0
      <4>1. held' = [held EXCEPT ![o][k] = n]
        BY <1>9, <3>2 DEF Unlock
      <4>2. k \in Locks
        BY LockIs
      <4>3. o \in Sessions => held[o][k] \in Nat
        BY <1>1, <4>2
      <4>4. o \in Sessions => n <= held[o][k]
        BY <4>3
      <4> HIDE DEF o, k, n
      <4>5. held[s][l] \in Nat
        BY <1>1
      <4>6. held'[s][l] = IF s = o /\ l = k THEN n ELSE held[s][l]
        BY <1>1, <4>1
      <4> QED
        BY <4>4, <4>5, <4>6
    <3> QED
      BY <3>1, <3>2
  <2> QED
    BY <1>2, <1>6, <1>9, <2>1 DEF Unlock
<1>10. CASE Load(c)
  <2> DEFINE next == [call[c] EXCEPT !.pc = "submit", !.at = sequence]
  <2>1. next \in Call /\ next.pc = "submit" /\ next.at = sequence
    BY <1>1 DEF Call, Stages
  <2>2. /\ call[c].pc = "load" /\ call' = [call EXCEPT ![c] = next]
        /\ UNCHANGED <<held, dead, sequence, floating, refused, faults>>
    BY <1>10 DEF Load
  <2> HIDE DEF next
  <2>3. call[c].pc \in Holding /\ next.pc \in Holding
    BY <2>1, <2>2 DEF Holding
  <2> QED
    BY <1>2, <1>3, <2>1, <2>2, <2>3, CallGoesOn
<1> QED
  BY <1>4, <1>5, <1>7, <1>8, <1>9, <1>10

\* A call takes the lock, the last time it tries for it.
LEMMA LockBound ==
  ASSUME LockIInv, CallsBound, LockIInv', NEW c \in Calls, Lock(c)
  PROVE  CallsBound'
<1>1. /\ call \in [Calls -> Call] /\ call[c] \in Call /\ call[c].pc = "lock"
      /\ held \in [Sessions -> [Locks -> Nat]]
      /\ held' = [held EXCEPT ![call[c].session][LockOf(c)] = held[call[c].session][LockOf(c)] + 1]
      /\ UNCHANGED <<dead, sequence, floating, refused, faults>>
  BY DEF LockIInv, LockData, Lock
<1>2. PICK pc \in {"query", "load"} : call' = [call EXCEPT ![c].pc = pc]
  BY DEF Lock, Enter
<1>3. /\ call'[c].pc = pc /\ call'[c].at = call[c].at
      /\ \A d \in Calls : d # c => call'[d] = call[d]
  BY <1>1, <1>2 DEF Call
<1>4. /\ c \notin Tried /\ c \in Tried' /\ Tried \subseteq Tried' \ {c} /\ Tried' \subseteq Calls
      /\ Unsent' \subseteq Unsent /\ Unsent \subseteq Calls
  BY <1>1, <1>2, <1>3 DEF Tried, Unsent, Holding
<1>5. /\ Cardinality(Tried) <= Cardinality(Tried' \ {c})
      /\ Cardinality(Tried' \ {c}) = Cardinality(Tried') - 1
      /\ Cardinality(Tried) \in Nat /\ Cardinality(Tried') \in Nat
      /\ Cardinality(Unsent') <= Cardinality(Unsent)
      /\ Cardinality(Unsent') \in Nat /\ Cardinality(Unsent) \in Nat
  <2>1. Tried' \ {c} \subseteq Calls /\ Tried' \ {c} \subseteq Tried' /\ Tried \subseteq Calls
    BY <1>4
  <2> QED
    BY <1>4, <2>1, CallsAreCounted
<1>6. ASSUME NEW s \in Sessions, NEW l \in Locks PROVE held'[s][l] <= Cardinality(Tried')
  <2>1. held[s][l] \in Nat /\ held[s][l] <= Cardinality(Tried)
    BY <1>1 DEF CallsBound
  <2>2. held'[s][l] \in {held[s][l], held[s][l] + 1}
    BY <1>1
  <2> QED
    BY <1>5, <2>1, <2>2
<1>7. sequence' + Cardinality(floating') + Cardinality(Unsent') <= Cardinality(Calls)
  BY <1>1, <1>5, BoundIs DEF CallsBound
<1>8. \A d \in Calls : call'[d].at <= sequence'
  BY <1>1, <1>3 DEF CallsBound
<1> QED
  BY <1>1, <1>6, <1>7, <1>8 DEF CallsBound

\* What a call has sent is counted with its number, and not among the unsent any more.
LEMMA SendBound ==
  ASSUME LockIInv, CallsBound, LockIInv', NEW c \in Calls, Submit(c) \/ NoVerdict(c)
  PROVE  CallsBound'
<1>1. /\ call \in [Calls -> Call] /\ call[c] \in Call /\ call[c].pc = "submit" /\ call[c].at \in Nat
      /\ held \in [Sessions -> [Locks -> Nat]] /\ UNCHANGED <<held, dead>>
      /\ call' = [call EXCEPT ![c].pc = "unlock"]
  BY DEF LockIInv, LockData, Call, Submit, NoVerdict, Enter, AfterSubmit
<1>2. /\ call'[c].pc = "unlock" /\ call'[c].at = call[c].at
      /\ \A d \in Calls : d # c => call'[d] = call[d]
  BY <1>1 DEF Call
<1>3. /\ c \in Unsent /\ Unsent' = Unsent \ {c} /\ Unsent \subseteq Calls
      /\ Tried' = Tried /\ Tried \subseteq Calls
  BY <1>1, <1>2 DEF Tried, Unsent, Holding
<1>4. /\ Cardinality(Unsent') = Cardinality(Unsent) - 1
      /\ Cardinality(Unsent) \in Nat /\ Cardinality(Unsent') \in Nat
  <2>1. Cardinality(Unsent \ {c}) = Cardinality(Unsent) - 1
    BY <1>3, CallsAreCounted
  <2>2. Unsent' \subseteq Calls
    BY <1>3
  <2> QED
    BY <1>3, <2>1, <2>2, CallsAreCounted
<1>5. /\ sequence \in Nat /\ Cardinality(floating) \in Nat /\ Cardinality(Calls) \in Nat
      /\ sequence + Cardinality(floating) + Cardinality(Unsent) <= Cardinality(Calls)
      /\ call[c].at <= sequence
  BY BoundIs DEF CallsBound
<1>6. CASE Submit(c)
  <2>1. /\ sequence' \in {sequence, sequence + 1} /\ refused' \in BOOLEAN
        /\ UNCHANGED <<floating, faults>>
    BY <1>6 DEF Submit, CallsBound
  <2>2. sequence' + Cardinality(floating') + Cardinality(Unsent') <= Cardinality(Calls)
    BY <1>4, <1>5, <2>1
  <2>3. \A d \in Calls : call'[d].at \in Nat /\ call'[d].at <= sequence
    BY <1>1, <1>2 DEF CallsBound, Call
  <2>4. \A d \in Calls : call'[d].at <= sequence'
    BY <1>5, <2>1, <2>3
  <2> QED
    BY <1>1, <1>3, <2>1, <2>2, <2>4 DEF CallsBound
<1>7. CASE NoVerdict(c)
  <2> DEFINE n == call[c].at + 1
  <2>1. floating' = floating \cup {n} /\ UNCHANGED <<sequence, refused>> /\ Fault("verdict")
    BY <1>7 DEF NoVerdict
  <2>2. n \in Numbers
    BY <1>1, <1>4, <1>5 DEF Numbers
  <2> HIDE DEF n
  <2>3. /\ IsFiniteSet(floating') /\ Cardinality(floating') \in Nat
        /\ Cardinality(floating') <= Cardinality(floating) + 1
    <3>1. IsFiniteSet(floating)
      BY DEF CallsBound
    <3>2. /\ IsFiniteSet(floating \cup {n})
          /\ Cardinality(floating \cup {n}) \in {Cardinality(floating), Cardinality(floating) + 1}
      BY <3>1, FS_AddElement
    <3> QED
      BY <1>5, <2>1, <3>2
  <2>4. sequence' + Cardinality(floating') + Cardinality(Unsent') <= Cardinality(Calls)
    BY <1>4, <1>5, <2>1, <2>3
  <2>5. \A d \in Calls : call'[d].at <= sequence'
    BY <1>1, <1>2, <2>1 DEF CallsBound
  <2>6. faults' \in [count : 0..MaxFaults, kinds : SUBSET Faults]
    BY <2>1, FaultCounts DEF Faults
  <2>7. floating' \subseteq Numbers
    BY <2>1, <2>2 DEF CallsBound
  <2> QED
    BY <1>1, <1>3, <2>1, <2>3, <2>4, <2>5, <2>6, <2>7 DEF CallsBound
<1> QED
  BY <1>6, <1>7

\* An instance ends with all its calls; what they were sending may still land.
LEMMA CrashBound ==
  ASSUME LockIInv, CallsBound, LockIInv', NEW i \in Instances, Crash(i)
  PROVE  CallsBound'
<1> DEFINE D == {d \in Calls : Home[d] = i /\ call[d].pc = "submit"}
           left == {call[d].at + 1 : d \in D}
<1>1. /\ call \in [Calls -> Call] /\ held \in [Sessions -> [Locks -> Nat]]
      /\ \A d \in Calls : call[d].at \in Nat /\ call[d].at <= sequence
  BY DEF LockIInv, LockData, Call, CallsBound
<1>2. /\ call' = [d \in Calls |-> IF Home[d] = i /\ call[d].pc # "idle"
                                  THEN [pc |-> "ended", session |-> NoSession, at |-> 0] ELSE call[d]]
      /\ held' = [s \in Sessions |-> IF s[1] = i THEN NoLocks ELSE held[s]]
      /\ dead' \subseteq dead /\ floating' = floating \cup left /\ Fault("crash")
      /\ UNCHANGED <<sequence, refused>>
  BY DEF Crash
<1>3. /\ Tried \subseteq Tried' /\ Tried' \subseteq Calls /\ Unsent \subseteq Calls
      /\ D \subseteq Unsent /\ Unsent' \subseteq Unsent \ D
  BY <1>2 DEF Tried, Unsent
<1>4. /\ Cardinality(Tried) <= Cardinality(Tried') /\ Cardinality(Tried') \in Nat
      /\ IsFiniteSet(Unsent) /\ IsFiniteSet(D) /\ Cardinality(D) \in Nat
      /\ Cardinality(Unsent') \in Nat /\ Cardinality(Unsent') <= Cardinality(Unsent \ D)
  <2>1. D \subseteq Calls /\ Unsent' \subseteq Calls /\ Unsent \ D \subseteq Calls /\ Tried \subseteq Calls
    BY <1>3
  <2> HIDE DEF D
  <2> QED
    BY <1>3, <2>1, CallsAreCounted
<1>5. Cardinality(Unsent \ D) = Cardinality(Unsent) - Cardinality(D)
  <2>1. Unsent \cap D = D
    BY <1>3
  <2> HIDE DEF D
  <2> QED
    BY <1>4, <2>1, FS_Difference
<1>6. IsFiniteSet(left) /\ Cardinality(left) \in Nat /\ Cardinality(left) <= Cardinality(D)
  <2> DEFINE f == [d \in D |-> call[d].at + 1]
  <2>1. f \in Surjection(D, left)
    BY DEF Surjection
  <2> HIDE DEF f, D, left
  <2> QED
    BY <1>4, <2>1, FS_Surjection, FS_CardinalityType
<1>7. /\ IsFiniteSet(floating') /\ Cardinality(floating') \in Nat
      /\ Cardinality(floating') <= Cardinality(floating) + Cardinality(left)
  <2>1. IsFiniteSet(floating) /\ Cardinality(floating) \in Nat
    BY BoundIs DEF CallsBound
  <2>2. IsFiniteSet(floating \cap left) /\ Cardinality(floating \cap left) \in Nat
    BY <2>1, FS_Intersection, FS_CardinalityType
  <2> HIDE DEF left
  <2>3. /\ IsFiniteSet(floating \cup left)
        /\ Cardinality(floating \cup left) =
             Cardinality(floating) + Cardinality(left) - Cardinality(floating \cap left)
    BY <1>6, <2>1, FS_Union
  <2>4. Cardinality(floating \cup left) \in Nat
    BY <2>3, FS_CardinalityType
  <2> QED
    BY <1>2, <1>6, <2>1, <2>2, <2>3, <2>4
<1>8. /\ sequence \in Nat /\ Cardinality(floating) \in Nat /\ Cardinality(Calls) \in Nat
      /\ Cardinality(Unsent) \in Nat
      /\ sequence + Cardinality(floating) + Cardinality(Unsent) <= Cardinality(Calls)
  BY BoundIs DEF CallsBound
<1>9. ASSUME NEW d \in D PROVE call[d].at + 1 \in Numbers
  <2>1. Cardinality(D) # 0
    BY <1>4, FS_EmptySet
  <2>2. Cardinality(Unsent) >= 1
    BY <1>4, <1>5, <1>8, <2>1
  <2>3. d \in Calls
    BY <1>9
  <2> HIDE DEF D
  <2> QED
    BY <1>1, <1>8, <2>2, <2>3 DEF Numbers
<1>10. floating' \subseteq Numbers
  BY <1>2, <1>9 DEF CallsBound
<1>11. sequence' + Cardinality(floating') + Cardinality(Unsent') <= Cardinality(Calls)
  <2> HIDE DEF D, left
  <2> QED
    BY <1>2, <1>4, <1>5, <1>6, <1>7, <1>8
<1>12. ASSUME NEW s \in Sessions, NEW l \in Locks PROVE held'[s][l] <= Cardinality(Tried')
  <2>1. held[s][l] \in Nat /\ held[s][l] <= Cardinality(Tried)
    BY <1>1 DEF CallsBound
  <2>2. held'[s][l] \in {0, held[s][l]}
    BY <1>2 DEF NoLocks
  <2> QED
    BY <1>4, <2>1, <2>2, BoundIs
<1>13. \A d \in Calls : call'[d].at <= sequence'
  BY <1>1, <1>2, <1>8
<1>14. faults' \in [count : 0..MaxFaults, kinds : SUBSET Faults]
  BY <1>2, FaultCounts DEF Faults
<1> HIDE DEF D, left
<1> QED
  BY <1>2, <1>7, <1>10, <1>11, <1>12, <1>13, <1>14 DEF CallsBound

\* The steps of the pool, of the database and of the ledger.
LEMMA OutsideBound ==
  ASSUME LockIInv, CallsBound, LockIInv',
         \/ \E s \in Sessions : IdleOut(s) \/ LoseSession(s)
         \/ \E n \in floating : Settle(n)
  PROVE  CallsBound'
<1>1. /\ held \in [Sessions -> [Locks -> Nat]] /\ sequence \in Nat
      /\ \A c \in Calls : call[c].at \in Nat /\ call[c].at <= sequence
  BY DEF LockIInv, LockData, Call, CallsBound
<1>2. ASSUME NEW s \in Sessions, IdleOut(s) \/ LoseSession(s) PROVE CallsBound'
  <2>1. /\ held' = [held EXCEPT ![s] = NoLocks] /\ UNCHANGED <<call, sequence, floating, refused>>
        /\ dead' \subseteq Sessions
    BY <1>2 DEF IdleOut, LoseSession, CallsBound
  <2>2. faults' \in [count : 0..MaxFaults, kinds : SUBSET Faults]
    BY <1>2, FaultCounts DEF IdleOut, LoseSession, Faults, CallsBound
  <2>3. \A r \in Sessions, l \in Locks : held'[r][l] <= held[r][l]
    BY <1>1, <2>1 DEF NoLocks
  <2> QED
    BY <1>1, <2>1, <2>2, <2>3, BoundStays
<1>3. ASSUME NEW n \in floating, Settle(n) PROVE CallsBound'
  <2>1. /\ UNCHANGED <<call, held, dead, refused, faults>> /\ floating' = floating \ {n}
        /\ sequence' \in {sequence, sequence + 1}
    BY <1>3 DEF Settle
  <2>2. /\ IsFiniteSet(floating') /\ Cardinality(floating') = Cardinality(floating) - 1
        /\ Cardinality(floating) \in Nat
    BY <2>1, FS_RemoveElement, BoundIs DEF CallsBound
  <2>3. Unsent' = Unsent /\ Tried' = Tried
    BY <2>1 DEF Unsent, Tried
  <2>4. sequence' + Cardinality(floating') + Cardinality(Unsent') <= Cardinality(Calls)
    BY <1>1, <2>1, <2>2, <2>3, BoundIs DEF CallsBound
  <2>5. \A c \in Calls : call'[c].at <= sequence'
    BY <1>1, <2>1
  <2> QED
    BY <2>1, <2>2, <2>3, <2>4, <2>5 DEF CallsBound
<1> QED
  BY <1>2, <1>3

LEMMA BoundStarts == LockInit => CallsBound
<1> SUFFICES ASSUME LockInit PROVE CallsBound
  OBVIOUS
<1>1. Unsent = Calls /\ Tried = {}
  BY DEF LockInit, Unsent, Tried, Holding
<1>2. Cardinality({}) = 0 /\ IsFiniteSet({}) /\ Cardinality(Calls) \in Nat
  BY FS_EmptySet, CallsAreCounted
<1>3. faults \in [count : 0..MaxFaults, kinds : SUBSET Faults]
  BY LockAssumption DEF LockInit, LockAssumption
<1>4. \A s \in Sessions, l \in Locks : held[s][l] <= Cardinality(Tried)
  BY <1>1, <1>2 DEF LockInit
<1>5. sequence + Cardinality(floating) + Cardinality(Unsent) <= Cardinality(Calls)
  BY <1>1, <1>2 DEF LockInit
<1>6. IsFiniteSet(floating) /\ floating \subseteq Numbers /\ dead \subseteq Sessions /\ refused \in BOOLEAN
  BY <1>2 DEF LockInit
<1>7. \A c \in Calls : call[c].at <= sequence
  BY DEF LockInit
<1> QED
  BY <1>3, <1>4, <1>5, <1>6, <1>7 DEF CallsBound

\* Every step.
LEMMA BoundStep ==
  ASSUME LockIInv, CallsBound, [LockNext]_lockVars
  PROVE  CallsBound'
<1>1. LockIInv'
  BY LockStep
<1>2. CASE UNCHANGED lockVars
  <2>1. UNCHANGED <<call, held, dead, sequence, floating, refused, faults>>
    BY <1>2 DEF lockVars
  <2>2. Tried' = Tried /\ Unsent' = Unsent
    BY <2>1 DEF Tried, Unsent
  <2> QED
    BY <2>1, <2>2 DEF CallsBound
<1>3. ASSUME NEW c \in Calls,
             Begin(c) \/ Moves(c) \/ GiveUp(c) \/ NoVerdict(c) \/ UnlockFails(c)
      PROVE  CallsBound'
  BY <1>1, <1>3, QuietCallBound, LockBound, SendBound DEF Moves
<1>4. CASE LockNext
  BY <1>1, <1>3, <1>4, CrashBound, OutsideBound DEF LockNext
<1> QED
  BY <1>2, <1>4

\* The state keeps its types.
LEMMA LockTypes ==
  ASSUME LockIInv, CallsBound
  PROVE  LockTypeOK
<1>1. /\ call \in [Calls -> Call] /\ held \in [Sessions -> [Locks -> Nat]] /\ sequence \in Nat
  BY DEF LockIInv, LockData
<1>2. sequence \in Numbers
  BY <1>1, BoundIs DEF CallsBound, Numbers
<1>3. ASSUME NEW c \in Calls
      PROVE  call[c] \in [pc : Stages, session : Sessions \cup {NoSession}, at : Numbers]
  <2>1. call[c].at \in Nat /\ call[c].at <= sequence
    BY <1>1 DEF Call, CallsBound
  <2>2. call[c].at \in Numbers
    BY <1>2, <2>1, BoundIs DEF Numbers
  <2> QED
    BY <1>1, <2>2 DEF Call
<1>4. ASSUME NEW s \in Sessions, NEW l \in Locks PROVE held[s][l] \in Numbers
  <2>1. held[s][l] \in Nat /\ held[s][l] <= Cardinality(Tried)
    BY <1>1 DEF CallsBound
  <2> QED
    BY <2>1, BoundIs DEF Numbers
<1>5. call \in [Calls -> [pc : Stages, session : Sessions \cup {NoSession}, at : Numbers]]
  BY <1>1, <1>3
<1>6. held \in [Sessions -> [Locks -> Numbers]]
  BY <1>1, <1>4
<1> QED
  BY <1>2, <1>5, <1>6 DEF LockTypeOK, CallsBound

\* However locks are left behind in sessions and taken again and however transactions
\* without a verdict land, no lock is held more often and no sequence number goes
\* further than there are calls: every call locks once and sends once.
THEOREM LockTypeCorrect == LockSpec => []LockTypeOK
<1>1. LockIInv /\ CallsBound /\ [LockNext]_lockVars => LockIInv' /\ CallsBound'
  BY LockStep, BoundStep
<1>2. LockIInv /\ CallsBound => LockTypeOK
  BY LockTypes
<1> QED
  BY <1>1, <1>2, LockStarts, BoundStarts, PTL DEF LockSpec

-----------------------------------------------------------------------------
(* Screening. *)

\* What a refresh remembers, on every instance.
Refreshes ==
  [pc : {"insert", "switch", "prune", "reload", "select", "flag"},
   by : {"job", "admin"}, list : Lists, batch : Batches, row : Rows]

RefreshTypeOK == refresh \in [Servers -> {Resting} \cup Refreshes]

\* What is about to be flagged, written or decided is a record, not the lack of one.
OfSomebody ==
  /\ \A i \in Servers : refresh[i].pc = "flag" => kyc # Nothing
  /\ submission # Resting => submission.row # Nothing
  /\ decision # Resting => kyc # Nothing

\* While an employer's approval is under way, the record it has read stays clear.
ApprovesClear ==
  decision # Resting /\ decision.by = "employer" /\ decision.to = "approved" => kyc.flag = "clear"

ScreeningIInv == ScreeningTypeOK /\ RefreshTypeOK /\ OfSomebody /\ ApprovesClear

\* The initial states.
LEMMA ScreeningStarts == ScreeningInit => ScreeningIInv
<1> SUFFICES ASSUME ScreeningInit PROVE ScreeningIInv
  OBVIOUS
<1>1. 0 \in 0..MaxEvents
  BY ScreeningAssumption DEF ScreeningAssumption
<1>2. kyc = Nothing /\ Nothing \in Rows
  BY DEF ScreeningInit, Rows
<1>3. \A i \in Servers : refresh[i] = Resting
  BY DEF ScreeningInit
<1>4. Resting.pc = "rest"
  BY DEF Resting
<1>5. index \in [Servers -> Lists] /\ entries \in [Batches -> Lists] /\ meta \in Batches
  BY DEF ScreeningInit, Lists
<1>6. ScreeningTypeOK
  BY <1>1, <1>2, <1>3, <1>5 DEF ScreeningInit, ScreeningTypeOK
<1> QED
  BY <1>2, <1>3, <1>4, <1>6
  DEF ScreeningIInv, RefreshTypeOK, OfSomebody, ApprovesClear, ScreeningInit

\* An event is counted, up to the bound.
LEMMA EventCounts ==
  ASSUME ScreeningTypeOK, Event
  PROVE  events' \in 0..MaxEvents
  BY ScreeningAssumption DEF ScreeningTypeOK, Event, ScreeningAssumption

\* A record that changes its status and its flag is one still, and somebody's.
LEMMA RowRewritten ==
  ASSUME kyc \in Rows, kyc # Nothing, NEW flag \in {"clear", "flagged"},
         NEW status \in {"approved", "rejected"}
  PROVE  /\ [kyc EXCEPT !.flag = flag, !.status = status] \in Rows
         /\ [kyc EXCEPT !.flag = flag, !.status = status] # Nothing
         /\ [kyc EXCEPT !.flag = flag, !.status = status].flag = flag
<1>1. kyc \in [name : Names, flag : {"clear", "flagged"},
               status : {"pending", "approved", "rejected"}]
  BY DEF Rows
<1> DEFINE new == [kyc EXCEPT !.flag = flag, !.status = status]
<1>2. /\ new \in [name : Names, flag : {"clear", "flagged"},
                  status : {"pending", "approved", "rejected"}]
      /\ new.flag = flag /\ new.status = status
  BY <1>1
<1> HIDE DEF new
<1>3. new \in Rows /\ new # Nothing /\ new.flag = flag
  BY <1>2 DEF Rows, Nothing
<1> QED
  BY <1>3 DEF new

\* A refresh that has reached a place is under way.
LEMMA ReachedFacts ==
  ASSUME ScreeningIInv, NEW i \in Servers, NEW pc \in {"insert", "switch", "prune", "reload", "select", "flag"},
         Reached(i, pc)
  PROVE  refresh[i] \in Refreshes
  BY DEF ScreeningIInv, RefreshTypeOK, Reached, Resting

\* One refresh changes, to rest or to a place before the flagging, and with it
\* the list in one of its three forms; nothing of the applicant's.
Refreshed(i) ==
  /\ \E r \in {Resting} \cup Refreshes :
       /\ refresh' = [refresh EXCEPT ![i] = r]
       /\ r.pc = "flag" => kyc # Nothing
  /\ published' \in Lists \ {{}}
  /\ entries' \in [Batches -> Lists] /\ meta' \in Batches
  /\ index' \in [Servers -> Lists]
  /\ UNCHANGED <<kyc, submission, decision>>
  /\ events' \in 0..MaxEvents

\* Such a step keeps the invariant.
LEMMA RefreshedKeeps ==
  ASSUME ScreeningIInv, NEW i \in Servers, Refreshed(i)
  PROVE  ScreeningIInv'
<1> USE DEF ScreeningIInv
<1>1. PICK r \in {Resting} \cup Refreshes :
        refresh' = [refresh EXCEPT ![i] = r] /\ (r.pc = "flag" => kyc # Nothing)
  BY DEF Refreshed
<1>2. RefreshTypeOK'
  BY <1>1 DEF RefreshTypeOK
<1>3. UNCHANGED <<kyc, submission, decision>>
  BY DEF Refreshed
<1>4. OfSomebody'
  BY <1>1, <1>3 DEF OfSomebody, RefreshTypeOK
<1>5. ApprovesClear'
  BY <1>3 DEF ApprovesClear
<1>6. ScreeningTypeOK'
  <2>1. (\A j \in Servers :
           \/ refresh[j] = Resting
           \/ /\ refresh[j].pc \in {"insert", "switch", "prune", "reload", "select", "flag"}
              /\ refresh[j].by \in {"job", "admin"} /\ refresh[j].list \in Lists
              /\ refresh[j].batch \in Batches /\ refresh[j].row \in Rows)'
    BY <1>2 DEF RefreshTypeOK, Refreshes
  <2> QED
    BY <1>3, <2>1 DEF ScreeningTypeOK, Refreshed
<1> QED
  BY <1>2, <1>4, <1>5, <1>6

\* An instance has a name for a batch that is not the list.
LEMMA NewBatch ==
  ASSUME NEW i \in Servers
  PROVE  \E n \in {i} \X {0, 1} : n # meta
<1>1. <<i, 0>> # <<i, 1>> /\ <<i, 0>> \in {i} \X {0, 1} /\ <<i, 1>> \in {i} \X {0, 1}
  OBVIOUS
<1> QED
  BY <1>1

\* Every step of a refresh but the flagging changes only the list.
LEMMA RefreshMoves ==
  ASSUME ScreeningIInv, NEW i \in Servers,
         \/ Insert(i) \/ Switch(i) \/ Prune(i) \/ Reload(i) \/ SelectClear(i)
         \/ StartJob(i) \/ StartByAdmin(i) \/ Fail(i)
  PROVE  Refreshed(i)
<1>0. /\ published \in Lists \ {{}} /\ entries \in [Batches -> Lists] /\ meta \in Batches
      /\ index \in [Servers -> Lists] /\ events \in 0..MaxEvents /\ kyc \in Rows
      /\ refresh \in [Servers -> {Resting} \cup Refreshes]
  BY DEF ScreeningIInv, ScreeningTypeOK, RefreshTypeOK
<1>1. ASSUME NEW pc \in {"switch", "prune", "reload", "select"}, refresh[i] \in Refreshes, Go(i, pc)
      PROVE  \E r \in {Resting} \cup Refreshes :
               refresh' = [refresh EXCEPT ![i] = r] /\ (r.pc = "flag" => kyc # Nothing)
  <2> DEFINE r == [refresh[i] EXCEPT !.pc = pc]
  <2>1. r \in Refreshes /\ r.pc = pc
    BY <1>1 DEF Refreshes
  <2>2. refresh' = [refresh EXCEPT ![i] = r]
    BY <1>1 DEF Go
  <2> HIDE DEF r
  <2> QED
    BY <1>1, <2>1, <2>2
<1>2. ASSUME Done(i)
      PROVE  \E r \in {Resting} \cup Refreshes :
               refresh' = [refresh EXCEPT ![i] = r] /\ (r.pc = "flag" => kyc # Nothing)
  <2>1. Resting.pc # "flag" /\ Resting \in {Resting} \cup Refreshes
    BY DEF Resting
  <2> QED
    BY <1>2, <2>1, Zenon DEF Done
<1>3. CASE Insert(i)
  <2>1. refresh[i] \in Refreshes /\ refresh[i].pc = "insert"
    BY <1>3, ReachedFacts DEF Insert, Reached
  <2>2. refresh[i].list \in Lists /\ refresh[i].batch \in Batches
    BY <2>1 DEF Refreshes
  <2>3. PICK name \in refresh[i].list :
          /\ entries' = [entries EXCEPT ![refresh[i].batch] = @ \cup {name}]
          /\ refresh' = [refresh EXCEPT ![i].list = refresh[i].list \ {name},
                ![i].pc = IF refresh[i].list \ {name} = {} THEN "switch" ELSE @]
    BY <1>3 DEF Insert
  <2> DEFINE r == [refresh[i] EXCEPT !.list = refresh[i].list \ {name},
                     !.pc = IF refresh[i].list \ {name} = {} THEN "switch" ELSE @]
  <2>4. r \in Refreshes /\ r.pc # "flag"
    BY <2>1, <2>2 DEF Refreshes, Lists
  <2>5. refresh' = [refresh EXCEPT ![i] = r]
    BY <1>0, <2>3
  <2>6. entries' \in [Batches -> Lists]
    BY <1>0, <2>2, <2>3 DEF Lists
  <2> HIDE DEF r
  <2> QED
    BY <1>0, <1>3, <2>4, <2>5, <2>6 DEF Insert, Refreshed
<1>4. CASE Switch(i)
  <2>1. refresh[i] \in Refreshes /\ Go(i, "prune")
    BY <1>4, ReachedFacts DEF Switch
  <2>2. meta' \in Batches
    BY <1>4, <2>1 DEF Switch, Refreshes
  <2> QED
    BY <1>0, <1>1, <1>4, <2>1, <2>2 DEF Switch, Refreshed
<1>5. CASE Prune(i)
  <2>1. refresh[i] \in Refreshes /\ Go(i, "reload")
    BY <1>5, ReachedFacts DEF Prune
  <2>2. entries' \in [Batches -> Lists]
    BY <1>0, <1>5 DEF Prune, Lists
  <2> QED
    BY <1>0, <1>1, <1>5, <2>1, <2>2 DEF Prune, Refreshed
<1>6. CASE Reload(i)
  <2>1. refresh[i] \in Refreshes /\ Go(i, "select")
    BY <1>6, ReachedFacts DEF Reload
  <2>2. index' \in [Servers -> Lists]
    BY <1>0, <1>6 DEF Reload
  <2> QED
    BY <1>0, <1>1, <1>6, <2>1, <2>2 DEF Reload, Refreshed
<1>7. CASE SelectClear(i)
  <2>1. refresh[i] \in Refreshes
    BY <1>7, ReachedFacts DEF SelectClear
  <2>2. CASE kyc # Nothing /\ kyc.flag = "clear"
    <3> DEFINE r == [refresh[i] EXCEPT !.pc = "flag", !.row = kyc]
    <3>1. r \in Refreshes
      BY <1>0, <2>1 DEF Refreshes
    <3>2. refresh' = [refresh EXCEPT ![i] = r]
      BY <1>7, <2>2 DEF SelectClear
    <3> HIDE DEF r
    <3> QED
      BY <1>0, <1>7, <2>2, <3>1, <3>2 DEF SelectClear, Refreshed
  <2>3. CASE ~(kyc # Nothing /\ kyc.flag = "clear")
    BY <1>0, <1>2, <1>7, <2>3 DEF SelectClear, Refreshed
  <2> QED
    BY <2>2, <2>3
<1>8. ASSUME NEW by \in {"job", "admin"}, Start(i, by)
      PROVE  /\ \E r \in {Resting} \cup Refreshes :
                   refresh' = [refresh EXCEPT ![i] = r] /\ (r.pc = "flag" => kyc # Nothing)
             /\ entries' \in [Batches -> Lists]
  <2> DEFINE new == CHOOSE b \in {i} \X {0, 1} : b # meta
             r   == [pc |-> "insert", by |-> by, list |-> published, batch |-> new, row |-> Nothing]
  <2>1. new \in Batches
    <3>1. \E b \in {i} \X {0, 1} : b # meta
      BY NewBatch
    <3>2. new \in {i} \X {0, 1}
      BY <3>1
    <3> HIDE DEF new
    <3> QED
      BY <3>2 DEF Batches
  <2>2. refresh' = [refresh EXCEPT ![i] = r] /\ entries' = [entries EXCEPT ![new] = {}]
    BY <1>8 DEF Start
  <2> HIDE DEF new
  <2>3. r \in Refreshes /\ r.pc = "insert"
    BY <1>0, <1>8, <2>1 DEF Refreshes, Rows
  <2>4. entries' \in [Batches -> Lists]
    BY <1>0, <2>1, <2>2 DEF Lists
  <2> HIDE DEF r
  <2> QED
    BY <2>2, <2>3, <2>4
<1>9. CASE StartJob(i)
  <2>1. Start(i, "job") /\ UNCHANGED events
    BY <1>9 DEF StartJob
  <2> QED
    BY <1>0, <1>8, <2>1 DEF Start, Refreshed
<1>10. CASE StartByAdmin(i)
  <2>1. Start(i, "admin") /\ events' \in 0..MaxEvents
    BY <1>10, EventCounts DEF StartByAdmin, ScreeningIInv
  <2> QED
    BY <1>0, <1>8, <2>1 DEF Start, Refreshed
<1>11. CASE Fail(i)
  <2>1. events' \in 0..MaxEvents
    BY <1>11, EventCounts DEF Fail, ScreeningIInv
  <2> QED
    BY <1>0, <1>2, <1>11, <2>1 DEF Fail, Refreshed
<1> QED
  BY <1>3, <1>4, <1>5, <1>6, <1>7, <1>9, <1>10, <1>11

\* The steps that concern the applicant, and those of the outside world.
LEMMA ApplicantKeeps ==
  ASSUME ScreeningIInv,
         \/ \E i \in Servers : Flag(i) \/ Restart(i)
         \/ \E list \in Lists \ {{}} : Publish(list)
         \/ \E i \in Servers, n \in Names : ScreenSubmission(i, n)
         \/ \E by \in {"platform", "employer"}, to \in {"approved", "rejected"} : StartDecision(by, to)
         \/ Write \/ WriteDecision
  PROVE  ScreeningIInv'
<1>0. /\ published \in Lists \ {{}} /\ entries \in [Batches -> Lists] /\ meta \in Batches
      /\ index \in [Servers -> Lists] /\ events \in 0..MaxEvents /\ kyc \in Rows
      /\ refresh \in [Servers -> {Resting} \cup Refreshes]
      /\ Resting.pc = "rest"
      /\ submission \in {Resting} \cup [pc : {"write"}, on : Servers, row : Rows]
      /\ decision \in {Resting} \cup [pc : {"write"}, by : {"platform", "employer"},
                                      flagged : BOOLEAN, to : {"approved", "rejected"}]
  BY DEF ScreeningIInv, ScreeningTypeOK, RefreshTypeOK, Resting
<1>1. ASSUME NEW i \in Servers, Flag(i), refresh[i].row.name \in index[i]
      PROVE  ScreeningIInv'
  <2>1. kyc # Nothing /\ RowFree /\ Done(i) /\ UNCHANGED <<published, entries, meta, index, submission, decision, events>>
    BY <1>1 DEF Flag, Reached, ScreeningIInv, OfSomebody
  <2>2. kyc' = [kyc EXCEPT !.flag = "flagged", !.status = "rejected"]
    BY <1>1 DEF Flag
  <2>3. kyc' \in Rows /\ kyc' # Nothing
    BY <1>0, <2>1, <2>2, RowRewritten
  <2>4. RefreshTypeOK'
    BY <1>0, <2>1 DEF Done, RefreshTypeOK
  <2>5. ScreeningTypeOK'
    BY <1>0, <2>1, <2>3, <2>4 DEF ScreeningTypeOK, RefreshTypeOK, Refreshes
  <2>6. OfSomebody'
    BY <1>0, <2>1, <2>3 DEF ScreeningIInv, OfSomebody
  <2> QED
    BY <2>1, <2>4, <2>5, <2>6 DEF ScreeningIInv, ApprovesClear, RowFree
<1>2. ASSUME NEW i \in Servers, Flag(i), refresh[i].row.name \notin index[i]
      PROVE  ScreeningIInv'
  <2>1. Refreshed(i)
    BY <1>0, <1>2 DEF Flag, Done, Refreshed
  <2> QED
    BY <2>1, RefreshedKeeps
<1>3. ASSUME NEW i \in Servers, Restart(i)
      PROVE  ScreeningIInv'
  <2>1. /\ refresh' = [refresh EXCEPT ![i] = Resting]
        /\ index' \in [Servers -> Lists] /\ events' \in 0..MaxEvents
        /\ submission' \in {Resting, submission}
        /\ UNCHANGED <<published, entries, meta, kyc, decision>>
    BY <1>0, <1>3, EventCounts DEF Restart, Done, ScreeningIInv
  <2>2. RefreshTypeOK'
    BY <1>0, <2>1 DEF RefreshTypeOK
  <2>3. ScreeningTypeOK'
    BY <1>0, <2>1, <2>2 DEF ScreeningTypeOK, RefreshTypeOK, Refreshes
  <2>4. OfSomebody' /\ ApprovesClear'
    BY <1>0, <2>1 DEF ScreeningIInv, OfSomebody, ApprovesClear
  <2> QED
    BY <2>2, <2>3, <2>4 DEF ScreeningIInv
<1>4. ASSUME NEW list \in Lists \ {{}}, Publish(list)
      PROVE  ScreeningIInv'
  <2>1. /\ published' = list /\ events' \in 0..MaxEvents
        /\ UNCHANGED <<entries, meta, index, refresh, kyc, submission, decision>>
    BY <1>4, EventCounts DEF Publish, ScreeningIInv
  <2> QED
    BY <1>0, <1>4, <2>1
    DEF ScreeningIInv, ScreeningTypeOK, RefreshTypeOK, OfSomebody, ApprovesClear
<1>5. ASSUME NEW i \in Servers, NEW n \in Names, ScreenSubmission(i, n)
      PROVE  ScreeningIInv'
  <2>1. events' \in 0..MaxEvents /\ UNCHANGED <<published, entries, meta, index, refresh, kyc, decision>>
    BY <1>5, EventCounts DEF ScreenSubmission, ScreeningIInv
  <2>2. PICK status \in {"pending", "approved"} :
          submission' = [pc |-> "write", on |-> i, row |->
            IF n \in index[i] THEN [name |-> n, flag |-> "flagged", status |-> "rejected"]
            ELSE [name |-> n, flag |-> "clear", status |-> status]]
    BY <1>5 DEF ScreenSubmission
  <2>3. /\ submission' \in [pc : {"write"}, on : Servers, row : Rows]
        /\ submission'.row # Nothing
    <3>1. /\ [name |-> n, flag |-> "flagged", status |-> "rejected"] \in Rows \ {Nothing}
          /\ [name |-> n, flag |-> "clear", status |-> status] \in Rows \ {Nothing}
      BY DEF Rows, Nothing
    <3> QED
      BY <2>2, <3>1
  <2>4. ScreeningTypeOK' /\ RefreshTypeOK'
    BY <1>0, <2>1, <2>3 DEF ScreeningIInv, ScreeningTypeOK, RefreshTypeOK
  <2> QED
    BY <2>1, <2>3, <2>4 DEF ScreeningIInv, OfSomebody, ApprovesClear
<1>6. ASSUME NEW by \in {"platform", "employer"}, NEW to \in {"approved", "rejected"}, StartDecision(by, to)
      PROVE  ScreeningIInv'
  <2>1. /\ events' \in 0..MaxEvents /\ kyc # Nothing
        /\ UNCHANGED <<published, entries, meta, index, refresh, kyc, submission>>
        /\ ~(to = "approved" /\ by = "employer" /\ kyc.flag = "flagged")
    BY <1>6, EventCounts DEF StartDecision, ScreeningIInv
  <2>2. decision' = [pc |-> "write", by |-> by, to |-> to, flagged |-> kyc.flag = "flagged"]
    BY <1>6 DEF StartDecision
  <2>3. kyc.flag \in {"clear", "flagged"}
    BY <1>0 DEF Rows, Nothing
  <2>4. decision' \in [pc : {"write"}, by : {"platform", "employer"},
                       flagged : BOOLEAN, to : {"approved", "rejected"}]
    <3>1. (kyc.flag = "flagged") \in BOOLEAN
      OBVIOUS
    <3> QED
      BY <2>2, <3>1
  <2>5. decision'.by = by /\ decision'.to = to
    BY <2>2
  <2>6. ScreeningTypeOK' /\ RefreshTypeOK'
    BY <1>0, <2>1, <2>4 DEF ScreeningIInv, ScreeningTypeOK, RefreshTypeOK
  <2>7. OfSomebody' /\ ApprovesClear'
    BY <2>1, <2>3, <2>5 DEF ScreeningIInv, OfSomebody, ApprovesClear
  <2> QED
    BY <2>6, <2>7 DEF ScreeningIInv
<1>7. ASSUME Write PROVE ScreeningIInv'
  <2>1. /\ kyc' = submission.row /\ submission' = Resting /\ submission # Resting /\ decision = Resting
        /\ UNCHANGED <<published, entries, meta, index, refresh, decision, events>>
    BY <1>7 DEF Write, RowFree
  <2>2. kyc' \in Rows /\ kyc' # Nothing
    BY <1>0, <2>1 DEF ScreeningIInv, OfSomebody
  <2>3. ScreeningTypeOK' /\ RefreshTypeOK'
    BY <1>0, <2>1, <2>2 DEF ScreeningIInv, ScreeningTypeOK, RefreshTypeOK
  <2> QED
    BY <2>1, <2>2, <2>3 DEF ScreeningIInv, OfSomebody, ApprovesClear
<1>8. ASSUME WriteDecision PROVE ScreeningIInv'
  <2>1. /\ decision # Resting /\ decision' = Resting /\ kyc # Nothing
        /\ UNCHANGED <<published, entries, meta, index, refresh, submission, events>>
    BY <1>8 DEF WriteDecision, ScreeningIInv, OfSomebody
  <2> DEFINE flag == IF decision.to = "approved" THEN "clear" ELSE kyc.flag
  <2>2. kyc' = [kyc EXCEPT !.flag = flag, !.status = decision.to]
    BY <1>0, <1>8 DEF WriteDecision, Rows, Nothing
  <2>3. flag \in {"clear", "flagged"} /\ decision.to \in {"approved", "rejected"}
    BY <1>0, <2>1 DEF Rows, Nothing
  <2> HIDE DEF flag
  <2>4. kyc' \in Rows /\ kyc' # Nothing
    BY <1>0, <2>1, <2>2, <2>3, RowRewritten
  <2>5. ScreeningTypeOK' /\ RefreshTypeOK'
    BY <1>0, <2>1, <2>4 DEF ScreeningIInv, ScreeningTypeOK, RefreshTypeOK
  <2> QED
    BY <2>1, <2>4, <2>5 DEF ScreeningIInv, OfSomebody, ApprovesClear
<1> QED
  BY <1>1, <1>2, <1>3, <1>4, <1>5, <1>6, <1>7, <1>8, Zenon

\* Every step keeps the invariant.
LEMMA ScreeningStep ==
  ASSUME ScreeningIInv, [ScreeningNext]_screeningVars
  PROVE  ScreeningIInv'
<1>1. CASE ScreeningNext
  <2>1. ASSUME NEW i \in Servers,
               \/ Insert(i) \/ Switch(i) \/ Prune(i) \/ Reload(i) \/ SelectClear(i)
               \/ StartJob(i) \/ StartByAdmin(i) \/ Fail(i)
        PROVE  ScreeningIInv'
    BY <2>1, RefreshMoves, RefreshedKeeps
  <2> QED
    BY <1>1, <2>1, ApplicantKeeps, Zenon DEF ScreeningNext, Step
<1>2. CASE UNCHANGED screeningVars
  BY <1>2 DEF screeningVars, ScreeningIInv, ScreeningTypeOK, RefreshTypeOK, OfSomebody, ApprovesClear
<1> QED
  BY <1>1, <1>2

\* The invariant is one.
LEMMA ScreeningInvariant == ScreeningSpec => []ScreeningIInv
BY ScreeningStarts, ScreeningStep, PTL DEF ScreeningSpec

\* The screening's records are what they seem, however refreshes, submissions,
\* decisions and restarts fall.
THEOREM ScreeningTypeCorrect == ScreeningSpec => []ScreeningTypeOK
<1>1. ScreeningIInv => ScreeningTypeOK
  BY DEF ScreeningIInv
<1> QED
  BY <1>1, ScreeningInvariant, PTL

\* No employer's decision takes a flag away, for any number of instances and names:
\* the decision's transaction holds the row from the check to the write.
THEOREM EmployerNeverClears == ScreeningSpec => EmployerClearsNoFlag
<1>1. ASSUME ScreeningIInv, ScreeningNext, decision # Resting, decision.by = "employer",
             decision' = Resting, kyc.flag = "flagged"
      PROVE  kyc'.flag = "flagged"
  <2>1. WriteDecision
    BY <1>1 DEF ScreeningNext, Step, Insert, Switch, Prune, Reload, SelectClear, Flag, StartJob,
                StartByAdmin, Start, Fail, Restart, Publish, ScreenSubmission, StartDecision, Write
  <2>2. decision.to # "approved"
    BY <1>1 DEF ScreeningIInv, ApprovesClear
  <2>3. kyc \in Rows
    BY <1>1 DEF ScreeningIInv, ScreeningTypeOK
  <2> QED
    BY <1>1, <2>1, <2>2, <2>3 DEF WriteDecision, Rows, Nothing
<1>2. ScreeningIInv /\ [ScreeningNext]_screeningVars =>
        [decision # Resting /\ decision.by = "employer" /\ decision' = Resting
           => (kyc.flag = "flagged" => kyc'.flag = "flagged")]_screeningVars
  BY <1>1
<1> QED
  BY <1>2, ScreeningInvariant, PTL DEF ScreeningSpec, EmployerClearsNoFlag

\* One refresh at a time, the job's: the batch it makes the list is written before,
\* and the one it keeps is the list.
AloneWithList(i) ==
  /\ refresh[i].by = "job"
  /\ \A k \in Servers : refresh[k] # Resting => k = i
  /\ refresh[i].pc = "insert" => refresh[i].list # {} /\ refresh[i].batch # meta
  /\ refresh[i].pc = "switch" => entries[refresh[i].batch] # {}
  /\ refresh[i].pc = "prune" => refresh[i].batch = meta

LockedIInv ==
  /\ ScreeningTypeOK /\ RefreshTypeOK /\ WholeList
  /\ \A i \in Servers : refresh[i] # Resting => AloneWithList(i)

\* A step that changes neither the lists nor what is at work, or ends a refresh.
LEMMA ListUntouched ==
  ASSUME LockedIInv, ScreeningTypeOK', RefreshTypeOK', UNCHANGED <<entries, meta>>,
         \A i \in Servers : refresh'[i] \in {refresh[i], Resting}
  PROVE  LockedIInv'
<1>1. WholeList'
  BY DEF LockedIInv, WholeList
<1>2. ASSUME NEW i \in Servers, refresh'[i] # Resting PROVE AloneWithList(i)'
  <2>1. refresh'[i] = refresh[i] /\ AloneWithList(i)
    BY <1>2 DEF LockedIInv
  <2> QED
    BY <2>1 DEF AloneWithList
<1> QED
  BY <1>1, <1>2 DEF LockedIInv

\* The job begins a refresh when no other is under way.
LEMMA JobStartsAlone ==
  ASSUME LockedIInv, ScreeningTypeOK', RefreshTypeOK', NEW i \in Servers, StartJob(i)
  PROVE  LockedIInv'
<1>0. \E n \in {i} \X {0, 1} : n # meta
  BY NewBatch
<1>1. PICK b : /\ refresh' = [refresh EXCEPT ![i] = [pc |-> "insert", by |-> "job",
                                list |-> published, batch |-> b, row |-> Nothing]]
               /\ b # meta /\ entries' = [entries EXCEPT ![b] = {}] /\ meta' = meta
  BY <1>0 DEF StartJob, Start
<1>2. refresh \in [Servers -> {Resting} \cup Refreshes] /\ published # {}
  BY DEF LockedIInv, RefreshTypeOK, ScreeningTypeOK
<1>3. /\ refresh'[i] = [pc |-> "insert", by |-> "job", list |-> published, batch |-> b, row |-> Nothing]
      /\ \A k \in Servers : k # i => refresh'[k] = refresh[k]
  BY <1>1, <1>2
<1>4. \A k \in Servers : refresh[k] = Resting
  BY DEF StartJob, LockedIInv, AloneWithList
<1>5. AloneWithList(i)'
  BY <1>1, <1>2, <1>3, <1>4 DEF AloneWithList
<1>6. WholeList'
  BY <1>1 DEF LockedIInv, WholeList, ScreeningTypeOK
<1> QED
  BY <1>3, <1>4, <1>5, <1>6 DEF LockedIInv

\* The one refresh goes on.
LEMMA AloneGoesOn ==
  ASSUME LockedIInv, ScreeningTypeOK', RefreshTypeOK', NEW i \in Servers,
         Insert(i) \/ Switch(i) \/ Prune(i) \/ Reload(i) \/ SelectClear(i)
  PROVE  LockedIInv'
<1>1. /\ refresh \in [Servers -> {Resting} \cup Refreshes]
      /\ entries \in [Batches -> Lists] /\ meta \in Batches /\ entries[meta] # {}
  BY DEF LockedIInv, RefreshTypeOK, ScreeningTypeOK, WholeList
<1>2. refresh[i] # Resting
  BY DEF Insert, Switch, Prune, Reload, SelectClear, Reached, Resting
<1>3. refresh[i] \in Refreshes /\ refresh[i].batch \in Batches /\ AloneWithList(i)
  BY <1>1, <1>2 DEF LockedIInv, Refreshes
<1>4. \A k \in Servers : k # i => refresh[k] = Resting
  BY <1>3 DEF AloneWithList
<1>5. ASSUME NEW r \in Refreshes, refresh' = [refresh EXCEPT ![i] = r],
             r.by = refresh[i].by, r.batch = refresh[i].batch,
             r.pc = "insert" => r.list # {} /\ r.batch # meta',
             r.pc = "switch" => entries'[r.batch] # {}, r.pc = "prune" => r.batch = meta',
             WholeList'
      PROVE  LockedIInv'
  <2>1. refresh'[i] = r /\ \A k \in Servers : k # i => refresh'[k] = Resting
    BY <1>1, <1>4, <1>5
  <2>2. AloneWithList(i)'
    BY <1>3, <1>5, <2>1 DEF AloneWithList
  <2> QED
    BY <1>5, <2>1, <2>2 DEF LockedIInv
<1>6. ASSUME NEW pc \in {"switch", "prune", "reload", "select"}, Go(i, pc),
             pc = "switch" => entries'[refresh[i].batch] # {},
             pc = "prune" => refresh[i].batch = meta',
             WholeList'
      PROVE  LockedIInv'
  <2> DEFINE r == [refresh[i] EXCEPT !.pc = pc]
  <2>1. /\ r \in Refreshes /\ r.pc = pc /\ r.by = refresh[i].by /\ r.list = refresh[i].list
        /\ r.batch = refresh[i].batch
    BY <1>3 DEF Refreshes
  <2>2. refresh' = [refresh EXCEPT ![i] = r]
    BY <1>6 DEF Go
  <2> HIDE DEF r
  <2> QED
    BY <1>5, <1>6, <2>1, <2>2
<1>7. CASE Insert(i)
  <2>1. PICK name \in refresh[i].list :
          /\ entries' = [entries EXCEPT ![refresh[i].batch] = @ \cup {name}]
          /\ refresh' = [refresh EXCEPT ![i].list = refresh[i].list \ {name},
                ![i].pc = IF refresh[i].list \ {name} = {} THEN "switch" ELSE @]
    BY <1>7 DEF Insert
  <2>2. refresh[i].pc = "insert" /\ meta' = meta /\ refresh[i].batch # meta
    BY <1>3, <1>7 DEF Insert, Reached, AloneWithList
  <2> DEFINE r == [refresh[i] EXCEPT !.list = refresh[i].list \ {name},
                     !.pc = IF refresh[i].list \ {name} = {} THEN "switch" ELSE @]
  <2>3. /\ r \in Refreshes /\ r.by = refresh[i].by /\ r.batch = refresh[i].batch
        /\ r.list = refresh[i].list \ {name}
        /\ r.pc = IF refresh[i].list \ {name} = {} THEN "switch" ELSE "insert"
    BY <1>3, <2>1, <2>2 DEF Refreshes, Lists
  <2>4. refresh' = [refresh EXCEPT ![i] = r]
    BY <1>1, <2>1
  <2>5. entries'[refresh[i].batch] # {} /\ entries'[meta] # {}
    BY <1>1, <1>3, <2>1
  <2> HIDE DEF r
  <2> QED
    BY <1>5, <2>2, <2>3, <2>4, <2>5 DEF WholeList
<1>8. CASE Switch(i)
  <2>1. Go(i, "prune") /\ meta' = refresh[i].batch /\ entries' = entries
    BY <1>8 DEF Switch
  <2>2. entries[refresh[i].batch] # {}
    BY <1>3, <1>8 DEF Switch, Reached, AloneWithList
  <2> QED
    BY <1>6, <2>1, <2>2 DEF WholeList
<1>9. CASE Prune(i)
  <2>1. /\ Go(i, "reload") /\ meta' = meta
        /\ entries' = [b \in Batches |-> IF b = refresh[i].batch THEN entries[b] ELSE {}]
    BY <1>9 DEF Prune
  <2>2. refresh[i].batch = meta
    BY <1>3, <1>9 DEF Prune, Reached, AloneWithList
  <2>3. entries'[meta] # {}
    BY <1>1, <2>1, <2>2
  <2> QED
    BY <1>6, <2>1, <2>3 DEF WholeList
<1>10. CASE Reload(i)
  BY <1>1, <1>6, <1>10 DEF Reload, WholeList
<1>11. CASE SelectClear(i)
  <2>1. UNCHANGED <<entries, meta>>
    BY <1>11 DEF SelectClear
  <2>2. CASE kyc # Nothing /\ kyc.flag = "clear"
    <3> DEFINE r == [refresh[i] EXCEPT !.pc = "flag", !.row = kyc]
    <3>1. kyc \in Rows
      BY DEF LockedIInv, ScreeningTypeOK
    <3>2. /\ r \in Refreshes /\ r.pc = "flag" /\ r.by = refresh[i].by
          /\ r.list = refresh[i].list /\ r.batch = refresh[i].batch
      BY <1>3, <3>1 DEF Refreshes
    <3>3. refresh' = [refresh EXCEPT ![i] = r]
      BY <1>11, <2>2 DEF SelectClear
    <3> HIDE DEF r
    <3> QED
      BY <1>1, <1>5, <2>1, <3>2, <3>3 DEF WholeList
  <2>3. CASE ~(kyc # Nothing /\ kyc.flag = "clear")
    <3>1. \A k \in Servers : refresh'[k] \in {refresh[k], Resting}
      BY <1>1, <1>11, <2>3 DEF SelectClear, Done
    <3> QED
      BY <2>1, <3>1, ListUntouched
  <2> QED
    BY <2>2, <2>3
<1> QED
  BY <1>7, <1>8, <1>9, <1>10, <1>11

\* Every step without the admin's request.
LEMMA LockedStep ==
  ASSUME LockedIInv, ScreeningTypeOK', RefreshTypeOK',
         ScreeningNext, \A i \in Servers : ~StartByAdmin(i)
  PROVE  LockedIInv'
<1>0. refresh \in [Servers -> {Resting} \cup Refreshes]
  BY DEF LockedIInv, RefreshTypeOK
<1>1. ASSUME NEW i \in Servers, Flag(i) \/ Fail(i) \/ Restart(i) PROVE LockedIInv'
  <2>1. UNCHANGED <<entries, meta>> /\ Done(i)
    BY <1>1 DEF Flag, Fail, Restart
  <2>2. \A k \in Servers : refresh'[k] \in {refresh[k], Resting}
    BY <1>0, <2>1 DEF Done
  <2> QED
    BY <2>1, <2>2, ListUntouched
<1>2. ASSUME UNCHANGED <<entries, meta, refresh>> PROVE LockedIInv'
  BY <1>2, ListUntouched
<1>3. ASSUME NEW i \in Servers, Step(i) PROVE LockedIInv'
  BY <1>1, <1>3, AloneGoesOn DEF Step
<1>4. ASSUME NEW i \in Servers, StartJob(i) PROVE LockedIInv'
  BY <1>4, JobStartsAlone
<1>5. ASSUME NEW list \in Lists \ {{}}, Publish(list) PROVE LockedIInv'
  BY <1>2, <1>5 DEF Publish
<1>6. ASSUME NEW i \in Servers, NEW n \in Names, ScreenSubmission(i, n) PROVE LockedIInv'
  BY <1>2, <1>6 DEF ScreenSubmission
<1>7. ASSUME NEW by \in {"platform", "employer"}, NEW to \in {"approved", "rejected"},
             StartDecision(by, to)
      PROVE  LockedIInv'
  BY <1>2, <1>7 DEF StartDecision
<1>8. CASE Write \/ WriteDecision
  BY <1>2, <1>8 DEF Write, WriteDecision
<1> QED
  BY <1>1, <1>3, <1>4, <1>5, <1>6, <1>7, <1>8 DEF ScreeningNext

\* "Readers never see a half-written list" (sanctions/service.ts:47), as long as every
\* refresh is the job's, which holds the lock: for any number of instances and names.
THEOREM LockedListIsWhole == LockedSpec => []WholeList
<1> DEFINE I == ScreeningIInv /\ LockedIInv
           N == ScreeningNext /\ \A i \in Servers : ~StartByAdmin(i)
<1>1. ScreeningInit => I
  <2> SUFFICES ASSUME ScreeningInit PROVE I
    OBVIOUS
  <2>1. ScreeningIInv
    BY ScreeningStarts
  <2>2. WholeList
    BY DEF ScreeningInit, WholeList
  <2>3. \A i \in Servers : refresh[i] = Resting
    BY DEF ScreeningInit
  <2> QED
    BY <2>1, <2>2, <2>3 DEF ScreeningIInv, LockedIInv
<1>2. I /\ [N]_screeningVars => I'
  <2> SUFFICES ASSUME I, [N]_screeningVars PROVE I'
    OBVIOUS
  <2>1. ScreeningIInv'
    BY ScreeningStep
  <2>2. ScreeningTypeOK' /\ RefreshTypeOK'
    BY <2>1 DEF ScreeningIInv
  <2>3. CASE N
    BY <2>1, <2>2, <2>3, LockedStep
  <2>4. CASE UNCHANGED screeningVars
    BY <2>1, <2>2, <2>4, ListUntouched DEF screeningVars
  <2> QED
    BY <2>1, <2>3, <2>4
<1>3. I => WholeList
  BY DEF LockedIInv
<1> QED
  BY <1>1, <1>2, <1>3, PTL DEF LockedSpec

-----------------------------------------------------------------------------
(* The four parts side by side, as MCJobs has them. *)

\* Every part's invariant, whichever part is in focus.
AllIInv ==
  BatchIInv /\ CashoutBound /\ LockIInv /\ CallsBound /\ ScreeningIInv

\* A step of one part is a step of each part or leaves it alone.
LEMMA StepOfEach ==
  ASSUME [Next]_vars
  PROVE  /\ [BatchNext]_batchVars /\ [CashoutNext]_cashoutVars /\ [LockNext]_lockVars
         /\ [ScreeningNext]_screeningVars
<1>1. CASE UNCHANGED vars
  BY <1>1 DEF vars
<1>2. CASE Next
  BY <1>2 DEF Next
<1> QED
  BY <1>1, <1>2

\* Each part's state keeps its type in every behaviour of MCJobs.
THEOREM JobsTypeCorrect == Spec => []TypeOK
<1>1. Init => AllIInv
  BY BatchAssumption, BatchStarts, CashoutBoundStarts, LockStarts, BoundStarts, ScreeningStarts DEF Init, AllIInv
<1>2. AllIInv /\ [Next]_vars => AllIInv'
  <2> SUFFICES ASSUME AllIInv, [Next]_vars PROVE AllIInv'
    OBVIOUS
  <2>1. BatchIInv' /\ CashoutBound'
    BY StepOfEach, BatchStep, CashoutBoundStep DEF AllIInv
  <2>2. LockIInv' /\ CallsBound'
    BY StepOfEach, LockStep, BoundStep DEF AllIInv
  <2>3. ScreeningIInv'
    BY StepOfEach, ScreeningStep DEF AllIInv
  <2> QED
    BY <2>1, <2>2, <2>3 DEF AllIInv
<1>3. AllIInv => TypeOK
  <2> SUFFICES ASSUME AllIInv PROVE TypeOK
    OBVIOUS
  <2>1. BatchTypeOK /\ ScreeningTypeOK
    BY DEF AllIInv, BatchIInv, ScreeningIInv
  <2>2. CashoutTypeOK
    BY DEF AllIInv, CashoutBound, Types, CashoutTypeOK
  <2>3. LockTypeOK
    BY LockTypes DEF AllIInv
  <2> QED
    BY <2>1, <2>2, <2>3 DEF TypeOK
<1> QED
  BY <1>1, <1>2, <1>3, PTL DEF Spec
=============================================================================
