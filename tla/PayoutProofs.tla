---------------------------- MODULE PayoutProofs ----------------------------
(***************************************************************************)
(* Proofs about Payout for any number of keys and requests, however long   *)
(* they take, and any StaleAfter that outlasts a transaction               *)
(* (PayoutAssumption).                                                     *)
(***************************************************************************)
EXTENDS Payout, SequenceTheorems, FiniteSetTheorems, TLAPS

-----------------------------------------------------------------------------
(* The inductive invariant. *)

Last(k)    == txs[k][Len(txs[k])]
AllDead(k) == \A i \in DOMAIN txs[k] : txs[k][i].fate = "dead"
LastLanded(k, kind) ==
  txs[k] # <<>> /\ Last(k).fate = "landed" /\ Last(k).kind = kind
Reported(kind) == IF kind = "payment" THEN "completed" ELSE "pending_claim"

Types ==
  /\ payments \in [Keys -> [status : Statuses \cup {"none"}, age : 0..StaleAfter]]
  /\ txs \in [Keys -> Seq(Tx)]
  /\ requests \in [Requests -> Request \cup {Idle}]
  /\ watchdog \in Sweep \cup {Asleep}
  /\ late \subseteq Keys

\* The transactions of a key: only the last one can be alive, none is when the row
\* is free or failed, it has landed as reported when the row is paid, and one in
\* the air is too young for its row to be stale.
TransactionsMatch(k) ==
  LET row == payments[k]
  IN  /\ \A i \in DOMAIN txs[k] : i < Len(txs[k]) => txs[k][i].fate = "dead"
      /\ \A i \in DOMAIN txs[k] : txs[k][i].fate = "new" => row.age + 2 <= StaleAfter
      /\ \A i \in DOMAIN txs[k] : txs[k][i].fate = "old" => row.age + 1 <= StaleAfter
      /\ row.status \in {"none", "failed"} => AllDead(k)
      /\ row.status \in Paid =>
           \E kind \in Kinds : row.status = Reported(kind) /\ LastLanded(k, kind)

\* A request at work on a row, in time: it is the only one, the row is its own and
\* young enough for one more transaction, and what it is about to do fits what has
\* become of its transactions.
Timely(r) == Working(r) /\ requests[r].key \notin late

RequestMatches(r) ==
  LET k == requests[r].key
  IN  /\ payments[k].status = "initiated" /\ payments[k].age + 2 <= StaleAfter
      /\ \A s \in Requests : Working(s) /\ requests[s].key = k => s = r
      /\ requests[r].pc \in {"gate", "send", "fallback", "fail"} => AllDead(k)
      /\ requests[r].pc = "wait" => txs[k] # <<>> /\ Last(k).kind = requests[r].kind
      /\ requests[r].pc = "settle" => LastLanded(k, requests[r].kind)

\* What the watchdog has listed, and looked up, stays as it was until it writes.
Overdue(k) == payments[k].status \in Open /\ payments[k].age = StaleAfter

WatchdogMatches ==
  /\ watchdog # Asleep => \A k \in watchdog.todo \ late : Overdue(k)
  /\ watchdog.pc = "write" =>
       /\ watchdog.key \notin watchdog.todo
       /\ watchdog.key \notin late =>
            /\ Overdue(watchdog.key)
            /\ IF watchdog.found = "none" THEN AllDead(watchdog.key)
               ELSE LastLanded(watchdog.key, watchdog.found)

\* Nothing is said of a key that is late: the watchdog may have ruled on it while a
\* request was still to submit.
IInv ==
  /\ Types
  /\ \A k \in Keys \ late : TransactionsMatch(k)
  /\ \A r \in Requests : Timely(r) => RequestMatches(r)
  /\ WatchdogMatches

-----------------------------------------------------------------------------
(* Sequences of transactions. *)

\* One more transaction.
LEMMA Appended ==
  ASSUME NEW s \in Seq(Tx), NEW t \in Tx
  PROVE  /\ Append(s, t) \in Seq(Tx)
         /\ Len(Append(s, t)) = Len(s) + 1 /\ Len(s) \in Nat
         /\ Append(s, t) # <<>>
         /\ DOMAIN Append(s, t) = 1..(Len(s) + 1)
         /\ \A i \in 1..Len(s) : Append(s, t)[i] = s[i]
         /\ Append(s, t)[Len(s) + 1] = t
  OBVIOUS

\* Transactions whose fates change.
LEMMA Changed ==
  ASSUME NEW s \in Seq(Tx), NEW t,
         t = [i \in DOMAIN s |-> t[i]],
         \A i \in DOMAIN s : t[i] \in Tx /\ t[i].kind = s[i].kind
  PROVE  /\ t \in Seq(Tx) /\ Len(t) = Len(s) /\ DOMAIN t = DOMAIN s
         /\ (t = <<>> <=> s = <<>>)
<1>1. Len(s) \in Nat /\ DOMAIN s = 1..Len(s)
  OBVIOUS
<1>2. t \in [1..Len(s) -> Tx]
  BY <1>1
<1>3. t \in Seq(Tx)
  BY <1>1, <1>2, SeqDef
<1>4. Len(t) = Len(s)
  BY <1>1, <1>2, <1>3
<1> QED
  BY <1>1, <1>2, <1>3, <1>4

\* What the provers need to know of a sequence of transactions.
LEMMA SeqFacts ==
  ASSUME NEW s \in Seq(Tx)
  PROVE  /\ Len(s) \in Nat /\ DOMAIN s = 1..Len(s)
         /\ \A i \in DOMAIN s : s[i] \in Tx
         /\ s # <<>> => Len(s) \in DOMAIN s
  OBVIOUS

-----------------------------------------------------------------------------
(* What a step leaves alone. *)

\* A key whose transactions a step leaves alone is as dead, or as landed, as before.
LEMMA SameTransactions ==
  ASSUME NEW k, txs'[k] = txs[k]
  PROVE  /\ AllDead(k)' = AllDead(k) /\ Last(k)' = Last(k)
         /\ \A kind : LastLanded(k, kind)' = LastLanded(k, kind)
         /\ LandedKinds(k)' = LandedKinds(k)
<1>1. LandedKinds(k)' = LandedKinds(k)
  BY DEF LandedKinds
<1> QED
  BY <1>1 DEF AllDead, Last, LastLanded

\* A request that is not at work in the step, on a row that is not touched.
LEMMA RequestStays ==
  ASSUME NEW s \in Requests, RequestMatches(s), requests'[s] = requests[s],
         NEW k, k = requests[s].key, payments'[k] = payments[k], txs'[k] = txs[k],
         \A t \in Requests : Working(t)' /\ requests'[t].key = k => t = s
  PROVE  RequestMatches(s)'
<1>1. AllDead(k)' = AllDead(k) /\ Last(k)' = Last(k)
      /\ \A kind : LastLanded(k, kind)' = LastLanded(k, kind)
  BY SameTransactions
<1>2. /\ payments[k].status = "initiated" /\ payments[k].age + 2 <= StaleAfter
      /\ requests[s].pc \in {"gate", "send", "fallback", "fail"} => AllDead(k)
      /\ requests[s].pc = "wait" => txs[k] # <<>> /\ Last(k).kind = requests[s].kind
      /\ requests[s].pc = "settle" => LastLanded(k, requests[s].kind)
  BY DEF RequestMatches
<1>3. requests'[s].key = k
  OBVIOUS
<1>4. /\ payments'[k].status = "initiated" /\ payments'[k].age + 2 <= StaleAfter
      /\ requests'[s].pc \in {"gate", "send", "fallback", "fail"} => AllDead(k)'
      /\ requests'[s].pc = "wait" => txs'[k] # <<>> /\ Last(k)'.kind = requests'[s].kind
      /\ requests'[s].pc = "settle" => LastLanded(k, requests[s].kind)'
  BY <1>1, <1>2
<1> QED
  BY <1>3, <1>4 DEF RequestMatches, AllDead, LastLanded, Last

\* The watchdog, when none of the rows that it has listed is touched.
LEMMA WatchdogStays ==
  ASSUME IInv, UNCHANGED <<watchdog, late>>,
         \A k \in Keys \ late : Overdue(k) => payments'[k] = payments[k] /\ txs'[k] = txs[k]
  PROVE  WatchdogMatches'
<1>1. WatchdogMatches /\ watchdog \in Sweep \cup {Asleep}
  BY DEF IInv, Types
<1>2. /\ watchdog # Asleep => watchdog.todo \subseteq Keys
      /\ watchdog.pc = "write" => watchdog # Asleep /\ watchdog.key \in Keys
  BY <1>1 DEF Sweep, Asleep
<1>3. \A k \in Keys \ late : Overdue(k) => Overdue(k)'
  BY DEF Overdue
<1>4. ASSUME watchdog.pc = "write", watchdog.key \notin late
      PROVE  IF watchdog.found = "none" THEN AllDead(watchdog.key)'
             ELSE LastLanded(watchdog.key, watchdog.found)'
  <2>1. PICK k \in Keys \ late : k = watchdog.key
    BY <1>2, <1>4
  <2>2. /\ Overdue(k)
        /\ IF watchdog.found = "none" THEN AllDead(k) ELSE LastLanded(k, watchdog.found)
    BY <1>1, <1>4, <2>1 DEF WatchdogMatches
  <2>3. AllDead(k)' = AllDead(k) /\ \A kind : LastLanded(k, kind)' = LastLanded(k, kind)
    BY <2>2, SameTransactions
  <2> QED
    BY <2>1, <2>2, <2>3 DEF AllDead, LastLanded, Last
<1> QED
  BY <1>1, <1>2, <1>3, <1>4 DEF WatchdogMatches

-----------------------------------------------------------------------------
(* Steps that change only what a request is doing. *)

\* A transaction in the air belongs to a row that is open and not overdue.
LEMMA FlyingIsOpen ==
  ASSUME PayoutAssumption, IInv, NEW k \in Keys \ late, NEW i \in DOMAIN txs[k],
         txs[k][i].fate \in Flying
  PROVE  /\ payments[k].status \in Open /\ ~Overdue(k)
         /\ i = Len(txs[k])
<1>1. /\ txs[k] \in Seq(Tx) /\ payments[k].age \in 0..StaleAfter
      /\ payments[k].status \in Statuses \cup {"none"}
  BY DEF IInv, Types
<1>2. Len(txs[k]) \in Nat /\ DOMAIN txs[k] = 1..Len(txs[k])
  BY <1>1, SeqFacts
<1>3. txs[k][i].fate # "dead" /\ txs[k][i].fate # "landed"
  BY DEF Flying
<1>4. TransactionsMatch(k)
  BY DEF IInv
<1>5. i < Len(txs[k]) => txs[k][i].fate = "dead"
  BY <1>4 DEF TransactionsMatch
<1>6. i = Len(txs[k])
  BY <1>2, <1>3, <1>5
<1>7. payments[k].status \notin {"none", "failed"}
  BY <1>3, <1>4 DEF TransactionsMatch, AllDead
<1>8. payments[k].status \notin Paid
  BY <1>3, <1>4, <1>6 DEF TransactionsMatch, LastLanded, Last
<1>9. ~Overdue(k)
  BY <1>1, <1>4 DEF TransactionsMatch, Overdue, Flying, PayoutAssumption
<1> QED
  BY <1>1, <1>6, <1>7, <1>8, <1>9 DEF Statuses, Open

\* The row a request works on in time is not overdue, and the watchdog is not at it.
LEMMA WorkingIsFresh ==
  ASSUME PayoutAssumption, IInv, NEW r \in Requests, Timely(r)
  PROVE  /\ requests[r] \in Request /\ requests[r].key \in Keys \ late
         /\ RequestMatches(r) /\ ~Overdue(requests[r].key)
<1>1. requests[r] \in Request
  BY DEF IInv, Types, Timely, Working
<1>2. requests[r].key \in Keys \ late
  BY <1>1 DEF Request, Timely
<1>3. RequestMatches(r)
  BY DEF IInv
<1>4. payments[requests[r].key].age \in 0..StaleAfter
  BY <1>2 DEF IInv, Types
<1>5. ~Overdue(requests[r].key)
  BY <1>3, <1>4 DEF RequestMatches, Overdue, PayoutAssumption
<1> QED
  BY <1>1, <1>2, <1>3, <1>5

\* A request stops working, or goes on to a place that fits its transactions.
LEMMA RequestMoves ==
  ASSUME PayoutAssumption, IInv, NEW r \in Requests,
         NEW next \in Request \cup {Idle},
         requests' = [requests EXCEPT ![r] = next],
         UNCHANGED <<payments, txs, watchdog, late>>,
         \/ ~Working(r)'
         \/ /\ Working(r) /\ next.key = requests[r].key
            /\ Timely(r) => RequestMatches(r)'
  PROVE  IInv'
<1>1. Types'
  BY DEF IInv, Types
<1>2. \A k \in Keys \ late : TransactionsMatch(k)'
  BY DEF IInv, TransactionsMatch, AllDead, LastLanded, Last
<1>3. ASSUME NEW s \in Requests, Timely(s)' PROVE RequestMatches(s)'
  <2>1. CASE s = r
    <3>1. Working(r)' /\ requests'[r] = next
      BY <1>3, <2>1 DEF Timely, IInv, Types
    <3> QED
      BY <1>3, <2>1, <3>1 DEF Timely
  <2>2. CASE s # r
    <3>1. requests'[s] = requests[s] /\ Timely(s) /\ RequestMatches(s)
      BY <2>2, <1>3 DEF IInv, Types, Timely, Working
    <3>2. ASSUME NEW t \in Requests, Working(t)', requests'[t].key = requests[s].key
          PROVE  t = s
      <4>1. Working(t) /\ requests[t].key = requests[s].key
        BY <3>2 DEF IInv, Types, Working
      <4> QED
        BY <4>1, <3>1 DEF RequestMatches
    <3>3. \A t \in Requests : Working(t)' /\ requests'[t].key = requests'[s].key => t = s
      BY <3>1, <3>2
    <3> QED
      BY <3>1, <3>3, RequestStays
  <2> QED
    BY <2>1, <2>2
<1>4. WatchdogMatches'
  BY WatchdogStays
<1> QED
  BY <1>1, <1>2, <1>3, <1>4 DEF IInv

-----------------------------------------------------------------------------
(* Steps that write a row. *)

\* A row that the watchdog is not at is written by the only request at work on it,
\* which ends, or by one that begins to work on it.
LEMMA RowWritten ==
  ASSUME PayoutAssumption, IInv, NEW r \in Requests, NEW k \in Keys,
         NEW status \in Statuses, NEW next \in Request \cup {Idle},
         Write(k, status), requests' = [requests EXCEPT ![r] = next],
         UNCHANGED <<txs, watchdog, late>>,
         next # Idle => status = "initiated" /\ next.key = k /\ next.pc \in {"gate", "send"},
         k \notin late =>
           /\ ~Overdue(k)
           /\ \A s \in Requests : Working(s) /\ requests[s].key = k => s = r
           /\ status = "failed" => AllDead(k)
           /\ status \in Paid =>
                \E kind \in Kinds : status = Reported(kind) /\ LastLanded(k, kind)
           /\ next # Idle => AllDead(k)
  PROVE  IInv'
<1>1. /\ payments \in [Keys -> [status : Statuses \cup {"none"}, age : 0..StaleAfter]]
      /\ payments' = [payments EXCEPT ![k] = [status |-> status, age |-> 0]]
      /\ StaleAfter \in Nat /\ StaleAfter >= 2
      /\ requests \in [Requests -> Request \cup {Idle}]
  BY DEF IInv, Types, Write, PayoutAssumption
<1>2. /\ payments'[k] = [status |-> status, age |-> 0]
      /\ \A l \in Keys : l # k => payments'[l] = payments[l]
      /\ requests'[r] = next
      /\ \A s \in Requests : s # r => requests'[s] = requests[s]
  BY <1>1
<1>3. Types'
  BY <1>1 DEF IInv, Types
<1>4. ASSUME NEW l \in Keys \ late PROVE TransactionsMatch(l)'
  <2>1. TransactionsMatch(l)
    BY DEF IInv
  <2>2. CASE l # k
    BY <1>2, <2>1, <2>2 DEF TransactionsMatch, AllDead, LastLanded, Last
  <2>3. CASE l = k
    <3>1. payments'[k].status = status /\ payments'[k].age = 0 /\ status # "none"
      BY <1>2 DEF Statuses, Open, Paid
    <3>2. 0 + 2 <= StaleAfter /\ 0 + 1 <= StaleAfter
      BY <1>1
    <3> QED
      BY <2>1, <2>3, <3>1, <3>2 DEF TransactionsMatch, AllDead, LastLanded, Last
  <2> QED
    BY <2>2, <2>3
<1>5. ASSUME NEW s \in Requests, Timely(s)' PROVE RequestMatches(s)'
  <2>1. CASE s = r
    <3>1. next # Idle /\ next.key = k /\ k \notin late
      BY <1>2, <1>5, <2>1 DEF Timely, Working
    <3>2. ASSUME NEW t \in Requests, Working(t)', requests'[t].key = k PROVE t = r
      BY <1>2, <3>1, <3>2 DEF Working
    <3>3. payments'[k].status = "initiated" /\ payments'[k].age + 2 <= StaleAfter
      BY <1>1, <1>2, <3>1
    <3> QED
      BY <1>2, <2>1, <3>1, <3>2, <3>3 DEF RequestMatches, AllDead
  <2>2. CASE s # r
    <3>1. Timely(s) /\ Working(s) /\ requests'[s] = requests[s]
      BY <1>2, <1>5, <2>2 DEF Timely, Working
    <3>2. RequestMatches(s) /\ requests[s].key \in Keys \ late
      BY <3>1, WorkingIsFresh
    <3>3. requests[s].key # k
      BY <2>2, <3>1, <3>2
    <3>4. ASSUME NEW t \in Requests, Working(t)', requests'[t].key = requests[s].key
          PROVE  t = s
      <4>1. CASE t = r
        BY <1>2, <3>3, <3>4, <4>1 DEF Working
      <4>2. CASE t # r
        BY <1>2, <3>2, <3>4, <4>2 DEF Working, RequestMatches
      <4> QED
        BY <4>1, <4>2
    <3> QED
      BY <1>2, <3>1, <3>2, <3>3, <3>4, RequestStays
  <2> QED
    BY <2>1, <2>2
<1>6. WatchdogMatches'
  BY <1>2, WatchdogStays
<1> QED
  BY <1>3, <1>4, <1>5, <1>6 DEF IInv

-----------------------------------------------------------------------------
(* Steps that change the transactions. *)

\* A request sends one more transaction.
LEMMA SubmitKeeps ==
  ASSUME PayoutAssumption, IInv, NEW r \in Requests, Submit(r)
  PROVE  IInv'
<1> DEFINE k   == requests[r].key
           new == [kind |-> requests[r].kind, fate |-> "new"]
<1>1. Working(r) /\ requests[r].pc = "send"
  BY DEF Submit, At, Working
<1>2. /\ requests[r] \in Request /\ k \in Keys /\ requests[r].kind \in Kinds
      /\ txs \in [Keys -> Seq(Tx)] /\ requests \in [Requests -> Request \cup {Idle}]
  BY <1>1 DEF IInv, Types, Working, Request
<1>3. new \in Tx /\ txs[k] \in Seq(Tx)
  BY <1>2 DEF Tx, Flying
<1>4. k \notin late =>
        /\ RequestMatches(r) /\ ~Overdue(k) /\ AllDead(k)
        /\ payments[k].status = "initiated" /\ payments[k].age + 2 <= StaleAfter
  <2>1. k \notin late => Timely(r)
    BY <1>1 DEF Timely
  <2>2. k \notin late => RequestMatches(r) /\ ~Overdue(k)
    BY <2>1, WorkingIsFresh
  <2> QED
    BY <1>1, <2>2 DEF RequestMatches
<1>5. /\ txs' = [txs EXCEPT ![k] = Append(txs[k], new)]
      /\ requests' = [requests EXCEPT ![r].pc = "wait"]
      /\ UNCHANGED <<payments, watchdog, late>>
  BY DEF Submit, Become
<1>6. /\ txs'[k] = Append(txs[k], new)
      /\ \A l \in Keys : l # k => txs'[l] = txs[l]
      /\ requests'[r] = [requests[r] EXCEPT !.pc = "wait"]
      /\ \A s \in Requests : s # r => requests'[s] = requests[s]
  BY <1>2, <1>3, <1>5
<1>7. /\ txs'[k] \in Seq(Tx) /\ txs'[k] # <<>>
      /\ Len(txs'[k]) = Len(txs[k]) + 1 /\ Len(txs[k]) \in Nat
      /\ DOMAIN txs'[k] = 1..(Len(txs[k]) + 1) /\ DOMAIN txs[k] = 1..Len(txs[k])
      /\ AllDead(k) => \A i \in DOMAIN txs'[k] : i < Len(txs'[k]) => txs'[k][i].fate = "dead"
      /\ txs'[k][Len(txs'[k])] = new
  <2>1. \A i \in 1..Len(txs[k]) : Append(txs[k], new)[i] = txs[k][i]
    BY <1>3, Appended
  <2>2. /\ Append(txs[k], new) \in Seq(Tx) /\ Append(txs[k], new) # <<>>
        /\ Len(Append(txs[k], new)) = Len(txs[k]) + 1 /\ Len(txs[k]) \in Nat
        /\ DOMAIN Append(txs[k], new) = 1..(Len(txs[k]) + 1)
        /\ Append(txs[k], new)[Len(txs[k]) + 1] = new
    BY <1>3, Appended
  <2>3. DOMAIN txs[k] = 1..Len(txs[k])
    BY <1>3, SeqFacts
  <2>4. AllDead(k) => \A i \in 1..Len(txs[k]) : Append(txs[k], new)[i].fate = "dead"
    BY <2>1, <2>3 DEF AllDead
  <2> HIDE DEF new
  <2>5. \A i \in 1..(Len(txs[k]) + 1) : i < Len(txs[k]) + 1 => i \in 1..Len(txs[k])
    BY <2>2
  <2> QED
    BY <1>6, <2>2, <2>3, <2>4, <2>5
<1>8. Types'
  <2>1. requests'[r] \in Request
    BY <1>2, <1>6 DEF Request, Busy
  <2>2. txs' \in [Keys -> Seq(Tx)] /\ requests' \in [Requests -> Request \cup {Idle}]
    BY <1>2, <1>3, <1>5, <1>6, <1>7, <2>1
  <2> QED
    BY <1>5, <2>2 DEF IInv, Types
<1>9. ASSUME NEW l \in Keys \ late PROVE TransactionsMatch(l)'
  <2>1. TransactionsMatch(l)
    BY DEF IInv
  <2>2. CASE l # k
    BY <1>5, <1>6, <2>1, <2>2 DEF TransactionsMatch, AllDead, LastLanded, Last
  <2>3. CASE l = k
    <3>1. payments[k].age \in 0..StaleAfter /\ StaleAfter \in Nat
      BY <1>2 DEF IInv, Types, PayoutAssumption
    <3>2. payments'[k].age + 2 <= StaleAfter /\ payments'[k].age + 1 <= StaleAfter
      BY <1>4, <1>5, <2>3, <3>1
    <3>3. payments'[k].status = "initiated" /\ AllDead(k)
      BY <1>4, <1>5, <2>3
    <3> QED
      BY <1>7, <2>3, <3>2, <3>3 DEF TransactionsMatch, Paid
  <2> QED
    BY <2>2, <2>3
<1>10. ASSUME NEW s \in Requests, Timely(s)' PROVE RequestMatches(s)'
  <2>1. ASSUME NEW t \in Requests, Working(t)'
        PROVE  Working(t) /\ requests'[t].key = requests[t].key
    BY <1>1, <1>2, <1>6, <2>1 DEF Working, Request
  <2>2. Working(s) /\ Timely(s) /\ RequestMatches(s)
    BY <1>5, <1>10, <2>1 DEF IInv, Timely
  <2>3. \A t \in Requests : Working(t)' /\ requests'[t].key = requests'[s].key => t = s
    BY <1>10, <2>1, <2>2 DEF RequestMatches, Timely
  <2>4. CASE s = r
    <3>1. /\ requests'[r].key = k /\ requests'[r].pc = "wait"
          /\ requests'[r].kind = requests[r].kind
      BY <1>2, <1>6 DEF Request
    <3>2. /\ payments'[k].status = "initiated" /\ payments'[k].age + 2 <= StaleAfter
          /\ txs'[k][Len(txs'[k])].kind = requests[r].kind
      BY <1>4, <1>5, <1>7, <2>2, <2>4 DEF Timely
    <3> HIDE DEF k
    <3> QED
      BY <1>7, <2>3, <2>4, <3>1, <3>2 DEF RequestMatches, Last
  <2>5. CASE s # r
    <3>1. requests[s].key # k /\ requests[s].key \in Keys
      BY <1>1, <2>2, <2>5, WorkingIsFresh DEF RequestMatches
    <3>2. requests'[s].key = requests[s].key
      BY <1>6, <2>5
    <3> QED
      BY <1>5, <1>6, <2>2, <2>3, <2>5, <3>1, <3>2, RequestStays
  <2> QED
    BY <2>4, <2>5
<1>11. WatchdogMatches'
  BY <1>4, <1>5, <1>6, WatchdogStays
<1> QED
  BY <1>5, <1>8, <1>9, <1>10, <1>11 DEF IInv

\* The network decides what becomes of the one transaction in the air.
LEMMA DecideKeeps ==
  ASSUME PayoutAssumption, IInv, NEW k \in Keys, NEW fate \in {"landed", "dead"},
         Decide(k, fate)
  PROVE  IInv'
<1>1. PICK i \in DOMAIN txs[k] : txs[k][i].fate \in Flying
                              /\ txs' = [txs EXCEPT ![k][i].fate = fate]
  BY DEF Decide
<1>2. UNCHANGED <<payments, requests, watchdog, late>> /\ txs \in [Keys -> Seq(Tx)]
  BY DEF Decide, IInv, Types
<1>3. k \notin late =>
        /\ payments[k].status \in Open /\ ~Overdue(k) /\ i = Len(txs[k])
        /\ TransactionsMatch(k)
  BY <1>1, FlyingIsOpen DEF IInv
<1>4. /\ Len(txs[k]) \in Nat /\ DOMAIN txs[k] = 1..Len(txs[k])
      /\ \A j \in DOMAIN txs[k] : txs[k][j] \in Tx
  BY <1>2, SeqFacts
<1>5. /\ txs'[k] = [j \in DOMAIN txs[k] |->
                     IF j = i THEN [txs[k][i] EXCEPT !.fate = fate] ELSE txs[k][j]]
      /\ \A l \in Keys : l # k => txs'[l] = txs[l]
      /\ DOMAIN txs' = Keys
  BY <1>1, <1>2
<1>6. /\ \A j \in DOMAIN txs[k] : j # i => txs'[k][j] = txs[k][j]
      /\ txs'[k][i] \in Tx /\ txs'[k][i].fate = fate
      /\ txs'[k][i].kind = txs[k][i].kind
  BY <1>1, <1>4, <1>5 DEF Tx
<1>7. /\ txs'[k] \in Seq(Tx) /\ Len(txs'[k]) = Len(txs[k])
      /\ DOMAIN txs'[k] = DOMAIN txs[k] /\ txs[k] # <<>> /\ txs'[k] # <<>>
  <2>1. txs'[k] = [j \in DOMAIN txs[k] |-> txs'[k][j]]
    BY <1>5
  <2>2. \A j \in DOMAIN txs[k] : txs'[k][j] \in Tx /\ txs'[k][j].kind = txs[k][j].kind
    BY <1>4, <1>6
  <2>3. txs[k] # <<>>
    BY <1>1, <1>4
  <2> QED
    BY <1>2, <2>1, <2>2, <2>3, Changed
<1>8. Types'
  <2>1. \A l \in Keys : txs'[l] \in Seq(Tx)
    BY <1>2, <1>5, <1>7
  <2>2. txs' = [l \in Keys |-> txs'[l]]
    BY <1>1, <1>2
  <2>3. txs' \in [Keys -> Seq(Tx)]
    BY <2>1, <2>2
  <2> QED
    BY <1>2, <2>3 DEF IInv, Types
<1>9. ASSUME NEW l \in Keys \ late PROVE TransactionsMatch(l)'
  <2>1. TransactionsMatch(l)
    BY DEF IInv
  <2>2. CASE l # k
    BY <1>2, <1>5, <2>1, <2>2 DEF TransactionsMatch, AllDead, LastLanded, Last
  <2>3. CASE l = k
    <3>1. payments'[k].status \notin {"none", "failed"} \cup Paid
      BY <1>2, <1>3, <2>3 DEF Open, Paid
    <3>2. \A j \in DOMAIN txs'[k] : j < Len(txs'[k]) => txs'[k][j].fate = "dead"
      BY <1>3, <1>4, <1>6, <1>7, <2>1, <2>3 DEF TransactionsMatch
    <3>3. \A j \in DOMAIN txs'[k] : txs'[k][j].fate = txs[k][j].fate \/ txs'[k][j].fate \notin Flying
      BY <1>6, <1>7 DEF Flying
    <3>4. ASSUME NEW j \in DOMAIN txs'[k]
          PROVE  /\ txs'[k][j].fate = "new" => payments'[k].age + 2 <= StaleAfter
                 /\ txs'[k][j].fate = "old" => payments'[k].age + 1 <= StaleAfter
      BY <1>2, <1>7, <2>1, <2>3, <3>3 DEF TransactionsMatch, Flying
    <3> QED
      BY <2>3, <3>1, <3>2, <3>4 DEF TransactionsMatch
  <2> QED
    BY <2>2, <2>3
<1>10. ASSUME NEW s \in Requests, Timely(s)' PROVE RequestMatches(s)'
  <2>1. Timely(s) /\ RequestMatches(s) /\ requests[s].key \in Keys \ late
    BY <1>2, <1>10, WorkingIsFresh DEF Timely, Working
  <2>2. \A t \in Requests : Working(t)' => Working(t)
    BY <1>2 DEF Working
  <2>3. CASE requests[s].key # k
    <3>1. \A t \in Requests : Working(t)' /\ requests'[t].key = requests[s].key => t = s
      BY <1>2, <2>1, <2>2 DEF RequestMatches
    <3> QED
      BY <1>2, <1>5, <2>1, <2>3, <3>1, RequestStays
  <2>4. CASE requests[s].key = k
    <3>1. i = Len(txs[k])
      BY <1>3, <2>1, <2>4
    <3>2. ~AllDead(k) /\ ~LastLanded(k, requests[s].kind)
      BY <1>1, <3>1 DEF AllDead, LastLanded, Last, Flying
    <3> QED
      BY <1>2, <1>6, <1>7, <2>1, <2>2, <2>4, <3>1, <3>2 DEF RequestMatches, Last
  <2> QED
    BY <2>3, <2>4
<1>11. WatchdogMatches'
  BY <1>2, <1>3, <1>5, WatchdogStays
<1> QED
  BY <1>2, <1>8, <1>9, <1>10, <1>11 DEF IInv

-----------------------------------------------------------------------------
(* The watchdog and the clock. *)

\* A step that changes only what the watchdog is at.
LEMMA WatchdogMoves ==
  ASSUME IInv, UNCHANGED <<payments, txs, requests, late>>,
         watchdog' \in Sweep \cup {Asleep}, WatchdogMatches'
  PROVE  IInv'
<1>1. Types'
  BY DEF IInv, Types
<1>2. \A k \in Keys \ late : TransactionsMatch(k)'
  BY DEF IInv, TransactionsMatch, AllDead, LastLanded, Last
<1>3. ASSUME NEW r \in Requests, Timely(r)' PROVE RequestMatches(r)'
  <2>1. Timely(r) /\ RequestMatches(r)
    BY <1>3 DEF IInv, Timely, Working
  <2> QED
    BY <2>1 DEF Working, RequestMatches, AllDead, LastLanded, Last
<1> QED
  BY <1>1, <1>2, <1>3 DEF IInv

\* What the transactions of a row have come to, and the watchdog's verdict on it.
LEMMA Findings ==
  ASSUME PayoutAssumption, IInv, NEW k \in Keys \ late, Overdue(k)
  PROVE  /\ LandedKinds(k) = {} => AllDead(k)
         /\ \A kind \in LandedKinds(k) : kind \in Kinds /\ LastLanded(k, kind)
<1>1. txs[k] \in Seq(Tx) /\ TransactionsMatch(k)
  BY DEF IInv, Types
<1>2. /\ Len(txs[k]) \in Nat /\ DOMAIN txs[k] = 1..Len(txs[k])
      /\ \A i \in DOMAIN txs[k] : txs[k][i] \in Tx
  BY <1>1, SeqFacts
<1>3. \A i \in DOMAIN txs[k] : txs[k][i].fate \notin Flying
  BY FlyingIsOpen
<1>4. ASSUME LandedKinds(k) = {} PROVE AllDead(k)
  <2>1. ASSUME NEW i \in DOMAIN txs[k] PROVE txs[k][i].fate = "dead"
    <3>1. txs[k][i].fate # "landed"
      BY <1>4 DEF LandedKinds
    <3> QED
      BY <1>2, <1>3, <3>1 DEF Tx
  <2> QED
    BY <2>1 DEF AllDead
<1>5. ASSUME NEW kind \in LandedKinds(k) PROVE kind \in Kinds /\ LastLanded(k, kind)
  <2>1. PICK i \in DOMAIN txs[k] : txs[k][i].fate = "landed" /\ kind = txs[k][i].kind
    BY DEF LandedKinds
  <2>2. i < Len(txs[k]) => txs[k][i].fate = "dead"
    BY <1>1 DEF TransactionsMatch
  <2>3. i = Len(txs[k])
    BY <1>2, <2>1, <2>2
  <2>4. txs[k] # <<>>
    BY <1>2
  <2> QED
    BY <1>2, <2>1, <2>3, <2>4 DEF LastLanded, Last, Tx
<1> QED
  BY <1>4, <1>5

\* A transaction found is of one of the two kinds.
LEMMA KindsFound ==
  ASSUME IInv, NEW k \in Keys PROVE LandedKinds(k) \subseteq Kinds
<1>1. txs[k] \in Seq(Tx)
  BY DEF IInv, Types
<1>2. \A i \in DOMAIN txs[k] : txs[k][i] \in Tx
  BY <1>1, SeqFacts
<1> QED
  BY <1>2 DEF LandedKinds, Tx

\* The watchdog writes its verdict on a row that it has looked up.
LEMMA RuleKeeps ==
  ASSUME PayoutAssumption, IInv, Rule
  PROVE  /\ IInv'
         /\ watchdog.key \notin late =>
              payments' = [payments EXCEPT ![watchdog.key] =
                            [status |-> Verdict(watchdog.found), age |-> 0]]
<1> DEFINE k == watchdog.key
           status == Verdict(watchdog.found)
<1>1. /\ watchdog \in Sweep /\ watchdog.pc = "write" /\ WatchdogMatches
      /\ UNCHANGED <<txs, requests, late>>
      /\ watchdog' = [pc |-> "sweep", todo |-> watchdog.todo]
  BY DEF Rule, IInv, Types, Asleep
<1>2. /\ k \in Keys /\ watchdog.found \in Kinds \cup {"none"}
      /\ watchdog.todo \subseteq Keys /\ watchdog # Asleep
  BY <1>1 DEF Sweep, Asleep
<1>3. /\ k \notin watchdog.todo
      /\ \A l \in watchdog.todo \ late : Overdue(l)
      /\ k \notin late =>
           /\ Overdue(k)
           /\ watchdog.found = "none" => AllDead(k)
           /\ watchdog.found # "none" => LastLanded(k, watchdog.found)
  BY <1>1, <1>2 DEF WatchdogMatches
<1>4. /\ k \notin late => payments' = [payments EXCEPT ![k] = [status |-> status, age |-> 0]]
      /\ \/ payments' = [payments EXCEPT ![k] = [status |-> status, age |-> 0]]
         \/ payments' = payments
  BY <1>3 DEF Rule, Overdue, Write
<1>5. /\ payments \in [Keys -> [status : Statuses \cup {"none"}, age : 0..StaleAfter]]
      /\ StaleAfter \in Nat /\ StaleAfter >= 2
  BY DEF IInv, Types, PayoutAssumption
<1>6. status \in Paid \cup {"failed"} /\ status \in Statuses
  BY <1>2 DEF Verdict, Statuses, Paid, Kinds
<1>7. k \notin late =>
        /\ status = "failed" => AllDead(k)
        /\ status \in Paid => \E kind \in Kinds : status = Reported(kind) /\ LastLanded(k, kind)
  BY <1>2, <1>3 DEF Verdict, Paid, Kinds, Reported
<1>8. /\ k \notin late => payments'[k] = [status |-> status, age |-> 0]
      /\ \A l \in Keys : l # k => payments'[l] = payments[l]
  BY <1>2, <1>4, <1>5
<1>9. Types'
  <2>1. watchdog' \in Sweep
    BY <1>1, <1>2 DEF Sweep
  <2>2. payments' \in [Keys -> [status : Statuses \cup {"none"}, age : 0..StaleAfter]]
    BY <1>2, <1>4, <1>5, <1>6
  <2> QED
    BY <1>1, <2>1, <2>2 DEF IInv, Types
<1>10. ASSUME NEW l \in Keys \ late PROVE TransactionsMatch(l)'
  <2>1. TransactionsMatch(l)
    BY DEF IInv
  <2>2. CASE l # k
    BY <1>1, <1>8, <2>1, <2>2 DEF TransactionsMatch, AllDead, LastLanded, Last
  <2>3. CASE l = k
    <3>1. payments'[k].status = status /\ payments'[k].age = 0 /\ status # "none"
      BY <1>6, <1>8, <2>3 DEF Paid
    <3>2. 0 + 2 <= StaleAfter /\ 0 + 1 <= StaleAfter
      BY <1>5
    <3> QED
      BY <1>1, <1>7, <2>1, <2>3, <3>1, <3>2 DEF TransactionsMatch, AllDead, LastLanded, Last
  <2> QED
    BY <2>2, <2>3
<1>11. ASSUME NEW s \in Requests, Timely(s)' PROVE RequestMatches(s)'
  <2>1. Timely(s) /\ RequestMatches(s) /\ requests[s].key \in Keys \ late
        /\ ~Overdue(requests[s].key)
    BY <1>1, <1>11, WorkingIsFresh DEF Timely, Working
  <2>2. requests[s].key # k
    BY <1>3, <2>1
  <2> QED
    BY <1>1, <1>8, <2>1, <2>2 DEF Timely, Working, RequestMatches, AllDead, LastLanded, Last
<1>12. WatchdogMatches'
  <2>1. watchdog'.todo = watchdog.todo /\ watchdog'.pc = "sweep"
    BY <1>1
  <2>2. \A l \in watchdog.todo \ late : Overdue(l)'
    BY <1>2, <1>3, <1>8 DEF Overdue
  <2> QED
    BY <1>1, <2>1, <2>2 DEF WatchdogMatches
<1> QED
  BY <1>1, <1>4, <1>9, <1>10, <1>11, <1>12 DEF IInv

\* The other steps of the watchdog.
LEMMA WatchdogKeeps ==
  ASSUME PayoutAssumption, IInv, WatchdogStep
  PROVE  IInv'
<1>1. watchdog \in Sweep \cup {Asleep} /\ WatchdogMatches
  BY DEF IInv, Types
<1>2. watchdog.pc = "sweep" =>
        watchdog \in Sweep /\ watchdog # Asleep /\ watchdog.todo \subseteq Keys
  BY <1>1 DEF Sweep, Asleep
<1>3. CASE Select
  <2>1. /\ watchdog' = [pc |-> "sweep", todo |-> {k \in Keys : Stale(k)}]
        /\ UNCHANGED <<payments, txs, requests, late>>
    BY <1>3 DEF Select
  <2>2. ASSUME NEW k \in Keys, Stale(k) PROVE Overdue(k)
    <3>1. payments[k].age \in 0..StaleAfter
      BY DEF IInv, Types
    <3> QED
      BY <2>2, <3>1 DEF Stale, Overdue, PayoutAssumption
  <2>3. watchdog' \in Sweep
    BY <2>1 DEF Sweep
  <2>4. WatchdogMatches'
    <3>1. watchdog'.pc = "sweep" /\ watchdog'.todo = {k \in Keys : Stale(k)}
      BY <2>1
    <3> QED
      BY <2>1, <2>2, <3>1 DEF WatchdogMatches, Overdue
  <2> QED
    BY <2>1, <2>3, <2>4, WatchdogMoves
<1>4. CASE Rule
  BY <1>4, RuleKeeps
<1>5. ASSUME NEW k \in Keys, LookUp(k) PROVE IInv'
  <2>1. /\ watchdog.pc = "sweep" /\ k \in watchdog.todo
        /\ UNCHANGED <<payments, txs, requests, late>>
    BY <1>5 DEF LookUp
  <2>2. PICK found \in IF LandedKinds(k) = {} THEN {"none"} ELSE LandedKinds(k) :
          watchdog' = [pc |-> "write", todo |-> watchdog.todo \ {k}, key |-> k, found |-> found]
    BY <1>5 DEF LookUp
  <2>3. /\ k \notin late => Overdue(k)
        /\ \A l \in watchdog.todo \ late : Overdue(l)
    BY <1>1, <1>2, <2>1 DEF WatchdogMatches
  <2>4. k \notin late =>
          /\ LandedKinds(k) = {} => AllDead(k)
          /\ \A kind \in LandedKinds(k) : kind \in Kinds /\ LastLanded(k, kind)
    BY <2>3, Findings
  <2>5. /\ found \in Kinds \cup {"none"}
        /\ k \notin late =>
             /\ found = "none" => AllDead(k)
             /\ found # "none" => LastLanded(k, found)
    BY <2>2, <2>4, KindsFound DEF Kinds
  <2>6. watchdog' \in Sweep
    BY <1>2, <2>1, <2>2, <2>5 DEF Sweep
  <2>7. WatchdogMatches'
    <3>1. /\ watchdog'.pc = "write" /\ watchdog'.todo = watchdog.todo \ {k}
          /\ watchdog'.key = k /\ watchdog'.found = found
      BY <2>2
    <3>2. \A l \in watchdog.todo \ late : Overdue(l)'
      BY <2>1, <2>3 DEF Overdue
    <3>3. k \notin late =>
            /\ Overdue(k)'
            /\ found = "none" => AllDead(k)'
            /\ found # "none" => LastLanded(k, found)'
      BY <2>1, <2>3, <2>5 DEF Overdue, AllDead, LastLanded, Last
    <3> QED
      BY <2>1, <3>1, <3>2, <3>3 DEF WatchdogMatches, LastLanded, Last
  <2> QED
    BY <2>1, <2>6, <2>7, WatchdogMoves
<1>6. ASSUME NEW k \in Keys, Unreadable(k) PROVE IInv'
  <2>1. /\ watchdog.pc = "sweep" /\ k \in watchdog.todo
        /\ watchdog' = [watchdog EXCEPT !.todo = @ \ {k}]
        /\ UNCHANGED <<payments, txs, requests, late>>
    BY <1>6 DEF Unreadable
  <2>2. watchdog' = [pc |-> "sweep", todo |-> watchdog.todo \ {k}]
    BY <1>2, <2>1 DEF Sweep
  <2>3. watchdog' \in Sweep
    BY <1>2, <2>1, <2>2 DEF Sweep
  <2>4. WatchdogMatches'
    BY <1>1, <1>2, <2>1, <2>2 DEF WatchdogMatches, Overdue
  <2> QED
    BY <2>1, <2>3, <2>4, WatchdogMoves
<1>7. ASSUME NEW done \in BOOLEAN, GoToSleep(done) PROVE IInv'
  <2>1. watchdog' = Asleep /\ UNCHANGED <<payments, txs, requests, late>>
    BY <1>7 DEF GoToSleep
  <2>2. WatchdogMatches'
    BY <2>1 DEF WatchdogMatches, Asleep
  <2> QED
    BY <2>1, <2>2, WatchdogMoves
<1> QED
  BY <1>3, <1>4, <1>5, <1>6, <1>7 DEF WatchdogStep

\* A minute passes: a transaction comes to its end in it before its row is stale, or
\* the row is late.
LEMMA MinuteKeeps ==
  ASSUME PayoutAssumption, IInv, Minute
  PROVE  /\ IInv' /\ late \subseteq late'
         /\ \A k \in late' \ late : payments[k].status \in Open
         /\ \A k \in Keys : /\ payments'[k].status = payments[k].status
                            /\ DOMAIN txs'[k] = DOMAIN txs[k] /\ Len(txs'[k]) = Len(txs[k])
                            /\ \A i \in DOMAIN txs[k] :
                                 /\ txs'[k][i].kind = txs[k][i].kind
                                 /\ txs'[k][i].fate = "landed" <=> txs[k][i].fate = "landed"
<1> DEFINE Later(f) == IF f = "new" THEN "old" ELSE IF f = "old" THEN "dead" ELSE f
           Row(k)   == [payments[k] EXCEPT !.age = IF @ < StaleAfter /\ payments[k].status \in Open
                                                   THEN @ + 1 ELSE @]
           Trace(k) == [i \in DOMAIN txs[k] |->
                         [txs[k][i] EXCEPT !.fate = IF @ = "new" THEN "old"
                                                    ELSE IF @ = "old" THEN "dead" ELSE @]]
<1>1. /\ payments' = [k \in Keys |-> Row(k)] /\ txs' = [k \in Keys |-> Trace(k)]
      /\ late' = late \cup {k \in Keys : /\ payments[k].age + 2 >= StaleAfter
                                        /\ \E r \in Requests : Working(r) /\ requests[r].key = k}
      /\ UNCHANGED <<requests, watchdog>>
  BY DEF Minute
<1>2. /\ payments \in [Keys -> [status : Statuses \cup {"none"}, age : 0..StaleAfter]]
      /\ txs \in [Keys -> Seq(Tx)] /\ requests \in [Requests -> Request \cup {Idle}]
      /\ StaleAfter \in Nat /\ StaleAfter >= 2
      /\ WatchdogMatches /\ watchdog \in Sweep \cup {Asleep}
  BY DEF IInv, Types, PayoutAssumption
<1>3. ASSUME NEW k \in Keys
      PROVE  /\ payments'[k] \in [status : Statuses \cup {"none"}, age : 0..StaleAfter]
             /\ payments'[k].status = payments[k].status
             /\ payments'[k].age \in {payments[k].age, payments[k].age + 1}
             /\ payments[k].status \in Open /\ payments[k].age < StaleAfter =>
                  payments'[k].age = payments[k].age + 1
             /\ Overdue(k) => Overdue(k)'
             /\ payments'[k].age <= payments[k].age + 1
  <2>1. payments'[k] = Row(k)
    BY <1>1
  <2>2. payments[k] \in [status : Statuses \cup {"none"}, age : 0..StaleAfter]
    BY <1>2
  <2>3. /\ payments'[k].status = payments[k].status
        /\ payments'[k].age = IF payments[k].age < StaleAfter /\ payments[k].status \in Open
                              THEN payments[k].age + 1 ELSE payments[k].age
        /\ payments'[k] = [status |-> payments'[k].status, age |-> payments'[k].age]
    BY <2>1, <2>2
  <2>4. payments'[k].age \in 0..StaleAfter /\ payments[k].age \in 0..StaleAfter
    BY <1>2, <2>2, <2>3
  <2> HIDE DEF Row
  <2>5. payments'[k] \in [status : Statuses \cup {"none"}, age : 0..StaleAfter]
    BY <2>2, <2>3, <2>4
  <2>6. /\ payments'[k].age \in {payments[k].age, payments[k].age + 1}
        /\ payments[k].status \in Open /\ payments[k].age < StaleAfter =>
             payments'[k].age = payments[k].age + 1
    BY <2>3
  <2>7. Overdue(k) => Overdue(k)'
    BY <1>2, <2>3, <2>4 DEF Overdue
  <2>8. 0 <= payments[k].age /\ payments'[k].age <= payments[k].age + 1
    BY <2>4, <2>6
  <2> QED
    BY <2>3, <2>5, <2>6, <2>7, <2>8
<1>4. ASSUME NEW k \in Keys
      PROVE  /\ txs'[k] \in Seq(Tx) /\ Len(txs'[k]) = Len(txs[k]) /\ Len(txs[k]) \in Nat
             /\ DOMAIN txs'[k] = DOMAIN txs[k] /\ DOMAIN txs[k] = 1..Len(txs[k])
             /\ txs'[k] = <<>> <=> txs[k] = <<>>
             /\ \A i \in DOMAIN txs[k] : /\ txs'[k][i].kind = txs[k][i].kind
                                         /\ txs'[k][i].fate = Later(txs[k][i].fate)
  <2>1. txs'[k] = Trace(k) /\ txs[k] \in Seq(Tx)
    BY <1>1, <1>2
  <2>2. /\ Len(txs[k]) \in Nat /\ DOMAIN txs[k] = 1..Len(txs[k])
        /\ \A i \in DOMAIN txs[k] : txs[k][i] \in Tx
    BY <2>1, SeqFacts
  <2>3. \A i \in DOMAIN txs[k] :
          /\ txs'[k][i] \in Tx /\ txs'[k][i].kind = txs[k][i].kind
          /\ txs'[k][i].fate = Later(txs[k][i].fate)
    BY <2>1, <2>2 DEF Tx, Flying
  <2>4. txs'[k] = [i \in DOMAIN txs[k] |-> txs'[k][i]]
    BY <2>1
  <2>5. /\ txs'[k] \in Seq(Tx) /\ Len(txs'[k]) = Len(txs[k]) /\ DOMAIN txs'[k] = DOMAIN txs[k]
        /\ txs'[k] = <<>> <=> txs[k] = <<>>
    <3> HIDE DEF Trace, Later
    <3> QED
      BY <2>1, <2>3, <2>4, Changed
  <2> QED
    BY <2>2, <2>3, <2>5
<1> HIDE DEF Row, Trace
<1>5. /\ late \subseteq late' /\ late' \subseteq Keys
      /\ \A r \in Requests : Working(r)' = Working(r)
      /\ \A r \in Requests : Timely(r)' => Timely(r) /\ payments[requests[r].key].age + 2 < StaleAfter
  <2>1. late \subseteq late' /\ late' \subseteq Keys
    BY <1>1 DEF IInv, Types
  <2>2. \A r \in Requests : Working(r)' = Working(r)
    BY <1>1 DEF Working
  <2>3. ASSUME NEW r \in Requests, Timely(r)'
        PROVE  Timely(r) /\ payments[requests[r].key].age + 2 < StaleAfter
    <3>1. Working(r) /\ requests[r].key \notin late' /\ requests[r].key \notin late
      BY <1>1, <2>1, <2>2, <2>3 DEF Timely
    <3>2. requests[r].key \in Keys
      BY <1>2, <3>1 DEF Working, Request
    <3>3. payments[requests[r].key].age \in 0..StaleAfter
      BY <1>2, <3>2
    <3> QED
      BY <1>1, <1>2, <3>1, <3>2, <3>3 DEF Timely
  <2> QED
    BY <2>1, <2>2, <2>3
<1>6. Types'
  <2>1. payments' = [k \in Keys |-> payments'[k]] /\ txs' = [k \in Keys |-> txs'[k]]
    BY <1>1
  <2>2. payments' \in [Keys -> [status : Statuses \cup {"none"}, age : 0..StaleAfter]]
    BY <1>3, <2>1
  <2>3. txs' \in [Keys -> Seq(Tx)]
    BY <1>4, <2>1
  <2> QED
    BY <1>1, <1>2, <1>5, <2>2, <2>3 DEF Types
<1>7. ASSUME NEW k \in Keys
      PROVE  /\ AllDead(k) => AllDead(k)'
             /\ \A kind : LastLanded(k, kind) => LastLanded(k, kind)'
             /\ Last(k).kind = Last(k).kind' \/ txs[k] = <<>>
  <2>1. txs[k] # <<>> => Len(txs[k]) \in DOMAIN txs[k]
    BY <1>2, SeqFacts
  <2> QED
    BY <1>4, <2>1 DEF AllDead, LastLanded, Last
<1>8. ASSUME NEW k \in Keys \ late' PROVE TransactionsMatch(k)'
  <2>1. TransactionsMatch(k)
    BY <1>5 DEF IInv
  <2>2. payments[k].age \in 0..StaleAfter /\ payments'[k].age \in 0..StaleAfter
    BY <1>2, <1>3
  <2>3. \A i \in DOMAIN txs'[k] : i < Len(txs'[k]) => txs'[k][i].fate = "dead"
    BY <1>4, <2>1 DEF TransactionsMatch
  <2>4. ASSUME NEW i \in DOMAIN txs'[k]
        PROVE  /\ txs'[k][i].fate # "new"
               /\ txs'[k][i].fate = "old" => txs[k][i].fate = "new"
    BY <1>4
  <2>5. ASSUME NEW i \in DOMAIN txs'[k], txs'[k][i].fate = "old"
        PROVE  payments'[k].age + 1 <= StaleAfter
    <3>1. payments[k].age + 2 <= StaleAfter
      BY <1>4, <2>1, <2>4, <2>5 DEF TransactionsMatch
    <3>2. payments'[k].age <= payments[k].age + 1
      BY <1>3
    <3> QED
      BY <1>2, <2>2, <3>1, <3>2
  <2>6. /\ payments'[k].status \in {"none", "failed"} => AllDead(k)'
        /\ payments'[k].status \in Paid =>
             \E kind \in Kinds : payments'[k].status = Reported(kind) /\ LastLanded(k, kind)'
    BY <1>3, <1>7, <2>1 DEF TransactionsMatch
  <2> QED
    BY <2>3, <2>4, <2>5, <2>6 DEF TransactionsMatch
<1>9. ASSUME NEW r \in Requests, Timely(r)' PROVE RequestMatches(r)'
  <2>1. PICK k \in Keys : k = requests[r].key /\ k \notin late
    BY <1>5, <1>9, WorkingIsFresh
  <2>2. RequestMatches(r) /\ payments[k].age + 2 < StaleAfter /\ payments[k].age \in 0..StaleAfter
    BY <1>2, <1>5, <1>9, <2>1, WorkingIsFresh
  <2>3. payments'[k].age + 2 <= StaleAfter /\ payments'[k].status = "initiated"
    <3>1. payments'[k].age <= payments[k].age + 1 /\ payments'[k].age \in 0..StaleAfter
      BY <1>3
    <3> QED
      BY <1>2, <1>3, <2>1, <2>2, <3>1 DEF RequestMatches
  <2>4. \A s \in Requests : Working(s)' /\ requests'[s].key = requests'[r].key => s = r
    BY <1>1, <1>5, <2>2 DEF RequestMatches
  <2>5. /\ requests[r].pc \in {"gate", "send", "fallback", "fail"} => AllDead(k)'
        /\ requests[r].pc = "settle" => LastLanded(k, requests[r].kind)
        /\ requests[r].pc = "wait" => txs[k] # <<>> /\ Last(k).kind = requests[r].kind
    BY <1>7, <2>1, <2>2 DEF RequestMatches
  <2>6. /\ requests[r].pc = "settle" => txs'[k] # <<>> /\ txs'[k][Len(txs'[k])].fate = "landed"
                                       /\ txs'[k][Len(txs'[k])].kind = requests[r].kind
        /\ requests[r].pc = "wait" => txs'[k] # <<>>
                                     /\ txs'[k][Len(txs'[k])].kind = requests[r].kind
    BY <1>4, <1>7, <2>5 DEF LastLanded, Last
  <2> QED
    BY <1>1, <2>1, <2>3, <2>4, <2>5, <2>6 DEF RequestMatches, AllDead, LastLanded, Last
<1>10. WatchdogMatches'
  <2>1. /\ watchdog # Asleep => watchdog.todo \subseteq Keys
        /\ watchdog.pc = "write" => watchdog.key \in Keys
    BY <1>2 DEF Sweep, Asleep
  <2> QED
    BY <1>1, <1>2, <1>3, <1>5, <1>7, <2>1 DEF WatchdogMatches
<1>11. \A k \in Keys : /\ payments'[k].status = payments[k].status
                       /\ DOMAIN txs'[k] = DOMAIN txs[k] /\ Len(txs'[k]) = Len(txs[k])
                       /\ \A i \in DOMAIN txs[k] :
                            /\ txs'[k][i].kind = txs[k][i].kind
                            /\ txs'[k][i].fate = "landed" <=> txs[k][i].fate = "landed"
  BY <1>3, <1>4
<1>12. ASSUME NEW k \in late' \ late PROVE payments[k].status \in Open
  <2>1. PICK r \in Requests : Working(r) /\ requests[r].key = k
    BY <1>1, <1>12
  <2>2. RequestMatches(r)
    BY <1>12, <2>1, WorkingIsFresh DEF Timely
  <2> QED
    BY <2>1, <2>2 DEF RequestMatches, Open
<1> QED
  BY <1>5, <1>6, <1>8, <1>9, <1>10, <1>11, <1>12 DEF IInv

-----------------------------------------------------------------------------
(* The steps of a request. *)

\* A request goes on, to a place that fits what has become of its transactions.
LEMMA RequestGoesOn ==
  ASSUME PayoutAssumption, IInv, NEW r \in Requests, Working(r), NEW next \in Request,
         requests' = [requests EXCEPT ![r] = next], UNCHANGED <<payments, txs, watchdog, late>>,
         next.key = requests[r].key, next.pc \notin {"insert", "wait"},
         Timely(r) =>
           /\ next.pc \in {"gate", "send", "fallback", "fail"} => AllDead(requests[r].key)
           /\ next.pc = "settle" => LastLanded(requests[r].key, next.kind)
  PROVE  IInv'
<1>1. requests \in [Requests -> Request \cup {Idle}] /\ (Timely(r) => RequestMatches(r))
  BY DEF IInv, Types
<1>2. /\ requests'[r] = next
      /\ \A s \in Requests : s # r => requests'[s] = requests[s]
  BY <1>1
<1>3. ASSUME Timely(r) PROVE RequestMatches(r)'
  <2>1. \A s \in Requests : Working(s)' /\ requests'[s].key = next.key => s = r
    BY <1>1, <1>2, <1>3 DEF RequestMatches, Working
  <2> QED
    BY <1>1, <1>2, <1>3, <2>1 DEF RequestMatches, AllDead, LastLanded, Last
<1> QED
  BY <1>3, RequestMoves

\* The request that sent the last transaction of its key is told its fate.
LEMMA AnswerFits ==
  ASSUME PayoutAssumption, IInv, NEW r \in Requests, At(r, "wait"), Timely(r)
  PROVE  /\ Sent(r) = "landed" => LastLanded(requests[r].key, requests[r].kind)
         /\ Sent(r) = "dead" => AllDead(requests[r].key)
<1>1. PICK k \in Keys \ late : k = requests[r].key
  BY WorkingIsFresh
<1>2. RequestMatches(r) /\ TransactionsMatch(k) /\ txs[k] \in Seq(Tx)
  BY WorkingIsFresh DEF IInv, Types
<1>3. txs[k] # <<>> /\ Last(k).kind = requests[r].kind
  BY <1>1, <1>2 DEF RequestMatches, At
<1>4. Len(txs[k]) \in Nat /\ DOMAIN txs[k] = 1..Len(txs[k])
  BY <1>2, SeqFacts
<1>5. \A i \in DOMAIN txs[k] : i < Len(txs[k]) => txs[k][i].fate = "dead"
  BY <1>2 DEF TransactionsMatch
<1>6. Sent(r) = Last(k).fate
  BY <1>1 DEF Sent, Last
<1>7. ASSUME Sent(r) = "dead", NEW i \in DOMAIN txs[k] PROVE txs[k][i].fate = "dead"
  <2>1. i < Len(txs[k]) \/ i = Len(txs[k])
    BY <1>4
  <2> QED
    BY <1>5, <1>6, <1>7, <2>1 DEF Last
<1> QED
  BY <1>1, <1>3, <1>6, <1>7 DEF LastLanded, AllDead

\* A request begins to work on a row on which nobody is at work.
LEMMA Begins ==
  ASSUME PayoutAssumption, IInv, NEW r \in Requests, NEW k \in Keys,
         ~Working(r), payments[k].status \in {"none", "failed"},
         NEW pc \in {"gate", "send"},
         Write(k, "initiated"), Begin(r, k, pc), UNCHANGED <<txs, watchdog, late>>
  PROVE  IInv'
<1> DEFINE next == [pc |-> pc, key |-> k, kind |-> "payment"]
<1>1. next \in Request /\ next.key = k /\ next.pc \in {"gate", "send"}
  BY DEF Request, Busy, Kinds
<1>2. requests' = [requests EXCEPT ![r] = next]
  BY DEF Begin
<1>3. k \notin late => AllDead(k) /\ ~Overdue(k)
  BY DEF IInv, TransactionsMatch, Overdue, Open
<1>4. k \notin late => \A s \in Requests : Working(s) /\ requests[s].key = k => s = r
  BY DEF IInv, RequestMatches, Timely
<1>5. "initiated" \in Statuses \ Paid /\ "initiated" # "failed"
  BY DEF Statuses, Open, Paid
<1> HIDE DEF next
<1> QED
  BY <1>1, <1>2, <1>3, <1>4, <1>5, RowWritten

\* The INSERT of a new key.
LEMMA InsertKeeps ==
  ASSUME PayoutAssumption, IInv, NEW r \in Requests, Insert(r)
  PROVE  IInv'
<1>1. /\ requests[r] # Idle /\ requests[r].pc = "insert" /\ ~Working(r)
      /\ requests \in [Requests -> Request \cup {Idle}]
  BY DEF Insert, At, Working, IInv, Types
<1>2. PICK k \in Keys : k = requests[r].key
  BY <1>1 DEF Request
<1>3. CASE payments[k].status = "none"
  BY <1>1, <1>2, <1>3, Begins DEF Insert
<1>4. CASE payments[k].status # "none"
  <2>1. requests' = [requests EXCEPT ![r] = Idle] /\ UNCHANGED <<payments, txs, watchdog, late>>
    BY <1>2, <1>4 DEF Insert, End
  <2>2. ~Working(r)'
    BY <1>1, <2>1 DEF Working
  <2> QED
    BY <2>1, <2>2, RequestMoves
<1> QED
  BY <1>3, <1>4

\* Every step of a request keeps the invariant.
LEMMA RequestKeeps ==
  ASSUME PayoutAssumption, IInv, NEW r \in Requests, RequestStep(r)
  PROVE  IInv'
<1> DEFINE k == requests[r].key
           Next1(pc) == [requests[r] EXCEPT !.pc = pc]
<1>1. requests \in [Requests -> Request \cup {Idle}]
  BY DEF IInv, Types
<1>2. ASSUME NEW pc \in Busy, At(r, pc), pc # "insert"
      PROVE  /\ Working(r) /\ requests[r] \in Request /\ k \in Keys
             /\ Timely(r) <=> k \notin late
             /\ Timely(r) => RequestMatches(r) /\ ~Overdue(k)
             /\ \A next \in Busy : /\ Next1(next) \in Request /\ Next1(next).pc = next
                                   /\ Next1(next).key = k /\ Next1(next).kind = requests[r].kind
  <2>1. Working(r) /\ requests[r] \in Request
    BY <1>1, <1>2 DEF At, Working
  <2>2. k \in Keys /\ (Timely(r) => RequestMatches(r) /\ ~Overdue(k))
    BY <2>1, WorkingIsFresh DEF Request
  <2>3. \A next \in Busy : /\ Next1(next) \in Request /\ Next1(next).pc = next
                           /\ Next1(next).key = k /\ Next1(next).kind = requests[r].kind
    BY <2>1 DEF Request
  <2> QED
    BY <2>1, <2>2, <2>3 DEF Timely
<1>3. ASSUME NEW pc \in Busy, Become(r, pc) PROVE requests' = [requests EXCEPT ![r] = Next1(pc)]
  BY <1>3 DEF Become
<1>4. {"insert", "gate", "send", "wait", "fallback", "settle", "unknown", "fail"} = Busy
  BY DEF Busy
<1> HIDE DEF k, Next1
<1>5. CASE PassGate(r)
  <2>1. Timely(r) => AllDead(k)
    BY <1>2, <1>4, <1>5 DEF PassGate, At, RequestMatches, k
  <2> QED
    BY <1>2, <1>3, <1>4, <1>5, <2>1, RequestGoesOn DEF PassGate, k
<1>6. CASE CannotSubmit(r)
  <2>1. Working(r) /\ (Timely(r) => AllDead(k))
    BY <1>2, <1>4, <1>6 DEF CannotSubmit, At, RequestMatches, k
  <2> QED
    BY <1>2, <1>3, <1>4, <1>6, <2>1, RequestGoesOn DEF CannotSubmit, k
<1>7. CASE Answered(r)
  <2>1. CASE Sent(r) = "landed" /\ Become(r, "settle")
    BY <1>2, <1>3, <1>4, <1>7, <2>1, AnswerFits, RequestGoesOn DEF Answered, k
  <2>2. CASE Sent(r) = "dead" /\ Become(r, "fail")
    BY <1>2, <1>3, <1>4, <1>7, <2>2, AnswerFits, RequestGoesOn DEF Answered, k
  <2>3. CASE Sent(r) = "dead" /\ Become(r, "fallback")
    BY <1>2, <1>3, <1>4, <1>7, <2>3, AnswerFits, RequestGoesOn DEF Answered, k
  <2> QED
    BY <1>7, <2>1, <2>2, <2>3 DEF Answered
<1>8. CASE Unanswered(r)
  BY <1>2, <1>3, <1>4, <1>8, RequestGoesOn DEF Unanswered, k
<1>9. CASE FallBack(r)
  <2> DEFINE next == [requests[r] EXCEPT !.kind = "claimable", !.pc = "send"]
  <2>1. Working(r) /\ requests[r] \in Request /\ (Timely(r) => AllDead(k))
    BY <1>2, <1>4, <1>9 DEF FallBack, At, RequestMatches, k
  <2>2. next \in Request /\ next.pc = "send" /\ next.key = requests[r].key
    BY <1>4, <2>1 DEF Request, Kinds
  <2>3. requests' = [requests EXCEPT ![r] = next] /\ UNCHANGED <<payments, txs, watchdog, late>>
    BY <1>9 DEF FallBack
  <2> HIDE DEF next
  <2> QED
    BY <2>1, <2>2, <2>3, RequestGoesOn DEF k
<1>10. CASE Abandon(r)
  <2>1. requests' = [requests EXCEPT ![r] = Idle] /\ UNCHANGED <<payments, txs, watchdog, late>>
    BY <1>10 DEF Abandon, End
  <2>2. ~Working(r)'
    BY <1>1, <2>1 DEF Working
  <2> QED
    BY <2>1, <2>2, RequestMoves
<1>11. CASE Submit(r)
  BY <1>11, SubmitKeeps
<1>12. CASE Settle(r)
  <2>1. /\ k \in Keys /\ requests[r].kind \in Kinds
        /\ k \notin late =>
             /\ ~Overdue(k) /\ LastLanded(k, requests[r].kind)
             /\ \A s \in Requests : Working(s) /\ requests[s].key = k => s = r
    BY <1>2, <1>4, <1>12 DEF Settle, At, RequestMatches, Request, k
  <2>2. Write(k, Reported(requests[r].kind)) /\ requests' = [requests EXCEPT ![r] = Idle]
        /\ UNCHANGED <<txs, watchdog, late>>
    BY <1>12 DEF Settle, Reported, End, k
  <2>3. Reported(requests[r].kind) \in Paid /\ Reported(requests[r].kind) # "failed"
        /\ Reported(requests[r].kind) \in Statuses
    BY DEF Reported, Paid, Statuses
  <2> QED
    BY <2>1, <2>2, <2>3, RowWritten DEF k
<1>13. CASE RecordUnknown(r)
  <2>1. /\ k \in Keys
        /\ k \notin late =>
             /\ ~Overdue(k)
             /\ \A s \in Requests : Working(s) /\ requests[s].key = k => s = r
    BY <1>2, <1>4, <1>13 DEF RecordUnknown, At, RequestMatches, k
  <2>2. Write(k, "submitted") /\ requests' = [requests EXCEPT ![r] = Idle]
        /\ UNCHANGED <<txs, watchdog, late>>
    BY <1>13 DEF RecordUnknown, End, k
  <2>3. "submitted" \in Statuses \ Paid /\ "submitted" # "failed"
    BY DEF Paid, Open, Statuses
  <2> QED
    BY <2>1, <2>2, <2>3, RowWritten DEF k
<1>14. CASE RecordFailure(r)
  <2>1. /\ k \in Keys
        /\ k \notin late =>
             /\ ~Overdue(k) /\ AllDead(k)
             /\ \A s \in Requests : Working(s) /\ requests[s].key = k => s = r
    BY <1>2, <1>4, <1>14 DEF RecordFailure, At, RequestMatches, k
  <2>2. Write(k, "failed") /\ requests' = [requests EXCEPT ![r] = Idle]
        /\ UNCHANGED <<txs, watchdog, late>>
    BY <1>14 DEF RecordFailure, End, k
  <2>3. "failed" \in Statuses \ Paid
    BY DEF Paid, Statuses
  <2> QED
    BY <2>1, <2>2, <2>3, RowWritten DEF k
<1>15. CASE Insert(r)
  BY <1>15, InsertKeeps
<1> QED
  BY <1>5, <1>6, <1>7, <1>8, <1>9, <1>10, <1>11, <1>12, <1>13, <1>14, <1>15 DEF RequestStep

-----------------------------------------------------------------------------
(* Every behaviour keeps the invariant. *)

\* The initial states.
LEMMA InitHolds ==
  ASSUME PayoutAssumption, Init
  PROVE  IInv
<1>1. Types
  <2>1. <<>> \in Seq(Tx)
    OBVIOUS
  <2> QED
    BY <2>1 DEF Init, Types, PayoutAssumption
<1>2. \A k \in Keys : TransactionsMatch(k)
  BY DEF Init, TransactionsMatch, AllDead, Paid
<1>3. \A r \in Requests : ~Timely(r)
  BY DEF Init, Timely, Working
<1>4. WatchdogMatches
  BY DEF Init, WatchdogMatches, Asleep
<1> QED
  BY <1>1, <1>2, <1>3, <1>4 DEF IInv

\* Every step.
LEMMA InvariantStep ==
  ASSUME PayoutAssumption, IInv, [Next]_vars
  PROVE  IInv'
<1>1. ASSUME NEW r \in Requests, NEW k \in Keys, Arrive(r, k) PROVE IInv'
  <2> DEFINE next == [pc |-> "insert", key |-> k, kind |-> "payment"]
  <2>1. next \in Request /\ next.pc = "insert"
    BY DEF Request, Busy, Kinds, PayoutAssumption
  <2>2. requests' = [requests EXCEPT ![r] = next] /\ UNCHANGED <<payments, txs, watchdog, late>>
    BY <1>1 DEF Arrive, Begin
  <2>3. ~Working(r)'
    BY <2>1, <2>2 DEF Working, IInv, Types
  <2> HIDE DEF next
  <2> QED
    BY <2>1, <2>2, <2>3, RequestMoves
<1>2. ASSUME NEW r \in Requests, NEW k \in Keys, Resume(r, k) PROVE IInv'
  BY <1>2, Begins DEF Resume, Working
<1>3. ASSUME NEW r \in Requests, RequestStep(r) PROVE IInv'
  BY <1>3, RequestKeeps
<1>4. ASSUME NEW k \in Keys, Land(k) \/ Refuse(k) PROVE IInv'
  BY <1>4, DecideKeeps DEF Land, Refuse
<1>5. CASE WatchdogStep
  BY <1>5, WatchdogKeeps
<1>6. CASE Minute
  BY <1>6, MinuteKeeps
<1>7. CASE UNCHANGED vars
  BY <1>7 DEF vars, IInv, Types, TransactionsMatch, Working, Timely, RequestMatches, WatchdogMatches,
              Overdue, AllDead, LastLanded, Last
<1> QED
  BY <1>1, <1>2, <1>3, <1>4, <1>5, <1>6, <1>7 DEF Next

\* The inductive invariant holds in every behaviour.
LEMMA InvariantHolds == Spec => []IInv
<1>1. Init => IInv
  BY PayoutAssumption, InitHolds
<1>2. IInv /\ [Next]_vars => IInv'
  BY PayoutAssumption, InvariantStep
<1> QED
  BY <1>1, <1>2, PTL DEF Spec

\* A payment that is recorded as failed has not arrived and never will: its
\* transactions are refused or past their time bound, so that the retry that the
\* compare-and-swap on 'failed' lets through is safe (app.ts:415), unless a request
\* of it was still at work when its row was about to be stale.
THEOREM FailedIsFinal == Spec => []FailedIsOver
<1>1. IInv => FailedIsOver
  BY DEF IInv, TransactionsMatch, AllDead, FailedIsOver
<1> QED
  BY <1>1, InvariantHolds, PTL

\* At most one transaction of a key lands.
LEMMA OneLanded ==
  ASSUME IInv, NEW k \in Keys \ late
  PROVE  Cardinality(Landed(k)) <= 1
<1>1. txs[k] \in Seq(Tx) /\ TransactionsMatch(k)
  BY DEF IInv, Types
<1>2. Len(txs[k]) \in Nat /\ DOMAIN txs[k] = 1..Len(txs[k])
  BY <1>1, SeqFacts
<1>3. \A i \in Landed(k) : i = Len(txs[k])
  BY <1>1, <1>2 DEF TransactionsMatch, Landed
<1>4. Landed(k) = {} \/ Landed(k) = {Len(txs[k])}
  BY <1>3
<1>5. Cardinality(Landed(k)) \in {0, 1}
  BY <1>4, FS_EmptySet, FS_Singleton, Zenon
<1> QED
  BY <1>5

\* However many attempts are made, by clients, after crashes and under the watchdog, a
\* worker is paid once under a key, unless a request was still at work when its row
\* was about to be stale; nothing is assumed of how long requests take.
THEOREM WorkerPaidOnce == Spec => []PaidOnceInTime
<1>1. IInv => PaidOnceInTime
  BY OneLanded DEF PaidOnceInTime
<1> QED
  BY <1>1, InvariantHolds, PTL

-----------------------------------------------------------------------------
(* The payout keeps PaymentPromise. *)

\* How a key has been paid, read off its last transaction.
LEMMA MovedAs ==
  ASSUME PayoutAssumption, IInv, NEW k \in Keys \ late
  PROVE  /\ AllDead(k) => Moved(k) = "none"
         /\ \A kind \in Kinds : LastLanded(k, kind) => Moved(k) = Reported(kind)
<1>1. txs[k] \in Seq(Tx) /\ TransactionsMatch(k)
  BY DEF IInv, Types
<1>2. Len(txs[k]) \in Nat /\ DOMAIN txs[k] = 1..Len(txs[k])
  BY <1>1, SeqFacts
<1>3. AllDead(k) => LandedKinds(k) = {}
  BY DEF AllDead, LandedKinds
<1>4. ASSUME NEW kind \in Kinds, LastLanded(k, kind) PROVE LandedKinds(k) = {kind}
  <2>1. Len(txs[k]) \in DOMAIN txs[k] /\ Last(k).fate = "landed" /\ Last(k).kind = kind
    BY <1>1, <1>4, SeqFacts DEF LastLanded
  <2>2. \A i \in DOMAIN txs[k] : txs[k][i].fate = "landed" => i = Len(txs[k])
    BY <1>1, <1>2 DEF TransactionsMatch
  <2> QED
    BY <2>1, <2>2 DEF LandedKinds, Last
<1>5. ~(Cardinality(Landed(k)) > 1)
  <2>1. Landed(k) = {} \/ Landed(k) = {Len(txs[k])}
    BY <1>1, <1>2 DEF TransactionsMatch, Landed
  <2>2. Cardinality(Landed(k)) \in {0, 1}
    BY <2>1, FS_EmptySet, FS_Singleton, Zenon
  <2> QED
    BY <2>2
<1> QED
  BY <1>3, <1>4, <1>5 DEF Moved, Reported, Kinds

\* Where nothing lands and no verdict changes, the promise stands still.
LEMMA NothingTold ==
  ASSUME \A k \in Keys : Landed(k)' = Landed(k) /\ LandedKinds(k)' = LandedKinds(k),
         \A k \in Keys : payments'[k].status = payments[k].status,
         UNCHANGED late
  PROVE  UNCHANGED <<Told, HowPaid>>
<1>1. \A k \in Keys : Moved(k)' = Moved(k)
  BY DEF Moved
<1> QED
  BY <1>1 DEF Told, HowPaid

\* A row that is written: an attempt begins, or the table is told what happened.
LEMMA WriteIsPromised ==
  ASSUME PayoutAssumption, IInv, NEW k \in Keys, NEW status \in Statuses,
         payments' = [payments EXCEPT ![k] = [status |-> status, age |-> 0]],
         UNCHANGED <<txs, late>>,
         k \notin late =>
           \/ status = "initiated" /\ payments[k].status \in {"none", "failed"}
           \/ payments[k].status \in Open /\
                \/ status \in Open
                \/ status = "failed" /\ AllDead(k)
                \/ \E kind \in Kinds : status = Reported(kind) /\ LastLanded(k, kind)
  PROVE  [Promise!Next]_<<Told, HowPaid>>
<1>1. payments \in [Keys -> [status : Statuses \cup {"none"}, age : 0..StaleAfter]]
  BY DEF IInv, Types
<1>2. /\ payments'[k].status = status
      /\ \A l \in Keys : l # k => payments'[l] = payments[l]
  BY <1>1
<1>3. HowPaid' = HowPaid
  BY DEF HowPaid, Moved, Landed, LandedKinds
<1>4. CASE k \in late
  <2>1. Told' = Told
    BY <1>2, <1>4 DEF Told
  <2> QED
    BY <1>3, <2>1
<1>5. CASE k \notin late
  <2>1. Told' = [Told EXCEPT ![k] = IF status \in Open THEN "open" ELSE status]
    BY <1>1, <1>2, <1>5 DEF Told
  <2>2. CASE status = "initiated" /\ payments[k].status \in {"none", "failed"}
    <3>1. Told[k] \in {"none", "failed"} /\ Told' = [Told EXCEPT ![k] = "open"]
      BY <1>5, <2>1, <2>2 DEF Told, Open
    <3>2. Promise!Attempt(k)
      BY <1>3, <3>1 DEF Promise!Attempt
    <3> QED
      BY <3>2 DEF Promise!Next
  <2>3. CASE payments[k].status \in Open /\ status \in Open
    <3>1. Told[k] = "open" /\ Told' = [Told EXCEPT ![k] = "open"]
      BY <1>5, <2>1, <2>3 DEF Told
    <3>2. Told' = Told
      BY <3>1 DEF Told
    <3> QED
      BY <1>3, <3>2
  <2>4. CASE /\ payments[k].status \in Open
             /\ \/ status = "failed" /\ AllDead(k)
                \/ \E kind \in Kinds : status = Reported(kind) /\ LastLanded(k, kind)
    <3>1. status = IF HowPaid[k] = "none" THEN "failed" ELSE HowPaid[k]
      BY <1>5, <2>4, MovedAs DEF HowPaid, Reported
    <3>2. status \notin Open /\ Told[k] = "open"
      BY <1>5, <2>4 DEF Reported, Open, Told
    <3>3. Promise!Report(k)
      BY <1>3, <2>1, <3>1, <3>2 DEF Promise!Report
    <3> QED
      BY <3>3 DEF Promise!Next
  <2> QED
    BY <1>5, <2>2, <2>3, <2>4
<1> QED
  BY <1>4, <1>5

\* The step in which a transaction lands is the one in which the money moves.
LEMMA LandIsMove ==
  ASSUME PayoutAssumption, IInv, NEW k \in Keys, Land(k)
  PROVE  [Promise!Next]_<<Told, HowPaid>>
<1>1. PICK i \in DOMAIN txs[k] : txs[k][i].fate \in Flying
                              /\ txs' = [txs EXCEPT ![k][i].fate = "landed"]
  BY DEF Land, Decide
<1>2. txs \in [Keys -> Seq(Tx)] /\ UNCHANGED <<payments, late>>
  BY DEF IInv, Types, Land, Decide
<1>3. /\ Len(txs[k]) \in Nat /\ DOMAIN txs[k] = 1..Len(txs[k])
      /\ \A j \in DOMAIN txs[k] : txs[k][j] \in Tx
  BY <1>2, SeqFacts
<1>4. /\ DOMAIN txs'[k] = DOMAIN txs[k]
      /\ \A j \in DOMAIN txs[k] : j # i => txs'[k][j] = txs[k][j]
      /\ txs'[k][i].fate = "landed" /\ txs'[k][i].kind = txs[k][i].kind
      /\ \A l \in Keys : l # k => txs'[l] = txs[l]
  <2>1. /\ txs'[k] = [j \in DOMAIN txs[k] |->
                       IF j = i THEN [txs[k][i] EXCEPT !.fate = "landed"] ELSE txs[k][j]]
        /\ \A l \in Keys : l # k => txs'[l] = txs[l]
    BY <1>1, <1>2
  <2> QED
    BY <1>3, <2>1 DEF Tx
<1>5. ASSUME NEW l \in Keys, l # k PROVE Moved(l)' = Moved(l)
  <2>1. txs'[l] = txs[l]
    BY <1>4, <1>5
  <2>2. Landed(l)' = Landed(l) /\ LandedKinds(l)' = LandedKinds(l)
    BY <2>1 DEF Landed, LandedKinds
  <2> QED
    BY <2>2 DEF Moved
<1>6. UNCHANGED Told
  BY <1>2 DEF Told
<1>7. CASE k \in late
  <2>1. HowPaid' = HowPaid
    BY <1>2, <1>5, <1>7 DEF HowPaid
  <2> QED
    BY <1>6, <2>1
<1>8. CASE k \notin late
  <2>1. payments[k].status \in Open /\ i = Len(txs[k]) /\ TransactionsMatch(k)
    BY <1>1, <1>8, FlyingIsOpen DEF IInv
  <2>2. \A j \in DOMAIN txs[k] : j # i => txs[k][j].fate = "dead"
    BY <1>3, <2>1 DEF TransactionsMatch
  <2>3. Landed(k) = {} /\ LandedKinds(k) = {}
    <3>1. txs[k][i].fate # "landed"
      BY <1>1 DEF Flying
    <3> QED
      BY <2>2, <3>1 DEF Landed, LandedKinds
  <2>4. Landed(k)' = {i} /\ LandedKinds(k)' = {txs[k][i].kind}
    <3>1. {j \in DOMAIN txs'[k] : txs'[k][j].fate = "landed"} = {i}
      BY <1>4, <2>2
    <3>2. {txs'[k][j].kind : j \in {i}} = {txs[k][i].kind}
      BY <1>4
    <3> QED
      BY <3>1, <3>2 DEF Landed, LandedKinds
  <2>5. Cardinality({}) = 0 /\ Cardinality({i}) = 1
    BY FS_EmptySet, FS_Singleton, Zenon
  <2>6. Moved(k) = "none"
    <3>1. ~(Cardinality(Landed(k)) > 1)
      BY <2>3, <2>5
    <3> QED
      BY <2>3, <3>1 DEF Moved
  <2>7. Moved(k)' \in Promise!Moves
    <3>1. ~(Cardinality(Landed(k)') > 1) /\ LandedKinds(k)' # {}
      BY <2>4, <2>5
    <3>2. Moved(k)' = IF "payment" \in LandedKinds(k)' THEN "completed" ELSE "pending_claim"
      BY <3>1 DEF Moved
    <3> QED
      BY <3>2 DEF Promise!Moves
  <2>8. HowPaid' = [HowPaid EXCEPT ![k] = Moved(k)']
    BY <1>2, <1>5, <1>8 DEF HowPaid
  <2>9. Told[k] = "open" /\ HowPaid[k] = "none"
    BY <1>8, <2>1, <2>6 DEF Told, HowPaid
  <2>10. Promise!Move(k)
    BY <1>6, <2>7, <2>8, <2>9 DEF Promise!Move
  <2> QED
    BY <2>10 DEF Promise!Next
<1> QED
  BY <1>7, <1>8

\* A transaction that is refused or expires changes nothing of what the promise is about.
LEMMA RefuseTellsNothing ==
  ASSUME PayoutAssumption, IInv, NEW k \in Keys, Refuse(k)
  PROVE  UNCHANGED <<Told, HowPaid>>
<1>1. PICK i \in DOMAIN txs[k] : txs[k][i].fate \in Flying
                              /\ txs' = [txs EXCEPT ![k][i].fate = "dead"]
  BY DEF Refuse, Decide
<1>2. txs \in [Keys -> Seq(Tx)] /\ UNCHANGED <<payments, late>>
  BY DEF IInv, Types, Refuse, Decide
<1>3. \A j \in DOMAIN txs[k] : txs[k][j] \in Tx
  BY <1>2, SeqFacts
<1>4. /\ DOMAIN txs'[k] = DOMAIN txs[k]
      /\ \A j \in DOMAIN txs[k] : j # i => txs'[k][j] = txs[k][j]
      /\ txs'[k][i].fate # "landed" /\ txs[k][i].fate # "landed"
      /\ \A l \in Keys : l # k => txs'[l] = txs[l]
  BY <1>1, <1>2, <1>3 DEF Tx, Flying
<1>5. Landed(k)' = Landed(k) /\ LandedKinds(k)' = LandedKinds(k)
  <2>1. {j \in DOMAIN txs'[k] : txs'[k][j].fate = "landed"}
          = {j \in DOMAIN txs[k] : txs[k][j].fate = "landed"}
    BY <1>4
  <2> QED
    BY <1>4, <2>1 DEF Landed, LandedKinds
<1>6. \A l \in Keys : Landed(l)' = Landed(l) /\ LandedKinds(l)' = LandedKinds(l)
  BY <1>4, <1>5 DEF Landed, LandedKinds
<1> QED
  BY <1>2, <1>6, NothingTold

\* The steps of a request: only its writes are seen.
LEMMA RequestKeepsPromise ==
  ASSUME PayoutAssumption, IInv, NEW r \in Requests, RequestStep(r)
  PROVE  [Promise!Next]_<<Told, HowPaid>>
<1>1. requests \in [Requests -> Request \cup {Idle}] /\ txs \in [Keys -> Seq(Tx)]
  BY DEF IInv, Types
<1>2. ASSUME UNCHANGED <<payments, txs, late>> PROVE [Promise!Next]_<<Told, HowPaid>>
  BY <1>2, NothingTold DEF Landed, LandedKinds
<1>3. requests[r] \in Request
  BY <1>1 DEF RequestStep, PassGate, Insert, Submit, CannotSubmit, Answered, Unanswered,
              FallBack, Settle, RecordUnknown, RecordFailure, Abandon, At
<1>4. PICK k \in Keys : k = requests[r].key
  BY <1>3 DEF Request
<1>5. ASSUME NEW pc \in Busy, At(r, pc), pc # "insert"
      PROVE  k \notin late => RequestMatches(r) /\ payments[k].status \in Open
  BY <1>4, <1>5, WorkingIsFresh DEF At, Working, Timely, RequestMatches, Open
<1>6. {"insert", "send", "settle", "unknown", "fail"} \subseteq Busy
  BY DEF Busy
<1>7. CASE Insert(r)
  <2>1. CASE payments[k].status = "none"
    <3>1. "initiated" \in Statuses
      BY DEF Statuses, Open
    <3> QED
      BY <1>4, <1>7, <2>1, <3>1, WriteIsPromised DEF Insert, Write
  <2>2. CASE payments[k].status # "none"
    BY <1>2, <1>4, <1>7, <2>2 DEF Insert
  <2> QED
    BY <2>1, <2>2
<1>8. CASE Submit(r)
  <2> DEFINE new == [kind |-> requests[r].kind, fate |-> "new"]
  <2>1. /\ txs' = [txs EXCEPT ![k] = Append(txs[k], new)] /\ UNCHANGED <<payments, late>>
        /\ txs[k] \in Seq(Tx) /\ new \in Tx /\ new.fate # "landed"
    BY <1>1, <1>3, <1>4, <1>8 DEF Submit, Request, Tx, Flying
  <2> HIDE DEF new
  <2>2. /\ txs'[k] = Append(txs[k], new)
        /\ \A l \in Keys : l # k => txs'[l] = txs[l]
    BY <1>1, <2>1
  <2>3. /\ Len(txs[k]) \in Nat /\ DOMAIN txs'[k] = 1..(Len(txs[k]) + 1)
        /\ \A i \in 1..Len(txs[k]) : txs'[k][i] = txs[k][i]
        /\ txs'[k][Len(txs[k]) + 1].fate # "landed"
    BY <2>1, <2>2, Appended
  <2>4. DOMAIN txs[k] = 1..Len(txs[k])
    BY <2>1, SeqFacts
  <2>5. {i \in DOMAIN txs'[k] : txs'[k][i].fate = "landed"}
          = {i \in DOMAIN txs[k] : txs[k][i].fate = "landed"}
    BY <2>3, <2>4
  <2>6. Landed(k)' = Landed(k) /\ LandedKinds(k)' = LandedKinds(k)
    BY <2>3, <2>4, <2>5 DEF Landed, LandedKinds
  <2> QED
    BY <2>1, <2>2, <2>6, NothingTold DEF Landed, LandedKinds
<1>9. CASE Settle(r)
  <2>1. /\ requests[r].kind \in Kinds
        /\ k \notin late => payments[k].status \in Open /\ LastLanded(k, requests[r].kind)
    BY <1>3, <1>4, <1>5, <1>6, <1>9 DEF Settle, At, RequestMatches, Request
  <2>2. Write(k, Reported(requests[r].kind)) /\ UNCHANGED <<txs, late>>
    BY <1>4, <1>9 DEF Settle, Reported
  <2>3. Reported(requests[r].kind) \in Statuses
    BY DEF Reported, Paid, Statuses
  <2> QED
    BY <2>1, <2>2, <2>3, WriteIsPromised DEF Write
<1>10. CASE RecordUnknown(r)
  <2>1. /\ k \notin late => payments[k].status \in Open
        /\ Write(k, "submitted") /\ UNCHANGED <<txs, late>>
    BY <1>4, <1>5, <1>6, <1>10 DEF RecordUnknown
  <2>2. "submitted" \in Statuses /\ "submitted" \in Open
    BY DEF Open, Statuses
  <2> QED
    BY <2>1, <2>2, WriteIsPromised DEF Write
<1>11. CASE RecordFailure(r)
  <2>1. /\ k \notin late => payments[k].status \in Open /\ AllDead(k)
        /\ Write(k, "failed") /\ UNCHANGED <<txs, late>>
    BY <1>4, <1>5, <1>6, <1>11 DEF RecordFailure, At, RequestMatches
  <2>2. "failed" \in Statuses
    BY DEF Statuses
  <2> QED
    BY <2>1, <2>2, WriteIsPromised DEF Write
<1>12. CASE \/ PassGate(r) \/ CannotSubmit(r) \/ Answered(r) \/ Unanswered(r)
           \/ FallBack(r) \/ Abandon(r)
  BY <1>2, <1>12 DEF PassGate, CannotSubmit, Answered, Unanswered, FallBack, Abandon
<1> QED
  BY <1>7, <1>8, <1>9, <1>10, <1>11, <1>12 DEF RequestStep

\* So are only those of the watchdog.
LEMMA WatchdogKeepsPromise ==
  ASSUME PayoutAssumption, IInv, WatchdogStep
  PROVE  [Promise!Next]_<<Told, HowPaid>>
<1>1. ASSUME UNCHANGED <<payments, txs, late>> PROVE [Promise!Next]_<<Told, HowPaid>>
  BY <1>1, NothingTold DEF Landed, LandedKinds
<1>2. CASE Rule
  <2>1. /\ watchdog \in Sweep /\ watchdog.pc = "write" /\ WatchdogMatches
        /\ UNCHANGED <<txs, late>>
    BY <1>2 DEF Rule, IInv, Types, Asleep
  <2>2. PICK k \in Keys : k = watchdog.key
    BY <2>1 DEF Sweep
  <2>3. /\ watchdog.found \in Kinds \cup {"none"}
        /\ k \notin late =>
             /\ Overdue(k)
             /\ watchdog.found = "none" => AllDead(k)
             /\ watchdog.found # "none" => LastLanded(k, watchdog.found)
    BY <2>1, <2>2 DEF Sweep, WatchdogMatches
  <2>4. CASE UNCHANGED payments
    BY <1>1, <2>1, <2>4
  <2>5. CASE Write(k, Verdict(watchdog.found))
    <3>1. Verdict(watchdog.found) \in Statuses
      BY <2>3 DEF Verdict, Kinds, Statuses, Paid
    <3>2. k \notin late =>
            \/ Verdict(watchdog.found) = "failed" /\ AllDead(k)
            \/ \E kind \in Kinds :
                 Verdict(watchdog.found) = Reported(kind) /\ LastLanded(k, kind)
      BY <2>3 DEF Verdict, Reported, Kinds
    <3> QED
      BY <2>1, <2>3, <2>5, <3>1, <3>2, WriteIsPromised DEF Overdue, Write
  <2> QED
    BY <1>2, <2>2, <2>4, <2>5 DEF Rule
<1>3. CASE Select \/ (\E k \in Keys : LookUp(k) \/ Unreadable(k)) \/ (\E done \in BOOLEAN : GoToSleep(done))
  BY <1>1, <1>3 DEF Select, LookUp, Unreadable, GoToSleep
<1> QED
  BY <1>2, <1>3 DEF WatchdogStep

\* In a minute that makes keys late, the promise on them ends.
LEMMA MinuteIsPromised ==
  ASSUME PayoutAssumption, IInv, Minute
  PROVE  [Promise!Next]_<<Told, HowPaid>>
<1>1. late \subseteq late' /\ \A k \in late' \ late : payments[k].status \in Open
  BY MinuteKeeps
<1>2. ASSUME NEW k \in Keys
      PROVE  /\ Landed(k)' = Landed(k) /\ LandedKinds(k)' = LandedKinds(k)
             /\ payments'[k].status = payments[k].status
  <2>1. /\ payments'[k].status = payments[k].status /\ DOMAIN txs'[k] = DOMAIN txs[k]
        /\ \A i \in DOMAIN txs[k] :
             /\ txs'[k][i].kind = txs[k][i].kind
             /\ txs'[k][i].fate = "landed" <=> txs[k][i].fate = "landed"
    BY MinuteKeeps
  <2>2. {i \in DOMAIN txs'[k] : txs'[k][i].fate = "landed"}
          = {i \in DOMAIN txs[k] : txs[k][i].fate = "landed"}
    BY <2>1
  <2> QED
    BY <2>1, <2>2 DEF Landed, LandedKinds
<1>3. CASE late' = late
  BY <1>2, <1>3, NothingTold
<1>4. CASE late' # late
  <2> DEFINE ks == late' \ late
  <2>1. ks # {} /\ ks \in SUBSET Keys
    BY <1>1, <1>4, MinuteKeeps DEF IInv, Types
  <2>2. \A k \in ks : Told[k] = "open"
    BY <1>1, <2>1 DEF Told
  <2>3. \A k \in Keys : Moved(k)' = Moved(k)
    BY <1>2 DEF Moved
  <2>4. /\ Told' = [k \in Keys |-> IF k \in ks THEN "void" ELSE Told[k]]
        /\ HowPaid' = [k \in Keys |-> IF k \in ks THEN "void" ELSE HowPaid[k]]
    BY <1>1, <1>2, <2>3 DEF Told, HowPaid
  <2> HIDE DEF ks
  <2>5. Promise!Void(ks)
    BY <2>1, <2>2, <2>4 DEF Promise!Void
  <2> QED
    BY <2>1, <2>5 DEF Promise!Next
<1> QED
  BY <1>3, <1>4

\* Every step is one of the promise's, or none.
LEMMA StepKeepsPromise ==
  ASSUME PayoutAssumption, IInv, [Next]_vars
  PROVE  [Promise!Next]_<<Told, HowPaid>>
<1>1. ASSUME UNCHANGED <<payments, txs, late>> PROVE [Promise!Next]_<<Told, HowPaid>>
  BY <1>1, NothingTold DEF Landed, LandedKinds
<1>2. ASSUME NEW r \in Requests, NEW k \in Keys, Arrive(r, k)
      PROVE  [Promise!Next]_<<Told, HowPaid>>
  BY <1>1, <1>2 DEF Arrive
<1>3. ASSUME NEW r \in Requests, NEW k \in Keys, Resume(r, k)
      PROVE  [Promise!Next]_<<Told, HowPaid>>
  <2>1. "initiated" \in Statuses
    BY DEF Statuses, Open
  <2> QED
    BY <1>3, <2>1, WriteIsPromised DEF Resume, Write
<1>4. ASSUME NEW r \in Requests, RequestStep(r) PROVE [Promise!Next]_<<Told, HowPaid>>
  BY <1>4, RequestKeepsPromise
<1>5. ASSUME NEW k \in Keys, Land(k) PROVE [Promise!Next]_<<Told, HowPaid>>
  BY <1>5, LandIsMove
<1>6. ASSUME NEW k \in Keys, Refuse(k) PROVE [Promise!Next]_<<Told, HowPaid>>
  BY <1>6, RefuseTellsNothing
<1>7. CASE WatchdogStep
  BY <1>7, WatchdogKeepsPromise
<1>8. CASE Minute
  BY <1>8, MinuteIsPromised
<1>9. CASE UNCHANGED vars
  BY <1>1, <1>9 DEF vars
<1> QED
  BY <1>2, <1>3, <1>4, <1>5, <1>6, <1>7, <1>8, <1>9 DEF Next

\* What a client who retries relies on, for every number of keys and of requests at
\* work on them: each step of executePayout, of Horizon and of the watchdog is an
\* attempt, the one movement of money or a report of PaymentPromise, or is not seen at
\* all; the promise on a key ends only when a request is so late that the watchdog may
\* rule on its row.
THEOREM PayoutKeepsPromise == Spec => KeepsPromise
<1>1. Init => Promise!Init
  <2>1. Cardinality({}) = 0
    BY FS_EmptySet
  <2>2. ASSUME Init, NEW k \in Keys PROVE Moved(k) = "none"
    <3>1. Landed(k) = {} /\ LandedKinds(k) = {}
      BY <2>2 DEF Init, Landed, LandedKinds
    <3>2. ~(Cardinality(Landed(k)) > 1)
      BY <2>1, <3>1
    <3> QED
      BY <3>1, <3>2 DEF Moved
  <2> QED
    BY <2>2 DEF Init, Promise!Init, Told, HowPaid, Open
<1>2. IInv /\ [Next]_vars => [Promise!Next]_<<Told, HowPaid>>
  BY PayoutAssumption, StepKeepsPromise
<1> QED
  BY <1>1, <1>2, InvariantHolds, PTL DEF Spec, KeepsPromise, Promise!Spec

-----------------------------------------------------------------------------
(* The bound on the transactions of a key, and with it the type invariant. *)

\* No key has more transactions than it may.
Bounded == \A k \in Keys : Len(txs[k]) <= MaxTx

\* Sequences with the same places are of one length.
LEMMA SameLength ==
  ASSUME NEW s \in Seq(Tx), NEW t \in Seq(Tx), DOMAIN t = DOMAIN s
  PROVE  Len(t) = Len(s)
<1>1. /\ Len(s) \in Nat /\ DOMAIN s = 1..Len(s)
      /\ Len(t) \in Nat /\ DOMAIN t = 1..Len(t)
  BY SeqFacts
<1>2. 1..Len(s) = 1..Len(t)
  BY <1>1
<1>3. /\ Len(s) > 0 => Len(s) \in 1..Len(t)
      /\ Len(t) > 0 => Len(t) \in 1..Len(s)
  BY <1>1, <1>2
<1> QED
  BY <1>1, <1>3

\* Every step keeps the bound: Submit alone makes a sequence longer.
LEMMA BoundKept ==
  ASSUME IInv, Bounded, [Next]_vars
  PROVE  Bounded'
<1>1. /\ txs \in [Keys -> Seq(Tx)] /\ requests \in [Requests -> Request \cup {Idle}]
      /\ MaxTx \in Nat
  BY PayoutAssumption DEF IInv, Types, PayoutAssumption
<1>2. ASSUME UNCHANGED txs PROVE Bounded'
  BY <1>2 DEF Bounded
<1>3. ASSUME NEW r \in Requests, Submit(r) PROVE Bounded'
  <2>1. PICK k \in Keys : k = requests[r].key
    BY <1>1, <1>3 DEF Submit, At, Request
  <2> DEFINE new == [kind |-> requests[r].kind, fate |-> "new"]
  <2>2. new \in Tx
    BY <1>1, <1>3 DEF Submit, At, Request, Tx, Flying
  <2>3. txs' = [txs EXCEPT ![k] = Append(txs[k], new)] /\ Len(txs[k]) < MaxTx
    BY <1>3, <2>1 DEF Submit, MayBuild
  <2> HIDE DEF new
  <2>4. Len(txs'[k]) = Len(txs[k]) + 1 /\ Len(txs[k]) \in Nat
    BY <1>1, <2>2, <2>3, Appended
  <2>5. \A l \in Keys : l # k => txs'[l] = txs[l]
    BY <1>1, <2>3
  <2> QED
    BY <1>1, <2>3, <2>4, <2>5 DEF Bounded
<1>4. ASSUME NEW k \in Keys, Land(k) \/ Refuse(k) PROVE Bounded'
  <2>1. PICK fate \in {"landed", "dead"} : Decide(k, fate)
    BY <1>4 DEF Land, Refuse
  <2>2. PICK i \in DOMAIN txs[k] : txs' = [txs EXCEPT ![k][i].fate = fate]
    BY <2>1 DEF Decide
  <2>3. \A l \in Keys : DOMAIN txs'[l] = DOMAIN txs[l]
    BY <1>1, <2>2
  <2>4. txs' \in [Keys -> Seq(Tx)]
    BY <2>1, PayoutAssumption, DecideKeeps DEF IInv, Types
  <2>5. \A l \in Keys : Len(txs'[l]) = Len(txs[l])
    BY <1>1, <2>3, <2>4, SameLength
  <2> QED
    BY <2>5 DEF Bounded
<1>5. CASE Minute
  BY <1>5, PayoutAssumption, MinuteKeeps DEF Bounded
<1>6. ASSUME NEW r \in Requests, NEW k \in Keys, Arrive(r, k) \/ Resume(r, k) PROVE Bounded'
  BY <1>2, <1>6 DEF Arrive, Resume
<1>7. ASSUME NEW r \in Requests, RequestStep(r) PROVE Bounded'
  BY <1>2, <1>3, <1>7 DEF RequestStep, PassGate, Insert, CannotSubmit, Answered, Unanswered,
                          FallBack, Settle, RecordUnknown, RecordFailure, Abandon
<1>8. CASE WatchdogStep
  BY <1>2, <1>8 DEF WatchdogStep, Select, Rule, LookUp, Unreadable, GoToSleep
<1>9. CASE UNCHANGED vars
  BY <1>2, <1>9 DEF vars
<1> QED
  BY <1>4, <1>5, <1>6, <1>7, <1>8, <1>9 DEF Next

\* The records are what they seem, and no key's transactions go past their bound.
THEOREM PayoutTypeCorrect == Spec => []TypeOK
<1>1. Init => Bounded
  <2>1. Len(<<>>) = 0 /\ MaxTx \in Nat
    BY PayoutAssumption DEF PayoutAssumption
  <2> QED
    BY <2>1 DEF Init, Bounded
<1>2. IInv /\ Bounded /\ [Next]_vars => Bounded'
  BY BoundKept
<1>3. IInv /\ Bounded => TypeOK
  BY DEF IInv, Types, Bounded, TypeOK
<1> QED
  BY <1>1, <1>2, <1>3, InvariantHolds, PTL DEF Spec

=============================================================================
