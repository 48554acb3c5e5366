---------------------------- MODULE EscrowMirror ----------------------------
(***************************************************************************)
(* The escrow API of services/payment-service: routes/escrows.ts drives    *)
(* the contract of EscrowContract and keeps a mirror of it in Postgres     *)
(* (escrows, escrow_milestones, and one payments row per claimed           *)
(* milestone); lib/escrowReconcile.ts repairs the mirror from the chain.   *)
(*                                                                         *)
(* A request runs in steps with other requests, the reconciler and ledger  *)
(* closes between them: it reads the database, calls the contract, waits   *)
(* for the outcome, and writes.  It may end at every point (a crash, a     *)
(* restart, a failed query), and the outcome of the contract call may be   *)
(* lost while the call itself took effect.  No two statements are in one   *)
(* database transaction.                                                   *)
(***************************************************************************)
EXTENDS EscrowContract

CONSTANTS
  Handlers,   \* the request handlers that can be at work at one time
  Traffic     \* the routes that clients call in this instance

VARIABLES
  rows,      \* the escrows table with its milestones, by on-chain id
  books,     \* milestones with a payments row: idempotency keys escrow:id:idx
  inflight,  \* the requests in progress
  recon      \* the reconciler's own state

mirror     == <<rows, books, inflight, recon>>
mirrorVars == <<now, nextId, escrows, clearance, balance,
                rows, books, inflight, recon>>

\* Faulty: a claimed tranche keeps the chain's word, which no query looks for.
DbMilestoneRaw == [Pending |-> "pending", Approved |-> "approved",
                   Claimed |-> "Claimed", Refunded |-> "refunded"]

\* MILESTONE_STATUS and ESCROW_STATUS: the database's words for the chain's.
DbMilestone == [Pending  |-> "pending", Approved |-> "approved",
                Claimed  |-> "claimed", Refunded |-> "refunded"]
DbStatus    == [Active |-> "active", Completed |-> "completed", Refunded |-> "refunded"]

DbWords == {"pending", "approved", "claimed", "refunded"}
Row == [status : {"active", "completed", "refunded"}, frozen : BOOLEAN,
        milestones : Seq(DbWords)]

Ops  == {"create", "approve", "claim", "refund", "freeze", "unfreeze", "return"}
Idle == [op |-> "idle"]
Request == [op : Ops, id : 0..MaxIds, idx : 0..MaxMilestones,
            pc : {"call", "write", "milestones", "finalize", "book"}]

Asleep == [pc |-> "asleep"]
Failed == [pc |-> "failed"]

MirrorTypeOK ==
  /\ TypeOK
  /\ DOMAIN rows \subseteq DOMAIN escrows
  /\ \A id \in DOMAIN rows : rows[id] \in Row
  /\ books \subseteq {<<id, i>> : id \in DOMAIN rows, i \in 1..MaxMilestones}
  /\ inflight \in [Handlers -> Request \cup {Idle}]
  /\ recon.pc \in {"asleep", "failed", "chain", "diff", "repair", "record", "next"}

MirrorInit ==
  /\ Init
  /\ rows = <<>>
  /\ books = {}
  /\ inflight = [s \in Handlers |-> Idle]
  /\ recon = Asleep

-----------------------------------------------------------------------------
(* A request: the checks it makes on the database. *)

RowActive(id) == id \in DOMAIN rows /\ rows[id].status = "active"
RowMilestone(id, idx) ==
  IF id \in DOMAIN rows /\ idx \in DOMAIN rows[id].milestones
  THEN rows[id].milestones[idx] ELSE "none"

AdmitsApprove(id, idx) == RowActive(id) /\ RowMilestone(id, idx) = "pending"

\* The escrow row's status is not looked at.
AdmitsClaim(id, idx) == RowMilestone(id, idx) = "approved"

\* expires_at is compared with the time of day.
AdmitsRefund(id) == RowActive(id) /\ escrows[id].expiry <= now

AdmitsReturn(id) == RowActive(id) /\ rows[id].frozen

\* Freezing and unfreezing: any row there is.
AdmitsFreeze(id) == id \in DOMAIN rows

Admits(op, id, idx) ==
  \/ op = "create"
  \/ op = "approve" /\ AdmitsApprove(id, idx)
  \/ op = "claim"   /\ AdmitsClaim(id, idx)
  \/ op = "refund"  /\ AdmitsRefund(id)
  \/ op = "return"  /\ AdmitsReturn(id)
  \/ op \in {"freeze", "unfreeze"} /\ AdmitsFreeze(id)

Start(s, op, id, idx) ==
  /\ op \in Traffic
  /\ inflight[s] = Idle
  /\ Admits(op, id, idx)
  /\ inflight' = [inflight EXCEPT
                    ![s] = [op |-> op, id |-> id, idx |-> idx, pc |-> "call"]]
  /\ UNCHANGED <<now, nextId, escrows, clearance, balance, rows, books, recon>>

-----------------------------------------------------------------------------
(* A request: the contract call (lib/escrow.ts invoke). *)

ChainCall(r) ==
  \/ /\ r.op = "create"
     /\ \E ent \in Enterprises, w \in Workers, token \in Tokens,
           amounts \in AmountLists, expiry \in 0..(MaxTime - 1) :
             Create(ent, w, token, amounts, expiry)
  \/ r.op = "approve"  /\ Approve(r.id, r.idx)
  \/ r.op = "claim"    /\ Claim(r.id, r.idx)
  \/ r.op = "refund"   /\ Refund(r.id)
  \/ r.op = "freeze"   /\ SetFrozen(r.id, TRUE)
  \/ r.op = "unfreeze" /\ SetFrozen(r.id, FALSE)
  \/ r.op = "return"   /\ ReturnFrozen(r.id)

Calling(s) == inflight[s] # Idle /\ inflight[s].pc = "call"

Forget(s) == inflight' = [inflight EXCEPT ![s] = Idle]

\* The call is confirmed, and a new escrow's id comes back with it.
CallConfirmed(s) ==
  /\ Calling(s)
  /\ ChainCall(inflight[s])
  /\ inflight' = [inflight EXCEPT
       ![s].pc = "write",
       ![s].id = IF inflight[s].op = "create" THEN nextId ELSE @]
  /\ UNCHANGED <<rows, books, recon>>

\* Faulty: when the outcome is not known the call is taken for done.
UnknownOutcomeIsSuccess(s) ==
  /\ Calling(s)
  /\ inflight[s].op # "create"
  /\ inflight' = [inflight EXCEPT ![s].pc = "write"]
  /\ UNCHANGED <<now, nextId, escrows, clearance, balance, rows, books, recon>>

\* It took effect, and the request ends before it knows: pollTransaction gave
\* up after 60 seconds, the RPC node failed, or the service stopped.
CallOutcomeLost(s) ==
  /\ Calling(s)
  /\ ChainCall(inflight[s])
  /\ Forget(s)
  /\ UNCHANGED <<rows, books, recon>>

\* The request ends where it is: the contract refused, the transaction never
\* landed, a query failed, or the service stopped.
Abort(s) ==
  /\ inflight[s] # Idle
  /\ Forget(s)
  /\ UNCHANGED <<now, nextId, escrows, clearance, balance, rows, books, recon>>

-----------------------------------------------------------------------------
(* A request: the database writes that follow the call. *)

Goto(s, pc) == inflight' = [inflight EXCEPT ![s].pc = pc]

At(s, op, pc) == inflight[s] # Idle /\ inflight[s].op \in op /\ inflight[s].pc = pc

ChainStill == UNCHANGED <<now, nextId, escrows, clearance, balance, recon>>

\* INSERT INTO escrows, then INSERT INTO escrow_milestones.
InsertRow(s) ==
  /\ At(s, {"create"}, "write")
  /\ LET new == [status |-> "active", frozen |-> FALSE, milestones |-> <<>>]
     IN  rows' = [id \in DOMAIN rows \cup {inflight[s].id} |->
                    IF id = inflight[s].id THEN new ELSE rows[id]]
  /\ Goto(s, "milestones")
  /\ UNCHANGED books
  /\ ChainStill

InsertMilestones(s) ==
  /\ At(s, {"create"}, "milestones")
  /\ LET id == inflight[s].id
     IN  rows' = [rows EXCEPT ![id].milestones =
                    [i \in DOMAIN escrows[id].amounts |-> "pending"]]
  /\ Forget(s)
  /\ UNCHANGED books
  /\ ChainStill

\* The status is written whatever the row holds by now.
WriteMilestone(s) ==
  /\ At(s, {"approve", "claim"}, "write")
  /\ LET r == inflight[s]
     IN  rows' = [rows EXCEPT ![r.id].milestones[r.idx] =
                    IF r.op = "approve" THEN "approved" ELSE "claimed"]
  /\ IF inflight[s].op = "approve" THEN Forget(s) ELSE Goto(s, "finalize")
  /\ UNCHANGED books
  /\ ChainStill

\* refund turns what the database holds for pending into refunded, and
\* return-frozen also what it holds for approved.
WriteRefund(s) ==
  /\ At(s, {"refund", "return"}, "write")
  /\ LET r    == inflight[s]
         from == IF r.op = "refund" THEN {"pending"} ELSE {"pending", "approved"}
     IN  rows' = [rows EXCEPT ![r.id].milestones =
                    [i \in DOMAIN @ |-> IF @[i] \in from THEN "refunded" ELSE @[i]]]
  /\ Goto(s, "finalize")
  /\ UNCHANGED books
  /\ ChainStill

WriteFrozen(s) ==
  /\ At(s, {"freeze", "unfreeze"}, "write")
  /\ rows' = [rows EXCEPT ![inflight[s].id].frozen = (inflight[s].op = "freeze")]
  /\ Forget(s)
  /\ UNCHANGED books
  /\ ChainStill

\* finalizeEscrowStatus: the row's status from its milestones.
FinalRowStatus(milestones) ==
  LET has(words) == \E i \in DOMAIN milestones : milestones[i] \in words
  IN  IF has({"pending", "approved"}) THEN "active"
      ELSE IF has({"claimed"}) THEN "completed" ELSE "refunded"

Finalize(s) ==
  /\ At(s, {"claim", "refund", "return"}, "finalize")
  /\ LET id == inflight[s].id
     IN  rows' = [rows EXCEPT ![id].status = FinalRowStatus(rows[id].milestones)]
  /\ IF inflight[s].op = "claim" THEN Goto(s, "book") ELSE Forget(s)
  /\ UNCHANGED books
  /\ ChainStill

\* recordEscrowPayment inserts a payments row for a milestone whose database
\* status is claimed, once.
Recorded(id, idx) ==
  IF RowMilestone(id, idx) = "claimed" THEN books \cup {<<id, idx>>} ELSE books

Book(s) ==
  /\ At(s, {"claim"}, "book")
  /\ books' = Recorded(inflight[s].id, inflight[s].idx)
  /\ Forget(s)
  /\ UNCHANGED rows
  /\ ChainStill

RequestStep(s) ==
  \/ CallConfirmed(s) \/ CallOutcomeLost(s)
  \/ InsertRow(s) \/ InsertMilestones(s) \/ WriteMilestone(s) \/ WriteRefund(s)
  \/ WriteFrozen(s) \/ Finalize(s) \/ Book(s)

-----------------------------------------------------------------------------
(***************************************************************************)
(* The reconciler, every five minutes on one instance: it reads the active *)
(* rows, and for each one the chain, then its milestone rows; it compares, *)
(* and repairs what differs.  Between the reads and the writes requests    *)
(* go on.  A pass ends with the sweep over claimed milestones, unless it   *)
(* failed before.                                                          *)
(***************************************************************************)

ReconStill == UNCHANGED <<now, nextId, escrows, clearance, balance, inflight>>

ActiveRows == {id \in DOMAIN rows : rows[id].status = "active"}

\* Faulty: only the milestones of active escrows are swept.
SweepActive ==
  books' = books \cup {k \in ActiveRows \X (1..MaxMilestones) :
                         RowMilestone(k[1], k[2]) = "claimed"}

\* Claimed milestones without a payments row, whatever the escrow's status.
Sweep ==
  books' = books \cup {k \in (DOMAIN rows) \X (1..MaxMilestones) :
                         RowMilestone(k[1], k[2]) = "claimed"}

\* What is left to do after the escrow at hand: the others, or the sweep.
NextEscrow(todo) ==
  IF todo = {} THEN recon' = Asleep /\ Sweep
  ELSE recon' = [pc |-> "chain", todo |-> todo] /\ UNCHANGED books

ReconSelect ==
  /\ recon \in {Asleep, Failed}
  /\ NextEscrow({<<id, rows[id].frozen>> : id \in ActiveRows})
  /\ UNCHANGED rows
  /\ ReconStill

\* get_escrow for one of the rows selected; <<id, frozen>> is the row as it was
\* then, its status was active.
ReconReadChain ==
  /\ recon.pc = "chain"
  /\ \E job \in recon.todo :
       \/ recon' = [pc |-> "diff", todo |-> recon.todo \ {job}, job |-> job,
                    chain |-> [milestones |-> escrows[job[1]].milestones,
                               status |-> escrows[job[1]].status,
                               frozen |-> escrows[job[1]].frozen]]
          /\ UNCHANGED books
       \/ NextEscrow(recon.todo \ {job})       \* unreadable: left untouched
  /\ UNCHANGED rows
  /\ ReconStill

\* diffEscrow: the milestones to write, and whether the row differs.
Drifted(milestones, chain) ==
  {i \in DOMAIN milestones : milestones[i] # DbMilestone[chain.milestones[i]]}

\* Faulty: the frozen flag is not compared.
RowDriftedByStatus(frozen, chain) == chain.status # "Active"

RowDrifted(frozen, chain) == chain.status # "Active" \/ chain.frozen # frozen

ReconDiff ==
  /\ recon.pc = "diff"
  /\ LET milestones == rows[recon.job[1]].milestones
         same  == DOMAIN milestones = DOMAIN recon.chain.milestones
         fix   == IF same THEN Drifted(milestones, recon.chain) ELSE {}
         row   == same /\ RowDrifted(recon.job[2], recon.chain)
     IN  IF fix = {} /\ ~row THEN NextEscrow(recon.todo)
         ELSE /\ recon' = [pc |-> "repair", todo |-> recon.todo, id |-> recon.job[1],
                           chain |-> recon.chain, fix |-> fix, row |-> row]
              /\ UNCHANGED books
  /\ UNCHANGED rows
  /\ ReconStill

\* UPDATE escrow_milestones ... WHERE status <> $3; a claimed one is then booked.
ReconRepairMilestone ==
  /\ recon.pc = "repair" /\ recon.fix # {}
  /\ \E i \in recon.fix :
       /\ \A j \in recon.fix : i <= j
       /\ rows' = [rows EXCEPT ![recon.id].milestones[i] =
                     DbMilestone[recon.chain.milestones[i]]]
       /\ recon' = IF recon.chain.milestones[i] = "Claimed"
                   THEN [pc |-> "record", back |-> [recon EXCEPT !.fix = @ \ {i}], idx |-> i]
                   ELSE [recon EXCEPT !.fix = @ \ {i}]
  /\ UNCHANGED books
  /\ ReconStill

\* recordEscrowPaymentSafely: a failed INSERT is only logged.
ReconRecord ==
  /\ recon.pc = "record"
  /\ books' \in {books, Recorded(recon.back.id, recon.idx)}
  /\ recon' = recon.back
  /\ UNCHANGED rows
  /\ ReconStill

\* UPDATE escrows SET status, frozen: both as they were read from the chain.
ReconRepairRow ==
  /\ recon.pc = "repair" /\ recon.fix = {}
  /\ rows' = IF recon.row
             THEN [rows EXCEPT ![recon.id].status = DbStatus[recon.chain.status],
                               ![recon.id].frozen = recon.chain.frozen]
             ELSE rows
  /\ recon' = [pc |-> "next", todo |-> recon.todo]
  /\ UNCHANGED books
  /\ ReconStill

ReconNext ==
  /\ recon.pc = "next"
  /\ NextEscrow(recon.todo)
  /\ UNCHANGED rows
  /\ ReconStill

\* A failed query or a stop of the service ends the pass.
ReconAbort ==
  /\ recon \notin {Asleep, Failed}
  /\ recon' = Failed
  /\ UNCHANGED <<rows, books>>
  /\ ReconStill

ReconStep ==
  \/ ReconSelect \/ ReconReadChain \/ ReconDiff
  \/ ReconRepairMilestone \/ ReconRecord \/ ReconRepairRow \/ ReconNext

-----------------------------------------------------------------------------

\* What happens on chain outside this module's requests: ensureCleared grants and
\* revokes clearances.  A clearance granted outlives the behaviour here; when it
\* would lapse it is revoked instead.
Environment ==
  /\ \/ CloseLedger
     \/ \E w \in Workers : SetClearance(w, MaxTime + 1) \/ RevokeClearance(w)
  /\ UNCHANGED mirror

SomeStart ==
  \E s \in Handlers :
    \/ Start(s, "create", 0, 0)
    \/ \E id \in DOMAIN rows, idx \in 1..MaxMilestones :
         \/ \E op \in {"approve", "claim"} : Start(s, op, id, idx)
         \/ \E op \in {"refund", "freeze", "unfreeze", "return"} : Start(s, op, id, 0)

MirrorNext ==
  \/ SomeStart
  \/ \E s \in Handlers : RequestStep(s) \/ Abort(s)
  \/ ReconStep \/ ReconAbort
  \/ Environment

MirrorSpec == MirrorInit /\ [][MirrorNext]_mirrorVars

(***************************************************************************)
(* What the scheduling of the code justifies: a request that is running    *)
(* goes on or ends, and the reconciler comes round again, is in the end    *)
(* not stopped any more and can read the chain again and again.  For the   *)
(* convergence properties the traffic ends at some point.                  *)
(***************************************************************************)
ReadOf(id) ==
  /\ recon.pc = "chain"
  /\ ReconReadChain
  /\ recon'.pc = "diff" /\ recon'.job[1] = id

ReconFair ==
  /\ WF_mirrorVars(ReconStep)
  /\ \A id \in 0..(MaxIds - 1) : SF_mirrorVars(ReadOf(id))
  /\ <>[](recon # Failed)

MirrorFairness ==
  /\ \A s \in Handlers : WF_mirrorVars(RequestStep(s) \/ Abort(s))
  /\ ReconFair
  /\ <>[][~SomeStart]_mirrorVars

-----------------------------------------------------------------------------
(* Properties. *)

\* Nothing is shown or booked as paid that the contract has not paid: every
\* payments row and every claimed milestone of the mirror, whoever wrote it and
\* however stale what it had read, is a tranche Claimed on chain.
PaidIsClaimedOnChain ==
  \A id \in DOMAIN rows :
    \A i \in DOMAIN rows[id].milestones :
      (rows[id].milestones[i] = "claimed" \/ <<id, i>> \in books) =>
        escrows[id].milestones[i] = "Claimed"

\* No request is waiting for the chain or about to write.
Quiet == \A s \in Handlers : inflight[s] = Idle

Mirrors(id) ==
  /\ rows[id].status = DbStatus[escrows[id].status]
  /\ rows[id].frozen = escrows[id].frozen
  /\ \A i \in DOMAIN rows[id].milestones :
       rows[id].milestones[i] = DbMilestone[escrows[id].milestones[i]]

Complete(id) == DOMAIN rows[id].milestones = DOMAIN escrows[id].milestones

\* Whatever was lost on the way (crashes, unknown outcomes, late writes), an
\* escrow the mirror still shows as active is brought in line with the chain
\* once traffic ends, and stays so (escrowReconcile.ts:4-9).
ActiveRowsConverge ==
  <>[](Quiet /\ \A id \in ActiveRows : Complete(id) => Mirrors(id))

\* A tranche the mirror shows as claimed is in the books in the end, however the
\* claim request ended (escrowAccounting.ts:40-43, scheduler.ts:324).
ClaimsAreBooked ==
  \A id \in 0..(MaxIds - 1), i \in 1..MaxMilestones :
    (RowMilestone(id, i) = "claimed") ~>
      (<<id, i>> \in books \/ RowMilestone(id, i) # "claimed")

=============================================================================
