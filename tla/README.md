# Verification of Funti3r Pay

This directory holds TLA+ models of Funti3r Pay, the TLC runs that check them on
small instances, and the TLAPS proofs of what holds for every instance. Funti3r
Pay moves money on Stellar: an employer (an *enterprise*) pays workers one by
one, in batches, on a schedule, or through a milestone escrow held by a Soroban
contract; a worker cashes out through MoneyGram. All paths below are relative to
`src/`.

To run: `tlc -config Escrow.cfg MCEscrow.tla` (and so for every
run of the table in section 4), and `tlapm M.tla` for each of the eight modules
`EscrowContractProofs`, `EscrowMirrorProofs`, `PayoutProofs`, `JobsProofs`,
`ComplianceProofs`, `UserServiceProofs`, `ServicesProofs`, `ScheduleProofs`.

## 1. The system

| Component | State it keeps | Operations | Interacts with |
|---|---|---|---|
| Escrow contract `contracts/escrow/src/lib.rs` | escrows with their milestones, clearances, id counter; tokens held | create, approve, claim, refund, set_clearance, revoke_clearance, set_frozen, return_frozen | token contracts; called by the payment service with the parties' keys |
| Contract administration, same file | admin, compliance authority, pending proposal in temporary storage | set_compliance, propose_admin, accept_admin, upgrade | the ledger, which deletes temporary entries |
| Escrow API `services/payment-service/src/routes/escrows.ts`, `lib/escrow.ts` | `escrows`, `escrow_milestones`, review trail | create, approve, submit, reject, claim, refund, freeze, return-frozen | contract (RPC), Postgres, compliance bridge |
| Escrow reconciler `lib/escrowReconcile.ts`, `lib/escrowAccounting.ts` | the same tables, and a `payments` row per claimed milestone | a pass every five minutes | contract (reads), Postgres, scheduler |
| Payouts `app.ts`, `lib/stellar.ts` | `payments`, one row per idempotency key | POST /payouts: lookup, retry, insert, gate, submit, fallback, verdict | Horizon, advisory locks, compliance |
| Payment watchdog `scheduler.ts` | the same tables | settles stale payments and batches every two minutes | Horizon, Postgres |
| Batches `app.ts` | `payment_batches` with a heartbeat | POST /payouts/batch, item by item | payouts, watchdog, schedules |
| Cash-outs `routes/cashouts.ts`, `lib/rampsSync.ts`, `lib/moneygram.ts` | `cashouts`, one row per MoneyGram transaction | deposit, poll in the background, sweep every minute | MoneyGram, Stellar, locks |
| Schedules `routes/schedules.ts`, `lib/scheduling.ts`, `scheduler.ts` | `payment_schedules` with items | create, pause, resume, delete, hourly job | batches (HTTP), job lock |
| Locks and pool `packages/database/src/locks.ts`, `postgres.ts` | advisory locks, connections | withAdvisoryLock, tryWithAdvisoryLock | everything above |
| Compliance bridge `lib/clearance.ts` | none of its own; the clearance it sets is the contract's | ensureCleared, requireCompliance, screenEmployer | compliance service, contract |
| Compliance service `services/compliance-service` | KYC records, stored sanctions list, every instance's index of it | submit, decide, status, refresh and re-screen, name comparison | payment service, the list's publisher, job lock |
| User service, companies `services/user-service/src/index.ts` | companies, members, linked workers, two tables of invites | create a company, invite, re-invite, delete, accept, remove a member | gateway, Postgres |
| User service, sign-in, same file | users, passkeys, challenges, recovery links, sessions in Redis | register, replace a passkey, log in, recover, refresh, log out | browser's cookie and authenticator |
| Dashboard's payment form `apps/enterprise-dashboard/src/pages/Payments.tsx` | idempotency key of the form, what it has shown as sent | send, edit, hear an answer or none | POST /payouts through the gateway |
| Smart wallet contract `contracts/smart-wallet` | one signer key | init, \_\_check_auth | contracts |
| Gateway, analytics, rails, FX, caches, shared packages, the apps' other pages, migrations | little or none | routing, quotes, reads, presentation | |

What is hard about it:

- **Several writers, no transactions across them.** The contract and Postgres
  are changed by separate statements, in that order, and any request ends
  anywhere (restart, failed query). The reconciler and the watchdogs repair
  from readings that requests may have overtaken.
- **Unknown outcomes.** A submission without a verdict may land later. It must
  not be taken for a failure, and somebody has to find out in the end.
- **Retries.** Clients, the dashboard, the scheduler and browsers send things
  again, to any instance. Keys, unique indexes and compare-and-swap writes are
  what keeps money from moving twice.
- **Several instances.** Every instance runs every cron job; advisory locks let
  one of them work.
- **Time.** Ledger expiry, clearance expiry, temporary entries, transaction
  time bounds, stale rows, heartbeats, enterprise calendars.

What makes each component correct:

- contract: double-entry accounting token by token, each tranche settled once
  and along the promised way, status and milestones never apart, money moved
  only under the compliance gate, no money locked for ever;
- administration: an offer stands exactly as long as it was made for, and the
  role passes only by one;
- mirror: never shows or books a payment the chain has not made; agrees with the
  chain in the end; claimed milestones get into the books;
- payouts: a key pays once, *failed* is final (both as long as requests end before
  their row is stale, section 6), a row left open gets a verdict;
- batches: *completed* means everybody was paid; a dead batch is ruled on, by
  what its payments say;
- cash-outs: a MoneyGram transaction is paid once, *completed* means paid, known
  and seen; a payment we know of is settled;
- schedules: a due run is paid once and the rhythm is kept (where the server's nine
  o'clock is on the enterprise's day, section 6), no due run is forgotten;
- locks and pool: transactions of an account do not take each other's sequence
  number, calls do not wait for each other in a ring, nothing stays locked;
- compliance: a listed name ends up flagged, an employer clears no flag, a
  clearance ends with the eligibility it stood for, an ineligible worker's money
  does not move, two names are as far apart as the table says;
- companies: an invite lets one person in, an owner stays;
- sign-in: a cookie stands for a session, the stored passkey can be used again;
- payment form: an employer who clicks until it works pays once (but for two cases,
  section 6), and what is shown as paid was paid.

## 2. Modules

| Module | Models | Composed with |
|---|---|---|
| `EscrowContract` | the contract, one action per entry point | |
| `TrancheLedger` | what the contract promises about one tranche | refined by `EscrowContract` |
| `EscrowMirror` | escrow API, bookkeeping and reconciler | extends `EscrowContract`: its requests take the contract's own actions |
| `EscrowAdmin` | the two-step hand-over and its temporary entry | |
| `Payout` | executePayout, its submission, the watchdog's payments | |
| `PaymentPromise` | what a payout promises to a client who retries | refined by `Payout` and by `Cashout` |
| `Batch` | the batch request and the watchdog's batches | its items have `PaymentPromise`'s states |
| `Cashout` | deposit request, poller, sweep, MoneyGram's record | |
| `Schedule` | schedule routes, hourly job under its lock, nextRunDate | abstracts the batch it posts to its answers |
| `AccountLock` | advisory locks, the pool they take connections from, the account's sequence number | `Payout`, `Cashout` and `Schedule` use its locks as given |
| `Clearance` | a verdict on its way to a clearance and to money that moves | reads what `Screening` writes, sets what `EscrowContract` checks |
| `Screening` | sanctions list on several instances, submissions, decisions | |
| `Names` | the comparison of two names | |
| `Company` | companies, members, invites | |
| `Sessions` | passkeys, challenges, sessions | |
| `PayClient` | the payment form's keys | instantiates `PaymentPromise` as its service |
| `MCEscrow`, `MCPayments`, `MCJobs`, `MCServices` | small instances of several modules in one run | |
| `MCPayout`, `MCCashout`, `MCSchedule`, `MCScreening`, `MCPayClient` | values of the constants for the runs of one module | |
| `EscrowContractProofs`, `EscrowMirrorProofs`, `PayoutProofs`, `ScheduleProofs` | theorems about the module of that name | `EscrowMirrorProofs` uses the contract's |
| `JobsProofs` | theorems about `Batch`, `Cashout`, `AccountLock`, `Screening` and all of `MCJobs` | |
| `ComplianceProofs` | theorems about `EscrowAdmin`, `Clearance` and `Names` | |
| `UserServiceProofs` | theorems about `Company` and `Sessions` | |
| `ServicesProofs` | theorems about `PayClient` and all of `MCServices` | uses the two above |

`PROJECT.json` maps each definition to the lines it models. Definitions that
begin with "Faulty" in their comment are not used by any specification: each is
a plausible bug in the code beside it, and replacing the right definition by it
makes a property fail.

### EscrowContract

A contract call is a transaction, so an entry point is one action, an error
return is a guard, and `require_auth` is who performs the action. `escrows` is
the persistent `DataKey::Escrow(id)` map, `clearance[w]` the stored expiry (0 when
absent), `balance` the token contracts' balances per token. `CloseLedger`
advances the timestamp by any amount. `finalize_status` is `FinalizeStatus`, the
common end of claim, refund and return_frozen is `Settle`; approve saves without
it, as the code does. Checked arithmetic is a guard that the sum is in `I128`
with `MaxI128` for the width. The attestation stored with a clearance, the
events and the storage time to live (archived entries can be restored) are left
out; `upgrade` replaces the code and is out of the model.

### EscrowMirror

A request is a record in `inflight` that goes through database checks (`Start`),
the contract call (`CallConfirmed`, or `CallOutcomeLost` when it took effect and
nobody knows), and one step per SQL statement. `Abort` ends it anywhere.
`rows` holds `escrows` and `escrow_milestones`, `books` the payments rows keyed
`escrow:id:idx`. The reconciler's pass is a program counter in `recon` with what
it has read: `ReconReadChain` reads the contract, `ReconDiff` the milestone rows,
the repairs write what was read before, and the pass ends in the sweep.
`Environment` is what others do on chain. Off the model: submit and reject (they
keep the milestone pending), reads, notifications, the audit log, and the manual
`POST /escrows/reconcile`, which is the same pass without the job's lock.

### Payout

`payments[k]` is the row of an idempotency key with its age in minutes, `txs[k]`
the transactions built for it, each of them flying, landed or dead. A request is
the code's path from lookup to its last UPDATE: a new key waits to be inserted
(the unique index decides), a failed one is resumed by compare-and-swap. `Submit`
needs the account's lock; `Answered` and `Unanswered` are Horizon's answers;
`FallBack` is the claimable balance after a missing trustline. The ends are
unconditional UPDATEs, as in the code. A request and an `Abandon` at any point of
it are the crash model. The watchdog selects stale rows, looks each up by the
payment's memo hash, and writes with a condition on the status.

`Minute` ages rows and transactions together: a transaction dies of its time bound
in its second minute. Nothing bounds the time of a request, so the watchdog may rule
on the row of one that is still to submit. `late` is history and has the keys to which
this may happen: those with a request still at work two minutes before its row was
stale. In `KeepsPromise` the promise on such a key is *void* from then on. A key under
which two transactions have landed is mapped to a way of paying that `PaymentPromise`
does not know (`Moved`), so that paid once is a part of what is refined.

### Batch

One request pays `Items` items, one after the other, with a heartbeat after each
and a status at the end computed from the collected results; `Crash` ends it
anywhere, `Throws` is an exception after the payment row was inserted. The
watchdog selects, counts and writes in three steps.

### Cashout

`record[t]` is MoneyGram's record, which moves by itself, `rows[t]` our row
(`paid` is a `settlement_hash`), `payments[t]` the Stellar payments submitted.
`Check` reads MoneyGram, `Take` is the upsert with its WHERE. The poller and the
sweep read and apply in separate steps, so both write old readings; a row that is
not in MoneyGram's list waits for another sweep (`SweepSkip`). To the worker it
is a payout with the transaction as its key: `CashoutKeepsPromise` maps the row and
what has landed to `PaymentPromise`, as `Payout` does with its rows. A transaction that
was paid twice is mapped to a way of paying that the promise does not know, so
`PaidOnce` is a part of it.

### Schedule

Time is counted in hours of the server's clock. `NextRun` is `nextRunDate`: the
weekday or day of the month on the enterprise's calendar, 09:00 set on a `Date`,
thus on the server's clock. A tick on each instance takes the job's lock or skips;
claim, items, batch, `next_run_at` are separate steps, with a crash, a failed
query or a timed-out batch between them. `paid` is a bag of the runs for which
money moved. `InStep` says in which zones nine o'clock on the server is on the
enterprise's day: those of -9 to +14 hours. Zones may be any; the properties that are
false of the others name it.

### EscrowAdmin

`pending` is the temporary entry and `lives` the ledger up to which it is kept
(`set` keeps the time to live of an entry that is there, `extend_ttl` only
lengthens). `offer` is history: what an observer who saw only the proposals,
withdrawals and acceptances expects to stand.

### PayClient

The page is `Click`, `Paint`, `Edit` and `Hear`, the service is an instance of
`PaymentPromise`: the same abstract machine that `Payout` is shown to implement
(`KeepsPromise`), here from the side of who relies on it. The button is pressed until
the render that disables it is painted, and may be clicked again as long. The page or
the gateway gives up on a request at any stage (`Unheard`), also before it has come to
the service's lookup. `stored` is the payload hash kept with a key, `rate` the exchange
rate by which each request converts the form's dollars anew, so that a retry may not
match its own key. `Final` is isFinalPayoutError, `DropKey` what happens when it or a
success ends a key. `lapsed` remembers the forms whose key the page dropped on a refusal
that says nothing of the payment, `raced` those whose key it dropped for the answer to
one request while another was still to come in under it (section 6).

### AccountLock

A session is a connection of an instance's pool; `held` counts its locks, which
are re-entrant. A call waits for a connection, then for the lock, and gives both
back in `Unlock`; a job's run needs another connection for its queries while a
payment needs none under its lock. `LoseSession` is a session the database ended
while the call goes on, `UnlockFails` a connection that returns to the pool with
its lock, `Crash` an instance that stops with what it has submitted on the way.

### Clearance

One worker, with clocks that agree. A request asks for the verdict, reads the
contract, sets or revokes, and moves money, each a step; `Unanswered` leaves a call
in flight that may land later. `Review` is whatever changes the record. `blocked`
holds the requests during whose life the worker was at no moment eligible.

### Screening

A refresh is the code's six statements: insert the new batch (chunk by chunk, so that
it may end half-way), point
`sanctions_list_meta` at it, delete the others, reload the index, select the clear
records, flag. The daily job is under the cluster-wide lock, the admin's request
is not; `LockedSpec` is the system without that request. `submission` and `decision` are
what has been screened or read and is not yet written; a decision holds the row's lock.

### Names

`FillRow` computes a row of the table of edit distances from the one before and
gives up as the code does; `MatchIsExact` compares what is returned with a reference
definition of the distance, and the words that `ExtraNames` leaves over with a
count.

### Company

A company is its owner (`enterprises.user_id` is unique). Every handler is a
sequence of its queries in a record of `request`; accepting a team invite is one
transaction that locks the invite's row. Two requests run at a time. Worker and
team invites are rows of one variable that differ by their role. `admitted` is
history: whom which link let in.

### Sessions

One user, one origin, several browsers. The handlers are broken at their queries,
`Dies` ends one anywhere. `count` is what the authenticator has signed, `passkey` the
row with its counter. A cookie stands for the access token as well: who may
replace a passkey is asked of it (the code asks the access token, which outlives a
logout by up to fifteen minutes). The end of a sign-in, which deletes the challenge,
stores the token and answers (`user-service/src/index.ts:538-571`, `:701-720`), is one
step, and the user's address is in lower case (section 6). `unusual` remembers what the two properties
except: requests of one browser that overlapped or died, a sign-in on top of a
session, a passkey replaced in the middle of a sign-in.

### MCEscrow, MCPayments, MCJobs and MCServices

Modules that share no state are checked in one run: `focus` chooses which of them a
behaviour is about, and the others stay in their initial state, or, for `Schedule` in
`MCPayments`, in a state in which its time is over. This is sound for
invariants and action properties because no module reads another's variables, and
for liveness because nothing that is under fairness is enabled in the state in which the
other modules rest. In `MCEscrow` the focus is the contract called by anybody, or the same
contract driven by the API alone. The second is about one escrow of a worker who is not
the enterprise, with two tranches (one in `escrow_live`); a clearance once given is not
taken back, which would only make calls fail, and every call may fail.

## 3. Assumptions the models make

- **Payout.** A transaction lives through two minutes at most and a row is stale after
  that (`PayoutAssumption`). Of the time requests take nothing is assumed; what is lost
  when one is too slow is in the properties (`late`) and in finding 2.
- **Payout, `Spec`.** The UPDATE that records a success does not fail; without
  that assumption the property fails, and `SpecWithLostWrites` shows it
  (finding 1).
- **Cashout, `Silent = FALSE`.** Horizon answers every submission; with `TRUE`
  `PaidOnce` fails (finding 3).
- **Batch.** Between two payouts a live request does not take `StaleBeat`
  minutes; a payout may.
- **Schedule.** Zones are constant offsets (no daylight saving) of any size, the
  server's clock is UTC (as in the containers), a tick's work is done
  within its hour, midnight is read as hour 0. `ScheduleAssumption` gives the rules as
  nextRunDate admits them, which refuses every other at creation; `CalendarAssumption`
  says of the calendar that months begin at least 28 days apart and that one is under
  way at every hour considered. Faults stop at `FaultsUntil`, so that what they leave
  behind can be told from what happens later.
- **AccountLock.** Every wait of a call has a timeout, as the pool's and the lock's
  settings give it. What runs under an account's lock takes no connection.
- **Clearance.** One clock; the read of the contract takes at most `Patience`. A
  clearance that was set by a call without an answer counts like any other.
- **Screening.** One applicant; the built-in list, which is the same everywhere, is
  left out. The published list is not empty.
- **Names.** Normalisation (accents, case, punctuation) is left out: the words
  compared are already normalised. Texts have any length and the tolerance any value
  (`NamesAssumption`).
- **Sessions.** An authenticator counts its signatures; one that does not has
  nothing to lose. Tokens do not expire while the model looks. The value that stands for no
  browser is none of the browsers (`SessionsAssumption`).
- **PayClient.** The service keeps `PaymentPromise` on every key, so the watchdog rules
  only on rows no request works on (finding 2 is what follows when one does). The page is
  not reloaded. Sending again from the detail dialog uses the key of the failed payment
  it shows and is left out.
- **EscrowContract.** Token contracts are Stellar asset contracts: a transfer
  moves exactly its amount or traps.

## 4. Runs

| Run | Module, configuration | Checks | Instance |
|---|---|---|---|
| escrow | `MCEscrow`, `Escrow.cfg` | contract: TypeOK, StatusMatchesTranches, Accounting, GatedMovement, ImplementsTrancheLedger; API: MirrorTypeOK, PaidIsClaimedOnChain | contract: 2 escrows, of 2 tranches and of 1, 2 tokens, 2 workers of whom one is also the enterprise, times 0..2; API: 1 escrow of 2 tranches, 2 requests and the reconciler; create, approve, claim, refund; tokens and handlers are symmetric |
| escrow_live | `MCEscrow`, `EscrowLive.cfg` | contract: ContractSettles; API: ActiveRowsConverge, ClaimsAreBooked | contract: 1 escrow, times 0..3, fair; API: 1 tranche, all routes, 2 requests of which the second lifts holds, times before and after the expiry, fair |
| payments | `MCPayments`, `Payments.cfg` | payout: TypeOK, FailedIsOver, KeepsPromise, EveryRowSettles; schedule: ScheduleTypeOK, UndisturbedPaidOnce, Cadence, DueIsRun | 1 key, 2 requests at a time, 2 transactions, stale after 5 minutes; 2 instances, zones -10, -9, +14, three frequencies, hours 48 to 252, faults in the first ten of them; fair |
| payout_lost_write | `MCPayout`, `PayoutLostWrite.cfg` | PaidOnce: violated | 1 request at a time, writes may fail |
| payout_slow | `MCPayout`, `PayoutSlow.cfg` | PaidOnce: violated | 2 requests, nothing fails |
| jobs | `MCJobs`, `Jobs.cfg` | TypeOK; batch: CompletedIsPaid, RuledByTruth, BatchSettles; cash-out: CompletedWasPaid, CashoutKeepsPromise, AcknowledgedSettles; locks: NoCollision, NotEveryoneWaits, AllGivenBack; screening: ListedIsFlagged, EmployerClearsNoFlag | 3 items, heartbeat stale after 2 minutes; 1 transaction, 2 requests, 3 payments; 2 payments on different instances and 1 job's run, pools of 2, 2 faults; 2 instances, 2 names, 2 events from outside; fair |
| cashout_twice | `MCCashout`, `CashoutTwice.cfg` | PaidOnce: violated | a submission may stay without an answer |
| schedule_retry | `MCSchedule`, `ScheduleRetry.cfg` | RunPaidOnce: violated | a crash after the batch was posted, zone 0 |
| schedule_west | `MCSchedule`, `ScheduleWest.cfg` | RunPaidOnce: violated | 1 instance, zone -11, no crash and no lost query |
| services | `MCServices`, `Services.cfg` | AllTypeOK; administration: OfferStands, HandedOver; clearance: StaleClearanceExpires, BlockedMovesNothing; companies: UsedUpMeansJoined, OwnerKeepsCompany; sign-in: SignInLasts; names: MatchIsExact; payment form: PaidAsShown | 3 addresses, 9 ledgers, time to live 3 to 5; 2 requests, times 0..3, clearance, approval and patience of 1, 1 call in flight, 1 review; 3 users, 2 places, 2 rows, 4 requests; 2 browsers, 2 handlers at a time, 4 visits, 1 signature; texts of up to 4 of 2 letters, up to 2 edits; 2 forms, 2 requests, a rate that moves once, 2 keys; users, browsers, letters and forms, and places for requests, are symmetric |
| sanctions_list | `MCScreening`, `SanctionsList.cfg` | WholeList: violated | 2 instances, 1 event: a refresh that an admin asks for beside the job's |
| client_twice | `MCPayClient`, `ClientTwice.cfg` | DoubleClickPaysOnce: violated | 1 form, 2 requests, 2 keys, 1 rate |

What the passing ones show, and why the bounds are enough (the violations are in
section 6):

- **escrow, contract.** Money is never created, lost, paid twice, paid in the
  wrong token or out of another escrow's deposit; what leaves does so under the
  gate. Two escrows are what cross-contamination needs, since no call touches
  more than one; two tranches give every mixture of settled and open, and the other's one meets each; the lists
  include a zero amount, an empty one, one over the maximum and one whose sum
  overflows. An enterprise that is its own worker exercises transfers that
  coincide. Times 0..2 put `now` before, at and after every expiry.
- **escrow_live, contract.** No order of approvals, expiry, freezes and lapsed
  clearances ends in money that none of claim, refund and return_frozen moves.
  Escrows share only tokens, so one of them is enough for this.
- **escrow, API.** However many statements are lost and however old a repair's
  reading, nothing is shown or booked as paid that was not. Two requests and the
  reconciler are three writers for two milestones: the races need two writers
  and the status computed from a neighbouring milestone.
- **escrow_live, API.** Active rows agree with the chain once traffic ends, and
  claims get into the books; also when a hold was set and lifted in one order on chain
  and in the other in the database. A row whose milestones were never inserted is
  excepted: the reconciler reports it and leaves it, on purpose. A row that is
  already final is not read again by design (section 6).
- **payments, payout.** Two requests are a first attempt and a retry let in by its
  failure or by the watchdog, or two that race for one row; more of them only repeat
  what the second does, since a row lets in one at a time. Two transactions under a key
  are what a second payment needs, whether by a retry or by the fallback. Keys share
  only the lock and the watchdog's list.
- **jobs, batches.** Three items are one paid, one failed, one in doubt: every mixture
  that the status distinguishes.
- **jobs, cash-outs.** Transactions share only the sweep's list. Two requests and three
  payments let a retry meet a payment of its predecessor.
- **payments, schedule.** From a Tuesday to the Wednesday of the week after there are two
  weekly runs, one biweekly and, where the enterprise's Monday has not ended, one monthly;
  -9 and +14 are the outermost zones in step, -10 the first that is not. Hours in which no
  instance ticks, and what faults of the first hours have left, meet every one of these.
  Schedules share nothing but the order in which the job takes them, so one of them is
  enough.
- **jobs, locks.** Two payments of one account on different instances are what the
  lock must keep apart, a job's run on one of them is what needs two connections;
  with pools of two, a waiting payment and the job use up one. Two faults combine any
  two of a lost session, a failed unlock, a missing verdict and a crash.
- **jobs, screening.** Two events let a publication meet a submission, a decision, a
  restart or a second refresh on another instance, whose index is of another day.
- **services, administration.** A proposal can be replaced, withdrawn, accepted and
  made again before, at and after its deadline, and the entry's time to live, left
  over from a former proposal or the ledger's minimum, may exceed the deadline.
- **services, clearance.** Three time units hold an approval that lapses, a call
  that lands late and the clearance it sets. Two requests let one set what the other
  has just revoked, and an escrow call use what a cash-out has set.
- **services, companies.** An owner and two others are enough for two accepts of one
  invite, an accept against a re-invite, and a removal against a change of role. Four
  requests, two at a time, hold invite, accept and the two that disturb them.
- **services, sign-in.** Four visits hold a registration, a sign-in, a replacement and
  a refresh; two at a time overlap in every way.
- **services, names.** Texts of four letters and two edits reach the row that is
  exactly at the tolerance, the empty text and lengths that differ by it.
- **services, payment form.** Two keys are what a second payment needs, two requests
  a double click, or an old one that is still under way wherever it is, two rates a retry
  that is another payload.

Deadlock is checked except where a behaviour really ends: a batch, a cash-out, a
comparison of names, a settled escrow and a deleted schedule are over when they are over,
and the time and the requests of `EscrowContract`, `Schedule`, `Clearance`, `Company`,
`Sessions` and `PayClient` are bounded.

Fairness, and what justifies it:

- `Cooperation` (`EscrowContract`), the premise of `ContractSettles`: ledgers close; the
  parties ask for what they are
  owed again and again (strong fairness, since a freeze or a lapsed clearance may
  disable the call in between); the authority keeps clearing the worker, resolves
  every hold, and stops revoking and freezing some day. The contract cannot
  promise more: a worker who is never cleared is never paid, by design.
- `MirrorFairness` (`EscrowMirror`): a running request goes on or ends; node-cron brings
  the reconciler round; it gets to read each escrow again and again, and in the end its
  passes are not stopped any more (`<>[](recon # Failed)`, more than "not every one is":
  a pass that is stopped at the same repair for ever repairs nothing); traffic ends.
- `Payout`, `Batch`, `Cashout`: time passes and requests end, cron starts the
  sweeps again and again, a sweep that may fail gets through to each row sooner
  or later (strong fairness on the read and on the write). The cash-out poller is
  under no fairness: the sweep alone must be enough.
- `LockFairness`: every wait of a call ends, because `connectionTimeoutMillis` and
  `lock_timeout` end it, and the pool closes connections that idle. Nothing is
  assumed of faults.
- `ScreeningFairness`: the daily job comes back, and what has begun goes on. An
  admin's refresh, publications, submissions and decisions are under no fairness.
- `Schedule`: the clock runs, cron fires on every instance, a job goes on.

## 5. What is proved

TLAPS proves these for all values of the constants under the named assumption of the
module concerned (`ContractAssumption`, `PayoutAssumption`, ...). Each assumption
gives the constants their types; what it says beyond that is in section 3, or keeps
apart what the code cannot confuse (the vault from the parties, nobody from the
browsers), or orders two limits the ledger orders (`AdminAssumption`). Where a theorem
needs more, it says so in its statement: `~Silent`, `PoolSize # 1`.

**`EscrowContractProofs`**

- `TypeCorrect`: `Spec => []TypeOK`. The part with content is that no balance
  becomes negative and every stored amount fits its integer.
- `StatusCorrect`: `Spec => []StatusMatchesTranches`.
- `AccountingHolds`: `Spec => []Accounting`.
- `GateHolds`: `Spec => GatedMovement`.
- `LedgerImplemented`: `Spec => ImplementsTrancheLedger`.

The inductive invariant is TypeOK, StatusMatchesTranches and "every escrow has
between 1 and MaxMilestones milestones". The last conjunct is needed twice: an
escrow without milestones would be Active with nothing open when created, and
the refinement needs a funded position within `Slots`. The argument goes call by
call over two lemmas for the common end (`SettleType`, `SettleInv`) and one each
for `PayBack` and `Create`.

Accounting adds two sums of sums to that, over the tranches of an escrow and over the
escrows. The sum of the community modules is a fold over a set that picks its elements
one by one; what is needed of it (it is a number, it splits, it depends on the values
only) is proved by a counterexample with the fewest elements. With that, each escrow
has three totals by token: open, claimed and refunded. One lemma per kind of call says
how a call moves an amount from one total to another, and the balances follow.

The refinement maps a milestone of an escrow to a position of the ledger;
`LedgerUpdate` says how an update of one escrow's milestones shows there, `OneTranche`
and `PayBackLedger` turn claim, approve, refund and return_frozen into the ledger's
steps, and `LedgerStep` collects them.

**`EscrowMirrorProofs`**, for any number of handlers

- `ContractDriven`: `MirrorSpec => Spec`. What is proved of the contract holds under
  the API, which may stop anywhere.
- `MirrorTypeCorrect` (`[]MirrorTypeOK`), `PaidIsClaimed` (`[]PaidIsClaimedOnChain`).

"Claimed on chain" never becomes false again, so a copy is right about it however old
it is. The invariant says this of every copy: the rows (`RowOK`), the books
(`BookOK`), what a request has done on chain and not yet written (`RequestOK`), and
what the reconciler has read and will write (`ReconOK`, `CopyOK`); below them is the
contract's own invariant.

**`PayoutProofs`**, for any number of keys and of requests, however long they take

- `PayoutTypeCorrect` (`[]TypeOK`).
- `FailedIsFinal`: `Spec => []FailedIsOver`. Of a failed key nothing has landed, and
  nothing is in the air.
- `WorkerPaidOnce`: `Spec => []PaidOnceInTime`.
- `PayoutKeepsPromise`: `Spec => KeepsPromise`, the refinement of `PaymentPromise`.

The last three are about the keys that are not `late`; of the others they are false
(finding 2). The invariant says of a key in time that only
its last transaction can be alive, that none
is when the row is free or failed, and that one in the air is too young for its row
to be stale; of a request at work that it is alone on its row and that the row is young
enough for one more transaction; of
the watchdog that what it has listed and looked up stays as it was until it writes.
A key becomes late in the very `Minute` that would end the third clause about transactions,
the one that keeps the watchdog's *failed* from racing a submission; and it stays so.
From paid once follows that no step of the refinement is a second payment.

**`JobsProofs`**

For `Batch`, for any number of items: `TypeCorrect`, `CompletedMeansPaid`
(`[]CompletedIsPaid`), `DeadAreRuledByTruth` (`RuledByTruth`). The request goes through
the items in order, with a result behind it and no payment before it (`InOrder`); what
the watchdog has counted still holds when it writes, all of it when the request was
dead and the verdict *completed* in any case (`CountHolds`).

For `Cashout`, assuming `~Silent`, without which finding 3 refutes the first:
`TransactionPaidOnce` (`[]PaidOnce`), `CompletedIsSettled` (`[]CompletedWasPaid`). Only
the last payment of a transaction can be alive, a request that has taken a row has it
to itself, and poller and sweep are only at rows that are paid, with readings behind
which MoneyGram's record never goes back. From the same invariant follows
`CashoutIsPromised` (`CashoutKeepsPromise`), the refinement of `PaymentPromise`: most
steps tell the worker nothing (`NothingTold`), a take opens the key, a landing moves
its money, which happens once (`TransactionPaidOnce`), and a failed row has nothing left
in the air. `CashoutTypeCorrect` needs no
assumption on the network.

For `AccountLock`, for any number of calls, instances and connections:
`SequenceNumbersDoNotCollide` (`[]NoCollision`), `SomebodyGetsOn`
(`[]NotEveryoneWaits`), assuming `PoolSize # 1`, and `LockTypeCorrect`. Sessions belong
to one call, a lock to one session, a dead session holds nothing; without a failed
unlock every lock that is held is the lock of a call that holds it. With a pool of one a
job waits for itself. The property leaves out calls that go on with a lost session
because there it is false, in instances larger than the run's: once the database has
ended the session of one run of a job, the next tick takes the lock beside it, and runs
that pile up so can use up an instance's pool. That a lock is never held more often, and
no sequence number goes further, than there are calls (`CallsBound`) is a count of sets:
a call locks once and sends once, and what it left behind goes on counting after it.

For `Screening`: `ScreeningTypeCorrect`, `EmployerNeverClears`
(`EmployerClearsNoFlag`). A decision that is an employer's approval was read from a
row that was not flagged (`ApprovesClear`), and no flag can come in between since the
decision holds the row's lock; a record that was decided on or flagged is somebody's
(`OfSomebody`). `LockedListIsWhole` (`LockedSpec => []WholeList`): a refresh that is
alone has filled the batch it makes the list and deletes another one (`LockedIInv`),
which is the argument that fails for the admin's route (finding 6).

For `MCJobs`: `JobsTypeCorrect` (`[]TypeOK`), the types of its four parts in one
behaviour, since a step of one leaves the others alone (`StepOfEach`).

**`ComplianceProofs`**

For `EscrowAdmin`: `OfferCorrect` (`[]OfferStands`), `HandOverCorrect` (`HandedOver`).
The strengthening is `KeptUntilDeadline`: the entry's own time to live reaches the
deadline of its proposal. That is what rests on `set` keeping the old time to live and
`extend_ttl` only lengthening (`EntryReachesDeadline`); without it an offer could be
deleted early and `OfferStands` is not inductive. `AdminTypeCorrect` is part of it.

For `Clearance`: `ClearanceEndsInTime` (`[]StaleClearanceExpires`), `BlockedStaysPut`
(`BlockedMovesNothing`). The history agrees with the record, and a flag comes with a
rejection, which is why a payout may look at the status alone; every expiry on chain,
in flight or about to be set is within `Patience + Ttl` of a moment the worker was
eligible; a request with a good verdict was given it while the worker was eligible, so
it is not blocked. `ClearanceTypeCorrect` (`[]ClearanceTypeOK`) adds the bounds of the
clock; it is inductive by itself.

For `Names`, for texts of every length and every tolerance: `MatchCorrect`
(`[]MatchIsExact`), `NamesTypeCorrect`. Induction is used through a set of numbers
(lemma `Numbers`), since the library's form takes an operator. First the recursion of
the reference has a table, built diagonal by diagonal. In it neighbours differ by one at
most, so that the least of three is the entry when the letters agree; an entry is at
least the difference of the lengths, which justifies the early answer; and a row whose
entries are all above the tolerance stays above it, which justifies giving up. The
invariant says that the row at hand is the table's (`RowIsRight`) and an answer given is
right (`Answered`). For the words left over, taking one out of a list removes one
occurrence of it and no other, so words are left exactly when one is there more often
than listed.

**`UserServiceProofs`**

For `Company`: `OwnerStays` (`OwnerKeepsCompany`), `InviteUsedOnce`
(`[]UsedUpMeansJoined`). An owner was there before any member and is active; what a
request has read of an invite or a member still holds as far as its write depends on
it; the lock on an invite's row is one request's. `CompanyTypeCorrect`
(`[]CompanyTypeOK`) needs a count besides: a token is no higher than the requests that
came and are not still about to write one (`TokensBound`), so none is renewed more
often than there were requests.

For `Sessions`: `SignInCanLast` (`[]SignInLasts`), for any number of browsers and
handlers. A token that a browser or its request carries was issued to it
(`TokensAreOwn`); the stored counter is not ahead of the authenticator's, nor is what a
handler is about to store, unless the passkey was replaced in between (`CountersFit`);
and a browser whose requests did not overlap has one request, and a cookie that stands
for its only token unless a request is about to make another (`CookieFits`).
`SessionsTypeCorrect` (`[]SessionsTypeOK`) counts again: the tokens made and the
handlers at work are no more than the requests that came (`VisitsBound`), and no counter
leaves its bounds (`CountsBound`).

**`ServicesProofs`**

- `ShownOnceAndRight` (`[]PaidAsShown`), for `PayClient` and any number of payments,
  requests, double clicks, rates and keys, with the two exceptions that the property
  names (`lapsed`, `raced`).
- `ServicesTypeCorrect` (`AllSpec => []AllTypeOK`): the types of the six parts of
  `MCServices` in one behaviour.

The form's payment is held together by its key. A payment is made under a key, or may
still be (`Pays`), when its money has moved or its transaction may land, or when a
request is on its way that the key will not refuse (`Sends`); of the keys of one payment
only one is like that (`OneIsAlive`). What keeps it so is that a payment that was not
shown as sent and is no exception is made under no other key than the one the page holds
(`DroppedIsOver`), and that what was shown as sent has left the form (`SentLeavesForm`).
What is shown as paid was paid for that worker and sum, in every case (`ShownIsPaid`). On
the service's side a request at work is alone on its
key, which is open (`WorkIsOpen`), and what the table says of a key is what its money
has done and may still do (`KeysAreBooked`).

**`ScheduleProofs`**, for any number of instances, any calendar and any zones

- `TypeCorrect` (`[]ScheduleTypeOK`).
- `PaidOnceUndisturbed` (`[]UndisturbedPaidOnce`) and `CadenceHolds` (`Cadence`).

The `NextRun` lemmas say of each frequency what day it gives, that it is after the
hour it is asked at when the zone is in step, and which day follows which. That the zone
of the schedule is in step is in the properties: beyond it they are false (finding 5). One
instance is at work at a time (`OneAtWork`), on a run that was due when it began
(`WorksOnDue`); what was paid lies before the next run (`Settled`), and the run at
hand has not been paid unless something disturbed it (`NotYetPaid`).

**Only model-checked.** All liveness properties, since they rest on fairness and
ENABLED: `ContractSettles`, `ActiveRowsConverge`, `ClaimsAreBooked`,
`EveryRowSettles`, `DueIsRun`, `BatchSettles`, `AcknowledgedSettles`, `AllGivenBack`,
`ListedIsFlagged`. Every safety and every action property that a passing run checks is
a theorem.

## 6. Findings

Seven statements of the repository do not hold of the code; each has a run.

1. **A payment that landed can be recorded as failed and paid again**
   (`payout_lost_write`). The UPDATE that records *completed*
   (`services/payment-service/src/app.ts:423`) is inside the try block whose catch
   writes *failed* for every error other than an unknown outcome.
2. **A slow request can be paid beside its own retry** (`payout_slow`). The watchdog
   writes *failed* over a row of five minutes that is not on chain (`scheduler.ts:185`),
   and "a transaction not on chain by now never will be" (`:167-168`). But `updated_at` is
   written when the request begins and at its end, and what lies in between may take
   longer: the trustline's check (30 s), its transaction under the lock (10 + 60 + 30 + 30
   + 60 s) and the payment up to its submission (10 + 60 + 30 + 30 + 30 s) add up to
   380 s by the timeouts of `lib/stellar.ts`, `locks.ts` and `postgres.ts`. The slow
   request then submits under a row that is *failed*, or that a retry has taken.
3. **A cash-out can be paid twice** (`cashout_twice`).
   `routes/cashouts.ts:140` treats an unknown outcome as a failure, and a failed
   row without a settlement hash may be taken again while MoneyGram still waits.
4. **A schedule's run is paid again after a crash** (`schedule_retry`). The batch's
   key is made of `last_run_at`, which every claim sets anew
   (`scheduler.ts:48`), so the retry's key is never the first one's.
5. **Far enough west every run is paid twice** (`schedule_west`). The day is found on the
   enterprise's calendar (`lib/scheduling.ts:31`), nine o'clock is set on the server's
   clock (`:49`). Ten or eleven hours behind it, 09:00 UTC is the evening of the day
   before, and the next run asked for at that hour is the present instant: what was just
   paid is due again at the next tick. `routes/schedules.ts:97,121` accept any zone.
6. **Two refreshes at once empty the stored sanctions list** (`sanctions_list`).
   `POST /sanctions/refresh` takes no lock; one refresh deletes every batch but its
   own (`services/compliance-service/src/sanctions/service.ts:71`), the other then
   makes its deleted batch the list. An instance that starts before the next refresh
   screens with an empty stored list, though "readers never see a half-written list"
   (`service.ts:47`).
7. **A double click can pay twice** (`client_twice`). Both requests carry the same key
   (`Payments.tsx:40-43`); when the first one's payment fails its answer drops the key
   (`:149`) though the second has not come in. That one takes the failed row up again,
   a new click has a new key, and both payments land. The same happens with a request the
   page has given up on that reaches the lookup late. `app.ts:241-242` has the key "let a
   replayed request (double-click, client retry) short-circuit".

Met while modelling, without a run of their own:

- An escrow funded on chain whose INSERT is lost (`routes/escrows.ts:258`) is
  never found: the reconciler starts from rows (`lib/escrowReconcile.ts:128`), though
  it is there for "a crash, a restart or a failed write between the two" (`:6`).
- `refund` marks what the database holds for pending, not what the chain does
  (`routes/escrows.ts:626`): a tranche approved on chain whose write was lost is
  shown as refunded, and stays so once its row is final, for the reconciler only reads
  rows that are active. The escrow can then be active on chain and final in the database.
- A late approve write (`routes/escrows.ts:329`) or a repair from an old reading
  (`lib/escrowReconcile.ts:99`) can set a milestone back until the next pass.
- A batch in which every worker was paid with a claimable balance and one item
  failed is recorded *failed* by the request, *partial* by the watchdog
  (`app.ts:701`, `scheduler.ts:259`).
- The heartbeat is left only after an item (`app.ts:690`): the batch of a
  request that takes very long over one can be ruled on while it lives.
- A cash-out whose process stops between payment and UPDATE
  (`routes/cashouts.ts:147`) never completes: only rows with a settlement hash
  are swept. MoneyGram's refund after it had acknowledged a payment is not
  copied either (`lib/rampsSync.ts:84`).
- A batch that takes longer than its HTTP timeout is recorded as *failed* in the
  schedule while it goes on paying (`scheduler.ts:135`).
- A schedule whose items could not be inserted (`routes/schedules.ts:143`) stays active
  and runs as *failed* for ever.
- A recovery link goes to the address in lower case (`user-service/src/index.ts:1542`),
  while a registration stores it as it was typed (`:468`): a user who registered with
  capitals is sent none.
- A retry of an unanswered payment in local currency, after the rate has moved,
  is another payload (the hash covers the converted amount, `app.ts:194`) and is
  refused with 422. isFinalPayoutError (`apps/enterprise-dashboard/src/api/payments.ts:108`)
  takes every 4xx but 409 for the end of the payment, so the key is dropped and the
  next click can pay again, against the comment at `payments.ts:101-103`. A 429, 401
  or 403 does the same. In the model these are the forms in `lapsed`.
- A 202 *submitted* drops the form's key, though `app.ts:521` says the client keeps it.
- A worker's invite is marked accepted (`user-service/src/index.ts:190`) before the
  link is made: a process that stops in between leaves it used up for nothing. These
  are the rows in `unfinished`.
- Two concurrent `POST /invites` for one worker leave two links that work
  (`user-service/src/index.ts:1095`), against the comment above it.
- A notification that cannot be inserted inside the accept's transaction
  (`user-service/src/index.ts:293`) is caught, but Postgres has aborted the
  transaction: the answer is *accepted*, the COMMIT is a rollback.
- The counter of a sign-in is written to whichever passkey the user has by then
  (`user-service/src/index.ts:697`): a passkey replaced in the middle of it may be
  unusable until its authenticator has counted up. `PasskeyWorks` excepts it.
- A schedule that is paused or deleted after the job has read its items
  (`scheduler.ts:72`) is still paid once more.
- `services/compliance-service/src/sealExisting.ts:8` selects rows and writes them
  back by id at boot, without a lock, "safe to run on every boot": a submission that
  another instance has taken in between is overwritten with the older one's data.
- An employer's reject (`routes/escrows.ts:432`) asks only that the milestone is
  submitted, so it can hit a resubmission nobody has read.

## 7. Not modelled, and what comes next

Not modelled, and why:

- **External-signature payouts** (`POST /payouts/submit-signature`): no route creates
  a *pending_signature* row, so the handler refuses in every state the program reaches.
- **Review trail of milestones** (submit and reject): both leave the milestone pending,
  and what they write is read by people only.
- **Smart wallet contract**: a one-shot init and a signature check in one call each,
  with nothing to interleave; the services no longer deploy it.
- **Balance cache and FX rates**: stale figures by design. What a moving rate does to
  a retry is in `PayClient`.
- **Rails, company context, audit, notifications, on-chain verification**: adapters,
  lookups, append-only records and alerts.
- **Gateway, analytics, shared packages**: stateless routing and limits, read-only
  aggregates, pure helpers. The gateway's refusals and timeouts are answers in
  `PayClient`.
- **The apps' other pages**: forms, tables, exports and settings are presentation.
  They are about half of the implementation's lines and the main reason why much of
  it has no counterpart here. Of what changes state through them the services are
  modelled.
- **Contract `upgrade`, migrations, infrastructure, CI**: they replace or deploy the
  code.
- Of modelled parts: e-mails, profile fields, listings and documents of the user and
  compliance services; stored attestations and events of the contract.

What comes next, by how much money hangs on it: a run in which `Screening` and
`Clearance` share the record, so that the time from a publication to the last payment
is one property; `PayClient` over the steps of `Payout` itself, where now it relies on
the promise that `Payout` is shown to keep; `Cashout` in the place of `Payout` behind a
worker's page, now that it keeps the same promise; an escrow whose INSERT is lost and a
refund's marks (section 6) as runs of their own.
