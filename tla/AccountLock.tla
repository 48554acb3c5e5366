----------------------------- MODULE AccountLock -----------------------------
(***************************************************************************)
(* Cluster-wide locks (packages/database/src/locks.ts) and what they are   *)
(* for: transactions from one Stellar account, each with the account's     *)
(* next sequence number, go out one after the other (lib/stellar.ts,       *)
(* lib/escrow.ts), and a scheduled job runs on one instance at a time      *)
(* (scheduler.ts).  A lock belongs to a database session, which is a       *)
(* connection of the instance's pool; the holder may need another one.     *)
(***************************************************************************)
EXTENDS Integers, FiniteSets

CONSTANTS
  Calls,     \* withAdvisoryLock for the account, tryWithAdvisoryLock for a job
  Jobs,      \* those of them that are runs of the job
  Home,      \* Home[c]: the instance the call is made on
  PoolSize,  \* the pool's max, of every instance
  MaxFaults  \* bound on the faults of a behaviour

ASSUME LockAssumption ==
  /\ Jobs \subseteq Calls /\ IsFiniteSet(Calls)
  /\ PoolSize \in Nat \ {0} /\ MaxFaults \in Nat

Instances == {Home[c] : c \in Calls}
Sessions  == Instances \X (1..PoolSize)
Locks     == {"account", "job"}
LockOf(c) == IF c \in Jobs THEN "job" ELSE "account"
NoSession == <<>>

VARIABLES
  call,      \* call[c]: where the call is, its session, the account it loaded
  held,      \* held[s][l]: how often session s holds lock l (they are re-entrant)
  dead,      \* the sessions the database has ended and the pool not yet noticed
  sequence,  \* the account's sequence number on the ledger
  floating,  \* sequence numbers of transactions without a verdict
  refused,   \* history: a transaction came with a sequence number already used
  faults     \* how many faults there were, and the kinds

lockVars == <<call, held, dead, sequence, floating, refused, faults>>

Stages == {"idle", "connect", "lock", "load", "submit", "query", "unlock", "ended"}
Faults == {"session", "unlock", "verdict", "crash"}
Numbers == 0..Cardinality(Calls)

LockTypeOK ==
  /\ call \in [Calls -> [pc : Stages, session : Sessions \cup {NoSession}, at : Numbers]]
  /\ held \in [Sessions -> [Locks -> Numbers]]
  /\ dead \subseteq Sessions
  /\ sequence \in Numbers /\ floating \subseteq Numbers
  /\ refused \in BOOLEAN
  /\ faults \in [count : 0..MaxFaults, kinds : SUBSET Faults]

LockInit ==
  /\ call = [c \in Calls |-> [pc |-> "idle", session |-> NoSession, at |-> 0]]
  /\ held = [s \in Sessions |-> [l \in Locks |-> 0]]
  /\ dead = {} /\ sequence = 0 /\ floating = {}
  /\ refused = FALSE
  /\ faults = [count |-> 0, kinds |-> {}]

-----------------------------------------------------------------------------
(* The pool. *)

InUse(s) == \E c \in Calls : call[c].session = s
Idle(i)  == {s \in {i} \X (1..PoolSize) : ~InUse(s)}

NoLocks == [l \in Locks |-> 0]

Enter(c, pc) == call' = [call EXCEPT ![c].pc = pc]

Begin(c) ==
  /\ call[c].pc = "idle"
  /\ Enter(c, "connect")
  /\ UNCHANGED <<held, dead, sequence, floating, refused, faults>>

\* connect() gives an idle connection or a new one.
Connect(c) ==
  /\ call[c].pc = "connect"
  /\ \E s \in Idle(Home[c]) :
        call' = [call EXCEPT ![c].pc = "lock", ![c].session = s]
  /\ UNCHANGED <<held, dead, sequence, floating, refused, faults>>

\* connectionTimeoutMillis.
ConnectTimeout(c) ==
  /\ call[c].pc = "connect" /\ Idle(Home[c]) = {}
  /\ Enter(c, "ended")
  /\ UNCHANGED <<held, dead, sequence, floating, refused, faults>>

\* client.release(): the pool drops a connection that is broken.
Release(c) ==
  /\ call' = [call EXCEPT ![c].pc = "ended", ![c].session = NoSession]
  /\ dead' = dead \ {call[c].session}

\* idleTimeoutMillis: the pool closes the connection, and its locks go with it.
IdleOut(s) ==
  /\ ~InUse(s) /\ held[s] # NoLocks
  /\ held' = [held EXCEPT ![s] = NoLocks]
  /\ UNCHANGED <<call, dead, sequence, floating, refused, faults>>

-----------------------------------------------------------------------------
(* The lock. *)

\* Faulty: a lock among the calls of one process.
FreeInProcess(c) ==
  \A s \in Sessions \ {call[c].session} :
    s[1] = Home[c] => held[s][LockOf(c)] = 0

Free(c) == \A s \in Sessions \ {call[c].session} : held[s][LockOf(c)] = 0

\* pg_advisory_lock and pg_try_advisory_lock, when no other session has it.
Lock(c) ==
  /\ call[c].pc = "lock" /\ call[c].session \notin dead /\ Free(c)
  /\ held' = [held EXCEPT ![call[c].session][LockOf(c)] = @ + 1]
  /\ Enter(c, IF c \in Jobs THEN "query" ELSE "load")
  /\ UNCHANGED <<dead, sequence, floating, refused, faults>>

\* Faulty: a job that is not run keeps its connection.
NotLockedKept(c) ==
  /\ call[c].pc = "lock"
  /\ call[c].session \in dead \/ ~Free(c)
  /\ Enter(c, "ended")
  /\ UNCHANGED <<held, dead, sequence, floating, refused, faults>>

\* lock_timeout is over; the job is skipped; or the query finds the session gone.
NotLocked(c) ==
  /\ call[c].pc = "lock"
  /\ call[c].session \in dead \/ ~Free(c)
  /\ Release(c)
  /\ UNCHANGED <<held, sequence, floating, refused, faults>>

Fault(kind) ==
  /\ faults.count < MaxFaults
  /\ faults' = [count |-> faults.count + 1, kinds |-> faults.kinds \cup {kind}]

\* pg_advisory_unlock; in a dead session there is nothing left to unlock.
Unlock(c) ==
  /\ call[c].pc = "unlock"
  /\ held' = IF call[c].session \in dead THEN held
             ELSE [held EXCEPT ![call[c].session][LockOf(c)] =
                               IF @ > 0 THEN @ - 1 ELSE 0]
  /\ Release(c)
  /\ UNCHANGED <<sequence, floating, refused, faults>>

\* The statement fails, which is logged, and the connection is released as it is.
UnlockFails(c) ==
  /\ call[c].pc = "unlock" /\ call[c].session \notin dead
  /\ Fault("unlock")
  /\ Release(c)
  /\ UNCHANGED <<held, sequence, floating, refused>>

\* The database ends a session; the call goes on and does not know.
LoseSession(s) ==
  /\ InUse(s) /\ s \notin dead
  /\ Fault("session")
  /\ dead' = dead \cup {s}
  /\ held' = [held EXCEPT ![s] = NoLocks]
  /\ UNCHANGED <<call, sequence, floating, refused>>

\* An instance goes down, and its sessions with it; what it has submitted lands.
Crash(i) ==
  /\ Fault("crash")
  /\ call' = [c \in Calls |-> IF Home[c] = i /\ call[c].pc # "idle"
                              THEN [pc |-> "ended", session |-> NoSession, at |-> 0]
                              ELSE call[c]]
  /\ held' = [s \in Sessions |-> IF s[1] = i THEN NoLocks ELSE held[s]]
  /\ dead' = {s \in dead : s[1] # i}
  /\ floating' = floating \cup {call[c].at + 1 : c \in
                   {d \in Calls : Home[d] = i /\ call[d].pc = "submit"}}
  /\ UNCHANGED <<sequence, refused>>

-----------------------------------------------------------------------------
(* What runs under the lock. *)

\* loadAccount, getAccount.
Load(c) ==
  /\ call[c].pc = "load"
  /\ call' = [call EXCEPT ![c].pc = "submit", ![c].at = sequence]
  /\ UNCHANGED <<held, dead, sequence, floating, refused, faults>>

\* Faulty: the payment is booked while its lock is held.
BookedFirst == "query"

\* The payments query nothing under their lock.
AfterSubmit == "unlock"

\* The ledger takes the account's next sequence number and no other.
Submit(c) ==
  /\ call[c].pc = "submit"
  /\ IF call[c].at = sequence THEN sequence' = sequence + 1 /\ UNCHANGED refused
     ELSE refused' = TRUE /\ UNCHANGED sequence
  /\ Enter(c, AfterSubmit)
  /\ UNCHANGED <<held, dead, floating, faults>>

\* No path, no such account, a simulation that fails: nothing is submitted.
GiveUp(c) ==
  /\ call[c].pc \in {"load", "submit"}
  /\ Enter(c, "unlock")
  /\ UNCHANGED <<held, dead, sequence, floating, refused, faults>>

\* SubmitOutcomeUnknownError, a poll that ends without a result.
NoVerdict(c) ==
  /\ call[c].pc = "submit"
  /\ Fault("verdict")
  /\ floating' = floating \cup {call[c].at + 1}
  /\ Enter(c, "unlock")
  /\ UNCHANGED <<held, dead, sequence, refused>>

\* Such a transaction lands, or its time bound passes.
Settle(n) ==
  /\ n \in floating
  /\ floating' = floating \ {n}
  /\ \/ n = sequence + 1 /\ sequence' = n
     \/ UNCHANGED sequence
  /\ UNCHANGED <<call, held, dead, refused, faults>>

\* A job's query takes a connection from the pool and gives it back.
Query(c) ==
  /\ call[c].pc = "query"
  /\ Idle(Home[c]) # {}
  /\ Enter(c, "unlock")
  /\ UNCHANGED <<held, dead, sequence, floating, refused, faults>>

QueryTimeout(c) ==
  /\ call[c].pc = "query"
  /\ Idle(Home[c]) = {}
  /\ Enter(c, "unlock")
  /\ UNCHANGED <<held, dead, sequence, floating, refused, faults>>

-----------------------------------------------------------------------------

Moves(c) ==
  \/ Connect(c) \/ ConnectTimeout(c) \/ Lock(c) \/ NotLocked(c)
  \/ Load(c) \/ Submit(c) \/ Query(c) \/ QueryTimeout(c) \/ Unlock(c)

LockNext ==
  \/ \E c \in Calls : Begin(c) \/ Moves(c) \/ GiveUp(c) \/ NoVerdict(c) \/ UnlockFails(c)
  \/ \E s \in Sessions : IdleOut(s) \/ LoseSession(s)
  \/ \E i \in Instances : Crash(i)
  \/ \E n \in floating : Settle(n)

\* Every wait of a call has a timeout, and so has an idle connection.
LockFairness ==
  /\ \A c \in Calls : WF_lockVars(Moves(c))
  /\ \A s \in Sessions : WF_lockVars(IdleOut(s))

LockSpec == LockInit /\ [][LockNext]_lockVars /\ LockFairness

-----------------------------------------------------------------------------
(* Properties. *)

\* No transaction is refused for its sequence number (the comment at
\* stellar.ts:87) unless one was left without a verdict before, or went on
\* without its lock or its process.  A lock that was not released never does it.
NoCollision ==
  refused => faults.kinds \cap {"session", "verdict", "crash"} # {}

\* Nobody runs into a timeout because everyone waits for everyone: while there
\* are calls, one of them has what it needs, unless an unlock failed or one of them goes
\* on with a lost session (who holds the job's lock needs a second connection, who waits
\* for a lock has one; without its lock a run of the job goes on beside the next one).
Waits(c) ==
  \/ call[c].pc \in {"connect", "query"} /\ Idle(Home[c]) = {}
  \/ call[c].pc = "lock" /\ ~Free(c) /\ c \notin Jobs

NotEveryoneWaits ==
  LET active == {c \in Calls : call[c].pc \notin {"idle", "ended"}}
  IN  (active # {} /\ dead = {} /\ \A c \in active : Waits(c))
        => "unlock" \in faults.kinds

\* Whatever fails, in the end every call that was made has ended and left neither
\* a lock nor a connection behind: a lock that could not be released ends with its idle
\* connection.
AllGivenBack ==
  <>[](/\ \A c \in Calls : call[c].pc \in {"idle", "ended"} /\ call[c].session = NoSession
       /\ \A s \in Sessions : held[s] = NoLocks)
=============================================================================
