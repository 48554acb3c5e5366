---------------------------- MODULE EscrowAdmin -----------------------------
(***************************************************************************)
(* The administration of the escrow contract (contracts/escrow/src/lib.rs):*)
(* the admin names the compliance authority and hands its own role over in *)
(* two steps.  A proposal is kept in temporary storage, whose entries the  *)
(* ledger deletes when their time to live is over, without the contract    *)
(* running.                                                                *)
(***************************************************************************)
EXTENDS Integers

CONSTANTS
  Addresses,  \* accounts and contracts that can hold a role
  MinTtl,     \* ledgers a temporary entry lives at least when it is created
  MaxTtl,     \* env.storage().max_ttl()
  MaxSeq      \* bound on the ledger sequence numbers of a behaviour

ASSUME AdminAssumption ==
  /\ MinTtl \in Nat \ {0} /\ MaxTtl \in Nat /\ MaxSeq \in Nat
  /\ MinTtl <= MaxTtl

VARIABLES
  seq,         \* env.ledger().sequence()
  admin,       \* DataKey::Admin
  compliance,  \* DataKey::Compliance
  pending,     \* DataKey::PendingAdmin
  lives,       \* the last ledger in which the ledger keeps that entry
  offer        \* history: the proposal an outsider saw made and not withdrawn

vars == <<seq, admin, compliance, pending, lives, offer>>

None     == [address |-> "none"]
Proposal == [address : Addresses, until : 0..(MaxSeq + MaxTtl)]

TypeOK ==
  /\ seq \in 0..MaxSeq
  /\ admin \in Addresses /\ compliance \in Addresses
  /\ pending \in Proposal \cup {None}
  /\ offer \in Proposal \cup {None}
  /\ lives \in 0..(MaxSeq + MaxTtl)

Init ==
  /\ seq = 0
  /\ admin \in Addresses /\ compliance \in Addresses
  /\ pending = None /\ offer = None /\ lives = 0

-----------------------------------------------------------------------------

SetCompliance(a) ==
  /\ compliance' = a
  /\ UNCHANGED <<seq, admin, pending, lives, offer>>

\* temporary().set: an entry that is there keeps its time to live.
EntryAfterSet == IF pending = None THEN seq + MinTtl - 1 ELSE lives

\* Faulty: the entry is left with the time to live it has.
NotExtended(ttl) == EntryAfterSet

\* Faulty: the time asked for is added to what is left.
ExtendedBy(ttl) == EntryAfterSet + ttl

\* extend_ttl(key, ttl, ttl): only ever longer.
Extended(ttl) ==
  IF EntryAfterSet - seq < ttl THEN seq + ttl ELSE EntryAfterSet

Propose(a, until) ==
  /\ until > seq
  /\ until - seq <= MaxTtl
  /\ pending' = [address |-> a, until |-> until]
  /\ lives' = Extended(until - seq)
  /\ offer' = [address |-> a, until |-> until]
  /\ UNCHANGED <<seq, admin, compliance>>

\* propose_admin with live_until_ledger = 0.
Cancel ==
  /\ pending # None
  /\ pending' = None
  /\ offer' = None
  /\ UNCHANGED <<seq, admin, compliance, lives>>

\* Faulty: only the entry's presence is looked at.
AcceptAnyTime ==
  /\ pending # None
  /\ admin' = pending.address
  /\ pending' = None
  /\ offer' = None
  /\ UNCHANGED <<seq, compliance, lives>>

\* The proposed address signs.
Acceptable == pending # None /\ seq <= pending.until

Accept ==
  /\ Acceptable
  /\ admin' = pending.address
  /\ pending' = None
  /\ offer' = None
  /\ UNCHANGED <<seq, compliance, lives>>

\* A ledger closes; an entry whose time is over is gone.
CloseLedger ==
  /\ seq < MaxSeq
  /\ seq' = seq + 1
  /\ pending' = IF pending # None /\ lives < seq' THEN None ELSE pending
  /\ offer' = IF offer # None /\ offer.until < seq' THEN None ELSE offer
  /\ UNCHANGED <<admin, compliance, lives>>

Next ==
  \/ \E a \in Addresses : SetCompliance(a)
  \/ \E a \in Addresses, until \in 0..(MaxSeq + MaxTtl) : Propose(a, until)
  \/ Cancel \/ Accept \/ CloseLedger

Spec == Init /\ [][Next]_vars

-----------------------------------------------------------------------------
(* Properties. *)

\* A proposal can be accepted exactly as long as the admin said and has not
\* withdrawn it, whatever the ledger does with the entry: it neither vanishes
\* early nor outlives its deadline, its replacement, its cancellation or its
\* acceptance (propose_admin, accept_admin, get_pending_admin).
OfferStands ==
  /\ (offer # None) <=> Acceptable
  /\ offer # None => offer = pending

\* The role passes only to an address the acting admin has an offer out to, and
\* an offer serves once.
HandedOver ==
  [][admin' # admin => /\ offer # None /\ admin' = offer.address
                       /\ offer' = None /\ ~Acceptable']_vars

=============================================================================
