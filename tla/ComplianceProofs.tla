-------------------------- MODULE ComplianceProofs --------------------------
(***************************************************************************)
(* Proofs about EscrowAdmin, for every set of addresses and all times to   *)
(* live the ledger may have; about Clearance, for any number of requests,  *)
(* calls in flight and reviews and all lives of approvals and clearances;  *)
(* and about Names, for texts of every length: who may clear workers on    *)
(* chain, how long a clearance lasts there, that a blocked worker's money  *)
(* does not move, and that two names are found to be as far apart as they  *)
(* are.                                                                    *)
(***************************************************************************)
EXTENDS EscrowAdmin, Clearance, Names, FiniteSetTheorems, SequenceTheorems,
        WellFoundedInduction, TLAPS

-----------------------------------------------------------------------------
(* EscrowAdmin. *)

\* What a proposal's place in temporary storage must be for OfferStands: it
\* is kept at least until its deadline, the last ledger that accepts it.
KeptUntilDeadline == pending # None => pending.until <= lives

AdminIInv == TypeOK /\ KeptUntilDeadline /\ OfferStands

\* A proposal is not the absence of one.
LEMMA ProposalIsSome == \A p \in Proposal : p # None
<1>1. \A p \in Proposal : DOMAIN p = {"address", "until"}
  BY DEF Proposal
<1>2. DOMAIN None = {"address"} /\ "until" \notin {"address"}
  BY DEF None
<1> QED
  BY <1>1, <1>2

\* propose_admin's calls of set and extend_ttl keep the entry until the deadline,
\* never further than the ledger allows (lib.rs:339-346).
LEMMA EntryReachesDeadline ==
  ASSUME AdminAssumption, TypeOK,
         NEW until \in Nat, until > seq, until - seq <= MaxTtl
  PROVE  /\ Extended(until - seq) \in 0..(MaxSeq + MaxTtl)
         /\ until <= Extended(until - seq)
         /\ until \in 0..(MaxSeq + MaxTtl)
  BY DEF AdminAssumption, TypeOK, Extended, EntryAfterSet

\* The initial states satisfy the invariant.
LEMMA AdminStarts == AdminAssumption /\ Init => AdminIInv
<1> SUFFICES ASSUME AdminAssumption, Init PROVE AdminIInv
  OBVIOUS
<1>1. TypeOK
  BY DEF AdminAssumption, Init, TypeOK
<1> QED
  BY <1>1 DEF Init, AdminIInv, KeptUntilDeadline, OfferStands, Acceptable

\* Every call and every closing ledger preserves the invariant.
LEMMA AdminKeeps == AdminAssumption /\ AdminIInv /\ [Next]_vars => AdminIInv'
<1> SUFFICES ASSUME AdminAssumption, AdminIInv, [Next]_vars PROVE AdminIInv'
  OBVIOUS
<1> USE DEF AdminIInv
<1>1. ASSUME NEW a \in Addresses, SetCompliance(a) PROVE AdminIInv'
  BY <1>1 DEF SetCompliance, TypeOK, KeptUntilDeadline, OfferStands, Acceptable
<1>2. ASSUME NEW a \in Addresses, NEW until \in 0..(MaxSeq + MaxTtl), Propose(a, until)
      PROVE  AdminIInv'
  <2>1. until \in Nat /\ until > seq /\ until - seq <= MaxTtl /\ seq \in Nat
    BY <1>2 DEF Propose, AdminAssumption, TypeOK
  <2>2. pending' \in Proposal /\ pending' # None /\ pending'.until = until
    BY <1>2, ProposalIsSome DEF Propose, Proposal
  <2>3. offer' = pending' /\ UNCHANGED <<seq, admin, compliance>>
        /\ lives' = Extended(until - seq)
    BY <1>2 DEF Propose
  <2>4. TypeOK'
    BY <2>1, <2>2, <2>3, EntryReachesDeadline DEF TypeOK
  <2>5. KeptUntilDeadline'
    BY <2>1, <2>2, <2>3, EntryReachesDeadline DEF KeptUntilDeadline
  <2>6. OfferStands'
    BY <2>1, <2>2, <2>3 DEF OfferStands, Acceptable
  <2> QED
    BY <2>4, <2>5, <2>6
<1>3. ASSUME Cancel PROVE AdminIInv'
  BY <1>3 DEF Cancel, TypeOK, KeptUntilDeadline, OfferStands, Acceptable
<1>4. ASSUME Accept PROVE AdminIInv'
  <2>1. pending \in Proposal
    BY <1>4 DEF Accept, Acceptable, TypeOK
  <2>2. pending.address \in Addresses
    BY <2>1 DEF Proposal
  <2> QED
    BY <1>4, <2>2 DEF Accept, TypeOK, KeptUntilDeadline, OfferStands, Acceptable
<1>5. ASSUME CloseLedger PROVE AdminIInv'
  <2>1. TypeOK'
    BY <1>5 DEF CloseLedger, TypeOK, AdminAssumption
  <2>2. KeptUntilDeadline'
    BY <1>5 DEF CloseLedger, KeptUntilDeadline
  <2>3. OfferStands'
    <3>1. seq \in Nat /\ seq' = seq + 1 /\ lives \in Nat
      BY <1>5 DEF CloseLedger, TypeOK, AdminAssumption
    <3>2. CASE pending = None
      BY <1>5, <3>2 DEF CloseLedger, OfferStands, Acceptable
    <3>3. CASE pending # None
      <4>1. pending.until \in Nat
        BY <3>3 DEF TypeOK, Proposal, AdminAssumption
      <4>2. CASE offer = None
        BY <1>5, <3>1, <3>3, <4>1, <4>2 DEF CloseLedger, OfferStands, Acceptable
      <4>3. CASE offer # None
        BY <1>5, <3>1, <3>3, <4>1, <4>3
           DEF CloseLedger, OfferStands, Acceptable, KeptUntilDeadline
      <4> QED
        BY <4>2, <4>3
    <3> QED
      BY <3>2, <3>3
  <2> QED
    BY <2>1, <2>2, <2>3
<1>6. ASSUME UNCHANGED vars PROVE AdminIInv'
  BY <1>6 DEF vars, TypeOK, KeptUntilDeadline, OfferStands, Acceptable
<1> QED
  BY <1>1, <1>2, <1>3, <1>4, <1>5, <1>6 DEF Next

\* The inductive invariant holds in every reachable state.
THEOREM AdminInvariant == Spec => []AdminIInv
<1>1. Init => AdminIInv
  BY AdminAssumption, AdminStarts
<1>2. AdminIInv /\ [Next]_vars => AdminIInv'
  BY AdminAssumption, AdminKeeps
<1> QED
  BY <1>1, <1>2, PTL DEF Spec

\* A proposal of the admin can be accepted exactly until its deadline, its
\* replacement, its withdrawal or its acceptance, for all times to live.
THEOREM OfferCorrect == Spec => []OfferStands
<1>1. AdminIInv => OfferStands
  BY DEF AdminIInv
<1> QED
  BY <1>1, AdminInvariant, PTL

\* The admin's role only ever passes to an address with a standing offer, which
\* is used up by it.
THEOREM HandOverCorrect == Spec => HandedOver
<1>1. ASSUME AdminIInv, [Next]_vars
      PROVE  [admin' # admin => /\ offer # None /\ admin' = offer.address
                                /\ offer' = None /\ ~Acceptable']_vars
  <2>1. CASE Accept
    BY <1>1, <2>1 DEF AdminIInv, OfferStands, Accept, Acceptable, vars
  <2>2. CASE ~Accept
    BY <1>1, <2>2 DEF Next, SetCompliance, Propose, Cancel, CloseLedger, vars
  <2> QED
    BY <2>1, <2>2
<1> QED
  BY <1>1, AdminInvariant, PTL DEF Spec, HandedOver

\* The admin's proposal and the ledger keep their types.
THEOREM AdminTypeCorrect == Spec => []TypeOK
<1>1. AdminIInv => TypeOK
  BY DEF AdminIInv
<1> QED
  BY <1>1, AdminInvariant, PTL

-----------------------------------------------------------------------------
(* Clearance. *)

Record == [status : {"none", "pending", "approved", "rejected"},
           flag : {"clear", "flagged"}, until : Nat]
Gate   == [kind : Kinds, pc : {"idle", "verdict", "chain", "set", "revoke", "move"},
           eligible : BOOLEAN, asked : Nat, until : Nat]

ClearanceTypes ==
  /\ now \in Nat /\ kyc \in Record /\ cleared \in Nat
  /\ \A e \in inFlight : e \in Nat
  /\ gate \in [Requests -> Gate]
  /\ lastEligible \in Int

\* The history of the worker agrees with the record, and a flag rejects it.
HistoryMatches ==
  /\ lastEligible <= now
  /\ Eligible(kyc, now) => lastEligible = now
  /\ kyc.status \in {"none", "approved"} => kyc.flag = "clear"

\* An expiry that is no later than the promise allows.
Covered(e) == e > 0 => lastEligible >= 0 /\ e <= lastEligible + Patience + Ttl

\* A request's verdict was right when it was given, and the contract answers in time.
GateMatches(r) ==
  /\ gate[r].pc = "chain" =>
       /\ now <= gate[r].asked + Patience
       /\ gate[r].eligible => gate[r].asked <= lastEligible
  /\ gate[r].pc # "chain" => Covered(gate[r].until)

\* A blocked request has met no moment at which the worker was eligible.
BlockedMatches(r) ==
  r \in blocked =>
    /\ ~Eligible(kyc, now)
    /\ gate[r].pc \notin {"set", "move"}
    /\ gate[r].pc = "chain" => ~gate[r].eligible

ClearanceIInv ==
  /\ ClearanceTypes
  /\ HistoryMatches
  /\ Covered(cleared) /\ \A e \in inFlight : Covered(e)
  /\ \A r \in Requests : GateMatches(r) /\ BlockedMatches(r)

-----------------------------------------------------------------------------

\* A verdict that lets the worker through is given only while the worker is eligible.
LEMMA VerdictIsRight ==
  ASSUME ClearanceIInv, Verified(kyc, now)
  PROVE  Eligible(kyc, now)
BY DEF ClearanceIInv, ClearanceTypes, HistoryMatches, Verified, Eligible, Record

\* The promise only gets longer.
LEMMA Lengthens ==
  ASSUME NEW e \in Nat, Covered(e), lastEligible \in Int, lastEligible' \in Int,
         lastEligible <= lastEligible'
  PROVE  Covered(e)'
<1>1. Patience \in Nat /\ Ttl \in Nat
  BY ClearanceAssumption DEF ClearanceAssumption
<1>2. CASE e > 0
  <2>1. lastEligible >= 0 /\ e <= lastEligible + Patience + Ttl
    BY <1>2 DEF Covered
  <2>2. ASSUME NEW a \in Int, NEW b \in Int, a <= b, a >= 0, e <= a + Patience + Ttl
        PROVE  b >= 0 /\ e <= b + Patience + Ttl
    BY <1>1, <2>2
  <2>3. lastEligible' >= 0 /\ e <= lastEligible' + Patience + Ttl
    BY <2>1, <2>2
  <2> QED
    BY <2>3 DEF Covered
<1>3. CASE ~(e > 0)
  BY <1>3 DEF Covered
<1> QED
  BY <1>2, <1>3

\* The initial states.
LEMMA ClearanceStarts == ClearanceInit => ClearanceIInv
<1> SUFFICES ASSUME ClearanceInit PROVE ClearanceIInv
  OBVIOUS
<1>1. /\ kyc \in Record
      /\ kyc.status \in {"none", "approved"} => kyc.flag = "clear"
  BY ClearanceAssumption DEF ClearanceInit, Record, ClearanceAssumption
<1>2. ClearanceTypes
  BY <1>1 DEF ClearanceInit, ClearanceTypes, Outside, Gate, Kinds
<1>3. HistoryMatches
  BY <1>1 DEF ClearanceInit, HistoryMatches
<1>4. Covered(cleared) /\ \A e \in inFlight : Covered(e)
  BY DEF ClearanceInit, Covered
<1>5. \A r \in Requests : GateMatches(r) /\ BlockedMatches(r)
  BY DEF ClearanceInit, GateMatches, BlockedMatches, Outside, Covered
<1> QED
  BY <1>2, <1>3, <1>4, <1>5 DEF ClearanceIInv

\* A step of a request leaves the record and the clock alone.
LEMMA GateMoves ==
  ASSUME ClearanceIInv, NEW r \in Requests,
         UNCHANGED <<now, kyc, lastEligible>>,
         gate' \in [Requests -> Gate],
         \A s \in Requests : s # r => gate'[s] = gate[s],
         blocked' = blocked \/ gate'[r].pc = "verdict",
         \A s \in blocked' : s \in blocked \/ (s = r /\ ~Eligible(kyc, now)),
         cleared' \in Nat, Covered(cleared'),
         \A e \in inFlight' : e \in Nat /\ Covered(e),
         GateMatches(r)',
         r \in blocked' => gate'[r].pc \notin {"set", "move"},
         r \in blocked' /\ gate'[r].pc = "chain" => ~gate'[r].eligible
  PROVE  ClearanceIInv'
<1>1. ClearanceTypes'
  BY DEF ClearanceIInv, ClearanceTypes
<1>2. HistoryMatches'
  BY DEF ClearanceIInv, HistoryMatches, Eligible
<1>3. Covered(cleared)' /\ \A e \in inFlight' : Covered(e)'
  BY DEF Covered
<1>4. ASSUME NEW s \in Requests, s # r PROVE GateMatches(s)' /\ BlockedMatches(s)'
  BY <1>4 DEF ClearanceIInv, GateMatches, BlockedMatches, Covered, Eligible
<1>5. BlockedMatches(r)'
  BY DEF ClearanceIInv, BlockedMatches, Eligible
<1> QED
  BY <1>1, <1>2, <1>3, <1>4, <1>5 DEF ClearanceIInv

\* An officer decides on a person.
LEMMA ReviewKeeps ==
  ASSUME ClearanceIInv, Review
  PROVE  ClearanceIInv'
<1>1. /\ kyc' \in Record
      /\ kyc'.status \in {"none", "approved"} => kyc'.flag = "clear"
  <2>1. kyc' \in Reviewed(kyc) /\ kyc \in Record /\ now + Validity \in Nat
    BY ClearanceAssumption DEF Review, ClearanceIInv, ClearanceTypes, ClearanceAssumption
  <2> QED
    BY <2>1 DEF Reviewed, Record
<1>2. /\ UNCHANGED <<now, cleared, inFlight, gate>>
      /\ lastEligible' = IF Eligible(kyc', now) THEN now ELSE lastEligible
      /\ blocked' = IF Eligible(kyc', now) THEN {} ELSE blocked
  BY DEF Review
<1>3. lastEligible' \in Int /\ lastEligible <= lastEligible' /\ lastEligible' <= now
  BY <1>2 DEF ClearanceIInv, ClearanceTypes, HistoryMatches
<1>4. ClearanceTypes'
  BY <1>1, <1>2, <1>3 DEF ClearanceIInv, ClearanceTypes
<1>5. HistoryMatches'
  BY <1>1, <1>2, <1>3 DEF HistoryMatches, Eligible
<1>6. ASSUME NEW e \in Nat, Covered(e) PROVE Covered(e)'
  BY <1>3, <1>6, Lengthens DEF ClearanceIInv, ClearanceTypes
<1>7. Covered(cleared)' /\ \A e \in inFlight' : Covered(e)'
  BY <1>2, <1>6 DEF ClearanceIInv, ClearanceTypes, Covered
<1>8. ASSUME NEW r \in Requests PROVE GateMatches(r)' /\ BlockedMatches(r)'
  <2>1. gate[r] \in Gate /\ GateMatches(r) /\ BlockedMatches(r)
    BY DEF ClearanceIInv, ClearanceTypes
  <2>2. GateMatches(r)'
    BY <1>2, <1>3, <1>6, <2>1 DEF ClearanceIInv, ClearanceTypes, GateMatches, Covered, Gate
  <2>3. BlockedMatches(r)'
    BY <1>2, <2>1 DEF BlockedMatches, Eligible
  <2> QED
    BY <2>2, <2>3
<1> QED
  BY <1>4, <1>5, <1>7, <1>8 DEF ClearanceIInv

\* Time makes nobody eligible.
LEMMA TickKeeps ==
  ASSUME ClearanceIInv, Tick
  PROVE  ClearanceIInv'
<1>1. /\ now' = now + 1 /\ UNCHANGED <<kyc, cleared, inFlight, gate, blocked>>
      /\ lastEligible' = IF Eligible(kyc, now + 1) THEN now + 1 ELSE lastEligible
      /\ \A r \in Requests : gate[r].pc = "chain" => now < gate[r].asked + Patience
  BY DEF Tick
<1>2. now \in Nat /\ kyc \in Record /\ lastEligible \in Int /\ lastEligible <= now
  BY DEF ClearanceIInv, ClearanceTypes, HistoryMatches
<1>3. Eligible(kyc, now + 1) => Eligible(kyc, now)
  BY <1>2 DEF Eligible, Record
<1>4. lastEligible' \in Int /\ lastEligible <= lastEligible' /\ lastEligible' <= now + 1
  BY <1>1, <1>2
<1>5. ClearanceTypes'
  BY <1>1, <1>2, <1>4 DEF ClearanceIInv, ClearanceTypes
<1>6. HistoryMatches'
  BY <1>1, <1>4 DEF ClearanceIInv, HistoryMatches, Eligible
<1>7. ASSUME NEW e \in Nat, Covered(e) PROVE Covered(e)'
  BY <1>2, <1>4, <1>7, Lengthens
<1>8. Covered(cleared)' /\ \A e \in inFlight' : Covered(e)'
  BY <1>1, <1>7 DEF ClearanceIInv, ClearanceTypes, Covered
<1>9. ASSUME NEW r \in Requests PROVE GateMatches(r)' /\ BlockedMatches(r)'
  <2>1. gate[r] \in Gate /\ GateMatches(r) /\ BlockedMatches(r)
    BY DEF ClearanceIInv, ClearanceTypes
  <2>2. Covered(gate[r].until) => Covered(gate[r].until)'
    BY <1>1, <1>7, <2>1 DEF Gate, Covered
  <2>3. gate[r].pc = "chain" => now + 1 <= gate[r].asked + Patience
    BY <1>1, <1>2, <2>1, ClearanceAssumption DEF Gate, ClearanceAssumption
  <2>4. GateMatches(r)'
    BY <1>1, <1>2, <1>4, <2>1, <2>2, <2>3 DEF GateMatches, Gate
  <2>5. BlockedMatches(r)'
    BY <1>1, <1>3, <2>1 DEF BlockedMatches, Eligible
  <2> QED
    BY <2>4, <2>5
<1> QED
  BY <1>5, <1>6, <1>8, <1>9 DEF ClearanceIInv

\* Where a request goes when it is not told anything else.
LEMMA Goes ==
  ASSUME ClearanceIInv, NEW r \in Requests, NEW pc \in {"idle", "set", "revoke", "move"},
         To(r, pc) \/ (pc = "idle" /\ Over(r)),
         UNCHANGED <<now, kyc, lastEligible, blocked>>,
         cleared' \in Nat, Covered(cleared'),
         \A e \in inFlight' : e \in Nat /\ Covered(e),
         pc \in {"set", "move"} => r \notin blocked
  PROVE  ClearanceIInv'
<1>1. gate \in [Requests -> Gate] /\ gate[r] \in Gate
  BY DEF ClearanceIInv, ClearanceTypes
<1> DEFINE next == IF To(r, pc) THEN [Outside EXCEPT !.pc = pc, !.kind = gate[r].kind] ELSE Outside
<1>2. gate' = [gate EXCEPT ![r] = next]
  BY DEF To, Over
<1>3. next \in Gate /\ next.pc = pc /\ next.until = 0
  BY <1>1 DEF Outside, Gate, Kinds, To, Over
<1> HIDE DEF next
<1>4. /\ gate' \in [Requests -> Gate] /\ gate'[r] = next
      /\ \A s \in Requests : s # r => gate'[s] = gate[s]
  BY <1>1, <1>2, <1>3
<1>5. GateMatches(r)'
  BY <1>3, <1>4 DEF GateMatches, Covered
<1>6. gate'[r].pc # "chain" /\ (gate'[r].pc \in {"set", "move"} => r \notin blocked')
  BY <1>3, <1>4
<1> QED
  BY <1>4, <1>5, <1>6, GateMoves

\* A gate asks for a verdict.
LEMMA AskKeeps ==
  ASSUME ClearanceIInv, NEW r \in Requests, NEW kind \in Kinds, Ask(r, kind)
  PROVE  ClearanceIInv'
<1>1. gate \in [Requests -> Gate] /\ gate[r] \in Gate /\ cleared \in Nat
  BY DEF ClearanceIInv, ClearanceTypes
<1> DEFINE next == [gate[r] EXCEPT !.pc = "verdict", !.kind = kind]
<1>2. /\ gate[r].pc = "idle" /\ gate' = [gate EXCEPT ![r] = next]
      /\ UNCHANGED <<now, kyc, cleared, inFlight, lastEligible>>
      /\ blocked' = IF Eligible(kyc, now) THEN blocked \ {r} ELSE blocked \cup {r}
  BY <1>1 DEF Ask, At
<1>3. next \in Gate /\ next.pc = "verdict" /\ next.until = gate[r].until
  BY <1>1 DEF Gate
<1> HIDE DEF next
<1>4. /\ gate' \in [Requests -> Gate] /\ gate'[r] = next
      /\ \A s \in Requests : s # r => gate'[s] = gate[s]
  BY <1>1, <1>2, <1>3
<1>5. GateMatches(r)'
  BY <1>2, <1>3, <1>4 DEF ClearanceIInv, GateMatches, Covered
<1>6. \A s \in blocked' : s \in blocked \/ (s = r /\ ~Eligible(kyc, now))
  BY <1>2
<1>7. Covered(cleared') /\ \A e \in inFlight' : e \in Nat /\ Covered(e)
  BY <1>2 DEF ClearanceIInv, ClearanceTypes
<1>8. gate'[r].pc = "verdict" /\ cleared' \in Nat
  BY <1>1, <1>2, <1>3, <1>4
<1> QED
  BY <1>2, <1>4, <1>5, <1>6, <1>7, <1>8, GateMoves

\* A gate hears the verdict.
LEMMA VerdictKeeps ==
  ASSUME ClearanceIInv, NEW r \in Requests, Verdict(r)
  PROVE  ClearanceIInv'
<1>1. gate \in [Requests -> Gate] /\ gate[r] \in Gate /\ now \in Nat /\ cleared \in Nat
  BY DEF ClearanceIInv, ClearanceTypes
<1>2. UNCHANGED <<now, kyc, cleared, inFlight, lastEligible, blocked>>
  BY DEF Verdict
<1>3. cleared' \in Nat /\ Covered(cleared') /\ \A e \in inFlight' : e \in Nat /\ Covered(e)
  BY <1>1, <1>2 DEF ClearanceIInv, ClearanceTypes
<1>4. Verified(kyc, now) => r \notin blocked /\ lastEligible = now
  BY VerdictIsRight DEF ClearanceIInv, HistoryMatches, BlockedMatches
<1>5. CASE gate[r].kind = "payout" /\ Verified(kyc, now)
  <2>1. To(r, "move")
    BY <1>5 DEF Verdict
  <2> QED
    BY <1>2, <1>3, <1>4, <1>5, <2>1, Goes
<1>6. CASE gate[r].kind = "payout" /\ ~Verified(kyc, now)
  <2>1. Over(r)
    BY <1>6 DEF Verdict
  <2> QED
    BY <1>2, <1>3, <2>1, Goes
<1>7. CASE gate[r].kind # "payout"
  <2> DEFINE fine == Verified(kyc, now) /\ kyc.flag = "clear"
             next == [gate[r] EXCEPT !.pc = "chain", !.asked = now, !.eligible = fine]
  <2>1. gate' = [gate EXCEPT ![r] = next]
    BY <1>1, <1>7 DEF Verdict
  <2>2. /\ next \in Gate /\ next.pc = "chain" /\ next.asked = now
        /\ next.eligible => Verified(kyc, now)
    BY <1>1 DEF Gate
  <2> HIDE DEF next, fine
  <2>3. /\ gate' \in [Requests -> Gate] /\ gate'[r] = next
        /\ \A s \in Requests : s # r => gate'[s] = gate[s]
    BY <1>1, <2>1, <2>2
  <2>4. GateMatches(r)'
    BY <1>1, <1>2, <1>4, <2>2, <2>3, ClearanceAssumption DEF GateMatches, ClearanceAssumption
  <2>5. /\ gate'[r].pc \notin {"set", "move"}
        /\ r \in blocked' => ~gate'[r].eligible
    BY <1>2, <1>4, <2>2, <2>3
  <2> QED
    BY <1>2, <1>3, <2>3, <2>4, <2>5, GateMoves
<1> QED
  BY <1>5, <1>6, <1>7

\* A gate reads the clearance.
LEMMA ReadClearanceKeeps ==
  ASSUME ClearanceIInv, NEW r \in Requests, ReadClearance(r)
  PROVE  ClearanceIInv'
<1>1. /\ gate \in [Requests -> Gate] /\ gate[r] \in Gate /\ now \in Nat /\ cleared \in Nat
      /\ lastEligible \in Int
  BY DEF ClearanceIInv, ClearanceTypes
<1>2. gate[r].pc = "chain" /\ UNCHANGED <<now, kyc, cleared, inFlight, lastEligible, blocked>>
  BY DEF ReadClearance, At
<1>3. cleared' \in Nat /\ Covered(cleared') /\ \A e \in inFlight' : e \in Nat /\ Covered(e)
  BY <1>1, <1>2 DEF ClearanceIInv, ClearanceTypes
<1>4. /\ gate[r].eligible => r \notin blocked
      /\ gate[r].eligible => gate[r].asked <= lastEligible
      /\ now <= gate[r].asked + Patience
  BY <1>2 DEF ClearanceIInv, GateMatches, BlockedMatches
<1>5. CASE gate[r].eligible /\ ~Live
  <2> DEFINE next == [gate[r] EXCEPT !.pc = "set", !.until = now + Ttl, !.asked = 0]
  <2>1. gate' = [gate EXCEPT ![r] = next]
    BY <1>1, <1>5 DEF ReadClearance
  <2>2. next \in Gate /\ next.pc = "set" /\ next.until = now + Ttl
    <3>1. now + Ttl \in Nat
      BY <1>1, ClearanceAssumption DEF ClearanceAssumption
    <3> QED
      BY <1>1, <3>1 DEF Gate
  <2>3. now + Ttl <= lastEligible + Patience + Ttl /\ lastEligible >= 0
    BY <1>1, <1>4, <1>5, ClearanceAssumption DEF Gate, ClearanceAssumption
  <2> HIDE DEF next
  <2>4. /\ gate' \in [Requests -> Gate] /\ gate'[r] = next
        /\ \A s \in Requests : s # r => gate'[s] = gate[s]
    BY <1>1, <2>1, <2>2
  <2>5. GateMatches(r)'
    BY <1>2, <2>2, <2>3, <2>4 DEF GateMatches, Covered
  <2>6. gate'[r].pc # "chain" /\ r \notin blocked'
    BY <1>2, <1>4, <1>5, <2>2, <2>4
  <2> QED
    BY <1>2, <1>3, <2>4, <2>5, <2>6, GateMoves
<1>6. CASE gate[r].eligible /\ Live
  <2>1. To(r, "move")
    BY <1>6 DEF ReadClearance
  <2> QED
    BY <1>2, <1>3, <1>4, <1>6, <2>1, Goes
<1>7. CASE ~gate[r].eligible /\ Live
  <2>1. To(r, "revoke")
    BY <1>7 DEF ReadClearance
  <2> QED
    BY <1>2, <1>3, <2>1, Goes
<1>8. CASE ~gate[r].eligible /\ ~Live
  <2>1. Over(r)
    BY <1>8 DEF ReadClearance
  <2> QED
    BY <1>2, <1>3, <2>1, Goes
<1> QED
  BY <1>5, <1>6, <1>7, <1>8

\* The calls to the contract, and what ends a request.
LEMMA CallKeeps ==
  ASSUME ClearanceIInv, NEW r \in Requests,
         \/ SetClearance(r) \/ RevokeClearance(r) \/ Unanswered(r) \/ Move(r) \/ Refuse(r)
  PROVE  ClearanceIInv'
<1>1. gate[r] \in Gate /\ cleared \in Nat /\ \A e \in inFlight : e \in Nat
  BY DEF ClearanceIInv, ClearanceTypes
<1>2. /\ Covered(cleared) /\ \A e \in inFlight : Covered(e)
      /\ gate[r].pc # "chain" => Covered(gate[r].until)
  BY DEF ClearanceIInv, GateMatches
<1>3. UNCHANGED <<now, kyc, lastEligible, blocked>>
  BY DEF SetClearance, RevokeClearance, Unanswered, Move, Refuse
<1>4. CASE SetClearance(r)
  <2>1. gate[r].pc = "set" /\ inFlight' = inFlight /\ r \notin blocked
    BY <1>4 DEF SetClearance, At, ClearanceIInv, BlockedMatches
  <2>2. CASE gate[r].until > now
    <3>1. cleared' = gate[r].until /\ To(r, "move")
      BY <1>4, <2>2 DEF SetClearance
    <3>2. cleared' \in Nat /\ Covered(cleared') /\ \A e \in inFlight' : e \in Nat /\ Covered(e)
      BY <1>1, <1>2, <2>1, <3>1 DEF Gate
    <3> QED
      BY <1>3, <2>1, <3>1, <3>2, Goes
  <2>3. CASE ~(gate[r].until > now)
    <3>1. cleared' = cleared /\ Over(r)
      BY <1>4, <2>3 DEF SetClearance
    <3> QED
      BY <1>1, <1>2, <1>3, <2>1, <3>1, Goes
  <2> QED
    BY <2>2, <2>3
<1>5. CASE RevokeClearance(r)
  <2>1. Over(r) /\ cleared' = 0 /\ inFlight' = inFlight
    BY <1>5 DEF RevokeClearance
  <2>2. cleared' \in Nat /\ Covered(cleared') /\ \A e \in inFlight' : e \in Nat /\ Covered(e)
    BY <1>1, <1>2, <2>1 DEF Covered
  <2> QED
    BY <1>3, <2>1, <2>2, Goes
<1>6. CASE Unanswered(r)
  <2>1. /\ Over(r) /\ cleared' = cleared /\ inFlight' = inFlight \cup {gate[r].until}
        /\ gate[r].pc \in {"set", "revoke"}
    BY <1>6 DEF Unanswered
  <2>2. cleared' \in Nat /\ Covered(cleared') /\ \A e \in inFlight' : e \in Nat /\ Covered(e)
    BY <1>1, <1>2, <2>1 DEF Gate
  <2> QED
    BY <1>3, <2>1, <2>2, Goes
<1>7. CASE Move(r) \/ Refuse(r)
  <2>1. Over(r) /\ cleared' = cleared /\ inFlight' = inFlight
    BY <1>7 DEF Move, Refuse
  <2> QED
    BY <1>1, <1>2, <1>3, <2>1, Goes
<1> QED
  BY <1>4, <1>5, <1>6, <1>7

\* A call without an answer that lands after all.
LEMMA LandKeeps ==
  ASSUME ClearanceIInv, NEW e \in inFlight, Land(e)
  PROVE  ClearanceIInv'
<1>1. /\ UNCHANGED <<now, kyc, gate, lastEligible, blocked>>
      /\ inFlight' = inFlight \ {e} /\ cleared' \in {cleared, e}
  BY DEF Land
<1>2. ClearanceTypes'
  BY <1>1 DEF ClearanceIInv, ClearanceTypes
<1>3. Covered(cleared)' /\ \A d \in inFlight' : Covered(d)'
  BY <1>1 DEF ClearanceIInv, Covered
<1> QED
  BY <1>1, <1>2, <1>3 DEF ClearanceIInv, HistoryMatches, GateMatches, BlockedMatches, Eligible, Covered

-----------------------------------------------------------------------------
(* The theorems. *)

\* The inductive invariant holds in every behaviour.
LEMMA ClearanceInvariant == ClearanceSpec => []ClearanceIInv
<1>1. ClearanceIInv /\ [ClearanceNext]_clearanceVars => ClearanceIInv'
  <2> SUFFICES ASSUME ClearanceIInv, [ClearanceNext]_clearanceVars PROVE ClearanceIInv'
    OBVIOUS
  <2>1. CASE UNCHANGED clearanceVars
    BY <2>1 DEF clearanceVars, ClearanceIInv, ClearanceTypes, HistoryMatches, GateMatches, BlockedMatches,
       Eligible, Covered
  <2>2. CASE ClearanceNext
    BY <2>2, ReviewKeeps, TickKeeps, AskKeeps, VerdictKeeps, ReadClearanceKeeps, CallKeeps,
       LandKeeps DEF ClearanceNext, Advance
  <2> QED
    BY <2>1, <2>2
<1> QED
  BY ClearanceStarts, <1>1, PTL DEF ClearanceSpec

\* A clearance on chain ends Ttl after the worker was last eligible, or later by as
\* much as the contract takes to answer (lib/clearance.ts).
THEOREM ClearanceEndsInTime == ClearanceSpec => []StaleClearanceExpires
<1>1. ClearanceIInv => StaleClearanceExpires
  BY DEF ClearanceIInv, Covered, StaleClearanceExpires
<1> QED
  BY <1>1, ClearanceInvariant, PTL

\* A request moves no money of a worker who was eligible at no moment of it
\* (lib/clearance.ts, requireCompliance in app.ts).
THEOREM BlockedStaysPut == ClearanceSpec => BlockedMovesNothing
<1>1. ASSUME ClearanceIInv, [ClearanceNext]_clearanceVars
      PROVE  [\A r \in Requests : MovesMoney(r) => r \notin blocked]_clearanceVars
  <2> SUFFICES ASSUME NEW r \in Requests, MovesMoney(r) PROVE r \notin blocked
    OBVIOUS
  <2>1. gate[r].pc = "move"
    BY DEF MovesMoney, Move, At
  <2> QED
    BY <1>1, <2>1 DEF ClearanceIInv, BlockedMatches
<1> QED
  BY <1>1, ClearanceInvariant, PTL DEF BlockedMovesNothing, ClearanceSpec

-----------------------------------------------------------------------------
(* Clearance: the types, with the bounds of the clock. *)

\* A row of gate, with the bounds of the clock.
GateInTime ==
  [kind : Kinds, pc : {"idle", "verdict", "chain", "set", "revoke", "move"},
   eligible : BOOLEAN, asked : 0..Horizon, until : Expiries]
RecordInTime ==
  [status : {"none", "pending", "approved", "rejected"}, flag : {"clear", "flagged"},
   until : 0..(Horizon + Validity)]

\* A request writes its own row, and leaves record and clock alone.
LEMMA RowInTime ==
  ASSUME ClearanceTypeOK, NEW r \in Requests, NEW next \in GateInTime,
         gate' = [gate EXCEPT ![r] = next],
         UNCHANGED <<now, kyc, lastEligible, reviews>>,
         cleared' \in Expiries, inFlight' \subseteq Expiries, blocked' \subseteq Requests
  PROVE  ClearanceTypeOK'
<1>1. gate' \in [Requests -> GateInTime]
  BY DEF ClearanceTypeOK, GateInTime
<1> QED
  BY <1>1 DEF ClearanceTypeOK, GateInTime

\* The rows that are written without reading the old one.
LEMMA NewRow ==
  ASSUME ClearanceTypeOK, NEW r \in Requests,
         NEW pc \in {"idle", "set", "revoke", "move"}, To(r, pc) \/ Over(r)
  PROVE  \E next \in GateInTime : gate' = [gate EXCEPT ![r] = next]
<1>1. gate[r] \in GateInTime /\ 0 \in 0..Horizon /\ 0 \in Expiries
  BY ClearanceAssumption DEF ClearanceTypeOK, GateInTime, ClearanceAssumption, Expiries
<1>2. Outside \in GateInTime
  BY <1>1 DEF Outside, GateInTime, Kinds
<1>3. [Outside EXCEPT !.pc = pc, !.kind = gate[r].kind] \in GateInTime
  BY <1>1, <1>2 DEF Outside, GateInTime
<1> QED
  BY <1>2, <1>3 DEF To, Over

\* An expiry that is set is no further ahead than Ttl.
LEMMA ExpiryInTime ==
  ASSUME ClearanceTypeOK
  PROVE  now + Ttl \in Expiries /\ 0 \in Expiries /\ now + Validity \in 0..(Horizon + Validity)
BY ClearanceAssumption DEF ClearanceTypeOK, ClearanceAssumption, Expiries

\* The steps of a request.
LEMMA AdvanceInTime ==
  ASSUME ClearanceTypeOK, NEW r \in Requests, Advance(r)
  PROVE  ClearanceTypeOK'
<1>1. /\ gate \in [Requests -> GateInTime] /\ gate[r] \in GateInTime
      /\ cleared \in Expiries /\ inFlight \subseteq Expiries /\ blocked \subseteq Requests
      /\ gate[r].until \in Expiries
  BY DEF ClearanceTypeOK, GateInTime
<1>2. ASSUME NEW kind \in Kinds, Ask(r, kind) PROVE ClearanceTypeOK'
  <2> DEFINE next == [gate[r] EXCEPT !.pc = "verdict", !.kind = kind]
  <2>1. next \in GateInTime
    BY <1>1 DEF GateInTime
  <2>2. gate' = [gate EXCEPT ![r] = next] /\ UNCHANGED <<now, kyc, cleared, inFlight, lastEligible, reviews>>
    BY <1>1, <1>2 DEF Ask
  <2>3. blocked' \subseteq Requests
    BY <1>1, <1>2 DEF Ask
  <2> HIDE DEF next
  <2> QED
    BY <1>1, <2>1, <2>2, <2>3, RowInTime
<1>3. CASE Verdict(r)
  <2>1. UNCHANGED <<now, kyc, cleared, inFlight, lastEligible, blocked, reviews>>
    BY <1>3 DEF Verdict
  <2>2. CASE gate[r].kind = "payout"
    <3>1. To(r, "move") \/ Over(r)
      BY <1>3, <2>2 DEF Verdict
    <3> QED
      BY <1>1, <2>1, <3>1, NewRow, RowInTime
  <2>3. CASE gate[r].kind # "payout"
    <3> DEFINE fine == Verified(kyc, now) /\ kyc.flag = "clear"
               next == [gate[r] EXCEPT !.pc = "chain", !.asked = now, !.eligible = fine]
    <3>1. gate' = [gate EXCEPT ![r] = next]
      BY <1>1, <1>3, <2>3 DEF Verdict
    <3>2. fine \in BOOLEAN /\ now \in 0..Horizon
      BY DEF ClearanceTypeOK, Verified
    <3> HIDE DEF fine
    <3>3. next \in GateInTime
      BY <1>1, <3>2 DEF GateInTime
    <3> HIDE DEF next
    <3> QED
      BY <1>1, <2>1, <3>1, <3>3, RowInTime
  <2> QED
    BY <2>2, <2>3
<1>4. CASE ReadClearance(r)
  <2>1. UNCHANGED <<now, kyc, cleared, inFlight, lastEligible, blocked, reviews>>
    BY <1>4 DEF ReadClearance
  <2>2. CASE gate[r].eligible /\ ~Live
    <3> DEFINE next == [gate[r] EXCEPT !.pc = "set", !.until = now + Ttl, !.asked = 0]
    <3>1. gate' = [gate EXCEPT ![r] = next]
      BY <1>1, <1>4, <2>2 DEF ReadClearance
    <3>2. 0 \in 0..Horizon
      BY ClearanceAssumption DEF ClearanceAssumption
    <3>3. next \in GateInTime
      BY <1>1, <3>2, ExpiryInTime DEF GateInTime
    <3> HIDE DEF next
    <3> QED
      BY <1>1, <2>1, <3>1, <3>3, RowInTime
  <2>3. CASE ~(gate[r].eligible /\ ~Live)
    <3>1. To(r, "move") \/ To(r, "revoke") \/ Over(r)
      BY <1>4, <2>3 DEF ReadClearance
    <3> QED
      BY <1>1, <2>1, <3>1, NewRow, RowInTime
  <2> QED
    BY <2>2, <2>3
<1>5. CASE SetClearance(r)
  <2>1. /\ To(r, "move") \/ Over(r)
        /\ cleared' \in Expiries
        /\ UNCHANGED <<now, kyc, inFlight, lastEligible, blocked, reviews>>
    BY <1>1, <1>5 DEF SetClearance
  <2> QED
    BY <1>1, <2>1, NewRow, RowInTime
<1>6. CASE RevokeClearance(r)
  <2>1. /\ Over(r) /\ cleared' \in Expiries
        /\ UNCHANGED <<now, kyc, inFlight, lastEligible, blocked, reviews>>
    BY <1>6, ExpiryInTime DEF RevokeClearance
  <2> QED
    BY <1>1, <2>1, NewRow, RowInTime
<1>7. CASE Unanswered(r)
  <2>1. /\ Over(r) /\ inFlight' \subseteq Expiries
        /\ UNCHANGED <<now, kyc, cleared, lastEligible, blocked, reviews>>
    BY <1>1, <1>7 DEF Unanswered
  <2> QED
    BY <1>1, <2>1, NewRow, RowInTime
<1>8. CASE Move(r) \/ Refuse(r)
  <2>1. Over(r) /\ UNCHANGED <<now, kyc, cleared, inFlight, lastEligible, blocked, reviews>>
    BY <1>8 DEF Move, Refuse
  <2> QED
    BY <1>1, <2>1, NewRow, RowInTime
<1> QED
  BY <1>2, <1>3, <1>4, <1>5, <1>6, <1>7, <1>8, Zenon DEF Advance, Ask

\* The record and the clock.
LEMMA RecordKeepsTime ==
  ASSUME ClearanceTypeOK, Review \/ Tick
  PROVE  ClearanceTypeOK'
<1>1. kyc \in RecordInTime /\ now \in 0..Horizon /\ lastEligible \in -1..Horizon /\ lastEligible <= now
  BY DEF ClearanceTypeOK, RecordInTime
<1>2. CASE Review
  <2>1. /\ kyc' \in Reviewed(kyc) /\ reviews' \in 0..MaxReviews
        /\ UNCHANGED <<now, cleared, inFlight, gate>>
        /\ lastEligible' \in {now, lastEligible} /\ blocked' \in {blocked, {}}
    BY <1>2, ClearanceAssumption DEF Review, ClearanceTypeOK, ClearanceAssumption
  <2>2. kyc' \in RecordInTime
    BY <1>1, <2>1, ExpiryInTime DEF Reviewed, RecordInTime
  <2>3. lastEligible' \in -1..Horizon /\ lastEligible' <= now'
    BY <1>1, <2>1
  <2> QED
    BY <2>1, <2>2, <2>3 DEF ClearanceTypeOK, RecordInTime
<1>3. CASE Tick
  <2>1. /\ now' = now + 1 /\ now < Horizon
        /\ UNCHANGED <<kyc, cleared, inFlight, gate, blocked, reviews>>
        /\ lastEligible' \in {now + 1, lastEligible}
    BY <1>3 DEF Tick
  <2>2. now' \in 0..Horizon /\ lastEligible' \in -1..Horizon /\ lastEligible' <= now'
    BY <1>1, <2>1, ClearanceAssumption DEF ClearanceAssumption
  <2> QED
    BY <2>1, <2>2 DEF ClearanceTypeOK
<1> QED
  BY <1>2, <1>3

\* The initial states have their type.
LEMMA TypedStarts == ClearanceInit => ClearanceTypeOK
<1> SUFFICES ASSUME ClearanceInit PROVE ClearanceTypeOK
  OBVIOUS
<1>1. /\ 0 \in 0..Horizon /\ 0 \in Expiries /\ 0 \in 0..MaxReviews
      /\ Validity \in 0..(Horizon + Validity) /\ 0 \in 0..(Horizon + Validity)
  BY ClearanceAssumption DEF ClearanceAssumption, Expiries
<1>2. Outside \in GateInTime
  BY <1>1 DEF Outside, GateInTime, Kinds
<1>3. kyc \in RecordInTime
  BY <1>1 DEF ClearanceInit, RecordInTime
<1>4. gate \in [Requests -> GateInTime]
  BY <1>2 DEF ClearanceInit
<1>5. lastEligible \in -1..Horizon /\ lastEligible <= now
  BY <1>1, ClearanceAssumption DEF ClearanceInit, ClearanceAssumption
<1> QED
  BY <1>1, <1>3, <1>4, <1>5 DEF ClearanceInit, ClearanceTypeOK, GateInTime, RecordInTime

\* Every step keeps the types.
LEMMA TypedKeeps == ClearanceTypeOK /\ [ClearanceNext]_clearanceVars => ClearanceTypeOK'
<1> SUFFICES ASSUME ClearanceTypeOK, [ClearanceNext]_clearanceVars PROVE ClearanceTypeOK'
  OBVIOUS
<1>1. ASSUME NEW expiry \in inFlight, Land(expiry) PROVE ClearanceTypeOK'
  <2>1. /\ inFlight' \subseteq Expiries /\ cleared' \in Expiries
        /\ UNCHANGED <<now, kyc, gate, lastEligible, blocked, reviews>>
    BY <1>1 DEF Land, ClearanceTypeOK
  <2> QED
    BY <2>1 DEF ClearanceTypeOK
<1>2. CASE UNCHANGED clearanceVars
  BY <1>2 DEF clearanceVars, ClearanceTypeOK
<1> QED
  BY <1>1, <1>2, RecordKeepsTime, AdvanceInTime DEF ClearanceNext

\* The clock, the record, every clearance and every request keep their types:
\* no clearance is ever set to run further than Ttl, for any number of requests.
THEOREM ClearanceTypeCorrect == ClearanceSpec => []ClearanceTypeOK
BY TypedStarts, TypedKeeps, PTL DEF ClearanceSpec

-----------------------------------------------------------------------------
(* Names: induction over numbers.  What is to be shown is a set here, the  *)
(* numbers it holds of: the theorems of the library take an operator.      *)

\* A non-empty collection of subsets of a finite set has a minimal member.
LEMMA FiniteMinimal ==
  ASSUME NEW S, IsFiniteSet(S), NEW T \in SUBSET (SUBSET S), T # {}
  PROVE  \E X \in T : \A Y \in T : Y \subseteq X => Y = X
<1>1. IsWellFoundedOn(StrictSubsetOrdering(S), SUBSET S)
  BY FS_StrictSubsetOrderingWellFounded, FS_FiniteSubsetsOfFinite
<1>2. PICK X \in T : \A Y \in T : ~(<<Y, X>> \in StrictSubsetOrdering(S))
  BY <1>1, WFMin
<1> QED
  BY <1>2 DEF StrictSubsetOrdering

\* Induction, with a set of numbers for what is to be shown.
LEMMA Numbers ==
  ASSUME NEW S, 0 \in S, \A n \in Nat : n \in S => n + 1 \in S
  PROVE  \A n \in Nat : n \in S
<1> SUFFICES ASSUME NEW N \in Nat, N \notin S PROVE FALSE
  OBVIOUS
<1> DEFINE T == {0..k : k \in (0..N) \ S}
           all == 0..N
<1>1. T \in SUBSET (SUBSET all) /\ T # {}
  OBVIOUS
<1>2. IsFiniteSet(all)
  BY FS_Interval
<1>3. PICK X \in T : \A Y \in T : Y \subseteq X => Y = X
  <2> HIDE DEF T, all
  <2> QED
    BY <1>1, <1>2, FiniteMinimal
<1>4. PICK k \in (0..N) \ S : X = 0..k
  OBVIOUS
<1>5. k # 0 /\ k - 1 \in Nat /\ k = (k - 1) + 1
  BY <1>4
<1>6. k - 1 \notin S
  BY <1>4, <1>5
<1>7. 0..(k - 1) \in T /\ 0..(k - 1) \subseteq X
  BY <1>4, <1>5, <1>6
<1>8. k \in X /\ k \notin 0..(k - 1)
  BY <1>4, <1>5
<1> QED
  BY <1>3, <1>7, <1>8

-----------------------------------------------------------------------------
(* Names: the table of edit distances. *)

\* The places of the table for two texts, what stands at one of them, and the table.
Cells(s, t) == (0..Len(s)) \X (0..Len(t))

Entry(s, t, d, c) ==
  IF c[1] = 0 THEN c[2] ELSE IF c[2] = 0 THEN c[1]
  ELSE IF s[c[1]] = t[c[2]] THEN d[<<c[1] - 1, c[2] - 1>>]
  ELSE 1 + AtMost(d[<<c[1] - 1, c[2] - 1>>],
                  AtMost(d[<<c[1] - 1, c[2]>>], d[<<c[1], c[2] - 1>>]))

IsTable(s, t, d) == d = [c \in Cells(s, t) |-> Entry(s, t, d, c)]

Table(s, t) == CHOOSE d : IsTable(s, t, d)

\* The distance is the last entry of the table by definition.
LEMMA DistanceUnfold == Distance = Table(given, listed)[<<Len(given), Len(listed)>>]
  BY DEF Distance, Table, IsTable, Cells, Entry

\* There is such a table: one that is right up to a diagonal gives one that is right
\* up to the next.
LEMMA TableExists ==
  ASSUME NEW s, NEW t, Len(s) \in Nat, Len(t) \in Nat
  PROVE  IsTable(s, t, Table(s, t))
<1> DEFINE Good == {n \in Nat : \E d \in [Cells(s, t) -> Nat] : \A c \in Cells(s, t) :
                       c[1] + c[2] < n => d[c] = Entry(s, t, d, c)}
<1>1. 0 \in Good
  <2>1. [c \in Cells(s, t) |-> 0] \in [Cells(s, t) -> Nat]
    OBVIOUS
  <2>2. \A c \in Cells(s, t) : ~(c[1] + c[2] < 0)
    BY DEF Cells
  <2> QED
    BY <2>1, <2>2
<1>2. ASSUME NEW n \in Nat, n \in Good PROVE n + 1 \in Good
  <2>1. PICK d \in [Cells(s, t) -> Nat] : \A c \in Cells(s, t) :
                       c[1] + c[2] < n => d[c] = Entry(s, t, d, c)
    BY <1>2
  <2> DEFINE e == [c \in Cells(s, t) |-> Entry(s, t, d, c)]
  <2>2. ASSUME NEW c \in Cells(s, t) PROVE Entry(s, t, d, c) \in Nat
    <3>1. c[1] \in 0..Len(s) /\ c[2] \in 0..Len(t)
      BY DEF Cells
    <3>2. c[1] # 0 /\ c[2] # 0 =>
            /\ d[<<c[1] - 1, c[2] - 1>>] \in Nat
            /\ d[<<c[1] - 1, c[2]>>] \in Nat /\ d[<<c[1], c[2] - 1>>] \in Nat
      BY <3>1 DEF Cells
    <3> DEFINE x == d[<<c[1] - 1, c[2] - 1>>]
               y == d[<<c[1] - 1, c[2]>>]
               z == d[<<c[1], c[2] - 1>>]
    <3>3. Entry(s, t, d, c) = IF c[1] = 0 THEN c[2] ELSE IF c[2] = 0 THEN c[1]
                              ELSE IF s[c[1]] = t[c[2]] THEN x ELSE 1 + AtMost(x, AtMost(y, z))
      BY DEF Entry
    <3> HIDE DEF x, y, z
    <3>4. x \in Nat /\ y \in Nat /\ z \in Nat => 1 + AtMost(x, AtMost(y, z)) \in Nat
      BY DEF AtMost
    <3> QED
      BY <3>1, <3>2, <3>3, <3>4 DEF x, y, z
  <2>3. e \in [Cells(s, t) -> Nat]
    BY <2>2
  <2>4. ASSUME NEW c \in Cells(s, t), c[1] + c[2] < n + 1
        PROVE  e[c] = Entry(s, t, e, c)
    <3>1. ASSUME NEW b \in Cells(s, t), b[1] + b[2] < c[1] + c[2] PROVE e[b] = d[b]
      BY <2>1, <2>4, <3>1 DEF Cells
    <3> HIDE DEF e
    <3>2. c[1] \in 0..Len(s) /\ c[2] \in 0..Len(t)
      BY DEF Cells
    <3>3. c[1] # 0 /\ c[2] # 0 =>
            /\ e[<<c[1] - 1, c[2] - 1>>] = d[<<c[1] - 1, c[2] - 1>>]
            /\ e[<<c[1] - 1, c[2]>>] = d[<<c[1] - 1, c[2]>>]
            /\ e[<<c[1], c[2] - 1>>] = d[<<c[1], c[2] - 1>>]
      BY <3>1, <3>2 DEF Cells
    <3>4. Entry(s, t, e, c) = Entry(s, t, d, c)
      BY <3>2, <3>3 DEF Entry
    <3> QED
      BY <3>4 DEF e
  <2> HIDE DEF e
  <2> QED
    BY <2>3, <2>4
<1>3. \A n \in Nat : n \in Good
  <2> HIDE DEF Good
  <2> QED
    BY <1>1, <1>2, Numbers
<1>4. PICK d \in [Cells(s, t) -> Nat] : \A c \in Cells(s, t) :
                       c[1] + c[2] < Len(s) + Len(t) + 1 => d[c] = Entry(s, t, d, c)
  <2>1. Len(s) + Len(t) + 1 \in Good
    <3> HIDE DEF Good
    <3> QED
      BY <1>3
  <2> QED
    BY <2>1
<1>5. \A c \in Cells(s, t) : d[c] = Entry(s, t, d, c)
  BY <1>4 DEF Cells
<1>6. IsTable(s, t, d)
  BY <1>5 DEF IsTable
<1> QED
  BY <1>6 DEF Table

\* Its entries, by what it is defined as.
LEMMA TableAt ==
  ASSUME NEW s, NEW t, Len(s) \in Nat, Len(t) \in Nat, NEW i \in 0..Len(s), NEW j \in 0..Len(t)
  PROVE  LET d == Table(s, t) IN
         /\ i = 0 => d[<<i, j>>] = j
         /\ j = 0 => d[<<i, j>>] = i
         /\ i # 0 /\ j # 0 =>
              d[<<i, j>>] = IF s[i] = t[j] THEN d[<<i - 1, j - 1>>]
                            ELSE 1 + AtMost(d[<<i - 1, j - 1>>], AtMost(d[<<i - 1, j>>], d[<<i, j - 1>>]))
<1> DEFINE d == Table(s, t)
<1>1. IsTable(s, t, d)
  BY TableExists
<1> HIDE DEF d
<1>2. d[<<i, j>>] = Entry(s, t, d, <<i, j>>)
  BY <1>1 DEF IsTable, Cells
<1>3. d[<<i, j>>] = IF i = 0 THEN j ELSE IF j = 0 THEN i
                    ELSE IF s[i] = t[j] THEN d[<<i - 1, j - 1>>]
                    ELSE 1 + AtMost(d[<<i - 1, j - 1>>], AtMost(d[<<i - 1, j>>], d[<<i, j - 1>>]))
  BY <1>2 DEF Entry
<1> QED
  BY <1>3 DEF d

\* Its borders.
LEMMA Border ==
  ASSUME NEW s, NEW t, Len(s) \in Nat, Len(t) \in Nat
  PROVE  /\ \A j \in 0..Len(t) : Table(s, t)[<<0, j>>] = j
         /\ \A i \in 0..Len(s) : Table(s, t)[<<i, 0>>] = i
<1> DEFINE d == Table(s, t)
<1>1. IsTable(s, t, d)
  BY TableExists
<1> HIDE DEF d
<1>2. ASSUME NEW j \in 0..Len(t) PROVE d[<<0, j>>] = j
  BY <1>1 DEF IsTable, Cells, Entry
<1>3. ASSUME NEW i \in 0..Len(s) PROVE d[<<i, 0>>] = i
  BY <1>1 DEF IsTable, Cells, Entry
<1> QED
  BY <1>2, <1>3 DEF d

\* No entry is above what deleting everything would cost or below the difference of
\* the lengths, and neighbours differ by one at most.
Near(d, i, j) ==
  /\ d[<<i, j>>] \in Nat
  /\ d[<<i, j>>] <= i + j /\ d[<<i, j>>] >= i - j /\ d[<<i, j>>] >= j - i
  /\ i > 0 => d[<<i, j>>] <= d[<<i - 1, j>>] + 1 /\ d[<<i - 1, j>>] <= d[<<i, j>>] + 1
  /\ j > 0 => d[<<i, j>>] <= d[<<i, j - 1>>] + 1 /\ d[<<i, j - 1>>] <= d[<<i, j>>] + 1

\* All entries are so, diagonal by diagonal.
LEMMA EntriesNear ==
  ASSUME NEW s, NEW t, Len(s) \in Nat, Len(t) \in Nat
  PROVE  \A i \in 0..Len(s) : \A j \in 0..Len(t) : Near(Table(s, t), i, j)
<1> DEFINE d == Table(s, t)
           Good == {n \in Nat : \A i \in 0..Len(s) : \A j \in 0..Len(t) : i + j < n => Near(d, i, j)}
<1>1. 0 \in Good
  OBVIOUS
<1>2. ASSUME NEW n \in Nat, n \in Good PROVE n + 1 \in Good
  <2> SUFFICES ASSUME NEW i \in 0..Len(s), NEW j \in 0..Len(t), i + j < n + 1 PROVE Near(d, i, j)
    OBVIOUS
  <2>1. \A k \in 0..Len(s) : \A l \in 0..Len(t) : k + l < n => Near(d, k, l)
    BY <1>2
  <2>2. /\ i = 0 => d[<<i, j>>] = j
        /\ j = 0 => d[<<i, j>>] = i
        /\ i # 0 /\ j # 0 =>
              d[<<i, j>>] = IF s[i] = t[j] THEN d[<<i - 1, j - 1>>]
                            ELSE 1 + AtMost(d[<<i - 1, j - 1>>], AtMost(d[<<i - 1, j>>], d[<<i, j - 1>>]))
    BY TableAt
  <2>a. ASSUME i = 0, j > 0 PROVE d[<<i, j - 1>>] = j - 1
    <3>1. j - 1 \in 0..Len(t)
      BY <2>a
    <3> QED
      BY <2>a, <3>1, Border
  <2>b. ASSUME j = 0, i > 0 PROVE d[<<i - 1, j>>] = i - 1
    <3>1. i - 1 \in 0..Len(s)
      BY <2>b
    <3> QED
      BY <2>b, <3>1, Border
  <2> HIDE DEF d
  <2>3. CASE i = 0 \/ j = 0
    BY <2>2, <2>3, <2>a, <2>b DEF Near
  <2>4. CASE i > 0 /\ j > 0
    <3> DEFINE a == d[<<i - 1, j - 1>>]
               b == d[<<i - 1, j>>]
               c == d[<<i, j - 1>>]
               e == d[<<i, j>>]
    <3>1. Near(d, i - 1, j - 1) /\ Near(d, i - 1, j) /\ Near(d, i, j - 1)
      BY <2>1, <2>4
    <3>2. /\ a \in Nat /\ b \in Nat /\ c \in Nat
          /\ a <= (i - 1) + (j - 1) /\ a >= i - j /\ a >= j - i
          /\ b <= (i - 1) + j /\ b >= i - 1 - j /\ b >= j - (i - 1)
          /\ c <= i + (j - 1) /\ c >= i - (j - 1) /\ c >= j - 1 - i
          /\ b <= a + 1 /\ a <= b + 1 /\ c <= a + 1 /\ a <= c + 1
      BY <2>4, <3>1 DEF Near
    <3>3. e = IF s[i] = t[j] THEN a ELSE 1 + AtMost(a, AtMost(b, c))
      BY <2>2, <2>4
    <3> HIDE DEF a, b, c, e
    <3>4. /\ e \in Nat /\ e <= i + j /\ e >= i - j /\ e >= j - i
          /\ e <= b + 1 /\ b <= e + 1 /\ e <= c + 1 /\ c <= e + 1
      BY <3>2, <3>3 DEF AtMost
    <3> QED
      BY <3>4 DEF Near, a, b, c, e
  <2> QED
    BY <2>3, <2>4
<1>3. \A n \in Nat : n \in Good
  <2> HIDE DEF Good
  <2> QED
    BY <1>1, <1>2, Numbers
<1> SUFFICES ASSUME NEW i \in 0..Len(s), NEW j \in 0..Len(t) PROVE Near(d, i, j)
  OBVIOUS
<1>4. i + j + 1 \in Good
  <2> HIDE DEF Good
  <2> QED
    BY <1>3
<1> QED
  BY <1>4

\* So the least of the three entries that the code takes, with no cost on the diagonal
\* where the letters agree, is the entry by definition.
LEMMA LeastOfThree ==
  ASSUME NEW s, NEW t, Len(s) \in Nat, Len(t) \in Nat, NEW i \in 1..Len(s), NEW j \in 1..Len(t)
  PROVE  LET d == Table(s, t) IN
         d[<<i, j>>] = AtMost(AtMost(d[<<i - 1, j>>] + 1, d[<<i, j - 1>>] + 1),
                              d[<<i - 1, j - 1>>] + (IF s[i] = t[j] THEN 0 ELSE 1))
<1> DEFINE d == Table(s, t)
<1>1. d[<<i, j>>] = IF s[i] = t[j] THEN d[<<i - 1, j - 1>>]
                    ELSE 1 + AtMost(d[<<i - 1, j - 1>>], AtMost(d[<<i - 1, j>>], d[<<i, j - 1>>]))
  BY TableAt
<1>2. Near(d, i - 1, j) /\ Near(d, i, j - 1) /\ Near(d, i - 1, j - 1)
  BY EntriesNear
<1> HIDE DEF d
<1> DEFINE a == d[<<i - 1, j - 1>>]
           b == d[<<i - 1, j>>]
           c == d[<<i, j - 1>>]
<1>3. a \in Nat /\ b \in Nat /\ c \in Nat /\ a <= b + 1 /\ a <= c + 1
  BY <1>2 DEF Near
<1> HIDE DEF a, b, c
<1>4. (IF s[i] = t[j] THEN a ELSE 1 + AtMost(a, AtMost(b, c)))
        = AtMost(AtMost(b + 1, c + 1), a + (IF s[i] = t[j] THEN 0 ELSE 1))
  BY <1>3 DEF AtMost
<1> QED
  BY <1>1, <1>4 DEF a, b, c, d

\* A row above the tolerance has none but such rows after it.
LEMMA RowsStayAbove ==
  ASSUME NEW s, NEW t, Len(s) \in Nat, Len(t) \in Nat, NEW max \in Nat, NEW i \in 0..Len(s),
         \A j \in 0..Len(t) : Table(s, t)[<<i, j>>] > max
  PROVE  Table(s, t)[<<Len(s), Len(t)>>] > max
<1> DEFINE d == Table(s, t)
           Good == {n \in Nat : i + n \in 0..Len(s) => \A j \in 0..Len(t) : d[<<i + n, j>>] > max}
<1>1. 0 \in Good
  OBVIOUS
<1>2. ASSUME NEW n \in Nat, n \in Good PROVE n + 1 \in Good
  <2> SUFFICES ASSUME i + (n + 1) \in 0..Len(s)
               PROVE  \A j \in 0..Len(t) : d[<<i + (n + 1), j>>] > max
    OBVIOUS
  <2> DEFINE k == i + n + 1
             Done == {j \in Nat : j <= Len(t) => d[<<k, j>>] > max}
  <2>1. \A j \in 0..Len(t) : d[<<k - 1, j>>] > max
    BY <1>2
  <2>2. k \in 1..Len(s)
    OBVIOUS
  <2>3. \A l \in 0..Len(s) : \A j \in 0..Len(t) : d[<<l, j>>] \in Nat
    BY EntriesNear DEF Near
  <2>4. 0 \in Done
    <3>1. k \in 0..Len(s) /\ k - 1 \in 0..Len(s) /\ 0 \in 0..Len(t)
      BY <2>2
    <3>2. d[<<k, 0>>] = k /\ d[<<k - 1, 0>>] = k - 1
      <4> HIDE DEF k, Good, Done
      <4> QED
        BY <3>1, Border
    <3> QED
      BY <2>1, <2>2, <3>2
  <2>5. ASSUME NEW j \in Nat, j \in Done PROVE j + 1 \in Done
    <3> SUFFICES ASSUME j + 1 <= Len(t) PROVE d[<<k, j + 1>>] > max
      OBVIOUS
    <3>1. d[<<k, j + 1>>] = IF s[k] = t[j + 1] THEN d[<<k - 1, (j + 1) - 1>>]
                    ELSE 1 + AtMost(d[<<k - 1, (j + 1) - 1>>],
                                    AtMost(d[<<k - 1, j + 1>>], d[<<k, (j + 1) - 1>>]))
      <4> DEFINE l == j + 1
      <4>1. k \in 0..Len(s) /\ k # 0 /\ l \in 0..Len(t) /\ l # 0
        BY <2>2
      <4> HIDE DEF k, l, Done, Good
      <4>2. d[<<k, l>>] = IF s[k] = t[l] THEN d[<<k - 1, l - 1>>]
                    ELSE 1 + AtMost(d[<<k - 1, l - 1>>], AtMost(d[<<k - 1, l>>], d[<<k, l - 1>>]))
        BY <4>1, TableAt
      <4> QED
        BY <4>2 DEF l
    <3>2. (j + 1) - 1 = j /\ d[<<k, j>>] > max
      BY <2>5
    <3> HIDE DEF k, Done, Good, d
    <3>3. /\ d[<<k - 1, j>>] > max /\ d[<<k - 1, j + 1>>] > max
          /\ d[<<k - 1, j>>] \in Nat /\ d[<<k - 1, j + 1>>] \in Nat /\ d[<<k, j>>] \in Nat
      <4>1. k \in 0..Len(s) /\ k - 1 \in 0..Len(s) /\ j \in 0..Len(t) /\ j + 1 \in 0..Len(t)
        BY <2>2
      <4>2. /\ d[<<k - 1, j>>] \in Nat /\ d[<<k - 1, j + 1>>] \in Nat /\ d[<<k, j>>] \in Nat
        BY <2>3, <4>1
      <4>3. d[<<k - 1, j>>] > max /\ d[<<k - 1, j + 1>>] > max
        BY <2>1, <4>1
      <4> QED
        BY <4>2, <4>3
    <3> QED
      BY <3>1, <3>2, <3>3 DEF AtMost
  <2>6. \A j \in Nat : j \in Done
    <3> HIDE DEF Done
    <3> QED
      BY <2>4, <2>5, Numbers
  <2> QED
    BY <2>6
<1>3. \A n \in Nat : n \in Good
  <2> HIDE DEF Good
  <2> QED
    BY <1>1, <1>2, Numbers
<1>4. Len(s) - i \in Good
  <2> HIDE DEF Good
  <2> QED
    BY <1>3
<1>5. i + (Len(s) - i) = Len(s)
  OBVIOUS
<1> QED
  BY <1>4, <1>5

-----------------------------------------------------------------------------
(* Names: the comparison fills this table, or knows what it would say. *)

\* The recursion of NextRow.
IsRow(i, cur) ==
  cur = [j \in 0..Len(listed) |->
          IF j = 0 THEN i
          ELSE LET cost == IF given[i] = listed[j] THEN 0 ELSE 1
               IN  AtMost(AtMost(prev[j] + 1, cur[j - 1] + 1), prev[j - 1] + cost)]

\* The row that the loop over j computes is one that satisfies its recursion.
LEMMA NextRowUnfold ==
  ASSUME NEW i
  PROVE  NextRow(i) = CHOOSE cur : IsRow(i, cur)
  BY DEF NextRow, IsRow

\* What is known of a text.
LEMMA TextIs ==
  ASSUME NamesAssumption, NEW s \in Texts
  PROVE  /\ Len(s) \in 0..MaxLength /\ Len(s) \in Nat /\ s \in Seq(Letters)
         /\ DOMAIN s = 1..Len(s)
<1>1. PICK n \in 0..MaxLength : s \in [1..n -> Letters]
  BY DEF Texts
<1>2. n \in Nat
  BY DEF NamesAssumption
<1>3. s \in Seq(Letters)
  BY <1>1, <1>2, SeqDef
<1> QED
  BY <1>1, <1>2, <1>3, LenProperties

\* The row at hand is that of the table.
RowIsRight == \A j \in 0..Len(listed) : prev[j] = Table(given, listed)[<<line, j>>]

\* A row is filled from the row before as the definition of the distance has it.
LEMMA RowFilled ==
  ASSUME Len(given) \in Nat, Len(listed) \in Nat, line \in Nat, line < Len(given), RowIsRight
  PROVE  NextRow(line + 1) = [j \in 0..Len(listed) |-> Table(given, listed)[<<line + 1, j>>]]
<1> DEFINE d == Table(given, listed)
           i == line + 1
           row == [j \in 0..Len(listed) |-> d[<<i, j>>]]
           cur == NextRow(i)
<1>1. i \in 1..Len(given) /\ i - 1 = line
  OBVIOUS
<1>2. \A j \in 1..Len(listed) :
        d[<<i, j>>] = AtMost(AtMost(d[<<i - 1, j>>] + 1, d[<<i, j - 1>>] + 1),
                             d[<<i - 1, j - 1>>] + (IF given[i] = listed[j] THEN 0 ELSE 1))
  BY <1>1, LeastOfThree
<1>3. d[<<i, 0>>] = i
  BY <1>1, Border
<1>4. \A j \in 1..Len(listed) : d[<<i - 1, j>>] = prev[j] /\ d[<<i - 1, j - 1>>] = prev[j - 1]
  BY <1>1 DEF RowIsRight
<1> HIDE DEF d, i
<1>5. \A j \in 0..Len(listed) :
        row[j] = IF j = 0 THEN i
                 ELSE AtMost(AtMost(prev[j] + 1, row[j - 1] + 1),
                             prev[j - 1] + (IF given[i] = listed[j] THEN 0 ELSE 1))
  <2> SUFFICES ASSUME NEW j \in 0..Len(listed)
               PROVE  row[j] = IF j = 0 THEN i
                               ELSE AtMost(AtMost(prev[j] + 1, row[j - 1] + 1),
                                           prev[j - 1] + (IF given[i] = listed[j] THEN 0 ELSE 1))
    OBVIOUS
  <2>1. row[j] = d[<<i, j>>]
    OBVIOUS
  <2>2. CASE j = 0
    BY <1>3, <2>1, <2>2
  <2>3. CASE j # 0
    <3>1. j \in 1..Len(listed) /\ row[j - 1] = d[<<i, j - 1>>]
      BY <2>3
    <3> HIDE DEF row
    <3> QED
      BY <1>2, <1>4, <2>1, <2>3, <3>1
  <2> QED
    BY <2>2, <2>3
<1>6. IsRow(i, row)
  <2> HIDE DEF row
  <2>1. row = [j \in 0..Len(listed) |-> row[j]]
    BY DEF row
  <2> QED
    BY <1>5, <2>1 DEF IsRow
<1>7. IsRow(i, cur)
  BY <1>6, NextRowUnfold
<1> HIDE DEF cur
<1>8. \A j \in 0..Len(listed) :
        cur[j] = IF j = 0 THEN i
                 ELSE AtMost(AtMost(prev[j] + 1, cur[j - 1] + 1),
                             prev[j - 1] + (IF given[i] = listed[j] THEN 0 ELSE 1))
  BY <1>7 DEF IsRow
<1> DEFINE Same == {j \in Nat : j <= Len(listed) => cur[j] = row[j]}
<1> HIDE DEF row
<1>9. 0 \in Same
  BY <1>5, <1>8
<1>10. ASSUME NEW j \in Nat, j \in Same PROVE j + 1 \in Same
  <2> SUFFICES ASSUME j + 1 <= Len(listed) PROVE cur[j + 1] = row[j + 1]
    OBVIOUS
  <2>1. j + 1 \in 0..Len(listed) /\ j + 1 # 0 /\ (j + 1) - 1 = j /\ cur[j] = row[j]
    BY <1>10
  <2> QED
    BY <1>5, <1>8, <2>1
<1>11. \A j \in Nat : j \in Same
  <2> HIDE DEF Same
  <2> QED
    BY <1>9, <1>10, Numbers
<1>12. \A j \in 0..Len(listed) : cur[j] = row[j]
  BY <1>11
<1>13. cur = [j \in 0..Len(listed) |-> cur[j]]
  BY <1>7 DEF IsRow
<1>14. row = [j \in 0..Len(listed) |-> row[j]]
  BY DEF row
<1>15. cur = row
  BY <1>12, <1>13, <1>14
<1> QED
  BY <1>15 DEF cur, row, i, d

\* What is returned is exact within the tolerance and only then within it.
Answered ==
  result # -1 => IF Distance <= tolerance THEN result = Distance ELSE result > tolerance

NamesIInv == NamesTypeOK /\ RowIsRight /\ Answered

\* The comparison starts with the first row of the table.
LEMMA NamesStart == NamesInit => NamesIInv
<1> SUFFICES ASSUME NamesInit PROVE NamesIInv
  OBVIOUS
<1>1. /\ Len(given) \in 0..MaxLength /\ Len(listed) \in 0..MaxLength
      /\ Len(given) \in Nat /\ Len(listed) \in Nat
  BY NamesAssumption, TextIs DEF NamesInit
<1>2. NamesTypeOK
  BY <1>1, NamesAssumption DEF NamesInit, NamesTypeOK, NamesAssumption
<1>3. RowIsRight
  BY <1>1, Border DEF NamesInit, RowIsRight
<1> QED
  BY <1>2, <1>3 DEF NamesInit, NamesIInv, Answered

\* Every step keeps it: a row more, giving up, the last entry.
LEMMA NamesKeeps == NamesIInv /\ [NamesNext]_namesVars => NamesIInv'
<1> SUFFICES ASSUME NamesIInv, [NamesNext]_namesVars PROVE NamesIInv'
  OBVIOUS
<1> DEFINE d == Table(given, listed)
           m == Len(given)
           n == Len(listed)
<1>1. /\ NamesTypeOK /\ RowIsRight /\ Answered /\ MaxLength \in Nat /\ MaxTolerance \in Nat
      /\ m \in 0..MaxLength /\ n \in 0..MaxLength /\ tolerance \in Nat /\ tolerance <= MaxTolerance
      /\ line \in 0..m
  BY NamesAssumption, TextIs DEF NamesIInv, NamesTypeOK, NamesAssumption
<1>2. Distance = d[<<m, n>>]
  BY DistanceUnfold
<1>3. \A i \in 0..m : \A j \in 0..n : Near(d, i, j)
  BY <1>1, EntriesNear
<1>4. Near(d, m, n)
  BY <1>1, <1>3
<1>5. CASE TooLong
  <2>1. /\ UNCHANGED <<given, listed, tolerance, line, prev>> /\ result' = tolerance + 1
        /\ m - n \notin -tolerance..tolerance
    BY <1>5 DEF TooLong, Apart
  <2>2. d[<<m, n>>] > tolerance /\ tolerance + 1 <= MaxLength
    <3> HIDE DEF d, m, n
    <3> QED
      BY <1>1, <1>4, <2>1 DEF Near
  <2>3. Answered' /\ RowIsRight'
    <3>1. Distance' = Distance
      BY <2>1 DEF Distance
    <3>2. Distance \in Nat /\ Distance > tolerance
      BY <1>2, <1>4, <2>2 DEF Near
    <3>3. result' > tolerance' /\ ~(Distance' <= tolerance')
      BY <1>1, <2>1, <3>1, <3>2
    <3> QED
      BY <1>1, <2>1, <3>3 DEF Answered, RowIsRight
  <2>4. NamesTypeOK'
    BY <1>1, <2>1, <2>2 DEF NamesTypeOK
  <2> QED
    BY <2>3, <2>4 DEF NamesIInv
<1>6. CASE FillRow
  <2> DEFINE cur == NextRow(line + 1)
  <2>1. /\ UNCHANGED <<given, listed, tolerance>> /\ line < m
        /\ IF GivesUp(cur) THEN result' = tolerance + 1 /\ UNCHANGED <<line, prev>>
           ELSE line' = line + 1 /\ prev' = cur /\ UNCHANGED result
    BY <1>6 DEF FillRow
  <2>2. cur = [j \in 0..n |-> d[<<line + 1, j>>]]
    BY <1>1, <2>1, RowFilled
  <2> HIDE DEF cur
  <2>3. \A j \in 0..n : cur[j] = d[<<line + 1, j>>] /\ cur[j] \in 0..(2 * MaxLength)
    <3>1. line + 1 \in 0..m
      BY <1>1, <2>1
    <3> SUFFICES ASSUME NEW j \in 0..n PROVE cur[j] = d[<<line + 1, j>>] /\ cur[j] \in 0..(2 * MaxLength)
      OBVIOUS
    <3>2. Near(d, line + 1, j)
      BY <1>3, <3>1
    <3>3. cur[j] = d[<<line + 1, j>>]
      BY <2>2
    <3> HIDE DEF d, m, n
    <3> QED
      BY <1>1, <3>1, <3>2, <3>3 DEF Near
  <2>4. cur \in [0..n -> 0..(2 * MaxLength)] /\ DOMAIN cur = 0..n
    BY <2>2, <2>3
  <2>5. CASE GivesUp(cur)
    <3>1. \A j \in 0..n : d[<<line + 1, j>>] > tolerance
      BY <2>3, <2>4, <2>5 DEF GivesUp
    <3>2. d[<<m, n>>] > tolerance
      <4>1. line + 1 \in 0..m /\ m \in Nat /\ n \in Nat
        BY <1>1, <2>1
      <4> QED
        BY <1>1, <3>1, <4>1, RowsStayAbove
    <3>3. tolerance + 1 \in 0..(2 * MaxLength)
      <4>1. 0 \in 0..n
        BY <1>1
      <4>2. cur[0] > tolerance /\ cur[0] \in 0..(2 * MaxLength)
        BY <2>3, <3>1, <4>1
      <4> QED
        BY <1>1, <4>2
    <3>4. Distance' = Distance
      BY <2>1 DEF Distance
    <3>5. Distance \in Nat /\ Distance > tolerance
      BY <1>2, <1>4, <3>2 DEF Near
    <3>6. result' > tolerance' /\ ~(Distance' <= tolerance')
      BY <1>1, <2>1, <2>5, <3>4, <3>5
    <3>7. Answered' /\ RowIsRight'
      BY <1>1, <2>1, <2>5, <3>6 DEF Answered, RowIsRight
    <3>8. NamesTypeOK'
      BY <1>1, <2>1, <2>5, <3>3 DEF NamesTypeOK
    <3> QED
      BY <3>7, <3>8 DEF NamesIInv
  <2>6. CASE ~GivesUp(cur)
    <3>1. RowIsRight'
      BY <2>1, <2>3, <2>6 DEF RowIsRight
    <3>2. Distance' = Distance
      BY <2>1 DEF Distance
    <3>3. Answered'
      BY <1>1, <2>1, <2>6, <3>2 DEF Answered
    <3>4. NamesTypeOK'
      BY <1>1, <2>1, <2>4, <2>6 DEF NamesTypeOK
    <3> QED
      BY <3>1, <3>3, <3>4 DEF NamesIInv
  <2> QED
    BY <2>5, <2>6
<1>7. CASE Return
  <2>1. /\ UNCHANGED <<given, listed, tolerance, line, prev>> /\ result' = prev[n] /\ line = m
    BY <1>7 DEF Return
  <2>2. result' = d[<<m, n>>] /\ prev[n] \in 0..(2 * MaxLength)
    BY <1>1, <2>1 DEF RowIsRight, NamesTypeOK
  <2>3. Distance' = Distance /\ Distance \in Nat
    BY <1>2, <1>4, <2>1 DEF Distance, Near
  <2>4. Answered' /\ RowIsRight'
    BY <1>1, <1>2, <2>1, <2>2, <2>3 DEF Answered, RowIsRight
  <2>5. NamesTypeOK'
    BY <1>1, <2>1, <2>2 DEF NamesTypeOK
  <2> QED
    BY <2>4, <2>5 DEF NamesIInv
<1>8. CASE UNCHANGED namesVars
  <2>1. Distance' = Distance
    BY <1>8 DEF namesVars, Distance
  <2> QED
    BY <1>1, <1>8, <2>1 DEF namesVars, NamesIInv, NamesTypeOK, RowIsRight, Answered
<1> QED
  BY <1>5, <1>6, <1>7, <1>8 DEF NamesNext

\* The inductive invariant holds in every reachable state.
LEMMA NamesInvariant == NamesSpec => []NamesIInv
  BY NamesStart, NamesKeeps, PTL DEF NamesSpec

-----------------------------------------------------------------------------
(* Names: words left over. *)

\* A word occurs a natural number of times; where it does not occur it does so zero
\* times, and otherwise there is a first place.
LEMMA Occurs ==
  ASSUME NEW u \in Seq(Letters), NEW w
  PROVE  /\ IsFiniteSet({k \in DOMAIN u : u[k] = w}) /\ Occurrences(w, u) \in Nat
         /\ (\E k \in DOMAIN u : u[k] = w) <=> Occurrences(w, u) # 0
         /\ (\E k \in DOMAIN u : u[k] = w) =>
              \E k \in DOMAIN u : u[k] = w /\ \A l \in 1..(k - 1) : u[l] # w
<1> DEFINE K == {k \in DOMAIN u : u[k] = w}
<1>1. Len(u) \in Nat /\ DOMAIN u = 1..Len(u) /\ IsFiniteSet(1..Len(u))
  BY LenProperties, FS_Interval
<1>2. K \subseteq 1..Len(u)
  BY <1>1
<1>3. IsFiniteSet(K) /\ Cardinality(K) \in Nat /\ (Cardinality(K) = 0 <=> K = {})
  <2> HIDE DEF K
  <2> QED
    BY <1>1, <1>2, FS_Subset, FS_CardinalityType, FS_EmptySet
<1>4. ASSUME ~ \E k \in DOMAIN u : u[k] = w /\ \A l \in 1..(k - 1) : u[l] # w
      PROVE  \A k \in DOMAIN u : u[k] # w
  <2> DEFINE Before == {n \in Nat : \A l \in 1..n : l \in DOMAIN u => u[l] # w}
  <2>1. 0 \in Before
    OBVIOUS
  <2>2. ASSUME NEW n \in Nat, n \in Before PROVE n + 1 \in Before
    <3>1. n + 1 \in DOMAIN u => u[n + 1] # w
      BY <1>1, <1>4, <2>2
    <3> QED
      BY <2>2, <3>1
  <2>3. \A n \in Nat : n \in Before
    <3> HIDE DEF Before
    <3> QED
      BY <2>1, <2>2, Numbers
  <2> QED
    BY <1>1, <2>3
<1> QED
  BY <1>3, <1>4 DEF Occurrences

\* Taking a word out takes out one occurrence of it and nothing else.
LEMMA TakenOut ==
  ASSUME NEW u \in Seq(Letters), NEW w, \E k \in DOMAIN u : u[k] = w
  PROVE  /\ Without(u, w) \in Seq(Letters) /\ Len(Without(u, w)) = Len(u) - 1
         /\ \A v : Occurrences(v, Without(u, w)) =
                     IF v = w THEN Occurrences(v, u) - 1 ELSE Occurrences(v, u)
<1> DEFINE i == CHOOSE k \in DOMAIN u : u[k] = w /\ \A l \in 1..(k - 1) : u[l] # w
           r == Without(u, w)
           before == SubSeq(u, 1, i - 1)
           after == SubSeq(u, i + 1, Len(u))
<1>1. Len(u) \in Nat /\ DOMAIN u = 1..Len(u) /\ \A k \in 1..Len(u) : u[k] \in Letters
  BY LenProperties, ElementOfSeq
<1>2. i \in 1..Len(u) /\ u[i] = w
  BY <1>1, Occurs
<1>3. r = before \o after
  BY DEF Without
<1> HIDE DEF i
<1>4. /\ before \in Seq(Letters) /\ Len(before) = i - 1
      /\ \A k \in 1..(i - 1) : before[k] = u[k]
  BY <1>1, <1>2, SubSeqProperties
<1>5. /\ after \in Seq(Letters) /\ Len(after) = Len(u) - i
      /\ \A k \in 1..(Len(u) - i) : after[k] = u[i + k]
  <2>1. i + 1 \in Int /\ Len(u) \in Int /\ \A k \in (i + 1)..Len(u) : u[k] \in Letters
    BY <1>1, <1>2
  <2>2. /\ after \in Seq(Letters)
        /\ Len(after) = IF i + 1 <= Len(u) THEN Len(u) - (i + 1) + 1 ELSE 0
        /\ \A k \in 1..(Len(u) - (i + 1) + 1) : after[k] = u[i + 1 + k - 1]
    BY <2>1, SubSeqProperties
  <2> HIDE DEF after
  <2>3. ASSUME NEW k \in 1..(Len(u) - i) PROVE after[k] = u[i + k]
    <3>1. k \in 1..(Len(u) - (i + 1) + 1) /\ i + 1 + k - 1 = i + k
      BY <1>1, <1>2
    <3> QED
      BY <2>2, <3>1
  <2>4. Len(after) = Len(u) - i
    <3>1. i \in Int /\ Len(u) \in Int /\ i <= Len(u)
      BY <1>1, <1>2
    <3>2. (IF i + 1 <= Len(u) THEN Len(u) - (i + 1) + 1 ELSE 0) = Len(u) - i
      BY <3>1
    <3> QED
      BY <2>2, <3>2
  <2> QED
    BY <2>2, <2>3, <2>4
<1> HIDE DEF before, after, r
<1>6. /\ r \in Seq(Letters) /\ Len(r) = Len(u) - 1
      /\ \A k \in 1..(Len(u) - 1) : r[k] = IF k < i THEN u[k] ELSE u[k + 1]
  <2>1. /\ r \in Seq(Letters) /\ Len(r) = (i - 1) + (Len(u) - i)
        /\ \A k \in 1..((i - 1) + (Len(u) - i)) :
             r[k] = IF k <= i - 1 THEN before[k] ELSE after[k - (i - 1)]
    <3>1. /\ r \in Seq(Letters) /\ Len(r) = Len(before) + Len(after)
          /\ \A k \in 1..(Len(before) + Len(after)) :
               r[k] = IF k <= Len(before) THEN before[k] ELSE after[k - Len(before)]
      BY <1>3, <1>4, <1>5, ConcatProperties
    <3> QED
      BY <1>4, <1>5, <3>1
  <2>2. (i - 1) + (Len(u) - i) = Len(u) - 1
    BY <1>1, <1>2
  <2>3. ASSUME NEW k \in 1..(Len(u) - 1) PROVE r[k] = IF k < i THEN u[k] ELSE u[k + 1]
    <3>0. r[k] = IF k <= i - 1 THEN before[k] ELSE after[k - (i - 1)]
      BY <2>1, <2>2
    <3>1. CASE k < i
      <4>1. k \in 1..(i - 1) /\ k <= i - 1
        BY <1>1, <1>2, <3>1
      <4> QED
        BY <1>4, <3>0, <3>1, <4>1
    <3>2. CASE k >= i
      <4> DEFINE l == k - (i - 1)
      <4>1. l \in 1..(Len(u) - i) /\ i + l = k + 1 /\ ~(k <= i - 1) /\ ~(k < i)
        BY <1>1, <1>2, <3>2
      <4>2. r[k] = after[l]
        BY <3>0, <4>1
      <4> HIDE DEF l
      <4> QED
        BY <1>5, <4>1, <4>2
    <3> QED
      BY <1>1, <1>2, <3>1, <3>2
  <2> QED
    BY <2>1, <2>2, <2>3
<1>7. DOMAIN r = 1..(Len(u) - 1)
  BY <1>6, LenProperties
<1>8. ASSUME NEW v
      PROVE  Occurrences(v, r) = IF v = w THEN Occurrences(v, u) - 1 ELSE Occurrences(v, u)
  <2> DEFINE K == {k \in DOMAIN u : u[k] = v}
             J == {k \in DOMAIN r : r[k] = v}
             f == [k \in K \ {i} |-> IF k < i THEN k ELSE k - 1]
  <2>1. IsFiniteSet(K) /\ Occurrences(v, u) = Cardinality(K) /\ Occurrences(v, r) = Cardinality(J)
    BY Occurs DEF Occurrences
  <2>2. \A k \in K \ {i} : f[k] \in J
    BY <1>1, <1>2, <1>6, <1>7
  <2>3. \A k, l \in K \ {i} : f[k] = f[l] => k = l
    BY <1>1, <1>2
  <2>4. ASSUME NEW j \in J PROVE \E k \in K \ {i} : f[k] = j
    <3>1. j \in 1..(Len(u) - 1) /\ r[j] = v
      BY <1>7
    <3>2. CASE j < i
      <4>1. j \in K \ {i} /\ f[j] = j
        BY <1>1, <1>2, <1>6, <3>1, <3>2
      <4> QED
        BY <4>1
    <3>3. CASE j >= i
      <4>1. j + 1 \in K \ {i}
        BY <1>1, <1>2, <1>6, <3>1, <3>3
      <4>2. f[j + 1] = j
        BY <1>2, <3>1, <3>3, <4>1
      <4> QED
        BY <4>1, <4>2
    <3>4. j < i \/ j >= i
      BY <1>1, <1>2, <3>1
    <3> HIDE DEF f, K, J
    <3> QED
      BY <3>2, <3>3, <3>4
  <2>5. f \in Bijection(K \ {i}, J)
    <3>1. f \in [K \ {i} -> J]
      BY <2>2
    <3> HIDE DEF f, K, J
    <3> QED
      BY <2>3, <2>4, <3>1 DEF Bijection, Injection, Surjection, IsInjective
  <2> HIDE DEF f, K, J
  <2>6. IsFiniteSet(K \ {i}) /\ Cardinality(K \ {i}) = IF i \in K THEN Cardinality(K) - 1 ELSE Cardinality(K)
    BY <2>1, FS_RemoveElement
  <2>7. Cardinality(J) = Cardinality(K \ {i})
    BY <2>5, <2>6, FS_Bijection DEF ExistsBijection
  <2>8. i \in K <=> v = w
    BY <1>1, <1>2 DEF K
  <2> QED
    BY <2>1, <2>6, <2>7, <2>8
<1> QED
  BY <1>6, <1>8 DEF r

\* What is left of the candidate's words: the recursion of ExtraNames.
Rest(candidate, words, f, n) ==
  IF n = 0 THEN candidate
  ELSE IF \E k \in DOMAIN f[n - 1] : f[n - 1][k] = words[n]
       THEN Without(f[n - 1], words[n]) ELSE <<>>

IsRemaining(candidate, words, f) ==
  f = [n \in 0..Len(words) |-> Rest(candidate, words, f, n)]

Remaining(candidate, words) == CHOOSE f : IsRemaining(candidate, words, f)

\* extraNamesBeyond in terms of that recursion.
LEMMA ExtraNamesUnfold ==
  ASSUME NEW candidate, NEW words
  PROVE  ExtraNames(candidate, words) =
           LET extra == Len(candidate) - Len(words)
           IN  IF extra \in {1, 2} /\ Len(Remaining(candidate, words)[Len(words)]) = extra
               THEN extra ELSE -1
  BY DEF ExtraNames, Remaining, IsRemaining, Rest

\* The recursion has a solution, found one word at a time.
LEMMA RemainingExists ==
  ASSUME NEW candidate, NEW words, Len(words) \in Nat
  PROVE  LET f == Remaining(candidate, words) IN
         \A n \in 0..Len(words) : f[n] = Rest(candidate, words, f, n)
<1> DEFINE All == 0..Len(words)
           Good == {n \in Nat : \E f : \A k \in All : k < n => f[k] = Rest(candidate, words, f, k)}
<1>1. 0 \in Good
  OBVIOUS
<1>2. ASSUME NEW n \in Nat, n \in Good PROVE n + 1 \in Good
  <2>1. PICK f : \A k \in All : k < n => f[k] = Rest(candidate, words, f, k)
    BY <1>2
  <2> DEFINE g == [k \in All |-> Rest(candidate, words, f, k)]
  <2>2. ASSUME NEW k \in All, k < n + 1 PROVE g[k] = Rest(candidate, words, g, k)
    <3>1. g[k] = Rest(candidate, words, f, k)
      OBVIOUS
    <3>2. k # 0 => g[k - 1] = f[k - 1]
      <4> SUFFICES ASSUME k # 0 PROVE g[k - 1] = f[k - 1]
        OBVIOUS
      <4>1. k - 1 \in All /\ k - 1 < n
        BY <2>2
      <4> QED
        BY <2>1, <4>1
    <3> HIDE DEF g
    <3> QED
      BY <3>1, <3>2 DEF Rest
  <2> HIDE DEF g
  <2> QED
    BY <2>2
<1>3. \A n \in Nat : n \in Good
  <2> HIDE DEF Good
  <2> QED
    BY <1>1, <1>2, Numbers
<1>4. Len(words) + 1 \in Good
  <2> HIDE DEF Good
  <2> QED
    BY <1>3
<1>5. PICK f : \A k \in All : f[k] = Rest(candidate, words, f, k)
  BY <1>4
<1> DEFINE g == [k \in All |-> f[k]]
<1>6. ASSUME NEW k \in All PROVE g[k] = Rest(candidate, words, g, k)
  <2>1. g[k] = f[k] /\ (k # 0 => g[k - 1] = f[k - 1])
    OBVIOUS
  <2> HIDE DEF g
  <2> QED
    BY <1>5, <2>1 DEF Rest
<1>7. IsRemaining(candidate, words, g)
  <2>1. g = [k \in All |-> g[k]]
    OBVIOUS
  <2> HIDE DEF g
  <2> QED
    BY <1>6, <2>1 DEF IsRemaining
<1>8. IsRemaining(candidate, words, Remaining(candidate, words))
  BY <1>7 DEF Remaining
<1> QED
  BY <1>8 DEF IsRemaining

\* The first n of the words have w so many times.
Among(w, words, n) == Cardinality({k \in 1..n : words[k] = w})

\* A word more among the first.
LEMMA AmongGrows ==
  ASSUME NEW words, NEW n \in Nat, NEW w
  PROVE  /\ Among(w, words, 0) = 0 /\ Among(w, words, n) \in Nat
         /\ Among(w, words, n + 1) = IF words[n + 1] = w THEN Among(w, words, n) + 1 ELSE Among(w, words, n)
<1> DEFINE K == {k \in 1..n : words[k] = w}
           L == {k \in 1..(n + 1) : words[k] = w}
<1>1. {k \in 1..0 : words[k] = w} = {}
  OBVIOUS
<1>2. IsFiniteSet(1..n) /\ K \subseteq 1..n /\ n + 1 \notin K
  BY FS_Interval
<1>3. L = IF words[n + 1] = w THEN K \cup {n + 1} ELSE K
  OBVIOUS
<1>4. Among(w, words, 0) = 0
  BY <1>1, FS_EmptySet DEF Among
<1>5. Among(w, words, n) = Cardinality(K) /\ Among(w, words, n + 1) = Cardinality(L)
  BY DEF Among
<1> HIDE DEF K, L
<1>6. IsFiniteSet(K)
  BY <1>2, FS_Subset
<1> QED
  BY <1>2, <1>3, <1>4, <1>5, <1>6, FS_CardinalityType, FS_AddElement

\* After n words either each was found as often as it is among them and is taken out, or
\* one is more often among them than in the candidate and nothing is left.
LEMMA WhatRemains ==
  ASSUME NEW candidate \in Seq(Letters), NEW words \in Seq(Letters), NEW n \in 0..Len(words)
  PROVE  LET rest == Remaining(candidate, words)[n] IN
         \/ /\ rest \in Seq(Letters) /\ Len(rest) = Len(candidate) - n
            /\ \A w \in Letters : Occurrences(w, rest) = Occurrences(w, candidate) - Among(w, words, n)
         \/ /\ rest = <<>>
            /\ \E w \in Letters : Occurrences(w, candidate) < Among(w, words, n)
<1> DEFINE f == Remaining(candidate, words)
           Found(k) == /\ f[k] \in Seq(Letters) /\ Len(f[k]) = Len(candidate) - k
                       /\ \A w \in Letters : Occurrences(w, f[k]) = Occurrences(w, candidate) - Among(w, words, k)
           Missed(k) == f[k] = <<>> /\ \E w \in Letters : Occurrences(w, candidate) < Among(w, words, k)
           Good == {k \in Nat : k <= Len(words) => Found(k) \/ Missed(k)}
<1>1. Len(words) \in Nat /\ Len(candidate) \in Nat /\ \A k \in 1..Len(words) : words[k] \in Letters
  BY LenProperties, ElementOfSeq
<1>2. \A k \in 0..Len(words) : f[k] = Rest(candidate, words, f, k)
  BY <1>1, RemainingExists
<1>3. \A w : Occurrences(w, candidate) \in Nat
  BY Occurs
<1>4. \A k \in Nat : \A w :
        /\ Among(w, words, 0) = 0 /\ Among(w, words, k) \in Nat
        /\ Among(w, words, k + 1) = IF words[k + 1] = w THEN Among(w, words, k) + 1 ELSE Among(w, words, k)
  BY AmongGrows
<1> HIDE DEF f
<1>5. 0 \in Good
  <2>1. f[0] = candidate
    BY <1>1, <1>2 DEF Rest
  <2> QED
    BY <1>1, <1>3, <1>4, <2>1
<1>6. ASSUME NEW k \in Nat, k \in Good PROVE k + 1 \in Good
  <2> SUFFICES ASSUME k + 1 <= Len(words) PROVE Found(k + 1) \/ Missed(k + 1)
    OBVIOUS
  <2> DEFINE w == words[k + 1]
             there == \E l \in DOMAIN f[k] : f[k][l] = w
  <2>1. k + 1 \in 1..Len(words) /\ k + 1 # 0 /\ (k + 1) - 1 = k /\ w \in Letters
    BY <1>1
  <2>2. f[k + 1] = IF there THEN Without(f[k], w) ELSE <<>>
    BY <1>2, <2>1 DEF Rest
  <2>3. /\ Among(w, words, k + 1) = Among(w, words, k) + 1
        /\ \A v : Among(v, words, k) \in Nat /\ Among(v, words, k + 1) \in Nat
        /\ \A v : Among(v, words, k + 1) >= Among(v, words, k)
        /\ \A v : v # w => Among(v, words, k + 1) = Among(v, words, k)
    <3>1. ASSUME NEW v
          PROVE  /\ Among(v, words, k) \in Nat
                 /\ Among(v, words, k + 1) = IF w = v THEN Among(v, words, k) + 1 ELSE Among(v, words, k)
      BY <1>4
    <3> HIDE DEF w, there
    <3> QED
      BY <3>1
  <2>4. CASE Found(k)
    <3>1. there <=> Occurrences(w, f[k]) # 0
      BY <2>4, Occurs
    <3>2. CASE there
      <4>1. /\ f[k + 1] = Without(f[k], w)
            /\ Without(f[k], w) \in Seq(Letters) /\ Len(Without(f[k], w)) = Len(f[k]) - 1
            /\ \A v : Occurrences(v, Without(f[k], w)) =
                        IF v = w THEN Occurrences(v, f[k]) - 1 ELSE Occurrences(v, f[k])
        BY <2>2, <2>4, <3>2, TakenOut
      <4> HIDE DEF w, there
      <4>2. Len(f[k + 1]) = Len(candidate) - (k + 1)
        BY <1>1, <2>4, <4>1
      <4>3. ASSUME NEW v \in Letters
            PROVE  Occurrences(v, f[k + 1]) = Occurrences(v, candidate) - Among(v, words, k + 1)
        <5>1. Occurrences(v, f[k]) = Occurrences(v, candidate) - Among(v, words, k)
          BY <2>4
        <5>2. Occurrences(v, f[k + 1]) = IF v = w THEN Occurrences(v, f[k]) - 1 ELSE Occurrences(v, f[k])
          BY <4>1
        <5>3. Among(v, words, k + 1) = IF v = w THEN Among(v, words, k) + 1 ELSE Among(v, words, k)
          BY <2>3
        <5>4. Occurrences(v, candidate) \in Nat /\ Among(v, words, k) \in Nat
          BY <1>3, <2>3
        <5> HIDE DEF Found, Missed, Good
        <5> QED
          BY <5>1, <5>2, <5>3, <5>4
      <4> QED
        BY <4>1, <4>2, <4>3
    <3>3. CASE ~there
      <4>1. Occurrences(w, candidate) < Among(w, words, k + 1)
        <5> HIDE DEF w, there
        <5> QED
          BY <1>3, <2>1, <2>3, <2>4, <3>1, <3>3
      <4> QED
        BY <2>1, <2>2, <3>3, <4>1
    <3> QED
      BY <3>2, <3>3
  <2>5. CASE Missed(k)
    <3>1. ~there
      BY <2>5
    <3>2. PICK v \in Letters : Occurrences(v, candidate) < Among(v, words, k)
      BY <2>5
    <3>3. Occurrences(v, candidate) < Among(v, words, k + 1)
      <4> HIDE DEF w, there
      <4> QED
        BY <1>3, <2>3, <3>2
    <3> QED
      BY <2>2, <3>1, <3>3
  <2> QED
    BY <1>6, <2>4, <2>5
<1>7. \A k \in Nat : k \in Good
  <2> HIDE DEF Good
  <2> QED
    BY <1>5, <1>6, Numbers
<1>8. Found(n) \/ Missed(n)
  BY <1>7
<1> QED
  BY <1>8 DEF f

\* Words are extra exactly when all the listed ones are there, each as often as listed.
LEMMA ExtraNamesExact ==
  ASSUME NEW candidate \in Seq(Letters), NEW words \in Seq(Letters)
  PROVE  LET extra == Len(candidate) - Len(words)
             all   == \A w \in Letters : Occurrences(w, candidate) >= Occurrences(w, words)
         IN  ExtraNames(candidate, words) = IF extra \in {1, 2} /\ all THEN extra ELSE -1
<1> DEFINE extra == Len(candidate) - Len(words)
           all == \A w \in Letters : Occurrences(w, candidate) >= Occurrences(w, words)
           rest == Remaining(candidate, words)[Len(words)]
<1>1. Len(words) \in Nat /\ Len(candidate) \in Nat /\ DOMAIN words = 1..Len(words)
  BY LenProperties
<1>2. \A w : Among(w, words, Len(words)) = Occurrences(w, words)
  BY <1>1 DEF Among, Occurrences
<1>3. \A w : Occurrences(w, candidate) \in Nat /\ Occurrences(w, words) \in Nat
  BY Occurs
<1>4. \/ /\ rest \in Seq(Letters) /\ Len(rest) = extra
         /\ \A w \in Letters : Occurrences(w, rest) = Occurrences(w, candidate) - Occurrences(w, words)
      \/ /\ rest = <<>>
         /\ \E w \in Letters : Occurrences(w, candidate) < Occurrences(w, words)
  <2>1. Len(words) \in 0..Len(words)
    BY <1>1
  <2> HIDE DEF rest
  <2> QED
    BY <1>2, <2>1, WhatRemains DEF rest
<1>5. ExtraNames(candidate, words) = IF extra \in {1, 2} /\ Len(rest) = extra THEN extra ELSE -1
  BY ExtraNamesUnfold
<1> HIDE DEF rest
<1>6. CASE /\ rest \in Seq(Letters) /\ Len(rest) = extra
           /\ \A w \in Letters : Occurrences(w, rest) = Occurrences(w, candidate) - Occurrences(w, words)
  <2>1. \A w \in Letters : Occurrences(w, rest) \in Nat
    BY <1>6, Occurs
  <2>2. all
    BY <1>3, <1>6, <2>1
  <2> QED
    BY <1>5, <1>6, <2>2
<1>7. CASE rest = <<>> /\ \E w \in Letters : Occurrences(w, candidate) < Occurrences(w, words)
  <2>1. Len(rest) = 0
    BY <1>7
  <2>2. ~all
    BY <1>3, <1>7
  <2> QED
    BY <1>5, <2>1, <2>2
<1> QED
  BY <1>4, <1>6, <1>7

-----------------------------------------------------------------------------

\* For texts of any length over any letters and every tolerance, what
\* boundedLevenshtein returns is the edit distance where that is within the tolerance
\* and above the tolerance where it is not, whichever of its three ways out it takes;
\* and extraNamesBeyond counts the words left over exactly when every listed word is
\* there as often as it is listed (sanctions/screen.ts).
THEOREM MatchCorrect == NamesSpec => []MatchIsExact
<1>1. NamesIInv => MatchIsExact
  <2> SUFFICES ASSUME NamesIInv PROVE MatchIsExact
    OBVIOUS
  <2>1. given \in Seq(Letters) /\ listed \in Seq(Letters)
    BY NamesAssumption, TextIs DEF NamesIInv, NamesTypeOK
  <2> QED
    BY <2>1, ExtraNamesExact DEF NamesIInv, Answered, MatchIsExact
<1> QED
  BY <1>1, NamesInvariant, PTL

\* The rows of the table and what is returned stay within twice the longest text.
THEOREM NamesTypeCorrect == NamesSpec => []NamesTypeOK
  BY NamesInvariant, PTL DEF NamesIInv

=============================================================================
