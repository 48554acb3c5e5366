------------------------- MODULE EscrowMirrorProofs -------------------------
(***************************************************************************)
(* Proofs about EscrowMirror for every number of request handlers, every   *)
(* set of routes and every contract EscrowContractProofs speaks of.        *)
(***************************************************************************)
EXTENDS EscrowMirror, EscrowContractProofs

-----------------------------------------------------------------------------
(* The inductive invariant. *)

\* The one fact the mirror may rely on later: it never becomes false again.
ClaimedOnChain(id, i) ==
  /\ id \in DOMAIN escrows
  /\ i \in DOMAIN escrows[id].milestones
  /\ escrows[id].milestones[i] = "Claimed"

\* A row is one of an escrow, and shows as claimed what is claimed.
RowOK(id) ==
  /\ id \in DOMAIN escrows
  /\ rows[id] \in Row
  /\ \A i \in DOMAIN rows[id].milestones :
       rows[id].milestones[i] = "claimed" => ClaimedOnChain(id, i)

\* A payments row belongs to a row of the mirror and to a claimed tranche.
BookOK(k) ==
  /\ k \in (DOMAIN rows) \X (1..MaxMilestones)
  /\ ClaimedOnChain(k[1], k[2])

\* What a request carries is backed by the row or the escrow it is about, and
\* one that is about to write "claimed" has seen its claim confirmed.
RequestOK(r) ==
  \/ r = Idle
  \/ /\ r \in Request
     /\ r.op # "create" \/ r.pc = "milestones" => r.id \in DOMAIN rows
     /\ r.op = "create" /\ r.pc = "write" => r.id \in DOMAIN escrows
     /\ r.op = "claim" /\ r.pc = "write" => ClaimedOnChain(r.id, r.idx)

\* What the reconciler holds of one escrow: however old the copy, a tranche
\* that is claimed in it is claimed.
Copy == [milestones : Seq(Milestone), status : {"Active", "Completed", "Refunded"},
         frozen : BOOLEAN]
CopyOK(id, copy) ==
  /\ copy \in Copy
  /\ \A i \in DOMAIN copy.milestones :
       copy.milestones[i] = "Claimed" => ClaimedOnChain(id, i)

Jobs == (DOMAIN rows) \X BOOLEAN

Repair == [pc : {"repair"}, todo : SUBSET Jobs, id : DOMAIN rows, chain : Copy,
           fix : SUBSET Nat, row : BOOLEAN]
RepairOK(v) ==
  /\ v \in Repair
  /\ CopyOK(v.id, v.chain)
  /\ v.fix \subseteq DOMAIN v.chain.milestones

ReconOK(v) ==
  \/ v \in {Asleep, Failed}
  \/ v.pc \in {"chain", "next"} /\ v.todo \subseteq Jobs
  \/ /\ v.pc = "diff" /\ v.todo \subseteq Jobs /\ v.job \in Jobs
     /\ CopyOK(v.job[1], v.chain)
  \/ v.pc = "repair" /\ RepairOK(v)
  \/ v.pc = "record" /\ RepairOK(v.back)

MirrorIInv ==
  /\ IInv
  /\ \A id \in DOMAIN rows : RowOK(id)
  /\ \A k \in books : BookOK(k)
  /\ inflight \in [Handlers -> Request \cup {Idle}]
  /\ \A s \in Handlers : RequestOK(inflight[s])
  /\ ReconOK(recon)

-----------------------------------------------------------------------------
(* The chain under the mirror. *)

\* The chain only moves on: ids stay, and what is claimed stays claimed.
ChainGrows ==
  /\ IInv'
  /\ DOMAIN escrows \subseteq DOMAIN escrows'
  /\ \A id, i : ClaimedOnChain(id, i) => ClaimedOnChain(id, i)'

\* A step that settles tranches which are not claimed leaves claimed ones alone.
LEMMA SettleGrows ==
  ASSUME IInv, IInv', NEW id \in DOMAIN escrows, NEW ms, NEW payee, NEW amount,
         Settle(id, ms, payee, amount),
         DOMAIN ms = DOMAIN escrows[id].milestones,
         \A i \in DOMAIN ms : escrows[id].milestones[i] = "Claimed" => ms[i] = "Claimed"
  PROVE  ChainGrows
  BY Settled DEF ChainGrows, ClaimedOnChain, IInv

\* Giving tranches back leaves claimed ones alone.
LEMMA PayBackGrows ==
  ASSUME IInv, IInv', NEW id \in DOMAIN escrows, NEW states, PayBack(id, states),
         "Claimed" \notin states
  PROVE  ChainGrows
<1> DEFINE e    == escrows[id]
           back == {i \in DOMAIN e.milestones : e.milestones[i] \in states}
           left == [i \in DOMAIN e.milestones |->
                      IF i \in back THEN "Refunded" ELSE e.milestones[i]]
<1>1. Settle(id, left, e.enterprise, Sum(e.amounts, back))
  BY DEF PayBack
<1>2. /\ DOMAIN left = DOMAIN e.milestones
      /\ \A i \in DOMAIN left : e.milestones[i] = "Claimed" => left[i] = "Claimed"
  OBVIOUS
<1> HIDE DEF left, back
<1> QED
  BY <1>1, <1>2, SettleGrows

\* A step that keeps the milestones of every escrow only moves the chain on.
LEMMA IdleGrows ==
  ASSUME IInv', DOMAIN escrows' = DOMAIN escrows,
         \A id \in DOMAIN escrows : escrows'[id].milestones = escrows[id].milestones
  PROVE  ChainGrows
  BY DEF ChainGrows, ClaimedOnChain

\* Every step of the contract moves the chain on.
LEMMA GrowStep ==
  ASSUME ContractAssumption, IInv, [Next]_vars
  PROVE  ChainGrows
<1>0. IInv' /\ TypeOK
  BY InvStep DEF IInv
<1>1. ASSUME UNCHANGED escrows
      PROVE  ChainGrows
  BY <1>0, <1>1, IdleGrows
<1>2. ASSUME NEW id \in DOMAIN escrows, ReturnFrozen(id)
      PROVE  ChainGrows
  BY <1>0, <1>2, PayBackGrows DEF ReturnFrozen, Open
<1>3. ASSUME NEW id \in DOMAIN escrows, NEW frozen \in BOOLEAN, SetFrozen(id, frozen)
      PROVE  ChainGrows
  <2>1. escrows[id] \in Escrow
    BY <1>0 DEF TypeOK
  <2> QED
    BY <1>0, <1>3, <2>1, IdleGrows DEF SetFrozen, TypeOK, Escrow
<1>4. ASSUME NEW ent \in Enterprises, NEW w \in Workers, NEW token \in Tokens,
             NEW amounts \in AmountLists, NEW expiry \in 0..(MaxTime - 1),
             Create(ent, w, token, amounts, expiry)
      PROVE  ChainGrows
  <2>1. /\ DOMAIN escrows' = 0..nextId
        /\ \A id \in 0..nextId : id # nextId => escrows'[id] = escrows[id]
    BY <1>4 DEF Create, Store
  <2>2. DOMAIN escrows = 0..(nextId - 1) /\ nextId \in Nat
    BY <1>0 DEF TypeOK, ContractAssumption
  <2>3. \A id \in DOMAIN escrows : id \in DOMAIN escrows' /\ escrows'[id] = escrows[id]
    BY <2>1, <2>2
  <2> QED
    BY <1>0, <2>3 DEF ChainGrows, ClaimedOnChain
<1>5. ASSUME NEW id \in DOMAIN escrows, Refund(id)
      PROVE  ChainGrows
  BY <1>0, <1>5, PayBackGrows DEF Refund
<1>6. ASSUME NEW id \in DOMAIN escrows,
             NEW idx \in DOMAIN escrows[id].milestones, Approve(id, idx)
      PROVE  ChainGrows
  <2> DEFINE ms == [escrows[id].milestones EXCEPT ![idx] = "Approved"]
  <2>1. escrows[id] \in Escrow /\ DOMAIN ms = DOMAIN escrows[id].milestones
        /\ escrows[id].milestones[idx] = "Pending"
    BY <1>0, <1>6 DEF TypeOK, Approve
  <2>2. escrows' = [escrows EXCEPT ![id] = [escrows[id] EXCEPT !.milestones = ms]]
    BY <1>6 DEF Approve
  <2>3. escrows'[id].milestones = ms /\ DOMAIN escrows' = DOMAIN escrows
        /\ \A j \in DOMAIN escrows : j # id => escrows'[j] = escrows[j]
    BY <2>1, <2>2 DEF Escrow
  <2>4. \A i \in DOMAIN ms : escrows[id].milestones[i] = "Claimed" => ms[i] = "Claimed"
    BY <2>1
  <2> HIDE DEF ms
  <2> QED
    BY <1>0, <2>1, <2>3, <2>4 DEF ChainGrows, ClaimedOnChain
<1>7. ASSUME NEW id \in DOMAIN escrows,
             NEW idx \in DOMAIN escrows[id].milestones, Claim(id, idx)
      PROVE  ChainGrows
  <2> DEFINE ms == [escrows[id].milestones EXCEPT ![idx] = "Claimed"]
  <2>1. Settle(id, ms, escrows[id].worker, escrows[id].amounts[idx])
    BY <1>7 DEF Claim
  <2>2. DOMAIN ms = DOMAIN escrows[id].milestones
        /\ \A i \in DOMAIN ms : escrows[id].milestones[i] = "Claimed" => ms[i] = "Claimed"
    OBVIOUS
  <2> HIDE DEF ms
  <2> QED
    BY <1>0, <2>1, <2>2, SettleGrows
<1> QED
  BY <1>1, <1>2, <1>3, <1>4, <1>5, <1>6, <1>7
     DEF Next, ComplianceNext, PartyNext, RevokeClearance, SetClearance,
         CloseLedger, vars

\* The contract calls of the requests are steps of the contract.
LEMMA CallIsStep ==
  ASSUME NEW r, ChainCall(r)
  PROVE  Next
<1>1. CASE r.op = "create" /\ \E ent \in Enterprises, w \in Workers, token \in Tokens,
             amounts \in AmountLists, expiry \in 0..(MaxTime - 1) :
               Create(ent, w, token, amounts, expiry)
  BY <1>1 DEF Next, PartyNext
<1>2. CASE Approve(r.id, r.idx) \/ Claim(r.id, r.idx)
  BY <1>2 DEF Next, PartyNext, Approve, Claim, Workable
<1>3. CASE Refund(r.id)
  BY <1>3 DEF Next, PartyNext, Refund
<1>4. CASE SetFrozen(r.id, TRUE) \/ SetFrozen(r.id, FALSE)
  BY <1>4 DEF Next, ComplianceNext, SetFrozen
<1>5. CASE ReturnFrozen(r.id)
  BY <1>5 DEF Next, ComplianceNext, ReturnFrozen
<1> QED
  BY <1>1, <1>2, <1>3, <1>4, <1>5 DEF ChainCall

\* So is what happens on chain outside the requests.
LEMMA EnvironmentIsStep ==
  ASSUME ContractAssumption, Environment
  PROVE  Next /\ UNCHANGED mirror
<1>1. MaxTime + 1 \in Times
  BY DEF ContractAssumption, Times
<1> QED
  BY <1>1 DEF Environment, Next, ComplianceNext

\* A confirmed claim is a claimed tranche, a confirmed create an escrow.
LEMMA CallEffect ==
  ASSUME IInv, NEW r, ChainCall(r)
  PROVE  /\ r.op = "claim" => ClaimedOnChain(r.id, r.idx)'
         /\ r.op = "create" => nextId \in DOMAIN escrows' /\ nextId \in 0..MaxIds
<1>1. CASE r.op = "claim"
  <2> DEFINE ms == [escrows[r.id].milestones EXCEPT ![r.idx] = "Claimed"]
  <2>1. Claim(r.id, r.idx)
    BY <1>1 DEF ChainCall
  <2>2. r.id \in DOMAIN escrows /\ r.idx \in DOMAIN escrows[r.id].milestones
        /\ Settle(r.id, ms, escrows[r.id].worker, escrows[r.id].amounts[r.idx])
    BY <2>1 DEF Claim, Workable
  <2>3. ms[r.idx] = "Claimed" /\ r.idx \in DOMAIN ms
    BY <2>2
  <2>4. r.id \in DOMAIN escrows' /\ escrows'[r.id].milestones = ms
    <3> HIDE DEF ms
    <3> QED
      BY <2>2, Settled DEF IInv
  <2> QED
    BY <1>1, <2>3, <2>4 DEF ClaimedOnChain
<1>2. CASE r.op = "create"
  <2>1. \E ent \in Enterprises, w \in Workers, token \in Tokens,
           amounts \in AmountLists, expiry \in 0..(MaxTime - 1) :
             Create(ent, w, token, amounts, expiry)
    BY <1>2 DEF ChainCall
  <2>2. DOMAIN escrows' = 0..nextId
    BY <2>1 DEF Create, Store
  <2> QED
    BY <1>2, <2>2 DEF IInv, TypeOK
<1> QED
  BY <1>1, <1>2

-----------------------------------------------------------------------------
(* What a step must show. *)

\* What was right of the mirror, of a request and of the reconciler stays right
\* while the chain moves on and no row is lost.
LEMMA Kept ==
  ASSUME ChainGrows, MirrorIInv, DOMAIN rows \subseteq DOMAIN rows'
  PROVE  /\ \A id \in DOMAIN rows : rows'[id] = rows[id] => RowOK(id)'
         /\ \A k \in books : BookOK(k)'
         /\ \A s \in Handlers :
              inflight'[s] = inflight[s] => RequestOK(inflight[s])'
         /\ recon' = recon => ReconOK(recon)'
<1>1. ASSUME NEW id \in DOMAIN rows, rows'[id] = rows[id]
      PROVE  RowOK(id)'
  BY <1>1 DEF MirrorIInv, RowOK, ChainGrows
<1>2. ASSUME NEW k \in books
      PROVE  BookOK(k)'
  BY DEF MirrorIInv, BookOK, ChainGrows
<1>3. ASSUME NEW s \in Handlers, inflight'[s] = inflight[s]
      PROVE  RequestOK(inflight[s])'
  BY <1>3 DEF MirrorIInv, RequestOK, ChainGrows
<1>4. ASSUME recon' = recon
      PROVE  ReconOK(recon)'
  <2>1. Jobs \subseteq Jobs'
    BY DEF Jobs
  <2>2. \A v : v \in Repair => v \in Repair'
    BY <2>1 DEF Repair
  <2>3. \A id, copy : CopyOK(id, copy) => CopyOK(id, copy)'
    BY DEF CopyOK, ChainGrows
  <2>4. \A v : RepairOK(v) => RepairOK(v)'
    BY <2>2, <2>3 DEF RepairOK
  <2> QED
    BY <1>4, <2>1, <2>3, <2>4 DEF MirrorIInv, ReconOK
<1> QED
  BY <1>1, <1>2, <1>3, <1>4

\* So a step has to account for what it writes, and for nothing else.
LEMMA Assemble ==
  ASSUME ChainGrows, MirrorIInv, DOMAIN rows \subseteq DOMAIN rows',
         \A id \in DOMAIN rows' :
           (id \in DOMAIN rows /\ rows'[id] = rows[id]) \/ RowOK(id)',
         \A k \in books' : k \in books \/ BookOK(k)',
         inflight' \in [Handlers -> Request \cup {Idle}],
         \A s \in Handlers :
           inflight'[s] = inflight[s] \/ RequestOK(inflight[s])',
         recon' = recon \/ ReconOK(recon)'
  PROVE  MirrorIInv'
<1>1. IInv'
  BY DEF ChainGrows
<1>2. \A id \in DOMAIN rows' : RowOK(id)'
  BY Kept
<1>3. \A k \in books' : BookOK(k)'
  BY Kept
<1>4. \A s \in Handlers : RequestOK(inflight[s])'
  BY Kept
<1>5. ReconOK(recon)'
  BY Kept
<1> QED
  BY <1>1, <1>2, <1>3, <1>4, <1>5 DEF MirrorIInv

\* A step of the database leaves the chain as it is.
LEMMA StillGrows ==
  ASSUME ContractAssumption, MirrorIInv, UNCHANGED vars
  PROVE  ChainGrows
  BY GrowStep DEF MirrorIInv

-----------------------------------------------------------------------------
(* The requests. *)

\* A request that ends leaves its handler idle.
LEMMA Forgotten ==
  ASSUME MirrorIInv, NEW s \in Handlers, Forget(s)
  PROVE  /\ inflight' \in [Handlers -> Request \cup {Idle}]
         /\ \A t \in Handlers : inflight'[t] = inflight[t] \/ RequestOK(inflight[t])'
  BY DEF MirrorIInv, Forget, RequestOK

\* A request that goes on carries what it carried before.
LEMMA WentOn ==
  ASSUME MirrorIInv, NEW s \in Handlers, inflight[s] # Idle, NEW pc,
         pc \in {"call", "write", "milestones", "finalize", "book"}, Goto(s, pc)
  PROVE  /\ inflight' \in [Handlers -> Request \cup {Idle}]
         /\ \A t \in Handlers : t # s => inflight'[t] = inflight[t]
         /\ inflight'[s] \in Request /\ inflight'[s].pc = pc
         /\ inflight'[s].op = inflight[s].op /\ inflight'[s].id = inflight[s].id
         /\ inflight'[s].idx = inflight[s].idx
<1>1. inflight[s] \in Request
  BY DEF MirrorIInv
<1>2. inflight' = [inflight EXCEPT ![s] = [inflight[s] EXCEPT !.pc = pc]]
  BY DEF Goto
<1>3. [inflight[s] EXCEPT !.pc = pc] \in Request
  BY <1>1 DEF Request
<1> QED
  BY <1>1, <1>2, <1>3 DEF MirrorIInv, Request

\* What a request in progress is known to carry.
LEMMA Carried ==
  ASSUME MirrorIInv, NEW s \in Handlers, inflight[s] # Idle
  PROVE  /\ inflight[s] \in Request
         /\ inflight[s].op # "create" \/ inflight[s].pc = "milestones" =>
              inflight[s].id \in DOMAIN rows
         /\ inflight[s].op = "create" /\ inflight[s].pc = "write" =>
              inflight[s].id \in DOMAIN escrows
         /\ inflight[s].op = "claim" /\ inflight[s].pc = "write" =>
              ClaimedOnChain(inflight[s].id, inflight[s].idx)
  BY DEF MirrorIInv, RequestOK

\* Every step between the call and the last write leaves a request that is
\* backed by its row.
LEMMA StillBacked ==
  ASSUME MirrorIInv, NEW s \in Handlers, inflight[s] # Idle, NEW pc,
         pc \in {"milestones", "finalize", "book"}, Goto(s, pc),
         inflight[s].id \in DOMAIN rows'
  PROVE  /\ inflight' \in [Handlers -> Request \cup {Idle}]
         /\ \A t \in Handlers : inflight'[t] = inflight[t] \/ RequestOK(inflight[t])'
<1>1. /\ inflight' \in [Handlers -> Request \cup {Idle}]
      /\ \A t \in Handlers : t # s => inflight'[t] = inflight[t]
      /\ inflight'[s] \in Request /\ inflight'[s].pc = pc
      /\ inflight'[s].id = inflight[s].id
  BY WentOn
<1>2. RequestOK(inflight[s])'
  BY <1>1 DEF RequestOK
<1> QED
  BY <1>1, <1>2

\* Starting a request: what it is about has a row.
LEMMA StartInv ==
  ASSUME ContractAssumption, MirrorIInv, SomeStart
  PROVE  MirrorIInv'
<1>0. DOMAIN rows \subseteq 0..MaxIds /\ 0 \in 0..MaxIds /\ 0 \in 0..MaxMilestones
      /\ 1..MaxMilestones \subseteq 0..MaxMilestones
  BY DEF MirrorIInv, RowOK, IInv, TypeOK, ContractAssumption
<1>1. PICK s \in Handlers, op \in Ops, id \in 0..MaxIds, idx \in 0..MaxMilestones :
        /\ Start(s, op, id, idx)
        /\ \/ op = "create" /\ id = 0 /\ idx = 0
           \/ op # "create" /\ id \in DOMAIN rows
  BY <1>0 DEF SomeStart, Ops
<1> DEFINE r == [op |-> op, id |-> id, idx |-> idx, pc |-> "call"]
<1>2. inflight' = [inflight EXCEPT ![s] = r]
  BY <1>1 DEF Start
<1>3. id \in 0..MaxIds /\ idx \in 0..MaxMilestones
  BY <1>1 DEF MirrorIInv, RowOK, IInv, TypeOK, ContractAssumption
<1>4. r \in Request
  BY <1>1, <1>3 DEF Request
<1>5. UNCHANGED <<vars, rows, books, recon>>
  BY <1>1 DEF Start, vars
<1>6. inflight'[s] = r /\ RequestOK(inflight[s])'
  <2>1. inflight'[s] = r
    BY <1>2 DEF MirrorIInv
  <2>2. r.op = op /\ r.id = id /\ r.pc = "call"
    OBVIOUS
  <2> HIDE DEF r
  <2> QED
    BY <1>1, <1>4, <1>5, <2>1, <2>2 DEF RequestOK
<1>7. /\ inflight' \in [Handlers -> Request \cup {Idle}]
      /\ \A t \in Handlers : inflight'[t] = inflight[t] \/ RequestOK(inflight[t])'
  <2> HIDE DEF r
  <2> QED
    BY <1>2, <1>4, <1>6 DEF MirrorIInv
<1> QED
  BY <1>5, <1>7, StillGrows, Assemble

\* The contract call, confirmed: what the later steps rely on is now so.
LEMMA ConfirmedInv ==
  ASSUME ContractAssumption, MirrorIInv, NEW s \in Handlers, CallConfirmed(s)
  PROVE  MirrorIInv'
<1> DEFINE r == inflight[s]
           n == [r EXCEPT !.pc = "write", !.id = IF r.op = "create" THEN nextId ELSE r.id]
<1>1. inflight[s] # Idle /\ ChainCall(inflight[s]) /\ r.pc = "call"
      /\ UNCHANGED <<rows, books, recon>>
  BY DEF CallConfirmed, Calling
<1>2. ChainGrows
  BY <1>1, CallIsStep, GrowStep DEF MirrorIInv
<1>3. r \in Request /\ (r.op # "create" => r.id \in DOMAIN rows)
  BY <1>1, Carried
<1>4. /\ r.op = "claim" =>
           \A id, i : id = r.id /\ i = r.idx => ClaimedOnChain(id, i)'
      /\ r.op = "create" => nextId \in DOMAIN escrows' /\ nextId \in 0..MaxIds
  BY <1>1, CallEffect DEF MirrorIInv
<1>5. n \in Request /\ n.op = r.op /\ n.pc = "write" /\ n.idx = r.idx
      /\ n.id = IF r.op = "create" THEN nextId ELSE r.id
  BY <1>3, <1>4 DEF Request
<1>6. inflight' = [inflight EXCEPT ![s] = n]
  BY <1>3 DEF CallConfirmed, MirrorIInv, Request
<1>7. inflight'[s] = n
  BY <1>6 DEF MirrorIInv
<1> HIDE DEF r, n
<1>8. RequestOK(inflight[s])'
  BY <1>1, <1>3, <1>4, <1>5, <1>7 DEF RequestOK
<1>9. /\ inflight' \in [Handlers -> Request \cup {Idle}]
      /\ \A t \in Handlers : inflight'[t] = inflight[t] \/ RequestOK(inflight[t])'
  BY <1>5, <1>6, <1>8 DEF MirrorIInv
<1> QED
  BY <1>1, <1>2, <1>9, Assemble

\* The contract call, its outcome lost, and a request that ends anywhere.
LEMMA LostInv ==
  ASSUME ContractAssumption, MirrorIInv, NEW s \in Handlers,
         CallOutcomeLost(s) \/ Abort(s)
  PROVE  MirrorIInv'
<1>1. Forget(s) /\ UNCHANGED <<rows, books, recon>>
  BY DEF CallOutcomeLost, Abort
<1>2. ChainGrows
  <2>1. CASE CallOutcomeLost(s)
    BY <2>1, CallIsStep, GrowStep DEF CallOutcomeLost, MirrorIInv
  <2>2. CASE Abort(s)
    BY <2>2, StillGrows DEF Abort, vars
  <2> QED
    BY <2>1, <2>2
<1> QED
  BY <1>1, <1>2, Forgotten, Assemble

-----------------------------------------------------------------------------
(* The rows. *)

\* Writing a row keeps the others, and the mirror with it if the row is right.
LEMMA RowWritten ==
  ASSUME ChainGrows, MirrorIInv, NEW id \in DOMAIN rows, NEW new \in Row,
         rows' = [rows EXCEPT ![id] = new],
         \A i \in DOMAIN new.milestones :
           new.milestones[i] = "claimed" => ClaimedOnChain(id, i)
  PROVE  /\ DOMAIN rows' = DOMAIN rows
         /\ \A j \in DOMAIN rows' :
              (j \in DOMAIN rows /\ rows'[j] = rows[j]) \/ RowOK(j)'
<1>1. DOMAIN rows' = DOMAIN rows /\ rows'[id] = new
      /\ \A j \in DOMAIN rows : j # id => rows'[j] = rows[j]
  OBVIOUS
<1>2. id \in DOMAIN escrows
  BY DEF MirrorIInv, RowOK
<1>3. \A j \in DOMAIN rows' : j = id => RowOK(j)'
  BY <1>1, <1>2 DEF RowOK, ChainGrows
<1> QED
  BY <1>1, <1>3

\* What a row is known to be.
LEMMA RowKnown ==
  ASSUME MirrorIInv, NEW id \in DOMAIN rows
  PROVE  /\ id \in DOMAIN escrows /\ escrows[id] \in Escrow
         /\ rows[id] \in Row /\ rows[id].milestones \in Seq(DbWords)
         /\ \A i \in DOMAIN rows[id].milestones :
              /\ rows[id].milestones[i] \in DbWords
              /\ rows[id].milestones[i] = "claimed" => ClaimedOnChain(id, i)
<1>1. RowOK(id)
  BY DEF MirrorIInv
<1>2. rows[id].milestones \in Seq(DbWords)
  BY <1>1 DEF RowOK, Row
<1>3. \A i \in DOMAIN rows[id].milestones : rows[id].milestones[i] \in DbWords
  BY <1>2, ElementOfSeq
<1> QED
  BY <1>1, <1>2, <1>3 DEF RowOK, MirrorIInv, IInv, TypeOK

\* A milestone the mirror shows as claimed may be booked.
LEMMA Bookable ==
  ASSUME ContractAssumption, MirrorIInv, ChainGrows, rows' = rows, NEW id, NEW i,
         RowMilestone(id, i) = "claimed"
  PROVE  BookOK(<<id, i>>)'
<1>1. id \in DOMAIN rows /\ ClaimedOnChain(id, i)
  BY RowKnown DEF RowMilestone
<1>2. i \in 1..MaxMilestones
  BY <1>1, WithinLedger DEF ClaimedOnChain, Slots, MirrorIInv
<1> QED
  BY <1>1, <1>2 DEF BookOK, ChainGrows

\* The INSERTs of create.
LEMMA InsertRowInv ==
  ASSUME ContractAssumption, MirrorIInv, NEW s \in Handlers, InsertRow(s)
  PROVE  MirrorIInv'
<1> DEFINE id  == inflight[s].id
           new == [status |-> "active", frozen |-> FALSE, milestones |-> <<>>]
<1>1. /\ inflight[s] # Idle /\ inflight[s].op = "create" /\ inflight[s].pc = "write"
      /\ rows' = [j \in DOMAIN rows \cup {id} |-> IF j = id THEN new ELSE rows[j]]
      /\ Goto(s, "milestones") /\ UNCHANGED <<vars, books, recon>>
  BY DEF InsertRow, At, ChainStill, vars
<1>2. id \in DOMAIN escrows
  BY <1>1, Carried
<1>3. ChainGrows
  BY <1>1, StillGrows
<1>4. new \in Row /\ new.milestones = <<>>
  BY DEF Row
<1>5. /\ DOMAIN rows \subseteq DOMAIN rows' /\ id \in DOMAIN rows' /\ rows'[id] = new
      /\ \A j \in DOMAIN rows' : j # id => j \in DOMAIN rows /\ rows'[j] = rows[j]
  BY <1>1
<1>6. \A j \in DOMAIN rows' : (j \in DOMAIN rows /\ rows'[j] = rows[j]) \/ RowOK(j)'
  <2> HIDE DEF new
  <2> QED
    BY <1>1, <1>2, <1>3, <1>4, <1>5 DEF RowOK, ChainGrows
<1>7. /\ inflight' \in [Handlers -> Request \cup {Idle}]
      /\ \A t \in Handlers : inflight'[t] = inflight[t] \/ RequestOK(inflight[t])'
  BY <1>1, <1>5, StillBacked
<1> QED
  BY <1>1, <1>3, <1>5, <1>6, <1>7, Assemble

\* The second statement of the create handler, the milestones of the new row.
LEMMA InsertMilestonesInv ==
  ASSUME ContractAssumption, MirrorIInv, NEW s \in Handlers, InsertMilestones(s)
  PROVE  MirrorIInv'
<1> DEFINE id  == inflight[s].id
           ms  == [i \in DOMAIN escrows[id].amounts |-> "pending"]
           new == [rows[id] EXCEPT !.milestones = ms]
<1>1. /\ inflight[s] # Idle /\ inflight[s].op = "create"
      /\ inflight[s].pc = "milestones"
      /\ rows' = [rows EXCEPT ![id].milestones = ms]
      /\ Forget(s) /\ UNCHANGED <<vars, books, recon>>
  BY DEF InsertMilestones, At, ChainStill, vars
<1>2. id \in DOMAIN rows
  BY <1>1, Carried
<1>3. rows[id] \in Row /\ escrows[id].amounts \in Seq(1..MaxI128)
  BY <1>2, RowKnown DEF Escrow
<1>4. ms \in Seq(DbWords)
  BY <1>3 DEF DbWords
<1>5. new \in Row /\ new.milestones = ms /\ rows' = [rows EXCEPT ![id] = new]
  <2> HIDE DEF ms
  <2> QED
    BY <1>1, <1>3, <1>4 DEF Row
<1>6. \A i \in DOMAIN new.milestones : new.milestones[i] # "claimed"
  BY <1>5
<1>7. ChainGrows
  BY <1>1, StillGrows
<1>8. /\ DOMAIN rows' = DOMAIN rows
      /\ \A j \in DOMAIN rows' :
           (j \in DOMAIN rows /\ rows'[j] = rows[j]) \/ RowOK(j)'
  <2> HIDE DEF new, id
  <2> QED
    BY <1>2, <1>5, <1>6, <1>7, RowWritten
<1> QED
  BY <1>1, <1>7, <1>8, Forgotten, Assemble

\* The UPDATEs that follow approve and claim: "claimed" is written by a request
\* whose claim was confirmed.
LEMMA WriteMilestoneInv ==
  ASSUME ContractAssumption, MirrorIInv, NEW s \in Handlers, WriteMilestone(s)
  PROVE  MirrorIInv'
<1> DEFINE r   == inflight[s]
           w   == IF r.op = "approve" THEN "approved" ELSE "claimed"
           ms  == [rows[r.id].milestones EXCEPT ![r.idx] = w]
           new == [rows[r.id] EXCEPT !.milestones = ms]
<1>1. /\ inflight[s] # Idle /\ r.op \in {"approve", "claim"} /\ r.pc = "write"
      /\ rows' = [rows EXCEPT ![r.id].milestones[r.idx] = w]
      /\ UNCHANGED <<vars, books, recon>>
  BY DEF WriteMilestone, At, ChainStill, vars
<1>2. r.id \in DOMAIN rows /\ (r.op = "claim" => ClaimedOnChain(r.id, r.idx))
  BY <1>1, Carried
<1>3. rows[r.id] \in Row /\ rows[r.id].milestones \in Seq(DbWords)
  BY <1>2, RowKnown
<1>4. w \in DbWords /\ (w = "claimed" => r.op = "claim")
  BY <1>1 DEF DbWords
<1>5. rows' = [rows EXCEPT ![r.id] = new]
  BY <1>1, <1>3 DEF Row
<1>6. ms \in Seq(DbWords) /\ DOMAIN ms = DOMAIN rows[r.id].milestones
      /\ \A i \in DOMAIN ms : ms[i] = IF i = r.idx THEN w ELSE rows[r.id].milestones[i]
  <2> DEFINE old == rows[r.id].milestones
  <2>0. old \in Seq(DbWords)
    BY <1>3
  <2>1. ms = [old EXCEPT ![r.idx] = w]
    OBVIOUS
  <2>2. DOMAIN ms = DOMAIN old
        /\ \A i \in DOMAIN ms : ms[i] = IF i = r.idx THEN w ELSE old[i]
    <3> HIDE DEF w, old, r
    <3> QED
      BY <2>1
  <2>3. \A i \in DOMAIN old : old[i] \in DbWords
    BY <2>0, ElementOfSeq
  <2> HIDE DEF w, old, ms, r
  <2>4. ms = [i \in DOMAIN old |-> ms[i]] /\ \A i \in DOMAIN old : ms[i] \in DbWords
    BY <1>4, <2>1, <2>2, <2>3
  <2>5. ms \in Seq(DbWords)
    BY <2>0, <2>4, RewriteType
  <2> QED
    BY <2>2, <2>5 DEF old
<1>7. new \in Row /\ new.milestones = ms
  <2> HIDE DEF ms
  <2> QED
    BY <1>3, <1>6 DEF Row
<1>8. \A i \in DOMAIN new.milestones :
        new.milestones[i] = "claimed" => ClaimedOnChain(r.id, i)
  <2>1. \A i \in DOMAIN rows[r.id].milestones :
          rows[r.id].milestones[i] = "claimed" => ClaimedOnChain(r.id, i)
    BY <1>2, RowKnown
  <2> HIDE DEF ms, w, new, r
  <2> QED
    BY <1>2, <1>4, <1>6, <1>7, <2>1
<1>9. ChainGrows
  BY <1>1, StillGrows
<1>10. /\ DOMAIN rows' = DOMAIN rows
       /\ \A j \in DOMAIN rows' :
            (j \in DOMAIN rows /\ rows'[j] = rows[j]) \/ RowOK(j)'
  <2> DEFINE id == r.id
  <2>1. id \in DOMAIN rows /\ new \in Row /\ rows' = [rows EXCEPT ![id] = new]
        /\ \A i \in DOMAIN new.milestones :
             new.milestones[i] = "claimed" => ClaimedOnChain(id, i)
    BY <1>2, <1>5, <1>7, <1>8
  <2> HIDE DEF ms, new, r, id
  <2> QED
    BY <1>9, <2>1, RowWritten
<1>11. /\ inflight' \in [Handlers -> Request \cup {Idle}]
       /\ \A t \in Handlers : inflight'[t] = inflight[t] \/ RequestOK(inflight[t])'
  <2>1. Forget(s) \/ Goto(s, "finalize")
    BY DEF WriteMilestone
  <2> HIDE DEF r
  <2>2. inflight[s].id \in DOMAIN rows'
    BY <1>2, <1>10 DEF r
  <2> QED
    BY <1>1, <2>1, <2>2, Forgotten, StillBacked
<1> HIDE DEF r, w, ms, new
<1> QED
  BY <1>1, <1>9, <1>10, <1>11, Assemble

\* The UPDATEs that follow refund and return_frozen write no claim.
LEMMA WriteRefundInv ==
  ASSUME ContractAssumption, MirrorIInv, NEW s \in Handlers, WriteRefund(s)
  PROVE  MirrorIInv'
<1> DEFINE id   == inflight[s].id
           from == IF inflight[s].op = "refund" THEN {"pending"} ELSE {"pending", "approved"}
           was  == rows[id].milestones
           ms   == [i \in DOMAIN was |-> IF was[i] \in from THEN "refunded" ELSE was[i]]
           new  == [rows[id] EXCEPT !.milestones = ms]
<1>1. /\ inflight[s] # Idle /\ inflight[s].op \in {"refund", "return"}
      /\ rows' = [rows EXCEPT ![id].milestones =
                    [i \in DOMAIN @ |-> IF @[i] \in from THEN "refunded" ELSE @[i]]]
      /\ Goto(s, "finalize") /\ UNCHANGED <<vars, books, recon>>
  BY DEF WriteRefund, At, ChainStill, vars
<1>2. id \in DOMAIN rows
  BY <1>1, Carried
<1>3. rows[id] \in Row /\ was \in Seq(DbWords)
      /\ \A i \in DOMAIN was : was[i] \in DbWords
                                /\ (was[i] = "claimed" => ClaimedOnChain(id, i))
  BY <1>2, RowKnown
<1>4. DOMAIN ms = DOMAIN was /\ ms \in Seq(DbWords)
      /\ \A i \in DOMAIN ms : ms[i] = "claimed" => was[i] = "claimed"
  <2> HIDE DEF from, was
  <2>1. ms = [i \in DOMAIN was |-> ms[i]] /\ \A i \in DOMAIN was : ms[i] \in DbWords
    BY <1>3 DEF DbWords
  <2>2. \A i \in DOMAIN ms : ms[i] = "claimed" => was[i] = "claimed"
    OBVIOUS
  <2> HIDE DEF ms
  <2> QED
    BY <1>3, <2>1, <2>2, RewriteType
<1>5. rows' = [rows EXCEPT ![id] = new]
  <2> HIDE DEF from
  <2> QED
    BY <1>1, <1>3 DEF Row
<1>6. new \in Row /\ new.milestones = ms
  <2> HIDE DEF ms
  <2> QED
    BY <1>3, <1>4 DEF Row
<1>7. \A i \in DOMAIN new.milestones :
        new.milestones[i] = "claimed" => ClaimedOnChain(id, i)
  <2> HIDE DEF ms, was, new
  <2> QED
    BY <1>3, <1>4, <1>6
<1>8. ChainGrows
  BY <1>1, StillGrows
<1> HIDE DEF new, ms, was, from
<1>9. /\ DOMAIN rows' = DOMAIN rows
      /\ \A j \in DOMAIN rows' :
           (j \in DOMAIN rows /\ rows'[j] = rows[j]) \/ RowOK(j)'
  <2> HIDE DEF id
  <2> QED
    BY <1>2, <1>5, <1>6, <1>7, <1>8, RowWritten
<1>10. /\ inflight' \in [Handlers -> Request \cup {Idle}]
       /\ \A t \in Handlers : inflight'[t] = inflight[t] \/ RequestOK(inflight[t])'
  BY <1>1, <1>2, <1>9, StillBacked
<1> QED
  BY <1>1, <1>8, <1>9, <1>10, Assemble

\* A row that keeps its milestones keeps its claims.
LEMMA ColumnsWritten ==
  ASSUME ChainGrows, MirrorIInv, NEW id \in DOMAIN rows, NEW new \in Row,
         rows' = [rows EXCEPT ![id] = new],
         new.milestones = rows[id].milestones
  PROVE  /\ DOMAIN rows' = DOMAIN rows
         /\ \A j \in DOMAIN rows' :
              (j \in DOMAIN rows /\ rows'[j] = rows[j]) \/ RowOK(j)'
<1>1. \A i \in DOMAIN new.milestones :
        new.milestones[i] = "claimed" => ClaimedOnChain(id, i)
  BY RowKnown
<1> QED
  BY <1>1, RowWritten

\* The hold of a row follows a freeze or an unfreeze.
LEMMA WriteFrozenInv ==
  ASSUME ContractAssumption, MirrorIInv, NEW s \in Handlers, WriteFrozen(s)
  PROVE  MirrorIInv'
<1> DEFINE id  == inflight[s].id
           f   == (inflight[s].op = "freeze")
           new == [rows[id] EXCEPT !.frozen = f]
<1>1. /\ inflight[s] # Idle /\ inflight[s].op \in {"freeze", "unfreeze"}
      /\ rows' = [rows EXCEPT ![id].frozen = f]
      /\ Forget(s) /\ UNCHANGED <<vars, books, recon>>
  BY DEF WriteFrozen, At, ChainStill, vars
<1>2. id \in DOMAIN rows
  BY <1>1, Carried
<1>3. rows[id] \in Row /\ f \in BOOLEAN
  BY <1>2, RowKnown
<1> HIDE DEF f
<1>4. new \in Row /\ new.milestones = rows[id].milestones
      /\ rows' = [rows EXCEPT ![id] = new]
  BY <1>1, <1>3 DEF Row
<1>5. ChainGrows
  BY <1>1, StillGrows
<1> HIDE DEF new, id
<1> QED
  BY <1>1, <1>2, <1>4, <1>5, ColumnsWritten, Forgotten, Assemble

\* finalizeEscrowStatus writes one of the three statuses.
LEMMA FinalizeInv ==
  ASSUME ContractAssumption, MirrorIInv, NEW s \in Handlers, Finalize(s)
  PROVE  MirrorIInv'
<1> DEFINE id  == inflight[s].id
           st  == FinalRowStatus(rows[id].milestones)
           new == [rows[id] EXCEPT !.status = st]
<1>1. /\ inflight[s] # Idle /\ inflight[s].op \in {"claim", "refund", "return"}
      /\ rows' = [rows EXCEPT ![id].status = st]
      /\ Forget(s) \/ Goto(s, "book")
      /\ UNCHANGED <<vars, books, recon>>
  BY DEF Finalize, At, ChainStill, vars
<1>2. id \in DOMAIN rows
  BY <1>1, Carried
<1>3. rows[id] \in Row /\ st \in {"active", "completed", "refunded"}
  BY <1>2, RowKnown DEF FinalRowStatus
<1> HIDE DEF st
<1>4. new \in Row /\ new.milestones = rows[id].milestones
      /\ rows' = [rows EXCEPT ![id] = new]
  BY <1>1, <1>3 DEF Row
<1>5. ChainGrows
  BY <1>1, StillGrows
<1>6. /\ DOMAIN rows' = DOMAIN rows
      /\ \A j \in DOMAIN rows' :
           (j \in DOMAIN rows /\ rows'[j] = rows[j]) \/ RowOK(j)'
  <2> HIDE DEF new, id
  <2> QED
    BY <1>2, <1>4, <1>5, ColumnsWritten
<1>7. /\ inflight' \in [Handlers -> Request \cup {Idle}]
      /\ \A t \in Handlers : inflight'[t] = inflight[t] \/ RequestOK(inflight[t])'
  BY <1>1, <1>2, <1>6, Forgotten, StillBacked
<1> HIDE DEF new, id
<1> QED
  BY <1>1, <1>5, <1>6, <1>7, Assemble

\* recordEscrowPayment books what the mirror shows as claimed.
LEMMA BookInv ==
  ASSUME ContractAssumption, MirrorIInv, NEW s \in Handlers, Book(s)
  PROVE  MirrorIInv'
<1>1. /\ books' = Recorded(inflight[s].id, inflight[s].idx)
      /\ Forget(s) /\ UNCHANGED <<vars, rows, recon>>
  BY DEF Book, ChainStill, vars
<1>2. ChainGrows
  BY <1>1, StillGrows
<1>3. \A k \in books' : k \in books \/ BookOK(k)'
  BY <1>1, <1>2, Bookable DEF Recorded
<1> QED
  BY <1>1, <1>2, <1>3, Forgotten, Assemble

-----------------------------------------------------------------------------
(* The reconciler. *)

\* Going on to the next escrow, or sweeping: what is booked shows as claimed.
LEMMA NextEscrowOK ==
  ASSUME ContractAssumption, MirrorIInv, ChainGrows, rows' = rows,
         NEW todo \in SUBSET Jobs, NextEscrow(todo)
  PROVE  /\ ReconOK(recon)'
         /\ \A k \in books' : k \in books \/ BookOK(k)'
<1>1. CASE recon' = Asleep /\ Sweep
  <2>1. \A k \in books' : k \in books \/
          (k = <<k[1], k[2]>> /\ RowMilestone(k[1], k[2]) = "claimed")
    BY <1>1 DEF Sweep
  <2>2. ASSUME NEW k \in books', k \notin books
        PROVE  BookOK(k)'
    <3>1. k = <<k[1], k[2]>> /\ RowMilestone(k[1], k[2]) = "claimed"
      BY <2>1, <2>2
    <3>2. BookOK(<<k[1], k[2]>>)'
      BY <3>1, Bookable
    <3> QED
      BY <3>1, <3>2 DEF BookOK
  <2> QED
    BY <1>1, <2>2 DEF ReconOK
<1>2. CASE recon' = [pc |-> "chain", todo |-> todo] /\ UNCHANGED books
  BY <1>2 DEF ReconOK, Jobs
<1> QED
  BY <1>1, <1>2 DEF NextEscrow

\* A step of the reconciler that writes no row.
LEMMA ReconReads ==
  ASSUME ContractAssumption, MirrorIInv, rows' = rows, ReconStill,
         ReconOK(recon)', \A k \in books' : k \in books \/ BookOK(k)'
  PROVE  MirrorIInv'
<1>1. ChainGrows
  BY StillGrows DEF ReconStill, vars
<1>2. inflight' \in [Handlers -> Request \cup {Idle}] /\ inflight' = inflight
  BY DEF ReconStill, MirrorIInv
<1> QED
  BY <1>1, <1>2, Assemble

\* The reconciler picks the next row of its pass.
LEMMA ReconSelectInv ==
  ASSUME ContractAssumption, MirrorIInv, ReconSelect \/ ReconNext
  PROVE  MirrorIInv'
<1>1. PICK todo \in SUBSET Jobs : NextEscrow(todo)
  <2>1. CASE ReconSelect
    <3> DEFINE todo == {<<id, rows[id].frozen>> : id \in ActiveRows}
    <3>1. \A id \in ActiveRows : id \in DOMAIN rows /\ rows[id].frozen \in BOOLEAN
      BY RowKnown DEF ActiveRows, Row
    <3>2. todo \in SUBSET Jobs
      BY <3>1 DEF Jobs
    <3>3. NextEscrow(todo)
      BY <2>1 DEF ReconSelect
    <3> HIDE DEF todo
    <3> QED
      BY <3>2, <3>3
  <2>2. CASE ReconNext
    BY <2>2 DEF ReconNext, MirrorIInv, ReconOK, Asleep, Failed
  <2> QED
    BY <2>1, <2>2
<1>2. rows' = rows /\ ReconStill
  BY DEF ReconSelect, ReconNext
<1>3. ChainGrows
  BY <1>2, StillGrows DEF ReconStill, vars
<1> QED
  BY <1>1, <1>2, <1>3, NextEscrowOK, ReconReads

\* get_escrow: the copy is what the chain holds now.
LEMMA ReconReadChainInv ==
  ASSUME ContractAssumption, MirrorIInv, ReconReadChain
  PROVE  MirrorIInv'
<1>1. rows' = rows /\ ReconStill
  BY DEF ReconReadChain
<1>2. ChainGrows
  BY <1>1, StillGrows DEF ReconStill, vars
<1>3. recon.pc = "chain" /\ recon.todo \subseteq Jobs
  BY DEF ReconReadChain, MirrorIInv, ReconOK, Asleep, Failed
<1>4. PICK job \in recon.todo :
        \/ recon' = [pc |-> "diff", todo |-> recon.todo \ {job}, job |-> job,
                     chain |-> [milestones |-> escrows[job[1]].milestones,
                                status |-> escrows[job[1]].status,
                                frozen |-> escrows[job[1]].frozen]]
           /\ UNCHANGED books
        \/ NextEscrow(recon.todo \ {job})
  BY DEF ReconReadChain
<1>5. CASE NextEscrow(recon.todo \ {job})
  <2>1. recon.todo \ {job} \in SUBSET Jobs
    BY <1>3
  <2> QED
    BY <1>1, <1>2, <1>5, <2>1, NextEscrowOK, ReconReads
<1>6. CASE recon'.pc = "diff" /\ books' = books
           /\ recon'.todo = recon.todo \ {job} /\ recon'.job = job
           /\ recon'.chain = [milestones |-> escrows[job[1]].milestones,
                              status |-> escrows[job[1]].status,
                              frozen |-> escrows[job[1]].frozen]
  <2>1. job \in Jobs /\ job[1] \in DOMAIN rows
    BY <1>3 DEF Jobs
  <2>2. escrows[job[1]] \in Escrow /\ job[1] \in DOMAIN escrows
    BY <2>1, RowKnown
  <2>3. recon'.chain \in Copy /\ recon'.chain.milestones = escrows[job[1]].milestones
    BY <1>6, <2>2 DEF Escrow, Copy
  <2>4. UNCHANGED escrows
    BY <1>1 DEF ReconStill
  <2>5. ReconOK(recon)'
    BY <1>1, <1>3, <1>6, <2>1, <2>2, <2>3, <2>4
       DEF ReconOK, CopyOK, ClaimedOnChain, Jobs
  <2> QED
    BY <1>1, <1>6, <2>5, ReconReads
<1> QED
  BY <1>4, <1>5, <1>6

\* diffEscrow: what is to be repaired is part of the copy.
LEMMA ReconDiffInv ==
  ASSUME ContractAssumption, MirrorIInv, ReconDiff
  PROVE  MirrorIInv'
<1> DEFINE milestones == rows[recon.job[1]].milestones
           same == DOMAIN milestones = DOMAIN recon.chain.milestones
           fix  == IF same THEN Drifted(milestones, recon.chain) ELSE {}
           row  == same /\ RowDrifted(recon.job[2], recon.chain)
           new  == [pc |-> "repair", todo |-> recon.todo, id |-> recon.job[1],
                    chain |-> recon.chain, fix |-> fix, row |-> row]
<1>1. rows' = rows /\ ReconStill
  BY DEF ReconDiff
<1>2. ChainGrows
  BY <1>1, StillGrows DEF ReconStill, vars
<1>3. /\ recon.todo \subseteq Jobs /\ recon.job \in Jobs
      /\ CopyOK(recon.job[1], recon.chain)
  BY DEF ReconDiff, MirrorIInv, ReconOK, Asleep, Failed
<1>4. NextEscrow(recon.todo) \/ (recon' = new /\ books' = books)
  BY DEF ReconDiff
<1>5. CASE NextEscrow(recon.todo)
  BY <1>1, <1>2, <1>3, <1>5, NextEscrowOK, ReconReads
<1>6. CASE recon' = new /\ books' = books
  <2>1. recon.chain.milestones \in Seq(Milestone)
    BY <1>3 DEF CopyOK, Copy
  <2>2. fix \subseteq DOMAIN recon.chain.milestones /\ fix \subseteq Nat
        /\ row \in BOOLEAN
    BY <2>1 DEF Drifted
  <2>3. recon.job[1] \in DOMAIN rows /\ recon.chain \in Copy
    BY <1>3 DEF Jobs, CopyOK
  <2>4. new \in Repair
    <3> HIDE DEF fix, row
    <3> QED
      BY <1>3, <2>2, <2>3 DEF Repair
  <2>5. new.pc = "repair" /\ new.chain = recon.chain /\ new.id = recon.job[1]
        /\ new.fix = fix
    OBVIOUS
  <2> HIDE DEF new
  <2>6. RepairOK(new)
    BY <1>3, <2>2, <2>4, <2>5 DEF RepairOK
  <2>7. UNCHANGED <<rows, escrows>>
    BY <1>1 DEF ReconStill
  <2>8. ReconOK(recon)'
    BY <1>6, <2>5, <2>6, <2>7
       DEF ReconOK, RepairOK, CopyOK, Repair, Jobs, ClaimedOnChain
  <2> QED
    BY <1>1, <1>6, <2>8, ReconReads
<1> QED
  BY <1>4, <1>5, <1>6

\* The repair of a milestone: it writes "claimed" where the copy, and so the
\* chain, has Claimed.
LEMMA ReconRepairMilestoneInv ==
  ASSUME ContractAssumption, MirrorIInv, ReconRepairMilestone
  PROVE  MirrorIInv'
<1>1. recon.pc = "repair" /\ RepairOK(recon)
  BY DEF ReconRepairMilestone, MirrorIInv, ReconOK, Asleep, Failed
<1>2. PICK i \in recon.fix :
        /\ rows' = [rows EXCEPT ![recon.id].milestones[i] =
                      DbMilestone[recon.chain.milestones[i]]]
        /\ recon' = IF recon.chain.milestones[i] = "Claimed"
                    THEN [pc |-> "record", back |-> [recon EXCEPT !.fix = @ \ {i}], idx |-> i]
                    ELSE [recon EXCEPT !.fix = @ \ {i}]
  BY DEF ReconRepairMilestone
<1> DEFINE id  == recon.id
           old == rows[id].milestones
           m   == recon.chain.milestones[i]
           w   == DbMilestone[m]
           ms  == [old EXCEPT ![i] = w]
           new == [rows[id] EXCEPT !.milestones = ms]
           v   == [recon EXCEPT !.fix = recon.fix \ {i}]
<1>3. UNCHANGED <<vars, books, inflight>> /\ UNCHANGED escrows
  BY DEF ReconRepairMilestone, ReconStill, vars
<1>4. ChainGrows
  BY <1>3, StillGrows
<1>5. id \in DOMAIN rows /\ recon.chain \in Copy /\ i \in DOMAIN recon.chain.milestones
      /\ (m = "Claimed" => ClaimedOnChain(id, i))
  BY <1>1 DEF RepairOK, CopyOK, Repair
<1>6. m \in Milestone
  BY <1>5, ElementOfSeq DEF Copy
<1>7. w \in DbWords /\ (w = "claimed" => ClaimedOnChain(id, i))
  BY <1>5, <1>6 DEF DbMilestone, DbWords, Milestone
<1>8. rows[id] \in Row /\ old \in Seq(DbWords)
      /\ \A j \in DOMAIN old : old[j] \in DbWords
                                /\ (old[j] = "claimed" => ClaimedOnChain(id, j))
  BY <1>5, RowKnown
<1>9. rows' = [rows EXCEPT ![id] = new]
  <2> HIDE DEF m
  <2> QED
    BY <1>2, <1>8 DEF Row, m
<1>10. DOMAIN ms = DOMAIN old
       /\ \A j \in DOMAIN ms : ms[j] = IF j = i THEN w ELSE old[j]
  <2> HIDE DEF old, w
  <2> QED
    OBVIOUS
<1>11. ms \in Seq(DbWords)
  <2> HIDE DEF old, w, ms
  <2>1. old \in Seq(DbWords)
    BY <1>8
  <2>2. ms = [j \in DOMAIN old |-> ms[j]] /\ \A j \in DOMAIN old : ms[j] \in DbWords
    BY <1>7, <1>8, <1>10 DEF ms
  <2> QED
    BY <2>1, <2>2, RewriteType
<1>12. new \in Row /\ new.milestones = ms
  <2> HIDE DEF ms
  <2> QED
    BY <1>8, <1>11 DEF Row
<1>13. \A j \in DOMAIN new.milestones :
         new.milestones[j] = "claimed" => ClaimedOnChain(id, j)
  <2> HIDE DEF ms, new, old, w
  <2> QED
    BY <1>7, <1>8, <1>10, <1>12
<1>14. v \in Repair /\ v.fix = recon.fix \ {i} /\ v.id = recon.id
       /\ v.chain = recon.chain /\ v.pc = "repair"
  BY <1>1 DEF RepairOK, Repair
<1>15. RepairOK(v)
  <2> HIDE DEF v
  <2> QED
    BY <1>1, <1>14 DEF RepairOK
<1>16. \/ recon' = v
       \/ recon'.pc = "record" /\ recon'.back = v
  BY <1>2
<1> HIDE DEF new, ms, old, w, v
<1>17. /\ DOMAIN rows' = DOMAIN rows
       /\ \A j \in DOMAIN rows' :
            (j \in DOMAIN rows /\ rows'[j] = rows[j]) \/ RowOK(j)'
  <2> HIDE DEF id
  <2> QED
    BY <1>4, <1>5, <1>9, <1>12, <1>13, RowWritten
<1>18. ReconOK(recon)'
  BY <1>3, <1>14, <1>15, <1>16, <1>17
     DEF ReconOK, RepairOK, CopyOK, Repair, Jobs, ClaimedOnChain
<1>19. inflight' \in [Handlers -> Request \cup {Idle}] /\ inflight' = inflight
  BY <1>3 DEF MirrorIInv
<1> QED
  BY <1>3, <1>4, <1>17, <1>18, <1>19, Assemble

\* The reconciler writes down what it found and moves on.
LEMMA ReconRecordInv ==
  ASSUME ContractAssumption, MirrorIInv, ReconRecord
  PROVE  MirrorIInv'
<1>1. recon.pc = "record" /\ RepairOK(recon.back)
  BY DEF ReconRecord, MirrorIInv, ReconOK, Asleep, Failed
<1>2. rows' = rows /\ ReconStill /\ recon' = recon.back /\ UNCHANGED escrows
  BY DEF ReconRecord, ReconStill
<1>3. ChainGrows
  BY <1>2, StillGrows DEF ReconStill, vars
<1>4. \A k \in books' : k \in books \/ BookOK(k)'
  BY <1>2, <1>3, Bookable DEF ReconRecord, Recorded
<1>5. recon.back.pc = "repair"
  BY <1>1 DEF RepairOK, Repair
<1>6. ReconOK(recon)'
  BY <1>1, <1>2, <1>5 DEF ReconOK, RepairOK, CopyOK, Repair, Jobs, ClaimedOnChain
<1> QED
  BY <1>2, <1>4, <1>6, ReconReads

\* The repair of the row leaves its milestones alone.
LEMMA ReconRepairRowInv ==
  ASSUME ContractAssumption, MirrorIInv, ReconRepairRow
  PROVE  MirrorIInv'
<1> DEFINE id  == recon.id
           new == [rows[id] EXCEPT !.status = DbStatus[recon.chain.status],
                                   !.frozen = recon.chain.frozen]
<1>1. recon.pc = "repair" /\ RepairOK(recon)
  BY DEF ReconRepairRow, MirrorIInv, ReconOK, Asleep, Failed
<1>2. id \in DOMAIN rows /\ recon.chain \in Copy /\ recon.todo \subseteq Jobs
  BY <1>1 DEF RepairOK, CopyOK, Repair
<1>3. rows[id] \in Row
  BY <1>2, RowKnown
<1>4. DbStatus[recon.chain.status] \in {"active", "completed", "refunded"}
      /\ recon.chain.frozen \in BOOLEAN
  BY <1>2 DEF Copy, DbStatus
<1>5. new \in Row /\ new.milestones = rows[id].milestones
  BY <1>3, <1>4 DEF Row
<1>6. rows' = rows \/ rows' = [rows EXCEPT ![id] = new]
  BY <1>3 DEF ReconRepairRow, Row
<1>7. UNCHANGED <<vars, books, inflight>> /\ UNCHANGED escrows
  BY DEF ReconRepairRow, ReconStill, vars
<1>8. ChainGrows
  BY <1>7, StillGrows
<1>9. /\ DOMAIN rows' = DOMAIN rows
      /\ \A j \in DOMAIN rows' :
           (j \in DOMAIN rows /\ rows'[j] = rows[j]) \/ RowOK(j)'
  <2> HIDE DEF new, id
  <2> QED
    BY <1>2, <1>5, <1>6, <1>8, ColumnsWritten
<1>10. recon'.pc = "next" /\ recon'.todo = recon.todo
  BY DEF ReconRepairRow
<1>11. ReconOK(recon)'
  BY <1>2, <1>9, <1>10 DEF ReconOK, Jobs
<1>12. inflight' \in [Handlers -> Request \cup {Idle}] /\ inflight' = inflight
  BY <1>7 DEF MirrorIInv
<1> HIDE DEF new, id
<1> QED
  BY <1>7, <1>8, <1>9, <1>11, <1>12, Assemble

-----------------------------------------------------------------------------
(* The theorems. *)

\* Every step of the requests, the reconciler and the chain preserves the
\* invariant.
LEMMA MirrorStep ==
  ASSUME ContractAssumption, MirrorIInv, [MirrorNext]_mirrorVars
  PROVE  MirrorIInv'
<1>1. CASE SomeStart
  BY <1>1, StartInv
<1>2. ASSUME NEW s \in Handlers, RequestStep(s) \/ Abort(s)
      PROVE  MirrorIInv'
  BY <1>2, ConfirmedInv, LostInv, InsertRowInv, InsertMilestonesInv,
     WriteMilestoneInv, WriteRefundInv, WriteFrozenInv, FinalizeInv, BookInv
     DEF RequestStep
<1>3. CASE ReconStep
  BY <1>3, ReconSelectInv, ReconReadChainInv, ReconDiffInv, ReconRepairMilestoneInv,
     ReconRecordInv, ReconRepairRowInv DEF ReconStep
<1>4. CASE ReconAbort
  <2>1. rows' = rows /\ books' = books /\ ReconStill /\ recon' = Failed
    BY <1>4 DEF ReconAbort
  <2>2. ReconOK(recon)'
    BY <2>1 DEF ReconOK
  <2> QED
    BY <2>1, <2>2, ReconReads
<1>5. CASE Environment
  <2>1. ChainGrows /\ UNCHANGED mirror
    BY <1>5, EnvironmentIsStep, GrowStep DEF MirrorIInv
  <2>2. inflight' \in [Handlers -> Request \cup {Idle}]
    BY <2>1 DEF MirrorIInv, mirror
  <2> QED
    BY <2>1, <2>2, Assemble DEF mirror
<1>6. CASE UNCHANGED mirrorVars
  <2>1. UNCHANGED vars /\ UNCHANGED mirror
    BY <1>6 DEF mirrorVars, mirror, vars
  <2>2. ChainGrows
    BY <2>1, StillGrows
  <2>3. inflight' \in [Handlers -> Request \cup {Idle}]
    BY <2>1 DEF MirrorIInv, mirror
  <2> QED
    BY <2>1, <2>2, <2>3, Assemble DEF mirror
<1> QED
  BY <1>1, <1>2, <1>3, <1>4, <1>5, <1>6 DEF MirrorNext

\* The inductive invariant holds however requests, reconciler and ledger
\* interleave, and wherever they stop.
THEOREM MirrorInvCorrect == MirrorSpec => []MirrorIInv
<1>1. MirrorInit => MirrorIInv
  <2> SUFFICES ASSUME MirrorInit
               PROVE  MirrorIInv
    OBVIOUS
  <2>1. IInv
    BY InvInit DEF MirrorInit
  <2>2. DOMAIN rows = {} /\ books = {}
    BY DEF MirrorInit
  <2>3. inflight \in [Handlers -> Request \cup {Idle}]
        /\ \A s \in Handlers : RequestOK(inflight[s])
    BY DEF MirrorInit, RequestOK
  <2>4. ReconOK(recon)
    BY DEF MirrorInit, ReconOK
  <2> QED
    BY <2>1, <2>2, <2>3, <2>4 DEF MirrorIInv
<1>2. MirrorIInv /\ [MirrorNext]_mirrorVars => MirrorIInv'
  BY ContractAssumption, MirrorStep
<1> QED
  BY <1>1, <1>2, PTL DEF MirrorSpec

\* Type correctness of the mirror: every row and every payments row is one of an
\* escrow there is, with milestones in the database's words.
THEOREM MirrorTypeCorrect == MirrorSpec => []MirrorTypeOK
<1>1. MirrorIInv => MirrorTypeOK
  <2> SUFFICES ASSUME MirrorIInv
               PROVE  MirrorTypeOK
    OBVIOUS
  <2>1. TypeOK /\ inflight \in [Handlers -> Request \cup {Idle}]
    BY DEF MirrorIInv, IInv
  <2>2. DOMAIN rows \subseteq DOMAIN escrows /\ \A id \in DOMAIN rows : rows[id] \in Row
    BY DEF MirrorIInv, RowOK
  <2>3. books \subseteq {<<id, i>> : id \in DOMAIN rows, i \in 1..MaxMilestones}
    BY DEF MirrorIInv, BookOK
  <2>4. recon.pc \in {"asleep", "failed", "chain", "diff", "repair", "record", "next"}
    BY DEF MirrorIInv, ReconOK, Asleep, Failed
  <2> QED
    BY <2>1, <2>2, <2>3, <2>4 DEF MirrorTypeOK
<1> QED
  BY <1>1, MirrorInvCorrect, PTL

\* Nothing is shown or booked as paid that the contract has not paid, whatever a
\* request or the reconciler had read before it wrote (routes/escrows.ts claim,
\* lib/escrowReconcile.ts, recordEscrowPayment).
THEOREM PaidIsClaimed == MirrorSpec => []PaidIsClaimedOnChain
<1>1. MirrorIInv => PaidIsClaimedOnChain
  BY DEF MirrorIInv, RowOK, BookOK, ClaimedOnChain, PaidIsClaimedOnChain
<1> QED
  BY <1>1, MirrorInvCorrect, PTL

\* Driven by the API, whose requests may stop anywhere, the contract still
\* behaves as EscrowContract says: what is proved of the contract holds here.
THEOREM ContractDriven == MirrorSpec => Spec
<1>1. MirrorInit => Init
  BY DEF MirrorInit
<1>2. [MirrorNext]_mirrorVars => [Next]_vars
  <2> SUFFICES ASSUME [MirrorNext]_mirrorVars
               PROVE  Next \/ UNCHANGED vars
    BY DEF vars
  <2>1. CASE SomeStart
    BY <2>1 DEF SomeStart, Start, vars
  <2>2. ASSUME NEW s \in Handlers, RequestStep(s) \/ Abort(s)
        PROVE  Next \/ UNCHANGED vars
    <3>1. CASE CallConfirmed(s) \/ CallOutcomeLost(s)
      BY <3>1, CallIsStep DEF CallConfirmed, CallOutcomeLost
    <3>2. CASE Abort(s)
      BY <3>2 DEF Abort, vars
    <3>3. CASE \/ InsertRow(s) \/ InsertMilestones(s) \/ WriteMilestone(s)
               \/ WriteRefund(s) \/ WriteFrozen(s) \/ Finalize(s) \/ Book(s)
      BY <3>3 DEF InsertRow, InsertMilestones, WriteMilestone, WriteRefund,
                  WriteFrozen, Finalize, Book, ChainStill, vars
    <3> QED
      BY <2>2, <3>1, <3>2, <3>3 DEF RequestStep
  <2>3. CASE ReconStep \/ ReconAbort
    BY <2>3 DEF ReconStep, ReconAbort, ReconSelect, ReconReadChain, ReconDiff,
                ReconRepairMilestone, ReconRecord, ReconRepairRow, ReconNext,
                ReconStill, vars
  <2>4. CASE Environment
    BY <2>4, ContractAssumption, EnvironmentIsStep
  <2>5. CASE UNCHANGED mirrorVars
    BY <2>5 DEF mirrorVars, vars
  <2> QED
    BY <2>1, <2>2, <2>3, <2>4, <2>5 DEF MirrorNext
<1> QED
  BY <1>1, <1>2, PTL DEF MirrorSpec, Spec
=============================================================================
