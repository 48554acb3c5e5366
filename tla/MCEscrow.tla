------------------------------ MODULE MCEscrow ------------------------------
(* Small instances of EscrowContract and of EscrowMirror on top of it for    *)
(* TLC.  A behaviour is one of the part in focus: the contract called by     *)
(* anybody in any order, or driven by the escrow API alone.  The second has  *)
(* one escrow at most, of a worker who is not the enterprise, and its        *)
(* tranches are of one token each.                                           *)
EXTENDS EscrowMirror, TLC

CONSTANTS e1, w1, w2, xlm, usdc, vault, s1, s2

VARIABLE focus

allVars == <<focus, mirrorVars>>

\* One and two tranches, a non-positive amount, an empty list, a list over
\* MAX_MILESTONES and one whose sum does not fit in the integer.
MCAmounts == {<<1>>, <<2, 1>>, <<2, 2>>, <<0>>, <<>>, <<1, 1, 1>>}

OneEscrow(amounts) ==
  /\ nextId <= 1 /\ now <= 2
  /\ \A id \in DOMAIN escrows :
        /\ escrows[id].worker \notin Enterprises
        /\ escrows[id].amounts = amounts /\ escrows[id].expiry <= 1
  /\ \A w \in Workers \cap Enterprises : clearance[w] = NoClearance

\* Of two escrows one has a single tranche.
ContractStep ==
  /\ focus = "contract" /\ Next /\ UNCHANGED mirror
  /\ \A id \in 1..(nextId' - 1) : Len(escrows'[id].amounts) + Len(escrows'[id - 1].amounts) <= 3

\* A clearance, once given, is not taken back: a revocation only makes calls fail,
\* and every call may fail.
MirrorStep(amounts) ==
  /\ focus = "mirror" /\ MirrorNext
  /\ OneEscrow(amounts)' /\ \A w \in Workers : clearance'[w] >= clearance[w]

AllInit == MirrorInit /\ focus \in {"contract", "mirror"}

AllNext == UNCHANGED focus /\ (ContractStep \/ MirrorStep(<<2, 1>>))

AllSpec == AllInit /\ [][AllNext]_allVars

\* With the fairness of both: the mirror is of an escrow with one tranche, the second
\* handler only lifts holds, so that one may be set and lifted in another order on
\* chain than in the database; time passes from before the expiry to after it.
SecondLifts == inflight[s2] = Idle \/ inflight[s2].op = "unfreeze"

LiveMirrorStep == MirrorStep(<<1>>) /\ SecondLifts' /\ now' # 1

LiveNext == UNCHANGED focus /\ (ContractStep \/ LiveMirrorStep)

LiveSpec == AllInit /\ [][LiveNext]_allVars /\ MirrorFairness

\* Nothing stays locked in the contract (EscrowContract), with the cooperation that
\* is assumed where anybody calls it.
ContractSettles == focus = "contract" /\ Cooperation => EveryEscrowSettles

\* No operation tells one token or one handler from another.
Symmetric == Permutations(Tokens) \cup Permutations(Handlers)
=============================================================================
