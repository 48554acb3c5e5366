--------------------------- MODULE PaymentPromise ---------------------------
(***************************************************************************)
(* What a payout promises to a client who sends it again and again under   *)
(* one idempotency key: the worker is paid at most once, what is reported  *)
(* as paid was paid in just that way, and after "failed" no payment of an  *)
(* earlier attempt arrives any more, so that trying again is safe.         *)
(***************************************************************************)
CONSTANT Keys

VARIABLES
  verdict,  \* what the payments table says of a key
  moved     \* how the money moved: a payment, a claimable balance, or not

Moves == {"completed", "pending_claim"}

Init == verdict = [k \in Keys |-> "none"] /\ moved = [k \in Keys |-> "none"]

\* A first attempt, or another one after a failure.
Attempt(k) ==
  /\ verdict[k] \in {"none", "failed"}
  /\ verdict' = [verdict EXCEPT ![k] = "open"]
  /\ UNCHANGED moved

\* The money moves, only once and only while the payment is open.
Move(k) ==
  /\ verdict[k] = "open" /\ moved[k] = "none"
  /\ \E how \in Moves : moved' = [moved EXCEPT ![k] = how]
  /\ UNCHANGED verdict

\* The table is told what happened.
Report(k) ==
  /\ verdict[k] = "open"
  /\ verdict' = [verdict EXCEPT ![k] = IF moved[k] = "none" THEN "failed" ELSE moved[k]]
  /\ UNCHANGED moved

\* Payments that are being made when the promise ends: nothing is said of them.
Void(ks) ==
  /\ ks # {} /\ \A k \in ks : verdict[k] = "open"
  /\ verdict' = [k \in Keys |-> IF k \in ks THEN "void" ELSE verdict[k]]
  /\ moved' = [k \in Keys |-> IF k \in ks THEN "void" ELSE moved[k]]

Next ==
  \/ \E k \in Keys : Attempt(k) \/ Move(k) \/ Report(k)
  \/ \E ks \in SUBSET Keys : Void(ks)

Spec == Init /\ [][Next]_<<verdict, moved>>

=============================================================================
