------------------------------ MODULE PayClient ------------------------------
(***************************************************************************)
(* The dashboard's payment form (pages/Payments.tsx) against POST /payouts:*)
(* which idempotency key a click sends, and what the page makes of the     *)
(* answer or of none.  What the service does under one key is              *)
(* PaymentPromise; here are the keys the page makes, keeps and drops, the  *)
(* payload that is stored with a key, and the rate that turns the form's   *)
(* dollars into the worker's currency anew with every request.             *)
(*                                                                         *)
(* The service is taken at its promise: the watchdog rules on a row when   *)
(* no request works on it (Payout says what follows when one does).        *)
(***************************************************************************)
EXTENDS Integers, FiniteSets

CONSTANTS
  Forms,    \* payments an employer means to make: a worker and a sum in dollars
  Wires,    \* places for the form's requests
  Rates,    \* what a dollar is worth in the worker's currency
  MaxKeys   \* bound on the keys the page makes

ASSUME PayClientAssumption == MaxKeys \in Nat

VARIABLES
  verdict,  \* what the payments table says of a key (PaymentPromise)
  moved,    \* how its money has moved (PaymentPromise)
  stored,   \* the payload stored with a key, payload_hash
  flying,   \* keys whose transaction may still land
  rate,     \* usdToCurrencyRate
  made,     \* how many keys the page has made
  keyRef,   \* sendKeyRef.current, 0 for null
  form,     \* what the form says, Blank until it is filled in
  button,   \* Send Payment: pressed until `submitting` is painted, then disabled
  calls,    \* the form's requests; the page hears only of those that are heard
  shown,    \* forms the page has called sent, "paid" or "submitted"
  lapsed,   \* history: forms whose key was dropped for an answer that says
            \* nothing of the payment under that key
  raced     \* history: forms whose key was dropped for the answer to one request
            \* while another was still to reach the service

payClientVars ==
  <<verdict, moved, stored, flying, rate, made, keyRef, form, button, calls, shown, lapsed, raced>>
serviceVars == <<verdict, moved, stored, flying, rate>>
pageVars    == <<made, keyRef, form, button, calls, shown, lapsed, raced>>

PayKeys == 1..MaxKeys
Payload == [form : Forms, rate : Rates]
Unstored == [form |-> "none"]
NoCall   == [stage |-> "none"]
Blank    == "blank"
Call     == [stage : {"sent", "working"}, key : PayKeys, form : Forms, heard : BOOLEAN]

Service == INSTANCE PaymentPromise WITH Keys <- PayKeys

PayClientTypeOK ==
  /\ verdict \in [PayKeys -> {"none", "open", "failed"} \cup Service!Moves]
  /\ moved \in [PayKeys -> {"none"} \cup Service!Moves]
  /\ stored \in [PayKeys -> Payload \cup {Unstored}]
  /\ flying \subseteq PayKeys /\ rate \in Rates
  /\ made \in 0..MaxKeys /\ keyRef \in 0..made /\ form \in Forms \cup {Blank}
  /\ calls \in [Wires -> Call \cup {NoCall}]
  /\ button \in {"ready", "pressed", "disabled"}
  /\ shown \in [{"paid", "submitted"} -> SUBSET Forms]
  /\ lapsed \subseteq Forms /\ raced \subseteq Forms

PayClientInit ==
  /\ Service!Init
  /\ stored = [k \in PayKeys |-> Unstored]
  /\ flying = {} /\ rate \in Rates
  /\ made = 0 /\ keyRef = 0 /\ form = Blank /\ button = "ready"
  /\ calls = [c \in Wires |-> NoCall]
  /\ shown = [how \in {"paid", "submitted"} |-> {}] /\ lapsed = {} /\ raced = {}

-----------------------------------------------------------------------------
(* The page. *)

Stage(c, s) == calls[c] # NoCall /\ calls[c].stage = s
ShownSent   == UNION {shown[how] : how \in {"paid", "submitted"}}

\* handleSend, fired again and again until the disabled button is painted; whatever
\* fires in between finds the same key in sendKeyRef.
Click(c) ==
  /\ calls[c] = NoCall /\ button # "disabled" /\ form # Blank
  /\ keyRef # 0 \/ made < MaxKeys
  /\ LET key == IF keyRef = 0 THEN made + 1 ELSE keyRef
     IN  /\ keyRef' = key
         /\ made' = IF keyRef = 0 THEN key ELSE made
         /\ calls' = [calls EXCEPT
              ![c] = [stage |-> "sent", key |-> key, form |-> form, heard |-> TRUE]]
  /\ button' = "pressed"
  /\ UNCHANGED <<serviceVars, form, shown, lapsed, raced>>

Paint ==
  /\ button = "pressed"
  /\ button' = "disabled"
  /\ UNCHANGED <<serviceVars, made, keyRef, form, calls, shown, lapsed, raced>>

\* A worker and a sum are filled in, or others than before, at any time; the key
\* stays.  What was shown as sent is not sent again by this employer.
Edit ==
  /\ form' \in Forms \ (ShownSent \cup {form})
  /\ UNCHANGED <<serviceVars, made, keyRef, button, calls, shown, lapsed, raced>>

\* Faulty: whatever has a status below 500 is final, a 409 too.
FinalIfAnswered(answer) == answer \in {"failed", "refused", "busy"}

\* isFinalPayoutError: a refusal (4xx) or a payment that failed ends a key, no
\* answer, a 5xx without a payment's status and a 409 do not.
Final(answer) == answer \in {"failed", "refused"}

\* sendKeyRef.current = null, for the answer to one request.  The key goes whatever
\* key the request had: the forms of requests that are still to come in under it,
\* or of a payment that is stored under it and is not the one answered for.
DropKey(c) ==
  /\ keyRef' = 0
  /\ LET toCome == {calls[d].form : d \in {d \in Wires \ {c} :
                                            Stage(d, "sent") /\ calls[d].key = keyRef}}
         other  == IF keyRef \in {0, calls[c].key} \/ stored[keyRef] = Unstored THEN {}
                   ELSE {stored[keyRef].form}
     IN  raced' = raced \cup ((toCome \cup other) \ ShownSent')

\* A request has ended; what handleSend makes of it.  The first answer that is heard
\* enables the button, others may still be waited for.
Hear(c, answer) ==
  LET call == calls[c]
  IN  /\ calls' = [calls EXCEPT ![c] = NoCall]
      /\ button' = IF call.heard THEN "ready" ELSE button
      /\ IF call.heard /\ answer \in {"paid", "submitted"}
         THEN /\ shown' = [shown EXCEPT ![answer] = @ \cup {call.form}]
              /\ form' = Blank /\ DropKey(c) /\ UNCHANGED lapsed
         ELSE /\ UNCHANGED <<shown, form>>
              /\ IF call.heard /\ Final(answer)
                 THEN /\ DropKey(c)
                      /\ lapsed' = IF answer = "refused" /\ stored[call.key] # Unstored
                                   THEN lapsed \cup {stored[call.key].form} ELSE lapsed
                 ELSE UNCHANGED <<keyRef, lapsed, raced>>
      /\ UNCHANGED made

-----------------------------------------------------------------------------
(* POST /payouts, and what happens between the two. *)

\* payoutPayloadHash: of the worker and the sum in the worker's currency.
Hash(c) == [form |-> calls[c].form, rate |-> rate]

Starts(c) ==
  /\ Service!Attempt(calls[c].key)
  /\ stored' = [stored EXCEPT ![calls[c].key] = Hash(c)]
  /\ UNCHANGED rate

\* The key is new, or its last attempt failed: the payment goes on its way.
Attempt(c) ==
  /\ Stage(c, "sent")
  /\ stored[calls[c].key] \in {Unstored, Hash(c)}
  /\ Starts(c)
  /\ flying' = flying \cup {calls[c].key}
  /\ calls' = [calls EXCEPT ![c].stage = "working"]
  /\ UNCHANGED <<made, keyRef, form, button, shown, lapsed, raced>>

\* A retry that the compliance check stops leaves its row open.
StoppedRetry(c) ==
  /\ Stage(c, "sent")
  /\ stored[calls[c].key] = Hash(c)
  /\ Starts(c)
  /\ Hear(c, "failed")
  /\ UNCHANGED flying

\* The answers of the lookup: a payload that is not the stored one (422), a
\* payment that is being processed (409), one that was made (201).
LookedUp(c) ==
  /\ Stage(c, "sent")
  /\ LET row == stored[calls[c].key]
         status == verdict[calls[c].key]
     IN  /\ row # Unstored
         /\ \/ row # Hash(c) /\ Hear(c, "refused")
            \/ row = Hash(c) /\ status = "open" /\ Hear(c, "busy")
            \/ row = Hash(c) /\ status \in Service!Moves /\ Hear(c, "paid")
  /\ UNCHANGED serviceVars

\* Turned away before the lookup: the gateway's limit, a session or a permission
\* that has ended, a field that is not valid.
TurnedAway(c) ==
  /\ Stage(c, "sent")
  /\ Hear(c, "refused")
  /\ UNCHANGED serviceVars

\* It never arrives, or the rates are stale (503).
GetsLost(c) ==
  /\ Stage(c, "sent")
  /\ Hear(c, "nothing")
  /\ UNCHANGED serviceVars

\* The gateway or the connection gives up, while the request is on its way or the
\* service works on it.
Unheard(c) ==
  /\ calls[c] # NoCall /\ calls[c].heard
  /\ calls' = [calls EXCEPT ![c].heard = FALSE]
  /\ button' = "ready"
  /\ UNCHANGED <<serviceVars, made, keyRef, form, shown, lapsed, raced>>

\* The payment is over, and so is its request.
Done(c) ==
  /\ Stage(c, "working")
  /\ Service!Report(calls[c].key)
  /\ Hear(c, IF moved[calls[c].key] = "none" THEN "failed" ELSE "paid")
  /\ flying' = flying \ {calls[c].key}
  /\ UNCHANGED <<stored, rate>>

\* Sent without a verdict (202), or the process dies: the row stays open.
LeftOpen(c) ==
  /\ Stage(c, "working")
  /\ Hear(c, "submitted") \/ Hear(c, "nothing")
  /\ UNCHANGED serviceVars

Lands(k) ==
  /\ k \in flying
  /\ Service!Move(k)
  /\ UNCHANGED <<stored, flying, rate, pageVars>>

\* The watchdog rules on a row nobody works on.
RuledOn(k) ==
  /\ \A c \in Wires : Stage(c, "working") => calls[c].key # k
  /\ Service!Report(k)
  /\ flying' = flying \ {k}
  /\ UNCHANGED <<stored, rate, pageVars>>

RateMoves ==
  /\ rate' \in Rates \ {rate}
  /\ UNCHANGED <<verdict, moved, stored, flying, pageVars>>

PayClientNext ==
  \/ Edit \/ Paint \/ RateMoves
  \/ \E c \in Wires :
       \/ Click(c) \/ Attempt(c) \/ StoppedRetry(c) \/ LookedUp(c) \/ TurnedAway(c)
       \/ GetsLost(c) \/ Unheard(c) \/ Done(c) \/ LeftOpen(c)
  \/ \E k \in PayKeys : Lands(k) \/ RuledOn(k)

PayClientSpec == PayClientInit /\ [][PayClientNext]_payClientVars

-----------------------------------------------------------------------------
(* Properties. *)

PaidKeys(f) == {k \in PayKeys : stored[k].form = f /\ moved[k] # "none"}

\* What the page does with its keys is enough for an employer who clicks until it
\* works, twice in a row or again after an answer that was lost: a payment is made
\* once ("keep the key so a retry is recognised as the same payment",
\* api/payments.ts:102-103), but for two cases.  One is a retry refused for another
\* reason, which isFinalPayoutError takes for the end of the payment; the other a
\* key dropped for the answer to one request while another was still to reach the
\* service under it (a double click, a request given up on before it arrived).  And
\* what the page has shown as paid was paid, always: for this worker and this sum,
\* not for what the form said before.
PaidAsShown ==
  /\ \A f \in Forms \ (lapsed \cup raced) : Cardinality(PaidKeys(f)) <= 1
  /\ \A f \in shown["paid"] : PaidKeys(f) # {}

\* "A key lets a replayed request (double-click, client retry) short-circuit instead
\* of submitting a second real Stellar payment" (app.ts:241-242): so much would be
\* true of every payment but for those a retry of which was refused.
DoubleClickPaysOnce == \A f \in Forms \ lapsed : Cardinality(PaidKeys(f)) <= 1

=============================================================================
