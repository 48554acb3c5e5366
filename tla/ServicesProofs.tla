--------------------------- MODULE ServicesProofs ---------------------------
(***************************************************************************)
(* Proofs about PayClient, for any number of payments, requests, rates and *)
(* keys: an employer who clicks until it works pays once, but for the two  *)
(* cases its property names; and about the six parts of MCServices         *)
(* together: their types.                                                  *)
(***************************************************************************)
EXTENDS MCServices, ComplianceProofs, UserServiceProofs

-----------------------------------------------------------------------------
(* The dashboard's end of a payout (PayClient). *)

Stored(k) == stored[k] # Unstored
Alive(k)  == moved[k] # "none" \/ k \in flying

\* A payment is made under a key, or may still be: its money has moved or its
\* transaction may land, or a request is on its way that the key will not refuse.
Sends(k, f) ==
  \E d \in Wires : /\ Stage(d, "sent") /\ calls[d].key = k /\ calls[d].form = f
                   /\ ~Stored(k) \/ stored[k].form = f
Pays(k, f) == (Stored(k) /\ stored[k].form = f /\ Alive(k)) \/ Sends(k, f)

Excepted == lapsed \cup raced

\* A request at work is the only one on its key, whose payment is the request's.
WorkIsOpen ==
  \A c \in Wires : Stage(c, "working") =>
    LET k == calls[c].key
    IN  /\ verdict[k] = "open" /\ Stored(k) /\ stored[k].form = calls[c].form
        /\ \A d \in Wires : Stage(d, "working") /\ calls[d].key = k => d = c

\* What the table says of a key is what its money has done and may still do.
KeysAreBooked ==
  \A k \in PayKeys :
    /\ verdict[k] \in {"none", "failed"} => ~Alive(k)
    /\ verdict[k] \in Service!Moves => moved[k] = verdict[k] /\ k \notin flying
    /\ Alive(k) => Stored(k)

\* What the page has shown as sent is not in the form any more.
SentLeavesForm == form # Blank => form \notin ShownSent

\* A payment that was not shown as sent and is no exception is made under no other
\* key than the one the page holds.
DroppedIsOver ==
  \A k \in PayKeys, f \in Forms :
    k # keyRef /\ f \notin Excepted \cup ShownSent => ~Pays(k, f)

\* A payment that is no exception is made under one key at most.
OneIsAlive ==
  \A k, l \in PayKeys, f \in Forms : f \notin Excepted /\ Pays(k, f) /\ Pays(l, f) => k = l

\* What was shown as paid was paid.
ShownIsPaid ==
  \A f \in shown["paid"] : \E k \in PayKeys : stored[k].form = f /\ moved[k] # "none"

PayClientIInv ==
  /\ PayClientTypeOK /\ WorkIsOpen /\ KeysAreBooked
  /\ SentLeavesForm /\ DroppedIsOver /\ OneIsAlive /\ ShownIsPaid

-----------------------------------------------------------------------------

\* What is known of a request under way.
LEMMA CallFacts ==
  ASSUME PayClientTypeOK, NEW c \in Wires, calls[c] # NoCall
  PROVE  /\ calls[c] \in Call /\ calls[c].key \in PayKeys /\ calls[c].form \in Forms
         /\ calls[c].heard \in BOOLEAN /\ calls[c].stage \in {"sent", "working"}
  BY DEF PayClientTypeOK, Call

\* What is stored with a key is a payload.
LEMMA StoredPayload ==
  ASSUME PayClientTypeOK, NEW k \in PayKeys, Stored(k)
  PROVE  stored[k] \in Payload /\ stored[k].form \in Forms
  BY DEF PayClientTypeOK, Stored, Payload

\* What is paid under a key depends on requests, payloads and transactions only.
LEMMA PaysNothingNew ==
  ASSUME UNCHANGED <<stored, calls>>, \A l \in PayKeys : Alive(l)' => Alive(l)
  PROVE  \A l \in PayKeys, f \in Forms : Pays(l, f)' => Pays(l, f)
BY DEF Pays, Sends, Stored, Stage

\* A step after which nothing new is paid under any key, and which the page does not
\* see, leaves what the page knows.
LEMMA NothingNew ==
  ASSUME DroppedIsOver, OneIsAlive,
         \A l \in PayKeys, f \in Forms : Pays(l, f)' => Pays(l, f),
         UNCHANGED <<keyRef, lapsed, raced, shown>>
  PROVE  DroppedIsOver' /\ OneIsAlive'
<1>1. Excepted' = Excepted /\ ShownSent' = ShownSent /\ keyRef' = keyRef
  BY DEF Excepted, ShownSent
<1>2. DroppedIsOver'
  BY <1>1 DEF DroppedIsOver
<1>3. OneIsAlive'
  BY <1>1 DEF OneIsAlive
<1> QED
  BY <1>2, <1>3

\* The initial states.
LEMMA PayClientStarts == PayClientInit => PayClientIInv
<1> SUFFICES ASSUME PayClientInit PROVE PayClientIInv
  OBVIOUS
<1>1. /\ verdict = [k \in PayKeys |-> "none"] /\ moved = [k \in PayKeys |-> "none"]
      /\ flying = {} /\ made = 0 /\ keyRef = 0 /\ form = Blank /\ button = "ready"
      /\ lapsed = {} /\ raced = {} /\ rate \in Rates
      /\ \A c \in Wires : calls[c] = NoCall
      /\ shown = [how \in {"paid", "submitted"} |-> {}]
      /\ calls = [c \in Wires |-> NoCall] /\ stored = [k \in PayKeys |-> Unstored]
  BY DEF PayClientInit, Service!Init
<1>2. 0 \in 0..MaxKeys /\ 0 \in 0..0
  BY PayClientAssumption DEF PayClientAssumption
<1>3. PayClientTypeOK
  BY <1>1, <1>2 DEF PayClientTypeOK
<1>4. \A k \in PayKeys : ~Alive(k) /\ verdict[k] = "none"
  BY <1>1 DEF Alive
<1>5. \A k \in PayKeys, f \in Forms : ~Pays(k, f)
  BY <1>1, <1>4 DEF Pays, Sends, Stage
<1>6. shown["paid"] = {}
  BY <1>1
<1> QED
  BY <1>1, <1>3, <1>4, <1>5, <1>6
  DEF PayClientIInv, WorkIsOpen, KeysAreBooked, SentLeavesForm, DroppedIsOver,
      OneIsAlive, ShownIsPaid, Stage, Service!Moves

-----------------------------------------------------------------------------
(* What the page makes of an answer. *)

\* The service's part of a step on which a request ends: what is stored stays, no
\* other key becomes alive, and the answer says what has become of the payment.
Answers(c, answer) ==
  LET k == calls[c].key
  IN  /\ stored' = stored
      /\ \A l \in PayKeys : Alive(l)' => Alive(l)
      /\ \A l \in PayKeys : moved[l] # "none" => moved'[l] # "none"
      /\ calls[c].heard /\ answer = "paid" =>
           Stored(k) /\ stored[k].form = calls[c].form /\ moved[k] # "none"
      /\ calls[c].heard /\ answer = "submitted" => Stored(k) /\ stored[k].form = calls[c].form
      /\ calls[c].heard /\ answer = "failed" => moved'[k] = "none" /\ k \notin flying'

\* What the page knows, after the answer.
PageIInv ==
  /\ made \in 0..MaxKeys /\ keyRef \in 0..made /\ form \in Forms \cup {Blank}
  /\ button \in {"ready", "pressed", "disabled"}
  /\ calls \in [Wires -> Call \cup {NoCall}]
  /\ shown \in [{"paid", "submitted"} -> SUBSET Forms]
  /\ lapsed \subseteq Forms /\ raced \subseteq Forms
  /\ SentLeavesForm /\ DroppedIsOver /\ OneIsAlive /\ ShownIsPaid

\* Both ways to be shown.
LEMMA ShownUnion ==
  ASSUME NEW s, s = shown
  PROVE  ShownSent = s["paid"] \cup s["submitted"]
  BY DEF ShownSent

\* A request that ends takes nothing up.
LEMMA EndedPaysNothing ==
  ASSUME PayClientTypeOK, NEW c \in Wires, calls' = [calls EXCEPT ![c] = NoCall],
         stored' = stored, \A l \in PayKeys : Alive(l)' => Alive(l)
  PROVE  /\ \A l \in PayKeys, f \in Forms : Pays(l, f)' => Pays(l, f)
         /\ \A l \in PayKeys, f \in Forms : Sends(l, f)' =>
              \E d \in Wires \ {c} : Stage(d, "sent") /\ calls[d].key = l /\ calls[d].form = f
<1>1. calls'[c] = NoCall /\ \A d \in Wires : d # c => calls'[d] = calls[d]
  BY DEF PayClientTypeOK
<1>2. \A l \in PayKeys : Stored(l)' <=> Stored(l)
  BY DEF Stored
<1>3. \A l \in PayKeys, f \in Forms : Sends(l, f)' => Sends(l, f)
  BY <1>1, <1>2 DEF Sends, Stage
<1>4. \A l \in PayKeys, f \in Forms : Pays(l, f)' => Pays(l, f)
  BY <1>2, <1>3 DEF Pays
<1>5. \A l \in PayKeys, f \in Forms : Sends(l, f)' =>
        \E d \in Wires \ {c} : Stage(d, "sent") /\ calls[d].key = l /\ calls[d].form = f
  BY <1>1 DEF Sends, Stage
<1> QED
  BY <1>4, <1>5

\* A key is dropped when nothing comes of it any more, or the payment it is for
\* becomes an exception.
LEMMA DropKeeps ==
  ASSUME PayClientTypeOK, DroppedIsOver, OneIsAlive, NEW c \in Wires, calls[c] # NoCall,
         calls' = [calls EXCEPT ![c] = NoCall], stored' = stored,
         \A l \in PayKeys : Alive(l)' => Alive(l),
         DropKey(c), lapsed \subseteq lapsed', lapsed' \subseteq Forms,
         ShownSent \subseteq ShownSent',
         NEW key, key = calls[c].key,
         Stored(key) /\ Alive(key)' => stored[key].form \in lapsed' \cup ShownSent'
  PROVE  DroppedIsOver' /\ OneIsAlive' /\ raced' \subseteq Forms
<1> DEFINE toCome == {calls[d].form : d \in {d \in Wires \ {c} :
                                              Stage(d, "sent") /\ calls[d].key = keyRef}}
           other  == IF keyRef \in {0, calls[c].key} \/ stored[keyRef] = Unstored THEN {}
                     ELSE {stored[keyRef].form}
<1>1. keyRef' = 0 /\ raced' = raced \cup ((toCome \cup other) \ ShownSent')
  BY DEF DropKey
<1>2. /\ \A l \in PayKeys, f \in Forms : Pays(l, f)' => Pays(l, f)
      /\ \A l \in PayKeys, f \in Forms : Sends(l, f)' =>
           \E d \in Wires \ {c} : Stage(d, "sent") /\ calls[d].key = l /\ calls[d].form = f
  BY EndedPaysNothing
<1>3. keyRef \in PayKeys \cup {0} /\ 0 \notin PayKeys
  BY PayClientAssumption DEF PayClientTypeOK, PayClientAssumption, PayKeys
<1>4. raced' \subseteq Forms
  <2>1. toCome \subseteq Forms
    BY CallFacts DEF Stage
  <2>2. other \subseteq Forms
    BY <1>3, StoredPayload DEF Stored
  <2> HIDE DEF toCome, other
  <2> QED
    BY <1>1, <2>1, <2>2 DEF PayClientTypeOK
<1>5. Excepted \subseteq Excepted'
  BY <1>1 DEF Excepted
<1>6. OneIsAlive'
  BY <1>2, <1>5 DEF OneIsAlive
<1>7. ASSUME NEW k \in PayKeys, NEW f \in Forms, f \notin Excepted' \cup ShownSent', Pays(k, f)'
      PROVE  FALSE
  <2>1. Pays(k, f) /\ f \notin Excepted \cup ShownSent
    BY <1>2, <1>5, <1>7
  <2>2. k = keyRef
    BY <2>1 DEF DroppedIsOver
  <2>3. f \notin toCome \cup other
    BY <1>1, <1>7 DEF Excepted
  <2>4. CASE Sends(k, f)'
    <3>1. PICK d \in Wires \ {c} : Stage(d, "sent") /\ calls[d].key = k /\ calls[d].form = f
      BY <1>2, <2>4
    <3>2. f \in toCome
      BY <2>2, <3>1
    <3> QED
      BY <2>3, <3>2
  <2>5. CASE Stored(k)' /\ stored'[k].form = f /\ Alive(k)'
    <3>1. Stored(k) /\ stored[k].form = f
      BY <2>5 DEF Stored
    <3>2. CASE k = calls[c].key
      <4>1. f \in lapsed' \cup ShownSent'
        BY <2>5, <3>1, <3>2
      <4> QED
        BY <1>7, <4>1 DEF Excepted
    <3>3. CASE k # calls[c].key
      <4>1. f \in other
        BY <1>3, <2>2, <3>1, <3>3 DEF Stored
      <4> QED
        BY <2>3, <4>1
    <3> QED
      BY <3>2, <3>3
  <2> HIDE DEF toCome, other
  <2> QED
    BY <1>7, <2>4, <2>5 DEF Pays
<1>8. DroppedIsOver'
  BY <1>7 DEF DroppedIsOver
<1> QED
  BY <1>4, <1>6, <1>8

\* Hearing an answer keeps what the page knows.
LEMMA HearKeeps ==
  ASSUME PayClientIInv, NEW c \in Wires, calls[c] # NoCall,
         NEW answer \in {"paid", "submitted", "failed", "refused", "busy", "nothing"},
         Hear(c, answer), Answers(c, answer)
  PROVE  PageIInv'
<1> DEFINE call == calls[c]
<1> PICK k \in PayKeys : k = calls[c].key
  BY CallFacts DEF PayClientIInv
<1>0. /\ PayClientTypeOK /\ SentLeavesForm /\ DroppedIsOver /\ OneIsAlive /\ ShownIsPaid
      /\ k \in PayKeys /\ call.form \in Forms
  BY CallFacts DEF PayClientIInv
<1>1. /\ calls' = [calls EXCEPT ![c] = NoCall]
      /\ calls' \in [Wires -> Call \cup {NoCall}]
      /\ button' \in {"ready", "pressed", "disabled"}
  BY <1>0 DEF Hear, PayClientTypeOK
<1>2. /\ made' = made /\ stored' = stored
      /\ \A l \in PayKeys : Alive(l)' => Alive(l)
      /\ \A l \in PayKeys : moved[l] # "none" => moved'[l] # "none"
  BY DEF Hear, Answers
<1>3. made \in 0..MaxKeys /\ keyRef \in 0..made /\ 0 \in 0..made /\ MaxKeys \in Nat
  BY <1>0, PayClientAssumption DEF PayClientTypeOK, PayClientAssumption
<1>4. CASE ~(call.heard /\ answer \in {"paid", "submitted", "failed", "refused"})
  <2>1. UNCHANGED <<shown, form, keyRef, lapsed, raced>>
    BY <1>4 DEF Hear, Final
  <2>2. DroppedIsOver' /\ OneIsAlive'
    BY <1>0, <1>1, <1>2, <2>1, EndedPaysNothing, NothingNew
  <2>3. SentLeavesForm' /\ ShownIsPaid'
    BY <1>0, <1>2, <2>1 DEF SentLeavesForm, ShownIsPaid, ShownSent
  <2> QED
    BY <1>0, <1>1, <1>2, <1>3, <2>1, <2>2, <2>3 DEF PageIInv, PayClientTypeOK
<1>5. CASE call.heard /\ answer \in {"paid", "submitted"}
  <2>1. /\ shown' = [shown EXCEPT ![answer] = @ \cup {call.form}]
        /\ form' = Blank /\ lapsed' = lapsed /\ DropKey(c)
    BY <1>5 DEF Hear
  <2>2. /\ shown \in [{"paid", "submitted"} -> SUBSET Forms]
        /\ shown' \in [{"paid", "submitted"} -> SUBSET Forms]
    BY <1>0, <1>5, <2>1 DEF PayClientTypeOK
  <2>3. /\ shown'[answer] = shown[answer] \cup {call.form}
        /\ \A how \in {"paid", "submitted"} : how # answer => shown'[how] = shown[how]
    BY <1>5, <2>1, <2>2
  <2>4. ShownSent' = ShownSent \cup {call.form}
    BY <1>5, <2>3, ShownUnion DEF ShownSent
  <2>5. stored[k].form = call.form
    BY <1>5 DEF Answers
  <2>6. lapsed' \subseteq Forms
    BY <1>0, <2>1 DEF PayClientTypeOK
  <2>7. DroppedIsOver' /\ OneIsAlive' /\ raced' \subseteq Forms
    BY <1>0, <1>1, <1>2, <2>1, <2>4, <2>5, <2>6, DropKeeps
  <2>8. ShownIsPaid'
    <3>1. answer = "paid" => stored[k].form = call.form /\ moved[k] # "none"
      BY <1>5 DEF Answers
    <3> QED
      BY <1>0, <1>2, <1>5, <2>3, <3>1 DEF ShownIsPaid
  <2>9. SentLeavesForm' /\ keyRef' = 0
    BY <2>1 DEF SentLeavesForm, DropKey
  <2> QED
    BY <1>0, <1>1, <1>2, <1>3, <2>1, <2>2, <2>6, <2>7, <2>8, <2>9 DEF PageIInv
<1>6. CASE call.heard /\ answer \in {"failed", "refused"}
  <2>1. /\ UNCHANGED <<shown, form>> /\ DropKey(c)
        /\ lapsed' = IF answer = "refused" /\ Stored(k)
                     THEN lapsed \cup {stored[k].form} ELSE lapsed
    BY <1>6 DEF Hear, Final, Stored
  <2>2. lapsed \subseteq lapsed' /\ lapsed' \subseteq Forms
    BY <1>0, <2>1, StoredPayload DEF PayClientTypeOK
  <2>3. ShownSent' = ShownSent
    BY <2>1 DEF ShownSent
  <2>4. Stored(k) /\ Alive(k)' => stored[k].form \in lapsed'
    BY <1>6, <2>1 DEF Answers, Alive
  <2>5. DroppedIsOver' /\ OneIsAlive' /\ raced' \subseteq Forms
    BY <1>0, <1>1, <1>2, <2>1, <2>2, <2>3, <2>4, DropKeeps
  <2>6. SentLeavesForm' /\ ShownIsPaid' /\ keyRef' = 0
    BY <1>0, <1>2, <2>1, <2>3 DEF SentLeavesForm, ShownIsPaid, DropKey
  <2> QED
    BY <1>0, <1>1, <1>2, <1>3, <2>1, <2>2, <2>5, <2>6 DEF PageIInv, PayClientTypeOK
<1> QED
  BY <1>4, <1>5, <1>6

\* The two halves together.
LEMMA Halves ==
  ASSUME PageIInv, WorkIsOpen, KeysAreBooked,
         verdict \in [PayKeys -> {"none", "open", "failed"} \cup Service!Moves],
         moved \in [PayKeys -> {"none"} \cup Service!Moves],
         stored \in [PayKeys -> Payload \cup {Unstored}],
         flying \subseteq PayKeys, rate \in Rates
  PROVE  PayClientIInv
  BY DEF PageIInv, PayClientIInv, PayClientTypeOK

-----------------------------------------------------------------------------
(* The steps. *)

\* Filling in the form, or painting its button.
LEMMA EditKeeps ==
  ASSUME PayClientIInv, Edit \/ Paint
  PROVE  PayClientIInv'
<1>1. /\ form' = form \/ form' \in Forms \ ShownSent
      /\ button' \in {"ready", "pressed", "disabled"}
      /\ UNCHANGED <<verdict, moved, stored, flying, rate, made, keyRef, calls, shown, lapsed, raced>>
  BY DEF Edit, Paint, serviceVars, PayClientIInv, PayClientTypeOK
<1>2. PayClientTypeOK'
  BY <1>1 DEF PayClientIInv, PayClientTypeOK
<1>3. SentLeavesForm'
  BY <1>1 DEF PayClientIInv, SentLeavesForm, ShownSent
<1>4. WorkIsOpen' /\ KeysAreBooked' /\ ShownIsPaid'
  BY <1>1 DEF PayClientIInv, WorkIsOpen, KeysAreBooked, ShownIsPaid, Stored, Alive, Stage
<1>5. DroppedIsOver' /\ OneIsAlive'
  <2>1. \A l \in PayKeys : Alive(l)' => Alive(l)
    BY <1>1 DEF Alive
  <2> QED
    BY <1>1, <2>1, PaysNothingNew, NothingNew DEF PayClientIInv
<1> QED
  BY <1>2, <1>3, <1>4, <1>5 DEF PayClientIInv

\* A click.
LEMMA ClickKeeps ==
  ASSUME PayClientIInv, NEW c \in Wires, Click(c)
  PROVE  PayClientIInv'
<1> DEFINE key == IF keyRef = 0 THEN made + 1 ELSE keyRef
           new == [stage |-> "sent", key |-> key, form |-> form, heard |-> TRUE]
<1>1. /\ calls[c] = NoCall /\ form # Blank /\ (keyRef # 0 \/ made < MaxKeys)
      /\ keyRef' = key /\ made' = IF keyRef = 0 THEN key ELSE made
      /\ calls' = [calls EXCEPT ![c] = new] /\ button' = "pressed"
      /\ UNCHANGED <<verdict, moved, stored, flying, rate, form, shown, lapsed, raced>>
  BY DEF Click, serviceVars
<1>2. PayClientTypeOK /\ made \in 0..MaxKeys /\ keyRef \in 0..made /\ MaxKeys \in Nat
  BY PayClientAssumption DEF PayClientIInv, PayClientTypeOK, PayClientAssumption
<1>3. key \in PayKeys /\ made' \in 0..MaxKeys /\ keyRef' \in 0..made'
  BY <1>1, <1>2 DEF PayKeys
<1>4. \A l \in PayKeys : l # key => l # keyRef
  BY <1>1, <1>2 DEF PayKeys
<1> HIDE DEF key
<1>5. new \in Call /\ new # NoCall /\ new.stage = "sent" /\ new.key = key /\ new.form = form
  BY <1>1, <1>2, <1>3 DEF Call, NoCall, PayClientTypeOK
<1> HIDE DEF new
<1>6. /\ calls'[c] = new
      /\ \A d \in Wires : d # c => calls'[d] = calls[d]
      /\ calls' \in [Wires -> Call \cup {NoCall}]
  BY <1>1, <1>2, <1>5 DEF PayClientTypeOK
<1>7. PayClientTypeOK'
  BY <1>1, <1>2, <1>3, <1>6 DEF PayClientTypeOK
<1>8. WorkIsOpen'
  BY <1>1, <1>5, <1>6 DEF PayClientIInv, WorkIsOpen, Stage, Stored
<1>9. KeysAreBooked' /\ SentLeavesForm' /\ ShownIsPaid'
  BY <1>1 DEF PayClientIInv, KeysAreBooked, SentLeavesForm, ShownIsPaid, Stored, Alive, ShownSent
<1>10. Excepted' = Excepted /\ ShownSent' = ShownSent
  BY <1>1 DEF Excepted, ShownSent
<1>11. \A l \in PayKeys, f \in Forms : Pays(l, f)' => Pays(l, f) \/ (l = key /\ f = form)
  BY <1>1, <1>5, <1>6 DEF Pays, Sends, Stored, Alive, Stage
<1>12. \A l \in PayKeys : l # key /\ form \notin Excepted => ~Pays(l, form)
  <2>1. form \in Forms /\ form \notin ShownSent
    BY <1>1, <1>2 DEF PayClientIInv, PayClientTypeOK, SentLeavesForm
  <2> QED
    BY <1>4, <2>1 DEF PayClientIInv, DroppedIsOver
<1>13. DroppedIsOver'
  <2> SUFFICES ASSUME NEW l \in PayKeys, NEW f \in Forms,
                      l # key, f \notin Excepted \cup ShownSent, Pays(l, f)'
               PROVE  FALSE
    BY <1>1, <1>10 DEF DroppedIsOver
  <2>1. Pays(l, f) /\ l # keyRef
    BY <1>4, <1>11
  <2> QED
    BY <2>1 DEF PayClientIInv, DroppedIsOver
<1>14. OneIsAlive'
  <2> SUFFICES ASSUME NEW k \in PayKeys, NEW l \in PayKeys, NEW f \in Forms,
                      f \notin Excepted, Pays(k, f)', Pays(l, f)'
               PROVE  k = l
    BY <1>10 DEF OneIsAlive
  <2>1. CASE f = form
    <3>1. k = key /\ l = key
      BY <1>11, <1>12, <2>1
    <3> QED
      BY <3>1
  <2>2. CASE f # form
    <3>1. Pays(k, f) /\ Pays(l, f)
      BY <1>11, <2>2
    <3> QED
      BY <3>1 DEF PayClientIInv, OneIsAlive
  <2> QED
    BY <2>1, <2>2
<1> QED
  BY <1>7, <1>8, <1>9, <1>13, <1>14 DEF PayClientIInv

\* A payment goes on its way.
LEMMA AttemptKeeps ==
  ASSUME PayClientIInv, NEW c \in Wires, Attempt(c)
  PROVE  PayClientIInv'
<1> PICK k, f0 : k = calls[c].key /\ f0 = calls[c].form
  OBVIOUS
<1> DEFINE new == [calls[c] EXCEPT !.stage = "working"]
<1>1. /\ Stage(c, "sent") /\ stored[k] \in {Unstored, Hash(c)}
      /\ verdict[k] \in {"none", "failed"} /\ verdict' = [verdict EXCEPT ![k] = "open"]
      /\ moved' = moved /\ stored' = [stored EXCEPT ![k] = Hash(c)] /\ rate' = rate
      /\ flying' = flying \cup {k} /\ calls' = [calls EXCEPT ![c] = new]
      /\ UNCHANGED <<made, keyRef, form, button, shown, lapsed, raced>>
  BY DEF Attempt, Starts, Service!Attempt
<1>2. /\ PayClientTypeOK /\ calls[c] \in Call /\ k \in PayKeys /\ calls[c] # NoCall /\ f0 \in Forms
  BY <1>1, CallFacts DEF PayClientIInv, Stage
<1>3. Hash(c) \in Payload /\ Hash(c) # Unstored /\ Hash(c).form = f0
  BY <1>2 DEF Hash, Payload, Unstored, PayClientTypeOK
<1>4. new \in Call /\ new # NoCall /\ new.stage = "working" /\ new.key = k /\ new.form = f0
  BY <1>2 DEF Call, NoCall
<1> HIDE DEF new
<1>5. /\ verdict'[k] = "open" /\ stored'[k] = Hash(c)
      /\ \A l \in PayKeys : l # k => verdict'[l] = verdict[l] /\ stored'[l] = stored[l]
      /\ calls'[c] = new /\ \A d \in Wires : d # c => calls'[d] = calls[d]
  BY <1>1, <1>2 DEF PayClientTypeOK
<1>6. PayClientTypeOK'
  BY <1>1, <1>2, <1>3, <1>4 DEF PayClientTypeOK
<1>7. Sends(k, f0)
  BY <1>1, <1>2, <1>3 DEF Sends, Stored
<1>8. WorkIsOpen'
  <2>1. \A d \in Wires : d # c /\ Stage(d, "working") => calls[d].key # k /\ calls[d].key \in PayKeys
    BY <1>1, <1>2, CallFacts DEF PayClientIInv, WorkIsOpen, Stage
  <2> QED
    BY <1>3, <1>4, <1>5, <2>1 DEF PayClientIInv, WorkIsOpen, Stage, Stored
<1>9. \A l \in PayKeys : /\ Alive(l)' <=> Alive(l) \/ l = k
                         /\ Stored(l)' <=> Stored(l) \/ l = k
                         /\ Stored(l) => stored'[l] = stored[l]
  BY <1>1, <1>3, <1>5 DEF Alive, Stored
<1>10. KeysAreBooked'
  BY <1>1, <1>5, <1>9 DEF PayClientIInv, KeysAreBooked, Service!Moves, Alive
<1>11. \A l \in PayKeys, f \in Forms : Pays(l, f)' => Pays(l, f)
  <2> SUFFICES ASSUME NEW l \in PayKeys, NEW f \in Forms, Pays(l, f)' PROVE Pays(l, f)
    OBVIOUS
  <2>1. CASE l = k
    <3>1. stored'[k].form = f0 /\ Stored(k)'
      BY <1>3, <1>5 DEF Stored
    <3>2. f = f0
      BY <2>1, <3>1 DEF Pays, Sends
    <3> QED
      BY <1>7, <2>1, <3>2 DEF Pays
  <2>2. CASE l # k
    <3>1. /\ Stored(l)' <=> Stored(l)
          /\ stored'[l] = stored[l] /\ (Alive(l)' <=> Alive(l))
      BY <1>5, <1>9, <2>2
    <3>2. Sends(l, f)' => Sends(l, f)
      BY <1>4, <1>5, <3>1 DEF Sends, Stage
    <3> QED
      BY <3>1, <3>2 DEF Pays
  <2> QED
    BY <2>1, <2>2
<1>12. DroppedIsOver' /\ OneIsAlive'
  BY <1>1, <1>11, NothingNew DEF PayClientIInv
<1>13. SentLeavesForm'
  BY <1>1 DEF PayClientIInv, SentLeavesForm, ShownSent
<1>14. ShownIsPaid'
  <2>1. \A l \in PayKeys : moved[l] # "none" => stored'[l] = stored[l]
    BY <1>9 DEF PayClientIInv, KeysAreBooked, Alive
  <2> QED
    BY <1>1, <2>1 DEF PayClientIInv, ShownIsPaid
<1> QED
  BY <1>6, <1>8, <1>10, <1>12, <1>13, <1>14 DEF PayClientIInv

\* A request ends and the table says nothing new of its payment.
LEMMA EndsKeeps ==
  ASSUME PayClientIInv, NEW c \in Wires, calls[c] # NoCall,
         NEW answer \in {"paid", "submitted", "failed", "refused", "busy", "nothing"},
         Hear(c, answer), Answers(c, answer),
         UNCHANGED <<verdict, moved, stored, flying, rate>>
  PROVE  PayClientIInv'
<1>1. PageIInv'
  BY HearKeeps
<1>2. /\ calls'[c] = NoCall
      /\ \A d \in Wires : d # c => calls'[d] = calls[d]
  BY DEF Hear, PayClientIInv, PayClientTypeOK
<1>3. WorkIsOpen' /\ KeysAreBooked'
  BY <1>2 DEF PayClientIInv, WorkIsOpen, KeysAreBooked, Stage, Stored, Alive
<1> QED
  BY <1>1, <1>3 DEF PageIInv, PayClientIInv, PayClientTypeOK

\* The answers that change nothing but what the page knows.
LEMMA AnsweredKeeps ==
  ASSUME PayClientIInv, NEW c \in Wires,
         LookedUp(c) \/ TurnedAway(c) \/ GetsLost(c) \/ LeftOpen(c)
  PROVE  PayClientIInv'
<1> DEFINE k == calls[c].key
<1>1. calls[c] # NoCall /\ UNCHANGED <<verdict, moved, stored, flying, rate>>
  BY DEF LookedUp, TurnedAway, GetsLost, LeftOpen, Stage, serviceVars
<1>2. k \in PayKeys /\ PayClientTypeOK /\ WorkIsOpen /\ KeysAreBooked
  BY <1>1, CallFacts DEF PayClientIInv
<1>3. \A l \in PayKeys : Alive(l)' => Alive(l)
  BY <1>1 DEF Alive
<1>4. CASE LookedUp(c)
  <2>1. CASE stored[k] = Hash(c) /\ stored[k] # Unstored /\ verdict[k] \in Service!Moves /\ Hear(c, "paid")
    <3>1. moved[k] # "none"
      BY <1>2, <2>1 DEF KeysAreBooked, Service!Moves
    <3>2. Answers(c, "paid")
      BY <1>1, <1>3, <2>1, <3>1 DEF Answers, Stored, Hash
    <3> QED
      BY <1>1, <2>1, <3>2, EndsKeeps
  <2>2. CASE Hear(c, "refused") \/ Hear(c, "busy")
    <3>1. Answers(c, "refused") /\ Answers(c, "busy")
      BY <1>1, <1>3 DEF Answers
    <3> QED
      BY <1>1, <2>2, <3>1, EndsKeeps
  <2> QED
    BY <1>4, <2>1, <2>2 DEF LookedUp
<1>5. CASE TurnedAway(c) \/ GetsLost(c)
  <2>1. Answers(c, "refused") /\ Answers(c, "nothing")
    BY <1>1, <1>3 DEF Answers
  <2> QED
    BY <1>1, <1>5, <2>1, EndsKeeps DEF TurnedAway, GetsLost
<1>6. CASE LeftOpen(c)
  <2>1. Answers(c, "submitted") /\ Answers(c, "nothing")
    BY <1>1, <1>2, <1>3, <1>6 DEF Answers, LeftOpen, WorkIsOpen
  <2> QED
    BY <1>1, <1>6, <2>1, EndsKeeps DEF LeftOpen
<1> QED
  BY <1>4, <1>5, <1>6

\* A retry that is stopped.
LEMMA StoppedKeeps ==
  ASSUME PayClientIInv, NEW c \in Wires, StoppedRetry(c)
  PROVE  PayClientIInv'
<1> DEFINE k == calls[c].key
<1>1. /\ Stage(c, "sent") /\ calls[c] # NoCall /\ stored[k] = Hash(c)
      /\ verdict[k] \in {"none", "failed"} /\ verdict' = [verdict EXCEPT ![k] = "open"]
      /\ stored' = [stored EXCEPT ![k] = Hash(c)] /\ UNCHANGED <<moved, rate, flying>>
      /\ Hear(c, "failed")
  BY DEF StoppedRetry, Starts, Service!Attempt, Stage
<1>2. /\ PayClientTypeOK /\ WorkIsOpen /\ KeysAreBooked /\ k \in PayKeys
  BY <1>1, CallFacts DEF PayClientIInv
<1>3. stored' = stored
  BY <1>1, <1>2 DEF PayClientTypeOK
<1>4. ~Alive(k) /\ \A l \in PayKeys : Alive(l)' <=> Alive(l)
  BY <1>1, <1>2 DEF KeysAreBooked, Alive
<1>5. PageIInv'
  <2>1. /\ moved'[k] = "none" /\ k \notin flying' /\ \A l \in PayKeys : Alive(l)' => Alive(l)
        /\ \A l \in PayKeys : moved[l] # "none" => moved'[l] # "none"
    <3>1. moved' = moved
      BY <1>1
    <3>2. moved'[k] = "none" /\ k \notin flying'
      BY <1>1, <1>4 DEF Alive
    <3> QED
      BY <1>4, <3>1, <3>2
  <2>2. Answers(c, "failed")
    BY <1>3, <2>1, ZenonT(30) DEF Answers
  <2> QED
    BY <1>1, <2>2, HearKeeps
<1>6. /\ verdict'[k] = "open" /\ \A l \in PayKeys : l # k => verdict'[l] = verdict[l]
      /\ calls'[c] = NoCall /\ \A d \in Wires : d # c => calls'[d] = calls[d]
  BY <1>1, <1>2 DEF PayClientTypeOK, Hear
<1>7. WorkIsOpen'
  <2>1. \A d \in Wires : Stage(d, "working") => calls[d].key # k /\ calls[d].key \in PayKeys
    BY <1>1, <1>2, CallFacts DEF WorkIsOpen, Stage
  <2> QED
    BY <1>2, <1>3, <1>6, <2>1 DEF WorkIsOpen, Stage, Stored
<1>8. KeysAreBooked'
  BY <1>1, <1>2, <1>3, <1>4, <1>6 DEF KeysAreBooked, Service!Moves, Stored
<1> QED
  BY <1>1, <1>2, <1>3, <1>5, <1>7, <1>8 DEF PageIInv, PayClientIInv, PayClientTypeOK

\* Reports: the table is told what happened to an open key.
LEMMA ReportBooks ==
  ASSUME PayClientIInv, NEW k \in PayKeys, Service!Report(k), flying' = flying \ {k},
         UNCHANGED <<stored, rate>>
  PROVE  /\ verdict' \in [PayKeys -> {"none", "open", "failed"} \cup Service!Moves]
         /\ moved' = moved
         /\ \A l \in PayKeys : l # k => verdict'[l] = verdict[l]
         /\ \A l \in PayKeys : Alive(l)' <=> Alive(l) /\ (l # k \/ moved[k] # "none")
         /\ KeysAreBooked'
<1>1. /\ PayClientTypeOK /\ KeysAreBooked
      /\ verdict' = [verdict EXCEPT ![k] = IF moved[k] = "none" THEN "failed" ELSE moved[k]]
      /\ moved' = moved
  BY DEF PayClientIInv, Service!Report
<1>2. /\ verdict' \in [PayKeys -> {"none", "open", "failed"} \cup Service!Moves]
      /\ verdict'[k] = IF moved[k] = "none" THEN "failed" ELSE moved[k]
      /\ \A l \in PayKeys : l # k => verdict'[l] = verdict[l]
      /\ moved[k] \in {"none"} \cup Service!Moves
  BY <1>1 DEF PayClientTypeOK
<1>3. \A l \in PayKeys : Alive(l)' <=> Alive(l) /\ (l # k \/ moved[k] # "none")
  BY <1>1 DEF Alive
<1>4. KeysAreBooked'
  BY <1>1, <1>2, <1>3 DEF KeysAreBooked, Alive, Stored, Service!Moves
<1> QED
  BY <1>1, <1>2, <1>3, <1>4

\* A payment is over, and so is its request.
LEMMA DoneKeeps ==
  ASSUME PayClientIInv, NEW c \in Wires, Done(c)
  PROVE  PayClientIInv'
<1> DEFINE k == calls[c].key
           answer == IF moved[k] = "none" THEN "failed" ELSE "paid"
<1>1. /\ Stage(c, "working") /\ calls[c] # NoCall /\ Service!Report(k)
      /\ Hear(c, answer) /\ flying' = flying \ {k} /\ UNCHANGED <<stored, rate>>
  BY DEF Done, Stage
<1>2. /\ PayClientTypeOK /\ WorkIsOpen /\ k \in PayKeys
  BY <1>1, CallFacts DEF PayClientIInv
<1>3. /\ verdict' \in [PayKeys -> {"none", "open", "failed"} \cup Service!Moves]
      /\ moved' = moved
      /\ \A l \in PayKeys : l # k => verdict'[l] = verdict[l]
      /\ \A l \in PayKeys : Alive(l)' <=> Alive(l) /\ (l # k \/ moved[k] # "none")
      /\ KeysAreBooked'
  BY <1>1, <1>2, ReportBooks
<1>4. Stored(k) /\ stored[k].form = calls[c].form
  BY <1>1, <1>2 DEF WorkIsOpen
<1>5. PageIInv'
  <2>1. /\ answer \in {"paid", "failed"} /\ answer # "submitted"
        /\ answer = "paid" => moved[k] # "none"
        /\ answer = "failed" => moved[k] = "none"
    OBVIOUS
  <2>2. \A l \in PayKeys : moved[l] # "none" => moved'[l] # "none"
    BY <1>3
  <2>3. \A l \in PayKeys : Alive(l)' => Alive(l)
    BY <1>3
  <2>4. answer = "failed" => moved'[k] = "none" /\ k \notin flying'
    BY <1>1, <1>3, <2>1
  <2>5. stored' = stored
    BY <1>1
  <2> HIDE DEF answer
  <2>6. Answers(c, answer)
    BY <1>4, <2>1, <2>2, <2>3, <2>4, <2>5, ZenonT(30) DEF Answers
  <2> QED
    BY <1>1, <2>1, <2>6, HearKeeps
<1>6. calls'[c] = NoCall /\ \A d \in Wires : d # c => calls'[d] = calls[d]
  BY <1>1, <1>2 DEF PayClientTypeOK, Hear
<1>7. WorkIsOpen'
  <2>1. \A d \in Wires : d # c /\ Stage(d, "working") => calls[d].key # k /\ calls[d].key \in PayKeys
    BY <1>1, <1>2, CallFacts DEF WorkIsOpen, Stage
  <2> QED
    BY <1>1, <1>2, <1>3, <1>6, <2>1 DEF WorkIsOpen, Stage, Stored
<1> QED
  BY <1>1, <1>2, <1>3, <1>5, <1>7 DEF PageIInv, PayClientIInv, PayClientTypeOK

\* The watchdog rules.
LEMMA RuledOnKeeps ==
  ASSUME PayClientIInv, NEW k \in PayKeys, RuledOn(k)
  PROVE  PayClientIInv'
<1>1. /\ \A c \in Wires : Stage(c, "working") => calls[c].key # k
      /\ Service!Report(k) /\ flying' = flying \ {k} /\ UNCHANGED <<stored, rate, pageVars>>
  BY DEF RuledOn
<1>2. UNCHANGED <<stored, rate, made, keyRef, form, button, calls, shown, lapsed, raced>>
  BY <1>1 DEF pageVars
<1>3. /\ verdict' \in [PayKeys -> {"none", "open", "failed"} \cup Service!Moves]
      /\ moved' = moved
      /\ \A l \in PayKeys : l # k => verdict'[l] = verdict[l]
      /\ \A l \in PayKeys : Alive(l)' <=> Alive(l) /\ (l # k \/ moved[k] # "none")
      /\ KeysAreBooked'
  BY <1>1, ReportBooks
<1>4. \A d \in Wires : Stage(d, "working") => calls[d].key \in PayKeys
  BY CallFacts DEF Stage, PayClientIInv
<1>5. WorkIsOpen'
  BY <1>1, <1>2, <1>3, <1>4 DEF PayClientIInv, WorkIsOpen, Stage, Stored
<1>6. SentLeavesForm' /\ ShownIsPaid'
  BY <1>2, <1>3 DEF PayClientIInv, SentLeavesForm, ShownIsPaid, ShownSent
<1>7. DroppedIsOver' /\ OneIsAlive'
  BY <1>2, <1>3, PaysNothingNew, NothingNew DEF PayClientIInv
<1>8. PayClientTypeOK'
  BY <1>1, <1>2, <1>3 DEF PayClientIInv, PayClientTypeOK
<1> QED
  BY <1>3, <1>5, <1>6, <1>7, <1>8 DEF PayClientIInv

\* A transaction lands.
LEMMA LandsKeeps ==
  ASSUME PayClientIInv, NEW k \in PayKeys, Lands(k)
  PROVE  PayClientIInv'
<1>1. /\ k \in flying /\ verdict[k] = "open" /\ UNCHANGED <<verdict, stored, flying, rate, pageVars>>
  BY DEF Lands, Service!Move
<1>2. PICK how \in Service!Moves : moved' = [moved EXCEPT ![k] = how]
  BY DEF Lands, Service!Move
<1>3. UNCHANGED <<verdict, stored, flying, rate, made, keyRef, form, button, calls, shown, lapsed, raced>>
  BY <1>1 DEF pageVars
<1>4. /\ moved' \in [PayKeys -> {"none"} \cup Service!Moves]
      /\ \A l \in PayKeys : l # k => moved'[l] = moved[l]
      /\ moved'[k] # "none"
  BY <1>2 DEF PayClientIInv, PayClientTypeOK, Service!Moves
<1>5. \A l \in PayKeys : Alive(l)' <=> Alive(l)
  BY <1>1, <1>3, <1>4 DEF Alive
<1>6. PayClientTypeOK'
  BY <1>3, <1>4 DEF PayClientIInv, PayClientTypeOK
<1>7. SentLeavesForm' /\ WorkIsOpen'
  BY <1>3 DEF PayClientIInv, SentLeavesForm, WorkIsOpen, Stage, Stored, ShownSent
<1>8. DroppedIsOver' /\ OneIsAlive'
  BY <1>3, <1>5, PaysNothingNew, NothingNew DEF PayClientIInv
<1>9. KeysAreBooked'
  BY <1>1, <1>3, <1>4, <1>5 DEF PayClientIInv, KeysAreBooked, Stored, Service!Moves
<1>10. ShownIsPaid'
  BY <1>3, <1>4 DEF PayClientIInv, ShownIsPaid
<1> QED
  BY <1>6, <1>7, <1>8, <1>9, <1>10 DEF PayClientIInv

\* Steps that change neither keys nor what is known of them: the connection gives
\* up, the rate moves.
LEMMA QuietKeeps ==
  ASSUME PayClientIInv,
         UNCHANGED payClientVars \/ RateMoves \/ \E c \in Wires : Unheard(c)
  PROVE  PayClientIInv'
<1>1. CASE UNCHANGED payClientVars \/ RateMoves
  <2>1. /\ rate' \in Rates
        /\ UNCHANGED <<verdict, moved, stored, flying, made, keyRef, form, button, calls, shown, lapsed, raced>>
    BY <1>1 DEF RateMoves, payClientVars, pageVars, PayClientIInv, PayClientTypeOK
  <2>2. PayClientTypeOK'
    BY <2>1 DEF PayClientIInv, PayClientTypeOK
  <2>3. DroppedIsOver' /\ OneIsAlive'
    <3>1. \A l \in PayKeys : Alive(l)' => Alive(l)
      BY <2>1 DEF Alive
    <3> QED
      BY <2>1, <3>1, PaysNothingNew, NothingNew DEF PayClientIInv
  <2> QED
    BY <2>1, <2>2, <2>3
    DEF PayClientIInv, WorkIsOpen, KeysAreBooked, SentLeavesForm, ShownIsPaid,
        Stage, Stored, Alive, ShownSent
<1>2. ASSUME NEW c \in Wires, Unheard(c) PROVE PayClientIInv'
  <2> DEFINE new == [calls[c] EXCEPT !.heard = FALSE]
  <2>1. /\ calls[c] # NoCall /\ calls' = [calls EXCEPT ![c] = new] /\ button' = "ready"
        /\ UNCHANGED <<verdict, moved, stored, flying, rate, made, keyRef, form, shown, lapsed, raced>>
    BY <1>2 DEF Unheard, serviceVars
  <2>2. calls[c] \in Call
    BY <2>1, CallFacts DEF PayClientIInv
  <2>3. /\ new \in Call /\ new # NoCall /\ new.stage = calls[c].stage
        /\ new.key = calls[c].key /\ new.form = calls[c].form
    BY <2>1, <2>2 DEF Call, NoCall
  <2> HIDE DEF new
  <2>4. calls'[c] = new /\ \A d \in Wires : d # c => calls'[d] = calls[d]
    BY <2>1 DEF PayClientIInv, PayClientTypeOK
  <2>5. PayClientTypeOK'
    BY <2>1, <2>3 DEF PayClientIInv, PayClientTypeOK
  <2>6. \A d \in Wires : /\ calls'[d].key = calls[d].key /\ calls'[d].form = calls[d].form
                         /\ Stage(d, "sent")' <=> Stage(d, "sent")
                         /\ Stage(d, "working")' <=> Stage(d, "working")
    BY <2>1, <2>3, <2>4 DEF Stage
  <2>7. WorkIsOpen'
    BY <2>1, <2>6 DEF PayClientIInv, WorkIsOpen, Stored
  <2>8. KeysAreBooked' /\ SentLeavesForm' /\ ShownIsPaid'
    BY <2>1 DEF PayClientIInv, KeysAreBooked, SentLeavesForm, ShownIsPaid, Stored, Alive, ShownSent
  <2>9. \A l \in PayKeys, f \in Forms : Pays(l, f)' => Pays(l, f)
    BY <2>1, <2>6 DEF Pays, Sends, Stored, Alive
  <2>10. DroppedIsOver' /\ OneIsAlive'
    BY <2>1, <2>9, NothingNew DEF PayClientIInv
  <2> QED
    BY <2>5, <2>7, <2>8, <2>10 DEF PayClientIInv
<1> QED
  BY <1>1, <1>2

\* Every step of the page, of its requests and of the service keeps it.
LEMMA PayClientStep ==
  ASSUME PayClientIInv, [PayClientNext]_payClientVars
  PROVE  PayClientIInv'
<1>1. ASSUME NEW c \in Wires,
             \/ Click(c) \/ Attempt(c) \/ StoppedRetry(c) \/ LookedUp(c) \/ TurnedAway(c)
             \/ GetsLost(c) \/ Unheard(c) \/ Done(c) \/ LeftOpen(c)
      PROVE  PayClientIInv'
  BY <1>1, ClickKeeps, AttemptKeeps, StoppedKeeps, AnsweredKeeps, QuietKeeps, DoneKeeps
<1>2. ASSUME NEW k \in PayKeys, Lands(k) \/ RuledOn(k)
      PROVE  PayClientIInv'
  BY <1>2, LandsKeeps, RuledOnKeeps
<1> QED
  BY <1>1, <1>2, EditKeeps, QuietKeeps, Zenon DEF PayClientNext

\* The inductive invariant holds in every behaviour.
LEMMA PayClientInvariant == PayClientSpec => []PayClientIInv
BY PayClientStarts, PayClientStep, PTL DEF PayClientSpec

\* An employer who clicks until it works pays once, for any number of payments,
\* requests and keys, unless a retry was refused for another reason or the key was
\* dropped while a request was still to come in under it; and what was shown as paid
\* was paid, for the worker and the sum it was shown for.
THEOREM ShownOnceAndRight == PayClientSpec => []PaidAsShown
<1>1. ASSUME PayClientIInv, NEW f \in Forms \ (lapsed \cup raced)
      PROVE  Cardinality(PaidKeys(f)) <= 1
  <2>1. \A k, l \in PaidKeys(f) : k = l
    <3>1. \A k \in PaidKeys(f) : k \in PayKeys /\ Pays(k, f)
      BY <1>1 DEF PaidKeys, Pays, Alive, PayClientIInv, KeysAreBooked
    <3> QED
      BY <1>1, <3>1 DEF PayClientIInv, OneIsAlive, Excepted
  <2>2. CASE PaidKeys(f) = {}
    BY <2>2, FS_EmptySet
  <2>3. CASE PaidKeys(f) # {}
    <3>1. PICK k : k \in PaidKeys(f)
      BY <2>3
    <3>2. PaidKeys(f) = {k}
      BY <2>1, <3>1
    <3>3. Cardinality(PaidKeys(f)) = 1
      BY <3>2, FS_Singleton, Zenon
    <3> QED
      BY <3>3
  <2> QED
    BY <2>2, <2>3
<1>2. ASSUME PayClientIInv, NEW f \in shown["paid"] PROVE PaidKeys(f) # {}
  BY <1>2 DEF PayClientIInv, ShownIsPaid, PaidKeys
<1>3. PayClientIInv => PaidAsShown
  BY <1>1, <1>2 DEF PaidAsShown
<1> QED
  BY <1>3, PayClientInvariant, PTL

-----------------------------------------------------------------------------
(* The parts together. *)

ServicesIInv ==
  /\ AdminIInv /\ ClearanceTypeOK /\ NamesIInv /\ PayClientIInv
  /\ CompanyIInv /\ CompanyBound
  /\ SessionsIInv /\ SessionsBound

\* A step of MCServices is a step of the part in focus, and leaves the others alone.
LEMMA StepOfEach ==
  ASSUME [AllNext]_allVars
  PROVE  /\ [Next]_vars /\ [ClearanceNext]_clearanceVars /\ [CompanyNext]_companyVars
         /\ [SessionsNext]_sessionVars /\ [NamesNext]_namesVars /\ [PayClientNext]_payClientVars
<1>1. CASE UNCHANGED allVars
  BY <1>1 DEF allVars
<1>2. CASE AllNext
  BY <1>2 DEF AllNext
<1> QED
  BY <1>1, <1>2

\* Every part's state keeps its type in every behaviour of MCServices.
THEOREM ServicesTypeCorrect == AllSpec => []AllTypeOK
<1>1. AllInit => ServicesIInv
  <2> SUFFICES ASSUME AllInit PROVE ServicesIInv
    OBVIOUS
  <2>1. Init /\ ClearanceInit /\ CompanyInit /\ SessionsInit /\ NamesInit /\ PayClientInit
    BY DEF AllInit
  <2>2. AdminIInv /\ ClearanceTypeOK /\ NamesIInv /\ PayClientIInv
    BY <2>1, AdminAssumption, AdminStarts, TypedStarts, NamesStart, PayClientStarts
  <2>3. CompanyIInv /\ CompanyBound /\ SessionsIInv /\ SessionsBound
    BY <2>1, CompanyStarts, CompanyBoundStarts, SessionsStart, SessionsBoundStarts
  <2> QED
    BY <2>2, <2>3 DEF ServicesIInv
<1>2. ServicesIInv /\ [AllNext]_allVars => ServicesIInv'
  <2> SUFFICES ASSUME ServicesIInv, [AllNext]_allVars PROVE ServicesIInv'
    OBVIOUS
  <2>1. AdminIInv' /\ ClearanceTypeOK'
    BY StepOfEach, AdminAssumption, AdminKeeps, TypedKeeps DEF ServicesIInv
  <2>2. NamesIInv' /\ PayClientIInv'
    BY StepOfEach, NamesKeeps, PayClientStep DEF ServicesIInv
  <2>3. CompanyIInv' /\ CompanyBound'
    BY StepOfEach, CompanyStep, TokensKeep, SetsKeep DEF ServicesIInv, CompanyBound
  <2>4. SessionsIInv' /\ SessionsBound'
    BY StepOfEach, SessionsStep, BoundStep DEF ServicesIInv
  <2> QED
    BY <2>1, <2>2, <2>3, <2>4 DEF ServicesIInv
<1>3. ServicesIInv => AllTypeOK
  <2> SUFFICES ASSUME ServicesIInv PROVE AllTypeOK
    OBVIOUS
  <2>1. TypeOK /\ ClearanceTypeOK
    BY DEF ServicesIInv, AdminIInv
  <2>2. CompanyTypeOK /\ SessionsTypeOK
    BY CompanyTyped, SessionsTyped DEF ServicesIInv
  <2>3. NamesTypeOK
    BY DEF ServicesIInv, NamesIInv
  <2>4. PayClientTypeOK
    BY DEF ServicesIInv, PayClientIInv
  <2> QED
    BY <2>1, <2>2, <2>3, <2>4 DEF AllTypeOK
<1> QED
  BY <1>1, <1>2, <1>3, PTL DEF AllSpec
=============================================================================
