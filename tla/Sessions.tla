------------------------------ MODULE Sessions ------------------------------
(***************************************************************************)
(* Signing in, in the user service (user-service/src/index.ts): a user's   *)
(* passkey for one origin, the challenges of a ceremony, and the sessions  *)
(* in Redis whose refresh token a browser holds as a cookie.  Handlers are *)
(* broken at their queries; a browser may have several under way.          *)
(*                                                                         *)
(* One user is followed.  A browser makes one passkey; its authenticator   *)
(* counts the signatures (one that does not count has nothing to lose).    *)
(***************************************************************************)
EXTENDS Integers, Sequences, FiniteSets

CONSTANTS
  Browsers,   \* the user's browsers
  Slots,      \* handlers that run at a time
  MaxVisits,  \* bound on the requests with more than one step
  MaxUses     \* bound on the signatures of an authenticator

Nobody == "nobody"

ASSUME SessionsAssumption == MaxVisits \in Nat /\ MaxUses \in Nat /\ Nobody \notin Browsers

VARIABLES
  account,   \* users: whether there is a row for the email
  passkey,   \* user_credentials: whose passkey, and its counter
  count,     \* count[b]: the signatures of b's authenticator, -1 without passkey
  challenge, \* reg:<email> and auth:<user>: the browser they were made for
  link,      \* whether a recovery link can be used
  tokens,    \* the refresh tokens in Redis
  cookie,    \* cookie[b]: the refresh token b holds, 0 for none
  visit,     \* visit[s]: the handler in slot s
  issued,    \* history: the browser every token was made for
  visited,   \* how many requests there were
  unusual    \* history: browsers two of whose requests overlapped or of which one
             \* died; those that signed in twice; a passkey replaced in a sign-in

users == <<account, passkey, count>>
past  == <<issued, visited, unusual>>
sessionVars ==
  <<users, challenge, link, tokens, cookie, visit, past>>

NoPasskey == [of |-> Nobody, counter |-> 0]
NoVisit   == [at |-> "none", by |-> Nobody, key |-> "none", token |-> 0,
              counter |-> 0, replaces |-> FALSE]

SessionsTypeOK ==
  LET Someone == Browsers \cup {Nobody}
      Token   == 0..MaxVisits
  IN
  /\ account \in BOOLEAN /\ link \in BOOLEAN
  /\ passkey \in [of : Someone, counter : 0..MaxUses]
  /\ count \in [Browsers -> -1..MaxUses]
  /\ challenge \in [{"reg", "auth"} -> Someone]
  /\ tokens \subseteq DOMAIN issued /\ cookie \in [Browsers -> Token]
  /\ visit \in [Slots -> [by : Someone, key : {"reg", "auth", "none"}, token : Token,
       at : {"none", "look", "user", "store", "count", "rotate", "link", "session"},
       counter : 0..MaxUses, replaces : BOOLEAN]]
  /\ issued \in Seq(Browsers) /\ Len(issued) <= MaxVisits /\ visited \in 0..MaxVisits
  /\ unusual \in [overlap : SUBSET Browsers, again : SUBSET Browsers, crossed : BOOLEAN]

SessionsInit ==
  /\ account = FALSE /\ passkey = NoPasskey /\ count = [b \in Browsers |-> -1]
  /\ challenge = [k \in {"reg", "auth"} |-> Nobody] /\ link = FALSE
  /\ tokens = {} /\ cookie = [b \in Browsers |-> 0] /\ issued = <<>> /\ visited = 0
  /\ visit = [s \in Slots |-> NoVisit]
  /\ unusual = [overlap |-> {}, again |-> {}, crossed |-> FALSE]

-----------------------------------------------------------------------------

Visits(b)    == {s \in Slots : visit[s].by = b}
Doing(s, stage) == visit[s].at = stage
Proceed(s, stage) == visit' = [visit EXCEPT ![s].at = stage]
Leave(s)     == visit' = [visit EXCEPT ![s] = NoVisit]

\* One more request of b.
Overlap(b) == IF Visits(b) = {} THEN unusual.overlap ELSE unusual.overlap \cup {b}

Enter(s, b, stage, key) ==
  /\ visit[s] = NoVisit
  /\ visited < MaxVisits /\ visited' = visited + 1
  /\ visit' = [visit EXCEPT ![s] = [NoVisit EXCEPT
       !.by = b, !.at = stage, !.key = key, !.token = cookie[b],
       !.counter = IF key = "auth" THEN count'[b] ELSE 0]]
  /\ unusual' = [unusual EXCEPT !.overlap = Overlap(b),
       !.again = IF stage # "rotate" /\ cookie[b] # 0 THEN @ \cup {b} ELSE @]

\* The process dies or a query fails: what was written stays.
Dies(s) ==
  /\ visit[s] # NoVisit /\ Leave(s)
  /\ unusual' = [unusual EXCEPT !.overlap = @ \cup {visit[s].by}]
  /\ UNCHANGED <<users, challenge, link, tokens, cookie, issued, visited>>

(* Registration. *)

\* register/start and login/start: one challenge per email, one per user.
StartCeremony(b, key) ==
  /\ key = "auth" => passkey # NoPasskey
  /\ challenge' = [challenge EXCEPT ![key] = b]
  /\ UNCHANGED <<users, link, tokens, cookie, visit, past>>

\* Ten minutes are over.
ChallengeExpires(key) ==
  /\ challenge' = [challenge EXCEPT ![key] = Nobody]
  /\ UNCHANGED <<users, link, tokens, cookie, visit, past>>

\* register/finish: the challenge is there, the new credential is signed over it.
Register(s, b) ==
  /\ challenge["reg"] = b /\ count[b] = -1
  /\ count' = [count EXCEPT ![b] = 0]
  /\ Enter(s, b, "look", "reg")
  /\ UNCHANGED <<account, passkey, challenge, link, tokens, cookie, issued>>

\* hasSessionFor: only who is signed in may replace a passkey.
LookForUser(s) ==
  LET replaces == account /\ passkey # NoPasskey IN
  /\ Doing(s, "look")
  /\ IF replaces /\ cookie[visit[s].by] = 0 THEN Leave(s)
     ELSE visit' = [visit EXCEPT ![s].at = IF account THEN "store" ELSE "user",
                                 ![s].replaces = replaces]
  /\ UNCHANGED <<users, challenge, link, tokens, cookie, past>>

\* The email is unique (23505).
CreateUser(s) ==
  /\ Doing(s, "user")
  /\ IF account THEN Leave(s) ELSE Proceed(s, "store")
  /\ account' = TRUE
  /\ UNCHANGED <<passkey, count, challenge, link, tokens, cookie, past>>

NewPasskey(b) == [of |-> b, counter |-> 0]

\* DELETE and INSERT in one transaction; without the DELETE, or when another one
\* has inserted in between, the row that is there wins.
StorePasskey(s) ==
  LET b == visit[s].by IN
  /\ Doing(s, "store")
  /\ \/ /\ passkey = NoPasskey \/ visit[s].replaces
        /\ passkey' = NewPasskey(b)
        /\ Proceed(s, "session")
        /\ unusual' = [unusual EXCEPT !.crossed = @ \/ \E r \in Slots : Doing(r, "count")]
     \/ /\ passkey # NoPasskey
        /\ visit[s].replaces => \E r \in Slots \ {s} : visit[r].replaces
        /\ Leave(s)
        /\ UNCHANGED <<passkey, unusual>>
  /\ UNCHANGED <<account, count, challenge, link, tokens, cookie, issued, visited>>

(* Login. *)

\* login/finish: the row and the challenge are read, the assertion verified
\* against the counter of the row.
Login(s, b) ==
  /\ passkey.of = b /\ challenge["auth"] = b /\ count[b] < MaxUses
  /\ count' = [count EXCEPT ![b] = @ + 1]
  /\ IF count'[b] > passkey.counter THEN Enter(s, b, "count", "auth")
     ELSE UNCHANGED <<visit, visited, unusual>>
  /\ UNCHANGED <<account, passkey, challenge, link, tokens, cookie, issued>>

\* UPDATE ... WHERE user_id AND origin: of whichever passkey is there now.
UpdateCounter(s) ==
  /\ Doing(s, "count") /\ Proceed(s, "session")
  /\ passkey' = [passkey EXCEPT !.counter = visit[s].counter]
  /\ UNCHANGED <<account, count, challenge, link, tokens, cookie, past>>

(* Recovery. *)

SendLink ==
  /\ account /\ link' = TRUE
  /\ UNCHANGED <<users, challenge, tokens, cookie, visit, past>>

FollowLink(s, b) ==
  /\ link /\ Enter(s, b, "link", "none")
  /\ UNCHANGED <<users, challenge, link, tokens, cookie, issued>>

UseLink(s) ==
  /\ Doing(s, "link") /\ Proceed(s, "session")
  /\ link' = FALSE
  /\ UNCHANGED <<users, challenge, tokens, cookie, past>>

(* Sessions. *)

\* The session is read; without one nothing happens.
Refresh(s, b) ==
  /\ cookie[b] \in tokens /\ Enter(s, b, "rotate", "none")
  /\ UNCHANGED <<users, challenge, link, tokens, cookie, issued>>

\* Faulty: the old token is left to expire.
KeepOldToken(s) ==
  /\ Doing(s, "rotate") /\ Proceed(s, "session")
  /\ UNCHANGED <<users, challenge, link, tokens, cookie, past>>

DeleteOldToken(s) ==
  /\ Doing(s, "rotate") /\ Proceed(s, "session")
  /\ tokens' = tokens \ {visit[s].token}
  /\ UNCHANGED <<users, challenge, link, cookie, past>>

\* The ceremony's challenge is deleted, the token stored, the answer sent.
IssueSession(s) ==
  LET new == Len(issued) + 1
      b   == visit[s].by
      key == visit[s].key
  IN
  /\ Doing(s, "session") /\ Leave(s)
  /\ tokens' = tokens \cup {new} /\ issued' = Append(issued, b)
  /\ cookie' = [cookie EXCEPT ![b] = new]
  /\ challenge' = IF key = "none" THEN challenge ELSE [challenge EXCEPT ![key] = Nobody]
  /\ UNCHANGED <<users, link, visited, unusual>>

Logout(b) ==
  /\ cookie[b] # 0
  /\ tokens' = tokens \ {cookie[b]} /\ cookie' = [cookie EXCEPT ![b] = 0]
  /\ unusual' = [unusual EXCEPT !.overlap = Overlap(b)]
  /\ UNCHANGED <<users, challenge, link, visit, issued, visited>>

SessionsNext ==
  \/ SendLink
  \/ \E b \in Browsers : Logout(b) \/ \E key \in {"reg", "auth"} : StartCeremony(b, key)
  \/ \E key \in {"reg", "auth"} : challenge[key] # Nobody /\ ChallengeExpires(key)
  \/ \E s \in Slots, b \in Browsers :
       Register(s, b) \/ Login(s, b) \/ FollowLink(s, b) \/ Refresh(s, b)
  \/ \E s \in Slots :
       \/ LookForUser(s) \/ CreateUser(s) \/ StorePasskey(s) \/ UpdateCounter(s)
       \/ UseLink(s) \/ DeleteOldToken(s) \/ IssueSession(s) \/ Dies(s)

SessionsSpec == SessionsInit /\ [][SessionsNext]_sessionVars

-----------------------------------------------------------------------------
(* Properties. *)

\* A cookie stands for a session, and who has logged out has left none behind:
\* for a browser with nothing under way, none of whose requests overlapped or
\* died, and that did not sign in on top of a session.
CookieIsSession ==
  \A b \in Browsers :
    Visits(b) = {} /\ b \notin unusual.overlap =>
      IF cookie[b] = 0
      THEN b \in unusual.again \/ \A t \in tokens : issued[t] # b
      ELSE cookie[b] \in tokens

\* The passkey that is stored can be signed in with again: its counter is not
\* ahead of its authenticator's, unless it replaced another during a sign-in.
PasskeyWorks ==
  passkey # NoPasskey => passkey.counter <= count[passkey.of] \/ unusual.crossed

\* Once it is over, no sequence of registrations, sign-ins, recoveries, refreshes
\* and logouts of several browsers has left the user unable to sign in, or a
\* session that nobody holds.
SignInLasts == CookieIsSession /\ PasskeyWorks
=============================================================================
