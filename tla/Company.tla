------------------------------- MODULE Company -------------------------------
(***************************************************************************)
(* Companies, teammates and invites in the user service                    *)
(* (user-service/src/index.ts).  A company is identified by its owner      *)
(* (enterprises.user_id is unique).  Handlers are broken at their queries; *)
(* accepting a team invite is one transaction that locks the invite.       *)
(***************************************************************************)
EXTENDS Integers, FiniteSets

CONSTANTS
  Users,       \* users of the platform
  Founder,     \* the owner of a company at the beginning
  Places,      \* requests that run at a time
  MaxRows,     \* bound on the rows of the two invite tables
  MaxRequests  \* bound on the requests

ASSUME CompanyAssumption ==
  Founder \in Users /\ MaxRows \in Nat /\ MaxRequests \in Nat

VARIABLES
  enterprises, \* the users with a row in enterprises
  member,      \* enterprise_members: member[c][u]
  workers,     \* enterprise_workers: pairs <<company, worker>>
  invite,      \* worker_invites (role "worker") and enterprise_member_invites
  request,     \* request[p]: the request in place p
  admitted,    \* history: <<row, token, user>> of every link that let someone in
  unfinished,  \* history: companies and rows whose second write was never made
  requests     \* how many requests there were

companyVars ==
  <<enterprises, member, workers, invite, request, admitted, unfinished, requests>>

TeamRoles == {"admin", "member"}
NoMember  == [role |-> "none", active |-> FALSE]
NoInvite  == [of |-> Founder, email |-> Founder, role |-> "worker", token |-> 0,
              status |-> "absent"]
Rows      == 1..MaxRows
NoRow     == 0
NoRequest == [pc |-> "none", by |-> Founder, of |-> Founder, whom |-> Founder,
              role |-> "none", row |-> NoRow]

CompanyTypeOK ==
  /\ enterprises \subseteq Users /\ workers \subseteq Users \X Users
  /\ member \in [Users -> [Users ->
       [role : TeamRoles \cup {"owner", "none"}, active : BOOLEAN]]]
  /\ invite \in [Rows -> [of : Users, email : Users, role : TeamRoles \cup {"worker"},
       token : 0..MaxRequests, status : {"absent", "pending", "accepted", "deleted"}]]
  /\ request \in [Places -> [of : Users, by : Users, whom : Users,
       pc : {"none", "own", "find", "write", "check", "join", "link", "target", "remove"},
       role : TeamRoles \cup {"worker", "owner", "none"}, row : Rows \cup {NoRow}]]
  /\ admitted \subseteq Rows \X (1..MaxRequests) \X Users
  /\ unfinished \subseteq Users \cup Rows /\ requests \in 0..MaxRequests

CompanyInit ==
  /\ enterprises = {Founder}
  /\ member = [c \in Users |-> [u \in Users |->
       IF c = Founder /\ u = Founder THEN [role |-> "owner", active |-> TRUE] ELSE NoMember]]
  /\ workers = {} /\ admitted = {} /\ unfinished = {} /\ requests = 0
  /\ invite = [i \in Rows |-> NoInvite]
  /\ request = [p \in Places |-> NoRequest]

\* The companies of a user; the index on active rows allows one.
Belongs(u) == {c \in Users : member[c][u].active}

Begin(p, record) ==
  /\ request[p] = NoRequest /\ requests < MaxRequests
  /\ requests' = requests + 1
  /\ request' = [request EXCEPT ![p] = record]

Step(p, pc) ==
  /\ request[p].pc = pc
  /\ UNCHANGED requests

Goto(p, pc) == request' = [request EXCEPT ![p].pc = pc]
End(p)      == request' = [request EXCEPT ![p] = NoRequest]

-----------------------------------------------------------------------------
(* PATCH /users/me with company fields. *)

UpsertCompany(p, u) ==
  /\ Begin(p, [NoRequest EXCEPT !.pc = "own", !.by = u])
  /\ enterprises' = enterprises \cup {u}
  /\ UNCHANGED <<member, workers, invite, admitted, unfinished>>

\* INSERT ... ON CONFLICT (enterprise_id, user_id) DO NOTHING: the index on
\* active rows refuses who belongs to another company.
InsertOwner(p) ==
  LET u == request[p].by IN
  /\ Step(p, "own") /\ End(p)
  /\ member' = IF member[u][u] = NoMember /\ Belongs(u) = {}
               THEN [member EXCEPT ![u][u] = [role |-> "owner", active |-> TRUE]]
               ELSE member
  /\ UNCHANGED <<enterprises, workers, invite, admitted, unfinished>>

-----------------------------------------------------------------------------
(* POST /invites, POST /company/invites. *)

\* resolveActiveMembership: every teammate invites workers, owners and admins
\* invite teammates.
StartInvite(p, u, email, role) ==
  \E c \in Belongs(u) :
    /\ role \in TeamRoles => member[c][u].role \in {"owner", "admin"}
    /\ Begin(p, [NoRequest EXCEPT !.pc = "find", !.by = u, !.of = c,
                                  !.whom = email, !.role = role])
    /\ UNCHANGED <<enterprises, member, workers, invite, admitted, unfinished>>

SameTable(role1, role2) == (role1 = "worker") = (role2 = "worker")

Pending(c, email, role) ==
  {i \in Rows : /\ invite[i].status = "pending" /\ SameTable(invite[i].role, role)
                /\ invite[i].of = c /\ invite[i].email = email}

Joined(c, u, role) ==
  IF role = "worker" THEN <<c, u>> \in workers ELSE member[c][u].active

\* The pending invite of this email is taken again, if there is one.
FindInvite(p) ==
  LET r == request[p]
      old == Pending(r.of, r.whom, r.role)
  IN
  /\ Step(p, "find")
  /\ IF Joined(r.of, r.whom, r.role) THEN End(p)
     ELSE \E i \in (IF old = {} THEN {NoRow} ELSE old) :
            request' = [request EXCEPT ![p].pc = "write", ![p].row = i]
  /\ UNCHANGED <<enterprises, member, workers, invite, admitted, unfinished>>

\* FOR UPDATE: who accepts a team invite has its row until the commit.
LockedBy(i) == {p \in Places : request[p].pc \in {"check", "join"} /\ request[p].row = i}

\* A new token, by id and whatever the row has become; or a new row.
WriteInvite(p) ==
  LET r == request[p] IN
  /\ Step(p, "write") /\ End(p)
  /\ IF r.row # NoRow
     THEN /\ LockedBy(r.row) = {}
          /\ invite' = IF invite[r.row].status = "deleted" THEN invite
                       ELSE [invite EXCEPT ![r.row].token = @ + 1, ![r.row].role = r.role]
     ELSE \E i \in Rows :
            /\ invite[i].status = "absent"
            /\ invite' = [invite EXCEPT ![i] = [of |-> r.of, email |-> r.whom,
                            role |-> r.role, token |-> 1, status |-> "pending"]]
  /\ UNCHANGED <<enterprises, member, workers, admitted, unfinished>>

\* DELETE /invites/:id, of a teammate: pending worker invites.
DeleteInvite(i) ==
  /\ invite[i].status = "pending" /\ invite[i].role = "worker"
  /\ requests < MaxRequests /\ requests' = requests + 1
  /\ invite' = [invite EXCEPT ![i].status = "deleted"]
  /\ UNCHANGED <<enterprises, member, workers, request, admitted, unfinished>>

-----------------------------------------------------------------------------
(* acceptCompanyInvite, acceptWorkerInvite and linkWorkerToInviter. *)

\* Faulty: the invite is read without a lock.
NobodyLocks(i) == TRUE

NotLocked(i) == LockedBy(i) = {}

\* BEGIN, SELECT ... FOR UPDATE: whoever has the row's current token.
OpenTeamInvite(p, u, i) ==
  /\ invite[i].status = "pending" /\ invite[i].role \in TeamRoles /\ NotLocked(i)
  /\ Begin(p, [NoRequest EXCEPT !.pc = "check", !.by = u, !.of = invite[i].of,
                                !.role = invite[i].role, !.row = i])
  /\ UNCHANGED <<enterprises, member, workers, invite, admitted, unfinished>>

\* Faulty: the upsert alone decides.
NotChecked(u) == TRUE

MayJoin(u) == Belongs(u) = {}

CheckMembership(p) ==
  /\ Step(p, "check")
  /\ IF MayJoin(request[p].by) THEN Goto(p, "join") ELSE End(p)
  /\ UNCHANGED <<enterprises, member, workers, invite, admitted, unfinished>>

\* UPDATE, INSERT ... ON CONFLICT DO UPDATE, COMMIT; who has become a member of
\* another company meanwhile (23505) loses both.
Join(p) ==
  LET r == request[p] IN
  /\ Step(p, "join") /\ End(p)
  /\ IF Belongs(r.by) \subseteq {r.of}
     THEN /\ invite' = [invite EXCEPT ![r.row].status = "accepted"]
          /\ member' = [member EXCEPT ![r.of][r.by] = [role |-> r.role, active |-> TRUE]]
          /\ admitted' = admitted \cup {<<r.row, invite[r.row].token, r.by>>}
     ELSE UNCHANGED <<invite, member, admitted>>
  /\ UNCHANGED <<enterprises, workers, unfinished>>

\* One UPDATE ... WHERE status = 'pending' RETURNING, and no transaction.
TakeWorkerInvite(p, u, i) ==
  /\ invite[i].status = "pending" /\ invite[i].role = "worker"
  /\ Begin(p, [NoRequest EXCEPT !.pc = "link", !.by = u, !.of = invite[i].of, !.row = i])
  /\ invite' = [invite EXCEPT ![i].status = "accepted"]
  /\ UNCHANGED <<enterprises, member, workers, admitted, unfinished>>

\* The company exists: its invite was made by a member of it.
LinkWorker(p) ==
  LET r == request[p] IN
  /\ Step(p, "link") /\ End(p)
  /\ workers' = workers \cup {<<r.of, r.by>>}
  /\ admitted' = admitted \cup {<<r.row, invite[r.row].token, r.by>>}
  /\ UNCHANGED <<enterprises, member, invite, unfinished>>

-----------------------------------------------------------------------------
(* DELETE /company/members/:userId. *)

StartRemove(p, u, target) ==
  \E c \in Belongs(u) :
    /\ target # u /\ member[c][u].role \in {"owner", "admin"}
    /\ Begin(p, [NoRequest EXCEPT !.pc = "target", !.by = u, !.of = c,
                                  !.whom = target, !.role = member[c][u].role])
    /\ UNCHANGED <<enterprises, member, workers, invite, admitted, unfinished>>

Removable(by, target) ==
  target # "owner" /\ ~(by = "admin" /\ target = "admin")

CheckTarget(p) ==
  LET r == request[p] IN
  /\ Step(p, "target")
  /\ IF member[r.of][r.whom].active /\ Removable(r.role, member[r.of][r.whom].role)
     THEN Goto(p, "remove") ELSE End(p)
  /\ UNCHANGED <<enterprises, member, workers, invite, admitted, unfinished>>

Remove(p) ==
  LET r == request[p] IN
  /\ Step(p, "remove") /\ End(p)
  /\ member' = [member EXCEPT ![r.of][r.whom].active = FALSE]
  /\ UNCHANGED <<enterprises, workers, invite, admitted, unfinished>>

\* A query fails, in a transaction the notification's too: what was written
\* before by a statement of its own stays.
Abort(p) ==
  LET r == request[p] IN
  /\ r # NoRequest /\ End(p)
  /\ unfinished' = unfinished \cup (CASE r.pc = "own"  -> {r.by}
                                      [] r.pc = "link" -> {r.row}
                                      [] OTHER         -> {})
  /\ UNCHANGED <<enterprises, member, workers, invite, admitted, requests>>

-----------------------------------------------------------------------------

CompanyNext ==
  \/ \E p \in Places, u \in Users :
       \/ UpsertCompany(p, u)
       \/ \E whom \in Users :
            \/ StartRemove(p, u, whom)
            \/ \E role \in TeamRoles \cup {"worker"} : StartInvite(p, u, whom, role)
       \/ \E i \in Rows : OpenTeamInvite(p, u, i) \/ TakeWorkerInvite(p, u, i)
  \/ \E p \in Places :
       \/ InsertOwner(p) \/ FindInvite(p) \/ WriteInvite(p) \/ CheckMembership(p) \/ Join(p)
       \/ LinkWorker(p) \/ CheckTarget(p) \/ Remove(p) \/ Abort(p)
  \/ \E i \in Rows : DeleteInvite(i)

CompanySpec == CompanyInit /\ [][CompanyNext]_companyVars

-----------------------------------------------------------------------------
(* Properties. *)

\* Who owns a company stays its owner: neither a removal that checked before,
\* nor an invite to the own company, nor two requests at once change that.
OwnerKeepsCompany ==
  [][\A u \in Users : member[u][u].active => member'[u][u] = member[u][u]]_companyVars

\* An invite is used up exactly when it has let one person in (the comment at
\* index.ts:237-249); a worker's only if the second write was made.
UsedUpMeansJoined ==
  \A i \in Rows :
    LET who == {a \in admitted : a[1] = i} IN
    /\ Cardinality(who) <= 1
    /\ who # {} => invite[i].status = "accepted"
    /\ invite[i].status = "accepted" /\ who = {} =>
         /\ invite[i].role = "worker"
         /\ i \in unfinished \/ \E p \in Places : request[p].pc = "link" /\ request[p].row = i
=============================================================================
