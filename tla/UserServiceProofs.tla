------------------------- MODULE UserServiceProofs --------------------------
(***************************************************************************)
(* Proofs about Company and Sessions, for any number of users, invites,    *)
(* browsers and requests at once: an owner stays the owner, an invite is   *)
(* used up exactly when it has let one person in, and no sequence of       *)
(* registrations, sign-ins, recoveries, refreshes and logouts locks the    *)
(* user out or leaves a session that nobody holds.                         *)
(***************************************************************************)
EXTENDS Company, Sessions, FiniteSetTheorems, TLAPS

-----------------------------------------------------------------------------
(* Company: the inductive invariant. *)

Member  == [role : TeamRoles \cup {"owner", "none"}, active : BOOLEAN]
Invite  == [of : Users, email : Users, role : TeamRoles \cup {"worker"}, token : Nat,
            status : {"absent", "pending", "accepted", "deleted"}]
Request == [pc : {"none", "own", "find", "write", "check", "join", "link", "target", "remove"},
            by : Users, of : Users, whom : Users,
            role : TeamRoles \cup {"worker", "owner", "none"}, row : Rows \cup {NoRow}]

CompanyTypes ==
  /\ member \in [Users -> [Users -> Member]]
  /\ invite \in [Rows -> Invite]
  /\ request \in [Places -> Request]

Owner      == [role |-> "owner", active |-> TRUE]
Owned(c)   == member[c][c] = Owner
Untaken(i) == \A a \in admitted : a[1] # i

\* Whoever belongs to a company, its owner does, and was there first.
Owners ==
  /\ \A c \in Users : member[c][c] \in {NoMember, Owner}
  /\ \A c, u \in Users : member[c][u].active => Owned(c)

\* An invite lets nobody in before it is accepted, and then somebody, unless the
\* second write of a worker's is still to come or was never made.
RowFits(i) ==
  /\ invite[i].status # "absent" => Owned(invite[i].of)
  /\ invite[i].status # "accepted" => Untaken(i)
  /\ invite[i].status = "accepted" /\ Untaken(i) =>
       /\ invite[i].role = "worker"
       /\ i \in unfinished \/ \E p \in Places : request[p].pc = "link" /\ request[p].row = i

\* What a request has read still holds when it writes.
Fits(r) ==
  /\ r.pc \notin {"none", "own"} => Owned(r.of)
  /\ r.pc \in {"find", "write"} => r.role \in TeamRoles \cup {"worker"}
  /\ r.pc = "join" => r.of # r.by
  /\ r.pc = "remove" => r.whom # r.of
  /\ r.pc = "write" /\ r.row # NoRow =>
       invite[r.row].status # "absent" /\ SameTable(invite[r.row].role, r.role)
  /\ r.pc \in {"check", "join"} =>
       /\ r.row \in Rows /\ invite[r.row].status = "pending"
       /\ invite[r.row].role # "worker" /\ r.role \in TeamRoles
  /\ r.pc = "link" =>
       /\ r.row \in Rows /\ invite[r.row].status = "accepted"
       /\ invite[r.row].role = "worker" /\ Untaken(r.row)

Uses(r, i) == r.pc \in {"check", "join", "link"} /\ r.row = i

CompanyIInv ==
  /\ CompanyTypes
  /\ Owners
  /\ \A i \in Rows : RowFits(i)
  /\ \A p \in Places : Fits(request[p])
  /\ \A p, q \in Places, i \in Rows : Uses(request[p], i) /\ Uses(request[q], i) => p = q
  /\ \A a, b \in admitted : a[1] = b[1] => a = b

-----------------------------------------------------------------------------

\* The initial states.
LEMMA CompanyStarts == CompanyInit => CompanyIInv
<1> SUFFICES ASSUME CompanyInit PROVE CompanyIInv
  OBVIOUS
<1>1. Founder \in Users /\ NoInvite \in Invite /\ NoRequest \in Request
  BY CompanyAssumption DEF CompanyAssumption, NoInvite, NoRequest, Invite, Request, NoRow
<1>2. NoMember \in Member /\ Owner \in Member
  BY DEF NoMember, Owner, Member
<1>3. CompanyTypes
  BY <1>1, <1>2 DEF CompanyInit, CompanyTypes, Owner
<1>4. Owners
  BY <1>1 DEF CompanyInit, Owners, Owned, Owner, NoMember
<1>5. (\A i \in Rows : RowFits(i)) /\ \A p \in Places : Fits(request[p])
  BY DEF CompanyInit, RowFits, Fits, Untaken, NoInvite, NoRequest
<1>6. \A p \in Places, i \in Rows : ~Uses(request[p], i)
  BY DEF CompanyInit, Uses, NoRequest
<1>7. admitted = {}
  BY DEF CompanyInit
<1> QED
  BY <1>3, <1>4, <1>5, <1>6, <1>7 DEF CompanyIInv

\* What is known of a request.
LEMMA RequestIs ==
  ASSUME CompanyIInv, NEW p \in Places
  PROVE  request[p] \in Request /\ Fits(request[p])
BY DEF CompanyIInv, CompanyTypes

\* A request goes on or ends, and nothing else changes but what it leaves unfinished.
LEMMA RequestMoves ==
  ASSUME CompanyIInv, NEW p \in Places, NEW next \in Request,
         request' = [request EXCEPT ![p] = next],
         UNCHANGED <<member, invite, admitted>>, unfinished \subseteq unfinished',
         Fits(next),
         request[p].pc = "link" => request[p].row \in unfinished',
         \A i \in Rows : Uses(next, i) => \A q \in Places \ {p} : ~Uses(request[q], i)
  PROVE  CompanyIInv'
<1>1. /\ request \in [Places -> Request] /\ request'[p] = next
      /\ \A q \in Places : q # p => request'[q] = request[q]
  BY DEF CompanyIInv, CompanyTypes
<1>2. CompanyTypes' /\ Owners'
  BY DEF CompanyIInv, CompanyTypes, Owners, Owned
<1>3. ASSUME NEW i \in Rows PROVE RowFits(i)'
  <2>1. RowFits(i)
    BY DEF CompanyIInv
  <2>2. ASSUME NEW q \in Places, request[q].pc = "link", request[q].row = i
        PROVE  i \in unfinished' \/ \E k \in Places : request'[k].pc = "link" /\ request'[k].row = i
    BY <1>1, <2>2
  <2> QED
    BY <2>1, <2>2 DEF RowFits, Owned, Untaken
<1>4. ASSUME NEW q \in Places PROVE Fits(request[q])'
  BY <1>1 DEF CompanyIInv, Fits, Owned, Untaken
<1>5. \A q, k \in Places, i \in Rows : Uses(request[q], i)' /\ Uses(request[k], i)' => q = k
  BY <1>1 DEF CompanyIInv, Uses
<1>6. \A a, b \in admitted' : a[1] = b[1] => a = b
  BY DEF CompanyIInv
<1> QED
  BY <1>2, <1>3, <1>4, <1>5, <1>6 DEF CompanyIInv

\* A request ends, but not between the two writes of a worker's.
LEMMA RequestEnds ==
  ASSUME CompanyIInv, NEW p \in Places, End(p), request[p].pc # "link",
         UNCHANGED <<member, invite, admitted, unfinished>>
  PROVE  CompanyIInv'
<1>1. /\ NoRequest \in Request /\ request' = [request EXCEPT ![p] = NoRequest]
      /\ Fits(NoRequest) /\ \A i \in Rows : ~Uses(NoRequest, i)
  BY CompanyAssumption DEF CompanyAssumption, End, NoRequest, Request, Fits, Uses, NoRow
<1> QED
  BY <1>1, RequestMoves

\* The membership of one user in one company is written; owners stay.
LEMMA MemberWritten ==
  ASSUME CompanyIInv, NEW p \in Places, NEW c \in Users, NEW u \in Users, NEW row \in Member,
         member' = [member EXCEPT ![c][u] = row],
         IF c = u THEN row = Owner ELSE row.active => Owned(c)
  PROVE  /\ member' \in [Users -> [Users -> Member]]
         /\ \A d \in Users : Owned(d) => Owned(d)'
         /\ Owners'
<1>1. member \in [Users -> [Users -> Member]] /\ Owners
  BY DEF CompanyIInv, CompanyTypes
<1>2. /\ member' \in [Users -> [Users -> Member]]
      /\ member'[c][u] = row
      /\ \A d, v \in Users : d # c \/ v # u => member'[d][v] = member[d][v]
  BY <1>1
<1>3. \A d \in Users : Owned(d) => Owned(d)'
  BY <1>2 DEF Owned
<1>4. \A d \in Users : member'[d][d] \in {NoMember, Owner}
  BY <1>1, <1>2 DEF Owners
<1>5. \A d, v \in Users : member'[d][v].active => Owned(d)'
  BY <1>1, <1>2, <1>3 DEF Owners, Owned
<1> QED
  BY <1>2, <1>3, <1>4, <1>5 DEF Owners

\* Only the members change.
LEMMA MembersChange ==
  ASSUME CompanyIInv, NEW p \in Places, End(p), request[p].pc # "link",
         UNCHANGED <<invite, admitted, unfinished>>,
         member' \in [Users -> [Users -> Member]],
         \A d \in Users : Owned(d) => Owned(d)',
         Owners'
  PROVE  CompanyIInv'
<1>1. /\ request \in [Places -> Request] /\ invite \in [Rows -> Invite]
      /\ NoRequest \in Request /\ NoRequest.pc = "none"
      /\ request'[p] = NoRequest /\ \A q \in Places : q # p => request'[q] = request[q]
  BY CompanyAssumption DEF CompanyAssumption, End, CompanyIInv, CompanyTypes, NoRequest, Request, NoRow
<1>2. CompanyTypes'
  BY <1>1 DEF CompanyIInv, CompanyTypes, End
<1>3. ASSUME NEW i \in Rows PROVE RowFits(i)'
  <2>1. RowFits(i) /\ invite[i].of \in Users
    BY <1>1 DEF CompanyIInv, Invite
  <2>2. ASSUME NEW q \in Places, request[q].pc = "link", request[q].row = i
        PROVE  request'[q].pc = "link" /\ request'[q].row = i
    BY <1>1, <2>2
  <2> QED
    BY <2>1, <2>2 DEF RowFits, Untaken
<1>4. ASSUME NEW q \in Places PROVE Fits(request[q])'
  <2>1. Fits(request[q]) /\ request[q].of \in Users
    BY <1>1, RequestIs DEF Request
  <2>2. CASE q = p
    BY <1>1, <2>2 DEF Fits
  <2>3. CASE q # p
    BY <1>1, <2>1, <2>3 DEF Fits, Untaken
  <2> QED
    BY <2>2, <2>3
<1>5. \A q, k \in Places, i \in Rows : Uses(request[q], i)' /\ Uses(request[k], i)' => q = k
  BY <1>1 DEF CompanyIInv, Uses
<1>6. \A a, b \in admitted' : a[1] = b[1] => a = b
  BY DEF CompanyIInv
<1> QED
  BY <1>2, <1>3, <1>4, <1>5, <1>6 DEF CompanyIInv

-----------------------------------------------------------------------------
(* Requests that begin. *)

\* A request begins.
LEMMA BeginKeeps ==
  ASSUME CompanyIInv, NEW p \in Places, NEW next \in Request, Begin(p, next),
         UNCHANGED <<member, invite, admitted, unfinished>>, Fits(next),
         \A i \in Rows : ~Uses(next, i)
  PROVE  CompanyIInv'
<1>1. request' = [request EXCEPT ![p] = next] /\ request[p].pc # "link"
  BY DEF Begin, NoRequest
<1> QED
  BY <1>1, RequestMoves

\* The requests that begin by reading nothing but their caller.
LEMMA StartsKeep ==
  ASSUME CompanyIInv, NEW p \in Places, NEW u \in Users, NEW whom \in Users,
         NEW role \in TeamRoles \cup {"worker"},
         UpsertCompany(p, u) \/ StartInvite(p, u, whom, role) \/ StartRemove(p, u, whom)
  PROVE  CompanyIInv'
<1>1. Founder \in Users /\ NoRequest \in Request
  BY CompanyAssumption DEF CompanyAssumption, NoRequest, Request, NoRow
<1>2. CASE UpsertCompany(p, u)
  <2> DEFINE next == [NoRequest EXCEPT !.pc = "own", !.by = u]
  <2>1. Begin(p, next) /\ UNCHANGED <<member, invite, admitted, unfinished>>
    BY <1>2 DEF UpsertCompany
  <2>2. next \in Request /\ next.pc = "own"
    BY <1>1 DEF NoRequest, Request
  <2> HIDE DEF next
  <2> QED
    BY <2>1, <2>2, BeginKeeps DEF Fits, Uses
<1>3. CASE StartInvite(p, u, whom, role)
  <2>1. PICK c \in Belongs(u) :
          /\ Begin(p, [NoRequest EXCEPT !.pc = "find", !.by = u, !.of = c,
                                        !.whom = whom, !.role = role])
          /\ UNCHANGED <<member, invite, admitted, unfinished>>
    BY <1>3 DEF StartInvite
  <2> DEFINE next == [NoRequest EXCEPT !.pc = "find", !.by = u, !.of = c,
                                       !.whom = whom, !.role = role]
  <2>2. c \in Users /\ Owned(c)
    BY DEF Belongs, CompanyIInv, Owners
  <2>3. next \in Request /\ next.pc = "find" /\ next.of = c /\ next.role = role
    BY <1>1, <2>2 DEF NoRequest, Request
  <2>4. Begin(p, next)
    BY <2>1
  <2> HIDE DEF next
  <2> QED
    BY <2>1, <2>2, <2>3, <2>4, BeginKeeps DEF Fits, Uses
<1>4. CASE StartRemove(p, u, whom)
  <2>1. PICK c \in Belongs(u) :
          /\ Begin(p, [NoRequest EXCEPT !.pc = "target", !.by = u, !.of = c,
                                        !.whom = whom, !.role = member[c][u].role])
          /\ UNCHANGED <<member, invite, admitted, unfinished>>
    BY <1>4 DEF StartRemove
  <2> DEFINE next == [NoRequest EXCEPT !.pc = "target", !.by = u, !.of = c,
                                       !.whom = whom, !.role = member[c][u].role]
  <2>2. c \in Users /\ Owned(c)
    BY DEF Belongs, CompanyIInv, Owners
  <2>3. member[c][u].role \in TeamRoles \cup {"owner", "none"}
    BY <2>2 DEF CompanyIInv, CompanyTypes, Member
  <2>4. next \in Request /\ next.pc = "target" /\ next.of = c
    BY <1>1, <2>2, <2>3 DEF NoRequest, Request
  <2>5. Begin(p, next)
    BY <2>1
  <2> HIDE DEF next
  <2> QED
    BY <2>1, <2>2, <2>4, <2>5, BeginKeeps DEF Fits, Uses
<1> QED
  BY <1>2, <1>3, <1>4

\* The row's lock: nobody else has the invite in hand.
LEMMA OpenKeeps ==
  ASSUME CompanyIInv, NEW p \in Places, NEW u \in Users, NEW i \in Rows, OpenTeamInvite(p, u, i)
  PROVE  CompanyIInv'
<1> DEFINE next == [NoRequest EXCEPT !.pc = "check", !.by = u, !.of = invite[i].of,
                                     !.role = invite[i].role, !.row = i]
<1>1. /\ request' = [request EXCEPT ![p] = next] /\ request[p].pc # "link"
      /\ UNCHANGED <<member, invite, admitted, unfinished>>
  BY DEF OpenTeamInvite, Begin, NoRequest
<1>2. /\ invite[i] \in Invite /\ invite[i].status = "pending" /\ invite[i].role \in TeamRoles
      /\ LockedBy(i) = {} /\ RowFits(i)
  BY DEF OpenTeamInvite, NotLocked, CompanyIInv, CompanyTypes
<1>3. /\ next \in Request /\ next.pc = "check" /\ next.row = i /\ next.of = invite[i].of
      /\ next.role \in TeamRoles
  BY <1>2, CompanyAssumption DEF CompanyAssumption, Invite, Request, NoRequest, NoRow
<1>4. \A q \in Places : ~Uses(request[q], i)
  BY <1>2 DEF LockedBy, Uses, CompanyIInv, Fits
<1> HIDE DEF next
<1>5. Fits(next)
  BY <1>2, <1>3 DEF Fits, RowFits, TeamRoles
<1>6. \A j \in Rows : Uses(next, j) => \A q \in Places \ {p} : ~Uses(request[q], j)
  BY <1>3, <1>4 DEF Uses
<1> QED
  BY <1>1, <1>3, <1>5, <1>6, RequestMoves

\* A worker's invite is used up by one statement, which only one request can win.
LEMMA TakeKeeps ==
  ASSUME CompanyIInv, NEW p \in Places, NEW u \in Users, NEW i \in Rows, TakeWorkerInvite(p, u, i)
  PROVE  CompanyIInv'
<1> DEFINE next == [NoRequest EXCEPT !.pc = "link", !.by = u, !.of = invite[i].of, !.row = i]
           row  == [invite[i] EXCEPT !.status = "accepted"]
<1>1. /\ invite[i] \in Invite /\ invite[i].status = "pending" /\ invite[i].role = "worker"
      /\ RowFits(i) /\ Untaken(i)
  BY DEF TakeWorkerInvite, CompanyIInv, CompanyTypes, RowFits
<1>2. /\ request' = [request EXCEPT ![p] = next] /\ request[p].pc = "none"
      /\ invite' = [invite EXCEPT ![i] = row]
      /\ UNCHANGED <<member, admitted, unfinished>>
  BY <1>1 DEF TakeWorkerInvite, Begin, NoRequest
<1>3. next \in Request /\ next.pc = "link" /\ next.row = i /\ next.of = invite[i].of
  BY <1>1, CompanyAssumption DEF CompanyAssumption, Invite, Request, NoRequest, NoRow
<1>4. /\ row \in Invite /\ row.status = "accepted" /\ row.role = "worker"
      /\ row.of = invite[i].of
  BY <1>1 DEF Invite
<1> HIDE DEF next, row
<1>5. /\ request \in [Places -> Request] /\ invite \in [Rows -> Invite]
      /\ request'[p] = next /\ \A q \in Places : q # p => request'[q] = request[q]
      /\ invite'[i] = row /\ \A j \in Rows : j # i => invite'[j] = invite[j]
  BY <1>2 DEF CompanyIInv, CompanyTypes
<1>6. CompanyTypes' /\ Owners'
  BY <1>2, <1>3, <1>4 DEF CompanyIInv, CompanyTypes, Owners, Owned
<1>7. \A q \in Places : ~Uses(request[q], i)
  BY <1>1 DEF Uses, CompanyIInv, Fits
<1>8. ASSUME NEW j \in Rows PROVE RowFits(j)'
  <2>1. CASE j = i
    BY <1>1, <1>2, <1>3, <1>4, <1>5, <2>1 DEF RowFits, Owned
  <2>2. CASE j # i
    <3>1. RowFits(j)
      BY DEF CompanyIInv
    <3>2. \A q \in Places : request[q].pc = "link" => q # p
      BY <1>2
    <3> QED
      BY <1>2, <1>5, <2>2, <3>1, <3>2 DEF RowFits, Owned, Untaken
  <2> QED
    BY <2>1, <2>2
<1>9. ASSUME NEW q \in Places PROVE Fits(request[q])'
  <2>1. CASE q = p
    BY <1>1, <1>2, <1>3, <1>4, <1>5, <2>1 DEF Fits, RowFits, Owned, Untaken
  <2>2. CASE q # p
    <3>1. Fits(request[q]) /\ request[q] \in Request /\ request'[q] = request[q]
      BY <1>5, <2>2, RequestIs
    <3>2. request[q].pc \in {"check", "join", "link"} => request[q].row \in Rows /\ request[q].row # i
      BY <1>7, <3>1 DEF Uses, Fits
    <3>3. request[q].row # NoRow => request[q].row \in Rows
      BY <3>1 DEF Request
    <3>4. \A j \in Rows : invite'[j].role = invite[j].role /\
                          (invite[j].status # "absent" => invite'[j].status # "absent")
      BY <1>1, <1>4, <1>5
    <3> QED
      BY <1>2, <1>5, <3>1, <3>2, <3>3, <3>4 DEF Fits, Owned, Untaken
  <2> QED
    BY <2>1, <2>2
<1>10. \A q, k \in Places, j \in Rows : Uses(request[q], j)' /\ Uses(request[k], j)' => q = k
  BY <1>3, <1>5, <1>7 DEF CompanyIInv, Uses
<1>11. \A a, b \in admitted' : a[1] = b[1] => a = b
  BY <1>2 DEF CompanyIInv
<1> QED
  BY <1>6, <1>8, <1>9, <1>10, <1>11 DEF CompanyIInv

-----------------------------------------------------------------------------
(* Requests that go on. *)

\* The first user of a company becomes its owner.
LEMMA InsertOwnerKeeps ==
  ASSUME CompanyIInv, NEW p \in Places, InsertOwner(p)
  PROVE  CompanyIInv' /\ \A c \in Users : Owned(c) => Owned(c)'
<1>1. PICK u \in Users : u = request[p].by
  BY RequestIs DEF Request
<1>2. End(p) /\ request[p].pc # "link" /\ UNCHANGED <<invite, admitted, unfinished>>
  BY DEF InsertOwner, Step
<1>3. CASE member' = member
  <2>1. CompanyIInv'
    BY <1>2, <1>3, RequestEnds
  <2> QED
    BY <1>3, <2>1 DEF Owned
<1>4. CASE member' # member
  <2>1. member' = [member EXCEPT ![u][u] = Owner] /\ Owner \in Member
    BY <1>1, <1>4 DEF InsertOwner, Owner, Member
  <2>2. /\ member' \in [Users -> [Users -> Member]]
        /\ \A d \in Users : Owned(d) => Owned(d)'
        /\ Owners'
    BY <2>1, MemberWritten
  <2> QED
    BY <1>2, <2>2, MembersChange
<1> QED
  BY <1>3, <1>4

\* The invite of an address is looked for.
LEMMA FindKeeps ==
  ASSUME CompanyIInv, NEW p \in Places, FindInvite(p)
  PROVE  CompanyIInv'
<1>1. request[p] \in Request /\ Fits(request[p])
  BY RequestIs
<1>2. /\ request[p].pc = "find" /\ UNCHANGED <<member, invite, admitted, unfinished>>
  BY DEF FindInvite, Step
<1>3. CASE End(p)
  BY <1>2, <1>3, RequestEnds
<1>4. CASE ~End(p)
  <2> DEFINE old == Pending(request[p].of, request[p].whom, request[p].role)
  <2>1. PICK i \in (IF old = {} THEN {NoRow} ELSE old) :
          request' = [request EXCEPT ![p].pc = "write", ![p].row = i]
    BY <1>4 DEF FindInvite
  <2>2. /\ i \in Rows \cup {NoRow}
        /\ i # NoRow => /\ invite[i].status = "pending"
                        /\ SameTable(invite[i].role, request[p].role)
    BY <2>1 DEF Pending
  <2> DEFINE next == [request[p] EXCEPT !.pc = "write", !.row = i]
  <2>3. /\ request' = [request EXCEPT ![p] = next] /\ next \in Request
        /\ next.pc = "write" /\ next.row = i /\ next.of = request[p].of
        /\ next.role = request[p].role
    BY <1>1, <2>1, <2>2 DEF Request, CompanyIInv, CompanyTypes
  <2> HIDE DEF next
  <2>4. Fits(next) /\ \A j \in Rows : ~Uses(next, j)
    BY <1>1, <1>2, <2>2, <2>3 DEF Fits, Uses
  <2> QED
    BY <1>2, <2>3, <2>4, RequestMoves
<1> QED
  BY <1>3, <1>4

\* An invite is made, renewed or deleted: what its requests have read stays true.
LEMMA InviteWritten ==
  ASSUME CompanyIInv, NEW i \in Rows, NEW row \in Invite, invite' = [invite EXCEPT ![i] = row],
         UNCHANGED <<member, admitted, unfinished>>, request' \in [Places -> Request],
         \A q \in Places : \/ request'[q] = request[q]
                           \/ request'[q] = NoRequest /\ request[q].pc # "link",
         Owned(row.of), row.status # "absent",
         \/ invite[i].status = "absent" /\ row.status = "pending"
         \/ /\ row.status = invite[i].status \/ row.status = "deleted"
            /\ row.status = "deleted" => invite[i].status \in {"pending", "deleted"}
            /\ row.status = "deleted" => invite[i].role = "worker" \/ invite[i].status = "deleted"
            /\ (row.role = "worker") = (invite[i].role = "worker")
  PROVE  CompanyIInv'
<1>1. /\ invite \in [Rows -> Invite] /\ request \in [Places -> Request]
      /\ invite'[i] = row /\ \A j \in Rows : j # i => invite'[j] = invite[j]
  BY DEF CompanyIInv, CompanyTypes
<1>2. CompanyTypes' /\ Owners'
  BY DEF CompanyIInv, CompanyTypes, Owners, Owned
<1>3. ASSUME NEW j \in Rows PROVE RowFits(j)'
  <2>1. RowFits(j)
    BY DEF CompanyIInv
  <2>2. ASSUME NEW q \in Places, request[q].pc = "link", request[q].row = j
        PROVE  request'[q].pc = "link" /\ request'[q].row = j
    BY <2>2
  <2>3. CASE j = i
    BY <1>1, <2>1, <2>2, <2>3 DEF RowFits, Owned, Untaken
  <2>4. CASE j # i
    BY <1>1, <2>1, <2>2, <2>4 DEF RowFits, Owned, Untaken
  <2> QED
    BY <2>3, <2>4
<1>4. ASSUME NEW q \in Places PROVE Fits(request[q])'
  <2>1. CASE request'[q] = NoRequest
    BY <2>1 DEF NoRequest, Fits
  <2>2. CASE request'[q] = request[q]
    <3>1. Fits(request[q]) /\ request[q] \in Request
      BY RequestIs
    <3>2. request[q].row # NoRow => request[q].row \in Rows
      BY <3>1 DEF Request
    <3>3. \A j \in Rows :
            /\ invite[j].status # "absent" =>
                 /\ invite'[j].status # "absent"
                 /\ (invite'[j].role = "worker") = (invite[j].role = "worker")
            /\ invite[j].status = "accepted" => invite'[j].status = "accepted"
            /\ invite[j].status = "pending" /\ invite[j].role # "worker" =>
                 invite'[j].status = "pending"
      BY <1>1
    <3> QED
      BY <2>2, <3>1, <3>2, <3>3 DEF Fits, Owned, Untaken, SameTable
  <2> QED
    BY <2>1, <2>2
<1>5. \A q, k \in Places, j \in Rows : Uses(request[q], j)' /\ Uses(request[k], j)' => q = k
  BY DEF CompanyIInv, Uses, NoRequest
<1>6. \A a, b \in admitted' : a[1] = b[1] => a = b
  BY DEF CompanyIInv
<1> QED
  BY <1>2, <1>3, <1>4, <1>5, <1>6 DEF CompanyIInv

\* What ending a request does to the requests.
LEMMA Ended ==
  ASSUME CompanyIInv, NEW p \in Places, End(p)
  PROVE  /\ request' \in [Places -> Request] /\ request'[p] = NoRequest
         /\ \A q \in Places : q # p => request'[q] = request[q]
BY CompanyAssumption DEF CompanyAssumption, End, CompanyIInv, CompanyTypes, NoRequest, Request, NoRow

\* An invite is inserted, or written again.
LEMMA WriteKeeps ==
  ASSUME CompanyIInv, NEW p \in Places, WriteInvite(p)
  PROVE  CompanyIInv'
<1>1. request[p] \in Request /\ Fits(request[p]) /\ request[p].pc = "write"
  BY RequestIs DEF WriteInvite, Step
<1>2. End(p) /\ UNCHANGED <<member, admitted, unfinished>>
  BY DEF WriteInvite
<1>3. CASE invite' = invite
  BY <1>1, <1>2, <1>3, RequestEnds
<1>4. CASE invite' # invite /\ request[p].row # NoRow
  <2> DEFINE i   == request[p].row
             row == [invite[i] EXCEPT !.token = invite[i].token + 1, !.role = request[p].role]
  <2>1. i \in Rows /\ invite[i] \in Invite /\ RowFits(i)
    BY <1>1, <1>4 DEF Request, CompanyIInv, CompanyTypes
  <2>2. /\ SameTable(invite[i].role, request[p].role) /\ invite[i].status # "absent"
        /\ request[p].role \in TeamRoles \cup {"worker"}
    BY <1>1, <1>4 DEF Fits
  <2>3. invite' = [invite EXCEPT ![i].token = invite[i].token + 1, ![i].role = request[p].role]
    BY <1>4 DEF WriteInvite
  <2>4. invite' = [invite EXCEPT ![i] = row]
    BY <2>1, <2>3 DEF Invite, CompanyIInv, CompanyTypes
  <2>5. /\ row \in Invite /\ row.of = invite[i].of /\ row.status = invite[i].status
        /\ row.role = request[p].role
    <3>1. invite[i].token + 1 \in Nat
      BY <2>1 DEF Invite
    <3> QED
      BY <2>1, <2>2, <3>1 DEF Invite
  <2> HIDE DEF row
  <2>6. Owned(row.of) /\ row.status # "absent" /\ (row.role = "worker") = (invite[i].role = "worker")
    BY <2>1, <2>2, <2>5 DEF RowFits, SameTable
  <2>7. row.status = "deleted" => invite[i].status = "deleted"
    BY <2>5
  <2>8. \A q \in Places : \/ request'[q] = request[q]
                          \/ request'[q] = NoRequest /\ request[q].pc # "link"
    BY <1>1, <1>2, Ended
  <2>9. request' \in [Places -> Request]
    BY <1>2, Ended
  <2> HIDE DEF i
  <2> QED
    BY <1>2, <2>1, <2>4, <2>5, <2>6, <2>7, <2>8, <2>9, InviteWritten
<1>5. CASE invite' # invite /\ request[p].row = NoRow
  <2>1. PICK i \in Rows :
          /\ invite[i].status = "absent"
          /\ invite' = [invite EXCEPT ![i] = [of |-> request[p].of, email |-> request[p].whom,
                          role |-> request[p].role, token |-> 1, status |-> "pending"]]
    BY <1>5 DEF WriteInvite
  <2> DEFINE row == [of |-> request[p].of, email |-> request[p].whom,
                     role |-> request[p].role, token |-> 1, status |-> "pending"]
  <2>2. invite' = [invite EXCEPT ![i] = row]
    BY <2>1
  <2>3. row \in Invite /\ row.status = "pending" /\ Owned(row.of)
    BY <1>1 DEF Fits, Request, Invite
  <2> HIDE DEF row
  <2>4. \A q \in Places : \/ request'[q] = request[q]
                          \/ request'[q] = NoRequest /\ request[q].pc # "link"
    BY <1>1, <1>2, Ended
  <2>5. request' \in [Places -> Request] /\ row.status # "absent"
    BY <1>2, <2>3, Ended
  <2> QED
    BY <1>2, <2>1, <2>2, <2>3, <2>4, <2>5, InviteWritten
<1> QED
  BY <1>3, <1>4, <1>5

\* A worker's invite is deleted.
LEMMA DeleteKeeps ==
  ASSUME CompanyIInv, NEW i \in Rows, DeleteInvite(i)
  PROVE  CompanyIInv'
<1> DEFINE row == [invite[i] EXCEPT !.status = "deleted"]
<1>1. /\ invite[i] \in Invite /\ invite[i].status = "pending" /\ invite[i].role = "worker"
      /\ RowFits(i) /\ request \in [Places -> Request]
  BY DEF DeleteInvite, CompanyIInv, CompanyTypes
<1>2. /\ invite' = [invite EXCEPT ![i] = row]
      /\ UNCHANGED <<member, admitted, unfinished, request>>
  BY <1>1 DEF DeleteInvite
<1>3. row \in Invite /\ row.of = invite[i].of /\ row.status = "deleted" /\ row.role = "worker"
  BY <1>1 DEF Invite
<1> HIDE DEF row
<1>4. /\ Owned(row.of) /\ row.status # "absent" /\ request' \in [Places -> Request]
      /\ \A q \in Places : request'[q] = request[q]
  BY <1>1, <1>2, <1>3 DEF RowFits
<1> QED
  BY <1>1, <1>2, <1>3, <1>4, InviteWritten

\* Whoever belongs to no company does not own the one that invites.
LEMMA CheckKeeps ==
  ASSUME CompanyIInv, NEW p \in Places, CheckMembership(p)
  PROVE  CompanyIInv'
<1>1. /\ request[p] \in Request /\ Fits(request[p]) /\ request[p].pc = "check"
      /\ UNCHANGED <<member, invite, admitted, unfinished>>
  BY RequestIs DEF CheckMembership, Step
<1>2. CASE End(p)
  BY <1>1, <1>2, RequestEnds
<1>3. CASE ~End(p)
  <2> DEFINE next == [request[p] EXCEPT !.pc = "join"]
  <2>1. request' = [request EXCEPT ![p] = next] /\ Belongs(request[p].by) = {}
    BY <1>3 DEF CheckMembership, Goto, MayJoin
  <2>2. /\ next \in Request /\ next.pc = "join" /\ next.of = request[p].of
        /\ next.by = request[p].by /\ next.row = request[p].row
        /\ next.role = request[p].role
    BY <1>1 DEF Request
  <2>3. request[p].of # request[p].by
    BY <1>1, <2>1 DEF Fits, Owned, Owner, Belongs, Request
  <2> HIDE DEF next
  <2>4. Fits(next)
    BY <1>1, <2>2, <2>3 DEF Fits
  <2>5. \A i \in Rows : Uses(next, i) => \A q \in Places \ {p} : ~Uses(request[q], i)
    BY <1>1, <2>2 DEF Uses, CompanyIInv
  <2> QED
    BY <1>1, <2>1, <2>2, <2>4, <2>5, RequestMoves
<1> QED
  BY <1>2, <1>3

\* One more person is let in by the invite that the request has in hand.
LEMMA Admitted ==
  ASSUME CompanyIInv, NEW p \in Places, End(p), NEW i \in Rows, Uses(request[p], i),
         NEW a, a[1] = i, admitted' = admitted \cup {a}, Untaken(i),
         NEW row \in Invite, invite' = [invite EXCEPT ![i] = row],
         row.status = "accepted", row.of = invite[i].of, invite[i].status # "absent",
         (row.role = "worker") = (invite[i].role = "worker"),
         member' \in [Users -> [Users -> Member]],
         \A d \in Users : Owned(d) => Owned(d)',
         Owners', UNCHANGED unfinished
  PROVE  CompanyIInv'
<1>1. /\ request' \in [Places -> Request] /\ request'[p] = NoRequest
      /\ \A q \in Places : q # p => request'[q] = request[q]
  BY Ended
<1>2. /\ invite \in [Rows -> Invite]
      /\ invite'[i] = row /\ \A j \in Rows : j # i => invite'[j] = invite[j]
  BY DEF CompanyIInv, CompanyTypes
<1>3. CompanyTypes'
  BY <1>1, <1>2 DEF CompanyIInv, CompanyTypes
<1>4. \A j \in Rows : j # i /\ Untaken(j) => Untaken(j)'
  BY DEF Untaken
<1>5. ~Untaken(i)'
  BY DEF Untaken
<1>6. \A q \in Places \ {p} : ~Uses(request[q], i)
  BY DEF CompanyIInv
<1>7. ASSUME NEW j \in Rows PROVE RowFits(j)'
  <2>1. RowFits(j) /\ invite[j].of \in Users
    BY <1>2 DEF CompanyIInv, Invite
  <2>2. CASE j = i
    BY <1>2, <1>5, <2>1, <2>2 DEF RowFits
  <2>3. CASE j # i
    <3>1. ASSUME NEW q \in Places, request[q].pc = "link", request[q].row = j
          PROVE  request'[q].pc = "link" /\ request'[q].row = j
      BY <1>1, <2>3, <3>1 DEF Uses
    <3>2. Untaken(j)' => Untaken(j)
      BY DEF Untaken
    <3> QED
      BY <1>2, <1>4, <2>1, <2>3, <3>1, <3>2 DEF RowFits
  <2> QED
    BY <2>2, <2>3
<1>8. ASSUME NEW q \in Places PROVE Fits(request[q])'
  <2>1. CASE q = p
    BY <1>1, <2>1 DEF Fits, NoRequest
  <2>2. CASE q # p
    <3>1. Fits(request[q]) /\ request[q] \in Request /\ request'[q] = request[q]
      BY <1>1, <2>2, RequestIs
    <3>2. request[q].pc \in {"check", "join", "link"} => request[q].row \in Rows /\ request[q].row # i
      BY <1>6, <2>2, <3>1 DEF Uses, Fits
    <3>3. request[q].row # NoRow => request[q].row \in Rows
      BY <3>1 DEF Request
    <3>4. request[q].of \in Users
      BY <3>1 DEF Request
    <3>5. \A j \in Rows : /\ (invite'[j].role = "worker") = (invite[j].role = "worker")
                          /\ invite[j].status # "absent" => invite'[j].status # "absent"
      BY <1>2
    <3> QED
      BY <1>2, <1>4, <3>1, <3>2, <3>3, <3>4, <3>5 DEF Fits, SameTable
  <2> QED
    BY <2>1, <2>2
<1>9. \A q, k \in Places, j \in Rows : Uses(request[q], j)' /\ Uses(request[k], j)' => q = k
  <2>1. \A j \in Rows : ~Uses(NoRequest, j)
    BY DEF Uses, NoRequest
  <2> QED
    BY <1>1, <2>1 DEF CompanyIInv, Uses
<1>10. \A b, c \in admitted' : b[1] = c[1] => b = c
  BY DEF CompanyIInv, Untaken
<1> QED
  BY <1>3, <1>7, <1>8, <1>9, <1>10 DEF CompanyIInv

\* An invited member joins.
LEMMA JoinKeeps ==
  ASSUME CompanyIInv, NEW p \in Places, Join(p)
  PROVE  CompanyIInv' /\ \A c \in Users : Owned(c) => Owned(c)'
<1>1. PICK r \in Request : r = request[p]
  BY RequestIs
<1>2. /\ Fits(r) /\ r.pc = "join" /\ r.row \in Rows /\ r.of # r.by
      /\ r.of \in Users /\ r.by \in Users /\ Owned(r.of) /\ r.role \in TeamRoles
  BY <1>1, RequestIs DEF Join, Step, Fits, Request
<1>3. End(p) /\ UNCHANGED unfinished
  BY DEF Join
<1>4. CASE Belongs(r.by) \subseteq {r.of}
  <2> DEFINE i   == r.row
             a   == <<i, invite[i].token, r.by>>
             row == [invite[i] EXCEPT !.status = "accepted"]
             new == [role |-> r.role, active |-> TRUE]
  <2>1. /\ invite[i] \in Invite /\ invite[i].status = "pending" /\ Untaken(i)
        /\ Uses(request[p], i)
    BY <1>1, <1>2 DEF CompanyIInv, CompanyTypes, Fits, RowFits, Uses
  <2>2. /\ invite' = [invite EXCEPT ![i] = row]
        /\ member' = [member EXCEPT ![r.of][r.by] = new]
        /\ admitted' = admitted \cup {a}
    BY <1>1, <1>4, <2>1 DEF Join
  <2>3. new \in Member
    BY <1>2 DEF Member
  <2>4. /\ member' \in [Users -> [Users -> Member]]
        /\ \A d \in Users : Owned(d) => Owned(d)'
        /\ Owners'
    BY <1>2, <2>2, <2>3, MemberWritten
  <2>5. /\ row \in Invite /\ row.status = "accepted" /\ row.of = invite[i].of
        /\ row.role = invite[i].role /\ a[1] = i
    BY <2>1 DEF Invite
  <2> HIDE DEF i, a, row, new
  <2>6. i \in Rows
    BY <1>2 DEF i
  <2>7. CompanyIInv'
    BY <1>3, <2>1, <2>2, <2>4, <2>5, <2>6, Admitted
  <2> QED
    BY <2>4, <2>7
<1>5. CASE ~(Belongs(r.by) \subseteq {r.of})
  <2>1. UNCHANGED <<member, invite, admitted>>
    BY <1>1, <1>5 DEF Join
  <2> QED
    BY <1>1, <1>2, <1>3, <2>1, RequestEnds DEF Owned
<1> QED
  BY <1>4, <1>5

\* An invited worker is linked.
LEMMA LinkKeeps ==
  ASSUME CompanyIInv, NEW p \in Places, LinkWorker(p)
  PROVE  CompanyIInv'
<1>1. PICK r \in Request : r = request[p]
  BY RequestIs
<1> DEFINE i   == r.row
           a   == <<i, invite[i].token, r.by>>
           row == invite[i]
<1>2. /\ Fits(r) /\ r.pc = "link" /\ i \in Rows /\ invite[i].status = "accepted" /\ Untaken(i)
  BY <1>1, RequestIs DEF LinkWorker, Step, Fits
<1>3. /\ End(p) /\ UNCHANGED <<member, invite, unfinished>>
      /\ admitted' = admitted \cup {a}
  BY <1>1 DEF LinkWorker
<1>4. invite \in [Rows -> Invite] /\ row \in Invite /\ invite' = [invite EXCEPT ![i] = row]
  BY <1>2, <1>3 DEF CompanyIInv, CompanyTypes
<1>5. /\ member' \in [Users -> [Users -> Member]]
      /\ \A d \in Users : Owned(d) => Owned(d)'
      /\ Owners'
  BY <1>3 DEF CompanyIInv, CompanyTypes, Owners, Owned
<1>6. Uses(request[p], i) /\ a[1] = i /\ row.status = "accepted"
  BY <1>1, <1>2 DEF Uses
<1> HIDE DEF i, a, row
<1>7. row.of = invite[i].of /\ row.role = invite[i].role /\ invite[i].status # "absent"
  BY <1>2 DEF row
<1> QED
  BY <1>2, <1>3, <1>4, <1>5, <1>6, <1>7, Admitted

\* An owner is not removed: the check has read the role, and it does not change.
LEMMA TargetKeeps ==
  ASSUME CompanyIInv, NEW p \in Places, CheckTarget(p)
  PROVE  CompanyIInv'
<1>1. /\ request[p] \in Request /\ Fits(request[p]) /\ request[p].pc = "target"
      /\ UNCHANGED <<member, invite, admitted, unfinished>>
  BY RequestIs DEF CheckTarget, Step
<1>2. CASE End(p)
  BY <1>1, <1>2, RequestEnds
<1>3. CASE ~End(p)
  <2> DEFINE next == [request[p] EXCEPT !.pc = "remove"]
  <2>1. /\ request' = [request EXCEPT ![p] = next]
        /\ member[request[p].of][request[p].whom].role # "owner"
    BY <1>3 DEF CheckTarget, Goto, Removable
  <2>2. /\ next \in Request /\ next.pc = "remove" /\ next.of = request[p].of
        /\ next.whom = request[p].whom
    BY <1>1 DEF Request
  <2>3. request[p].of # request[p].whom /\ Owned(request[p].of)
    BY <1>1, <2>1 DEF Fits, Owned, Owner
  <2> HIDE DEF next
  <2>4. Fits(next) /\ \A i \in Rows : ~Uses(next, i)
    BY <2>2, <2>3 DEF Fits, Uses
  <2> QED
    BY <1>1, <2>1, <2>2, <2>4, RequestMoves
<1> QED
  BY <1>2, <1>3

\* A member is removed.
LEMMA RemoveKeeps ==
  ASSUME CompanyIInv, NEW p \in Places, Remove(p)
  PROVE  CompanyIInv' /\ \A c \in Users : Owned(c) => Owned(c)'
<1>1. PICK r \in Request : r = request[p]
  BY RequestIs
<1>2. /\ Fits(r) /\ r.pc = "remove" /\ r.of # r.whom /\ r.of \in Users /\ r.whom \in Users
  BY <1>1, RequestIs DEF Remove, Step, Fits, Request
<1>3. End(p) /\ UNCHANGED <<invite, admitted, unfinished>>
  BY DEF Remove
<1> DEFINE row == [member[r.of][r.whom] EXCEPT !.active = FALSE]
<1>4. member' = [member EXCEPT ![r.of][r.whom] = row]
  BY <1>1, <1>2 DEF Remove, CompanyIInv, CompanyTypes
<1>5. row \in Member /\ ~row.active
  <2>1. member[r.of][r.whom] \in Member
    BY <1>2 DEF CompanyIInv, CompanyTypes
  <2> QED
    BY <2>1 DEF Member
<1> HIDE DEF row
<1>6. /\ member' \in [Users -> [Users -> Member]]
      /\ \A d \in Users : Owned(d) => Owned(d)'
      /\ Owners'
  BY <1>2, <1>4, <1>5, MemberWritten
<1> QED
  BY <1>1, <1>2, <1>3, <1>6, MembersChange

\* A request dies; what it wrote stays.
LEMMA AbortKeeps ==
  ASSUME CompanyIInv, NEW p \in Places, Abort(p)
  PROVE  CompanyIInv'
<1>1. /\ request' = [request EXCEPT ![p] = NoRequest]
      /\ UNCHANGED <<member, invite, admitted>>
      /\ unfinished \subseteq unfinished'
      /\ request[p].pc = "link" => request[p].row \in unfinished'
  BY DEF Abort, End
<1>2. NoRequest \in Request /\ Fits(NoRequest) /\ \A i \in Rows : ~Uses(NoRequest, i)
  BY CompanyAssumption DEF CompanyAssumption, NoRequest, Request, Fits, Uses, NoRow
<1> QED
  BY <1>1, <1>2, RequestMoves

-----------------------------------------------------------------------------
(* The theorems. *)

\* Every step, which also leaves every company its owner.
LEMMA CompanyStep ==
  ASSUME CompanyIInv, [CompanyNext]_companyVars
  PROVE  CompanyIInv' /\ \A c \in Users : Owned(c) => Owned(c)'
<1>1. CASE UNCHANGED companyVars
  <2>1. UNCHANGED <<member, invite, request, admitted, unfinished>>
    BY <1>1 DEF companyVars
  <2>2. CompanyTypes' /\ Owners' /\ \A c \in Users : Owned(c) => Owned(c)'
    BY <2>1 DEF CompanyIInv, CompanyTypes, Owners, Owned
  <2>3. (\A i \in Rows : RowFits(i)') /\ \A p \in Places : Fits(request[p])'
    BY <2>1 DEF CompanyIInv, RowFits, Fits, Owned, Untaken
  <2> QED
    BY <2>1, <2>2, <2>3 DEF CompanyIInv, Uses
<1>2. CASE \E p \in Places : InsertOwner(p) \/ Join(p) \/ Remove(p)
  BY <1>2, InsertOwnerKeeps, JoinKeeps, RemoveKeeps
<1>3. ASSUME NEW p \in Places, NEW u \in Users, NEW whom \in Users,
             NEW role \in TeamRoles \cup {"worker"},
             UpsertCompany(p, u) \/ StartInvite(p, u, whom, role) \/ StartRemove(p, u, whom)
      PROVE  CompanyIInv' /\ UNCHANGED member
  <2>1. UNCHANGED member
    BY <1>3 DEF UpsertCompany, StartInvite, StartRemove
  <2> QED
    BY <1>3, <2>1, StartsKeep
<1>4. ASSUME NEW p \in Places, NEW u \in Users, NEW i \in Rows,
             OpenTeamInvite(p, u, i) \/ TakeWorkerInvite(p, u, i)
      PROVE  CompanyIInv' /\ UNCHANGED member
  BY <1>4, OpenKeeps, TakeKeeps DEF OpenTeamInvite, TakeWorkerInvite
<1>5. ASSUME NEW p \in Places,
             \/ FindInvite(p) \/ WriteInvite(p) \/ CheckMembership(p)
             \/ LinkWorker(p) \/ CheckTarget(p) \/ Abort(p)
      PROVE  CompanyIInv' /\ UNCHANGED member
  <2>1. UNCHANGED member
    BY <1>5 DEF FindInvite, WriteInvite, CheckMembership, LinkWorker, CheckTarget, Abort
  <2> QED
    BY <1>5, <2>1, FindKeeps, WriteKeeps, CheckKeeps, LinkKeeps, TargetKeeps, AbortKeeps
<1>6. ASSUME NEW i \in Rows, DeleteInvite(i) PROVE CompanyIInv' /\ UNCHANGED member
  BY <1>6, DeleteKeeps DEF DeleteInvite
<1>7. CASE \E p \in Places, u \in Users : UpsertCompany(p, u)
  <2>1. PICK p \in Places, u \in Users : UpsertCompany(p, u)
    BY <1>7
  <2>2. CompanyIInv' /\ UNCHANGED member
    BY <1>3, <2>1
  <2> QED
    BY <2>2 DEF Owned
<1>8. CASE /\ CompanyNext
           /\ ~ \E p \in Places : InsertOwner(p) \/ Join(p) \/ Remove(p)
           /\ ~ \E p \in Places, u \in Users : UpsertCompany(p, u)
  <2>1. CompanyIInv' /\ UNCHANGED member
    BY <1>3, <1>4, <1>5, <1>6, <1>8 DEF CompanyNext
  <2> QED
    BY <2>1 DEF Owned
<1> QED
  BY <1>1, <1>2, <1>7, <1>8

\* The inductive invariant holds in every behaviour.
LEMMA CompanyInvariant == CompanySpec => []CompanyIInv
BY CompanyStarts, CompanyStep, PTL DEF CompanySpec

\* Who owns a company stays its owner, whatever overlaps (user-service/src/index.ts).
THEOREM OwnerStays == CompanySpec => OwnerKeepsCompany
<1>1. ASSUME CompanyIInv, [CompanyNext]_companyVars
      PROVE  [\A u \in Users : member[u][u].active => member'[u][u] = member[u][u]]_companyVars
  <2> SUFFICES ASSUME NEW u \in Users, member[u][u].active
               PROVE  member'[u][u] = member[u][u]
    OBVIOUS
  <2>1. Owned(u)
    BY <1>1 DEF CompanyIInv, Owners
  <2>2. Owned(u)'
    BY <1>1, <2>1, CompanyStep
  <2> QED
    BY <2>1, <2>2 DEF Owned
<1> QED
  BY <1>1, CompanyInvariant, PTL DEF OwnerKeepsCompany, CompanySpec

\* An invite is used up exactly when it has let one person in, a worker's when its
\* second write was made (acceptCompanyInvite, acceptWorkerInvite).
THEOREM InviteUsedOnce == CompanySpec => []UsedUpMeansJoined
<1>1. ASSUME CompanyIInv PROVE UsedUpMeansJoined
  <2> SUFFICES ASSUME NEW i \in Rows
               PROVE  LET who == {a \in admitted : a[1] = i} IN
                      /\ Cardinality(who) <= 1
                      /\ who # {} => invite[i].status = "accepted"
                      /\ invite[i].status = "accepted" /\ who = {} =>
                           /\ invite[i].role = "worker"
                           /\ i \in unfinished \/ \E p \in Places :
                                request[p].pc = "link" /\ request[p].row = i
    BY DEF UsedUpMeansJoined
  <2> DEFINE who == {a \in admitted : a[1] = i}
  <2>1. RowFits(i) /\ (Untaken(i) <=> who = {})
    BY <1>1 DEF CompanyIInv, Untaken
  <2>2. Cardinality(who) <= 1
    <3>1. CASE who = {}
      BY <3>1, FS_EmptySet
    <3>2. CASE who # {}
      <4>1. PICK a \in admitted : a[1] = i
        BY <3>2
      <4>2. \A b \in who : b = a
        BY <1>1, <4>1 DEF CompanyIInv
      <4>3. who = {a}
        BY <4>1, <4>2
      <4> QED
        BY <4>3, FS_Singleton
    <3> QED
      BY <3>1, <3>2
  <2> QED
    BY <2>1, <2>2 DEF RowFits
<1> QED
  BY <1>1, CompanyInvariant, PTL

-----------------------------------------------------------------------------
(* Company: the types, and how often a token is renewed. *)

\* The requests that may still write an invite; a token is renewed by one of them
\* at most, so it is no higher than the requests that came and are not among them.
Writes(r) == r.pc \in {"find", "write"}
Writers   == {p \in Places : Writes(request[p])}

CompanySets ==
  /\ enterprises \subseteq Users /\ workers \subseteq Users \X Users
  /\ admitted \subseteq Rows \X (1..MaxRequests) \X Users
  /\ unfinished \subseteq Users \cup Rows

TokensBound ==
  /\ requests \in 0..MaxRequests
  /\ IsFiniteSet(Writers)
  /\ \A i \in Rows : /\ invite[i].token + Cardinality(Writers) <= requests
                     /\ invite[i].status # "absent" => invite[i].token >= 1

CompanyBound == CompanySets /\ TokensBound

\* A request that is written again, and the requests that may write an invite.
LEMMA WritersMove ==
  ASSUME CompanyTypes, IsFiniteSet(Writers), NEW p \in Places, NEW next,
         request' = [request EXCEPT ![p] = next]
  PROVE  /\ IsFiniteSet(Writers)' /\ Cardinality(Writers) \in Nat /\ Cardinality(Writers)' \in Nat
         /\ p \in Writers =>
              Cardinality(Writers)' = Cardinality(Writers) - (IF Writes(next) THEN 0 ELSE 1)
         /\ p \notin Writers =>
              Cardinality(Writers)' = Cardinality(Writers) + (IF Writes(next) THEN 1 ELSE 0)
<1>1. Writers' = IF Writes(next) THEN Writers \cup {p} ELSE Writers \ {p}
  BY DEF CompanyTypes, Writers, Writes
<1>2. /\ IsFiniteSet(Writers \cup {p})
      /\ Cardinality(Writers \cup {p}) =
           IF p \in Writers THEN Cardinality(Writers) ELSE Cardinality(Writers) + 1
  BY FS_AddElement
<1>3. /\ IsFiniteSet(Writers \ {p})
      /\ Cardinality(Writers \ {p}) =
           IF p \in Writers THEN Cardinality(Writers) - 1 ELSE Cardinality(Writers)
  BY FS_RemoveElement
<1>4. IsFiniteSet(Writers)' /\ Cardinality(Writers)' =
        IF Writes(next) THEN Cardinality(Writers \cup {p}) ELSE Cardinality(Writers \ {p})
  BY <1>1, <1>2, <1>3
<1>5. Cardinality(Writers) \in Nat /\ Cardinality(Writers)' \in Nat
  BY <1>4, FS_CardinalityType
<1> QED
  BY <1>2, <1>3, <1>4, <1>5

\* A request begins, goes on or ends without writing a token.
LEMMA TokensStay ==
  ASSUME CompanyTypes, TokensBound, NEW p \in Places, NEW next,
         request' = [request EXCEPT ![p] = next],
         \/ requests < MaxRequests /\ requests' = requests + 1
         \/ requests' = requests /\ (Writes(next) => p \in Writers),
         \A i \in Rows : /\ invite'[i].token = invite[i].token
                         /\ invite'[i].status # "absent" => invite[i].status # "absent"
  PROVE  TokensBound'
<1>1. /\ IsFiniteSet(Writers)' /\ Cardinality(Writers) \in Nat /\ Cardinality(Writers)' \in Nat
      /\ p \in Writers =>
           Cardinality(Writers)' = Cardinality(Writers) - (IF Writes(next) THEN 0 ELSE 1)
      /\ p \notin Writers =>
           Cardinality(Writers)' = Cardinality(Writers) + (IF Writes(next) THEN 1 ELSE 0)
  BY WritersMove DEF TokensBound
<1>2. requests' \in 0..MaxRequests /\ requests \in Nat
  BY CompanyAssumption DEF TokensBound, CompanyAssumption
<1>3. Cardinality(Writers)' - Cardinality(Writers) <= requests' - requests
  BY <1>1, <1>2
<1>4. \A i \in Rows : invite[i].token \in Nat
  BY DEF CompanyTypes, Invite
<1>5. ASSUME NEW i \in Rows
      PROVE  /\ invite'[i].token + Cardinality(Writers)' <= requests'
             /\ invite'[i].status # "absent" => invite'[i].token >= 1
  <2>1. /\ invite[i].token \in Nat /\ invite[i].token + Cardinality(Writers) <= requests
        /\ invite[i].status # "absent" => invite[i].token >= 1
    BY <1>4 DEF TokensBound
  <2>2. invite'[i].token = invite[i].token /\ (invite'[i].status # "absent" => invite[i].status # "absent")
    OBVIOUS
  <2>3. requests' \in Nat
    BY <1>2
  <2> QED
    BY <1>1, <1>2, <1>3, <2>1, <2>2, <2>3
<1> QED
  BY <1>1, <1>2, <1>5 DEF TokensBound

\* A request that ends has no invite to write.
LEMMA EndsStay ==
  ASSUME CompanyTypes, TokensBound, NEW p \in Places, End(p), UNCHANGED requests,
         \A i \in Rows : /\ invite'[i].token = invite[i].token
                         /\ invite'[i].status # "absent" => invite[i].status # "absent"
  PROVE  TokensBound'
<1>1. request' = [request EXCEPT ![p] = NoRequest] /\ ~Writes(NoRequest)
  BY DEF End, Writes, NoRequest
<1> QED
  BY <1>1, TokensStay

\* An invite is inserted with its first token, or gets a new one.
LEMMA TokenWritten ==
  ASSUME CompanyIInv, TokensBound, NEW p \in Places, WriteInvite(p)
  PROVE  TokensBound'
<1>1. /\ request[p] \in Request /\ request[p].pc = "write" /\ UNCHANGED requests
      /\ request' = [request EXCEPT ![p] = NoRequest] /\ p \in Writers
      /\ ~Writes(NoRequest) /\ CompanyTypes
      /\ invite \in [Rows -> Invite]
  BY RequestIs DEF WriteInvite, Step, End, Writers, Writes, NoRequest, CompanyIInv, CompanyTypes
<1>2. /\ IsFiniteSet(Writers)' /\ Cardinality(Writers) \in Nat /\ Cardinality(Writers)' \in Nat
      /\ Cardinality(Writers)' = Cardinality(Writers) - 1
  BY <1>1, WritersMove DEF TokensBound
<1>3. /\ requests' \in 0..MaxRequests /\ requests \in Nat
      /\ \A i \in Rows : /\ invite[i].token \in Nat
                         /\ invite[i].token + Cardinality(Writers) <= requests
                         /\ invite[i].status # "absent" => invite[i].token >= 1
  BY <1>1 DEF TokensBound, Invite
<1>4. \A i \in Rows : \/ invite'[i] = invite[i]
                      \/ invite'[i].token = invite[i].token + 1
                      \/ invite'[i].token = 1
  <2>1. CASE request[p].row # NoRow
    BY <1>1, <2>1 DEF WriteInvite, Request, Invite
  <2>2. CASE request[p].row = NoRow
    <3>1. PICK i \in Rows :
            invite' = [invite EXCEPT ![i] = [of |-> request[p].of, email |-> request[p].whom,
                         role |-> request[p].role, token |-> 1, status |-> "pending"]]
      BY <2>2 DEF WriteInvite
    <3> QED
      BY <1>1, <3>1
  <2> QED
    BY <2>1, <2>2
<1>5. ASSUME NEW i \in Rows
      PROVE  /\ invite'[i].token + Cardinality(Writers)' <= requests'
             /\ invite'[i].status # "absent" => invite'[i].token >= 1
  <2>1. /\ invite[i].token \in Nat /\ invite[i].token + Cardinality(Writers) <= requests
        /\ requests' = requests /\ Cardinality(Writers) <= requests
    BY <1>1, <1>2, <1>3
  <2>2. CASE invite'[i] = invite[i]
    BY <1>2, <1>3, <2>1, <2>2
  <2>3. CASE invite'[i].token \in {invite[i].token + 1, 1}
    BY <1>2, <1>3, <2>1, <2>3
  <2> QED
    BY <1>4, <2>2, <2>3
<1> QED
  BY <1>2, <1>3, <1>5 DEF TokensBound

\* No step lets a token grow past the requests.
LEMMA TokensKeep ==
  ASSUME CompanyIInv, TokensBound, [CompanyNext]_companyVars
  PROVE  TokensBound'
<1>1. CompanyTypes /\ request \in [Places -> Request] /\ invite \in [Rows -> Invite]
  BY DEF CompanyIInv, CompanyTypes
<1> DEFINE Same == \A i \in Rows : /\ invite'[i].token = invite[i].token
                                   /\ invite'[i].status # "absent" => invite[i].status # "absent"
<1>2. ASSUME UNCHANGED invite PROVE Same
  BY <1>2
<1>3. ASSUME NEW p \in Places, NEW next, Begin(p, next), Same PROVE TokensBound'
  BY <1>1, <1>3, TokensStay DEF Begin
<1>4. ASSUME NEW p \in Places, NEW u \in Users, UpsertCompany(p, u) PROVE TokensBound'
  <2>1. UNCHANGED invite
    BY <1>4 DEF UpsertCompany
  <2>2. Same
    BY <1>2, <2>1
  <2> HIDE DEF Same
  <2> QED
    BY <1>3, <1>4, <2>2 DEF UpsertCompany
<1>5. ASSUME NEW p \in Places, NEW u \in Users, NEW whom \in Users,
             NEW role \in TeamRoles \cup {"worker"},
             StartInvite(p, u, whom, role) \/ StartRemove(p, u, whom)
      PROVE  TokensBound'
  <2>1. UNCHANGED invite /\ \E next : Begin(p, next)
    BY <1>5 DEF StartInvite, StartRemove
  <2>2. Same
    BY <1>2, <2>1
  <2> HIDE DEF Same
  <2> QED
    BY <1>3, <2>1, <2>2
<1>6. ASSUME NEW p \in Places, NEW u \in Users, NEW i \in Rows,
             OpenTeamInvite(p, u, i) \/ TakeWorkerInvite(p, u, i)
      PROVE  TokensBound'
  <2>1. \E next : Begin(p, next)
    BY <1>6 DEF OpenTeamInvite, TakeWorkerInvite
  <2>2. Same
    <3>1. CASE OpenTeamInvite(p, u, i)
      BY <3>1 DEF OpenTeamInvite
    <3>2. CASE TakeWorkerInvite(p, u, i)
      <4>1. invite' = [invite EXCEPT ![i].status = "accepted"] /\ invite[i].status = "pending"
        BY <3>2 DEF TakeWorkerInvite
      <4> QED
        BY <1>1, <4>1 DEF Invite
    <3> QED
      BY <1>6, <3>1, <3>2
  <2> HIDE DEF Same
  <2> QED
    BY <1>3, <2>1, <2>2
<1>7. ASSUME NEW p \in Places,
             \/ InsertOwner(p) \/ Join(p) \/ LinkWorker(p) \/ Remove(p) \/ Abort(p)
      PROVE  TokensBound'
  <2>1. End(p) /\ UNCHANGED requests
    BY <1>7 DEF InsertOwner, Join, LinkWorker, Remove, Abort, Step
  <2>2. Same
    <3>1. CASE Join(p) /\ invite' # invite
      <4>1. /\ invite' = [invite EXCEPT ![request[p].row].status = "accepted"]
            /\ request[p].row \in Rows /\ invite[request[p].row].status = "pending"
        BY <3>1, RequestIs DEF Join, Step, Fits
      <4> QED
        BY <1>1, <4>1 DEF Invite
    <3>2. CASE UNCHANGED invite
      BY <3>2
    <3> QED
      BY <1>7, <3>1, <3>2 DEF InsertOwner, LinkWorker, Remove, Abort
  <2> HIDE DEF Same
  <2> QED
    BY <1>1, <2>1, <2>2, EndsStay DEF Same
<1>8. ASSUME NEW p \in Places, FindInvite(p) \/ CheckMembership(p) \/ CheckTarget(p)
      PROVE  TokensBound'
  <2>1. UNCHANGED <<requests, invite>>
    BY <1>8 DEF FindInvite, CheckMembership, CheckTarget, Step
  <2>2. Same
    BY <1>2, <2>1
  <2> HIDE DEF Same
  <2>3. CASE End(p)
    BY <1>1, <2>1, <2>2, <2>3, EndsStay DEF Same
  <2>4. CASE FindInvite(p) /\ ~End(p)
    <3>1. PICK i \in Rows \cup {NoRow} :
            request' = [request EXCEPT ![p].pc = "write", ![p].row = i]
      BY <2>4 DEF FindInvite, Pending
    <3> DEFINE next == [request[p] EXCEPT !.pc = "write", !.row = i]
    <3>2. request' = [request EXCEPT ![p] = next]
      BY <1>1, <3>1
    <3>3. p \in Writers
      BY <2>4 DEF FindInvite, Step, Writers, Writes
    <3> HIDE DEF next
    <3> QED
      BY <1>1, <2>1, <2>2, <3>2, <3>3, TokensStay DEF Same
  <2>5. CASE ~FindInvite(p) /\ ~End(p)
    <3>1. PICK pc \in {"join", "remove"} : Goto(p, pc)
      BY <1>8, <2>5 DEF CheckMembership, CheckTarget
    <3> DEFINE next == [request[p] EXCEPT !.pc = pc]
    <3>2. request' = [request EXCEPT ![p] = next]
      BY <1>1, <3>1 DEF Goto
    <3>3. ~Writes(next)
      BY <1>1 DEF Writes, Request
    <3> HIDE DEF next
    <3> QED
      BY <1>1, <2>1, <2>2, <3>2, <3>3, TokensStay DEF Same
  <2> QED
    BY <2>3, <2>4, <2>5
<1>9. ASSUME NEW i \in Rows, DeleteInvite(i) PROVE TokensBound'
  <2>1. /\ invite' = [invite EXCEPT ![i].status = "deleted"] /\ invite[i].status = "pending"
        /\ UNCHANGED request /\ requests < MaxRequests /\ requests' = requests + 1
    BY <1>9 DEF DeleteInvite
  <2>2. Same
    BY <1>1, <2>1 DEF Invite
  <2>3. UNCHANGED Writers
    BY <2>1 DEF Writers
  <2>4. Cardinality(Writers) \in Nat /\ requests \in Nat /\ requests' \in 0..MaxRequests
    BY <2>1, FS_CardinalityType, CompanyAssumption DEF TokensBound, CompanyAssumption
  <2>5. \A j \in Rows : invite[j].token \in Nat
    BY <1>1 DEF Invite
  <2> QED
    BY <2>1, <2>2, <2>3, <2>4, <2>5 DEF TokensBound
<1>10. CASE UNCHANGED companyVars
  <2>1. UNCHANGED <<requests, invite, request>> /\ UNCHANGED Writers
    BY <1>10 DEF companyVars, Writers
  <2> QED
    BY <2>1 DEF TokensBound
<1> HIDE DEF Same
<1>11. ASSUME NEW p \in Places, NEW u \in Users,
              \/ UpsertCompany(p, u)
              \/ \E whom \in Users :
                   \/ StartRemove(p, u, whom)
                   \/ \E role \in TeamRoles \cup {"worker"} : StartInvite(p, u, whom, role)
              \/ \E i \in Rows : OpenTeamInvite(p, u, i) \/ TakeWorkerInvite(p, u, i)
       PROVE  TokensBound'
  BY <1>4, <1>5, <1>6, <1>11 DEF TeamRoles
<1>12. ASSUME NEW p \in Places,
              \/ InsertOwner(p) \/ FindInvite(p) \/ WriteInvite(p) \/ CheckMembership(p) \/ Join(p)
              \/ LinkWorker(p) \/ CheckTarget(p) \/ Remove(p) \/ Abort(p)
       PROVE  TokensBound'
  BY <1>7, <1>8, <1>12, TokenWritten
<1> QED
  BY <1>9, <1>10, <1>11, <1>12 DEF CompanyNext

\* The sets only hold what there is.
LEMMA SetsKeep ==
  ASSUME CompanyIInv, CompanyBound, [CompanyNext]_companyVars
  PROVE  CompanySets'
<1>1. ASSUME NEW p \in Places, NEW i \in Rows, request[p].row = i, invite[i].status # "absent",
             request[p] \in Request
      PROVE  <<request[p].row, invite[i].token, request[p].by>> \in
               Rows \X (1..MaxRequests) \X Users
  <2>1. /\ invite[i].token \in Nat /\ invite[i].token >= 1
        /\ invite[i].token + Cardinality(Writers) <= requests
        /\ requests \in Nat /\ requests <= MaxRequests
    BY <1>1, CompanyAssumption
       DEF CompanyIInv, CompanyTypes, Invite, CompanyBound, TokensBound, CompanyAssumption
  <2>2. Cardinality(Writers) \in Nat
    BY FS_CardinalityType DEF CompanyBound, TokensBound
  <2>3. invite[i].token \in 1..MaxRequests
    BY <2>1, <2>2, CompanyAssumption DEF CompanyAssumption
  <2> QED
    BY <1>1, <2>3 DEF Request
<1>2. ASSUME NEW p \in Places, NEW u \in Users, UpsertCompany(p, u) PROVE CompanySets'
  BY <1>2 DEF UpsertCompany, CompanyBound, CompanySets
<1>3. ASSUME NEW p \in Places, LinkWorker(p) PROVE CompanySets'
  <2>1. /\ request[p] \in Request /\ request[p].row \in Rows
        /\ invite[request[p].row].status = "accepted"
    BY <1>3, RequestIs DEF LinkWorker, Step, Fits
  <2>2. /\ workers' = workers \cup {<<request[p].of, request[p].by>>}
        /\ admitted' = admitted \cup {<<request[p].row, invite[request[p].row].token, request[p].by>>}
        /\ UNCHANGED <<enterprises, unfinished>>
    BY <1>3 DEF LinkWorker
  <2>3. request[p].of \in Users /\ request[p].by \in Users
    BY <2>1 DEF Request
  <2> QED
    BY <1>1, <2>1, <2>2, <2>3 DEF CompanyBound, CompanySets
<1>4. ASSUME NEW p \in Places, Join(p) PROVE CompanySets'
  <2>1. /\ request[p] \in Request /\ request[p].row \in Rows
        /\ invite[request[p].row].status = "pending"
    BY <1>4, RequestIs DEF Join, Step, Fits
  <2>2. /\ \/ admitted' = admitted \cup {<<request[p].row, invite[request[p].row].token, request[p].by>>}
           \/ admitted' = admitted
        /\ UNCHANGED <<enterprises, workers, unfinished>>
    BY <1>4 DEF Join
  <2> QED
    BY <1>1, <2>1, <2>2 DEF CompanyBound, CompanySets
<1>5. ASSUME NEW p \in Places, Abort(p) PROVE CompanySets'
  <2>1. request[p] \in Request /\ (request[p].pc = "link" => request[p].row \in Rows)
    BY <1>5, RequestIs DEF Fits
  <2>2. unfinished' \subseteq unfinished \cup Users \cup Rows
    <3>1. CASE request[p].pc = "own"
      BY <1>5, <2>1, <3>1 DEF Abort, Request
    <3>2. CASE request[p].pc = "link"
      BY <1>5, <2>1, <3>2 DEF Abort
    <3>3. CASE request[p].pc \notin {"own", "link"}
      BY <1>5, <3>3 DEF Abort
    <3> QED
      BY <3>1, <3>2, <3>3
  <2>3. UNCHANGED <<enterprises, workers, admitted>>
    BY <1>5 DEF Abort
  <2> QED
    BY <2>2, <2>3 DEF CompanyBound, CompanySets
<1>6. ASSUME UNCHANGED <<enterprises, workers, admitted, unfinished>> PROVE CompanySets'
  BY <1>6 DEF CompanyBound, CompanySets
<1>7. ASSUME NEW p \in Places, NEW u \in Users, NEW whom \in Users,
             NEW role \in TeamRoles \cup {"worker"},
             StartInvite(p, u, whom, role) \/ StartRemove(p, u, whom)
      PROVE  CompanySets'
  BY <1>6, <1>7 DEF StartInvite, StartRemove
<1>8. ASSUME NEW p \in Places, NEW u \in Users, NEW i \in Rows,
             OpenTeamInvite(p, u, i) \/ TakeWorkerInvite(p, u, i)
      PROVE  CompanySets'
  BY <1>6, <1>8 DEF OpenTeamInvite, TakeWorkerInvite
<1>9. ASSUME NEW p \in Places,
             \/ InsertOwner(p) \/ FindInvite(p) \/ WriteInvite(p) \/ CheckMembership(p)
             \/ CheckTarget(p) \/ Remove(p)
      PROVE  CompanySets'
  BY <1>6, <1>9 DEF InsertOwner, FindInvite, WriteInvite, CheckMembership, CheckTarget, Remove
<1>10. ASSUME NEW i \in Rows, DeleteInvite(i) PROVE CompanySets'
  BY <1>6, <1>10 DEF DeleteInvite
<1>11. CASE UNCHANGED companyVars
  BY <1>6, <1>11 DEF companyVars
<1>12. ASSUME NEW p \in Places, NEW u \in Users,
              \/ UpsertCompany(p, u)
              \/ \E whom \in Users :
                   \/ StartRemove(p, u, whom)
                   \/ \E role \in TeamRoles \cup {"worker"} : StartInvite(p, u, whom, role)
              \/ \E i \in Rows : OpenTeamInvite(p, u, i) \/ TakeWorkerInvite(p, u, i)
       PROVE  CompanySets'
  BY <1>2, <1>7, <1>8, <1>12 DEF TeamRoles
<1>13. ASSUME NEW p \in Places,
              \/ InsertOwner(p) \/ FindInvite(p) \/ WriteInvite(p) \/ CheckMembership(p) \/ Join(p)
              \/ LinkWorker(p) \/ CheckTarget(p) \/ Remove(p) \/ Abort(p)
       PROVE  CompanySets'
  BY <1>3, <1>4, <1>5, <1>9, <1>13
<1> QED
  BY <1>10, <1>11, <1>12, <1>13 DEF CompanyNext

\* The types of the company's state follow.
LEMMA CompanyTyped ==
  ASSUME CompanyIInv, CompanyBound
  PROVE  CompanyTypeOK
<1>1. /\ member \in [Users -> [Users -> Member]] /\ request \in [Places -> Request]
      /\ invite \in [Rows -> Invite]
  BY DEF CompanyIInv, CompanyTypes
<1>2. ASSUME NEW i \in Rows PROVE invite[i].token \in 0..MaxRequests
  <2>1. /\ invite[i].token \in Nat /\ invite[i].token + Cardinality(Writers) <= requests
        /\ requests \in Nat /\ requests <= MaxRequests
    BY <1>1, CompanyAssumption DEF Invite, CompanyBound, TokensBound, CompanyAssumption
  <2>2. Cardinality(Writers) \in Nat
    BY FS_CardinalityType DEF CompanyBound, TokensBound
  <2> QED
    BY <2>1, <2>2, CompanyAssumption DEF CompanyAssumption
<1>3. ASSUME NEW i \in Rows
      PROVE  invite[i] \in [of : Users, email : Users, role : TeamRoles \cup {"worker"},
               token : 0..MaxRequests, status : {"absent", "pending", "accepted", "deleted"}]
  <2>1. invite[i] \in Invite
    BY <1>1
  <2> QED
    BY <1>2, <2>1 DEF Invite
<1>4. invite \in [Rows -> [of : Users, email : Users, role : TeamRoles \cup {"worker"},
        token : 0..MaxRequests, status : {"absent", "pending", "accepted", "deleted"}]]
  BY <1>1, <1>3
<1>5. request \in [Places -> [of : Users, by : Users, whom : Users,
       pc : {"none", "own", "find", "write", "check", "join", "link", "target", "remove"},
       role : TeamRoles \cup {"worker", "owner", "none"}, row : Rows \cup {NoRow}]]
  BY <1>1 DEF Request
<1> QED
  BY <1>1, <1>4, <1>5 DEF CompanyTypeOK, CompanyBound, CompanySets, TokensBound, Member

\* No token and no request at the beginning.
LEMMA CompanyBoundStarts == CompanyInit => CompanyBound
<1> SUFFICES ASSUME CompanyInit PROVE CompanyBound
  OBVIOUS
<1>1. CompanySets
  BY CompanyAssumption DEF CompanyInit, CompanySets, CompanyAssumption
<1>2. Writers = {}
  BY DEF CompanyInit, Writers, Writes, NoRequest
<1>3. IsFiniteSet(Writers) /\ Cardinality(Writers) = 0
  BY <1>2, FS_EmptySet
<1>4. \A i \in Rows : invite[i].token = 0 /\ invite[i].status = "absent"
  BY DEF CompanyInit, NoInvite
<1>5. TokensBound
  BY <1>3, <1>4, CompanyAssumption DEF CompanyInit, TokensBound, CompanyAssumption
<1> QED
  BY <1>1, <1>5 DEF CompanyBound

\* Companies, invites and requests keep their types for any number of them: no token
\* is renewed more often than there were requests, and nobody is let in by a row that
\* was never written.
THEOREM CompanyTypeCorrect == CompanySpec => []CompanyTypeOK
<1>1. CompanyInit => CompanyIInv /\ CompanyBound
  BY CompanyStarts, CompanyBoundStarts
<1>2. CompanyIInv /\ CompanyBound /\ [CompanyNext]_companyVars => CompanyIInv' /\ CompanyBound'
  BY CompanyStep, TokensKeep, SetsKeep DEF CompanyBound
<1>3. CompanyIInv /\ CompanyBound => CompanyTypeOK
  BY CompanyTyped
<1> QED
  BY <1>1, <1>2, <1>3, PTL DEF CompanySpec

-----------------------------------------------------------------------------
(* Sessions: the inductive invariant. *)

Visit == [by : Browsers, key : {"reg", "auth", "none"}, token : Nat, counter : Int,
          at : {"look", "user", "store", "count", "rotate", "link", "session"},
          replaces : BOOLEAN]

SessionTypes ==
  /\ passkey = NoPasskey \/ passkey \in [of : Browsers, counter : Int]
  /\ count \in [Browsers -> Int]
  /\ visit \in [Slots -> Visit \cup {NoVisit}]
  /\ issued \in Seq(Browsers)
  /\ tokens \subseteq DOMAIN issued
  /\ cookie \in [Browsers -> Nat]
  /\ unusual \in [overlap : SUBSET Browsers, again : SUBSET Browsers, crossed : BOOLEAN]

\* Whoever holds a token, now or when its request came, is the browser it was made for.
TokenIsOf(b, t)  == t # 0 => t \in DOMAIN issued /\ issued[t] = b
TokensAreOwn ==
  /\ \A b \in Browsers : TokenIsOf(b, cookie[b])
  /\ \A s \in Slots : visit[s] # NoVisit => TokenIsOf(visit[s].by, visit[s].token)

\* A passkey comes after its authenticator; the counter that a sign-in is about to
\* write is that of the passkey it has read, unless that was replaced.
CountersFit ==
  /\ \A s \in Slots : visit[s].at \in {"look", "user", "store"} => count[visit[s].by] >= 0
  /\ \A s \in Slots : visit[s].at = "count" =>
       /\ passkey # NoPasskey
       /\ unusual.crossed \/ (passkey.of = visit[s].by /\ visit[s].counter <= count[visit[s].by])
  /\ PasskeyWorks

\* A browser whose requests did not overlap: it has one request at most; unless it
\* signed in on top of a session its cookie stands for its only token, which is gone
\* when a request is about to make another, and which a request that signs in has not.
Own(b) == {t \in tokens : issued[t] = b}

CookieFits(b) ==
  /\ \A s, r \in Visits(b) : s = r
  /\ b \notin unusual.again =>
       /\ Own(b) \subseteq {cookie[b]}
       /\ \A s \in Visits(b) : visit[s].at = "session" => Own(b) = {}
       /\ \A s \in Visits(b) : visit[s].at \notin {"rotate", "session"} => cookie[b] = 0
  /\ \A s \in Visits(b) : visit[s].at = "rotate" => visit[s].token = cookie[b]
  /\ (\A s \in Visits(b) : visit[s].at # "session") /\ cookie[b] # 0 => cookie[b] \in tokens

SessionsIInv ==
  /\ SessionTypes /\ TokensAreOwn /\ CountersFit
  /\ \A b \in Browsers : b \notin unusual.overlap => CookieFits(b)

\* What is known of a handler that is at work, and of a slot that has none.
LEMMA VisitIs ==
  ASSUME SessionTypes, NEW s \in Slots
  PROVE  /\ NoVisit.at = "none" /\ NoVisit.by = Nobody /\ NoVisit \notin Visit /\ Nobody \notin Browsers
         /\ visit[s].at # "none" \/ visit[s].by # Nobody =>
              visit[s] \in Visit /\ visit[s] # NoVisit /\ visit[s].by \in Browsers
         /\ visit[s] = NoVisit \/ visit[s].at # "none"
  BY SessionsAssumption DEF SessionTypes, Visit, NoVisit, SessionsAssumption

\* A token more.
LEMMA Issued ==
  ASSUME NEW s \in Seq(Browsers), NEW b \in Browsers
  PROVE  /\ Append(s, b) \in Seq(Browsers) /\ Len(s) + 1 \in Nat \ {0} /\ Len(s) + 1 \notin DOMAIN s
         /\ DOMAIN Append(s, b) = DOMAIN s \cup {Len(s) + 1}
         /\ Append(s, b)[Len(s) + 1] = b
         /\ \A t \in DOMAIN s : Append(s, b)[t] = s[t] /\ t # 0
  OBVIOUS

\* The initial states.
LEMMA SessionsStart == SessionsInit => SessionsIInv
<1> SUFFICES ASSUME SessionsInit PROVE SessionsIInv
  OBVIOUS
<1>1. SessionTypes
  BY DEF SessionsInit, SessionTypes, NoPasskey
<1>2. /\ \A s \in Slots : visit[s] = NoVisit /\ visit[s].at = "none"
      /\ \A b \in Browsers : cookie[b] = 0 /\ Visits(b) = {} /\ Own(b) = {}
  BY SessionsAssumption DEF SessionsInit, NoVisit, Visits, Own, SessionsAssumption
<1>3. TokensAreOwn /\ CountersFit
  BY <1>2 DEF TokensAreOwn, TokenIsOf, CountersFit, PasskeyWorks, SessionsInit
<1>4. \A b \in Browsers : CookieFits(b)
  BY <1>2 DEF CookieFits
<1> QED
  BY <1>1, <1>3, <1>4 DEF SessionsIInv

\* A browser that a step does not concern, whatever it does to the others.
LEMMA CookieStays ==
  ASSUME NEW b \in Browsers, CookieFits(b), TokenIsOf(b, cookie[b]),
         \A s \in Slots : visit'[s].by = b \/ visit[s].by = b => visit'[s] = visit[s],
         b \notin unusual'.again => b \notin unusual.again,
         cookie'[b] = cookie[b], Own(b)' = Own(b)
  PROVE  CookieFits(b)'
<1>1. Visits(b)' = Visits(b) /\ \A s \in Visits(b) : visit'[s] = visit[s]
  BY DEF Visits
<1>2. cookie[b] # 0 /\ cookie[b] \in tokens => cookie'[b] \in tokens'
  BY DEF Own, TokenIsOf
<1> QED
  BY <1>1, <1>2 DEF CookieFits

-----------------------------------------------------------------------------
(* A request comes. *)

LEMMA EnterKeeps ==
  ASSUME SessionsIInv, NEW s \in Slots, NEW b \in Browsers,
         NEW stage \in {"look", "count", "rotate", "link"}, NEW key \in {"reg", "auth", "none"},
         Enter(s, b, stage, key), count' \in [Browsers -> Int], UNCHANGED <<tokens, cookie, issued>>,
         stage = "rotate" => cookie[b] \in tokens
  PROVE  /\ visit'[s].at = stage /\ visit'[s].by = b
         /\ visit'[s].counter = IF key = "auth" THEN count'[b] ELSE 0
         /\ \A r \in Slots : r # s => visit'[r] = visit[r]
         /\ visit' \in [Slots -> Visit \cup {NoVisit}]
         /\ unusual' \in [overlap : SUBSET Browsers, again : SUBSET Browsers, crossed : BOOLEAN]
         /\ unusual'.crossed = unusual.crossed
         /\ TokensAreOwn'
         /\ \A c \in Browsers : c \notin unusual'.overlap => CookieFits(c)'
<1>0. SessionTypes /\ (IF key = "auth" THEN count'[b] ELSE 0) \in Int /\ cookie[b] \in Nat
  BY DEF SessionsIInv, SessionTypes
<1> DEFINE counter == IF key = "auth" THEN count'[b] ELSE 0
           new == [NoVisit EXCEPT !.by = b, !.at = stage, !.key = key, !.token = cookie[b],
                                  !.counter = counter]
<1>1. /\ visit[s] = NoVisit /\ visit' = [visit EXCEPT ![s] = new]
      /\ unusual' = [unusual EXCEPT !.overlap = Overlap(b),
           !.again = IF stage # "rotate" /\ cookie[b] # 0 THEN unusual.again \cup {b} ELSE unusual.again]
  BY DEF Enter
<1>2. /\ SessionTypes /\ TokensAreOwn /\ Nobody \notin Browsers /\ NoVisit.by = Nobody
  BY VisitIs DEF SessionsIInv
<1>3. /\ new.by = b /\ new.at = stage /\ new.token = cookie[b] /\ new \in Visit
      /\ new.counter = IF key = "auth" THEN count'[b] ELSE 0
  <2>1. counter \in Int /\ cookie[b] \in Nat
    BY <1>0
  <2> HIDE DEF counter
  <2>2. new.by = b /\ new.at = stage /\ new.token = cookie[b] /\ new.counter = counter
    BY DEF NoVisit
  <2>3. new \in Visit
    BY <2>1 DEF NoVisit, Visit
  <2> QED
    BY <2>2, <2>3 DEF counter
<1> HIDE DEF new
<1>4. /\ visit'[s] = new /\ \A r \in Slots : r # s => visit'[r] = visit[r]
      /\ visit' \in [Slots -> Visit \cup {NoVisit}]
  BY <1>1, <1>2, <1>3 DEF SessionTypes
<1>5. /\ unusual'.overlap = Overlap(b) /\ unusual'.crossed = unusual.crossed
      /\ unusual'.again = IF stage # "rotate" /\ cookie[b] # 0 THEN unusual.again \cup {b} ELSE unusual.again
      /\ unusual' \in [overlap : SUBSET Browsers, again : SUBSET Browsers, crossed : BOOLEAN]
      /\ unusual.overlap \subseteq Overlap(b) /\ (b \notin Overlap(b) => Visits(b) = {})
  BY <1>1, <1>2 DEF SessionTypes, Overlap
<1>6. TokensAreOwn'
  BY <1>2, <1>3, <1>4 DEF TokensAreOwn, TokenIsOf
<1>7. ASSUME NEW c \in Browsers, c \notin unusual'.overlap PROVE CookieFits(c)'
  <2>1. CookieFits(c) /\ TokenIsOf(c, cookie[c]) /\ Own(c)' = Own(c)
    BY <1>2, <1>5, <1>7 DEF SessionsIInv, TokensAreOwn, Own
  <2>2. CASE c # b
    <3>1. \A r \in Slots : visit'[r].by = c \/ visit[r].by = c => visit'[r] = visit[r]
      BY <1>1, <1>2, <1>3, <1>4, <2>2
    <3>2. c \notin unusual'.again => c \notin unusual.again
      BY <1>5
    <3> QED
      BY <2>1, <3>1, <3>2, CookieStays
  <2>3. CASE c = b
    <3>1. Visits(b) = {} /\ Visits(b)' = {s}
      BY <1>3, <1>4, <1>5, <1>7, <2>3 DEF Visits
    <3>2. b \notin unusual'.again => b \notin unusual.again /\ (stage = "rotate" \/ cookie[b] = 0)
      BY <1>5
    <3>3. cookie[b] # 0 => cookie[b] \in tokens
      BY <2>1, <2>3, <3>1 DEF CookieFits
    <3> QED
      BY <1>3, <1>4, <2>1, <2>3, <3>1, <3>2, <3>3 DEF CookieFits
  <2> QED
    BY <2>2, <2>3
<1> QED
  BY <1>3, <1>4, <1>5, <1>6, <1>7

\* What authenticators have counted grows, and a request may have come.
LEMMA CountersGrow ==
  ASSUME SessionTypes, CountersFit, count' \in [Browsers -> Int],
         \A c \in Browsers : count'[c] >= count[c],
         passkey' = passkey, unusual'.crossed = unusual.crossed,
         NEW s \in Slots, \A r \in Slots : r # s => visit'[r] = visit[r],
         \/ visit'[s] = visit[s]
         \/ /\ visit'[s].by \in Browsers
            /\ visit'[s].at = "look" => count'[visit'[s].by] >= 0
            /\ visit'[s].at = "count" =>
                 passkey.of = visit'[s].by /\ visit'[s].counter = count'[visit'[s].by]
            /\ visit'[s].at \notin {"user", "store"}
  PROVE  CountersFit'
<1>1. ASSUME NEW r \in Slots, visit'[r] = visit[r], visit[r].at \in {"look", "user", "store"}
      PROVE  count'[visit[r].by] >= 0
  <2>1. visit[r].by \in Browsers /\ count[visit[r].by] >= 0
    BY <1>1, VisitIs DEF CountersFit
  <2> QED
    BY <2>1 DEF SessionTypes
<1>2. ASSUME NEW r \in Slots, visit'[r] = visit[r], visit[r].at = "count"
      PROVE  /\ passkey # NoPasskey
             /\ unusual.crossed \/ (passkey.of = visit[r].by /\ visit[r].counter <= count'[visit[r].by])
  <2>1. /\ visit[r].by \in Browsers /\ visit[r].counter \in Int /\ passkey # NoPasskey
        /\ unusual.crossed \/ (passkey.of = visit[r].by /\ visit[r].counter <= count[visit[r].by])
    BY <1>2, VisitIs DEF CountersFit, Visit
  <2> QED
    BY <2>1 DEF SessionTypes
<1>3. \A r \in Slots : visit'[r].at \in {"look", "user", "store"} => count'[visit'[r].by] >= 0
  BY <1>1
<1>4. \A r \in Slots : visit'[r].at = "count" =>
        /\ passkey' # NoPasskey
        /\ unusual'.crossed \/ (passkey'.of = visit'[r].by /\ visit'[r].counter <= count'[visit'[r].by])
  <2>1. visit'[s].at = "count" /\ visit'[s] # visit[s] => passkey # NoPasskey
    BY SessionsAssumption DEF NoPasskey, SessionsAssumption
  <2> QED
    BY <1>2, <2>1
<1>5. PasskeyWorks'
  BY DEF CountersFit, PasskeyWorks, SessionTypes
<1> QED
  BY <1>3, <1>4, <1>5 DEF CountersFit

\* A request of registration, sign-in, recovery or refresh comes.
LEMMA ComesKeeps ==
  ASSUME SessionsIInv, NEW s \in Slots, NEW b \in Browsers,
         Register(s, b) \/ Login(s, b) \/ FollowLink(s, b) \/ Refresh(s, b)
  PROVE  SessionsIInv'
<1>1. UNCHANGED <<passkey, tokens, cookie, issued>>
  BY DEF Register, Login, FollowLink, Refresh, users
<1>2. SessionTypes /\ CountersFit
  BY DEF SessionsIInv
<1>3. ASSUME NEW stage \in {"look", "count", "rotate", "link"}, NEW key \in {"reg", "auth", "none"},
             Enter(s, b, stage, key), count' \in [Browsers -> Int],
             \A c \in Browsers : count'[c] >= count[c],
             stage = "rotate" => cookie[b] \in tokens,
             stage = "look" => count'[b] >= 0,
             stage = "count" => passkey.of = b /\ key = "auth"
      PROVE  SessionsIInv'
  <2>1. /\ visit'[s].at = stage /\ visit'[s].by = b
        /\ visit'[s].counter = IF key = "auth" THEN count'[b] ELSE 0
        /\ \A r \in Slots : r # s => visit'[r] = visit[r]
        /\ visit' \in [Slots -> Visit \cup {NoVisit}]
        /\ unusual' \in [overlap : SUBSET Browsers, again : SUBSET Browsers, crossed : BOOLEAN]
        /\ unusual'.crossed = unusual.crossed
        /\ TokensAreOwn'
        /\ \A c \in Browsers : c \notin unusual'.overlap => CookieFits(c)'
    BY <1>1, <1>3, EnterKeeps
  <2>2. SessionTypes'
    BY <1>1, <1>2, <1>3, <2>1 DEF SessionTypes
  <2>3. CountersFit'
    BY <1>1, <1>2, <1>3, <2>1, CountersGrow
  <2> QED
    BY <2>1, <2>2, <2>3 DEF SessionsIInv
<1>4. CASE Register(s, b)
  BY <1>2, <1>3, <1>4 DEF Register, SessionTypes
<1>5. CASE Login(s, b) /\ count[b] + 1 > passkey.counter
  BY <1>2, <1>3, <1>5 DEF Login, SessionTypes
<1>6. CASE Login(s, b) /\ ~(count[b] + 1 > passkey.counter)
  <2>1. /\ count' = [count EXCEPT ![b] = count[b] + 1] /\ UNCHANGED <<visit, unusual>>
    BY <1>2, <1>6 DEF Login, SessionTypes
  <2>2. count' \in [Browsers -> Int] /\ \A c \in Browsers : count'[c] >= count[c]
    BY <1>2, <2>1 DEF SessionTypes
  <2>3. CountersFit'
    BY <1>1, <1>2, <2>1, <2>2, CountersGrow
  <2>4. SessionTypes' /\ TokensAreOwn'
    BY <1>1, <1>2, <2>1, <2>2 DEF SessionsIInv, SessionTypes, TokensAreOwn, TokenIsOf
  <2>5. \A c \in Browsers : c \notin unusual'.overlap => CookieFits(c)'
    <3> SUFFICES ASSUME NEW c \in Browsers, c \notin unusual'.overlap PROVE CookieFits(c)'
      OBVIOUS
    <3>1. Own(c)' = Own(c)
      BY <1>1 DEF Own
    <3> QED
      BY <1>1, <2>1, <3>1, CookieStays DEF SessionsIInv, TokensAreOwn
  <2> QED
    BY <2>3, <2>4, <2>5 DEF SessionsIInv
<1>7. CASE FollowLink(s, b)
  BY <1>2, <1>3, <1>7 DEF FollowLink, users, SessionTypes
<1>8. CASE Refresh(s, b)
  BY <1>2, <1>3, <1>8 DEF Refresh, users, SessionTypes
<1> QED
  BY <1>4, <1>5, <1>6, <1>7, <1>8
-----------------------------------------------------------------------------
(* A request goes on, or ends. *)

\* A request that has no session to rotate goes on, or ends.
LEMMA GoesOn ==
  ASSUME SessionsIInv, NEW s \in Slots, visit[s].at \in {"look", "user", "store", "count", "link"},
         NEW new, visit' = [visit EXCEPT ![s] = new],
         \/ new = NoVisit
         \/ /\ new \in Visit /\ new.by = visit[s].by /\ new.token = visit[s].token
            /\ new.at \in {"user", "store", "session"},
         UNCHANGED <<tokens, cookie, issued>>,
         unusual'.overlap = unusual.overlap, unusual'.again = unusual.again
  PROVE  /\ visit' \in [Slots -> Visit \cup {NoVisit}]
         /\ visit'[s] = new /\ \A r \in Slots : r # s => visit'[r] = visit[r]
         /\ TokensAreOwn'
         /\ \A c \in Browsers : c \notin unusual'.overlap => CookieFits(c)'
<1>1. /\ SessionTypes /\ TokensAreOwn /\ Nobody \notin Browsers /\ NoVisit.by = Nobody
      /\ NoVisit.at = "none" /\ visit[s] \in Visit /\ visit[s] # NoVisit /\ visit[s].by \in Browsers
  BY VisitIs DEF SessionsIInv
<1>2. /\ visit' \in [Slots -> Visit \cup {NoVisit}]
      /\ visit'[s] = new /\ \A r \in Slots : r # s => visit'[r] = visit[r]
  BY <1>1 DEF SessionTypes
<1>3. TokensAreOwn'
  BY <1>1, <1>2 DEF TokensAreOwn, TokenIsOf
<1>4. ASSUME NEW c \in Browsers, c \notin unusual'.overlap PROVE CookieFits(c)'
  <2>1. CookieFits(c) /\ TokenIsOf(c, cookie[c]) /\ Own(c)' = Own(c)
    BY <1>1, <1>4 DEF SessionsIInv, TokensAreOwn, Own
  <2>2. CASE c # visit[s].by
    <3>1. \A r \in Slots : visit'[r].by = c \/ visit[r].by = c => visit'[r] = visit[r]
      BY <1>1, <1>2, <2>2
    <3> QED
      BY <2>1, <3>1, CookieStays
  <2>3. CASE c = visit[s].by
    <3>1. Visits(c) = {s}
      BY <2>1, <2>3 DEF CookieFits, Visits
    <3>2. Visits(c)' = {} \/ (Visits(c)' = {s} /\ new.at \in {"user", "store", "session"})
      <4>1. \A r \in Slots : visit[r].by = c => r = s
        BY <3>1 DEF Visits
      <4>2. \A r \in Slots : visit'[r].by = c => r = s
        BY <1>2, <4>1
      <4>3. CASE new = NoVisit
        BY <1>1, <1>2, <4>2, <4>3 DEF Visits
      <4>4. CASE new.by = c /\ new.at \in {"user", "store", "session"}
        BY <1>2, <4>2, <4>4 DEF Visits
      <4> QED
        BY <2>3, <4>3, <4>4
    <3>3. c \notin unusual.again => cookie[c] = 0 /\ Own(c) = {}
      <4>1. 0 \notin Own(c)
        BY <1>1 DEF Own, SessionTypes
      <4> QED
        BY <2>1, <3>1, <4>1 DEF CookieFits
    <3>4. cookie[c] # 0 => cookie[c] \in tokens
      BY <2>1, <3>1 DEF CookieFits
    <3> QED
      BY <1>2, <2>1, <3>2, <3>3, <3>4 DEF CookieFits
  <2> QED
    BY <2>2, <2>3
<1> QED
  BY <1>2, <1>3, <1>4

\* What of it concerns the passkey.
LEMMA CountersStay ==
  ASSUME SessionTypes, CountersFit, NEW s \in Slots, UNCHANGED <<passkey, count>>,
         unusual'.crossed = unusual.crossed,
         \A r \in Slots : r # s => visit'[r] = visit[r],
         visit'[s].at \in {"user", "store"} =>
           visit'[s].by = visit[s].by /\ visit[s].at \in {"look", "user"},
         visit'[s].at \notin {"look", "count"}
  PROVE  CountersFit'
  BY DEF CountersFit, PasskeyWorks

\* Registration up to the user's row, and a recovery link that is used.
LEMMA LookKeeps ==
  ASSUME SessionsIInv, NEW s \in Slots, LookForUser(s) \/ CreateUser(s) \/ UseLink(s)
  PROVE  SessionsIInv'
<1>1. /\ UNCHANGED <<passkey, count, tokens, cookie, issued, unusual>>
      /\ visit[s].at \in {"look", "user", "link"}
  BY DEF LookForUser, CreateUser, UseLink, users, past, Doing
<1>2. SessionTypes /\ CountersFit /\ visit[s] \in Visit /\ NoVisit.at = "none"
  BY <1>1, VisitIs DEF SessionsIInv
<1>3. PICK new : /\ visit' = [visit EXCEPT ![s] = new]
                 /\ \/ new = NoVisit
                    \/ /\ new \in Visit /\ new.by = visit[s].by /\ new.token = visit[s].token
                       /\ new.at \in {"user", "store", "session"}
                       /\ new.at \in {"user", "store"} => visit[s].at \in {"look", "user"}
  <2>1. CASE LookForUser(s)
    <3> DEFINE at == IF account THEN "store" ELSE "user"
               replaces == account /\ passkey # NoPasskey
               next == [visit[s] EXCEPT !.at = at, !.replaces = replaces]
    <3>1. visit[s].at = "look" /\ (visit' = [visit EXCEPT ![s] = NoVisit] \/ visit' = [visit EXCEPT ![s] = next])
      BY <1>2, <2>1 DEF LookForUser, Leave, Doing, SessionTypes
    <3>2. replaces \in BOOLEAN /\ at \in {"user", "store"}
      OBVIOUS
    <3> HIDE DEF at, replaces
    <3>3. next \in Visit /\ next.by = visit[s].by /\ next.token = visit[s].token /\ next.at = at
      BY <1>2, <3>2 DEF Visit
    <3> HIDE DEF next
    <3> QED
      BY <3>1, <3>2, <3>3
  <2>2. CASE CreateUser(s) \/ UseLink(s)
    <3>1. PICK at \in {"store", "session"} :
            /\ visit' = [visit EXCEPT ![s] = NoVisit] \/ visit' = [visit EXCEPT ![s] = [visit[s] EXCEPT !.at = at]]
            /\ at = "store" => visit[s].at = "user"
      BY <1>2, <2>2 DEF CreateUser, UseLink, Leave, Proceed, Doing, SessionTypes
    <3> DEFINE next == [visit[s] EXCEPT !.at = at]
    <3>2. next \in Visit /\ next.by = visit[s].by /\ next.token = visit[s].token /\ next.at = at
      BY <1>2 DEF Visit
    <3> HIDE DEF next
    <3> QED
      BY <3>1, <3>2 DEF next
  <2> QED
    BY <2>1, <2>2
<1>4. /\ visit' \in [Slots -> Visit \cup {NoVisit}]
      /\ visit'[s] = new /\ \A r \in Slots : r # s => visit'[r] = visit[r]
      /\ TokensAreOwn'
      /\ \A c \in Browsers : c \notin unusual'.overlap => CookieFits(c)'
  BY <1>1, <1>3, GoesOn
<1>5. SessionTypes'
  BY <1>1, <1>2, <1>4 DEF SessionTypes
<1>6. CountersFit'
  BY <1>1, <1>2, <1>3, <1>4, CountersStay
<1> QED
  BY <1>4, <1>5, <1>6 DEF SessionsIInv

\* A passkey is stored, or not.
LEMMA StoreKeeps ==
  ASSUME SessionsIInv, NEW s \in Slots, StorePasskey(s)
  PROVE  SessionsIInv'
<1> DEFINE b == visit[s].by
           next == [visit[s] EXCEPT !.at = "session"]
           crossed == unusual.crossed \/ \E r \in Slots : visit[r].at = "count"
<1>1. /\ UNCHANGED <<count, tokens, cookie, issued>> /\ visit[s].at = "store"
      /\ \/ /\ passkey' = [of |-> b, counter |-> 0] /\ visit' = [visit EXCEPT ![s] = next]
            /\ unusual' = [unusual EXCEPT !.crossed = crossed]
         \/ /\ passkey # NoPasskey /\ UNCHANGED <<passkey, unusual>>
            /\ visit' = [visit EXCEPT ![s] = NoVisit]
  BY DEF StorePasskey, NewPasskey, Doing, Proceed, Leave
<1>2. /\ SessionTypes /\ CountersFit /\ visit[s] \in Visit /\ b \in Browsers /\ Nobody \notin Browsers
      /\ NoVisit.at = "none" /\ count[b] \in Int
  BY <1>1, VisitIs DEF SessionsIInv, SessionTypes
<1>3. next \in Visit /\ next.by = b /\ next.token = visit[s].token /\ next.at = "session"
  BY <1>2 DEF Visit
<1>4. /\ unusual' \in [overlap : SUBSET Browsers, again : SUBSET Browsers, crossed : BOOLEAN]
      /\ unusual'.overlap = unusual.overlap /\ unusual'.again = unusual.again
      /\ unusual.crossed => unusual'.crossed
      /\ passkey' # passkey => unusual'.crossed = crossed
  BY <1>1, <1>2 DEF SessionTypes
<1> HIDE DEF next
<1>5. /\ visit' \in [Slots -> Visit \cup {NoVisit}]
      /\ visit'[s] \in {next, NoVisit} /\ \A r \in Slots : r # s => visit'[r] = visit[r]
      /\ TokensAreOwn'
      /\ \A c \in Browsers : c \notin unusual'.overlap => CookieFits(c)'
  BY <1>1, <1>3, <1>4, GoesOn
<1>6. passkey' = [of |-> b, counter |-> 0] => passkey' # NoPasskey
  BY <1>2 DEF NoPasskey
<1>7. SessionTypes'
  BY <1>1, <1>2, <1>4, <1>5 DEF SessionTypes
<1>8. CountersFit'
  <2>1. visit'[s].at \notin {"look", "user", "store", "count"}
    BY <1>2, <1>3, <1>5
  <2>2. CASE passkey' = passkey
    <3>1. \A r \in Slots : visit'[r].at \in {"look", "user", "store", "count"} => visit'[r] = visit[r]
      BY <1>5, <2>1
    <3> QED
      BY <1>1, <1>2, <1>4, <2>2, <3>1 DEF CountersFit, PasskeyWorks
  <2>3. CASE passkey' = [of |-> b, counter |-> 0] /\ passkey' # passkey
    <3>1. count[b] >= 0
      BY <1>1, <1>2 DEF CountersFit
    <3>2. \A r \in Slots : visit'[r].at = "count" => unusual'.crossed
      BY <1>4, <1>5, <2>1, <2>3
    <3>3. PasskeyWorks'
      BY <1>1, <1>2, <2>3, <3>1 DEF PasskeyWorks
    <3> QED
      BY <1>1, <1>2, <1>5, <1>6, <2>1, <2>3, <3>2, <3>3 DEF CountersFit
  <2> QED
    BY <1>1, <2>2, <2>3
<1> QED
  BY <1>5, <1>7, <1>8 DEF SessionsIInv

\* The counter of a sign-in is written.
LEMMA CounterKeeps ==
  ASSUME SessionsIInv, NEW s \in Slots, UpdateCounter(s)
  PROVE  SessionsIInv'
<1> DEFINE next == [visit[s] EXCEPT !.at = "session"]
<1>1. /\ UNCHANGED <<count, tokens, cookie, issued, unusual>> /\ visit[s].at = "count"
      /\ visit' = [visit EXCEPT ![s] = next]
      /\ passkey' = [passkey EXCEPT !.counter = visit[s].counter]
  BY DEF UpdateCounter, Doing, Proceed, past
<1>2. /\ SessionTypes /\ CountersFit /\ visit[s] \in Visit /\ visit[s].by \in Browsers
      /\ Nobody \notin Browsers /\ passkey # NoPasskey /\ visit[s].counter \in Int
      /\ unusual.crossed \/ (passkey.of = visit[s].by /\ visit[s].counter <= count[visit[s].by])
  BY <1>1, VisitIs DEF SessionsIInv, CountersFit, Visit
<1>3. next \in Visit /\ next.by = visit[s].by /\ next.token = visit[s].token /\ next.at = "session"
  BY <1>2 DEF Visit
<1> HIDE DEF next
<1>4. /\ visit' \in [Slots -> Visit \cup {NoVisit}]
      /\ visit'[s] = next /\ \A r \in Slots : r # s => visit'[r] = visit[r]
      /\ TokensAreOwn'
      /\ \A c \in Browsers : c \notin unusual'.overlap => CookieFits(c)'
  BY <1>1, <1>3, GoesOn
<1>5. /\ passkey \in [of : Browsers, counter : Int] /\ passkey' \in [of : Browsers, counter : Int]
      /\ passkey'.of = passkey.of /\ passkey'.counter = visit[s].counter
  BY <1>1, <1>2 DEF SessionTypes
<1>6. passkey' # NoPasskey
  BY <1>2, <1>5 DEF NoPasskey
<1>7. SessionTypes'
  BY <1>1, <1>2, <1>4, <1>5 DEF SessionTypes
<1>8. CountersFit'
  <2>1. \A r \in Slots : visit'[r].at \in {"look", "user", "store", "count"} => visit'[r] = visit[r]
    BY <1>3, <1>4
  <2>2. PasskeyWorks'
    BY <1>1, <1>2, <1>5 DEF PasskeyWorks
  <2> QED
    BY <1>1, <1>2, <1>5, <1>6, <2>1, <2>2 DEF CountersFit
<1> QED
  BY <1>4, <1>7, <1>8 DEF SessionsIInv

-----------------------------------------------------------------------------
(* Sessions. *)

\* Passkeys and counters, when a slot is emptied or begins to make a session.
LEMMA CountersLeft ==
  ASSUME SessionTypes, CountersFit, NEW s \in Slots, UNCHANGED <<passkey, count>>,
         unusual'.crossed = unusual.crossed,
         \A r \in Slots : r # s => visit'[r] = visit[r],
         visit'[s].at \notin {"look", "user", "store", "count"}
  PROVE  CountersFit'
  BY CountersStay

\* A request dies.
LEMMA DiesKeeps ==
  ASSUME SessionsIInv, NEW s \in Slots, Dies(s)
  PROVE  SessionsIInv'
<1> DEFINE b == visit[s].by
<1>1. /\ visit[s] # NoVisit /\ visit' = [visit EXCEPT ![s] = NoVisit]
      /\ unusual' = [unusual EXCEPT !.overlap = unusual.overlap \cup {b}]
      /\ UNCHANGED <<passkey, count, tokens, cookie, issued>>
  BY DEF Dies, Leave, users
<1>2. /\ SessionTypes /\ CountersFit /\ TokensAreOwn /\ b \in Browsers /\ Nobody \notin Browsers
      /\ NoVisit.at = "none" /\ NoVisit.by = Nobody
  BY <1>1, VisitIs DEF SessionsIInv
<1>3. /\ visit'[s] = NoVisit /\ \A r \in Slots : r # s => visit'[r] = visit[r]
      /\ visit' \in [Slots -> Visit \cup {NoVisit}]
  BY <1>1, <1>2 DEF SessionTypes
<1>4. /\ unusual' \in [overlap : SUBSET Browsers, again : SUBSET Browsers, crossed : BOOLEAN]
      /\ unusual'.overlap = unusual.overlap \cup {b} /\ unusual'.again = unusual.again
      /\ unusual'.crossed = unusual.crossed
  BY <1>1, <1>2 DEF SessionTypes
<1>5. SessionTypes' /\ CountersFit'
  BY <1>1, <1>2, <1>3, <1>4, CountersLeft DEF SessionTypes
<1>6. TokensAreOwn'
  BY <1>1, <1>2, <1>3 DEF TokensAreOwn, TokenIsOf
<1>7. ASSUME NEW c \in Browsers, c \notin unusual'.overlap PROVE CookieFits(c)'
  <2>1. CookieFits(c) /\ TokenIsOf(c, cookie[c]) /\ Own(c)' = Own(c) /\ c # b
    BY <1>1, <1>2, <1>4, <1>7 DEF SessionsIInv, TokensAreOwn, Own
  <2>2. \A r \in Slots : visit'[r].by = c \/ visit[r].by = c => visit'[r] = visit[r]
    BY <1>2, <1>3, <2>1
  <2> QED
    BY <1>1, <1>4, <2>1, <2>2, CookieStays
<1> QED
  BY <1>5, <1>6, <1>7 DEF SessionsIInv

\* A refresh deletes the token it came with.
LEMMA DeleteTokenKeeps ==
  ASSUME SessionsIInv, NEW s \in Slots, DeleteOldToken(s)
  PROVE  SessionsIInv'
<1> DEFINE b == visit[s].by
           next == [visit[s] EXCEPT !.at = "session"]
<1>1. /\ visit[s].at = "rotate" /\ visit' = [visit EXCEPT ![s] = next]
      /\ tokens' = tokens \ {visit[s].token}
      /\ UNCHANGED <<passkey, count, cookie, issued, unusual>>
  BY DEF DeleteOldToken, Doing, Proceed, users, past
<1>2. /\ SessionTypes /\ CountersFit /\ TokensAreOwn /\ b \in Browsers /\ Nobody \notin Browsers
      /\ visit[s] \in Visit /\ visit[s] # NoVisit
  BY <1>1, VisitIs DEF SessionsIInv
<1>3. next \in Visit /\ next.by = b /\ next.token = visit[s].token /\ next.at = "session"
  BY <1>2 DEF Visit
<1> HIDE DEF next
<1>4. /\ visit'[s] = next /\ \A r \in Slots : r # s => visit'[r] = visit[r]
      /\ visit' \in [Slots -> Visit \cup {NoVisit}]
  BY <1>1, <1>2, <1>3 DEF SessionTypes
<1>5. SessionTypes' /\ CountersFit'
  BY <1>1, <1>2, <1>3, <1>4, CountersLeft DEF SessionTypes
<1>6. TokensAreOwn'
  BY <1>1, <1>2, <1>3, <1>4 DEF TokensAreOwn, TokenIsOf
<1>7. ASSUME NEW c \in Browsers, c \notin unusual'.overlap PROVE CookieFits(c)'
  <2>1. CookieFits(c) /\ TokenIsOf(c, cookie[c]) /\ TokenIsOf(b, visit[s].token)
    BY <1>1, <1>2, <1>7 DEF SessionsIInv, TokensAreOwn
  <2>2. CASE c # b
    <3>1. \A r \in Slots : visit'[r].by = c \/ visit[r].by = c => visit'[r] = visit[r]
      BY <1>3, <1>4, <2>2
    <3>2. Own(c)' = Own(c)
      <4>1. \A t \in tokens : issued[t] = c => t # visit[s].token
        <5>1. 0 \notin tokens
          BY <1>2 DEF SessionTypes
        <5> QED
          BY <2>1, <2>2, <5>1 DEF TokenIsOf
      <4> QED
        BY <1>1, <4>1 DEF Own
    <3> QED
      BY <1>1, <2>1, <3>1, <3>2, CookieStays
  <2>3. CASE c = b
    <3>1. visit[s].token = cookie[c] /\ \A r \in Visits(c) : r = s
      BY <1>1, <2>1, <2>3 DEF CookieFits, Visits
    <3>2. s \in Visits(c)' /\ \A r \in Visits(c)' : r = s
      BY <1>3, <1>4, <2>3, <3>1 DEF Visits
    <3>3. c \notin unusual.again => Own(c)' = {}
      BY <1>1, <2>1, <3>1 DEF CookieFits, Own
    <3> QED
      BY <1>1, <1>3, <1>4, <3>2, <3>3 DEF CookieFits
  <2> QED
    BY <2>2, <2>3
<1> QED
  BY <1>5, <1>6, <1>7 DEF SessionsIInv

\* A session is made.
LEMMA IssueKeeps ==
  ASSUME SessionsIInv, NEW s \in Slots, IssueSession(s)
  PROVE  SessionsIInv'
<1> DEFINE b == visit[s].by
           n == Len(issued) + 1
<1>1. /\ visit[s].at = "session" /\ visit' = [visit EXCEPT ![s] = NoVisit]
      /\ tokens' = tokens \cup {n} /\ issued' = Append(issued, b)
      /\ cookie' = [cookie EXCEPT ![b] = n]
      /\ UNCHANGED <<passkey, count, unusual>>
  BY DEF IssueSession, Doing, Leave, users
<1>2. /\ SessionTypes /\ CountersFit /\ TokensAreOwn /\ b \in Browsers /\ Nobody \notin Browsers
      /\ NoVisit.at = "none" /\ NoVisit.by = Nobody /\ visit[s] # NoVisit
  BY <1>1, VisitIs DEF SessionsIInv
<1>3. /\ issued' \in Seq(Browsers) /\ n \in Nat \ {0} /\ n \notin DOMAIN issued
      /\ DOMAIN issued' = DOMAIN issued \cup {n} /\ issued'[n] = b
      /\ \A t \in DOMAIN issued : issued'[t] = issued[t]
  BY <1>1, <1>2, Issued DEF SessionTypes
<1> HIDE DEF n
<1>4. /\ visit'[s] = NoVisit /\ \A r \in Slots : r # s => visit'[r] = visit[r]
      /\ visit' \in [Slots -> Visit \cup {NoVisit}]
      /\ cookie' \in [Browsers -> Nat] /\ cookie'[b] = n
      /\ \A c \in Browsers : c # b => cookie'[c] = cookie[c]
  BY <1>1, <1>2, <1>3 DEF SessionTypes
<1>5. SessionTypes' /\ CountersFit'
  <2>1. tokens' \subseteq DOMAIN issued'
    BY <1>1, <1>2, <1>3 DEF SessionTypes
  <2> QED
    BY <1>1, <1>2, <1>3, <1>4, <2>1, CountersLeft DEF SessionTypes
<1>6. \A c \in Browsers : \A t : TokenIsOf(c, t) => TokenIsOf(c, t)'
  BY <1>3 DEF TokenIsOf
<1>7. TokensAreOwn'
  <2>1. ASSUME NEW c \in Browsers
        PROVE  cookie'[c] # 0 => cookie'[c] \in DOMAIN issued' /\ issued'[cookie'[c]] = c
    <3>1. TokenIsOf(c, cookie[c])
      BY <1>2 DEF TokensAreOwn
    <3> QED
      BY <1>3, <1>4, <3>1 DEF TokenIsOf
  <2>2. ASSUME NEW r \in Slots, visit'[r] # NoVisit
        PROVE  visit'[r].token # 0 =>
                 visit'[r].token \in DOMAIN issued' /\ issued'[visit'[r].token] = visit'[r].by
    <3>1. visit'[r] = visit[r] /\ TokenIsOf(visit[r].by, visit[r].token)
      BY <1>2, <1>4, <2>2 DEF TokensAreOwn
    <3> QED
      BY <1>3, <3>1 DEF TokenIsOf
  <2> QED
    BY <2>1, <2>2 DEF TokensAreOwn, TokenIsOf
<1>8. ASSUME NEW c \in Browsers, c \notin unusual'.overlap PROVE CookieFits(c)'
  <2>1. CookieFits(c) /\ TokenIsOf(c, cookie[c])
    BY <1>1, <1>2, <1>8 DEF SessionsIInv, TokensAreOwn
  <2>2. Own(c)' = IF c = b THEN Own(c) \cup {n} ELSE Own(c)
    <3>1. \A t \in tokens : t # n /\ issued'[t] = issued[t]
      BY <1>2, <1>3 DEF SessionTypes
    <3>2. Own(c)' = {t \in tokens \cup {n} : issued'[t] = c}
      BY <1>1 DEF Own
    <3> QED
      BY <1>3, <3>1, <3>2 DEF Own
  <2>3. CASE c # b
    <3>1. \A r \in Slots : visit'[r].by = c \/ visit[r].by = c => visit'[r] = visit[r]
      BY <1>2, <1>4, <2>3
    <3> QED
      BY <1>1, <1>4, <2>1, <2>2, <2>3, <3>1, CookieStays
  <2>4. CASE c = b
    <3>1. Visits(c)' = {}
      <4>1. \A r \in Slots : visit[r].by = c => r = s
        BY <1>1, <2>1, <2>4 DEF CookieFits, Visits
      <4> QED
        BY <1>2, <1>4, <4>1 DEF Visits
    <3>2. s \in Visits(c)
      BY <2>4 DEF Visits
    <3>3. c \notin unusual.again => Own(c)' = {n}
      BY <1>1, <2>1, <2>2, <2>4, <3>2 DEF CookieFits
    <3>4. cookie'[c] \in tokens' /\ cookie'[c] = n
      BY <1>1, <1>4, <2>4
    <3> QED
      BY <1>1, <3>1, <3>3, <3>4 DEF CookieFits
  <2> QED
    BY <2>3, <2>4
<1> QED
  BY <1>5, <1>7, <1>8 DEF SessionsIInv

\* A browser signs out.
LEMMA LogoutKeeps ==
  ASSUME SessionsIInv, NEW b \in Browsers, Logout(b)
  PROVE  SessionsIInv'
<1>1. /\ cookie[b] # 0 /\ tokens' = tokens \ {cookie[b]} /\ cookie' = [cookie EXCEPT ![b] = 0]
      /\ unusual' = [unusual EXCEPT !.overlap = Overlap(b)]
      /\ UNCHANGED <<passkey, count, visit, issued>>
  BY DEF Logout, users
<1>2. SessionTypes /\ CountersFit /\ TokensAreOwn
  BY DEF SessionsIInv
<1>3. /\ unusual' \in [overlap : SUBSET Browsers, again : SUBSET Browsers, crossed : BOOLEAN]
      /\ unusual'.overlap = Overlap(b) /\ unusual'.again = unusual.again
      /\ unusual'.crossed = unusual.crossed
      /\ unusual.overlap \subseteq Overlap(b) /\ (b \notin Overlap(b) => Visits(b) = {})
  BY <1>1, <1>2 DEF SessionTypes, Overlap
<1>4. /\ cookie' \in [Browsers -> Nat] /\ cookie'[b] = 0
      /\ \A c \in Browsers : c # b => cookie'[c] = cookie[c]
  BY <1>1, <1>2 DEF SessionTypes
<1>5. SessionTypes'
  BY <1>1, <1>2, <1>3, <1>4 DEF SessionTypes
<1>6. CountersFit' /\ TokensAreOwn'
  <2>1. CountersFit'
    BY <1>1, <1>2, <1>3 DEF CountersFit, PasskeyWorks
  <2>2. \A c \in Browsers : cookie'[c] # 0 => cookie'[c] = cookie[c]
    BY <1>4
  <2> QED
    BY <1>1, <1>2, <2>1, <2>2 DEF TokensAreOwn, TokenIsOf
<1>7. ASSUME NEW c \in Browsers, c \notin unusual'.overlap PROVE CookieFits(c)'
  <2>1. CookieFits(c) /\ TokenIsOf(c, cookie[c]) /\ TokenIsOf(b, cookie[b])
    BY <1>2, <1>3, <1>7 DEF SessionsIInv, TokensAreOwn
  <2>2. CASE c # b
    <3>1. Own(c)' = Own(c)
      BY <1>1, <2>1, <2>2 DEF Own, TokenIsOf
    <3> QED
      BY <1>1, <1>3, <1>4, <2>1, <2>2, <3>1, CookieStays
  <2>3. CASE c = b
    <3>1. Visits(c)' = {}
      BY <1>1, <1>3, <1>7, <2>3 DEF Visits
    <3>2. c \notin unusual.again => Own(c)' = {}
      BY <1>1, <2>1, <2>3 DEF CookieFits, Own
    <3> QED
      BY <1>3, <1>4, <2>3, <3>1, <3>2 DEF CookieFits
  <2> QED
    BY <2>2, <2>3
<1> QED
  BY <1>5, <1>6, <1>7 DEF SessionsIInv

-----------------------------------------------------------------------------

\* Every step of a browser, of a handler and of time.
LEMMA SessionsStep ==
  ASSUME SessionsIInv, [SessionsNext]_sessionVars
  PROVE  SessionsIInv'
<1>1. ASSUME UNCHANGED <<passkey, count, tokens, cookie, visit, issued, unusual>> PROVE SessionsIInv'
  <2>1. SessionTypes'
    BY <1>1 DEF SessionsIInv, SessionTypes
  <2>2. TokensAreOwn' /\ CountersFit'
    BY <1>1 DEF SessionsIInv, TokensAreOwn, TokenIsOf, CountersFit, PasskeyWorks
  <2>3. \A b \in Browsers : b \notin unusual'.overlap => CookieFits(b)'
    <3> SUFFICES ASSUME NEW b \in Browsers, b \notin unusual'.overlap PROVE CookieFits(b)'
      OBVIOUS
    <3>1. Own(b)' = Own(b)
      BY <1>1 DEF Own
    <3> QED
      BY <1>1, <3>1, CookieStays DEF SessionsIInv, TokensAreOwn
  <2> QED
    BY <2>1, <2>2, <2>3 DEF SessionsIInv
<1>2. CASE SendLink \/ UNCHANGED sessionVars
  BY <1>1, <1>2 DEF SendLink, users, past, sessionVars
<1>3. ASSUME NEW key \in {"reg", "auth"},
             ChallengeExpires(key) \/ \E b \in Browsers : StartCeremony(b, key)
      PROVE  SessionsIInv'
  BY <1>1, <1>3 DEF ChallengeExpires, StartCeremony, users, past
<1>4. ASSUME NEW b \in Browsers, Logout(b) PROVE SessionsIInv'
  BY <1>4, LogoutKeeps
<1>5. ASSUME NEW s \in Slots, NEW b \in Browsers,
             Register(s, b) \/ Login(s, b) \/ FollowLink(s, b) \/ Refresh(s, b)
      PROVE  SessionsIInv'
  BY <1>5, ComesKeeps
<1>6. ASSUME NEW s \in Slots,
             \/ LookForUser(s) \/ CreateUser(s) \/ StorePasskey(s) \/ UpdateCounter(s)
             \/ UseLink(s) \/ DeleteOldToken(s) \/ IssueSession(s) \/ Dies(s)
      PROVE  SessionsIInv'
  BY <1>6, LookKeeps, StoreKeeps, CounterKeeps, DeleteTokenKeeps, IssueKeeps, DiesKeeps
<1> QED
  BY <1>2, <1>3, <1>4, <1>5, <1>6 DEF SessionsNext

\* The inductive invariant holds in every behaviour.
LEMMA SessionsInvariant == SessionsSpec => []SessionsIInv
BY SessionsStart, SessionsStep, PTL DEF SessionsSpec

\* Once it is over, no sequence of registrations, sign-ins, recoveries, refreshes and
\* logouts leaves a user unable to sign in or a session that nobody holds, for any
\* number of browsers and handlers at once (user-service/src/index.ts).
THEOREM SignInCanLast == SessionsSpec => []SignInLasts
<1>1. ASSUME SessionsIInv, NEW b \in Browsers, Visits(b) = {}, b \notin unusual.overlap
      PROVE  IF cookie[b] = 0
             THEN b \in unusual.again \/ \A t \in tokens : issued[t] # b
             ELSE cookie[b] \in tokens
  <2>1. CookieFits(b) /\ 0 \notin tokens
    BY <1>1 DEF SessionsIInv, SessionTypes
  <2> QED
    BY <1>1, <2>1 DEF CookieFits, Own
<1>2. SessionsIInv => SignInLasts
  BY <1>1 DEF SignInLasts, CookieIsSession, SessionsIInv, CountersFit
<1> QED
  BY <1>2, SessionsInvariant, PTL

-----------------------------------------------------------------------------
(* Sessions: the types, and how many tokens there are. *)

\* The handlers that are at work: every one of them came as a request, and makes one
\* token at most, when it leaves.
Busy == {s \in Slots : visit[s] # NoVisit}

VisitsBound ==
  /\ visited \in 0..MaxVisits
  /\ IsFiniteSet(Busy)
  /\ Len(issued) + Cardinality(Busy) <= visited

\* No counter, of a passkey, of an authenticator or of a sign-in, is out of bounds.
CountsBound ==
  /\ passkey.counter \in 0..MaxUses
  /\ count \in [Browsers -> -1..MaxUses]
  /\ \A s \in Slots : visit[s].counter \in 0..MaxUses

ChoicesTyped ==
  /\ account \in BOOLEAN /\ link \in BOOLEAN
  /\ challenge \in [{"reg", "auth"} -> Browsers \cup {Nobody}]

SessionsBound == VisitsBound /\ CountsBound /\ ChoicesTyped

\* A handler comes, goes on, or leaves with or without a new token.
LEMMA VisitsCount ==
  ASSUME SessionTypes, VisitsBound, NEW s \in Slots, NEW new, visit' = [visit EXCEPT ![s] = new],
         \/ visited < MaxVisits /\ visited' = visited + 1 /\ issued' = issued
         \/ visited' = visited /\ visit[s] # NoVisit /\ issued' = issued
         \/ /\ visited' = visited /\ visit[s] # NoVisit /\ new = NoVisit
            /\ Len(issued') = Len(issued) + 1
  PROVE  VisitsBound'
<1>1. Busy' = IF new # NoVisit THEN Busy \cup {s} ELSE Busy \ {s}
  BY DEF SessionTypes, Busy
<1>2. /\ IsFiniteSet(Busy) /\ IsFiniteSet(Busy \cup {s}) /\ IsFiniteSet(Busy \ {s})
      /\ Cardinality(Busy \cup {s}) =
           IF s \in Busy THEN Cardinality(Busy) ELSE Cardinality(Busy) + 1
      /\ Cardinality(Busy \ {s}) =
           IF s \in Busy THEN Cardinality(Busy) - 1 ELSE Cardinality(Busy)
  BY FS_AddElement, FS_RemoveElement DEF VisitsBound
<1>3. IsFiniteSet(Busy)' /\ Cardinality(Busy)' =
        IF new # NoVisit THEN Cardinality(Busy \cup {s}) ELSE Cardinality(Busy \ {s})
  BY <1>1, <1>2
<1>4. Cardinality(Busy) \in Nat /\ Cardinality(Busy)' \in Nat
  BY <1>2, <1>3, FS_CardinalityType
<1>5. /\ Cardinality(Busy)' <= Cardinality(Busy) + 1
      /\ visit[s] # NoVisit => Cardinality(Busy)' <= Cardinality(Busy)
      /\ visit[s] # NoVisit /\ new = NoVisit => Cardinality(Busy)' = Cardinality(Busy) - 1
  <2>1. visit[s] # NoVisit => s \in Busy
    BY DEF Busy
  <2> QED
    BY <1>2, <1>3, <1>4, <2>1
<1>6. /\ Len(issued) \in Nat /\ visited \in Nat /\ visited' \in 0..MaxVisits
      /\ Len(issued) + Cardinality(Busy) <= visited
  BY SessionsAssumption DEF SessionTypes, VisitsBound, SessionsAssumption
<1>7. Len(issued)' + Cardinality(Busy)' <= visited'
  <2>1. CASE visited' = visited + 1 /\ issued' = issued
    BY <1>4, <1>5, <1>6, <2>1
  <2>2. CASE visited' = visited /\ visit[s] # NoVisit /\ issued' = issued
    BY <1>4, <1>5, <1>6, <2>2
  <2>3. CASE visited' = visited /\ visit[s] # NoVisit /\ new = NoVisit /\ Len(issued') = Len(issued) + 1
    BY <1>4, <1>5, <1>6, <2>3
  <2> QED
    BY <2>1, <2>2, <2>3
<1> QED
  BY <1>3, <1>6, <1>7 DEF VisitsBound

\* A handler's row is written with a counter in its bounds.
LEMMA CountsStay ==
  ASSUME SessionTypes, CountsBound, NEW s \in Slots, NEW new, visit' = [visit EXCEPT ![s] = new],
         new.counter \in 0..MaxUses, passkey'.counter \in 0..MaxUses,
         count' \in [Browsers -> -1..MaxUses]
  PROVE  CountsBound'
BY DEF SessionTypes, CountsBound

\* A request comes.
LEMMA ComesBound ==
  ASSUME SessionsIInv, SessionsBound, NEW s \in Slots, NEW b \in Browsers,
         Register(s, b) \/ Login(s, b) \/ FollowLink(s, b) \/ Refresh(s, b)
  PROVE  SessionsBound'
<1>1. /\ SessionTypes /\ VisitsBound /\ CountsBound /\ ChoicesTyped
      /\ UNCHANGED <<account, passkey, challenge, link, issued>>
  BY DEF SessionsIInv, SessionsBound, Register, Login, FollowLink, Refresh, users
<1>2. ChoicesTyped' /\ passkey.counter \in 0..MaxUses /\ count \in [Browsers -> -1..MaxUses]
  BY <1>1 DEF ChoicesTyped, CountsBound
<1>3. ASSUME NEW stage, NEW key, Enter(s, b, stage, key),
             count' \in [Browsers -> -1..MaxUses],
             key = "auth" => count'[b] \in 0..MaxUses
      PROVE  SessionsBound'
  <2> DEFINE counter == IF key = "auth" THEN count'[b] ELSE 0
             new == [NoVisit EXCEPT !.by = b, !.at = stage, !.key = key, !.token = cookie[b],
                                    !.counter = counter]
  <2>1. visited < MaxVisits /\ visited' = visited + 1 /\ visit' = [visit EXCEPT ![s] = new]
    BY <1>3 DEF Enter
  <2>2. counter \in 0..MaxUses
    BY <1>3, SessionsAssumption DEF SessionsAssumption
  <2> HIDE DEF counter
  <2>3. new.counter \in 0..MaxUses
    BY <2>2 DEF NoVisit
  <2> HIDE DEF new
  <2>4. VisitsBound'
    BY <1>1, <2>1, VisitsCount
  <2>5. CountsBound'
    BY <1>1, <1>2, <1>3, <2>1, <2>3, CountsStay
  <2> QED
    BY <1>2, <2>4, <2>5 DEF SessionsBound
<1>4. CASE Register(s, b)
  <2>1. Enter(s, b, "look", "reg") /\ count' = [count EXCEPT ![b] = 0]
    BY <1>4 DEF Register
  <2>2. count' \in [Browsers -> -1..MaxUses]
    BY <1>2, <2>1, SessionsAssumption DEF SessionsAssumption
  <2> QED
    BY <1>3, <2>1, <2>2
<1>5. CASE Login(s, b)
  <2>1. /\ count' = [count EXCEPT ![b] = count[b] + 1] /\ count[b] < MaxUses
        /\ count[b] \in -1..MaxUses
    BY <1>2, <1>5 DEF Login
  <2>2. count[b] + 1 \in 0..MaxUses /\ count' \in [Browsers -> -1..MaxUses] /\ count'[b] = count[b] + 1
    BY <1>2, <2>1, SessionsAssumption DEF SessionsAssumption
  <2>3. CASE Enter(s, b, "count", "auth")
    BY <1>3, <2>2, <2>3
  <2>4. CASE UNCHANGED <<visit, visited>>
    <3>1. VisitsBound'
      BY <1>1, <2>4 DEF VisitsBound, Busy
    <3>2. CountsBound'
      BY <1>1, <2>2, <2>4 DEF CountsBound
    <3> QED
      BY <1>2, <3>1, <3>2 DEF SessionsBound
  <2> QED
    BY <1>5, <2>3, <2>4 DEF Login
<1>6. CASE FollowLink(s, b)
  BY <1>2, <1>3, <1>6 DEF FollowLink, users
<1>7. CASE Refresh(s, b)
  BY <1>2, <1>3, <1>7 DEF Refresh, users
<1> QED
  BY <1>4, <1>5, <1>6, <1>7

\* A handler goes on, or leaves without a token.
LEMMA GoesBound ==
  ASSUME SessionsIInv, SessionsBound, NEW s \in Slots,
         \/ LookForUser(s) \/ CreateUser(s) \/ StorePasskey(s) \/ UpdateCounter(s)
         \/ UseLink(s) \/ DeleteOldToken(s) \/ Dies(s)
  PROVE  SessionsBound'
<1>1. /\ SessionTypes /\ VisitsBound /\ CountsBound /\ ChoicesTyped
      /\ passkey.counter \in 0..MaxUses /\ count \in [Browsers -> -1..MaxUses]
      /\ visit[s].counter \in 0..MaxUses
  BY DEF SessionsIInv, SessionsBound, CountsBound
<1>2. /\ visit[s] # NoVisit /\ UNCHANGED <<count, issued, visited>>
      /\ NoVisit.counter \in 0..MaxUses
  BY SessionsAssumption
     DEF LookForUser, CreateUser, StorePasskey, UpdateCounter, UseLink, DeleteOldToken, Dies,
         Doing, NoVisit, users, past, SessionsAssumption
<1>3. visit[s] \in Visit
  BY <1>1, <1>2 DEF SessionTypes
<1>4. \E new : visit' = [visit EXCEPT ![s] = new] /\ new.counter \in 0..MaxUses
  <2>1. CASE visit' = [visit EXCEPT ![s] = NoVisit]
    BY <1>2, <2>1
  <2>2. ASSUME NEW stage, visit' = [visit EXCEPT ![s].at = stage]
        PROVE  \E new : visit' = [visit EXCEPT ![s] = new] /\ new.counter \in 0..MaxUses
    <3> DEFINE next == [visit[s] EXCEPT !.at = stage]
    <3>1. visit' = [visit EXCEPT ![s] = next] /\ next.counter = visit[s].counter
      BY <1>1, <1>3, <2>2 DEF SessionTypes, Visit
    <3> HIDE DEF next
    <3> QED
      BY <1>1, <3>1
  <2>3. ASSUME NEW stage, NEW replaces,
               visit' = [visit EXCEPT ![s].at = stage, ![s].replaces = replaces]
        PROVE  \E new : visit' = [visit EXCEPT ![s] = new] /\ new.counter \in 0..MaxUses
    <3> DEFINE next == [visit[s] EXCEPT !.at = stage, !.replaces = replaces]
    <3>1. visit' = [visit EXCEPT ![s] = next] /\ next.counter = visit[s].counter
      BY <1>1, <1>3, <2>3 DEF SessionTypes, Visit
    <3> HIDE DEF next
    <3> QED
      BY <1>1, <3>1
  <2>4. CASE LookForUser(s) /\ ~Leave(s)
    BY <2>3, <2>4 DEF LookForUser
  <2>5. CASE Leave(s) \/ \E stage : Proceed(s, stage)
    BY <2>1, <2>2, <2>5 DEF Leave, Proceed
  <2>6. CASE CreateUser(s) \/ StorePasskey(s)
    BY <2>5, <2>6 DEF CreateUser, StorePasskey
  <2> QED
    BY <2>4, <2>5, <2>6 DEF UpdateCounter, UseLink, DeleteOldToken, Dies
<1>5. passkey'.counter \in 0..MaxUses
  <2>1. passkey' = passkey \/ passkey' = NewPasskey(visit[s].by)
        \/ passkey' = [passkey EXCEPT !.counter = visit[s].counter]
    BY DEF LookForUser, CreateUser, StorePasskey, UpdateCounter, UseLink, DeleteOldToken, Dies, users
  <2>2. NewPasskey(visit[s].by).counter \in 0..MaxUses
    BY SessionsAssumption DEF NewPasskey, SessionsAssumption
  <2>3. [passkey EXCEPT !.counter = visit[s].counter].counter = visit[s].counter
    BY <1>1 DEF SessionTypes, NoPasskey
  <2> QED
    BY <1>1, <2>1, <2>2, <2>3
<1>6. ChoicesTyped'
  BY <1>1 DEF LookForUser, CreateUser, StorePasskey, UpdateCounter, UseLink, DeleteOldToken, Dies,
              users, ChoicesTyped
<1>7. VisitsBound'
  BY <1>1, <1>2, <1>4, VisitsCount
<1>8. CountsBound'
  BY <1>1, <1>2, <1>4, <1>5, CountsStay
<1> QED
  BY <1>6, <1>7, <1>8 DEF SessionsBound

\* A session is made.
LEMMA IssueBound ==
  ASSUME SessionsIInv, SessionsBound, NEW s \in Slots, IssueSession(s)
  PROVE  SessionsBound'
<1>1. /\ SessionTypes /\ VisitsBound /\ CountsBound /\ ChoicesTyped
      /\ passkey.counter \in 0..MaxUses /\ count \in [Browsers -> -1..MaxUses]
  BY DEF SessionsIInv, SessionsBound, CountsBound
<1>2. /\ visit[s].at = "session" /\ visit' = [visit EXCEPT ![s] = NoVisit]
      /\ issued' = Append(issued, visit[s].by)
      /\ UNCHANGED <<account, passkey, count, link, visited>>
  BY DEF IssueSession, Doing, Leave, users
<1>3. visit[s] # NoVisit /\ visit[s].by \in Browsers /\ NoVisit.counter \in 0..MaxUses
  BY <1>1, <1>2, VisitIs, SessionsAssumption DEF NoVisit, SessionsAssumption
<1>4. Len(issued') = Len(issued) + 1
  BY <1>1, <1>2, <1>3 DEF SessionTypes
<1>5. VisitsBound'
  BY <1>1, <1>2, <1>3, <1>4, VisitsCount
<1>6. CountsBound'
  BY <1>1, <1>2, <1>3, CountsStay
<1>7. ChoicesTyped'
  <2>1. challenge' = challenge \/ \E key : challenge' = [challenge EXCEPT ![key] = Nobody]
    BY DEF IssueSession
  <2> QED
    BY <1>1, <1>2, <2>1 DEF ChoicesTyped
<1> QED
  BY <1>5, <1>6, <1>7 DEF SessionsBound

\* Every step.
LEMMA BoundStep ==
  ASSUME SessionsIInv, SessionsBound, [SessionsNext]_sessionVars
  PROVE  SessionsBound'
<1>1. ASSUME UNCHANGED <<passkey, count, visit, issued, visited>>, ChoicesTyped' PROVE SessionsBound'
  BY <1>1 DEF SessionsBound, VisitsBound, CountsBound, Busy
<1>2. CASE SendLink \/ UNCHANGED sessionVars
  <2>1. UNCHANGED <<passkey, count, visit, issued, visited>> /\ ChoicesTyped'
    BY <1>2 DEF SendLink, users, past, sessionVars, SessionsBound, ChoicesTyped
  <2> QED
    BY <1>1, <2>1
<1>3. ASSUME NEW key \in {"reg", "auth"},
             ChallengeExpires(key) \/ \E b \in Browsers : StartCeremony(b, key)
      PROVE  SessionsBound'
  <2>1. UNCHANGED <<passkey, count, visit, issued, visited>> /\ ChoicesTyped'
    BY <1>3 DEF ChallengeExpires, StartCeremony, users, past, SessionsBound, ChoicesTyped
  <2> QED
    BY <1>1, <2>1
<1>4. ASSUME NEW b \in Browsers, Logout(b) PROVE SessionsBound'
  <2>1. UNCHANGED <<passkey, count, visit, issued, visited>> /\ ChoicesTyped'
    BY <1>4 DEF Logout, users, SessionsBound, ChoicesTyped
  <2> QED
    BY <1>1, <2>1
<1> QED
  BY <1>2, <1>3, <1>4, ComesBound, GoesBound, IssueBound DEF SessionsNext

\* The types of the state of the sessions follow.
LEMMA SessionsTyped ==
  ASSUME SessionsIInv, SessionsBound
  PROVE  SessionsTypeOK
<1> DEFINE Someone == Browsers \cup {Nobody}
           Token   == 0..MaxVisits
<1>1. SessionTypes /\ TokensAreOwn /\ CountsBound /\ ChoicesTyped /\ VisitsBound
  BY DEF SessionsIInv, SessionsBound
<1>2. issued \in Seq(Browsers) /\ Len(issued) <= MaxVisits /\ visited \in 0..MaxVisits
  <2>1. /\ Len(issued) \in Nat /\ Len(issued) + Cardinality(Busy) <= visited
        /\ visited \in 0..MaxVisits
    BY <1>1 DEF SessionTypes, VisitsBound
  <2>2. Cardinality(Busy) \in Nat
    BY <1>1, FS_CardinalityType DEF VisitsBound
  <2> QED
    BY <1>1, <2>1, <2>2, SessionsAssumption DEF SessionTypes, SessionsAssumption
<1>3. ASSUME NEW b, NEW t \in Nat, TokenIsOf(b, t) PROVE t \in Token
  BY <1>2, <1>3, SessionsAssumption DEF TokenIsOf, SessionsAssumption
<1>4. cookie \in [Browsers -> Token]
  BY <1>1, <1>3 DEF SessionTypes, TokensAreOwn
<1>5. ASSUME NEW s \in Slots
      PROVE  visit[s] \in [by : Someone, key : {"reg", "auth", "none"}, token : Token,
               at : {"none", "look", "user", "store", "count", "rotate", "link", "session"},
               counter : 0..MaxUses, replaces : BOOLEAN]
  <2>1. CASE visit[s] = NoVisit
    BY <2>1, SessionsAssumption DEF NoVisit, SessionsAssumption
  <2>2. CASE visit[s] \in Visit
    <3>1. visit[s].token \in Token
      BY <1>1, <1>3, <2>2, VisitIs DEF TokensAreOwn, Visit
    <3>2. visit[s].counter \in 0..MaxUses
      BY <1>1 DEF CountsBound
    <3> HIDE DEF Token
    <3> QED
      BY <2>2, <3>1, <3>2 DEF Visit
  <2> QED
    BY <1>1, <2>1, <2>2 DEF SessionTypes
<1>6. passkey \in [of : Someone, counter : 0..MaxUses]
  <2>1. passkey.counter \in 0..MaxUses
    BY <1>1 DEF CountsBound
  <2> QED
    BY <1>1, <2>1 DEF SessionTypes, NoPasskey
<1>7. visit \in [Slots -> [by : Someone, key : {"reg", "auth", "none"}, token : Token,
               at : {"none", "look", "user", "store", "count", "rotate", "link", "session"},
               counter : 0..MaxUses, replaces : BOOLEAN]]
  BY <1>1, <1>5 DEF SessionTypes
<1> QED
  BY <1>1, <1>2, <1>4, <1>6, <1>7 DEF SessionsTypeOK, SessionTypes, ChoicesTyped, CountsBound

\* No handler and no token at the beginning.
LEMMA SessionsBoundStarts == SessionsInit => SessionsBound
<1> SUFFICES ASSUME SessionsInit PROVE SessionsBound
  OBVIOUS
<1>1. \A s \in Slots : visit[s] = NoVisit
  BY DEF SessionsInit
<1>2. Busy = {}
  BY <1>1 DEF Busy
<1>3. IsFiniteSet(Busy) /\ Cardinality(Busy) = 0
  BY <1>2, FS_EmptySet
<1>4. VisitsBound
  BY <1>3, SessionsAssumption DEF SessionsInit, VisitsBound, SessionsAssumption
<1>5. CountsBound
  BY <1>1, SessionsAssumption DEF SessionsInit, CountsBound, SessionsAssumption, NoPasskey, NoVisit
<1>6. ChoicesTyped
  BY DEF SessionsInit, ChoicesTyped
<1> QED
  BY <1>4, <1>5, <1>6 DEF SessionsBound

\* Passkeys, counters, cookies and handlers keep their types, for any number of
\* browsers and handlers: no token is made that no request asked for, and every
\* token a browser holds was made.
THEOREM SessionsTypeCorrect == SessionsSpec => []SessionsTypeOK
<1>1. SessionsInit => SessionsIInv /\ SessionsBound
  BY SessionsStart, SessionsBoundStarts
<1>2. SessionsIInv /\ SessionsBound /\ [SessionsNext]_sessionVars => SessionsIInv' /\ SessionsBound'
  BY SessionsStep, BoundStep
<1>3. SessionsIInv /\ SessionsBound => SessionsTypeOK
  BY SessionsTyped
<1> QED
  BY <1>1, <1>2, <1>3, PTL DEF SessionsSpec

=============================================================================
