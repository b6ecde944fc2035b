--------------------------- MODULE Managing_proofs ---------------------------
(***************************************************************************)
(* What holds of every roster, however many people, invitations and          *)
(* requests there are, of the management pages over any records, and of      *)
(* guide families of any guides: proofs about Roster, ManagementPage and     *)
(* Families, in this order.                                                  *)
(***************************************************************************)
EXTENDS Roster, ManagementPage, Families, FiniteSetTheorems, WellFoundedInduction, TLAPS

-----------------------------------------------------------------------------
(* Types *)

\* What the kinds of request are, put together.
Request == {Idle} \cup RosterRequest \cup InviteRequest \cup RevokeRequest \cup AcceptRequest

\* Where a request stands and what kind it is say which fields it has.
LEMMA Shapes ==
    ASSUME NEW q \in Request
    PROVE  /\ q.at = "idle" => q = Idle
           /\ q.at # "idle" /\ q.kind = "roster" => q \in RosterRequest
           /\ q.at # "idle" /\ q.kind = "invite" => q \in InviteRequest
           /\ q.at # "idle" /\ q.kind = "revoke" => q \in RevokeRequest
           /\ q.at # "idle" /\ q.kind = "accept" => q \in AcceptRequest
           /\ q.at \in {"scope", "owner"} => q.kind \in {"roster", "invite", "revoke"}
           /\ q.at \in {"roster", "write"} => q.kind = "roster"
           /\ q.at \in {"already", "insert"} => q.kind = "invite"
           /\ q.at = "revoke" => q.kind = "revoke"
           /\ q.at \in {"signup", "redeem", "join", "verify"} => q.kind = "accept"
           /\ q.at = "commit" => q.kind \in {"roster", "accept"}
BY DEF Request, Idle, RosterRequest, InviteRequest, RevokeRequest, AcceptRequest

-----------------------------------------------------------------------------
(* Every step keeps the types *)

\* A request that begins has the fields of its kind.
LEMMA BeginTyped ==
    ASSUME TypeOK, NEW r \in Requests, Begin(r)
    PROVE  TypeOK'
<1>1. CASE AskRoster(r)
  BY <1>1 DEF AskRoster, Start, TypeOK, RosterRequest
<1>2. CASE AskInvite(r)
  BY <1>2 DEF AskInvite, Start, TypeOK, InviteRequest
<1>3. CASE AskRevoke(r)
  BY <1>3 DEF AskRevoke, Start, TypeOK, RevokeRequest
<1>4. CASE OpenLink(r)
  <2> PICK i \in Invitations : OpenLink(r)!(i)
    BY <1>4 DEF OpenLink
  <2>1. invitation[i] \in InvitationRow
    BY DEF TypeOK, Unsent
  <2> QED
    BY <2>1 DEF TypeOK, InvitationRow, AcceptRequest
<1> QED
  BY <1>1, <1>2, <1>3, <1>4 DEF Begin

\* A request that goes on to a place its kind can be keeps its fields, and so
\* does one that ends.
LEMMA GoesTyped ==
    ASSUME TypeOK, NEW r \in Requests, NEW place, Goes(r, place),
           \/ At(r, "owner") /\ place = FirstStatement(request[r].kind)
           \/ At(r, "roster") /\ place = "write"
           \/ At(r, "write") /\ place = "commit"
           \/ At(r, "already") /\ place = "insert"
           \/ At(r, "redeem") /\ place = "join"
           \/ At(r, "join") /\ place = "commit"
           \/ At(r, "commit") /\ IsAccept(r) /\ place = "verify"
    PROVE  request' \in [Requests -> Request]
<1> DEFINE q == request[r]
<1>1. q \in Request /\ request \in [Requests -> Request]
  BY DEF TypeOK, Request
<1>2. [q EXCEPT !.at = place] \in Request
  BY <1>1, Shapes DEF At, IsAccept, FirstStatement, Request, RosterRequest, InviteRequest,
                      RevokeRequest, AcceptRequest
<1> QED
  BY <1>1, <1>2 DEF Goes

\* Ending leaves no fields behind.
LEMMA EndsTyped ==
    ASSUME TypeOK, NEW r \in Requests, Ends(r)
    PROVE  request' \in [Requests -> Request]
BY DEF TypeOK, Request, Ends

\* The membership a transaction has written is one.
LEMMA WrittenTyped ==
    ASSUME TypeOK, NEW r \in Requests, At(r, "commit")
    PROVE  /\ request[r].target \in People
           /\ request[r].role \in Role \cup {"none"}
           /\ IsAccept(r) => request[r].link \in Invitations /\ request[r].role \in Role
           /\ Written(r) \in [People -> Role \cup {"none"}]
<1>1. request[r] \in RosterRequest \/ request[r] \in AcceptRequest
  BY Shapes DEF TypeOK, Request, At
<1> QED
  BY <1>1 DEF RosterRequest, AcceptRequest, Written, TypeOK, IsAccept

\* A link being accepted is an invitation's, to the person and with the role the
\* request has noted.
LinksMatch ==
    \A r \in Requests : IsAccept(r) =>
        /\ invitation[request[r].link] # Unsent
        /\ invitation[request[r].link].to = request[r].target
        /\ invitation[request[r].link].role = request[r].role

\* Every statement keeps the types.
LEMMA StepTyped ==
    ASSUME TypeOK, LinksMatch, NEW r \in Requests, Step(r)
    PROVE  TypeOK'
<1> SUFFICES /\ member' \in [People -> Role \cup {"none"}]
             /\ account' \in [People -> Account]
             /\ invitation' \in [Invitations -> InvitationRow \cup {Unsent}]
             /\ request' \in [Requests -> Request]
  BY DEF TypeOK, Request
<1>0. /\ request[r] \in Request
      /\ request \in [Requests -> Request]
  BY DEF TypeOK, Request
<1>1. CASE LockScope(r)
  <2> DEFINE seen == member[request[r].who] # "none"
  <2>1. request[r] \in RosterRequest \cup InviteRequest \cup RevokeRequest
    BY <1>0, <1>1, Shapes DEF LockScope, At
  <2>2. \A b \in BOOLEAN : [request[r] EXCEPT !.at = "owner", !.shared = b] \in Request
    BY <2>1 DEF Request, RosterRequest, InviteRequest, RevokeRequest
  <2>3. [request[r] EXCEPT !.at = "owner", !.shared = seen] \in Request
    <3>1. seen \in BOOLEAN
      OBVIOUS
    <3> HIDE DEF seen
    <3> QED
      BY <2>2, <3>1
  <2> QED
    BY <1>0, <1>1, <2>3 DEF LockScope, TypeOK
<1>2. CASE CheckOwner(r)
  BY <1>2, GoesTyped, EndsTyped DEF CheckOwner, TypeOK
<1>3. CASE LockRoster(r)
  BY <1>3, GoesTyped DEF LockRoster, TypeOK
<1>4. CASE WriteMember(r)
  BY <1>4, GoesTyped, EndsTyped DEF WriteMember, TypeOK
<1>5. CASE CheckAlready(r)
  BY <1>5, GoesTyped, EndsTyped DEF CheckAlready, TypeOK
<1>6. CASE InsertInvitation(r)
  <2>1. request[r] \in InviteRequest
    BY <1>0, <1>6, Shapes DEF InsertInvitation, At
  <2>2. invitation' \in [Invitations -> InvitationRow \cup {Unsent}]
    BY <1>6, <2>1 DEF InsertInvitation, TypeOK, InviteRequest, InvitationRow, Addressed, Unsent
  <2> QED
    BY <1>6, <2>2, EndsTyped DEF InsertInvitation, TypeOK
<1>7. CASE DeleteInvitation(r)
  <2>1. request[r] \in RevokeRequest
    BY <1>0, <1>7, Shapes DEF DeleteInvitation, At
  <2>2. invitation' \in [Invitations -> InvitationRow \cup {Unsent}]
    BY <1>7, <2>1 DEF DeleteInvitation, TypeOK, RevokeRequest, InvitationRow, Unsent
  <2> QED
    BY <1>7, <2>2, EndsTyped DEF DeleteInvitation, TypeOK
<1>8. CASE SignUp(r)
  <2>1. request[r] \in AcceptRequest
    BY <1>0, <1>8, Shapes DEF SignUp, At
  <2>2. \A u \in {"created", "phantom"} :
            [request[r] EXCEPT !.at = "redeem", !.user = u] \in Request
    BY <2>1 DEF AcceptRequest, Request
  <2>3. request' \in [Requests -> Request]
    BY <1>0, <1>8, <2>2 DEF SignUp
  <2>4. account' \in [People -> Account]
    BY <1>8 DEF SignUp, TypeOK, Account
  <2> QED
    BY <1>8, <2>3, <2>4 DEF SignUp, TypeOK
<1>9. CASE LockInvitation(r)
  BY <1>9, GoesTyped, EndsTyped DEF LockInvitation, TypeOK
<1>10. CASE Join(r)
  BY <1>10, GoesTyped, EndsTyped DEF Join, TypeOK
<1>11. CASE Commit(r)
  <2>1. member' \in [People -> Role \cup {"none"}]
    BY <1>11, WrittenTyped DEF Commit
  <2>2. request' \in [Requests -> Request]
    BY <1>11, GoesTyped, EndsTyped DEF Commit
  <2>3. CASE ~ IsAccept(r)
    BY <1>11, <2>1, <2>2, <2>3 DEF Commit, TypeOK
  <2>4. CASE IsAccept(r)
    <3> DEFINE i == request[r].link
    <3>1. invitation' = [invitation EXCEPT ![i].state = "accepted"]
      BY <1>11, <2>4 DEF Commit
    <3>2. [invitation[i] EXCEPT !.state = "accepted"] \in InvitationRow \cup {Unsent}
      BY <1>11, <2>4, WrittenTyped DEF LinksMatch, Commit, TypeOK, InvitationRow
    <3> QED
      BY <1>11, <2>1, <2>2, <3>1, <3>2 DEF Commit, TypeOK
  <2> QED
    BY <2>3, <2>4
<1>12. CASE MarkVerified(r)
  BY <1>12, EndsTyped DEF MarkVerified, TypeOK, Account
<1>13. CASE AbortDeadlocked(r)
  BY <1>13, EndsTyped DEF AbortDeadlocked, TypeOK
<1> QED
  BY <1>1, <1>2, <1>3, <1>4, <1>5, <1>6, <1>7, <1>8, <1>9, <1>10, <1>11, <1>12, <1>13 DEF Step

\* A step is of one request, or of the clock.
LEMMA WhoseStep ==
    ASSUME [Next]_vars
    PROVE  \/ \E r \in Requests : Begin(r) \/ Step(r) \/ Crash(r)
           \/ \E i \in Invitations : Expire(i)
           \/ UNCHANGED vars
BY DEF Next

\* It leaves the other requests alone.
LEMMA OthersStay ==
    ASSUME TypeOK, NEW r \in Requests, Begin(r) \/ Step(r) \/ Crash(r),
           NEW q \in Requests \ {r}
    PROVE  request'[q] = request[q]
<1>1. CASE Begin(r)
  BY <1>1 DEF Begin, AskRoster, AskInvite, AskRevoke, OpenLink, Start, TypeOK
<1>2. CASE Step(r)
  BY <1>2 DEF Step, LockScope, CheckOwner, LockRoster, WriteMember, CheckAlready,
              InsertInvitation, DeleteInvitation, SignUp, LockInvitation, Join, Commit,
              MarkVerified, AbortDeadlocked, Goes, Ends, TypeOK
<1>3. CASE Crash(r)
  BY <1>3 DEF Crash, Ends, TypeOK
<1> QED
  BY <1>1, <1>2, <1>3

\* A statement that does not end its request keeps what the request has noted;
\* lock_scope alone notes whether there was a row to lock.
LEMMA RequestGoesOn ==
    ASSUME TypeOK, NEW r \in Requests, Step(r), ~ At(r, "idle")'
    PROVE  /\ ~ At(r, "idle")
           /\ request'[r].kind = request[r].kind
           /\ IsAccept(r) => request'[r].link = request[r].link
           /\ IsAccept(r) \/ request[r].kind = "roster"
                => /\ request'[r].target = request[r].target
                   /\ request'[r].role = request[r].role
           /\ ~ IsAccept(r) => /\ request'[r].who = request[r].who
                               /\ LockScope(r) \/ request'[r].shared = request[r].shared
<1>0. request[r] \in Request /\ Idle.at = "idle"
  BY DEF TypeOK, Request, Idle
<1>1. ~ Ends(r)
  BY <1>0 DEF Ends, At, TypeOK
<1>2. PICK place : Goes(r, place) \/ LockScope(r) \/ SignUp(r)
  BY <1>1 DEF Step, CheckOwner, LockRoster, WriteMember, CheckAlready, InsertInvitation,
              DeleteInvitation, LockInvitation, Join, Commit, MarkVerified, AbortDeadlocked
<1>3. ~ At(r, "idle")
  BY DEF Step, LockScope, CheckOwner, LockRoster, WriteMember, CheckAlready,
         InsertInvitation, DeleteInvitation, SignUp, LockInvitation, Join, Commit,
         MarkVerified, AbortDeadlocked, Deadlocked, Stuck, WaitsFor, At, WritesRow, HoldsRoster,
         HoldsInvitation
<1>4. request[r] \in RosterRequest \cup InviteRequest \cup RevokeRequest \cup AcceptRequest
  BY <1>0, <1>3 DEF Request, At, Idle
<1>5. SignUp(r) => IsAccept(r)
  BY <1>0, Shapes DEF SignUp, IsAccept, At
<1> QED
  BY <1>2, <1>3, <1>4, <1>5 DEF Goes, LockScope, SignUp, TypeOK, At, IsAccept, RosterRequest,
     InviteRequest, RevokeRequest, AcceptRequest

\* No step takes back an invitation that was sent, or changes whom it is to and
\* what it offers.
LEMMA InvitationsKeep ==
    ASSUME TypeOK, LinksMatch, [Next]_vars, NEW i \in Invitations, invitation[i] # Unsent
    PROVE  /\ invitation'[i] # Unsent
           /\ invitation'[i].to = invitation[i].to
           /\ invitation'[i].role = invitation[i].role
<1>0. invitation[i] \in InvitationRow /\ invitation \in [Invitations -> InvitationRow \cup {Unsent}]
  BY DEF TypeOK
<1>1. \A state : LET row == [invitation[i] EXCEPT !.state = state]
                 IN  row # Unsent /\ row.to = invitation[i].to /\ row.role = invitation[i].role
  BY <1>0 DEF InvitationRow, Unsent
<1>2. ASSUME NEW r \in Requests, Begin(r) \/ Crash(r) PROVE invitation' = invitation
  BY <1>2 DEF Begin, AskRoster, AskInvite, AskRevoke, OpenLink, Start, Crash
<1>3. ASSUME NEW r \in Requests, InsertInvitation(r)
      PROVE  \/ invitation'[i] = invitation[i]
             \/ invitation'[i] = [invitation[i] EXCEPT !.state = "deleted"]
  BY <1>0, <1>3 DEF InsertInvitation, Fresh
<1>4. ASSUME NEW r \in Requests, DeleteInvitation(r)
      PROVE  \/ invitation'[i] = invitation[i]
             \/ invitation'[i] = [invitation[i] EXCEPT !.state = "deleted"]
  BY <1>0, <1>4 DEF DeleteInvitation
<1>5. ASSUME NEW r \in Requests, Commit(r)
      PROVE  \/ invitation'[i] = invitation[i]
             \/ invitation'[i] = [invitation[i] EXCEPT !.state = "accepted"]
  BY <1>0, <1>5 DEF Commit
<1>6. ASSUME NEW j \in Invitations, Expire(j)
      PROVE  \/ invitation'[i] = invitation[i]
             \/ invitation'[i] = [invitation[i] EXCEPT !.state = "expired"]
  BY <1>0, <1>6 DEF Expire
<1>7. ASSUME NEW r \in Requests, Step(r)
      PROVE  invitation' = invitation \/ InsertInvitation(r) \/ DeleteInvitation(r) \/ Commit(r)
  BY <1>7 DEF Step, LockScope, CheckOwner, LockRoster, WriteMember, CheckAlready, SignUp,
              LockInvitation, Join, MarkVerified, AbortDeadlocked
<1> QED
  BY <1>1, <1>2, <1>3, <1>4, <1>5, <1>6, <1>7, WhoseStep DEF vars

\* What a request has noted of its link does not change, nor do the address and
\* the role of an invitation.
LEMMA LinksKeepMatching ==
    ASSUME TypeOK, LinksMatch, [Next]_vars
    PROVE  LinksMatch'
<1> SUFFICES ASSUME NEW q \in Requests, IsAccept(q)'
             PROVE  /\ invitation'[request'[q].link] # Unsent
                    /\ invitation'[request'[q].link].to = request'[q].target
                    /\ invitation'[request'[q].link].role = request'[q].role
  BY DEF LinksMatch
<1> DEFINE Same == /\ IsAccept(q)
                   /\ request'[q].target = request[q].target
                   /\ request'[q].role = request[q].role
                   /\ request'[q].link = request[q].link
<1>1. CASE Same
  <2>1. request[q].link \in Invitations
    BY <1>1, Shapes DEF TypeOK, Request, IsAccept, At, AcceptRequest
  <2> QED
    BY <1>1, <2>1, InvitationsKeep DEF LinksMatch
<1>2. CASE Begin(q)
  <2>1. OpenLink(q)
    BY <1>2 DEF Begin, AskRoster, AskInvite, AskRevoke, Start, IsAccept, TypeOK
  <2> PICK i \in Invitations : OpenLink(q)!(i)
    BY <2>1 DEF OpenLink
  <2> QED
    BY DEF TypeOK, Unsent, InvitationRow
<1>3. CASE Step(q)
  BY <1>1, <1>3, RequestGoesOn DEF IsAccept, At
<1>4. CASE Crash(q)
  BY <1>4 DEF Crash, Ends, IsAccept, At, Idle, TypeOK
<1>5. ASSUME NEW r \in Requests \ {q}, Begin(r) \/ Step(r) \/ Crash(r)
      PROVE  Same
  BY <1>5, OthersStay DEF IsAccept, At
<1>6. CASE (\E i \in Invitations : Expire(i)) \/ UNCHANGED vars
  <2>1. request' = request
    BY <1>6 DEF Expire, vars
  <2> QED
    BY <1>1, <2>1 DEF IsAccept, At
<1> QED
  BY <1>1, <1>2, <1>3, <1>4, <1>5, <1>6, WhoseStep

-----------------------------------------------------------------------------
(* Type correctness *)

Typed == TypeOK /\ LinksMatch

\* At the start everything is typed and nobody is accepting a link.
LEMMA InitTyped == Init => Typed
BY DEF Init, Typed, TypeOK, LinksMatch, IsAccept, At, Idle, Role, Account

\* Every step keeps it so.
LEMMA NextTyped == Typed /\ [Next]_vars => Typed'
<1> SUFFICES ASSUME Typed, [Next]_vars PROVE TypeOK'
  BY LinksKeepMatching DEF Typed
<1>1. ASSUME NEW r \in Requests, Crash(r) PROVE TypeOK'
  BY <1>1 DEF Crash, Ends, TypeOK, Typed
<1>2. ASSUME NEW i \in Invitations, Expire(i) PROVE TypeOK'
  BY <1>2 DEF Expire, TypeOK, Typed, InvitationRow, Unsent
<1>3. CASE UNCHANGED vars
  BY <1>3 DEF vars, TypeOK, Typed
<1> QED
  BY <1>1, <1>2, <1>3, BeginTyped, StepTyped, WhoseStep DEF Typed

\* Every row and every request keeps its fields, and a request is only where its
\* kind can be.
THEOREM RosterTyped == Spec => []TypeOK
<1>1. Spec => []Typed
  BY InitTyped, NextTyped, PTL DEF Spec
<1> QED
  BY <1>1, PTL DEF Typed

-----------------------------------------------------------------------------
(* Locks exclude each other *)

Exclusive ==
    /\ \A q, r \in Requests : HoldsRoster(q) /\ HoldsRoster(r) => q = r
    /\ \A q, r \in Requests, p \in People : WritesRow(q, p) /\ WritesRow(r, p) => q = r
    /\ \A q, r \in Requests, p \in People : WritesRow(q, p) /\ Shares(r, p) => q = r
    /\ \A q, r \in Requests, i \in Invitations :
            HoldsInvitation(q, i) /\ HoldsInvitation(r, i) => q = r

\* No request begins with a lock.
LEMMA BeginHoldsNothing ==
    ASSUME TypeOK, NEW r \in Requests, Begin(r) \/ Crash(r)
    PROVE  /\ ~ HoldsRoster(r)'
           /\ \A p \in People : ~ WritesRow(r, p)' /\ ~ Shares(r, p)'
           /\ \A i \in Invitations : ~ HoldsInvitation(r, i)'
BY DEF Begin, AskRoster, AskInvite, AskRevoke, OpenLink, Start, Crash, Ends, Idle, TypeOK,
       HoldsRoster, WritesRow, Shares, HoldsInvitation, At, IsAccept

\* A statement gets a lock only where no other request has one that excludes it.
LEMMA LocksAreGranted ==
    ASSUME TypeOK, NEW r \in Requests, Step(r)
    PROVE  /\ HoldsRoster(r)' =>
                HoldsRoster(r) \/ \A q \in Requests \ {r} : ~ HoldsRoster(q)
           /\ \A p \in People : WritesRow(r, p)' =>
                WritesRow(r, p) \/ \A q \in Requests \ {r} : ~ WritesRow(q, p) /\ ~ Shares(q, p)
           /\ \A p \in People : Shares(r, p)' =>
                Shares(r, p) \/ \A q \in Requests \ {r} : ~ WritesRow(q, p)
           /\ \A i \in Invitations : HoldsInvitation(r, i)' =>
                HoldsInvitation(r, i) \/ \A q \in Requests \ {r} : ~ HoldsInvitation(q, i)
<1>0. request[r] \in Request
  BY DEF TypeOK, Request
<1>1. /\ At(r, "write")' => LockRoster(r)
      /\ At(r, "join")' => LockInvitation(r)
      /\ At(r, "commit")' => WriteMember(r) \/ Join(r)
  <2>1. ASSUME NEW place, Goes(r, place) PROVE request'[r].at = place
    BY <1>0, <2>1, Shapes DEF Goes, TypeOK, Request, RosterRequest, InviteRequest,
       RevokeRequest, AcceptRequest, Idle
  <2>2. Ends(r) => request'[r].at = "idle"
    BY DEF Ends, TypeOK, Idle
  <2>3. LockScope(r) => request'[r].at = "owner"
    BY <1>0, Shapes DEF LockScope, At, TypeOK, RosterRequest, InviteRequest, RevokeRequest
  <2>4. SignUp(r) => request'[r].at = "redeem"
    BY <1>0, Shapes DEF SignUp, At, TypeOK, AcceptRequest
  <2>5. CheckOwner(r) => request'[r].at \in {"roster", "already", "revoke", "idle"}
    <3>1. CheckOwner(r) => request[r].kind \in {"roster", "invite", "revoke"}
      BY <1>0, Shapes DEF CheckOwner, At
    <3> QED
      BY <2>1, <2>2, <3>1 DEF CheckOwner, FirstStatement
  <2>6. Commit(r) => request'[r].at \in {"verify", "idle"}
    BY <2>1, <2>2 DEF Commit
  <2>7. InsertInvitation(r) \/ DeleteInvitation(r) \/ MarkVerified(r) \/ AbortDeadlocked(r)
          => request'[r].at = "idle"
    BY <2>2 DEF InsertInvitation, DeleteInvitation, MarkVerified, AbortDeadlocked
  <2>8. /\ CheckAlready(r) => request'[r].at \in {"insert", "idle"}
        /\ LockRoster(r) => request'[r].at = "write"
        /\ LockInvitation(r) => request'[r].at \in {"join", "idle"}
        /\ WriteMember(r) \/ Join(r) => request'[r].at \in {"commit", "idle"}
    BY <2>1, <2>2 DEF CheckAlready, LockRoster, LockInvitation, WriteMember, Join
  <2> QED
    BY <2>3, <2>4, <2>5, <2>6, <2>7, <2>8 DEF Step, At
<1>2. ASSUME HoldsRoster(r)', ~ HoldsRoster(r), NEW q \in Requests \ {r}
      PROVE  ~ HoldsRoster(q)
  <2>1. ~ At(r, "idle")'
    BY <1>2 DEF HoldsRoster, At
  <2>2. CASE LockRoster(r)
    BY <2>2 DEF LockRoster, Free, WaitsFor
  <2>3. CASE WriteMember(r)
    BY <1>2, <2>3, <1>0, Shapes DEF WriteMember, HoldsRoster, At
  <2>4. CASE Join(r)
    BY <1>2, <2>1, <2>4, <1>0, Shapes, RequestGoesOn DEF Join, HoldsRoster, At
  <2> QED
    BY <1>1, <1>2, <2>2, <2>3, <2>4 DEF HoldsRoster
<1>3. ASSUME NEW p \in People, WritesRow(r, p)', NEW q \in Requests \ {r}
      PROVE  ~ WritesRow(q, p) /\ ~ Shares(q, p)
  <2>1. ~ At(r, "idle")' /\ request'[r].target = p
    BY <1>3 DEF WritesRow, At
  <2>2. CASE WriteMember(r)
    <3>1. request[r].kind = "roster"
      BY <1>0, <2>2, Shapes DEF WriteMember, At
    <3>2. request[r].target = p /\ member[p] # "none"
      BY <2>1, <2>2, <3>1, RequestGoesOn DEF WriteMember, Ends, TypeOK, Idle, At
    <3> QED
      BY <2>2, <3>2 DEF WriteMember, Free, WaitsFor
  <2>3. CASE Join(r)
    <3>1. IsAccept(r)
      BY <1>0, <2>3, Shapes DEF Join, At, IsAccept
    <3>2. request[r].target = p /\ request[r].user # "phantom"
      BY <2>1, <2>3, <3>1, RequestGoesOn DEF Join, Ends, TypeOK, Idle, At
    <3> QED
      BY <2>3, <3>2 DEF Join, Free, WaitsFor
  <2> QED
    BY <1>1, <1>3, <2>2, <2>3 DEF WritesRow
<1>4. ASSUME NEW p \in People, Shares(r, p)', ~ Shares(r, p), NEW q \in Requests \ {r}
      PROVE  ~ WritesRow(q, p)
  <2>1. ~ At(r, "idle")' /\ ~ At(r, "idle") /\ ~ IsAccept(r) /\ request[r].who = p
    BY <1>4, RequestGoesOn DEF Shares, At, IsAccept
  <2>2. LockScope(r)
    BY <1>4, <2>1, RequestGoesOn DEF Shares
  <2>3. member[p] # "none"
    BY <1>4, <2>1, <2>2, <1>0, Shapes
    DEF LockScope, Shares, TypeOK, At, RosterRequest, InviteRequest, RevokeRequest
  <2> QED
    BY <2>1, <2>2, <2>3 DEF LockScope, Free, WaitsFor
<1>5. ASSUME NEW i \in Invitations, HoldsInvitation(r, i)', ~ HoldsInvitation(r, i),
             NEW q \in Requests \ {r}
      PROVE  ~ HoldsInvitation(q, i)
  <2>1. ~ At(r, "idle")' /\ IsAccept(r) /\ request[r].link = i
    BY <1>5, RequestGoesOn DEF HoldsInvitation, At, IsAccept
  <2>2. LockInvitation(r)
    BY <1>1, <1>5, <2>1, <1>0, Shapes DEF HoldsInvitation, WriteMember, Join, At, IsAccept
  <2> QED
    BY <2>1, <2>2 DEF LockInvitation, Free, WaitsFor
<1> QED
  BY <1>2, <1>3, <1>4, <1>5

\* So two requests never hold locks that exclude each other.
LEMMA LocksStayExclusive ==
    ASSUME TypeOK, Exclusive, [Next]_vars
    PROVE  Exclusive'
<1>1. ASSUME NEW r \in Requests, Begin(r) \/ Step(r) \/ Crash(r)
      PROVE  Exclusive'
  <2>1. ASSUME NEW q \in Requests \ {r}
        PROVE  /\ HoldsRoster(q)' <=> HoldsRoster(q)
               /\ \A i \in Invitations : HoldsInvitation(q, i)' <=> HoldsInvitation(q, i)
    BY <1>1, <2>1, OthersStay DEF HoldsRoster, HoldsInvitation, At, IsAccept
  <2>2. HoldsRoster(r)' => HoldsRoster(r) \/ \A q \in Requests \ {r} : ~ HoldsRoster(q)
    BY <1>1, BeginHoldsNothing, LocksAreGranted
  <2>3. ASSUME NEW p \in People
        PROVE  /\ WritesRow(r, p)' => \/ WritesRow(r, p)
                                     \/ \A q \in Requests \ {r} : ~ WritesRow(q, p) /\ ~ Shares(q, p)
               /\ Shares(r, p)' => Shares(r, p) \/ \A q \in Requests \ {r} : ~ WritesRow(q, p)
    BY <1>1, BeginHoldsNothing, LocksAreGranted
  <2>4. ASSUME NEW i \in Invitations
        PROVE  HoldsInvitation(r, i)' =>
                 HoldsInvitation(r, i) \/ \A q \in Requests \ {r} : ~ HoldsInvitation(q, i)
    BY <1>1, BeginHoldsNothing, LocksAreGranted
  <2>5. \A p, q \in Requests : HoldsRoster(p)' /\ HoldsRoster(q)' => p = q
    BY <2>1, <2>2 DEF Exclusive
  <2>6. ASSUME NEW o \in Requests, NEW q \in Requests, NEW p \in People
        PROVE  WritesRow(o, p)' /\ WritesRow(q, p)' => o = q
    <3>1. \A x \in Requests \ {r} : WritesRow(x, p)' <=> WritesRow(x, p)
      BY <1>1, OthersStay DEF WritesRow, At
    <3>2. \A x, y \in Requests : WritesRow(x, p) /\ WritesRow(y, p) => x = y
      BY DEF Exclusive
    <3> QED
      BY <2>3, <3>1, <3>2
  <2>7. ASSUME NEW o \in Requests, NEW q \in Requests, NEW p \in People
        PROVE  WritesRow(o, p)' /\ Shares(q, p)' => o = q
    <3>1. \A x \in Requests \ {r} :
              (WritesRow(x, p)' <=> WritesRow(x, p)) /\ (Shares(x, p)' <=> Shares(x, p))
      BY <1>1, OthersStay DEF WritesRow, Shares, At, IsAccept
    <3>2. \A x, y \in Requests : WritesRow(x, p) /\ Shares(y, p) => x = y
      BY DEF Exclusive
    <3> QED
      BY <2>3, <3>1, <3>2
  <2>8. ASSUME NEW o \in Requests, NEW q \in Requests, NEW i \in Invitations
        PROVE  HoldsInvitation(o, i)' /\ HoldsInvitation(q, i)' => o = q
    BY <2>1, <2>4 DEF Exclusive
  <2> QED
    BY <2>5, <2>6, <2>7, <2>8 DEF Exclusive
<1>2. CASE (\E i \in Invitations : Expire(i)) \/ UNCHANGED vars
  <2>1. request' = request
    BY <1>2 DEF Expire, vars
  <2> QED
    BY <2>1 DEF Exclusive, HoldsRoster, WritesRow, Shares, HoldsInvitation, At, IsAccept
<1> QED
  BY <1>1, <1>2, WhoseStep

\* At the start every request is idle, and holds nothing.
LEMMA InitHoldsNothing ==
    ASSUME Init
    PROVE  /\ \A r \in Requests : request[r].at = "idle"
           /\ Exclusive
<1>1. \A r \in Requests : request[r].at = "idle"
  BY DEF Init, Idle
<1>2. \A r \in Requests : ~ HoldsRoster(r)
  BY <1>1 DEF HoldsRoster, At
<1>3. \A r \in Requests, p \in People : ~ WritesRow(r, p)
  BY <1>1 DEF WritesRow, At
<1>4. \A r \in Requests, i \in Invitations : ~ HoldsInvitation(r, i)
  BY <1>1 DEF HoldsInvitation, At
<1> QED
  BY <1>1, <1>2, <1>3, <1>4 DEF Exclusive

\* Memberships change by commits only.
LEMMA CommitsChangeMembers ==
    ASSUME [Next]_vars
    PROVE  member' = member \/ \E r \in Requests : Commit(r)
<1>1. ASSUME NEW r \in Requests, Begin(r) \/ Crash(r) PROVE member' = member
  BY <1>1 DEF Begin, AskRoster, AskInvite, AskRevoke, OpenLink, Start, Crash
<1>2. ASSUME NEW r \in Requests, Step(r) PROVE member' = member \/ Commit(r)
  BY <1>2 DEF Step, LockScope, CheckOwner, LockRoster, WriteMember, CheckAlready, SignUp,
              InsertInvitation, DeleteInvitation, LockInvitation, Join, MarkVerified, AbortDeadlocked
<1> QED
  BY <1>1, <1>2, WhoseStep DEF Expire, vars

\* A commit changes the one row its request has written.
LEMMA CommitWrites ==
    ASSUME TypeOK, NEW r \in Requests, Commit(r)
    PROVE  /\ WritesRow(r, request[r].target) /\ request[r].target \in People
           /\ member'[request[r].target] = request[r].role
           /\ \A p \in People \ {request[r].target} : member'[p] = member[p]
BY WrittenTyped DEF Commit, WritesRow, Written, TypeOK, At

-----------------------------------------------------------------------------
(* Authority lasts as long as the request *)

\* A request that is not an acceptance has somebody signed in.
LEMMA SomebodyAsks ==
    ASSUME TypeOK, NEW r \in Requests, ~ At(r, "idle"), ~ IsAccept(r)
    PROVE  request[r].who \in People
<1>1. request[r] \in RosterRequest \/ request[r] \in InviteRequest \/ request[r] \in RevokeRequest
  BY DEF TypeOK, At, IsAccept, Idle, AcceptRequest
<1> QED
  BY <1>1 DEF RosterRequest, InviteRequest, RevokeRequest

\* The row a manager's request has share-locked is not rewritten by another.
LEMMA AuthorityKept ==
    ASSUME TypeOK, Exclusive, AuthorityLasts, [Next]_vars
    PROVE  AuthorityLasts'
<1> SUFFICES ASSUME NEW r \in Requests, Checked(r)', request'[r].shared
             PROVE  Manages(request[r].who)' 
  BY DEF AuthorityLasts
<1>0. request[r] \in Request /\ ~ At(r, "idle")' /\ ~ IsAccept(r)'
  BY DEF TypeOK, Request, Checked, At
<1> DEFINE Going == /\ ~ At(r, "idle") /\ ~ IsAccept(r)
                    /\ request'[r].who = request[r].who
                    /\ request[r].who \in People
<1>1. ASSUME Going, Checked(r), request[r].shared, ~ Commit(r)
      PROVE  Manages(request[r].who)'
  <2>1. Manages(request[r].who) /\ Shares(r, request[r].who)
    BY <1>1 DEF AuthorityLasts, Shares
  <2>2. ASSUME NEW q \in Requests, Commit(q) PROVE member'[request[r].who] = member[request[r].who]
    <3>1. request[q].target # request[r].who
      BY <1>1, <2>1, <2>2, CommitWrites DEF Exclusive
    <3> QED
      BY <1>1, <2>2, <3>1, CommitWrites
  <2> QED
    BY <1>1, <2>1, <2>2, CommitsChangeMembers DEF Manages
<1>2. CASE Begin(r) \/ Crash(r)
  BY <1>0, <1>2 DEF Begin, AskRoster, AskInvite, AskRevoke, OpenLink, Start, Crash, Ends, Idle,
     TypeOK, Checked, IsAccept, At
<1>3. CASE Step(r)
  <2>1. Going
    <3>1. ~ At(r, "idle") /\ ~ IsAccept(r)
      BY <1>0, <1>3, RequestGoesOn DEF IsAccept, At
    <3>2. request[r].who \in People
      BY <3>1, SomebodyAsks
    <3> QED
      BY <1>0, <1>3, <3>1, <3>2, RequestGoesOn
  <2>2. ~ Commit(r)
    BY <1>0, <2>1 DEF Commit, Ends, TypeOK, At, Idle
  <2>3. ~ LockScope(r)
    BY <1>0, Shapes DEF LockScope, Checked, At, TypeOK, RosterRequest, InviteRequest, RevokeRequest
  <2>4. CASE CheckOwner(r)
    BY <1>0, <2>1, <2>4 DEF CheckOwner, Ends, Manages, At, Idle, TypeOK
  <2>5. CASE ~ CheckOwner(r)
    <3>1. request[r].shared
      BY <1>0, <1>3, <2>1, <2>3, RequestGoesOn
    <3>2. ~ Ends(r)
      BY <1>0 DEF Ends, TypeOK, At, Idle
    <3>3. Checked(r)
      BY <1>3, <2>1, <2>3, <2>5, <3>2 DEF Step, LockRoster, WriteMember, CheckAlready,
         InsertInvitation, DeleteInvitation, SignUp, LockInvitation, Join, Commit, MarkVerified,
         AbortDeadlocked, Checked, At
    <3> QED
      BY <1>1, <2>1, <2>2, <3>1, <3>3
  <2> QED
    BY <2>4, <2>5
<1>4. CASE request'[r] = request[r]
  <2>1. Going /\ Checked(r) /\ request[r].shared
    <3>1. Checked(r) /\ request[r].shared /\ ~ At(r, "idle") /\ ~ IsAccept(r)
      BY <1>0, <1>4 DEF Checked, At, IsAccept
    <3> QED
      BY <1>4, <3>1, SomebodyAsks
  <2>2. ~ Commit(r)
    BY <1>0, <1>4, <2>1 DEF Commit, Ends, TypeOK, At, Idle
  <2> QED
    BY <1>1, <2>1, <2>2
<1> QED
  BY <1>2, <1>3, <1>4, WhoseStep, OthersStay DEF Expire, vars

\* A manager whose request has passed its check is not demoted or removed under
\* it, however many requests there are.
THEOREM AuthorityAlwaysLasts == Spec => []AuthorityLasts
<1> DEFINE Inv == Typed /\ Exclusive /\ AuthorityLasts
<1>1. Init => Inv
  BY InitTyped, InitHoldsNothing DEF AuthorityLasts, Checked
<1>2. Inv /\ [Next]_vars => Inv'
  BY NextTyped, LocksStayExclusive, AuthorityKept DEF Typed
<1> QED
  BY <1>1, <1>2, PTL DEF Spec

-----------------------------------------------------------------------------
(* Every member was invited *)

\* The invitation an acceptance has locked stays unaccepted and is not revoked,
\* and a roster change writes a row that is there.
HeldInvitations ==
    \A r \in Requests, i \in Invitations :
        HoldsInvitation(r, i) => invitation[i].state \in {"pending", "expired"}
RosterRewrites ==
    \A r \in Requests : At(r, "commit") /\ ~ IsAccept(r) => member[request[r].target] # "none"

\* A request at its commit got there by writing a row, or was there.
LEMMA ToTheCommit ==
    ASSUME TypeOK, NEW r \in Requests, Begin(r) \/ Step(r) \/ Crash(r), At(r, "commit")'
    PROVE  /\ WriteMember(r) \/ Join(r)
           /\ ~ At(r, "commit") /\ (IsAccept(r)' <=> IsAccept(r)) /\ member' = member
           /\ request'[r].target = request[r].target /\ request'[r].role = request[r].role
           /\ request[r].target \in People
<1>1. Step(r)
  BY DEF Begin, AskRoster, AskInvite, AskRevoke, OpenLink, Start, Crash, Ends, Idle, TypeOK, At
<1>2. request[r] \in Request /\ ~ At(r, "idle")' /\ ~ Ends(r)
  BY DEF TypeOK, Request, At, Ends, Idle
<1>3. WriteMember(r) \/ Join(r)
  <2>1. ~ Commit(r)
    BY <1>2, Shapes DEF Commit, Goes, At, TypeOK, IsAccept, AcceptRequest
  <2>2. ~ (LockRoster(r) \/ CheckAlready(r) \/ LockInvitation(r) \/ LockScope(r) \/ SignUp(r))
    BY <1>2, Shapes DEF LockRoster, CheckAlready, LockInvitation, LockScope, SignUp, Goes, At,
       TypeOK, RosterRequest, InviteRequest, RevokeRequest, AcceptRequest
  <2>3. ~ CheckOwner(r)
    BY <1>2, Shapes DEF CheckOwner, FirstStatement, Goes, At, TypeOK, RosterRequest, InviteRequest,
       RevokeRequest
  <2> QED
    BY <1>1, <1>2, <2>1, <2>2, <2>3 DEF Step, InsertInvitation, DeleteInvitation, MarkVerified,
       AbortDeadlocked
<1>4. request[r] \in RosterRequest \/ request[r] \in AcceptRequest
  BY <1>2, <1>3, Shapes DEF WriteMember, Join, At
<1> QED
  BY <1>1, <1>2, <1>3, <1>4, RequestGoesOn DEF WriteMember, Join, At, IsAccept, RosterRequest,
     AcceptRequest

\* No roster change is committed over a row that has gone meanwhile.
LEMMA RosterKeepsRewriting ==
    ASSUME TypeOK, Exclusive, RosterRewrites, [Next]_vars
    PROVE  RosterRewrites'
<1> SUFFICES ASSUME NEW r \in Requests, At(r, "commit")', ~ IsAccept(r)'
             PROVE  member'[request'[r].target] # "none"
  BY DEF RosterRewrites
<1>1. CASE Begin(r) \/ Step(r) \/ Crash(r)
  <2>1. WriteMember(r)
    BY <1>1, ToTheCommit, Shapes DEF Join, TypeOK, Request, IsAccept, At
  <2> QED
    BY <1>1, <2>1, ToTheCommit DEF WriteMember, Ends, TypeOK, At, Idle
<1>2. CASE request'[r] = request[r]
  <2>1. At(r, "commit") /\ ~ IsAccept(r)
    BY <1>2 DEF At, IsAccept
  <2>2. request[r].target \in People
    BY <2>1, WrittenTyped
  <2>3. ~ Commit(r)
    BY <1>2, <2>1 DEF Commit, Ends, TypeOK, At, Idle
  <2>4. ASSUME NEW q \in Requests, Commit(q) PROVE member'[request[r].target] = member[request[r].target]
    <3>1. WritesRow(r, request[r].target)
      BY <2>1 DEF WritesRow
    <3>2. request[q].target # request[r].target
      BY <2>2, <2>3, <2>4, <3>1, CommitWrites DEF Exclusive
    <3> QED
      BY <2>2, <2>4, <3>2, CommitWrites
  <2> QED
    BY <1>2, <2>1, <2>4, CommitsChangeMembers DEF RosterRewrites
<1> QED
  BY <1>1, <1>2, WhoseStep, OthersStay DEF Expire, vars

\* Nobody accepts, revokes or clears away an invitation another request holds.
LEMMA InvitationsStayHeld ==
    ASSUME TypeOK, LinksMatch, Exclusive, HeldInvitations, [Next]_vars
    PROVE  HeldInvitations'
<1> SUFFICES ASSUME NEW r \in Requests, NEW i \in Invitations, HoldsInvitation(r, i)'
             PROVE  invitation'[i].state \in {"pending", "expired"}
  BY DEF HeldInvitations
<1>0. invitation \in [Invitations -> InvitationRow \cup {Unsent}]
  BY DEF TypeOK
<1>1. ASSUME HoldsInvitation(r, i), ~ Commit(r)
      PROVE  invitation'[i].state \in {"pending", "expired"}
  <2>1. /\ invitation[i].state \in {"pending", "expired"}
        /\ invitation[i] # Unsent
        /\ invitation[i].to = request[r].target
    BY <1>1 DEF HeldInvitations, LinksMatch, HoldsInvitation
  <2>2. ASSUME NEW q \in Requests, InsertInvitation(q) PROVE invitation'[i] = invitation[i]
    <3>1. q # r
      BY <1>1, <2>2 DEF InsertInvitation, HoldsInvitation, At
    <3>2. ~ (Addressed(i, request[q].target) /\ invitation[i].state = "expired")
      BY <1>1, <2>1, <2>2, <3>1 DEF InsertInvitation, Free, WaitsFor, Addressed
    <3>3. i \notin Fresh
      BY <2>1 DEF Fresh
    <3> QED
      BY <2>2, <3>2, <3>3 DEF InsertInvitation
  <2>3. ASSUME NEW q \in Requests, DeleteInvitation(q) PROVE invitation'[i] = invitation[i]
    <3>1. q # r
      BY <1>1, <2>3 DEF DeleteInvitation, HoldsInvitation, At
    <3>2. request[q].link # i
      BY <1>1, <2>3, <3>1 DEF DeleteInvitation, Free, WaitsFor
    <3> QED
      BY <1>0, <2>3, <3>2 DEF DeleteInvitation
  <2>4. ASSUME NEW q \in Requests, Commit(q) PROVE invitation'[i] = invitation[i]
    <3>1. CASE IsAccept(q)
      <4>1. HoldsInvitation(q, request[q].link) /\ request[q].link \in Invitations
        BY <2>4, <3>1, WrittenTyped DEF Commit, HoldsInvitation
      <4>2. request[q].link # i
        BY <1>1, <2>4, <4>1 DEF Exclusive
      <4> QED
        BY <1>0, <2>4, <3>1, <4>2 DEF Commit
    <3>2. CASE ~ IsAccept(q)
      BY <2>4, <3>2 DEF Commit
    <3> QED
      BY <3>1, <3>2
  <2>5. ASSUME NEW j \in Invitations, Expire(j)
        PROVE  invitation'[i].state \in {"pending", "expired"}
    <3>1. CASE i = j
      BY <1>0, <2>5, <3>1 DEF Expire, InvitationRow, Unsent
    <3>2. CASE i # j
      BY <1>0, <2>1, <2>5, <3>2 DEF Expire
    <3> QED
      BY <3>1, <3>2
  <2>6. ASSUME NEW q \in Requests, Begin(q) \/ Step(q) \/ Crash(q)
        PROVE  invitation' = invitation \/ InsertInvitation(q) \/ DeleteInvitation(q) \/ Commit(q)
    BY <2>6 DEF Begin, AskRoster, AskInvite, AskRevoke, OpenLink, Start, Crash, Step, LockScope,
       CheckOwner, LockRoster, WriteMember, CheckAlready, SignUp, LockInvitation, Join,
       MarkVerified, AbortDeadlocked
  <2> QED
    BY <2>1, <2>2, <2>3, <2>4, <2>5, <2>6, WhoseStep DEF vars
<1>2. ASSUME Step(r), ~ HoldsInvitation(r, i)
      PROVE  invitation'[i].state \in {"pending", "expired"}
  <2>1. ~ At(r, "idle")' /\ ~ Ends(r) /\ IsAccept(r) /\ request[r].link = i
    BY <1>2, RequestGoesOn DEF HoldsInvitation, At, IsAccept, Ends, TypeOK, Idle
  <2>2. request[r] \in AcceptRequest
    BY <2>1, Shapes DEF TypeOK, Request, IsAccept, At
  <2>3. LockInvitation(r)
    BY <1>2, <2>1, <2>2 DEF Step, LockScope, CheckOwner, LockRoster, WriteMember, CheckAlready,
       InsertInvitation, DeleteInvitation, SignUp, Join, Commit, MarkVerified, AbortDeadlocked,
       Goes, HoldsInvitation, At, IsAccept, AcceptRequest, TypeOK
  <2> QED
    BY <2>1, <2>3 DEF LockInvitation
<1>3. CASE Begin(r) \/ Crash(r)
  BY <1>3, BeginHoldsNothing
<1>4. CASE Commit(r)
  <2>1. ~ At(r, "commit")' /\ ~ At(r, "join")'
    <3>1. CASE Ends(r)
      BY <3>1 DEF Ends, TypeOK, At, Idle
    <3>2. CASE Goes(r, "verify") /\ IsAccept(r)
      BY <1>4, <3>2, Shapes DEF Commit, Goes, TypeOK, Request, At, IsAccept, AcceptRequest
    <3> QED
      BY <1>4, <3>1, <3>2 DEF Commit
  <2> QED
    BY <2>1 DEF HoldsInvitation
<1>5. CASE request'[r] = request[r]
  <2>1. HoldsInvitation(r, i)
    BY <1>5 DEF HoldsInvitation, At, IsAccept
  <2> QED
    BY <1>1, <1>4, <2>1
<1> QED
  BY <1>1, <1>2, <1>3, <1>4, <1>5, WhoseStep, OthersStay DEF Expire, vars

\* In such a state a step that makes a member uses up an invitation to them.
LEMMA OnlyTheInvitedJoin ==
    ASSUME TypeOK, LinksMatch, HeldInvitations, RosterRewrites, [Next]_vars,
           NEW p \in People, member[p] = "none", member'[p] # "none"
    PROVE  \E i \in Invitations : InvitedBy(p, i)
<1>1. PICK r \in Requests : Commit(r)
  BY CommitsChangeMembers
<1>2. /\ At(r, "commit")
      /\ request[r].target = p
      /\ member'[p] = request[r].role
  BY <1>1, CommitWrites DEF Commit
<1>3. IsAccept(r)
  BY <1>2 DEF RosterRewrites
<1> DEFINE i == request[r].link
<1>4. i \in Invitations /\ HoldsInvitation(r, i)
  BY <1>2, <1>3, WrittenTyped DEF HoldsInvitation
<1>5. /\ invitation[i] # Unsent
      /\ invitation[i].to = p
      /\ invitation[i].role = member'[p]
      /\ invitation[i].state \in {"pending", "expired"}
  BY <1>2, <1>3, <1>4 DEF LinksMatch, HeldInvitations
<1>6. invitation'[i].state = "accepted"
  <2>1. invitation' = [invitation EXCEPT ![i].state = "accepted"]
    BY <1>1, <1>3 DEF Commit
  <2> QED
    BY <1>4, <1>5, <2>1 DEF TypeOK, InvitationRow
<1> QED
  BY <1>4, <1>5, <1>6 DEF InvitedBy

\* Nobody becomes a member but by an invitation to them, unaccepted until that
\* moment and accepted in it, however many requests there are.
THEOREM MembersAlwaysInvited == Spec => MembersAreInvited
<1> DEFINE Inv == Typed /\ Exclusive /\ RosterRewrites /\ HeldInvitations
           Joins == \A p \in People : member[p] = "none" /\ member'[p] # "none"
                                        => \E i \in Invitations : InvitedBy(p, i)
<1>1. Init => Inv
  BY InitTyped, InitHoldsNothing DEF RosterRewrites, HeldInvitations, HoldsInvitation, At
<1>2. Inv /\ [Next]_vars => Inv'
  BY NextTyped, LocksStayExclusive, RosterKeepsRewriting, InvitationsStayHeld DEF Typed
<1>3. Inv /\ [Next]_vars => [Joins]_vars
  BY OnlyTheInvitedJoin DEF Typed
<1> QED
  BY <1>1, <1>2, <1>3, PTL DEF Spec, MembersAreInvited

-----------------------------------------------------------------------------
(* Somebody manages *)

\* What acceptances must not do for roster changes to be safe: lower the role of
\* somebody who manages by then.
AcceptancesSpareManagers ==
    \A r \in Requests : At(r, "commit") /\ IsAccept(r) /\ Manages(request[r].target)
        => request[r].role = "manage"

\* A roster change about to commit still leaves a manager: what it was checked
\* against has not changed since.
ChecksHold == \A r \in Requests : At(r, "commit") /\ ~ IsAccept(r) => KeepsAManager(r)

\* Somebody manages in a transaction's view if somebody else does, or it appoints one.
LEMMA WhoKeepsIt ==
    ASSUME TypeOK, NEW r \in Requests, request[r].target \in People
    PROVE  KeepsAManager(r) <=> \/ request[r].role = "manage"
                                \/ \E p \in People \ {request[r].target} : Manages(p)
BY DEF KeepsAManager, Written, TypeOK, Manages

\* A check made under the roster lock is not overtaken by another commit.
LEMMA ChecksKeepHolding ==
    ASSUME TypeOK, Exclusive, ChecksHold, AcceptancesSpareManagers, [Next]_vars, TypeOK'
    PROVE  ChecksHold'
<1> SUFFICES ASSUME NEW r \in Requests, At(r, "commit")', ~ IsAccept(r)'
             PROVE  KeepsAManager(r)'
  BY DEF ChecksHold
<1>1. CASE Begin(r) \/ Step(r) \/ Crash(r)
  <2>1. WriteMember(r)
    BY <1>1, ToTheCommit, Shapes DEF Join, TypeOK, Request, IsAccept, At
  <2>2. KeepsAManager(r)
    BY <1>1, <2>1, ToTheCommit DEF WriteMember, Ends, TypeOK, At, Idle
  <2> QED
    BY <1>1, <2>2, ToTheCommit DEF KeepsAManager, Written
<1>2. CASE request'[r] = request[r]
  <2>1. At(r, "commit") /\ ~ IsAccept(r) /\ KeepsAManager(r)
    BY <1>2 DEF At, IsAccept, ChecksHold
  <2>2. request[r].target \in People
    BY <2>1, WrittenTyped
  <2>3. CASE request[r].role = "manage" \/ member' = member
    BY <1>2, <2>1, <2>2, <2>3 DEF KeepsAManager, Written, TypeOK
  <2>4. CASE request[r].role # "manage"
    <3>1. PICK p \in People \ {request[r].target} : Manages(p)
      BY <2>1, <2>2, <2>4, WhoKeepsIt
    <3>2. ASSUME NEW q \in Requests, Commit(q) PROVE \E o \in People \ {request[r].target} : Manages(o)'
      <4>1. q # r
        BY <1>2, <2>1, <3>2 DEF Commit, Ends, TypeOK, At, Idle
      <4>2. request[q].target # request[r].target /\ request[q].target \in People
        BY <2>1, <2>2, <3>2, <4>1, CommitWrites DEF Exclusive, WritesRow
      <4>3. IsAccept(q)
        <5>1. HoldsRoster(r)
          BY <2>1, Shapes DEF HoldsRoster, At, IsAccept, TypeOK, Request
        <5>2. ~ IsAccept(q) => HoldsRoster(q)
          BY <3>2, Shapes DEF Commit, HoldsRoster, At, IsAccept, TypeOK, Request
        <5> QED
          BY <4>1, <5>1, <5>2 DEF Exclusive
      <4>4. CASE request[q].target = p
        BY <3>1, <3>2, <4>2, <4>3, <4>4, CommitWrites DEF AcceptancesSpareManagers, Commit, Manages
      <4>5. CASE request[q].target # p
        BY <3>1, <3>2, <4>5, CommitWrites DEF Manages
      <4> QED
        BY <4>4, <4>5
    <3>3. member' = member \/ \E o \in People \ {request[r].target} : Manages(o)'
      BY <3>2, CommitsChangeMembers
    <3>4. request'[r].target \in People
      BY <1>2, <2>2
    <3>5. (\E o \in People \ {request[r].target} : Manages(o)') => KeepsAManager(r)'
      BY <1>2, <2>2 DEF KeepsAManager, Written, Manages, TypeOK
    <3> QED
      BY <2>3, <3>3, <3>5
  <2> QED
    BY <2>3, <2>4
<1> QED
  BY <1>1, <1>2, WhoseStep, OthersStay DEF Expire, vars

\* So the commit that would take the last manager does not come.
LEMMA SomeoneIsKept ==
    ASSUME TypeOK, ChecksHold, AcceptancesSpareManagers, SomeoneManages, [Next]_vars
    PROVE  SomeoneManages'
<1>1. ASSUME NEW r \in Requests, Commit(r), ~ IsAccept(r) PROVE SomeoneManages'
  BY <1>1 DEF Commit, ChecksHold, KeepsAManager, SomeoneManages, Manages
<1>2. ASSUME NEW r \in Requests, Commit(r), IsAccept(r) PROVE SomeoneManages'
  BY <1>2, CommitWrites DEF Commit, AcceptancesSpareManagers, SomeoneManages, Manages
<1>3. CASE member' = member
  BY <1>3 DEF SomeoneManages, Manages
<1> QED
  BY <1>1, <1>2, <1>3, CommitsChangeMembers

\* As long as no acceptance lowers a manager's role, roster changes of any number
\* of managers at once never leave the workspace without one.
THEOREM SomeoneAlwaysManages == Spec /\ []AcceptancesSpareManagers => []SomeoneManages
<1> DEFINE Inv == Typed /\ Exclusive /\ ChecksHold /\ SomeoneManages
<1>1. Init => Inv
  <2>1. Init => SomeoneManages
    BY FoundersAssumption DEF Init, SomeoneManages, Manages
  <2> QED
    BY <2>1, InitTyped, InitHoldsNothing DEF ChecksHold, At
<1>2. Inv /\ AcceptancesSpareManagers /\ [Next]_vars => Inv'
  BY NextTyped, LocksStayExclusive, ChecksKeepHolding, SomeoneIsKept DEF Typed
<1> QED
  BY <1>1, <1>2, PTL DEF Spec

-----------------------------------------------------------------------------
(* Induction *)

\* A set of numbers that has zero and with each number the next has all of them.  The
\* library's induction is over an operator; this is its well-founded order of finite
\* sets, of which 0 .. k, with k a number that is not in the set, would have a least.
LEMMA EveryNumber ==
    ASSUME NEW T, 0 \in T, \A n \in Nat : n \in T => n + 1 \in T
    PROVE  \A n \in Nat : n \in T
<1> SUFFICES ASSUME NEW m \in Nat, m \notin T PROVE FALSE
  OBVIOUS
<1> DEFINE Below == {0 .. k : k \in Nat \ T}
<1>1. Below \subseteq FiniteSubsetsOf(Nat)
  <2>1. \A k \in Nat : IsFiniteSet(0 .. k)  BY FS_Interval
  <2>2. QED  BY <2>1 DEF FiniteSubsetsOf
<1>2. Below # {}
  OBVIOUS
<1>3. PICK least \in Below : \A other \in Below : <<other, least>> \notin StrictSubsetOrdering(Nat)
  <2>1. IsWellFoundedOn(StrictSubsetOrdering(Nat), FiniteSubsetsOf(Nat))
    BY FS_StrictSubsetOrderingWellFounded
  <2> HIDE DEF Below
  <2>2. QED  BY <1>1, <1>2, <2>1, WFMin
<1>4. PICK k \in Nat \ T : least = 0 .. k
  OBVIOUS
<1>5. k - 1 \in Nat \ T
  <2>1. k # 0
    OBVIOUS
  <2>2. k - 1 \in Nat /\ (k - 1) + 1 = k  BY <2>1
  <2>3. QED  BY <2>2
<1>6. <<0 .. (k - 1), 0 .. k>> \in StrictSubsetOrdering(Nat)
  <2>1. k \in 0 .. k /\ k \notin 0 .. (k - 1)  BY <1>5
  <2>2. 0 .. (k - 1) \in SUBSET Nat /\ 0 .. k \in SUBSET Nat /\ 0 .. (k - 1) \subseteq 0 .. k
    BY <1>5
  <2>3. QED  BY <2>1, <2>2 DEF StrictSubsetOrdering
<1>7. QED  BY <1>3, <1>4, <1>5, <1>6

\* A number that a set has, and none below it.
LEMMA LeastNumber ==
    ASSUME NEW T, NEW m \in Nat, m \in T
    PROVE  \E n \in Nat : n \in T /\ n <= m /\ \A k \in Nat : k < n => k \notin T
<1> DEFINE N == {n \in Nat : \A k \in Nat : k <= n => k \notin T}
<1>1. SUFFICES ASSUME \A n \in Nat : n \in T /\ n <= m => \E k \in Nat : k < n /\ k \in T
               PROVE  FALSE
  OBVIOUS
<1>2. \A n \in Nat : n \in T => \E k \in Nat : k < n /\ k \in T
  <2>1. SUFFICES ASSUME NEW n \in Nat, n \in T, n > m PROVE m < n /\ m \in T
    BY <1>1
  <2>2. QED  BY <2>1
<1>3. 0 \in N
  <2>1. 0 \notin T  BY <1>2
  <2>2. QED  BY <2>1
<1>4. ASSUME NEW n \in Nat, n \in N PROVE n + 1 \in N
  <2>1. \A k \in Nat : k < n + 1 => k \notin T  BY <1>4
  <2>2. n + 1 \notin T  BY <1>2, <2>1
  <2>3. \A k \in Nat : k <= n + 1 => k < n + 1 \/ k = n + 1
    OBVIOUS
  <2>4. QED  BY <2>1, <2>2, <2>3
<1> HIDE DEF N
<1>5. m \in N  BY <1>3, <1>4, EveryNumber
<1>6. QED  BY <1>5 DEF N

-----------------------------------------------------------------------------
(* ManagementPage: records and their copies *)

\* A row, whatever is in it: it has a version, and the other fields or none.
Fields == {"version", "parent", "visibility", "named", "archived", "picture"}
HasVersion(row) ==
    /\ row = [field \in DOMAIN row |-> row[field]]
    /\ DOMAIN row \in {Fields, {"version"}} /\ row.version \in Nat

\* Equal but for the picture, which is set without a version.
SameFields(one, other) == [one EXCEPT !.picture = FALSE] = [other EXCEPT !.picture = FALSE]

\* What was read of a row some time ago: an earlier version of it, or what it is.
CopyOf(copy, row) ==
    /\ HasVersion(copy) /\ copy.version <= row.version
    /\ copy.version = row.version => SameFields(copy, row)

\* What a write makes of a row: a later version, or the same fields.
Follows(next, row) ==
    /\ HasVersion(next)
    /\ \/ row.version < next.version
       \/ row.version = next.version /\ SameFields(next, row)

\* A copy stays one.
LEMMA CopiesStay ==
    ASSUME NEW copy, NEW row, NEW next, HasVersion(row), CopyOf(copy, row), Follows(next, row)
    PROVE  CopyOf(copy, next)
BY DEF CopyOf, Follows, HasVersion, SameFields

\* A row is a copy of itself, and follows itself.
LEMMA OwnCopy ==
    ASSUME NEW row, HasVersion(row)
    PROVE  CopyOf(row, row) /\ Follows(row, row)
BY DEF CopyOf, Follows, HasVersion, SameFields

\* Another version of a row.
LEMMA Versioned ==
    ASSUME NEW row, HasVersion(row), NEW n \in Nat
    PROVE  /\ HasVersion([row EXCEPT !.version = n])
           /\ [row EXCEPT !.version = n].version = n
BY DEF HasVersion, Fields

\* Another picture of a row.
LEMMA Pictured ==
    ASSUME NEW row, HasVersion(row), NEW picture
    PROVE  /\ HasVersion([row EXCEPT !.picture = picture])
           /\ [row EXCEPT !.picture = picture].version = row.version
           /\ SameFields([row EXCEPT !.picture = picture], row)
<1>1. HasVersion([row EXCEPT !.picture = picture])
      /\ [row EXCEPT !.picture = picture].version = row.version
  BY DEF HasVersion, Fields
<1>2. SameFields([row EXCEPT !.picture = picture], row)
  BY DEF HasVersion, Fields, SameFields
<1>3. QED  BY <1>1, <1>2

\* Activated or deactivated.
LEMMA Switched ==
    ASSUME NEW row, HasVersion(row), NEW archived
    PROVE  /\ HasVersion([row EXCEPT !.archived = archived])
           /\ [row EXCEPT !.archived = archived].version = row.version
BY DEF HasVersion, Fields

\* What a form is filled with is a row.
LEMMA FilledIsRow ==
    ASSUME NEW f, NEW record, NEW n \in Nat
    PROVE  HasVersion(Filled(f, record, n)) /\ Filled(f, record, n).version = n
BY DEF HasVersion, Fields, Filled

-----------------------------------------------------------------------------
(* The invariant *)

IsSheet(open) ==
    DOMAIN open = {"kind", "id", "record", "stage", "answer"} /\ open.kind = "record"

IsForm(f) ==
    /\ DOMAIN f = {"kind", "id", "shown", "inside", "mounted", "stage", "wanted", "saved", "path",
                   "found", "at"}
    /\ f.kind \in {"add", "edit", "status"} /\ f.stage \in {"open", "sent", "accepted"}
    /\ f.inside \in BOOLEAN /\ f.mounted \in BOOLEAN

IsUpload(u) == DOMAIN u = {"stage", "id", "picture", "at"}

RowsHaveVersions ==
    /\ records = [id \in Ids |-> records[id]]
    /\ \A id \in Ids : HasVersion(records[id])

\* The rows of a list are copies.
RowsCopied(list, recs) ==
    list.stage = "answered"
    => \A id \in Ids : id \in DOMAIN list.rows => CopyOf(list.rows[id], recs[id])

\* The sheet and the answer on its way to it hold copies of one record.
SheetCopied(open, recs) ==
    \/ open = Shut
    \/ /\ IsSheet(open) /\ open.id \in Ids
       /\ CopyOf(open.record, recs[open.id])
       /\ open.stage = "answered" => CopyOf(open.answer, recs[open.id])

\* A form that changes a record was filled from a copy, and while it is on the page
\* the sheet under it is at that version; so is what it sends.
FormOver(f, open, recs) ==
    f.kind # "add" =>
        /\ f.id \in Ids /\ f.inside /\ CopyOf(f.shown, recs[f.id])
        /\ f.mounted => open # Shut /\ open.id = f.id /\ open.record.version = f.shown.version
        /\ f.stage # "open" => f.wanted.version = f.shown.version

\* What was added is a copy of what is stored.
FormAdds(f, recs) ==
    f.stage = "accepted" =>
        f.saved \in Ids /\ (f.kind = "add" => CopyOf([f.wanted EXCEPT !.version = 1], recs[f.saved]))

FormCopied(f, open, recs) ==
    \/ f = Shut
    \/ /\ IsForm(f) /\ FormOver(f, open, recs) /\ FormAdds(f, recs)
       /\ f.stage # "open" => HasVersion(f.wanted)

UploadFits == upload = NoAnswer \/ (IsUpload(upload) /\ upload.id \in Ids)

CopiesInv ==
    /\ RowsHaveVersions
    /\ RowsCopied(fetch, records) /\ RowsCopied(result, records)
    /\ result = NoAnswer \/ result.stage = "answered"
    /\ SheetCopied(sheet, records) /\ FormCopied(form, sheet, records)
    /\ UploadFits

\* What a step makes of the rows.
RowsFollow == \A id \in Ids : Follows(records'[id], records[id])

-----------------------------------------------------------------------------
(* Every step keeps it: the rows *)

\* Rows that are as they were follow themselves.
LEMMA UnchangedRows ==
    ASSUME RowsHaveVersions, records' = records
    PROVE  RowsHaveVersions' /\ RowsFollow
BY OwnCopy DEF RowsHaveVersions, RowsFollow

\* One row is written.
LEMMA OneRow ==
    ASSUME RowsHaveVersions, NEW id \in Ids, NEW row, Follows(row, records[id]),
           records' = [records EXCEPT ![id] = row]
    PROVE  RowsHaveVersions' /\ RowsFollow
<1>1. \A j \in Ids : records'[j] = IF j = id THEN row ELSE records[j]
  BY DEF RowsHaveVersions
<1>2. records' = [j \in Ids |-> records'[j]]
  BY DEF RowsHaveVersions
<1>3. \A j \in Ids : Follows(records'[j], records[j])
  BY <1>1, OwnCopy DEF RowsHaveVersions
<1>4. \A j \in Ids : HasVersion(records'[j])
  BY <1>3 DEF Follows
<1>5. QED  BY <1>2, <1>3, <1>4 DEF RowsHaveVersions, RowsFollow

\* A later version follows.
LEMMA LaterFollows ==
    ASSUME NEW row, NEW next, HasVersion(row), HasVersion(next), next.version = row.version + 1
    PROVE  Follows(next, row)
BY DEF HasVersion, Follows

\* A form's change is a version.
LEMMA ServedFollows ==
    ASSUME CopiesInv, NEW id \in Ids, FormServed(id)
    PROVE  RowsHaveVersions' /\ RowsFollow
<1>1. IsForm(form) /\ HasVersion(form.wanted)
  BY DEF CopiesInv, FormCopied, FormServed, Shut
<1>2. HasVersion(records[id])
  BY DEF CopiesInv, RowsHaveVersions
<1>3. CASE Created(id)
  <2>1. HasVersion([form.wanted EXCEPT !.version = 1]) /\ [form.wanted EXCEPT !.version = 1].version = 1
    BY <1>1, Versioned
  <2>2. records[id].version = 0  BY <1>3 DEF Created, NoRecord
  <2>3. Follows([form.wanted EXCEPT !.version = 1], records[id])
    BY <2>1, <2>2 DEF Follows
  <2>4. records' = [records EXCEPT ![id] = [form.wanted EXCEPT !.version = 1]]
    BY <1>3 DEF Created
  <2>5. QED  BY <2>3, <2>4, OneRow DEF CopiesInv
<1>4. CASE Updated(id)
  <2> DEFINE later == [form.wanted EXCEPT !.version = form.wanted.version + 1]
             row == [later EXCEPT !.picture = records[id].picture]
  <2>1. form.wanted.version + 1 \in Nat  BY <1>1 DEF HasVersion
  <2>2. HasVersion(later) /\ later.version = form.wanted.version + 1
    BY <1>1, <2>1, Versioned
  <2>3. HasVersion(row) /\ row.version = later.version
    BY <2>2, Pictured
  <2>4. row.version = records[id].version + 1
    BY <1>4, <2>2, <2>3 DEF Updated
  <2>5. Follows(row, records[id])
    BY <1>2, <2>3, <2>4, LaterFollows
  <2>6. records' = [records EXCEPT ![id] = row]
    BY <1>4 DEF Updated
  <2> HIDE DEF row
  <2>7. QED  BY <2>5, <2>6, OneRow DEF CopiesInv
<1>5. QED  BY <1>3, <1>4 DEF FormServed

\* A picture is no version, and no other field.
LEMMA PictureFollows ==
    ASSUME CopiesInv, PictureSet
    PROVE  RowsHaveVersions' /\ RowsFollow
<1>1. upload.id \in Ids  BY DEF CopiesInv, UploadFits, PictureSet, NoAnswer
<1>2. HasVersion(records[upload.id])  BY <1>1 DEF CopiesInv, RowsHaveVersions
<1> DEFINE row == [records[upload.id] EXCEPT !.picture = upload.picture]
<1>3. Follows(row, records[upload.id])
  BY <1>2, Pictured DEF Follows
<1>4. records' = [records EXCEPT ![upload.id] = row]
  BY <1>1 DEF PictureSet
<1> HIDE DEF row
<1>5. PICK id \in Ids : id = upload.id  BY <1>1
<1>6. QED  BY <1>3, <1>4, <1>5, OneRow DEF CopiesInv

\* Another manager's change is a version.
LEMMA OthersFollow ==
    ASSUME CopiesInv, NEW id \in Ids, NEW f \in Entries, OtherManager(id, f)
    PROVE  RowsHaveVersions' /\ RowsFollow
<1>1. HasVersion(records[id])  BY DEF CopiesInv, RowsHaveVersions
<1> DEFINE changed == Filled(f, records[id], records[id].version + 1)
           row == IF records[id] = NoRecord
                  THEN Filled(f, [archived |-> FALSE, picture |-> FALSE], 1)
                  ELSE [changed EXCEPT !.archived = f.archived]
<1>2. records' = [records EXCEPT ![id] = row]
  BY DEF OtherManager
<1>3. CASE records[id] = NoRecord
  <2>1. HasVersion(row) /\ row.version = 1  BY <1>3, FilledIsRow
  <2>2. records[id].version = 0  BY <1>3 DEF NoRecord
  <2>3. Follows(row, records[id])  BY <2>1, <2>2 DEF Follows
  <2> HIDE DEF row
  <2>4. QED  BY <2>3, <1>2, OneRow DEF CopiesInv
<1>4. CASE records[id] # NoRecord
  <2>1. records[id].version + 1 \in Nat  BY <1>1 DEF HasVersion
  <2>2. HasVersion(changed) /\ changed.version = records[id].version + 1
    BY <2>1, FilledIsRow
  <2>3. row = [changed EXCEPT !.archived = f.archived]  BY <1>4
  <2> HIDE DEF changed, row
  <2>4. HasVersion(row) /\ row.version = records[id].version + 1
    BY <2>2, <2>3, Switched
  <2>5. Follows(row, records[id])  BY <2>4, <1>1, LaterFollows
  <2>6. QED  BY <2>5, <1>2, OneRow DEF CopiesInv
<1>5. QED  BY <1>3, <1>4

\* The steps that write a row are these.
LEMMA RowsGoOn ==
    ASSUME CopiesInv, [ManagementNext]_managementVars
    PROVE  RowsHaveVersions' /\ RowsFollow
<1>1. CASE records' = records
  BY <1>1, UnchangedRows DEF CopiesInv
<1>2. CASE \E id \in Ids : FormServed(id)  BY <1>2, ServedFollows
<1>3. CASE PictureSet  BY <1>3, PictureFollows
<1>4. CASE \E id \in Ids, f \in Entries : OtherManager(id, f)  BY <1>4, OthersFollow
<1>5. \/ records' = records
      \/ \E id \in Ids : FormServed(id)
      \/ PictureSet
      \/ \E id \in Ids, f \in Entries : OtherManager(id, f)
  <2>1. ASSUME ListStep PROVE records' = records
    BY <2>1 DEF ListStep, ChangeQuestion, ToggleRow, Turns, TurnPage, ListAgain, ListAnswered,
         ListArrives, ListFails, DropLateAnswer
  <2>2. ASSUME SheetStep PROVE records' = records
    BY <2>2 DEF SheetStep, Open, CloseSheet, RecordAnswered, RecordArrives, RecordFails
  <2>3. ASSUME FormStep
        PROVE records' = records \/ (\E id \in Ids : FormServed(id)) \/ PictureSet
    BY <2>3 DEF FormStep, OpenAdd, OpenChange, SaveForm, Dismiss, FormFails, FormArrives,
         ChoosePicture, PictureArrives, PictureFails
  <2>4. ASSUME UNCHANGED managementVars PROVE records' = records
    BY <2>4 DEF managementVars
  <2>5. QED  BY <2>1, <2>2, <2>3, <2>4 DEF ManagementNext
<1>6. QED  BY <1>1, <1>2, <1>3, <1>4, <1>5

-----------------------------------------------------------------------------
(* Every step keeps it: the copies *)

\* The sheet copies the rows after a step as it copied them before.
LEMMA SheetStaysCopied ==
    ASSUME NEW open, RowsHaveVersions, RowsFollow, SheetCopied(open, records)
    PROVE  SheetCopied(open, records')
BY CopiesStay DEF SheetCopied, RowsHaveVersions, RowsFollow

\* So does the form.
LEMMA FormStaysCopied ==
    ASSUME NEW f, NEW open, RowsHaveVersions, RowsFollow, FormCopied(f, open, records)
    PROVE  FormCopied(f, open, records')
<1>1. FormOver(f, open, records) => FormOver(f, open, records')
  BY CopiesStay DEF FormOver, RowsHaveVersions, RowsFollow
<1>2. FormAdds(f, records) => FormAdds(f, records')
  BY CopiesStay DEF FormAdds, RowsHaveVersions, RowsFollow
<1>3. QED  BY <1>1, <1>2 DEF FormCopied

\* So does a list.
LEMMA ListStaysCopied ==
    ASSUME NEW list, RowsHaveVersions, RowsFollow, RowsCopied(list, records)
    PROVE  RowsCopied(list, records')
BY CopiesStay DEF RowsCopied, RowsHaveVersions, RowsFollow

\* What the server lists is what it has.
LEMMA ListedIsCopied ==
    ASSUME RowsHaveVersions, NEW q, NEW at
    PROVE  RowsCopied(Listing(records, q, at), records)
<1> DEFINE list == Listing(records, q, at)
<1>1. \A id \in DOMAIN list.rows : list.rows[id] = records[id]
  BY DEF Listing
<1>2. QED  BY <1>1, OwnCopy DEF RowsCopied, RowsHaveVersions

\* The two lists.
LEMMA ListsGoOn ==
    ASSUME CopiesInv, [ManagementNext]_managementVars
    PROVE  /\ RowsCopied(fetch', records) /\ RowsCopied(result', records)
           /\ result' = NoAnswer \/ result'.stage = "answered"
<1>1. RowsCopied(Requested, records) /\ RowsCopied(NoAnswer, records)
  BY DEF RowsCopied, Requested, NoAnswer
<1>2. CASE ListAnswered
  BY <1>2, ListedIsCopied DEF CopiesInv, ListAnswered
<1>3. CASE ListArrives
  <2>1. fetch' = NoAnswer \/ fetch' = Requested  BY <1>3 DEF ListArrives
  <2>2. result' = fetch /\ fetch.stage = "answered"  BY <1>3 DEF ListArrives
  <2>3. QED  BY <2>1, <2>2, <1>1 DEF CopiesInv
<1>4. \/ ListAnswered \/ ListArrives
      \/ ((fetch' = fetch \/ fetch' = Requested \/ fetch' = NoAnswer) /\ result' = result)
  <2>1. ASSUME ListStep, ~ListAnswered, ~ListArrives
        PROVE  (fetch' = fetch \/ fetch' = Requested \/ fetch' = NoAnswer) /\ result' = result
    BY <2>1 DEF ListStep, ChangeQuestion, ToggleRow, Turns, Ask, TurnPage, ListAgain,
         ListFails, DropLateAnswer
  <2>2. ASSUME SheetStep PROVE fetch' = fetch /\ result' = result
    BY <2>2 DEF SheetStep, Open, CloseSheet, RecordAnswered, RecordArrives, RecordFails, listVars
  <2>3. ASSUME FormStep
        PROVE (fetch' = fetch \/ fetch' = Requested) /\ result' = result
    BY <2>3 DEF FormStep, OpenAdd, OpenChange, SaveForm, Dismiss, FormServed, FormFails,
         FormArrives, ChoosePicture, PictureSet, PictureArrives, PictureFails, listVars,
         AskAgain, Ask
  <2>4. ASSUME UNCHANGED managementVars PROVE fetch' = fetch /\ result' = result
    BY <2>4 DEF managementVars
  <2>5. ASSUME NEW id \in Ids, NEW f \in Entries, OtherManager(id, f)
        PROVE  fetch' = fetch /\ result' = result
    BY <2>5 DEF OtherManager, listVars
  <2>6. QED  BY <2>1, <2>2, <2>3, <2>4, <2>5 DEF ManagementNext
<1>5. QED  BY <1>1, <1>2, <1>3, <1>4 DEF CopiesInv

\* A sheet opened on a copy.
LEMMA OpenedIsCopied ==
    ASSUME NEW id \in Ids, NEW record, NEW recs, CopyOf(record, recs[id])
    PROVE  SheetCopied(Sheet(id, record), recs)
BY DEF SheetCopied, Sheet, IsSheet

\* A sheet that is read again shows what it showed.
LEMMA RereadIsCopied ==
    ASSUME NEW open, NEW recs, SheetCopied(open, recs)
    PROVE  SheetCopied(Reread(open), recs)
BY DEF SheetCopied, Reread, IsSheet, Shut

\* The sheet.
LEMMA SheetGoesOn ==
    ASSUME CopiesInv, [ManagementNext]_managementVars
    PROVE  SheetCopied(sheet', records)
<1> USE DEF CopiesInv
<1>1. SheetCopied(Shut, records)  BY DEF SheetCopied
<1>2. ASSUME NEW id \in Ids, Open(id) PROVE SheetCopied(sheet', records)
  <2>1. result.stage = "answered" /\ id \in DOMAIN result.rows
    BY <1>2 DEF Open, Shown
  <2>2. CopyOf(result.rows[id], records[id])
    BY <2>1 DEF RowsCopied
  <2>3. QED  BY <1>2, <2>2, OpenedIsCopied DEF Open
<1>3. ASSUME RecordAnswered PROVE SheetCopied(sheet', records)
  BY <1>3, OwnCopy DEF RecordAnswered, SheetCopied, IsSheet, RowsHaveVersions
<1>4. ASSUME RecordArrives PROVE SheetCopied(sheet', records)
  BY <1>4 DEF RecordArrives, SheetCopied, IsSheet
<1>5. ASSUME RecordFails PROVE SheetCopied(sheet', records)
  BY <1>5 DEF RecordFails, SheetCopied, IsSheet
<1>6. ASSUME FormArrives PROVE SheetCopied(sheet', records)
  <2>1. sheet' = Shut \/ sheet' = Reread(sheet)
        \/ (AddAnswered /\ sheet' = Sheet(form.saved, [form.wanted EXCEPT !.version = 1]))
    BY <1>6 DEF FormArrives, AddAnswered, ChangeAnswered
  <2>2. ASSUME AddAnswered
        PROVE  form.saved \in Ids
               /\ CopyOf([form.wanted EXCEPT !.version = 1], records[form.saved])
    BY <1>6, <2>2 DEF FormArrives, AddAnswered, FormCopied, FormAdds, Shut
  <2>3. QED  BY <2>1, <2>2, <1>1, OpenedIsCopied, RereadIsCopied
<1>7. ASSUME PictureArrives PROVE SheetCopied(sheet', records)
  BY <1>7, RereadIsCopied DEF PictureArrives
<1>8. sheet' = sheet \/ sheet' = Shut \/ (\E id \in Ids : Open(id)) \/ RecordAnswered
      \/ RecordArrives \/ RecordFails \/ FormArrives \/ PictureArrives
  <2>1. ASSUME ListStep PROVE sheet' = sheet
    BY <2>1 DEF ListStep, ChangeQuestion, ToggleRow, Turns, TurnPage, ListAgain, ListAnswered,
         ListArrives, ListFails, DropLateAnswer
  <2>2. ASSUME SheetStep
        PROVE  sheet' = Shut \/ (\E id \in Ids : Open(id)) \/ RecordAnswered
               \/ RecordArrives \/ RecordFails
    BY <2>2 DEF SheetStep, CloseSheet
  <2>3. ASSUME FormStep PROVE sheet' = sheet \/ FormArrives \/ PictureArrives
    BY <2>3 DEF FormStep, OpenAdd, OpenChange, SaveForm, Dismiss, FormServed, FormFails,
         ChoosePicture, PictureSet, PictureFails
  <2>4. ASSUME UNCHANGED managementVars PROVE sheet' = sheet
    BY <2>4 DEF managementVars
  <2>5. ASSUME NEW id \in Ids, NEW f \in Entries, OtherManager(id, f) PROVE sheet' = sheet
    BY <2>5 DEF OtherManager
  <2>6. QED  BY <2>1, <2>2, <2>3, <2>4, <2>5 DEF ManagementNext
<1>9. QED  BY <1>1, <1>2, <1>3, <1>4, <1>5, <1>6, <1>7, <1>8

\* A form that changes a record is over a sheet at its version, unless it is gone from
\* the page; a sheet that is read again, or as it was, is at that version still.
LEMMA FormStaysOver ==
    ASSUME NEW f, NEW open, NEW next, NEW recs, FormCopied(f, open, recs),
           f # Shut /\ f.kind # "add" /\ f.mounted =>
               next # Shut /\ next.id = open.id /\ next.record.version = open.record.version
    PROVE  FormCopied(f, next, recs)
BY DEF FormCopied, FormOver

\* A form that leaves the page has lost nothing but the page.
LEMMA DismissedIsCopied ==
    ASSUME NEW next, FormCopied(form, sheet, records)
    PROVE  FormCopied(Dismissed, next, records)
BY DEF FormCopied, FormOver, FormAdds, Dismissed, IsForm, Shut

\* A form that opens.
LEMMA OpenedFormIsCopied ==
    ASSUME NEW kind \in {"add", "edit", "status"}, NEW id, NEW shown, NEW inside \in BOOLEAN,
           FormOver(Form(kind, id, shown, inside), sheet, records)
    PROVE  FormCopied(Form(kind, id, shown, inside), sheet, records)
BY DEF FormCopied, FormAdds, Form, IsForm

\* What is sent has a version: the one that the sheet is at.
LEMMA WantedHasVersion ==
    ASSUME CopiesInv, NEW f, Mounted
    PROVE  /\ HasVersion(Wanted(f))
           /\ form.kind # "add" => Wanted(f).version = sheet.record.version
<1>1. form # Shut /\ IsForm(form)  BY DEF Mounted, CopiesInv, FormCopied, Shut
<1>2. form.kind # "add" => sheet # Shut /\ HasVersion(sheet.record)
  BY <1>1 DEF CopiesInv, FormCopied, FormOver, SheetCopied, CopyOf, Mounted
<1>3. CASE form.kind = "add"
  <2>1. Wanted(f) = Filled([f EXCEPT !.parent = form.id], [archived |-> FALSE, picture |-> FALSE], 0)
    BY <1>3 DEF Wanted
  <2>2. QED  BY <1>3, <2>1, FilledIsRow
<1>4. CASE form.kind = "edit"
  <2>1. Wanted(f) = Filled(f, sheet.record, sheet.record.version)
    BY <1>4 DEF Wanted
  <2>2. sheet.record.version \in Nat  BY <1>2, <1>4 DEF HasVersion
  <2>3. QED  BY <2>1, <2>2, FilledIsRow
<1>5. CASE form.kind = "status"
  <2>1. Wanted(f) = [sheet.record EXCEPT !.archived = ~sheet.record.archived]
    BY <1>5 DEF Wanted
  <2>2. QED  BY <1>2, <1>5, <2>1, Switched
<1>6. QED  BY <1>1, <1>3, <1>4, <1>5 DEF IsForm

\* The form that is sent.
LEMMA SentIsCopied ==
    ASSUME CopiesInv, NEW f \in Entries, SaveForm(f)
    PROVE  FormCopied(form', sheet, records)
<1>1. form # Shut /\ IsForm(form) /\ FormOver(form, sheet, records)
  BY DEF SaveForm, Mounted, CopiesInv, FormCopied, Shut
<1>2. /\ HasVersion(Wanted(f))
      /\ form.kind # "add" => Wanted(f).version = sheet.record.version
  BY WantedHasVersion DEF SaveForm
<1>3. /\ IsForm(form') /\ form'.stage = "sent" /\ form'.wanted = Wanted(f)
      /\ form'.kind = form.kind /\ form'.id = form.id /\ form'.mounted = form.mounted
      /\ form'.inside = form.inside
      /\ form'.shown = IF form.kind = "status" THEN sheet.record ELSE form.shown
  BY <1>1 DEF SaveForm, IsForm
<1>4. form.kind # "add" => sheet # Shut /\ sheet.id = form.id
                           /\ sheet.record.version = form.shown.version
  BY <1>1 DEF SaveForm, Mounted, FormOver
<1>5. form.kind # "add" => CopyOf(sheet.record, records[form.id])
  BY <1>4 DEF CopiesInv, SheetCopied
<1>6. form.kind # "add" => /\ CopyOf(form'.shown, records[form.id])
                           /\ form'.shown.version = sheet.record.version
  BY <1>1, <1>3, <1>4, <1>5 DEF FormOver
<1>7. FormOver(form', sheet, records)
  BY <1>1, <1>2, <1>3, <1>4, <1>6 DEF FormOver
<1>8. QED  BY <1>2, <1>3, <1>7 DEF FormCopied, FormAdds

\* The form that is served.
LEMMA ServedIsCopied ==
    ASSUME CopiesInv, NEW id \in Ids, FormServed(id)
    PROVE  FormCopied(form', sheet, records')
<1>1. form # Shut /\ IsForm(form) /\ FormOver(form, sheet, records) /\ HasVersion(form.wanted)
  BY DEF FormServed, CopiesInv, FormCopied, Shut
<1>2. RowsHaveVersions' /\ RowsFollow  BY ServedFollows
<1>3. /\ IsForm(form') /\ form'.stage = "accepted" /\ form'.saved = id
      /\ form'.wanted = form.wanted /\ form'.kind = form.kind /\ form'.id = form.id
      /\ form'.mounted = form.mounted /\ form'.shown = form.shown /\ form'.inside = form.inside
  BY <1>1 DEF FormServed, IsForm
<1>4. FormOver(form, sheet, records')
  BY <1>1, <1>2, CopiesStay DEF FormOver, CopiesInv, RowsHaveVersions, RowsFollow
<1>5. FormOver(form', sheet, records')
  BY <1>3, <1>4, <1>1 DEF FormOver, FormServed
<1>6. form.kind = "add" => CopyOf([form.wanted EXCEPT !.version = 1], records'[id])
  <2>1. SUFFICES ASSUME form.kind = "add"
                 PROVE  CopyOf([form.wanted EXCEPT !.version = 1], records'[id])
    OBVIOUS
  <2>2. records'[id] = [form.wanted EXCEPT !.version = 1]
    BY <2>1 DEF FormServed, Created, Updated, CopiesInv, RowsHaveVersions
  <2>3. QED  BY <2>2, <1>2, OwnCopy DEF RowsHaveVersions
<1>7. FormAdds(form', records')  BY <1>3, <1>6 DEF FormAdds
<1>8. QED  BY <1>1, <1>3, <1>5, <1>7 DEF FormCopied

\* A record that arrives in the sheet: a form at another version is gone.
LEMMA ArrivedIsCopied ==
    ASSUME CopiesInv, RecordArrives
    PROVE  FormCopied(form', sheet', records)
<1>1. sheet'.id = sheet.id /\ sheet'.record = sheet.answer /\ sheet' # Shut
  BY DEF RecordArrives, CopiesInv, SheetCopied, IsSheet, Shut
<1>2. CASE Mounted /\ form.inside /\ sheet.answer.version # sheet.record.version
  BY <1>2, DismissedIsCopied DEF RecordArrives, NewDetail, CopiesInv
<1>3. CASE ~(Mounted /\ form.inside /\ sheet.answer.version # sheet.record.version)
  <2>1. form' = form  BY <1>3 DEF RecordArrives, NewDetail
  <2>2. form # Shut /\ form.kind # "add" => form.inside
    BY DEF CopiesInv, FormCopied, FormOver
  <2>3. form # Shut /\ form.mounted => Mounted
    BY DEF Mounted, CopiesInv, FormCopied, IsForm
  <2>4. QED  BY <1>1, <1>3, <2>1, <2>2, <2>3, FormStaysOver DEF CopiesInv
<1>4. QED  BY <1>2, <1>3

\* A form that fails is open again with what it was filled from.
LEMMA FailedIsCopied ==
    ASSUME CopiesInv, FormFails
    PROVE  FormCopied(form', sheet, records)
<1>1. form # Shut /\ IsForm(form) /\ FormOver(form, sheet, records)
  BY DEF FormFails, CopiesInv, FormCopied, Shut
<1>2. CASE ~form.mounted  BY <1>2 DEF FormFails, FormCopied
<1>3. CASE form.mounted
  <2>1. form' = Form(form.kind, form.id, form.shown, form.inside)  BY <1>3 DEF FormFails
  <2>2. FormOver(Form(form.kind, form.id, form.shown, form.inside), sheet, records)
    BY <1>1, <1>3 DEF FormOver, Form
  <2>3. QED  BY <1>1, <2>1, <2>2, OpenedFormIsCopied DEF IsForm
<1>4. QED  BY <1>2, <1>3

\* The form.
LEMMA FormGoesOn ==
    ASSUME CopiesInv, [ManagementNext]_managementVars
    PROVE  FormCopied(form', sheet', records')
<1>1. RowsHaveVersions /\ RowsFollow  BY RowsGoOn DEF CopiesInv
<1>2. FormCopied(form, sheet, records) /\ SheetCopied(sheet, records)  BY DEF CopiesInv
<1>3. FormCopied(Shut, sheet', records)  BY DEF FormCopied
<1>4. SUFFICES FormCopied(form', sheet', records) \/ \E id \in Ids : FormServed(id)
  <2>1. ASSUME NEW id \in Ids, FormServed(id) PROVE FormCopied(form', sheet', records')
    <3>1. sheet' = sheet  BY <2>1 DEF FormServed
    <3>2. QED  BY <2>1, <3>1, ServedIsCopied
  <2>2. QED  BY <1>1, <2>1, <1>4, FormStaysCopied
<1>5. ASSUME form' = form,
             Mounted /\ sheet # Shut =>
                 \/ sheet' = sheet
                 \/ sheet' # Shut /\ sheet'.id = sheet.id /\ sheet'.record = sheet.record
      PROVE  FormCopied(form', sheet', records)
  <2>1. form # Shut /\ form.kind # "add" /\ form.mounted => Mounted /\ sheet # Shut
    BY <1>2 DEF FormCopied, FormOver, IsForm, Mounted
  <2>2. QED  BY <1>2, <1>5, <2>1, FormStaysOver
<1>6. ASSUME ListStep PROVE FormCopied(form', sheet', records)
  <2>1. form' = form /\ sheet' = sheet
    BY <1>6 DEF ListStep, ChangeQuestion, ToggleRow, Turns, TurnPage, ListAgain, ListAnswered,
         ListArrives, ListFails, DropLateAnswer
  <2>2. QED  BY <2>1, <1>5
<1>7. ASSUME SheetStep PROVE FormCopied(form', sheet', records)
  <2>1. CASE RecordArrives  BY <2>1, ArrivedIsCopied
  <2>2. CASE ~RecordArrives
    <3>1. form' = form  BY <1>7, <2>2 DEF SheetStep, Open, CloseSheet, RecordAnswered, RecordFails
    <3>2. sheet # Shut /\ Mounted => sheet' = [sheet EXCEPT !.stage = "answered", !.answer = records[sheet.id]]
                                     \/ sheet' = [sheet EXCEPT !.stage = "idle", !.answer = NoRecord]
      BY <1>7, <2>2 DEF SheetStep, Open, Uncovered, CloseSheet, RecordAnswered, RecordFails
    <3>3. sheet # Shut /\ Mounted => sheet' # Shut /\ sheet'.id = sheet.id /\ sheet'.record = sheet.record
      BY <1>2, <3>2 DEF SheetCopied, IsSheet, Shut
    <3>4. QED  BY <3>1, <3>3, <1>5
  <2>3. QED  BY <2>1, <2>2
<1>8. ASSUME FormStep PROVE FormCopied(form', sheet', records) \/ \E id \in Ids : FormServed(id)
  <2>1. ASSUME NEW id \in Ids \cup {Top}, OpenAdd(id) PROVE FormCopied(form', sheet', records)
    <3>1. form' = Form("add", id, NoRecord, sheet # Shut) /\ sheet' = sheet  BY <2>1 DEF OpenAdd
    <3>2. FormOver(Form("add", id, NoRecord, sheet # Shut), sheet, records)  BY DEF FormOver, Form
    <3>3. QED  BY <3>1, <3>2, OpenedFormIsCopied
  <2>2. ASSUME NEW kind \in {"edit", "status"}, OpenChange(kind)
        PROVE  FormCopied(form', sheet', records)
    <3>1. /\ form' = Form(kind, sheet.id, sheet.record, TRUE)
          /\ sheet' = sheet /\ sheet # Shut
      BY <2>2 DEF OpenChange
    <3>2. FormOver(Form(kind, sheet.id, sheet.record, TRUE), sheet, records)
      BY <1>2, <3>1 DEF FormOver, Form, SheetCopied
    <3>3. QED  BY <3>1, <3>2, OpenedFormIsCopied
  <2>3. ASSUME NEW f \in Entries, SaveForm(f) PROVE FormCopied(form', sheet', records)
    BY <2>3, SentIsCopied DEF SaveForm
  <2>4. ASSUME Dismiss PROVE FormCopied(form', sheet', records)
    BY <2>4, <1>2, DismissedIsCopied DEF Dismiss
  <2>5. ASSUME FormFails PROVE FormCopied(form', sheet', records)
    BY <2>5, FailedIsCopied DEF FormFails
  <2>6. ASSUME FormArrives PROVE FormCopied(form', sheet', records)
    BY <2>6, <1>3 DEF FormArrives
  <2>7. ASSUME \/ \E picture \in BOOLEAN : ChoosePicture(picture)
               \/ PictureSet \/ PictureFails
        PROVE  FormCopied(form', sheet', records)
    <3>1. form' = form /\ sheet' = sheet  BY <2>7 DEF ChoosePicture, PictureSet, PictureFails
    <3>2. QED  BY <3>1, <1>5
  <2>8. ASSUME PictureArrives PROVE FormCopied(form', sheet', records)
    <3>1. form' = form /\ sheet' = Reread(sheet)  BY <2>8 DEF PictureArrives
    <3>2. sheet # Shut => sheet' # Shut /\ sheet'.id = sheet.id /\ sheet'.record = sheet.record
      BY <1>2, <3>1 DEF Reread, SheetCopied, IsSheet, Shut
    <3>3. QED  BY <3>1, <3>2, <1>5
  <2>9. QED  BY <1>8, <2>1, <2>2, <2>3, <2>4, <2>5, <2>6, <2>7, <2>8 DEF FormStep
<1>9. ASSUME NEW id \in Ids, NEW f \in Entries, OtherManager(id, f)
      PROVE  FormCopied(form', sheet', records)
  <2>1. form' = form /\ sheet' = sheet  BY <1>9 DEF OtherManager
  <2>2. QED  BY <2>1, <1>5
<1>10. ASSUME UNCHANGED managementVars PROVE FormCopied(form', sheet', records)
  <2>1. form' = form /\ sheet' = sheet  BY <1>10 DEF managementVars
  <2>2. QED  BY <2>1, <1>5
<1>11. QED  BY <1>6, <1>7, <1>8, <1>9, <1>10 DEF ManagementNext

\* The picture.
LEMMA UploadGoesOn ==
    ASSUME CopiesInv, [ManagementNext]_managementVars
    PROVE  UploadFits'
<1>1. UploadFits  BY DEF CopiesInv
<1>2. upload' = upload \/ upload' = NoAnswer \/ PictureSet
      \/ (\E picture \in BOOLEAN : ChoosePicture(picture))
  <2>1. ASSUME ListStep PROVE upload' = upload
    BY <2>1 DEF ListStep, ChangeQuestion, ToggleRow, Turns, TurnPage, ListAgain, ListAnswered,
         ListArrives, ListFails, DropLateAnswer
  <2>2. ASSUME SheetStep PROVE upload' = upload
    BY <2>2 DEF SheetStep, Open, CloseSheet, RecordAnswered, RecordArrives, RecordFails
  <2>3. ASSUME FormStep PROVE upload' = upload \/ upload' = NoAnswer \/ PictureSet
                              \/ (\E picture \in BOOLEAN : ChoosePicture(picture))
    BY <2>3 DEF FormStep, OpenAdd, OpenChange, SaveForm, Dismiss, FormServed, FormFails,
         FormArrives, PictureArrives, PictureFails
  <2>4. ASSUME UNCHANGED managementVars PROVE upload' = upload
    BY <2>4 DEF managementVars
  <2>5. ASSUME NEW id \in Ids, NEW f \in Entries, OtherManager(id, f) PROVE upload' = upload
    BY <2>5 DEF OtherManager
  <2>6. QED  BY <2>1, <2>2, <2>3, <2>4, <2>5 DEF ManagementNext
<1>3. ASSUME NEW picture \in BOOLEAN, ChoosePicture(picture) PROVE UploadFits'
  <2>1. sheet.id \in Ids  BY <1>3 DEF ChoosePicture, CopiesInv, SheetCopied
  <2>2. QED  BY <1>3, <2>1 DEF ChoosePicture, UploadFits, IsUpload
<1>4. ASSUME PictureSet PROVE UploadFits'
  BY <1>1, <1>4 DEF PictureSet, UploadFits, IsUpload, NoAnswer
<1>5. QED  BY <1>1, <1>2, <1>3, <1>4 DEF UploadFits

-----------------------------------------------------------------------------
\* At the start nothing is open and only the rows are there.
LEMMA CopiesStart == ManagementInit => CopiesInv
<1> SUFFICES ASSUME ManagementInit PROVE CopiesInv
  OBVIOUS
<1>1. \A id \in Ids : HasVersion(Stored[id]) /\ HasVersion([Stored[id] EXCEPT !.parent = Top])
  <2>1. SUFFICES ASSUME NEW id \in Ids
                 PROVE  HasVersion(Stored[id]) /\ HasVersion([Stored[id] EXCEPT !.parent = Top])
    OBVIOUS
  <2>2. Stored[id] \in Record \/ Stored[id] = NoRecord  BY ManagementAssumption
  <2>3. HasVersion(Stored[id])  BY <2>2 DEF Record, NoRecord, HasVersion, Fields
  <2>4. QED  BY <2>3 DEF HasVersion, Fields
<1>2. RowsHaveVersions  BY <1>1 DEF ManagementInit, RowsHaveVersions
<1>3. QED
  BY <1>2 DEF ManagementInit, CopiesInv, RowsCopied, SheetCopied, FormCopied, UploadFits,
     Requested, NoAnswer

\* Every step keeps the copies.
LEMMA CopiesKept == CopiesInv /\ [ManagementNext]_managementVars => CopiesInv'
<1> SUFFICES ASSUME CopiesInv, [ManagementNext]_managementVars PROVE CopiesInv'
  OBVIOUS
<1>1. RowsHaveVersions' /\ RowsFollow /\ RowsHaveVersions  BY RowsGoOn DEF CopiesInv
<1>2. RowsCopied(fetch', records') /\ RowsCopied(result', records')
  BY <1>1, ListsGoOn, ListStaysCopied
<1>3. SheetCopied(sheet', records')  BY <1>1, SheetGoesOn, SheetStaysCopied
<1>4. QED  BY <1>1, <1>2, <1>3, ListsGoOn, FormGoesOn, UploadGoesOn DEF CopiesInv

\* An edit replaces what it was filled from (store: updateCategory, updateCatalogItem).
THEOREM EditsAlwaysReplaceWhatTheyShowed == ManagementSpec => EditsReplaceWhatTheyShowed
<1>1. CopiesInv /\ [ManagementNext]_managementVars
      => [form.kind \in {"edit", "status"} /\ form'.kind = form.kind
             /\ form.stage = "sent" /\ form'.stage = "accepted"
          => [form.shown EXCEPT !.picture = FALSE] = [records[form.id] EXCEPT !.picture = FALSE]
         ]_managementVars
  <2> SUFFICES ASSUME CopiesInv, ManagementNext, form.kind \in {"edit", "status"},
                      form'.kind = form.kind, form.stage = "sent", form'.stage = "accepted"
               PROVE  [form.shown EXCEPT !.picture = FALSE]
                      = [records[form.id] EXCEPT !.picture = FALSE]
    OBVIOUS
  <2>1. form # Shut /\ IsForm(form) /\ FormOver(form, sheet, records)
    BY DEF CopiesInv, FormCopied, Shut
  <2>2. PICK id \in Ids : FormServed(id)
    <3>1. ~ListStep
      BY DEF ListStep, ChangeQuestion, ToggleRow, Turns, TurnPage, ListAgain, ListAnswered,
         ListArrives, ListFails, DropLateAnswer
    <3>2. ~SheetStep
      BY <2>1 DEF SheetStep, Open, CloseSheet, RecordAnswered, RecordArrives, RecordFails,
         NewDetail, Dismissed, Shut, IsForm
    <3>3. ~\E id \in Ids, f \in Entries : OtherManager(id, f)  BY DEF OtherManager
    <3>4. FormStep  BY <3>1, <3>2, <3>3 DEF ManagementNext
    <3>5. ~(\/ \E id \in Ids \cup {Top} : OpenAdd(id)
            \/ \E kind \in {"edit", "status"} : OpenChange(kind)
            \/ \E f \in Entries : SaveForm(f))
      BY <2>1 DEF OpenAdd, OpenChange, SaveForm
    <3>6. ~Dismiss  BY <2>1 DEF Dismiss, Dismissed, Shut, IsForm
    <3>7. ~FormFails  BY <2>1 DEF FormFails, Form, Shut
    <3>8. ~FormArrives  BY DEF FormArrives
    <3>9. ~(\/ \E picture \in BOOLEAN : ChoosePicture(picture)
            \/ PictureSet \/ PictureArrives \/ PictureFails)
      BY DEF ChoosePicture, PictureSet, PictureArrives, PictureFails
    <3>10. QED  BY <3>4, <3>5, <3>6, <3>7, <3>8, <3>9 DEF FormStep
  <2>3. id = form.id /\ records[id].version = form.wanted.version
    BY <2>2 DEF FormServed, Created, Updated
  <2>4. QED  BY <2>1, <2>3 DEF FormOver, CopyOf, SameFields
<1>2. QED  BY <1>1, CopiesStart, CopiesKept, PTL DEF ManagementSpec, EditsReplaceWhatTheyShowed

-----------------------------------------------------------------------------
(* The list *)

\* A list that answers what is asked and knows of the page's own changes.
Current(list) ==
    /\ list.stage = "answered" /\ list.question = question
    /\ list.at \in Nat /\ known <= list.at /\ list.at <= clock

\* When the changes were made that the page does not know of yet.
MadeBy(at) == at \in Nat /\ at <= clock
FormMade == form.kind # "none" /\ form.stage = "accepted" => MadeBy(form.at)
UploadMade == upload.stage = "stored" => MadeBy(upload.at)
Times == clock \in Nat /\ known \in Nat /\ known <= clock
FetchCurrent == fetch = NoAnswer \/ fetch = Requested \/ Current(fetch)
ResultCurrent == Settled => Current(result)

ListInv ==
    /\ Times /\ failed \in BOOLEAN
    /\ FetchCurrent /\ ResultCurrent
    /\ FormMade /\ UploadMade

\* With no list asked for or arriving, a list that is current stays so while changes
\* are made that the page does not know of.
LEMMA ListWaits ==
    ASSUME ListInv, UNCHANGED <<question, fetch, result, failed, known>>,
           clock' \in Nat, clock <= clock', FormMade', UploadMade'
    PROVE  ListInv'
<1>1. Current(fetch) => Current(fetch)'  BY DEF Current, ListInv, Times
<1>2. Current(result) => Current(result)'  BY DEF Current, ListInv, Times
<1>3. Settled' = Settled  BY DEF Settled, Loading
<1>4. Times'  BY DEF ListInv, Times
<1>5. FetchCurrent'  BY <1>1 DEF ListInv, FetchCurrent
<1>6. ResultCurrent'  BY <1>2, <1>3 DEF ListInv, ResultCurrent
<1>7. QED  BY <1>4, <1>5, <1>6 DEF ListInv

\* A form or a picture that was there before was made before.
LEMMA FormMadeStays ==
    ASSUME ListInv, clock' \in Nat, clock <= clock',
           form'.kind # "none" /\ form'.stage = "accepted" =>
               form.kind # "none" /\ form.stage = "accepted" /\ form'.at = form.at
    PROVE  FormMade'
BY DEF ListInv, Times, FormMade, MadeBy

\* Nor was a picture made later than it was.
LEMMA UploadMadeStays ==
    ASSUME ListInv, clock' \in Nat, clock <= clock', UNCHANGED upload
    PROVE  UploadMade'
BY DEF ListInv, Times, UploadMade, MadeBy

\* A list is asked for.
LEMMA ListAsked ==
    ASSUME ListInv, Ask, UNCHANGED clock, known' \in Nat, known' <= clock, FormMade', UploadMade'
    PROVE  ListInv'
<1>1. ~Settled'  BY DEF Ask, Settled, Loading, Requested
<1>2. Times'  BY DEF ListInv, Times
<1>3. FetchCurrent'  BY DEF Ask, FetchCurrent
<1>4. (failed \in BOOLEAN)'  BY DEF Ask
<1>5. QED  BY <1>1, <1>2, <1>3, <1>4 DEF ListInv, ResultCurrent

\* The later of two changes was made.
LEMMA LaterIsMade ==
    ASSUME ListInv, NEW at, MadeBy(at)
    PROVE  Later(at) \in Nat /\ Later(at) <= clock
BY DEF ListInv, Times, MadeBy, Later

\* The steps of the list.
LEMMA ListStepKeeps ==
    ASSUME ListInv, ListStep
    PROVE  ListInv'
<1>1. ASSUME UNCHANGED <<clock, form, upload>> PROVE FormMade' /\ UploadMade'
  BY <1>1, FormMadeStays, UploadMadeStays DEF ListInv, Times
<1>2. ASSUME NEW q, Turns(q) PROVE ListInv'
  <2>1. Ask /\ UNCHANGED <<clock, upload, known, form>>  BY <1>2 DEF Turns
  <2>2. QED  BY <2>1, <1>1, ListAsked DEF ListInv, Times
<1>3. ASSUME ListAgain PROVE ListInv'
  <2>1. Ask /\ UNCHANGED <<clock, upload, known, form>>  BY <1>3 DEF ListAgain
  <2>2. QED  BY <2>1, <1>1, ListAsked DEF ListInv, Times
<1>4. ASSUME ListAnswered PROVE ListInv'
  <2>1. /\ fetch'.stage = "answered" /\ fetch'.question = question /\ fetch'.at = clock
        /\ UNCHANGED <<question, known, clock, failed, result, form, upload>>
    BY <1>4 DEF ListAnswered, Listing
  <2>2. Current(fetch)'  BY <2>1 DEF Current, ListInv, Times
  <2>3. ~Settled'  BY <2>1 DEF Settled, Loading
  <2>4. QED  BY <2>1, <2>2, <2>3, <1>1 DEF ListInv, Times, FetchCurrent, ResultCurrent
<1>5. ASSUME ListArrives PROVE ListInv'
  <2>1. /\ result' = fetch /\ fetch.stage = "answered"
        /\ fetch' = IF question' = question THEN NoAnswer ELSE Requested
        /\ UNCHANGED <<known, clock, failed, form, upload>>
    BY <1>5 DEF ListArrives
  <2>2. Current(fetch)  BY <2>1 DEF ListInv, FetchCurrent, NoAnswer, Requested
  <2>3. FetchCurrent'  BY <2>1 DEF FetchCurrent
  <2>4. ResultCurrent'
    <3>1. CASE question' = question
      <4>1. Current(result)'  BY <2>1, <2>2, <3>1 DEF Current
      <4>2. QED  BY <4>1 DEF ResultCurrent
    <3>2. CASE question' # question
      <4>1. ~Settled'  BY <2>1, <3>2 DEF Settled, Loading, Requested
      <4>2. QED  BY <4>1 DEF ResultCurrent
    <3>3. QED  BY <3>1, <3>2
  <2>5. Times' /\ (failed \in BOOLEAN)'  BY <2>1 DEF ListInv, Times
  <2>6. QED  BY <2>1, <2>3, <2>4, <2>5, <1>1 DEF ListInv
<1>6. ASSUME ListFails PROVE ListInv'
  <2>1. ~Settled'  BY <1>6 DEF ListFails, Settled
  <2>2. FetchCurrent' /\ (failed \in BOOLEAN)'  BY <1>6 DEF ListFails, FetchCurrent
  <2>3. UNCHANGED <<known, clock, form, upload>>  BY <1>6 DEF ListFails
  <2>4. Times'  BY <2>3 DEF ListInv, Times
  <2>5. QED  BY <2>1, <2>2, <2>3, <2>4, <1>1 DEF ListInv, ResultCurrent
<1>7. ASSUME DropLateAnswer PROVE ListInv'
  <2>1. UNCHANGED <<question, fetch, result, failed, known, clock, form, upload>>
    BY <1>7 DEF DropLateAnswer
  <2>2. QED  BY <2>1, <1>1, ListWaits DEF ListInv, Times
<1>8. ASSUME NEW filters \in Questions, ChangeQuestion(filters) PROVE ListInv'
  BY <1>8, <1>2 DEF ChangeQuestion
<1>9. ASSUME NEW id \in Ids, ToggleRow(id) PROVE ListInv'
  BY <1>9, <1>2 DEF ToggleRow
<1>10. ASSUME TurnPage PROVE ListInv'
  BY <1>10, <1>2 DEF TurnPage
<1>11. QED
  BY <1>3, <1>4, <1>5, <1>6, <1>7, <1>8, <1>9, <1>10 DEF ListStep

\* A step that asks for no list, and whose form was made when it was.
LEMMA NoListAsked ==
    ASSUME ListInv, UNCHANGED <<question, fetch, result, failed, known, clock>>,
           form'.kind # "none" /\ form'.stage = "accepted" =>
               form.kind # "none" /\ form.stage = "accepted" /\ form'.at = form.at,
           upload' = upload \/ upload'.stage # "stored"
    PROVE  ListInv'
<1>1. FormMade'  BY FormMadeStays DEF ListInv, Times
<1>2. UploadMade'  BY UploadMadeStays DEF ListInv, Times, UploadMade
<1>3. QED  BY <1>1, <1>2, ListWaits DEF ListInv, Times

\* The steps of the sheet ask for no list.
LEMMA SheetStepKeeps ==
    ASSUME ListInv, CopiesInv, SheetStep
    PROVE  ListInv'
<1>1. UNCHANGED <<question, fetch, result, failed, known, clock, upload>>
  BY DEF SheetStep, Open, CloseSheet, RecordAnswered, RecordArrives, RecordFails, listVars
<1>2. form' = form \/ form' = Dismissed
  BY DEF SheetStep, Open, CloseSheet, RecordAnswered, RecordArrives, RecordFails, NewDetail
<1>3. form'.kind # "none" /\ form'.stage = "accepted" =>
          form.kind # "none" /\ form.stage = "accepted" /\ form'.at = form.at
  BY <1>2 DEF Dismissed, CopiesInv, FormCopied, IsForm, Shut
<1>4. QED  BY <1>1, <1>3, NoListAsked

\* The steps of the forms and of the picture.
LEMMA FormStepKeeps ==
    ASSUME ListInv, CopiesInv, FormStep
    PROVE  ListInv'
<1>1. Times  BY DEF ListInv
<1>2. ASSUME NEW id \in Ids \cup {Top}, OpenAdd(id) PROVE ListInv'
  BY <1>2, NoListAsked DEF OpenAdd, Form, listVars
<1>3. ASSUME NEW kind \in {"edit", "status"}, OpenChange(kind) PROVE ListInv'
  BY <1>3, NoListAsked DEF OpenChange, Form, listVars
<1>4. ASSUME NEW f \in Entries, SaveForm(f) PROVE ListInv'
  <2>1. form'.stage = "sent"
    BY <1>4 DEF SaveForm, Mounted, CopiesInv, FormCopied, IsForm, Shut
  <2>2. QED  BY <1>4, <2>1, NoListAsked DEF SaveForm, listVars
<1>5. ASSUME Dismiss PROVE ListInv'
  <2>1. form'.kind # "none" /\ form'.stage = "accepted" =>
            form.kind # "none" /\ form.stage = "accepted" /\ form'.at = form.at
    BY <1>5 DEF Dismiss, Dismissed, CopiesInv, FormCopied, IsForm, Shut
  <2>2. QED  BY <1>5, <2>1, NoListAsked DEF Dismiss, listVars
<1>6. ASSUME FormFails PROVE ListInv'
  <2>1. ~(form'.kind # "none" /\ form'.stage = "accepted")
    BY <1>6 DEF FormFails, Form, Shut
  <2>2. QED  BY <1>6, <2>1, NoListAsked DEF FormFails, listVars
<1>7. ASSUME NEW id \in Ids, FormServed(id) PROVE ListInv'
  <2>1. UNCHANGED <<question, fetch, result, failed, known, upload>> /\ clock' = clock + 1
    BY <1>7 DEF FormServed, listVars
  <2>2. form'.at = clock + 1
    BY <1>7 DEF FormServed, CopiesInv, FormCopied, IsForm, Shut
  <2>3. FormMade'  BY <1>1, <2>1, <2>2 DEF FormMade, MadeBy, Times
  <2>4. QED  BY <1>1, <2>1, <2>3, UploadMadeStays, ListWaits DEF Times
<1>8. ASSUME FormArrives PROVE ListInv'
  <2>1. MadeBy(form.at)  BY <1>8 DEF FormArrives, ListInv, FormMade
  <2>2. Ask /\ UNCHANGED <<clock, upload>> /\ known' = Later(form.at) /\ form' = Shut
    BY <1>8 DEF FormArrives, AskAgain
  <2>3. FormMade'  BY <2>2 DEF FormMade, Shut
  <2>4. UploadMade'  BY <1>1, <2>2, UploadMadeStays DEF Times
  <2>5. known' \in Nat /\ known' <= clock  BY <2>1, <2>2, LaterIsMade
  <2>6. QED  BY <2>2, <2>3, <2>4, <2>5, ListAsked
<1>9. ASSUME NEW picture \in BOOLEAN, ChoosePicture(picture) PROVE ListInv'
  BY <1>9, NoListAsked DEF ChoosePicture, listVars
<1>10. ASSUME PictureSet PROVE ListInv'
  <2>1. UNCHANGED <<question, fetch, result, failed, known, form>> /\ clock' = clock + 1
    BY <1>10 DEF PictureSet, listVars
  <2>2. upload'.at = clock + 1
    BY <1>10 DEF PictureSet, CopiesInv, UploadFits, IsUpload, NoAnswer
  <2>3. UploadMade'  BY <1>1, <2>1, <2>2 DEF UploadMade, MadeBy, Times
  <2>4. QED  BY <1>1, <2>1, <2>3, FormMadeStays, ListWaits DEF Times
<1>11. ASSUME PictureArrives PROVE ListInv'
  <2>1. MadeBy(upload.at)  BY <1>11 DEF PictureArrives, ListInv, UploadMade
  <2>2. Ask /\ UNCHANGED <<clock, form>> /\ known' = Later(upload.at) /\ upload' = NoAnswer
    BY <1>11 DEF PictureArrives, AskAgain
  <2>3. UploadMade'  BY <2>2 DEF UploadMade, NoAnswer
  <2>4. FormMade'  BY <1>1, <2>2, FormMadeStays DEF Times
  <2>5. known' \in Nat /\ known' <= clock  BY <2>1, <2>2, LaterIsMade
  <2>6. QED  BY <2>2, <2>3, <2>4, <2>5, ListAsked
<1>12. ASSUME PictureFails PROVE ListInv'
  BY <1>12, NoListAsked DEF PictureFails, NoAnswer, listVars
<1>13. QED
  BY <1>2, <1>3, <1>4, <1>5, <1>6, <1>7, <1>8, <1>9, <1>10, <1>11, <1>12 DEF FormStep

\* Every step.
LEMMA ListKept == ListInv /\ CopiesInv /\ [ManagementNext]_managementVars => ListInv'
<1> SUFFICES ASSUME ListInv, CopiesInv, [ManagementNext]_managementVars PROVE ListInv'
  OBVIOUS
<1>1. ASSUME NEW id \in Ids, NEW f \in Entries, OtherManager(id, f) PROVE ListInv'
  <2>1. UNCHANGED <<question, fetch, result, failed, known, form, upload>> /\ clock' = clock + 1
    BY <1>1 DEF OtherManager, listVars
  <2>2. clock' \in Nat /\ clock <= clock'  BY <2>1 DEF ListInv, Times
  <2>3. QED  BY <2>1, <2>2, ListWaits, FormMadeStays, UploadMadeStays
<1>2. ASSUME UNCHANGED managementVars PROVE ListInv'
  BY <1>2, NoListAsked DEF managementVars
<1>3. QED  BY <1>1, <1>2, ListStepKeeps, SheetStepKeeps, FormStepKeeps DEF ManagementNext

\* At the start a list is asked for.
LEMMA ListStarts == ManagementInit => ListInv
<1> SUFFICES ASSUME ManagementInit PROVE ListInv
  OBVIOUS
<1>1. Times /\ FetchCurrent  BY DEF ManagementInit, Times, FetchCurrent
<1>2. failed \in BOOLEAN
  <2>1. failed = FALSE  BY DEF ManagementInit
  <2>2. QED  BY <2>1
<1>3. ~Settled  BY DEF ManagementInit, Settled, Loading, Requested
<1>4. FormMade /\ UploadMade  BY DEF ManagementInit, FormMade, UploadMade, Shut, NoAnswer
<1>5. QED  BY <1>1, <1>2, <1>3, <1>4 DEF ListInv, ResultCurrent

\* A list that says it is up to date is (management-data.ts: useManagementPage).
THEOREM ListsBecomeCurrent == ManagementSpec => []ListIsCurrent
<1>1. ListInv => ListIsCurrent
  BY DEF ListInv, ResultCurrent, Times, Current, ListIsCurrent
<1>2. QED  BY <1>1, CopiesStart, CopiesKept, ListStarts, ListKept, PTL DEF ManagementSpec

-----------------------------------------------------------------------------
(* Placing: the way up *)

\* The way up in n steps, as a function.
IsWay(above, recs, id, n) ==
    above = [k \in 0 .. n |->
                IF k = 0 THEN {id}
                ELSE above[k - 1] \cup UNION {Parents(recs, j) : j \in above[k - 1]}]

\* There is one of any length.
LEMMA WayExists ==
    ASSUME NEW recs, NEW id
    PROVE  \A n \in Nat : \E above : IsWay(above, recs, id, n)
<1> DEFINE T == {n \in Nat : \E above : IsWay(above, recs, id, n)}
           Next1(set) == set \cup UNION {Parents(recs, j) : j \in set}
<1>1. 0 \in T
  <2>1. IsWay([k \in 0 .. 0 |-> {id}], recs, id, 0)  BY DEF IsWay
  <2>2. QED  BY <2>1
<1>2. ASSUME NEW n \in Nat, n \in T PROVE n + 1 \in T
  <2>1. PICK above : IsWay(above, recs, id, n)  BY <1>2
  <2> DEFINE longer == [k \in 0 .. n + 1 |-> IF k = n + 1 THEN Next1(above[n]) ELSE above[k]]
  <2>2. \A k \in 0 .. n : above[k] = IF k = 0 THEN {id} ELSE Next1(above[k - 1])
    BY <2>1 DEF IsWay
  <2> HIDE DEF Next1
  <2>3. \A k \in 0 .. n : longer[k] = above[k]
    OBVIOUS
  <2>4. longer[n + 1] = Next1(above[n])
    OBVIOUS
  <2>5. longer = [k \in 0 .. n + 1 |-> longer[k]]
    OBVIOUS
  <2> HIDE DEF longer
  <2>6. \A k \in 0 .. n + 1 : longer[k] = IF k = 0 THEN {id} ELSE Next1(longer[k - 1])
    <3> SUFFICES ASSUME NEW k \in 0 .. n + 1
                 PROVE  longer[k] = IF k = 0 THEN {id} ELSE Next1(longer[k - 1])
      OBVIOUS
    <3>1. CASE k = n + 1
      <4>1. k # 0 /\ k - 1 = n /\ n \in 0 .. n  BY <3>1
      <4>2. QED  BY <3>1, <4>1, <2>3, <2>4
    <3>2. CASE k # n + 1
      <4>1. k \in 0 .. n /\ (k # 0 => k - 1 \in 0 .. n)  BY <3>2
      <4>2. QED  BY <4>1, <2>2, <2>3
    <3>3. QED  BY <3>1, <3>2
  <2>7. IsWay(longer, recs, id, n + 1)
    BY <2>5, <2>6 DEF IsWay, Next1
  <2>8. QED  BY <2>7
<1> HIDE DEF T
<1>3. \A n \in Nat : n \in T  BY <1>1, <1>2, EveryNumber
<1>4. QED  BY <1>3 DEF T

\* What a way is like, and where it ends.
LeadsUp(above, recs, id) ==
    /\ Path(recs, id) = above[Cardinality(Ids)]
    /\ above[0] = {id}
    /\ \A n \in Nat : n + 1 <= Cardinality(Ids) =>
          above[n + 1] = above[n] \cup UNION {Parents(recs, j) : j \in above[n]}

\* A path is one.
LEMMA PathIsAWay ==
    ASSUME NEW recs, NEW id
    PROVE  Cardinality(Ids) \in Nat /\ \E above : LeadsUp(above, recs, id)
<1> DEFINE last == Cardinality(Ids)
           above == CHOOSE way : IsWay(way, recs, id, last)
<1>1. last \in Nat  BY ManagementAssumption, FS_CardinalityType
<1>2. IsWay(above, recs, id, last)  BY <1>1, WayExists
<1>3. Path(recs, id) = above[last]  BY DEF Path, IsWay
<1> HIDE DEF above, last
<1>4. \A k \in 0 .. last : above[k] = IF k = 0 THEN {id}
                ELSE above[k - 1] \cup UNION {Parents(recs, j) : j \in above[k - 1]}
  BY <1>2 DEF IsWay
<1>5. above[0] = {id}
  <2>1. 0 \in 0 .. last  BY <1>1
  <2>2. QED  BY <1>4, <2>1
<1>6. ASSUME NEW n \in Nat, n + 1 <= last
      PROVE  above[n + 1] = above[n] \cup UNION {Parents(recs, j) : j \in above[n]}
  <2>1. n + 1 \in 0 .. last /\ n + 1 # 0 /\ (n + 1) - 1 = n  BY <1>1, <1>6
  <2>2. QED  BY <1>4, <2>1
<1>7. QED  BY <1>1, <1>3, <1>5, <1>6 DEF LeadsUp, last

\* Whatever has a record and, with each, what it lies in has all that is above it.
LEMMA PathStays ==
    ASSUME NEW recs, NEW S, NEW id \in S, \A j \in S : Parents(recs, j) \subseteq S
    PROVE  Path(recs, id) \subseteq S
<1>1. PICK above : LeadsUp(above, recs, id)  BY PathIsAWay
<1>2. Cardinality(Ids) \in Nat  BY PathIsAWay
<1> DEFINE T == {n \in Nat : n <= Cardinality(Ids) => above[n] \subseteq S}
<1>3. 0 \in T  BY <1>1 DEF LeadsUp
<1>4. ASSUME NEW n \in Nat, n \in T PROVE n + 1 \in T
  BY <1>1, <1>2, <1>4 DEF LeadsUp
<1> HIDE DEF T
<1>5. \A n \in Nat : n \in T  BY <1>3, <1>4, EveryNumber
<1>6. QED  BY <1>1, <1>2, <1>5 DEF T, LeadsUp

\* A record is on its own path.
LEMMA PathBegins ==
    ASSUME NEW recs, NEW id
    PROVE  id \in Path(recs, id)
<1>1. PICK above : LeadsUp(above, recs, id)  BY PathIsAWay
<1>2. Cardinality(Ids) \in Nat  BY PathIsAWay
<1> DEFINE T == {n \in Nat : n <= Cardinality(Ids) => id \in above[n]}
<1>3. 0 \in T  BY <1>1 DEF LeadsUp
<1>4. ASSUME NEW n \in Nat, n \in T PROVE n + 1 \in T
  BY <1>1, <1>2, <1>4 DEF LeadsUp
<1> HIDE DEF T
<1>5. \A n \in Nat : n \in T  BY <1>3, <1>4, EveryNumber
<1>6. QED  BY <1>1, <1>2, <1>5 DEF T, LeadsUp

\* Records that lie where they lay have the paths they had.
LEMMA PathSame ==
    ASSUME NEW recs, NEW next, NEW S, NEW id \in S, \A j \in S : Parents(recs, j) \subseteq S,
           \A j \in S : Parents(next, j) = Parents(recs, j)
    PROVE  Path(next, id) = Path(recs, id)
<1>1. PICK above : LeadsUp(above, recs, id)  BY PathIsAWay
<1>2. PICK now : LeadsUp(now, next, id)  BY PathIsAWay
<1>3. Cardinality(Ids) \in Nat  BY PathIsAWay
<1> DEFINE T == {n \in Nat : n <= Cardinality(Ids) => now[n] = above[n] /\ above[n] \subseteq S}
<1>4. 0 \in T  BY <1>1, <1>2 DEF LeadsUp
<1>5. ASSUME NEW n \in Nat, n \in T PROVE n + 1 \in T
  <2> SUFFICES ASSUME n + 1 <= Cardinality(Ids)
               PROVE  now[n + 1] = above[n + 1] /\ above[n + 1] \subseteq S
    OBVIOUS
  <2>1. now[n] = above[n] /\ above[n] \subseteq S  BY <1>3, <1>5
  <2>2. {Parents(next, j) : j \in now[n]} = {Parents(recs, j) : j \in above[n]}  BY <2>1
  <2>3. now[n + 1] = above[n + 1]  BY <1>1, <1>2, <2>1, <2>2 DEF LeadsUp
  <2>4. above[n + 1] \subseteq S  BY <1>1, <2>1 DEF LeadsUp
  <2>5. QED  BY <2>3, <2>4
<1> HIDE DEF T
<1>6. \A n \in Nat : n \in T  BY <1>4, <1>5, EveryNumber
<1>7. QED  BY <1>1, <1>2, <1>3, <1>6 DEF T, LeadsUp

\* What is above a record, but for the record itself, has something in it.
LEMMA PathHoldsSomething ==
    ASSUME NEW recs, NEW S, NEW id \in S, \A j \in S : Parents(recs, j) \subseteq S,
           NEW up \in Path(recs, id), up # id
    PROVE  \E j \in S : up \in Parents(recs, j)
<1> DEFINE R == {x \in S : x = id \/ \E j \in S : x \in Parents(recs, j)}
<1>1. id \in R /\ \A j \in R : Parents(recs, j) \subseteq R
  OBVIOUS
<1> HIDE DEF R
<1>2. Path(recs, id) \subseteq R  BY <1>1, PathStays
<1>3. QED  BY <1>2 DEF R

-----------------------------------------------------------------------------
(* Rows and pages *)

\* What a record lies in is stored.
Closed(recs) == \A id \in Present(recs) : Parents(recs, id) \subseteq Present(recs)

\* So is all that is above it.
LEMMA PathIsPresent ==
    ASSUME NEW recs, Closed(recs), NEW id \in Present(recs)
    PROVE  Path(recs, id) \subseteq Present(recs)
BY PathStays DEF Closed

\* Records that differ in pictures.
Alike(recs, next) ==
    \A id \in Ids : /\ next[id].version = recs[id].version
                    /\ next[id].parent = recs[id].parent
                    /\ next[id].visibility = recs[id].visibility
                    /\ next[id].named = recs[id].named
                    /\ next[id].archived = recs[id].archived

\* They lie where they lay.
LEMMA AlikePaths ==
    ASSUME NEW recs, NEW next, Closed(recs), Alike(recs, next)
    PROVE  /\ Present(next) = Present(recs) /\ Closed(next)
           /\ \A id \in Ids : Parents(next, id) = Parents(recs, id)
           /\ \A id \in Present(recs) : Path(next, id) = Path(recs, id)
<1>1. Present(next) = Present(recs)  BY DEF Present, Alike
<1>2. \A id \in Ids : Parents(next, id) = Parents(recs, id)  BY DEF Parents, Alike
<1>3. Present(recs) \subseteq Ids  BY DEF Present
<1>4. Closed(next)  BY <1>1, <1>2, <1>3 DEF Closed
<1>5. \A j \in Present(recs) : Parents(next, j) = Parents(recs, j)  BY <1>2, <1>3
<1>6. \A j \in Present(recs) : Parents(recs, j) \subseteq Present(recs)  BY DEF Closed
<1>7. \A id \in Present(recs) : Path(next, id) = Path(recs, id)
  BY <1>5, <1>6, PathSame
<1>8. QED  BY <1>1, <1>2, <1>4, <1>7

\* The same of them match.
LEMMA AlikeMatched ==
    ASSUME NEW recs, NEW next, Closed(recs), Alike(recs, next), NEW q
    PROVE  Matched(next, q) = Matched(recs, q)
<1>1. Present(next) = Present(recs) /\ Present(recs) \subseteq Ids
  BY AlikePaths DEF Present
<1>2. ASSUME NEW id \in Present(recs)
      PROVE  /\ MatchesFilters(next, q, id) = MatchesFilters(recs, q, id)
             /\ next[id].archived = recs[id].archived
  <2>1. Path(next, id) = Path(recs, id) /\ Path(recs, id) \subseteq Ids
    BY <1>1, AlikePaths, PathIsPresent
  <2>2. (\E j \in Path(next, id) : next[j].named) = (\E j \in Path(recs, id) : recs[j].named)
    BY <2>1 DEF Alike
  <2>3. next[id].visibility = recs[id].visibility /\ next[id].archived = recs[id].archived
    BY <1>1 DEF Alike
  <2>4. QED  BY <2>2, <2>3, Zenon DEF MatchesFilters
<1>3. QED  BY <1>1, <1>2 DEF Matched

\* What matches is stored, and what is listed is.
LEMMA RowsArePresent ==
    ASSUME NEW recs, Closed(recs), NEW q
    PROVE  Matched(recs, q) \subseteq Present(recs) /\ Rows(recs, q) \subseteq Present(recs)
<1>1. Matched(recs, q) \subseteq Present(recs)  BY DEF Matched
<1>2. TreeRows(recs, q) \subseteq Present(recs)  BY <1>1, PathIsPresent DEF TreeRows
<1>3. QED  BY <1>1, <1>2 DEF Rows, FlatRows

\* The same of them are listed.
LEMMA AlikeRows ==
    ASSUME NEW recs, NEW next, Closed(recs), Alike(recs, next), NEW q
    PROVE  Rows(next, q) = Rows(recs, q)
<1>1. Matched(next, q) = Matched(recs, q) /\ Matched(recs, q) \subseteq Present(recs)
  BY AlikeMatched, RowsArePresent
<1>2. \A id \in Present(recs) : Path(next, id) = Path(recs, id)  BY AlikePaths
<1>3. \A id : Unfolded(next, q, id) = Unfolded(recs, q, id)
  <2> SUFFICES ASSUME NEW id PROVE Unfolded(next, q, id) = Unfolded(recs, q, id)
    OBVIOUS
  <2>1. (q.placing \in Matched(next, q) /\ id \in Path(next, q.placing))
        = (q.placing \in Matched(recs, q) /\ id \in Path(recs, q.placing))
    BY <1>1, <1>2
  <2>2. QED  BY <1>1, <2>1, Zenon DEF Unfolded
<1>4. TreeRows(next, q) = TreeRows(recs, q)
  <2>1. {Path(next, m) : m \in Matched(next, q)} = {Path(recs, m) : m \in Matched(recs, q)}
    BY <1>1, <1>2
  <2>2. UNION {Path(recs, m) : m \in Matched(recs, q)} \subseteq Present(recs)
    BY <1>1, PathIsPresent
  <2>3. QED  BY <2>1, <2>2, <1>2, <1>3 DEF TreeRows
<1>5. QED  BY <1>1, <1>4 DEF Rows, FlatRows

\* And in the same places.
LEMMA AlikePages ==
    ASSUME NEW recs, NEW next, Closed(recs), Alike(recs, next), NEW q, NEW id \in Rows(recs, q)
    PROVE  PageOf(Rows(next, q), next, id) = PageOf(Rows(recs, q), recs, id)
<1>1. Rows(next, q) = Rows(recs, q) /\ Rows(recs, q) \subseteq Present(recs)
  BY AlikeRows, RowsArePresent
<1>2. \A j \in Present(recs) : Path(next, j) = Path(recs, j) /\ Path(recs, j) \subseteq Ids
  BY AlikePaths, PathIsPresent DEF Present
<1>3. ASSUME NEW j \in Rows(recs, q) PROVE Precedes(next, j, id) = Precedes(recs, j, id)
  <2>1. Path(next, j) = Path(recs, j) /\ Path(recs, j) \subseteq Ids
        /\ Path(next, id) = Path(recs, id) /\ Path(recs, id) \subseteq Ids
    BY <1>1, <1>2
  <2>2. (\E u \in Path(next, j) \ Path(next, id), v \in Path(next, id) \ Path(next, j) :
             next[u].parent = next[v].parent /\ Rank[u] < Rank[v])
        = (\E u \in Path(recs, j) \ Path(recs, id), v \in Path(recs, id) \ Path(recs, j) :
             recs[u].parent = recs[v].parent /\ Rank[u] < Rank[v])
    BY <2>1 DEF Alike
  <2>3. QED  BY <2>1, <2>2 DEF Precedes
<1>4. {j \in Rows(next, q) : Precedes(next, j, id)} = {j \in Rows(recs, q) : Precedes(recs, j, id)}
  BY <1>1, <1>3
<1>5. QED  BY <1>4 DEF PageOf

-----------------------------------------------------------------------------
(* A record that can be seen *)

\* The filters let it through, nothing lies in it, and all it lies in is unfolded.
Visible(recs, q, id) ==
    /\ id \in Matched(recs, q)
    /\ \A up \in Path(recs, id) \ {id} : up \in q.expanded /\ up \notin q.collapsed
    /\ \A j \in Present(recs) : id \notin Parents(recs, j)

\* It is among the rows.
LEMMA VisibleIsRow ==
    ASSUME NEW recs, NEW q, NEW id, Visible(recs, q, id)
    PROVE  id \in Rows(recs, q)
<1>1. id \in Matched(recs, q)  BY DEF Visible
<1>2. id \in UNION {Path(recs, m) : m \in Matched(recs, q)}
  BY <1>1, PathBegins
<1>3. \A up \in Path(recs, id) \ {id} : Unfolded(recs, q, up)
  BY DEF Visible, Unfolded
<1>4. QED  BY <1>1, <1>2, <1>3 DEF Rows, TreeRows, FlatRows

\* The same question up to the page and what is placed.
SameQuestion(q, other) ==
    /\ other.search = q.search /\ other.status = q.status /\ other.visibility = q.visibility
    /\ other.usage = q.usage /\ other.expanded = q.expanded /\ other.collapsed = q.collapsed

\* It has the same matches.
LEMMA SameMatched ==
    ASSUME NEW recs, NEW q, NEW other, SameQuestion(q, other)
    PROVE  Matched(recs, other) = Matched(recs, q)
BY Zenon DEF SameQuestion, Matched, MatchesFilters

\* To place a record that can be seen unfolds nothing.
LEMMA UnplacedRows ==
    ASSUME NEW recs, Closed(recs), NEW q, NEW other, SameQuestion(q, other),
           other.placing = Nothing,
           q.placing = Nothing \/ Visible(recs, q, q.placing)
    PROVE  Rows(recs, other) = Rows(recs, q)
<1>1. Matched(recs, other) = Matched(recs, q) /\ Matched(recs, q) \subseteq Present(recs)
  BY SameMatched, RowsArePresent
<1>2. Nothing \notin Matched(recs, q)
  BY <1>1, ManagementAssumption DEF Present
<1>3. ASSUME NEW id \in Present(recs), NEW up \in Path(recs, id) \ {id}
      PROVE  Unfolded(recs, other, up) = Unfolded(recs, q, up)
  <2>1. \E j \in Present(recs) : up \in Parents(recs, j)
    BY PathHoldsSomething DEF Closed
  <2>2. CASE q.placing \in Matched(recs, q) /\ up \in Path(recs, q.placing)
    <3>1. Visible(recs, q, q.placing)  BY <2>2, <1>2
    <3>2. up # q.placing  BY <2>1, <3>1 DEF Visible
    <3>3. up \in q.expanded /\ up \notin q.collapsed  BY <2>2, <3>1, <3>2 DEF Visible
    <3>4. up \in other.expanded /\ up \notin other.collapsed  BY <3>3 DEF SameQuestion
    <3>5. Unfolded(recs, other, up) = TRUE  BY <3>4 DEF Unfolded
    <3>6. Unfolded(recs, q, up) = TRUE  BY <3>3 DEF Unfolded
    <3>7. QED  BY <3>5, <3>6
  <2>3. CASE ~(q.placing \in Matched(recs, q) /\ up \in Path(recs, q.placing))
    <3>1. other.placing \notin Matched(recs, other)  BY <1>1, <1>2
    <3>2. (other.search = q.search) /\ (other.expanded = q.expanded) /\ (other.collapsed = q.collapsed)
      BY DEF SameQuestion
    <3>3. QED  BY <2>3, <3>1, <3>2, <1>1, Zenon DEF Unfolded
  <2>4. QED  BY <2>2, <2>3
<1>4. TreeRows(recs, other) = TreeRows(recs, q)
  <2>1. UNION {Path(recs, m) : m \in Matched(recs, q)} \subseteq Present(recs)
    BY <1>1, PathIsPresent
  <2>2. QED  BY <2>1, <1>1, <1>3 DEF TreeRows
<1>5. QED  BY <1>1, <1>4 DEF Rows, FlatRows

\* What is listed is on one of the pages there are.
LEMMA PageIsThere ==
    ASSUME NEW recs, Closed(recs), NEW q, NEW id \in Rows(recs, q)
    PROVE  /\ PageOf(Rows(recs, q), recs, id) \in Nat
           /\ PageOf(Rows(recs, q), recs, id) <= Pages(Rows(recs, q))
<1> DEFINE rows == Rows(recs, q)
           before == {j \in rows : Precedes(recs, j, id)}
<1>1. rows \subseteq Ids  BY RowsArePresent DEF Present
<1>2. IsFiniteSet(rows)  BY <1>1, ManagementAssumption, FS_Subset
<1>3. IsFiniteSet(rows \ {id}) /\ Cardinality(rows \ {id}) = Cardinality(rows) - 1
  BY <1>2, FS_RemoveElement
<1>4. before \subseteq rows \ {id}  BY DEF Precedes
<1>5. IsFiniteSet(before) /\ Cardinality(before) <= Cardinality(rows \ {id})
  BY <1>3, <1>4, FS_Subset
<1>6. Cardinality(before) \in Nat /\ Cardinality(rows) \in Nat
  BY <1>2, <1>5, FS_CardinalityType
<1>7. PICK a \in Nat, b \in Nat : a = Cardinality(before) /\ b = Cardinality(rows)
  BY <1>6
<1>8. a <= b - 1  BY <1>3, <1>5, <1>7
<1>9. PICK p \in Nat \ {0} : p = PageSize  BY ManagementAssumption
<1>10. a \div p \in Nat /\ a \div p <= (b - 1) \div p
  <2>1. b - 1 \in Nat  BY <1>8
  <2>2. PICK c \in Nat : c = b - 1  BY <2>1
  <2>3. a <= c  BY <1>8, <2>2
  <2>4. a \div p \in Nat /\ a \div p <= c \div p  BY <2>3
  <2>5. QED  BY <2>2, <2>4
<1>11. PageOf(rows, recs, id) = a \div p + 1  BY <1>7, <1>9 DEF PageOf
<1>12. Pages(rows) = (b - 1) \div p + 1  BY <1>7, <1>9 DEF Pages
<1>13. (b - 1) \div p \in Int  BY <1>8
<1>14. QED  BY <1>10, <1>11, <1>12, <1>13

\* The question places it, or asks for its page.
Sought(recs, q, id) ==
    \/ q.placing = id
    \/ q.placing = Nothing /\ q.page = PageOf(Rows(recs, q), recs, id)

\* Then the answer is its page, and it is there.
LEMMA SoughtIsListed ==
    ASSUME NEW recs, Closed(recs), NEW q, NEW id, Visible(recs, q, id), Sought(recs, q, id), NEW at
    PROVE  /\ Listing(recs, q, at).page = PageOf(Rows(recs, q), recs, id)
           /\ id \in DOMAIN Listing(recs, q, at).rows
<1> DEFINE rows == Rows(recs, q)
           place == PageOf(rows, recs, id)
           wanted == IF q.placing \in rows THEN PageOf(rows, recs, q.placing) ELSE q.page
           turned == IF wanted > Pages(rows) THEN Pages(rows) ELSE wanted
           listed == UNION {Path(recs, j) : j \in {i \in rows : PageOf(rows, recs, i) = turned}}
<1>1. id \in rows  BY VisibleIsRow
<1>2. place \in Nat /\ place <= Pages(rows)  BY <1>1, PageIsThere
<1>3. Pages(rows) \in Int
  <2>1. rows \subseteq Ids  BY RowsArePresent DEF Present
  <2>2. IsFiniteSet(rows)  BY <2>1, ManagementAssumption, FS_Subset
  <2>3. Cardinality(rows) \in Nat  BY <2>2, FS_CardinalityType
  <2>4. QED  BY <1>1, <2>3, ManagementAssumption DEF Pages
<1>4. Nothing \notin rows  BY RowsArePresent, ManagementAssumption DEF Present
<1>5. wanted = place
  BY <1>1, <1>4 DEF Sought
<1>6. turned = place
  <2> HIDE DEF place, wanted
  <2>1. ~(place > Pages(rows))  BY <1>2, <1>3
  <2>2. QED  BY <1>5, <2>1
<1>7. /\ Listing(recs, q, at).page = turned
      /\ DOMAIN Listing(recs, q, at).rows = listed
  BY DEF Listing
<1>8. id \in listed
  <2>1. id \in {i \in rows : PageOf(rows, recs, i) = turned}  BY <1>1, <1>6
  <2>2. id \in Path(recs, id)  BY PathBegins
  <2>3. QED  BY <2>1, <2>2
<1>9. QED  BY <1>6, <1>7, <1>8

-----------------------------------------------------------------------------
(* Rows that are stored stay where they can be *)

\* What guides use is stored.
RowsInv == Closed(records) /\ UsedRecords \subseteq Present(records)

\* A row is written where it fits.
WrittenWell(id) ==
    /\ Fits(records', id)
    /\ \A j \in Ids \ {id} : records'[j] = records[j]

\* Rows do not go.
LEMMA RowsRemain ==
    ASSUME CopiesInv, [ManagementNext]_managementVars
    PROVE  Present(records) \subseteq Present(records')
<1>1. RowsFollow /\ RowsHaveVersions  BY RowsGoOn DEF CopiesInv
<1>2. ASSUME NEW id \in Ids, records[id].version > 0 PROVE records'[id].version > 0
  <2>1. HasVersion(records[id]) /\ Follows(records'[id], records[id])
    BY <1>1 DEF RowsFollow, RowsHaveVersions
  <2>2. records[id].version \in Nat /\ records'[id].version \in Nat
    BY <2>1 DEF Follows, HasVersion
  <2>3. records[id].version < records'[id].version \/ records[id].version = records'[id].version
    BY <2>1 DEF Follows
  <2>4. QED  BY <1>2, <2>2, <2>3
<1>3. QED  BY <1>2 DEF Present

\* Each write is one.
LEMMA WritesFit ==
    ASSUME CopiesInv, [ManagementNext]_managementVars
    PROVE  records' = records \/ \E id \in Ids : WrittenWell(id)
<1>1. records = [id \in Ids |-> records[id]]  BY DEF CopiesInv, RowsHaveVersions
<1>2. ASSUME ListStep PROVE records' = records
  BY <1>2 DEF ListStep, ChangeQuestion, ToggleRow, Turns, TurnPage, ListAgain, ListAnswered,
       ListArrives, ListFails, DropLateAnswer
<1>3. ASSUME SheetStep PROVE records' = records
  BY <1>3 DEF SheetStep, Open, CloseSheet, RecordAnswered, RecordArrives, RecordFails
<1>4. ASSUME NEW id \in Ids, FormServed(id) PROVE WrittenWell(id)
  <2>1. Fits(records', id)  BY <1>4 DEF FormServed
  <2>2. \A j \in Ids \ {id} : records'[j] = records[j]
    BY <1>1, <1>4 DEF FormServed, Created, Updated
  <2>3. QED  BY <2>1, <2>2 DEF WrittenWell
<1>5. ASSUME PictureSet PROVE \E id \in Ids : WrittenWell(id)
  <2>1. upload.id \in Ids  BY <1>5 DEF CopiesInv, UploadFits, PictureSet, NoAnswer
  <2>2. Fits(records', upload.id)  BY <1>5 DEF PictureSet
  <2>3. \A j \in Ids \ {upload.id} : records'[j] = records[j]  BY <1>1, <1>5 DEF PictureSet
  <2>4. QED  BY <2>1, <2>2, <2>3 DEF WrittenWell
<1>6. ASSUME NEW id \in Ids, NEW f \in Entries, OtherManager(id, f) PROVE WrittenWell(id)
  <2>1. Fits(records', id)  BY <1>6 DEF OtherManager
  <2>2. \A j \in Ids \ {id} : records'[j] = records[j]  BY <1>1, <1>6 DEF OtherManager
  <2>3. QED  BY <2>1, <2>2 DEF WrittenWell
<1>7. ASSUME FormStep
      PROVE  records' = records \/ (\E id \in Ids : FormServed(id)) \/ PictureSet
  BY <1>7 DEF FormStep, OpenAdd, OpenChange, SaveForm, Dismiss, FormFails, FormArrives,
       ChoosePicture, PictureArrives, PictureFails
<1>8. ASSUME UNCHANGED managementVars PROVE records' = records
  BY <1>8 DEF managementVars
<1>9. QED  BY <1>2, <1>3, <1>4, <1>5, <1>6, <1>7, <1>8 DEF ManagementNext

\* So what a record lies in stays stored.
LEMMA RowsStayWell ==
    ASSUME CopiesInv, RowsInv, [ManagementNext]_managementVars
    PROVE  RowsInv'
<1>1. Present(records) \subseteq Present(records')  BY RowsRemain
<1>2. ASSUME NEW id \in Ids, WrittenWell(id) PROVE Closed(records')
  <2>1. ASSUME NEW j \in Present(records'), j # id PROVE Parents(records', j) \subseteq Present(records')
    <3>1. j \in Ids /\ records'[j] = records[j]  BY <1>2, <2>1 DEF WrittenWell, Present
    <3>2. j \in Present(records)  BY <3>1, <2>1 DEF Present
    <3>3. Parents(records', j) = Parents(records, j)  BY <3>1 DEF Parents
    <3>4. QED  BY <1>1, <3>2, <3>3 DEF RowsInv, Closed
  <2>2. Parents(records', id) \subseteq Present(records')
    BY <1>2 DEF WrittenWell, Fits
  <2>3. QED  BY <2>1, <2>2 DEF Closed
<1>3. Closed(records')
  <2>1. CASE records' = records  BY <2>1 DEF RowsInv
  <2>2. QED  BY <2>1, <1>2, WritesFit
<1>4. QED  BY <1>1, <1>3 DEF RowsInv

\* At the start.
LEMMA RowsStartWell == ManagementInit => RowsInv
<1> SUFFICES ASSUME ManagementInit PROVE RowsInv
  OBVIOUS
<1>1. \A id \in Ids : Stored[id] \in Record \/ Stored[id] = NoRecord
  BY ManagementAssumption
<1>2. \A id \in Ids : id \in Present(records) <=> Stored[id] # NoRecord
  <2> SUFFICES ASSUME NEW id \in Ids PROVE records[id].version > 0 <=> Stored[id] # NoRecord
    BY DEF Present
  <2>1. CASE Stored[id] = NoRecord
    <3>1. records[id] = Stored[id]  BY <2>1 DEF ManagementInit
    <3>2. records[id].version = 0  BY <2>1, <3>1 DEF NoRecord
    <3>3. QED  BY <2>1, <3>2
  <2>2. CASE Stored[id] # NoRecord
    <3>1. Stored[id] \in Record  BY <1>1, <2>2
    <3>2. records[id].version = Stored[id].version
      BY <3>1 DEF ManagementInit, Record
    <3>3. QED  BY <2>2, <3>1, <3>2 DEF Record
  <2>3. QED  BY <2>1, <2>2
<1>3. ASSUME NEW id \in Present(records) PROVE Parents(records, id) \subseteq Present(records)
  <2>1. id \in Ids /\ Stored[id] # NoRecord /\ Stored[id] \in Record
    BY <1>1, <1>2 DEF Present
  <2>2. records[id].parent = Top \/ records[id].parent = Stored[id].parent
    BY <2>1 DEF ManagementInit, Record
  <2>3. Stored[id].parent = Top \/ (Stored[id].parent \in Ids /\ Stored[Stored[id].parent] # NoRecord)
    BY <2>1, ManagementAssumption DEF Record
  <2>4. records[id].parent = Top \/ records[id].parent \in Present(records)
    BY <2>2, <2>3, <1>2
  <2>5. QED  BY <2>4 DEF Parents
<1>4. UsedRecords \subseteq Present(records)
  BY <1>2, ManagementAssumption
<1>5. QED  BY <1>3, <1>4 DEF RowsInv, Closed

-----------------------------------------------------------------------------
(* A record that is added *)

\* What an add form sends is active.
AddsActive ==
    form.kind = "add" /\ form.stage # "open" =>
        DOMAIN form.wanted = Fields /\ form.wanted.archived = FALSE

\* Stored, active, unused, and with nothing in it.
NewRow(recs, id) ==
    /\ id \in Present(recs) /\ recs[id].archived = FALSE /\ id \notin UsedRecords
    /\ \A j \in Present(recs) : id \notin Parents(recs, j)

\* What the answer says of the record that was added, as long as nothing else changed.
SaysWhatIs ==
    form.kind = "add" /\ form.stage = "accepted" /\ form.at = clock =>
        /\ NewRow(records, form.saved)
        /\ form.path = Path(records, form.saved)
        /\ form.found => \E j \in form.path : records[j].named
        /\ records[form.saved].visibility = form.wanted.visibility

QuestionTyped == DOMAIN question = {"search", "status", "visibility", "usage", "page", "placing",
                                    "expanded", "collapsed"}

\* Nothing else has changed: the row that was added can be seen and is sought, a list
\* on its way has it, and so has the list that is shown when nothing is awaited.
AddedInv ==
    added # Nothing =>
        /\ Visible(records, question, added)
        /\ Sought(records, question, added)
        /\ fetch.stage = "answered" =>
              /\ fetch.page = PageOf(Rows(records, question), records, added)
              /\ added \in DOMAIN fetch.rows
        /\ Settled => added \in DOMAIN result.rows

\* A record is stored where nothing was, so nothing lies in it.
LEMMA CreatedIsNew ==
    ASSUME CopiesInv, RowsInv, AddsActive, NEW id \in Ids, FormServed(id), form.kind = "add"
    PROVE  /\ NewRow(records', id)
           /\ records'[id].visibility = form.wanted.visibility
<1>1. Created(id) /\ form # Shut  BY DEF FormServed, Updated, Shut
<1>2. records[id] = NoRecord /\ records'[id] = [form.wanted EXCEPT !.version = 1]
  BY <1>1 DEF Created, CopiesInv, RowsHaveVersions
<1>3. DOMAIN form.wanted = Fields /\ form.wanted.archived = FALSE
  BY DEF AddsActive, FormServed
<1>4. /\ records'[id].version = 1 /\ records'[id].archived = FALSE
      /\ records'[id].visibility = form.wanted.visibility
  BY <1>2, <1>3 DEF Fields
<1>5. id \notin Present(records)  BY <1>2 DEF Present, NoRecord
<1>6. id \in Present(records')  BY <1>4 DEF Present
<1>7. ASSUME NEW j \in Present(records') PROVE id \notin Parents(records', j)
  <2>1. CASE j = id
    <3>1. \A up \in Parents(records', id) : id \notin Path(records', up)
      BY <1>6 DEF FormServed, Fits
    <3>2. QED  BY <2>1, <3>1, PathBegins
  <2>2. CASE j # id
    <3>1. j \in Ids /\ records'[j] = records[j]
      BY <1>1, <2>2 DEF Created, CopiesInv, RowsHaveVersions, Present
    <3>2. j \in Present(records)  BY <3>1 DEF Present
    <3>3. Parents(records', j) = Parents(records, j)  BY <3>1 DEF Parents
    <3>4. QED  BY <1>5, <3>2, <3>3 DEF RowsInv, Closed
  <2>3. QED  BY <2>1, <2>2
<1>8. QED  BY <1>4, <1>5, <1>6, <1>7 DEF NewRow, RowsInv

\* What is asked keeps its fields.
LEMMA QuestionStaysTyped ==
    ASSUME QuestionTyped, [ManagementNext]_managementVars
    PROVE  QuestionTyped'
<1> USE DEF QuestionTyped
<1>1. ASSUME ListStep PROVE QuestionTyped'
  <2>1. ASSUME NEW filters \in Questions, ChangeQuestion(filters) PROVE QuestionTyped'
    BY <2>1 DEF ChangeQuestion, Turns
  <2>2. ASSUME NEW id \in Ids, ToggleRow(id) PROVE QuestionTyped'
    BY <2>2 DEF ToggleRow, Turns
  <2>3. ASSUME TurnPage PROVE QuestionTyped'
    BY <2>3 DEF TurnPage, Turns
  <2>4. ASSUME ListArrives PROVE QuestionTyped'
    BY <2>4 DEF ListArrives, TakePage
  <2>5. ASSUME ListAgain \/ ListAnswered \/ ListFails \/ DropLateAnswer PROVE QuestionTyped'
    BY <2>5 DEF ListAgain, ListAnswered, ListFails, DropLateAnswer
  <2>6. QED  BY <1>1, <2>1, <2>2, <2>3, <2>4, <2>5 DEF ListStep
<1>2. ASSUME SheetStep PROVE question' = question
  BY <1>2 DEF SheetStep, Open, CloseSheet, RecordAnswered, RecordArrives, RecordFails, listVars
<1>3. ASSUME FormStep, ~FormArrives PROVE question' = question
  BY <1>3 DEF FormStep, OpenAdd, OpenChange, SaveForm, FormServed, Dismiss, FormFails,
       ChoosePicture, PictureSet, PictureArrives, PictureFails, listVars
<1>4. ASSUME FormArrives PROVE QuestionTyped'
  BY <1>4 DEF FormArrives, AddAnswered, ChangeAnswered, Reveal
<1>5. ASSUME UNCHANGED managementVars PROVE question' = question
  BY <1>5 DEF managementVars
<1>6. ASSUME NEW id \in Ids, NEW f \in Entries, OtherManager(id, f) PROVE question' = question
  BY <1>6 DEF OtherManager, listVars
<1>7. QED  BY <1>1, <1>2, <1>3, <1>4, <1>5, <1>6 DEF ManagementNext

\* A form is as it was, or no answer to it is on its way, unless it is served now.
SameForm(f) ==
    f.kind = "add" /\ f.stage # "open" =>
        /\ form.kind = "add" /\ f.wanted = form.wanted
        /\ f.stage = form.stage
        /\ f.saved = form.saved /\ f.path = form.path /\ f.found = form.found /\ f.at = form.at

\* Those are the steps of the form.
LEMMA FormMoves ==
    ASSUME CopiesInv, [ManagementNext]_managementVars
    PROVE  \/ SameForm(form')
           \/ \E f \in Entries : SaveForm(f)
           \/ \E id \in Ids : FormServed(id)
<1> USE DEF SameForm
<1>1. form = Shut \/ IsForm(form)  BY DEF CopiesInv, FormCopied
<1>2. SameForm(form) /\ SameForm(Shut)  BY DEF Shut
<1>3. SameForm(Dismissed)  BY <1>1 DEF Dismissed, IsForm, Shut
<1>4. \A kind, id, shown, inside : SameForm(Form(kind, id, shown, inside))  BY DEF Form
<1> HIDE DEF SameForm
<1>5. ASSUME ListStep PROVE form' = form
  BY <1>5 DEF ListStep, ChangeQuestion, ToggleRow, Turns, TurnPage, ListAgain, ListAnswered,
       ListArrives, ListFails, DropLateAnswer
<1>6. ASSUME SheetStep PROVE form' = form \/ form' = Dismissed
  BY <1>6 DEF SheetStep, Open, CloseSheet, RecordAnswered, RecordArrives, RecordFails, NewDetail
<1>7. ASSUME FormStep
      PROVE  \/ form' = form \/ form' = Shut \/ form' = Dismissed
             \/ \E kind, id, shown, inside : form' = Form(kind, id, shown, inside)
             \/ \E f \in Entries : SaveForm(f)
             \/ \E id \in Ids : FormServed(id)
  BY <1>7 DEF FormStep, OpenAdd, OpenChange, Dismiss, FormFails, FormArrives,
       ChoosePicture, PictureSet, PictureArrives, PictureFails
<1>8. ASSUME UNCHANGED managementVars PROVE form' = form
  BY <1>8 DEF managementVars
<1>9. ASSUME NEW id \in Ids, NEW f \in Entries, OtherManager(id, f) PROVE form' = form
  BY <1>9 DEF OtherManager
<1>10. QED  BY <1>2, <1>3, <1>4, <1>5, <1>6, <1>7, <1>8, <1>9 DEF ManagementNext

\* What is sent.
LEMMA AddsStayActive ==
    ASSUME CopiesInv, AddsActive, [ManagementNext]_managementVars
    PROVE  AddsActive'
<1>1. CASE SameForm(form')  BY <1>1 DEF SameForm, AddsActive
<1>2. ASSUME NEW f \in Entries, SaveForm(f) PROVE AddsActive'
  <2>1. IsForm(form)  BY <1>2 DEF SaveForm, Mounted, CopiesInv, FormCopied, Shut
  <2>2. form'.kind = form.kind /\ form'.wanted = Wanted(f)
    BY <1>2, <2>1 DEF SaveForm, IsForm
  <2>3. ASSUME form.kind = "add"
        PROVE  Wanted(f) = Filled([f EXCEPT !.parent = form.id],
                                  [archived |-> FALSE, picture |-> FALSE], 0)
    BY <2>3 DEF Wanted
  <2>4. QED  BY <2>2, <2>3 DEF AddsActive, Filled, Fields
<1>3. ASSUME NEW id \in Ids, FormServed(id) PROVE AddsActive'
  <2>1. IsForm(form)  BY <1>3 DEF FormServed, CopiesInv, FormCopied, Shut
  <2>2. form'.kind = form.kind /\ form'.wanted = form.wanted /\ form.stage = "sent"
    BY <1>3, <2>1 DEF FormServed, IsForm
  <2>3. QED  BY <2>2 DEF AddsActive
<1>4. QED  BY <1>1, <1>2, <1>3, FormMoves

\* A change is one more.
LEMMA ClockTells ==
    ASSUME [ManagementNext]_managementVars
    PROVE  \/ clock' = clock /\ records' = records
           \/ clock' = clock + 1
<1>1. ASSUME ListStep PROVE clock' = clock /\ records' = records
  BY <1>1 DEF ListStep, ChangeQuestion, ToggleRow, Turns, TurnPage, ListAgain, ListAnswered,
       ListArrives, ListFails, DropLateAnswer
<1>2. ASSUME SheetStep PROVE clock' = clock /\ records' = records
  BY <1>2 DEF SheetStep, Open, CloseSheet, RecordAnswered, RecordArrives, RecordFails
<1>3. ASSUME FormStep PROVE (clock' = clock /\ records' = records) \/ clock' = clock + 1
  BY <1>3 DEF FormStep, OpenAdd, OpenChange, SaveForm, FormServed, Dismiss, FormFails,
       FormArrives, ChoosePicture, PictureSet, PictureArrives, PictureFails
<1>4. ASSUME UNCHANGED managementVars PROVE clock' = clock /\ records' = records
  BY <1>4 DEF managementVars
<1>5. ASSUME NEW id \in Ids, NEW f \in Entries, OtherManager(id, f) PROVE clock' = clock + 1
  BY <1>5 DEF OtherManager
<1>6. QED  BY <1>1, <1>2, <1>3, <1>4, <1>5 DEF ManagementNext

\* What the answer says.
LEMMA SaysStillWhatIs ==
    ASSUME CopiesInv, ListInv, RowsInv, AddsActive, SaysWhatIs, [ManagementNext]_managementVars
    PROVE  SaysWhatIs'
<1>1. CASE SameForm(form')
  <2>1. CASE clock' = clock /\ records' = records
    BY <1>1, <2>1 DEF SameForm, SaysWhatIs
  <2>2. CASE clock' = clock + 1
    <3>1. ~(form'.kind = "add" /\ form'.stage = "accepted" /\ form'.at = clock')
      BY <1>1, <2>2 DEF SameForm, ListInv, FormMade, MadeBy, Times
    <3>2. QED  BY <3>1 DEF SaysWhatIs
  <2>3. QED  BY <2>1, <2>2, ClockTells
<1>2. ASSUME NEW f \in Entries, SaveForm(f) PROVE SaysWhatIs'
  <2>1. IsForm(form)  BY <1>2 DEF SaveForm, Mounted, CopiesInv, FormCopied, Shut
  <2>2. form'.stage = "sent"  BY <1>2, <2>1 DEF SaveForm, IsForm
  <2>3. QED  BY <2>2 DEF SaysWhatIs
<1>3. ASSUME NEW id \in Ids, FormServed(id) PROVE SaysWhatIs'
  <2>1. IsForm(form)  BY <1>3 DEF FormServed, CopiesInv, FormCopied, Shut
  <2>2. /\ form'.kind = form.kind /\ form'.wanted = form.wanted /\ form'.saved = id
        /\ form'.path = Path(records', id)
        /\ form'.found = \E j \in Path(records', id) : records'[j].named
    BY <1>3, <2>1 DEF FormServed, IsForm
  <2>3. form.kind = "add" => NewRow(records', id) /\ records'[id].visibility = form.wanted.visibility
    BY <1>3, CreatedIsNew
  <2>4. QED  BY <2>2, <2>3 DEF SaysWhatIs
<1>4. QED  BY <1>1, <1>2, <1>3, FormMoves

-----------------------------------------------------------------------------
(* Every step keeps the added row where it can be seen *)

\* It is asked for again.
LEMMA AskedForAgain ==
    ASSUME AddedInv, Ask, UNCHANGED <<resource, records, question, added>>
    PROVE  AddedInv'
<1>1. fetch'.stage # "answered" /\ ~Settled'
  BY DEF Ask, Requested, Settled, Loading
<1>2. Rows(records, question)' = Rows(records, question)
  BY DEF Rows, TreeRows, FlatRows
<1>3. QED  BY <1>1, <1>2 DEF AddedInv, Sought

\* Nothing that matters to it changes.
LEMMA NothingMoves ==
    ASSUME AddedInv, UNCHANGED <<resource, records, question, fetch, result, added>>,
           Settled' => Settled
    PROVE  AddedInv'
<1>1. Rows(records, question)' = Rows(records, question)
  BY DEF Rows, TreeRows, FlatRows
<1>2. QED  BY <1>1 DEF AddedInv, Sought

\* The server answers.
LEMMA AnswerHasIt ==
    ASSUME RowsInv, AddedInv, ListAnswered
    PROVE  AddedInv'
<1>1. fetch' = Listing(records, question, clock) /\ UNCHANGED <<resource, records, question, added>>
  BY DEF ListAnswered
<1>2. ~Settled'  BY <1>1 DEF Listing, Settled, Loading
<1>3. Rows(records, question)' = Rows(records, question)
  BY <1>1 DEF Rows, TreeRows, FlatRows
<1>4. added # Nothing =>
          /\ fetch'.page = PageOf(Rows(records, question), records, added)
          /\ added \in DOMAIN fetch'.rows
  BY <1>1, SoughtIsListed DEF AddedInv, RowsInv
<1>5. QED  BY <1>1, <1>2, <1>3, <1>4 DEF AddedInv, Sought

\* The answer arrives: its page is turned to, and nothing need be placed any more.
LEMMA ArrivalHasIt ==
    ASSUME RowsInv, QuestionTyped, AddedInv, ListArrives
    PROVE  AddedInv'
<1>1. /\ result' = fetch /\ fetch.stage = "answered" /\ question' = TakePage(fetch)
      /\ fetch' = NoAnswer \/ fetch' = Requested
      /\ UNCHANGED <<resource, records, added>>
  BY DEF ListArrives
<1>2. /\ SameQuestion(question, question') /\ question'.placing = Nothing
      /\ question'.page = fetch.page
  BY <1>1 DEF TakePage, QuestionTyped, SameQuestion
<1>3. SUFFICES ASSUME added # Nothing
               PROVE  /\ Visible(records, question', added)
                      /\ question'.page = PageOf(Rows(records, question)', records, added)
                      /\ added \in DOMAIN fetch.rows
  BY <1>1, <1>2 DEF AddedInv, Sought, NoAnswer, Requested
<1>4. /\ Visible(records, question, added) /\ added \in DOMAIN fetch.rows
      /\ fetch.page = PageOf(Rows(records, question), records, added)
      /\ question.placing = Nothing \/ question.placing = added
  BY <1>1, <1>3 DEF AddedInv, Sought
<1>5. Visible(records, question', added)
  <2>1. Matched(records, question') = Matched(records, question)  BY <1>2, SameMatched
  <2>2. question'.expanded = question.expanded /\ question'.collapsed = question.collapsed
    BY <1>2 DEF SameQuestion
  <2>3. QED  BY <1>4, <2>1, <2>2 DEF Visible
<1>6. Rows(records, question') = Rows(records, question)
  BY <1>2, <1>4, UnplacedRows DEF RowsInv
<1>7. Rows(records, question)' = Rows(records, question')
  BY <1>1 DEF Rows, TreeRows, FlatRows
<1>8. QED  BY <1>2, <1>4, <1>5, <1>6, <1>7

\* A picture changes no row but for the picture.
LEMMA PictureIsAlike ==
    ASSUME CopiesInv, PictureSet
    PROVE  Alike(records, records')
<1>1. PICK id \in Ids : id = upload.id
  BY DEF CopiesInv, UploadFits, PictureSet, NoAnswer
<1>2. \A j \in Ids \ {id} : records'[j] = records[j]
  BY <1>1 DEF PictureSet, CopiesInv, RowsHaveVersions
<1>3. records'[id] = [records[id] EXCEPT !.picture = upload.picture]
  BY <1>1 DEF PictureSet, CopiesInv, RowsHaveVersions
<1>4. HasVersion(records[id])  BY DEF CopiesInv, RowsHaveVersions
<1>5. /\ records'[id].version = records[id].version
      /\ records'[id].parent = records[id].parent
      /\ records'[id].visibility = records[id].visibility
      /\ records'[id].named = records[id].named
      /\ records'[id].archived = records[id].archived
  <2>1. CASE DOMAIN records[id] = Fields  BY <1>3, <2>1 DEF Fields
  <2>2. CASE DOMAIN records[id] = {"version"}
    <3>1. records'[id] = records[id]  BY <1>3, <1>4, <2>2 DEF HasVersion
    <3>2. QED  BY <3>1
  <2>3. QED  BY <1>4, <2>1, <2>2 DEF HasVersion
<1>6. QED  BY <1>2, <1>5 DEF Alike

\* So it hides no row.
LEMMA PictureHidesNothing ==
    ASSUME CopiesInv, RowsInv, AddedInv, PictureSet
    PROVE  AddedInv'
<1>1. /\ Alike(records, records')
      /\ UNCHANGED <<resource, question, fetch, result, failed, added>>
  BY PictureIsAlike DEF PictureSet, listVars
<1>2. Settled' = Settled  BY <1>1 DEF Settled, Loading
<1>3. SUFFICES ASSUME added # Nothing
               PROVE  /\ Visible(records', question, added)
                      /\ PageOf(Rows(records, question)', records', added)
                         = PageOf(Rows(records, question), records, added)
  BY <1>1, <1>2, <1>3 DEF AddedInv, Sought
<1>4. Closed(records) /\ Visible(records, question, added)
  BY <1>3 DEF AddedInv, RowsInv
<1>5. added \in Rows(records, question)  BY <1>4, VisibleIsRow
<1>6. Rows(records, question)' = Rows(records', question)
  BY <1>1 DEF Rows, TreeRows, FlatRows
<1>7. PageOf(Rows(records', question), records', added) = PageOf(Rows(records, question), records, added)
  BY <1>1, <1>4, <1>5, AlikePages
<1>8. Visible(records', question, added)
  <2>1. Matched(records', question) = Matched(records, question)
    BY <1>1, <1>4, AlikeMatched
  <2>2. added \in Present(records)  BY <1>4, <1>5, RowsArePresent
  <2>3. Path(records', added) = Path(records, added)  BY <1>1, <1>4, <2>2, AlikePaths
  <2>4. Present(records') = Present(records)
        /\ \A j \in Present(records) : Parents(records', j) = Parents(records, j)
    BY <1>1, <1>4, AlikePaths DEF Present
  <2>5. QED  BY <1>4, <2>1, <2>3, <2>4 DEF Visible
<1>9. QED  BY <1>6, <1>7, <1>8

\* The answer to the form: what would hide the row is cleared, and it is placed.
LEMMA RevealedIsVisible ==
    ASSUME CopiesInv, RowsInv, SaysWhatIs, QuestionTyped, FormArrives, AddAnswered,
           clock = form.at
    PROVE  Visible(records, question', form.saved) /\ question'.placing = form.saved
<1> DEFINE id == form.saved
<1>1. /\ NewRow(records, id) /\ form.path = Path(records, id)
      /\ form.found => \E j \in form.path : records[j].named
      /\ records[id].visibility = form.wanted.visibility
  BY DEF SaysWhatIs, FormArrives, AddAnswered
<1>2. question' = Reveal(id, form.path, form.found, form.wanted.visibility)
  BY DEF AddAnswered
<1>3. /\ question'.placing = id
      /\ question'.expanded = question.expanded \cup (form.path \ {id})
      /\ question'.collapsed = question.collapsed \ (form.path \ {id})
  BY <1>2 DEF Reveal, QuestionTyped
<1>4. question'.search => form.found
  BY <1>2 DEF Reveal, QuestionTyped
<1>5. /\ question'.status # "inactive"
      /\ question'.visibility = form.wanted.visibility \/ question'.visibility = "all"
      /\ question'.usage # "used"
  BY <1>2 DEF Reveal, QuestionTyped
<1>6. id \in Present(records) /\ records[id].archived = FALSE /\ id \notin UsedRecords
  BY <1>1 DEF NewRow
<1>7. MatchesFilters(records, question', id)
  BY <1>1, <1>4, <1>5, <1>6 DEF MatchesFilters
<1>8. id \in Matched(records, question')
  BY <1>5, <1>6, <1>7 DEF Matched
<1>9. QED  BY <1>1, <1>3, <1>8 DEF Visible, NewRow

\* The answer to the form arrives.
LEMMA AddedAtLast ==
    ASSUME CopiesInv, RowsInv, SaysWhatIs, QuestionTyped, AddedInv, FormArrives
    PROVE  AddedInv'
<1>1. Ask /\ UNCHANGED <<resource, records>>  BY DEF FormArrives, AskAgain
<1>2. CASE ChangeAnswered
  BY <1>1, <1>2, AskedForAgain DEF ChangeAnswered
<1>3. CASE AddAnswered
  <2>1. CASE clock = form.at
    <3>1. added' = form.saved  BY <1>3, <2>1 DEF AddAnswered
    <3>2. Visible(records, question', added') /\ question'.placing = added'
      BY <1>3, <2>1, <3>1, RevealedIsVisible
    <3>3. fetch'.stage # "answered" /\ ~Settled'
      BY <1>1 DEF Ask, Requested, Settled, Loading
    <3>4. QED  BY <1>1, <3>2, <3>3 DEF AddedInv, Sought
  <2>2. CASE clock # form.at
    <3>1. added' = Nothing  BY <1>3, <2>2 DEF AddAnswered
    <3>2. QED  BY <3>1 DEF AddedInv
  <2>3. QED  BY <2>1, <2>2
<1>4. QED  BY <1>2, <1>3 DEF FormArrives

\* Every step.
LEMMA AddedStaysVisible ==
    ASSUME CopiesInv, RowsInv, SaysWhatIs, QuestionTyped, AddedInv, [ManagementNext]_managementVars
    PROVE  AddedInv'
<1>1. CASE added' = Nothing  BY <1>1 DEF AddedInv
<1>2. ASSUME UNCHANGED <<resource, records, question, fetch, result, failed, added>>
      PROVE  AddedInv'
  BY <1>2, NothingMoves DEF Settled, Loading
<1>3. ASSUME ListStep PROVE AddedInv'
  <2>1. ASSUME NEW q, Turns(q) PROVE AddedInv'
    BY <2>1, <1>1 DEF Turns
  <2>2. ASSUME ListAgain PROVE AddedInv'
    BY <2>2, AskedForAgain DEF ListAgain
  <2>3. ASSUME ListFails PROVE AddedInv'
    <3>1. /\ fetch' = NoAnswer /\ failed' = TRUE
          /\ UNCHANGED <<resource, records, question, result, added>>
      BY <2>3 DEF ListFails
    <3>2. fetch'.stage # "answered" /\ ~Settled'  BY <3>1 DEF NoAnswer, Settled
    <3>3. Rows(records, question)' = Rows(records, question)
      BY <3>1 DEF Rows, TreeRows, FlatRows
    <3>4. QED  BY <3>1, <3>2, <3>3 DEF AddedInv, Sought
  <2>4. ASSUME DropLateAnswer PROVE AddedInv'
    BY <2>4, <1>2 DEF DropLateAnswer
  <2>5. ASSUME NEW filters \in Questions, ChangeQuestion(filters) PROVE AddedInv'
    BY <2>5, <2>1 DEF ChangeQuestion
  <2>6. ASSUME NEW id \in Ids, ToggleRow(id) PROVE AddedInv'
    BY <2>6, <2>1 DEF ToggleRow
  <2>7. ASSUME TurnPage PROVE AddedInv'
    BY <2>7, <2>1 DEF TurnPage
  <2>8. QED
    BY <1>3, <2>2, <2>3, <2>4, <2>5, <2>6, <2>7, AnswerHasIt, ArrivalHasIt DEF ListStep
<1>4. ASSUME SheetStep PROVE AddedInv'
  BY <1>4, <1>2 DEF SheetStep, Open, CloseSheet, RecordAnswered, RecordArrives, RecordFails, listVars
<1>5. ASSUME FormStep PROVE AddedInv'
  <2>1. ASSUME NEW id \in Ids, FormServed(id) PROVE AddedInv'
    BY <2>1, <1>1 DEF FormServed
  <2>2. ASSUME PictureArrives PROVE AddedInv'
    BY <2>2, AskedForAgain DEF PictureArrives, AskAgain
  <2>3. ASSUME \/ \E id \in Ids \cup {Top} : OpenAdd(id)
               \/ \E kind \in {"edit", "status"} : OpenChange(kind)
               \/ \E f \in Entries : SaveForm(f)
               \/ Dismiss \/ FormFails
               \/ \E picture \in BOOLEAN : ChoosePicture(picture)
               \/ PictureFails
        PROVE  AddedInv'
    BY <2>3, <1>2 DEF OpenAdd, OpenChange, SaveForm, Dismiss, FormFails, ChoosePicture,
       PictureFails, listVars
  <2>4. QED  BY <1>5, <2>1, <2>2, <2>3, AddedAtLast, PictureHidesNothing DEF FormStep
<1>6. ASSUME UNCHANGED managementVars PROVE AddedInv'
  BY <1>6, <1>2 DEF managementVars
<1>7. ASSUME NEW id \in Ids, NEW f \in Entries, OtherManager(id, f) PROVE AddedInv'
  BY <1>7, <1>1 DEF OtherManager
<1>8. QED  BY <1>3, <1>4, <1>5, <1>6, <1>7 DEF ManagementNext

\* All of it together.
PlacedInv == RowsInv /\ AddsActive /\ SaysWhatIs /\ QuestionTyped /\ AddedInv

\* Every step keeps it.
LEMMA PlacedKept ==
    CopiesInv /\ ListInv /\ PlacedInv /\ [ManagementNext]_managementVars => PlacedInv'
BY RowsStayWell, AddsStayActive, SaysStillWhatIs, QuestionStaysTyped, AddedStaysVisible DEF PlacedInv

\* And it holds at the start, when nothing has been added.
LEMMA PlacedStarts == ManagementInit => PlacedInv
<1> SUFFICES ASSUME ManagementInit PROVE PlacedInv
  OBVIOUS
<1>1. AddsActive /\ SaysWhatIs  BY DEF ManagementInit, AddsActive, SaysWhatIs, Shut
<1>2. QuestionTyped /\ AddedInv  BY DEF ManagementInit, QuestionTyped, AddedInv
<1>3. QED  BY <1>1, <1>2, RowsStartWell DEF PlacedInv

\* A row just added is on the page that is shown (placing.ts: place; management.tsx: reveal).
THEOREM AddedRowsStayShown == ManagementSpec => []AddedRowsAreShown
<1>1. PlacedInv => AddedRowsAreShown  BY DEF PlacedInv, AddedInv, AddedRowsAreShown
<1>2. QED
  BY <1>1, CopiesStart, CopiesKept, ListStarts, ListKept, PlacedStarts, PlacedKept, PTL
     DEF ManagementSpec

-----------------------------------------------------------------------------
(* Families: the walk *)

\* One step up, and a walk of n steps, as a function.
Up(guide, above) == IF guide = Alone THEN Alone ELSE above[guide]
IsWalk(up, guide, above, n) ==
    up = [k \in 0 .. n |-> IF k = 0 THEN guide
                           ELSE IF up[k - 1] = Alone THEN Alone ELSE above[up[k - 1]]]

\* There is one of any length.
LEMMA WalkExists ==
    ASSUME NEW guide, NEW above
    PROVE  \A n \in Nat : \E up : IsWalk(up, guide, above, n)
<1> DEFINE T == {n \in Nat : \E up : IsWalk(up, guide, above, n)}
<1>1. 0 \in T
  <2>1. IsWalk([k \in 0 .. 0 |-> guide], guide, above, 0)  BY DEF IsWalk
  <2>2. QED  BY <2>1
<1>2. ASSUME NEW n \in Nat, n \in T PROVE n + 1 \in T
  <2>1. PICK up : IsWalk(up, guide, above, n)  BY <1>2
  <2> DEFINE longer == [k \in 0 .. n + 1 |-> IF k = n + 1 THEN Up(up[n], above) ELSE up[k]]
  <2>2. \A k \in 0 .. n : up[k] = IF k = 0 THEN guide
                                  ELSE IF up[k - 1] = Alone THEN Alone ELSE above[up[k - 1]]
    BY <2>1 DEF IsWalk
  <2>3. \A k \in 0 .. n : longer[k] = up[k]
    OBVIOUS
  <2>4. longer[n + 1] = Up(up[n], above)
    OBVIOUS
  <2>5. \A k \in 0 .. n + 1 : longer[k] = IF k = 0 THEN guide
                                  ELSE IF longer[k - 1] = Alone THEN Alone ELSE above[longer[k - 1]]
    <3> SUFFICES ASSUME NEW k \in 0 .. n + 1
                 PROVE  longer[k] = IF k = 0 THEN guide
                                    ELSE IF longer[k - 1] = Alone THEN Alone ELSE above[longer[k - 1]]
      OBVIOUS
    <3> HIDE DEF longer
    <3>1. CASE k = n + 1
      <4>1. k # 0 /\ k - 1 = n /\ n \in 0 .. n  BY <3>1
      <4>2. QED  BY <3>1, <4>1, <2>3, <2>4 DEF Up
    <3>2. CASE k # n + 1
      <4>1. k \in 0 .. n /\ (k # 0 => k - 1 \in 0 .. n)  BY <3>2
      <4>2. QED  BY <4>1, <2>2, <2>3
    <3>3. QED  BY <3>1, <3>2
  <2>6. IsWalk(longer, guide, above, n + 1)
    <3>1. longer = [k \in 0 .. n + 1 |-> longer[k]]
      OBVIOUS
    <3> HIDE DEF longer
    <3>2. QED  BY <2>5, <3>1 DEF IsWalk
  <2> HIDE DEF longer
  <2>7. QED  BY <2>6
<1> HIDE DEF T
<1>3. \A n \in Nat : n \in T  BY <1>1, <1>2, EveryNumber
<1>4. QED  BY <1>3 DEF T

\* Two of them agree as far as both go.
LEMMA WalksAgree ==
    ASSUME NEW guide, NEW above, NEW n \in Nat, NEW m \in Nat, n <= m,
           NEW up, NEW on, IsWalk(up, guide, above, n), IsWalk(on, guide, above, m)
    PROVE  \A k \in 0 .. n : up[k] = on[k]
<1> DEFINE T == {k \in Nat : k <= n => up[k] = on[k]}
<1>1. \A k \in 0 .. n : up[k] = IF k = 0 THEN guide
                                ELSE IF up[k - 1] = Alone THEN Alone ELSE above[up[k - 1]]
  BY DEF IsWalk
<1>2. \A k \in 0 .. n : on[k] = IF k = 0 THEN guide
                                ELSE IF on[k - 1] = Alone THEN Alone ELSE above[on[k - 1]]
  <2>1. \A k \in 0 .. m : on[k] = IF k = 0 THEN guide
                                  ELSE IF on[k - 1] = Alone THEN Alone ELSE above[on[k - 1]]
    BY DEF IsWalk
  <2>2. 0 .. n \subseteq 0 .. m
    OBVIOUS
  <2>3. QED  BY <2>1, <2>2
<1>3. 0 \in T  BY <1>1, <1>2
<1>4. ASSUME NEW k \in Nat, k \in T PROVE k + 1 \in T
  <2>1. SUFFICES ASSUME k + 1 <= n PROVE up[k + 1] = on[k + 1]
    OBVIOUS
  <2>2. k + 1 \in 0 .. n /\ k + 1 # 0 /\ (k + 1) - 1 = k  BY <2>1
  <2>3. up[k] = on[k]  BY <1>4, <2>1
  <2>4. QED  BY <1>1, <1>2, <2>2, <2>3
<1> HIDE DEF T
<1>5. \A k \in Nat : k \in T  BY <1>3, <1>4, EveryNumber
<1>6. QED  BY <1>5 DEF T

\* So the walk is what its definition says: nothing at first, then one step more.
LEMMA AboveIsAWalk ==
    ASSUME NEW guide, NEW above
    PROVE  /\ Above(guide, above, 0) = guide
           /\ \A n \in Nat : Above(guide, above, n + 1) = Up(Above(guide, above, n), above)
<1> DEFINE W(n) == CHOOSE up : IsWalk(up, guide, above, n)
<1>1. \A n \in Nat : IsWalk(W(n), guide, above, n)
  BY WalkExists
<1>2. \A n \in Nat : Above(guide, above, n) = W(n)[n]
  BY DEF Above, IsWalk
<1> HIDE DEF W
<1>3. Above(guide, above, 0) = guide
  <2>1. W(0)[0] = guide  BY <1>1 DEF IsWalk
  <2>2. QED  BY <1>2, <2>1
<1>4. ASSUME NEW n \in Nat PROVE Above(guide, above, n + 1) = Up(Above(guide, above, n), above)
  <2>1. IsWalk(W(n), guide, above, n) /\ IsWalk(W(n + 1), guide, above, n + 1)  BY <1>1
  <2>2. W(n)[n] = W(n + 1)[n]
    <3>1. \A k \in 0 .. n : W(n)[k] = W(n + 1)[k]  BY <2>1, WalksAgree
    <3>2. QED  BY <3>1
  <2>3. W(n + 1)[n + 1] = IF W(n + 1)[n] = Alone THEN Alone ELSE above[W(n + 1)[n]]
    <3>1. n + 1 \in 0 .. n + 1 /\ n + 1 # 0 /\ (n + 1) - 1 = n
      OBVIOUS
    <3>2. QED  BY <2>1, <3>1 DEF IsWalk
  <2>4. Above(guide, above, n) = W(n)[n] /\ Above(guide, above, n + 1) = W(n + 1)[n + 1]
    BY <1>2
  <2>5. QED  BY <2>2, <2>3, <2>4 DEF Up
<1>5. QED  BY <1>3, <1>4

-----------------------------------------------------------------------------
(* What walks do *)

\* Who is filed under what, with every link to a guide or to nothing.
Links == [FamilyGuides -> FamilyGuides \cup {Alone}]
Refiled(above, child, under) == [above EXCEPT ![child] = under]

\* No walk goes on for MaxLevels.
Shallow(above) == \A guide \in FamilyGuides : Above(guide, above, MaxLevels) = Alone

\* A walk from a guide stays among the guides, or is beyond the top.
LEMMA WalkStays ==
    ASSUME NEW above \in Links, NEW guide \in FamilyGuides \cup {Alone}
    PROVE  \A n \in Nat : Above(guide, above, n) \in FamilyGuides \cup {Alone}
<1> DEFINE T == {n \in Nat : Above(guide, above, n) \in FamilyGuides \cup {Alone}}
<1>1. 0 \in T  BY AboveIsAWalk
<1>2. ASSUME NEW n \in Nat, n \in T PROVE n + 1 \in T
  BY <1>2, AboveIsAWalk DEF Up, Links
<1> HIDE DEF T
<1>3. \A n \in Nat : n \in T  BY <1>1, <1>2, EveryNumber
<1>4. QED  BY <1>3 DEF T

\* A walk of n and m steps is a walk of m steps from where n lead.
LEMMA WalkOn ==
    ASSUME NEW above, NEW guide, NEW n \in Nat
    PROVE  \A m \in Nat : Above(guide, above, n + m) = Above(Above(guide, above, n), above, m)
<1> DEFINE there == Above(guide, above, n)
           T == {m \in Nat : Above(guide, above, n + m) = Above(there, above, m)}
<1>1. 0 \in T
  <2>1. Above(there, above, 0) = there  BY AboveIsAWalk
  <2>2. n + 0 = n
    OBVIOUS
  <2>3. QED  BY <2>1, <2>2
<1>2. ASSUME NEW m \in Nat, m \in T PROVE m + 1 \in T
  <2>1. Above(there, above, m + 1) = Up(Above(there, above, m), above)  BY AboveIsAWalk
  <2>2. Above(guide, above, (n + m) + 1) = Up(Above(guide, above, n + m), above)
    <3>1. n + m \in Nat
      OBVIOUS
    <3>2. QED  BY <3>1, AboveIsAWalk
  <2>3. n + (m + 1) = (n + m) + 1
    OBVIOUS
  <2>4. QED  BY <1>2, <2>1, <2>2, <2>3
<1> HIDE DEF T
<1>3. \A m \in Nat : m \in T  BY <1>1, <1>2, EveryNumber
<1>4. QED  BY <1>3 DEF T

\* Beyond the top there is nothing.
LEMMA NothingAbove ==
    ASSUME NEW above
    PROVE  \A n \in Nat : Above(Alone, above, n) = Alone
<1> DEFINE T == {n \in Nat : Above(Alone, above, n) = Alone}
<1>1. 0 \in T  BY AboveIsAWalk
<1>2. ASSUME NEW n \in Nat, n \in T PROVE n + 1 \in T
  <2>1. Above(Alone, above, n) = Alone  BY <1>2
  <2>2. Above(Alone, above, n + 1) = Up(Above(Alone, above, n), above)  BY AboveIsAWalk
  <2>3. QED  BY <2>1, <2>2 DEF Up
<1> HIDE DEF T
<1>3. \A n \in Nat : n \in T  BY <1>1, <1>2, EveryNumber
<1>4. QED  BY <1>3 DEF T

\* So a walk that is over stays over.
LEMMA StaysOver ==
    ASSUME NEW above, NEW guide, NEW n \in Nat, NEW m \in Nat, n <= m,
           Above(guide, above, n) = Alone
    PROVE  Above(guide, above, m) = Alone
<1>1. PICK rest \in Nat : m = n + rest
  <2>1. m - n \in Nat /\ m = n + (m - n)
    OBVIOUS
  <2>2. QED  BY <2>1
<1>2. Above(guide, above, n + rest) = Above(Above(guide, above, n), above, rest)  BY WalkOn
<1>3. QED  BY <1>1, <1>2, NothingAbove

\* With fewer links a walk is the same, or over.
LEMMA FewerLinks ==
    ASSUME NEW above \in Links, NEW child \in FamilyGuides, NEW guide
    PROVE  \A n \in Nat : Above(guide, Refiled(above, child, Alone), n) \in {Above(guide, above, n), Alone}
<1> DEFINE fewer == Refiled(above, child, Alone)
           T == {n \in Nat : Above(guide, fewer, n) \in {Above(guide, above, n), Alone}}
<1>1. \A other : other # child => fewer[other] = above[other]
  BY DEF Refiled, Links
<1>2. fewer[child] = Alone  BY DEF Refiled, Links
<1> HIDE DEF fewer
<1>3. 0 \in T  BY AboveIsAWalk
<1>4. ASSUME NEW n \in Nat, n \in T PROVE n + 1 \in T
  <2>1. /\ Above(guide, fewer, n + 1) = Up(Above(guide, fewer, n), fewer)
        /\ Above(guide, above, n + 1) = Up(Above(guide, above, n), above)
    BY AboveIsAWalk
  <2>2. Above(guide, fewer, n) \in {Above(guide, above, n), Alone}  BY <1>4
  <2>3. Up(Above(guide, fewer, n), fewer) \in {Up(Above(guide, above, n), above), Alone}
    BY <2>2, <1>1, <1>2 DEF Up
  <2>4. QED  BY <2>1, <2>3
<1> HIDE DEF T
<1>5. \A n \in Nat : n \in T  BY <1>3, <1>4, EveryNumber
<1>6. QED  BY <1>5 DEF T, fewer

\* A walk that does not come by a guide in so many steps.
Avoids(guide, above, child, far) == \A n \in Nat : n < far => Above(guide, above, n) # child

\* A walk that does not come by the guide whose link changes stays as it is.
LEMMA WalkElsewhere ==
    ASSUME NEW above \in Links, NEW child \in FamilyGuides, NEW under, NEW guide, NEW far \in Nat,
           Avoids(guide, above, child, far)
    PROVE  \A n \in Nat : n <= far => Above(guide, Refiled(above, child, under), n) = Above(guide, above, n)
<1> DEFINE changed == Refiled(above, child, under)
           T == {n \in Nat : n <= far => Above(guide, changed, n) = Above(guide, above, n)}
<1>1. \A other : other # child => changed[other] = above[other]
  BY DEF Refiled, Links
<1> HIDE DEF changed
<1>2. 0 \in T  BY AboveIsAWalk
<1>3. ASSUME NEW n \in Nat, n \in T PROVE n + 1 \in T
  <2>1. SUFFICES ASSUME n + 1 <= far PROVE Above(guide, changed, n + 1) = Above(guide, above, n + 1)
    OBVIOUS
  <2>2. Above(guide, changed, n) = Above(guide, above, n)  BY <1>3, <2>1
  <2>3. Above(guide, above, n) # child  BY <2>1 DEF Avoids
  <2>4. /\ Above(guide, changed, n + 1) = Up(Above(guide, changed, n), changed)
        /\ Above(guide, above, n + 1) = Up(Above(guide, above, n), above)
    BY AboveIsAWalk
  <2>5. QED  BY <2>2, <2>3, <2>4, <1>1 DEF Up
<1> HIDE DEF T
<1>4. \A n \in Nat : n \in T  BY <1>2, <1>3, EveryNumber
<1>5. QED  BY <1>4 DEF T, changed

-----------------------------------------------------------------------------
(* What the trigger counts *)

\* The size of a set of levels with no gaps below is its highest.
LEMMA NoHigherThanMany ==
    ASSUME NEW levels, NEW top \in Nat, levels \subseteq 1 .. top, NEW n \in levels,
           1 .. n \subseteq levels
    PROVE  n <= Cardinality(levels) /\ Cardinality(levels) \in Nat
<1>1. IsFiniteSet(1 .. top)  BY FS_Interval
<1>2. IsFiniteSet(levels)  BY <1>1, FS_Subset
<1>3. n \in Nat /\ n >= 1
  OBVIOUS
<1>4. Cardinality(1 .. n) = n  BY <1>3, FS_Interval
<1>5. Cardinality(1 .. n) <= Cardinality(levels)  BY <1>2, FS_Subset
<1>6. QED  BY <1>2, <1>4, <1>5, FS_CardinalityType

\* What the walk up counts: that many steps and one more, and it is over.
LEMMA AncestorsCounted ==
    ASSUME NEW above \in Links, Shallow(above), NEW guide \in FamilyGuides
    PROVE  LET depth == Cardinality(Ancestors(guide, above))
           IN  depth \in Nat /\ Above(guide, above, depth + 1) = Alone
<1> DEFINE levels == Ancestors(guide, above)
           depth == Cardinality(levels)
<1>1. levels \subseteq 1 .. (MaxLevels + 1) /\ MaxLevels \in Nat
  BY FamiliesAssumption DEF Ancestors
<1>2. IsFiniteSet(levels)
  <2>1. IsFiniteSet(1 .. (MaxLevels + 1))  BY <1>1, FS_Interval
  <2>2. QED  BY <1>1, <2>1, FS_Subset
<1>3. depth \in Nat  BY <1>2, FS_CardinalityType
<1>4. SUFFICES ASSUME Above(guide, above, depth + 1) # Alone PROVE FALSE
  BY <1>3
<1>5. depth + 1 < MaxLevels
  <2>1. Above(guide, above, MaxLevels) = Alone  BY DEF Shallow
  <2>2. QED  BY <1>1, <1>3, <1>4, <2>1, StaysOver
<1>6. \A n \in 1 .. (depth + 1) : n \in levels
  <2>1. SUFFICES ASSUME NEW n \in 1 .. (depth + 1), Above(guide, above, n) = Alone PROVE FALSE
    BY <1>1, <1>3, <1>5 DEF Ancestors
  <2>2. n \in Nat /\ n <= depth + 1 /\ depth + 1 \in Nat  BY <1>3
  <2>3. QED  BY <1>4, <2>1, <2>2, StaysOver
<1>7. depth + 1 \in levels  BY <1>3, <1>6
<1>8. depth + 1 <= depth
  <2> HIDE DEF levels
  <2>1. MaxLevels + 1 \in Nat /\ 1 .. (depth + 1) \subseteq levels  BY <1>1, <1>6
  <2>2. QED  BY <1>1, <1>7, <2>1, NoHigherThanMany
<1>9. QED  BY <1>3, <1>8

\* What the walk down counts: nobody is further below.
LEMMA DescendantsCounted ==
    ASSUME NEW above \in Links, NEW guide \in FamilyGuides, NEW other \in FamilyGuides,
           NEW n \in 0 .. MaxLevels, Above(other, above, n) = guide
    PROVE  LET height == Cardinality(Descendants(guide, above)) IN height \in Nat /\ n <= height
<1> DEFINE levels == Descendants(guide, above)
<1>1. levels \subseteq 1 .. (MaxLevels + 1) /\ MaxLevels \in Nat
  BY FamiliesAssumption DEF Descendants
<1>2. IsFiniteSet(levels)
  <2>1. IsFiniteSet(1 .. (MaxLevels + 1))  BY <1>1, FS_Interval
  <2>2. QED  BY <1>1, <2>1, FS_Subset
<1>3. Cardinality(levels) \in Nat  BY <1>2, FS_CardinalityType
<1>4. CASE n = 0  BY <1>3, <1>4
<1>5. CASE n # 0
  <2>1. \A k \in 1 .. n : k \in levels
    <3> SUFFICES ASSUME NEW k \in 1 .. n PROVE k \in levels
      OBVIOUS
    <3>1. n - k \in Nat /\ k \in Nat /\ n = (n - k) + k /\ k \in 1 .. (MaxLevels + 1)
      BY <1>1
    <3>2. PICK from : from = Above(other, above, n - k)
      OBVIOUS
    <3>3. Above(from, above, k) = guide
      <4>1. Above(other, above, (n - k) + k) = Above(Above(other, above, n - k), above, k)
        BY <3>1, WalkOn
      <4>2. QED  BY <3>1, <3>2, <4>1
    <3>4. from \in FamilyGuides
      <4>1. from \in FamilyGuides \cup {Alone}  BY <3>1, <3>2, WalkStays
      <4>2. from # Alone
        <5>1. Above(Alone, above, k) = Alone  BY <3>1, NothingAbove
        <5>2. guide # Alone  BY FamiliesAssumption
        <5>3. QED  BY <3>3, <5>1, <5>2
      <4>3. QED  BY <4>1, <4>2
    <3>5. QED  BY <3>1, <3>3, <3>4 DEF Descendants
  <2>2. n \in levels  BY <1>5, <1>1, <2>1
  <2>3. n <= Cardinality(levels)
    <3> HIDE DEF levels
    <3>1. MaxLevels + 1 \in Nat /\ 1 .. n \subseteq levels  BY <1>1, <2>1
    <3>2. QED  BY <1>1, <2>2, <3>1, NoHigherThanMany
  <2>4. QED  BY <1>3, <2>3
<1>6. QED  BY <1>4, <1>5

\* What the trigger lets pass closes no circle and is not too deep (012: check_guide_family).
LEMMA CheckedLinkIsShallow ==
    ASSUME NEW above \in Links, Shallow(above), NEW child \in FamilyGuides,
           NEW under \in FamilyGuides, child # under, CheckFamily(child, under, above)
    PROVE  Shallow(Refiled(above, child, under))
<1> DEFINE changed == Refiled(above, child, under)
           depth == Cardinality(Ancestors(under, above))
           height == Cardinality(Descendants(child, above))
<1>1. depth \in Nat /\ Above(under, above, depth + 1) = Alone
  BY AncestorsCounted
<1>2. MaxLevels \in Nat /\ height \in Nat
  <2>1. Above(child, above, 0) = child /\ 0 \in 0 .. MaxLevels  BY AboveIsAWalk, FamiliesAssumption
  <2>2. QED  BY <2>1, DescendantsCounted, FamiliesAssumption
<1>3. depth + height + 2 <= MaxLevels
  BY DEF CheckFamily, DepthOf
<1> HIDE DEF depth, height
<1>4. Avoids(under, above, child, depth + 1)
  <2> SUFFICES ASSUME NEW n \in Nat, n < depth + 1, Above(under, above, n) = child PROVE FALSE
    BY DEF Avoids
  <2>1. CASE n = 0
    <3>1. Above(under, above, 0) = under  BY AboveIsAWalk
    <3>2. QED  BY <2>1, <3>1
  <2>2. CASE n # 0
    <3>1. n \in 1 .. (MaxLevels + 1)  BY <1>1, <1>2, <1>3, <2>2
    <3>2. child # Alone  BY FamiliesAssumption
    <3>3. n \in Ancestors(under, above)  BY <3>1, <3>2 DEF Ancestors
    <3>4. QED  BY <3>3 DEF CheckFamily, Descends
  <2>3. QED  BY <2>1, <2>2
<1>5. Above(under, changed, depth + 1) = Alone
  <2>1. depth + 1 \in Nat /\ depth + 1 <= depth + 1  BY <1>1
  <2>2. Above(under, changed, depth + 1) = Above(under, above, depth + 1)
    BY <1>4, <2>1, WalkElsewhere
  <2>3. QED  BY <1>1, <2>2
<1>6. changed[child] = under  BY DEF Refiled, Links
<1>7. SUFFICES ASSUME NEW guide \in FamilyGuides PROVE Above(guide, changed, MaxLevels) = Alone
  BY DEF Shallow
<1>8. CASE Avoids(guide, above, child, MaxLevels)
  <2>1. \A n \in Nat : n <= MaxLevels => Above(guide, changed, n) = Above(guide, above, n)
    BY <1>2, <1>8, WalkElsewhere
  <2>2. Above(guide, changed, MaxLevels) = Above(guide, above, MaxLevels)
    BY <1>2, <2>1
  <2>3. QED  BY <2>2 DEF Shallow
<1>9. CASE ~Avoids(guide, above, child, MaxLevels)
  <2> DEFINE T == {n \in Nat : Above(guide, above, n) = child}
  <2>1. PICK m \in Nat : m < MaxLevels /\ m \in T  BY <1>9 DEF Avoids
  <2>2. PICK n \in Nat : n \in T /\ n <= m /\ \A k \in Nat : k < n => k \notin T
    <3> HIDE DEF T
    <3>1. QED  BY <2>1, LeastNumber
  <2>3. n < MaxLevels /\ n \in 0 .. MaxLevels  BY <1>2, <2>1, <2>2
  <2>4. Above(guide, above, n) = child /\ Avoids(guide, above, child, n)
    BY <2>2 DEF Avoids
  <2>5. Above(guide, changed, n) = child
    <3>1. \A k \in Nat : k <= n => Above(guide, changed, k) = Above(guide, above, k)
      BY <2>4, WalkElsewhere
    <3>2. Above(guide, changed, n) = Above(guide, above, n)  BY <3>1
    <3>3. QED  BY <2>4, <3>2
  <2>6. n <= height
    BY <2>3, <2>4, DescendantsCounted DEF height
  <2>7. Above(guide, changed, n + 1) = under
    <3>1. Above(guide, changed, n + 1) = Up(Above(guide, changed, n), changed)  BY AboveIsAWalk
    <3>2. child # Alone  BY FamiliesAssumption
    <3>3. QED  BY <3>1, <3>2, <2>5, <1>6 DEF Up
  <2> HIDE DEF changed
  <2>8. n + 1 \in Nat /\ depth + 1 \in Nat  BY <1>1
  <2>9. Above(guide, changed, (n + 1) + (depth + 1)) = Alone
    <3>1. Above(guide, changed, (n + 1) + (depth + 1))
          = Above(Above(guide, changed, n + 1), changed, depth + 1)
      BY <2>8, WalkOn
    <3>2. QED  BY <3>1, <2>7, <1>5
  <2>10. (n + 1) + (depth + 1) \in Nat /\ (n + 1) + (depth + 1) <= MaxLevels
    BY <1>1, <1>2, <1>3, <2>6
  <2>11. QED  BY <1>2, <2>9, <2>10, StaysOver
<1>10. QED  BY <1>8, <1>9

\* Removing a link makes nothing deeper.
LEMMA FewerIsShallow ==
    ASSUME NEW above \in Links, Shallow(above), NEW child \in FamilyGuides
    PROVE  Shallow(Refiled(above, child, Alone))
<1>1. MaxLevels \in Nat  BY FamiliesAssumption
<1>2. QED  BY <1>1, FewerLinks DEF Shallow

-----------------------------------------------------------------------------
(* The transactions *)

FilingTyped ==
    /\ parent \in Links
    /\ filing \in [Managers -> [stage : {"idle", "deleting", "locking", "checking", "written"},
                                child : FamilyGuides \cup {Alone}, under : FamilyGuides \cup {Alone}]]
    /\ \A manager \in Managers : ~Stands(manager, "idle") =>
          /\ filing[manager].child \in FamilyGuides /\ filing[manager].child # filing[manager].under
          /\ filing[manager].stage \in {"locking", "checking"} => filing[manager].under # Alone
          /\ filing[manager].stage = "deleting" => filing[manager].under = Alone

OneChecks == \A one, other \in Managers : HoldsLock(one) /\ HoldsLock(other) => one = other

\* What the trigger let pass is still right: only removals are committed meanwhile.
LinksReady ==
    \A manager \in Managers : Stands(manager, "written") =>
        Shallow(Refiled(parent, filing[manager].child, filing[manager].under))

FamilyInv == FilingTyped /\ OneChecks /\ LinksReady /\ Shallow(parent)

\* At the start nothing is filed: every guide is one step below the top.
LEMMA FamiliesStart == FamiliesInit => FamilyInv
<1> SUFFICES ASSUME FamiliesInit PROVE FamilyInv
  OBVIOUS
<1>1. FilingTyped  BY DEF FamiliesInit, FilingTyped, NotFiling, Stands, Links
<1>2. OneChecks /\ LinksReady
  BY DEF FamiliesInit, OneChecks, LinksReady, HoldsLock, NotFiling, Stands
<1>3. ASSUME NEW guide \in FamilyGuides PROVE Above(guide, parent, MaxLevels) = Alone
  <2>1. Above(guide, parent, 0 + 1) = Up(guide, parent)
    <3>1. Above(guide, parent, 0) = guide
          /\ Above(guide, parent, 0 + 1) = Up(Above(guide, parent, 0), parent)
      BY AboveIsAWalk
    <3>2. QED  BY <3>1
  <2>2. Up(guide, parent) = Alone  BY DEF Up, FamiliesInit
  <2>3. 0 + 1 \in Nat /\ MaxLevels \in Nat /\ 0 + 1 <= MaxLevels  BY FamiliesAssumption
  <2>4. QED  BY <2>1, <2>2, <2>3, StaysOver
<1>4. QED  BY <1>1, <1>2, <1>3 DEF FamilyInv, Shallow

\* Types.
LEMMA FilingStaysTyped ==
    ASSUME FilingTyped, [FamiliesNext]_familyVars
    PROVE  FilingTyped'
<1> USE DEF FilingTyped, Stands
<1>1. CASE UNCHANGED familyVars  BY <1>1 DEF familyVars
<1>2. ASSUME NEW manager \in Managers, NEW child \in FamilyGuides,
             NEW under \in FamilyGuides \cup {Alone}, AskToFile(manager, child, under)
      PROVE  FilingTyped'
  BY <1>2 DEF AskToFile
<1>3. ASSUME NEW manager \in Managers,
             TakeFamilyLock(manager) \/ WriteLink(manager) \/ DeleteLink(manager)
      PROVE  FilingTyped'
  BY <1>3 DEF TakeFamilyLock, WriteLink, DeleteLink, FilingAt
<1>4. ASSUME NEW manager \in Managers, RefuseLink(manager) \/ AbandonFiling(manager)
      PROVE  FilingTyped'
  BY <1>4 DEF RefuseLink, AbandonFiling, NotFiling
<1>5. ASSUME NEW manager \in Managers, CommitFiling(manager) PROVE FilingTyped'
  <2>1. filing[manager].child \in FamilyGuides /\ filing[manager].under \in FamilyGuides \cup {Alone}
    BY <1>5 DEF CommitFiling
  <2>2. parent' \in Links  BY <1>5, <2>1 DEF CommitFiling, Links
  <2>3. QED  BY <1>5, <2>2 DEF CommitFiling, NotFiling
<1>6. QED  BY <1>1, <1>2, <1>3, <1>4, <1>5 DEF FamiliesNext

\* The lock.
LEMMA OneKeepsChecking ==
    ASSUME FilingTyped, OneChecks, [FamiliesNext]_familyVars
    PROVE  OneChecks'
<1> USE DEF FilingTyped, Stands, OneChecks, HoldsLock
<1>1. CASE UNCHANGED familyVars  BY <1>1 DEF familyVars
<1>2. ASSUME NEW manager \in Managers, NEW child \in FamilyGuides,
             NEW under \in FamilyGuides \cup {Alone}, AskToFile(manager, child, under)
      PROVE  OneChecks'
  BY <1>2 DEF AskToFile
<1>3. ASSUME NEW manager \in Managers, TakeFamilyLock(manager) PROVE OneChecks'
  BY <1>3 DEF TakeFamilyLock, LockIsFree, FilingAt
<1>4. ASSUME NEW manager \in Managers, WriteLink(manager) \/ DeleteLink(manager) PROVE OneChecks'
  BY <1>4 DEF WriteLink, DeleteLink, FilingAt
<1>5. ASSUME NEW manager \in Managers,
             RefuseLink(manager) \/ AbandonFiling(manager) \/ CommitFiling(manager)
      PROVE  OneChecks'
  BY <1>5 DEF RefuseLink, AbandonFiling, CommitFiling, NotFiling
<1>6. QED  BY <1>1, <1>2, <1>3, <1>4, <1>5 DEF FamiliesNext

\* A commit under a link that is ready: if that is a link, all others that are written
\* are removals; if it is a removal, it makes theirs no deeper.
LEMMA CommitsLeaveReady ==
    ASSUME FamilyInv, NEW manager \in Managers, CommitFiling(manager), NEW other \in Managers,
           Stands(other, "written")'
    PROVE  Shallow(Refiled(parent', filing'[other].child, filing'[other].under))
<1>1. other # manager /\ filing'[other] = filing[other] /\ Stands(other, "written")
  BY DEF CommitFiling, FamilyInv, FilingTyped, Stands, NotFiling
<1>2. PICK child \in FamilyGuides, under \in FamilyGuides \cup {Alone} :
          child = filing[manager].child /\ under = filing[manager].under
  BY DEF CommitFiling, FamilyInv, FilingTyped, Stands
<1>3. PICK theirs \in FamilyGuides, place \in FamilyGuides \cup {Alone} :
          theirs = filing[other].child /\ place = filing[other].under
  BY <1>1 DEF FamilyInv, FilingTyped, Stands
<1>4. PICK before \in Links : before = parent  BY DEF FamilyInv, FilingTyped
<1>5. /\ Shallow(before) /\ Shallow(Refiled(before, child, under))
      /\ Shallow(Refiled(before, theirs, place))
  BY <1>1, <1>2, <1>3, <1>4 DEF FamilyInv, LinksReady, CommitFiling
<1>6. parent' = Refiled(before, child, under) /\ parent' \in Links
  BY <1>2, <1>4 DEF CommitFiling, Refiled, Links
<1>7. under = Alone \/ place = Alone
  BY <1>1, <1>2, <1>3 DEF FamilyInv, OneChecks, HoldsLock, CommitFiling, Stands
<1>8. SUFFICES Shallow(Refiled(Refiled(before, child, under), theirs, place))
  BY <1>1, <1>3, <1>6
<1>9. CASE place = Alone
  <2>1. Refiled(before, child, under) \in Links  BY <1>6
  <2>2. QED  BY <1>5, <1>9, <2>1, FewerIsShallow
<1>10. CASE under = Alone /\ child # theirs
  <2>1. Refiled(Refiled(before, child, Alone), theirs, place)
        = Refiled(Refiled(before, theirs, place), child, Alone)
    BY <1>10 DEF Refiled, Links
  <2>2. Refiled(before, theirs, place) \in Links  BY DEF Refiled, Links
  <2>3. QED  BY <1>5, <1>10, <2>1, <2>2, FewerIsShallow
<1>11. CASE child = theirs
  <2>1. Refiled(Refiled(before, child, under), theirs, place) = Refiled(before, theirs, place)
    BY <1>11 DEF Refiled, Links
  <2>2. QED  BY <1>5, <2>1
<1>12. QED  BY <1>7, <1>9, <1>10, <1>11

\* Every step.
LEMMA FamilyKept == FamilyInv /\ [FamiliesNext]_familyVars => FamilyInv'
<1> SUFFICES ASSUME FamilyInv, [FamiliesNext]_familyVars PROVE FamilyInv'
  OBVIOUS
<1>1. FilingTyped' /\ OneChecks'  BY FilingStaysTyped, OneKeepsChecking DEF FamilyInv
<1>2. ASSUME parent' = parent,
             \A other \in Managers : Stands(other, "written")' =>
                 \/ filing'[other] = filing[other]
                 \/ Shallow(Refiled(parent, filing'[other].child, filing'[other].under))
      PROVE  FamilyInv'
  <2>1. LinksReady'  BY <1>2 DEF FamilyInv, LinksReady, Stands
  <2>2. QED  BY <1>1, <1>2, <2>1 DEF FamilyInv
<1>3. CASE UNCHANGED familyVars  BY <1>2, <1>3 DEF familyVars
<1>4. ASSUME NEW manager \in Managers, NEW child \in FamilyGuides,
             NEW under \in FamilyGuides \cup {Alone}, AskToFile(manager, child, under)
      PROVE  FamilyInv'
  <2>1. \A other \in Managers : Stands(other, "written")' => filing'[other] = filing[other]
    BY <1>4 DEF AskToFile, Stands, FamilyInv, FilingTyped
  <2>2. QED  BY <1>2, <1>4, <2>1 DEF AskToFile
<1>5. ASSUME NEW manager \in Managers, TakeFamilyLock(manager) PROVE FamilyInv'
  <2>1. \A other \in Managers : Stands(other, "written")' => filing'[other] = filing[other]
    BY <1>5 DEF TakeFamilyLock, FilingAt, Stands, FamilyInv, FilingTyped
  <2>2. QED  BY <1>2, <1>5, <2>1 DEF TakeFamilyLock
<1>6. ASSUME NEW manager \in Managers, RefuseLink(manager) \/ AbandonFiling(manager)
      PROVE  FamilyInv'
  <2>1. \A other \in Managers : Stands(other, "written")' => filing'[other] = filing[other]
    BY <1>6 DEF RefuseLink, AbandonFiling, NotFiling, Stands, FamilyInv, FilingTyped
  <2>2. QED  BY <1>2, <1>6, <2>1 DEF RefuseLink, AbandonFiling
<1>7. ASSUME NEW manager \in Managers, WriteLink(manager) \/ DeleteLink(manager)
      PROVE  FamilyInv'
  <2>1. /\ \A other \in Managers \ {manager} : filing'[other] = filing[other]
        /\ filing'[manager].child = filing[manager].child
        /\ filing'[manager].under = filing[manager].under
        /\ parent' = parent
    BY <1>7 DEF WriteLink, DeleteLink, FilingAt, FamilyInv, FilingTyped
  <2>2. PICK child \in FamilyGuides, under \in FamilyGuides \cup {Alone} :
            child = filing[manager].child /\ under = filing[manager].under
    BY <1>7 DEF WriteLink, DeleteLink, FamilyInv, FilingTyped, Stands
  <2>3. PICK before \in Links : before = parent /\ Shallow(before)
    BY DEF FamilyInv, FilingTyped
  <2>4. Shallow(Refiled(before, child, under))
    <3>1. CASE WriteLink(manager)
      <4>1. CheckFamily(child, under, before)  BY <3>1, <2>2, <2>3 DEF WriteLink
      <4>2. child # under /\ under \in FamilyGuides
        BY <3>1, <2>2 DEF WriteLink, FamilyInv, FilingTyped, Stands
      <4>3. QED  BY <2>3, <4>1, <4>2, CheckedLinkIsShallow
    <3>2. CASE DeleteLink(manager)
      <4>1. under = Alone  BY <3>2, <2>2 DEF DeleteLink, FamilyInv, FilingTyped, Stands
      <4>2. QED  BY <2>3, <4>1, FewerIsShallow
    <3>3. QED  BY <1>7, <3>1, <3>2
  <2>5. Shallow(Refiled(parent, filing'[manager].child, filing'[manager].under))
    BY <2>1, <2>2, <2>3, <2>4
  <2>6. QED  BY <1>2, <2>1, <2>5
<1>8. ASSUME NEW manager \in Managers, CommitFiling(manager) PROVE FamilyInv'
  <2>1. LinksReady'  BY <1>8, CommitsLeaveReady DEF LinksReady
  <2>2. Shallow(parent')
    BY <1>8 DEF CommitFiling, FamilyInv, LinksReady, Refiled
  <2>3. QED  BY <1>1, <2>1, <2>2 DEF FamilyInv
<1>9. QED
  BY <1>3, <1>4, <1>5, <1>6, <1>7, <1>8 DEF FamiliesNext

\* However many managers file guides at once, families are trees of at most MaxLevels
\* (012_guide_families.sql: check_guide_family).
THEOREM FamiliesStayTrees == FamiliesSpec => []FamiliesAreTrees
<1>1. FamilyInv => FamiliesAreTrees  BY DEF FamilyInv, Shallow, FamiliesAreTrees
<1>2. QED  BY <1>1, FamiliesStart, FamilyKept, PTL DEF FamiliesSpec

=============================================================================
