------------------------------- MODULE Roster -------------------------------
(***************************************************************************)
(* Who belongs to one workspace and who may run it: its members, the        *)
(* invitations managers hand out, and the requests that change either.      *)
(* Unlike the guide library, these requests share no lock that would make   *)
(* each of them one step: a manager's request (store.ts, transaction)       *)
(* share-locks its own membership row, a roster change also takes an        *)
(* advisory lock, and redeeming a link (accept_invitation) takes neither.   *)
(* So a request goes through the statements of its transaction one by one,  *)
(* each reading what has committed (READ COMMITTED) and waiting for the     *)
(* locks of the others; what it wrote shows when it commits.                *)
(*                                                                          *)
(* Which locks a request holds follows from where it stands, so there is no *)
(* variable for them: see Shares, WritesRow, HoldsRoster, HoldsInvitation.  *)
(***************************************************************************)
CONSTANTS
    People,         \* people, each with the one address they are invited under
    Founders,       \* those who manage the workspace at the start
    Invitations,    \* identities an invitation row can get (randomUUID)
    Requests        \* requests the web service can be handling at once

ASSUME FoundersAssumption == Founders # {} /\ Founders \subseteq People

VARIABLES
    member,         \* app.membership as committed; "none" is no row
    account,        \* public.auth_user of each address
    invitation,     \* app.invitation
    request         \* the requests under way, with what they know and hold

vars == <<member, account, invitation, request>>

Role == {"view", "manage"}
Account == {"none", "unverified", "verified"}

\* A manager's request, who being the account signed in: setMemberRole, or
\* removeMember when the role is "none"; inviteToWorkspace; revokeInvitation.
RosterRequest == [kind : {"roster"}, at : {"scope", "owner", "roster", "write", "commit"},
                  who : People, shared : BOOLEAN, target : People, role : Role \cup {"none"}]
InviteRequest == [kind : {"invite"}, at : {"scope", "owner", "already", "insert"},
                  who : People, shared : BOOLEAN, target : People, role : Role]
RevokeRequest == [kind : {"revoke"}, at : {"scope", "owner", "revoke"},
                  who : People, shared : BOOLEAN, link : Invitations]
\* A link being accepted; user is how the request came by the account it acts for.
AcceptRequest == [kind : {"accept"}, at : {"signup", "redeem", "join", "commit", "verify"},
                  target : People, role : Role, link : Invitations,
                  user : {"found", "created", "phantom"}]
Idle == [at |-> "idle"]

\* "deleted" is a row gone: revoked, or cleared away once expired.
InvitationRow == [role : Role, to : People,
                  state : {"pending", "expired", "accepted", "deleted"}]
Unsent == [state |-> "unsent"]

At(r, place) == request[r].at = place
Goes(r, place) == request' = [request EXCEPT ![r].at = place]
Ends(r) == request' = [request EXCEPT ![r] = Idle]
Manages(p) == member[p] = "manage"

-----------------------------------------------------------------------------
(* Locks, and who waits for whom. *)

IsAccept(r) == ~ At(r, "idle") /\ request[r].kind = "accept"

\* Mutant: lock_scope's locks go before the request ends.
SharesWhileChecking(r, p) == At(r, "owner") /\ request[r].shared /\ request[r].who = p

\* lock_scope: FOR SHARE on the actor's membership row, if there was one.
Shares(r, p) ==
    ~ At(r, "idle") /\ ~ IsAccept(r) /\ request[r].shared /\ request[r].who = p

\* Between an INSERT, UPDATE or DELETE of a membership row and its COMMIT.
WritesRow(r, p) == At(r, "commit") /\ request[r].target = p

\* Mutant: the advisory lock goes before the COMMIT.
HoldsRosterUntilWritten(r) == At(r, "write") /\ request[r].kind = "roster"

HoldsRoster(r) == (At(r, "write") \/ At(r, "commit")) /\ request[r].kind = "roster"

\* Mutant: the SELECT is not FOR UPDATE.
HoldsInvitationFromWrite(r, i) == At(r, "commit") /\ IsAccept(r) /\ request[r].link = i

\* From accept_invitation's SELECT ... FOR UPDATE to the COMMIT.
HoldsInvitation(r, i) ==
    (At(r, "join") \/ At(r, "commit")) /\ IsAccept(r) /\ request[r].link = i

\* Does r's next statement wait for the transaction of q?  A row that is not
\* committed yet is not seen, and so not waited for, except by the INSERT of
\* the same key.
WaitsFor(r, q) ==
    /\ q # r
    /\ \/ /\ At(r, "scope")
          /\ member[request[r].who] # "none"
          /\ WritesRow(q, request[r].who)
       \/ At(r, "roster") /\ HoldsRoster(q)
       \/ /\ At(r, "write")
          /\ member[request[r].target] # "none"
          /\ WritesRow(q, request[r].target) \/ Shares(q, request[r].target)
       \/ /\ At(r, "insert")
          /\ \E i \in Invitations :
                /\ HoldsInvitation(q, i)
                /\ request[q].target = request[r].target
                /\ At(q, "commit") \/ invitation[i].state = "expired"
       \/ (At(r, "revoke") \/ At(r, "redeem")) /\ HoldsInvitation(q, request[r].link)
       \/ /\ At(r, "join")
          /\ request[r].user # "phantom"
          /\ WritesRow(q, request[r].target) \/ Shares(q, request[r].target)

Free(r) == \A q \in Requests : ~ WaitsFor(r, q)

\* Every member of the set waits for another: the set holds a cycle, and when
\* it is minimal it is one.
Stuck(set) == set # {} /\ \A r \in set : \E q \in set : WaitsFor(r, q)
Deadlocked(r) ==
    \E set \in SUBSET Requests :
        r \in set /\ Stuck(set) /\ \A part \in SUBSET set : Stuck(part) => part = set

-----------------------------------------------------------------------------
(* A manager's request: BEGIN, lock_scope, owner, and then its own statements. *)

Start(r, who, what) ==
    /\ At(r, "idle")
    /\ account[who] = "verified"
    /\ request' = [request EXCEPT ![r] = what]
    /\ UNCHANGED <<member, account, invitation>>

AskRoster(r) == \E who, target \in People, role \in Role \cup {"none"} :
    Start(r, who, [kind |-> "roster", at |-> "scope", who |-> who, shared |-> FALSE,
                   target |-> target, role |-> role])
AskInvite(r) == \E who, target \in People, role \in Role :
    Start(r, who, [kind |-> "invite", at |-> "scope", who |-> who, shared |-> FALSE,
                   target |-> target, role |-> role])
AskRevoke(r) == \E who \in People, link \in Invitations :
    Start(r, who, [kind |-> "revoke", at |-> "scope", who |-> who, shared |-> FALSE,
                   link |-> link])

LockScope(r) ==
    /\ At(r, "scope")
    /\ Free(r)
    /\ request' = [request EXCEPT ![r].at = "owner",
                                  ![r].shared = member[request[r].who] # "none"]
    /\ UNCHANGED <<member, account, invitation>>

FirstStatement(kind) ==
    CASE kind = "roster" -> "roster" [] kind = "invite" -> "already" [] kind = "revoke" -> "revoke"

\* Mutant: a refusal leaves the transaction open.
CheckOwnerWithoutRollback(r) ==
    /\ At(r, "owner")
    /\ Manages(request[r].who)
    /\ Goes(r, FirstStatement(request[r].kind))
    /\ UNCHANGED <<member, account, invitation>>

CheckOwner(r) ==
    /\ At(r, "owner")
    /\ IF Manages(request[r].who) THEN Goes(r, FirstStatement(request[r].kind)) ELSE Ends(r)
    /\ UNCHANGED <<member, account, invitation>>

LockRoster(r) ==
    /\ At(r, "roster")
    /\ Free(r)
    /\ Goes(r, "write")
    /\ UNCHANGED <<member, account, invitation>>

\* The membership as the transaction of r sees it after its own statement.
Written(r) == [member EXCEPT ![request[r].target] = request[r].role]

\* check_last_manager, at the end of the statement and not at the commit.
KeepsAManager(r) == \E p \in People : Written(r)[p] = "manage"

\* The UPDATE of setMemberRole and the DELETE of removeMember: row-level
\* security hides every row from somebody who does not manage, and changing no
\* row is a refusal.
WriteMember(r) ==
    /\ At(r, "write")
    /\ Free(r)
    /\ IF /\ Manages(request[r].who)
          /\ member[request[r].target] # "none"
          /\ KeepsAManager(r)
       THEN Goes(r, "commit")
       ELSE Ends(r)
    /\ UNCHANGED <<member, account, invitation>>

CheckAlready(r) ==
    /\ At(r, "already")
    /\ IF member[request[r].target] = "none" THEN Goes(r, "insert") ELSE Ends(r)
    /\ UNCHANGED <<member, account, invitation>>

Addressed(i, p) == invitation[i] # Unsent /\ invitation[i].to = p

\* The index invitation_pending_email: one unaccepted row for each address,
\* once the expired ones are cleared away.
AddressTaken(p) == \E i \in Invitations : Addressed(i, p) /\ invitation[i].state = "pending"

Fresh == {i \in Invitations : invitation[i] = Unsent}

\* The model stops inviting when it has no identity left.
InsertInvitation(r) ==
    /\ At(r, "insert")
    /\ Free(r)
    /\ Ends(r)
    /\ IF Manages(request[r].who) /\ ~ AddressTaken(request[r].target) /\ Fresh # {}
       THEN \E new \in Fresh :
                invitation' = [i \in Invitations |->
                   IF i = new
                   THEN [role |-> request[r].role, to |-> request[r].target, state |-> "pending"]
                   ELSE IF Addressed(i, request[r].target) /\ invitation[i].state = "expired"
                   THEN [invitation[i] EXCEPT !.state = "deleted"]
                   ELSE invitation[i]]
       ELSE UNCHANGED invitation
    /\ UNCHANGED <<member, account>>

DeleteInvitation(r) ==
    /\ At(r, "revoke")
    /\ Free(r)
    /\ Ends(r)
    /\ IF Manages(request[r].who) /\ invitation[request[r].link].state \in {"pending", "expired"}
       THEN invitation' = [invitation EXCEPT ![request[r].link].state = "deleted"]
       ELSE UNCHANGED invitation
    /\ UNCHANGED <<member, account>>

-----------------------------------------------------------------------------
(* Opening a link and accepting it: POST /api/invitations/[token]. *)

\* describeInvitation and findAccount.  An existing account is acted for only
\* by somebody signed in as it, which takes a verified address.
OpenLink(r) == \E i \in Invitations :
    /\ At(r, "idle")
    /\ invitation[i].state = "pending"
    /\ account[invitation[i].to] # "unverified"
    /\ request' = [request EXCEPT ![r] =
           [kind |-> "accept",
            at |-> IF account[invitation[i].to] = "none" THEN "signup" ELSE "redeem",
            target |-> invitation[i].to, role |-> invitation[i].role,
            link |-> i, user |-> "found"]]
    /\ UNCHANGED <<member, account, invitation>>

\* For an address that got its account meanwhile, signing up does not fail: it
\* answers with a user that does not exist.
SignUp(r) ==
    /\ At(r, "signup")
    /\ LET new == account[request[r].target] = "none"
       IN  /\ request' = [request EXCEPT ![r].at = "redeem",
                                         ![r].user = IF new THEN "created" ELSE "phantom"]
           /\ account' = IF new THEN [account EXCEPT ![request[r].target] = "unverified"]
                         ELSE account
    /\ UNCHANGED <<member, invitation>>

LockInvitation(r) ==
    /\ At(r, "redeem")
    /\ Free(r)
    /\ IF invitation[request[r].link].state = "pending" THEN Goes(r, "join") ELSE Ends(r)
    /\ UNCHANGED <<member, account, invitation>>

\* INSERT ... ON CONFLICT DO UPDATE.  The foreign key refuses a phantom user, and
\* the trigger looks only when there was a row to update.
Join(r) ==
    /\ At(r, "join")
    /\ Free(r)
    /\ IF /\ request[r].user # "phantom"
          /\ member[request[r].target] = "none" \/ KeepsAManager(r)
       THEN Goes(r, "commit")
       ELSE Ends(r)
    /\ UNCHANGED <<member, account, invitation>>

Commit(r) ==
    /\ At(r, "commit")
    /\ member' = Written(r)
    /\ IF IsAccept(r)
       THEN /\ invitation' = [invitation EXCEPT ![request[r].link].state = "accepted"]
            /\ IF request[r].user = "created" THEN Goes(r, "verify") ELSE Ends(r)
       ELSE Ends(r) /\ UNCHANGED invitation
    /\ UNCHANGED account

MarkVerified(r) ==
    /\ At(r, "verify")
    /\ account' = [account EXCEPT ![request[r].target] = "verified"]
    /\ Ends(r)
    /\ UNCHANGED <<member, invitation>>

-----------------------------------------------------------------------------
(* What happens to requests and links from outside. *)

\* PostgreSQL ends one transaction of a cycle of waiting ones (40P01).
AbortDeadlocked(r) == Deadlocked(r) /\ Ends(r) /\ UNCHANGED <<member, account, invitation>>

\* The process or its connection goes away; the transaction rolls back.
Crash(r) == ~ At(r, "idle") /\ Ends(r) /\ UNCHANGED <<member, account, invitation>>

Expire(i) ==
    /\ invitation[i].state = "pending"
    /\ invitation' = [invitation EXCEPT ![i].state = "expired"]
    /\ UNCHANGED <<member, account, request>>

Init ==
    /\ member = [p \in People |-> IF p \in Founders THEN "manage" ELSE "none"]
    /\ account \in [People -> {"none", "verified"}]
    /\ \A p \in Founders : account[p] = "verified"
    /\ invitation = [i \in Invitations |-> Unsent]
    /\ request = [r \in Requests |-> Idle]

Begin(r) == AskRoster(r) \/ AskInvite(r) \/ AskRevoke(r) \/ OpenLink(r)

Step(r) ==
    \/ LockScope(r) \/ CheckOwner(r)
    \/ LockRoster(r) \/ WriteMember(r)
    \/ CheckAlready(r) \/ InsertInvitation(r)
    \/ DeleteInvitation(r)
    \/ SignUp(r) \/ LockInvitation(r) \/ Join(r)
    \/ Commit(r) \/ MarkVerified(r)
    \/ AbortDeadlocked(r)

Next ==
    \/ \E r \in Requests : Begin(r) \/ Step(r) \/ Crash(r)
    \/ \E i \in Invitations : Expire(i)

Spec == Init /\ [][Next]_vars

\* A statement that waits for nobody runs, and a deadlock is found.
FairSpec == Spec /\ \A r \in Requests : WF_vars(Step(r))

-----------------------------------------------------------------------------
(* Properties. *)

\* Every row and every request has its fields, and a request is only where its
\* kind can be.
TypeOK ==
    /\ member \in [People -> Role \cup {"none"}]
    /\ account \in [People -> Account]
    /\ invitation \in [Invitations -> InvitationRow \cup {Unsent}]
    /\ request \in [Requests -> {Idle} \cup RosterRequest \cup InviteRequest
                                 \cup RevokeRequest \cup AcceptRequest]

\* "A workspace cannot be left with nobody who can administer it": roster
\* changes of several managers at once, each checked against what had committed
\* when it wrote, never add up to a workspace without a manager.
SomeoneManages == \E p \in People : Manages(p)

\* A manager whose request has passed its check is not demoted or removed under
\* it: the row the check read is share-locked until the request ends.  (Somebody
\* who had no row to lock when the request began is not covered.)
Checked(r) == ~ IsAccept(r) /\ request[r].at \notin {"idle", "scope", "owner"}
AuthorityLasts ==
    \A r \in Requests :
        Checked(r) /\ request[r].shared => Manages(request[r].who)

\* Nobody becomes a member but by an invitation to them, unaccepted until that
\* moment and accepted in it, whichever of several uses of the link, removals
\* and revocations comes first; and they get the role it names.
InvitedBy(p, i) ==
    /\ invitation[i] # Unsent
    /\ invitation[i].to = p
    /\ invitation[i].state \in {"pending", "expired"}
    /\ invitation'[i].state = "accepted"
    /\ invitation[i].role = member'[p]
MembersAreInvited ==
    [][\A p \in People : member[p] = "none" /\ member'[p] # "none"
                            => \E i \in Invitations : InvitedBy(p, i)]_vars

\* Once nobody asks for anything more, every request that is waiting for
\* another's lock ends: locks are released, and cycles of them are broken.
Begins == \E r \in Requests : At(r, "idle") /\ request'[r] # Idle
RequestsEnd == <>[][~ Begins]_vars => <>[](request = [r \in Requests |-> Idle])
=============================================================================
