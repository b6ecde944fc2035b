----------------------------- MODULE Credentials -----------------------------
(***************************************************************************)
(* Passwords, sessions, reset links, installation administrators and the   *)
(* default login of a fresh installation (migrations 032 to 034, which      *)
(* every password write goes through, and the routes and commands that      *)
(* call them).  A request reads first and writes later: what is true        *)
(* between the two is up to the other requests.  What a function does       *)
(* after it has locked the account's row is one step, unless it has to      *)
(* wait for the lock of the administrator set as well.                      *)
(***************************************************************************)
EXTENDS Naturals

CONSTANTS
    Accounts,
    Tokens,         \* the tokens reset links can get
    Sessions,       \* the identities sessions can get
    Passwords,
    Published,      \* the default login's password, in the install guide
    Requests,       \* requests and commands under way at once
    Nobody

ASSUME CredentialsAssumption ==
    /\ Published \in Passwords
    /\ Nobody \notin Accounts \cup Sessions

VARIABLES
    account,    \* auth_user: active and email_verified
    password,   \* auth_account: each account's one credential; no account, Published
    admins,     \* installation_admin
    default,    \* default_login
    workspace,  \* is there a workspace?
    link,       \* password_reset
    session,    \* auth_session
    job,        \* what each request has read, and is about to do
    remembered  \* lib/setup.ts: the web process takes setup for complete

vars == <<account, password, admins, default, workspace, link, session, job, remembered>>

Idle == [op |-> "idle"]
NoSession == [of |-> Nobody]
NoLink == [state |-> "unused"]
Losing == {"revoke", "suspend", "delete"}

\* with is the password the session was opened with, or last set itself.
Session == [of : Accounts, with : Passwords]
\* replaces is the account's password when the link was made.
Link == [state : {"open", "expired"}, of : Accounts,
         via : {"operator", "administrator"}, replaces : Passwords]
        \cup [state : {"unused", "used", "closed"}]
Job == [op : {"sign-in"}, who : Accounts, with : Passwords]
       \cup [op : {"change"}, who : Accounts, with : Passwords, from : Sessions]
       \cup [op : {"redeem"}, who : Accounts, token : Tokens]
       \cup [op : {"issue"}, who : Accounts]
       \cup [op : Losing, who : Accounts, others : BOOLEAN]

Init ==
    /\ account = [a \in Accounts |-> "none"]
    /\ password = [a \in Accounts |-> Published]
    /\ admins = {}
    /\ default = Nobody
    /\ workspace = FALSE
    /\ link = [t \in Tokens |-> NoLink]
    /\ session = [s \in Sessions |-> NoSession]
    /\ job = [r \in Requests |-> Idle]
    /\ remembered = FALSE

-----------------------------------------------------------------------------
\* lock_account: held by a request that waits for nothing else but its own end.
RowFree(a) == \A r \in Requests : job[r].op \in Losing => job[r].who # a

\* Mutant: the administrator set has no lock of its own.
SetUnlocked == TRUE

\* lock_admin_set, always taken after the account's row.
SetFree == \A r \in Requests : job[r].op \notin Losing

\* effective_admins_except is not zero.
OtherAdmins(a) == \E b \in admins \ {a} : account[b] = "active"

\* Mutant: the links an account has are left open.
CloseNothing(a) == link

\* close_password_resets: expired links are closed too.
CloseLinks(a) ==
    [t \in Tokens |-> IF link[t].state \in {"open", "expired"} /\ link[t].of = a
                      THEN [state |-> "closed"] ELSE link[t]]

EndSessions(a, keep) ==
    [s \in Sessions |-> IF session[s].of = a /\ s # keep THEN NoSession ELSE session[s]]

\* currentSession: the account can still sign in.
SignedIn(s) == session[s].of # Nobody /\ account[session[s].of] = "active"

\* What requireSession lets through, as an installation administrator.
Administrator(a) ==
    /\ a \in admins /\ account[a] = "active" /\ a # default
    /\ \E s \in Sessions : session[s].of = a

SetupState == IF default # Nobody THEN "default-login"
              ELSE IF \A a \in Accounts : account[a] = "none" THEN "no-account" ELSE "complete"

Becomes(r, j) == job' = [job EXCEPT ![r] = j]

-----------------------------------------------------------------------------
(* The first start and the end of setup.                                    *)

\* Mutant: a database with a workspace but no account gets one as well.
CreateDefaultAgain(a) ==
    /\ default = Nobody /\ account[a] = "none"
    /\ account' = [account EXCEPT ![a] = "active"]
    /\ password' = [password EXCEPT ![a] = Published]
    /\ admins' = admins \cup {a}
    /\ default' = a
    /\ UNCHANGED <<workspace, link, session, job, remembered>>

\* operator_create_default_login, under the lock that finish_setup takes too.
CreateDefaultLogin(a) ==
    /\ \A b \in Accounts : account[b] = "none"
    /\ ~ workspace
    /\ account' = [account EXCEPT ![a] = "active"]
    /\ password' = [password EXCEPT ![a] = Published]
    /\ admins' = admins \cup {a}
    /\ default' = a
    /\ UNCHANGED <<workspace, link, session, job, remembered>>

\* finish_setup, with a password of twelve characters or more.
FinishSetup(s, p) ==
    /\ SignedIn(s) /\ session[s].of = default
    /\ RowFree(default)
    /\ p # Published
    /\ default' = Nobody
    /\ link' = CloseLinks(default)
    /\ password' = [password EXCEPT ![default] = p]
    /\ session' = [EndSessions(default, s) EXCEPT ![s].with = p]
    /\ workspace' = TRUE
    /\ UNCHANGED <<account, admins, job, remembered>>

\* The web process asks once more until setup is complete.
Remember ==
    /\ ~ remembered /\ SetupState = "complete"
    /\ remembered' = TRUE
    /\ UNCHANGED <<account, password, admins, default, workspace, link, session, job>>

WebRestarts ==
    /\ remembered
    /\ remembered' = FALSE
    /\ UNCHANGED <<account, password, admins, default, workspace, link, session, job>>

-----------------------------------------------------------------------------
(* Accounts: an invitation is accepted, the operator suspends, lets back in *)
(* and deletes by hand.                                                     *)

SignUp(a, p) ==
    /\ workspace /\ account[a] = "none"
    /\ account' = [account EXCEPT ![a] = "unverified"]
    /\ password' = [password EXCEPT ![a] = p]
    /\ UNCHANGED <<admins, default, workspace, link, session, job, remembered>>

MarkEmailVerified(a) ==
    /\ account[a] = "unverified"
    /\ account' = [account EXCEPT ![a] = "active"]
    /\ UNCHANGED <<password, admins, default, workspace, link, session, job, remembered>>

Reactivate(a) ==
    /\ account[a] = "suspended" /\ RowFree(a)
    /\ account' = [account EXCEPT ![a] = "active"]
    /\ UNCHANGED <<password, admins, default, workspace, link, session, job, remembered>>

\* Sign-in: the library checks the password and the address.
CheckPassword(r, a) ==
    /\ job[r] = Idle
    /\ account[a] \in {"active", "suspended"}
    /\ Becomes(r, [op |-> "sign-in", who |-> a, with |-> password[a]])
    /\ UNCHANGED <<account, password, admins, default, workspace, link, session, remembered>>

\* It then opens a session, unless the hook finds the account suspended.
CreateSession(r, s) ==
    /\ job[r].op = "sign-in" /\ session[s] = NoSession
    /\ session' = IF account[job[r].who] = "active"
                  THEN [session EXCEPT ![s] = [of |-> job[r].who, with |-> job[r].with]]
                  ELSE session
    /\ Becomes(r, Idle)
    /\ UNCHANGED <<account, password, admins, default, workspace, link, remembered>>

SignOut(s) ==
    /\ session[s] # NoSession
    /\ session' = [session EXCEPT ![s] = NoSession]
    /\ UNCHANGED <<account, password, admins, default, workspace, link, job, remembered>>

-----------------------------------------------------------------------------
(* Changing one's own password: the route checks the current one against    *)
(* the stored hash, the function that the hash is still the same.           *)

CheckCurrent(r, s) ==
    /\ job[r] = Idle /\ SignedIn(s)
    /\ Becomes(r, [op |-> "change", who |-> session[s].of, with |-> password[session[s].of],
                   from |-> s])
    /\ UNCHANGED <<account, password, admins, default, workspace, link, session, remembered>>

\* Mutant: whatever the password is by now is replaced.
ChangeUnchecked(r, p) ==
    /\ job[r].op = "change"
    /\ LET a == job[r].who
       IN  /\ account[a] \in {"active", "suspended"} /\ RowFree(a) /\ a # default
           /\ link' = CloseLinks(a)
           /\ password' = [password EXCEPT ![a] = p]
           /\ session' = [s \in Sessions |->
                 IF session[s].of # a THEN session[s]
                 ELSE IF s = job[r].from THEN [session[s] EXCEPT !.with = p] ELSE NoSession]
    /\ Becomes(r, Idle)
    /\ UNCHANGED <<account, admins, default, workspace, remembered>>

\* change_own_password: it asks whether the account may act before it waits for the
\* account's row and not again, so one suspended meanwhile still gets its password.
\* A default login's password is guarded by a trigger.
ChangeOwnPassword(r, p) ==
    /\ job[r].op = "change"
    /\ LET a == job[r].who
       IN  /\ account[a] \in {"active", "suspended"} /\ RowFree(a) /\ a # default
           /\ password[a] = job[r].with /\ p # job[r].with
           /\ link' = CloseLinks(a)
           /\ password' = [password EXCEPT ![a] = p]
           /\ session' = [s \in Sessions |->
                 IF session[s].of # a THEN session[s]
                 ELSE IF s = job[r].from THEN [session[s] EXCEPT !.with = p] ELSE NoSession]
    /\ Becomes(r, Idle)
    /\ UNCHANGED <<account, admins, default, workspace, remembered>>

-----------------------------------------------------------------------------
(* Reset links.                                                             *)

\* The link takes the place of any the account has.
NewLink(t, a, via) ==
    /\ link[t] = NoLink
    /\ link' = [CloseLinks(a) EXCEPT ![t] =
                   [state |-> "open", of |-> a, via |-> via, replaces |-> password[a]]]

\* operator_issue_password_reset, which asks first for the default login.
OperatorIssues(t, a) ==
    /\ a # default /\ account[a] = "active" /\ RowFree(a)
    /\ NewLink(t, a, "operator")
    /\ UNCHANGED <<account, password, admins, default, workspace, session, job, remembered>>

\* admin_issue_password_reset: permission first,
AskIssue(r, by, a) ==
    /\ job[r] = Idle
    /\ Administrator(by) /\ a # by
    /\ Becomes(r, [op |-> "issue", who |-> a])
    /\ UNCHANGED <<account, password, admins, default, workspace, link, session, remembered>>

\* Mutant: whether the account is an administrator was looked up before its lock.
IssueToAnyone(r, t) ==
    /\ job[r].op = "issue"
    /\ account[job[r].who] = "active" /\ RowFree(job[r].who)
    /\ NewLink(t, job[r].who, "administrator")
    /\ Becomes(r, Idle)
    /\ UNCHANGED <<account, password, admins, default, workspace, session, remembered>>

\* then, under the account's lock, what it is now.
AdministratorIssues(r, t) ==
    /\ job[r].op = "issue"
    /\ account[job[r].who] = "active" /\ RowFree(job[r].who)
    /\ job[r].who \notin admins
    /\ NewLink(t, job[r].who, "administrator")
    /\ Becomes(r, Idle)
    /\ UNCHANGED <<account, password, admins, default, workspace, session, remembered>>

AdministratorCancels(by, a) ==
    /\ Administrator(by) /\ account[a] # "none" /\ RowFree(a)
    /\ link' = CloseLinks(a) /\ link' # link
    /\ UNCHANGED <<account, password, admins, default, workspace, session, job, remembered>>

\* describe_password_reset, from the page or as the form is sent.
DescribeLink(r, t) ==
    /\ job[r] = Idle
    /\ link[t].state = "open" /\ account[link[t].of] = "active"
    /\ Becomes(r, [op |-> "redeem", who |-> link[t].of, token |-> t])
    /\ UNCHANGED <<account, password, admins, default, workspace, link, session, remembered>>

\* Mutant: a link that was there when the form was sent is used.
RedeemLate(r, p) ==
    /\ job[r].op = "redeem"
    /\ LET a == job[r].who  t == job[r].token
       IN  /\ account[a] = "active" /\ RowFree(a) /\ a # default
           /\ link' = [link EXCEPT ![t] = [state |-> "used"]]
           /\ password' = [password EXCEPT ![a] = p]
           /\ session' = EndSessions(a, Nobody)
    /\ Becomes(r, Idle)
    /\ UNCHANGED <<account, admins, default, workspace, remembered>>

\* redeem_password_reset reads the link again under the account's lock.
RedeemLink(r, p) ==
    /\ job[r].op = "redeem"
    /\ LET a == job[r].who  t == job[r].token
       IN  /\ account[a] = "active" /\ RowFree(a) /\ a # default
           /\ link[t].state = "open"
           /\ link' = [link EXCEPT ![t] = [state |-> "used"]]
           /\ password' = [password EXCEPT ![a] = p]
           /\ session' = EndSessions(a, Nobody)
    /\ Becomes(r, Idle)
    /\ UNCHANGED <<account, admins, default, workspace, remembered>>

\* Twenty-four hours later.
Expire(t) ==
    /\ link[t].state = "open"
    /\ link' = [link EXCEPT ![t].state = "expired"]
    /\ UNCHANGED <<account, password, admins, default, workspace, session, job, remembered>>

-----------------------------------------------------------------------------
(* Installation administrators.                                             *)

OperatorGrants(a) ==
    /\ account[a] = "active" /\ RowFree(a) /\ SetFree
    /\ a \notin admins
    /\ admins' = admins \cup {a}
    /\ UNCHANGED <<account, password, default, workspace, link, session, job, remembered>>

\* operator_revoke_administrator, or a change of auth_user that its trigger
\* keep_an_administrator sees: with both locks, are there others?
StartLosing(r, how, a) ==
    /\ job[r] = Idle
    /\ account[a] # "none" /\ RowFree(a)
    /\ how = "suspend" => account[a] = "active"
    /\ IF a \in admins
       THEN SetFree /\ Becomes(r, [op |-> how, who |-> a, others |-> OtherAdmins(a)])
       ELSE how # "revoke" /\ Becomes(r, [op |-> how, who |-> a, others |-> TRUE])
    /\ UNCHANGED <<account, password, admins, default, workspace, link, session, remembered>>

Last(r) == account[job[r].who] = "active" /\ ~ job[r].others

RefuseLast(r) ==
    /\ job[r].op \in Losing /\ Last(r)
    /\ Becomes(r, Idle)
    /\ UNCHANGED <<account, password, admins, default, workspace, link, session, remembered>>

RevokeAdministrator(r) ==
    /\ job[r].op = "revoke" /\ ~ Last(r)
    /\ admins' = admins \ {job[r].who}
    /\ Becomes(r, Idle)
    /\ UNCHANGED <<account, password, default, workspace, link, session, remembered>>

Suspend(r) ==
    /\ job[r].op = "suspend" /\ ~ Last(r)
    /\ account' = [account EXCEPT ![job[r].who] = "suspended"]
    /\ Becomes(r, Idle)
    /\ UNCHANGED <<password, admins, default, workspace, link, session, remembered>>

\* ON DELETE CASCADE takes the sessions, links and rows of the account along.
DeleteAccount(r) ==
    /\ job[r].op = "delete" /\ ~ Last(r)
    /\ LET a == job[r].who
       IN  /\ account' = [account EXCEPT ![a] = "none"]
           /\ admins' = admins \ {a}
           /\ default' = IF default = a THEN Nobody ELSE default
           /\ session' = EndSessions(a, Nobody)
           /\ link' = CloseLinks(a)
           /\ password' = [password EXCEPT ![a] = Published]
    /\ Becomes(r, Idle)
    /\ UNCHANGED <<workspace, remembered>>

\* A refusal of what a request is about to do, or its end.
Abandon(r) ==
    /\ job[r] # Idle
    /\ Becomes(r, Idle)
    /\ UNCHANGED <<account, password, admins, default, workspace, link, session, remembered>>

Setup == (\E a \in Accounts : CreateDefaultLogin(a))
         \/ (\E s \in Sessions, p \in Passwords : FinishSetup(s, p)) \/ Remember \/ WebRestarts
People == \E a \in Accounts :
             \/ \E p \in Passwords : SignUp(a, p)
             \/ MarkEmailVerified(a) \/ Reactivate(a) \/ OperatorGrants(a)
SigningIn == \/ \E r \in Requests : \/ \E a \in Accounts : CheckPassword(r, a)
                                    \/ \E s \in Sessions : CreateSession(r, s)
             \/ \E s \in Sessions : SignOut(s)
OwnPassword == \E r \in Requests : \/ \E s \in Sessions : CheckCurrent(r, s)
                                   \/ \E p \in Passwords : ChangeOwnPassword(r, p)
Links ==
    \/ \E t \in Tokens, a \in Accounts : OperatorIssues(t, a)
    \/ \E r \in Requests, by, a \in Accounts : AskIssue(r, by, a)
    \/ \E r \in Requests, t \in Tokens : AdministratorIssues(r, t) \/ DescribeLink(r, t)
    \/ \E by, a \in Accounts : AdministratorCancels(by, a)
    \/ \E r \in Requests, p \in Passwords : RedeemLink(r, p)
    \/ \E t \in Tokens : Expire(t)
Losses == \E r \in Requests :
             \/ \E how \in Losing, a \in Accounts : StartLosing(r, how, a)
             \/ RefuseLast(r) \/ RevokeAdministrator(r) \/ Suspend(r) \/ DeleteAccount(r)
             \/ Abandon(r)

Next == Setup \/ People \/ SigningIn \/ OwnPassword \/ Links \/ Losses
Spec == Init /\ [][Next]_vars

-----------------------------------------------------------------------------
(* Properties *)

TypeOK ==
    /\ account \in [Accounts -> {"none", "unverified", "active", "suspended"}]
    /\ password \in [Accounts -> Passwords]
    /\ admins \subseteq Accounts
    /\ default \in Accounts \cup {Nobody}
    /\ workspace \in BOOLEAN /\ remembered \in BOOLEAN
    /\ link \in [Tokens -> Link]
    /\ session \in [Sessions -> Session \cup {NoSession}]
    /\ job \in [Requests -> Job \cup {Idle}]

\* Once setup is finished there is an installation administrator who can sign in,
\* however revoking, suspending and deleting administrators interleave.
KeepsAnAdministrator == workspace \/ admins # {} => \E a \in admins : account[a] = "active"

\* Setup ends once. The web process is right to remember that it is complete: it
\* never becomes unfinished again. Until it ends, the default login is the only
\* account, has the password the install guide says, and nothing was made with it.
SetupEndsOnce ==
    /\ remembered => SetupState = "complete"
    /\ default # Nobody =>
           /\ password[default] = Published
           /\ ~ workspace
           /\ \A a \in Accounts \ {default} : account[a] = "none"
           /\ \A t \in Tokens : link[t].state # "open"

\* A link that works was made for the password the account still has, and no
\* account has two: every other way of setting a password closes it.
LinksAreCurrent ==
    \A t \in Tokens : link[t].state = "open" =>
        /\ link[t].replaces = password[link[t].of]
        /\ \A u \in Tokens \ {t} : link[u].state = "open" => link[u].of # link[t].of

\* No administrator makes a link for another one, whenever that one was made
\* an administrator: "a grant cannot slip in between this check and the link".
LinksSpareAdministrators ==
    \A t \in Tokens :
       link[t] = NoLink /\ link'[t] # NoLink /\ link'[t].via = "administrator"
           => link'[t].of \notin admins

\* A password is replaced by finishing setup, by a link that works at that
\* moment, or by someone who has shown the password it has at that moment.
PasswordChangesAreProved ==
    \A a \in Accounts :
       password'[a] # password[a] =>
           \/ account[a] = "none" \/ account'[a] = "none"
           \/ default = a /\ default' = Nobody
           \/ \E t \in Tokens : link[t].state = "open" /\ link'[t].state = "used" /\ link[t].of = a
           \/ \E r \in Requests : job[r].op = "change" /\ job[r].who = a
                                  /\ job[r].with = password[a]

\* Nobody gets into an account by another way than its owner's or an administrator's
\* that the database allows: of the links that are made and the passwords that are
\* set, each is allowed at the moment it happens, whatever was read before.
NobodyTakesOver == [][LinksSpareAdministrators /\ PasswordChangesAreProved]_vars
=============================================================================
